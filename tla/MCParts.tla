------------------------------- MODULE MCParts -------------------------------
(***************************************************************************)
(* Instances of the smaller parts for TLC, side by side: the board, the    *)
(* manifest check, redeployment, a season, the roster, the rate limit and the addresses.  *)
(* They share nothing, so one run takes them in turns: `part` says which   *)
(* of them runs in a behaviour, and the others stay as they began.         *)
(***************************************************************************)
EXTENDS Scoreboard, ManifestCheck, MCDeploys, Season, Roster, Limiter, Addresses

VARIABLE part

\* For the manifest check: names nobody knows, and ports missing, zero, unreadable,
\* too large and in range.
MCTransportNames == Transports \cup {"sctp"}
MCVersionNames == HttpVersions \cup {"4"}
MCPorts == {Absent, 0, Garbled, 8080, 65536}

partsVars == <<part, boardVars, raw, vars, seasonVars, rosterVars, limiterVars, addressVars>>

PartsInit ==
  /\ BoardInit /\ CheckInit /\ Init /\ SeasonInit /\ RosterInit /\ LimiterInit /\ AddressInit
  /\ part \in {"board", "manifest", "deploys", "season", "roster", "limiter", "addresses"}
  /\ part # "roster" => Head(listed) = "ann"
  /\ part # "addresses" => blocks = <<"ann", "bob">>

PartsNext ==
  /\ \/ part = "board" /\ BoardNext
        /\ UNCHANGED <<raw, vars, seasonVars, rosterVars, limiterVars, addressVars>>
     \/ part = "manifest" /\ CheckNext
        /\ UNCHANGED <<boardVars, vars, seasonVars, rosterVars, limiterVars, addressVars>>
     \/ part = "deploys" /\ Next
        /\ UNCHANGED <<boardVars, raw, seasonVars, rosterVars, limiterVars, addressVars>>
     \/ part = "season" /\ SeasonNext
        /\ UNCHANGED <<boardVars, raw, vars, rosterVars, limiterVars, addressVars>>
     \/ part = "roster" /\ RosterNext
        /\ UNCHANGED <<boardVars, raw, vars, seasonVars, limiterVars, addressVars>>
     \/ part = "limiter" /\ LimiterNext
        /\ UNCHANGED <<boardVars, raw, vars, seasonVars, rosterVars, addressVars>>
     \/ part = "addresses" /\ AddressNext
        /\ UNCHANGED <<boardVars, raw, vars, seasonVars, rosterVars, limiterVars>>
  /\ UNCHANGED part

\* The fairness of BoardFairSpec, of FairSpec and of RosterFairSpec.
PartsSpec ==
  /\ PartsInit /\ [][PartsNext]_partsVars
  /\ WF_boardVars(part = "board" /\ Step(Ticker))
  /\ WF_vars(part = "deploys" /\ WatcherStep)
  /\ \A p \in Players : WF_vars(part = "deploys" /\ Elapse(p))
  /\ WF_rosterVars(part = "roster" /\ Command)

-----------------------------------------------------------------------------
\* Each part's variables stay well-typed.
PartsTypeOK ==
  BoardTypeOK /\ TypeOK /\ SeasonTypeOK /\ RosterTypeOK /\ LimiterTypeOK /\ AddressTypeOK

\* BoardCatchesUp, of the behaviours in which somebody renders: once the ledger
\* rests, the board a reader finds shows it, whole.
RenderedBoardCatchesUp == part = "board" => BoardCatchesUp
=============================================================================
