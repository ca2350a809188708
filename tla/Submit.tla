------------------------------- MODULE Submit -------------------------------
(***************************************************************************)
(* The submission API (orchestrator/submit.py): an HTTP server with one    *)
(* thread per request.  Referee.submit runs unlocked, a few ledger         *)
(* statements in a row, and whatever else writes the ledger runs between   *)
(* them.  The model starts a request where its first statement is: what    *)
(* lines 63-72 turn away (token, rate, shape) never touches the ledger.    *)
(***************************************************************************)
EXTENDS Ledger

CONSTANTS
  Threads,          \* handler threads
  Client,           \* the player whose requests a thread serves
  Claims,           \* the classes requests may claim, NoClass for none
  MaxSubmissions,   \* bound: requests that may reach the ledger
  MaxOutages        \* bound: how often the server dies

ASSUME SubmitAssumption ==
  /\ Client \in [Threads -> Players]
  /\ Claims \subseteq Classes \cup {NoClass}
  /\ NoFlag \notin Tokens \cup Nat

VARIABLES
  requests,         \* a thread's place in Referee.submit and its locals
  outages           \* how often the server died

submitVars == <<requests, outages>>

Steps == {"idle", "find", "manifest", "already", "mark", "record"}

RequestStates ==
  [at: Steps, flag: Tokens \cup {NoFlag}, claimed: Classes \cup {NoClass},
   writeup: BOOLEAN, tick: Nat]

Idle == [at |-> "idle", flag |-> NoFlag, claimed |-> NoClass, writeup |-> FALSE, tick |-> 0]

SubmitTypeOK ==
  /\ requests \in [Threads -> RequestStates]
  /\ outages \in Nat

SubmitInit ==
  /\ requests = [t \in Threads |-> Idle]
  /\ outages = 0

InFlight == {t \in Threads : requests[t].at # "idle"}

-----------------------------------------------------------------------------
(* The class a capture is paid at, and the review it may be held for. *)

AutoClass(rung) == IF rung = "udp" THEN "transport" ELSE "app"

ClassRank(class) == CASE class = "app" -> 0 [] class = "transport" -> 1 [] class = "rce" -> 2

ClaimsAbove(claimed, rung) ==
  claimed # NoClass /\ ClassRank(claimed) > ClassRank(AutoClass(rung))

-----------------------------------------------------------------------------
Goto(t, at) == requests' = [requests EXCEPT ![t].at = at]

Finish(t) == requests' = [requests EXCEPT ![t] = Idle]

Refuse(t, verdict) ==
  LET r == requests[t]
  IN  /\ Record(Client[t], r.flag, verdict, NoClass, r.claimed, 0, FALSE)
      /\ Finish(t)
      /\ UNCHANGED <<tick, frozen, players, flags, uptime, outages>>

\* A request passes the checks in front of the ledger and reads the tick.  A
\* client can name only a token it has seen, or make one up; a write-up matters
\* only beside a claim.
Arrive(t, flag, claimed, writeup) ==
  /\ requests[t].at = "idle"
  /\ writeup => claimed # NoClass
  /\ Len(submissions) + Cardinality(InFlight) < MaxSubmissions
  /\ requests' = [requests EXCEPT ![t] =
       [at |-> "find", flag |-> flag, claimed |-> claimed, writeup |-> writeup, tick |-> tick]]
  /\ UNCHANGED <<ledger, outages>>

(* find_live_flag, and the two verdicts that need nothing but its row.     *)
RefuseInvalid(t) ==
  /\ requests[t].at = "find"
  /\ FindLiveFlag(requests[t].flag, requests[t].tick) = {}
  /\ Refuse(t, "invalid-or-expired")

RefuseOwn(t) ==
  /\ requests[t].at = "find"
  /\ FindLiveFlag(requests[t].flag, requests[t].tick) # {}
  /\ requests[t].flag.player = Client[t]
  /\ Refuse(t, "own-flag")

Find(t) ==
  /\ requests[t].at = "find"
  /\ FindLiveFlag(requests[t].flag, requests[t].tick) # {}
  /\ requests[t].flag.player # Client[t]
  /\ Goto(t, "manifest")
  /\ UNCHANGED <<ledger, outages>>

\* The owner's manifest as it is now, not as it was at planting.
RefuseUndeclared(t) ==
  /\ requests[t].at = "manifest"
  /\ requests[t].flag.protocol \notin DeclaredOf(requests[t].flag.player)
  /\ Refuse(t, "undeclared-transport")

CheckManifest(t) ==
  /\ requests[t].at = "manifest"
  /\ requests[t].flag.protocol \in DeclaredOf(requests[t].flag.player)
  /\ Goto(t, "already")
  /\ UNCHANGED <<ledger, outages>>

(* The SELECT for an accepted row, and the class claimed.                  *)
RefuseDuplicate(t) ==
  /\ requests[t].at = "already"
  /\ Captured(Client[t], requests[t].flag)
  /\ Refuse(t, "duplicate")

\* Mutant of RefuseBareClaim: the answer is recorded like the other refusals.
RecordBareClaim(t) ==
  /\ requests[t].at = "already"
  /\ ~Captured(Client[t], requests[t].flag)
  /\ ClaimsAbove(requests[t].claimed, requests[t].flag.protocol)
  /\ ~requests[t].writeup
  /\ Refuse(t, "writeup-required")

\* "writeup-required" is answered without a ledger row.
RefuseBareClaim(t) ==
  /\ requests[t].at = "already"
  /\ ~Captured(Client[t], requests[t].flag)
  /\ ClaimsAbove(requests[t].claimed, requests[t].flag.protocol)
  /\ ~requests[t].writeup
  /\ Finish(t)
  /\ UNCHANGED <<ledger, outages>>

\* Mutant of Judge: the capture is recorded and the flag left unmarked.
JudgeOnly(t) ==
  /\ requests[t].at = "already"
  /\ ~Captured(Client[t], requests[t].flag)
  /\ ClaimsAbove(requests[t].claimed, requests[t].flag.protocol) => requests[t].writeup
  /\ Goto(t, "record")
  /\ UNCHANGED <<ledger, outages>>

Judge(t) ==
  /\ requests[t].at = "already"
  /\ ~Captured(Client[t], requests[t].flag)
  /\ ClaimsAbove(requests[t].claimed, requests[t].flag.protocol) => requests[t].writeup
  /\ Goto(t, "mark")
  /\ UNCHANGED <<ledger, outages>>

Mark(t) ==
  /\ requests[t].at = "mark"
  /\ MarkStolen(requests[t].flag, Client[t], requests[t].tick)
  /\ Goto(t, "record")
  /\ UNCHANGED <<tick, frozen, players, uptime, submissions, outages>>

Accept(t) ==
  LET r == requests[t]
      class == AutoClass(r.flag.protocol)
  IN  /\ r.at = "record"
      /\ Record(Client[t], r.flag, "accepted", class, r.claimed, AttackPoints[class],
                ClaimsAbove(r.claimed, r.flag.protocol))
      /\ Finish(t)
      /\ UNCHANGED <<tick, frozen, players, flags, uptime, outages>>

\* The server dies and systemd starts it again: every request in it is gone.
Outage ==
  /\ outages < MaxOutages
  /\ InFlight # {}
  /\ outages' = outages + 1
  /\ requests' = [t \in Threads |-> Idle]
  /\ UNCHANGED ledger

Handle(t) ==
  \/ RefuseInvalid(t) \/ RefuseOwn(t) \/ Find(t)
  \/ RefuseUndeclared(t) \/ CheckManifest(t)
  \/ RefuseDuplicate(t) \/ RefuseBareClaim(t) \/ Judge(t)
  \/ Mark(t) \/ Accept(t)

SubmitNext ==
  \/ \E t \in Threads :
       \/ \E flag \in {f.flag : f \in flags} \cup {NoFlag}, claimed \in Claims, writeup \in BOOLEAN :
            Arrive(t, flag, claimed, writeup)
       \/ Handle(t)
  \/ Outage
=============================================================================
