------------------------------- MODULE Referee -------------------------------
(***************************************************************************)
(* The scoring system: the tick loop, the submission API, the operator's   *)
(* ctfctl and the deploys that land, each a process of its own, over one   *)
(* ledger.  Nothing but sqlite's statements keeps them apart.              *)
(***************************************************************************)
EXTENDS TickLoop, Submit

CONSTANTS
  Operators,     \* ctfctl invocations that may overlap
  GraceTicks,    \* game.sla_grace_ticks
  Deployers,     \* players whose repository is set up
  MaxDeploys,    \* bound: deploys that land
  Freezes        \* bound: whether the operator freezes at all

ASSUME OperatorAssumption ==
  /\ GraceTicks \in Nat
  /\ Deployers \subseteq Players
  /\ Freezes \in BOOLEAN

VARIABLES
  reviewing,     \* per operator: the submission id its `ctfctl review` fetched, or 0
  contested,     \* history: the submissions that two operators' reviews held at once
  landing,       \* per player: the grace_until a finishing deploy computed, or NoTick
  deploys        \* how many deploys landed

operatorVars == <<reviewing, contested, landing, deploys>>
vars == <<ledger, loopVars, submitVars, operatorVars>>

TypeOK ==
  /\ LedgerTypeOK
  /\ LoopTypeOK
  /\ SubmitTypeOK
  /\ reviewing \in [Operators -> Nat]
  /\ contested \subseteq Nat
  /\ landing \in [Players -> Nat \cup {NoTick}]
  /\ deploys \in Nat

Init ==
  /\ LedgerInit
  /\ LoopInit
  /\ SubmitInit
  /\ reviewing = [o \in Operators |-> 0]
  /\ contested = {}
  /\ landing = [p \in Players |-> NoTick]
  /\ deploys = 0

-----------------------------------------------------------------------------
(* ctfctl freeze and unfreeze. *)
Freeze(on) ==
  /\ Freezes
  /\ frozen # on
  /\ frozen' = on
  /\ UNCHANGED <<tick, players, flags, uptime, submissions, operatorVars>>

\* The row is held, and known to be contested if a colleague holds it already.
Fetch(o, id) ==
  /\ reviewing' = [reviewing EXCEPT ![o] = id]
  /\ contested' = contested \cup {n \in {id} : \E colleague \in Operators \ {o} : reviewing[colleague] = n}
  /\ UNCHANGED <<ledger, landing, deploys>>

\* Mutant of ReviewFetch: no check that the row is pending.
ReviewAny(o, id) ==
  /\ reviewing[o] = 0
  /\ submissions[id].claimed # NoClass
  /\ Fetch(o, id)

(* ctfctl review: the row is fetched, shown, and updated by its id.  The   *)
(* fetch and the update are two statements of two transactions, and        *)
(* nothing keeps a colleague's review out between them.                    *)
ReviewFetch(o, id) ==
  /\ reviewing[o] = 0
  /\ submissions[id].pending
  /\ Fetch(o, id)

ReviewDone(o) ==
  /\ reviewing' = [reviewing EXCEPT ![o] = 0]
  /\ UNCHANGED <<tick, frozen, players, flags, uptime, contested, landing, deploys>>

\* Mutant of Approve: the class is raised and the points are not.
ApproveClass(o) ==
  /\ reviewing[o] # 0
  /\ submissions' = [submissions EXCEPT
       ![reviewing[o]].klass = submissions[reviewing[o]].claimed,
       ![reviewing[o]].pending = FALSE]
  /\ ReviewDone(o)

\* The class and points come from the fetched row's claim, which never changes.
Approve(o) ==
  /\ reviewing[o] # 0
  /\ LET id == reviewing[o]
         claimed == submissions[id].claimed
     IN  submissions' = [submissions EXCEPT
           ![id].klass = claimed, ![id].points = AttackPoints[claimed], ![id].pending = FALSE]
  /\ ReviewDone(o)

Reject(o) ==
  /\ reviewing[o] # 0
  /\ submissions' = [submissions EXCEPT ![reviewing[o]].pending = FALSE]
  /\ ReviewDone(o)

(* The end of deploy(): once the healthcheck has passed, the grace is      *)
(* computed from the tick, and the deploy recorded.                        *)
ReadGrace(p) ==
  /\ landing[p] = NoTick
  /\ deploys < MaxDeploys
  /\ landing' = [landing EXCEPT ![p] = tick + GraceTicks]
  /\ deploys' = deploys + 1
  /\ UNCHANGED <<ledger, reviewing, contested>>

Land(p, manifest) ==
  /\ landing[p] # NoTick
  /\ RecordDeploy(p, manifest, landing[p])
  /\ landing' = [landing EXCEPT ![p] = NoTick]
  /\ UNCHANGED <<tick, frozen, flags, uptime, submissions, reviewing, contested, deploys>>

OperatorNext ==
  \/ \E on \in BOOLEAN : Freeze(on)
  \/ \E o \in Operators :
       \/ \E id \in DOMAIN submissions : ReviewFetch(o, id)
       \/ Approve(o)
       \/ Reject(o)
  \/ \E p \in Deployers : ReadGrace(p) \/ \E manifest \in Manifests : Land(p, manifest)

-----------------------------------------------------------------------------
Next ==
  \/ LoopNext /\ UNCHANGED <<submitVars, operatorVars>>
  \/ SubmitNext /\ UNCHANGED <<loopVars, operatorVars>>
  \/ OperatorNext /\ UNCHANGED <<loopVars, submitVars>>

Spec == Init /\ [][Next]_vars

\* The main thread is never blocked for good: the wait for a future has a time
\* limit and the sleep between ticks an end.  systemd restarts it (Restart=always).
FairSpec == Spec /\ WF_vars((MainStep \/ Restart) /\ UNCHANGED <<submitVars, operatorVars>>)
-----------------------------------------------------------------------------
(***************************************************************************)
(* Properties of captures.                                                 *)
(***************************************************************************)
Accepted(i) == submissions[i].verdict = "accepted"

\* RULES 6, submit.py 6-8: an attacker scores a flag once, however many of its
\* requests for it the referee handles, in whatever order.
ScoresOnce ==
  \A i, j \in DOMAIN submissions :
    /\ Accepted(i) /\ Accepted(j)
    /\ submissions[i].by = submissions[j].by
    /\ submissions[i].flag = submissions[j].flag
    => i = j

\* A steal that pays its attacker has cost its victim: while the flag's row is
\* there, a credited flag is marked stolen.  No crash between the two statements
\* (submit.py 109-110) credits without marking.
CreditedIsMarked ==
  \A i \in DOMAIN submissions, f \in flags :
    Accepted(i) /\ submissions[i].flag = f.flag => f.stolen_by # NoOne

\* A flag is marked only by another player and with a tick inside its life,
\* although the tick was read five statements before the mark (submit.py 74).
MarkedInItsLife ==
  \A f \in flags : f.stolen_by # NoOne =>
    /\ f.stolen_by # f.flag.player
    /\ f.flag.tick <= f.stolen_tick
    /\ f.stolen_tick < f.expires_tick

\* What an accepted row pays is the floor of where the flag lived, or the class
\* it claimed once an operator has approved it (submit.py 100-107, cmd_review).
PaidAsReviewed ==
  \A i \in DOMAIN submissions : Accepted(i) =>
    LET s == submissions[i]
        floor == AutoClass(s.flag.protocol)
    IN  /\ s.points = AttackPoints[s.klass]
        /\ s.klass # floor => s.klass = s.claimed /\ ClaimsAbove(s.claimed, s.flag.protocol)
        /\ s.pending => s.klass = floor /\ ClaimsAbove(s.claimed, s.flag.protocol)

\* cmd_review: a submission that has nothing pending is decided for good, unless
\* two operators' reviews of it overlapped: both found it pending, and the later
\* update overrules the earlier (ctfctl 242, 256-263).
DecidedIsFinal ==
  [][\A i \in DOMAIN submissions :
       ~submissions[i].pending /\ i \notin contested => submissions'[i] = submissions[i]]_submissions

\* The ledger's captures are a Game: see the module of that name.
Captures == {<<submissions[i].by, submissions[i].flag>> : i \in {n \in DOMAIN submissions : Accepted(n)}}

Opened == [t \in Threads |-> IF requests[t].at = "idle" THEN NoFlag ELSE requests[t].tick]

Vouched == [t \in Threads |->
  IF requests[t].at \in {"manifest", "already", "mark", "record"} THEN requests[t].flag ELSE NoFlag]

Abstract == INSTANCE Game WITH
  Lifetime <- K, Nothing <- NoFlag, clock <- tick, live <- {f.flag : f \in flags},
  opened <- Opened, vouched <- Vouched, captures <- Captures

RefinesGame == Abstract!Spec

-----------------------------------------------------------------------------
(***************************************************************************)
(* Properties of the rounds.                                               *)
(***************************************************************************)
\* RULES 6, "no hoarding": a rung never has more than K flags that can still be
\* redeemed, whatever jobs of earlier ticks are still planting.
LiveWindow ==
  \A p \in Players, rung \in Rungs :
    Cardinality({f \in flags : /\ f.flag.player = p /\ f.flag.protocol = rung
                              /\ f.expires_tick > tick}) <= K

\* A rung that was up keeps the flag planted then until its SLA fetch, K-1 ticks
\* later, is over: the boundary between expire() and flag_for_sla().
SlaFlagRetained ==
  \A u \in uptime :
    /\ u.ok /\ ~u.grace /\ CarriesFlags(u.protocol, UdpFixture) /\ u.tick + K > tick
    => FlagForSla(u.player, u.protocol, u.tick) # {}

\* A recorded result is never taken back: later statements for the same tick and
\* rung leave ok and grace alone and only ever raise the points by the bonus.
ResultsStand ==
  [][\A u \in uptime : \E v \in uptime' :
       /\ <<v.tick, v.player, v.protocol, v.ok, v.grace>> =
            <<u.tick, u.player, u.protocol, u.ok, u.grace>>
       /\ \/ v.points = u.points
          \/ u.ok /\ v.points = UptimePoints[u.protocol] + DefenseBonus]_uptime

Settling == pc \in {"dispatch", "await"} /\ round > 1 /\ DefenseBonus > 0

\* OPERATIONS 246-247: the bonus for tick T is awarded at the start of T+1, to
\* every rung that was up in T and has no steal of T on record.
UnstolenIsPaid ==
  Settling => \A u \in uptime :
    u.tick = round - 1 /\ u.ok /\ u.protocol \notin StolenThisTick(u.player, u.tick)
    => u.points = UptimePoints[u.protocol] + DefenseBonus

\* The same for every tick that has passed, of the rungs no flag of which was
\* ever marked: a death of the loop costs the bonus of one tick at most, however
\* far into the settlement it comes (tick.py 188-190).
LossesPerCrash ==
  Settling /\ outages = 0 =>
    LET Marked == {s.flag : s \in {submissions[i] : i \in {n \in DOMAIN submissions : Accepted(n)}}}
                    \cup {requests[t].flag : t \in {n \in Threads : requests[n].at = "record"}}
        Untouched(u) == \A f \in Marked : f.player # u.player \/ f.protocol # u.protocol
        unpaid == {u \in uptime : /\ u.tick < round /\ u.ok /\ Untouched(u)
                                  /\ u.points = UptimePoints[u.protocol]}
    IN  Cardinality({u.tick : u \in unpaid}) <= crashes

-----------------------------------------------------------------------------
(***************************************************************************)
(* Liveness.                                                               *)
(***************************************************************************)
\* A tick that has begun is completed even if no probe ever returns.
TickCompletes == pc \in {"advance", "settle", "await"} ~> pc = "idle"
=============================================================================
