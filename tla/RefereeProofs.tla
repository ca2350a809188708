---------------------------- MODULE RefereeProofs ----------------------------
(***************************************************************************)
(* Theorems about Referee, for every roster, pool size, thread count and   *)
(* bound.                                                                  *)
(***************************************************************************)
EXTENDS Referee, SequenceTheorems, FiniteSetTheorems, TLAPS

-----------------------------------------------------------------------------
(***************************************************************************)
(* Who writes what: the tables and local variables that each process       *)
(* leaves alone, and the steps that write the others.                      *)
(***************************************************************************)
LEMMA JobWrites ==
  ASSUME JobStep
  PROVE  /\ UNCHANGED <<tick, frozen, players, submissions, main>>
         /\ UNCHANGED flags \/ \E j \in jobs : \E rung \in j.todo : ProbePlant(j, rung)
         /\ \/ UNCHANGED uptime
            \/ \E j \in jobs : \E rung \in j.todo, ok \in BOOLEAN : ProbeResult(j, rung, ok) \/ SlaCheck(j, rung, ok)
<1>1. ASSUME NEW j \in jobs, StartJob(j) \/ JobRaises(j)
      PROVE  UNCHANGED <<ledger, main>>
  BY <1>1 DEF StartJob, JobRaises
<1>2. ASSUME NEW j \in jobs, NEW rung, ProbePlant(j, rung)
      PROVE  UNCHANGED <<tick, frozen, players, submissions, uptime, main>>
  BY <1>2 DEF ProbePlant
<1>3. ASSUME NEW j \in jobs, NEW rung, NEW ok, ProbeResult(j, rung, ok) \/ SlaCheck(j, rung, ok)
      PROVE  UNCHANGED <<tick, frozen, players, submissions, flags, main>>
  BY <1>3 DEF ProbeResult, SlaCheck, RecordResult
<1> QED
  BY <1>1, <1>2, <1>3 DEF JobStep, ledger

LEMMA MainWrites ==
  ASSUME MainStep
  PROVE  /\ UNCHANGED <<frozen, players, submissions>>
         /\ UNCHANGED tick \/ AdvanceTick
         /\ UNCHANGED flags \/ ExpireFlags
         /\ UNCHANGED uptime \/ \E u \in payable : SettlePay(u)
         /\ UNCHANGED jobs \/ RunTick
<1>1. CASE ReadTick \/ SettleNext
  BY <1>1 DEF ReadTick, SettleNext, ledger
<1>2. CASE AdvanceTick
  BY <1>2 DEF AdvanceTick
<1>3. CASE \E p \in owing : SettleStolen(p) \/ SettleRows(p)
  BY <1>3 DEF SettleStolen, SettleRows, ledger
<1>4. CASE \E u \in payable : SettlePay(u)
  BY <1>4 DEF SettlePay
<1>5. CASE RunTick
  BY <1>5 DEF RunTick, ledger
<1>6. CASE \E p \in awaiting : AwaitDone(p) \/ AwaitTimeout(p)
  BY <1>6 DEF AwaitDone, AwaitTimeout, Await, ledger
<1>7. CASE ExpireFlags
  BY <1>7 DEF ExpireFlags
<1> QED
  BY <1>1, <1>2, <1>3, <1>4, <1>5, <1>6, <1>7 DEF MainStep

LEMMA DeathWrites ==
  ASSUME Rest \/ Crash \/ Restart
  PROVE  UNCHANGED ledger /\ jobs' \in {jobs, {}}
BY DEF Rest, Crash, Restart, loopVars

\* The loop as a whole.
LEMMA LoopWrites ==
  ASSUME LoopNext
  PROVE  /\ UNCHANGED <<frozen, players, submissions>>
         /\ UNCHANGED tick \/ AdvanceTick
         /\ \/ UNCHANGED flags
            \/ ExpireFlags
            \/ \E j \in jobs : \E rung \in j.todo : ProbePlant(j, rung)
         /\ \/ UNCHANGED uptime
            \/ \E u \in payable : SettlePay(u)
            \/ \E j \in jobs : \E rung \in j.todo, ok \in BOOLEAN : ProbeResult(j, rung, ok) \/ SlaCheck(j, rung, ok)
<1>1. CASE MainStep
  BY <1>1, MainWrites
<1>2. CASE JobStep
  BY <1>2, JobWrites
<1>3. CASE Rest \/ Crash \/ Restart
  BY <1>3, DeathWrites DEF ledger
<1> QED
  BY <1>1, <1>2, <1>3 DEF LoopNext

Refuses(t) == RefuseInvalid(t) \/ RefuseOwn(t) \/ RefuseUndeclared(t) \/ RefuseDuplicate(t)

\* The API's statements: a row's insertion, and the mark.
LEMMA SubmitWrites ==
  ASSUME SubmitNext
  PROVE  /\ UNCHANGED <<tick, frozen, players, uptime>>
         /\ UNCHANGED flags \/ \E t \in Threads : Mark(t)
         /\ UNCHANGED submissions \/ \E t \in Threads : Refuses(t) \/ Accept(t)
<1>1. ASSUME NEW t \in Threads, NEW flag, NEW claimed, NEW writeup, Arrive(t, flag, claimed, writeup)
      PROVE  UNCHANGED ledger
  BY <1>1 DEF Arrive
<1>2. ASSUME NEW t \in Threads, Find(t) \/ CheckManifest(t) \/ RefuseBareClaim(t) \/ Judge(t)
      PROVE  UNCHANGED ledger
  BY <1>2 DEF Find, CheckManifest, RefuseBareClaim, Judge
<1>3. ASSUME NEW t \in Threads, Refuses(t)
      PROVE  UNCHANGED <<tick, frozen, players, flags, uptime>>
  BY <1>3 DEF Refuses, RefuseInvalid, RefuseOwn, RefuseUndeclared, RefuseDuplicate, Refuse
<1>4. ASSUME NEW t \in Threads, Mark(t)
      PROVE  UNCHANGED <<tick, frozen, players, uptime, submissions>>
  BY <1>4 DEF Mark
<1>5. ASSUME NEW t \in Threads, Accept(t)
      PROVE  UNCHANGED <<tick, frozen, players, flags, uptime>>
  BY <1>5 DEF Accept
<1>6. CASE Outage
  BY <1>6 DEF Outage, ledger
<1>7. ASSUME NEW t \in Threads, Handle(t)
      PROVE  /\ UNCHANGED <<tick, frozen, players, uptime>>
             /\ UNCHANGED flags \/ Mark(t)
             /\ UNCHANGED submissions \/ Refuses(t) \/ Accept(t)
  BY <1>2, <1>3, <1>4, <1>5, <1>7 DEF Handle, Refuses, ledger
<1> QED
  BY <1>1, <1>6, <1>7 DEF SubmitNext, ledger

LEMMA OperatorWrites ==
  ASSUME OperatorNext
  PROVE  /\ UNCHANGED <<tick, flags, uptime>>
         /\ UNCHANGED players \/ \E p \in Deployers, manifest \in Manifests : Land(p, manifest)
         /\ UNCHANGED submissions \/ \E o \in Operators : Approve(o) \/ Reject(o)
         /\ \/ UNCHANGED <<reviewing, contested>>
            \/ \E o \in Operators : Approve(o) \/ Reject(o) \/ \E i \in DOMAIN submissions : ReviewFetch(o, i)
<1>1. CASE \E on \in BOOLEAN : Freeze(on)
  BY <1>1 DEF Freeze, operatorVars
<1>2. ASSUME NEW o \in Operators, NEW i \in DOMAIN submissions, ReviewFetch(o, i)
      PROVE  UNCHANGED ledger
  BY <1>2 DEF ReviewFetch, Fetch
<1>3. ASSUME NEW o \in Operators, Approve(o) \/ Reject(o)
      PROVE  UNCHANGED <<tick, flags, uptime, players>>
  BY <1>3 DEF Approve, Reject, ReviewDone
<1>4. ASSUME NEW p \in Deployers, ReadGrace(p)
      PROVE  UNCHANGED <<ledger, reviewing, contested>>
  BY <1>4 DEF ReadGrace
<1>5. ASSUME NEW p \in Deployers, NEW manifest \in Manifests, Land(p, manifest)
      PROVE  UNCHANGED <<tick, flags, uptime, submissions, reviewing, contested>>
  BY <1>5 DEF Land
<1> QED
  BY <1>1, <1>2, <1>3, <1>4, <1>5 DEF OperatorNext, ledger

-----------------------------------------------------------------------------
(***************************************************************************)
(* Type correctness.  A review writes the class its row claims, so the     *)
(* type of the ledger rests on reviews being of rows that claim one.       *)
(***************************************************************************)
Reviewable(i) == i \in DOMAIN submissions /\ submissions[i].claimed \in Classes

ReviewInv ==
  /\ \A i \in DOMAIN submissions : submissions[i].pending => submissions[i].claimed \in Classes
  /\ \A o \in Operators : reviewing[o] # 0 => Reviewable(reviewing[o])

Types == TypeOK /\ ReviewInv

LEMMA InitTypes == Init => Types
<1> SUFFICES ASSUME Init PROVE Types
  OBVIOUS
<1>1. submissions = <<>> /\ <<>> \in Seq(SubmissionRows)
  BY DEF Init, LedgerInit
<1>2. LedgerTypeOK
  BY <1>1 DEF Init, LedgerInit, LedgerTypeOK, PlayerRows
<1>3. LoopTypeOK /\ SubmitTypeOK
  BY DEF Init, LoopInit, SubmitInit, LoopTypeOK, SubmitTypeOK, RequestStates, Steps, Idle
<1>4. ReviewInv
  BY <1>1 DEF Init, ReviewInv
<1> QED
  BY <1>2, <1>3, <1>4 DEF Init, Types, TypeOK

LEMMA RecordUptimeType ==
  ASSUME uptime \in SUBSET UptimeRows,
         NEW t \in Nat, NEW owner \in Players, NEW rung \in Rungs,
         NEW ok \in BOOLEAN, NEW grace \in BOOLEAN, NEW points \in Nat,
         RecordUptime(t, owner, rung, ok, grace, points)
  PROVE  uptime' \in SUBSET UptimeRows
<1>1. [tick |-> t, player |-> owner, protocol |-> rung, ok |-> ok, grace |-> grace,
       points |-> points] \in UptimeRows
  BY DEF UptimeRows
<1> QED
  BY <1>1 DEF RecordUptime

LEMMA MainTypes ==
  ASSUME Types, MainStep, UNCHANGED <<submitVars, operatorVars>>
  PROVE  Types'
<1> USE DEF Types, TypeOK, LedgerTypeOK, LoopTypeOK, SubmitTypeOK, ReviewInv, Reviewable,
            submitVars, operatorVars
<1>1. CASE ReadTick
  BY <1>1 DEF ReadTick, ledger
<1>2. CASE AdvanceTick
  BY <1>2 DEF AdvanceTick, ActivePlayers
<1>3. CASE \E p \in owing : SettleStolen(p)
  BY <1>3 DEF SettleStolen, ledger, StolenThisTick
<1>4. CASE \E p \in owing : SettleRows(p)
  BY <1>4 DEF SettleRows, ledger, UptimeOf
<1>5. CASE \E u \in payable : SettlePay(u)
  <2> PICK u \in payable : SettlePay(u)
    BY <1>5
  <2>1. /\ u.tick \in Nat /\ u.player \in Players /\ u.protocol \in Rungs
        /\ u.grace \in BOOLEAN
    BY DEF UptimeRows
  <2> DEFINE base == UptimePoints[u.protocol]
             points == IF u.protocol \in stolen THEN base ELSE base + DefenseBonus
  <2>2. points \in Nat
    BY <2>1, PointsAssumption, LoopAssumption
  <2>3. [tick |-> u.tick, player |-> u.player, protocol |-> u.protocol, ok |-> TRUE,
         grace |-> u.grace, points |-> points] \in UptimeRows
    BY <2>1, <2>2 DEF UptimeRows
  <2>4. uptime' \in SUBSET UptimeRows
    BY <2>3 DEF SettlePay, RecordUptime
  <2> QED
    BY <2>4 DEF SettlePay
<1>6. CASE SettleNext
  BY <1>6 DEF SettleNext, ledger
<1>7. CASE RunTick
  <2>1. ASSUME NEW p \in Players
        PROVE  ProtocolsOf(p) \in SUBSET Rungs
    BY ManifestsAssumption DEF ProtocolsOf, PlayerRows
  <2>2. ASSUME NEW p \in Players
        PROVE  [player |-> p, tick |-> round, at |-> "queued", todo |-> ProtocolsOf(p),
                in_grace |-> round <= players[p].grace_until_tick] \in Jobs
    BY <2>1 DEF Jobs, PlayerRows
  <2>3. jobs' \in SUBSET Jobs
    BY <1>7, <2>2 DEF RunTick, ActivePlayers
  <2> QED
    BY <1>7, <2>3 DEF RunTick, ledger, ActivePlayers
<1>8. CASE \E p \in awaiting : AwaitDone(p) \/ AwaitTimeout(p)
  BY <1>8 DEF AwaitDone, AwaitTimeout, Await, ledger
<1>9. CASE ExpireFlags
  BY <1>9 DEF ExpireFlags, Expire
<1> QED
  BY <1>1, <1>2, <1>3, <1>4, <1>5, <1>6, <1>7, <1>8, <1>9 DEF MainStep

LEMMA ResultTypes ==
  ASSUME uptime \in SUBSET UptimeRows,
         NEW j \in Jobs, NEW rung \in Rungs, NEW ok \in BOOLEAN,
         RecordResult(j, rung, ok)
  PROVE  uptime' \in SUBSET UptimeRows
<1> DEFINE graced == j.in_grace /\ ~ok
           counts == ok \/ graced
           points == IF counts THEN UptimePoints[rung] ELSE 0
<1>1. j.tick \in Nat /\ j.player \in Players /\ points \in Nat
  BY PointsAssumption DEF Jobs
<1>2. graced \in BOOLEAN /\ counts \in BOOLEAN
  BY DEF Jobs
<1>3. [tick |-> j.tick, player |-> j.player, protocol |-> rung, ok |-> counts,
       grace |-> graced, points |-> points] \in UptimeRows
  BY <1>1, <1>2 DEF UptimeRows
<1> QED
  BY <1>3 DEF RecordResult, RecordUptime

LEMMA RungDoneTypes ==
  ASSUME jobs \in SUBSET Jobs, NEW j \in jobs, NEW rung, RungDone(j, rung)
  PROVE  jobs' \in SUBSET Jobs
<1> DEFINE next == [j EXCEPT !.at = "probe", !.todo = @ \ {rung}]
<1>1. j \in Jobs /\ j.todo \ {rung} \in SUBSET Rungs
  BY DEF Jobs
<1>2. next \in Jobs
  BY <1>1 DEF Jobs
<1>3. jobs' \subseteq jobs \cup {next}
  BY DEF RungDone
<1> HIDE DEF next
<1> QED
  BY <1>2, <1>3

LEMMA JobTypes ==
  ASSUME Types, JobStep, UNCHANGED <<submitVars, operatorVars>>
  PROVE  Types'
<1> USE DEF Types, TypeOK, LedgerTypeOK, LoopTypeOK, SubmitTypeOK, ReviewInv, Reviewable,
            submitVars, operatorVars, main
<1> PICK j \in jobs :
      \/ StartJob(j)
      \/ \E rung \in j.todo :
           \/ ProbePlant(j, rung)
           \/ \E ok \in BOOLEAN : ProbeResult(j, rung, ok) \/ SlaCheck(j, rung, ok)
      \/ JobRaises(j)
  BY DEF JobStep
<1>0. j \in Jobs /\ j.todo \subseteq Rungs
  BY DEF Jobs
<1>1. CASE StartJob(j)
  <2>1. [j EXCEPT !.at = "probe"] \in Jobs
    BY <1>0 DEF Jobs
  <2> QED
    BY <1>1, <2>1 DEF StartJob, ledger
<1>2. ASSUME NEW rung \in j.todo, ProbePlant(j, rung)
      PROVE  Types'
  <2>1. [j EXCEPT !.at = "check"] \in Jobs
    BY <1>0 DEF Jobs
  <2>2. [flag |-> [player |-> j.player, protocol |-> rung, tick |-> j.tick],
         expires_tick |-> j.tick + K, stolen_by |-> NoOne, stolen_tick |-> NoTick] \in FlagRows
    BY <1>0, KAssumption DEF Jobs, FlagRows, Tokens
  <2> QED
    BY <1>2, <2>1, <2>2 DEF ProbePlant, Plant
<1>3. ASSUME NEW rung \in j.todo, NEW ok \in BOOLEAN, ProbeResult(j, rung, ok)
      PROVE  Types'
  <2>1. uptime' \in SUBSET UptimeRows /\ jobs' \in SUBSET Jobs
    BY <1>0, <1>3, ResultTypes, RungDoneTypes DEF ProbeResult
  <2> QED
    BY <1>3, <2>1 DEF ProbeResult, RecordResult
<1>4. ASSUME NEW rung \in j.todo, NEW ok \in BOOLEAN, SlaCheck(j, rung, ok)
      PROVE  Types'
  <2>1. uptime' \in SUBSET UptimeRows /\ jobs' \in SUBSET Jobs
    BY <1>0, <1>4, ResultTypes, RungDoneTypes DEF SlaCheck
  <2> QED
    BY <1>4, <2>1 DEF SlaCheck, RecordResult
<1>5. CASE JobRaises(j)
  BY <1>5 DEF JobRaises, ledger
<1> QED
  BY <1>1, <1>2, <1>3, <1>4, <1>5

LEMMA RestartTypes ==
  ASSUME Types, Rest \/ Crash \/ Restart, UNCHANGED <<submitVars, operatorVars>>
  PROVE  Types'
BY DEF Types, TypeOK, LedgerTypeOK, LoopTypeOK, SubmitTypeOK, ReviewInv, Reviewable,
       submitVars, operatorVars, Rest, Crash, Restart, ledger, loopVars

\* Appending a row leaves the rows of a review where they are.
LEMMA RecordTypes ==
  ASSUME Types,
         NEW by \in Players, NEW flag \in Tokens \cup {NoFlag}, NEW verdict \in Verdicts,
         NEW klass \in Classes \cup {NoClass}, NEW claimed \in Classes \cup {NoClass},
         NEW points \in Nat, NEW pending \in BOOLEAN,
         pending => claimed \in Classes,
         Record(by, flag, verdict, klass, claimed, points, pending),
         UNCHANGED reviewing
  PROVE  submissions' \in Seq(SubmissionRows) /\ ReviewInv'
<1> DEFINE row == [by |-> by, flag |-> flag, verdict |-> verdict, klass |-> klass,
                   claimed |-> claimed, points |-> points, pending |-> pending]
<1>1. row \in SubmissionRows
  BY DEF SubmissionRows
<1>2. submissions \in Seq(SubmissionRows) /\ submissions' = Append(submissions, row)
  BY DEF Types, TypeOK, LedgerTypeOK, Record
<1>3. /\ submissions' \in Seq(SubmissionRows)
      /\ DOMAIN submissions' = DOMAIN submissions \cup {Len(submissions) + 1}
      /\ \A i \in DOMAIN submissions : submissions'[i] = submissions[i]
      /\ submissions'[Len(submissions) + 1] = row
  <2> HIDE DEF row
  <2> QED
    BY <1>1, <1>2
<1>4. row.pending => row.claimed \in Classes
  OBVIOUS
<1>5. ReviewInv'
  <2> HIDE DEF row
  <2> QED
    BY <1>3, <1>4 DEF Types, ReviewInv, Reviewable
<1> QED
  BY <1>3, <1>5

LEMMA RefuseTypes ==
  ASSUME Types, NEW t \in Threads, NEW verdict \in Verdicts, Refuse(t, verdict),
         UNCHANGED <<loopVars, operatorVars>>
  PROVE  Types'
<1>1. /\ Client[t] \in Players
      /\ requests[t].flag \in Tokens \cup {NoFlag}
      /\ requests[t].claimed \in Classes \cup {NoClass}
  BY SubmitAssumption DEF Types, TypeOK, SubmitTypeOK, RequestStates
<1>2. Record(Client[t], requests[t].flag, verdict, NoClass, requests[t].claimed, 0, FALSE)
  BY DEF Refuse
<1>3. submissions' \in Seq(SubmissionRows) /\ ReviewInv'
  BY <1>1, <1>2, RecordTypes DEF operatorVars
<1>4. requests' \in [Threads -> RequestStates]
  BY DEF Types, TypeOK, SubmitTypeOK, Refuse, Finish, Idle, RequestStates, Steps
<1> QED
  BY <1>3, <1>4 DEF Types, TypeOK, LedgerTypeOK, LoopTypeOK, SubmitTypeOK, Refuse, loopVars, operatorVars

LEMMA GotoTypes ==
  ASSUME Types, NEW t \in Threads, NEW at \in Steps, Goto(t, at), outages' = outages
  PROVE  SubmitTypeOK'
BY DEF Types, TypeOK, SubmitTypeOK, Goto, RequestStates

LEMMA AcceptTypes ==
  ASSUME Types, NEW t \in Threads, requests[t].flag \in Tokens, Accept(t),
         UNCHANGED <<loopVars, operatorVars>>
  PROVE  Types'
<1> DEFINE r == requests[t]
           class == AutoClass(r.flag.protocol)
           pending == ClaimsAbove(r.claimed, r.flag.protocol)
<1>1. /\ Client[t] \in Players
      /\ r.claimed \in Classes \cup {NoClass}
  BY SubmitAssumption DEF Types, TypeOK, SubmitTypeOK, RequestStates
<1>2. class \in Classes /\ AttackPoints[class] \in Nat
  BY PointsAssumption DEF AutoClass, Classes
<1>3. pending \in BOOLEAN /\ (pending => r.claimed \in Classes)
  BY <1>1 DEF ClaimsAbove
<1>4. Record(Client[t], r.flag, "accepted", class, r.claimed, AttackPoints[class], pending)
  BY DEF Accept
<1>5. submissions' \in Seq(SubmissionRows) /\ ReviewInv'
  <2> HIDE DEF r, class, pending
  <2> "accepted" \in Verdicts
    BY DEF Verdicts
  <2> requests[t].flag = r.flag
    BY DEF r
  <2> QED
    BY <1>1, <1>2, <1>3, <1>4, RecordTypes DEF operatorVars
<1>6. requests' \in [Threads -> RequestStates]
  BY DEF Types, TypeOK, SubmitTypeOK, Accept, Finish, Idle, RequestStates, Steps
<1> QED
  BY <1>5, <1>6 DEF Types, TypeOK, LedgerTypeOK, LoopTypeOK, SubmitTypeOK, Accept, loopVars, operatorVars

-----------------------------------------------------------------------------
(***************************************************************************)
(* The inductive invariant.  A token is planted once: a job plants a rung  *)
(* only if nothing has named that token yet, and a tick's jobs are handed  *)
(* out once.  From this, and from what a request has established by the    *)
(* statement it is at, the safety properties follow.                       *)
(***************************************************************************)
RoundInv ==
  /\ pc = "advance" => round = tick + 1
  /\ pc \in {"settle", "stolen", "pay", "dispatch", "await"} => round = tick

\* The jobs of tick t have been handed out.
Begun(t) == t <= tick /\ (pc \in {"settle", "stolen", "pay", "dispatch"} => t < tick)

\* The tokens in circulation.
Used ==
  {f.flag : f \in flags} \cup {requests[t].flag : t \in Threads}
    \cup {submissions[i].flag : i \in {n \in DOMAIN submissions : Accepted(n)}}

UsedInv == \A token \in Used : token # NoFlag => Begun(token.tick)

Token(j, rung) == [player |-> j.player, protocol |-> rung, tick |-> j.tick]

JobInv ==
  /\ \A j \in jobs : Begun(j.tick)
  /\ \A i, j \in jobs : i.player = j.player /\ i.tick = j.tick => i = j
  /\ \A j \in jobs : \A rung \in j.todo :
       (j.at = "check" => ~IsFirst(rung, j.todo)) => Token(j, rung) \notin Used

FlagInv ==
  /\ \A f \in flags : f.expires_tick = f.flag.tick + K
  /\ MarkedInItsLife

RequestInv ==
  \A t \in Threads :
    LET r == requests[t]
    IN  /\ r.tick <= tick
        /\ r.flag # NoFlag => r.flag.tick <= r.tick
        /\ r.at \in {"manifest", "already", "mark", "record"} =>
             /\ r.flag \in Tokens
             /\ r.flag.player # Client[t]
             /\ r.tick < r.flag.tick + K

MarkInv ==
  /\ CreditedIsMarked
  /\ \A t \in Threads, f \in flags :
       requests[t].at = "record" /\ requests[t].flag = f.flag => f.stolen_by # NoOne

IInv == Types /\ RoundInv /\ UsedInv /\ JobInv /\ FlagInv /\ RequestInv /\ MarkInv

LEMMA InitIInv == Init => IInv
<1> SUFFICES ASSUME Init PROVE IInv
  OBVIOUS
<1>1. Types
  BY InitTypes
<1>2. flags = {} /\ jobs = {} /\ submissions = <<>> /\ requests = [t \in Threads |-> Idle] /\ pc = "idle"
  BY DEF Init, LedgerInit, LoopInit, SubmitInit
<1>3. \A token \in Used : token = NoFlag
  BY <1>2 DEF Used, Idle
<1>4. RoundInv /\ UsedInv /\ JobInv /\ FlagInv
  BY <1>2, <1>3 DEF RoundInv, UsedInv, JobInv, FlagInv, MarkedInItsLife
<1>5. RequestInv /\ MarkInv
  BY <1>2 DEF Init, LedgerInit, RequestInv, MarkInv, CreditedIsMarked, Idle
<1> QED
  BY <1>1, <1>4, <1>5 DEF IInv

LEMMA UsedTokens ==
  ASSUME Types
  PROVE  \A token \in Used : token # NoFlag => token \in Tokens
<1> SUFFICES ASSUME NEW token \in Used, token # NoFlag PROVE token \in Tokens
  OBVIOUS
<1>1. CASE token \in {f.flag : f \in flags}
  BY <1>1 DEF Types, TypeOK, LedgerTypeOK, FlagRows
<1>2. CASE token \in {requests[t].flag : t \in Threads}
  BY <1>2 DEF Types, TypeOK, SubmitTypeOK, RequestStates
<1>3. CASE token \in {submissions[i].flag : i \in {n \in DOMAIN submissions : Accepted(n)}}
  <2>1. PICK i \in DOMAIN submissions : token = submissions[i].flag
    BY <1>3
  <2>2. submissions \in Seq(SubmissionRows)
    BY DEF Types, TypeOK, LedgerTypeOK
  <2>3. submissions[i] \in SubmissionRows
    BY <2>2
  <2> QED
    BY <2>1, <2>3 DEF SubmissionRows
<1> QED
  BY <1>1, <1>2, <1>3 DEF Used

(***************************************************************************)
(* Steps that leave the four tables of the invariant alone.                *)
(***************************************************************************)
Quiet == UNCHANGED <<tick, flags, submissions, requests>>

LEMMA QuietIInv ==
  ASSUME IInv, Types', Quiet, RoundInv', jobs' \subseteq jobs,
         \A t \in Nat : Begun(t) => Begun(t)'
  PROVE  IInv'
<1>1. Used' = Used
  BY DEF Quiet, Used, Accepted
<1>2. UsedInv'
  <2> SUFFICES ASSUME NEW token \in Used, token # NoFlag
               PROVE  Begun(token.tick)'
    BY <1>1 DEF UsedInv
  <2>1. token \in Tokens
    BY UsedTokens DEF IInv
  <2> QED
    BY <2>1 DEF IInv, UsedInv, Tokens
<1>3. JobInv'
  <2>1. \A j \in jobs : j.tick \in Nat
    BY DEF IInv, Types, TypeOK, LoopTypeOK, Jobs
  <2> QED
    BY <1>1, <2>1 DEF IInv, JobInv, Token
<1>4. FlagInv' /\ RequestInv' /\ MarkInv'
  BY DEF Quiet, IInv, FlagInv, MarkedInItsLife, RequestInv, MarkInv, CreditedIsMarked, Accepted
<1> QED
  BY <1>2, <1>3, <1>4 DEF IInv

\* The steps of the main thread other than those that advance the tick, hand out
\* the jobs and delete flags.
LEMMA MainQuiet ==
  ASSUME IInv, UNCHANGED <<submitVars, operatorVars>>, Types',
         \/ Rest \/ ReadTick \/ SettleNext \/ Crash \/ Restart
         \/ \E p \in owing : SettleStolen(p) \/ SettleRows(p)
         \/ \E u \in payable : SettlePay(u)
         \/ \E p \in awaiting : AwaitDone(p) \/ AwaitTimeout(p)
  PROVE  IInv'
<1>1. Quiet /\ jobs' \subseteq jobs
  BY DEF Rest, ReadTick, SettleNext, Crash, Restart, SettleStolen, SettleRows, SettlePay, AwaitDone,
         AwaitTimeout, Await, ledger, loopVars, submitVars, Quiet
<1>2. RoundInv'
  BY DEF IInv, RoundInv, Rest, ReadTick, SettleNext, Crash, Restart, SettleStolen, SettleRows, SettlePay,
         AwaitDone, AwaitTimeout, Await, ledger, loopVars
<1>3. ASSUME NEW t \in Nat, Begun(t) PROVE Begun(t)'
  BY <1>3 DEF Begun, Rest, ReadTick, SettleNext, Crash, Restart, SettleStolen, SettleRows, SettlePay,
         AwaitDone, AwaitTimeout, Await, ledger, loopVars
<1> QED
  BY <1>1, <1>2, <1>3, QuietIInv

LEMMA AdvanceIInv ==
  ASSUME IInv, UNCHANGED <<submitVars, operatorVars>>, Types', AdvanceTick
  PROVE  IInv'
<1>1. round = tick + 1 /\ tick' = tick + 1 /\ tick \in Nat /\ pc = "advance" /\ pc' = "settle"
  BY DEF AdvanceTick, IInv, RoundInv, Types, TypeOK, LedgerTypeOK
<1>2. UNCHANGED <<flags, submissions, requests, jobs, round>>
  BY DEF AdvanceTick, submitVars
<1>3. Used' = Used
  BY <1>2 DEF Used, Accepted
<1>4. RoundInv'
  BY <1>1, <1>2 DEF RoundInv
<1>5. ASSUME NEW t \in Nat, Begun(t) PROVE Begun(t)'
  BY <1>1, <1>5 DEF Begun
<1>6. UsedInv'
  <2>1. \A token \in Used : token # NoFlag => token.tick \in Nat
    BY UsedTokens DEF IInv, Tokens
  <2> QED
    BY <1>3, <1>5, <2>1 DEF IInv, UsedInv
<1>7. JobInv'
  <2>1. \A j \in jobs : j.tick \in Nat
    BY DEF IInv, Types, TypeOK, LoopTypeOK, Jobs
  <2> QED
    BY <1>2, <1>3, <1>5, <2>1 DEF IInv, JobInv, Token
<1>8. FlagInv' /\ MarkInv'
  BY <1>2 DEF IInv, FlagInv, MarkedInItsLife, MarkInv, CreditedIsMarked, Accepted
<1>9. RequestInv'
  BY <1>1, <1>2 DEF IInv, RequestInv, Types, TypeOK, SubmitTypeOK, RequestStates
<1> QED
  BY <1>4, <1>6, <1>7, <1>8, <1>9 DEF IInv

LEMMA RunTickIInv ==
  ASSUME IInv, UNCHANGED <<submitVars, operatorVars>>, Types', RunTick
  PROVE  IInv'
<1> DEFINE new == {[player |-> p, tick |-> round, at |-> "queued", todo |-> ProtocolsOf(p),
         in_grace |-> round <= players[p].grace_until_tick] : p \in ActivePlayers}
<1>1. pc = "dispatch" /\ pc' = "await" /\ round = tick /\ round \in Nat /\ jobs' = jobs \cup new
  BY DEF RunTick, IInv, RoundInv, Types, TypeOK, LoopTypeOK
<1>2. UNCHANGED <<tick, flags, submissions, requests, round>>
  BY DEF RunTick, submitVars, ledger
<1>3. Used' = Used
  BY <1>2 DEF Used, Accepted
<1>4. RoundInv'
  BY <1>1, <1>2 DEF RoundInv
<1>5. ASSUME NEW t \in Nat, Begun(t) PROVE Begun(t)' /\ t < round
  BY <1>1, <1>2, <1>5 DEF Begun
<1>6. \A token \in Used : token # NoFlag => token \in Tokens /\ token.tick < round /\ Begun(token.tick)'
  BY <1>5, UsedTokens DEF IInv, UsedInv, Tokens
<1>7. UsedInv'
  BY <1>3, <1>6 DEF UsedInv
<1>8. JobInv'
  <2>1. \A j \in jobs : j.tick \in Nat /\ j.tick < round /\ Begun(j.tick)'
    BY <1>5 DEF IInv, JobInv, Types, TypeOK, LoopTypeOK, Jobs
  <2>2. \A j \in new : j.tick = round /\ Begun(j.tick)' /\ j.at = "queued"
    BY <1>1, <1>2 DEF Begun
  <2>3. \A i, j \in new : i.player = j.player => i = j
    OBVIOUS
  <2>4. \A i \in jobs, j \in new : i.tick # j.tick
    BY <1>1, <2>1, <2>2
  <2>5. \A i, j \in jobs' : i.player = j.player /\ i.tick = j.tick => i = j
    <3> HIDE DEF new
    <3> QED
      BY <1>1, <2>3, <2>4 DEF IInv, JobInv
  <2>6. ASSUME NEW j \in new, NEW rung \in j.todo
        PROVE  Token(j, rung) \notin Used
    <3>1. Token(j, rung).tick = round /\ Token(j, rung) # NoFlag
      <4>1. j \in Jobs /\ rung \in Rungs
        BY <1>1 DEF Types, TypeOK, LoopTypeOK, Jobs
      <4>2. Token(j, rung) \in Tokens
        BY <4>1 DEF Jobs, Token, Tokens
      <4> QED
        BY <2>2, <4>2, SubmitAssumption DEF Token
    <3> QED
      BY <1>1, <1>6, <3>1
  <2>7. \A j \in jobs : \A rung \in j.todo :
          (j.at = "check" => ~IsFirst(rung, j.todo)) => Token(j, rung) \notin Used'
    BY <1>3 DEF IInv, JobInv
  <2> HIDE DEF new
  <2>8. \A j \in jobs' : \A rung \in j.todo :
          (j.at = "check" => ~IsFirst(rung, j.todo)) => Token(j, rung) \notin Used'
    BY <1>1, <1>3, <2>6, <2>7
  <2> QED
    BY <1>1, <2>1, <2>2, <2>5, <2>8 DEF JobInv, Token
<1>9. FlagInv' /\ RequestInv' /\ MarkInv'
  BY <1>2 DEF IInv, FlagInv, MarkedInItsLife, RequestInv, MarkInv, CreditedIsMarked, Accepted
<1> QED
  BY <1>4, <1>7, <1>8, <1>9 DEF IInv

LEMMA ExpireIInv ==
  ASSUME IInv, UNCHANGED <<submitVars, operatorVars>>, Types', ExpireFlags
  PROVE  IInv'
<1>1. flags' \subseteq flags /\ pc' = "idle"
  BY DEF ExpireFlags, Expire
<1>2. UNCHANGED <<tick, submissions, requests, jobs>>
  BY DEF ExpireFlags, submitVars
<1>3. Used' \subseteq Used
  BY <1>1, <1>2 DEF Used, Accepted
<1>4. ASSUME NEW t \in Nat, Begun(t) PROVE Begun(t)'
  BY <1>1, <1>2, <1>4 DEF Begun
<1>5. UsedInv'
  <2>1. \A token \in Used : token # NoFlag => token.tick \in Nat
    BY UsedTokens DEF IInv, Tokens
  <2> QED
    BY <1>3, <1>4, <2>1 DEF IInv, UsedInv
<1>6. JobInv'
  <2>1. \A j \in jobs : j.tick \in Nat
    BY DEF IInv, Types, TypeOK, LoopTypeOK, Jobs
  <2> QED
    BY <1>2, <1>3, <1>4, <2>1 DEF IInv, JobInv, Token
<1>7. FlagInv' /\ RequestInv' /\ MarkInv' /\ RoundInv'
  BY <1>1, <1>2 DEF IInv, FlagInv, MarkedInItsLife, RequestInv, MarkInv, CreditedIsMarked, Accepted, RoundInv
<1> QED
  BY <1>5, <1>6, <1>7 DEF IInv

(***************************************************************************)
(* Steps of the jobs: one job gives way to at most one of the same player  *)
(* and tick.                                                               *)
(***************************************************************************)
JobMoves(j, next) ==
  /\ jobs' = (jobs \ {j}) \cup next
  /\ \A i, k \in next : i = k
  /\ \A i \in next : i.player = j.player /\ i.tick = j.tick
  /\ UNCHANGED <<tick, pc, round, submissions, requests>>

LEMMA OnlyFirst ==
  ASSUME NEW rungs \in SUBSET Rungs, NEW a, NEW b, IsFirst(a, rungs), IsFirst(b, rungs)
  PROVE  a = b
<1>1. a \in Rungs /\ b \in Rungs /\ Rank(a) <= Rank(b) /\ Rank(b) <= Rank(a)
  BY DEF IsFirst
<1>2. Rank(a) \in Int /\ Rank(b) \in Int
  BY <1>1 DEF Rank, Rungs, HttpVersions
<1>3. Rank(a) = Rank(b)
  BY <1>1, <1>2
<1> QED
  BY <1>1, <1>3 DEF Rank, Rungs, HttpVersions

\* Two jobs are of different players or ticks, before and after.
LEMMA MovesApart ==
  ASSUME IInv, NEW j \in jobs, NEW next, JobMoves(j, next)
  PROVE  /\ \A i, k \in jobs' : i.player = k.player /\ i.tick = k.tick => i = k
         /\ \A i \in jobs' : Begun(i.tick)'
         /\ \A t \in Nat : Begun(t) => Begun(t)'
         /\ RoundInv'
<1>1. \A i, k \in jobs' : i.player = k.player /\ i.tick = k.tick => i = k
  BY DEF IInv, JobInv, JobMoves
<1>2. \A t : Begun(t)' = Begun(t)
  BY DEF JobMoves, Begun
<1>3. \A i \in jobs' : \E k \in jobs : i.tick = k.tick
  BY DEF JobMoves
<1>4. \A i \in jobs' : Begun(i.tick)'
  BY <1>2, <1>3 DEF IInv, JobInv
<1>5. RoundInv'
  BY DEF IInv, RoundInv, JobMoves
<1> QED
  BY <1>1, <1>2, <1>4, <1>5

LEMMA JobQuietIInv ==
  ASSUME IInv, Types', NEW j \in jobs, NEW next, JobMoves(j, next), UNCHANGED flags,
         \A i \in next : \A rung \in i.todo :
           (i.at = "check" => ~IsFirst(rung, i.todo)) => Token(i, rung) \notin Used
  PROVE  IInv'
<1>1. Used' = Used
  BY DEF JobMoves, Used, Accepted
<1>2. UsedInv'
  <2>1. \A token \in Used : token # NoFlag => token.tick \in Nat
    BY UsedTokens DEF IInv, Tokens
  <2> QED
    BY <1>1, <2>1, MovesApart DEF IInv, UsedInv
<1>3. JobInv'
  <2>1. \A i \in jobs' : \A rung \in i.todo :
           (i.at = "check" => ~IsFirst(rung, i.todo)) => Token(i, rung) \notin Used'
    BY <1>1 DEF JobMoves, IInv, JobInv
  <2> QED
    BY <2>1, MovesApart DEF JobInv, Token
<1>4. FlagInv' /\ RequestInv' /\ MarkInv'
  BY DEF JobMoves, IInv, FlagInv, MarkedInItsLife, RequestInv, MarkInv, CreditedIsMarked, Accepted
<1> QED
  BY <1>2, <1>3, <1>4, MovesApart DEF IInv

\* A rung is done: the rungs left are not planted yet.
LEMMA RungDoneIInv ==
  ASSUME IInv, Types', NEW j \in jobs, NEW rung \in j.todo, IsFirst(rung, j.todo),
         RungDone(j, rung), UNCHANGED <<tick, flags, submissions, submitVars, main>>
  PROVE  IInv'
<1> DEFINE next == IF j.todo = {rung} THEN {} ELSE {[j EXCEPT !.at = "probe", !.todo = @ \ {rung}]}
<1>1. JobMoves(j, next)
  BY DEF IInv, Types, TypeOK, LoopTypeOK, Jobs, RungDone, JobMoves, submitVars, main
<1>2. j.todo \in SUBSET Rungs
  BY DEF IInv, Types, TypeOK, LoopTypeOK, Jobs
<1>3. ASSUME NEW i \in next, NEW other \in i.todo
      PROVE  Token(i, other) \notin Used
  <2>1. i.player = j.player /\ i.tick = j.tick /\ i.todo = j.todo \ {rung}
    BY DEF IInv, Types, TypeOK, LoopTypeOK, Jobs
  <2>2. other \in j.todo /\ other # rung
    BY <2>1
  <2>3. ~IsFirst(other, j.todo)
    BY <1>2, <2>2, OnlyFirst
  <2> QED
    BY <2>1, <2>2, <2>3 DEF IInv, JobInv, Token
<1> HIDE DEF next
<1> QED
  BY <1>1, <1>3, JobQuietIInv

LEMMA PlantIInv ==
  ASSUME IInv, Types', NEW j \in jobs, NEW rung \in j.todo, ProbePlant(j, rung),
         UNCHANGED <<submitVars, operatorVars>>
  PROVE  IInv'
<1> DEFINE token == Token(j, rung)
           row == [flag |-> token, expires_tick |-> j.tick + K, stolen_by |-> NoOne,
                   stolen_tick |-> NoTick]
           next == {[j EXCEPT !.at = "check"]}
<1>1. /\ j \in Jobs /\ rung \in Rungs /\ j.tick \in Nat
      /\ j.at = "probe" /\ IsFirst(rung, j.todo)
  BY DEF ProbePlant, IInv, Types, TypeOK, LoopTypeOK, Jobs
<1>2. JobMoves(j, next)
  BY <1>1 DEF Jobs, ProbePlant, JobMoves, submitVars, main
<1>3. flags' = flags \cup {row} /\ UNCHANGED <<tick, submissions, requests>>
  BY DEF ProbePlant, Plant, Token, submitVars
<1>4. token \in Tokens /\ token \notin Used /\ Begun(token.tick)
  BY <1>1 DEF IInv, JobInv, Token, Tokens, Jobs
<1>5. row.flag = token /\ row.expires_tick = token.tick + K /\ row.stolen_by = NoOne
  BY DEF Token
<1>6. Used' = Used \cup {token}
  BY <1>3, <1>5 DEF Used, Accepted
<1> HIDE DEF token, row
<1>7. UsedInv'
  <2>1. \A other \in Used : other # NoFlag => other.tick \in Nat
    BY UsedTokens DEF IInv, Tokens
  <2> QED
    BY <1>2, <1>4, <1>6, <2>1, MovesApart DEF IInv, UsedInv, Tokens
<1>8. JobInv'
  <2>1. ASSUME NEW i \in jobs', NEW other \in i.todo, i.at = "check" => ~IsFirst(other, i.todo)
        PROVE  Token(i, other) \notin Used
    <3>1. CASE i \in jobs \ {j}
      BY <2>1, <3>1 DEF IInv, JobInv
    <3>2. CASE i \in next
      BY <1>1, <2>1, <3>2 DEF IInv, JobInv, Token, Jobs
    <3> QED
      BY <1>2, <3>1, <3>2 DEF JobMoves
  <2>2. ASSUME NEW i \in jobs', NEW other \in i.todo, i.at = "check" => ~IsFirst(other, i.todo)
        PROVE  Token(i, other) # token
    <3>1. CASE i \in jobs \ {j}
      BY <3>1 DEF IInv, JobInv, Token, token
    <3>2. CASE i \in next
      BY <1>1, <2>2, <3>2 DEF Token, Jobs, token
    <3> QED
      BY <1>2, <3>1, <3>2 DEF JobMoves
  <2> QED
    BY <1>2, <1>6, <2>1, <2>2, MovesApart DEF JobInv, Token
<1>9. FlagInv'
  BY <1>3, <1>5 DEF IInv, FlagInv, MarkedInItsLife
<1>10. RequestInv'
  BY <1>3 DEF IInv, RequestInv
<1>11. MarkInv'
  <2>1. \A i \in DOMAIN submissions : Accepted(i) => submissions[i].flag # token
    BY <1>4 DEF Used
  <2>2. \A t \in Threads : requests[t].flag # token
    BY <1>4 DEF Used
  <2>3. \A f \in flags' : f.flag # token => f \in flags
    BY <1>3, <1>5
  <2>4. CreditedIsMarked'
    BY <1>3, <2>1, <2>3 DEF IInv, MarkInv, CreditedIsMarked, Accepted
  <2> QED
    BY <1>3, <2>2, <2>3, <2>4 DEF IInv, MarkInv
<1> QED
  BY <1>2, <1>7, <1>8, <1>9, <1>10, <1>11, MovesApart DEF IInv

LEMMA JobIInv ==
  ASSUME IInv, Types', JobStep, UNCHANGED <<submitVars, operatorVars>>
  PROVE  IInv'
<1> PICK j \in jobs :
      \/ StartJob(j)
      \/ \E rung \in j.todo :
           \/ ProbePlant(j, rung)
           \/ \E ok \in BOOLEAN : ProbeResult(j, rung, ok) \/ SlaCheck(j, rung, ok)
      \/ JobRaises(j)
  BY DEF JobStep
<1>0. j \in Jobs
  BY DEF IInv, Types, TypeOK, LoopTypeOK
<1>1. CASE StartJob(j)
  <2> DEFINE next == IF j.todo = {} THEN {} ELSE {[j EXCEPT !.at = "probe"]}
  <2>1. j.at = "queued"
    BY <1>1 DEF StartJob, IsNext
  <2>2. JobMoves(j, next) /\ UNCHANGED flags
    BY <1>0, <1>1 DEF StartJob, JobMoves, Jobs, ledger, main, submitVars
  <2>3. \A i \in next : \A rung \in i.todo : Token(i, rung) \notin Used
    BY <1>0, <2>1 DEF IInv, JobInv, Token, Jobs
  <2> QED
    BY <2>2, <2>3, JobQuietIInv
<1>2. CASE \E rung \in j.todo : ProbePlant(j, rung)
  BY <1>2, PlantIInv
<1>3. CASE \E rung \in j.todo, ok \in BOOLEAN : ProbeResult(j, rung, ok) \/ SlaCheck(j, rung, ok)
  BY <1>3, RungDoneIInv DEF ProbeResult, SlaCheck, RecordResult
<1>4. CASE JobRaises(j)
  <2>1. JobMoves(j, {}) /\ UNCHANGED flags
    BY <1>4 DEF JobRaises, JobMoves, ledger, main, submitVars
  <2> QED
    BY <2>1, JobQuietIInv
<1> QED
  BY <1>1, <1>2, <1>3, <1>4

(***************************************************************************)
(* Steps of a request and of an operator: no token comes into circulation. *)
(***************************************************************************)
Outside == UNCHANGED <<tick, pc, round, jobs>>

LEMMA OutsideIInv ==
  ASSUME IInv, Types', Outside, Used' \subseteq Used \cup {NoFlag}, FlagInv', RequestInv', MarkInv'
  PROVE  IInv'
<1>1. \A t : Begun(t)' = Begun(t)
  BY DEF Outside, Begun
<1>2. \A j \in jobs : \A rung \in j.todo : Token(j, rung) # NoFlag
  <2> SUFFICES ASSUME NEW j \in jobs, NEW rung \in j.todo PROVE Token(j, rung) # NoFlag
    OBVIOUS
  <2>1. j \in Jobs /\ rung \in Rungs
    BY DEF IInv, Types, TypeOK, LoopTypeOK, Jobs
  <2>2. Token(j, rung) \in Tokens
    BY <2>1 DEF Jobs, Token, Tokens
  <2> QED
    BY <2>2, SubmitAssumption
<1>3. UsedInv' /\ JobInv' /\ RoundInv'
  BY <1>1, <1>2 DEF Outside, IInv, UsedInv, JobInv, Token, RoundInv
<1> QED
  BY <1>3 DEF IInv

LEMMA ArriveIInv ==
  ASSUME IInv, Types', NEW t \in Threads, NEW flag \in {f.flag : f \in flags} \cup {NoFlag},
         NEW claimed, NEW writeup, Arrive(t, flag, claimed, writeup),
         UNCHANGED <<loopVars, operatorVars>>
  PROVE  IInv'
<1>1. UNCHANGED <<flags, submissions, tick>> /\ Outside
  BY DEF Arrive, ledger, loopVars, Outside
<1>2. requests' = [requests EXCEPT ![t] =
       [at |-> "find", flag |-> flag, claimed |-> claimed, writeup |-> writeup, tick |-> tick]]
  BY DEF Arrive
<1>3. requests \in [Threads -> RequestStates] /\ tick \in Nat
  BY DEF IInv, Types, TypeOK, LedgerTypeOK, SubmitTypeOK
<1>4. flag # NoFlag => flag \in Used /\ flag.tick <= tick
  <2> SUFFICES ASSUME flag # NoFlag PROVE flag \in Used /\ flag.tick <= tick
    OBVIOUS
  <2>1. flag \in Used
    BY DEF Used
  <2> QED
    BY <2>1 DEF IInv, UsedInv, Begun
<1>5. RequestInv'
  BY <1>1, <1>2, <1>3, <1>4 DEF IInv, RequestInv
<1>6. FlagInv' /\ MarkInv'
  BY <1>1, <1>2, <1>3 DEF IInv, FlagInv, MarkedInItsLife, MarkInv, CreditedIsMarked, Accepted
<1>7. Used' \subseteq Used \cup {NoFlag}
  BY <1>1, <1>2, <1>3, <1>4 DEF Used, Accepted
<1> QED
  BY <1>1, <1>5, <1>6, <1>7, OutsideIInv

\* Requests end without a capture.
LEMMA DroppedIInv ==
  ASSUME IInv, Types', NEW ts \in SUBSET Threads, Outside, UNCHANGED flags,
         requests' = [t \in Threads |-> IF t \in ts THEN Idle ELSE requests[t]],
         \A i \in DOMAIN submissions' :
           Accepted(i)' => i \in DOMAIN submissions /\ submissions'[i] = submissions[i]
  PROVE  IInv'
<1>1. \A i \in DOMAIN submissions' : Accepted(i)' => Accepted(i)
  BY DEF Accepted
<1>2. Used' \subseteq Used \cup {NoFlag}
  BY <1>1 DEF Used, Idle
<1>3. tick \in Nat
  BY DEF IInv, Types, TypeOK, LedgerTypeOK
<1>4. FlagInv' /\ RequestInv' /\ MarkInv'
  BY <1>1, <1>3 DEF IInv, FlagInv, MarkedInItsLife, RequestInv, MarkInv, CreditedIsMarked, Accepted, Idle,
     Outside
<1> QED
  BY <1>2, <1>4, OutsideIInv

LEMMA RefuseIInv ==
  ASSUME IInv, Types', NEW t \in Threads, NEW verdict \in Verdicts \ {"accepted"}, Refuse(t, verdict),
         UNCHANGED <<loopVars, operatorVars>>
  PROVE  IInv'
<1> DEFINE row == [by |-> Client[t], flag |-> requests[t].flag, verdict |-> verdict, klass |-> NoClass,
                   claimed |-> requests[t].claimed, points |-> 0, pending |-> FALSE]
<1>1. Outside /\ UNCHANGED flags
  BY DEF Refuse, loopVars, Outside
<1>2. requests' = [s \in Threads |-> IF s \in {t} THEN Idle ELSE requests[s]]
  BY DEF Refuse, Finish, IInv, Types, TypeOK, SubmitTypeOK
<1>3. submissions \in Seq(SubmissionRows) /\ submissions' = Append(submissions, row)
  BY DEF Refuse, Record, IInv, Types, TypeOK, LedgerTypeOK
<1>4. row.verdict # "accepted"
  OBVIOUS
<1> HIDE DEF row
<1>5. ASSUME NEW i \in DOMAIN submissions', Accepted(i)'
      PROVE  i \in DOMAIN submissions /\ submissions'[i] = submissions[i]
  BY <1>3, <1>4, <1>5 DEF Accepted
<1> QED
  BY <1>1, <1>2, <1>5, DroppedIInv

\* A request passes a check.
LEMMA GotoIInv ==
  ASSUME IInv, Types', NEW t \in Threads, NEW at \in Steps \ {"record"}, Goto(t, at), UNCHANGED ledger,
         UNCHANGED loopVars,
         \/ requests[t].at \in {"manifest", "already", "mark", "record"}
         \/ /\ FindLiveFlag(requests[t].flag, requests[t].tick) # {}
            /\ requests[t].flag.player # Client[t]
  PROVE  IInv'
<1>1. Outside /\ UNCHANGED <<flags, submissions>>
  BY DEF ledger, loopVars, Outside
<1>2. requests \in [Threads -> RequestStates]
  BY DEF IInv, Types, TypeOK, SubmitTypeOK
<1>3. requests' = [requests EXCEPT ![t].at = at]
  BY DEF Goto
<1>4. \A s \in Threads : /\ requests'[s].flag = requests[s].flag
                         /\ requests'[s].tick = requests[s].tick
                         /\ s # t => requests'[s] = requests[s]
                         /\ s = t => requests'[s].at = at
  BY <1>2, <1>3 DEF RequestStates
<1>5. Used' = Used
  BY <1>1, <1>4 DEF Used, Accepted
<1>6. /\ requests[t].flag \in Tokens
      /\ requests[t].flag.player # Client[t]
      /\ requests[t].tick < requests[t].flag.tick + K
  <2>1. CASE requests[t].at \in {"manifest", "already", "mark", "record"}
    BY <2>1 DEF IInv, RequestInv
  <2>2. CASE requests[t].at \notin {"manifest", "already", "mark", "record"}
    <3>1. PICK f \in flags : f.flag = requests[t].flag /\ f.expires_tick > requests[t].tick
      BY <2>2 DEF FindLiveFlag
    <3>2. f.flag \in Tokens /\ f.expires_tick = f.flag.tick + K
      BY DEF IInv, FlagInv, Types, TypeOK, LedgerTypeOK, FlagRows
    <3>3. requests[t].tick \in Nat /\ f.flag.tick + K \in Nat
      BY <1>2, <3>2, KAssumption DEF RequestStates, Tokens
    <3> QED
      BY <2>2, <3>1, <3>2, <3>3
  <2> QED
    BY <2>1, <2>2
<1>7. RequestInv'
  BY <1>1, <1>4, <1>6 DEF IInv, RequestInv, Outside
<1>8. FlagInv' /\ MarkInv'
  BY <1>1, <1>4 DEF IInv, FlagInv, MarkedInItsLife, MarkInv, CreditedIsMarked, Accepted
<1> QED
  BY <1>1, <1>5, <1>7, <1>8, OutsideIInv

LEMMA MarkIInv ==
  ASSUME IInv, Types', NEW t \in Threads, Mark(t), UNCHANGED <<loopVars, operatorVars>>
  PROVE  IInv'
<1> DEFINE flag == requests[t].flag
           Marked(f) == IF f.flag = flag /\ f.stolen_by = NoOne
                        THEN [f EXCEPT !.stolen_by = Client[t], !.stolen_tick = requests[t].tick]
                        ELSE f
<1>1. Outside /\ UNCHANGED submissions
  BY DEF Mark, loopVars, Outside
<1>2. flags' = {Marked(f) : f \in flags} /\ flags \subseteq FlagRows
  BY DEF Mark, MarkStolen, IInv, Types, TypeOK, LedgerTypeOK
<1>3. requests \in [Threads -> RequestStates] /\ requests' = [requests EXCEPT ![t].at = "record"]
  BY DEF Mark, Goto, IInv, Types, TypeOK, SubmitTypeOK
<1>4. \A s \in Threads : /\ requests'[s].flag = requests[s].flag
                         /\ requests'[s].tick = requests[s].tick
                         /\ s # t => requests'[s] = requests[s]
                         /\ s = t => requests'[s].at = "record"
  BY <1>3 DEF RequestStates
<1>5. /\ flag \in Tokens /\ flag.player # Client[t] /\ flag.tick <= requests[t].tick
      /\ requests[t].tick < flag.tick + K
      /\ Client[t] # NoOne
  BY SubmitAssumption, PlayersAssumption DEF IInv, RequestInv, Mark
<1>6. ASSUME NEW f \in flags
      PROVE  /\ Marked(f).flag = f.flag
             /\ Marked(f).expires_tick = f.expires_tick
             /\ f.stolen_by # NoOne => Marked(f) = f
             /\ f.flag # flag => Marked(f) = f
             /\ f.flag = flag => Marked(f).stolen_by # NoOne
             /\ f.flag = flag /\ f.stolen_by = NoOne =>
                  Marked(f).stolen_by = Client[t] /\ Marked(f).stolen_tick = requests[t].tick
  BY <1>2, <1>5 DEF FlagRows
<1> HIDE DEF Marked
<1>7. Used' = Used
  <2>1. {f.flag : f \in flags'} = {f.flag : f \in flags}
    BY <1>2, <1>6
  <2> QED
    BY <1>1, <1>4, <2>1 DEF Used, Accepted
<1>8. FlagInv'
  <2> SUFFICES ASSUME NEW f \in flags
               PROVE  /\ Marked(f).expires_tick = Marked(f).flag.tick + K
                      /\ Marked(f).stolen_by # NoOne =>
                           /\ Marked(f).stolen_by # Marked(f).flag.player
                           /\ Marked(f).flag.tick <= Marked(f).stolen_tick
                           /\ Marked(f).stolen_tick < Marked(f).expires_tick
    BY <1>2 DEF FlagInv, MarkedInItsLife
  <2> QED
    BY <1>5, <1>6 DEF IInv, FlagInv, MarkedInItsLife
<1>9. RequestInv'
  BY <1>1, <1>4, <1>5 DEF IInv, RequestInv, Outside
<1>10. MarkInv'
  <2>1. \A f \in flags' : \E e \in flags : f.flag = e.flag /\ (e.stolen_by # NoOne => f.stolen_by # NoOne)
    BY <1>2, <1>6
  <2>2. \A f \in flags' : f.flag = flag => f.stolen_by # NoOne
    BY <1>2, <1>6
  <2>3. CreditedIsMarked'
    BY <1>1, <2>1 DEF IInv, MarkInv, CreditedIsMarked, Accepted
  <2>4. ASSUME NEW s \in Threads, NEW f \in flags', requests'[s].at = "record", requests'[s].flag = f.flag
        PROVE  f.stolen_by # NoOne
    BY <1>4, <2>1, <2>2, <2>4 DEF IInv, MarkInv
  <2> QED
    BY <2>3, <2>4 DEF MarkInv
<1> QED
  BY <1>1, <1>7, <1>8, <1>9, <1>10, OutsideIInv

LEMMA AcceptIInv ==
  ASSUME IInv, Types', NEW t \in Threads, Accept(t), UNCHANGED <<loopVars, operatorVars>>
  PROVE  IInv'
<1> DEFINE r == requests[t]
           class == AutoClass(r.flag.protocol)
           row == [by |-> Client[t], flag |-> r.flag, verdict |-> "accepted", klass |-> class,
                   claimed |-> r.claimed, points |-> AttackPoints[class],
                   pending |-> ClaimsAbove(r.claimed, r.flag.protocol)]
<1>1. Outside /\ UNCHANGED flags
  BY DEF Accept, loopVars, Outside
<1>2. submissions \in Seq(SubmissionRows) /\ submissions' = Append(submissions, row)
  BY DEF Accept, Record, IInv, Types, TypeOK, LedgerTypeOK
<1>3. requests' = [requests EXCEPT ![t] = Idle] /\ requests \in [Threads -> RequestStates]
  BY DEF Accept, Finish, IInv, Types, TypeOK, SubmitTypeOK
<1>4. row.flag = r.flag /\ r.flag \in Used /\ r.at = "record"
  BY DEF Accept, Used
<1> HIDE DEF row, r
<1>5. /\ DOMAIN submissions' = DOMAIN submissions \cup {Len(submissions) + 1}
      /\ \A i \in DOMAIN submissions : submissions'[i] = submissions[i]
      /\ submissions'[Len(submissions) + 1] = row
  BY <1>2
<1>6. Used' \subseteq Used \cup {NoFlag}
  BY <1>1, <1>3, <1>4, <1>5 DEF Used, Accepted, Idle
<1>7. RequestInv'
  <2>1. tick \in Nat
    BY DEF IInv, Types, TypeOK, LedgerTypeOK
  <2> QED
    BY <1>1, <1>3, <2>1 DEF IInv, RequestInv, Idle, Outside
<1>8. MarkInv'
  <2>1. \A f \in flags : r.flag = f.flag => f.stolen_by # NoOne
    BY <1>4 DEF IInv, MarkInv, r
  <2>2. CreditedIsMarked'
    BY <1>1, <1>4, <1>5, <2>1 DEF IInv, MarkInv, CreditedIsMarked, Accepted
  <2> QED
    BY <1>1, <1>3, <2>2 DEF IInv, MarkInv, Idle
<1>9. FlagInv'
  BY <1>1 DEF IInv, FlagInv, MarkedInItsLife
<1> QED
  BY <1>1, <1>6, <1>7, <1>8, <1>9, OutsideIInv

LEMMA SubmitIInv ==
  ASSUME IInv, SubmitNext, UNCHANGED <<loopVars, operatorVars>>
  PROVE  IInv'
<1> USE DEF Steps, Verdicts
<1>1. ASSUME NEW t \in Threads, NEW flag \in {f.flag : f \in flags} \cup {NoFlag},
             NEW claimed \in Claims, NEW writeup \in BOOLEAN, Arrive(t, flag, claimed, writeup)
      PROVE  IInv'
  <2>1. flag \in Tokens \cup {NoFlag} /\ claimed \in Classes \cup {NoClass}
    BY SubmitAssumption DEF IInv, Types, TypeOK, LedgerTypeOK, FlagRows
  <2>2. [at |-> "find", flag |-> flag, claimed |-> claimed, writeup |-> writeup, tick |-> tick]
          \in RequestStates
    BY <2>1 DEF IInv, Types, TypeOK, LedgerTypeOK, RequestStates
  <2>3. Types'
    BY <1>1, <2>2 DEF Arrive, IInv, Types, TypeOK, LedgerTypeOK, LoopTypeOK, SubmitTypeOK, ReviewInv,
       Reviewable, ledger, loopVars, operatorVars
  <2> QED
    BY <1>1, <2>3, ArriveIInv
<1>2. ASSUME NEW t \in Threads, NEW verdict \in Verdicts \ {"accepted"}, Refuse(t, verdict)
      PROVE  IInv'
  BY <1>2, RefuseTypes, RefuseIInv DEF IInv
<1>3. ASSUME NEW t \in Threads, RefuseInvalid(t) \/ RefuseOwn(t) \/ RefuseUndeclared(t) \/ RefuseDuplicate(t)
      PROVE  IInv'
  BY <1>2, <1>3 DEF RefuseInvalid, RefuseOwn, RefuseUndeclared, RefuseDuplicate
<1>4. ASSUME NEW t \in Threads, Find(t) \/ CheckManifest(t) \/ Judge(t)
      PROVE  IInv'
  <2>1. PICK at \in Steps \ {"record"} : Goto(t, at)
    BY <1>4 DEF Find, CheckManifest, Judge
  <2>2. UNCHANGED <<ledger, outages>>
    BY <1>4 DEF Find, CheckManifest, Judge
  <2>3. Types'
    BY <2>1, <2>2, GotoTypes DEF IInv, Types, TypeOK, LedgerTypeOK, LoopTypeOK, ReviewInv, Reviewable,
       ledger, loopVars, operatorVars
  <2>4. \/ requests[t].at \in {"manifest", "already", "mark", "record"}
        \/ /\ FindLiveFlag(requests[t].flag, requests[t].tick) # {}
           /\ requests[t].flag.player # Client[t]
    BY <1>4 DEF Find, CheckManifest, Judge
  <2> QED
    BY <2>1, <2>2, <2>3, <2>4, GotoIInv
<1>5. ASSUME NEW ts \in SUBSET Threads, UNCHANGED ledger, outages' \in Nat,
             requests' = [t \in Threads |-> IF t \in ts THEN Idle ELSE requests[t]]
      PROVE  IInv'
  <2>1. Idle \in RequestStates
    BY DEF Idle, RequestStates
  <2>2. Types'
    BY <1>5, <2>1 DEF IInv, Types, TypeOK, LedgerTypeOK, LoopTypeOK, SubmitTypeOK, ReviewInv, Reviewable,
       ledger, loopVars, operatorVars
  <2>3. Outside /\ UNCHANGED <<flags, submissions>>
    BY <1>5 DEF Outside, ledger, loopVars
  <2> QED
    BY <1>5, <2>2, <2>3, DroppedIInv DEF Accepted
<1>6. ASSUME NEW t \in Threads, RefuseBareClaim(t)
      PROVE  IInv'
  <2>1. requests' = [s \in Threads |-> IF s \in {t} THEN Idle ELSE requests[s]]
    BY <1>6 DEF RefuseBareClaim, Finish, IInv, Types, TypeOK, SubmitTypeOK
  <2>2. UNCHANGED ledger /\ outages' \in Nat /\ {t} \in SUBSET Threads
    BY <1>6 DEF RefuseBareClaim, IInv, Types, TypeOK, SubmitTypeOK
  <2> QED
    BY <1>5, <2>1, <2>2
<1>7. ASSUME NEW t \in Threads, Mark(t)
      PROVE  IInv'
  <2>1. requests[t].tick \in Nat /\ Client[t] \in Players
    BY SubmitAssumption DEF IInv, Types, TypeOK, SubmitTypeOK, RequestStates
  <2>2. flags' \subseteq FlagRows
    <3> DEFINE marked(f) == [f EXCEPT !.stolen_by = Client[t], !.stolen_tick = requests[t].tick]
    <3>1. flags \subseteq FlagRows
      BY DEF IInv, Types, TypeOK, LedgerTypeOK
    <3>2. ASSUME NEW f \in FlagRows
          PROVE  marked(f) \in FlagRows
      BY <2>1 DEF FlagRows
    <3>3. \A g \in flags' : g \in flags \/ \E f \in flags : g = marked(f)
      BY <1>7 DEF Mark, MarkStolen
    <3> HIDE DEF marked
    <3> QED
      BY <3>1, <3>2, <3>3
  <2>3. SubmitTypeOK'
    BY <1>7, GotoTypes DEF Mark, IInv
  <2>4. Types'
    BY <1>7, <2>2, <2>3 DEF Mark, IInv, Types, TypeOK, LedgerTypeOK, LoopTypeOK, ReviewInv, Reviewable,
       loopVars, operatorVars
  <2> QED
    BY <1>7, <2>4, MarkIInv
<1>8. ASSUME NEW t \in Threads, Accept(t)
      PROVE  IInv'
  <2>1. requests[t].flag \in Tokens
    BY <1>8 DEF Accept, IInv, RequestInv
  <2> QED
    BY <1>8, <2>1, AcceptTypes, AcceptIInv DEF IInv
<1>9. CASE Outage
  <2>1. outages \in Nat /\ outages' = outages + 1 /\ UNCHANGED ledger
    BY <1>9 DEF Outage, IInv, Types, TypeOK, SubmitTypeOK
  <2>2. \E ts \in SUBSET Threads : requests' = [t \in Threads |-> IF t \in ts THEN Idle ELSE requests[t]]
    BY <1>9, Zenon DEF Outage
  <2> QED
    BY <1>5, <2>1, <2>2
<1> QED
  BY <1>1, <1>3, <1>4, <1>6, <1>7, <1>8, <1>9 DEF SubmitNext, Handle

(***************************************************************************)
(* Steps of an operator and of a deploy.                                   *)
(***************************************************************************)
\* A review rewrites one row, and of that row columns that no capture depends on.
LEMMA ReviewRewrites ==
  ASSUME Types, NEW o \in Operators, Approve(o) \/ Reject(o)
  PROVE  LET id == reviewing[o]
             row == submissions[id]
             new == submissions'[id]
         IN  /\ id \in DOMAIN submissions
             /\ submissions' \in Seq(SubmissionRows) /\ DOMAIN submissions' = DOMAIN submissions
             /\ \A i \in DOMAIN submissions : i # id => submissions'[i] = submissions[i]
             /\ new.by = row.by /\ new.flag = row.flag /\ new.verdict = row.verdict
             /\ new.claimed = row.claimed /\ ~new.pending
             /\ \/ new.klass = row.claimed /\ new.points = AttackPoints[row.claimed]
                \/ new.klass = row.klass /\ new.points = row.points
<1> DEFINE id == reviewing[o]
           row == submissions[id]
<1>1. id \in DOMAIN submissions /\ row.claimed \in Classes
  BY DEF Approve, Reject, Types, ReviewInv, Reviewable
<1>2. submissions \in Seq(SubmissionRows) /\ row \in SubmissionRows
  BY <1>1 DEF Types, TypeOK, LedgerTypeOK
<1>3. PICK new \in SubmissionRows :
        /\ submissions' = [submissions EXCEPT ![id] = new]
        /\ new.by = row.by /\ new.flag = row.flag /\ new.verdict = row.verdict
        /\ new.claimed = row.claimed /\ ~new.pending
        /\ \/ new.klass = row.claimed /\ new.points = AttackPoints[row.claimed]
           \/ new.klass = row.klass /\ new.points = row.points
  <2>1. CASE Approve(o)
    <3> DEFINE new == [row EXCEPT !.klass = row.claimed, !.points = AttackPoints[row.claimed],
                                  !.pending = FALSE]
    <3>1. new \in SubmissionRows
      BY <1>1, <1>2, PointsAssumption DEF SubmissionRows
    <3>2. submissions' = [submissions EXCEPT ![id] = new]
      BY <1>1, <1>2, <2>1 DEF Approve
    <3> QED
      BY <1>2, <3>1, <3>2 DEF SubmissionRows
  <2>2. CASE Reject(o)
    <3> DEFINE new == [row EXCEPT !.pending = FALSE]
    <3>1. new \in SubmissionRows
      BY <1>2 DEF SubmissionRows
    <3>2. submissions' = [submissions EXCEPT ![id] = new]
      BY <1>1, <1>2, <2>2 DEF Reject
    <3> QED
      BY <1>2, <3>1, <3>2 DEF SubmissionRows
  <2> QED
    BY <2>1, <2>2
<1> HIDE DEF id, row
<1>4. submissions' \in Seq(SubmissionRows) /\ DOMAIN submissions' = DOMAIN submissions
  BY <1>1, <1>2, <1>3, ExceptSeq
<1>5. submissions'[id] = new /\ \A i \in DOMAIN submissions : i # id => submissions'[i] = submissions[i]
  BY <1>1, <1>2, <1>3
<1> QED
  BY <1>1, <1>3, <1>4, <1>5 DEF id, row

\* What captures are made of stays.
LEMMA ReviewKeeps ==
  ASSUME Types, NEW o \in Operators, Approve(o) \/ Reject(o)
  PROVE  /\ submissions' \in Seq(SubmissionRows) /\ DOMAIN submissions' = DOMAIN submissions
         /\ \A i \in DOMAIN submissions :
              /\ submissions'[i].by = submissions[i].by /\ submissions'[i].flag = submissions[i].flag
              /\ submissions'[i].verdict = submissions[i].verdict
              /\ submissions'[i].claimed = submissions[i].claimed
              /\ submissions'[i].pending => submissions[i].pending
BY ReviewRewrites

LEMMA ReviewIInv ==
  ASSUME IInv, NEW o \in Operators, Approve(o) \/ Reject(o), UNCHANGED <<loopVars, submitVars>>
  PROVE  IInv'
<1>1. submissions' \in Seq(SubmissionRows) /\ DOMAIN submissions' = DOMAIN submissions
  BY ReviewKeeps DEF IInv
<1>2. \A i \in DOMAIN submissions :
        /\ submissions'[i].by = submissions[i].by /\ submissions'[i].flag = submissions[i].flag
        /\ submissions'[i].verdict = submissions[i].verdict
        /\ submissions'[i].claimed = submissions[i].claimed
        /\ submissions'[i].pending => submissions[i].pending
  BY ReviewKeeps DEF IInv
<1>3. reviewing \in [Operators -> Nat] /\ reviewing' = [reviewing EXCEPT ![o] = 0]
  BY DEF Approve, Reject, ReviewDone, IInv, Types, TypeOK
<1>4. UNCHANGED <<tick, frozen, players, flags, uptime, contested, landing, deploys, requests, outages>> /\ Outside
  BY DEF Approve, Reject, ReviewDone, submitVars, loopVars, Outside
<1>5. Types'
  <2>1. ReviewInv'
    BY <1>1, <1>2, <1>3 DEF IInv, Types, ReviewInv, Reviewable
  <2> QED
    BY <1>1, <1>3, <1>4, <2>1 DEF IInv, Types, TypeOK, LedgerTypeOK, LoopTypeOK, SubmitTypeOK, loopVars
<1>6. Used' \subseteq Used \cup {NoFlag}
  BY <1>1, <1>2, <1>4 DEF Used, Accepted
<1>7. FlagInv' /\ RequestInv'
  BY <1>4 DEF IInv, FlagInv, MarkedInItsLife, RequestInv
<1>8. MarkInv'
  BY <1>1, <1>2, <1>4 DEF IInv, MarkInv, CreditedIsMarked, Accepted
<1> QED
  BY <1>4, <1>5, <1>6, <1>7, <1>8, OutsideIInv

LEMMA OperatorIInv ==
  ASSUME IInv, OperatorNext, UNCHANGED <<loopVars, submitVars>>
  PROVE  IInv'
<1>1. CASE \E o \in Operators : Approve(o) \/ Reject(o)
  BY <1>1, ReviewIInv
<1>2. ASSUME UNCHANGED <<tick, flags, uptime, submissions>>, Types'
      PROVE  IInv'
  <2>1. Quiet /\ UNCHANGED <<pc, round, jobs>>
    BY <1>2 DEF Quiet, loopVars, submitVars
  <2> QED
    BY <1>2, <2>1, QuietIInv DEF IInv, RoundInv, Begun, Quiet
<1> USE DEF IInv, Types, TypeOK, LedgerTypeOK, LoopTypeOK, SubmitTypeOK, ReviewInv, Reviewable, loopVars, submitVars
<1>3. CASE \E on \in BOOLEAN : Freeze(on)
  BY <1>2, <1>3 DEF Freeze, operatorVars
<1>4. CASE \E o \in Operators : \E i \in DOMAIN submissions : ReviewFetch(o, i)
  <2>1. PICK o \in Operators, i \in DOMAIN submissions : ReviewFetch(o, i)
    BY <1>4
  <2>2. i \in Nat /\ submissions[i].claimed \in Classes
    BY <2>1 DEF ReviewFetch
  <2> QED
    BY <1>2, <2>1, <2>2 DEF ReviewFetch, Fetch, ledger
<1>5. CASE \E p \in Deployers : ReadGrace(p)
  <2>1. PICK p \in Deployers : ReadGrace(p)
    BY <1>5
  <2>2. tick + GraceTicks \in Nat
    BY OperatorAssumption
  <2> QED
    BY <1>2, <2>1, <2>2, OperatorAssumption DEF ReadGrace, ledger
<1>6. CASE \E p \in Deployers, manifest \in Manifests : Land(p, manifest)
  <2>1. PICK p \in Deployers, manifest \in Manifests : Land(p, manifest)
    BY <1>6
  <2>2. [status |-> "running", manifest |-> manifest, grace_until_tick |-> landing[p]] \in PlayerRows
    BY <2>1, OperatorAssumption DEF Land, PlayerRows, NoTick
  <2> QED
    BY <1>2, <2>1, <2>2, OperatorAssumption DEF Land, RecordDeploy
<1> QED
  BY <1>1, <1>3, <1>4, <1>5, <1>6 DEF OperatorNext

-----------------------------------------------------------------------------
LEMMA NextIInv == IInv /\ [Next]_vars => IInv'
<1> SUFFICES ASSUME IInv, [Next]_vars PROVE IInv'
  OBVIOUS
<1>1. CASE LoopNext /\ UNCHANGED <<submitVars, operatorVars>>
  <2>1. CASE JobStep
    BY <1>1, <2>1, JobTypes, JobIInv DEF IInv
  <2>2. CASE Rest \/ Crash \/ Restart
    BY <1>1, <2>2, RestartTypes, MainQuiet DEF IInv
  <2>3. CASE MainStep
    BY <1>1, <2>3, MainTypes, MainQuiet, AdvanceIInv, RunTickIInv, ExpireIInv DEF IInv, MainStep
  <2> QED
    BY <1>1, <2>1, <2>2, <2>3 DEF LoopNext
<1>2. CASE SubmitNext /\ UNCHANGED <<loopVars, operatorVars>>
  BY <1>2, SubmitIInv
<1>3. CASE OperatorNext /\ UNCHANGED <<loopVars, submitVars>>
  BY <1>3, OperatorIInv
<1>4. CASE UNCHANGED vars
  BY <1>4 DEF vars, IInv, Types, TypeOK, LedgerTypeOK, LoopTypeOK, SubmitTypeOK, ReviewInv, Reviewable,
     RoundInv, UsedInv, Used, Begun, JobInv, Token, FlagInv, MarkedInItsLife, RequestInv, MarkInv,
     CreditedIsMarked, Accepted, ledger, loopVars, submitVars, operatorVars
<1> QED
  BY <1>1, <1>2, <1>3, <1>4 DEF Next

THEOREM Inductive == Spec => []IInv
BY InitIInv, NextIInv, PTL DEF Spec

\* Ticks count from 1.
FromOne ==
  /\ pc \in {"settle", "stolen", "pay", "dispatch", "await"} => tick > 0
  /\ \A j \in jobs : j.tick > 0

LEMMA NextFromOne == IInv /\ FromOne /\ [Next]_vars => FromOne'
<1> SUFFICES ASSUME IInv, FromOne, [Next]_vars PROVE FromOne'
  OBVIOUS
<1>0. tick \in Nat /\ jobs \in SUBSET Jobs
  BY DEF IInv, Types, TypeOK, LedgerTypeOK, LoopTypeOK
<1>1. CASE JobStep
  <2>1. PICK j \in jobs :
          \/ StartJob(j)
          \/ \E rung \in j.todo :
               \/ ProbePlant(j, rung)
               \/ \E ok \in BOOLEAN : ProbeResult(j, rung, ok) \/ SlaCheck(j, rung, ok)
          \/ JobRaises(j)
    BY <1>1 DEF JobStep
  <2>2. UNCHANGED <<pc, tick>>
    BY <1>1, JobWrites DEF main
  <2>3. \A i \in jobs' : i \in jobs \/ i.tick = j.tick
    <3>1. CASE StartJob(j) \/ JobRaises(j)
      BY <1>0, <3>1 DEF StartJob, JobRaises, Jobs
    <3>2. ASSUME NEW rung \in j.todo, ProbePlant(j, rung)
          PROVE  \A i \in jobs' : i \in jobs \/ i.tick = j.tick
      BY <1>0, <3>2 DEF ProbePlant, Jobs
    <3>3. ASSUME NEW rung \in j.todo, RungDone(j, rung)
          PROVE  \A i \in jobs' : i \in jobs \/ i.tick = j.tick
      BY <1>0, <3>3 DEF RungDone, Jobs
    <3> QED
      BY <2>1, <3>1, <3>2, <3>3 DEF ProbeResult, SlaCheck
  <2> QED
    BY <2>2, <2>3 DEF FromOne
<1>2. CASE AdvanceTick
  BY <1>0, <1>2 DEF AdvanceTick, FromOne, IInv, RoundInv
<1>3. CASE RunTick
  <2>1. tick > 0 /\ round = tick /\ UNCHANGED tick
    BY <1>3 DEF RunTick, FromOne, IInv, RoundInv, ledger
  <2> QED
    BY <1>3, <2>1 DEF RunTick, FromOne
<1>4. CASE UNCHANGED tick /\ jobs' \subseteq jobs /\ (pc' \in {"idle", "advance", "down"} \/ pc' = pc)
  BY <1>4 DEF FromOne
<1>5. CASE MainStep
  <2>1. CASE ReadTick \/ ExpireFlags \/ \E p \in awaiting : AwaitDone(p) \/ AwaitTimeout(p)
    <3>1. CASE ReadTick
      BY <1>4, <3>1 DEF ReadTick, ledger
    <3>2. CASE ExpireFlags
      BY <1>4, <3>2 DEF ExpireFlags
    <3>3. CASE \E p \in awaiting : AwaitDone(p) \/ AwaitTimeout(p)
      BY <1>4, <3>3 DEF AwaitDone, AwaitTimeout, Await, ledger
    <3> QED
      BY <2>1, <3>1, <3>2, <3>3
  <2>2. CASE SettleNext \/ (\E p \in owing : SettleStolen(p) \/ SettleRows(p)) \/ \E u \in payable : SettlePay(u)
    <3>1. UNCHANGED <<tick, jobs>> /\ pc \in {"settle", "stolen", "pay"}
      BY <2>2 DEF SettleNext, SettleStolen, SettleRows, SettlePay, ledger
    <3> QED
      BY <3>1 DEF FromOne
  <2> QED
    BY <1>2, <1>3, <1>5, <2>1, <2>2 DEF MainStep
<1>6. CASE Rest \/ Crash \/ Restart
  <2>1. UNCHANGED tick /\ jobs' \subseteq jobs
    BY <1>6, DeathWrites DEF ledger
  <2>2. pc' \in {"idle", "down"}
    BY <1>6 DEF Rest, Crash, Restart, loopVars
  <2> QED
    BY <1>4, <2>1, <2>2
<1>7. CASE SubmitNext /\ UNCHANGED <<loopVars, operatorVars>>
  BY <1>4, <1>7, SubmitWrites DEF loopVars
<1>8. CASE OperatorNext /\ UNCHANGED <<loopVars, submitVars>>
  BY <1>4, <1>8, OperatorWrites DEF loopVars
<1>9. CASE UNCHANGED vars
  BY <1>4, <1>9 DEF vars, ledger, loopVars
<1> QED
  BY <1>1, <1>5, <1>6, <1>7, <1>8, <1>9 DEF Next, LoopNext

LEMMA TicksFromOne == Spec => []FromOne
<1>1. Init => FromOne
  BY DEF Init, LoopInit, FromOne
<1> QED
  BY <1>1, NextFromOne, Inductive, PTL DEF Spec

\* Every table and every local variable keeps its type, the class of a review
\* included: cmd_review never looks up the points of a claim that is missing.
THEOREM TypeCorrect == Spec => []TypeOK
<1>1. IInv => TypeOK
  BY DEF IInv, Types
<1> QED
  BY <1>1, Inductive, PTL

\* A credited flag is marked stolen, whatever dies between the two statements.
THEOREM CreditImpliesMark == Spec => []CreditedIsMarked
<1>1. IInv => CreditedIsMarked
  BY DEF IInv, MarkInv
<1> QED
  BY <1>1, Inductive, PTL

\* However stale the tick a request works with, the mark it makes lies in the
\* life of the flag.
THEOREM MarksAreTimely == Spec => []MarkedInItsLife
<1>1. IInv => MarkedInItsLife
  BY DEF IInv, FlagInv
<1> QED
  BY <1>1, Inductive, PTL

-----------------------------------------------------------------------------
(***************************************************************************)
(* One capture per attacker and flag.  The SELECT for an accepted row and  *)
(* the INSERT are three statements apart, so this holds where no client    *)
(* has two requests in the API at once; the run `duplicates` shows what    *)
(* two of them do.                                                         *)
(***************************************************************************)
OneAtATime == \A s, t \in Threads : Client[s] = Client[t] => s = t

OnceInv ==
  /\ ScoresOnce
  /\ \A t \in Threads :
       requests[t].at \in {"mark", "record"} => ~Captured(Client[t], requests[t].flag)

\* Steps that write no accepted row, and judge no request that has been captured.
LEMMA SameCapturesOnce ==
  ASSUME OnceInv,
         \A i \in DOMAIN submissions' : Accepted(i)' =>
           /\ i \in DOMAIN submissions /\ Accepted(i)
           /\ submissions'[i].by = submissions[i].by
           /\ submissions'[i].flag = submissions[i].flag,
         \A t \in Threads : requests'[t].at \in {"mark", "record"} =>
           /\ ~Captured(Client[t], requests[t].flag)
           /\ requests'[t].flag = requests[t].flag
  PROVE  OnceInv'
<1>1. ScoresOnce'
  BY DEF OnceInv, ScoresOnce
<1>2. \A by, flag : Captured(by, flag)' => Captured(by, flag)
  BY DEF Captured, Accepted
<1> QED
  BY <1>1, <1>2 DEF OnceInv

LEMMA RefuseOnce ==
  ASSUME IInv, OnceInv, NEW t \in Threads, NEW verdict, verdict # "accepted", Refuse(t, verdict)
  PROVE  OnceInv'
<1> DEFINE row == [by |-> Client[t], flag |-> requests[t].flag, verdict |-> verdict, klass |-> NoClass,
                   claimed |-> requests[t].claimed, points |-> 0, pending |-> FALSE]
<1>1. submissions \in Seq(SubmissionRows) /\ submissions' = Append(submissions, row)
  BY DEF Refuse, Record, IInv, Types, TypeOK, LedgerTypeOK
<1>2. row.verdict # "accepted"
  OBVIOUS
<1> HIDE DEF row
<1>3. \A i \in DOMAIN submissions' : Accepted(i)' =>
        i \in DOMAIN submissions /\ submissions'[i] = submissions[i]
  BY <1>1, <1>2 DEF Accepted
<1>4. \A s \in Threads : requests'[s].at \in {"mark", "record"} => requests'[s] = requests[s]
  BY DEF Refuse, Finish, Idle, IInv, Types, TypeOK, SubmitTypeOK
<1> QED
  BY <1>3, <1>4, SameCapturesOnce DEF OnceInv, Accepted

LEMMA AcceptOnce ==
  ASSUME OneAtATime, IInv, OnceInv, NEW t \in Threads, Accept(t)
  PROVE  OnceInv'
<1> DEFINE r == requests[t]
           class == AutoClass(r.flag.protocol)
           row == [by |-> Client[t], flag |-> r.flag, verdict |-> "accepted", klass |-> class,
                   claimed |-> r.claimed, points |-> AttackPoints[class],
                   pending |-> ClaimsAbove(r.claimed, r.flag.protocol)]
<1>1. submissions \in Seq(SubmissionRows) /\ submissions' = Append(submissions, row)
  BY DEF Accept, Record, IInv, Types, TypeOK, LedgerTypeOK
<1>2. row.by = Client[t] /\ row.flag = requests[t].flag
  OBVIOUS
<1> HIDE DEF row
<1>3. /\ DOMAIN submissions' = DOMAIN submissions \cup {Len(submissions) + 1}
      /\ \A i \in DOMAIN submissions : submissions'[i] = submissions[i]
      /\ submissions'[Len(submissions) + 1] = row
  BY <1>1
<1>4. ~Captured(Client[t], requests[t].flag)
  BY DEF Accept, OnceInv
<1>5. ScoresOnce'
  BY <1>2, <1>3, <1>4 DEF OnceInv, ScoresOnce, Captured, Accepted
<1>6. \A s \in Threads : requests'[s].at \in {"mark", "record"} => s # t /\ requests'[s] = requests[s]
  BY DEF Accept, Finish, Idle, IInv, Types, TypeOK, SubmitTypeOK
<1>7. \A s \in Threads : s # t => Client[s] # Client[t]
  BY DEF OneAtATime
<1>8. \A by, flag : by # Client[t] /\ Captured(by, flag)' => Captured(by, flag)
  BY <1>2, <1>3 DEF Captured
<1> QED
  BY <1>5, <1>6, <1>7, <1>8 DEF OnceInv

LEMMA SubmitOnce ==
  ASSUME OneAtATime, IInv, OnceInv, SubmitNext
  PROVE  OnceInv'
<1>0. requests \in [Threads -> RequestStates]
  BY DEF IInv, Types, TypeOK, SubmitTypeOK
<1>1. ASSUME UNCHANGED submissions,
             \A s \in Threads : requests'[s].at \in {"mark", "record"} =>
               /\ requests'[s].flag = requests[s].flag
               /\ \/ requests[s].at \in {"mark", "record"}
                  \/ ~Captured(Client[s], requests[s].flag)
      PROVE  OnceInv'
  BY <1>1, SameCapturesOnce DEF OnceInv, Accepted
<1>2. ASSUME NEW t \in Threads, NEW flag, NEW claimed, NEW writeup, Arrive(t, flag, claimed, writeup)
      PROVE  OnceInv'
  BY <1>0, <1>1, <1>2 DEF Arrive, ledger
<1>3. ASSUME NEW t \in Threads, RefuseInvalid(t) \/ RefuseOwn(t) \/ RefuseUndeclared(t) \/ RefuseDuplicate(t)
      PROVE  OnceInv'
  BY <1>3, RefuseOnce DEF RefuseInvalid, RefuseOwn, RefuseUndeclared, RefuseDuplicate
<1>4. ASSUME NEW t \in Threads, Find(t) \/ CheckManifest(t) \/ Judge(t) \/ Mark(t)
      PROVE  OnceInv'
  <2>1. UNCHANGED submissions
    BY <1>4 DEF Find, CheckManifest, Judge, Mark, ledger
  <2>2. ASSUME NEW s \in Threads, requests'[s].at \in {"mark", "record"}
        PROVE  /\ requests'[s].flag = requests[s].flag
               /\ \/ requests[s].at \in {"mark", "record"}
                  \/ ~Captured(Client[s], requests[s].flag)
    BY <1>0, <1>4, <2>2 DEF Find, CheckManifest, Judge, Mark, Goto, RequestStates
  <2> QED
    BY <1>1, <2>1, <2>2
<1>5. ASSUME NEW t \in Threads, RefuseBareClaim(t)
      PROVE  OnceInv'
  BY <1>0, <1>1, <1>5 DEF RefuseBareClaim, Finish, Idle, ledger
<1>6. CASE Outage
  BY <1>1, <1>6 DEF Outage, Idle, ledger
<1> QED
  BY <1>2, <1>3, <1>4, <1>5, <1>6, AcceptOnce DEF SubmitNext, Handle

LEMMA NextOnce == OneAtATime /\ IInv /\ OnceInv /\ [Next]_vars => OnceInv'
<1> SUFFICES ASSUME OneAtATime, IInv, OnceInv, [Next]_vars PROVE OnceInv'
  OBVIOUS
<1>1. ASSUME UNCHANGED <<submissions, requests>> PROVE OnceInv'
  BY <1>1, SameCapturesOnce DEF OnceInv, Accepted
<1>2. CASE LoopNext /\ UNCHANGED <<submitVars, operatorVars>>
  BY <1>1, <1>2, LoopWrites DEF submitVars
<1>3. CASE SubmitNext
  BY <1>3, SubmitOnce
<1>4. CASE OperatorNext /\ UNCHANGED <<loopVars, submitVars>>
  <2>1. ASSUME NEW o \in Operators, Approve(o) \/ Reject(o)
        PROVE  OnceInv'
    <3>1. /\ DOMAIN submissions' = DOMAIN submissions
          /\ \A i \in DOMAIN submissions :
               /\ submissions'[i].by = submissions[i].by
               /\ submissions'[i].flag = submissions[i].flag
               /\ submissions'[i].verdict = submissions[i].verdict
      BY <2>1, ReviewKeeps DEF IInv
    <3> QED
      BY <1>4, <3>1, SameCapturesOnce DEF OnceInv, Accepted, submitVars
  <2> QED
    BY <1>1, <1>4, <2>1, OperatorWrites DEF submitVars
<1>5. CASE UNCHANGED vars
  BY <1>1, <1>5 DEF vars, ledger, submitVars
<1> QED
  BY <1>2, <1>3, <1>4, <1>5 DEF Next

LEMMA OnceIsKept ==
  ASSUME OneAtATime
  PROVE  Spec => []OnceInv
<1>1. Init => OnceInv
  BY DEF Init, LedgerInit, SubmitInit, Idle, OnceInv, ScoresOnce
<1>2. IInv /\ OnceInv /\ [Next]_vars => OnceInv'
  BY NextOnce
<1> QED
  BY <1>1, <1>2, Inductive, PTL DEF Spec

\* RULES 6: with one request of a client at a time, an attacker scores a flag once.
THEOREM SerialClientsScoreOnce ==
  ASSUME OneAtATime
  PROVE  Spec => []ScoresOnce
<1>1. OnceInv => ScoresOnce
  BY DEF OnceInv
<1> QED
  BY <1>1, OnceIsKept, PTL

-----------------------------------------------------------------------------
(***************************************************************************)
(* At most K live flags per rung.  A token is planted once, so a rung's    *)
(* rows differ in their ticks, and a live row's tick is one of the K last. *)
(***************************************************************************)
OneRowPerToken == \A f, g \in flags : f.flag = g.flag => f = g

LEMMA NextOneRow == IInv /\ OneRowPerToken /\ [Next]_vars => OneRowPerToken'
<1> SUFFICES ASSUME IInv, OneRowPerToken, [Next]_vars PROVE OneRowPerToken'
  OBVIOUS
<1>1. ASSUME flags' \subseteq flags PROVE OneRowPerToken'
  BY <1>1 DEF OneRowPerToken
<1>2. ASSUME NEW j \in jobs, NEW rung \in j.todo, ProbePlant(j, rung)
      PROVE  OneRowPerToken'
  <2>1. j.at = "probe" /\ Token(j, rung) \notin Used
    BY <1>2 DEF ProbePlant, IInv, JobInv
  <2>2. \A f \in flags : f.flag # Token(j, rung)
    BY <2>1 DEF Used
  <2> QED
    BY <1>2, <2>2 DEF ProbePlant, Plant, Token, OneRowPerToken
<1>3. ASSUME NEW t \in Threads, Mark(t)
      PROVE  OneRowPerToken'
  <2> DEFINE Marked(f) == IF f.flag = requests[t].flag /\ f.stolen_by = NoOne
                          THEN [f EXCEPT !.stolen_by = Client[t], !.stolen_tick = requests[t].tick]
                          ELSE f
  <2>1. \A f \in flags : Marked(f).flag = f.flag
    BY DEF IInv, Types, TypeOK, LedgerTypeOK, FlagRows
  <2>2. flags' = {Marked(f) : f \in flags}
    BY <1>3 DEF Mark, MarkStolen
  <2> HIDE DEF Marked
  <2> QED
    BY <2>1, <2>2 DEF OneRowPerToken
<1>4. CASE LoopNext
  <2>1. CASE ExpireFlags
    BY <1>1, <2>1 DEF ExpireFlags, Expire
  <2> QED
    BY <1>1, <1>2, <1>4, <2>1, LoopWrites
<1>5. CASE SubmitNext
  BY <1>1, <1>3, <1>5, SubmitWrites
<1>6. CASE OperatorNext
  BY <1>1, <1>6, OperatorWrites
<1> QED
  BY <1>1, <1>4, <1>5, <1>6 DEF Next, vars, ledger

LEMMA WindowIsSmall == IInv /\ OneRowPerToken => LiveWindow
<1> SUFFICES ASSUME IInv, OneRowPerToken, NEW p \in Players, NEW rung \in Rungs
             PROVE  Cardinality({f \in flags : /\ f.flag.player = p /\ f.flag.protocol = rung
                                              /\ f.expires_tick > tick}) <= K
  BY DEF LiveWindow
<1> DEFINE alive == {f \in flags : /\ f.flag.player = p /\ f.flag.protocol = rung
                                   /\ f.expires_tick > tick}
           window == (tick - K + 1)..tick
           at == [f \in alive |-> f.flag.tick]
<1>1. tick \in Nat /\ K \in Nat /\ K > 0
  BY KAssumption DEF IInv, Types, TypeOK, LedgerTypeOK
<1>2. \A f \in flags : f.flag \in Tokens
  BY DEF IInv, Types, TypeOK, LedgerTypeOK, FlagRows
<1>3. \A f \in flags : f.flag.tick \in Nat /\ f.flag.tick <= tick
  BY <1>2, SubmitAssumption DEF IInv, UsedInv, Used, Begun, Tokens
<1>4. \A f \in alive : f.flag.tick \in window
  BY <1>1, <1>3 DEF IInv, FlagInv
<1>5. \A f, g \in alive : f.flag.tick = g.flag.tick => f = g
  BY <1>2 DEF OneRowPerToken, Tokens
<1>6. at \in Injection(alive, window)
  <2> HIDE DEF window
  <2>1. at \in [alive -> window]
    BY <1>4
  <2> QED
    BY <1>5, <2>1 DEF Injection, IsInjective
<1>7. IsFiniteSet(window) /\ Cardinality(window) = K
  BY <1>1, FS_Interval
<1> HIDE DEF alive, window, at
<1>8. Cardinality(alive) <= K
  BY <1>6, <1>7, FS_Injection
<1> QED
  BY <1>8 DEF alive

\* RULES 6, "no hoarding": however late the jobs of earlier ticks plant, and
\* whatever crashes, a rung has at most K flags to steal.
THEOREM NoHoarding == Spec => []LiveWindow
<1>1. Init => OneRowPerToken
  BY DEF Init, LedgerInit, OneRowPerToken
<1> QED
  BY <1>1, NextOneRow, WindowIsSmall, Inductive, PTL DEF Spec
=============================================================================
