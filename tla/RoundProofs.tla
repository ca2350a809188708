----------------------------- MODULE RoundProofs -----------------------------
(***************************************************************************)
(* The rounds: what the uptime table keeps, whatever jobs of which ticks   *)
(* write it beside the settlement, and where the process dies.             *)
(***************************************************************************)
EXTENDS RefereeProofs

\* The statements that write a table, whoever's they are.
LEMMA FlagWriters ==
  ASSUME [Next]_vars
  PROVE  \/ UNCHANGED flags
         \/ ExpireFlags /\ UNCHANGED <<submitVars, operatorVars>>
         \/ \E t \in Threads : Mark(t) /\ UNCHANGED <<loopVars, operatorVars>>
         \/ \E j \in jobs : \E rung \in j.todo : ProbePlant(j, rung) /\ UNCHANGED <<submitVars, operatorVars>>
BY LoopWrites, SubmitWrites, OperatorWrites DEF Next, vars, ledger

LEMMA UptimeWriters ==
  ASSUME [Next]_vars
  PROVE  \/ UNCHANGED uptime
         \/ \E u \in payable : SettlePay(u) /\ UNCHANGED <<submitVars, operatorVars>>
         \/ \E j \in jobs : \E rung \in j.todo, ok \in BOOLEAN :
              /\ RecordResult(j, rung, ok) /\ RungDone(j, rung)
              /\ UNCHANGED <<flags, main, submitVars, operatorVars>>
<1>1. ASSUME NEW j \in jobs, NEW rung, NEW ok, ProbeResult(j, rung, ok) \/ SlaCheck(j, rung, ok)
      PROVE  RecordResult(j, rung, ok) /\ RungDone(j, rung) /\ UNCHANGED <<flags, main>>
  BY <1>1 DEF ProbeResult, SlaCheck
<1> QED
  BY <1>1, LoopWrites, SubmitWrites, OperatorWrites DEF Next, vars, ledger

\* What the main thread does, seen from the settlement.
LEMMA MainSteps ==
  ASSUME [Next]_vars
  PROVE  \/ UNCHANGED <<tick, pc, round, owing, stolen, payable, awaiting, crashes>>
         \/ /\ LoopNext /\ ~JobStep
            /\ UNCHANGED <<submitVars, operatorVars>>
<1>1. JobStep => UNCHANGED <<tick, main>>
  BY JobWrites
<1>2. CASE SubmitNext /\ UNCHANGED <<loopVars, operatorVars>>
  BY <1>2, SubmitWrites DEF loopVars
<1>3. CASE OperatorNext /\ UNCHANGED <<loopVars, submitVars>>
  BY <1>3, OperatorWrites DEF loopVars
<1> QED
  BY <1>1, <1>2, <1>3 DEF Next, vars, ledger, main, loopVars

-----------------------------------------------------------------------------
(***************************************************************************)
(* The rows.  A tick and rung have one row, and a job still has to write   *)
(* the rungs it has left.                                                  *)
(***************************************************************************)
SameResult(u, v) == u.tick = v.tick /\ u.player = v.player /\ u.protocol = v.protocol

RowInv ==
  /\ \A u, v \in uptime : SameResult(u, v) => u = v
  /\ \A u \in uptime : u.tick > 0 /\ Begun(u.tick)
  /\ \A j \in jobs, u \in uptime : u.tick = j.tick /\ u.player = j.player => u.protocol \notin j.todo

(***************************************************************************)
(* Their points.  The settlement of a tick comes upon rows that no earlier *)
(* one has raised, and those it has fetched are still as it fetched them.  *)
(***************************************************************************)
Base(u) == UptimePoints[u.protocol]
Plain(u) == u.points = Base(u)
Paid(u) == u.points = Base(u) + DefenseBonus

Settlement == {"settle", "stolen", "pay"}

BonusInv ==
  /\ \A u \in uptime : u.ok => Plain(u) \/ (Paid(u) /\ u.tick < tick)
  /\ \A u \in uptime : u.ok /\ u.player \in owing /\ u.tick = tick - 1 => Plain(u)
  /\ \A u \in payable : /\ pc = "pay" /\ u \in uptime /\ u.ok /\ Plain(u)
                        /\ u.tick = tick - 1 /\ u.player \notin owing
  /\ owing # {} => pc \in Settlement

Stand ==
  \A u \in uptime : \E v \in uptime' :
    /\ <<v.tick, v.player, v.protocol, v.ok, v.grace>> =
         <<u.tick, u.player, u.protocol, u.ok, u.grace>>
    /\ \/ v.points = u.points
       \/ u.ok /\ v.points = UptimePoints[u.protocol] + DefenseBonus

LEMMA RowTypes ==
  ASSUME IInv
  PROVE  \A u \in uptime : /\ u \in UptimeRows /\ u.tick \in Nat /\ u.player \in Players
                           /\ u.protocol \in Rungs /\ Base(u) \in Nat
BY PointsAssumption DEF IInv, Types, TypeOK, LedgerTypeOK, UptimeRows, Base

\* Steps that leave the table, and the work left of every job, alone.
LEMMA QuietRows ==
  ASSUME IInv, RowInv, UNCHANGED uptime, \A t \in Nat : Begun(t) => Begun(t)',
         \A i \in jobs' : \E j \in jobs : i.player = j.player /\ i.tick = j.tick /\ i.todo \subseteq j.todo
  PROVE  RowInv'
BY RowTypes DEF RowInv, SameResult

LEMMA QuietBonus ==
  ASSUME BonusInv, UNCHANGED <<tick, uptime>>, owing' \subseteq owing, payable' \subseteq payable,
         owing' # {} => pc' \in Settlement, payable' # {} => pc' = "pay"
  PROVE  BonusInv'
BY DEF BonusInv, Plain, Paid, Base

LEMMA QuietStand ==
  ASSUME UNCHANGED uptime
  PROVE  Stand
BY DEF Stand

\* A job writes a rung's result: a row the table did not have.
LEMMA ResultRows ==
  ASSUME IInv, FromOne, RowInv, BonusInv, NEW j \in jobs, NEW rung \in j.todo, NEW ok \in BOOLEAN,
         RecordResult(j, rung, ok), RungDone(j, rung), UNCHANGED main
  PROVE  RowInv' /\ BonusInv' /\ Stand
<1> DEFINE graced == j.in_grace /\ ~ok
           counts == ok \/ graced
           row == [tick |-> j.tick, player |-> j.player, protocol |-> rung, ok |-> counts,
                   grace |-> graced, points |-> IF counts THEN UptimePoints[rung] ELSE 0]
<1>1. j \in Jobs /\ j.tick \in Nat /\ j.todo \subseteq Rungs /\ tick \in Nat
  BY DEF IInv, Types, TypeOK, LedgerTypeOK, LoopTypeOK, Jobs
<1>2. \A u \in uptime : ~(u.tick = j.tick /\ u.player = j.player /\ u.protocol = rung)
  BY DEF RowInv
<1>3. uptime' = uptime \cup {row}
  BY <1>2 DEF RecordResult, RecordUptime
<1>4. row.tick = j.tick /\ row.player = j.player /\ row.protocol = rung /\ (row.ok => Plain(row))
  BY DEF Plain, Base
<1> HIDE DEF row, counts, graced
<1>5. UNCHANGED <<tick, pc, owing, payable>>
  BY DEF RecordResult, main
<1>6. \A t : Begun(t)' = Begun(t)
  BY <1>5 DEF Begun
<1>7. j.tick > 0 /\ Begun(j.tick)
  BY DEF FromOne, IInv, JobInv
<1>8. \A i \in jobs' : \/ i \in jobs /\ i # j
                       \/ i.player = j.player /\ i.tick = j.tick /\ i.todo = j.todo \ {rung}
  BY <1>1 DEF RungDone, Jobs
<1>9. \A i \in jobs : i # j => i.player # j.player \/ i.tick # j.tick
  BY DEF IInv, JobInv
<1>10. RowInv'
  <2>1. \A u, v \in uptime' : SameResult(u, v) => u = v
    BY <1>2, <1>3, <1>4 DEF RowInv, SameResult
  <2>2. \A u \in uptime' : u.tick > 0 /\ Begun(u.tick)'
    BY <1>3, <1>4, <1>6, <1>7 DEF RowInv
  <2>3. ASSUME NEW i \in jobs', NEW u \in uptime', u.tick = i.tick, u.player = i.player
        PROVE  u.protocol \notin i.todo
    BY <1>3, <1>4, <1>8, <1>9, <2>3 DEF RowInv
  <2> QED
    BY <2>1, <2>2, <2>3 DEF RowInv, SameResult
<1>11. BonusInv'
  BY <1>3, <1>4, <1>5 DEF BonusInv, Plain, Paid, Base
<1>12. Stand
  BY <1>3 DEF Stand
<1> QED
  BY <1>10, <1>11, <1>12

\* The settlement rewrites a row it has fetched.
LEMMA SettlePayRows ==
  ASSUME IInv, RowInv, BonusInv, NEW u \in payable, SettlePay(u)
  PROVE  RowInv' /\ BonusInv' /\ Stand
<1> DEFINE row == [tick |-> u.tick, player |-> u.player, protocol |-> u.protocol, ok |-> TRUE, grace |-> u.grace,
                   points |-> IF u.protocol \in stolen THEN UptimePoints[u.protocol]
                              ELSE UptimePoints[u.protocol] + DefenseBonus]
<1>1. u \in uptime /\ u.ok /\ Plain(u) /\ u.tick = tick - 1 /\ u.player \notin owing /\ pc = "pay"
  BY DEF BonusInv
<1>2. u.tick \in Nat /\ tick \in Nat /\ u.ok = TRUE
  BY <1>1, RowTypes DEF IInv, Types, TypeOK, LedgerTypeOK, UptimeRows
<1>3. uptime' = {v \in uptime : ~SameResult(v, u)} \cup {row}
  BY DEF SettlePay, RecordUptime, SameResult
<1>4. uptime' = (uptime \ {u}) \cup {row}
  BY <1>1, <1>3 DEF RowInv, SameResult
<1>5. /\ SameResult(row, u) /\ row.ok = TRUE /\ row.grace = u.grace /\ row.tick = u.tick
      /\ row.player = u.player
      /\ Plain(row) \/ Paid(row)
      /\ row.points = u.points \/ row.points = UptimePoints[u.protocol] + DefenseBonus
  BY <1>1 DEF SameResult, Plain, Paid, Base
<1> HIDE DEF row
<1>6. UNCHANGED <<tick, pc, owing, jobs>> /\ payable' = payable \ {u}
  BY DEF SettlePay
<1>7. RowInv'
  BY <1>1, <1>4, <1>5, <1>6 DEF RowInv, SameResult, Begun
<1>8. BonusInv'
  BY <1>1, <1>2, <1>4, <1>5, <1>6 DEF BonusInv, Plain, Paid, Base
<1>9. Stand
  BY <1>1, <1>2, <1>4, <1>5 DEF Stand, SameResult
<1> QED
  BY <1>7, <1>8, <1>9

\* It fetches the rows of the player whose turn it is.
LEMMA SettleRowsRows ==
  ASSUME IInv, RowInv, BonusInv, NEW p \in owing, SettleRows(p)
  PROVE  RowInv' /\ BonusInv' /\ Stand
<1>1. UNCHANGED <<tick, uptime, jobs>> /\ pc = "stolen" /\ pc' = "pay" /\ round = tick
  BY DEF SettleRows, ledger, IInv, RoundInv
<1>2. payable' = {u \in UptimeOf(p, tick - 1) : u.ok} /\ owing' = owing \ {p}
  BY <1>1 DEF SettleRows
<1>3. RowInv'
  BY <1>1, QuietRows DEF Begun
<1>4. BonusInv'
  BY <1>1, <1>2 DEF BonusInv, UptimeOf, Plain, Paid, Base, Settlement
<1> QED
  BY <1>1, <1>3, <1>4, QuietStand

LEMMA AdvanceRows ==
  ASSUME IInv, RowInv, BonusInv, AdvanceTick
  PROVE  RowInv' /\ BonusInv' /\ Stand
<1>1. /\ UNCHANGED <<uptime, jobs, payable>> /\ pc = "advance" /\ pc' = "settle"
      /\ tick \in Nat /\ tick' = tick + 1
  BY DEF AdvanceTick, IInv, RoundInv, Types, TypeOK, LedgerTypeOK
<1>2. \A u \in uptime : u.tick \in Nat /\ u.tick <= tick
  BY RowTypes DEF RowInv, Begun
<1>3. RowInv'
  BY <1>1, QuietRows DEF Begun
<1>4. BonusInv'
  BY <1>1, <1>2 DEF BonusInv, Plain, Paid, Base, Settlement
<1> QED
  BY <1>1, <1>3, <1>4, QuietStand

\* The jobs handed out are of a tick that has no rows.
LEMMA RunTickRows ==
  ASSUME IInv, RowInv, BonusInv, RunTick
  PROVE  RowInv' /\ BonusInv' /\ Stand
<1>1. /\ UNCHANGED <<tick, uptime, owing, payable>> /\ pc = "dispatch" /\ pc' = "await"
      /\ tick \in Nat /\ round = tick
  BY DEF RunTick, ledger, IInv, RoundInv, Types, TypeOK, LedgerTypeOK
<1>2. \A u \in uptime : u.tick \in Nat /\ u.tick < tick
  BY <1>1, RowTypes DEF RowInv, Begun
<1>3. \A j \in jobs' : j \in jobs \/ j.tick = tick
  BY <1>1 DEF RunTick
<1>4. RowInv'
  BY <1>1, <1>2, <1>3 DEF RowInv, SameResult, Begun
<1>5. BonusInv'
  BY <1>1 DEF BonusInv, Plain, Paid, Base, Settlement
<1> QED
  BY <1>1, <1>4, <1>5, QuietStand

LEMMA LoopRows ==
  ASSUME IInv, FromOne, RowInv, BonusInv, LoopNext
  PROVE  RowInv' /\ BonusInv' /\ Stand
<1>0. jobs \in SUBSET Jobs
  BY DEF IInv, Types, TypeOK, LoopTypeOK
<1>1. ASSUME UNCHANGED <<tick, uptime>>, owing' \subseteq owing, payable' \subseteq payable,
             owing' # {} => pc' \in Settlement, payable' # {} => pc' = "pay",
             \A t \in Nat : Begun(t) => Begun(t)',
             \A i \in jobs' : \E j \in jobs : i.player = j.player /\ i.tick = j.tick /\ i.todo \subseteq j.todo
      PROVE  RowInv' /\ BonusInv' /\ Stand
  BY <1>1, QuietRows, QuietBonus, QuietStand
<1>2. CASE JobStep
  <2> PICK j \in jobs :
        \/ StartJob(j)
        \/ \E rung \in j.todo :
             \/ ProbePlant(j, rung)
             \/ \E ok \in BOOLEAN : ProbeResult(j, rung, ok) \/ SlaCheck(j, rung, ok)
        \/ JobRaises(j)
    BY <1>2 DEF JobStep
  <2>1. CASE \E rung \in j.todo, ok \in BOOLEAN : ProbeResult(j, rung, ok) \/ SlaCheck(j, rung, ok)
    BY <2>1, ResultRows DEF ProbeResult, SlaCheck
  <2>2. CASE StartJob(j) \/ JobRaises(j) \/ \E rung \in j.todo : ProbePlant(j, rung)
    <3>1. UNCHANGED <<tick, uptime, owing, payable, pc>>
      BY <2>2 DEF StartJob, JobRaises, ProbePlant, ledger, main
    <3>2. \A i \in jobs' : \/ i \in jobs
                           \/ i.player = j.player /\ i.tick = j.tick /\ i.todo = j.todo
      BY <1>0, <2>2 DEF StartJob, JobRaises, ProbePlant, Jobs
    <3> QED
      BY <1>1, <3>1, <3>2 DEF Begun, BonusInv
  <2> QED
    BY <2>1, <2>2
<1>3. CASE \/ Rest \/ ReadTick \/ SettleNext \/ ExpireFlags \/ Crash \/ Restart
           \/ \E p \in owing : SettleStolen(p)
           \/ \E p \in awaiting : AwaitDone(p) \/ AwaitTimeout(p)
  <2>1. UNCHANGED <<tick, uptime>> /\ jobs' \subseteq jobs /\ owing' \subseteq owing /\ payable' \subseteq payable
    BY <1>3 DEF Rest, ReadTick, SettleNext, ExpireFlags, Crash, Restart, SettleStolen, AwaitDone,
       AwaitTimeout, Await, ledger, loopVars
  <2>2. \A t \in Nat : Begun(t) => Begun(t)'
    BY <1>3, <2>1 DEF Begun, IInv, RoundInv, Rest, ReadTick, SettleNext, ExpireFlags, Crash, Restart,
       SettleStolen, AwaitDone, AwaitTimeout, Await, loopVars
  <2>3. (owing' # {} => pc' \in Settlement) /\ (payable' # {} => pc' = "pay")
    BY <1>3, <2>1 DEF BonusInv, Settlement, Rest, ReadTick, SettleNext, ExpireFlags, Crash, Restart,
       SettleStolen, AwaitDone, AwaitTimeout, Await, loopVars
  <2> QED
    BY <1>1, <2>1, <2>2, <2>3
<1> QED
  BY <1>2, <1>3, AdvanceRows, RunTickRows, SettleRowsRows, SettlePayRows DEF LoopNext, MainStep

LEMMA NextRows ==
  IInv /\ FromOne /\ RowInv /\ BonusInv /\ [Next]_vars => RowInv' /\ BonusInv' /\ [Stand]_uptime
<1> SUFFICES ASSUME IInv, FromOne, RowInv, BonusInv, [Next]_vars
             PROVE  RowInv' /\ BonusInv' /\ Stand
  OBVIOUS
<1>1. CASE UNCHANGED <<tick, uptime, loopVars>>
  BY <1>1, QuietRows, QuietBonus, QuietStand DEF loopVars, Begun, BonusInv
<1>2. CASE SubmitNext /\ UNCHANGED <<loopVars, operatorVars>>
  <2>1. UNCHANGED <<tick, uptime>>
    BY <1>2 DEF SubmitNext, Handle, Arrive, RefuseInvalid, RefuseOwn, Find, RefuseUndeclared, CheckManifest,
       RefuseDuplicate, RefuseBareClaim, Judge, Mark, Accept, Refuse, Outage, ledger
  <2> QED
    BY <1>1, <1>2, <2>1
<1>3. CASE OperatorNext /\ UNCHANGED <<loopVars, submitVars>>
  <2>1. UNCHANGED <<tick, uptime>>
    BY <1>3 DEF OperatorNext, Freeze, ReviewFetch, Fetch, Approve, Reject, ReviewDone, ReadGrace, Land, ledger
  <2> QED
    BY <1>1, <1>3, <2>1
<1> QED
  BY <1>1, <1>2, <1>3, LoopRows DEF Next, vars, ledger

LEMMA RowsAreKept == Spec => [](RowInv /\ BonusInv)
<1>1. Init => RowInv /\ BonusInv
  BY DEF Init, LedgerInit, LoopInit, RowInv, BonusInv
<1> QED
  BY <1>1, NextRows, Inductive, TicksFromOne, PTL DEF Spec

\* A result once written is never taken back and never halved: late jobs write
\* other rows, and a settlement only ever adds the bonus to a row it is the first
\* to settle, wherever the process died before.
THEOREM ResultsAreFinal == Spec => ResultsStand
<1>1. IInv /\ FromOne /\ RowInv /\ BonusInv /\ [Next]_vars => [Stand]_uptime
  BY NextRows
<1> QED
  BY <1>1, RowsAreKept, Inductive, TicksFromOne, PTL DEF Spec, ResultsStand, Stand

-----------------------------------------------------------------------------
(***************************************************************************)
(* The flag of the SLA fetch.  A job that is past planting a rung finds    *)
(* its flag on record until the flag's lifetime is over.                   *)
(***************************************************************************)
OnRecord(token) == \E f \in flags : f.flag = token

SlaInv ==
  /\ SlaFlagRetained
  /\ \A j \in jobs : \A rung \in j.todo :
       j.at = "check" /\ IsFirst(rung, j.todo) /\ j.tick + K > tick => OnRecord(Token(j, rung))

\* The clock never goes back.
LEMMA TickGrows ==
  ASSUME IInv, [Next]_vars
  PROVE  tick \in Nat /\ tick' \in Nat /\ tick' >= tick
<1>1. tick \in Nat
  BY DEF IInv, Types, TypeOK, LedgerTypeOK
<1>2. CASE AdvanceTick
  BY <1>1, <1>2 DEF AdvanceTick, IInv, RoundInv
<1>3. CASE UNCHANGED tick
  BY <1>1, <1>3
<1>4. CASE LoopNext
  BY <1>2, <1>3, <1>4, LoopWrites
<1>5. CASE SubmitNext
  BY <1>3, <1>5, SubmitWrites
<1>6. CASE OperatorNext
  BY <1>3, <1>6, OperatorWrites
<1> QED
  BY <1>3, <1>4, <1>5, <1>6 DEF Next, vars, ledger

\* Tokens leave the record when their lifetime is over, and time does not go back.
LEMMA RecordKept ==
  ASSUME IInv, [Next]_vars, NEW token \in Tokens, OnRecord(token), token.tick + K > tick'
  PROVE  OnRecord(token)'
<1>0. tick \in Nat /\ K \in Nat /\ token.tick \in Nat
  BY KAssumption DEF IInv, Types, TypeOK, LedgerTypeOK, Tokens
<1> PICK f \in flags : f.flag = token
  BY DEF OnRecord
<1>1. CASE \E g \in flags' : g.flag = token
  BY <1>1 DEF OnRecord
<1>2. CASE ExpireFlags
  <2>1. tick' = tick /\ flags' = {g \in flags : ~(g.expires_tick <= tick)}
    BY <1>2 DEF ExpireFlags, Expire, IInv, RoundInv
  <2>2. f.expires_tick = token.tick + K
    BY DEF IInv, FlagInv
  <2> QED
    BY <1>0, <1>1, <2>1, <2>2
<1>3. ASSUME NEW t \in Threads, Mark(t)
      PROVE  OnRecord(token)'
  <2> DEFINE g == IF f.flag = requests[t].flag /\ f.stolen_by = NoOne
                  THEN [f EXCEPT !.stolen_by = Client[t], !.stolen_tick = requests[t].tick]
                  ELSE f
  <2>1. f \in FlagRows
    BY DEF IInv, Types, TypeOK, LedgerTypeOK
  <2>2. g \in flags'
    BY <1>3 DEF Mark, MarkStolen
  <2>3. g.flag = token
    BY <2>1 DEF FlagRows
  <2> QED
    BY <1>1, <2>2, <2>3
<1> QED
  BY <1>1, <1>2, <1>3, FlagWriters DEF ProbePlant, Plant

\* What the retention of a row asks for.
Needed(u) == u.ok /\ ~u.grace /\ CarriesFlags(u.protocol, UdpFixture) /\ u.tick + K > tick

PlantedFor(u) == [player |-> u.player, protocol |-> u.protocol, tick |-> u.tick]

LEMMA RetainedIsOnRecord == SlaFlagRetained <=> \A u \in uptime : Needed(u) => OnRecord(PlantedFor(u))
BY DEF SlaFlagRetained, FlagForSla, OnRecord, Needed, PlantedFor

Planted(j) ==
  \A rung \in j.todo :
    j.at = "check" /\ IsFirst(rung, j.todo) /\ j.tick + K > tick => OnRecord(Token(j, rung))

\* The jobs of a step are jobs there were, or past no planting that the step does not do.
LEMMA JobsSla ==
  ASSUME IInv, SlaInv, [Next]_vars, \A i \in jobs' : i \in jobs \/ Planted(i)'
  PROVE  \A i \in jobs' : Planted(i)'
<1> SUFFICES ASSUME NEW i \in jobs, NEW rung \in i.todo, i.at = "check", IsFirst(rung, i.todo),
                    i.tick + K > tick'
             PROVE  OnRecord(Token(i, rung))'
  BY DEF Planted, Token
<1>1. i \in Jobs /\ rung \in Rungs
  BY DEF IInv, Types, TypeOK, LoopTypeOK, Jobs
<1> DEFINE token == Token(i, rung)
<1>2. token \in Tokens /\ token.tick = i.tick
  BY <1>1 DEF Token, Tokens, Jobs
<1>3. i.tick + K > tick
  <2>1. tick \in Nat /\ tick' \in Nat /\ tick' >= tick
    BY TickGrows
  <2>2. i.tick \in Nat /\ K \in Nat
    BY <1>1, KAssumption DEF Jobs
  <2> QED
    BY <2>1, <2>2
<1>4. OnRecord(token)
  BY <1>3 DEF SlaInv
<1> HIDE DEF token
<1>5. OnRecord(token)'
  BY <1>2, <1>4, RecordKept
<1> USE DEF token
<1> QED
  BY <1>5 DEF Token

\* The rows of a step are rows there were, or ones whose flag is on record.
LEMMA RowsSla ==
  ASSUME IInv, SlaInv, [Next]_vars,
         \A u \in uptime' :
           \/ \E v \in uptime : /\ SameResult(u, v) /\ u.ok = v.ok /\ u.grace = v.grace
           \/ Needed(u)' => OnRecord(PlantedFor(u))'
  PROVE  SlaFlagRetained'
<1> SUFFICES ASSUME NEW u \in uptime', Needed(u)'
             PROVE  OnRecord(PlantedFor(u))'
  BY DEF SlaFlagRetained, FlagForSla, OnRecord, Needed, PlantedFor
<1>1. CASE \E v \in uptime : SameResult(u, v) /\ u.ok = v.ok /\ u.grace = v.grace
  <2> PICK v \in uptime : SameResult(u, v) /\ u.ok = v.ok /\ u.grace = v.grace
    BY <1>1
  <2>1. tick \in Nat /\ tick' \in Nat /\ tick' >= tick
    BY TickGrows
  <2>2. K \in Nat /\ v.tick \in Nat /\ v.player \in Players /\ v.protocol \in Rungs
    BY KAssumption, RowTypes
  <2>3. v.tick + K > tick' /\ Needed(v)
    BY <2>1, <2>2 DEF Needed, SameResult
  <2> DEFINE token == PlantedFor(v)
  <2>4. token \in Tokens /\ token.tick = v.tick
    BY <2>2 DEF PlantedFor, Tokens
  <2>5. OnRecord(token)
    BY <2>3, RetainedIsOnRecord DEF SlaInv
  <2> HIDE DEF token
  <2>6. OnRecord(token)'
    BY <2>3, <2>4, <2>5, RecordKept
  <2> USE DEF token
  <2> QED
    BY <2>6 DEF SameResult, PlantedFor
<1> QED
  BY <1>1

LEMMA NextSla ==
  ASSUME IInv, RowInv, BonusInv, SlaInv, [Next]_vars
  PROVE  SlaInv'
<1>0. jobs \in SUBSET Jobs
  BY DEF IInv, Types, TypeOK, LoopTypeOK
<1>1. ASSUME \A i \in jobs' : i \in jobs \/ Planted(i)',
             \A u \in uptime' :
               \/ \E v \in uptime : /\ SameResult(u, v) /\ u.ok = v.ok /\ u.grace = v.grace
               \/ Needed(u)' => OnRecord(PlantedFor(u))'
      PROVE  SlaInv'
  BY <1>1, JobsSla, RowsSla DEF SlaInv, Planted
<1>2. ASSUME UNCHANGED uptime, \A i \in jobs' : i \in jobs \/ i.at # "check"
      PROVE  SlaInv'
  BY <1>1, <1>2 DEF Planted, SameResult
<1>3. ASSUME NEW j \in jobs, NEW rung \in j.todo, NEW ok \in BOOLEAN,
             ProbeResult(j, rung, ok) \/ SlaCheck(j, rung, ok)
      PROVE  SlaInv'
  <2> DEFINE graced == j.in_grace /\ ~ok
             row == [tick |-> j.tick, player |-> j.player, protocol |-> rung, ok |-> ok \/ graced,
                     grace |-> graced, points |-> IF ok \/ graced THEN UptimePoints[rung] ELSE 0]
  <2>1. \A u \in uptime' : u \in uptime \/ u = row
    BY <1>3 DEF ProbeResult, SlaCheck, RecordResult, RecordUptime
  <2>2. \A i \in jobs' : i \in jobs \/ i.at = "probe"
    <3>1. RungDone(j, rung) /\ j \in Jobs
      BY <1>0, <1>3 DEF ProbeResult, SlaCheck
    <3> QED
      BY <3>1 DEF RungDone, Jobs
  <2>3. UNCHANGED <<tick, flags>>
    BY <1>3 DEF ProbeResult, SlaCheck, RecordResult
  <2>4. ASSUME Needed(row)' PROVE OnRecord(PlantedFor(row))'
    <3>1. ok /\ CarriesFlags(rung, UdpFixture) /\ j.tick + K > tick
      BY <2>3, <2>4 DEF Needed
    <3>2. j.at = "check" /\ IsFirst(rung, j.todo)
      BY <1>3, <3>1 DEF ProbeResult, SlaCheck
    <3>3. OnRecord(Token(j, rung))
      BY <3>1, <3>2 DEF SlaInv
    <3> QED
      BY <2>3, <3>3 DEF OnRecord, Token, PlantedFor
  <2> HIDE DEF row
  <2> QED
    BY <1>1, <2>1, <2>2, <2>4 DEF Planted, SameResult
<1>4. ASSUME NEW j \in jobs, NEW rung \in j.todo, ProbePlant(j, rung)
      PROVE  SlaInv'
  <2> DEFINE past == [j EXCEPT !.at = "check"]
  <2>1. j \in Jobs /\ rung \in Rungs
    BY <1>0 DEF Jobs
  <2>2. past.todo = j.todo /\ past.player = j.player /\ past.tick = j.tick
    BY <2>1 DEF Jobs
  <2>3. OnRecord(Token(j, rung))'
    <3> DEFINE f == [flag |-> Token(j, rung), expires_tick |-> j.tick + K, stolen_by |-> NoOne, stolen_tick |-> NoTick]
    <3>1. f \in flags'
      BY <1>4 DEF ProbePlant, Plant, Token
    <3> QED
      BY <3>1 DEF OnRecord, Token
  <2>4. \A other \in past.todo : IsFirst(other, past.todo) => other = rung
    BY <1>4, <2>1, <2>2, OnlyFirst DEF ProbePlant, Jobs
  <2>5. Planted(past)'
    BY <2>2, <2>3, <2>4 DEF Planted, Token
  <2>6. UNCHANGED uptime /\ jobs' = (jobs \ {j}) \cup {past}
    BY <1>4 DEF ProbePlant
  <2> HIDE DEF past
  <2> QED
    BY <1>1, <2>5, <2>6 DEF SameResult
<1>5. ASSUME NEW u \in payable, SettlePay(u)
      PROVE  SlaInv'
  <2>1. u \in uptime /\ u.ok = TRUE
    BY RowTypes DEF BonusInv, UptimeRows
  <2> DEFINE row == [tick |-> u.tick, player |-> u.player, protocol |-> u.protocol, ok |-> TRUE, grace |-> u.grace,
                     points |-> IF u.protocol \in stolen THEN UptimePoints[u.protocol]
                                ELSE UptimePoints[u.protocol] + DefenseBonus]
  <2>2. \A v \in uptime' : v \in uptime \/ v = row
    BY <1>5 DEF SettlePay, RecordUptime
  <2>3. SameResult(row, u) /\ row.ok = u.ok /\ row.grace = u.grace
    BY <2>1 DEF SameResult
  <2> HIDE DEF row
  <2> QED
    BY <1>1, <1>5, <2>1, <2>2, <2>3 DEF SettlePay, SameResult
<1>6. CASE JobStep
  <2> PICK j \in jobs :
        \/ StartJob(j)
        \/ \E rung \in j.todo :
             \/ ProbePlant(j, rung)
             \/ \E ok \in BOOLEAN : ProbeResult(j, rung, ok) \/ SlaCheck(j, rung, ok)
        \/ JobRaises(j)
    BY <1>6 DEF JobStep
  <2>1. CASE StartJob(j) \/ JobRaises(j)
    BY <1>0, <1>2, <2>1 DEF StartJob, JobRaises, ledger, Jobs
  <2> QED
    BY <1>3, <1>4, <2>1
<1>7. CASE LoopNext
  BY <1>2, <1>5, <1>6, <1>7 DEF LoopNext, MainStep, Rest, ReadTick, AdvanceTick, SettleStolen, SettleRows,
     SettleNext, RunTick, AwaitDone, AwaitTimeout, Await, ExpireFlags, Crash, Restart, ledger, loopVars
<1>8. CASE UNCHANGED <<uptime, loopVars>>
  BY <1>2, <1>8 DEF loopVars
<1>9. CASE SubmitNext /\ UNCHANGED <<loopVars, operatorVars>>
  BY <1>8, <1>9 DEF SubmitNext, Handle, Arrive, RefuseInvalid, RefuseOwn, Find, RefuseUndeclared,
     CheckManifest, RefuseDuplicate, RefuseBareClaim, Judge, Mark, Accept, Refuse, Outage, ledger
<1>10. CASE OperatorNext /\ UNCHANGED <<loopVars, submitVars>>
  BY <1>8, <1>10 DEF OperatorNext, Freeze, ReviewFetch, Fetch, Approve, Reject, ReviewDone, ReadGrace, Land, ledger
<1> QED
  BY <1>7, <1>8, <1>9, <1>10 DEF Next, vars, ledger

\* A flag is deleted only after the SLA fetch of the rung it was planted in: what
\* flag_for_sla() asks for, K-1 ticks after a rung was up, expire() has left there.
THEOREM SlaFlagIsThere == Spec => []SlaFlagRetained
<1>1. Init => SlaInv
  BY DEF Init, LedgerInit, LoopInit, SlaInv, SlaFlagRetained
<1>2. SlaInv => SlaFlagRetained
  BY DEF SlaInv
<1> QED
  BY <1>1, <1>2, NextSla, RowsAreKept, Inductive, PTL DEF Spec
-----------------------------------------------------------------------------
(***************************************************************************)
(* The bonus.  Where no job outlives its time limit, a tick's rows are all *)
(* there when it is settled; and a settlement finds the steals of its tick *)
(* among the flags of K ticks, none of which it loses before it is done.   *)
(***************************************************************************)
InTime == ~MayOverrun

\* The jobs are the waited-for ones of the current tick, nobody leaves the roster,
\* and a flag that is not stolen has no tick it was stolen in.
TickInv ==
  /\ \A j \in jobs : pc = "await" /\ j.tick = tick /\ j.player \in awaiting
  /\ ActivePlayers = Players
  /\ \A f \in flags : f.stolen_by = NoOne => f.stolen_tick = NoTick

Unstolen(u) == u.protocol \notin StolenThisTick(u.player, u.tick)

\* The settlement knows steals of the player it is at only, and of the tick it settles.
StolenInv ==
  /\ pc = "stolen" => \A p \in owing : (\A q \in owing : Index[p] <= Index[q])
                                       => stolen \subseteq StolenThisTick(p, tick - 1)
  /\ pc = "pay" => \A u \in payable : stolen \subseteq StolenThisTick(u.player, tick - 1)

\* What was up in the tick before and is not stolen is paid, or is still to be.
PaidInv ==
  DefenseBonus > 0 /\ tick > 1 /\ pc \in Settlement \cup {"dispatch", "await"} =>
    \A u \in uptime : u.tick = tick - 1 /\ u.ok /\ Unstolen(u)
                      => u.player \in owing \/ u \in payable \/ Paid(u)

SettledInv == TickInv /\ StolenInv /\ PaidInv

LEMMA NextTick ==
  ASSUME InTime, IInv, TickInv, [Next]_vars
  PROVE  TickInv'
<1>0. /\ jobs \in SUBSET Jobs /\ round \in Nat /\ Index \in [Players -> Nat]
      /\ flags \in SUBSET FlagRows /\ players \in [Players -> PlayerRows] /\ NoOne \notin Players
  BY LoopAssumption, PlayersAssumption DEF IInv, Types, TypeOK, LedgerTypeOK, LoopTypeOK
<1>1. \A j \in jobs' : pc' = "await" /\ j.tick = tick' /\ j.player \in awaiting'
  <2>1. CASE UNCHANGED <<tick, jobs, pc, awaiting>>
    BY <2>1 DEF TickInv
  <2>2. CASE JobStep
    <3> PICK j \in jobs : \/ StartJob(j) \/ JobRaises(j)
                          \/ \E rung \in j.todo : ProbePlant(j, rung) \/ RungDone(j, rung)
      BY <2>2 DEF JobStep, ProbeResult, SlaCheck
    <3>1. \A i \in jobs' : i \in jobs \/ (i.player = j.player /\ i.tick = j.tick)
      <4>1. CASE StartJob(j) \/ JobRaises(j)
        BY <1>0, <4>1 DEF StartJob, JobRaises, Jobs
      <4>2. CASE \E rung \in j.todo : ProbePlant(j, rung)
        BY <1>0, <4>2 DEF ProbePlant, Jobs
      <4>3. CASE \E rung \in j.todo : RungDone(j, rung)
        BY <1>0, <4>3 DEF RungDone, Jobs
      <4> QED
        BY <4>1, <4>2, <4>3
    <3>2. UNCHANGED <<tick, pc, awaiting>>
      BY <2>2, JobWrites DEF main
    <3> QED
      BY <3>1, <3>2 DEF TickInv
  <2>3. CASE RunTick
    BY <2>3 DEF TickInv, RunTick, IInv, RoundInv, ledger
  <2>4. CASE \E p \in awaiting : AwaitDone(p) \/ AwaitTimeout(p)
    BY <2>4 DEF TickInv, AwaitDone, AwaitTimeout, Await, Unfinished, InTime, IInv, RoundInv, ledger
  <2>5. CASE jobs = {} /\ jobs' = {}
    BY <2>5
  <2>6. CASE MainStep
    <3>1. CASE ReadTick \/ AdvanceTick \/ SettleNext
      BY <2>5, <3>1 DEF TickInv, ReadTick, AdvanceTick, SettleNext
    <3>2. CASE \E p \in owing : SettleStolen(p) \/ SettleRows(p)
      BY <2>5, <3>2 DEF TickInv, SettleStolen, SettleRows
    <3>3. CASE \E u \in payable : SettlePay(u)
      BY <2>1, <3>3 DEF SettlePay
    <3>4. CASE ExpireFlags
      BY <2>5, <3>4 DEF TickInv, ExpireFlags
    <3> QED
      BY <2>3, <2>4, <2>6, <3>1, <3>2, <3>3, <3>4 DEF MainStep
  <2>7. CASE Rest \/ Restart
    BY <2>1, <2>5, <2>7 DEF TickInv, Rest, Restart, ledger, loopVars
  <2>8. CASE Crash
    BY <2>8 DEF Crash
  <2>9. CASE SubmitNext /\ UNCHANGED <<loopVars, operatorVars>>
    BY <2>1, <2>9, SubmitWrites DEF loopVars
  <2>10. CASE OperatorNext /\ UNCHANGED <<loopVars, submitVars>>
    BY <2>1, <2>10, OperatorWrites DEF loopVars
  <2>11. CASE UNCHANGED vars
    BY <2>1, <2>11 DEF vars, ledger, loopVars
  <2> QED
    BY <2>2, <2>6, <2>7, <2>8, <2>9, <2>10, <2>11 DEF Next, LoopNext
<1>2. (ActivePlayers = Players)'
  <2>1. CASE UNCHANGED players
    BY <2>1 DEF TickInv, ActivePlayers
  <2>2. ASSUME NEW p \in Players, NEW manifest \in Manifests, Land(p, manifest)
        PROVE  (ActivePlayers = Players)'
    BY <1>0, <2>2 DEF Land, RecordDeploy, TickInv, ActivePlayers
  <2>3. CASE LoopNext
    BY <2>1, <2>3, LoopWrites
  <2>4. CASE SubmitNext
    BY <2>1, <2>4, SubmitWrites
  <2>5. CASE OperatorNext
    BY <2>1, <2>2, <2>5, OperatorWrites, OperatorAssumption
  <2> QED
    BY <2>1, <2>3, <2>4, <2>5 DEF Next, vars, ledger
<1>3. \A f \in flags' : f.stolen_by = NoOne => f.stolen_tick = NoTick
  <2>1. ASSUME NEW t \in Threads, Mark(t)
        PROVE  \A f \in flags' : f.stolen_by = NoOne => f.stolen_tick = NoTick
    <3>1. Client[t] \in Players
      BY SubmitAssumption
    <3> QED
      BY <1>0, <2>1, <3>1 DEF Mark, MarkStolen, TickInv, FlagRows
  <2>2. ASSUME NEW j \in jobs, NEW rung, ProbePlant(j, rung)
        PROVE  \A f \in flags' : f.stolen_by = NoOne => f.stolen_tick = NoTick
    BY <2>2 DEF ProbePlant, Plant, TickInv
  <2>3. CASE flags' \subseteq flags
    BY <2>3 DEF TickInv
  <2> QED
    BY <2>1, <2>2, <2>3, FlagWriters DEF ExpireFlags, Expire
<1> QED
  BY <1>1, <1>2, <1>3 DEF TickInv

\* While the main thread is not deleting, a tick's steals only become more.
LEMMA StolenGrows ==
  ASSUME IInv, TickInv, [Next]_vars, ~ExpireFlags, NEW p, NEW t \in Nat
  PROVE  StolenThisTick(p, t) \subseteq StolenThisTick(p, t)'
<1> SUFFICES ASSUME NEW rung \in Rungs, NEW f \in flags,
                    f.flag.player = p, f.flag.protocol = rung, f.stolen_tick = t
             PROVE  \E g \in flags' : g.flag = f.flag /\ g.stolen_tick = t
  BY DEF StolenThisTick
<1>1. CASE f \in flags'
  BY <1>1
<1>2. ASSUME NEW s \in Threads, Mark(s) PROVE \E g \in flags' : g.flag = f.flag /\ g.stolen_tick = t
  <2>1. f.stolen_by # NoOne
    BY DEF TickInv, NoTick
  <2> QED
    BY <1>1, <1>2, <2>1 DEF Mark, MarkStolen
<1> QED
  BY <1>1, <1>2, FlagWriters DEF ProbePlant, Plant

LEMMA NextStolen ==
  ASSUME IInv, FromOne, BonusInv, TickInv, StolenInv, [Next]_vars
  PROVE  StolenInv'
<1>0. tick \in Nat /\ owing \in SUBSET Players /\ (pc \in {"stolen", "pay"} => tick - 1 \in Nat)
  BY DEF FromOne, IInv, Types, TypeOK, LedgerTypeOK, LoopTypeOK
<1>1. ASSUME pc \in {"stolen", "pay"}, NEW p, NEW t \in Nat
      PROVE  StolenThisTick(p, t) \subseteq StolenThisTick(p, t)'
  BY <1>1, StolenGrows DEF ExpireFlags
<1>2. CASE UNCHANGED <<tick, pc, round, owing, stolen, payable, awaiting, crashes>>
  <2>1. ASSUME pc \in {"stolen", "pay"}, NEW p
        PROVE  StolenThisTick(p, tick - 1) \subseteq StolenThisTick(p, tick - 1)'
    <3> DEFINE t == tick - 1
    <3>1. PICK s \in Nat : s = t
      BY <1>0, <2>1
    <3>2. StolenThisTick(p, s) \subseteq StolenThisTick(p, s)'
      BY <1>1, <2>1
    <3> QED
      BY <1>2, <3>1, <3>2 DEF StolenThisTick
  <2> QED
    BY <1>2, <2>1 DEF StolenInv
<1>3. ASSUME NEW p \in owing, SettleStolen(p) PROVE StolenInv'
  BY <1>0, <1>3, LoopAssumption DEF SettleStolen, StolenInv, StolenThisTick, ledger, IInv, RoundInv
<1>4. ASSUME NEW p \in owing, SettleRows(p) PROVE StolenInv'
  BY <1>4 DEF SettleRows, StolenInv, StolenThisTick, UptimeOf, ledger, IInv, RoundInv
<1>5. ASSUME NEW u \in payable, SettlePay(u) PROVE StolenInv'
  BY <1>5 DEF SettlePay, StolenInv, StolenThisTick
<1>6. CASE pc' \notin {"stolen", "pay"}
  BY <1>6 DEF StolenInv
<1>7. CASE LoopNext /\ ~JobStep
  BY <1>2, <1>3, <1>4, <1>5, <1>6, <1>7 DEF LoopNext, MainStep, Rest, ReadTick, AdvanceTick, SettleNext,
     RunTick, AwaitDone, AwaitTimeout, Await, ExpireFlags, Crash, Restart, ledger, loopVars
<1> QED
  BY <1>2, <1>7, MainSteps

LEMMA NextPaid ==
  ASSUME IInv, FromOne, RowInv, BonusInv, TickInv, StolenInv, PaidInv, [Next]_vars
  PROVE  PaidInv'
<1>0. /\ tick \in Nat /\ DefenseBonus \in Nat /\ owing \in SUBSET Players
      /\ \A u \in uptime : u.tick \in Nat /\ u.player \in Players /\ u.protocol \in Rungs
  BY LoopAssumption, RowTypes DEF IInv, Types, TypeOK, LedgerTypeOK, LoopTypeOK
<1> DEFINE Due == Settlement \cup {"dispatch", "await"}

\* A step that stays in the round, and leaves the rows of the tick before alone.
<1>1. ASSUME UNCHANGED tick, pc \in Due, ~ExpireFlags,
             \A u \in uptime' : u.tick = tick - 1 => u \in uptime,
             \A u \in uptime : u.tick = tick - 1 /\ u.ok /\ u.player \in owing
                              => u.player \in owing' \/ u \in payable',
             payable \subseteq payable'
      PROVE  PaidInv'
  <2> SUFFICES ASSUME DefenseBonus > 0, tick > 1, NEW u \in uptime', u.tick = tick - 1, u.ok,
                      Unstolen(u)'
               PROVE  u.player \in owing' \/ u \in payable' \/ Paid(u)
    BY <1>1 DEF PaidInv, Unstolen, Paid, Base
  <2>1. u \in uptime /\ u.tick \in Nat
    BY <1>0, <1>1
  <2>2. StolenThisTick(u.player, u.tick) \subseteq StolenThisTick(u.player, u.tick)'
    BY <1>1, <2>1, StolenGrows
  <2>3. Unstolen(u)
    BY <2>2 DEF Unstolen
  <2>4. u.player \in owing \/ u \in payable \/ Paid(u)
    BY <1>1, <2>1, <2>3 DEF PaidInv
  <2> QED
    BY <1>1, <2>1, <2>4
<1>2. CASE UNCHANGED <<tick, pc, round, owing, stolen, payable, awaiting, crashes>> /\ UNCHANGED uptime
  <2>1. CASE pc \in Due
    BY <1>1, <1>2, <2>1 DEF ExpireFlags
  <2> QED
    BY <1>2, <2>1 DEF PaidInv
<1>3. ASSUME NEW j \in jobs, NEW rung \in j.todo, NEW ok \in BOOLEAN, RecordResult(j, rung, ok),
             UNCHANGED <<flags, main>>
      PROVE  PaidInv'
  <2>1. UNCHANGED <<tick, pc, owing, payable>> /\ j.tick = tick /\ pc = "await"
    BY <1>3 DEF RecordResult, main, TickInv
  <2>2. \A u \in uptime' : u \in uptime \/ u.tick = tick
    BY <1>3, <2>1 DEF RecordResult, RecordUptime
  <2> QED
    BY <1>0, <1>1, <2>1, <2>2 DEF ExpireFlags
<1>4. ASSUME NEW u \in payable, SettlePay(u)
      PROVE  PaidInv'
  <2> DEFINE row == [tick |-> u.tick, player |-> u.player, protocol |-> u.protocol, ok |-> TRUE, grace |-> u.grace,
                     points |-> IF u.protocol \in stolen THEN UptimePoints[u.protocol]
                                ELSE UptimePoints[u.protocol] + DefenseBonus]
  <2>1. u \in uptime /\ u.tick = tick - 1 /\ pc = "pay" /\ UNCHANGED <<tick, pc, owing, flags>>
    BY <1>4 DEF SettlePay, BonusInv
  <2>2. payable' = payable \ {u}
    BY <1>4 DEF SettlePay
  <2>3. \A v \in uptime' : v = row \/ (v \in uptime /\ v # u)
    BY <1>4 DEF SettlePay, RecordUptime
  <2>4. u.protocol \in stolen => ~Unstolen(u)
    BY <2>1 DEF StolenInv, Unstolen
  <2>5. Unstolen(row) => Paid(row)
    BY <2>4 DEF Unstolen, Paid, Base
  <2>6. \A v : Unstolen(v)' <=> Unstolen(v)
    BY <2>1 DEF Unstolen, StolenThisTick
  <2> HIDE DEF row
  <2> QED
    BY <2>1, <2>2, <2>3, <2>5, <2>6 DEF PaidInv, Paid, Base
<1>5. CASE AdvanceTick
  <2>1. pc' = "settle" /\ tick' = round /\ UNCHANGED uptime
    BY <1>5 DEF AdvanceTick
  <2>2. DefenseBonus > 0 /\ tick' > 1 => owing' = Players
    BY <1>0, <1>5, <2>1 DEF AdvanceTick, TickInv, IInv, RoundInv
  <2> QED
    BY <1>0, <2>1, <2>2 DEF PaidInv
<1>6. ASSUME NEW p \in owing, SettleRows(p)
      PROVE  PaidInv'
  <2>1. UNCHANGED <<tick, flags, uptime>> /\ pc = "stolen" /\ round = tick /\ owing' = owing \ {p}
    BY <1>6 DEF SettleRows, ledger, IInv, RoundInv
  <2>2. payable' = {u \in UptimeOf(p, tick - 1) : u.ok} /\ payable = {}
    BY <1>6, <2>1 DEF SettleRows, BonusInv
  <2> QED
    BY <1>1, <2>1, <2>2 DEF UptimeOf, ExpireFlags, Settlement
<1>7. CASE SettleNext \/ RunTick \/ (\E p \in owing : SettleStolen(p))
           \/ (\E p \in awaiting : AwaitDone(p) \/ AwaitTimeout(p))
  <2>1. UNCHANGED <<tick, uptime, owing, payable>> /\ pc \in Due /\ (pc = "await" => pc' # "idle")
    BY <1>7 DEF SettleNext, RunTick, SettleStolen, AwaitDone, AwaitTimeout, Await, ledger, Settlement
  <2> QED
    BY <1>1, <2>1 DEF ExpireFlags
<1>8. CASE pc' \notin Due
  BY <1>8 DEF PaidInv
<1>9. CASE LoopNext /\ ~JobStep
  BY <1>2, <1>4, <1>5, <1>6, <1>7, <1>8, <1>9 DEF LoopNext, MainStep, Rest, ReadTick, ExpireFlags, Crash,
     Restart, ledger, loopVars, Settlement
<1> QED
  BY <1>2, <1>3, <1>4, <1>9, MainSteps, UptimeWriters

LEMMA SettledIsKept ==
  ASSUME InTime
  PROVE  Spec => []SettledInv
<1>1. Init => SettledInv
  BY DEF Init, LedgerInit, LoopInit, SettledInv, TickInv, StolenInv, PaidInv, ActivePlayers, Settlement
<1>2. IInv /\ FromOne /\ RowInv /\ BonusInv /\ SettledInv /\ [Next]_vars => SettledInv'
  BY NextTick, NextStolen, NextPaid DEF SettledInv
<1> QED
  BY <1>1, <1>2, RowsAreKept, TicksFromOne, Inductive, PTL DEF Spec

\* OPERATIONS 246-247: before a tick hands out its jobs, every rung that was up in
\* the tick before, and that no steal of that tick is on record for, has its bonus.
THEOREM BonusIsPaid ==
  ASSUME InTime
  PROVE  Spec => []UnstolenIsPaid
<1>1. IInv /\ BonusInv /\ SettledInv => UnstolenIsPaid
  <2> SUFFICES ASSUME IInv, BonusInv, SettledInv, Settling
               PROVE  \A u \in uptime :
                        u.tick = tick - 1 /\ u.ok /\ Unstolen(u) => Paid(u)
    BY DEF UnstolenIsPaid, Settling, Unstolen, Paid, Base, IInv, RoundInv
  <2>1. pc \in {"dispatch", "await"} /\ tick > 1 /\ DefenseBonus > 0
    BY DEF Settling, IInv, RoundInv
  <2>2. owing = {} /\ payable = {}
    BY <2>1 DEF BonusInv, Settlement
  <2> QED
    BY <2>1, <2>2 DEF SettledInv, PaidInv
<1> QED
  BY <1>1, SettledIsKept, RowsAreKept, Inductive, PTL

\* The rows the settlements of their ticks have left without the bonus, of the rungs
\* no flag of which was marked: of one tick for each time the process died.
Marked ==
  {s.flag : s \in {submissions[i] : i \in {n \in DOMAIN submissions : Accepted(n)}}}
    \cup {requests[t].flag : t \in {n \in Threads : requests[n].at = "record"}}

Untouched(u) == \A f \in Marked : f.player # u.player \/ f.protocol # u.protocol

Closed(t) == t < tick /\ (pc \in Settlement => t < tick - 1)

Lost == {u.tick : u \in {v \in uptime : Closed(v.tick) /\ v.ok /\ Untouched(v) /\ Plain(v)}}

LossInv ==
  outages = 0 =>
    /\ \A f \in flags : f.stolen_by # NoOne => f.flag \in Marked
    /\ DefenseBonus > 0 => Cardinality(Lost) <= crashes

\* A flag that was marked, by a capture on record or about to be, stays one.
LEMMA MarkedGrows ==
  ASSUME IInv, [Next]_vars, outages' = 0
  PROVE  Marked \subseteq Marked'
<1>0. submissions \in Seq(SubmissionRows) /\ requests \in [Threads -> RequestStates] /\ outages \in Nat
  BY DEF IInv, Types, TypeOK, LedgerTypeOK, SubmitTypeOK
<1>1. ASSUME DOMAIN submissions \subseteq DOMAIN submissions',
             \A i \in DOMAIN submissions : /\ submissions'[i].flag = submissions[i].flag
                                           /\ submissions'[i].verdict = submissions[i].verdict,
             \A t \in Threads : requests[t].at = "record" =>
               \/ requests'[t] = requests[t]
               \/ \E i \in DOMAIN submissions' : Accepted(i)' /\ submissions'[i].flag = requests[t].flag
      PROVE  Marked \subseteq Marked'
  <2> SUFFICES ASSUME NEW token \in Marked PROVE token \in Marked'
    OBVIOUS
  <2>1. CASE \E i \in DOMAIN submissions : Accepted(i) /\ token = submissions[i].flag
    BY <1>1, <2>1 DEF Marked, Accepted
  <2>2. CASE \E t \in Threads : requests[t].at = "record" /\ token = requests[t].flag
    BY <1>1, <2>2 DEF Marked, Accepted
  <2> QED
    BY <2>1, <2>2 DEF Marked
<1>2. CASE UNCHANGED <<submissions, requests>>
  BY <1>1, <1>2
<1>3. ASSUME NEW row, submissions' = Append(submissions, row)
      PROVE  /\ DOMAIN submissions' = DOMAIN submissions \cup {Len(submissions) + 1}
             /\ \A i \in DOMAIN submissions : submissions'[i] = submissions[i]
             /\ submissions'[Len(submissions) + 1] = row
  BY <1>0, <1>3
<1>4. ASSUME NEW t \in Threads, NEW verdict, Refuse(t, verdict), requests[t].at # "record"
      PROVE  Marked \subseteq Marked'
  BY <1>0, <1>1, <1>3, <1>4 DEF Refuse, Record, Finish
<1>5. ASSUME NEW t \in Threads, Accept(t)
      PROVE  Marked \subseteq Marked'
  <2> DEFINE r == requests[t]
             class == AutoClass(r.flag.protocol)
             row == [by |-> Client[t], flag |-> r.flag, verdict |-> "accepted", klass |-> class,
                     claimed |-> r.claimed, points |-> AttackPoints[class],
                     pending |-> ClaimsAbove(r.claimed, r.flag.protocol)]
  <2>1. submissions' = Append(submissions, row) /\ requests' = [requests EXCEPT ![t] = Idle]
    BY <1>5 DEF Accept, Record, Finish
  <2>2. row.flag = r.flag /\ row.verdict = "accepted"
    OBVIOUS
  <2> HIDE DEF row
  <2> QED
    BY <1>0, <1>1, <1>3, <2>1, <2>2 DEF Accepted
<1>6. ASSUME UNCHANGED submissions, NEW t \in Threads, requests[t].at # "record",
             \A s \in Threads : s # t => requests'[s] = requests[s]
      PROVE  Marked \subseteq Marked'
  BY <1>1, <1>6
<1>7. CASE SubmitNext /\ UNCHANGED <<loopVars, operatorVars>>
  <2>1. ASSUME NEW t \in Threads, Handle(t)
        PROVE  Marked \subseteq Marked'
    <3>1. CASE Find(t) \/ CheckManifest(t) \/ RefuseBareClaim(t) \/ Judge(t) \/ Mark(t)
      BY <1>0, <1>6, <3>1 DEF Find, CheckManifest, RefuseBareClaim, Judge, Mark, Goto, Finish, ledger
    <3> QED
      BY <1>4, <1>5, <2>1, <3>1 DEF Handle, RefuseInvalid, RefuseOwn, RefuseUndeclared, RefuseDuplicate
  <2>2. ASSUME NEW t \in Threads, NEW flag, NEW claimed, NEW writeup, Arrive(t, flag, claimed, writeup)
        PROVE  Marked \subseteq Marked'
    BY <1>0, <1>6, <2>2 DEF Arrive, ledger
  <2>3. ~Outage
    BY <1>0 DEF Outage
  <2> QED
    BY <1>7, <2>1, <2>2, <2>3 DEF SubmitNext
<1>8. CASE OperatorNext /\ UNCHANGED <<loopVars, submitVars>>
  <2>1. ASSUME NEW o \in Operators, Approve(o) \/ Reject(o)
        PROVE  Marked \subseteq Marked'
    <3>1. /\ DOMAIN submissions' = DOMAIN submissions
          /\ \A i \in DOMAIN submissions : /\ submissions'[i].flag = submissions[i].flag
                                            /\ submissions'[i].verdict = submissions[i].verdict
      BY <2>1, ReviewKeeps DEF IInv
    <3> QED
      BY <1>1, <1>8, <3>1 DEF submitVars
  <2> QED
    BY <1>2, <1>8, <2>1, OperatorWrites DEF submitVars
<1>9. CASE LoopNext /\ UNCHANGED <<submitVars, operatorVars>>
  BY <1>2, <1>9, LoopWrites DEF submitVars
<1> QED
  BY <1>2, <1>7, <1>8, <1>9 DEF Next, vars, ledger, submitVars

\* Without an outage between the two statements, a mark has its capture.
LEMMA NextMarked ==
  ASSUME IInv, [Next]_vars, outages' = 0, \A f \in flags : f.stolen_by # NoOne => f.flag \in Marked
  PROVE  \A f \in flags' : f.stolen_by # NoOne => f.flag \in Marked'
<1>0. flags \in SUBSET FlagRows /\ requests \in [Threads -> RequestStates]
  BY DEF IInv, Types, TypeOK, LedgerTypeOK, SubmitTypeOK
<1>1. \A f \in flags : f.stolen_by # NoOne => f.flag \in Marked'
  BY MarkedGrows
<1>2. ASSUME NEW t \in Threads, Mark(t)
      PROVE  \A f \in flags' : f.stolen_by # NoOne => f.flag \in Marked'
  <2>1. requests'[t].at = "record" /\ requests'[t].flag = requests[t].flag
    BY <1>0, <1>2 DEF Mark, Goto, RequestStates
  <2>2. requests[t].flag \in Marked'
    BY <2>1 DEF Marked
  <2>3. \A f \in flags' : f \in flags \/ f.flag = requests[t].flag
    BY <1>0, <1>2 DEF Mark, MarkStolen, FlagRows
  <2> QED
    BY <1>1, <2>2, <2>3
<1>3. ASSUME NEW j \in jobs, NEW rung, ProbePlant(j, rung)
      PROVE  \A f \in flags' : f.stolen_by # NoOne => f.flag \in Marked'
  BY <1>1, <1>3 DEF ProbePlant, Plant
<1> QED
  BY <1>1, <1>2, <1>3, FlagWriters DEF ExpireFlags, Expire

\* What a step may add to the ticks lost: the one whose settlement a death cuts short.
LEMMA NextLost ==
  ASSUME IInv, FromOne, RowInv, BonusInv, SettledInv, LossInv, [Next]_vars,
         SettledInv', BonusInv', RowInv', outages' = 0, outages = 0, DefenseBonus > 0
  PROVE  \/ Lost' \subseteq Lost /\ crashes' >= crashes
         \/ Lost' \subseteq Lost \cup {tick - 1} /\ crashes' = crashes + 1
<1>0. /\ tick \in Nat /\ crashes \in Nat
      /\ \A u \in uptime : u.tick \in Nat /\ u.player \in Players /\ u.protocol \in Rungs
  BY RowTypes DEF IInv, Types, TypeOK, LedgerTypeOK, LoopTypeOK
<1>1. \A u : Untouched(u)' => Untouched(u)
  BY MarkedGrows DEF Untouched

\* Where the rows and the ticks closed are not more, neither are the ticks lost.
<1>2. ASSUME UNCHANGED uptime, \A t \in Nat : Closed(t)' => Closed(t), UNCHANGED crashes
      PROVE  Lost' \subseteq Lost /\ crashes' >= crashes
  <2> SUFFICES ASSUME NEW u \in uptime, Closed(u.tick)', u.ok, Untouched(u)', Plain(u)
               PROVE  u.tick \in Lost
    BY <1>0, <1>2 DEF Lost, Plain, Base
  <2> QED
    BY <1>0, <1>1, <1>2 DEF Lost
<1>3. ASSUME UNCHANGED <<tick, pc, crashes>>, \A u \in uptime' : u \in uptime \/ ~Closed(u.tick)
      PROVE  Lost' \subseteq Lost /\ crashes' >= crashes
  <2> SUFFICES ASSUME NEW u \in uptime', Closed(u.tick)', u.ok, Untouched(u)', Plain(u)
               PROVE  u.tick \in Lost
    BY <1>0, <1>3 DEF Lost, Plain, Base
  <2>1. u \in uptime /\ Closed(u.tick)
    BY <1>3 DEF Closed
  <2> QED
    BY <1>1, <2>1 DEF Lost
<1>4. ASSUME NEW j \in jobs, NEW rung \in j.todo, NEW ok \in BOOLEAN, RecordResult(j, rung, ok),
             UNCHANGED <<flags, main>>
      PROVE  Lost' \subseteq Lost /\ crashes' >= crashes
  <2>1. UNCHANGED <<tick, pc, crashes>> /\ j.tick = tick
    BY <1>4 DEF RecordResult, main, SettledInv, TickInv
  <2>2. \A u \in uptime' : u \in uptime \/ u.tick = tick
    BY <1>4, <2>1 DEF RecordResult, RecordUptime
  <2> QED
    BY <1>0, <1>3, <2>1, <2>2 DEF Closed
<1>5. ASSUME NEW u \in payable, SettlePay(u)
      PROVE  Lost' \subseteq Lost /\ crashes' >= crashes
  <2>1. u.tick = tick - 1 /\ pc = "pay" /\ UNCHANGED <<tick, pc, crashes>>
    BY <1>5 DEF SettlePay, BonusInv
  <2>2. \A v \in uptime' : v \in uptime \/ v.tick = u.tick
    BY <1>5 DEF SettlePay, RecordUptime
  <2> QED
    BY <1>0, <1>3, <2>1, <2>2 DEF Closed, Settlement

\* The settlement that comes to its end has left nothing behind.
<1>6. CASE SettleNext /\ pc' = "dispatch"
  <2>1. UNCHANGED <<tick, uptime, crashes>> /\ pc = "settle" /\ pc' = "dispatch"
    BY <1>6 DEF SettleNext, ledger
  <2> SUFFICES ASSUME NEW u \in uptime, Closed(u.tick)', u.ok, Untouched(u)', Plain(u)
               PROVE  u.tick \in Lost
    BY <1>0, <2>1 DEF Lost, Plain, Base
  <2>2. CASE Closed(u.tick)
    BY <1>1, <2>2 DEF Lost
  <2>3. CASE ~Closed(u.tick)
    <3>1. u.tick = tick - 1 /\ tick > 1
      BY <1>0, <2>1, <2>3 DEF Closed, Settlement, RowInv
    <3>2. Unstolen(u)'
      <4>1. \A f \in flags' : f.stolen_tick = u.tick => f.stolen_by # NoOne
        BY <1>0 DEF SettledInv, TickInv, NoTick
      <4>2. \A f \in flags' : f.stolen_by # NoOne => f.flag \in Marked'
        BY NextMarked DEF LossInv
      <4> QED
        BY <4>1, <4>2 DEF Unstolen, StolenThisTick, Untouched
    <3>3. owing' = {} /\ payable' = {}
      BY <2>1 DEF BonusInv, Settlement
    <3>4. Paid(u)'
      BY <2>1, <3>1, <3>2, <3>3 DEF SettledInv, PaidInv
    <3>5. Base(u) \in Nat
      BY RowTypes
    <3> QED
      BY <3>4, <3>5, LoopAssumption DEF Plain, Paid, Base
  <2> QED
    BY <2>2, <2>3
<1>7. CASE Crash
  <2>1. UNCHANGED <<tick, uptime>> /\ crashes' = crashes + 1 /\ pc' = "down"
    BY <1>7 DEF Crash, ledger
  <2> SUFFICES ASSUME NEW u \in uptime, Closed(u.tick)', u.ok, Untouched(u)', Plain(u), u.tick # tick - 1
               PROVE  u.tick \in Lost
    BY <2>1 DEF Lost, Plain, Base
  <2>2. Closed(u.tick)
    BY <1>0, <2>1 DEF Closed, Settlement
  <2> QED
    BY <1>1, <2>2 DEF Lost
<1>8. CASE AdvanceTick
  <2>1. UNCHANGED <<uptime, crashes>> /\ tick' = tick + 1 /\ pc = "advance" /\ pc' = "settle"
    BY <1>8 DEF AdvanceTick, IInv, RoundInv
  <2>2. \A t \in Nat : Closed(t)' => Closed(t)
    BY <1>0, <2>1 DEF Closed, Settlement
  <2> QED
    BY <1>2, <2>1, <2>2
<1>9. CASE UNCHANGED <<tick, uptime, crashes>> /\ (pc \in Settlement => pc' \in Settlement)
  BY <1>2, <1>9 DEF Closed
<1>10. CASE LoopNext /\ ~JobStep
  BY <1>5, <1>6, <1>7, <1>8, <1>9, <1>10 DEF LoopNext, MainStep, Rest, ReadTick, SettleStolen, SettleRows,
     SettleNext, RunTick, AwaitDone, AwaitTimeout, Await, ExpireFlags, Restart, ledger, loopVars, Settlement
<1> QED
  BY <1>4, <1>5, <1>9, <1>10, MainSteps, UptimeWriters

LEMMA LostIsFinite ==
  ASSUME IInv
  PROVE  IsFiniteSet(Lost)
<1>1. tick \in Nat /\ \A u \in uptime : u.tick \in Nat
  BY RowTypes DEF IInv, Types, TypeOK, LedgerTypeOK
<1>2. Lost \subseteq 0 .. tick
  BY <1>1 DEF Lost, Closed
<1>3. IsFiniteSet(0 .. tick)
  BY <1>1, FS_Interval
<1> HIDE DEF Lost
<1> QED
  BY <1>2, <1>3, FS_Subset

LEMMA NextLoss ==
  ASSUME IInv, FromOne, RowInv, BonusInv, SettledInv, LossInv, [Next]_vars,
         IInv', SettledInv', BonusInv', RowInv'
  PROVE  LossInv'
<1> SUFFICES ASSUME outages' = 0
             PROVE  /\ \A f \in flags' : f.stolen_by # NoOne => f.flag \in Marked'
                    /\ DefenseBonus > 0 => Cardinality(Lost') <= crashes'
  BY DEF LossInv
<1>1. outages = 0
  <2>1. outages \in Nat
    BY DEF IInv, Types, TypeOK, SubmitTypeOK
  <2>2. ~Outage
    BY <2>1 DEF Outage
  <2>3. ASSUME NEW t \in Threads, Handle(t)
        PROVE  UNCHANGED outages
    BY <2>3 DEF Handle, RefuseInvalid, RefuseOwn, Find, RefuseUndeclared, CheckManifest, RefuseDuplicate,
       RefuseBareClaim, Judge, Mark, Accept, Refuse
  <2>4. SubmitNext => UNCHANGED outages
    BY <2>2, <2>3 DEF SubmitNext, Arrive
  <2> QED
    BY <2>4 DEF Next, submitVars, vars
<1>2. \A f \in flags' : f.stolen_by # NoOne => f.flag \in Marked'
  BY <1>1, NextMarked DEF LossInv
<1>3. ASSUME DefenseBonus > 0
      PROVE  Cardinality(Lost') <= crashes'
  <2>1. IsFiniteSet(Lost) /\ Cardinality(Lost) \in Nat /\ Cardinality(Lost) <= crashes
    BY <1>1, <1>3, LostIsFinite, FS_CardinalityType DEF LossInv
  <2>2. crashes \in Nat /\ crashes' \in Nat
    BY DEF IInv, Types, TypeOK, LoopTypeOK
  <2>3. CASE Lost' \subseteq Lost /\ crashes' >= crashes
    <3>1. Cardinality(Lost') \in Nat /\ Cardinality(Lost') <= Cardinality(Lost)
      BY <2>1, <2>3, FS_Subset, FS_CardinalityType
    <3> QED
      BY <2>1, <2>2, <2>3, <3>1
  <2>4. CASE Lost' \subseteq Lost \cup {tick - 1} /\ crashes' = crashes + 1
    <3> DEFINE more == Lost \cup {tick - 1}
    <3>1. IsFiniteSet(more) /\ Cardinality(more) \in Nat /\ Cardinality(more) <= Cardinality(Lost) + 1
      BY <2>1, FS_AddElement, FS_CardinalityType
    <3>2. Cardinality(Lost') \in Nat /\ Cardinality(Lost') <= Cardinality(more)
      BY <2>4, <3>1, FS_Subset, FS_CardinalityType
    <3> QED
      BY <2>1, <2>2, <2>4, <3>1, <3>2
  <2> QED
    BY <1>1, <1>3, <2>3, <2>4, NextLost
<1> QED
  BY <1>2, <1>3

\* A death of the loop costs the bonus of one tick at most, however far into the
\* settlement it comes and however many there are: of what was up and never marked,
\* the ticks that went unpaid are no more than the deaths.
THEOREM OneTickPerDeath ==
  ASSUME InTime
  PROVE  Spec => []LossesPerCrash
<1>1. Init => LossInv
  <2>1. Init => Lost = {} /\ flags = {} /\ crashes = 0
    BY DEF Init, LedgerInit, LoopInit, Lost
  <2> QED
    BY <2>1, FS_EmptySet DEF LossInv
<1>2. /\ IInv /\ FromOne /\ RowInv /\ BonusInv /\ SettledInv /\ LossInv /\ [Next]_vars
      /\ IInv' /\ SettledInv' /\ BonusInv' /\ RowInv'
      => LossInv'
  BY NextLoss
<1>3. IInv /\ LossInv => LossesPerCrash
  <2> SUFFICES ASSUME IInv, LossInv, Settling, outages = 0
               PROVE  LossesPerCrash
    BY DEF LossesPerCrash
  <2>1. pc \in {"dispatch", "await"} /\ round = tick /\ DefenseBonus > 0
    BY DEF Settling, IInv, RoundInv
  <2> DEFINE unpaid == {u \in uptime : u.tick < round /\ u.ok /\ Untouched(u) /\ Plain(u)}
  <2>2. {u.tick : u \in unpaid} = Lost
    BY <2>1 DEF Lost, Closed, Settlement
  <2>3. Cardinality({u.tick : u \in unpaid}) <= crashes
    BY <2>1, <2>2 DEF LossInv
  <2> QED
    BY <2>3 DEF LossesPerCrash, Marked, Untouched, Plain, Base
<1> QED
  BY <1>1, <1>2, <1>3, SettledIsKept, RowsAreKept, TicksFromOne, Inductive, PTL DEF Spec
=============================================================================
