------------------------------ MODULE TickLoop ------------------------------
(***************************************************************************)
(* The scoring loop (orchestrator/tick.py): one process whose main thread  *)
(* advances the tick, settles the defense bonus of the tick before, hands  *)
(* one score_player job per player to a thread pool, waits for each of     *)
(* them with a time limit, and expires old flags.  A job that outlives its *)
(* time limit is not cancelled: it goes on in its pool thread, into the    *)
(* ticks that follow.  The process may die at any step and is restarted.   *)
(***************************************************************************)
EXTENDS Ledger

CONSTANTS
  Index,          \* a player's place in the order of active_players()
  Workers,        \* threads of the probe pool
  DefenseBonus,   \* game.defense_bonus
  UdpFixture,     \* game.udp_flag_fixture
  MayOverrun,     \* whether a job can outlive the time limit run_tick gives it
  MaxTick,        \* bound: no tick after this one starts
  MaxCrashes      \* bound: how often the process dies

ASSUME LoopAssumption ==
  /\ Index \in [Players -> Nat]
  /\ \A p, q \in Players : Index[p] = Index[q] => p = q
  /\ DefenseBonus \in Nat
  /\ UdpFixture \in BOOLEAN
  /\ MayOverrun \in BOOLEAN

VARIABLES
  pc,             \* where the main thread is
  round,          \* main()'s local `tick`
  owing,          \* players apply_defense_bonus still has to visit
  stolen,         \* its local `stolen`, for the player it is at
  payable,        \* the fetched uptime rows it still has to write
  awaiting,       \* players whose future run_tick has not waited for yet
  jobs,           \* score_player calls queued in the pool or running
  crashes         \* how often the process died

loopVars == <<pc, round, owing, stolen, payable, awaiting, jobs, crashes>>
main == <<pc, round, owing, stolen, payable, awaiting, crashes>>

\* A job holds the row snapshot it was submitted with: `todo`, the rungs of the
\* manifest it has not finished, and whether the row's grace covers its tick.
\* At "check" the flag of the first rung is planted and the SLA fetch is next.
Jobs ==
  [player: Players, tick: Nat, at: {"queued", "probe", "check"},
   todo: SUBSET Rungs, in_grace: BOOLEAN]

LoopTypeOK ==
  /\ pc \in {"idle", "advance", "settle", "stolen", "pay", "dispatch", "await", "down"}
  /\ round \in Nat
  /\ owing \in SUBSET Players
  /\ stolen \in SUBSET Rungs
  /\ payable \in SUBSET UptimeRows
  /\ awaiting \in SUBSET Players
  /\ jobs \in SUBSET Jobs
  /\ crashes \in Nat

LoopInit ==
  /\ pc = "idle"
  /\ round = 0
  /\ owing = {}
  /\ stolen = {}
  /\ payable = {}
  /\ awaiting = {}
  /\ jobs = {}
  /\ crashes = 0

-----------------------------------------------------------------------------
(* The main thread. *)

\* The frozen branch renders the board and waits for the next boundary: the
\* ledger stays as it is.  The loop also rests at the bound.
Rest ==
  /\ pc = "idle"
  /\ frozen \/ tick = MaxTick
  /\ UNCHANGED <<ledger, loopVars>>

\* The frozen flag and the tick are two reads; freezing between them lets one
\* more tick start, which freezing just after them does as well.
ReadTick ==
  /\ pc = "idle"
  /\ ~frozen
  /\ tick < MaxTick
  /\ round' = tick + 1
  /\ pc' = "advance"
  /\ UNCHANGED <<ledger, owing, stolen, payable, awaiting, jobs, crashes>>

AdvanceTick ==
  /\ pc = "advance"
  /\ tick' = round
  /\ pc' = "settle"
  /\ owing' = IF DefenseBonus = 0 \/ round - 1 < 1 THEN {} ELSE ActivePlayers
  /\ UNCHANGED <<frozen, players, flags, uptime, submissions>>
  /\ UNCHANGED <<round, stolen, payable, awaiting, jobs, crashes>>

(* apply_defense_bonus settles the tick before `round`, player by player:  *)
(* the rungs stolen in it, then the uptime rows of it, then one update per *)
(* row that was up.                                                        *)
SettleStolen(p) ==
  /\ pc = "settle"
  /\ p \in owing
  /\ \A q \in owing : Index[p] <= Index[q]
  /\ stolen' = StolenThisTick(p, round - 1)
  /\ pc' = "stolen"
  /\ UNCHANGED <<ledger, round, owing, payable, awaiting, jobs, crashes>>

\* Mutant of SettleRows: the rows of the tick that has just begun.
SettleThisRound(p) ==
  /\ pc = "stolen"
  /\ p \in owing
  /\ \A q \in owing : Index[p] <= Index[q]
  /\ payable' = {u \in UptimeOf(p, round) : u.ok}
  /\ owing' = owing \ {p}
  /\ pc' = "pay"
  /\ UNCHANGED <<ledger, round, stolen, awaiting, jobs, crashes>>

SettleRows(p) ==
  /\ pc = "stolen"
  /\ p \in owing
  /\ \A q \in owing : Index[p] <= Index[q]
  /\ payable' = {u \in UptimeOf(p, round - 1) : u.ok}
  /\ owing' = owing \ {p}
  /\ pc' = "pay"
  /\ UNCHANGED <<ledger, round, stolen, awaiting, jobs, crashes>>

\* Mutant of SettlePay: the loop over the rows is left after the first.
SettlePayFirst(u) ==
  /\ pc = "pay"
  /\ u \in payable
  /\ LET base == UptimePoints[u.protocol]
     IN  RecordUptime(u.tick, u.player, u.protocol, TRUE, u.grace,
                      IF u.protocol \in stolen THEN base ELSE base + DefenseBonus)
  /\ payable' = {}
  /\ UNCHANGED <<tick, frozen, players, flags, submissions>>
  /\ UNCHANGED <<pc, round, owing, stolen, awaiting, jobs, crashes>>

SettlePay(u) ==
  /\ pc = "pay"
  /\ u \in payable
  /\ LET base == UptimePoints[u.protocol]
     IN  RecordUptime(u.tick, u.player, u.protocol, TRUE, u.grace,
                      IF u.protocol \in stolen THEN base ELSE base + DefenseBonus)
  /\ payable' = payable \ {u}
  /\ UNCHANGED <<tick, frozen, players, flags, submissions>>
  /\ UNCHANGED <<pc, round, owing, stolen, awaiting, jobs, crashes>>

SettleNext ==
  /\ \/ pc = "pay" /\ payable = {} /\ pc' = "settle"
     \/ pc = "settle" /\ owing = {} /\ pc' = "dispatch"
  /\ stolen' = {}
  /\ UNCHANGED <<ledger, round, owing, payable, awaiting, jobs, crashes>>

\* run_tick submits one job per active player, each with that player's row.
RunTick ==
  /\ pc = "dispatch"
  /\ awaiting' = ActivePlayers
  /\ jobs' = jobs \cup
       {[player |-> p, tick |-> round, at |-> "queued", todo |-> ProtocolsOf(p),
         in_grace |-> round <= players[p].grace_until_tick] : p \in ActivePlayers}
  /\ pc' = "await"
  /\ UNCHANGED <<ledger, round, owing, stolen, payable, crashes>>

\* future.result(): in roster order, until the job is done or its time is up.
Await(p) ==
  /\ pc = "await"
  /\ p \in awaiting
  /\ \A q \in awaiting : Index[p] <= Index[q]
  /\ awaiting' = awaiting \ {p}
  /\ UNCHANGED <<ledger, pc, round, owing, stolen, payable, jobs, crashes>>

Unfinished(p) == \E j \in jobs : j.player = p /\ j.tick = round

AwaitDone(p) == ~Unfinished(p) /\ Await(p)

\* Mutant of AwaitTimeout: future.result() without a time limit.
AwaitForever(p) == pc = "done" /\ Await(p)

AwaitTimeout(p) == MayOverrun /\ Unfinished(p) /\ Await(p)

\* The DELETE that ends a tick; the board rendered after it is not ledger state.
ExpireFlags ==
  /\ pc = "await"
  /\ awaiting = {}
  /\ Expire(round)
  /\ pc' = "idle"
  /\ UNCHANGED <<tick, frozen, players, uptime, submissions>>
  /\ UNCHANGED <<round, owing, stolen, payable, awaiting, jobs, crashes>>

-----------------------------------------------------------------------------
(* score_player, in a thread of the pool. *)

Running == {j \in jobs : j.at # "queued"}

\* The pool is first in, first out.
IsNext(j) ==
  /\ j.at = "queued"
  /\ \A i \in jobs : i.at = "queued" =>
       i.tick > j.tick \/ (i.tick = j.tick /\ Index[i.player] >= Index[j.player])

\* A player with nothing deployed has nothing to score.
StartJob(j) ==
  /\ IsNext(j)
  /\ Cardinality(Running) < Workers
  /\ jobs' = (jobs \ {j}) \cup (IF j.todo = {} THEN {} ELSE {[j EXCEPT !.at = "probe"]})
  /\ UNCHANGED <<ledger, main>>

\* A job is over with its last rung.
RungDone(j, rung) ==
  jobs' = (jobs \ {j}) \cup
    (IF j.todo = {rung} THEN {} ELSE {[j EXCEPT !.at = "probe", !.todo = @ \ {rung}]})

\* Lines 90-94: grace turns a failed rung into one that counts as up.
RecordResult(j, rung, ok) ==
  LET graced == j.in_grace /\ ~ok
      counts == ok \/ graced
  IN  /\ RecordUptime(j.tick, j.player, rung, counts, graced,
                      IF counts THEN UptimePoints[rung] ELSE 0)
      /\ UNCHANGED <<tick, frozen, players, submissions>>

\* The rung answers, and its fresh flag is planted and stored.
ProbePlant(j, rung) ==
  /\ j.at = "probe"
  /\ IsFirst(rung, j.todo)
  /\ CarriesFlags(rung, UdpFixture)
  /\ Plant(j.player, rung, j.tick)
  /\ jobs' = (jobs \ {j}) \cup {[j EXCEPT !.at = "check"]}
  /\ UNCHANGED <<tick, frozen, players, uptime, submissions, main>>

\* The rung answers and carries no flag, or a ProbeFailure ends it early.
ProbeResult(j, rung, ok) ==
  /\ j.at = "probe"
  /\ IsFirst(rung, j.todo)
  /\ ok => ~CarriesFlags(rung, UdpFixture)
  /\ RecordResult(j, rung, ok)
  /\ RungDone(j, rung)
  /\ UNCHANGED <<flags, main>>

\* The SLA check can fail only where the flag of K-1 ticks ago is on record.
SlaCheck(j, rung, ok) ==
  /\ j.at = "check"
  /\ IsFirst(rung, j.todo)
  /\ ~ok => FlagForSla(j.player, rung, j.tick - K + 1) # {}
  /\ RecordResult(j, rung, ok)
  /\ RungDone(j, rung)
  /\ UNCHANGED <<flags, main>>

\* An exception that is not a ProbeFailure leaves the loop over the rungs;
\* run_tick logs it and the rungs left are not recorded.
JobRaises(j) ==
  /\ j.at # "queued"
  /\ jobs' = jobs \ {j}
  /\ UNCHANGED <<ledger, main>>

-----------------------------------------------------------------------------
(* The process dies (or is stopped: close() takes the jobs' connections    *)
(* away too), and systemd starts it again.                                 *)
Crash ==
  /\ pc # "down"
  /\ crashes < MaxCrashes
  /\ crashes' = crashes + 1
  /\ pc' = "down"
  /\ jobs' = {} /\ awaiting' = {} /\ owing' = {} /\ stolen' = {} /\ payable' = {}
  /\ UNCHANGED <<ledger, round>>

Restart ==
  /\ pc = "down"
  /\ pc' = "idle"
  /\ UNCHANGED <<ledger, round, owing, stolen, payable, awaiting, jobs, crashes>>

MainStep ==
  \/ ReadTick
  \/ AdvanceTick
  \/ \E p \in owing : SettleStolen(p) \/ SettleRows(p)
  \/ \E u \in payable : SettlePay(u)
  \/ SettleNext
  \/ RunTick
  \/ \E p \in awaiting : AwaitDone(p) \/ AwaitTimeout(p)
  \/ ExpireFlags

JobStep ==
  \E j \in jobs :
    \/ StartJob(j)
    \/ \E rung \in j.todo :
         \/ ProbePlant(j, rung)
         \/ \E ok \in BOOLEAN : ProbeResult(j, rung, ok) \/ SlaCheck(j, rung, ok)
    \/ JobRaises(j)

LoopNext == Rest \/ MainStep \/ JobStep \/ Crash \/ Restart
=============================================================================
