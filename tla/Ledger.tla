------------------------------- MODULE Ledger -------------------------------
(***************************************************************************)
(* The referee's sqlite ledger (orchestrator/state.py).  The tick loop,    *)
(* the submission API and ctfctl are separate processes, and threads of    *)
(* one process have connections of their own; every connection commits     *)
(* each statement by itself.  One operator below is therefore one atomic   *)
(* statement: a reader is an expression, a writer fixes the primed value   *)
(* of the one table it touches and leaves the other tables to its caller.  *)
(***************************************************************************)
EXTENDS Manifest, Sequences, FiniteSets

CONSTANTS
  Players,        \* the names in ctf.toml's roster
  NoOne,          \* stolen_by IS NULL
  Manifests,      \* manifests a deploy may install, by their transports and http_versions
  NoManifest,     \* manifest IS NULL: nothing deployed yet
  K,              \* game.flag_lifetime_ticks
  UptimePoints,   \* RULES 7 weights of the rungs
  AttackPoints,   \* RULES 7 points of the exploit classes
  NoClass,        \* no class claimed, or none awarded
  NoFlag          \* a well-formed token that names no flag

Classes == {"app", "transport", "rce"}

ASSUME PlayersAssumption == NoOne \notin Players
ASSUME ManifestsAssumption ==
  /\ NoManifest \notin Manifests
  /\ \A m \in Manifests : Protocols(m) \subseteq Rungs
ASSUME KAssumption == K \in Nat \ {0}
ASSUME PointsAssumption ==
  /\ UptimePoints \in [Rungs -> Nat]
  /\ AttackPoints \in [Classes -> Nat]
  /\ NoClass \notin Classes

VARIABLES
  tick,           \* meta 'tick'
  frozen,         \* meta 'frozen'
  players,        \* table players, by name
  flags,          \* table flags, the set of its rows
  uptime,         \* table uptime, the set of its rows
  submissions     \* table submissions in the order of its ids

ledger == <<tick, frozen, players, flags, uptime, submissions>>

-----------------------------------------------------------------------------
(* The tables.  A token is random in the code and stands for one planting, *)
(* so it is modelled by the planting's owner, rung and tick.               *)

Tokens == [player: Players, protocol: Rungs, tick: Nat]
NoTick == -1

PlayerRows ==
  [status: {"unknown", "building", "deploying", "running", "failed", "disabled"},
   manifest: Manifests \cup {NoManifest},
   grace_until_tick: Nat]

FlagRows ==
  [flag: Tokens, expires_tick: Nat, stolen_by: Players \cup {NoOne}, stolen_tick: Nat \cup {NoTick}]

UptimeRows ==
  [tick: Nat, player: Players, protocol: Rungs, ok: BOOLEAN, grace: BOOLEAN, points: Nat]

Verdicts == {"accepted", "own-flag", "invalid-or-expired", "undeclared-transport", "duplicate"}

SubmissionRows ==
  [by: Players, flag: Tokens \cup {NoFlag}, verdict: Verdicts, klass: Classes \cup {NoClass},
   claimed: Classes \cup {NoClass}, points: Nat, pending: BOOLEAN]

LedgerTypeOK ==
  /\ tick \in Nat
  /\ frozen \in BOOLEAN
  /\ players \in [Players -> PlayerRows]
  /\ flags \in SUBSET FlagRows
  /\ uptime \in SUBSET UptimeRows
  /\ submissions \in Seq(SubmissionRows)

\* A new round: the schema just created, the roster inserted by sync_roster.
LedgerInit ==
  /\ tick = 0
  /\ frozen = FALSE
  /\ players = [p \in Players |->
       [status |-> "unknown", manifest |-> NoManifest, grace_until_tick |-> 0]]
  /\ flags = {}
  /\ uptime = {}
  /\ submissions = <<>>

-----------------------------------------------------------------------------
(* Roster. *)

ActivePlayers == {p \in Players : players[p].status # "disabled"}

ProtocolsOf(p) ==
  IF players[p].manifest = NoManifest THEN {} ELSE Protocols(players[p].manifest)

DeclaredOf(p) ==
  IF players[p].manifest = NoManifest THEN {} ELSE Declared(players[p].manifest)

\* record_deploy with status "ok".
RecordDeploy(p, manifest, grace_until) ==
  players' = [players EXCEPT ![p] =
    [status |-> "running", manifest |-> manifest, grace_until_tick |-> grace_until]]

-----------------------------------------------------------------------------
(* Flags. *)

\* Mutant of Plant: the lifetime runs from the tick of the statement, not of the job.
PlantFromNow(owner, rung, t) ==
  flags' = flags \cup
    {[flag |-> [player |-> owner, protocol |-> rung, tick |-> t],
      expires_tick |-> tick + K, stolen_by |-> NoOne, stolen_tick |-> NoTick]}

Plant(owner, rung, t) ==
  flags' = flags \cup
    {[flag |-> [player |-> owner, protocol |-> rung, tick |-> t],
      expires_tick |-> t + K, stolen_by |-> NoOne, stolen_tick |-> NoTick]}

FlagForSla(owner, rung, t) ==
  {f \in flags : f.flag = [player |-> owner, protocol |-> rung, tick |-> t]}

\* Mutant of Expire: one tick early.
ExpireEarly(t) == flags' = {f \in flags : ~(f.expires_tick <= t + 1)}

Expire(t) == flags' = {f \in flags : ~(f.expires_tick <= t)}

\* Mutant of FindLiveFlag: whatever row is still there.
FindAnyFlag(flag, t) == {f \in flags : f.flag = flag}

FindLiveFlag(flag, t) == {f \in flags : f.flag = flag /\ f.expires_tick > t}

MarkStolen(flag, by, t) ==
  flags' = {IF f.flag = flag /\ f.stolen_by = NoOne
            THEN [f EXCEPT !.stolen_by = by, !.stolen_tick = t]
            ELSE f : f \in flags}

StolenThisTick(owner, t) ==
  {rung \in Rungs : \E f \in flags :
     f.flag.player = owner /\ f.flag.protocol = rung /\ f.stolen_tick = t}

-----------------------------------------------------------------------------
(* Scores. *)

UptimeOf(owner, t) == {u \in uptime : u.player = owner /\ u.tick = t}

\* Mutant of RecordUptime: the conflict is on player and protocol alone.
RecordLatest(t, owner, rung, ok, grace, points) ==
  uptime' = {u \in uptime : ~(u.player = owner /\ u.protocol = rung)} \cup
    {[tick |-> t, player |-> owner, protocol |-> rung,
      ok |-> ok, grace |-> grace, points |-> points]}

RecordUptime(t, owner, rung, ok, grace, points) ==
  uptime' = {u \in uptime : ~(u.tick = t /\ u.player = owner /\ u.protocol = rung)} \cup
    {[tick |-> t, player |-> owner, protocol |-> rung,
      ok |-> ok, grace |-> grace, points |-> points]}

Record(by, flag, verdict, klass, claimed, points, pending) ==
  submissions' = Append(submissions,
    [by |-> by, flag |-> flag, verdict |-> verdict, klass |-> klass,
     claimed |-> claimed, points |-> points, pending |-> pending])

\* Mutant of Captured: asks for the victim's rows instead of the attacker's.
CapturedByVictim(by, flag) ==
  \E i \in DOMAIN submissions : /\ submissions[i].by = flag.player
                                /\ submissions[i].flag = flag
                                /\ submissions[i].verdict = "accepted"

Captured(by, flag) ==
  \E i \in DOMAIN submissions : /\ submissions[i].by = by
                                /\ submissions[i].flag = flag
                                /\ submissions[i].verdict = "accepted"
=============================================================================
