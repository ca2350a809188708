-------------------------------- MODULE Season --------------------------------
(***************************************************************************)
(* One service over a season: the tick loop plants a note a tick and asks  *)
(* for the one of K-1 ticks ago, its player patches it, which starts the   *)
(* VM on fresh disks and so without the notes, and the operator resets the *)
(* game for a new season (tick.py, the end of deploy.py, topology/vm.sh,   *)
(* ctfctl reset).  The service is a good one: it answers whenever its VM   *)
(* is up, with every note it still has.  It has one rung, which carries    *)
(* flags.  Jobs that outlive their tick are module Referee's.              *)
(***************************************************************************)
EXTENDS Integers, FiniteSets

CONSTANTS
  K,              \* game.flag_lifetime_ticks
  GraceTicks,     \* game.sla_grace_ticks
  MaxTick,        \* bound
  MaxPatches,     \* bound: redeploys
  MaxResets       \* bound: seasons after the first

ASSUME SeasonAssumption ==
  /\ K \in Nat \ {0} /\ GraceTicks \in Nat
  /\ MaxTick \in Nat /\ MaxPatches \in Nat /\ MaxResets \in Nat

VARIABLES
  tick, grace_until_tick,    \* in the ledger
  flags,                     \* flags on record, each by its tick and season
  uptime,                    \* uptime rows: counts as up, and the job's history
  notes,                     \* the ticks whose notes are on the VM's disk
  loop,                      \* the tick loop, its own tick, and its job
  patch,                     \* the deploy pipeline, from the restart of the VM on
  reset,                     \* ctfctl reset --confirm: its next statement
  season,                    \* history: how often a reset has begun
  collided,                   \* history: a reset has met a tick or a landing deploy
  patches

seasonVars == <<tick, grace_until_tick, flags, uptime, notes, loop, patch, reset, season, collided, patches>>
storeVars == <<tick, grace_until_tick, flags, uptime>>

Asleep == [at |-> "asleep", round |-> 0, in_grace |-> FALSE, season |-> 0, disturbed |-> FALSE]
NoPatch == [at |-> "none", grace_until |-> 0]

SeasonTypeOK ==
  /\ tick \in 0..MaxTick /\ grace_until_tick \in 0..MaxTick + GraceTicks
  /\ flags \subseteq [tick: 1..MaxTick, season: 0..MaxResets]
  /\ uptime \subseteq [tick: 1..MaxTick, season: 0..MaxResets, ok: BOOLEAN, disturbed: BOOLEAN]
  /\ notes \subseteq 1..MaxTick
  /\ loop \in [at: {"asleep", "advance", "dispatch", "probe", "noted", "check", "expire"}, round: 0..MaxTick,
               in_grace: BOOLEAN, season: 0..MaxResets, disturbed: BOOLEAN]
  /\ patch \in [at: {"none", "stopped", "booted", "land", "failed"}, grace_until: 0..MaxTick + GraceTicks]
  /\ reset \in {"none", "flags", "uptime", "tick", "grace"}
  /\ season \in 0..MaxResets /\ patches \in 0..MaxPatches /\ collided \in BOOLEAN

\* The service has been deployed, before the first tick.
SeasonInit ==
  /\ tick = 0 /\ grace_until_tick = GraceTicks
  /\ flags = {} /\ uptime = {} /\ notes = {}
  /\ loop = Asleep /\ patch = NoPatch /\ reset = "none"
  /\ season = 0 /\ collided = FALSE /\ patches = 0

-----------------------------------------------------------------------------
(* The tick loop. *)

WakeUp ==
  /\ loop.at = "asleep" /\ tick < MaxTick
  /\ loop' = [Asleep EXCEPT !.at = "advance", !.round = tick + 1, !.season = season]
  /\ collided' = (collided \/ reset # "none")
  /\ UNCHANGED <<storeVars, notes, patch, reset, season, patches>>

StoreTick ==
  /\ loop.at = "advance"
  /\ tick' = loop.round
  /\ loop' = [loop EXCEPT !.at = "dispatch"]
  /\ UNCHANGED <<grace_until_tick, flags, uptime, notes, patch, reset, season, collided, patches>>

\* The job has the player's row as it is now.
Dispatch ==
  /\ loop.at = "dispatch"
  /\ loop' = [loop EXCEPT !.at = "probe", !.in_grace = loop.round <= grace_until_tick,
                          !.disturbed = patch.at # "none"]
  /\ UNCHANGED <<storeVars, notes, patch, reset, season, collided, patches>>

VmUp == patch.at # "stopped"

\* Mutant of Result: no grace.
ResultUngraced(ok) ==
  /\ uptime' = uptime \cup {[tick |-> loop.round, season |-> loop.season, ok |-> ok, disturbed |-> loop.disturbed]}
  /\ loop' = [loop EXCEPT !.at = "expire"]
  /\ UNCHANGED <<tick, grace_until_tick, flags, patch, reset, season, collided, patches>>

Result(ok) ==
  /\ uptime' = uptime \cup
       {[tick |-> loop.round, season |-> loop.season, ok |-> ok \/ loop.in_grace, disturbed |-> loop.disturbed]}
  /\ loop' = [loop EXCEPT !.at = "expire"]
  /\ UNCHANGED <<tick, grace_until_tick, flags, patch, reset, season, collided, patches>>

HealthDown == loop.at = "probe" /\ ~VmUp /\ Result(FALSE) /\ UNCHANGED notes

PlantNote ==
  /\ loop.at = "probe" /\ VmUp
  /\ notes' = notes \cup {loop.round}
  /\ loop' = [loop EXCEPT !.at = "noted"]
  /\ UNCHANGED <<storeVars, patch, reset, season, collided, patches>>

StorePlant ==
  /\ loop.at = "noted"
  /\ flags' = flags \cup {[tick |-> loop.round, season |-> loop.season]}
  /\ loop' = [loop EXCEPT !.at = "check"]
  /\ UNCHANGED <<tick, grace_until_tick, uptime, notes, patch, reset, season, collided, patches>>

\* The flag of K-1 ticks ago, if it is on record, is fetched from the service.
CheckSla ==
  /\ loop.at = "check"
  /\ LET asked == loop.round - K + 1
     IN  Result((\E f \in flags : f.tick = asked) => VmUp /\ asked \in notes)
  /\ UNCHANGED notes

ExpireOld ==
  /\ loop.at = "expire"
  /\ flags' = {f \in flags : f.tick + K > loop.round}
  /\ loop' = Asleep
  /\ UNCHANGED <<tick, grace_until_tick, uptime, notes, patch, reset, season, collided, patches>>

-----------------------------------------------------------------------------
(* A redeploy. *)

\* vm.sh stop, and start from a fresh root and data disk.
StopVm ==
  /\ patch.at \in {"none", "failed"} /\ patches < MaxPatches
  /\ patch' = [NoPatch EXCEPT !.at = "stopped"]
  /\ notes' = {}
  /\ loop' = [loop EXCEPT !.disturbed = @ \/ loop.at \in {"probe", "noted", "check"}]
  /\ patches' = patches + 1
  /\ UNCHANGED <<storeVars, reset, season, collided>>

StartVm ==
  /\ patch.at = "stopped"
  /\ patch' = [patch EXCEPT !.at = "booted"]
  /\ UNCHANGED <<storeVars, notes, loop, reset, season, collided, patches>>

\* The healthcheck has given up: no grace, and the new VM goes on.
PatchFails ==
  /\ patch.at \in {"stopped", "booted"}
  /\ patch' = [patch EXCEPT !.at = "failed"]
  /\ UNCHANGED <<storeVars, notes, loop, reset, season, collided, patches>>

\* Mutant of GrantGrace: the grace is as if the patch had begun with the tick before.
GrantLess ==
  /\ patch.at = "booted"
  /\ patch' = [at |-> "land", grace_until |-> tick + GraceTicks - 1]
  /\ collided' = (collided \/ reset # "none")
  /\ UNCHANGED <<storeVars, notes, loop, reset, season, patches>>

\* After the healthcheck, the grace is computed from the tick.
GrantGrace ==
  /\ patch.at = "booted"
  /\ patch' = [at |-> "land", grace_until |-> tick + GraceTicks]
  /\ collided' = (collided \/ reset # "none")
  /\ UNCHANGED <<storeVars, notes, loop, reset, season, patches>>

LandPatch ==
  /\ patch.at = "land"
  /\ grace_until_tick' = patch.grace_until
  /\ patch' = NoPatch
  /\ UNCHANGED <<tick, flags, uptime, notes, loop, reset, season, collided, patches>>

-----------------------------------------------------------------------------
(* ctfctl reset, statement by statement.  Not in this model: submissions, *)
(* which it deletes as it does uptime, and the freeze, which it lifts.    *)

Statement(at, then) ==
  /\ reset = at /\ reset' = then
  /\ UNCHANGED <<notes, loop, patch, patches>>

BeginReset ==
  /\ season < MaxResets
  /\ Statement("none", "flags")
  /\ season' = season + 1
  /\ collided' = (collided \/ loop.at # "asleep" \/ patch.at = "land")
  /\ UNCHANGED storeVars

ResetFlags ==
  /\ Statement("flags", "uptime") /\ flags' = {}
  /\ UNCHANGED <<tick, grace_until_tick, uptime, season, collided>>

ResetUptime ==
  /\ Statement("uptime", "tick") /\ uptime' = {}
  /\ UNCHANGED <<tick, grace_until_tick, flags, season, collided>>

ResetTick ==
  /\ Statement("tick", "grace") /\ tick' = 0
  /\ UNCHANGED <<grace_until_tick, flags, uptime, season, collided>>

\* Mutant of ResetGrace: the players keep their grace.
ResetNoGrace ==
  /\ Statement("grace", "none")
  /\ UNCHANGED <<storeVars, season, collided>>

ResetGrace ==
  /\ Statement("grace", "none") /\ grace_until_tick' = 0
  /\ UNCHANGED <<tick, flags, uptime, season, collided>>

-----------------------------------------------------------------------------
LoopSteps == WakeUp \/ StoreTick \/ Dispatch \/ HealthDown \/ PlantNote \/ StorePlant \/ CheckSla \/ ExpireOld
PatchSteps == StopVm \/ StartVm \/ PatchFails \/ GrantGrace \/ LandPatch
ResetSteps == BeginReset \/ ResetFlags \/ ResetUptime \/ ResetTick \/ ResetGrace

\* Bound: nothing is asked of what comes after a reset has crossed a tick or a deploy.
Over == collided \/ (tick = MaxTick /\ loop.at = "asleep")

SeasonNext ==
  \/ ~collided /\ (LoopSteps \/ PatchSteps \/ ResetSteps)
  \/ Over /\ UNCHANGED seasonVars

SeasonSpec == SeasonInit /\ [][SeasonNext]_seasonVars

-----------------------------------------------------------------------------
\* PLAYER-QUICKSTART 5, tick.py 90: "patching does not cost you uptime".  A good
\* service counts as up in every tick in which, from the fetch of its row to its
\* result, no patch was under way, nor one that failed.
PatchingIsFree == ~collided => \A row \in uptime : row.ok \/ row.disturbed

\* A season begins with nothing of the last one in the ledger: no flag that could
\* be redeemed, no points, and no grace beyond what a patch buys, provided the reset
\* met no tick in progress and no deploy about to land.
SeasonIsFresh ==
  ~collided /\ reset = "none" =>
    /\ \A f \in flags : f.season = season
    /\ \A row \in uptime : row.season = season
    /\ grace_until_tick <= tick + GraceTicks
=============================================================================
