----------------------------- MODULE PartsProofs -----------------------------
(***************************************************************************)
(* Theorems about the smaller parts that share no state: a service's       *)
(* season, the scoreboard file, the rate limit and the manifest check, and *)
(* the types of every part of MCParts.                                     *)
(***************************************************************************)
EXTENDS MCParts, DeploysProofs, AddressesProofs, FiniteSetTheorems, SequenceTheorems, WellFoundedInduction, TLAPS

-----------------------------------------------------------------------------
(***************************************************************************)
(* A season.  Until a reset meets a tick or a landing deploy, the two keep *)
(* out of each other's way: a reset finds the loop asleep, and no deploy   *)
(* lands before it is through.                                             *)
(***************************************************************************)
LoopStages == {"asleep", "advance", "dispatch", "probe", "noted", "check", "expire"}
PatchStages == {"none", "stopped", "booted", "land", "failed"}
ResetStages == {"none", "flags", "uptime", "tick", "grace"}

SeasonTypes ==
  /\ tick \in Nat /\ grace_until_tick \in Int /\ season \in Nat
  /\ flags \subseteq [tick: Nat, season: Nat]
  /\ uptime \subseteq [tick: Nat, season: Nat, ok: BOOLEAN, disturbed: BOOLEAN]
  /\ loop \in [at: LoopStages, round: Nat, in_grace: BOOLEAN, season: Nat, disturbed: BOOLEAN]
  /\ patch \in [at: PatchStages, grace_until: Int]
  /\ reset \in ResetStages

\* What a tick knows of the ledger it works on.
InStep ==
  /\ reset # "none" => loop.at = "asleep" /\ patch.at # "land"
  /\ loop.at = "advance" => loop.round = tick + 1
  /\ loop.at \in LoopStages \ {"asleep", "advance"} => loop.round = tick
  /\ loop.at # "asleep" => loop.season = season

\* Every statement of the reset has done its part before the next.
Swept ==
  /\ \A f \in flags : f.tick <= tick /\ (reset = "none" => f.season = season)
  /\ \A row \in uptime : reset \notin {"flags", "uptime"} => row.season = season
  /\ reset \in {"uptime", "tick", "grace"} => flags = {}
  /\ reset \in {"tick", "grace"} => uptime = {}
  /\ reset # "grace" => grace_until_tick <= tick + GraceTicks
  /\ patch.at = "land" => patch.grace_until <= tick + GraceTicks

FreshInv == SeasonTypes /\ (~collided => InStep /\ Swept)

LEMMA FreshStarts ==
  SeasonInit => FreshInv
BY SeasonAssumption
   DEF SeasonInit, FreshInv, SeasonTypes, InStep, Swept, Asleep, NoPatch, LoopStages, PatchStages, ResetStages

LEMMA LoopTypes ==
  ASSUME SeasonTypes, LoopSteps
  PROVE  SeasonTypes'
<1> USE DEF SeasonTypes, LoopStages, storeVars
<1>1. CASE WakeUp
  <2>1. loop' = [at |-> "advance", round |-> tick + 1, in_grace |-> FALSE, season |-> season, disturbed |-> FALSE]
    BY <1>1 DEF WakeUp, Asleep
  <2>2. loop' \in [at: LoopStages, round: Nat, in_grace: BOOLEAN, season: Nat, disturbed: BOOLEAN]
    BY <2>1
  <2> QED
    BY <1>1, <2>2 DEF WakeUp
<1>2. CASE StoreTick
  BY <1>2 DEF StoreTick
<1>3. CASE Dispatch
  <2> DEFINE graced == loop.round <= grace_until_tick
  <2>1. graced \in BOOLEAN
    OBVIOUS
  <2>2. PICK disturbed \in BOOLEAN : disturbed = (patch.at # "none")
    OBVIOUS
  <2>3. loop' = [loop EXCEPT !.at = "probe", !.in_grace = graced, !.disturbed = disturbed]
    BY <1>3, <2>2, Zenon DEF Dispatch
  <2> HIDE DEF graced
  <2> QED
    BY <1>3, <2>1, <2>3 DEF Dispatch
<1>4. CASE HealthDown
  BY <1>4 DEF HealthDown, Result
<1>5. CASE PlantNote
  BY <1>5 DEF PlantNote
<1>6. CASE StorePlant
  BY <1>6 DEF StorePlant
<1>7. CASE CheckSla
  <2>1. PICK ok \in BOOLEAN : Result(ok)
    BY <1>7 DEF CheckSla, VmUp
  <2> QED
    BY <1>7, <2>1 DEF CheckSla, Result
<1>8. CASE ExpireOld
  BY <1>8 DEF ExpireOld, Asleep
<1> QED
  BY <1>1, <1>2, <1>3, <1>4, <1>5, <1>6, <1>7, <1>8 DEF LoopSteps

LEMMA PatchTypes ==
  ASSUME SeasonTypes, PatchSteps
  PROVE  SeasonTypes'
<1> USE SeasonAssumption DEF SeasonTypes, PatchStages, LoopStages, storeVars, NoPatch
<1>1. CASE StopVm
  <2>1. PICK disturbed \in BOOLEAN : disturbed = (loop.disturbed \/ loop.at \in {"probe", "noted", "check"})
    OBVIOUS
  <2>2. loop' = [loop EXCEPT !.disturbed = disturbed]
    BY <1>1, <2>1, Zenon DEF StopVm
  <2> QED
    BY <1>1, <2>2 DEF StopVm
<1>2. CASE StartVm
  BY <1>2 DEF StartVm
<1>3. CASE PatchFails
  BY <1>3 DEF PatchFails
<1>4. CASE GrantGrace
  BY <1>4 DEF GrantGrace
<1>5. CASE LandPatch
  BY <1>5 DEF LandPatch
<1> QED
  BY <1>1, <1>2, <1>3, <1>4, <1>5 DEF PatchSteps

LEMMA ResetTypes ==
  ASSUME SeasonTypes, ResetSteps
  PROVE  SeasonTypes'
BY DEF SeasonTypes, ResetStages, ResetSteps, BeginReset, ResetFlags, ResetUptime, ResetTick, ResetGrace,
       Statement, storeVars

LEMMA LoopKeepsFresh ==
  ASSUME SeasonTypes, ~collided, InStep, Swept, LoopSteps, ~collided'
  PROVE  InStep' /\ Swept'
<1> USE DEF SeasonTypes, InStep, Swept, LoopStages, storeVars
<1>1. CASE WakeUp
  <2>1. loop' = [at |-> "advance", round |-> tick + 1, in_grace |-> FALSE, season |-> season, disturbed |-> FALSE]
    BY <1>1 DEF WakeUp, Asleep
  <2> QED
    BY <1>1, <2>1 DEF WakeUp
<1>2. CASE StoreTick
  <2>1. tick' = tick + 1 /\ reset = "none" /\ UNCHANGED <<grace_until_tick, flags, uptime, patch, reset, season>>
    BY <1>2 DEF StoreTick
  <2>2. loop'.at = "dispatch" /\ loop'.round = tick + 1 /\ loop'.season = season
    BY <1>2 DEF StoreTick
  <2>3. InStep'
    BY <2>1, <2>2
  <2>4. Swept'
    BY SeasonAssumption, <2>1
  <2> QED
    BY <2>3, <2>4
<1>3. CASE Dispatch
  <2>1. loop'.at = "probe" /\ loop'.round = loop.round /\ loop'.season = loop.season
    BY <1>3 DEF Dispatch
  <2> QED
    BY <1>3, <2>1 DEF Dispatch
<1>4. CASE HealthDown
  BY <1>4 DEF HealthDown, Result
<1>5. CASE PlantNote
  BY <1>5 DEF PlantNote
<1>6. CASE StorePlant
  BY <1>6 DEF StorePlant
<1>7. CASE CheckSla
  <2>1. PICK ok \in BOOLEAN : Result(ok)
    BY <1>7 DEF CheckSla, VmUp
  <2> QED
    BY <1>7, <2>1 DEF CheckSla, Result
<1>8. CASE ExpireOld
  BY <1>8 DEF ExpireOld, Asleep
<1> QED
  BY <1>1, <1>2, <1>3, <1>4, <1>5, <1>6, <1>7, <1>8 DEF LoopSteps

LEMMA PatchKeepsFresh ==
  ASSUME SeasonTypes, ~collided, InStep, Swept, PatchSteps, ~collided'
  PROVE  InStep' /\ Swept'
<1> USE SeasonAssumption DEF SeasonTypes, InStep, Swept, PatchStages, LoopStages, storeVars, NoPatch
<1>1. CASE StopVm
  <2>1. /\ loop'.at = loop.at /\ loop'.round = loop.round /\ loop'.season = loop.season
        /\ patch'.at = "stopped"
    BY <1>1 DEF StopVm
  <2> QED
    BY <1>1, <2>1 DEF StopVm
<1>2. CASE StartVm
  BY <1>2 DEF StartVm
<1>3. CASE PatchFails
  BY <1>3 DEF PatchFails
<1>4. CASE GrantGrace
  <2>1. /\ patch'.at = "land" /\ patch'.grace_until = tick + GraceTicks /\ reset = "none"
        /\ UNCHANGED <<tick, grace_until_tick, flags, uptime, loop, reset, season>>
    BY <1>4 DEF GrantGrace
  <2>2. InStep'
    BY <2>1
  <2>3. Swept'
    BY <2>1
  <2> QED
    BY <2>2, <2>3
<1>5. CASE LandPatch
  BY <1>5 DEF LandPatch
<1> QED
  BY <1>1, <1>2, <1>3, <1>4, <1>5 DEF PatchSteps

LEMMA ResetKeepsFresh ==
  ASSUME SeasonTypes, ~collided, InStep, Swept, ResetSteps, ~collided'
  PROVE  InStep' /\ Swept'
<1> USE SeasonAssumption DEF SeasonTypes, InStep, Swept, ResetStages, LoopStages, Statement, storeVars
<1>1. CASE BeginReset
  BY <1>1 DEF BeginReset
<1>2. CASE ResetFlags
  BY <1>2 DEF ResetFlags
<1>3. CASE ResetUptime
  BY <1>3 DEF ResetUptime
<1>4. CASE ResetTick
  BY <1>4 DEF ResetTick
<1>5. CASE ResetGrace
  BY <1>5 DEF ResetGrace
<1> QED
  BY <1>1, <1>2, <1>3, <1>4, <1>5 DEF ResetSteps

LEMMA FreshStays ==
  FreshInv /\ [SeasonNext]_seasonVars => FreshInv'
<1> SUFFICES ASSUME FreshInv, [SeasonNext]_seasonVars
             PROVE  FreshInv'
  OBVIOUS
<1>1. CASE UNCHANGED seasonVars
  BY <1>1 DEF seasonVars, FreshInv, SeasonTypes, InStep, Swept
<1>2. CASE ~collided /\ (LoopSteps \/ PatchSteps \/ ResetSteps)
  <2>1. SeasonTypes'
    BY <1>2, LoopTypes, PatchTypes, ResetTypes DEF FreshInv
  <2>2. ~collided' => InStep' /\ Swept'
    BY <1>2, LoopKeepsFresh, PatchKeepsFresh, ResetKeepsFresh DEF FreshInv
  <2> QED
    BY <2>1, <2>2 DEF FreshInv
<1> QED
  BY <1>1, <1>2 DEF SeasonNext

\* A season begins with nothing of the last one in the ledger, however many seasons
\* there are: the statements of a reset that meets no tick in progress and no deploy
\* about to land leave no flag, no uptime and no grace behind (ctfctl reset).
THEOREM SeasonsStartFresh ==
  SeasonSpec => []SeasonIsFresh
<1>1. FreshInv => SeasonIsFresh
  BY DEF FreshInv, SeasonIsFresh, Swept
<1> QED
  BY FreshStarts, FreshStays, <1>1, PTL DEF SeasonSpec

-----------------------------------------------------------------------------
(***************************************************************************)
(* Patching.  A patch wipes the notes off the disk and leaves the flags on *)
(* record; the grace it ends with is to last until nobody asks for them.   *)
(***************************************************************************)
\* The tick's note is there to be fetched, or the grace outlasts the flag.
Covered(t, grace) == t \in notes \/ t + GraceTicks <= grace

Excused ==
  LET owed == {f.tick : f \in flags} \cup {t \in {loop.round} : loop.at = "noted"}
  IN  /\ patch.at = "none" => \A t \in owed : Covered(t, grace_until_tick)
      /\ patch.at = "land" => \A t \in owed : Covered(t, patch.grace_until)

\* A job that no patch has met judges by the grace that is in the ledger.
Undisturbed ==
  ~loop.disturbed /\ loop.at \in {"probe", "noted", "check"} =>
    patch.at = "none" /\ (loop.in_grace <=> loop.round <= grace_until_tick)

PatchInv == FreshInv /\ (~collided => Excused /\ Undisturbed /\ PatchingIsFree)

LEMMA PatchStarts ==
  SeasonInit => PatchInv
BY FreshStarts DEF SeasonInit, PatchInv, Excused, Undisturbed, PatchingIsFree, Asleep, NoPatch

LEMMA LoopKeepsExcused ==
  ASSUME K <= GraceTicks + 1,
         SeasonTypes, ~collided, InStep, Excused, Undisturbed, PatchingIsFree, LoopSteps, ~collided'
  PROVE  Excused' /\ Undisturbed' /\ PatchingIsFree'
<1> USE DEF SeasonTypes, InStep, Covered, LoopStages, storeVars
<1>1. CASE WakeUp
  <2>1. loop'.at = "advance" /\ UNCHANGED <<flags, notes, grace_until_tick, patch, uptime>>
    BY <1>1 DEF WakeUp, Asleep
  <2> QED
    BY <1>1, <2>1 DEF Excused, Undisturbed, PatchingIsFree
<1>2. CASE StoreTick
  <2>1. loop'.at = "dispatch" /\ UNCHANGED <<flags, notes, grace_until_tick, patch, uptime>>
    BY <1>2 DEF StoreTick
  <2> QED
    BY <1>2, <2>1 DEF Excused, Undisturbed, PatchingIsFree
<1>3. CASE Dispatch
  <2>1. /\ loop'.at = "probe" /\ loop'.round = loop.round
        /\ UNCHANGED <<flags, notes, grace_until_tick, patch, uptime>>
    BY <1>3 DEF Dispatch
  <2>2. loop'.in_grace <=> loop.round <= grace_until_tick
    BY <1>3 DEF Dispatch
  <2>3. loop'.disturbed <=> patch.at # "none"
    BY <1>3 DEF Dispatch
  <2>4. Undisturbed'
    BY <2>1, <2>2, <2>3 DEF Undisturbed
  <2> QED
    BY <1>3, <2>1, <2>4 DEF Excused, PatchingIsFree
<1>4. CASE HealthDown
  <2>1. loop.disturbed
    BY <1>4 DEF HealthDown, VmUp, Undisturbed
  <2>2. uptime' \ uptime \subseteq {row \in uptime' : row.disturbed}
    BY <1>4, <2>1 DEF HealthDown, Result
  <2>3. loop'.at = "expire" /\ UNCHANGED <<flags, notes, grace_until_tick, patch>>
    BY <1>4 DEF HealthDown, Result
  <2> QED
    BY <1>4, <2>2, <2>3 DEF Excused, Undisturbed, PatchingIsFree
<1>5. CASE PlantNote
  <2>1. /\ loop' = [loop EXCEPT !.at = "noted"] /\ notes' = notes \cup {loop.round} /\ loop.at = "probe"
        /\ UNCHANGED <<flags, grace_until_tick, patch, uptime>>
    BY <1>5 DEF PlantNote
  <2> QED
    BY <1>5, <2>1 DEF Excused, Undisturbed, PatchingIsFree
<1>6. CASE StorePlant
  <2>1. /\ loop' = [loop EXCEPT !.at = "check"] /\ loop.at = "noted"
        /\ flags' = flags \cup {[tick |-> loop.round, season |-> loop.season]}
        /\ UNCHANGED <<notes, grace_until_tick, patch, uptime>>
    BY <1>6 DEF StorePlant
  <2> QED
    BY <1>6, <2>1 DEF Excused, Undisturbed, PatchingIsFree
<1>7. CASE CheckSla
  <2> DEFINE asked == loop.round - K + 1
  <2>1. PICK ok \in BOOLEAN :
          /\ Result(ok)
          /\ ok <=> ((\E f \in flags : f.tick = asked) => VmUp /\ asked \in notes)
    BY <1>7 DEF CheckSla, VmUp
  <2>2. ASSUME ~loop.disturbed  PROVE ok \/ loop.in_grace
    <3>1. patch.at = "none" /\ (loop.in_grace <=> loop.round <= grace_until_tick)
      BY <1>7, <2>2 DEF CheckSla, Undisturbed
    <3>2. ASSUME NEW f \in flags, f.tick = asked, asked \notin notes
          PROVE  loop.round <= grace_until_tick
      <4>1. asked + GraceTicks <= grace_until_tick
        BY <3>1, <3>2 DEF Excused
      <4> QED
        BY <4>1, SeasonAssumption
    <3> QED
      BY <2>1, <3>1, <3>2 DEF VmUp
  <2>3. \A row \in uptime' \ uptime : row.ok = (ok \/ loop.in_grace) /\ row.disturbed = loop.disturbed
    BY <2>1 DEF Result
  <2>4. PatchingIsFree'
    BY <2>2, <2>3 DEF PatchingIsFree
  <2>5. loop'.at = "expire" /\ UNCHANGED <<flags, notes, grace_until_tick, patch>>
    BY <1>7, <2>1 DEF CheckSla, Result
  <2> QED
    BY <2>4, <2>5 DEF Excused, Undisturbed
<1>8. CASE ExpireOld
  <2>1. loop'.at = "asleep" /\ flags' \subseteq flags /\ UNCHANGED <<notes, grace_until_tick, patch, uptime>>
    BY <1>8 DEF ExpireOld, Asleep
  <2> QED
    BY <1>8, <2>1 DEF Excused, Undisturbed, PatchingIsFree
<1> QED
  BY <1>1, <1>2, <1>3, <1>4, <1>5, <1>6, <1>7, <1>8 DEF LoopSteps

\* The grace is computed from a tick that no flag on record is later than.
LEMMA PatchKeepsExcused ==
  ASSUME SeasonTypes, ~collided, InStep, Swept, Excused, Undisturbed, PatchingIsFree, PatchSteps, ~collided'
  PROVE  Excused' /\ Undisturbed' /\ PatchingIsFree'
<1> USE SeasonAssumption DEF SeasonTypes, Covered, PatchStages, storeVars
<1>1. CASE StopVm
  <2>1. patch'.at = "stopped" /\ loop'.at = loop.at /\ UNCHANGED uptime
    BY <1>1 DEF StopVm, NoPatch
  <2>2. loop'.disturbed \/ loop.at \notin {"probe", "noted", "check"}
    BY <1>1 DEF StopVm
  <2> QED
    BY <1>1, <2>1, <2>2 DEF Excused, Undisturbed, PatchingIsFree
<1>2. CASE StartVm
  BY <1>2 DEF StartVm, Excused, Undisturbed, PatchingIsFree
<1>3. CASE PatchFails
  BY <1>3 DEF PatchFails, Excused, Undisturbed, PatchingIsFree
<1>4. CASE GrantGrace
  <2>1. /\ patch.at = "booted" /\ patch'.at = "land" /\ patch'.grace_until = tick + GraceTicks
        /\ UNCHANGED <<tick, grace_until_tick, flags, uptime, loop, notes>>
    BY <1>4 DEF GrantGrace
  <2>2. \A f \in flags : f.tick + GraceTicks <= tick + GraceTicks
    BY DEF Swept
  <2>3. loop.at = "noted" => loop.round = tick
    BY DEF InStep, LoopStages
  <2>4. Excused'
    BY <2>1, <2>2, <2>3 DEF Excused
  <2> QED
    BY <2>1, <2>4 DEF Undisturbed, PatchingIsFree
<1>5. CASE LandPatch
  BY <1>5 DEF LandPatch, NoPatch, Excused, Undisturbed, PatchingIsFree
<1> QED
  BY <1>1, <1>2, <1>3, <1>4, <1>5 DEF PatchSteps

LEMMA ResetKeepsExcused ==
  ASSUME SeasonTypes, ~collided, InStep, Swept, Excused, Undisturbed, PatchingIsFree, ResetSteps, ~collided'
  PROVE  Excused' /\ Undisturbed' /\ PatchingIsFree'
<1> USE SeasonAssumption DEF SeasonTypes, Covered, Statement, storeVars, InStep, Excused, Undisturbed, PatchingIsFree
<1>1. CASE BeginReset
  BY <1>1 DEF BeginReset
<1>2. CASE ResetFlags
  BY <1>2 DEF ResetFlags
<1>3. CASE ResetUptime
  BY <1>3 DEF ResetUptime
<1>4. CASE ResetTick
  BY <1>4 DEF ResetTick
<1>5. CASE ResetGrace
  <2>1. flags = {}
    BY <1>5 DEF ResetGrace, Swept
  <2> QED
    BY <1>5, <2>1 DEF ResetGrace
<1> QED
  BY <1>1, <1>2, <1>3, <1>4, <1>5 DEF ResetSteps

LEMMA PatchStays ==
  ASSUME K <= GraceTicks + 1
  PROVE  PatchInv /\ [SeasonNext]_seasonVars => PatchInv'
<1> SUFFICES ASSUME PatchInv, [SeasonNext]_seasonVars
             PROVE  PatchInv'
  OBVIOUS
<1>1. FreshInv'
  BY FreshStays DEF PatchInv
<1>2. CASE UNCHANGED seasonVars
  BY <1>1, <1>2 DEF seasonVars, PatchInv, Excused, Covered, Undisturbed, PatchingIsFree
<1>3. CASE ~collided /\ (LoopSteps \/ PatchSteps \/ ResetSteps)
  <2>1. SeasonTypes /\ InStep /\ Swept /\ Excused /\ Undisturbed /\ PatchingIsFree
    BY <1>3 DEF PatchInv, FreshInv
  <2>2. ~collided' => Excused' /\ Undisturbed' /\ PatchingIsFree'
    BY <1>3, <2>1, LoopKeepsExcused, PatchKeepsExcused, ResetKeepsExcused
  <2> QED
    BY <1>1, <2>2 DEF PatchInv
<1> QED
  BY <1>2, <1>3 DEF SeasonNext

\* PLAYER-QUICKSTART 5, "patching does not cost you uptime": a good service counts
\* as up in every tick that no patch meets, in every season and however its ticks,
\* its patches and the resets fall, when the grace is at most one tick short of the
\* flags' lifetime.  (The configured one is two short, and does cost.)
THEOREM GraceOutlastsFlags ==
  ASSUME K <= GraceTicks + 1
  PROVE  SeasonSpec => []PatchingIsFree
<1>1. PatchInv => PatchingIsFree
  BY DEF PatchInv, PatchingIsFree
<1> QED
  BY PatchStarts, PatchStays, <1>1, PTL DEF SeasonSpec

-----------------------------------------------------------------------------
(***************************************************************************)
(* The scoreboard file.  As long as no renderer opens a file that another  *)
(* is writing, there is one writer, and the file it writes has the         *)
(* temporary name and not the board's.                                     *)
(***************************************************************************)
\* A set of naturals that is not empty has a least element.
LEMMA MinIsLeast ==
  ASSUME NEW S, S \subseteq Nat, S # {}
  PROVE  Min(S) \in S
<1>1. PICK x \in S : \A y \in S : ~ (<<y, x>> \in OpToRel(<, Nat))
  BY NatLessThanWellFounded, WFMin
<1>2. \A y \in S : x <= y
  <2> TAKE y \in S
  <2>1. y < x => <<y, x>> \in OpToRel(<, Nat)
    BY DEF OpToRel
  <2>2. ~ (y < x)
    BY <1>1, <2>1, Zenon
  <2> QED
    BY <2>2
<1>3. \E m \in S : \A y \in S : m <= y
  BY <1>2
<1> QED
  BY <1>3 DEF Min

\* There are inodes enough: the renderers have one each, and one is the board's.
LEMMA RoomForOne ==
  ASSUME rendering \in [Renderers -> [at: {"idle", "open", "write"}, read: Nat, open: Inodes \cup {NoFile},
                                      written: Nat]],
         temporary = NoFile
  PROVE  Min(Unused) \in Inodes /\ Min(Unused) # board
<1> DEFINE opens == {rendering[r].open : r \in Renderers}
           N == Cardinality(Renderers)
<1>1. IsFiniteSet(Renderers) /\ N \in Nat
  BY ScoreboardAssumption, FS_AddElement, FS_CardinalityType DEF Renderers
<1>2. IsFiniteSet(opens) /\ Cardinality(opens) <= N
  <2> DEFINE f == [r \in Renderers |-> rendering[r].open]
  <2>1. f \in Surjection(Renderers, opens)
    BY DEF Surjection
  <2> QED
    BY <1>1, <2>1, FS_Surjection
<1>3. IsFiniteSet(opens \cup {board}) /\ Cardinality(opens \cup {board}) <= N + 1
  <2> HIDE DEF opens, N
  <2>1. Cardinality(opens) \in Nat
    BY <1>2, FS_CardinalityType
  <2>2. /\ IsFiniteSet(opens \cup {board})
        /\ Cardinality(opens \cup {board}) = IF board \in opens THEN Cardinality(opens) ELSE Cardinality(opens) + 1
    BY <1>2, FS_AddElement
  <2> QED
    BY <1>1, <1>2, <2>1, <2>2
<1>4. IsFiniteSet(Inodes) /\ Cardinality(Inodes) = N + 2
  BY <1>1, FS_Interval DEF Inodes
<1>5. Unused # {}
  <2> SUFFICES ASSUME Unused = {}  PROVE FALSE
    OBVIOUS
  <2>1. NoFile \notin Inodes
    BY DEF NoFile, Inodes
  <2>2. Inodes \subseteq opens \cup {board}
    BY <2>1 DEF Unused
  <2>3. Cardinality(Inodes) <= Cardinality(opens \cup {board})
    BY <1>3, <2>2, FS_Subset
  <2> HIDE DEF opens, N
  <2> QED
    BY <1>1, <1>3, <1>4, <2>3, FS_CardinalityType
<1>6. Unused \subseteq Nat
  BY <1>1 DEF Unused, Inodes
<1>7. Min(Unused) \in Unused
  BY <1>5, <1>6, MinIsLeast
<1> QED
  BY <1>7 DEF Unused

Rendering ==
  [at: {"open"}, read: Nat, open: {NoFile}, written: {0}]
  \cup [at: {"write"}, read: Nat, open: Inodes, written: 0..Blocks]
  \cup {NotRendering}

Writing(r) == rendering[r].at = "write"

\* A renderer's file holds what it has written to it so far.
Orderly ==
  /\ \A r, other \in Renderers : Writing(r) /\ Writing(other) => r = other
  /\ \A r \in Renderers : Writing(r) =>
       /\ rendering[r].open = temporary
       /\ \A b \in 1..rendering[r].written : disk[temporary][b] = rendering[r].read

BoardInv ==
  /\ BoardTypeOK
  /\ temporary # NoFile => temporary # board
  /\ ~crossed => Orderly /\ BoardIsWhole

LEMMA RenderingTypes ==
  ASSUME BoardTypeOK
  PROVE  /\ rendering \in [Renderers -> Rendering]
         /\ rendering \in [Renderers -> [at: {"idle", "open", "write"}, read: Nat, open: Inodes \cup {NoFile},
                                         written: Nat]]
         /\ \A r \in Renderers : Writing(r) =>
              rendering[r].open \in Inodes /\ rendering[r].written \in 0..Blocks /\ rendering[r].read \in Nat
<1>1. rendering \in [Renderers -> Rendering]
  BY DEF BoardTypeOK, Rendering
<1>2. Rendering \subseteq [at: {"idle", "open", "write"}, read: Nat, open: Inodes \cup {NoFile}, written: Nat]
  BY ScoreboardAssumption DEF Rendering, NotRendering
<1>3. \A s \in Rendering : s.at = "write" => s.open \in Inodes /\ s.written \in 0..Blocks /\ s.read \in Nat
  BY DEF Rendering, NotRendering
<1> QED
  BY <1>1, <1>2, <1>3 DEF Writing

LEMMA InodesAreFiles == NoFile \notin Inodes
BY DEF NoFile, Inodes

LEMMA BoardStarts ==
  BoardInit => BoardInv
<1> SUFFICES ASSUME BoardInit  PROVE BoardInv
  OBVIOUS
<1>1. BoardTypeOK
  BY DEF BoardInit, BoardTypeOK
<1>2. \A r \in Renderers : ~Writing(r)
  BY DEF BoardInit, Writing, NotRendering
<1> QED
  BY <1>1, <1>2 DEF BoardInit, BoardInv, Orderly, BoardIsWhole

LEMMA ReadKeeps ==
  ASSUME BoardInv, NEW r \in Renderers, Read(r)
  PROVE  BoardInv'
<1> DEFINE begun == [NotRendering EXCEPT !.at = "open", !.read = version]
<1>1. rendering' = [rendering EXCEPT ![r] = begun] /\ begun \in Rendering /\ begun.at # "write"
  <2>1. NotRendering \in [at: {"idle"}, read: Nat, open: {NoFile}, written: {0}] /\ version \in Nat
    BY DEF BoardInv, BoardTypeOK, NotRendering
  <2>2. begun \in [at: {"open"}, read: Nat, open: {NoFile}, written: {0}]
    BY <2>1
  <2> QED
    BY <2>2 DEF Read, Rendering
<1>2. /\ UNCHANGED <<version, disk, temporary, board, crossed, kills>> /\ rendered' \in Nat
  BY DEF Read, BoardInv, BoardTypeOK
<1> HIDE DEF begun
<1>3. rendering \in [Renderers -> Rendering]
  BY RenderingTypes DEF BoardInv
<1>4. \A other \in Renderers : Writing(other)' => Writing(other) /\ rendering'[other] = rendering[other]
  BY <1>1, <1>3 DEF Writing
<1>5. BoardTypeOK'
  BY <1>1, <1>2, <1>3 DEF BoardInv, BoardTypeOK, Rendering
<1> QED
  BY <1>2, <1>4, <1>5 DEF BoardInv, Orderly, BoardIsWhole, Whole, Writing

LEMMA OpenKeeps ==
  ASSUME BoardInv, NEW r \in Renderers, Open(r)
  PROVE  BoardInv'
<1> DEFINE begun == [rendering[r] EXCEPT !.at = "write", !.open = temporary']
           empty == [b \in 1..Blocks |-> Hole]
<1>1. rendering \in [Renderers -> Rendering] /\ rendering[r] \in Rendering /\ rendering[r].at = "open"
  BY RenderingTypes DEF BoardInv, Open
<1>2. temporary' \in Inodes /\ temporary' # board
  BY RoomForOne, RenderingTypes DEF Open, BoardInv, BoardTypeOK
<1>3. /\ begun \in Rendering
      /\ begun.at = "write" /\ begun.open = temporary' /\ begun.written = 0
  <2>1. rendering[r] \in [at: {"open"}, read: Nat, open: {NoFile}, written: {0}]
    BY <1>1 DEF Rendering, NotRendering
  <2>2. begun \in [at: {"write"}, read: Nat, open: Inodes, written: {0}]
    BY <1>2, <2>1
  <2>3. 0 \in 0..Blocks
    BY ScoreboardAssumption
  <2> QED
    BY <2>2, <2>3 DEF Rendering
<1>4. /\ rendering' = [rendering EXCEPT ![r] = begun]
      /\ disk' = [disk EXCEPT ![temporary'] = empty]
      /\ UNCHANGED <<version, board, rendered, kills>>
  BY <1>1 DEF Open
<1>5. crossed' = (crossed \/ \E other \in Renderers \ {r} : Writing(other))
  BY DEF Open, Crossing, Writing
<1> HIDE DEF begun, empty
<1>6. BoardTypeOK'
  <2>1. disk' \in [Inodes -> [1..Blocks -> Nat \cup {Hole}]]
    BY <1>2, <1>4 DEF BoardInv, BoardTypeOK, empty
  <2>2. rendering' \in [Renderers -> Rendering]
    BY <1>1, <1>3, <1>4
  <2>3. crossed' \in BOOLEAN
    BY <1>5 DEF BoardInv, BoardTypeOK
  <2> QED
    BY <1>2, <1>4, <2>1, <2>2, <2>3 DEF BoardInv, BoardTypeOK, Rendering
<1>7. ASSUME ~crossed'  PROVE Orderly' /\ BoardIsWhole'
  <2>1. ~crossed /\ \A other \in Renderers : Writing(other) => other = r
    BY <1>5, <1>7
  <2>2. ~Writing(r)
    BY <1>1 DEF Writing
  <2>3. \A other \in Renderers : Writing(other)' => other = r
    BY <1>1, <1>4, <2>1 DEF Writing
  <2>4. rendering'[r] = begun
    BY <1>1, <1>4
  <2>5. Orderly'
    BY <1>3, <2>3, <2>4 DEF Orderly
  <2>6. board # NoFile => disk'[board] = disk[board]
    BY <1>2, <1>4, InodesAreFiles DEF BoardInv, BoardTypeOK
  <2>7. BoardIsWhole'
    BY <1>4, <2>1, <2>6 DEF BoardInv, BoardIsWhole, Whole
  <2> QED
    BY <2>5, <2>7
<1> QED
  BY <1>2, <1>4, <1>6, <1>7 DEF BoardInv

LEMMA WriteKeeps ==
  ASSUME BoardInv, NEW r \in Renderers, Write(r)
  PROVE  BoardInv'
<1> DEFINE b == rendering[r].written + 1
           file == rendering[r].open
           further == [rendering[r] EXCEPT !.written = b]
<1>1. /\ rendering \in [Renderers -> Rendering] /\ Writing(r)
      /\ file \in Inodes /\ rendering[r].written \in Nat /\ rendering[r].read \in Nat /\ b \in 1..Blocks
  BY RenderingTypes, ScoreboardAssumption DEF BoardInv, Write, Writing
<1>2. rendering[r] \in [at: {"write"}, read: Nat, open: Inodes, written: 0..Blocks]
  BY <1>1 DEF Rendering, NotRendering, Writing
<1>3. /\ further \in Rendering
      /\ further.at = "write" /\ further.open = file /\ further.written = b /\ further.read = rendering[r].read
  BY <1>1, <1>2, ScoreboardAssumption DEF Rendering
<1>4. /\ rendering' = [rendering EXCEPT ![r] = further]
      /\ disk' = [disk EXCEPT ![file][b] = rendering[r].read]
      /\ UNCHANGED <<version, temporary, board, crossed, rendered, kills>>
  BY DEF Write
<1>5. /\ \A inode \in Inodes \ {file} : disk'[inode] = disk[inode]
      /\ \A c \in 1..Blocks : disk'[file][c] = IF c = b THEN rendering[r].read ELSE disk[file][c]
      /\ disk' \in [Inodes -> [1..Blocks -> Nat \cup {Hole}]]
  BY <1>1, <1>4 DEF BoardInv, BoardTypeOK
<1> HIDE DEF further
<1>6. BoardTypeOK'
  <2>1. rendering' \in [Renderers -> Rendering]
    BY <1>1, <1>3, <1>4
  <2> QED
    BY <1>4, <1>5, <2>1 DEF BoardInv, BoardTypeOK, Rendering
<1>7. ASSUME ~crossed  PROVE Orderly' /\ BoardIsWhole'
  <2>1. file = temporary /\ \A c \in 1..rendering[r].written : disk[file][c] = rendering[r].read
    BY <1>1, <1>7 DEF BoardInv, Orderly
  <2>2. \A other \in Renderers : Writing(other)' => other = r
    BY <1>1, <1>4, <1>7 DEF BoardInv, Orderly, Writing
  <2>3. rendering'[r] = further
    BY <1>1, <1>4
  <2>4. \A c \in 1..b : disk'[file][c] = rendering[r].read
    <3> TAKE c \in 1..b
    <3>1. c \in 1..Blocks /\ (c = b \/ c \in 1..rendering[r].written)
      BY <1>1, ScoreboardAssumption
    <3> QED
      BY <1>5, <2>1, <3>1
  <2>5. Orderly'
    BY <1>3, <1>4, <2>1, <2>2, <2>3, <2>4 DEF Orderly
  <2>6. board # NoFile => board \in Inodes \ {file}
    BY <1>1, <2>1, InodesAreFiles DEF BoardInv, BoardTypeOK
  <2>7. BoardIsWhole'
    BY <1>4, <1>5, <1>7, <2>6 DEF BoardInv, BoardIsWhole, Whole
  <2> QED
    BY <2>5, <2>7
<1> QED
  BY <1>4, <1>6, <1>7 DEF BoardInv

\* The file that gets the board's name is the one its only writer has finished.
LEMMA ReplaceKeeps ==
  ASSUME BoardInv, NEW r \in Renderers, Replace(r)
  PROVE  BoardInv'
<1>1. /\ rendering \in [Renderers -> Rendering] /\ NotRendering \in Rendering
      /\ Writing(r) /\ rendering[r].written = Blocks
      /\ rendering[r].open \in Inodes /\ rendering[r].read \in Nat
  BY RenderingTypes DEF BoardInv, Replace, Writing, Rendering
<1>2. /\ rendering' = [rendering EXCEPT ![r] = NotRendering]
      /\ UNCHANGED <<version, disk, crossed, rendered, kills>>
  BY DEF Replace
<1>3. \/ temporary = NoFile /\ UNCHANGED <<temporary, board>>
      \/ temporary # NoFile /\ board' = temporary /\ temporary' = NoFile
  BY DEF Replace
<1>4. BoardTypeOK'
  BY <1>1, <1>2, <1>3 DEF BoardInv, BoardTypeOK, Rendering
<1>5. ASSUME ~crossed  PROVE Orderly' /\ BoardIsWhole'
  <2>1. /\ rendering[r].open = temporary
        /\ \A b \in 1..Blocks : disk[temporary][b] = rendering[r].read
        /\ \A other \in Renderers : Writing(other) => other = r
    BY <1>1, <1>5 DEF BoardInv, Orderly
  <2>2. temporary # NoFile /\ board' = temporary
    BY <1>1, <1>3, <2>1, InodesAreFiles
  <2>3. \A other \in Renderers : ~Writing(other)'
    BY <1>1, <1>2, <2>1 DEF Writing, NotRendering
  <2>4. Orderly'
    BY <2>3 DEF Orderly
  <2>5. Whole(board)'
    BY <1>1, <1>2, <2>1, <2>2, ScoreboardAssumption DEF Whole, Hole
  <2> QED
    BY <2>4, <2>5 DEF BoardIsWhole
<1> QED
  BY <1>2, <1>3, <1>4, <1>5 DEF BoardInv

LEMMA KillKeeps ==
  ASSUME BoardInv, NEW r \in Renderers, Kill(r)
  PROVE  BoardInv'
<1>1. rendering \in [Renderers -> Rendering] /\ NotRendering \in Rendering
  BY RenderingTypes DEF BoardInv, Rendering
<1>2. /\ rendering' = [rendering EXCEPT ![r] = NotRendering]
      /\ UNCHANGED <<version, disk, temporary, board, crossed, rendered>> /\ kills' \in Nat
  BY DEF Kill, BoardInv, BoardTypeOK
<1>3. \A other \in Renderers : Writing(other)' => Writing(other) /\ rendering'[other] = rendering[other]
  BY <1>1, <1>2 DEF Writing, NotRendering
<1>4. BoardTypeOK'
  BY <1>1, <1>2 DEF BoardInv, BoardTypeOK, Rendering
<1> QED
  BY <1>2, <1>3, <1>4 DEF BoardInv, Orderly, BoardIsWhole, Whole, Writing

LEMMA BoardStays ==
  BoardInv /\ [BoardNext]_boardVars => BoardInv'
<1> SUFFICES ASSUME BoardInv, [BoardNext]_boardVars
             PROVE  BoardInv'
  OBVIOUS
<1>1. CASE UNCHANGED boardVars
  BY <1>1 DEF boardVars, BoardInv, BoardTypeOK, Orderly, BoardIsWhole, Whole, Writing, Unused
<1>2. CASE Change
  BY <1>2 DEF Change, BoardInv, BoardTypeOK, Orderly, BoardIsWhole, Whole, Writing
<1>3. CASE \E r \in Renderers : Step(r) \/ Kill(r)
  BY <1>3, ReadKeeps, OpenKeeps, WriteKeeps, ReplaceKeeps, KillKeeps DEF Step
<1> QED
  BY <1>1, <1>2, <1>3 DEF BoardNext

\* state.py: "atomic: readers never see a partial board".  However many renderers
\* there are, whenever they are killed and whatever files they leave, the board is
\* one board from its first block to its last, until a renderer opens the file that
\* another is writing.
THEOREM BoardStaysWhole ==
  BoardSpec => []WholeUnlessCrossed
<1>1. BoardInv => WholeUnlessCrossed
  BY DEF BoardInv, WholeUnlessCrossed
<1> QED
  BY BoardStarts, BoardStays, <1>1, PTL DEF BoardSpec

-----------------------------------------------------------------------------
(***************************************************************************)
(* The rate limit.  The deque is what the threads append to what they      *)
(* grant, less the oldest of it; and a thread that has seen too few hits   *)
(* is one of no more than the client has.                                  *)
(***************************************************************************)
CallStages == {"free", "prune", "again", "pop", "count", "append"}

LimiterTypes ==
  /\ moment \in Nat /\ hits \in Seq(Nat) /\ granted \in Seq(Nat) /\ robbed \in BOOLEAN
  /\ calls \in [Handlers -> [at: CallStages, now: Nat]]

\* A call is answered in the moment it was made.
Prompt == \A t \in Handlers : calls[t].at # "free" => calls[t].now = moment

Appending == {t \in Handlers : calls[t].at = "append"}

NotTooMany == Len(hits) + Cardinality(Appending) <= RateMax + Cardinality(Handlers) - 1

Gone == Len(granted) - Len(hits)

\* The hits the deque has lost are out of every window that has not ended.
Remembered ==
  /\ Len(hits) <= Len(granted)
  /\ \A i \in 1..Len(hits) : hits[i] = granted[Gone + i]
  /\ \A i \in 1..Gone : granted[i] + RateWindow < moment

RateInv == LimiterTypes /\ Prompt /\ NotTooMany /\ (~robbed => Remembered) /\ RateIsHeld

LEMMA HandlersFinite ==
  /\ IsFiniteSet(Handlers) /\ Cardinality(Handlers) \in Nat
  /\ IsFiniteSet(Appending) /\ Cardinality(Appending) \in Nat /\ Cardinality(Appending) <= Cardinality(Handlers)
<1>1. IsFiniteSet(Handlers) /\ Appending \in SUBSET Handlers
  BY LimiterAssumption DEF Appending
<1> QED
  BY <1>1, FS_Subset, FS_CardinalityType

\* What lies between two bounds is no more than fits there.
LEMMA Between ==
  ASSUME NEW a \in Nat, NEW n \in Nat, a <= n, NEW S, S \subseteq a + 1..n
  PROVE  Cardinality(S) <= n - a
<1>1. PICK first \in Nat : first = a + 1
  OBVIOUS
<1>2. IsFiniteSet(first..n) /\ Cardinality(first..n) = IF first > n THEN 0 ELSE n - first + 1
  BY FS_Interval
<1>3. S \in SUBSET (first..n)
  BY <1>1
<1>4. Cardinality(S) <= Cardinality(first..n) /\ Cardinality(S) \in Nat
  BY <1>2, <1>3, FS_Subset, FS_CardinalityType
<1> QED
  BY <1>1, <1>2, <1>4

LEMMA RateStarts ==
  LimiterInit => RateInv
<1> SUFFICES ASSUME LimiterInit  PROVE RateInv
  OBVIOUS
<1>1. /\ moment = 0 /\ hits = <<>> /\ granted = <<>> /\ robbed = FALSE
      /\ \A t \in Handlers : calls[t] = Free
  BY DEF LimiterInit
<1>2. \A t \in Handlers : calls[t].at = "free"
  BY <1>1 DEF Free
<1>3. LimiterTypes
  <2>1. Free \in [at: CallStages, now: Nat]
    BY DEF Free, CallStages
  <2>2. hits \in Seq(Nat) /\ granted \in Seq(Nat)
    BY <1>1
  <2>3. calls \in [Handlers -> [at: CallStages, now: Nat]]
    BY <2>1, Zenon DEF LimiterInit
  <2> QED
    BY <1>1, <2>2, <2>3 DEF LimiterTypes
<1>4. Appending = {} /\ \A from : InWindow(from) = {}
  BY <1>1, <1>2 DEF Appending, InWindow
<1>5. Cardinality({}) = 0
  BY FS_EmptySet
<1>6. Len(hits) = 0 /\ Len(granted) = 0
  BY <1>1
<1>7. NotTooMany /\ RateIsHeld
  <2>1. 0 <= RateMax + Cardinality(Handlers) - 1
    BY HandlersFinite, LimiterAssumption
  <2>2. Cardinality(Appending) = 0 /\ \A from : Cardinality(InWindow(from)) = 0
    BY <1>4, <1>5, Zenon
  <2> QED
    BY <1>6, <2>1, <2>2 DEF NotTooMany, RateIsHeld
<1>8. Remembered
  BY <1>6 DEF Remembered, Gone
<1> QED
  BY <1>2, <1>3, <1>7, <1>8 DEF RateInv, Prompt

\* A step that grants nothing and takes at most the oldest hit.
LEMMA QuietStepKeeps ==
  ASSUME RateInv, UNCHANGED <<moment, granted>>, LimiterTypes', Prompt', NotTooMany', robbed => robbed',
         \/ hits' = hits
         \/ hits # <<>> /\ hits' = Tail(hits) /\ (~robbed' => moment - Head(hits) > RateWindow)
  PROVE  RateInv'
<1>1. RateIsHeld'
  BY DEF RateInv, RateIsHeld, InWindow
<1>2. ASSUME ~robbed'  PROVE Remembered'
  <2>1. Remembered /\ hits \in Seq(Nat) /\ granted \in Seq(Nat) /\ moment \in Nat /\ RateWindow \in Nat
    BY <1>2, LimiterAssumption DEF RateInv, LimiterTypes
  <2>2. CASE hits' = hits
    BY <2>1, <2>2 DEF Remembered, Gone
  <2>3. CASE hits # <<>> /\ hits' = Tail(hits) /\ moment - Head(hits) > RateWindow
    <3>1. /\ Len(hits) \in Nat \ {0} /\ Len(hits') = Len(hits) - 1
          /\ \A i \in 1..Len(hits') : hits'[i] = hits[i + 1]
          /\ Head(hits) = hits[1]
      BY <2>1, <2>3
    <3>2. Len(granted) \in Nat /\ Gone \in Nat /\ Gone' = Gone + 1
      BY <2>1, <3>1 DEF Gone, Remembered
    <3>3. hits[1] = granted[Gone + 1] /\ hits[1] \in Nat
      BY <2>1, <3>1 DEF Remembered
    <3>4. \A i \in 1..Gone + 1 : granted[i] + RateWindow < moment
      <4> TAKE i \in 1..Gone + 1
      <4>1. i \in 1..Gone \/ i = Gone + 1
        BY <3>2
      <4>2. CASE i \in 1..Gone
        BY <2>1, <4>2 DEF Remembered
      <4>3. CASE i = Gone + 1
        <5>1. granted[i] = Head(hits) /\ granted[i] \in Nat
          BY <3>1, <3>3, <4>3, Zenon
        <5> QED
          BY <2>1, <2>3, <5>1
      <4> QED
        BY <4>1, <4>2, <4>3
    <3>5. \A i \in 1..Len(hits') : hits'[i] = granted[Gone' + i]
      <4> TAKE i \in 1..Len(hits')
      <4>1. hits[i + 1] = granted[Gone + (i + 1)]
        BY <2>1, <3>1 DEF Remembered
      <4>2. Gone + (i + 1) = Gone' + i
        BY <3>1, <3>2
      <4> QED
        BY <3>1, <4>1, <4>2
    <3> QED
      BY <2>1, <3>1, <3>2, <3>4, <3>5 DEF Remembered
  <2> QED
    BY <1>2, <2>2, <2>3
<1> QED
  BY <1>1, <1>2 DEF RateInv

LEMMA TimePassesKeeps ==
  ASSUME RateInv, TimePasses
  PROVE  RateInv'
<1>1. /\ moment' = moment + 1 /\ UNCHANGED <<hits, calls, granted, robbed>>
      /\ \A t \in Handlers : calls[t].at = "free"
  BY DEF TimePasses, Free
<1>2. LimiterTypes' /\ Prompt' /\ NotTooMany' /\ RateIsHeld'
  BY <1>1 DEF RateInv, LimiterTypes, Prompt, NotTooMany, Appending, RateIsHeld, InWindow
<1>3. ~robbed => Remembered'
  <2> HAVE ~robbed
  <2>1. \A i \in 1..Gone : granted[i] \in Nat
    BY DEF RateInv, Remembered, LimiterTypes, Gone
  <2> QED
    BY <1>1, <2>1, LimiterAssumption DEF RateInv, LimiterTypes, Remembered, Gone
<1> QED
  BY <1>1, <1>2, <1>3 DEF RateInv

\* The calls go on, none of them to its append.
LEMMA PassKeeps ==
  ASSUME RateInv, NEW t \in Handlers, UNCHANGED moment,
         \/ calls' = [calls EXCEPT ![t] = Free]
         \/ calls' = [calls EXCEPT ![t] = [at |-> "prune", now |-> moment]]
         \/ calls[t].at # "free" /\ \E at \in CallStages \ {"free", "append"} : Pass(t, at)
  PROVE  calls' \in [Handlers -> [at: CallStages, now: Nat]] /\ Prompt' /\ Appending' \subseteq Appending
<1> USE DEF RateInv, LimiterTypes, CallStages, Prompt, Appending
<1>1. CASE calls' = [calls EXCEPT ![t] = Free]
  BY <1>1 DEF Free
<1>2. CASE calls' = [calls EXCEPT ![t] = [at |-> "prune", now |-> moment]]
  BY <1>2
<1>3. CASE calls[t].at # "free" /\ \E at \in CallStages \ {"free", "append"} : Pass(t, at)
  BY <1>3 DEF Pass
<1> QED
  BY <1>1, <1>2, <1>3

\* Fewer hits, and no more threads about to append one.
LEMMA FewerKeep ==
  ASSUME NotTooMany, LimiterTypes, hits' \in Seq(Nat), Len(hits') <= Len(hits), Appending' \subseteq Appending
  PROVE  NotTooMany'
<1>1. Cardinality(Appending') <= Cardinality(Appending) /\ Cardinality(Appending') \in Nat
  BY HandlersFinite, FS_Subset, FS_CardinalityType
<1> QED
  BY <1>1, HandlersFinite, LimiterAssumption DEF NotTooMany, LimiterTypes

LEMMA CallingKeeps ==
  ASSUME RateInv, NEW t \in Handlers, Call(t) \/ Prune(t) \/ Test(t) \/ Pop(t)
  PROVE  RateInv'
<1>1. UNCHANGED <<moment, granted>> /\ (robbed => robbed') /\ robbed' \in BOOLEAN
  BY DEF Call, Prune, Test, Pop, RateInv, LimiterTypes
<1>2. calls' \in [Handlers -> [at: CallStages, now: Nat]] /\ Prompt' /\ Appending' \subseteq Appending
  <2>1. \/ calls' = [calls EXCEPT ![t] = Free]
        \/ calls' = [calls EXCEPT ![t] = [at |-> "prune", now |-> moment]]
        \/ calls[t].at # "free" /\ \E at \in CallStages \ {"free", "append"} : Pass(t, at)
    BY DEF Call, Prune, Test, Pop, Return, CallStages
  <2> QED
    BY <1>1, <2>1, PassKeeps
<1>3. \/ hits' = hits
      \/ hits # <<>> /\ hits' = Tail(hits) /\ (~robbed' => moment - Head(hits) > RateWindow)
  <2>1. calls[t].at # "free" => calls[t].now = moment
    BY DEF RateInv, Prompt
  <2>2. CASE Call(t) \/ Test(t)
    BY <2>2 DEF Call, Test
  <2>3. CASE Prune(t)
    BY <2>1, <2>3 DEF Prune, Old
  <2>4. CASE Pop(t)
    BY <2>1, <2>4 DEF Pop, Old
  <2> QED
    BY <2>2, <2>3, <2>4
<1>4. hits' \in Seq(Nat) /\ Len(hits') <= Len(hits)
  <2>1. hits \in Seq(Nat) /\ Len(hits) \in Nat
    BY DEF RateInv, LimiterTypes
  <2>2. hits # <<>> => Tail(hits) \in Seq(Nat) /\ Len(Tail(hits)) = Len(hits) - 1
    BY <2>1
  <2> QED
    BY <1>3, <2>1, <2>2
<1>5. LimiterTypes' /\ NotTooMany'
  BY <1>1, <1>2, <1>4, FewerKeep DEF RateInv, LimiterTypes
<1> QED
  BY <1>1, <1>2, <1>3, <1>5, QuietStepKeeps

LEMMA CountKeeps ==
  ASSUME RateInv, NEW t \in Handlers, Count(t)
  PROVE  RateInv'
<1>1. UNCHANGED <<moment, hits, granted, robbed>>
  BY DEF Count
<1>2. calls' \in [Handlers -> [at: CallStages, now: Nat]] /\ Prompt'
  <2>1. calls[t].at = "count" /\ calls[t].now = moment /\ moment \in Nat
    BY DEF Count, RateInv, Prompt, LimiterTypes
  <2>2. CASE calls' = [calls EXCEPT ![t] = Free]
    BY <1>1, <2>2, PassKeeps
  <2>3. CASE calls' = [calls EXCEPT ![t].at = "append"]
    BY <1>1, <2>1, <2>3 DEF RateInv, LimiterTypes, Prompt, CallStages
  <2> QED
    BY <2>2, <2>3 DEF Count, Pass, Return
<1>3. NotTooMany'
  <2>1. CASE Len(hits) >= RateMax
    <3>1. Appending' \subseteq Appending
      BY <2>1, <1>1, PassKeeps DEF Count, Return
    <3> QED
      BY <1>1, <3>1, FewerKeep DEF RateInv, LimiterTypes
  <2>2. CASE ~(Len(hits) >= RateMax)
    <3>1. Appending' \in SUBSET Handlers
      BY DEF Appending
    <3>2. Cardinality(Appending') <= Cardinality(Handlers) /\ Cardinality(Appending') \in Nat
      BY <3>1, HandlersFinite, FS_Subset, FS_CardinalityType
    <3> QED
      BY <1>1, <2>2, <3>2, HandlersFinite, LimiterAssumption DEF RateInv, LimiterTypes, NotTooMany
  <2> QED
    BY <2>1, <2>2
<1> QED
  BY <1>1, <1>2, <1>3, QuietStepKeeps DEF RateInv, LimiterTypes

\* A hit that is granted is in a window with none but what the deque has.
LEMMA GrantKeeps ==
  ASSUME RateInv, NEW t \in Handlers, Grant(t)
  PROVE  RateInv'
<1>1. /\ UNCHANGED <<moment, robbed>> /\ calls[t].at = "append" /\ calls' = [calls EXCEPT ![t] = Free]
      /\ hits' = Append(hits, moment) /\ granted' = Append(granted, moment)
  BY DEF Grant, Return, RateInv, Prompt
<1>2. /\ moment \in Nat /\ RateWindow \in Nat /\ RateMax \in Nat
      /\ hits \in Seq(Nat) /\ hits' \in Seq(Nat) /\ granted \in Seq(Nat) /\ granted' \in Seq(Nat)
      /\ Len(hits) \in Nat /\ Len(hits') = Len(hits) + 1
      /\ Len(granted) \in Nat /\ Len(granted') = Len(granted) + 1
  BY <1>1, LimiterAssumption DEF RateInv, LimiterTypes
<1>3. LimiterTypes' /\ Prompt'
  <2>1. calls' \in [Handlers -> [at: CallStages, now: Nat]] /\ Prompt'
    BY <1>1, PassKeeps
  <2> QED
    BY <1>1, <1>2, <2>1 DEF RateInv, LimiterTypes
<1>4. NotTooMany'
  <2>1. Appending' = Appending \ {t} /\ t \in Appending
    BY <1>1 DEF Appending, Free, RateInv, LimiterTypes
  <2>2. Cardinality(Appending') = Cardinality(Appending) - 1
    BY <2>1, HandlersFinite, FS_RemoveElement
  <2> QED
    BY <1>2, <2>2, HandlersFinite DEF NotTooMany, RateInv
<1>5. ASSUME ~robbed  PROVE Remembered'
  <2>1. Remembered
    BY <1>5 DEF RateInv
  <2>2. Gone' = Gone /\ Gone \in Nat
    BY <1>2, <2>1 DEF Gone, Remembered
  <2>3. \A i \in 1..Len(granted) : granted'[i] = granted[i]
    BY <1>1, <1>2
  <2>4. \A i \in 1..Gone : granted'[i] + RateWindow < moment'
    BY <1>1, <1>2, <2>1, <2>2, <2>3 DEF Remembered, Gone
  <2>5. \A i \in 1..Len(hits') : hits'[i] = granted'[Gone' + i]
    <3> TAKE i \in 1..Len(hits')
    <3>1. CASE i \in 1..Len(hits)
      <4>1. Gone + i \in 1..Len(granted) /\ hits'[i] = hits[i]
        BY <1>1, <1>2, <3>1, <2>2 DEF Gone
      <4> QED
        BY <2>1, <2>2, <2>3, <3>1, <4>1 DEF Remembered
    <3>2. CASE i = Len(hits) + 1
      BY <1>1, <1>2, <2>2, <3>2 DEF Gone
    <3> QED
      BY <1>2, <3>1, <3>2
  <2> QED
    BY <1>2, <2>1, <2>2, <2>4, <2>5 DEF Remembered
<1>6. ASSUME ~robbed, NEW from \in 0..MaxMoment
      PROVE  Cardinality(InWindow(from)') <= RateMax + Cardinality(Handlers) - 1
  <2>1. \A i \in 1..Len(granted) : granted'[i] = granted[i]
    BY <1>1, <1>2
  <2>2. granted'[Len(granted')] = moment /\ DOMAIN granted' = 1..Len(granted) + 1 /\ from \in Nat
    BY <1>1, <1>2, LimiterAssumption
  <2>3. CASE from + RateWindow < moment
    <3>1. \A i \in DOMAIN granted' : granted'[i] <= from + RateWindow => i \in DOMAIN granted
      <4> TAKE i \in DOMAIN granted'
      <4>1. i \in 1..Len(granted) \/ i = Len(granted')
        BY <1>2, <2>2
      <4>2. ~(moment <= from + RateWindow)
        BY <1>2, <2>2, <2>3
      <4> QED
        BY <1>2, <2>2, <4>1, <4>2
    <3>2. DOMAIN granted = 1..Len(granted) /\ DOMAIN granted \subseteq DOMAIN granted'
      BY <1>2, <2>2
    <3>3. InWindow(from)' = InWindow(from)
      <4>1. ASSUME NEW i  PROVE i \in InWindow(from)' <=> i \in InWindow(from)
        BY <2>1, <3>1, <3>2 DEF InWindow
      <4> QED
        BY <4>1
    <3> QED
      BY <1>6, <3>3 DEF RateInv, RateIsHeld
  <2>4. CASE moment <= from + RateWindow
    <3>1. Remembered' /\ Gone' \in Nat /\ Gone' <= Len(granted')
      BY <1>2, <1>5, <1>6 DEF Remembered, Gone
    <3>2. InWindow(from)' \subseteq Gone' + 1..Len(granted')
      <4> SUFFICES ASSUME NEW i \in 1..Len(granted'), i \in 1..Gone', from <= granted'[i],
                          granted'[i] <= from + RateWindow
                   PROVE  FALSE
        BY <1>2, <3>1 DEF InWindow
      <4> QED
        BY <1>1, <1>2, <2>2, <2>4, <3>1 DEF Remembered
    <3>3. Cardinality(InWindow(from)') <= Len(hits')
      <4>0. Len(granted') \in Nat
        BY <1>2
      <4>1. PICK gone \in Nat, len \in Nat : gone = Gone' /\ len = Len(granted')
        BY <3>1, <4>0, Zenon
      <4>2. gone <= len /\ len - gone = Len(hits')
        BY <1>2, <3>1, <4>1 DEF Gone
      <4>3. InWindow(from)' \subseteq gone + 1..len
        BY <3>2, <4>1
      <4>4. Cardinality(InWindow(from)') <= len - gone
        BY <4>2, <4>3, Between
      <4> QED
        BY <4>2, <4>4
    <3>4. IsFiniteSet(InWindow(from)') /\ Cardinality(InWindow(from)') \in Nat
      <4>1. InWindow(from)' \in SUBSET (1..Len(granted')) /\ IsFiniteSet(1..Len(granted'))
        BY <1>2, FS_Interval DEF InWindow
      <4> QED
        BY <4>1, FS_Subset, FS_CardinalityType
    <3>5. Appending' \in SUBSET Handlers
      BY DEF Appending
    <3>6. Cardinality(Appending') \in Nat
      BY <3>5, HandlersFinite, FS_Subset, FS_CardinalityType
    <3> QED
      BY <1>2, <1>4, <3>3, <3>4, <3>6, HandlersFinite DEF NotTooMany
  <2> QED
    BY <1>2, <2>2, <2>3, <2>4
<1> QED
  BY <1>1, <1>3, <1>4, <1>5, <1>6 DEF RateInv, RateIsHeld

LEMMA RateStays ==
  RateInv /\ [LimiterNext]_limiterVars => RateInv'
<1> SUFFICES ASSUME RateInv, [LimiterNext]_limiterVars
             PROVE  RateInv'
  OBVIOUS
<1>1. CASE UNCHANGED limiterVars
  BY <1>1 DEF limiterVars, RateInv, LimiterTypes, Prompt, NotTooMany, Appending, Remembered, Gone, RateIsHeld, InWindow
<1>2. CASE TimePasses
  BY <1>2, TimePassesKeeps
<1>3. CASE \E t \in Handlers : Call(t) \/ Prune(t) \/ Test(t) \/ Pop(t) \/ Count(t) \/ Grant(t)
  BY <1>3, CallingKeeps, CountKeeps, GrantKeeps
<1> QED
  BY <1>1, <1>2, <1>3 DEF LimiterNext

\* RATE_MAX "submissions per player per minute", for any number of threads in
\* rate_limited at once and any window: no more get through than that and one for
\* each further thread, until a thread pops a hit that it has not tested.
THEOREM RateLimitHolds ==
  LimiterSpec => []RateIsHeld
<1>1. RateInv => RateIsHeld
  BY DEF RateInv
<1> QED
  BY RateStarts, RateStays, <1>1, PTL DEF LimiterSpec

-----------------------------------------------------------------------------
(***************************************************************************)
(* The manifest check, whatever ports and names are written in a           *)
(* service.toml.  The lemmas are about Validate alone; the theorems about  *)
(* the file as its player edits it.                                        *)
(***************************************************************************)
\* A manifest is accepted only if both ports, where they are in the file, are ports.
LEMMA AcceptedPorts ==
  ASSUME NEW r \in RawManifests, Validate(r) = "ok"
  PROVE  /\ Consistent(r)
         /\ InRange(r.tcp_port) /\ InRange(r.udp_port)
<1>1. Consistent(r) /\ PortCheck(r) = "ok"
  BY DEF Validate
<1>2. PortResult(r.tcp_port) = "ok" /\ PortResult(r.udp_port) = "ok"
  BY <1>1 DEF PortCheck
<1> QED
  BY <1>1, <1>2 DEF PortResult

\* A port that is neither missing nor 0, and in range where it is there, is a port.
LEMMA NamedPort ==
  ASSUME NEW port, InRange(port), ~Blank(port)
  PROVE  port \in PortNumbers
  BY DEF InRange, Blank

\* Where tcp is declared there is a TCP port, where udp is there is a UDP port.
LEMMA DeclaredPorts ==
  ASSUME NEW r \in RawManifests, Validate(r) = "ok"
  PROVE  /\ "tcp" \in r.transports => Normalise(r).tcp_port \in PortNumbers
         /\ "udp" \in r.transports => Normalise(r).udp_port \in PortNumbers
<1>1. Consistent(r) /\ InRange(r.tcp_port) /\ InRange(r.udp_port)
  BY AcceptedPorts
<1>2. ASSUME "tcp" \in r.transports
      PROVE  Normalise(r).tcp_port \in PortNumbers
  <2>1. ~Blank(r.tcp_port)
    BY <1>1, <1>2 DEF Consistent
  <2>2. r.tcp_port \in PortNumbers
    BY <1>1, <2>1, NamedPort
  <2> QED
    BY <2>1, <2>2 DEF Normalise
<1>3. ASSUME "udp" \in r.transports
      PROVE  Normalise(r).udp_port \in PortNumbers
  <2>1. "udp" \in r.transports \cap {"udp", "quic"}
    BY <1>3
  <2>2. ~Blank(r.udp_port)
    BY <1>1, <2>1 DEF Consistent
  <2>3. r.udp_port \in PortNumbers
    BY <1>1, <2>2, NamedPort
  <2> QED
    BY <2>2, <2>3 DEF Normalise
<1> QED
  BY <1>2, <1>3

\* An HTTP version below 3 needs tcp; 3 needs quic, and quic needs udp.
LEMMA DeclaredTransports ==
  ASSUME NEW r \in RawManifests, Validate(r) = "ok"
  PROVE  /\ r.http_versions \subseteq HttpVersions
         /\ r.http_versions \cap TcpVersions # {} => "tcp" \in r.transports
         /\ "3" \in r.http_versions => "udp" \in r.transports
  BY AcceptedPorts DEF Consistent

-----------------------------------------------------------------------------
\* The probe loop and the healthcheck talk to ports the player has named.
LEMMA PortsOfRungs ==
  ASSUME NEW r \in RawManifests, Validate(r) = "ok"
  PROVE  LET manifest == Normalise(r)
         IN  /\ \A rung \in Protocols(manifest) : PortOf(manifest, rung) \in PortNumbers
             /\ \A rung \in HealthOrder(manifest) : HealthPort(manifest, rung) \in PortNumbers
<1> DEFINE manifest == Normalise(r)
<1>1. /\ manifest.transports = r.transports
      /\ manifest.http_versions = r.http_versions
  BY DEF Normalise
<1>2. /\ "tcp" \in r.transports => manifest.tcp_port \in PortNumbers
      /\ "udp" \in r.transports => manifest.udp_port \in PortNumbers
  BY DeclaredPorts
<1>3. /\ r.http_versions \subseteq HttpVersions
      /\ r.http_versions \cap TcpVersions # {} => "tcp" \in r.transports
      /\ "3" \in r.http_versions => "udp" \in r.transports
  BY DeclaredTransports
<1> HIDE DEF manifest
<1>4. ASSUME NEW rung \in TcpVersions, rung \in r.http_versions
      PROVE  manifest.tcp_port \in PortNumbers
  BY <1>2, <1>3, <1>4
<1>5. ASSUME NEW rung \in Protocols(manifest)
      PROVE  PortOf(manifest, rung) \in PortNumbers
  <2>1. CASE rung \in {"udp", "3"}
    <3>1. "udp" \in r.transports
      BY <1>1, <1>3, <1>5, <2>1 DEF Protocols, HttpVersions
    <3> QED
      BY <1>2, <2>1, <3>1 DEF PortOf
  <2>2. CASE rung \notin {"udp", "3"}
    <3>1. rung \in r.http_versions /\ rung \in TcpVersions
      BY <1>1, <1>3, <1>5, <2>2 DEF Protocols, HttpVersions, TcpVersions
    <3> QED
      BY <1>4, <2>2, <3>1 DEF PortOf
  <2> QED
    BY <2>1, <2>2
<1>6. ASSUME NEW rung \in HealthOrder(manifest)
      PROVE  HealthPort(manifest, rung) \in PortNumbers
  <2>1. CASE rung = "udp"
    <3>1. "udp" \in r.transports
      BY <1>1, <1>6, <2>1 DEF HealthOrder, HttpOrder
    <3> QED
      BY <1>2, <2>1, <3>1 DEF HealthPort
  <2>2. CASE rung # "udp"
    <3>1. rung \in r.http_versions /\ rung \in TcpVersions
      BY <1>1, <1>6, <2>2 DEF HealthOrder, HttpOrder, TcpVersions
    <3> QED
      BY <1>4, <2>2, <3>1 DEF HealthPort
  <2> QED
    BY <2>1, <2>2
<1> QED
  BY <1>5, <1>6 DEF manifest

-----------------------------------------------------------------------------
\* The edits of a player leave a file of the shape validate() is given.
LEMMA EditsKeepShape ==
  ASSUME raw \in RawManifests, [CheckNext]_raw
  PROVE  raw' \in RawManifests
<1>1. CASE \E name \in TransportNames : EditTransports(name)
  BY <1>1 DEF EditTransports, RawManifests
<1>2. CASE \E name \in VersionNames : EditVersions(name)
  BY <1>2 DEF EditVersions, RawManifests
<1>3. CASE \E port \in Ports : EditPorts(port)
  BY <1>3 DEF EditPorts, RawManifests
<1>4. CASE \E state \in {"fine", "bad", "odd"} : EditOthers(state)
  BY <1>4 DEF EditOthers, RawManifests
<1>5. CASE EditName
  BY <1>5 DEF EditName, RawManifests
<1>6. CASE UNCHANGED raw
  BY <1>6
<1> QED
  BY <1>1, <1>2, <1>3, <1>4, <1>5, <1>6 DEF CheckNext

LEMMA Shape == CheckSpec => [](raw \in RawManifests)
<1>1. CheckInit => raw \in RawManifests
  BY PortsAssumption DEF CheckInit, RawManifests
<1>2. raw \in RawManifests /\ [CheckNext]_raw => (raw \in RawManifests)'
  BY EditsKeepShape
<1> QED
  BY <1>1, <1>2, PTL DEF CheckSpec

\* validate() returns a manifest of the documented shape, ports included, or none.
THEOREM ManifestTypeCorrect == CheckSpec => []CheckTypeOK
<1>1. ASSUME raw \in RawManifests
      PROVE  CheckTypeOK
  <2>1. SUFFICES ASSUME Validate(raw) = "ok"
                 PROVE  Normalise(raw) \in NormalManifests
    BY <1>1 DEF CheckTypeOK
  <2>2. Consistent(raw) /\ InRange(raw.tcp_port) /\ InRange(raw.udp_port)
    BY <1>1, <2>1, AcceptedPorts
  <2>3. /\ raw.transports \subseteq Transports
        /\ raw.http_versions \subseteq HttpVersions
    BY <2>2 DEF Consistent
  <2>4. /\ Normalise(raw).tcp_port \in PortNumbers \cup {0}
        /\ Normalise(raw).udp_port \in PortNumbers \cup {0}
    BY <2>2 DEF InRange, Normalise, Blank
  <2> QED
    BY <2>3, <2>4 DEF Normalise, NormalManifests
<1> QED
  BY <1>1, Shape, PTL

\* Whatever a player writes, an accepted manifest is probed on named ports only.
THEOREM RungsHavePorts == CheckSpec => []EveryRungHasAPort
<1>1. raw \in RawManifests => EveryRungHasAPort
  BY PortsOfRungs DEF EveryRungHasAPort
<1> QED
  BY <1>1, Shape, PTL

\* Whatever a player writes, the rung that opens the gate is one that is scored.
THEOREM GateOpensForScored == CheckSpec => []GateIsScored
<1>1. ASSUME raw \in RawManifests, Validate(raw) = "ok", ~NoRung(Normalise(raw))
      PROVE  /\ HealthOrder(Normalise(raw)) \subseteq Protocols(Normalise(raw))
             /\ Protocols(Normalise(raw)) # {}
  <2>1. HealthOrder(Normalise(raw)) \subseteq Protocols(Normalise(raw))
    BY DEF HealthOrder, HttpOrder, Protocols
  <2> QED
    BY <1>1, <2>1 DEF NoRung
<1>2. raw \in RawManifests => GateIsScored
  BY <1>1 DEF GateIsScored
<1> QED
  BY <1>2, Shape, PTL

-----------------------------------------------------------------------------
(***************************************************************************)
(* Types: the shape of each part's variables, within the bounds its        *)
(* CONSTANTS name.  First a season, then the rate limit, the roster and    *)
(* the addresses, and in the end all the parts side by side.               *)
(***************************************************************************)
SeasonBounded ==
  /\ tick \in 0..MaxTick /\ grace_until_tick \in 0..MaxTick + GraceTicks
  /\ flags \subseteq [tick: 1..MaxTick, season: 0..MaxResets]
  /\ uptime \subseteq [tick: 1..MaxTick, season: 0..MaxResets, ok: BOOLEAN, disturbed: BOOLEAN]
  /\ notes \subseteq 1..MaxTick
  /\ loop \in [at: LoopStages, round: 0..MaxTick, in_grace: BOOLEAN, season: 0..MaxResets, disturbed: BOOLEAN]
  /\ patch \in [at: PatchStages, grace_until: 0..MaxTick + GraceTicks]
  /\ reset \in ResetStages
  /\ season \in 0..MaxResets /\ patches \in 0..MaxPatches /\ collided \in BOOLEAN
  /\ loop.at # "asleep" => loop.round \in 1..MaxTick

LEMMA SeasonStarts ==
  SeasonInit => SeasonBounded
<1> SUFFICES ASSUME SeasonInit
             PROVE  SeasonBounded
  OBVIOUS
<1> USE SeasonAssumption
<1>1. 0 \in 0..MaxTick /\ 0 \in 0..MaxResets /\ 0 \in 0..MaxPatches
      /\ 0 \in 0..MaxTick + GraceTicks /\ GraceTicks \in 0..MaxTick + GraceTicks
  OBVIOUS
<1>2. loop \in [at: LoopStages, round: 0..MaxTick, in_grace: BOOLEAN, season: 0..MaxResets, disturbed: BOOLEAN]
  BY <1>1 DEF SeasonInit, Asleep, LoopStages
<1>3. patch \in [at: PatchStages, grace_until: 0..MaxTick + GraceTicks]
  BY <1>1 DEF SeasonInit, NoPatch, PatchStages
<1> QED
  BY <1>1, <1>2, <1>3 DEF SeasonInit, SeasonBounded, Asleep, ResetStages

LEMMA LoopStaysBounded ==
  ASSUME SeasonBounded, LoopSteps
  PROVE  SeasonBounded'
<1> DEFINE Loops == [at: LoopStages, round: 0..MaxTick, in_grace: BOOLEAN, season: 0..MaxResets, disturbed: BOOLEAN]
<1>0. /\ loop \in Loops /\ season \in 0..MaxResets /\ tick \in 0..MaxTick
      /\ loop.at # "asleep" => loop.round \in 1..MaxTick
  BY DEF SeasonBounded
<1>a. /\ UNCHANGED <<patch, reset, season, patches>> /\ grace_until_tick' = grace_until_tick
  BY DEF LoopSteps, WakeUp, StoreTick, Dispatch, HealthDown, PlantNote, StorePlant, CheckSla, ExpireOld, Result, storeVars
<1>b. ASSUME NEW ok, loop.at # "asleep", Result(ok), notes' = notes
      PROVE  SeasonBounded'
  <2>1. PICK scored \in BOOLEAN : scored = (ok \/ loop.in_grace)
    OBVIOUS
  <2>2. loop' = [loop EXCEPT !.at = "expire"]
    BY <1>b DEF Result
  <2>3. loop' \in Loops /\ loop'.round = loop.round
    BY <1>0, <2>2 DEF LoopStages
  <2>4. PICK row : row = [tick |-> loop.round, season |-> loop.season, ok |-> scored, disturbed |-> loop.disturbed]
    OBVIOUS
  <2>5. row \in [tick: 1..MaxTick, season: 0..MaxResets, ok: BOOLEAN, disturbed: BOOLEAN]
    BY <1>0, <1>b, <2>1, <2>4
  <2>6. uptime' = uptime \cup {row}
    BY <1>b, <2>1, <2>4, Zenon DEF Result
  <2> QED
    BY <1>0, <1>a, <1>b, <2>3, <2>5, <2>6 DEF SeasonBounded, Result
<1>1. CASE WakeUp
  <2>1. PICK round \in 1..MaxTick : round = tick + 1
    BY <1>0, <1>1, SeasonAssumption DEF WakeUp
  <2>2. loop' = [at |-> "advance", round |-> round, in_grace |-> FALSE, season |-> season, disturbed |-> FALSE]
    BY <1>1, <2>1 DEF WakeUp, Asleep
  <2>3. round \in 0..MaxTick /\ loop'.round = round
    BY <2>1, <2>2
  <2>4. loop' \in Loops
    BY <1>0, <2>2, <2>3 DEF LoopStages
  <2>5. collided' \in BOOLEAN
    BY <1>1 DEF WakeUp
  <2> QED
    BY <1>1, <1>a, <2>1, <2>3, <2>4, <2>5 DEF WakeUp, SeasonBounded, storeVars
<1>2. CASE StoreTick
  <2>1. loop' = [loop EXCEPT !.at = "dispatch"] /\ tick' = loop.round /\ loop.at # "asleep"
    BY <1>2 DEF StoreTick
  <2>2. loop' \in Loops /\ loop'.round = loop.round /\ tick' \in 0..MaxTick
    BY <1>0, <2>1 DEF LoopStages
  <2> QED
    BY <1>0, <1>2, <1>a, <2>1, <2>2 DEF StoreTick, SeasonBounded
<1>3. CASE Dispatch
  <2>0. (loop.round <= grace_until_tick) \in BOOLEAN
    OBVIOUS
  <2>1. PICK graced \in BOOLEAN : graced = (loop.round <= grace_until_tick)
    BY <2>0, Zenon
  <2>2. PICK disturbed \in BOOLEAN : disturbed = (patch.at # "none")
    OBVIOUS
  <2>3. loop' = [loop EXCEPT !.at = "probe", !.in_grace = graced, !.disturbed = disturbed]
    BY <1>3, <2>1, <2>2, Zenon DEF Dispatch
  <2>4. loop' \in Loops /\ loop'.round = loop.round /\ loop.at # "asleep"
    BY <1>0, <1>3, <2>3 DEF LoopStages, Dispatch
  <2> QED
    BY <1>0, <1>3, <1>a, <2>4 DEF Dispatch, SeasonBounded, storeVars
<1>4. CASE HealthDown
  BY <1>4, <1>b DEF HealthDown
<1>5. CASE PlantNote
  <2>1. loop' = [loop EXCEPT !.at = "noted"] /\ loop.at # "asleep" /\ notes' = notes \cup {loop.round}
    BY <1>5 DEF PlantNote
  <2>2. loop' \in Loops /\ loop'.round = loop.round
    BY <1>0, <2>1 DEF LoopStages
  <2> QED
    BY <1>0, <1>5, <1>a, <2>1, <2>2 DEF PlantNote, SeasonBounded, storeVars
<1>6. CASE StorePlant
  <2>1. loop' = [loop EXCEPT !.at = "check"] /\ loop.at # "asleep"
        /\ flags' = flags \cup {[tick |-> loop.round, season |-> loop.season]}
    BY <1>6 DEF StorePlant
  <2>2. loop' \in Loops /\ loop'.round = loop.round
    BY <1>0, <2>1 DEF LoopStages
  <2>3. [tick |-> loop.round, season |-> loop.season] \in [tick: 1..MaxTick, season: 0..MaxResets]
    BY <1>0, <2>1
  <2>4. flags' \subseteq [tick: 1..MaxTick, season: 0..MaxResets]
    BY <2>1, <2>3 DEF SeasonBounded
  <2> QED
    BY <1>0, <1>6, <1>a, <2>1, <2>2, <2>4 DEF StorePlant, SeasonBounded
<1>7. CASE CheckSla
  <2>1. \E ok : Result(ok)
    BY <1>7 DEF CheckSla
  <2> QED
    BY <1>7, <1>b, <2>1 DEF CheckSla
<1>8. CASE ExpireOld
  <2>1. loop' \in Loops /\ loop'.at = "asleep"
    BY <1>8, SeasonAssumption DEF ExpireOld, Asleep, LoopStages
  <2>2. flags' \subseteq flags
    BY <1>8 DEF ExpireOld
  <2> QED
    BY <1>8, <1>a, <2>1, <2>2 DEF ExpireOld, SeasonBounded
<1> QED
  BY <1>1, <1>2, <1>3, <1>4, <1>5, <1>6, <1>7, <1>8 DEF LoopSteps

LEMMA PatchStaysBounded ==
  ASSUME SeasonBounded, PatchSteps
  PROVE  SeasonBounded'
<1> DEFINE Patches == [at: PatchStages, grace_until: 0..MaxTick + GraceTicks]
<1>0. /\ patch \in Patches /\ tick \in 0..MaxTick /\ patches \in 0..MaxPatches
  BY DEF SeasonBounded
<1>1. CASE StopVm
  <2>1. PICK disturbed \in BOOLEAN : disturbed = (loop.disturbed \/ loop.at \in {"probe", "noted", "check"})
    OBVIOUS
  <2>2. loop' = [loop EXCEPT !.disturbed = disturbed]
    BY <1>1, <2>1, Zenon DEF StopVm
  <2>3. /\ loop' \in [at: LoopStages, round: 0..MaxTick, in_grace: BOOLEAN, season: 0..MaxResets, disturbed: BOOLEAN]
        /\ loop'.at = loop.at /\ loop'.round = loop.round
    BY <2>2 DEF SeasonBounded
  <2>4. patch' \in Patches /\ patches' \in 0..MaxPatches /\ notes' = {}
    BY <1>0, <1>1, SeasonAssumption DEF StopVm, NoPatch, PatchStages
  <2> QED
    BY <1>1, <2>3, <2>4 DEF StopVm, SeasonBounded, storeVars
<1>2. CASE StartVm \/ PatchFails
  <2>1. patch' \in Patches
    BY <1>0, <1>2 DEF StartVm, PatchFails, PatchStages
  <2> QED
    BY <1>2, <2>1 DEF StartVm, PatchFails, SeasonBounded, storeVars
<1>3. CASE GrantGrace
  <2>1. tick + GraceTicks \in 0..MaxTick + GraceTicks
    BY <1>0, SeasonAssumption
  <2>2. patch' \in Patches /\ collided' \in BOOLEAN
    BY <1>3, <2>1 DEF GrantGrace, PatchStages
  <2> QED
    BY <1>3, <2>2 DEF GrantGrace, SeasonBounded, storeVars
<1>4. CASE LandPatch
  <2>1. patch' \in Patches /\ grace_until_tick' \in 0..MaxTick + GraceTicks
    BY <1>0, <1>4, SeasonAssumption DEF LandPatch, NoPatch, PatchStages
  <2> QED
    BY <1>4, <2>1 DEF LandPatch, SeasonBounded
<1> QED
  BY <1>1, <1>2, <1>3, <1>4 DEF PatchSteps

LEMMA ResetStaysBounded ==
  ASSUME SeasonBounded, ResetSteps
  PROVE  SeasonBounded'
<1> USE SeasonAssumption DEF SeasonBounded, ResetStages, Statement, storeVars
<1>1. CASE BeginReset
  <2>1. season' \in 0..MaxResets
    BY <1>1 DEF BeginReset
  <2>2. collided' \in BOOLEAN /\ reset' = "flags"
    BY <1>1 DEF BeginReset
  <2> QED
    BY <1>1, <2>1, <2>2 DEF BeginReset
<1>2. CASE ResetFlags
  BY <1>2 DEF ResetFlags
<1>3. CASE ResetUptime
  BY <1>3 DEF ResetUptime
<1>4. CASE ResetTick
  BY <1>4 DEF ResetTick
<1>5. CASE ResetGrace
  BY <1>5 DEF ResetGrace
<1> QED
  BY <1>1, <1>2, <1>3, <1>4, <1>5 DEF ResetSteps

LEMMA SeasonStays ==
  SeasonBounded /\ [SeasonNext]_seasonVars => SeasonBounded'
<1> SUFFICES ASSUME SeasonBounded, [SeasonNext]_seasonVars
             PROVE  SeasonBounded'
  OBVIOUS
<1>1. CASE UNCHANGED seasonVars
  BY <1>1 DEF seasonVars, SeasonBounded
<1>2. CASE LoopSteps \/ PatchSteps \/ ResetSteps
  BY <1>2, LoopStaysBounded, PatchStaysBounded, ResetStaysBounded
<1> QED
  BY <1>1, <1>2 DEF SeasonNext

LEMMA SeasonTypesOf ==
  SeasonBounded => SeasonTypeOK
BY DEF SeasonBounded, SeasonTypeOK, LoopStages, PatchStages, ResetStages

-----------------------------------------------------------------------------
LimiterBounded ==
  /\ moment \in 0..MaxMoment /\ hits \in Seq(0..MaxMoment) /\ granted \in Seq(0..MaxMoment)
  /\ calls \in [Handlers -> [at: CallStages, now: 0..MaxMoment]]
  /\ robbed \in BOOLEAN /\ called \in 0..MaxCalls

LEMMA LimiterStarts ==
  LimiterInit => LimiterBounded
<1> SUFFICES ASSUME LimiterInit
             PROVE  LimiterBounded
  OBVIOUS
<1>1. 0 \in 0..MaxMoment /\ 0 \in 0..MaxCalls
  BY LimiterAssumption
<1>2. Free \in [at: CallStages, now: 0..MaxMoment]
  BY <1>1 DEF Free, CallStages
<1>3. calls \in [Handlers -> [at: CallStages, now: 0..MaxMoment]]
  BY <1>2, Zenon DEF LimiterInit
<1> <<>> \in Seq(0..MaxMoment)
  OBVIOUS
<1> QED
  BY <1>1, <1>3 DEF LimiterInit, LimiterBounded

LEMMA LimiterStays ==
  LimiterBounded /\ [LimiterNext]_limiterVars => LimiterBounded'
<1> SUFFICES ASSUME LimiterBounded, [LimiterNext]_limiterVars
             PROVE  LimiterBounded'
  OBVIOUS
<1> USE DEF LimiterBounded
<1> DEFINE Calls == [at: CallStages, now: 0..MaxMoment]
<1>1. 0 \in 0..MaxMoment /\ Free \in Calls
  BY LimiterAssumption DEF Free, CallStages
<1>2. ASSUME NEW t \in Handlers, NEW at \in CallStages, Pass(t, at) \/ Return(t)
      PROVE  calls' \in [Handlers -> Calls]
  BY <1>1, <1>2 DEF Pass, Return
<1>3. hits # <<>> => Tail(hits) \in Seq(0..MaxMoment)
  OBVIOUS
<1>4. CASE UNCHANGED limiterVars
  BY <1>4 DEF limiterVars
<1>5. CASE TimePasses
  BY <1>5, LimiterAssumption DEF TimePasses
<1>6. ASSUME NEW t \in Handlers, Call(t)
      PROVE  LimiterBounded'
  <2>1. called' \in 0..MaxCalls
    BY <1>6, LimiterAssumption DEF Call
  <2>2. [at |-> "prune", now |-> moment] \in Calls
    BY DEF CallStages
  <2>3. calls' \in [Handlers -> Calls]
    BY <1>6, <2>2 DEF Call
  <2> QED
    BY <1>6, <2>1, <2>3 DEF Call
<1>7. ASSUME NEW t \in Handlers, Prune(t) \/ Test(t)
      PROVE  LimiterBounded'
  <2>1. calls' \in [Handlers -> Calls]
    BY <1>2, <1>7 DEF Prune, Test, CallStages
  <2>2. hits' \in Seq(0..MaxMoment)
    BY <1>3, <1>7 DEF Prune, Test, Old
  <2> QED
    BY <1>7, <2>1, <2>2 DEF Prune, Test
<1>8. ASSUME NEW t \in Handlers, Pop(t)
      PROVE  LimiterBounded'
  <2>1. calls' \in [Handlers -> Calls]
    BY <1>2, <1>8 DEF Pop, CallStages
  <2>2. hits' \in Seq(0..MaxMoment)
    BY <1>3, <1>8 DEF Pop
  <2>3. robbed' \in BOOLEAN
    BY <1>8 DEF Pop
  <2> QED
    BY <1>8, <2>1, <2>2, <2>3 DEF Pop
<1>9. ASSUME NEW t \in Handlers, Count(t)
      PROVE  LimiterBounded'
  <2>1. calls' \in [Handlers -> Calls]
    BY <1>2, <1>9 DEF Count, CallStages
  <2> QED
    BY <1>9, <2>1 DEF Count
<1>10. ASSUME NEW t \in Handlers, Grant(t)
       PROVE  LimiterBounded'
  <2>1. PICK now \in 0..MaxMoment : now = calls[t].now
    OBVIOUS
  <2>2. Append(hits, now) \in Seq(0..MaxMoment) /\ Append(granted, now) \in Seq(0..MaxMoment)
    BY AppendProperties
  <2>3. calls' \in [Handlers -> Calls]
    BY <1>1, <1>10 DEF Grant, Return
  <2> QED
    BY <1>10, <2>1, <2>2, <2>3 DEF Grant
<1> QED
  BY <1>4, <1>5, <1>6, <1>7, <1>8, <1>9, <1>10 DEF LimiterNext

LEMMA LimiterTypesOf ==
  LimiterBounded => LimiterTypeOK
BY DEF LimiterBounded, LimiterTypeOK, CallStages

-----------------------------------------------------------------------------
\* A list of names with one taken out, or one appended that is not on it.
LEMMA TakenOut ==
  ASSUME NEW S, NEW list \in Seq(S), NEW i \in 1..Len(list)
  PROVE  /\ RemoveAt(list, i) \in Seq(S) /\ Len(RemoveAt(list, i)) = Len(list) - 1
         /\ IsInjective(list) => IsInjective(RemoveAt(list, i))
<1> DEFINE before == SubSeq(list, 1, i - 1)
           after == SubSeq(list, i + 1, Len(list))
<1>1. /\ before \in Seq(S) /\ Len(before) = i - 1
      /\ \A j \in 1..i - 1 : before[j] = list[j]
  OBVIOUS
<1>2. /\ after \in Seq(S) /\ Len(after) = Len(list) - i
      /\ \A j \in 1..Len(list) - i : after[j] = list[i + j]
  OBVIOUS
<1> HIDE DEF before, after
<1>3. PICK rest \in Seq(S) : rest = before \o after
  BY <1>1, <1>2, ConcatProperties, Zenon
<1>4. /\ Len(rest) = Len(list) - 1
      /\ \A j \in 1..Len(list) - 1 : rest[j] = IF j < i THEN list[j] ELSE list[j + 1]
  <2>1. /\ Len(rest) = Len(before) + Len(after)
        /\ \A j \in 1..Len(before) + Len(after) :
             rest[j] = IF j <= Len(before) THEN before[j] ELSE after[j - Len(before)]
    BY <1>1, <1>2, <1>3, ConcatProperties
  <2>2. Len(rest) = Len(list) - 1
    <3>1. PICK all \in Nat : all = Len(list)
      OBVIOUS
    <3>2. i \in Int /\ (i - 1) + (all - i) = all - 1
      BY <3>1
    <3> QED
      BY <1>1, <1>2, <2>1, <3>1, <3>2
  <2>3. ASSUME NEW j \in 1..Len(list) - 1
        PROVE  rest[j] = IF j < i THEN list[j] ELSE list[j + 1]
    <3>1. CASE j < i
      <4>1. j \in 1..i - 1 /\ j \in 1..Len(before) + Len(after) /\ j <= Len(before)
        BY <1>1, <1>2, <3>1
      <4>2. rest[j] = before[j] /\ before[j] = list[j]
        BY <1>1, <2>1, <4>1
      <4> QED
        BY <3>1, <4>2
    <3>2. CASE ~(j < i)
      <4>1. PICK k \in 1..Len(list) - i : k = j - (i - 1)
        BY <3>2
      <4>2. i + k = j + 1 /\ ~(j <= i - 1)
        BY <3>2, <4>1
      <4>3. j \in 1..Len(before) + Len(after) /\ Len(before) = i - 1
        BY <1>1, <1>2
      <4>4. rest[j] = after[k]
        BY <2>1, <4>1, <4>2, <4>3
      <4> QED
        BY <1>2, <3>2, <4>2, <4>4
    <3> QED
      BY <3>1, <3>2
  <2> QED
    BY <2>2, <2>3
<1>5. IsInjective(list) => IsInjective(rest)
  <2> SUFFICES ASSUME IsInjective(list), NEW a \in 1..Len(list) - 1, NEW b \in 1..Len(list) - 1, rest[a] = rest[b]
               PROVE  a = b
    BY <1>4 DEF IsInjective
  <2>1. \A c \in 1..Len(list), d \in 1..Len(list) : list[c] = list[d] => c = d
    BY DEF IsInjective
  <2> DEFINE old(j) == IF j < i THEN j ELSE j + 1
  <2>2. /\ old(a) \in 1..Len(list) /\ rest[a] = list[old(a)]
        /\ old(b) \in 1..Len(list) /\ rest[b] = list[old(b)]
    BY <1>4
  <2>3. old(a) = old(b)
    BY <2>1, <2>2
  <2> QED
    BY <2>3
<1> QED
  BY <1>3, <1>4, <1>5 DEF RemoveAt, before, after

LEMMA Appended ==
  ASSUME NEW S, NEW list \in Seq(S), NEW p \in S, p \notin ToSet(list)
  PROVE  /\ Append(list, p) \in Seq(S) /\ Len(Append(list, p)) = Len(list) + 1
         /\ IsInjective(list) => IsInjective(Append(list, p))
<1>1. \A j \in 1..Len(list) : list[j] # p
  BY DEF ToSet
<1>2. PICK longer \in Seq(S) : longer = Append(list, p)
  BY AppendProperties
<1>3. /\ Len(longer) = Len(list) + 1 /\ longer[Len(list) + 1] = p
      /\ \A j \in 1..Len(list) : longer[j] = list[j]
  BY <1>2, AppendProperties
<1>4. IsInjective(list) => IsInjective(longer)
  BY <1>1, <1>3 DEF IsInjective
<1> QED
  BY <1>2, <1>3, <1>4

-----------------------------------------------------------------------------
LEMMA RosterStarts ==
  RosterInit => RosterTypeOK
<1> SUFFICES ASSUME RosterInit
             PROVE  RosterTypeOK
  OBVIOUS
<1> PICK first \in Names :
      /\ listed = <<first>>
      /\ known = [u \in Units |-> {first}]
      /\ enrolled = [p \in Names |-> IF p = first THEN "running" ELSE "absent"]
      /\ admission = [p \in Names |-> IF p = first THEN "admitted" ELSE "out"]
  BY DEF RosterInit
<1>1. listed \in Seq(Names) /\ Len(listed) = 1
  OBVIOUS
<1>2. IsInjective(listed)
  BY <1>1 DEF IsInjective
<1>3. known \in [Units -> SUBSET Names]
  OBVIOUS
<1>4. enrolled \in [Names -> Statuses] /\ deploying \in [Names -> {"nobody", "watcher", "operator"}]
  BY DEF RosterInit, Statuses
<1>5. admission \in [Names -> {"out", "listed", "applied", "deployed", "admitted"}]
  OBVIOUS
<1>6. edits \in 0..MaxEdits /\ watched \in 0..MaxWatched /\ starts \in 0..MaxStarts
  BY RosterAssumption DEF RosterInit
<1> QED
  BY <1>1, <1>2, <1>3, <1>4, <1>5, <1>6 DEF RosterTypeOK

LEMMA SyncedTypes ==
  ASSUME RosterTypeOK
  PROVE  Synced \in [Names -> Statuses]
BY DEF RosterTypeOK, Synced, Statuses

\* What a pipeline's start leaves of the types.
Begun ==
  /\ enrolled' \in [Names -> Statuses]
  /\ deploying' \in [Names -> {"nobody", "watcher", "operator"}]
  /\ UNCHANGED <<listed, known, admission, edits, starts>>

LEMMA RowTypes ==
  ASSUME RosterTypeOK, NEW p \in Names, NEW process \in {"operator", "watcher"},
         NEW given \in [Names -> Statuses], BeginDeploy(p, process, given)
  PROVE  Begun
<1>1. PICK status \in Statuses :
        enrolled' = [given EXCEPT ![p] = status]
  <2>1. given[p] \in Statuses /\ "building" \in Statuses
    BY DEF Statuses
  <2>2. enrolled' = [given EXCEPT ![p] = IF given[p] = "absent" THEN given[p] ELSE "building"]
    BY DEF BeginDeploy
  <2> QED
    BY <2>1, <2>2
<1>2. enrolled' \in [Names -> Statuses]
  BY <1>1
<1>3. deploying' \in [Names -> {"nobody", "watcher", "operator"}]
  BY DEF BeginDeploy, RosterTypeOK
<1>4. UNCHANGED <<listed, known, admission, edits, starts>>
  BY DEF BeginDeploy
<1> QED
  BY <1>2, <1>3, <1>4 DEF Begun

LEMMA RosterStays ==
  RosterTypeOK /\ [RosterNext]_rosterVars => RosterTypeOK'
<1> SUFFICES ASSUME RosterTypeOK, [RosterNext]_rosterVars
             PROVE  RosterTypeOK'
  OBVIOUS
<1> USE DEF RosterTypeOK
<1>0. DOMAIN listed = 1..Len(listed) /\ OnList \subseteq Names
  BY DEF OnList, ToSet
<1>1. ASSUME NEW p \in Names, AddBlock(p)
      PROVE  RosterTypeOK'
  <2>1. listed' \in Seq(Names) /\ IsInjective(listed')
    BY <1>1, Appended DEF AddBlock, Edit, OnList
  <2>2. edits' \in 0..MaxEdits
    BY <1>1, RosterAssumption DEF AddBlock, Edit
  <2> QED
    BY <1>1, <2>1, <2>2 DEF AddBlock
<1>2. ASSUME NEW i \in DOMAIN listed, RemoveBlock(i)
      PROVE  RosterTypeOK'
  <2>1. listed' \in Seq(Names) /\ IsInjective(listed')
    BY <1>0, <1>2, TakenOut DEF RemoveBlock, Edit
  <2>2. edits' \in 0..MaxEdits
    BY <1>2, RosterAssumption DEF RemoveBlock, Edit
  <2> QED
    BY <1>2, <2>1, <2>2 DEF RemoveBlock
<1>3. ASSUME NEW p \in Names, SendToken(p)
      PROVE  RosterTypeOK'
  BY <1>3 DEF SendToken
<1>4. CASE ApplyTopology
  BY <1>4 DEF ApplyTopology
<1>5. CASE Command
  BY <1>5, SyncedTypes DEF Command
<1>6. ASSUME NEW u \in Units, Start(u)
      PROVE  RosterTypeOK'
  <2>1. known' \in [Units -> SUBSET Names]
    BY <1>0, <1>6 DEF Start
  <2>2. deploying' \in [Names -> {"nobody", "watcher", "operator"}]
    BY <1>6 DEF Start
  <2>3. starts' \in 0..MaxStarts
    BY <1>6, RosterAssumption DEF Start
  <2>4. enrolled' \in [Names -> Statuses]
    BY <1>6, SyncedTypes DEF Start
  <2> QED
    BY <1>6, <2>1, <2>2, <2>3, <2>4 DEF Start
<1>7. ASSUME NEW p \in Names, DeployNewcomer(p)
      PROVE  RosterTypeOK'
  <2>1. Synced \in [Names -> Statuses] /\ BeginDeploy(p, "operator", Synced) /\ UNCHANGED watched
    BY <1>7, SyncedTypes DEF DeployNewcomer
  <2>2. Begun
    BY <2>1, RowTypes, Zenon
  <2> QED
    BY <2>1, <2>2 DEF Begun
<1>8. ASSUME NEW p \in Names, RedeployWatched(p)
      PROVE  RosterTypeOK'
  <2>1. watched' \in 0..MaxWatched
    BY <1>8, RosterAssumption DEF RedeployWatched
  <2>2. BeginDeploy(p, "watcher", enrolled)
    BY <1>8 DEF RedeployWatched
  <2>3. Begun
    <3>1. enrolled \in [Names -> Statuses] /\ "watcher" \in {"operator", "watcher"}
      OBVIOUS
    <3> QED
      BY <2>2, <3>1, RowTypes, Zenon
  <2> QED
    BY <2>1, <2>3 DEF Begun
<1>9. ASSUME NEW p \in Names, NEW status \in {"running", "failed"}, LandDeploy(p, status)
      PROVE  RosterTypeOK'
  <2>1. enrolled' \in [Names -> Statuses]
    BY <1>9 DEF LandDeploy, Statuses
  <2>2. deploying' \in [Names -> {"nobody", "watcher", "operator"}]
    BY <1>9 DEF LandDeploy
  <2>3. admission' \in [Names -> {"out", "listed", "applied", "deployed", "admitted"}]
    BY <1>9 DEF LandDeploy
  <2> QED
    BY <1>9, <2>1, <2>2, <2>3 DEF LandDeploy
<1>10. CASE UNCHANGED rosterVars
  BY <1>10 DEF rosterVars
<1> QED
  BY <1>1, <1>2, <1>3, <1>4, <1>5, <1>6, <1>7, <1>8, <1>9, <1>10 DEF RosterNext

-----------------------------------------------------------------------------
(***************************************************************************)
(* The addresses, whether or not the organiser only appends.               *)
(***************************************************************************)
\* The watcher's copy is a list that was read, so it is no longer than one may be.
AddressBounded == AddressTypeOK /\ Len(copy) <= MaxPlayers

LEMMA ListedOnce == AddressTypeOK => Once
<1> SUFFICES ASSUME AddressTypeOK
             PROVE  Once
  OBVIOUS
<1>1. DOMAIN blocks = 1..Len(blocks)
  BY DEF AddressTypeOK
<1> QED
  BY <1>1 DEF AddressTypeOK, IsInjective, Once

\* Every position on the list is a place, and every derived table has the table's shape.
LEMMA DerivedTypes ==
  ASSUME AddressBounded
  PROVE  /\ Listed \subseteq Residents
         /\ \A i \in DOMAIN blocks : i \in Somewhere /\ blocks[i] \in Residents
         /\ \A i \in DOMAIN copy : i \in Somewhere /\ copy[i] \in Residents
         /\ SyncedHosts \in [Residents -> Somewhere]
         /\ Wired \in [Places -> Residents \cup {Nobody}]
         /\ Routed \in [Places -> Residents \cup {Nobody}]
<1> USE AddressAssumption
<1>1. /\ blocks \in Seq(Residents) /\ Len(blocks) <= MaxPlayers
      /\ copy \in Seq(Residents) /\ Len(copy) <= MaxPlayers
      /\ hosts \in [Residents -> Somewhere] /\ routes \in [Places -> Residents \cup {Nobody}]
  BY DEF AddressBounded, AddressTypeOK
<1>2. Listed \subseteq Residents
  BY <1>1 DEF Listed, ToSet
<1>3. \A i \in DOMAIN blocks : i \in Places /\ blocks[i] \in Residents
  BY <1>1 DEF Places
<1>4. \A i \in DOMAIN copy : i \in Places /\ copy[i] \in Residents
  BY <1>1 DEF Places
<1>5. \A p \in Listed : Home(p) \in Places
  BY <1>1, ListedOnce, ListedHasPlace DEF AddressBounded, Places
<1>6. SyncedHosts \in [Residents -> Somewhere]
  BY <1>1, <1>5 DEF SyncedHosts, Somewhere
<1>7. Wired \in [Places -> Residents \cup {Nobody}]
  BY <1>3 DEF Wired
<1>8. Routed \in [Places -> Residents \cup {Nobody}]
  BY <1>1, <1>3 DEF Routed
<1> QED
  BY <1>2, <1>3, <1>4, <1>6, <1>7, <1>8 DEF Somewhere

LEMMA AddressStarts ==
  AddressInit => AddressBounded
<1> SUFFICES ASSUME AddressInit
             PROVE  AddressBounded
  OBVIOUS
<1>1. PlacesHold
  BY PlacesHoldInit
<1>2. IsInjective(blocks)
  BY <1>1 DEF PlacesHold, AddressTypes, Once, IsInjective
<1>3. taps \subseteq Residents /\ worker \in [Residents -> {"nobody", "watcher", "operator"}]
  <2>1. Listed \subseteq Residents
    BY <1>1 DEF PlacesHold, AddressTypes, Listed, ToSet
  <2> QED
    BY <2>1 DEF AddressInit
<1>4. applied \in BOOLEAN /\ moves \in 0..MaxMoves /\ Len(copy) <= MaxPlayers
  BY AddressAssumption DEF AddressInit
<1> QED
  BY <1>1, <1>2, <1>3, <1>4 DEF PlacesHold, AddressTypes, AddressBounded, AddressTypeOK

-----------------------------------------------------------------------------
(* One lemma per kind of step. *)

LEMMA RewriteTypes ==
  ASSUME AddressBounded,
         (\E p \in Residents : AppendBlock(p)) \/ (\E i \in DOMAIN blocks : TakeOutBlock(i))
  PROVE  AddressBounded'
<1> USE AddressAssumption
<1>1. /\ blocks \in Seq(Residents) /\ IsInjective(blocks) /\ Len(blocks) <= MaxPlayers
      /\ DOMAIN blocks = 1..Len(blocks) /\ Len(blocks) \in Nat
  BY DEF AddressBounded, AddressTypeOK
<1>2. ASSUME NEW list, Rewrite(list), list \in Seq(Residents), IsInjective(list), Len(list) <= MaxPlayers
      PROVE  AddressBounded'
  <2>1. moves' \in 0..MaxMoves /\ applied' \in BOOLEAN
    <3>1. moves \in 0..MaxMoves /\ moves < MaxMoves /\ moves' = moves + 1
      BY <1>2 DEF Rewrite, AddressBounded, AddressTypeOK
    <3>2. moves' \in 0..MaxMoves
      BY <3>1
    <3>3. applied' \in BOOLEAN
      BY <1>2 DEF Rewrite
    <3> QED
      BY <3>2, <3>3
  <2>2. /\ blocks' = list
        /\ UNCHANGED <<copy, hosts, playing, worker, target, up, taps, routes, disks, guests>>
    BY <1>2 DEF Rewrite, pipelineVars, planeVars
  <2> QED
    BY <1>2, <2>1, <2>2 DEF AddressBounded, AddressTypeOK
<1>3. ASSUME NEW p \in Residents, AppendBlock(p)
      PROVE  AddressBounded'
  <2>1. p \notin ToSet(blocks) /\ Len(blocks) < MaxPlayers /\ Rewrite(Append(blocks, p))
    BY <1>3 DEF AppendBlock, Listed
  <2>2. /\ Append(blocks, p) \in Seq(Residents) /\ Len(Append(blocks, p)) = Len(blocks) + 1
        /\ IsInjective(Append(blocks, p))
    BY <1>1, <2>1, Appended
  <2>3. Len(Append(blocks, p)) <= MaxPlayers
    BY <1>1, <2>1, <2>2
  <2> QED
    BY <1>2, <2>1, <2>2, <2>3
<1>4. ASSUME NEW i \in DOMAIN blocks, TakeOutBlock(i)
      PROVE  AddressBounded'
  <2>1. Rewrite(RemoveAt(blocks, i))
    BY <1>4 DEF TakeOutBlock
  <2>2. /\ RemoveAt(blocks, i) \in Seq(Residents) /\ Len(RemoveAt(blocks, i)) = Len(blocks) - 1
        /\ IsInjective(RemoveAt(blocks, i))
    BY <1>1, TakenOut
  <2>3. Len(RemoveAt(blocks, i)) <= MaxPlayers
    BY <1>1, <2>2
  <2> QED
    BY <1>2, <2>1, <2>2, <2>3
<1> QED
  BY <1>3, <1>4

LEMMA PlaneTypes ==
  ASSUME AddressBounded, ApplyRoutes \/ SyncTable \/ \E p \in Residents : RestartGuest(p)
  PROVE  AddressBounded'
<1>1. CASE ApplyRoutes
  <2>1. taps' \subseteq Residents /\ routes' \in [Places -> Residents \cup {Nobody}] /\ applied' \in BOOLEAN
    BY <1>1, DerivedTypes DEF ApplyRoutes, AddressBounded, AddressTypeOK
  <2> QED
    BY <1>1, <2>1 DEF ApplyRoutes, pipelineVars, AddressBounded, AddressTypeOK
<1>2. CASE SyncTable
  <2>1. hosts' \in [Residents -> Somewhere] /\ playing' \subseteq Residents
    BY <1>2, DerivedTypes DEF SyncTable, SyncPlayers, AddressBounded, AddressTypeOK
  <2> QED
    BY <1>2, <2>1 DEF SyncTable, pipelineVars, planeVars, AddressBounded, AddressTypeOK
<1>3. ASSUME NEW p \in Residents, RestartGuest(p)
      PROVE  AddressBounded'
  <2>1. guests' \in [Residents -> Somewhere]
    BY <1>3 DEF RestartGuest, AddressBounded, AddressTypeOK, Somewhere
  <2> QED
    BY <1>3, <2>1 DEF RestartGuest, pipelineVars, AddressBounded, AddressTypeOK
<1> QED
  BY <1>1, <1>2, <1>3

LEMMA DeployTypes ==
  ASSUME AddressBounded,
         \/ \E i \in DOMAIN blocks : OperatorDeploys(i)
         \/ \E i \in DOMAIN copy : WatcherDeploys(i)
  PROVE  AddressBounded'
<1>1. ASSUME NEW p \in Residents, NEW process \in {"watcher", "operator"}, NEW place \in Somewhere,
             StartPipeline(p, process, place), hosts' \in [Residents -> Somewhere], playing' \subseteq Residents
      PROVE  AddressBounded'
  <2>1. /\ worker' \in [Residents -> {"nobody", "watcher", "operator"}]
        /\ target' \in [Residents -> Somewhere]
    BY <1>1 DEF StartPipeline, AddressBounded, AddressTypeOK
  <2> QED
    BY <1>1, <2>1 DEF StartPipeline, planeVars, AddressBounded, AddressTypeOK
<1>2. ASSUME NEW i \in DOMAIN blocks, OperatorDeploys(i)
      PROVE  AddressBounded'
  <2>1. blocks[i] \in Residents /\ i \in Somewhere
    BY DerivedTypes
  <2>2. hosts' \in [Residents -> Somewhere] /\ playing' \subseteq Residents
    BY <1>2, DerivedTypes DEF OperatorDeploys, AddressBounded, AddressTypeOK
  <2> QED
    BY <1>1, <1>2, <2>1, <2>2 DEF OperatorDeploys
<1>3. ASSUME NEW i \in DOMAIN copy, WatcherDeploys(i)
      PROVE  AddressBounded'
  <2>1. copy[i] \in Residents /\ i \in Somewhere
    BY DerivedTypes
  <2>2. hosts' \in [Residents -> Somewhere] /\ playing' \subseteq Residents
    BY <1>3 DEF WatcherDeploys, AddressBounded, AddressTypeOK
  <2> QED
    BY <1>1, <1>3, <2>1, <2>2 DEF WatcherDeploys
<1> QED
  BY <1>2, <1>3

LEMMA EndedTypes ==
  ASSUME AddressTypeOK, NEW p \in Residents, EndPipeline(p)
  PROVE  /\ worker' \in [Residents -> {"nobody", "watcher", "operator"}]
         /\ target' \in [Residents -> Somewhere] /\ up' \subseteq Residents
BY DEF EndPipeline, AddressTypeOK, Somewhere

LEMMA PipeTypes ==
  ASSUME AddressBounded, NEW p \in Residents, BootGuest(p) \/ RecordRunning(p) \/ Abandon(p)
  PROVE  AddressBounded'
<1>1. CASE BootGuest(p)
  <2>1. /\ disks' \in [Residents -> Somewhere] /\ guests' \in [Residents -> Somewhere]
    BY <1>1 DEF BootGuest, AddressBounded, AddressTypeOK, Somewhere
  <2>2. /\ worker' \in [Residents -> {"nobody", "watcher", "operator"}]
        /\ target' \in [Residents -> Somewhere] /\ up' \subseteq Residents
    <3>1. CASE p \in Listed \cap taps
      BY <1>1, <3>1 DEF BootGuest, AddressBounded, AddressTypeOK
    <3>2. CASE p \notin Listed \cap taps
      BY <1>1, <3>2, EndedTypes DEF BootGuest, AddressBounded
    <3> QED
      BY <3>1, <3>2
  <2> QED
    BY <1>1, <2>1, <2>2 DEF BootGuest, AddressBounded, AddressTypeOK
<1>2. CASE RecordRunning(p)
  <2>1. /\ worker' \in [Residents -> {"nobody", "watcher", "operator"}]
        /\ target' \in [Residents -> Somewhere] /\ up' \subseteq Residents
    BY <1>2, EndedTypes DEF RecordRunning, AddressBounded
  <2>2. playing' \subseteq Residents
    BY <1>2 DEF RecordRunning, AddressBounded, AddressTypeOK
  <2> QED
    BY <1>2, <2>1, <2>2 DEF RecordRunning, planeVars, AddressBounded, AddressTypeOK
<1>3. CASE Abandon(p)
  <2>1. /\ worker' \in [Residents -> {"nobody", "watcher", "operator"}]
        /\ target' \in [Residents -> Somewhere] /\ up' \subseteq Residents
    BY <1>3, EndedTypes DEF Abandon, AddressBounded
  <2> QED
    BY <1>3, <2>1 DEF Abandon, planeVars, AddressBounded, AddressTypeOK
<1> QED
  BY <1>1, <1>2, <1>3

LEMMA StartTypes ==
  ASSUME AddressBounded, StartWatcher \/ RestartHost
  PROVE  AddressBounded'
<1>1. /\ blocks \in Seq(Residents) /\ IsInjective(blocks) /\ Len(blocks) <= MaxPlayers
      /\ blocks' = blocks /\ copy' = blocks /\ moves' = moves
  BY DEF StartWatcher, RestartHost, AddressBounded, AddressTypeOK
<1>2. hosts' \in [Residents -> Somewhere] /\ playing' \subseteq Residents
  BY DerivedTypes DEF StartWatcher, RestartHost, SyncPlayers, AddressBounded, AddressTypeOK
<1>3. CASE StartWatcher
  <2>1. /\ worker' \in [Residents -> {"nobody", "watcher", "operator"}]
        /\ target' \in [Residents -> Somewhere] /\ up' \subseteq Residents
    BY <1>3 DEF StartWatcher, AddressBounded, AddressTypeOK, Somewhere
  <2>2. UNCHANGED <<taps, routes, disks, guests, applied>>
    BY <1>3 DEF StartWatcher, planeVars
  <2> QED
    BY <1>1, <1>2, <2>1, <2>2 DEF AddressBounded, AddressTypeOK
<1>4. CASE RestartHost
  <2>1. /\ worker' \in [Residents -> {"nobody", "watcher", "operator"}]
        /\ target' \in [Residents -> Somewhere] /\ up' \subseteq Residents
        /\ guests' \in [Residents -> Somewhere]
    BY <1>4 DEF RestartHost, AddressBounded, AddressTypeOK, Somewhere
  <2>2. /\ taps' \subseteq Residents /\ routes' \in [Places -> Residents \cup {Nobody}]
        /\ applied' \in BOOLEAN /\ disks' = disks
    BY <1>4, DerivedTypes DEF RestartHost
  <2> QED
    BY <1>1, <1>2, <2>1, <2>2 DEF AddressBounded, AddressTypeOK
<1> QED
  BY <1>3, <1>4

LEMMA AddressStays ==
  AddressBounded /\ [AddressNext]_addressVars => AddressBounded'
<1> SUFFICES ASSUME AddressBounded, [AddressNext]_addressVars
             PROVE  AddressBounded'
  OBVIOUS
<1>1. CASE UNCHANGED addressVars
  BY <1>1 DEF addressVars, pipelineVars, planeVars, AddressBounded, AddressTypeOK
<1>2. CASE AddressNext
  BY <1>2, RewriteTypes, PlaneTypes, DeployTypes, PipeTypes, StartTypes, Zenon DEF AddressNext
<1> QED
  BY <1>1, <1>2

-----------------------------------------------------------------------------
(* Side by side: each part steps alone. *)

PartsBounded ==
  /\ BoardInv /\ TypeOK /\ SeasonBounded
  /\ RosterTypeOK /\ LimiterBounded /\ AddressBounded

LEMMA PartsStay ==
  PartsBounded /\ [PartsNext]_partsVars => PartsBounded'
<1> SUFFICES ASSUME PartsBounded, [PartsNext]_partsVars
             PROVE  PartsBounded'
  OBVIOUS
<1>1. /\ [BoardNext]_boardVars /\ [Next]_vars /\ [SeasonNext]_seasonVars
      /\ [RosterNext]_rosterVars /\ [LimiterNext]_limiterVars /\ [AddressNext]_addressVars
  <2>1. CASE PartsNext
    BY <2>1, Zenon DEF PartsNext
  <2>2. CASE UNCHANGED partsVars
    BY <2>2 DEF partsVars
  <2> QED
    BY <2>1, <2>2
<1>2. BoardInv'
  BY <1>1, BoardStays, Zenon DEF PartsBounded
<1>3. TypeOK'
  BY <1>1, NextTypes, Zenon DEF PartsBounded
<1>4. SeasonBounded'
  BY <1>1, SeasonStays, Zenon DEF PartsBounded
<1>5. RosterTypeOK'
  BY <1>1, RosterStays, Zenon DEF PartsBounded
<1>6. LimiterBounded'
  BY <1>1, LimiterStays, Zenon DEF PartsBounded
<1>7. AddressBounded'
  BY <1>1, AddressStays, Zenon DEF PartsBounded
<1> QED
  BY <1>2, <1>3, <1>4, <1>5, <1>6, <1>7, Zenon DEF PartsBounded

\* The shape of every part's variables, the stages of their threads and the lists of
\* names and addresses included, for any players, processes, handlers and bounds.
THEOREM PartsWellTyped == PartsSpec => []PartsTypeOK
<1>1. PartsInit => PartsBounded
  <2>1. Init => TypeOK
    BY DEF Init, TypeOK
  <2> QED
    BY <2>1, BoardStarts, SeasonStarts, RosterStarts, LimiterStarts, AddressStarts, Zenon
    DEF PartsInit, PartsBounded
<1>2. PartsBounded => PartsTypeOK
  BY SeasonTypesOf, LimiterTypesOf, Zenon DEF PartsBounded, PartsTypeOK, BoardInv, AddressBounded
<1> QED
  BY PartsStay, <1>1, <1>2, PTL DEF PartsSpec
=============================================================================
