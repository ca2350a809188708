-------------------------------- MODULE Roster --------------------------------
(***************************************************************************)
(* The player list: [[players]] blocks in ctf.toml, which the organiser    *)
(* edits, the players table, which every process and ctfctl command brings *)
(* in line with the list as it starts (Store.sync_roster), and the copies  *)
(* that the submission API and the watcher keep of the list they started   *)
(* with.  Any later block is appended; any block may be taken out.         *)
(***************************************************************************)
EXTENDS Integers, Sequences, SequencesExt

CONSTANTS
  Names,          \* who may be on the list
  MaxEdits,       \* bound: edits of ctf.toml
  MaxWatched,     \* bound: pushes the watcher redeploys for
  MaxStarts       \* bound: how often a unit is started again

ASSUME RosterAssumption == {MaxEdits, MaxWatched, MaxStarts} \subseteq Nat

Units == {"submit", "watcher"}

VARIABLES
  listed,       \* the names in ctf.toml
  known,        \* per unit: the names it started with
  enrolled,     \* the players table: status by name
  deploying,    \* per name: whether a pipeline is under way, and its process
  admission,    \* per name: how far the organiser is in the procedure for newcomers
  edits, watched, starts

rosterVars == <<listed, known, enrolled, deploying, admission, edits, watched, starts>>

Statuses == {"absent", "unknown", "building", "running", "failed", "disabled"}

RosterTypeOK ==
  /\ listed \in Seq(Names) /\ IsInjective(listed)
  /\ known \in [Units -> SUBSET Names]
  /\ enrolled \in [Names -> Statuses]
  /\ deploying \in [Names -> {"nobody", "watcher", "operator"}]
  /\ admission \in [Names -> {"out", "listed", "applied", "deployed", "admitted"}]
  /\ edits \in 0..MaxEdits /\ watched \in 0..MaxWatched /\ starts \in 0..MaxStarts

OnList == ToSet(listed)

\* Mutant of Synced: the rows of names no longer listed are left alone.
SyncedInserts ==
  [p \in Names |-> IF p \in OnList /\ enrolled[p] = "absent" THEN "unknown" ELSE enrolled[p]]

\* sync_roster: a row is inserted or disabled; a listed one keeps its status, were it
\* disabled too.  Each statement touches one row.
Synced ==
  [p \in Names |-> CASE p \in OnList -> IF enrolled[p] = "absent" THEN "unknown" ELSE enrolled[p]
                     [] p \notin OnList -> IF enrolled[p] = "absent" THEN "absent" ELSE "disabled"]

\* The game has begun with one player, deployed.
RosterInit ==
  /\ \E first \in Names :
       /\ listed = <<first>>
       /\ known = [u \in Units |-> {first}]
       /\ enrolled = [p \in Names |-> IF p = first THEN "running" ELSE "absent"]
       /\ admission = [p \in Names |-> IF p = first THEN "admitted" ELSE "out"]
  /\ deploying = [p \in Names |-> "nobody"]
  /\ edits = 0 /\ watched = 0 /\ starts = 0

-----------------------------------------------------------------------------
(* The organiser.  OPERATIONS.md: the block is appended, the topology      *)
(* applied, the newcomer deployed, and the token sent.                     *)

Edit(list) == edits < MaxEdits /\ edits' = edits + 1 /\ listed' = list

AddBlock(p) ==
  /\ p \notin OnList
  /\ Edit(Append(listed, p))
  /\ admission' = [admission EXCEPT ![p] = "listed"]
  /\ UNCHANGED <<known, enrolled, deploying, watched, starts>>

\* config.load refuses an empty list.
RemoveBlock(i) ==
  /\ Len(listed) > 1
  /\ Edit(RemoveAt(listed, i))
  /\ admission' = [admission EXCEPT ![listed[i]] = "out"]
  /\ UNCHANGED <<known, enrolled, deploying, watched, starts>>

ApplyTopology ==
  /\ \E p \in OnList : admission[p] = "listed"
  /\ admission' = [p \in Names |-> IF admission[p] = "listed" THEN "applied" ELSE admission[p]]
  /\ UNCHANGED <<listed, known, enrolled, deploying, edits, watched, starts>>

SendToken(p) ==
  /\ admission[p] = "deployed"
  /\ admission' = [admission EXCEPT ![p] = "admitted"]
  /\ UNCHANGED <<listed, known, enrolled, deploying, edits, watched, starts>>

\* A ctfctl command that opens the ledger; the hourly backup is one.
Command ==
  /\ enrolled' = Synced
  /\ UNCHANGED <<listed, known, deploying, admission, edits, watched, starts>>

-----------------------------------------------------------------------------
(* The units read the list as they start. *)
Start(u) ==
  /\ starts < MaxStarts
  /\ starts' = starts + 1
  /\ known' = [known EXCEPT ![u] = OnList]
  /\ enrolled' = Synced
  /\ deploying' = [p \in Names |->
       IF u = "watcher" /\ deploying[p] = "watcher" THEN "nobody" ELSE deploying[p]]
  /\ UNCHANGED <<listed, admission, edits, watched>>

\* set_status is an UPDATE: it finds no row of a player nobody has synced.
BeginDeploy(p, process, rows) ==
  /\ deploying[p] = "nobody"
  /\ enrolled' = [rows EXCEPT ![p] = IF @ = "absent" THEN @ ELSE "building"]
  /\ deploying' = [deploying EXCEPT ![p] = process]
  /\ UNCHANGED <<listed, known, admission, edits, starts>>

DeployNewcomer(p) ==
  /\ p \in OnList /\ admission[p] = "applied"
  /\ BeginDeploy(p, "operator", Synced)
  /\ UNCHANGED watched

RedeployWatched(p) ==
  /\ p \in known["watcher"] /\ \A q \in Names : deploying[q] # "watcher"
  /\ watched < MaxWatched
  /\ watched' = watched + 1
  /\ BeginDeploy(p, "watcher", enrolled)

\* record_deploy, whatever the row has come to meanwhile.  vm.sh reads the list anew,
\* and starts no VM of a name that is not on it.
LandDeploy(p, status) ==
  /\ deploying[p] # "nobody"
  /\ status = "running" => p \in OnList
  /\ enrolled' = [enrolled EXCEPT ![p] = IF @ = "absent" THEN @ ELSE status]
  /\ deploying' = [deploying EXCEPT ![p] = "nobody"]
  /\ admission' = [admission EXCEPT ![p] =
       IF @ = "applied" /\ deploying[p] = "operator" /\ status = "running" THEN "deployed" ELSE @]
  /\ UNCHANGED <<listed, known, edits, watched, starts>>

RosterNext ==
  \/ \E p \in Names :
       \/ AddBlock(p) \/ SendToken(p)
       \/ DeployNewcomer(p) \/ RedeployWatched(p)
       \/ \E status \in {"running", "failed"} : LandDeploy(p, status)
  \/ \E i \in DOMAIN listed : RemoveBlock(i)
  \/ ApplyTopology \/ Command
  \/ \E u \in Units : Start(u)

RosterSpec == RosterInit /\ [][RosterNext]_rosterVars

\* The backup timer's command runs every hour.
RosterFairSpec == RosterSpec /\ WF_rosterVars(Command)

-----------------------------------------------------------------------------
Probed(p) == enrolled[p] \notin {"absent", "disabled"}

\* OPERATIONS.md: players taken off the list "are marked disabled and stop being
\* probed", whatever deploys of theirs are under way or begun by a watcher that still
\* lists them, once the editing and the pushing are over.
RemovedAreNotProbed == <>[](\A p \in Names \ OnList : ~Probed(p))

\* OPERATIONS.md, "Give them a slot in the game": at the end of the procedure the
\* newcomer's token is one the submission API knows.
NewcomersCanSubmit == \A p \in Names : admission[p] = "admitted" => p \in known["submit"]
=============================================================================
