------------------------------- MODULE Deploys -------------------------------
(***************************************************************************)
(* Redeployment (orchestrator/watcher.py, deploy.py, `ctfctl deploy`).     *)
(* The watcher sweeps the roster and runs the build pipeline for whoever   *)
(* has pushed; an operator may run the same pipeline beside it.  Nothing   *)
(* locks a player: two pipelines share the working tree, the build output  *)
(* and the VM.  A pipeline ends in a deploy row, or in an exception that   *)
(* is not a DeployError, which nobody catches.                             *)
(***************************************************************************)
EXTENDS Integers

CONSTANTS
  Players, Index,   \* the roster and its order
  Revs,             \* revisions, a later push having a greater number
  Kind,             \* what the pipeline makes of a revision
  Operators,        \* ctfctl deploy invocations that may overlap
  Rewinds,          \* whether a branch may be moved back to an older revision
  Flaky,            \* whether git, the VM and a good service's health may fail
  MaxPushes,        \* bound: pushes
  MaxDeaths         \* bound: how often a pipeline's process is killed

\* "garbled" is a service.toml on which load_manifest raises something other than
\* a ManifestError; "sick" code builds and never passes the healthcheck.
Kinds == {"good", "sick", "broken", "rejected", "garbled"}

Nothing == 0        \* no tree, no image, no revision on record
Hollow == -1        \* a build directory holding only the fixtures

ASSUME DeploysAssumption ==
  /\ Index \in [Players -> Nat]
  /\ Revs \subseteq Nat \ {Nothing}
  /\ Kind \in [Revs -> Kinds]
  /\ Rewinds \in BOOLEAN /\ Flaky \in BOOLEAN

VARIABLES
  head,       \* per player: the tip of the branch
  rows,       \* per player: status and rev of the players row
  recent,     \* players with an `ok` deploy row younger than redeploy_min_interval
  work,       \* per player: the revision in players/<name>/src
  built,      \* per player: the revision in artifacts/<name>/build
  image,      \* per player: the revision on the data disk last packed
  vm,         \* per player: the revision of the image the VM was last started on
  pipeline,   \* per process: where its deploy() is, and its locals
  left,       \* players the watcher's sweep has not reached
  overlapped, \* history: players two pipelines worked on at once
  pushes, deaths

vars == <<head, rows, recent, work, built, image, vm, pipeline, left, overlapped, pushes, deaths>>

Watcher == "watcher"
Processes == {Watcher} \cup Operators

Stages == {"fetch", "checkout", "load", "build", "compile", "pack", "restart", "health", "land"}
NoPlayer == "nobody"
Idle == [at |-> "idle", player |-> NoPlayer, rev |-> Nothing]
Dead == [Idle EXCEPT !.at = "dead"]

TypeOK ==
  /\ head \in [Players -> Revs \cup {Nothing}]
  /\ rows \in [Players -> [status: {"unknown", "building", "deploying", "running", "failed"},
                           rev: Revs \cup {Nothing}]]
  /\ recent \subseteq Players /\ overlapped \subseteq Players /\ left \subseteq Players
  /\ work \in [Players -> Revs \cup {Nothing}]
  /\ built \in [Players -> Revs \cup {Nothing, Hollow}]
  /\ image \in [Players -> Revs \cup {Nothing, Hollow}]
  /\ vm \in [Players -> Revs \cup {Nothing, Hollow}]
  /\ pipeline \in [Processes ->
       [at: {"fetch"}, player: Players, rev: Revs \cup {Nothing}]
       \cup [at: Stages \ {"fetch"}, player: Players, rev: Revs] \cup {Idle, Dead}]
  /\ pushes \in Nat /\ deaths \in Nat

Init ==
  /\ head = [p \in Players |-> Nothing]
  /\ rows = [p \in Players |-> [status |-> "unknown", rev |-> Nothing]]
  /\ recent = {} /\ overlapped = {}
  /\ work = [p \in Players |-> Nothing]
  /\ built = [p \in Players |-> Nothing]
  /\ image = [p \in Players |-> Nothing]
  /\ vm = [p \in Players |-> Nothing]
  /\ pipeline = [d \in Processes |-> Idle]
  /\ left = {}
  /\ pushes = 0 /\ deaths = 0

-----------------------------------------------------------------------------
(* The world around the pipeline. *)

Push(p, rev) ==
  /\ pushes < MaxPushes
  /\ rev # head[p]
  /\ rev > head[p] \/ Rewinds
  /\ head' = [head EXCEPT ![p] = rev]
  /\ pushes' = pushes + 1
  /\ UNCHANGED <<rows, recent, work, built, image, vm, pipeline, left, overlapped, deaths>>

\* redeploy_min_interval passes.
Elapse(p) ==
  /\ p \in recent
  /\ recent' = recent \ {p}
  /\ UNCHANGED <<head, rows, work, built, image, vm, pipeline, left, overlapped, pushes, deaths>>

-----------------------------------------------------------------------------
(* How a pipeline goes on, and the three ways it ends. *)

SetStatus(p, status) == rows' = [rows EXCEPT ![p].status = status]

Advance(d, at) == pipeline' = [pipeline EXCEPT ![d].at = at]

\* record_deploy with status "failed": no row of the deploys table that
\* last_deploy_time would count.
Fail(d) ==
  /\ SetStatus(pipeline[d].player, "failed")
  /\ pipeline' = [pipeline EXCEPT ![d] = Idle]

\* The process dies of it; the player's row stays as it is.
Raise(d) ==
  /\ pipeline' = [pipeline EXCEPT ![d] = IF d = Watcher THEN Dead ELSE Idle]
  /\ UNCHANGED rows

\* The rate limit is consulted once, and the status set.  `rev` is the revision
\* asked for, or Nothing for the tip of the branch.
Begin(d, p, rev, force) ==
  /\ pipeline[d] = Idle
  /\ force \/ p \notin recent
  /\ SetStatus(p, "building")
  /\ pipeline' = [pipeline EXCEPT ![d] = [at |-> "fetch", player |-> p, rev |-> rev]]
  /\ overlapped' = IF \E other \in Processes : pipeline[other].player = p
                   THEN overlapped \cup {p} ELSE overlapped
  /\ UNCHANGED <<head, recent, work, built, image, vm, pushes, deaths>>

\* Mutant of Fetch: the branch name is passed on unresolved.
FetchUnresolved(d) ==
  /\ pipeline[d].at = "fetch"
  /\ work' = [work EXCEPT ![pipeline[d].player] = Nothing]
  /\ Advance(d, "checkout")
  /\ UNCHANGED <<head, rows, recent, built, image, vm, left, overlapped, pushes, deaths>>

\* sync_repo up to the removal of the old tree.
Fetch(d) ==
  LET p == pipeline[d].player
      asked == pipeline[d].rev
      rev == IF asked = Nothing THEN head[p] ELSE asked
  IN  /\ pipeline[d].at = "fetch"
      /\ \/ /\ rev # Nothing
            /\ work' = [work EXCEPT ![p] = Nothing]
            /\ pipeline' = [pipeline EXCEPT ![d].at = "checkout", ![d].rev = rev]
            /\ UNCHANGED rows
         \/ (Flaky \/ rev = Nothing) /\ Fail(d) /\ UNCHANGED work
      /\ UNCHANGED <<head, recent, built, image, vm, left, overlapped, pushes, deaths>>

\* work.mkdir() raises when another pipeline has made the directory meanwhile.
Checkout(d) ==
  LET p == pipeline[d].player
  IN  /\ pipeline[d].at = "checkout"
      /\ \/ work[p] = Nothing /\ work' = [work EXCEPT ![p] = pipeline[d].rev]
            /\ Advance(d, "load") /\ UNCHANGED rows
         \/ work[p] # Nothing /\ Raise(d) /\ UNCHANGED work
         \/ Flaky /\ Fail(d) /\ UNCHANGED work
      /\ UNCHANGED <<head, recent, built, image, vm, left, overlapped, pushes, deaths>>

\* Mutant of Load: whatever the manifest check raises is passed over.
LoadAnything(d) ==
  /\ pipeline[d].at = "load"
  /\ Advance(d, "build")
  /\ UNCHANGED <<rows, head, recent, work, built, image, vm, left, overlapped, pushes, deaths>>

\* A tree that is gone is an OSError, and counts as a rejected manifest.
Load(d) ==
  LET tree == work[pipeline[d].player]
      kind == IF tree = Nothing THEN "rejected" ELSE Kind[tree]
  IN  /\ pipeline[d].at = "load"
      /\ CASE kind = "rejected" -> Fail(d)
           [] kind = "garbled"  -> Raise(d)
           [] OTHER             -> Advance(d, "build") /\ UNCHANGED rows
      /\ UNCHANGED <<head, recent, work, built, image, vm, left, overlapped, pushes, deaths>>

\* build() removes the last output, then runs the sandbox on the tree, then
\* copies the result to where the last output was: copytree raises if something
\* is there again.
ClearBuild(d) ==
  /\ pipeline[d].at = "build"
  /\ built' = [built EXCEPT ![pipeline[d].player] = Nothing]
  /\ Advance(d, "compile")
  /\ UNCHANGED <<head, rows, recent, work, image, vm, left, overlapped, pushes, deaths>>

Compile(d) ==
  LET p == pipeline[d].player
      builds == work[p] # Nothing /\ Kind[work[p]] # "broken"
  IN  /\ pipeline[d].at = "compile"
      /\ \/ ~builds /\ Fail(d) /\ UNCHANGED built
         \/ builds /\ built[p] # Nothing /\ Raise(d) /\ UNCHANGED built
         \/ builds /\ built[p] = Nothing /\ built' = [built EXCEPT ![p] = work[p]]
            /\ Advance(d, "pack") /\ UNCHANGED rows
      /\ UNCHANGED <<head, recent, work, image, vm, left, overlapped, pushes, deaths>>

\* plant_fixtures makes the directory if it is gone, and pack_disk an image of it,
\* which a tree too large for the disk prevents.
Pack(d) ==
  LET p == pipeline[d].player
  IN  /\ pipeline[d].at = "pack"
      /\ built' = [built EXCEPT ![p] = IF @ = Nothing THEN Hollow ELSE @]
      /\ \/ image' = [image EXCEPT ![p] = built'[p]]
            /\ SetStatus(p, "deploying") /\ Advance(d, "restart")
         \/ Flaky /\ Fail(d) /\ UNCHANGED image
      /\ UNCHANGED <<head, recent, work, vm, left, overlapped, pushes, deaths>>

\* vm.sh restart: the VM goes down, and comes up on the image last packed.  Where it
\* fails the old VM may be gone or not.
RestartVm(d) ==
  LET p == pipeline[d].player
  IN  /\ pipeline[d].at = "restart"
      /\ \/ vm' = [vm EXCEPT ![p] = image[p]] /\ Advance(d, "health") /\ UNCHANGED rows
         \/ Flaky /\ vm' \in {vm, [vm EXCEPT ![p] = Nothing]} /\ Fail(d)
      /\ UNCHANGED <<head, recent, work, built, image, left, overlapped, pushes, deaths>>

\* Mutant of HealthCheck: an answer is not waited for.
SkipHealthCheck(d) ==
  /\ pipeline[d].at = "health"
  /\ Advance(d, "land")
  /\ UNCHANGED <<rows, head, recent, work, built, image, vm, left, overlapped, pushes, deaths>>

HealthCheck(d) ==
  LET running == vm[pipeline[d].player]
      healthy == running \in Revs /\ Kind[running] = "good"
  IN  /\ pipeline[d].at = "health"
      /\ \/ healthy /\ Advance(d, "land") /\ UNCHANGED rows
         \/ (~healthy \/ Flaky) /\ Fail(d)
      /\ UNCHANGED <<head, recent, work, built, image, vm, left, overlapped, pushes, deaths>>

\* record_deploy with status "ok".
Land(d) ==
  LET p == pipeline[d].player
  IN  /\ pipeline[d].at = "land"
      /\ rows' = [rows EXCEPT ![p] = [status |-> "running", rev |-> pipeline[d].rev]]
      /\ recent' = recent \cup {p}
      /\ pipeline' = [pipeline EXCEPT ![d] = Idle]
      /\ UNCHANGED <<head, work, built, image, vm, left, overlapped, pushes, deaths>>

Stage(d) ==
  \/ Fetch(d) \/ Checkout(d) \/ Load(d) \/ ClearBuild(d) \/ Compile(d)
  \/ Pack(d) \/ RestartVm(d) \/ HealthCheck(d) \/ Land(d)

-----------------------------------------------------------------------------
(* The watcher's sweep: players in roster order, each compared with the    *)
(* revision on record.  A DeployError, the rate limit's included, is       *)
(* logged, and the sweep goes on.                                          *)
IsNext(p) == p \in left /\ \A q \in left : Index[p] <= Index[q]

Sweep ==
  /\ pipeline[Watcher] = Idle
  /\ left = {}
  /\ left' = Players
  /\ UNCHANGED <<head, rows, recent, work, built, image, vm, pipeline, overlapped, pushes, deaths>>

\* Mutant of PassOver: whoever is running is left alone too.
PassOverRunning(p) ==
  /\ pipeline[Watcher] = Idle
  /\ IsNext(p)
  /\ rows[p].status = "running" \/ head[p] \in {Nothing, rows[p].rev} \/ p \in recent
  /\ left' = left \ {p}
  /\ UNCHANGED <<head, rows, recent, work, built, image, vm, pipeline, overlapped, pushes, deaths>>

PassOver(p) ==
  /\ pipeline[Watcher] = Idle
  /\ IsNext(p)
  /\ head[p] \in {Nothing, rows[p].rev} \/ p \in recent \/ Flaky
  /\ left' = left \ {p}
  /\ UNCHANGED <<head, rows, recent, work, built, image, vm, pipeline, overlapped, pushes, deaths>>

Redeploy(p) ==
  /\ IsNext(p)
  /\ head[p] \notin {Nothing, rows[p].rev}
  /\ Begin(Watcher, p, head[p], FALSE)
  /\ left' = left \ {p}

\* systemd starts the watcher again.
Revive ==
  /\ pipeline[Watcher] = Dead
  /\ pipeline' = [pipeline EXCEPT ![Watcher] = Idle]
  /\ left' = {}
  /\ UNCHANGED <<head, rows, recent, work, built, image, vm, overlapped, pushes, deaths>>

WatcherStep ==
  \/ Sweep
  \/ \E p \in left : PassOver(p) \/ Redeploy(p)
  \/ Stage(Watcher)
  \/ Revive

\* ctfctl deploy, with or without --rev and --force.
OperatorStep(o) ==
  \/ \E p \in Players, rev \in Revs \cup {Nothing}, force \in BOOLEAN :
       Begin(o, p, rev, force) /\ UNCHANGED left
  \/ Stage(o)

\* A process is killed in the middle of a pipeline.
Die(d) ==
  /\ deaths < MaxDeaths
  /\ pipeline[d].at \in Stages
  /\ Raise(d)
  /\ deaths' = deaths + 1
  /\ UNCHANGED <<head, recent, work, built, image, vm, left, overlapped, pushes>>

Next ==
  \/ \E p \in Players : Elapse(p) \/ \E rev \in Revs : Push(p, rev)
  \/ WatcherStep
  \/ \E o \in Operators : OperatorStep(o)
  \/ \E d \in Processes : Die(d)

Spec == Init /\ [][Next]_vars

\* The watcher's loop goes on, subprocesses and healthchecks having time limits,
\* and so does time.
FairSpec == Spec /\ WF_vars(WatcherStep) /\ \A p \in Players : WF_vars(Elapse(p))

-----------------------------------------------------------------------------
\* The players row tells the truth: a service on record as running is the
\* recorded revision, and it passed its healthcheck, unless two pipelines of that
\* player have overlapped.
RecordIsTrue ==
  \A p \in Players \ overlapped :
    rows[p].status = "running" => vm[p] = rows[p].rev /\ Kind[vm[p]] = "good"

\* RULES 3: a bad manifest fails deploy.  No VM is ever started on code that did
\* not pass the manifest check and the build, with the same exception.
OnlyVettedCodeRuns ==
  \A p \in Players \ overlapped :
    vm[p] # Nothing => vm[p] \in Revs /\ Kind[vm[p]] \in {"good", "sick"}

\* RULES 8, "a push = redeploy = a patch": once the pushing is over, every player
\* whose branch ends in working code has that code in service.
LastPushIsServed ==
  \A p \in Players :
    <>[](/\ head[p] # Nothing /\ Kind[head[p]] = "good"
         => rows[p].status = "running" /\ vm[p] = head[p])
=============================================================================
