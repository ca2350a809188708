---------------------------- MODULE DeploysProofs ----------------------------
(***************************************************************************)
(* Theorems about Deploys, for every roster, every history of pushes and   *)
(* any number of operators, whatever fails and whoever is killed.          *)
(***************************************************************************)
EXTENDS Deploys, TLAPS

-----------------------------------------------------------------------------
(***************************************************************************)
(* Type correctness.  A pipeline past its fetch has a revision: the tip of *)
(* the branch is resolved before the tree is checked out.                  *)
(***************************************************************************)
Fetching == [at: {"fetch"}, player: Players, rev: Revs \cup {Nothing}]
Working == [at: Stages \ {"fetch"}, player: Players, rev: Revs]
Records == [status: {"unknown", "building", "deploying", "running", "failed"}, rev: Revs \cup {Nothing}]
Pipelines == Fetching \cup Working \cup {Idle, Dead}

LEMMA PipelineTypes ==
  ASSUME TypeOK
  PROVE  /\ pipeline \in [Processes -> Pipelines]
         /\ \A d \in Processes : pipeline[d].at \in Stages =>
              /\ pipeline[d].player \in Players
              /\ pipeline[d] \in Fetching \/ pipeline[d] \in Working
         /\ \A d \in Processes : pipeline[d].at \in Stages \ {"fetch"} =>
              pipeline[d] \in Working /\ pipeline[d].rev \in Revs
BY DEF TypeOK, Records, Pipelines, Fetching, Working, Idle, Dead, Stages

\* A pipeline at a stage goes on to a later one, or ends.
LEMMA AdvanceTypes ==
  ASSUME TypeOK, NEW d \in Processes, NEW at \in Stages \ {"fetch"},
         pipeline[d].at \in Stages \ {"fetch"}, Advance(d, at)
  PROVE  pipeline' \in [Processes -> Pipelines]
<1>1. pipeline[d] \in Working /\ pipeline \in [Processes -> Pipelines]
  BY PipelineTypes
<1>2. [pipeline[d] EXCEPT !.at = at] \in Working
  BY <1>1 DEF Working
<1> QED
  BY <1>1, <1>2 DEF Advance, Pipelines

LEMMA EndTypes ==
  ASSUME TypeOK, NEW d \in Processes, pipeline[d].at \in Stages, Fail(d) \/ Raise(d)
  PROVE  /\ pipeline' \in [Processes -> Pipelines]
         /\ rows' \in [Players -> Records]
<1>1. pipeline \in [Processes -> Pipelines] /\ pipeline[d].player \in Players
  BY PipelineTypes
<1>2. Idle \in Pipelines /\ Dead \in Pipelines
  BY DEF Pipelines
<1>3. rows \in [Players -> Records] /\ \A row \in Records : [row EXCEPT !.status = "failed"] \in Records
  BY DEF TypeOK, Records
<1>4. CASE Fail(d)
  BY <1>1, <1>2, <1>3, <1>4 DEF Fail, SetStatus
<1>5. CASE Raise(d)
  BY <1>1, <1>2, <1>3, <1>5 DEF Raise
<1> QED
  BY <1>4, <1>5

LEMMA StatusTypes ==
  ASSUME TypeOK, NEW p \in Players, NEW status \in {"building", "deploying"}, SetStatus(p, status)
  PROVE  rows' \in [Players -> Records]
BY DEF TypeOK, SetStatus, Records

LEMMA StageTypes ==
  ASSUME TypeOK, NEW d \in Processes, Stage(d)
  PROVE  TypeOK'
<1> DEFINE p == pipeline[d].player
           rev == pipeline[d].rev
           here == pipeline[d].at
<1>1. here \in Stages /\ p \in Players /\ pipeline \in [Processes -> Pipelines]
  BY PipelineTypes DEF Stage, Fetch, Checkout, Load, ClearBuild, Compile, Pack, RestartVm, HealthCheck, Land,
     Stages
<1>2. here # "fetch" => rev \in Revs
  BY <1>1, PipelineTypes
<1>3. Fail(d) \/ Raise(d) =>
        /\ pipeline' \in [Processes -> Pipelines]
        /\ rows' \in [Players -> Records]
  BY <1>1, EndTypes
<1>4. \A at \in Stages \ {"fetch"} : here # "fetch" /\ Advance(d, at) => pipeline' \in [Processes -> Pipelines]
  BY <1>1, AdvanceTypes
<1>5. /\ rows \in [Players -> Records]
      /\ work \in [Players -> Revs \cup {Nothing}]
      /\ built \in [Players -> Revs \cup {Nothing, Hollow}]
      /\ image \in [Players -> Revs \cup {Nothing, Hollow}]
      /\ vm \in [Players -> Revs \cup {Nothing, Hollow}]
      /\ head \in [Players -> Revs \cup {Nothing}]
  BY DEF TypeOK, Records
<1> USE DEF Stages
<1>6. CASE Fetch(d)
  <2> DEFINE asked == IF rev = Nothing THEN head[p] ELSE rev
  <2>1. CASE Fail(d)
    BY <1>3, <1>6, <2>1 DEF Fetch, TypeOK, Records, Pipelines, Fetching, Working
  <2>2. CASE ~Fail(d)
    <3>1. asked # Nothing /\ work' = [work EXCEPT ![p] = Nothing] /\ UNCHANGED rows
          /\ pipeline' = [pipeline EXCEPT ![d].at = "checkout", ![d].rev = asked]
      BY <1>6, <2>2 DEF Fetch
    <3>2. pipeline[d] \in Fetching /\ asked \in Revs
      BY <1>1, <1>5, <1>6, <3>1 DEF Fetch, Pipelines, Fetching, Working, Idle, Dead
    <3>3. [pipeline[d] EXCEPT !.at = "checkout", !.rev = asked] \in Working
      BY <3>2 DEF Fetching, Working
    <3>4. pipeline' \in [Processes -> Pipelines]
      BY <1>1, <3>1, <3>3 DEF Pipelines
    <3> QED
      BY <1>1, <1>5, <1>6, <3>1, <3>4 DEF Fetch, TypeOK, Records, Pipelines, Fetching, Working
  <2> QED
    BY <2>1, <2>2
<1>7. CASE Checkout(d)
  BY <1>1, <1>2, <1>3, <1>4, <1>5, <1>7 DEF Checkout, TypeOK, Records, Pipelines, Fetching, Working
<1>8. CASE Load(d)
  BY <1>1, <1>2, <1>3, <1>4, <1>5, <1>8 DEF Load, TypeOK, Records, Pipelines, Fetching, Working
<1>9. CASE ClearBuild(d)
  BY <1>1, <1>2, <1>4, <1>5, <1>9 DEF ClearBuild, TypeOK, Records, Pipelines, Fetching, Working
<1>10. CASE Compile(d)
  BY <1>1, <1>2, <1>3, <1>4, <1>5, <1>10 DEF Compile, TypeOK, Records, Pipelines, Fetching, Working
<1>11. CASE Pack(d)
  BY <1>1, <1>2, <1>3, <1>4, <1>5, <1>11, StatusTypes DEF Pack, TypeOK, Records, Pipelines, Fetching, Working
<1>12. CASE RestartVm(d)
  BY <1>1, <1>2, <1>3, <1>4, <1>5, <1>12 DEF RestartVm, TypeOK, Records, Pipelines, Fetching, Working
<1>13. CASE HealthCheck(d)
  BY <1>1, <1>2, <1>3, <1>4, <1>5, <1>13 DEF HealthCheck, TypeOK, Records, Pipelines, Fetching, Working
<1>14. CASE Land(d)
  BY <1>1, <1>2, <1>5, <1>14 DEF Land, TypeOK, Records, Pipelines, Fetching, Working
<1> QED
  BY <1>6, <1>7, <1>8, <1>9, <1>10, <1>11, <1>12, <1>13, <1>14 DEF Stage

LEMMA BeginTypes ==
  ASSUME TypeOK, NEW d \in Processes, NEW p \in Players, NEW rev \in Revs \cup {Nothing}, NEW force,
         Begin(d, p, rev, force), left' \subseteq left
  PROVE  TypeOK'
<1>1. pipeline' \in [Processes -> Pipelines]
  BY PipelineTypes DEF Begin, Pipelines, Fetching
<1> QED
  BY <1>1, StatusTypes DEF Begin, TypeOK, Records, Pipelines, Fetching, Working

LEMMA NextTypes == TypeOK /\ [Next]_vars => TypeOK'
<1> SUFFICES ASSUME TypeOK, [Next]_vars PROVE TypeOK'
  OBVIOUS
<1>1. ASSUME NEW p \in Players, Elapse(p) \/ \E rev \in Revs : Push(p, rev)
      PROVE  TypeOK'
  BY <1>1 DEF Elapse, Push, TypeOK
<1>2. ASSUME NEW d \in Processes, Stage(d)
      PROVE  TypeOK'
  BY <1>2, StageTypes
<1>3. CASE WatcherStep
  <2>1. CASE Sweep \/ Revive \/ \E p \in left : PassOver(p)
    BY <2>1, PipelineTypes DEF Sweep, Revive, PassOver, TypeOK, Records, Pipelines, Fetching, Working
  <2>2. ASSUME NEW p \in left, Redeploy(p)
        PROVE  TypeOK'
    <3>1. p \in Players /\ head[p] \in Revs \cup {Nothing} /\ Watcher \in Processes
      BY DEF TypeOK, Processes
    <3> QED
      BY <2>2, <3>1, BeginTypes DEF Redeploy
  <2> QED
    BY <1>2, <1>3, <2>1, <2>2 DEF WatcherStep, Processes
<1>4. ASSUME NEW o \in Operators, OperatorStep(o)
      PROVE  TypeOK'
  BY <1>2, <1>4, BeginTypes DEF OperatorStep, Processes
<1>5. ASSUME NEW d \in Processes, Die(d)
      PROVE  TypeOK'
  BY <1>5, EndTypes DEF Die, TypeOK, Records, Pipelines, Fetching, Working
<1>6. CASE UNCHANGED vars
  BY <1>6 DEF vars, TypeOK
<1> QED
  BY <1>1, <1>3, <1>4, <1>5, <1>6 DEF Next

\* The shape of every variable, the stages of the pipelines included.
THEOREM DeploysTypeCorrect == Spec => []TypeOK
<1>1. Init => TypeOK
  BY DEF Init, TypeOK
<1> QED
  BY <1>1, NextTypes, PTL DEF Spec
-----------------------------------------------------------------------------
(***************************************************************************)
(* What a pipeline relies on.  While it is the only one at its player,     *)
(* what an earlier stage has left in the tree, the build directory, the    *)
(* disk or the VM is what it finds there.                                  *)
(***************************************************************************)
At(d, p) == pipeline[d].at \in Stages /\ pipeline[d].player = p

Vetted(rev) == rev \in Revs /\ Kind[rev] \in {"good", "sick"}

Found(d, p) ==
  LET at == pipeline[d].at
      rev == pipeline[d].rev
  IN  /\ at \in {"load", "build", "compile"} => work[p] = rev
      /\ at \in {"build", "compile"} => Kind[rev] \in {"good", "sick", "broken"}
      /\ at = "compile" => built[p] = Nothing
      /\ at = "pack" => built[p] = rev
      /\ at = "restart" => image[p] = rev
      /\ at \in {"health", "land"} => vm[p] = rev
      /\ at \in {"pack", "restart", "health", "land"} => Vetted(rev)
      /\ at = "land" => Kind[rev] = "good"

Sound(p) ==
  /\ \A d, e \in Processes : At(d, p) /\ At(e, p) => d = e
  /\ \A d \in Processes : At(d, p) => Found(d, p) /\ rows[p].status # "running"
  /\ rows[p].status = "running" => vm[p] = rows[p].rev /\ Kind[vm[p]] = "good"
  /\ vm[p] # Nothing => Vetted(vm[p])

PipeInv == TypeOK /\ \A p \in Players \ overlapped : Sound(p)

\* Where nothing of a player is touched, and no pipeline comes to it.
LEMMA ElsewhereSound ==
  ASSUME NEW p, Sound(p),
         rows'[p] = rows[p], work'[p] = work[p], built'[p] = built[p], image'[p] = image[p], vm'[p] = vm[p],
         \A d \in Processes : At(d, p)' => pipeline'[d] = pipeline[d]
  PROVE  Sound(p)'
BY DEF Sound, At, Found, Vetted

\* A pipeline that ends leaves a row that does not say "running", or the row it had.
LEMMA EndSound ==
  ASSUME TypeOK, NEW d \in Processes, NEW p \in Players, Sound(p), At(d, p), Fail(d) \/ Raise(d),
         vm'[p] \in {vm[p], Nothing}
  PROVE  Sound(p)'
<1>1. pipeline \in [Processes -> Pipelines] /\ pipeline[d].player = p /\ rows \in [Players -> Records]
  BY PipelineTypes DEF At, TypeOK, Records
<1>2. \A e \in Processes : ~At(e, p)'
  BY <1>1 DEF Sound, At, Fail, Raise, Idle, Dead, Stages
<1>3. rows'[p].status # "running"
  BY <1>1 DEF Sound, Fail, Raise, SetStatus, Records
<1> QED
  BY <1>2, <1>3 DEF Sound, Vetted

\* What a stage leaves alone: everything but its player's.
LEMMA StageElsewhere ==
  ASSUME TypeOK, NEW d \in Processes, Stage(d), NEW q \in Players, q # pipeline[d].player, Sound(q)
  PROVE  Sound(q)'
<1> DEFINE p == pipeline[d].player
<1>1. pipeline \in [Processes -> Pipelines]
  BY PipelineTypes
<1>2. rows'[q] = rows[q] /\ work'[q] = work[q] /\ built'[q] = built[q] /\ image'[q] = image[q] /\ vm'[q] = vm[q]
  BY DEF Stage, Fetch, Checkout, Load, ClearBuild, Compile, Pack, RestartVm, HealthCheck, Land, Fail, Raise,
     SetStatus, TypeOK
<1>3. \A e \in Processes : e # d => pipeline'[e] = pipeline[e]
  BY <1>1 DEF Stage, Fetch, Checkout, Load, ClearBuild, Compile, Pack, RestartVm, HealthCheck, Land, Fail, Raise,
     Advance
<1>4. ~At(d, q)'
  <2>1. CASE Fail(d) \/ Raise(d) \/ Land(d)
    BY <1>1, <2>1 DEF Fail, Raise, Land, At, Idle, Dead, Stages
  <2>2. CASE Fetch(d) /\ ~Fail(d)
    BY <1>1, <2>2 DEF Fetch, At, Pipelines, Fetching, Working, Idle, Dead
  <2>3. ASSUME NEW at, Advance(d, at)
        PROVE  ~At(d, q)'
    BY <1>1, <2>3 DEF Advance, At, Pipelines, Fetching, Working, Idle, Dead, Stages
  <2> QED
    BY <2>1, <2>2, <2>3 DEF Stage, Checkout, Load, ClearBuild, Compile, Pack, RestartVm, HealthCheck
<1> QED
  BY <1>2, <1>3, <1>4, ElsewhereSound

\* A pipeline goes on, having left what its next stage relies on.
LEMMA GoOnSound ==
  ASSUME NEW d \in Processes, NEW p, Sound(p), At(d, p),
         \A e \in Processes : e # d => pipeline'[e] = pipeline[e],
         Found(d, p)', rows'[p].status # "running", vm'[p] # Nothing => Vetted(vm'[p])
  PROVE  Sound(p)'
<1>1. \A e \in Processes : At(e, p)' => e = d
  BY DEF Sound, At
<1> QED
  BY <1>1 DEF Sound, Vetted

LEMMA StageHere ==
  ASSUME TypeOK, NEW d \in Processes, NEW p \in Players, Stage(d), pipeline[d].player = p, Sound(p)
  PROVE  Sound(p)'
<1> DEFINE rev == pipeline[d].rev
           here == pipeline[d].at
<1>1. At(d, p) /\ Found(d, p) /\ rows[p].status # "running"
  BY DEF Sound, At, Stage, Fetch, Checkout, Load, ClearBuild, Compile, Pack, RestartVm, HealthCheck, Land, Stages
<1>2. /\ pipeline \in [Processes -> Pipelines] /\ rows \in [Players -> Records]
      /\ work \in [Players -> Revs \cup {Nothing}] /\ built \in [Players -> Revs \cup {Nothing, Hollow}]
      /\ image \in [Players -> Revs \cup {Nothing, Hollow}] /\ vm \in [Players -> Revs \cup {Nothing, Hollow}]
  BY PipelineTypes DEF TypeOK, Records
<1>3. here # "fetch" => rev \in Revs /\ pipeline[d] \in Working /\ rev # Nothing
  BY <1>1, PipelineTypes, DeploysAssumption DEF At
<1>4. vm'[p] \in {vm[p], Nothing} /\ (Fail(d) \/ Raise(d)) => Sound(p)'
  BY <1>1, EndSound
<1>5. ASSUME \A e \in Processes : e # d => pipeline'[e] = pipeline[e],
             Found(d, p)', rows'[p].status # "running", vm'[p] = vm[p] \/ Vetted(vm'[p])
      PROVE  Sound(p)'
  BY <1>1, <1>5, GoOnSound DEF Sound, Vetted
<1>6. \A at : here # "fetch" /\ Advance(d, at) =>
        /\ \A e \in Processes : e # d => pipeline'[e] = pipeline[e]
        /\ pipeline'[d].at = at /\ pipeline'[d].rev = rev
  BY <1>2, <1>3 DEF Advance, Working
<1>7. CASE Fetch(d)
  <2>1. CASE Fail(d)
    BY <1>4, <1>7, <2>1 DEF Fetch
  <2>2. CASE ~Fail(d)
    <3>1. /\ \A e \in Processes : e # d => pipeline'[e] = pipeline[e]
          /\ pipeline'[d].at = "checkout"
      <4>1. pipeline[d] \in Fetching
        BY <1>2, <1>7 DEF Fetch, Pipelines, Working, Idle, Dead
      <4> QED
        BY <1>2, <1>7, <2>2, <4>1 DEF Fetch, Fetching
    <3> QED
      BY <1>1, <1>5, <1>7, <2>2, <3>1 DEF Fetch, Found
  <2> QED
    BY <2>1, <2>2
<1>8. CASE Checkout(d)
  <2>1. CASE Fail(d) \/ Raise(d)
    BY <1>4, <1>8, <2>1 DEF Checkout
  <2>2. CASE ~(Fail(d) \/ Raise(d))
    <3>1. work'[p] = rev /\ Advance(d, "load") /\ UNCHANGED <<rows, vm>> /\ here # "fetch"
      BY <1>2, <1>8, <2>2 DEF Checkout
    <3> QED
      BY <1>1, <1>5, <1>6, <3>1 DEF Found
  <2> QED
    BY <2>1, <2>2
<1>9. CASE Load(d)
  <2>1. work[p] = rev /\ here = "load"
    BY <1>1, <1>9 DEF Load, Found
  <2>2. CASE Kind[rev] \in {"rejected", "garbled"}
    BY <1>3, <1>4, <1>9, <2>1, <2>2 DEF Load
  <2>3. CASE Kind[rev] \notin {"rejected", "garbled"}
    <3>1. Advance(d, "build") /\ UNCHANGED <<rows, vm, work>>
      BY <1>3, <1>9, <2>1, <2>3 DEF Load
    <3>2. Kind[rev] \in {"good", "sick", "broken"}
      BY <1>3, <2>1, <2>3, DeploysAssumption DEF Kinds
    <3> QED
      BY <1>1, <1>5, <1>6, <2>1, <3>1, <3>2 DEF Found
  <2> QED
    BY <2>2, <2>3
<1>10. CASE ClearBuild(d)
  <2>1. Advance(d, "compile") /\ built'[p] = Nothing /\ UNCHANGED <<rows, vm, work>> /\ here = "build"
    BY <1>2, <1>10 DEF ClearBuild
  <2> QED
    BY <1>1, <1>5, <1>6, <2>1 DEF Found
<1>11. CASE Compile(d)
  <2>1. CASE Fail(d) \/ Raise(d)
    BY <1>4, <1>11, <2>1 DEF Compile
  <2>2. CASE ~(Fail(d) \/ Raise(d))
    <3>1. /\ here = "compile" /\ Kind[work[p]] # "broken" /\ built'[p] = work[p]
          /\ Advance(d, "pack") /\ UNCHANGED <<rows, vm>>
      BY <1>2, <1>11, <2>2 DEF Compile
    <3>2. work[p] = rev /\ Vetted(rev)
      BY <1>1, <1>3, <3>1 DEF Found, Vetted
    <3> QED
      BY <1>1, <1>5, <1>6, <3>1, <3>2 DEF Found, Vetted
  <2> QED
    BY <2>1, <2>2
<1>12. CASE Pack(d)
  <2>1. here = "pack" /\ built[p] = rev /\ Vetted(rev) /\ UNCHANGED vm
    BY <1>1, <1>12 DEF Pack, Found
  <2>2. CASE Fail(d)
    BY <1>4, <2>1, <2>2
  <2>3. CASE ~Fail(d)
    <3>1. image'[p] = rev /\ Advance(d, "restart") /\ rows'[p].status = "deploying"
      BY <1>2, <1>3, <1>12, <2>1, <2>3 DEF Pack, SetStatus, Records
    <3> QED
      BY <1>1, <1>5, <1>6, <2>1, <3>1 DEF Found, Vetted
  <2> QED
    BY <2>2, <2>3
<1>13. CASE RestartVm(d)
  <2>1. here = "restart" /\ image[p] = rev /\ Vetted(rev)
    BY <1>1, <1>13 DEF RestartVm, Found
  <2>2. CASE Fail(d) /\ vm' \in {vm, [vm EXCEPT ![p] = Nothing]}
    BY <1>2, <1>4, <2>2
  <2>3. CASE vm' = [vm EXCEPT ![p] = image[p]] /\ Advance(d, "health") /\ UNCHANGED rows
    <3>1. vm'[p] = rev
      BY <1>2, <2>1, <2>3
    <3> QED
      BY <1>1, <1>5, <1>6, <2>1, <2>3, <3>1 DEF Found, Vetted
  <2> QED
    BY <1>13, <2>2, <2>3 DEF RestartVm
<1>14. CASE HealthCheck(d)
  <2>1. here = "health" /\ vm[p] = rev /\ Vetted(rev) /\ UNCHANGED vm
    BY <1>1, <1>14 DEF HealthCheck, Found
  <2>2. CASE Fail(d)
    BY <1>4, <2>1, <2>2
  <2>3. CASE ~Fail(d)
    <3>1. Kind[rev] = "good" /\ Advance(d, "land") /\ UNCHANGED rows
      BY <1>14, <2>1, <2>3 DEF HealthCheck
    <3> QED
      BY <1>1, <1>5, <1>6, <2>1, <3>1 DEF Found, Vetted
  <2> QED
    BY <2>2, <2>3
<1>15. CASE Land(d)
  <2>1. here = "land" /\ vm[p] = rev /\ Kind[rev] = "good" /\ UNCHANGED vm
    BY <1>1, <1>15 DEF Land, Found
  <2>2. rows'[p] = [status |-> "running", rev |-> rev]
    BY <1>2, <1>15 DEF Land
  <2>3. \A e \in Processes : ~At(e, p)'
    BY <1>1, <1>2, <1>15 DEF Land, Sound, At, Idle, Stages
  <2> QED
    BY <2>1, <2>2, <2>3 DEF Sound, Vetted
<1> QED
  BY <1>7, <1>8, <1>9, <1>10, <1>11, <1>12, <1>13, <1>14, <1>15 DEF Stage

LEMMA StageSound ==
  ASSUME PipeInv, NEW d \in Processes, Stage(d)
  PROVE  PipeInv'
<1>1. TypeOK'
  BY StageTypes DEF PipeInv
<1>2. UNCHANGED overlapped
  BY DEF Stage, Fetch, Checkout, Load, ClearBuild, Compile, Pack, RestartVm, HealthCheck, Land
<1>3. ASSUME NEW q \in Players, Sound(q)
      PROVE  Sound(q)'
  BY <1>3, StageElsewhere, StageHere DEF PipeInv
<1> QED
  BY <1>1, <1>2, <1>3 DEF PipeInv

\* A pipeline begins: alone at its player, or the player is of those overlapped.
LEMMA BeginSound ==
  ASSUME PipeInv, NEW d \in Processes, NEW p \in Players, NEW rev \in Revs \cup {Nothing}, NEW force,
         Begin(d, p, rev, force), left' \subseteq left
  PROVE  PipeInv'
<1>1. TypeOK'
  BY BeginTypes DEF PipeInv
<1>2. /\ pipeline \in [Processes -> Pipelines] /\ rows \in [Players -> Records]
      /\ pipeline' = [pipeline EXCEPT ![d] = [at |-> "fetch", player |-> p, rev |-> rev]]
      /\ UNCHANGED <<work, built, image, vm>>
  BY PipelineTypes DEF PipeInv, TypeOK, Records, Begin
<1>3. overlapped \subseteq overlapped'
  BY DEF Begin
<1>4. ASSUME NEW q \in Players \ overlapped', q # p
      PROVE  Sound(q)'
  <2>1. Sound(q)
    BY <1>3, <1>4 DEF PipeInv
  <2>2. rows'[q] = rows[q]
    BY <1>2, <1>4 DEF Begin, SetStatus
  <2>3. \A e \in Processes : At(e, q)' => pipeline'[e] = pipeline[e]
    BY <1>2, <1>4 DEF At
  <2> QED
    BY <1>2, <2>1, <2>2, <2>3, ElsewhereSound
<1>5. ASSUME p \notin overlapped'
      PROVE  Sound(p)'
  <2>1. Sound(p) /\ \A e \in Processes : pipeline[e].player # p
    BY <1>3, <1>5 DEF PipeInv, Begin
  <2>2. rows'[p].status = "building"
    BY <1>2 DEF Begin, SetStatus, Records
  <2>3. \A e \in Processes : At(e, p)' => e = d /\ pipeline'[e].at = "fetch"
    BY <1>2, <2>1 DEF At
  <2>4. \A e \in Processes : At(e, p)' => Found(e, p)'
    BY <2>3 DEF Found
  <2> QED
    BY <1>2, <2>1, <2>2, <2>3, <2>4 DEF Sound, Vetted
<1> QED
  BY <1>1, <1>4, <1>5 DEF PipeInv

LEMMA NextSound == PipeInv /\ [Next]_vars => PipeInv'
<1> SUFFICES ASSUME PipeInv, [Next]_vars PROVE PipeInv'
  OBVIOUS
<1>1. TypeOK' /\ TypeOK
  BY NextTypes DEF PipeInv
<1>2. ASSUME UNCHANGED <<rows, work, built, image, vm, overlapped>>,
             \A d \in Processes : pipeline'[d].at \in Stages => pipeline'[d] = pipeline[d]
      PROVE  PipeInv'
  BY <1>1, <1>2, ElsewhereSound DEF PipeInv, At
<1>3. ASSUME NEW p \in Players, Elapse(p) \/ \E rev \in Revs : Push(p, rev)
      PROVE  PipeInv'
  BY <1>2, <1>3 DEF Elapse, Push
<1>4. CASE WatcherStep
  <2>1. CASE Sweep \/ Revive \/ \E p \in left : PassOver(p)
    BY <1>1, <1>2, <2>1, PipelineTypes DEF Sweep, Revive, PassOver, Idle, Stages
  <2>2. ASSUME NEW p \in left, Redeploy(p)
        PROVE  PipeInv'
    <3>1. p \in Players /\ head[p] \in Revs \cup {Nothing} /\ Watcher \in Processes
      BY <1>1 DEF TypeOK, Processes
    <3> QED
      BY <2>2, <3>1, BeginSound DEF Redeploy
  <2> QED
    BY <1>4, <2>1, <2>2, StageSound DEF WatcherStep, Processes
<1>5. ASSUME NEW o \in Operators, OperatorStep(o)
      PROVE  PipeInv'
  BY <1>5, BeginSound, StageSound DEF OperatorStep, Processes
<1>6. ASSUME NEW d \in Processes, Die(d)
      PROVE  PipeInv'
  BY <1>1, <1>2, <1>6, PipelineTypes DEF Die, Raise, Idle, Dead, Stages
<1>7. CASE UNCHANGED vars
  BY <1>2, <1>7 DEF vars
<1> QED
  BY <1>3, <1>4, <1>5, <1>6, <1>7 DEF Next

LEMMA PipelinesAreSound == Spec => []PipeInv
<1>1. Init => PipeInv
  BY DEF Init, PipeInv, TypeOK, Sound, At, Idle, Stages
<1> QED
  BY <1>1, NextSound, PTL DEF Spec

\* A row that says "running" names the code in service, which passed its
\* healthcheck, wherever a pipeline failed, raised or was killed.
THEOREM RecordsAreTrue == Spec => []RecordIsTrue
<1>1. PipeInv => RecordIsTrue
  BY DEF PipeInv, Sound, RecordIsTrue
<1> QED
  BY <1>1, PipelinesAreSound, PTL

\* RULES 3: no VM runs code that the manifest check or the build has refused.
THEOREM VettedCodeRuns == Spec => []OnlyVettedCodeRuns
<1>1. PipeInv => OnlyVettedCodeRuns
  BY DEF PipeInv, Sound, Vetted, OnlyVettedCodeRuns
<1> QED
  BY <1>1, PipelinesAreSound, PTL
=============================================================================
