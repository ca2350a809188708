--------------------------- MODULE AddressesProofs ---------------------------
(***************************************************************************)
(* Proof that a list which is only appended to leads every probe home,     *)
(* for any players, any number of them, and edits without bound.           *)
(***************************************************************************)
EXTENDS Addresses, TLAPS

\* The part of the types that the argument uses.
AddressTypes ==
  /\ blocks \in Seq(Residents) /\ Len(blocks) <= MaxPlayers
  /\ copy \in Seq(Residents)
  /\ hosts \in [Residents -> Somewhere]
  /\ playing \subseteq Residents /\ up \subseteq Residents
  /\ target \in [Residents -> Somewhere]
  /\ routes \in [Places -> Residents \cup {Nobody}]
  /\ disks \in [Residents -> Somewhere] /\ guests \in [Residents -> Somewhere]

Once == \A i, j \in 1..Len(blocks) : blocks[i] = blocks[j] => i = j

\* Who has an address keeps it, on the list and in the watcher's copy of it.
PlacesStay ==
  /\ \A i \in 1..Len(blocks) : hosts[blocks[i]] \in {Nowhere, i}
  /\ \A i \in 1..Len(copy) : hosts[copy[i]] = i

\* Whatever a pipeline, a disk or a guest holds is the address in the table.
CopiesAgree ==
  \A p \in Residents :
    /\ target[p] # Nowhere => hosts[p] = target[p]
    /\ disks[p] # Nowhere => hosts[p] = disks[p]
    /\ guests[p] # Nowhere => hosts[p] = guests[p] /\ disks[p] = guests[p] /\ p \in taps

\* A pipeline past the restart, and a running player, have a guest.
GuestsRun ==
  /\ \A p \in up : target[p] # Nowhere /\ guests[p] = target[p]
  /\ \A p \in playing : guests[p] # Nowhere

RoutesFollow == applied => \A i \in 1..Len(blocks) : routes[i] = blocks[i]

PlacesHold == AddressTypes /\ Once /\ PlacesStay /\ CopiesAgree /\ GuestsRun /\ RoutesFollow

-----------------------------------------------------------------------------
LEMMA ListedHasPlace ==
  ASSUME blocks \in Seq(Residents), Once, NEW p \in Listed
  PROVE  Home(p) \in 1..Len(blocks) /\ blocks[Home(p)] = p
<1>1. DOMAIN blocks = 1..Len(blocks)
  OBVIOUS
<1>2. \E i \in DOMAIN blocks : blocks[i] = p
  BY DEF Listed, ToSet
<1> QED
  BY <1>1, <1>2 DEF Home

\* sync_roster gives who has no address one, and changes none.
LEMMA SyncMovesNobody ==
  ASSUME AddressTypes, Once, PlacesStay
  PROVE  /\ SyncedHosts \in [Residents -> Somewhere]
         /\ \A p \in Residents : hosts[p] # Nowhere => SyncedHosts[p] = hosts[p]
         /\ \A i \in 1..Len(blocks) : SyncedHosts[blocks[i]] = i
<1> USE AddressAssumption
<1>1. ASSUME NEW p \in Residents
      PROVE  SyncedHosts[p] \in Somewhere /\ (hosts[p] # Nowhere => SyncedHosts[p] = hosts[p])
  <2>1. CASE p \in Listed
    <3>1. Home(p) \in 1..Len(blocks) /\ blocks[Home(p)] = p
      BY <2>1, ListedHasPlace DEF AddressTypes
    <3>2. Home(p) \in Places /\ hosts[p] \in {Nowhere, Home(p)}
      BY <3>1 DEF AddressTypes, PlacesStay, Places
    <3> QED
      BY <2>1, <3>2 DEF SyncedHosts, Somewhere
  <2>2. CASE p \notin Listed
    BY <2>2 DEF SyncedHosts, AddressTypes
  <2> QED
    BY <2>1, <2>2
<1>2. ASSUME NEW i \in 1..Len(blocks)
      PROVE  SyncedHosts[blocks[i]] = i
  <2>1. blocks[i] \in Residents /\ blocks[i] \in Listed
    BY DEF AddressTypes, Listed, ToSet
  <2>2. Home(blocks[i]) = i
    BY <2>1, ListedHasPlace DEF AddressTypes, Once
  <2> QED
    BY <2>1, <2>2 DEF SyncedHosts
<1> QED
  BY <1>1, <1>2 DEF SyncedHosts

\* What a step that syncs the table and leaves the rest alone preserves.
LEMMA SyncStep ==
  ASSUME PlacesHold, hosts' = SyncedHosts, UNCHANGED blocks,
         playing' \subseteq playing,
         copy' \in {copy, blocks}
  PROVE  /\ hosts' \in [Residents -> Somewhere] /\ playing' \subseteq Residents
         /\ \A p \in Residents : hosts[p] # Nowhere => hosts'[p] = hosts[p]
         /\ \A i \in 1..Len(blocks) : hosts'[blocks[i]] = i
         /\ Once' /\ PlacesStay' /\ copy' \in Seq(Residents)
<1>1. /\ hosts' \in [Residents -> Somewhere]
      /\ \A p \in Residents : hosts[p] # Nowhere => hosts'[p] = hosts[p]
      /\ \A i \in 1..Len(blocks) : hosts'[blocks[i]] = i
  BY SyncMovesNobody DEF PlacesHold
<1>2. \A i \in 1..Len(copy) : copy[i] \in Residents /\ hosts[copy[i]] = i /\ i # Nowhere
  BY DEF PlacesHold, AddressTypes, PlacesStay, Nowhere
<1> QED
  BY <1>1, <1>2 DEF PlacesHold, AddressTypes, Once, PlacesStay

-----------------------------------------------------------------------------
(* One lemma per action. *)

LEMMA RewriteStep ==
  ASSUME AppendOnly, PlacesHold,
         (\E p \in Residents : AppendBlock(p)) \/ (\E i \in DOMAIN blocks : TakeOutBlock(i))
  PROVE  PlacesHold'
<1> USE AddressAssumption
<1>1. ASSUME NEW p \in Residents, AppendBlock(p)
      PROVE  /\ blocks' \in Seq(Residents) /\ Len(blocks') <= MaxPlayers /\ Once'
             /\ \A i \in 1..Len(blocks') : hosts[blocks'[i]] \in {Nowhere, i}
  <2>1. /\ blocks \in Seq(Residents) /\ blocks' = Append(blocks, p)
        /\ Len(blocks) < MaxPlayers /\ hosts[p] \in {Nowhere, Len(blocks) + 1}
    BY <1>1 DEF AppendBlock, Rewrite, PlacesHold, AddressTypes
  <2>2. \A i \in 1..Len(blocks) : blocks[i] # p
    BY <1>1, <2>1 DEF AppendBlock, Listed, ToSet
  <2>3. /\ Len(blocks') = Len(blocks) + 1 /\ blocks'[Len(blocks) + 1] = p
        /\ \A i \in 1..Len(blocks) : blocks'[i] = blocks[i]
    BY <2>1
  <2> QED
    BY <2>1, <2>2, <2>3 DEF PlacesHold, Once, PlacesStay
<1>2. ASSUME NEW i \in DOMAIN blocks, TakeOutBlock(i)
      PROVE  /\ blocks' \in Seq(Residents) /\ Len(blocks') <= MaxPlayers /\ Once'
             /\ \A j \in 1..Len(blocks') : hosts[blocks'[j]] \in {Nowhere, j}
  <2>1. /\ blocks \in Seq(Residents) /\ Len(blocks) > 1 /\ Len(blocks) <= MaxPlayers
        /\ blocks' = SubSeq(blocks, 1, Len(blocks) - 1)
                       \o SubSeq(blocks, Len(blocks) + 1, Len(blocks))
    BY <1>2 DEF TakeOutBlock, Rewrite, RemoveAt, PlacesHold, AddressTypes
  <2> DEFINE kept == SubSeq(blocks, 1, Len(blocks) - 1)
             after == SubSeq(blocks, Len(blocks) + 1, Len(blocks))
  <2>2. /\ kept \in Seq(Residents) /\ Len(kept) = Len(blocks) - 1
        /\ \A j \in 1..Len(blocks) - 1 : kept[j] = blocks[j]
    BY <2>1
  <2>3. after \in Seq(Residents) /\ Len(after) = 0
    BY <2>1
  <2> HIDE DEF kept, after
  <2>4. blocks' = kept \o after
    BY <2>1 DEF kept, after
  <2>5. /\ blocks' \in Seq(Residents) /\ Len(blocks') = Len(blocks) - 1
        /\ \A j \in 1..Len(blocks) - 1 : blocks'[j] = blocks[j]
    BY <2>2, <2>3, <2>4
  <2> QED
    BY <2>1, <2>5 DEF PlacesHold, Once, PlacesStay
<1>3. /\ UNCHANGED <<copy, hosts, playing, target, up, taps, routes, disks, guests>>
      /\ applied' = FALSE
  BY DEF AppendBlock, TakeOutBlock, Rewrite, pipelineVars, planeVars
<1>4. /\ blocks' \in Seq(Residents) /\ Len(blocks') <= MaxPlayers /\ Once'
      /\ \A i \in 1..Len(blocks') : hosts[blocks'[i]] \in {Nowhere, i}
  BY <1>1, <1>2
<1> QED
  BY <1>3, <1>4
  DEF PlacesHold, AddressTypes, PlacesStay, CopiesAgree, GuestsRun, RoutesFollow

LEMMA ApplyStep ==
  ASSUME PlacesHold, ApplyRoutes
  PROVE  PlacesHold'
<1> USE AddressAssumption
<1>1. /\ UNCHANGED <<blocks, copy, hosts, playing, target, up, disks, guests>>
      /\ taps \subseteq taps' /\ routes' = Routed
  BY DEF ApplyRoutes, pipelineVars
<1>2. /\ \A i \in 1..Len(blocks) : blocks[i] \in Residents /\ i \in DOMAIN blocks /\ i \in Places
      /\ \A i \in DOMAIN blocks : blocks[i] \in Residents
  BY DEF PlacesHold, AddressTypes, Places
<1>3. routes' \in [Places -> Residents \cup {Nobody}]
  BY <1>1, <1>2 DEF PlacesHold, AddressTypes, Routed
<1>4. \A i \in 1..Len(blocks) : routes'[i] = blocks[i]
  BY <1>1, <1>2 DEF Routed
<1> QED
  BY <1>1, <1>3, <1>4
  DEF PlacesHold, AddressTypes, Once, PlacesStay, CopiesAgree, GuestsRun, RoutesFollow

LEMMA SyncTableStep ==
  ASSUME PlacesHold, SyncTable
  PROVE  PlacesHold'
<1>1. /\ hosts' = SyncedHosts /\ playing' \subseteq playing /\ copy' \in {copy, blocks}
      /\ UNCHANGED <<blocks, target, up, taps, routes, disks, guests, applied>>
  BY DEF SyncTable, SyncPlayers, pipelineVars, planeVars
<1> QED
  BY <1>1, SyncStep DEF PlacesHold, AddressTypes, CopiesAgree, GuestsRun, RoutesFollow

LEMMA RestartStep ==
  ASSUME PlacesHold, NEW p \in Residents, RestartGuest(p)
  PROVE  PlacesHold'
<1>1. /\ UNCHANGED <<blocks, copy, hosts, playing, target, up, taps, routes, disks, applied>>
      /\ guests' = [guests EXCEPT ![p] = IF p \in taps THEN disks[p] ELSE Nowhere]
  BY DEF RestartGuest, pipelineVars
<1>2. guests[p] # Nowhere => guests' = guests
  BY <1>1 DEF PlacesHold, AddressTypes, CopiesAgree
<1>3. guests' \in [Residents -> Somewhere] /\ CopiesAgree' /\ GuestsRun'
  BY <1>1, <1>2 DEF PlacesHold, AddressTypes, CopiesAgree, GuestsRun, Somewhere
<1> QED
  BY <1>1, <1>3 DEF PlacesHold, AddressTypes, Once, PlacesStay, RoutesFollow

LEMMA OperatorKeepsPlaces ==
  ASSUME PlacesHold, NEW i \in DOMAIN blocks, OperatorDeploys(i)
  PROVE  PlacesHold'
<1> USE AddressAssumption
<1>1. /\ i \in 1..Len(blocks) /\ blocks[i] \in Residents /\ i \in Places /\ i # Nowhere
  BY DEF PlacesHold, AddressTypes, Places, Nowhere
<1>2. /\ hosts' = SyncedHosts /\ playing' \subseteq playing /\ copy' \in {copy, blocks}
      /\ target' = [target EXCEPT ![blocks[i]] = i]
      /\ UNCHANGED <<blocks, up, taps, routes, disks, guests, applied>>
  BY DEF OperatorDeploys, StartPipeline, planeVars
<1>3. /\ \A p \in Residents : hosts[p] # Nowhere => hosts'[p] = hosts[p]
      /\ hosts'[blocks[i]] = i
  BY <1>1, <1>2, SyncStep
<1>4. CopiesAgree' /\ target' \in [Residents -> Somewhere]
  BY <1>1, <1>2, <1>3 DEF PlacesHold, AddressTypes, CopiesAgree, Somewhere
<1>5. GuestsRun'
  BY <1>1, <1>2, <1>3 DEF PlacesHold, AddressTypes, CopiesAgree, GuestsRun
<1> QED
  BY <1>2, <1>4, <1>5, SyncStep DEF PlacesHold, AddressTypes, RoutesFollow

LEMMA WatcherKeepsPlaces ==
  ASSUME PlacesHold, NEW i \in DOMAIN copy, WatcherDeploys(i)
  PROVE  PlacesHold'
<1>1. /\ i \in 1..Len(copy) /\ copy[i] \in Residents /\ hosts[copy[i]] = i /\ i # Nowhere
  BY DEF PlacesHold, AddressTypes, PlacesStay, Nowhere
<1>2. /\ playing' \subseteq playing /\ target' = [target EXCEPT ![copy[i]] = i]
      /\ UNCHANGED <<blocks, copy, hosts, up, taps, routes, disks, guests, applied>>
  BY DEF WatcherDeploys, StartPipeline, planeVars
<1>3. CopiesAgree' /\ target' \in [Residents -> Somewhere] /\ GuestsRun'
  BY <1>1, <1>2 DEF PlacesHold, AddressTypes, CopiesAgree, GuestsRun
<1> QED
  BY <1>2, <1>3 DEF PlacesHold, AddressTypes, Once, PlacesStay, RoutesFollow

LEMMA PipelineStep ==
  ASSUME PlacesHold, NEW p \in Residents, RecordRunning(p) \/ Abandon(p)
  PROVE  PlacesHold'
<1>1. /\ target' = [target EXCEPT ![p] = Nowhere] /\ up' = up \ {p}
      /\ UNCHANGED <<blocks, copy, hosts, taps, routes, disks, guests, applied>>
      /\ playing' \subseteq playing \cup (IF p \in up THEN {p} ELSE {})
  BY DEF RecordRunning, Abandon, EndPipeline, planeVars
<1>2. CopiesAgree' /\ target' \in [Residents -> Somewhere]
  BY <1>1 DEF PlacesHold, AddressTypes, CopiesAgree, Somewhere
<1>3. GuestsRun' /\ playing' \subseteq Residents
  BY <1>1 DEF PlacesHold, AddressTypes, GuestsRun
<1> QED
  BY <1>1, <1>2, <1>3 DEF PlacesHold, AddressTypes, Once, PlacesStay, RoutesFollow

LEMMA BootStep ==
  ASSUME PlacesHold, NEW p \in Residents, BootGuest(p)
  PROVE  PlacesHold'
<1>1. /\ target[p] # Nowhere /\ hosts[p] = target[p] /\ p \notin up
      /\ disks' = [disks EXCEPT ![p] = target[p]]
      /\ UNCHANGED <<blocks, copy, hosts, playing, taps, routes, applied>>
  BY DEF BootGuest, PlacesHold, CopiesAgree
<1>2. \/ UNCHANGED guests /\ p \notin Listed \cap taps
      \/ guests' = [guests EXCEPT ![p] = target[p]] /\ p \in Listed \cap taps
      \/ guests' = [guests EXCEPT ![p] = Nowhere] /\ p \notin taps
  BY DEF BootGuest
<1>3. \/ p \in Listed \cap taps /\ up' = up \cup {p} /\ UNCHANGED target
      \/ /\ p \notin Listed \cap taps /\ up' = up \ {p}
         /\ target' = [target EXCEPT ![p] = Nowhere]
  BY DEF BootGuest, EndPipeline
<1>4. p \notin taps => guests[p] = Nowhere
  BY DEF PlacesHold, CopiesAgree
<1>5. /\ guests' \in [Residents -> Somewhere] /\ target' \in [Residents -> Somewhere]
      /\ disks' \in [Residents -> Somewhere] /\ up' \subseteq Residents
  BY <1>1, <1>2, <1>3 DEF PlacesHold, AddressTypes, Somewhere
<1>6. CopiesAgree'
  BY <1>1, <1>2, <1>3, <1>4 DEF PlacesHold, AddressTypes, CopiesAgree
<1>7. GuestsRun'
  BY <1>1, <1>2, <1>3, <1>4 DEF PlacesHold, AddressTypes, GuestsRun
<1> QED
  BY <1>1, <1>5, <1>6, <1>7 DEF PlacesHold, AddressTypes, Once, PlacesStay, RoutesFollow

LEMMA StartStep ==
  ASSUME PlacesHold, StartWatcher
  PROVE  PlacesHold'
<1> DEFINE killed == {p \in Residents : worker[p] = "watcher"}
<1>1. /\ hosts' = SyncedHosts /\ playing' \subseteq playing /\ copy' \in {copy, blocks}
      /\ target' = [p \in Residents |-> IF p \in killed THEN Nowhere ELSE target[p]]
      /\ up' = up \ killed
      /\ UNCHANGED <<blocks, taps, routes, disks, guests, applied>>
  BY DEF StartWatcher, SyncPlayers, planeVars
<1>2. \A p \in Residents : hosts[p] # Nowhere => hosts'[p] = hosts[p]
  BY <1>1, SyncStep
<1> HIDE DEF killed
<1>3. CopiesAgree' /\ target' \in [Residents -> Somewhere]
  BY <1>1, <1>2 DEF PlacesHold, AddressTypes, CopiesAgree, Somewhere
<1>4. GuestsRun'
  BY <1>1 DEF PlacesHold, AddressTypes, GuestsRun
<1> QED
  BY <1>1, <1>3, <1>4, SyncStep DEF PlacesHold, AddressTypes, RoutesFollow

LEMMA RestartHostStep ==
  ASSUME PlacesHold, RestartHost
  PROVE  PlacesHold'
<1> USE AddressAssumption
<1>1. /\ hosts' = SyncedHosts /\ playing' = playing \cap Listed /\ copy' \in {copy, blocks}
      /\ target' = [p \in Residents |-> Nowhere] /\ up' = {}
      /\ taps' = Listed /\ routes' = Wired
      /\ guests' = [p \in Residents |-> IF p \in Listed THEN disks[p] ELSE Nowhere]
      /\ UNCHANGED <<blocks, disks>>
  BY DEF RestartHost, SyncPlayers
<1>2. \A p \in Residents : hosts[p] # Nowhere => hosts'[p] = hosts[p]
  BY <1>1, SyncStep
<1>3. CopiesAgree' /\ GuestsRun'
  BY <1>1, <1>2 DEF PlacesHold, AddressTypes, CopiesAgree, GuestsRun
<1>4. /\ target' \in [Residents -> Somewhere] /\ guests' \in [Residents -> Somewhere]
      /\ up' \subseteq Residents
  BY <1>1 DEF PlacesHold, AddressTypes, Somewhere
<1>5. /\ \A i \in 1..Len(blocks) : blocks[i] \in Residents /\ i \in DOMAIN blocks /\ i \in Places
      /\ \A i \in DOMAIN blocks : blocks[i] \in Residents
  BY DEF PlacesHold, AddressTypes, Places
<1>6. /\ routes' \in [Places -> Residents \cup {Nobody}]
      /\ \A i \in 1..Len(blocks) : routes'[i] = blocks[i]
  BY <1>1, <1>5 DEF Wired
<1> QED
  BY <1>1, <1>3, <1>4, <1>6, SyncStep DEF PlacesHold, AddressTypes, RoutesFollow

LEMMA PlacesHoldInit ==
  ASSUME AddressInit
  PROVE  PlacesHold
<1> USE AddressAssumption
<1>1. /\ blocks \in Seq(Residents) /\ Len(blocks) = 2 /\ Len(blocks) <= MaxPlayers
      /\ blocks[1] # blocks[2]
  BY DEF AddressInit
<1>2. Once
  BY <1>1 DEF Once
<1>3. /\ copy = blocks /\ hosts = [p \in Residents |-> Home(p)] /\ disks = hosts /\ guests = hosts
      /\ playing = Listed /\ taps = Listed /\ routes = Wired
      /\ target = [p \in Residents |-> Nowhere] /\ up = {}
  BY DEF AddressInit
<1>4. \A p \in Listed : Home(p) \in 1..Len(blocks) /\ blocks[Home(p)] = p
  BY <1>1, <1>2, ListedHasPlace
<1>5. \A i \in 1..Len(blocks) : blocks[i] \in Residents /\ blocks[i] \in Listed
  BY <1>1 DEF Listed, ToSet
<1>6. Listed \subseteq Residents
  BY <1>1 DEF Listed, ToSet
<1>7. \A i \in 1..Len(blocks) : hosts[blocks[i]] = i
  BY <1>2, <1>3, <1>4, <1>5 DEF Once
<1>8. \A p \in Residents : hosts[p] \in Somewhere /\ (hosts[p] # Nowhere => p \in Listed)
  BY <1>1, <1>3, <1>4 DEF Home, Somewhere, Places
<1>9. \A p \in Listed : hosts[p] # Nowhere
  BY <1>1, <1>3, <1>4, <1>6 DEF Nowhere
<1>10. /\ routes \in [Places -> Residents \cup {Nobody}]
       /\ \A i \in 1..Len(blocks) : routes[i] = blocks[i]
  <2>1. /\ \A i \in 1..Len(blocks) : i \in DOMAIN blocks /\ i \in Places
        /\ \A i \in DOMAIN blocks : blocks[i] \in Residents
    BY <1>1 DEF Places
  <2> QED
    BY <1>3, <2>1 DEF Wired
<1>11. AddressTypes
  BY <1>1, <1>3, <1>6, <1>8, <1>10 DEF AddressTypes, Somewhere
<1>12. CopiesAgree /\ GuestsRun
  BY <1>3, <1>6, <1>8, <1>9 DEF CopiesAgree, GuestsRun
<1> QED
  BY <1>2, <1>3, <1>7, <1>10, <1>11, <1>12 DEF PlacesHold, PlacesStay, RoutesFollow

LEMMA PlacesHoldStep ==
  ASSUME AppendOnly, PlacesHold, [AddressNext]_addressVars
  PROVE  PlacesHold'
<1>1. CASE UNCHANGED addressVars
  BY <1>1 DEF addressVars, pipelineVars, planeVars, PlacesHold, AddressTypes, Once, PlacesStay,
     CopiesAgree, GuestsRun, RoutesFollow
<1>2. CASE AddressNext
  BY <1>2, RewriteStep, ApplyStep, SyncTableStep, RestartStep, OperatorKeepsPlaces, WatcherKeepsPlaces,
     PipelineStep, BootStep, StartStep, RestartHostStep
  DEF AddressNext
<1> QED
  BY <1>1, <1>2

\* Append only (OPERATIONS.md): while the organiser keeps to it, the tick loop's probe of a
\* running player on an applied list reaches that player's own VM, whatever copy of the
\* list deploys it, through addresses that change hands, restarts of VMs and of the host.
THEOREM AppendingLeadsHome ==
  ASSUME AppendOnly
  PROVE  AddressSpec => []ProbedAtHome
<1>1. AddressInit => PlacesHold
  BY PlacesHoldInit
<1>2. PlacesHold /\ [AddressNext]_addressVars => PlacesHold'
  BY PlacesHoldStep
<1>3. PlacesHold => ProbedAtHome
  <2> SUFFICES ASSUME PlacesHold, applied, NEW p \in playing \cap Listed
               PROVE  AtHome(p)
    BY DEF ProbedAtHome
  <2>1. PICK i \in 1..Len(blocks) : blocks[i] = p
    BY ListedHasPlace DEF PlacesHold, AddressTypes
  <2>2. p \in Residents /\ guests[p] # Nowhere /\ hosts[p] = guests[p]
    BY DEF PlacesHold, AddressTypes, GuestsRun, CopiesAgree
  <2>3. hosts[p] = i /\ routes[i] = p /\ i \in Places
    BY <2>1, <2>2, AddressAssumption DEF PlacesHold, AddressTypes, PlacesStay, RoutesFollow, Places
  <2> QED
    BY <2>2, <2>3 DEF AtHome
<1> QED
  BY <1>1, <1>2, <1>3, PTL DEF AddressSpec
=============================================================================
