------------------------------ MODULE Addresses ------------------------------
(***************************************************************************)
(* Where players are: a block's position in ctf.toml is its player's       *)
(* address.  The address is copied into the players table (sync_roster),   *)
(* the routes of the game plane (networks.sh up), a service's data disk    *)
(* (pack_disk), the guest started from it (vm.sh), and the copy of the     *)
(* list each process keeps; every copy is made at its own time.            *)
(***************************************************************************)
EXTENDS Integers, Sequences, SequencesExt

CONSTANTS
  Residents,    \* who may be on the list
  MaxPlayers,   \* game.max_players
  Nobody,       \* no player
  AppendOnly,   \* whether the organiser keeps to "Append only"
  MaxMoves      \* bound: edits of ctf.toml

ASSUME AddressAssumption == MaxPlayers \in Nat /\ Nobody \notin Residents /\ MaxMoves \in Nat

Places == 1..MaxPlayers
Nowhere == 0
Somewhere == Places \cup {Nowhere}

VARIABLES
  blocks,       \* ctf.toml: the names, by position
  copy,         \* the list as the watcher read it when it started
  hosts,        \* the players table: idx and host
  playing,      \* the players table: whose status is 'running'
  worker,       \* per player: the process whose pipeline is under way
  target,       \*             the address that pipeline deploys to
  up,           \* the players whose pipeline has restarted the VM
  taps,         \* the players with a tap on the game plane
  routes,       \* per address: the player whose tap its subnet is routed to
  disks,        \* per player: the address on the data disk
  guests,       \*             the address the running VM answers on
  applied,      \* whether the topology was applied since the last edit
  moves

addressVars == <<blocks, copy, hosts, playing, worker, target, up, taps, routes, disks,
                 guests, applied, moves>>

pipelineVars == <<worker, target, up>>
planeVars == <<taps, routes, disks, guests>>

Listed == ToSet(blocks)

AddressTypeOK ==
  /\ blocks \in Seq(Residents) /\ IsInjective(blocks) /\ Len(blocks) <= MaxPlayers
  /\ copy \in Seq(Residents)
  /\ hosts \in [Residents -> Somewhere] /\ playing \subseteq Residents
  /\ worker \in [Residents -> {"nobody", "watcher", "operator"}]
  /\ target \in [Residents -> Somewhere] /\ up \subseteq Residents
  /\ taps \subseteq Residents /\ routes \in [Places -> Residents \cup {Nobody}]
  /\ disks \in [Residents -> Somewhere] /\ guests \in [Residents -> Somewhere]
  /\ applied \in BOOLEAN /\ moves \in 0..MaxMoves

\* _derive: a player's addresses follow from the block's position.
Home(p) == IF p \in Listed THEN CHOOSE i \in DOMAIN blocks : blocks[i] = p ELSE Nowhere

\* sync_roster: idx and host follow the list, and keep their last value off it.
SyncedHosts == [p \in Residents |-> IF p \in Listed THEN Home(p) ELSE hosts[p]]
SyncPlayers == hosts' = SyncedHosts /\ playing' = playing \cap Listed

Wired == [a \in Places |-> IF a \in DOMAIN blocks THEN blocks[a] ELSE Nobody]

\* Mutant of Routed: `ip route add`, which leaves a route that is there.
RoutedOnce == [a \in Places |-> IF routes[a] = Nobody THEN Wired[a] ELSE routes[a]]

\* `ip route replace` for every block; nothing takes away the others' routes.
Routed == [a \in Places |-> IF a \in DOMAIN blocks THEN blocks[a] ELSE routes[a]]

\* Two players are on the list, deployed and answering.
AddressInit ==
  /\ \E p, q \in Residents : p # q /\ blocks = <<p, q>>
  /\ Len(blocks) <= MaxPlayers
  /\ copy = blocks
  /\ hosts = [p \in Residents |-> Home(p)]
  /\ playing = Listed /\ taps = Listed /\ routes = Wired
  /\ disks = hosts /\ guests = hosts
  /\ worker = [p \in Residents |-> "nobody"]
  /\ target = [p \in Residents |-> Nowhere] /\ up = {}
  /\ applied = TRUE /\ moves = 0

-----------------------------------------------------------------------------
(* The organiser. *)

Rewrite(list) ==
  /\ moves < MaxMoves /\ moves' = moves + 1
  /\ blocks' = list /\ applied' = FALSE
  /\ UNCHANGED <<copy, hosts, playing, pipelineVars, planeVars>>

\* config.load refuses a name listed twice, and a list longer than max_players.
\* Keeping to "Append only", who comes back comes back to the address of before.
AppendBlock(p) ==
  /\ p \notin Listed /\ Len(blocks) < MaxPlayers
  /\ AppendOnly => hosts[p] \in {Nowhere, Len(blocks) + 1}
  /\ Rewrite(Append(blocks, p))

\* Keeping to it, only the last block goes: taking out another moves those after it.
\* config.load refuses an empty list.
TakeOutBlock(i) ==
  /\ Len(blocks) > 1
  /\ AppendOnly => i = Len(blocks)
  /\ Rewrite(RemoveAt(blocks, i))

\* ctfctl topology apply
ApplyRoutes ==
  /\ taps' = taps \cup Listed /\ routes' = Routed
  /\ applied' = TRUE
  /\ UNCHANGED <<blocks, copy, hosts, playing, pipelineVars, disks, guests, moves>>

\* A ctfctl command that opens the ledger, or a unit other than the watcher starts.
SyncTable ==
  /\ SyncPlayers
  /\ UNCHANGED <<blocks, copy, pipelineVars, planeVars, applied, moves>>

\* ctfctl vm restart.  vm.sh ends at a name not on the list before it stops anything.
RestartGuest(p) ==
  /\ p \in Listed
  /\ guests' = [guests EXCEPT ![p] = IF p \in taps THEN disks[p] ELSE Nowhere]
  /\ UNCHANGED <<blocks, copy, hosts, playing, pipelineVars, taps, routes, disks, applied, moves>>

-----------------------------------------------------------------------------
(* The pipeline: deploy, with the copy of the list its process has. *)

StartPipeline(p, process, place) ==
  /\ worker[p] = "nobody"
  /\ worker' = [worker EXCEPT ![p] = process]
  /\ target' = [target EXCEPT ![p] = place]
  /\ UNCHANGED <<blocks, copy, up, planeVars, applied, moves>>

OperatorDeploys(i) ==
  /\ StartPipeline(blocks[i], "operator", i)
  /\ hosts' = SyncedHosts /\ playing' = (playing \cap Listed) \ {blocks[i]}

WatcherDeploys(i) ==
  /\ \A q \in Residents : worker[q] # "watcher"
  /\ StartPipeline(copy[i], "watcher", i)
  /\ playing' = playing \ {copy[i]} /\ UNCHANGED hosts

EndPipeline(p) ==
  /\ worker' = [worker EXCEPT ![p] = "nobody"]
  /\ target' = [target EXCEPT ![p] = Nowhere]
  /\ up' = up \ {p}

\* pack_disk writes the copy's address; vm.sh then reads the list anew, and a VM
\* without its tap does not start.
BootGuest(p) ==
  /\ target[p] # Nowhere /\ p \notin up
  /\ disks' = [disks EXCEPT ![p] = target[p]]
  /\ guests' = IF p \notin Listed THEN guests
               ELSE [guests EXCEPT ![p] = IF p \in taps THEN target[p] ELSE Nowhere]
  /\ IF p \in Listed \cap taps
     THEN up' = up \cup {p} /\ UNCHANGED <<worker, target>>
     ELSE EndPipeline(p)
  /\ UNCHANGED <<blocks, copy, hosts, playing, taps, routes, applied, moves>>

\* A guest that holds the address, on the tap that it is routed to, whoever's it is.
Answers(a) == a \in Places /\ routes[a] # Nobody /\ guests[routes[a]] = a

\* healthcheck asks the address, and record_deploy finds the row or does nothing.
RecordRunning(p) ==
  /\ p \in up /\ Answers(target[p])
  /\ playing' = IF hosts[p] = Nowhere THEN playing ELSE playing \cup {p}
  /\ EndPipeline(p)
  /\ UNCHANGED <<blocks, copy, hosts, planeVars, applied, moves>>

\* DeployError at any step; status 'failed'.
Abandon(p) ==
  /\ target[p] # Nowhere
  /\ EndPipeline(p)
  /\ UNCHANGED <<blocks, copy, hosts, playing, planeVars, applied, moves>>

-----------------------------------------------------------------------------
(* Starts. *)

\* The watcher starts again; its pipeline is killed.
StartWatcher ==
  /\ copy' = blocks /\ SyncPlayers
  /\ LET killed == {p \in Residents : worker[p] = "watcher"} IN
       /\ worker' = [p \in Residents |-> IF p \in killed THEN "nobody" ELSE worker[p]]
       /\ target' = [p \in Residents |-> IF p \in killed THEN Nowhere ELSE target[p]]
       /\ up' = up \ killed
  /\ UNCHANGED <<blocks, planeVars, applied, moves>>

\* The machine restarts: the planes are built and VMs started for who is on the list,
\* each from the data disk it has, then the units start.
RestartHost ==
  /\ copy' = blocks /\ SyncPlayers
  /\ worker' = [p \in Residents |-> "nobody"]
  /\ target' = [p \in Residents |-> Nowhere] /\ up' = {}
  /\ taps' = Listed /\ routes' = Wired
  /\ guests' = [p \in Residents |-> IF p \in Listed THEN disks[p] ELSE Nowhere]
  /\ applied' = TRUE
  /\ UNCHANGED <<blocks, disks, moves>>

AddressNext ==
  \/ \E i \in DOMAIN blocks : TakeOutBlock(i) \/ OperatorDeploys(i)
  \/ \E i \in DOMAIN copy : WatcherDeploys(i)
  \/ \E p \in Residents :
       AppendBlock(p) \/ RestartGuest(p) \/ BootGuest(p) \/ RecordRunning(p) \/ Abandon(p)
  \/ ApplyRoutes \/ SyncTable \/ StartWatcher \/ RestartHost

AddressSpec == AddressInit /\ [][AddressNext]_addressVars

-----------------------------------------------------------------------------
AtHome(p) == hosts[p] \in Places /\ routes[hosts[p]] = p /\ guests[p] = hosts[p]

\* Once the list is applied to the topology, the address the tick loop probes for a
\* running player on the list leads to that player's own VM, and it answers there:
\* through deploys with copies of the list of any age, addresses that change hands,
\* restarts, and healthchecks that were passed by another's service (deploy.py:304).
ProbedAtHome == applied => \A p \in playing \cap Listed : AtHome(p)
=============================================================================
