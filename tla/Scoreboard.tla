------------------------------ MODULE Scoreboard ------------------------------
(***************************************************************************)
(* scoreboard.json (Store.render_board).  Whoever changes the ledger       *)
(* renders the whole board from it, into scoreboard.json.tmp, and renames  *)
(* that over scoreboard.json.  The tick loop renders once a tick, in its   *)
(* main thread; the submission API in the handler thread of every accepted *)
(* flag, and ctfctl in every command that touches scores.  They all use    *)
(* the one temporary name.  A file is an inode, of which the two names are *)
(* references; an open file stays the inode it was when it was opened.     *)
(***************************************************************************)
EXTENDS Integers, FiniteSets, FiniteSetsExt, TLC

CONSTANTS
  Ticker,       \* the tick loop
  Others,       \* handler threads and ctfctl invocations
  Blocks,       \* write() calls a board takes
  MaxChanges,   \* bound: changes of the ledger
  MaxOthers,    \* bound: boards rendered by Others
  MaxKills      \* bound: how often a renderer is killed

ASSUME ScoreboardAssumption ==
  /\ IsFiniteSet(Others) /\ Ticker \notin Others
  /\ Blocks \in Nat \ {0}

Renderers == Others \cup {Ticker}

NoFile == 0
Inodes == 1..(Cardinality(Renderers) + 2)
Hole == -1      \* a block nobody has written since the file was truncated

VARIABLES
  version,      \* how often the ledger has changed
  disk,         \* per inode: which version's board each of its blocks belongs to
  temporary,    \* the inode named scoreboard.json.tmp
  board,        \* the inode named scoreboard.json
  rendering,    \* per renderer: where its render_board is, and its locals
  crossed,      \* history: one renderer has opened the file another was writing
  rendered,     \* boards begun by Others
  kills

boardVars == <<version, disk, temporary, board, rendering, crossed, rendered, kills>>

NotRendering == [at |-> "idle", read |-> 0, open |-> NoFile, written |-> 0]

BoardTypeOK ==
  /\ version \in Nat
  /\ disk \in [Inodes -> [1..Blocks -> Nat \cup {Hole}]]
  /\ temporary \in Inodes \cup {NoFile}
  /\ board \in Inodes \cup {NoFile}
  /\ rendering \in [Renderers ->
       [at: {"open"}, read: Nat, open: {NoFile}, written: {0}]
       \cup [at: {"write"}, read: Nat, open: Inodes, written: 0..Blocks]
       \cup {NotRendering}]
  /\ crossed \in BOOLEAN /\ rendered \in Nat /\ kills \in Nat

BoardInit ==
  /\ version = 0
  /\ disk = [inode \in Inodes |-> [b \in 1..Blocks |-> Hole]]
  /\ temporary = NoFile /\ board = NoFile
  /\ rendering = [r \in Renderers |-> NotRendering]
  /\ crossed = FALSE /\ rendered = 0 /\ kills = 0

-----------------------------------------------------------------------------
Change ==
  /\ version < MaxChanges
  /\ version' = version + 1
  /\ UNCHANGED <<disk, temporary, board, rendering, crossed, rendered, kills>>

\* The queries, taken as one: the oldest state of the ledger that any saw.
Read(r) ==
  /\ rendering[r] = NotRendering
  /\ r # Ticker => rendered < MaxOthers
  /\ rendering' = [rendering EXCEPT ![r] = [NotRendering EXCEPT !.at = "open", !.read = version]]
  /\ rendered' = IF r = Ticker THEN rendered ELSE rendered + 1
  /\ UNCHANGED <<version, disk, temporary, board, crossed, kills>>

Unused == Inodes \ ({temporary, board} \cup {rendering[r].open : r \in Renderers})

Crossing(r) == crossed' = (crossed \/ \E other \in Renderers \ {r} : rendering[other].at = "write")

\* Mutant of Open: a temporary file that is there is somebody else's.
OpenExclusive(r) ==
  /\ rendering[r].at = "open"
  /\ IF temporary = NoFile
     THEN /\ temporary' = Min(Unused)
          /\ disk' = [disk EXCEPT ![temporary'] = [b \in 1..Blocks |-> Hole]]
          /\ rendering' = [rendering EXCEPT ![r].at = "write", ![r].open = temporary']
     ELSE rendering' = [rendering EXCEPT ![r] = NotRendering] /\ UNCHANGED <<disk, temporary>>
  /\ Crossing(r)
  /\ UNCHANGED <<version, board, rendered, kills>>

\* Mutant of Open: the board is written in place.
OpenBoard(r) ==
  /\ rendering[r].at = "open"
  /\ board' = IF board = NoFile THEN Min(Unused) ELSE board
  /\ temporary' = board'
  /\ disk' = [disk EXCEPT ![board'] = [b \in 1..Blocks |-> Hole]]
  /\ rendering' = [rendering EXCEPT ![r].at = "write", ![r].open = board']
  /\ Crossing(r)
  /\ UNCHANGED <<version, rendered, kills>>

\* write_text opens with O_CREAT and O_TRUNC.
Open(r) ==
  /\ rendering[r].at = "open"
  /\ temporary' = IF temporary = NoFile THEN Min(Unused) ELSE temporary
  /\ disk' = [disk EXCEPT ![temporary'] = [b \in 1..Blocks |-> Hole]]
  /\ rendering' = [rendering EXCEPT ![r].at = "write", ![r].open = temporary']
  /\ Crossing(r)
  /\ UNCHANGED <<version, board, rendered, kills>>

\* Mutant of Write: the end of the board is not noticed.
WriteBeyond(r) ==
  LET b == rendering[r].written + 1
  IN  /\ rendering[r].at = "write"
      /\ disk' = [disk EXCEPT ![rendering[r].open] = (b :> rendering[r].read) @@ @]
      /\ rendering' = [rendering EXCEPT ![r].written = b]
      /\ UNCHANGED <<version, temporary, board, crossed, rendered, kills>>

\* The next block, at the writer's own position in the file.
Write(r) ==
  LET b == rendering[r].written + 1
  IN  /\ rendering[r].at = "write"
      /\ b <= Blocks
      /\ disk' = [disk EXCEPT ![rendering[r].open][b] = rendering[r].read]
      /\ rendering' = [rendering EXCEPT ![r].written = b]
      /\ UNCHANGED <<version, temporary, board, crossed, rendered, kills>>

\* os.replace goes by the name, whatever file has it now.  If none has, it raises:
\* the tick loop's process dies of that, an accepted request ends in a
\* "referee-error", a ctfctl command in a traceback.
Replace(r) ==
  /\ rendering[r].at = "write" /\ rendering[r].written = Blocks
  /\ IF temporary = NoFile
     THEN UNCHANGED <<temporary, board>>
     ELSE board' = temporary /\ temporary' = NoFile
  /\ rendering' = [rendering EXCEPT ![r] = NotRendering]
  /\ UNCHANGED <<version, disk, crossed, rendered, kills>>

\* The renderer's process is killed.
Kill(r) ==
  /\ kills < MaxKills
  /\ rendering[r] # NotRendering
  /\ rendering' = [rendering EXCEPT ![r] = NotRendering]
  /\ kills' = kills + 1
  /\ UNCHANGED <<version, disk, temporary, board, crossed, rendered>>

Step(r) == Read(r) \/ Open(r) \/ Write(r) \/ Replace(r)

BoardNext == Change \/ \E r \in Renderers : Step(r) \/ Kill(r)

BoardSpec == BoardInit /\ [][BoardNext]_boardVars

\* The tick loop renders every tick, systemd starting it again when it has died.
\* The others render when somebody has them to, and may stop anywhere.
BoardFairSpec == BoardSpec /\ WF_boardVars(Step(Ticker))

-----------------------------------------------------------------------------
Whole(inode) == \A b \in 1..Blocks : disk[inode][b] = disk[inode][1] /\ disk[inode][b] # Hole

\* state.py: "atomic: readers never see a partial board".  The file a reader opens
\* is one board, from its first byte to its last.
BoardIsWhole == board # NoFile => Whole(board)

\* It is, whatever kills and leftover files there were, as long as no renderer has
\* opened the file another was writing.
WholeUnlessCrossed == ~crossed => BoardIsWhole

\* Whatever renderers did to each other's files, once the ledger rests the board
\* comes to show it, whole.
BoardCatchesUp == <>[](board # NoFile /\ \A b \in 1..Blocks : disk[board][b] = version)
=============================================================================
