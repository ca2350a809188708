-------------------------------- MODULE Http2 --------------------------------
(***************************************************************************)
(* The HTTP/2 prober (orchestrator/httpclient.py, class Http2): one        *)
(* connection, requests one after the other, and a decoder that lives as   *)
(* long as the connection.  A probe closes its client however it ends      *)
(* (probes.py).  The service is one that keeps to RFC 9113; it may send    *)
(* control frames in between and, since nothing tells it not to, push, or  *)
(* pad or prioritise its HEADERS.                                          *)
(***************************************************************************)
EXTENDS Hpack

CONSTANTS
  TableSizes,      \* limits the peer may choose for its table
  Window,          \* the flow-control window a stream begins with, in DATA frames
  FrameLimit,      \* frames _read_response reads before it gives up (512)
  ControlLimit,    \* frames _await_frame skips before it gives up (64)
  MaxRequests,     \* requests a probe makes on one connection
  MaxBody,         \* bound: DATA frames of a response
  Pushes,          \* bound: whether the service pushes, once
  Spares           \* bound: whether it pads its HEADERS or gives them a priority

ASSUME Http2Assumption ==
  /\ TableSizes \subseteq 0..DefaultSize
  /\ {Window, FrameLimit, ControlLimit, MaxRequests} \subseteq Nat \ {0}
  /\ MaxBody \in Nat /\ {Pushes, Spares} \subseteq BOOLEAN

VARIABLES
  client,      \* the Http2 object: where it is, and the counters of its loops
  decoder,     \* its hpack.Decoder
  wire,        \* the frame on its way to the client, or Quiet
  peer         \* its encoder, the connection's window, the streams it serves

http2vars == <<client, decoder, wire, peer>>

Closed == [at |-> "closed", requests |-> 0, seen_headers |-> FALSE, frames |-> 0, controls |-> 0]
NewDecoder == [table |-> <<>>, limit |-> DefaultSize]
Quiet == [kind |-> "quiet"]

\* A stream is the request's own or the pushed one; `left` is the DATA still to come.
Streams == {"own", "push"}
NoStream == [open |-> FALSE, begun |-> FALSE, left |-> 0, window |-> 0]
NewStream(left) == [open |-> TRUE, begun |-> FALSE, left |-> left, window |-> Window]

\* History: whether it has pushed, and whether a HEADERS frame had octets to spare,
\* beside those of its block.
NewPeer == [table |-> <<>>, limit |-> DefaultSize, window |-> Window, pushed |-> FALSE, spared |-> FALSE,
            streams |-> [s \in Streams |-> NoStream]]

Http2TypeOK ==
  /\ client \in [at: {"closed", "settings", "open", "waiting", "raised"}, requests: 0..MaxRequests,
                 seen_headers: BOOLEAN, frames: 0..FrameLimit - 1, controls: 0..ControlLimit - 1]
  /\ decoder.limit \in 0..DefaultSize /\ decoder.table \in Seq(Entries)
  /\ wire.kind \in {"quiet", "settings", "control", "headers", "data", "abort"}
  /\ peer.limit \in 0..DefaultSize /\ peer.table \in Seq(Fields)
  /\ {peer.pushed, peer.spared} \subseteq BOOLEAN
  /\ peer.window \in 0..Window
  /\ \A s \in Streams : peer.streams[s].window \in 0..Window /\ peer.streams[s].left \in 0..MaxBody

Http2Init ==
  /\ client = Closed /\ decoder = NewDecoder
  /\ wire = Quiet /\ peer = NewPeer

-----------------------------------------------------------------------------
(* The service. *)

PeerSettings ==
  /\ client.at = "settings" /\ wire = Quiet
  /\ wire' = [kind |-> "settings"]
  /\ UNCHANGED <<client, decoder, peer>>

MaySend == client.at \in {"open", "waiting"} /\ wire = Quiet

\* PING, another SETTINGS, WINDOW_UPDATE, or a frame of a kind unknown.
PeerControl ==
  /\ MaySend
  /\ wire' = [kind |-> "control"]
  /\ UNCHANGED <<client, decoder, peer>>

\* RST_STREAM of the request's stream, GOAWAY, a header block in two frames, a body
\* too large: all are refused alike.
PeerAbort ==
  /\ MaySend
  /\ wire' = [kind |-> "abort"]
  /\ UNCHANGED <<client, decoder, peer>>

\* A block of one representation, or of static table entries alone.  It is interim
\* (1xx), the head of the response, or its trailer.  Bound: a service that has pushed,
\* or sends octets to spare, leaves its table as it is from then on.
Blocks(spare) ==
  {[kind |-> "static"]}
  \cup (IF peer.pushed \/ peer.spared \/ spare THEN Indexed(peer.table) ELSE Representations(peer.table, TableSizes))

Encoded(block) ==
  IF block.kind = "static" THEN peer
  ELSE LET after == PeerAfter(peer.table, peer.limit, block)
       IN  [peer EXCEPT !.table = after.table, !.limit = after.limit]

\* `spare` says that the frame is PADDED or has a PRIORITY: a pad length or a
\* dependency and a weight stand before the block, and padding may follow it.  Bound:
\* a service pushes or has octets to spare, not both.
PeerHeaders(s, block, final, end, spare) ==
  /\ MaySend
  /\ spare => Spares /\ ~peer.pushed
  /\ peer.streams[s].open
  /\ peer.streams[s].begun => end
  /\ end => final /\ peer.streams[s].left = 0
  /\ wire' = [kind |-> "headers", stream |-> s, end |-> end, block |-> block, spare |-> spare]
  /\ peer' = [Encoded(block) EXCEPT !.spared = @ \/ spare,
                 !.streams[s].begun = @ \/ final, !.streams[s].open = ~end]
  /\ UNCHANGED <<client, decoder>>

\* A frame of some DATA, or an empty one, for which no window is needed.
PeerData(s, size, end) ==
  /\ MaySend
  /\ LET stream == peer.streams[s]
     IN  /\ stream.open /\ stream.begun
         /\ size <= stream.left /\ size <= stream.window /\ size <= peer.window
         /\ end => stream.left = size
  /\ wire' = [kind |-> "data", stream |-> s, end |-> end, size |-> size]
  /\ peer' = [peer EXCEPT !.window = @ - size, !.streams[s].window = @ - size,
                          !.streams[s].left = @ - size, !.streams[s].open = ~end]
  /\ UNCHANGED <<client, decoder>>

\* PUSH_PROMISE carries a header block too, on the request's stream.
PeerPush(block) ==
  /\ Pushes /\ MaySend
  /\ ~peer.pushed /\ ~peer.spared /\ peer.streams["own"].open
  /\ wire' = [kind |-> "control"]
  /\ \E left \in 0..MaxBody :
       peer' = [Encoded(block) EXCEPT !.pushed = TRUE, !.streams["push"] = NewStream(left)]
  /\ UNCHANGED <<client, decoder>>

-----------------------------------------------------------------------------
(* The prober. *)

Connect ==
  /\ client.at = "closed"
  /\ client' = [Closed EXCEPT !.at = "settings"]
  /\ UNCHANGED <<decoder, wire, peer>>

\* The HEADERS of a request, and its budget, are new; the service starts on it.
Request ==
  /\ client.requests < MaxRequests
  /\ client' = [Closed EXCEPT !.at = "waiting", !.requests = client.requests + 1]
  /\ \E left \in 0..MaxBody : peer' = [peer EXCEPT !.streams["own"] = NewStream(left)]
  /\ UNCHANGED <<decoder>>

FirstRequest == client.at = "settings" /\ wire.kind = "settings" /\ wire' = Quiet /\ Request
NextRequest == client.at = "open" /\ UNCHANGED wire /\ Request

\* Whatever the connection and the decoder knew is gone, at both ends.
Close ==
  /\ client' = Closed /\ decoder' = NewDecoder
  /\ wire' = Quiet /\ peer' = NewPeer

Done == client.at \in {"open", "raised"} /\ Close

\* The budget runs out, a recv does, or the connection is lost.
Timeout == client.at \in {"settings", "waiting"} /\ Close

Arrived(kind) == client.at = "waiting" /\ wire.kind = kind /\ wire' = Quiet

\* Mutant of ReadControl: skipped without counting to an end.
ReadControlForever ==
  /\ Arrived("control")
  /\ client' = [client EXCEPT !.controls = @ + 1]
  /\ UNCHANGED <<decoder, peer>>

\* _await_frame skips what is not in `kinds`, answering PING and SETTINGS.
ReadControl ==
  /\ client.controls + 1 < ControlLimit
  /\ Arrived("control")
  /\ client' = [client EXCEPT !.controls = @ + 1]
  /\ UNCHANGED <<decoder, peer>>

\* The loops' ends, and the frames that are an error.
GiveUp ==
  /\ client.at = "waiting"
  /\ \/ wire.kind = "control" /\ client.controls + 1 = ControlLimit
     \/ wire.kind = "abort"
     \/ /\ wire.kind \in {"headers", "data"} /\ client.frames + 1 = FrameLimit
        /\ wire.stream # "own" \/ ~wire.end
  /\ Close

\* The client after a frame: the response is complete at END_STREAM.
After(frame) ==
  LET seen == client.seen_headers \/ frame.kind = "headers"
  IN  IF frame.end /\ seen
      THEN [client EXCEPT !.at = "open", !.seen_headers = FALSE, !.frames = 0, !.controls = 0]
      ELSE [client EXCEPT !.seen_headers = seen, !.frames = @ + 1, !.controls = 0]

MayGoOn == client.frames + 1 < FrameLimit \/ wire.end

\* What the decoder makes of a HEADERS frame.  It is given the whole payload: octets
\* beside the block's are read as header fields too, and where they end the block is
\* read from wherever that leaves it.  Bound: the whole comes to one representation at
\* most that is kept, a literal with its name spelled out or an update.
Readings ==
  LET untouched == [table |-> decoder.table, limit |-> decoder.limit, got |-> NoField]
  IN  CASE wire.spare -> {untouched, [untouched EXCEPT !.got = Bad]} \cup
                         {Decode(decoder.table, decoder.limit, rep) :
                            rep \in Updates(TableSizes) \cup Spelled}
        [] ~wire.spare /\ wire.block.kind = "static" -> {untouched}
        [] ~wire.spare /\ wire.block.kind # "static" -> {Decode(decoder.table, decoder.limit, wire.block)}

\* An HpackError, or the IndexError of a string that is cut short, is not a
\* ProtocolError: the probe ends in it.
ReadHeaders ==
  /\ wire.kind = "headers" /\ wire.stream = "own" /\ MayGoOn
  /\ Arrived("headers")
  /\ \E reading \in Readings :
       /\ decoder' = [table |-> reading.table, limit |-> reading.limit]
       /\ client' = IF reading.got = Bad THEN [client EXCEPT !.at = "raised"] ELSE After(wire)
  /\ UNCHANGED peer

\* Mutant of Credited: the connection's window is forgotten.
CreditedStream(s) == [peer EXCEPT !.streams[s].window = @ + wire.size]

\* Both windows are given back what a DATA frame took.
Credited(s) == [peer EXCEPT !.window = @ + wire.size, !.streams[s].window = @ + wire.size]

ReadData ==
  /\ wire.kind = "data" /\ wire.stream = "own" /\ MayGoOn
  /\ Arrived("data")
  /\ peer' = Credited("own")
  /\ client' = After(wire)
  /\ UNCHANGED <<decoder>>

\* Frames of another stream are counted and dropped, header blocks unread.
ReadOther ==
  /\ wire.kind \in {"headers", "data"} /\ wire.stream # "own" /\ client.frames + 1 < FrameLimit
  /\ Arrived(wire.kind)
  /\ client' = [client EXCEPT !.frames = @ + 1, !.controls = 0]
  /\ UNCHANGED <<decoder, peer>>

ReadFrame == FirstRequest \/ ReadControl \/ GiveUp \/ ReadHeaders \/ ReadData \/ ReadOther

-----------------------------------------------------------------------------
PeerResponds ==
  MaySend /\ (\/ \E spare, final, end \in BOOLEAN : \E block \in Blocks(spare) :
                   PeerHeaders("own", block, final, end, spare)
              \/ \E size \in {0, 1}, end \in BOOLEAN : PeerData("own", size, end))

\* What a pushed stream's HEADERS hold beside the block goes unread with it.
PeerPushes ==
  MaySend /\ (\/ \E block \in Blocks(FALSE) : PeerPush(block)
              \/ \E block \in Blocks(FALSE), final, end \in BOOLEAN : PeerHeaders("push", block, final, end, FALSE)
              \/ \E size \in {0, 1}, end \in BOOLEAN : PeerData("push", size, end))

Http2Next ==
  \/ PeerSettings \/ PeerControl \/ PeerAbort \/ PeerResponds \/ PeerPushes
  \/ Connect \/ NextRequest \/ ReadFrame \/ Done \/ Timeout

Http2Spec == Http2Init /\ [][Http2Next]_http2vars

\* The prober reads what arrives, and the service goes on with its response, in
\* blocks that need no table and in DATA that is not empty, while its windows let it.
\* No time limit is counted on.
PeerGoesOn ==
  \/ \E final, end \in BOOLEAN : PeerHeaders("own", [kind |-> "static"], final, end, FALSE)
  \/ \E end \in BOOLEAN : PeerData("own", 1, end)

Http2FairSpec == Http2Spec /\ WF_http2vars(ReadFrame) /\ WF_http2vars(PeerGoesOn)

-----------------------------------------------------------------------------
\* hpack.py: unread strings are kept in the table "so subsequent indices stay in
\* sync".  Whatever either end has evicted, a field on its way will be read as it
\* was sent, or not at all, unless the service has pushed, or has padded or
\* prioritised its HEADERS (httpclient.py 447-451).
FieldsSurvive ==
  ~peer.pushed /\ ~peer.spared /\ wire.kind = "headers" /\ wire.block.kind \in {"indexed", "insert", "literal"} =>
    Survives(wire.block.field, Decode(decoder.table, decoder.limit, wire.block).got)

\* The decoder keeps what the peer keeps, in its place, and may keep more: it counts
\* unread strings as empty, and so evicts later.  Excepted are, again, services that
\* have pushed, padded or prioritised.
PeerTableKept ==
  ~peer.pushed /\ ~peer.spared /\ wire.kind # "headers" =>
    /\ Len(peer.table) <= Len(decoder.table)
    /\ \A i \in DOMAIN peer.table : Survives(peer.table[i], decoder.table[i])

\* HpackError is no ProtocolError: it escapes the probe, and costs the player the rungs
\* that were to follow.  Nothing in the accounts of the two tables causes it, whatever
\* the service inserts, evicts or resizes: two things the protocol allows a service can,
\* a push (its block is never decoded) and a HEADERS frame that is PADDED or has a
\* PRIORITY (httpclient.py 447-451 decodes its whole payload).
RaisedForCause == client.at = "raised" => peer.pushed \/ peer.spared

\* A service that goes on with its response is never left without a window: the
\* request comes to an end, with no help of a time limit, unless it pushes.
RequestEnds == client.at = "waiting" ~> client.at # "waiting" \/ peer.pushed
=============================================================================
