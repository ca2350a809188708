-------------------------------- MODULE Http1 --------------------------------
(***************************************************************************)
(* The text probers (orchestrator/httpclient.py, classes Http09 and Http1) *)
(* and the scripts probes.py runs with them.  A response is a stream of    *)
(* tokens, and TCP may cut it anywhere: what a recv returns is any prefix  *)
(* of what is on its way.  What is left in the buffer when a response is   *)
(* complete is dropped; what is left on the socket is not.  The service    *)
(* answers what it likes, as late and in as small pieces as it likes.      *)
(***************************************************************************)
EXTENDS Integers, Sequences

CONSTANTS
  PerOp,        \* time a socket operation may take
  BudgetLimit   \* time a request may take

\* default_budget is three times a socket operation's, and more for short ones.
ASSUME Http1Assumption == PerOp \in Nat \ {0} /\ BudgetLimit \in Nat /\ BudgetLimit >= 3 * PerOp

VARIABLES
  text,        \* the prober: what it runs, where it is, and its buffer
  stream,      \* tokens sent by the service and not yet received
  service,     \* the connection as the service sees it, and its answers so far
  clock        \* time since the request began, in this operation, and allowed for it

http1vars == <<text, stream, service, clock>>

TextVersions == {"0.9", "1.0", "1.1"}
Scripts == {"health", "plant", "fetch"}

\* What an answer says of itself, and whether the connection ends after it.
\* "broken" is one that cannot be parsed or exceeds a size limit.
Answers ==
  {a \in [proto: {"naked", "1.0", "1.1"}, framing: {"length", "chunked", "close"},
          content: {"good", "refused", "broken"}, says_close: BOOLEAN, hangs_up: BOOLEAN] :
     a.proto = "naked" => a.framing = "close" /\ ~a.says_close}

NoAnswer == [proto |-> "none"]
Token(kind) == [kind |-> kind, answer |-> NoAnswer]

\* "last" is the size line of the empty chunk, "end" the empty line after it.
Tokens(a) ==
  IF a.proto = "naked" THEN IF a.content = "good" THEN <<Token("data")>> ELSE <<>>
  ELSE <<[kind |-> "head", answer |-> a]>>
       \o IF a.framing = "chunked"
          THEN <<Token("size"), Token("data"), Token("last"), Token("end")>>
          ELSE <<Token("data")>>

Running == {"ready", "dial", "send", "head", "exact", "size", "chunk", "all"}

NoProbe == [version |-> "none", script |-> "none", at |-> "none", requests |-> 0, buffer |-> <<>>,
            answer |-> NoAnswer, lost |-> FALSE, stray |-> FALSE]
NoService == [open |-> FALSE, finished |-> FALSE, asked |-> FALSE, answers |-> <<>>]
Stopped == [spent |-> 0, idle |-> 0, armed |-> PerOp]

Http1TypeOK ==
  /\ text.version \in TextVersions \cup {"none"} /\ text.script \in Scripts \cup {"none"}
  /\ text.at \in Running \cup {"none", "up", "down"}
  /\ text.requests \in 0..2 /\ text.answer \in Answers \cup {NoAnswer}
  /\ text.buffer \in Seq([kind: {"head", "size", "data", "last", "end"}, answer: Answers \cup {NoAnswer}])
  /\ stream \in Seq([kind: {"head", "size", "data", "last", "end"}, answer: Answers \cup {NoAnswer}])
  /\ service.answers \in Seq(Answers) /\ Len(service.answers) <= text.requests
  /\ clock.idle \in 0..clock.armed /\ clock.armed \in 0..PerOp

Http1Init == text = NoProbe /\ stream = <<>> /\ service = NoService /\ clock = Stopped

-----------------------------------------------------------------------------
(* The service. *)

Answer(a) ==
  /\ service.asked /\ ~service.finished
  /\ stream' = stream \o Tokens(a)
  /\ service' = [service EXCEPT !.asked = FALSE, !.finished = a.hangs_up, !.answers = Append(@, a)]
  /\ UNCHANGED <<text, clock>>

-----------------------------------------------------------------------------
(* The prober. *)

\* The next probe, of any kind.  0.9 carries no notes.
Choose(version, script) ==
  /\ text.at \in {"none", "up", "down"}
  /\ version = "0.9" => script = "health"
  /\ text' = [NoProbe EXCEPT !.version = version, !.script = script, !.at = "ready"]
  /\ service' = NoService /\ clock' = Stopped
  /\ UNCHANGED stream

NeedsTwo == text.script = "plant" \/ (text.script = "health" /\ text.version = "1.1")

\* A request begins, with its budget, on the connection there is or a new one.
Begin ==
  /\ text.at = "ready"
  /\ text' = [text EXCEPT !.at = IF service.open THEN "send" ELSE "dial", !.requests = @ + 1,
                          !.stray = service.open /\ stream # <<>>]
  /\ clock' = Stopped
  /\ UNCHANGED <<stream, service>>

Dial ==
  /\ text.at = "dial"
  /\ text' = [text EXCEPT !.at = "send"]
  /\ stream' = <<>>
  /\ service' = [service EXCEPT !.open = TRUE, !.finished = FALSE]
  /\ clock' = [clock EXCEPT !.idle = 0]

\* Mutant of Armed: the budget does not shorten the wait.
ArmedPerOp == [clock EXCEPT !.idle = 0, !.armed = PerOp]

\* Budget.arm: a recv may take what is left of the budget, at most.  With nothing left
\* it raises, and there is no recv.
Armed == [clock EXCEPT !.idle = 0,
                       !.armed = IF BudgetLimit - clock.spent < PerOp THEN BudgetLimit - clock.spent ELSE PerOp]

\* The first recv of the response is armed.
Send ==
  /\ text.at = "send"
  /\ text' = [text EXCEPT !.at = IF text.version = "0.9" THEN "all" ELSE "head", !.buffer = <<>>]
  /\ service' = [service EXCEPT !.asked = TRUE]
  /\ clock' = Armed
  /\ UNCHANGED stream

HasHead == \E i \in DOMAIN text.buffer : text.buffer[i].kind = "head"

\* The loop's condition: what there is in the buffer is not enough.
Wants ==
  CASE text.at = "head" -> ~HasHead
    [] text.at = "all" -> TRUE
    [] text.at \in {"exact", "size", "chunk"} -> text.buffer = <<>>
    [] OTHER -> FALSE

\* A recv returns with n tokens; with none, it brought a part of one.
Receive(n) ==
  /\ Wants /\ clock.armed > 0
  /\ text' = [text EXCEPT !.buffer = @ \o SubSeq(stream, 1, n)]
  /\ stream' = SubSeq(stream, n + 1, Len(stream))
  /\ clock' = Armed
  /\ UNCHANGED service

\* The probe ends, and with it the connection.
Drop == stream' = <<>> /\ service' = [service EXCEPT !.open = FALSE, !.asked = FALSE] /\ clock' = Stopped
End(verdict) == text' = [text EXCEPT !.at = verdict, !.buffer = <<>>, !.answer = NoAnswer] /\ Drop
Fail == End("down")

\* Mutant of Closes: an HTTP/1.0 connection is kept.
ClosesWhenTold(a) == a.framing = "close" \/ a.says_close

\* Whether the client drops the connection after an answer.
Closes(a) == text.version = "1.0" \/ a.framing = "close" \/ a.says_close

\* A response has been read to its end; its status counts, and for HTTP/1.1's
\* health that the connection persists.
Complete(a) ==
  IF a.content # "good" \/ (text.script = "health" /\ NeedsTwo /\ text.requests = 1 /\ Closes(a))
  THEN Fail
  ELSE IF text.requests = 1 /\ NeedsTwo
  THEN /\ text' = [text EXCEPT !.at = "ready", !.buffer = <<>>, !.answer = NoAnswer]
       /\ IF Closes(a) THEN Drop ELSE UNCHANGED <<stream, service>> /\ clock' = Stopped
  ELSE End("up")

\* Mutant of Fits: any status line will do.
FitsAny(a) == a.content # "broken"

\* The status line is of the version probed, and the framing one it has.
Fits(a) ==
  /\ a.content # "broken" /\ a.proto = text.version
  /\ a.framing = "chunked" => text.version = "1.1"
  /\ a.framing = "close" => text.version = "1.0"

\* Anything before the status line makes it malformed.
ReadHead ==
  /\ text.at = "head" /\ HasHead
  /\ LET first == Head(text.buffer) a == first.answer
     IN  IF first.kind # "head" \/ ~Fits(a) THEN Fail
         ELSE /\ text' = [text EXCEPT !.answer = a, !.buffer = Tail(@), !.at =
                            CASE a.framing = "length" -> "exact"
                              [] a.framing = "chunked" -> "size"
                              [] OTHER -> "all"]
              /\ UNCHANGED <<stream, service, clock>>

\* _dechunk returns at the empty chunk, whether its end has come or not.
ReadSize ==
  /\ text.at = "size" /\ text.buffer # <<>>
  /\ IF Head(text.buffer).kind = "last" THEN Complete(text.answer)
     ELSE /\ text' = [text EXCEPT !.at = "chunk", !.buffer = Tail(@)]
          /\ UNCHANGED <<stream, service, clock>>

ReadChunk ==
  /\ text.at = "chunk" /\ text.buffer # <<>>
  /\ text' = [text EXCEPT !.at = "size", !.buffer = Tail(@)]
  /\ UNCHANGED <<stream, service, clock>>

ReadExact == text.at = "exact" /\ text.buffer # <<>> /\ Complete(text.answer)

\* The connection's end completes a body framed by it, and nothing else.  What 0.9
\* sends is all body, and must not look like a status line.
ReadEnd ==
  /\ Wants /\ clock.armed > 0 /\ stream = <<>> /\ service.finished
  /\ IF text.at # "all" THEN Fail
     ELSE IF text.version = "1.0" THEN Complete(text.answer)
     ELSE IF text.buffer # <<>> /\ Head(text.buffer).kind # "head" THEN End("up")
     ELSE Fail

\* The operation's time is up, or the budget at the next look at it, or the
\* connection is refused or lost.
Lose ==
  /\ text.at \in Running
  /\ text' = [text EXCEPT !.at = "down", !.buffer = <<>>, !.answer = NoAnswer, !.lost = TRUE]
  /\ Drop

Elapses ==
  /\ text.at \in {"dial", "send"} \/ Wants
  /\ clock.idle < clock.armed
  /\ clock' = [clock EXCEPT !.spent = @ + 1, !.idle = @ + 1]
  /\ UNCHANGED <<text, stream, service>>

Http1Next ==
  \/ \E a \in Answers : Answer(a)
  \/ \E version \in TextVersions, script \in Scripts : Choose(version, script)
  \/ Begin \/ Dial \/ Send
  \/ \E n \in 0..Len(stream) : Receive(n)
  \/ ReadHead \/ ReadSize \/ ReadChunk \/ ReadExact \/ ReadEnd
  \/ Lose \/ Elapses

Http1Spec == Http1Init /\ [][Http1Next]_http1vars

-----------------------------------------------------------------------------
Speaks(a, last) ==
  /\ a.content = "good"
  /\ CASE text.version = "0.9" -> a.proto = "naked" /\ a.hangs_up
       [] text.version = "1.0" -> a.proto = "1.0" /\ a.framing # "chunked"
       [] text.version = "1.1" -> a.proto = "1.1" /\ a.framing # "close"
                                  /\ (a.hangs_up => a.says_close \/ last)
  /\ a.framing = "close" => a.hangs_up

\* probes.py fails a health check whose first answer announces the connection's end.
Persists == text.script = "health" /\ text.version = "1.1" /\ service.answers # <<>> => ~service.answers[1].says_close

AllSpeak == Persists /\ \A i \in DOMAIN service.answers : Speaks(service.answers[i], i = (IF NeedsTwo THEN 2 ELSE 1))

\* httpclient.py: "up" means "answers correctly for that specific version".  A probe
\* passes on as many answers as it asks for, each in the version's own terms and, if
\* another was to follow on its connection, leaving that open.
PassesForCause == text.at = "up" => AllSpeak /\ Len(service.answers) = (IF NeedsTwo THEN 2 ELSE 1)

\* A service that keeps to the version, however its bytes are cut up on the way, fails
\* only by taking too long, or by the end of its first chunked body coming late.
FailsForCause == text.at = "down" => text.lost \/ text.stray \/ ~AllSpeak

\* RULES 6 as the prober's documentation has it: bodies may be chunked, and the
\* connection survives a second request.
CorrectServicePasses == text.at = "down" => text.lost \/ ~AllSpeak

\* Budget: "a hard wall-clock ceiling for one request", however the service dribbles.
WithinBudget == clock.spent <= BudgetLimit
=============================================================================
