----------------------------- MODULE Http1Proofs -----------------------------
(***************************************************************************)
(* The text probes, for every time limit and every service: the wall-clock *)
(* ceiling of a request, what a pass and a failure mean, and the types.    *)
(***************************************************************************)
EXTENDS Http1, SequenceTheorems, TLAPS

\* What has been spent, and what the operation under way may still take, are within
\* the budget together.  Connecting and sending, which no budget shortens, are two
\* operations at most, and leave the budget its third.
Spending ==
  /\ "at" \in DOMAIN text
  /\ clock \in [spent: Nat, idle: Nat, armed: Nat]
  /\ clock.idle <= clock.armed
  /\ clock.spent + (clock.armed - clock.idle) <= BudgetLimit
  /\ text.at = "dial" => clock.spent = clock.idle /\ clock.armed = PerOp
  /\ text.at = "send" => clock.spent <= PerOp + clock.idle /\ clock.armed = PerOp

Aside(at) == at \notin {"dial", "send"}

\* A stopped clock is within any budget.
LEMMA StoppedSpends ==
  ASSUME "at" \in DOMAIN text', clock' = Stopped
  PROVE  Spending'
BY Http1Assumption DEF Stopped, Spending

\* Arming a receive keeps to the budget.
LEMMA ArmedSpends ==
  ASSUME Spending, "at" \in DOMAIN text', clock' = Armed, Aside(text'.at)
  PROVE  Spending'
<1> DEFINE left == BudgetLimit - clock.spent
           allowed == IF left < PerOp THEN left ELSE PerOp
<1>1. clock.spent \in Nat /\ clock.spent <= BudgetLimit
  BY Http1Assumption DEF Spending
<1>2. allowed \in Nat /\ clock.spent + allowed <= BudgetLimit
  BY <1>1, Http1Assumption
<1>3. clock' = [spent |-> clock.spent, idle |-> 0, armed |-> allowed]
  BY DEF Armed, Spending
<1> HIDE DEF allowed
<1>4. clock' \in [spent: Nat, idle: Nat, armed: Nat]
  BY <1>1, <1>2, <1>3
<1>5. clock'.idle <= clock'.armed /\ clock'.spent + (clock'.armed - clock'.idle) <= BudgetLimit
  BY <1>1, <1>2, <1>3
<1> QED
  BY <1>4, <1>5 DEF Spending, Aside

\* Nor does a step that leaves the clock alone, and neither connects nor sends.
LEMMA RestSpends ==
  ASSUME Spending, "at" \in DOMAIN text', UNCHANGED clock, Aside(text'.at)
  PROVE  Spending'
BY DEF Spending, Aside

\* The end of a probe stops the clock.
LEMMA EndSpends ==
  ASSUME Spending, NEW verdict, End(verdict)
  PROVE  Spending'
<1>1. "at" \in DOMAIN text' /\ clock' = Stopped
  BY DEF End, Drop, Spending
<1> QED
  BY <1>1, StoppedSpends

\* So does the end of a response.
LEMMA CompleteSpends ==
  ASSUME Spending, NEW a, Complete(a)
  PROVE  Spending'
<1>1. CASE Fail
  BY <1>1, EndSpends DEF Fail
<1>2. CASE End("up")
  BY <1>2, EndSpends
<1>3. CASE ~Fail /\ ~End("up")
  <2>1. "at" \in DOMAIN text' /\ clock' = Stopped
    BY <1>3 DEF Complete, Drop, Spending
  <2> QED
    BY <2>1, StoppedSpends
<1> QED
  BY <1>1, <1>2, <1>3

LEMMA SpendingStep ==
  ASSUME Spending, [Http1Next]_http1vars
  PROVE  Spending'
<1>1. ASSUME NEW a \in Answers, Answer(a)
      PROVE  Spending'
  BY <1>1 DEF Answer, Spending
<1>2. ASSUME NEW version \in TextVersions, NEW script \in Scripts, Choose(version, script)
      PROVE  Spending'
  <2>1. "at" \in DOMAIN text' /\ clock' = Stopped
    BY <1>2 DEF Choose, NoProbe
  <2> QED
    BY <2>1, StoppedSpends
<1>3. ASSUME Begin
      PROVE  Spending'
  <2>1. "at" \in DOMAIN text' /\ clock' = Stopped
    BY <1>3 DEF Begin, Spending
  <2> QED
    BY <2>1, StoppedSpends
<1>4. ASSUME Dial
      PROVE  Spending'
  <2>1. clock' = [clock EXCEPT !.idle = 0] /\ "at" \in DOMAIN text' /\ text'.at = "send"
    BY <1>4 DEF Dial, Spending
  <2>2. clock.spent <= PerOp /\ clock.armed = PerOp
    BY <1>4 DEF Dial, Spending
  <2> QED
    BY <2>1, <2>2, Http1Assumption DEF Spending
<1>5. ASSUME Send
      PROVE  Spending'
  <2>1. "at" \in DOMAIN text' /\ Aside(text'.at) /\ clock' = Armed
    BY <1>5 DEF Send, Spending, Aside
  <2> QED
    BY <2>1, ArmedSpends
<1>6. ASSUME NEW n \in 0..Len(stream), Receive(n)
      PROVE  Spending'
  <2>1. "at" \in DOMAIN text' /\ Aside(text'.at) /\ clock' = Armed
    BY <1>6 DEF Receive, Wants, Spending, Aside
  <2> QED
    BY <2>1, ArmedSpends
<1>7. ASSUME ReadHead
      PROVE  Spending'
  <2>1. CASE Fail
    BY <2>1, EndSpends DEF Fail
  <2>2. CASE ~Fail
    <3>1. /\ UNCHANGED clock
          /\ "at" \in DOMAIN text'
      BY <1>7, <2>2 DEF ReadHead, Spending
    <3>2. Aside(text'.at)
      BY <1>7, <2>2 DEF ReadHead, Fits, Spending, Aside
    <3> QED
      BY <3>1, <3>2, RestSpends
  <2> QED
    BY <2>1, <2>2
<1>8. ASSUME ReadSize
      PROVE  Spending'
  <2>1. CASE Complete(text.answer)
    BY <2>1, CompleteSpends
  <2>2. CASE ~Complete(text.answer)
    <3>1. "at" \in DOMAIN text' /\ Aside(text'.at) /\ UNCHANGED clock
      BY <1>8, <2>2 DEF ReadSize, Spending, Aside
    <3> QED
      BY <3>1, RestSpends
  <2> QED
    BY <2>1, <2>2
<1>9. ASSUME ReadChunk
      PROVE  Spending'
  <2>1. "at" \in DOMAIN text' /\ Aside(text'.at) /\ UNCHANGED clock
    BY <1>9 DEF ReadChunk, Spending, Aside
  <2> QED
    BY <2>1, RestSpends
<1>10. ASSUME ReadExact
       PROVE  Spending'
  BY <1>10, CompleteSpends DEF ReadExact
<1>11. ASSUME ReadEnd
       PROVE  Spending'
  BY <1>11, CompleteSpends, EndSpends DEF ReadEnd, Fail
<1>12. ASSUME Lose
       PROVE  Spending'
  <2>1. "at" \in DOMAIN text' /\ clock' = Stopped
    BY <1>12 DEF Lose, Drop, Spending
  <2> QED
    BY <2>1, StoppedSpends
<1>13. ASSUME Elapses
       PROVE  Spending'
  <2>1. /\ clock.spent \in Nat /\ clock.idle \in Nat /\ clock.armed \in Nat
        /\ clock.idle < clock.armed /\ UNCHANGED text
    BY <1>13 DEF Elapses, Spending
  <2>2. clock' = [spent |-> clock.spent + 1, idle |-> clock.idle + 1, armed |-> clock.armed]
    BY <1>13 DEF Elapses, Spending
  <2>3. clock' \in [spent: Nat, idle: Nat, armed: Nat] /\ clock'.idle <= clock'.armed
    BY <2>1, <2>2
  <2>4. clock'.spent + (clock'.armed - clock'.idle) <= BudgetLimit
    BY <2>1, <2>2, Http1Assumption DEF Spending
  <2>5. /\ text'.at = "dial" => clock'.spent = clock'.idle /\ clock'.armed = PerOp
        /\ text'.at = "send" => clock'.spent <= PerOp + clock'.idle /\ clock'.armed = PerOp
    BY <2>1, <2>2, Http1Assumption DEF Spending
  <2> QED
    BY <2>1, <2>3, <2>4, <2>5 DEF Spending
<1>14. ASSUME UNCHANGED http1vars
       PROVE  Spending'
  BY <1>14 DEF http1vars, Spending
<1> QED
  BY <1>1, <1>2, <1>3, <1>4, <1>5, <1>6, <1>7, <1>8, <1>9, <1>10, <1>11, <1>12, <1>13, <1>14
  DEF Http1Next

\* Budget, httpclient.py: no request of a text probe takes longer than its ceiling,
\* whatever the service sends and however slowly, given a ceiling of three operations.
THEOREM RequestsAreBounded == Http1Spec => []WithinBudget
<1>1. Http1Init => Spending
  BY Http1Assumption DEF Http1Init, NoProbe, Stopped, Spending
<1>2. Spending /\ [Http1Next]_http1vars => Spending'
  BY SpendingStep
<1>3. Spending => WithinBudget
  BY Http1Assumption DEF Spending, WithinBudget
<1> QED
  BY <1>1, <1>2, <1>3, PTL DEF Http1Spec

-----------------------------------------------------------------------------
(***************************************************************************)
(* What a probe concludes.  The tokens the client has yet to read, in its  *)
(* buffer and on the socket, are those of one answer, or what it left of   *)
(* the answer before.                                                      *)
(***************************************************************************)
Symbols == [kind: {"head", "size", "data", "last", "end"}, answer: Answers \cup {NoAnswer}]

Probes ==
  [version: TextVersions \cup {"none"}, script: Scripts \cup {"none"}, at: Running \cup {"none", "up", "down"},
   requests: Nat, buffer: Seq(Symbols), answer: Answers \cup {NoAnswer}, lost: BOOLEAN, stray: BOOLEAN]
Connections == [open: BOOLEAN, finished: BOOLEAN, asked: BOOLEAN, answers: Seq(Answers)]

TextTypes ==
  /\ text \in Probes /\ stream \in Seq(Symbols) /\ service \in Connections
  /\ text.at # "none" => text.version \in TextVersions
  /\ text.version = "0.9" => text.script = "health"

Remaining == text.buffer \o stream

First == service.answers[1]
Current == service.answers[text.requests]

\* The first of two answers, when the probe goes on after it.
Passed(a) ==
  /\ a.content = "good" /\ Fits(a)
  /\ a.framing = "close" => a.hangs_up
  /\ text.script = "health" => ~Closes(a)

Requesting ==
  /\ text.requests \in {1, 2}
  /\ text.requests = 2 => NeedsTwo /\ Len(service.answers) >= 1 /\ Passed(First)
  /\ text.stray => text.requests = 2

Leftover == IF text.stray THEN <<Token("end")>> ELSE <<>>

\* The request under way is not answered.  A service that has hung up did so after its
\* first answer, without saying so.
Unanswered ==
  /\ Len(service.answers) = text.requests - 1
  /\ service.finished <=> text.requests = 2 /\ ~Closes(First) /\ First.hangs_up
  /\ Remaining = Leftover

Answered ==
  /\ Len(service.answers) = text.requests
  /\ service.finished = Current.hangs_up
  /\ text.requests = 2 /\ First.hangs_up => Closes(First)

\* How far the body of an answer has been read.
Body ==
  /\ text.answer.framing = "length" => text.at = "exact" /\ Remaining = <<Token("data")>>
  /\ text.answer.framing = "close" => text.at = "all" /\ Remaining = <<Token("data")>>
  /\ text.answer.framing = "chunked" =>
       \/ text.at = "size" /\ Remaining = <<Token("size"), Token("data"), Token("last"), Token("end")>>
       \/ text.at = "chunk" /\ Remaining = <<Token("data"), Token("last"), Token("end")>>
       \/ text.at = "size" /\ Remaining = <<Token("last"), Token("end")>>

AtReady ==
  text.at = "ready" =>
    /\ text.requests \in {0, 1} /\ Len(service.answers) = text.requests /\ ~service.asked /\ text.buffer = <<>>
    /\ text.requests = 1 => NeedsTwo /\ Passed(First) /\ (service.open \/ Closes(First))
    /\ service.open =>
         /\ text.requests = 1 /\ ~Closes(First) /\ service.finished = First.hangs_up
         /\ stream = <<>> \/ stream = <<Token("end")>>

AtDial ==
  text.at = "dial" =>
    /\ Requesting /\ ~service.asked /\ ~text.stray /\ text.buffer = <<>>
    /\ Len(service.answers) = text.requests - 1
    /\ text.requests = 2 => Closes(First)

AtSend ==
  text.at = "send" => Requesting /\ Unanswered /\ ~service.asked /\ service.open /\ text.buffer = <<>>

Reading == {"head", "exact", "size", "chunk", "all"}

\* Reading a response without a head of its own: what there is of it.
Whole ==
  /\ text.at = "head" => text.version # "0.9"
  /\ text.at = "all" => text.version = "0.9" /\ ~text.stray
  /\ text.at \in {"head", "all"}
  /\ service.asked => Unanswered
  /\ ~service.asked => Answered /\ Remaining = Leftover \o Tokens(Current)

AtRead ==
  text.at \in Reading =>
    /\ Requesting /\ service.open
    /\ \/ Whole
       \/ /\ text.version # "0.9" /\ ~text.stray /\ ~service.asked
          /\ Answered /\ text.answer = Current /\ Fits(Current) /\ Body

Judged ==
  /\ PassesForCause /\ FailsForCause
  /\ text.at \in {"none", "up", "down"} => ~service.asked

ProbeInv == TextTypes /\ AtReady /\ AtDial /\ AtSend /\ AtRead /\ Judged

LEMMA TokenTypes ==
  /\ \A kind \in {"head", "size", "data", "last", "end"} : Token(kind) \in Symbols
  /\ \A kind : Token(kind).kind = kind
  /\ \A a \in Answers : [kind |-> "head", answer |-> a] \in Symbols
BY DEF Token, Symbols

LEMMA Prepended ==
  ASSUME NEW h \in Symbols, NEW rest \in Seq(Symbols), NEW all \in Seq(Symbols),
         Len(all) = Len(rest) + 1, all[1] = h, \A i \in 1..Len(rest) : all[i + 1] = rest[i]
  PROVE  <<h>> \o rest = all
<1> <<h>> \in Seq(Symbols)
  OBVIOUS
<1>1. PICK first \in Seq(Symbols) : first = <<h>>
  BY Zenon
<1>2. Len(first) = 1 /\ first[1] = h /\ Len(rest) \in Nat
  BY <1>1
<1>3. /\ first \o rest \in Seq(Symbols) /\ Len(first \o rest) = Len(first) + Len(rest)
      /\ \A i \in 1..Len(first) + Len(rest) :
           (first \o rest)[i] = IF i <= Len(first) THEN first[i] ELSE rest[i - Len(first)]
  BY ConcatProperties
<1>4. PICK both \in Seq(Symbols) : both = first \o rest
  BY <1>3
<1>5. Len(both) = Len(all)
  BY <1>2, <1>3, <1>4
<1>6. \A i \in 1..Len(both) : both[i] = all[i]
  <2> TAKE i \in 1..Len(both)
  <2>1. CASE i = 1
    BY <1>2, <1>3, <1>4, <2>1
  <2>2. CASE i # 1
    <3>1. i - 1 \in 1..Len(rest) /\ (i - 1) + 1 = i
      BY <1>2, <1>3, <1>4, <2>2
    <3>2. both[i] = rest[i - 1]
      BY <1>2, <1>3, <1>4, <2>2
    <3> QED
      BY <3>1, <3>2
  <2> QED
    BY <2>1, <2>2
<1> QED
  BY <1>1, <1>4, <1>5, <1>6, SeqEqual

LEMMA PrependedToOne ==
  ASSUME NEW h \in Symbols, NEW b \in Symbols
  PROVE  <<h>> \o <<b>> = <<h, b>> /\ <<h, b>> \in Seq(Symbols)
<1> <<b>> \in Seq(Symbols) /\ <<h, b>> \in Seq(Symbols)
  OBVIOUS
<1>1. PICK rest \in Seq(Symbols), all \in Seq(Symbols) : rest = <<b>> /\ all = <<h, b>>
  BY Zenon
<1>2. Len(rest) = 1 /\ rest[1] = b /\ Len(all) = 2 /\ all[1] = h /\ all[2] = b
  BY <1>1
<1>3. Len(all) = Len(rest) + 1 /\ \A i \in 1..Len(rest) : all[i + 1] = rest[i]
  BY <1>2
<1>4. <<h>> \o rest = all
  BY <1>2, <1>3, Prepended, Zenon
<1> QED
  BY <1>1, <1>4

LEMMA PrependedToFour ==
  ASSUME NEW h \in Symbols, NEW b \in Symbols, NEW c \in Symbols, NEW d \in Symbols, NEW e \in Symbols
  PROVE  <<h>> \o <<b, c, d, e>> = <<h, b, c, d, e>> /\ <<h, b, c, d, e>> \in Seq(Symbols)
<1>1. <<b, c, d, e>> \in Seq(Symbols) /\ <<h, b, c, d, e>> \in Seq(Symbols)
  OBVIOUS
<1>2. PICK rest \in Seq(Symbols), all \in Seq(Symbols) : rest = <<b, c, d, e>> /\ all = <<h, b, c, d, e>>
  BY <1>1
<1>3. Len(rest) = 4 /\ rest[1] = b /\ rest[2] = c /\ rest[3] = d /\ rest[4] = e
  BY <1>2
<1>4. Len(all) = 5 /\ all[1] = h /\ all[2] = b /\ all[3] = c /\ all[4] = d /\ all[5] = e
  BY <1>2
<1>5. Len(all) = Len(rest) + 1 /\ \A i \in 1..Len(rest) : all[i + 1] = rest[i]
  <2>1. Len(all) = Len(rest) + 1 /\ 1..Len(rest) = {1, 2, 3, 4}
    BY <1>3, <1>4
  <2> QED
    BY <1>3, <1>4, <2>1
<1>6. <<h>> \o rest = all
  BY <1>4, <1>5, Prepended, Zenon
<1> QED
  BY <1>2, <1>6

\* An answer with a status line is a head and its body; one without is a body, or nothing.
LEMMA TokensOf ==
  ASSUME NEW a \in Answers
  PROVE  /\ Tokens(a) \in Seq(Symbols)
         /\ a.proto = "naked" => Tokens(a) = IF a.content = "good" THEN <<Token("data")>> ELSE <<>>
         /\ a.proto # "naked" =>
              Tokens(a) = IF a.framing = "chunked"
                          THEN <<[kind |-> "head", answer |-> a], Token("size"), Token("data"), Token("last"), Token("end")>>
                          ELSE <<[kind |-> "head", answer |-> a], Token("data")>>
<1>1. PICK head \in Symbols, size \in Symbols, data \in Symbols, last \in Symbols, end \in Symbols :
        /\ head = [kind |-> "head", answer |-> a]
        /\ size = Token("size") /\ data = Token("data") /\ last = Token("last") /\ end = Token("end")
  BY TokenTypes, Zenon
<1>2. CASE a.proto = "naked"
  BY <1>1, <1>2 DEF Tokens
<1>3. CASE a.proto # "naked" /\ a.framing = "chunked"
  <2>1. Tokens(a) = <<head>> \o <<size, data, last, end>>
    BY <1>1, <1>3, Zenon DEF Tokens
  <2>2. Tokens(a) = <<head, size, data, last, end>> /\ Tokens(a) \in Seq(Symbols)
    BY <2>1, PrependedToFour
  <2> QED
    BY <1>1, <1>3, <2>2, Zenon
<1>4. CASE a.proto # "naked" /\ a.framing # "chunked"
  <2>1. Tokens(a) = <<head>> \o <<data>>
    BY <1>1, <1>4, Zenon DEF Tokens
  <2>2. Tokens(a) = <<head, data>> /\ Tokens(a) \in Seq(Symbols)
    BY <2>1, PrependedToOne
  <2> QED
    BY <1>1, <1>4, <2>2, Zenon
<1> QED
  BY <1>2, <1>3, <1>4

LEMMA RemainingTypes ==
  ASSUME TextTypes
  PROVE  /\ text.buffer \in Seq(Symbols) /\ stream \in Seq(Symbols) /\ Remaining \in Seq(Symbols)
         /\ Len(Remaining) = Len(text.buffer) + Len(stream)
         /\ \A i \in 1..Len(text.buffer) : Remaining[i] = text.buffer[i]
<1>1. text.buffer \in Seq(Symbols) /\ stream \in Seq(Symbols)
  BY DEF TextTypes, Probes
<1> QED
  BY <1>1, ConcatProperties DEF Remaining

\* The first token of the buffer is the first that is unread.
LEMMA TakeFirst ==
  ASSUME TextTypes, text.buffer # <<>>
  PROVE  /\ Remaining # <<>> /\ Head(text.buffer) = Head(Remaining)
         /\ Tail(text.buffer) \in Seq(Symbols) /\ Tail(text.buffer) \o stream = Tail(Remaining)
<1> DEFINE b == text.buffer
<1>1. /\ b \in Seq(Symbols) /\ stream \in Seq(Symbols) /\ Remaining \in Seq(Symbols)
      /\ Len(b) \in Nat \ {0} /\ Len(stream) \in Nat
      /\ Len(Remaining) = Len(b) + Len(stream)
      /\ \A i \in 1..Len(Remaining) : Remaining[i] = IF i <= Len(b) THEN b[i] ELSE stream[i - Len(b)]
  BY RemainingTypes, ConcatProperties DEF Remaining
<1>2. Remaining # <<>> /\ Head(b) = b[1] /\ Head(Remaining) = Remaining[1]
  BY <1>1
<1>3. /\ Tail(b) \in Seq(Symbols) /\ Len(Tail(b)) = Len(b) - 1
      /\ \A i \in 1..Len(b) - 1 : Tail(b)[i] = b[i + 1]
  BY <1>1
<1>4. /\ Tail(Remaining) \in Seq(Symbols) /\ Len(Tail(Remaining)) = Len(Remaining) - 1
      /\ \A i \in 1..Len(Remaining) - 1 : Tail(Remaining)[i] = Remaining[i + 1]
  BY <1>1, <1>2
<1> DEFINE joined == Tail(b) \o stream
<1>5. /\ joined \in Seq(Symbols) /\ Len(joined) = Len(b) - 1 + Len(stream)
      /\ \A i \in 1..Len(b) - 1 + Len(stream) :
           joined[i] = IF i <= Len(b) - 1 THEN Tail(b)[i] ELSE stream[i - (Len(b) - 1)]
  <2> HIDE DEF b
  <2>1. PICK t \in Seq(Symbols) : t = Tail(b)
    BY <1>3
  <2>2. /\ t \o stream \in Seq(Symbols) /\ Len(t \o stream) = Len(t) + Len(stream)
        /\ \A i \in 1..Len(t) + Len(stream) : (t \o stream)[i] = IF i <= Len(t) THEN t[i] ELSE stream[i - Len(t)]
    BY <1>1, ConcatProperties
  <2> QED
    BY <1>3, <2>1, <2>2
<1> HIDE DEF joined, b
<1>6. \A i \in 1..Len(joined) : joined[i] = Tail(Remaining)[i]
  <2> TAKE i \in 1..Len(joined)
  <2>1. Tail(Remaining)[i] = Remaining[i + 1] /\ i + 1 \in 1..Len(Remaining)
    BY <1>1, <1>4, <1>5
  <2>2. CASE i <= Len(b) - 1
    BY <1>1, <1>3, <1>5, <2>1, <2>2
  <2>3. CASE ~(i <= Len(b) - 1)
    BY <1>1, <1>5, <2>1, <2>3
  <2> QED
    BY <2>2, <2>3
<1>7. joined = Tail(Remaining)
  BY <1>1, <1>4, <1>5, <1>6, SeqEqual
<1> QED
  BY <1>1, <1>2, <1>3, <1>7 DEF joined, b

\* What follows the last token but one.
LEMMA LastOnSocket ==
  ASSUME TextTypes, text.buffer # <<>>, NEW x, NEW y, Remaining = <<x, y>>
  PROVE  stream = <<>> \/ stream = <<y>>
<1>1. /\ text.buffer \in Seq(Symbols) /\ stream \in Seq(Symbols) /\ Len(Remaining) = 2 /\ Remaining[2] = y
      /\ Len(Remaining) = Len(text.buffer) + Len(stream) /\ Len(text.buffer) \in Nat /\ Len(stream) \in Nat
  BY RemainingTypes
<1>2. Len(text.buffer) # 0
  BY <1>1
<1>3. Len(stream) = 0 \/ (Len(stream) = 1 /\ Len(text.buffer) = 1)
  <2>1. PICK m \in Nat, n \in Nat : m = Len(text.buffer) /\ n = Len(stream)
    BY <1>1, Zenon
  <2>2. m + n = 2 /\ m # 0
    BY <1>1, <1>2, <2>1, Zenon
  <2>3. n = 0 \/ (n = 1 /\ m = 1)
    BY <2>2
  <2> QED
    BY <2>1, <2>3, Zenon
<1>4. CASE Len(stream) = 0
  BY <1>1, <1>4
<1>5. CASE Len(stream) = 1 /\ Len(text.buffer) = 1
  <2>1. \A i \in 1..Len(text.buffer) + Len(stream) :
          Remaining[i] = IF i <= Len(text.buffer) THEN text.buffer[i] ELSE stream[i - Len(text.buffer)]
    BY <1>1, ConcatProperties DEF Remaining
  <2>2. Remaining[2] = stream[1]
    BY <1>5, <2>1
  <2> QED
    BY <1>1, <1>5, <2>2
<1> QED
  BY <1>3, <1>4, <1>5

LEMMA NoneOnSocket ==
  ASSUME TextTypes, text.buffer # <<>>, NEW x, Remaining = <<x>>
  PROVE  stream = <<>>
<1>1. /\ text.buffer \in Seq(Symbols) /\ stream \in Seq(Symbols) /\ Len(Remaining) = 1
      /\ Len(Remaining) = Len(text.buffer) + Len(stream)
  BY RemainingTypes
<1> QED
  BY <1>1

\* A recv moves tokens from the socket to the buffer, in order.
LEMMA ReceiveMoves ==
  ASSUME TextTypes, NEW n \in 0..Len(stream), Receive(n)
  PROVE  /\ Remaining' = Remaining
         /\ text'.buffer \in Seq(Symbols) /\ stream' \in Seq(Symbols)
<1> DEFINE got == SubSeq(stream, 1, n)
           left == SubSeq(stream, n + 1, Len(stream))
<1>1. text.buffer \in Seq(Symbols) /\ stream \in Seq(Symbols)
  BY RemainingTypes
<1>2. got \in Seq(Symbols) /\ left \in Seq(Symbols) /\ got \o left = stream
  <2>1. \A i \in 1..Len(stream) : stream[i] \in Symbols
    BY <1>1
  <2>2. got \in Seq(Symbols) /\ left \in Seq(Symbols)
    BY <1>1, <2>1, SubSeqProperties
  <2>3. 1 \in 1..Len(stream) + 1 /\ n \in 1 - 1..Len(stream) /\ Len(stream) \in n..Len(stream)
    BY <1>1
  <2>4. got \o left = SubSeq(stream, 1, Len(stream))
    BY <1>1, <2>3, ConcatAdjacentSubSeq
  <2> QED
    BY <1>1, <2>2, <2>4, SubSeqFull
<1>3. text'.buffer = text.buffer \o got /\ stream' = left
  BY DEF Receive, TextTypes, Probes
<1>4. text'.buffer \in Seq(Symbols)
  BY <1>1, <1>2, <1>3, ConcatProperties
<1> HIDE DEF got, left
<1>5. (text.buffer \o got) \o left = text.buffer \o (got \o left)
  <2>1. PICK s \in Seq(Symbols), t \in Seq(Symbols), u \in Seq(Symbols) :
          s = text.buffer /\ t = got /\ u = left
    BY <1>1, <1>2, Zenon
  <2>2. (s \o t) \o u = s \o (t \o u)
    BY ConcatAssociative
  <2> QED
    BY <2>1, <2>2, Zenon
<1> QED
  BY <1>2, <1>3, <1>4, <1>5 DEF Remaining

\* A step that keeps the version and the script keeps what they ask for.
LEMMA SameTerms ==
  ASSUME text'.version = text.version, text'.script = text.script
  PROVE  /\ NeedsTwo' <=> NeedsTwo
         /\ \A a : /\ Closes(a)' <=> Closes(a)
                   /\ Fits(a)' <=> Fits(a)
                   /\ Passed(a)' <=> Passed(a)
BY DEF NeedsTwo, Closes, Fits, Passed

LEMMA SameAnswers ==
  ASSUME text'.version = text.version, text'.script = text.script, service'.answers = service.answers
  PROVE  AllSpeak' <=> AllSpeak
BY DEF AllSpeak, Persists, Speaks, NeedsTwo

\* A step that keeps the request, the answers and the tokens to read keeps what is known of them.
LEMMA Carried ==
  ASSUME text'.version = text.version, text'.script = text.script,
         text'.requests = text.requests, text'.stray = text.stray,
         service'.answers = service.answers, service'.finished = service.finished
  PROVE  /\ Requesting => Requesting'
         /\ Answered => Answered'
         /\ Remaining' = Remaining /\ Unanswered => Unanswered'
         /\ Leftover' = Leftover /\ Current' = Current
         /\ Fits(Current) => Fits(Current)'
<1> USE DEF NeedsTwo, Closes, Fits, Passed, First, Current, Leftover
<1>1. Requesting => Requesting'
  BY DEF Requesting
<1>2. Answered => Answered'
  BY DEF Answered
<1>3. Remaining' = Remaining /\ Unanswered => Unanswered'
  BY DEF Unanswered
<1> QED
  BY <1>1, <1>2, <1>3

LEMMA Dropped ==
  ASSUME TextTypes, Drop
  PROVE  /\ service' \in Connections /\ stream' = <<>>
         /\ ~service'.open /\ ~service'.asked /\ service'.answers = service.answers
         /\ service'.finished = service.finished
BY DEF TextTypes, Drop, Connections

\* A probe that ends is judged, and that is all there is to know of it.
LEMMA Concluded ==
  ASSUME TextTypes, text.at # "none", Drop,
         text' \in Probes, text'.at \in {"up", "down"}, text'.version = text.version, text'.script = text.script,
         text'.at = "up" => AllSpeak /\ Len(service.answers) = (IF NeedsTwo THEN 2 ELSE 1),
         text'.at = "down" => text'.lost \/ text'.stray \/ ~AllSpeak
  PROVE  ProbeInv'
<1>1. TextTypes'
  <2> <<>> \in Seq(Symbols)
    OBVIOUS
  <2>1. service' \in Connections /\ stream' \in Seq(Symbols)
    BY Dropped
  <2> QED
    BY <2>1 DEF TextTypes
<1>2. Judged'
  <2>1. (AllSpeak' <=> AllSpeak) /\ (NeedsTwo' <=> NeedsTwo) /\ service'.answers = service.answers /\ ~service'.asked
    BY SameTerms, SameAnswers, Dropped
  <2> QED
    BY <2>1 DEF Judged, PassesForCause, FailsForCause
<1>3. AtReady' /\ AtDial' /\ AtSend' /\ AtRead'
  BY DEF AtReady, AtDial, AtSend, AtRead, Reading
<1> QED
  BY <1>1, <1>2, <1>3 DEF ProbeInv

LEMMA Ends ==
  ASSUME TextTypes, text.at # "none", NEW verdict \in {"up", "down"}, End(verdict),
         verdict = "up" => AllSpeak /\ Len(service.answers) = (IF NeedsTwo THEN 2 ELSE 1),
         verdict = "down" => text.stray \/ ~AllSpeak
  PROVE  ProbeInv'
<1>1. /\ text' \in Probes /\ text'.at = verdict /\ text'.stray = text.stray
      /\ text'.version = text.version /\ text'.script = text.script
  <2> <<>> \in Seq(Symbols)
    OBVIOUS
  <2> QED
    BY DEF End, TextTypes, Probes
<1> QED
  BY <1>1, Concluded DEF End

LEMMA LoseKeeps ==
  ASSUME ProbeInv, Lose
  PROVE  ProbeInv'
<1>1. /\ text' \in Probes /\ text'.at = "down" /\ text'.lost
      /\ text'.version = text.version /\ text'.script = text.script
  <2> <<>> \in Seq(Symbols)
    OBVIOUS
  <2> QED
    BY DEF Lose, ProbeInv, TextTypes, Probes
<1> QED
  BY <1>1, Concluded DEF Lose, ProbeInv, Running

LEMMA ChooseKeeps ==
  ASSUME ProbeInv, NEW version \in TextVersions, NEW script \in Scripts, Choose(version, script)
  PROVE  ProbeInv'
<1>1. /\ text' \in Probes /\ text'.at = "ready" /\ text'.requests = 0 /\ text'.buffer = <<>>
      /\ text'.version \in TextVersions /\ (text'.version = "0.9" => text'.script = "health")
  <2> <<>> \in Seq(Symbols)
    OBVIOUS
  <2>1. text' = [version |-> version, script |-> script, at |-> "ready", requests |-> 0, buffer |-> <<>>,
                 answer |-> NoAnswer, lost |-> FALSE, stray |-> FALSE]
    BY DEF Choose, NoProbe
  <2>2. text' \in Probes
    BY <2>1 DEF Probes, Running
  <2>3. version = "0.9" => script = "health"
    BY DEF Choose
  <2> QED
    BY <2>1, <2>2, <2>3
<1>2. service' \in Connections /\ ~service'.open /\ ~service'.asked /\ Len(service'.answers) = 0
  BY DEF Choose, NoService, Connections
<1>3. stream' \in Seq(Symbols)
  BY DEF Choose, ProbeInv, TextTypes
<1>4. TextTypes'
  BY <1>1, <1>2, <1>3 DEF TextTypes
<1>5. AtReady'
  BY <1>1, <1>2 DEF AtReady
<1>6. AtDial' /\ AtSend' /\ AtRead' /\ Judged'
  BY <1>1, <1>2 DEF AtDial, AtSend, AtRead, Reading, Judged, PassesForCause, FailsForCause
<1> QED
  BY <1>4, <1>5, <1>6 DEF ProbeInv

LEMMA DialKeeps ==
  ASSUME ProbeInv, Dial
  PROVE  ProbeInv'
<1> USE DEF ProbeInv
<1>1. /\ service' \in Connections /\ stream' = <<>> /\ service'.open /\ ~service'.finished
      /\ service'.answers = service.answers /\ service'.asked = service.asked
  BY DEF Dial, TextTypes, Connections
<1>2. /\ text' \in Probes /\ text'.at = "send" /\ text'.buffer = text.buffer
      /\ text'.version = text.version /\ text'.script = text.script
      /\ text'.requests = text.requests /\ text'.stray = text.stray
  BY DEF Dial, TextTypes, Probes, Running
<1>3. TextTypes'
  BY <1>1, <1>2 DEF Dial, TextTypes
<1>4. AtSend'
  <2>1. /\ Requesting /\ ~service.asked /\ ~text.stray /\ text.buffer = <<>>
        /\ Len(service.answers) = text.requests - 1
        /\ text.requests = 2 => Closes(First)
    BY DEF Dial, AtDial
  <2>2. Requesting' /\ (text'.requests = 2 => Closes(First)')
    BY <1>1, <1>2, <2>1, SameTerms DEF Requesting, First
  <2>3. Remaining' = <<>> /\ Leftover' = <<>>
    BY <1>1, <1>2, <2>1 DEF Remaining, Leftover
  <2>4. Unanswered'
    BY <1>1, <1>2, <2>1, <2>2, <2>3 DEF Unanswered
  <2> QED
    BY <1>1, <1>2, <2>1, <2>2, <2>4 DEF AtSend
<1>5. AtReady' /\ AtDial' /\ AtRead' /\ Judged'
  BY <1>2 DEF AtReady, AtDial, AtRead, Reading, Judged, PassesForCause, FailsForCause
<1> QED
  BY <1>3, <1>4, <1>5

LEMMA SendKeeps ==
  ASSUME ProbeInv, Send
  PROVE  ProbeInv'
<1> USE DEF ProbeInv
<1> <<>> \in Seq(Symbols)
  OBVIOUS
<1>1. /\ service' \in Connections /\ service'.open = service.open /\ service'.finished = service.finished
      /\ service'.answers = service.answers /\ service'.asked
  BY DEF Send, TextTypes, Connections
<1>2. /\ text' \in Probes /\ text'.at = (IF text.version = "0.9" THEN "all" ELSE "head") /\ text'.buffer = <<>>
      /\ text'.version = text.version /\ text'.script = text.script
      /\ text'.requests = text.requests /\ text'.stray = text.stray
  BY DEF Send, TextTypes, Probes, Running
<1>3. TextTypes'
  BY <1>1, <1>2 DEF Send, TextTypes
<1>4. Requesting /\ Unanswered /\ service.open /\ text.buffer = <<>>
  BY DEF Send, AtSend
<1>5. Remaining' = Remaining
  BY <1>2, <1>4 DEF Send, Remaining
<1>6. Requesting' /\ Unanswered'
  BY <1>1, <1>2, <1>4, <1>5, Carried
<1>7. text.version = "0.9" => ~text.stray
  BY <1>4 DEF Send, TextTypes, Requesting, NeedsTwo
<1>8. AtRead'
  BY <1>1, <1>2, <1>4, <1>6, <1>7 DEF AtRead, Whole
<1>9. AtReady' /\ AtDial' /\ AtSend' /\ Judged'
  BY <1>2 DEF AtReady, AtDial, AtSend, Judged, PassesForCause, FailsForCause
<1> QED
  BY <1>3, <1>8, <1>9

LEMMA BeginKeeps ==
  ASSUME ProbeInv, Begin
  PROVE  ProbeInv'
<1> USE DEF ProbeInv
<1>1. PICK stray \in BOOLEAN : stray <=> service.open /\ stream # <<>>
  OBVIOUS
<1>2. /\ text.requests \in {0, 1} /\ Len(service.answers) = text.requests /\ ~service.asked /\ text.buffer = <<>>
      /\ text.requests = 1 => NeedsTwo /\ Passed(First) /\ (service.open \/ Closes(First))
      /\ service.open =>
           /\ text.requests = 1 /\ ~Closes(First) /\ service.finished = First.hangs_up
           /\ stream = <<>> \/ stream = <<Token("end")>>
  BY DEF Begin, AtReady
<1>3. /\ text' \in Probes /\ text'.at = (IF service.open THEN "send" ELSE "dial") /\ text'.buffer = <<>>
      /\ text'.version = text.version /\ text'.script = text.script
      /\ text'.requests = text.requests + 1 /\ (text'.stray <=> service.open /\ stream # <<>>)
  <2>1. text' = [text EXCEPT !.at = IF service.open THEN "send" ELSE "dial", !.requests = @ + 1, !.stray = stray]
    BY <1>1, Zenon DEF Begin
  <2>2. PICK at \in {"send", "dial"} : at = (IF service.open THEN "send" ELSE "dial")
    OBVIOUS
  <2>3. PICK requests \in Nat : requests = text.requests + 1
    BY <1>2
  <2>4. text' = [text EXCEPT !.at = at, !.requests = requests, !.stray = stray]
    BY <2>1, <2>2, <2>3, Zenon
  <2>5. /\ text' \in Probes /\ text'.at = at /\ text'.buffer = text.buffer
        /\ text'.version = text.version /\ text'.script = text.script
        /\ text'.requests = requests /\ text'.stray = stray
    BY <2>4 DEF TextTypes, Probes, Running
  <2> QED
    BY <1>1, <1>2, <2>2, <2>3, <2>5
<1>4. stream' = stream /\ service' = service
  BY DEF Begin
<1>5. TextTypes'
  BY <1>3, <1>4 DEF Begin, TextTypes
<1>6. Requesting'
  BY <1>2, <1>3, <1>4, SameTerms DEF Requesting, First
<1>7. AtDial'
  <2> SUFFICES ASSUME ~service.open
               PROVE  /\ Requesting' /\ ~service'.asked /\ ~text'.stray /\ text'.buffer = <<>>
                      /\ Len(service'.answers) = text'.requests - 1
                      /\ text'.requests = 2 => Closes(First)'
    BY <1>3 DEF AtDial
  <2>1. text'.requests = 2 => Closes(First)'
    BY <1>2, <1>3, <1>4, SameTerms DEF First
  <2> QED
    BY <1>2, <1>3, <1>4, <1>6, <2>1
<1>8. AtSend'
  <2> SUFFICES ASSUME service.open
               PROVE  /\ Requesting' /\ Unanswered' /\ ~service'.asked /\ service'.open /\ text'.buffer = <<>>
    BY <1>3 DEF AtSend
  <2>1. Remaining' = stream
    BY <1>3, <1>4 DEF Remaining, TextTypes
  <2>2. Leftover' = stream
    BY <1>2, <1>3 DEF Leftover
  <2>3. Closes(First)' <=> Closes(First)
    BY <1>3, <1>4, SameTerms DEF First
  <2>4. Len(service'.answers) = text'.requests - 1 /\ text'.requests = 2
    BY <1>2, <1>3, <1>4
  <2>5. service'.finished <=> text'.requests = 2 /\ ~Closes(First)' /\ First'.hangs_up
    BY <1>2, <1>3, <1>4, <2>3, <2>4 DEF First
  <2> QED
    BY <1>2, <1>3, <1>4, <1>6, <2>1, <2>2, <2>4, <2>5 DEF Unanswered
<1>9. AtReady' /\ AtRead' /\ Judged'
  BY <1>3 DEF AtReady, AtRead, Reading, Judged, PassesForCause, FailsForCause
<1> QED
  BY <1>5, <1>7, <1>8, <1>9

LEMMA SameJudgement ==
  ASSUME Judged, UNCHANGED <<text, service>>
  PROVE  Judged'
<1>1. NeedsTwo' = NeedsTwo /\ (Persists <=> Persists')
  BY DEF NeedsTwo, Persists
<1>2. ASSUME NEW a, NEW last PROVE Speaks(a, last) <=> Speaks(a, last)'
  BY DEF Speaks
<1>3. AllSpeak <=> AllSpeak'
  BY <1>1, <1>2 DEF AllSpeak
<1> QED
  BY <1>1, <1>3 DEF Judged, PassesForCause, FailsForCause

LEMMA ElapsesKeeps ==
  ASSUME ProbeInv, UNCHANGED <<text, stream, service>>
  PROVE  ProbeInv'
<1> USE DEF ProbeInv, Requesting, Unanswered, Answered, Leftover, Remaining, First, Current, Passed, Fits, Closes, NeedsTwo
<1>1. TextTypes'
  BY DEF TextTypes
<1>2. AtReady'
  BY DEF AtReady
<1>3. AtDial'
  BY DEF AtDial
<1>4. AtSend'
  BY DEF AtSend
<1>5. AtRead'
  BY DEF AtRead, Whole, Body
<1>6. Judged'
  BY SameJudgement
<1> QED
  BY <1>1, <1>2, <1>3, <1>4, <1>5, <1>6

LEMMA ReceiveKeeps ==
  ASSUME ProbeInv, NEW n \in 0..Len(stream), Receive(n)
  PROVE  ProbeInv'
<1> USE DEF ProbeInv
<1>1. Remaining' = Remaining /\ text'.buffer \in Seq(Symbols) /\ stream' \in Seq(Symbols) /\ service' = service
  BY ReceiveMoves DEF Receive
<1>2. text.at \in Reading
  BY DEF Receive, Wants, Reading
<1>3. /\ text' \in Probes /\ text'.at = text.at /\ text'.answer = text.answer
      /\ text'.version = text.version /\ text'.script = text.script
      /\ text'.requests = text.requests /\ text'.stray = text.stray
  BY <1>1 DEF Receive, TextTypes, Probes
<1>4. TextTypes'
  BY <1>1, <1>3 DEF TextTypes
<1>5. AtRead'
  <2>1. Requesting' /\ service'.open
    BY <1>1, <1>2, <1>3, Carried DEF AtRead
  <2>2. CASE Whole
    BY <1>1, <1>2, <1>3, <2>1, <2>2, Carried DEF AtRead, Whole
  <2>3. CASE /\ text.version # "0.9" /\ ~text.stray /\ ~service.asked
             /\ Answered /\ text.answer = Current /\ Fits(Current) /\ Body
    <3>1. Body'
      BY <1>1, <1>3, <2>3 DEF Body
    <3>2. Answered' /\ Current' = Current /\ Fits(Current)'
      BY <1>1, <1>3, <2>3, Carried
    <3> QED
      BY <1>1, <1>3, <2>1, <2>3, <3>1, <3>2 DEF AtRead
  <2> QED
    BY <1>2, <2>2, <2>3 DEF AtRead
<1>6. AtReady' /\ AtDial' /\ AtSend' /\ Judged'
  BY <1>2, <1>3 DEF AtReady, AtDial, AtSend, Reading, Judged, PassesForCause, FailsForCause
<1> QED
  BY <1>4, <1>5, <1>6

LEMMA AnswerKeeps ==
  ASSUME ProbeInv, NEW a \in Answers, Answer(a)
  PROVE  ProbeInv'
<1> USE DEF ProbeInv
<1>1. /\ text' = text /\ stream' = stream \o Tokens(a)
      /\ service.asked /\ ~service.finished
  BY DEF Answer
<1>2. /\ service' \in Connections /\ service'.answers = Append(service.answers, a) /\ ~service'.asked
      /\ service'.open = service.open /\ (service'.finished <=> a.hangs_up)
  <2>1. PICK hangs_up \in BOOLEAN : hangs_up = a.hangs_up
    BY DEF Answers
  <2> service.answers \in Seq(Answers) /\ Append(service.answers, a) \in Seq(Answers)
    BY DEF TextTypes, Connections
  <2>2. PICK answers \in Seq(Answers) : answers = Append(service.answers, a)
    BY Zenon
  <2>3. service' = [service EXCEPT !.asked = FALSE, !.finished = hangs_up, !.answers = answers]
    BY <2>1, <2>2, Zenon DEF Answer
  <2>4. service' \in Connections
    BY <2>3 DEF TextTypes, Connections
  <2>5. service'.answers = answers /\ ~service'.asked /\ (service'.finished <=> hangs_up)
    BY <2>3 DEF TextTypes, Connections
  <2>6. service'.open = service.open
    BY <2>3 DEF TextTypes, Connections
  <2> QED
    BY <2>1, <2>2, <2>4, <2>5, <2>6
<1>3. stream' \in Seq(Symbols) /\ Remaining' = Remaining \o Tokens(a)
  <2>1. PICK s \in Seq(Symbols), t \in Seq(Symbols), u \in Seq(Symbols) : s = text.buffer /\ t = stream /\ u = Tokens(a)
    BY RemainingTypes, TokensOf, Zenon
  <2>2. (s \o t) \o u = s \o (t \o u) /\ t \o u \in Seq(Symbols)
    BY ConcatAssociative, ConcatProperties
  <2> QED
    BY <1>1, <2>1, <2>2, Zenon DEF Remaining
<1>4. text.at \in Reading /\ Requesting /\ service.open /\ Whole /\ Unanswered
  <2>1. text.at \in Reading
    BY <1>1 DEF TextTypes, Probes, Running, Reading, AtReady, AtDial, AtSend, Judged
  <2> QED
    BY <1>1, <2>1 DEF AtRead, Whole
<1>5. /\ Len(service.answers) \in Nat /\ service.answers \in Seq(Answers) /\ Len(service.answers) = text.requests - 1
      /\ text.requests \in {1, 2}
  BY <1>4 DEF TextTypes, Connections, Unanswered, Requesting
<1>6. /\ Len(service'.answers) = text.requests /\ Current' = a
      /\ text.requests = 2 => First' = First
  BY <1>1, <1>2, <1>5 DEF Current, First
<1>7. Requesting'
  BY <1>1, <1>4, <1>6, SameTerms DEF Requesting
<1>8. Answered'
  <2>1. text.requests = 2 /\ First.hangs_up => Closes(First)
    BY <1>1, <1>4 DEF Unanswered
  <2>2. text'.requests = 2 /\ First'.hangs_up => Closes(First)'
    BY <1>1, <1>6, <2>1, SameTerms
  <2>3. service'.finished = Current'.hangs_up
    BY <1>2, <1>6 DEF Connections, Answers
  <2> QED
    BY <1>1, <1>6, <2>2, <2>3 DEF Answered
<1>9. AtRead'
  <2>1. Leftover' = Leftover /\ Remaining' = Leftover \o Tokens(a)
    BY <1>1, <1>3, <1>4 DEF Leftover, Unanswered
  <2>2. Tokens(Current)' = Tokens(a)
    BY <1>6 DEF Tokens
  <2>3. Whole'
    BY <1>1, <1>2, <1>4, <1>8, <2>1, <2>2 DEF Whole
  <2> QED
    BY <1>1, <1>2, <1>4, <1>7, <2>3 DEF AtRead
<1>10. TextTypes'
  BY <1>1, <1>2, <1>3 DEF TextTypes
<1>11. AtReady' /\ AtDial' /\ AtSend' /\ Judged'
  BY <1>1, <1>4 DEF AtReady, AtDial, AtSend, Reading, Judged, PassesForCause, FailsForCause
<1> QED
  BY <1>9, <1>10, <1>11

\* The answer to the request under way is the last there is.
LEMMA CurrentIsLast ==
  ASSUME TextTypes, Requesting, Answered
  PROVE  /\ text.requests \in 1..Len(service.answers) /\ Current \in Answers
         /\ DOMAIN service.answers = 1..text.requests
         /\ text.requests = 1 => Current = First
BY DEF TextTypes, Connections, Requesting, Answered, Current, First

\* An answer out of the version's terms is enough for a failure.
LEMMA OneIsOut ==
  ASSUME NEW i \in DOMAIN service.answers, NEW last \in BOOLEAN,
         last <=> i = (IF NeedsTwo THEN 2 ELSE 1), ~Speaks(service.answers[i], last)
  PROVE  ~AllSpeak
<1>1. (i = (IF NeedsTwo THEN 2 ELSE 1)) = last
  OBVIOUS
<1>2. ~Speaks(service.answers[i], i = (IF NeedsTwo THEN 2 ELSE 1))
  BY <1>1, Zenon
<1> QED
  BY <1>2, Zenon DEF AllSpeak

LEMMA CurrentIsOut ==
  ASSUME TextTypes, Requesting, Answered, \A last \in BOOLEAN : ~Speaks(Current, last)
  PROVE  ~AllSpeak
<1>1. text.requests \in DOMAIN service.answers
  BY CurrentIsLast
<1>2. PICK last \in BOOLEAN : last <=> text.requests = (IF NeedsTwo THEN 2 ELSE 1)
  OBVIOUS
<1>3. ~Speaks(service.answers[text.requests], last)
  BY <1>2, Zenon DEF Current
<1> QED
  BY <1>1, <1>2, <1>3, OneIsOut

\* An answer read to its end settles the probe, or sends it on to its second request.
LEMMA CompleteKeeps ==
  ASSUME TextTypes, Requesting, Answered, Fits(Current), Complete(Current),
         Current.framing = "close" => Current.hangs_up,
         text.at \in Reading, text.version # "0.9", ~text.stray, ~service.asked, service.open,
         ~Closes(Current) => stream = <<>> \/ stream = <<Token("end")>>
  PROVE  ProbeInv'
<1>1. /\ text.version \in {"1.0", "1.1"} /\ text.at # "none" /\ service.answers \in Seq(Answers)
      /\ text.requests \in {1, 2} /\ (text.requests = 2 => NeedsTwo /\ Passed(First))
  BY DEF TextTypes, TextVersions, Reading, Requesting, Connections
<1>2. CASE Current.content # "good"
  <2>1. ~AllSpeak
    BY <1>2, CurrentIsOut DEF Speaks
  <2> QED
    BY <1>1, <1>2, <2>1, Ends DEF Complete, Fail
<1>3. CASE /\ Current.content = "good"
           /\ text.script = "health" /\ NeedsTwo /\ text.requests = 1 /\ Closes(Current)
  <2>1. Current = First /\ text.version = "1.1" /\ First.says_close /\ service.answers # <<>>
    BY <1>1, <1>3, CurrentIsLast DEF NeedsTwo, Closes, Fits
  <2>2. ~AllSpeak
    BY <1>3, <2>1 DEF AllSpeak, Persists, First
  <2> QED
    BY <1>1, <1>3, <2>2, Ends DEF Complete, Fail
<1>4. CASE /\ Current.content = "good"
           /\ ~(text.script = "health" /\ NeedsTwo /\ text.requests = 1 /\ Closes(Current))
           /\ text.requests = 1 /\ NeedsTwo
  <2>1. /\ text' = [text EXCEPT !.at = "ready", !.buffer = <<>>, !.answer = NoAnswer]
        /\ Closes(Current) => Drop
        /\ ~Closes(Current) => UNCHANGED <<stream, service>>
    BY <1>4 DEF Complete
  <2>2. /\ text' \in Probes /\ text'.at = "ready" /\ text'.buffer = <<>> /\ text'.requests = 1
        /\ text'.version = text.version /\ text'.script = text.script
    <3> <<>> \in Seq(Symbols)
      OBVIOUS
    <3> QED
      BY <1>4, <2>1 DEF TextTypes, Probes, Running
  <2>3. /\ service' \in Connections /\ ~service'.asked /\ service'.answers = service.answers
        /\ stream' \in Seq(Symbols)
    <3> <<>> \in Seq(Symbols)
      OBVIOUS
    <3> QED
      BY <2>1, Dropped DEF TextTypes
  <2>4. TextTypes'
    BY <1>1, <2>2, <2>3 DEF TextTypes
  <2>5. First = Current /\ First' = First /\ Len(service'.answers) = 1
    BY <1>4, <2>3, CurrentIsLast DEF First, Answered
  <2>6. Passed(First)' /\ NeedsTwo'
    <3>1. Passed(Current)
      BY <1>4 DEF Passed
    <3> QED
      BY <1>4, <2>2, <2>5, <3>1, SameTerms
  <2>7. service'.open \/ Closes(First)'
    BY <2>1, <2>2, <2>5, SameTerms
  <2>8. service'.open => ~Closes(First)' /\ service'.finished = First'.hangs_up
                         /\ (stream' = <<>> \/ stream' = <<Token("end")>>)
    <3>1. service'.open => ~Closes(Current)
      BY <2>1, Dropped
    <3>2. ~Closes(Current) => service' = service /\ stream' = stream
      BY <2>1
    <3> QED
      BY <2>2, <2>5, <3>1, <3>2, SameTerms DEF Answered
  <2>9. AtReady'
    BY <2>2, <2>3, <2>5, <2>6, <2>7, <2>8 DEF AtReady
  <2>10. AtDial' /\ AtSend' /\ AtRead' /\ Judged'
    BY <2>2 DEF AtDial, AtSend, AtRead, Reading, Judged, PassesForCause, FailsForCause
  <2> QED
    BY <2>4, <2>9, <2>10 DEF ProbeInv
<1>5. CASE /\ Current.content = "good"
           /\ ~(text.script = "health" /\ NeedsTwo /\ text.requests = 1 /\ Closes(Current))
           /\ ~(text.requests = 1 /\ NeedsTwo)
  <2>1. text.requests = (IF NeedsTwo THEN 2 ELSE 1) /\ Len(service.answers) = text.requests
    BY <1>1, <1>5 DEF Answered
  <2>2. Speaks(Current, TRUE)
    BY <1>1, <1>5 DEF Speaks, Fits
  <2>3. text.requests = 2 => Speaks(First, FALSE)
    BY <1>1 DEF Speaks, Passed, Fits, Closes, Answered
  <2>4. Persists
    BY <1>1, <2>1 DEF Persists, NeedsTwo, Passed, Closes, First
  <2>5. ASSUME NEW i \in DOMAIN service.answers
        PROVE  Speaks(service.answers[i], i = (IF NeedsTwo THEN 2 ELSE 1))
    <3>1. i = text.requests \/ (i = 1 /\ text.requests = 2)
      BY <1>1, CurrentIsLast
    <3>2. CASE i = text.requests
      <4>1. (i = (IF NeedsTwo THEN 2 ELSE 1)) = TRUE
        BY <2>1, <3>2
      <4> QED
        BY <2>2, <3>2, <4>1, Zenon DEF Current
    <3>3. CASE i = 1 /\ text.requests = 2
      <4>1. (i = (IF NeedsTwo THEN 2 ELSE 1)) = FALSE
        BY <2>1, <3>3
      <4> QED
        BY <2>3, <3>3, <4>1, Zenon DEF First
    <3> QED
      BY <3>1, <3>2, <3>3
  <2>6. AllSpeak
    BY <2>4, <2>5, Zenon DEF AllSpeak
  <2> QED
    BY <1>1, <1>5, <2>1, <2>6, Ends DEF Complete
<1> QED
  BY <1>2, <1>3, <1>4, <1>5

LEMMA HasBuffer ==
  ASSUME TextTypes, HasHead
  PROVE  text.buffer # <<>> /\ \E i \in 1..Len(Remaining) : Remaining[i].kind = "head"
<1>1. PICK i \in DOMAIN text.buffer : text.buffer[i].kind = "head"
  BY DEF HasHead
<1>2. i \in 1..Len(text.buffer) /\ Len(text.buffer) \in Nat /\ Len(stream) \in Nat
  BY RemainingTypes
<1>3. i \in 1..Len(Remaining) /\ Remaining[i].kind = "head"
  BY <1>1, <1>2, RemainingTypes
<1> QED
  BY <1>2, <1>3

\* What a status line is the first token of.
LEMMA HeadOfTokens ==
  ASSUME TextTypes, Requesting, Answered
  PROVE  LET a == Current
         IN  /\ Tokens(a) \in Seq(Symbols)
             /\ a.proto # "naked" => /\ Tokens(a) # <<>>
                                     /\ Head(Tokens(a)) = [kind |-> "head", answer |-> a]
             /\ a.proto = "naked" => \A i \in 1..Len(Tokens(a)) : Tokens(a)[i].kind # "head"
             /\ a.framing = "chunked" =>
                  Tail(Tokens(a)) = <<Token("size"), Token("data"), Token("last"), Token("end")>>
             /\ a.framing # "chunked" /\ a.proto # "naked" => Tail(Tokens(a)) = <<Token("data")>>
<1>1. PICK a \in Answers : a = Current
  BY CurrentIsLast
<1>2. PICK head \in Symbols, size \in Symbols, data \in Symbols, last \in Symbols, end \in Symbols :
        /\ head = [kind |-> "head", answer |-> a]
        /\ size = Token("size") /\ data = Token("data") /\ last = Token("last") /\ end = Token("end")
  BY TokenTypes, Zenon
<1>3. data.kind = "data"
  BY <1>2, TokenTypes
<1>4. CASE a.proto = "naked"
  <2>1. Tokens(a) = (IF a.content = "good" THEN <<data>> ELSE <<>>) /\ Tokens(a) \in Seq(Symbols)
    BY <1>2, <1>4, TokensOf
  <2>2. \A i \in 1..Len(Tokens(a)) : Tokens(a)[i].kind # "head"
    BY <1>3, <2>1
  <2>3. a.framing # "chunked"
    BY <1>4 DEF Answers
  <2> QED
    BY <1>1, <1>4, <2>1, <2>2, <2>3
<1>5. CASE a.proto # "naked" /\ a.framing = "chunked"
  <2>1. Tokens(a) = <<head, size, data, last, end>> /\ Tokens(a) \in Seq(Symbols)
    BY <1>2, <1>5, TokensOf
  <2>2. Tokens(a) # <<>> /\ Head(Tokens(a)) = head /\ Tail(Tokens(a)) = <<size, data, last, end>>
    BY <2>1
  <2> QED
    BY <1>1, <1>2, <1>5, <2>1, <2>2
<1>6. CASE a.proto # "naked" /\ a.framing # "chunked"
  <2>1. Tokens(a) = <<head, data>> /\ Tokens(a) \in Seq(Symbols)
    BY <1>2, <1>6, TokensOf
  <2>2. Tokens(a) # <<>> /\ Head(Tokens(a)) = head /\ Tail(Tokens(a)) = <<data>>
    BY <2>1
  <2> QED
    BY <1>1, <1>2, <1>6, <2>1, <2>2
<1> QED
  BY <1>4, <1>5, <1>6

LEMMA ReadHeadKeeps ==
  ASSUME ProbeInv, ReadHead
  PROVE  ProbeInv'
<1> USE DEF ProbeInv
<1>1. /\ text.at = "head" /\ text.buffer # <<>> /\ HasHead
      /\ \E i \in 1..Len(Remaining) : Remaining[i].kind = "head"
  BY HasBuffer DEF ReadHead
<1>2. Requesting /\ service.open /\ Whole /\ text.version \in {"1.0", "1.1"}
  <2>1. Requesting /\ service.open
    BY <1>1 DEF AtRead, Reading
  <2>2. Whole
    <3> SUFFICES ASSUME Answered, text.answer = Current, Body
                 PROVE  FALSE
      BY <1>1 DEF AtRead, Reading
    <3>1. text.answer.framing \in {"length", "chunked", "close"}
      BY <2>1, CurrentIsLast DEF Answers
    <3> QED
      BY <1>1, <3>1 DEF Body
  <2> QED
    BY <1>1, <2>1, <2>2 DEF Whole, TextTypes, TextVersions
<1>3. ~service.asked
  <2> SUFFICES ASSUME Remaining = Leftover
               PROVE  FALSE
    BY <1>2 DEF Whole, Unanswered
  <2>1. Token("end") \in Symbols /\ Token("end").kind = "end"
    BY TokenTypes
  <2>2. \A i \in 1..Len(Leftover) : Leftover[i].kind # "head"
    BY <2>1 DEF Leftover
  <2> QED
    BY <1>1, <2>2
<1>4. Answered /\ Remaining = Leftover \o Tokens(Current)
  BY <1>2, <1>3 DEF Whole
<1>5. Current \in Answers /\ Tokens(Current) \in Seq(Symbols)
  BY <1>2, <1>4, CurrentIsLast, TokensOf
<1>6. CASE text.stray
  <2>1. PICK end \in Symbols : end = Token("end") /\ end.kind = "end"
    BY TokenTypes
  <2>2. PICK tokens \in Seq(Symbols) : tokens = Tokens(Current)
    BY <1>5, Zenon
  <2>3. Remaining = <<end>> \o tokens
    BY <1>4, <1>6, <2>1, <2>2, Zenon DEF Leftover
  <2>4. Head(Remaining) = end
    <3> <<end>> \in Seq(Symbols) /\ Len(<<end>>) = 1 /\ <<end>>[1] = end
      OBVIOUS
    <3>1. PICK one \in Seq(Symbols) : one = <<end>> /\ Len(one) = 1 /\ one[1] = end
      BY Zenon
    <3>2. one \o tokens \in Seq(Symbols) /\ Len(one \o tokens) = 1 + Len(tokens) /\ (one \o tokens)[1] = end
      BY <3>1, ConcatProperties
    <3> QED
      BY <2>3, <3>1, <3>2
  <2>5. Head(text.buffer).kind # "head"
    BY <1>1, <2>1, <2>4, TakeFirst
  <2> QED
    BY <1>1, <1>6, <2>5, Ends DEF ReadHead, Fail
<1>7. CASE ~text.stray
  <2>1. Remaining = Tokens(Current)
    BY <1>4, <1>5, <1>7 DEF Leftover
  <2>2. Current.proto # "naked"
    BY <1>1, <1>2, <1>4, <2>1, HeadOfTokens
  <2>3. Head(text.buffer) = [kind |-> "head", answer |-> Current] /\ Tail(text.buffer) \o stream = Tail(Tokens(Current))
    BY <1>1, <1>2, <1>4, <2>1, <2>2, HeadOfTokens, TakeFirst
  <2>4. CASE ~Fits(Current)
    <3>1. ~AllSpeak
      BY <1>2, <1>4, <1>5, <2>4, CurrentIsOut DEF Fits, Speaks, Answers
    <3> QED
      BY <1>1, <2>3, <2>4, <3>1, Ends DEF ReadHead, Fail
  <2>5. CASE Fits(Current)
    <3>1. PICK a \in Answers, rest \in Seq(Symbols), at \in {"exact", "size", "all"} :
            /\ a = Current /\ rest = Tail(text.buffer)
            /\ at = CASE a.framing = "length" -> "exact" [] a.framing = "chunked" -> "size" [] OTHER -> "all"
      BY <1>1, <1>5, TakeFirst
    <3>2. /\ text' = [text EXCEPT !.answer = a, !.buffer = rest, !.at = at]
          /\ stream' = stream /\ service' = service
      <4>1. Head(text.buffer).kind = "head" /\ Head(text.buffer).answer = a /\ Fits(a)
        BY <2>3, <2>5, <3>1
      <4>2. /\ text' = [text EXCEPT !.answer = a, !.buffer = Tail(@), !.at =
                          CASE a.framing = "length" -> "exact"
                            [] a.framing = "chunked" -> "size"
                            [] OTHER -> "all"]
            /\ UNCHANGED <<stream, service, clock>>
        BY <4>1, Zenon DEF ReadHead
      <4>3. text' = [text EXCEPT !.answer = a, !.buffer = rest, !.at = at]
        BY <3>1, <4>2, Zenon
      <4> QED
        BY <4>2, <4>3
    <3>3. /\ text' \in Probes /\ text'.at = at /\ text'.buffer = rest /\ text'.answer = a
          /\ text'.version = text.version /\ text'.script = text.script
          /\ text'.requests = text.requests /\ text'.stray = text.stray
      BY <3>2 DEF TextTypes, Probes, Running
    <3>4. TextTypes'
      BY <1>1, <3>2, <3>3 DEF TextTypes
    <3>5. Remaining' = Tail(Tokens(a))
      BY <2>3, <3>1, <3>2, <3>3, Zenon DEF Remaining
    <3>6. Body'
      BY <1>2, <1>4, <1>5, <2>2, <3>1, <3>3, <3>5, HeadOfTokens DEF Body, Answers
    <3>7. Requesting' /\ Answered' /\ Current' = Current /\ Fits(Current)'
      BY <1>2, <1>4, <2>5, <3>2, <3>3, Carried
    <3>8. AtRead'
      BY <1>2, <1>3, <1>7, <3>1, <3>2, <3>3, <3>6, <3>7 DEF AtRead
    <3>9. AtReady' /\ AtDial' /\ AtSend' /\ Judged'
      BY <3>3 DEF AtReady, AtDial, AtSend, Judged, PassesForCause, FailsForCause
    <3> QED
      BY <3>4, <3>8, <3>9
  <2> QED
    BY <2>4, <2>5
<1> QED
  BY <1>6, <1>7

\* A body is being read.
LEMMA InBody ==
  ASSUME ProbeInv, text.at \in {"size", "chunk", "exact"}
  PROVE  /\ Requesting /\ service.open /\ text.version # "0.9" /\ ~text.stray /\ ~service.asked
         /\ Answered /\ text.answer = Current /\ Current \in Answers /\ Fits(Current) /\ Body
         /\ text.at = "exact" => Current.framing = "length"
         /\ text.at # "exact" => Current.framing = "chunked"
<1>1. /\ Requesting /\ service.open /\ text.version # "0.9" /\ ~text.stray /\ ~service.asked
      /\ Answered /\ text.answer = Current /\ Fits(Current) /\ Body
  BY DEF ProbeInv, AtRead, Whole, Reading
<1>2. Current \in Answers
  BY <1>1, CurrentIsLast DEF ProbeInv
<1> QED
  BY <1>1, <1>2 DEF Body, Answers

\* A token of the body is taken.
LEMMA BodyMoves ==
  ASSUME ProbeInv, text.at \in {"size", "chunk"}, text.buffer # <<>>, NEW at \in {"size", "chunk"},
         text' = [text EXCEPT !.at = at, !.buffer = Tail(@)], UNCHANGED <<stream, service>>,
         \/ at = "size" /\ Tail(Remaining) = <<Token("last"), Token("end")>>
         \/ at = "chunk" /\ Tail(Remaining) = <<Token("data"), Token("last"), Token("end")>>
  PROVE  ProbeInv'
<1> USE DEF ProbeInv
<1>1. PICK rest \in Seq(Symbols) : rest = Tail(text.buffer) /\ rest \o stream = Tail(Remaining)
  BY TakeFirst
<1>2. /\ text' \in Probes /\ text'.at = at /\ text'.buffer = rest /\ text'.answer = text.answer
      /\ text'.version = text.version /\ text'.script = text.script
      /\ text'.requests = text.requests /\ text'.stray = text.stray
  <2>1. text' = [text EXCEPT !.at = at, !.buffer = rest]
    BY <1>1
  <2> QED
    BY <2>1 DEF TextTypes, Probes, Running
<1>3. TextTypes'
  BY <1>2 DEF TextTypes
<1>4. Remaining' = Tail(Remaining)
  BY <1>1, <1>2 DEF Remaining
<1>5. Body'
  BY <1>2, <1>4, InBody DEF Body
<1>6. Requesting' /\ Answered' /\ Current' = Current /\ Fits(Current)'
  BY <1>2, InBody, Carried
<1>7. AtRead'
  BY <1>2, <1>5, <1>6, InBody DEF AtRead
<1>8. AtReady' /\ AtDial' /\ AtSend' /\ Judged'
  BY <1>2 DEF AtReady, AtDial, AtSend, Judged, PassesForCause, FailsForCause
<1> QED
  BY <1>3, <1>7, <1>8

LEMMA ReadSizeKeeps ==
  ASSUME ProbeInv, ReadSize
  PROVE  ProbeInv'
<1>1. PICK size \in Symbols, data \in Symbols, last \in Symbols, end \in Symbols :
        /\ size = Token("size") /\ data = Token("data") /\ last = Token("last") /\ end = Token("end")
        /\ size.kind = "size" /\ last.kind = "last"
  BY TokenTypes
<1>2. /\ text.at = "size" /\ text.buffer # <<>> /\ TextTypes
      /\ Remaining = <<size, data, last, end>> \/ Remaining = <<last, end>>
  BY <1>1, InBody DEF ReadSize, Body, ProbeInv
<1>3. CASE Remaining = <<size, data, last, end>>
  <2>1. Head(text.buffer) = size /\ Tail(Remaining) = <<data, last, end>>
    BY <1>2, <1>3, TakeFirst
  <2>2. text' = [text EXCEPT !.at = "chunk", !.buffer = Tail(@)] /\ UNCHANGED <<stream, service>>
    BY <1>1, <2>1 DEF ReadSize
  <2> QED
    BY <1>1, <1>2, <2>1, <2>2, BodyMoves
<1>4. CASE Remaining = <<last, end>>
  <2>1. Head(text.buffer) = last
    BY <1>2, <1>4, TakeFirst
  <2>2. Complete(Current)
    BY <1>1, <1>2, <2>1, InBody DEF ReadSize
  <2>3. stream = <<>> \/ stream = <<Token("end")>>
    BY <1>1, <1>2, <1>4, LastOnSocket
  <2> QED
    BY <1>2, <2>2, <2>3, InBody, CompleteKeeps DEF Reading
<1> QED
  BY <1>2, <1>3, <1>4

LEMMA ReadChunkKeeps ==
  ASSUME ProbeInv, ReadChunk
  PROVE  ProbeInv'
<1>1. PICK data \in Symbols, last \in Symbols, end \in Symbols :
        data = Token("data") /\ last = Token("last") /\ end = Token("end")
  BY TokenTypes
<1>2. Remaining = <<data, last, end>>
  BY <1>1, InBody DEF ReadChunk, Body
<1>3. Tail(Remaining) = <<last, end>>
  BY <1>2
<1> QED
  BY <1>1, <1>3, BodyMoves DEF ReadChunk

LEMMA ReadExactKeeps ==
  ASSUME ProbeInv, ReadExact
  PROVE  ProbeInv'
<1>1. Complete(Current) /\ Remaining = <<Token("data")>>
  BY InBody DEF ReadExact, Body
<1>2. stream = <<>>
  BY <1>1, NoneOnSocket DEF ReadExact, ProbeInv
<1> QED
  BY <1>1, <1>2, InBody, CompleteKeeps DEF ReadExact, Reading, ProbeInv

\* The service has hung up, and nothing of what it sent is left on the socket.
LEMMA ReadEndKeeps ==
  ASSUME ProbeInv, ReadEnd
  PROVE  ProbeInv'
<1> USE DEF ProbeInv
<1>1. /\ Wants /\ stream = <<>> /\ service.finished /\ text.at \in Reading
      /\ Requesting /\ service.open /\ text.at # "none"
  BY DEF ReadEnd, Wants, AtRead, Reading
<1>2. Remaining = text.buffer
  BY <1>1, RemainingTypes DEF Remaining
<1>3. CASE text.at \in {"exact", "size", "chunk"}
  <2>1. text.buffer = <<>> /\ Body /\ Current.framing \in {"length", "chunked"} /\ text.answer = Current
    BY <1>1, <1>3, InBody DEF Wants
  <2>2. Remaining # <<>>
    BY <1>3, <2>1 DEF Body
  <2> QED
    BY <1>2, <2>1, <2>2
<1>4. CASE text.at = "head"
  <2>1. text.version \in {"1.0", "1.1"} /\ ~HasHead /\ Whole
    <3>1. text.version # "0.9" /\ Whole
      <4> SUFFICES ASSUME Answered, text.answer = Current, Body
                   PROVE  FALSE
        BY <1>1, <1>4 DEF AtRead, Whole
      <4>1. text.answer.framing \in {"length", "chunked", "close"}
        BY <1>1, CurrentIsLast DEF Answers
      <4> QED
        BY <1>4, <4>1 DEF Body
    <3> QED
      BY <1>1, <1>4, <3>1 DEF Wants, TextTypes, TextVersions
  <2>2. CASE service.asked
    <3>1. /\ text.requests = 2 /\ ~Closes(First) /\ First.hangs_up /\ NeedsTwo
          /\ Len(service.answers) = 1 /\ 1 \in DOMAIN service.answers
      <4>1. Unanswered
        BY <2>1, <2>2 DEF Whole
      <4>2. text.requests = 2 /\ ~Closes(First) /\ First.hangs_up /\ NeedsTwo
        BY <1>1, <4>1 DEF Unanswered, Requesting
      <4>3. Len(service.answers) = 1 /\ service.answers \in Seq(Answers)
        BY <4>1, <4>2 DEF Unanswered, TextTypes, Connections
      <4> QED
        BY <4>2, <4>3
    <3>2. ~Speaks(First, FALSE)
      BY <2>1, <3>1 DEF Speaks, Closes
    <3>3. ~AllSpeak
      <4>1. (1 = (IF NeedsTwo THEN 2 ELSE 1)) = FALSE
        BY <3>1
      <4> QED
        BY <3>1, <3>2, <4>1, Zenon DEF AllSpeak, First
    <3> QED
      BY <1>1, <1>4, <3>3, Ends DEF ReadEnd, Fail
  <2>3. CASE ~service.asked
    <3>1. Answered /\ Remaining = Leftover \o Tokens(Current)
      BY <2>1, <2>3 DEF Whole
    <3>2. CASE text.stray
      BY <1>1, <1>4, <3>2, Ends DEF ReadEnd, Fail
    <3>3. CASE ~text.stray
      <4>1. text.buffer = Tokens(Current) /\ Tokens(Current) \in Seq(Symbols)
        BY <1>1, <1>2, <3>1, <3>3, HeadOfTokens DEF Leftover
      <4>2. Current.proto = "naked"
        <5> SUFFICES ASSUME Current.proto # "naked"
                     PROVE  HasHead
          BY <2>1
        <5>1. text.buffer # <<>> /\ Head(text.buffer).kind = "head"
          BY <1>1, <3>1, <4>1, HeadOfTokens
        <5>2. 1 \in DOMAIN text.buffer /\ text.buffer[1].kind = "head"
          BY <4>1, <5>1
        <5> QED
          BY <5>2 DEF HasHead
      <4>3. ~AllSpeak
        BY <1>1, <2>1, <3>1, <4>2, CurrentIsOut DEF Speaks
      <4> QED
        BY <1>1, <1>4, <4>3, Ends DEF ReadEnd, Fail
    <3> QED
      BY <3>2, <3>3
  <2> QED
    BY <2>2, <2>3
<1>5. CASE text.at = "all" /\ text.version = "1.0"
  <2>1. /\ ~text.stray /\ ~service.asked
        /\ Answered /\ text.answer = Current /\ Fits(Current)
    BY <1>1, <1>5 DEF AtRead, Whole
  <2>2. Complete(Current) /\ Current.hangs_up
    BY <1>1, <1>5, <2>1 DEF ReadEnd, Answered
  <2> QED
    BY <1>1, <1>5, <2>1, <2>2, CompleteKeeps
<1>6. CASE text.at = "all" /\ text.version # "1.0"
  <2>1. Whole
    <3> SUFFICES ASSUME Answered, text.answer = Current, Fits(Current), Body
                 PROVE  FALSE
      BY <1>1, <1>6 DEF AtRead
    <3>1. text.answer.framing \in {"length", "chunked", "close"}
      BY <1>1, CurrentIsLast DEF Answers
    <3> QED
      BY <1>6, <3>1 DEF Body, Fits
  <2>2. text.version = "0.9" /\ ~text.stray /\ ~NeedsTwo /\ text.requests = 1
    BY <1>1, <1>6, <2>1 DEF Whole, TextTypes, NeedsTwo, Requesting
  <2>3. Answered /\ text.buffer = Tokens(Current)
    <3>1. Answered /\ Remaining = Leftover \o Tokens(Current)
      BY <1>1, <2>1, <2>2 DEF Whole, Unanswered
    <3> QED
      BY <1>1, <1>2, <2>2, <3>1, HeadOfTokens DEF Leftover
  <2>4. /\ Current.hangs_up /\ Current \in Answers /\ Len(service.answers) = 1 /\ Current = First
        /\ DOMAIN service.answers = 1..1
    <3>1. Current \in Answers /\ DOMAIN service.answers = 1..1 /\ Current = First
      BY <1>1, <2>2, <2>3, CurrentIsLast
    <3> QED
      BY <1>1, <2>2, <2>3, <3>1 DEF Answered, Answers
  <2>5. CASE text.buffer # <<>> /\ Head(text.buffer).kind # "head"
    <3>1. Current.proto = "naked" /\ Current.content = "good"
      <4>1. Current.proto = "naked"
        BY <1>1, <2>3, <2>5, HeadOfTokens
      <4> QED
        BY <2>3, <2>4, <2>5, <4>1, TokensOf
    <3>2. Speaks(Current, TRUE)
      BY <2>2, <2>4, <3>1 DEF Speaks
    <3>3. ASSUME NEW i \in DOMAIN service.answers
          PROVE  Speaks(service.answers[i], i = (IF NeedsTwo THEN 2 ELSE 1))
      <4>1. i = 1 /\ (i = (IF NeedsTwo THEN 2 ELSE 1)) = TRUE
        BY <2>2, <2>4
      <4> QED
        BY <2>4, <3>2, <4>1, Zenon DEF First
    <3>4. Persists
      BY <2>2 DEF Persists
    <3>5. AllSpeak
      BY <3>3, <3>4, Zenon DEF AllSpeak
    <3> QED
      BY <1>1, <1>6, <2>2, <2>4, <2>5, <3>5, Ends DEF ReadEnd
  <2>6. CASE ~(text.buffer # <<>> /\ Head(text.buffer).kind # "head")
    <3>1. ~(Current.proto = "naked" /\ Current.content = "good")
      <4> SUFFICES ASSUME Current.proto = "naked", Current.content = "good"
                   PROVE  FALSE
        OBVIOUS
      <4>1. PICK data \in Symbols : data = Token("data") /\ data.kind = "data"
        BY TokenTypes
      <4>2. text.buffer = <<data>>
        BY <2>3, <2>4, <4>1, TokensOf
      <4> QED
        BY <2>6, <4>1, <4>2
    <3>2. ~AllSpeak
      BY <1>1, <2>2, <2>3, <3>1, CurrentIsOut DEF Speaks
    <3> QED
      BY <1>1, <1>6, <2>6, <3>2, Ends DEF ReadEnd, Fail
  <2> QED
    BY <2>5, <2>6
<1> QED
  BY <1>1, <1>3, <1>4, <1>5, <1>6 DEF Reading

LEMMA ProbesStart ==
  ASSUME Http1Init
  PROVE  ProbeInv
<1> <<>> \in Seq(Symbols) /\ <<>> \in Seq(Answers)
  OBVIOUS
<1>1. text \in Probes /\ text.at = "none" /\ text.version = "none"
  BY DEF Http1Init, NoProbe, Probes
<1>2. service \in Connections /\ ~service.asked /\ stream \in Seq(Symbols)
  BY DEF Http1Init, NoService, Connections
<1>3. TextTypes
  BY <1>1, <1>2 DEF TextTypes
<1>4. AtReady /\ AtDial /\ AtSend /\ AtRead /\ Judged
  BY <1>1, <1>2 DEF AtReady, AtDial, AtSend, AtRead, Reading, Judged, PassesForCause, FailsForCause
<1> QED
  BY <1>3, <1>4 DEF ProbeInv

LEMMA ProbesStay ==
  ASSUME ProbeInv, [Http1Next]_http1vars
  PROVE  ProbeInv'
<1>1. CASE UNCHANGED http1vars
  BY <1>1, ElapsesKeeps DEF http1vars
<1>2. CASE Http1Next
  BY <1>2, AnswerKeeps, ChooseKeeps, BeginKeeps, DialKeeps, SendKeeps, ReceiveKeeps, ReadHeadKeeps,
     ReadSizeKeeps, ReadChunkKeeps, ReadExactKeeps, ReadEndKeeps, LoseKeeps, ElapsesKeeps
     DEF Http1Next, Elapses
<1> QED
  BY <1>1, <1>2

\* What is known of a probe at each of its points is kept by every step of it and of the service.
THEOREM ProbesAreJudged == Http1Spec => []ProbeInv
BY ProbesStart, ProbesStay, PTL DEF Http1Spec

\* httpclient.py: a probe passes on as many answers as it asks for, each in the terms of the
\* version probed, wherever the service or TCP cuts what it sends.
THEOREM PassesAreEarned == Http1Spec => []PassesForCause
<1>1. ProbeInv => PassesForCause
  BY DEF ProbeInv, Judged
<1> QED
  BY <1>1, ProbesAreJudged, PTL

\* A service that keeps to the version is failed for time, a lost connection or the late end of
\* its first chunked body, and for nothing else.
THEOREM FailuresHaveCause == Http1Spec => []FailsForCause
<1>1. ProbeInv => FailsForCause
  BY DEF ProbeInv, Judged
<1> QED
  BY <1>1, ProbesAreJudged, PTL

-----------------------------------------------------------------------------
(* Types. *)

\* A probe makes two requests at most and has no more answers than it asked for; no
\* operation is allowed more than its time.
Tallied ==
  /\ text.requests \in 0..2 /\ Len(service.answers) <= text.requests
  /\ clock.armed <= PerOp

Http1Inv == ProbeInv /\ Spending /\ Tallied

LEMMA TalliedStep ==
  ASSUME Http1Inv, [Http1Next]_http1vars
  PROVE  Tallied'
<1> USE DEF Http1Inv
<1>1. /\ text.requests \in 0..2 /\ Len(service.answers) \in Nat /\ Len(service.answers) <= text.requests
      /\ text \in Probes /\ service \in Connections /\ clock.armed <= PerOp
      /\ clock \in [spent: Nat, idle: Nat, armed: Nat]
  BY DEF Tallied, ProbeInv, TextTypes, Connections, Spending
<1>2. (clock' = Stopped \/ clock' = Armed \/ clock'.armed = clock.armed) => clock'.armed <= PerOp
  <2>1. CASE clock' = Armed
    <3> DEFINE left == BudgetLimit - clock.spent
    <3>1. clock'.armed = IF left < PerOp THEN left ELSE PerOp
      BY <1>1, <2>1 DEF Armed
    <3>2. left \in Int
      BY <1>1, Http1Assumption
    <3> HIDE DEF left
    <3> QED
      BY <3>1, <3>2, Http1Assumption
  <2> QED
    BY <1>1, <2>1, Http1Assumption DEF Stopped
<1>3. ASSUME NEW verdict, End(verdict)
      PROVE  Tallied'
  BY <1>1, <1>2, <1>3 DEF End, Drop, Probes, Connections, Tallied
<1>4. ASSUME NEW a, Complete(a)
      PROVE  Tallied'
  <2>1. CASE Fail \/ End("up")
    BY <1>3, <2>1 DEF Fail
  <2>2. CASE ~Fail /\ ~End("up")
    <3>1. /\ text' = [text EXCEPT !.at = "ready", !.buffer = <<>>, !.answer = NoAnswer]
          /\ Drop \/ (UNCHANGED <<stream, service>> /\ clock' = Stopped)
      BY <1>4, <2>2 DEF Complete
    <3> QED
      BY <1>1, <1>2, <3>1 DEF Drop, Probes, Connections, Tallied
  <2> QED
    BY <2>1, <2>2
<1>5. ASSUME NEW a \in Answers, Answer(a)
      PROVE  Tallied'
  <2>1. text.at \in Reading /\ Requesting /\ Unanswered
    <3>1. text.at \in Reading
      BY <1>5 DEF Answer, ProbeInv, TextTypes, Probes, Running, Reading, AtReady, AtDial, AtSend, Judged
    <3> QED
      BY <1>5, <3>1 DEF Answer, ProbeInv, AtRead, Whole
  <2>2. service'.answers = Append(service.answers, a) /\ UNCHANGED <<text, clock>>
    BY <1>1, <1>5 DEF Answer, Connections
  <2>3. Len(service'.answers) = text.requests
    BY <1>1, <2>1, <2>2 DEF Connections, Unanswered, Requesting
  <2> QED
    BY <1>1, <2>2, <2>3 DEF Tallied
<1>6. ASSUME NEW version \in TextVersions, NEW script \in Scripts, Choose(version, script)
      PROVE  Tallied'
  <2>1. text'.requests = 0 /\ service'.answers = <<>>
    BY <1>6 DEF Choose, NoProbe, NoService
  <2> QED
    BY <1>2, <1>6, <2>1 DEF Choose, Tallied
<1>7. ASSUME Begin
      PROVE  Tallied'
  <2>1. text.requests \in {0, 1} /\ Len(service.answers) = text.requests
    BY <1>7 DEF Begin, ProbeInv, AtReady
  <2>2. text'.requests = text.requests + 1
    BY <1>1, <1>7 DEF Begin, Probes
  <2> QED
    BY <1>2, <1>7, <2>1, <2>2 DEF Begin, Tallied
<1>8. CASE Dial \/ Send \/ ReadChunk
  BY <1>1, <1>2, <1>8 DEF Dial, Send, ReadChunk, Probes, Connections, Tallied
<1>9. ASSUME NEW n \in 0..Len(stream), Receive(n)
      PROVE  Tallied'
  BY <1>1, <1>2, <1>9 DEF Receive, Probes, Tallied
<1>10. CASE ReadHead
  BY <1>1, <1>2, <1>3, <1>10 DEF ReadHead, Fail, Probes, Tallied
<1>11. CASE ReadSize
  <2>1. CASE Complete(text.answer)
    BY <1>4, <2>1
  <2>2. CASE ~Complete(text.answer)
    BY <1>1, <1>2, <1>11, <2>2 DEF ReadSize, Probes, Tallied
  <2> QED
    BY <2>1, <2>2
<1>12. CASE ReadExact \/ ReadEnd
  BY <1>3, <1>4, <1>12 DEF ReadExact, ReadEnd, Fail
<1>13. CASE Lose
  BY <1>1, <1>2, <1>13 DEF Lose, Drop, Probes, Connections, Tallied
<1>14. CASE Elapses \/ UNCHANGED http1vars
  BY <1>1, <1>14 DEF Elapses, http1vars, Tallied
<1> QED
  BY <1>5, <1>6, <1>7, <1>8, <1>9, <1>10, <1>11, <1>12, <1>13, <1>14 DEF Http1Next

LEMMA Http1Starts ==
  Http1Init => Http1Inv
<1> SUFFICES ASSUME Http1Init
             PROVE  Http1Inv
  OBVIOUS
<1>1. ProbeInv
  BY ProbesStart
<1>2. text = NoProbe /\ service = NoService /\ clock = Stopped
  BY DEF Http1Init
<1>3. Spending
  BY <1>2, Http1Assumption DEF NoProbe, Stopped, Spending
<1>4. Tallied
  BY <1>2, Http1Assumption DEF NoProbe, NoService, Stopped, Tallied
<1> QED
  BY <1>1, <1>3, <1>4 DEF Http1Inv

LEMMA Http1Stays ==
  Http1Inv /\ [Http1Next]_http1vars => Http1Inv'
BY ProbesStay, SpendingStep, TalliedStep DEF Http1Inv

LEMMA Http1Types ==
  Http1Inv => Http1TypeOK
<1> SUFFICES ASSUME Http1Inv
             PROVE  Http1TypeOK
  OBVIOUS
<1>1. /\ text \in Probes /\ stream \in Seq(Symbols) /\ service \in Connections
      /\ clock \in [spent: Nat, idle: Nat, armed: Nat] /\ clock.idle <= clock.armed /\ Tallied
  BY DEF Http1Inv, ProbeInv, TextTypes, Spending
<1>2. clock.idle \in 0..clock.armed /\ clock.armed \in 0..PerOp
  BY <1>1, Http1Assumption DEF Tallied
<1> QED
  BY <1>1, <1>2 DEF Probes, Connections, Symbols, Tallied, Http1TypeOK
=============================================================================
