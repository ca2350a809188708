---------------------------- MODULE CaptureProofs ----------------------------
(***************************************************************************)
(* What the ledger's captures amount to: that the referee implements Game, *)
(* step by step, and what a capture pays before and after its review.      *)
(***************************************************************************)
EXTENDS RefereeProofs

-----------------------------------------------------------------------------
(***************************************************************************)
(* The refinement.  Most steps are none of Game's, as they leave the       *)
(* clock, the tokens on record, the requests and the captures alone.       *)
(***************************************************************************)
LEMMA InitGame == Init => Abstract!Init
<1> SUFFICES ASSUME Init PROVE Abstract!Init
  OBVIOUS
<1>1. tick = 0 /\ flags = {} /\ submissions = <<>> /\ requests = [t \in Threads |-> Idle]
  BY DEF Init, LedgerInit, SubmitInit
<1>2. Opened = [t \in Threads |-> NoFlag] /\ Vouched = [t \in Threads |-> NoFlag]
  BY <1>1 DEF Opened, Vouched, Idle
<1>3. Captures = {}
  BY <1>1 DEF Captures
<1> QED
  BY <1>1, <1>2, <1>3 DEF Abstract!Init

SameGame == UNCHANGED Abstract!gameVars

LEMMA QuietGame ==
  ASSUME UNCHANGED <<tick, flags, submissions, requests>>
  PROVE  SameGame
BY DEF SameGame, Abstract!gameVars, Opened, Vouched, Captures, Accepted

LEMMA LoopGame ==
  ASSUME IInv, FromOne, LoopNext, UNCHANGED <<submitVars, operatorVars>>
  PROVE  Abstract!Next \/ SameGame
<1>0. UNCHANGED <<submissions, requests>>
  BY LoopWrites DEF submitVars
<1>1. UNCHANGED <<Opened, Vouched, Captures>>
  BY <1>0 DEF Opened, Vouched, Captures, Accepted
<1>2. CASE AdvanceTick
  <2>1. tick' = tick + 1 /\ UNCHANGED flags
    BY <1>2 DEF AdvanceTick, IInv, RoundInv
  <2>2. Abstract!Advance
    BY <1>1, <2>1 DEF Abstract!Advance
  <2> QED
    BY <2>2 DEF Abstract!Next
<1>3. CASE ExpireFlags
  <2>1. flags' = {f \in flags : ~(f.expires_tick <= tick)} /\ UNCHANGED tick
    BY <1>3 DEF ExpireFlags, Expire, IInv, RoundInv
  <2>2. \A f \in flags : f.expires_tick = f.flag.tick + K
    BY DEF IInv, FlagInv
  <2>3. Abstract!Disappear
    BY <1>1, <2>1, <2>2 DEF Abstract!Disappear
  <2> QED
    BY <2>3 DEF Abstract!Next
<1>4. CASE \E j \in jobs : \E rung \in j.todo : ProbePlant(j, rung)
  <2> PICK j \in jobs : \E rung \in j.todo : ProbePlant(j, rung)
    BY <1>4
  <2>1. PICK rung \in j.todo : ProbePlant(j, rung)
    OBVIOUS
  <2> DEFINE row == [flag |-> Token(j, rung), expires_tick |-> j.tick + K, stolen_by |-> NoOne,
                     stolen_tick |-> NoTick]
  <2>2. flags' = flags \cup {row} /\ row.flag = Token(j, rung) /\ UNCHANGED tick
    BY <2>1 DEF ProbePlant, Plant, Token
  <2>3. Token(j, rung).tick = j.tick /\ j.tick \in 1..tick
    BY DEF Token, FromOne, IInv, JobInv, Begun, Types, TypeOK, LedgerTypeOK, LoopTypeOK, Jobs
  <2> HIDE DEF row
  <2>4. Abstract!Appear
    BY <1>1, <2>2, <2>3 DEF Abstract!Appear
  <2> QED
    BY <2>4 DEF Abstract!Next
<1>5. CASE UNCHANGED <<tick, flags>>
  BY <1>0, <1>5, QuietGame
<1> QED
  BY <1>2, <1>3, <1>4, <1>5, LoopWrites

\* Requests that are gone, of which nothing was accepted.
LEMMA DropGame ==
  ASSUME NEW ts \in SUBSET Threads, UNCHANGED <<tick, flags, Captures>>,
         requests' = [t \in Threads |-> IF t \in ts THEN Idle ELSE requests[t]]
  PROVE  Abstract!Next
<1>1. /\ Opened' = [t \in Threads |-> IF t \in ts THEN NoFlag ELSE Opened[t]]
      /\ Vouched' = [t \in Threads |-> IF t \in ts THEN NoFlag ELSE Vouched[t]]
  BY DEF Opened, Vouched, Idle
<1>2. Abstract!Drop(ts)
  BY <1>1 DEF Abstract!Drop
<1> QED
  BY <1>2 DEF Abstract!Next

LEMMA RefuseGame ==
  ASSUME IInv, NEW t \in Threads, NEW verdict, verdict # "accepted", Refuse(t, verdict)
  PROVE  Abstract!Next
<1> DEFINE row == [by |-> Client[t], flag |-> requests[t].flag, verdict |-> verdict, klass |-> NoClass,
                   claimed |-> requests[t].claimed, points |-> 0, pending |-> FALSE]
<1>1. submissions \in Seq(SubmissionRows) /\ submissions' = Append(submissions, row)
  BY DEF Refuse, Record, IInv, Types, TypeOK, LedgerTypeOK
<1>2. row.verdict # "accepted"
  OBVIOUS
<1> HIDE DEF row
<1>3. /\ DOMAIN submissions' = DOMAIN submissions \cup {Len(submissions) + 1}
      /\ \A i \in DOMAIN submissions : submissions'[i] = submissions[i]
      /\ submissions'[Len(submissions) + 1] = row
  BY <1>1
<1>4. UNCHANGED Captures
  BY <1>2, <1>3 DEF Captures, Accepted
<1>5. requests' = [s \in Threads |-> IF s \in {t} THEN Idle ELSE requests[s]]
  BY DEF Refuse, Finish, IInv, Types, TypeOK, SubmitTypeOK
<1> QED
  BY <1>4, <1>5, DropGame DEF Refuse

LEMMA ArriveGame ==
  ASSUME IInv, NEW t \in Threads, NEW flag, NEW claimed, NEW writeup, Arrive(t, flag, claimed, writeup)
  PROVE  Abstract!Next
<1>1. requests \in [Threads -> RequestStates]
  BY DEF IInv, Types, TypeOK, SubmitTypeOK
<1>2. Opened[t] = NoFlag /\ Opened' = [Opened EXCEPT ![t] = tick]
  BY <1>1 DEF Arrive, Opened
<1>3. UNCHANGED Vouched
  BY <1>1 DEF Arrive, Vouched
<1>4. UNCHANGED <<tick, flags, Captures>>
  BY DEF Arrive, ledger, Captures, Accepted
<1>5. Abstract!Open(t)
  BY <1>2, <1>3, <1>4 DEF Abstract!Open
<1> QED
  BY <1>5 DEF Abstract!Next

\* A request that goes on to its next statement, the lookup of its flag aside.
LEMMA GotoGame ==
  ASSUME IInv, NEW t \in Threads, NEW at \in {"already", "mark", "record"}, Goto(t, at),
         requests[t].at \in {"manifest", "already", "mark"}
  PROVE  UNCHANGED <<Opened, Vouched>>
<1>1. requests \in [Threads -> RequestStates]
  BY DEF IInv, Types, TypeOK, SubmitTypeOK
<1>2. \A s \in Threads : /\ requests'[s].flag = requests[s].flag
                         /\ requests'[s].tick = requests[s].tick
                         /\ s # t => requests'[s] = requests[s]
                         /\ s = t => requests'[s].at = at
  BY <1>1 DEF Goto, RequestStates
<1> QED
  BY <1>2 DEF Opened, Vouched

LEMMA FindGame ==
  ASSUME IInv, NEW t \in Threads, Find(t)
  PROVE  Abstract!Next
<1> DEFINE flag == requests[t].flag
<1>1. requests \in [Threads -> RequestStates]
  BY DEF IInv, Types, TypeOK, SubmitTypeOK
<1>2. PICK f \in flags : f.flag = flag /\ f.expires_tick > requests[t].tick
  BY DEF Find, FindLiveFlag
<1>3. f.flag \in Tokens /\ f.expires_tick = f.flag.tick + K
  BY DEF IInv, FlagInv, Types, TypeOK, LedgerTypeOK, FlagRows
<1>4. requests[t].tick \in Nat /\ requests[t].at = "find" /\ flag.player # Client[t]
  BY <1>1 DEF Find, RequestStates
<1>5. Opened[t] = requests[t].tick /\ Opened[t] # NoFlag
  BY <1>4, SubmitAssumption DEF Opened
<1>6. Vouched[t] = NoFlag
  BY <1>4 DEF Vouched
<1>7. Opened[t] < flag.tick + K
  BY <1>2, <1>3, <1>4, <1>5, KAssumption DEF Tokens
<1>8. \A s \in Threads : /\ requests'[s].flag = requests[s].flag
                         /\ requests'[s].tick = requests[s].tick
                         /\ s # t => requests'[s] = requests[s]
                         /\ s = t => requests'[s].at = "manifest"
  BY <1>1 DEF Find, Goto, RequestStates
<1>9. UNCHANGED Opened /\ Vouched' = [Vouched EXCEPT ![t] = flag]
  BY <1>4, <1>8 DEF Opened, Vouched
<1>10. UNCHANGED <<tick, flags, Captures>>
  BY DEF Find, ledger, Captures, Accepted
<1>11. Abstract!Vouch(t, flag)
  BY <1>4, <1>5, <1>6, <1>7, <1>9, <1>10 DEF Abstract!Vouch
<1> QED
  BY <1>2, <1>11 DEF Abstract!Next

\* The INSERT of an accepted row is the capture.
LEMMA AcceptGame ==
  ASSUME IInv, OnceInv, NEW t \in Threads, Accept(t)
  PROVE  Abstract!Next
<1> DEFINE r == requests[t]
           class == AutoClass(r.flag.protocol)
           row == [by |-> Client[t], flag |-> r.flag, verdict |-> "accepted", klass |-> class,
                   claimed |-> r.claimed, points |-> AttackPoints[class],
                   pending |-> ClaimsAbove(r.claimed, r.flag.protocol)]
<1>1. submissions \in Seq(SubmissionRows) /\ submissions' = Append(submissions, row)
  BY DEF Accept, Record, IInv, Types, TypeOK, LedgerTypeOK
<1>2. row.by = Client[t] /\ row.flag = requests[t].flag /\ row.verdict = "accepted"
  OBVIOUS
<1> HIDE DEF row
<1>3. /\ DOMAIN submissions' = DOMAIN submissions \cup {Len(submissions) + 1}
      /\ \A i \in DOMAIN submissions : submissions'[i] = submissions[i]
      /\ submissions'[Len(submissions) + 1] = row
  BY <1>1
<1>4. requests[t].at = "record" /\ requests[t].flag \in Tokens
  BY DEF Accept, IInv, RequestInv
<1>5. Vouched[t] = requests[t].flag /\ Vouched[t] # NoFlag
  BY <1>4, SubmitAssumption DEF Vouched
<1>6. <<Client[t], Vouched[t]>> \notin Captures
  <2>1. ~Captured(Client[t], requests[t].flag)
    BY <1>4 DEF OnceInv
  <2> QED
    BY <1>5, <2>1 DEF Captured, Captures, Accepted
<1>7. Captures' = Captures \cup {<<Client[t], Vouched[t]>>}
  BY <1>2, <1>3, <1>5 DEF Captures, Accepted
<1>8. requests' = [requests EXCEPT ![t] = Idle] /\ requests \in [Threads -> RequestStates]
  BY DEF Accept, Finish, IInv, Types, TypeOK, SubmitTypeOK
<1>9. Opened' = [Opened EXCEPT ![t] = NoFlag] /\ Vouched' = [Vouched EXCEPT ![t] = NoFlag]
  BY <1>8 DEF Opened, Vouched, Idle
<1>10. Abstract!Capture(t)
  BY <1>5, <1>6, <1>7, <1>9 DEF Abstract!Capture, Accept
<1> QED
  BY <1>10 DEF Abstract!Next

LEMMA SubmitGame ==
  ASSUME IInv, OnceInv, SubmitNext
  PROVE  Abstract!Next \/ SameGame
<1>1. ASSUME NEW t \in Threads, RefuseInvalid(t) \/ RefuseOwn(t) \/ RefuseUndeclared(t) \/ RefuseDuplicate(t)
      PROVE  Abstract!Next
  BY <1>1, RefuseGame DEF RefuseInvalid, RefuseOwn, RefuseUndeclared, RefuseDuplicate
<1>2. ASSUME NEW t \in Threads, RefuseBareClaim(t)
      PROVE  Abstract!Next
  <2>1. requests' = [s \in Threads |-> IF s \in {t} THEN Idle ELSE requests[s]]
    BY <1>2 DEF RefuseBareClaim, Finish, IInv, Types, TypeOK, SubmitTypeOK
  <2>2. UNCHANGED <<tick, flags, Captures>> /\ {t} \in SUBSET Threads
    BY <1>2 DEF RefuseBareClaim, ledger, Captures, Accepted
  <2> QED
    BY <2>1, <2>2, DropGame
<1>3. ASSUME NEW t \in Threads, CheckManifest(t) \/ Judge(t)
      PROVE  SameGame
  <2>1. UNCHANGED <<Opened, Vouched>>
    BY <1>3, GotoGame DEF CheckManifest, Judge
  <2>2. UNCHANGED <<tick, flags, Captures>>
    BY <1>3 DEF CheckManifest, Judge, ledger, Captures, Accepted
  <2> QED
    BY <2>1, <2>2 DEF SameGame, Abstract!gameVars
<1>4. ASSUME NEW t \in Threads, Mark(t)
      PROVE  SameGame
  <2> DEFINE Marked(f) == IF f.flag = requests[t].flag /\ f.stolen_by = NoOne
                          THEN [f EXCEPT !.stolen_by = Client[t], !.stolen_tick = requests[t].tick]
                          ELSE f
  <2>1. \A f \in flags : Marked(f).flag = f.flag
    BY DEF IInv, Types, TypeOK, LedgerTypeOK, FlagRows
  <2>2. flags' = {Marked(f) : f \in flags}
    BY <1>4 DEF Mark, MarkStolen
  <2> HIDE DEF Marked
  <2>3. {f.flag : f \in flags'} = {f.flag : f \in flags}
    BY <2>1, <2>2
  <2>4. UNCHANGED <<Opened, Vouched>>
    BY <1>4, GotoGame DEF Mark
  <2>5. UNCHANGED <<tick, Captures>>
    BY <1>4 DEF Mark, Captures, Accepted
  <2> QED
    BY <2>3, <2>4, <2>5 DEF SameGame, Abstract!gameVars
<1>5. CASE Outage
  BY <1>5, DropGame DEF Outage, ledger, Captures, Accepted
<1> QED
  BY <1>1, <1>2, <1>3, <1>4, <1>5, ArriveGame, FindGame, AcceptGame DEF SubmitNext, Handle

LEMMA OperatorGame ==
  ASSUME IInv, OperatorNext, UNCHANGED <<loopVars, submitVars>>
  PROVE  SameGame
<1>1. CASE \E o \in Operators : Approve(o) \/ Reject(o)
  <2>1. PICK o \in Operators : Approve(o) \/ Reject(o)
    BY <1>1
  <2>2. /\ DOMAIN submissions' = DOMAIN submissions
        /\ \A i \in DOMAIN submissions :
             /\ submissions'[i].by = submissions[i].by
             /\ submissions'[i].flag = submissions[i].flag
             /\ submissions'[i].verdict = submissions[i].verdict
    BY <2>1, ReviewKeeps DEF IInv
  <2>3. UNCHANGED Captures
    BY <2>2 DEF Captures, Accepted
  <2>4. UNCHANGED <<tick, flags, requests>>
    BY <2>1 DEF Approve, Reject, ReviewDone, submitVars
  <2> QED
    BY <2>3, <2>4 DEF SameGame, Abstract!gameVars, Opened, Vouched
<1>2. CASE UNCHANGED <<tick, flags, submissions, requests>>
  BY <1>2, QuietGame
<1> QED
  BY <1>1, <1>2 DEF OperatorNext, Freeze, ReviewFetch, Fetch, ReadGrace, Land, ledger, submitVars

LEMMA StepGame == IInv /\ FromOne /\ OnceInv /\ [Next]_vars => [Abstract!Next]_(Abstract!gameVars)
<1>1. CASE UNCHANGED vars
  BY <1>1, QuietGame DEF vars, ledger, submitVars, SameGame
<1> QED
  BY <1>1, LoopGame, SubmitGame, OperatorGame DEF Next, SameGame

\* The referee keeps the promise of RULES 6, as long as no client has two requests
\* in the API at once: each of its steps is a step of Game or none.
THEOREM RefereeImplementsGame ==
  ASSUME OneAtATime
  PROVE  Spec => RefinesGame
<1>1. Spec => []OnceInv
  BY OnceIsKept
<1> QED
  BY <1>1, InitGame, StepGame, Inductive, TicksFromOne, PTL DEF Spec, RefinesGame, Abstract!Spec

-----------------------------------------------------------------------------
(***************************************************************************)
(* What a capture pays.  A review works on the id of a row it found        *)
(* pending, and the row may be decided by another review before it         *)
(* writes; the row is still one of a capture that claims above its floor.  *)
(***************************************************************************)
HeldForReview(i) ==
  Accepted(i) /\ ClaimsAbove(submissions[i].claimed, submissions[i].flag.protocol)

PayInv ==
  /\ \A i \in DOMAIN submissions : submissions[i].pending => Accepted(i)
  /\ \A o \in Operators : reviewing[o] # 0 => HeldForReview(reviewing[o])
  /\ PaidAsReviewed

\* Rows are only added: the rows there are, and the reviews of them, stay paid.
LEMMA AppendPays ==
  ASSUME IInv, PayInv, UNCHANGED reviewing, NEW row, submissions' = Append(submissions, row),
         row.verdict # "accepted" => ~row.pending,
         row.verdict = "accepted" =>
           /\ row.points = AttackPoints[row.klass]
           /\ row.klass = AutoClass(row.flag.protocol)
           /\ row.pending => ClaimsAbove(row.claimed, row.flag.protocol)
  PROVE  PayInv'
<1>1. submissions \in Seq(SubmissionRows)
  BY DEF IInv, Types, TypeOK, LedgerTypeOK
<1>2. /\ DOMAIN submissions' = DOMAIN submissions \cup {Len(submissions) + 1}
      /\ \A i \in DOMAIN submissions : submissions'[i] = submissions[i]
      /\ submissions'[Len(submissions) + 1] = row
  BY <1>1
<1>3. \A o \in Operators : reviewing[o] # 0 => reviewing[o] \in DOMAIN submissions
  BY DEF IInv, Types, ReviewInv, Reviewable
<1>4. \A o \in Operators : reviewing'[o] # 0 => HeldForReview(reviewing[o])'
  BY <1>2, <1>3 DEF PayInv, HeldForReview, Accepted
<1>5. \A i \in DOMAIN submissions' : submissions'[i].pending => Accepted(i)'
  BY <1>2 DEF PayInv, Accepted
<1>6. PaidAsReviewed'
  BY <1>2 DEF PayInv, PaidAsReviewed, Accepted
<1> QED
  BY <1>4, <1>5, <1>6 DEF PayInv

LEMMA RefusePays ==
  ASSUME IInv, PayInv, UNCHANGED reviewing, NEW t \in Threads, NEW verdict, verdict # "accepted",
         Refuse(t, verdict)
  PROVE  PayInv'
<1> DEFINE row == [by |-> Client[t], flag |-> requests[t].flag, verdict |-> verdict, klass |-> NoClass,
                   claimed |-> requests[t].claimed, points |-> 0, pending |-> FALSE]
<1>1. submissions' = Append(submissions, row)
  BY DEF Refuse, Record
<1>2. row.verdict # "accepted" /\ ~row.pending
  OBVIOUS
<1> HIDE DEF row
<1> QED
  BY <1>1, <1>2, AppendPays

LEMMA AcceptPays ==
  ASSUME IInv, PayInv, UNCHANGED reviewing, NEW t \in Threads, Accept(t)
  PROVE  PayInv'
<1> DEFINE r == requests[t]
           class == AutoClass(r.flag.protocol)
           row == [by |-> Client[t], flag |-> r.flag, verdict |-> "accepted", klass |-> class,
                   claimed |-> r.claimed, points |-> AttackPoints[class],
                   pending |-> ClaimsAbove(r.claimed, r.flag.protocol)]
<1>1. submissions' = Append(submissions, row)
  BY DEF Accept, Record
<1>2. /\ row.verdict = "accepted"
      /\ row.points = AttackPoints[row.klass]
      /\ row.klass = AutoClass(row.flag.protocol)
      /\ row.pending => ClaimsAbove(row.claimed, row.flag.protocol)
  OBVIOUS
<1> HIDE DEF row
<1> QED
  BY <1>1, <1>2, AppendPays

LEMMA ReviewPays ==
  ASSUME IInv, PayInv, NEW o \in Operators, Approve(o) \/ Reject(o)
  PROVE  PayInv'
<1> DEFINE id == reviewing[o]
<1>1. HeldForReview(id)
  BY DEF Approve, Reject, PayInv
<1>2. /\ DOMAIN submissions' = DOMAIN submissions
      /\ \A i \in DOMAIN submissions :
           /\ i # id => submissions'[i] = submissions[i]
           /\ submissions'[i].flag = submissions[i].flag
           /\ submissions'[i].verdict = submissions[i].verdict
           /\ submissions'[i].claimed = submissions[i].claimed
           /\ submissions'[i].pending => submissions[i].pending
  BY ReviewRewrites DEF IInv
<1>3. ~submissions'[id].pending
  BY ReviewRewrites DEF IInv
<1>4. \/ /\ submissions'[id].klass = submissions[id].claimed
         /\ submissions'[id].points = AttackPoints[submissions[id].claimed]
      \/ /\ submissions'[id].klass = submissions[id].klass
         /\ submissions'[id].points = submissions[id].points
  BY ReviewRewrites DEF IInv
<1>5. reviewing' = [reviewing EXCEPT ![o] = 0] /\ reviewing \in [Operators -> Nat]
  BY DEF Approve, Reject, ReviewDone, IInv, Types, TypeOK
<1>6. \A n \in Operators : reviewing'[n] # 0 =>
        reviewing'[n] = reviewing[n] /\ reviewing[n] \in DOMAIN submissions
  BY <1>5 DEF IInv, Types, ReviewInv, Reviewable
<1> HIDE DEF id
<1>7. \A n \in Operators : reviewing'[n] # 0 => HeldForReview(reviewing[n])' /\ reviewing'[n] = reviewing[n]
  BY <1>2, <1>6 DEF PayInv, HeldForReview, Accepted
<1>8. \A i \in DOMAIN submissions' : submissions'[i].pending => Accepted(i)'
  BY <1>2 DEF PayInv, Accepted
<1>9. PaidAsReviewed'
  <2> SUFFICES ASSUME NEW i \in DOMAIN submissions, Accepted(i)'
               PROVE  LET s == submissions'[i]
                          floor == AutoClass(s.flag.protocol)
                      IN  /\ s.points = AttackPoints[s.klass]
                          /\ s.klass # floor => s.klass = s.claimed /\ ClaimsAbove(s.claimed, s.flag.protocol)
                          /\ s.pending => s.klass = floor /\ ClaimsAbove(s.claimed, s.flag.protocol)
    BY <1>2 DEF PaidAsReviewed
  <2>1. Accepted(i)
    BY <1>2 DEF Accepted
  <2>2. CASE i = id
    BY <1>1, <1>2, <1>3, <1>4, <2>1, <2>2 DEF PayInv, PaidAsReviewed, HeldForReview
  <2>3. CASE i # id
    BY <1>2, <2>1, <2>3 DEF PayInv, PaidAsReviewed
  <2> QED
    BY <2>2, <2>3
<1> QED
  BY <1>7, <1>8, <1>9 DEF PayInv

LEMMA NextPays == IInv /\ PayInv /\ [Next]_vars => PayInv'
<1> SUFFICES ASSUME IInv, PayInv, [Next]_vars PROVE PayInv'
  OBVIOUS
<1>1. CASE UNCHANGED <<submissions, reviewing>>
  BY <1>1 DEF PayInv, HeldForReview, PaidAsReviewed, Accepted
<1>2. CASE LoopNext /\ UNCHANGED <<submitVars, operatorVars>>
  BY <1>1, <1>2, LoopWrites DEF operatorVars
<1>3. CASE SubmitNext /\ UNCHANGED <<loopVars, operatorVars>>
  <2>1. UNCHANGED reviewing
    BY <1>3 DEF operatorVars
  <2>2. ASSUME NEW t \in Threads,
               RefuseInvalid(t) \/ RefuseOwn(t) \/ RefuseUndeclared(t) \/ RefuseDuplicate(t)
        PROVE  PayInv'
    BY <2>1, <2>2, RefusePays DEF RefuseInvalid, RefuseOwn, RefuseUndeclared, RefuseDuplicate
  <2> QED
    BY <1>1, <1>3, <2>1, <2>2, AcceptPays, SubmitWrites DEF Refuses
<1>4. ASSUME NEW o \in Operators, NEW i \in DOMAIN submissions, ReviewFetch(o, i)
      PROVE  PayInv'
  <2>1. UNCHANGED submissions /\ submissions[i].pending /\ reviewing' = [reviewing EXCEPT ![o] = i]
    BY <1>4 DEF ReviewFetch, Fetch, ledger
  <2>2. HeldForReview(i)
    BY <2>1 DEF PayInv, PaidAsReviewed, HeldForReview
  <2>3. reviewing \in [Operators -> Nat]
    BY DEF IInv, Types, TypeOK
  <2> QED
    BY <2>1, <2>2, <2>3 DEF PayInv, HeldForReview, PaidAsReviewed, Accepted
<1>5. CASE OperatorNext /\ UNCHANGED <<loopVars, submitVars>>
  BY <1>1, <1>4, <1>5, ReviewPays, OperatorWrites
<1> QED
  BY <1>1, <1>2, <1>3, <1>5 DEF Next, vars, ledger, operatorVars

\* RULES 7: however many operators review at once, a capture pays its floor, or the
\* class it claimed above that, and the points are those of the class.
THEOREM CapturesPayTheirClass == Spec => []PaidAsReviewed
<1>1. Init => PayInv
  BY DEF Init, LedgerInit, PayInv, PaidAsReviewed
<1>2. PayInv => PaidAsReviewed
  BY DEF PayInv
<1> QED
  BY <1>1, <1>2, NextPays, Inductive, PTL DEF Spec

-----------------------------------------------------------------------------
(***************************************************************************)
(* A decision is final.  cmd_review looks at the row and writes it in two  *)
(* statements, so a colleague may decide it in between and be overruled;   *)
(* a row that two reviews never held at once is out of this danger.        *)
(***************************************************************************)
HeldPending ==
  /\ \A o \in Operators : reviewing[o] # 0 /\ reviewing[o] \notin contested => submissions[reviewing[o]].pending
  /\ \A o, n \in Operators : o # n /\ reviewing[o] = reviewing[n] /\ reviewing[o] # 0 => reviewing[o] \in contested

Decided ==
  \A i \in DOMAIN submissions :
    ~submissions[i].pending /\ i \notin contested => submissions'[i] = submissions[i]

LEMMA NextDecides ==
  IInv /\ HeldPending /\ [Next]_vars => HeldPending' /\ [Decided]_submissions
<1> SUFFICES ASSUME IInv, HeldPending, [Next]_vars
             PROVE  HeldPending' /\ Decided
  BY DEF Decided
<1>0. /\ submissions \in Seq(SubmissionRows)
      /\ \A o \in Operators : reviewing[o] # 0 => reviewing[o] \in DOMAIN submissions
      /\ reviewing \in [Operators -> Nat]
  BY DEF IInv, Types, TypeOK, LedgerTypeOK, ReviewInv, Reviewable
<1>1. CASE UNCHANGED <<submissions, reviewing, contested>>
  BY <1>1 DEF HeldPending, Decided
<1>2. ASSUME NEW row, submissions' = Append(submissions, row), UNCHANGED <<reviewing, contested>>
      PROVE  HeldPending' /\ Decided
  <2>1. \A i \in DOMAIN submissions : submissions'[i] = submissions[i]
    BY <1>0, <1>2
  <2> QED
    BY <1>0, <1>2, <2>1 DEF HeldPending, Decided
<1>3. CASE LoopNext /\ UNCHANGED <<submitVars, operatorVars>>
  BY <1>1, <1>3, LoopWrites DEF operatorVars
<1>4. CASE SubmitNext /\ UNCHANGED <<loopVars, operatorVars>>
  <2>1. UNCHANGED <<reviewing, contested>>
    BY <1>4 DEF operatorVars
  <2>2. UNCHANGED submissions \/ \E row : submissions' = Append(submissions, row)
    BY <1>4, SubmitWrites DEF Refuses, RefuseInvalid, RefuseOwn, RefuseUndeclared, RefuseDuplicate, Refuse,
       Accept, Record
  <2> QED
    BY <1>1, <1>2, <2>1, <2>2
<1>5. ASSUME NEW o \in Operators, Approve(o) \/ Reject(o)
      PROVE  HeldPending' /\ Decided
  <2>1. reviewing' = [reviewing EXCEPT ![o] = 0] /\ UNCHANGED contested
    BY <1>5 DEF Approve, Reject, ReviewDone
  <2>2. reviewing'[o] = 0 /\ \A n \in Operators : n # o => reviewing'[n] = reviewing[n]
    BY <1>0, <2>1
  <2>3. reviewing[o] \notin contested => submissions[reviewing[o]].pending
    BY <1>5 DEF Approve, Reject, HeldPending
  <2>4. \A i \in DOMAIN submissions : i # reviewing[o] => submissions'[i] = submissions[i]
    BY <1>0, <1>5 DEF Approve, Reject
  \* a row that another still holds is not the one written, or it is contested
  <2>5. HeldPending'
    BY <1>0, <1>5, <2>1, <2>2, <2>4 DEF HeldPending, Approve, Reject
  <2> QED
    BY <2>3, <2>4, <2>5 DEF Decided
<1>6. ASSUME NEW o \in Operators, NEW i \in DOMAIN submissions, ReviewFetch(o, i)
      PROVE  HeldPending' /\ Decided
  <2>1. /\ UNCHANGED submissions /\ submissions[i].pending
        /\ reviewing' = [reviewing EXCEPT ![o] = i]
        /\ contested' = contested \cup {n \in {i} : \E colleague \in Operators \ {o} : reviewing[colleague] = n}
    BY <1>6 DEF ReviewFetch, Fetch, ledger
  <2>2. reviewing'[o] = i /\ \A n \in Operators : n # o => reviewing'[n] = reviewing[n]
    BY <1>0, <2>1
  <2>3. \A n \in Operators : n # o /\ reviewing[n] = i => i \in contested'
    BY <2>1
  <2> QED
    BY <2>1, <2>2, <2>3 DEF HeldPending, Decided
<1>7. CASE OperatorNext /\ UNCHANGED <<loopVars, submitVars>>
  BY <1>1, <1>5, <1>6, <1>7, OperatorWrites
<1> QED
  BY <1>1, <1>3, <1>4, <1>7 DEF Next, vars, ledger, operatorVars

\* cmd_review: a submission that is decided stays as decided, however many operators
\* review and whatever the API writes beside them, unless two of their reviews of it
\* overlapped.
THEOREM DecisionsAreFinal == Spec => DecidedIsFinal
<1>1. Init => HeldPending
  BY DEF Init, HeldPending
<1>2. IInv /\ HeldPending /\ [Next]_vars => HeldPending' /\ [Decided]_submissions
  BY NextDecides
<1> QED
  BY <1>1, <1>2, Inductive, PTL DEF Spec, DecidedIsFinal, Decided
=============================================================================
