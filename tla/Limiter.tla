------------------------------- MODULE Limiter -------------------------------
(***************************************************************************)
(* The submission API's rate limit (Referee.rate_limited in submit.py):    *)
(* one client's deque of hits, in as many handler threads as it has        *)
(* requests open, without a lock.  CPython may switch threads after a call *)
(* and at the backward jump of a loop: between the test of a further hit   *)
(* and its popleft, and between len and append.                            *)
(***************************************************************************)
EXTENDS Integers, Sequences, FiniteSets

CONSTANTS
  Handlers,       \* the client's handler threads
  RateMax,        \* hits a window may have
  RateWindow,
  MaxMoment,      \* bound: the last moment
  MaxCalls        \* bound: the client's requests

ASSUME LimiterAssumption ==
  IsFiniteSet(Handlers) /\ RateMax \in Nat \ {0} /\ RateWindow \in Nat
  /\ MaxMoment \in Nat /\ MaxCalls \in Nat

VARIABLES
  moment,       \* time.monotonic()
  hits,         \* the deque, oldest hit on the left
  calls,        \* per thread: where its rate_limited is, and its `now`
  granted,      \* history: the hits of the requests let through
  robbed,       \* history: a thread has popped a hit that was not the one it had tested
  called

limiterVars == <<moment, hits, calls, granted, robbed, called>>

Free == [at |-> "free", now |-> 0]

LimiterTypeOK ==
  /\ moment \in 0..MaxMoment /\ hits \in Seq(0..MaxMoment) /\ granted \in Seq(0..MaxMoment)
  /\ calls \in [Handlers -> [at: {"free", "prune", "again", "pop", "count", "append"}, now: 0..MaxMoment]]
  /\ robbed \in BOOLEAN /\ called \in 0..MaxCalls

LimiterInit ==
  /\ moment = 0 /\ hits = <<>> /\ granted = <<>>
  /\ calls = [t \in Handlers |-> Free]
  /\ robbed = FALSE /\ called = 0

-----------------------------------------------------------------------------
Pass(t, at) == calls' = [calls EXCEPT ![t].at = at]
Return(t) == calls' = [calls EXCEPT ![t] = Free]

\* Microseconds of a window of a minute are left out: time passes between calls.
TimePasses ==
  /\ moment < MaxMoment
  /\ calls = [t \in Handlers |-> Free]
  /\ moment' = moment + 1
  /\ UNCHANGED <<hits, calls, granted, robbed, called>>

Call(t) ==
  /\ calls[t] = Free /\ called < MaxCalls
  /\ calls' = [calls EXCEPT ![t] = [at |-> "prune", now |-> moment]]
  /\ called' = called + 1
  /\ UNCHANGED <<moment, hits, granted, robbed>>

Old(t) == hits # <<>> /\ calls[t].now - Head(hits) > RateWindow

\* The loop's first test leads straight to its popleft.
Prune(t) ==
  /\ calls[t].at = "prune"
  /\ IF Old(t) THEN Pass(t, "again") /\ hits' = Tail(hits) ELSE Pass(t, "count") /\ UNCHANGED hits
  /\ UNCHANGED <<moment, granted, robbed, called>>

Test(t) ==
  /\ calls[t].at = "again"
  /\ Pass(t, IF Old(t) THEN "pop" ELSE "count")
  /\ UNCHANGED <<moment, hits, granted, robbed, called>>

\* An empty deque raises, which do_POST answers with "referee-error".
Pop(t) ==
  /\ calls[t].at = "pop"
  /\ robbed' = (robbed \/ ~Old(t))
  /\ IF hits = <<>> THEN Return(t) /\ UNCHANGED hits ELSE Pass(t, "again") /\ hits' = Tail(hits)
  /\ UNCHANGED <<moment, granted, called>>

\* Mutant of Count: one hit too many.
CountBeyond(t) ==
  /\ calls[t].at = "count"
  /\ IF Len(hits) > RateMax THEN Return(t) ELSE Pass(t, "append")
  /\ UNCHANGED <<moment, hits, granted, robbed, called>>

Count(t) ==
  /\ calls[t].at = "count"
  /\ IF Len(hits) >= RateMax THEN Return(t) ELSE Pass(t, "append")
  /\ UNCHANGED <<moment, hits, granted, robbed, called>>

Grant(t) ==
  /\ calls[t].at = "append"
  /\ hits' = Append(hits, calls[t].now)
  /\ granted' = Append(granted, calls[t].now)
  /\ Return(t)
  /\ UNCHANGED <<moment, robbed, called>>

\* The bounds on time and calls are reached.
Satisfied == moment = MaxMoment /\ called = MaxCalls /\ calls = [t \in Handlers |-> Free]

LimiterNext ==
  \/ TimePasses
  \/ \E t \in Handlers : Call(t) \/ Prune(t) \/ Test(t) \/ Pop(t) \/ Count(t) \/ Grant(t)
  \/ Satisfied /\ UNCHANGED limiterVars

LimiterSpec == LimiterInit /\ [][LimiterNext]_limiterVars

-----------------------------------------------------------------------------
InWindow(from) == {i \in DOMAIN granted : from <= granted[i] /\ granted[i] <= from + RateWindow}

\* submit.py: RATE_MAX "submissions per player per minute".  No window has more than
\* that and one for each further thread of the client's, which may have counted
\* before its predecessors' hits were in, unless a thread has popped a hit that
\* another thread's popleft had left it with.
RateIsHeld ==
  ~robbed => \A from \in 0..MaxMoment : Cardinality(InWindow(from)) <= RateMax + Cardinality(Handlers) - 1
=============================================================================
