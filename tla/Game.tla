-------------------------------- MODULE Game --------------------------------
(***************************************************************************)
(* What the referee promises the players about captures (RULES 6), with    *)
(* no tables and no threads: flags come and go with the clock, a request   *)
(* is opened at one reading of the clock, vouched for while its flag is    *)
(* live at that reading and belongs to another player, and may then count  *)
(* once for its client and flag.  A capture is never taken back.           *)
(***************************************************************************)
EXTENDS Integers

CONSTANTS Threads, Client, Lifetime, Nothing

VARIABLES
  clock,      \* the current tick
  live,       \* flags that can be looked up
  opened,     \* per thread: the clock its request was opened at, or Nothing
  vouched,    \* per thread: the flag its request was found good for, or Nothing
  captures    \* pairs <<client, flag>> that scored

gameVars == <<clock, live, opened, vouched, captures>>

Init ==
  /\ clock = 0
  /\ live = {}
  /\ opened = [t \in Threads |-> Nothing]
  /\ vouched = [t \in Threads |-> Nothing]
  /\ captures = {}

Advance ==
  /\ clock' = clock + 1
  /\ UNCHANGED <<live, opened, vouched, captures>>

\* A flag carries the tick it is planted for, which has begun.
Appear ==
  /\ live \subseteq live'
  /\ \A flag \in live' \ live : flag.tick \in 1..clock
  /\ UNCHANGED <<clock, opened, vouched, captures>>

\* Only flags past their lifetime disappear.
Disappear ==
  /\ live' \subseteq live
  /\ \A flag \in live \ live' : flag.tick + Lifetime <= clock
  /\ UNCHANGED <<clock, opened, vouched, captures>>

Open(t) ==
  /\ opened[t] = Nothing
  /\ opened' = [opened EXCEPT ![t] = clock]
  /\ UNCHANGED <<clock, live, vouched, captures>>

Vouch(t, flag) ==
  /\ opened[t] # Nothing
  /\ vouched[t] = Nothing
  /\ flag.player # Client[t]
  /\ opened[t] < flag.tick + Lifetime
  /\ vouched' = [vouched EXCEPT ![t] = flag]
  /\ UNCHANGED <<clock, live, opened, captures>>

Capture(t) ==
  /\ vouched[t] # Nothing
  /\ <<Client[t], vouched[t]>> \notin captures
  /\ captures' = captures \cup {<<Client[t], vouched[t]>>}
  /\ opened' = [opened EXCEPT ![t] = Nothing]
  /\ vouched' = [vouched EXCEPT ![t] = Nothing]
  /\ UNCHANGED <<clock, live>>

\* A request is refused, or lost with the server.
Drop(ts) ==
  /\ opened' = [t \in Threads |-> IF t \in ts THEN Nothing ELSE opened[t]]
  /\ vouched' = [t \in Threads |-> IF t \in ts THEN Nothing ELSE vouched[t]]
  /\ UNCHANGED <<clock, live, captures>>

Next ==
  \/ Advance
  \/ Appear
  \/ Disappear
  \/ \E t \in Threads : Open(t) \/ Capture(t) \/ \E flag \in live : Vouch(t, flag)
  \/ \E ts \in SUBSET Threads : Drop(ts)

Spec == Init /\ [][Next]_gameVars
=============================================================================
