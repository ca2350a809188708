------------------------------ MODULE MCReferee ------------------------------
(***************************************************************************)
(* Instances of Referee for TLC.  Two players: the roster order is by      *)
(* name; each handler thread serves one client.                            *)
(***************************************************************************)
EXTENDS Referee

MCIndex == [p \in Players |-> CASE p = "ann" -> 1 [] p = "bob" -> 2]

\* One flag-carrying rung; the same with the plain rung below it; udp alone.
Web == [transports |-> {"tcp"}, http_versions |-> {"1.1"}]
Ladder == [transports |-> {"tcp"}, http_versions |-> {"0.9", "1.1"}]
Bare == [transports |-> {"udp"}, http_versions |-> {}]

OneManifest == {Web}
TwoRungs == {Ladder}
Shrinking == {Web, Bare}

MCUptimePoints == [rung \in Rungs |->
  CASE rung = "udp" -> 2 [] rung = "0.9" -> 1 [] rung = "1.0" -> 1
    [] rung = "1.1" -> 3 [] rung = "2" -> 6 [] rung = "3" -> 10]

MCAttackPoints == [class \in Classes |->
  CASE class = "app" -> 50 [] class = "transport" -> 75 [] class = "rce" -> 100]

\* Clients of the threads t1, t2: different players, or one player twice.
Apart == [t \in Threads |-> IF t = "t1" THEN "ann" ELSE "bob"]
Together == [t \in Threads |-> "ann"]
=============================================================================
