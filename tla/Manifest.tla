------------------------------ MODULE Manifest ------------------------------
(***************************************************************************)
(* The service manifest (orchestrator/validate.py): which protocol rungs a *)
(* player is scored on, and which of them carry a flag.  Pure operators;   *)
(* every module about scores takes the vocabulary of the game from here.   *)
(***************************************************************************)
EXTENDS Integers

Transports == {"tcp", "udp", "quic"}
HttpVersions == {"0.9", "1.0", "1.1", "2", "3"}
TcpVersions == {"0.9", "1.0", "1.1", "2"}
Carrying == {"1.0", "1.1", "2", "3"}

Rungs == {"udp"} \cup HttpVersions

\* HTTP_ORDER, with udp in front as protocols() lists it.
Rank(rung) ==
  CASE rung = "udp" -> 0
    [] rung = "0.9" -> 1
    [] rung = "1.0" -> 2
    [] rung = "1.1" -> 3
    [] rung = "2"   -> 4
    [] rung = "3"   -> 5

\* The rung a loop over protocols() takes next out of those left.
IsFirst(rung, rungs) ==
  /\ rung \in rungs
  /\ \A other \in rungs : Rank(rung) <= Rank(other)

-----------------------------------------------------------------------------
(* What a normalised manifest says. *)

\* Mutant of Protocols: a rung is an HTTP version.
HttpProtocols(manifest) == manifest.http_versions

Protocols(manifest) == (manifest.transports \cap {"udp"}) \cup manifest.http_versions

\* Referee.submit's set of names a stolen flag may have travelled over.
Declared(manifest) == manifest.transports \cup manifest.http_versions

CarriesFlags(rung, udpFixture) == IF rung = "udp" THEN udpFixture ELSE rung \in Carrying
=============================================================================
