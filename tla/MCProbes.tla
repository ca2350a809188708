------------------------------- MODULE MCProbes -------------------------------
(***************************************************************************)
(* Instances of the probers for TLC.  A probe speaks HTTP/2 or one of the  *)
(* text versions; the two clients share nothing, and the other one rests.  *)
(* Header names of HTTP/2 are one, with a short and a long value: a table  *)
(* of 114 octets holds two short entries exactly, or one long one.         *)
(***************************************************************************)
EXTENDS Http2, Http1

VARIABLE binary     \* whether the service under probe is an HTTP/2 one

MCLength == ("etag" :> 5) @@ ("short" :> 20) @@ ("long" :> 60)

\* Every entry of the static table has the one name.
MCStatic == [i \in 1..Static |-> [name |-> "etag", text |-> "short"]]

ProberInit == Http2Init /\ Http1Init /\ binary \in BOOLEAN

ProberNext ==
  /\ \/ binary /\ Http2Next /\ UNCHANGED http1vars
     \/ ~binary /\ Http1Next /\ UNCHANGED http2vars
  /\ UNCHANGED binary

probervars == <<binary, client, decoder, wire, peer, text, stream, service, clock>>

\* The text probers' properties need no fairness.
ProberSpec == ProberInit /\ [][ProberNext]_probervars /\ WF_http2vars(binary /\ ReadFrame) /\ WF_http2vars(binary /\ PeerGoesOn)

\* The clients, the connections and the service's answers stay well-typed.
ProberTypeOK == Http2TypeOK /\ Http1TypeOK
=============================================================================
