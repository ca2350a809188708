---------------------------- MODULE ManifestCheck ----------------------------
(***************************************************************************)
(* From a service.toml to the probes made of it: the manifest check        *)
(* (validate.py), the healthcheck's choice of a rung (deploy.py) and the   *)
(* tick loop's choice of a port (tick.py).  A player writes the file, one  *)
(* key at a time; any version of it may be what is deployed.               *)
(***************************************************************************)
EXTENDS Manifest

CONSTANTS
  TransportNames, VersionNames,   \* what a player may list, known or not
  Ports                           \* what a player may write for a port

Absent == -1      \* the key is not in the file
Garbled == -2     \* a value int() refuses

ASSUME NamesAssumption == Transports \subseteq TransportNames /\ HttpVersions \subseteq VersionNames
ASSUME PortsAssumption == Ports \subseteq Int /\ Absent \in Ports

\* `others` stands for the keys the rungs do not depend on: "bad" if validate()
\* rejects one, "odd" if one has a type that makes it raise something else.
RawManifests ==
  [named: BOOLEAN, transports: SUBSET TransportNames, http_versions: SUBSET VersionNames,
   tcp_port: Ports, udp_port: Ports, others: {"fine", "bad", "odd"}]

VARIABLE raw

-----------------------------------------------------------------------------
(* validate(). *)

Blank(port) == port \in {Absent, 0}

\* Mutant of Consistent: only quic is asked for a UDP port.
ConsistentForQuic(r) ==
  /\ r.transports # {} /\ r.transports \subseteq Transports
  /\ r.http_versions \subseteq HttpVersions
  /\ r.http_versions \cap TcpVersions # {} => "tcp" \in r.transports
  /\ "3" \in r.http_versions => "quic" \in r.transports
  /\ "tcp" \in r.transports => ~Blank(r.tcp_port)
  /\ "quic" \in r.transports => "udp" \in r.transports /\ ~Blank(r.udp_port)

Consistent(r) ==
  /\ r.transports # {} /\ r.transports \subseteq Transports
  /\ r.http_versions \subseteq HttpVersions
  /\ "quic" \in r.transports => "udp" \in r.transports
  /\ r.http_versions \cap TcpVersions # {} => "tcp" \in r.transports
  /\ "3" \in r.http_versions => "quic" \in r.transports
  /\ "tcp" \in r.transports => ~Blank(r.tcp_port)
  /\ r.transports \cap {"udp", "quic"} # {} => ~Blank(r.udp_port)

PortNumbers == 1..65535
InRange(port) == port = Absent \/ port \in PortNumbers

\* Mutant of PortResult: a port is only read.
ReadPort(port) == IF port = Garbled THEN "raised" ELSE "ok"

PortResult(port) ==
  IF port = Garbled THEN "raised" ELSE IF InRange(port) THEN "ok" ELSE "rejected"

\* The loop over the two ports: the first bad one decides.
PortCheck(r) ==
  IF PortResult(r.tcp_port) # "ok" THEN PortResult(r.tcp_port) ELSE PortResult(r.udp_port)

Validate(r) ==
  IF ~r.named \/ ~Consistent(r) THEN "rejected"
  ELSE IF PortCheck(r) # "ok" THEN PortCheck(r)
  ELSE CASE r.others = "fine" -> "ok"
         [] r.others = "bad"  -> "rejected"
         [] r.others = "odd"  -> "raised"

Normalise(r) ==
  [transports |-> r.transports, http_versions |-> r.http_versions,
   tcp_port |-> IF Blank(r.tcp_port) THEN 0 ELSE r.tcp_port,
   udp_port |-> IF Blank(r.udp_port) THEN 0 ELSE r.udp_port]

-----------------------------------------------------------------------------
(* What is made of the normalised manifest. *)

\* The port score_player talks to for a rung.
PortOf(manifest, rung) ==
  IF rung \in {"udp", "3"} THEN manifest.udp_port ELSE manifest.tcp_port

\* The rungs healthcheck() tries, and when it gives up before trying one.
HttpOrder(manifest) == manifest.http_versions \cap {"1.1", "1.0", "0.9", "2"}

HealthOrder(manifest) ==
  IF HttpOrder(manifest) = {} THEN manifest.transports \cap {"udp"} ELSE HttpOrder(manifest)

HealthPort(manifest, rung) ==
  IF rung = "udp" THEN manifest.udp_port ELSE manifest.tcp_port

NoRung(manifest) == HealthOrder(manifest) = {}

-----------------------------------------------------------------------------
CheckInit ==
  raw = [named |-> FALSE, transports |-> {}, http_versions |-> {},
         tcp_port |-> Absent, udp_port |-> Absent, others |-> "bad"]

EditTransports(name) == raw' = [raw EXCEPT !.transports = (@ \cup {name}) \ (@ \cap {name})]
EditVersions(name) == raw' = [raw EXCEPT !.http_versions = (@ \cup {name}) \ (@ \cap {name})]
EditPorts(port) == \/ raw' = [raw EXCEPT !.tcp_port = port]
                   \/ raw' = [raw EXCEPT !.udp_port = port]
EditOthers(state) == raw' = [raw EXCEPT !.others = state]
EditName == raw' = [raw EXCEPT !.named = ~@]

CheckNext ==
  \/ \E name \in TransportNames : EditTransports(name)
  \/ \E name \in VersionNames : EditVersions(name)
  \/ \E port \in Ports : EditPorts(port)
  \/ \E state \in {"fine", "bad", "odd"} : EditOthers(state)
  \/ EditName

CheckSpec == CheckInit /\ [][CheckNext]_raw

-----------------------------------------------------------------------------
NormalManifests ==
  [transports: SUBSET Transports, http_versions: SUBSET HttpVersions,
   tcp_port: PortNumbers \cup {0}, udp_port: PortNumbers \cup {0}]

CheckTypeOK ==
  /\ raw \in RawManifests
  /\ Validate(raw) = "ok" => Normalise(raw) \in NormalManifests

\* No rung of an accepted manifest is scored, or healthchecked, on a port that the
\* player was not made to name.
EveryRungHasAPort ==
  Validate(raw) = "ok" =>
    LET manifest == Normalise(raw)
    IN  /\ \A rung \in Protocols(manifest) : PortOf(manifest, rung) \in PortNumbers
        /\ \A rung \in HealthOrder(manifest) : HealthPort(manifest, rung) \in PortNumbers

\* What lets a service into the round is one of the rungs it is then scored on, so
\* nobody runs with nothing to lose.
GateIsScored ==
  Validate(raw) = "ok" /\ ~NoRung(Normalise(raw)) =>
    /\ HealthOrder(Normalise(raw)) \subseteq Protocols(Normalise(raw))
    /\ Protocols(Normalise(raw)) # {}
=============================================================================
