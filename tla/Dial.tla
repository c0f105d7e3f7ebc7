-------------------------------- MODULE Dial --------------------------------
(***************************************************************************)
(* Endpoint::connect (rust/src/api/endpoint.rs) and the Dart address lookup *)
(* it may need (rust/src/api/address_lookup.rs), with the conversions of    *)
(* addresses (rust/src/api/key.rs).  Dart checks ids and relay URLs before  *)
(* it sends them, the socket addresses it passes on as they are.           *)
(***************************************************************************)
EXTENDS Bootstrap

CONSTANTS
    Dials,        \* calls of Endpoint.connect
    Peers,        \* peers; each stands for its id and for where it can be reached
    Wanted,       \* [Dials -> Peers] whom a connect is for
    BadIp         \* a string that is not a socket address

ASSUME DialAssumption == Wanted \in [Dials -> Peers] /\ BadIp \notin Peers

(* For each connect, st: "idle", "resolving", "dialing", "connected" or      *)
(* "failed"; to: where it tries; live: Dart waits for it.                   *)
VARIABLE dial

DialInit ==
    /\ BootInit
    /\ dial = [d \in Dials |-> [st |-> "idle", to |-> {}, live |-> TRUE]]

(* EndpointAddrParts, as Dart can send them.                               *)
EndpointAddrParts == [id : Peers, relays : SUBSET Peers, ips : SUBSET (Peers \cup {BadIp})]

-----------------------------------------------------------------------------
(* build_endpoint_addr and build_item: the transport addresses of some     *)
(* parts, or an error for the first that does not parse.                   *)
Parses(parts)      == BadIp \notin parts.ips
Transports(parts)  == parts.relays \cup parts.ips

Set(d, st, to) == dial' = [dial EXCEPT ![d].st = st, ![d].to = to]

Connect(d, parts) ==
    /\ dial[d].st = "idle" /\ endpoint \in {"open", "closed"} /\ parts.id = Wanted[d]
    /\ IF ~Parses(parts) THEN Set(d, "failed", {})
       ELSE Set(d, IF Transports(parts) = {} THEN "resolving" ELSE "dialing", Transports(parts))
    /\ UNCHANGED <<bootVars, bindVars>>

(* What the Dart callback answers; parts that do not parse are dropped by   *)
(* the .ok(), and a stream without an item tells iroh that nobody knows.    *)
ResolverAnswers(d, parts) ==
    /\ dial[d].st = "resolving" /\ lookup = "dart"
    /\ IF Parses(parts) /\ Transports(parts) # {} THEN Set(d, "dialing", Transports(parts))
       ELSE Set(d, "failed", {})
    /\ UNCHANGED <<bootVars, bindVars>>

ResolverAnswersNull(d) ==
    /\ dial[d].st = "resolving" /\ lookup = "dart"
    /\ Set(d, "failed", {})
    /\ UNCHANGED <<bootVars, bindVars>>

(* The glue of FRB expects success and panics inside iroh's task.          *)
ResolverThrows(d) ==
    /\ dial[d].st = "resolving" /\ lookup = "dart"
    /\ IF build = "release" THEN process' = "callback threw" /\ UNCHANGED dial
       ELSE UNCHANGED process /\ Set(d, "failed", {})
    /\ UNCHANGED <<build, initialized, ndk, attached, bindVars>>

(* The DNS and pkarr lookup of the N0 preset.                              *)
DnsAnswers(d) ==
    /\ dial[d].st = "resolving" /\ lookup = "dns"
    /\ Set(d, "dialing", {Wanted[d]}) \/ Set(d, "failed", {})
    /\ UNCHANGED <<bootVars, bindVars>>

(* A closed endpoint stops the task that waits for addresses.              *)
LookupStops(d) ==
    /\ dial[d].st = "resolving" /\ endpoint = "closed"
    /\ Set(d, "failed", {})
    /\ UNCHANGED <<bootVars, bindVars>>

(* TLS lets nobody answer for another id.                                  *)
Connected(d) ==
    /\ dial[d].st = "dialing" /\ endpoint = "open" /\ Wanted[d] \in dial[d].to
    /\ Set(d, "connected", {})
    /\ UNCHANGED <<bootVars, bindVars>>

ConnectFails(d) ==
    /\ dial[d].st = "dialing"
    /\ Set(d, "failed", {})
    /\ UNCHANGED <<bootVars, bindVars>>

(* A Dart timeout: the task goes on.                                       *)
AbandonConnect(d) ==
    /\ dial[d].st \in {"resolving", "dialing"} /\ dial[d].live
    /\ dial' = [dial EXCEPT ![d].live = FALSE]
    /\ UNCHANGED <<bootVars, bindVars>>

Resolver(d) ==
    \/ \E parts \in EndpointAddrParts : ResolverAnswers(d, parts)
    \/ ResolverAnswersNull(d) \/ ResolverThrows(d)

(* What happens to a connect without the program's help.                   *)
Dialing(d) == DnsAnswers(d) \/ LookupStops(d) \/ ConnectFails(d)
=============================================================================
