------------------------------- MODULE Client -------------------------------
(***************************************************************************)
(* A program that connects: the bootstrap of its engines, a bind, connects, *)
(* and the calls on the connection that one of them returns.  The process   *)
(* runs or has aborted.                                                    *)
(***************************************************************************)
EXTENDS Dial, Connection

CONSTANT Followed   \* the connect whose connection is modelled

ASSUME FollowedAssumption == Followed \in Dials

otherBoot == <<build, initialized, ndk, attached>>
vars == <<bootVars, bindVars, dial, connVars>>

ClientInit == DialInit /\ ConnInit

(* The connection is Dart's if connect was still awaited.                  *)
Established(d) ==
    /\ Connected(d)
    /\ conn' = IF d = Followed THEN "open" ELSE conn
    /\ UNCHANGED <<arrived, queue, dropped, read>>

(* Mutant: the connections live on.                                        *)
CloseEndpointOnly ==
    /\ endpoint = "open"
    /\ endpoint' = "closed"
    /\ UNCHANGED <<bootVars, lookup, dial, connVars>>

(* Endpoint::close.                                                        *)
CloseEndpoint ==
    /\ endpoint = "open"
    /\ endpoint' = "closed"
    /\ conn' = IF conn = "open" THEN "closed" ELSE conn
    /\ UNCHANGED <<bootVars, lookup, dial, arrived, queue, dropped, read>>

(* vec![..; max_count] panics, and a release build aborts.                 *)
AllocationFails(r) ==
    \/ build = "debug" /\ AllocationError(r) /\ UNCHANGED process
    \/ /\ build = "release" /\ read[r].st = "waiting" /\ read[r].count = TooMany
       /\ process' = "allocation failed"
       /\ UNCHANGED connVars

OnConnection ==
    \/ \E r \in Reads : \/ Working(r) \/ Abandon(r)
                        \/ dial[Followed].live /\ \E k \in Kinds, n \in 0..TooMany : Call(r, k, n)
    \/ \E k \in Queues : Arrive(k)
    \/ Close

OnDials ==
    \E d \in Dials : \/ \E parts \in EndpointAddrParts : Connect(d, parts)
                     \/ Resolver(d) \/ Dialing(d) \/ AbandonConnect(d)

Up(A) == process = "up" /\ A

Next ==
    \/ Up(Booting \/ (\E w \in {"dns", "dart"} : CallBind(w)) \/ Binding)
          /\ UNCHANGED <<dial, connVars>>
    \/ Up(OnDials) /\ UNCHANGED connVars
    \/ Up(\E d \in Dials : Established(d)) \/ Up(CloseEndpoint)
    \/ Up(OnConnection) /\ UNCHANGED <<bootVars, bindVars, dial>>
    \/ \E r \in Reads : Up(AllocationFails(r)) /\ UNCHANGED <<otherBoot, bindVars, dial>>

Spec == ClientInit /\ [][Next]_vars

(* Tasks run while the process does.  Nobody must answer from Dart.        *)
Fairness ==
    /\ \A d \in Dials :
          WF_vars(Up(Established(d)) \/ (Up(Dialing(d)) /\ UNCHANGED connVars))
    /\ \A r \in Reads :
          /\ WF_vars(Up(Working(r)) /\ UNCHANGED <<bootVars, bindVars, dial>>)
          /\ WF_vars(Up(AllocationFails(r)) /\ UNCHANGED <<otherBoot, bindVars, dial>>)

FairSpec == Spec /\ Fairness

-----------------------------------------------------------------------------
(* Closing the endpoint frees everything that waits on it: a connect, also  *)
(* one whose Dart resolver never answers, and every call on a connection.   *)
CloseReleasesAll ==
    /\ \A d \in Dials : endpoint = "closed" /\ dial[d].st \in {"resolving", "dialing"}
                          ~> process # "up" \/ dial[d].st \in {"connected", "failed"}
    /\ \A r \in Reads : endpoint = "closed" /\ read[r].st = "waiting"
                          ~> process # "up" \/ read[r].st \in {"returned", "wasted", "error"}
=============================================================================
