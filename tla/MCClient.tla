------------------------------ MODULE MCClient ------------------------------
(* A small instance of Client: datagrams overflow their buffer; of streams  *)
(* the peer opens none and admits none, so that those calls wait.          *)
EXTENDS Client

CONSTANTS p

ToP   == [d \in Dials |-> p]
Small == [k \in Queues |-> CASE k = "datagram" -> 3 [] k = "accept" -> 0 [] k = "open" -> 0]
=============================================================================
