------------------------------ MODULE MCRouter ------------------------------
(* A small instance of Router: one protocol is registered twice and spawned *)
(* twice while a peer asks for it, and two calls of shutdown overlap.      *)
EXTENDS Router

CONSTANT upper

PeerAlpns == [a \in Attempts |-> upper]
SameRegs  == [r \in Regs |-> upper]
=============================================================================
