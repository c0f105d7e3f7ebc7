-------------------------- MODULE MCEndpointAccept --------------------------
(* Small instances of EndpointAccept.                                      *)
EXTENDS EndpointAccept, TLC

OneAlpn  == [a \in Attempts |-> CHOOSE p \in Alpns : TRUE]

=============================================================================
