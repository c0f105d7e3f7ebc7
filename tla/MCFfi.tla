------------------------------- MODULE MCFfi -------------------------------
(* The calls and the wire format of the bridge on a small instance.  The     *)
(* format is checked for every wire function; the calls are those of an      *)
(* endpoint, a connection and its streams, with one of each way to be run.   *)
EXTENDS Ffi

SomeRows ==
    {endpoint_bind, Endpoint_accept, Connection_open_bi, Connection_path_events, Connection_close,
     SendStream_id, SendStream_write_all, RecvStream_read}
=============================================================================
