------------------------------ MODULE FfiTable ------------------------------
(***************************************************************************)
(* The functions of the native library as the two generated bindings see   *)
(* them: one row for each wire function of rust/src/frb_generated.rs (53 to *)
(* 2992), the two dispatchers that reach them (3549 to 3714), and the       *)
(* methods of the Dart binding, lib/src/rust/frb_generated.dart.            *)
(*                                                                         *)
(* A row says how the handler runs the call (FfiCallMode and wrap_sync,     *)
(* wrap_normal or wrap_async), the object it locks, the types it decodes    *)
(* after the object, the type it encodes when it succeeds and whether the   *)
(* API function can fail.                                                  *)
(***************************************************************************)
EXTENDS Integers, Sequences

OpaqueTypes ==
    {"Endpoint", "Connection", "Incoming", "SendStream", "RecvStream", "Router", "RouterBuilder"}

(* LockableOrderInfo: the receiver is locked for reading or for writing.   *)
Shared(type)    == [type |-> type, excl |-> FALSE]
Exclusive(type) == [type |-> type, excl |-> TRUE]
NoObject        == [type |-> "none", excl |-> FALSE]

Call(name, mode, on, args, ret, err) ==
    [name |-> name, mode |-> mode, on |-> on, args |-> args, ret |-> ret, err |-> err]

(* Connection and its streams (rust/src/api/connection.rs).                *)
Connection_accept_bi ==
    Call("Connection_accept_bi", "async", Shared("Connection"), <<>>, "StreamPair", "anyhow")
Connection_accept_uni ==
    Call("Connection_accept_uni", "async", Shared("Connection"), <<>>, "RecvStream", "anyhow")
Connection_alpn == Call("Connection_alpn", "sync", Shared("Connection"), <<>>, "Bytes", "none")
(* Mutant: the error code is decoded as a VarInt's u64.                    *)
CloseDecodedWide ==
    Call("Connection_close", "sync", Shared("Connection"), <<"u64", "Bytes">>, "unit", "none")

Connection_close ==
    Call("Connection_close", "sync", Shared("Connection"), <<"u32", "Bytes">>, "unit", "none")
Connection_closed ==
    Call("Connection_closed", "async", Shared("Connection"), <<>>, "String", "none")
Connection_open_bi ==
    Call("Connection_open_bi", "async", Shared("Connection"), <<>>, "StreamPair", "anyhow")
Connection_open_uni ==
    Call("Connection_open_uni", "async", Shared("Connection"), <<>>, "SendStream", "anyhow")
Connection_path_events ==
    Call("Connection_path_events", "normal", Shared("Connection"),
         <<"u64", "StreamSink">>, "unit", "none")
Connection_read_datagram ==
    Call("Connection_read_datagram", "async", Shared("Connection"), <<>>, "Bytes", "anyhow")
Connection_read_many_datagrams ==
    Call("Connection_read_many_datagrams", "async", Shared("Connection"),
         <<"usize">>, "ListBytes", "anyhow")
Connection_remote_id ==
    Call("Connection_remote_id", "sync", Shared("Connection"), <<>>, "Bytes", "none")
Connection_send_datagram ==
    Call("Connection_send_datagram", "sync", Shared("Connection"), <<"Bytes">>, "unit", "anyhow")
Connection_send_many_datagrams ==
    Call("Connection_send_many_datagrams", "sync", Shared("Connection"),
         <<"ListBytes">>, "usize", "anyhow")
Connection_stable_id ==
    Call("Connection_stable_id", "sync", Shared("Connection"), <<>>, "usize", "none")
Connection_stats ==
    Call("Connection_stats", "sync", Shared("Connection"), <<>>, "ConnStats", "none")

(* Endpoint (endpoint.rs).                                                 *)
Endpoint_accept ==
    Call("Endpoint_accept", "async", Shared("Endpoint"), <<>>, "OptConnection", "anyhow")
Endpoint_accept_incoming ==
    Call("Endpoint_accept_incoming", "async", Shared("Endpoint"), <<>>, "OptIncoming", "anyhow")
Endpoint_addr == Call("Endpoint_addr", "sync", Shared("Endpoint"), <<>>, "AddrParts", "none")
Endpoint_bound_sockets ==
    Call("Endpoint_bound_sockets", "sync", Shared("Endpoint"), <<>>, "ListString", "none")
Endpoint_close == Call("Endpoint_close", "async", Shared("Endpoint"), <<>>, "unit", "none")
Endpoint_connect ==
    Call("Endpoint_connect", "async", Shared("Endpoint"),
         <<"AddrParts", "Bytes">>, "Connection", "anyhow")
Endpoint_home_relay_status ==
    Call("Endpoint_home_relay_status", "normal", Shared("Endpoint"),
         <<"u64", "StreamSink">>, "unit", "none")
Endpoint_id == Call("Endpoint_id", "sync", Shared("Endpoint"), <<>>, "Bytes", "none")
Endpoint_is_closed == Call("Endpoint_is_closed", "sync", Shared("Endpoint"), <<>>, "bool", "none")
Endpoint_set_alpns ==
    Call("Endpoint_set_alpns", "sync", Shared("Endpoint"), <<"ListBytes">>, "unit", "none")
Endpoint_watch_addr ==
    Call("Endpoint_watch_addr", "normal", Shared("Endpoint"),
         <<"u64", "StreamSink">>, "unit", "none")

(* Incoming (connection.rs).                                               *)
Incoming_accept ==
    Call("Incoming_accept", "async", Shared("Incoming"), <<>>, "Connection", "anyhow")
Incoming_ignore == Call("Incoming_ignore", "sync", Shared("Incoming"), <<>>, "unit", "anyhow")
Incoming_refuse == Call("Incoming_refuse", "sync", Shared("Incoming"), <<>>, "unit", "anyhow")
Incoming_remote_addr ==
    Call("Incoming_remote_addr", "sync", Shared("Incoming"), <<>>, "String", "none")
Incoming_retry == Call("Incoming_retry", "sync", Shared("Incoming"), <<>>, "unit", "anyhow")

(* RecvStream.                                                             *)
RecvStream_id == Call("RecvStream_id", "sync", Shared("RecvStream"), <<>>, "u64", "none")
RecvStream_read ==
    Call("RecvStream_read", "async", Shared("RecvStream"), <<"usize">>, "OptBytes", "anyhow")
RecvStream_read_exact ==
    Call("RecvStream_read_exact", "async", Shared("RecvStream"), <<"usize">>, "Bytes", "anyhow")
RecvStream_read_to_end ==
    Call("RecvStream_read_to_end", "async", Shared("RecvStream"), <<"usize">>, "Bytes", "anyhow")
RecvStream_stop ==
    Call("RecvStream_stop", "async", Shared("RecvStream"), <<"u32">>, "unit", "anyhow")

(* RouterBuilder and Router (router.rs).                                   *)
RouterBuilder_accept ==
    Call("RouterBuilder_accept", "normal", Shared("RouterBuilder"),
         <<"Bytes", "DartFn">>, "unit", "anyhow")
RouterBuilder_spawn ==
    Call("RouterBuilder_spawn", "normal", Shared("RouterBuilder"), <<>>, "Router", "anyhow")
Router_shutdown == Call("Router_shutdown", "async", Shared("Router"), <<>>, "unit", "anyhow")

(* SendStream.                                                             *)
SendStream_finish ==
    Call("SendStream_finish", "async", Shared("SendStream"), <<>>, "unit", "anyhow")
(* Mutant: the generator was told &mut self, so the call locks exclusively. *)
SendStreamIdExclusive ==
    Call("SendStream_id", "sync", Exclusive("SendStream"), <<>>, "u64", "none")

SendStream_id == Call("SendStream_id", "sync", Shared("SendStream"), <<>>, "u64", "none")
SendStream_reset ==
    Call("SendStream_reset", "async", Shared("SendStream"), <<"u32">>, "unit", "anyhow")
SendStream_write_all ==
    Call("SendStream_write_all", "async", Shared("SendStream"), <<"Bytes">>, "unit", "anyhow")

(* Functions of no object: streams, addresses, binding, versions, keys.    *)
cancel_stream == Call("cancel_stream", "sync", NoObject, <<"u64">>, "unit", "none")
endpoint_addr_decode ==
    Call("endpoint_addr_decode", "sync", NoObject, <<"Bytes">>, "AddrParts", "anyhow")
endpoint_addr_encode ==
    Call("endpoint_addr_encode", "sync", NoObject, <<"AddrParts">>, "Bytes", "anyhow")
endpoint_addr_round_trip ==
    Call("endpoint_addr_round_trip", "sync", NoObject, <<"AddrParts">>, "AddrParts", "anyhow")
endpoint_bind ==
    Call("endpoint_bind", "async", NoObject,
         <<"OptBytes", "ListBytes", "i32", "ListString">>, "Endpoint", "anyhow")
endpoint_bind_with_address_lookup ==
    Call("endpoint_bind_with_address_lookup", "async", NoObject,
         <<"OptBytes", "ListBytes", "i32", "ListString", "DartFn">>, "Endpoint", "anyhow")
irohdart_abi_version == Call("irohdart_abi_version", "sync", NoObject, <<>>, "u32", "none")
irohdart_iroh_version == Call("irohdart_iroh_version", "sync", NoObject, <<>>, "String", "none")
public_key_check == Call("public_key_check", "sync", NoObject, <<"Bytes">>, "unit", "anyhow")
public_key_fmt_short ==
    Call("public_key_fmt_short", "sync", NoObject, <<"Bytes">>, "String", "anyhow")
public_key_from_hex ==
    Call("public_key_from_hex", "sync", NoObject, <<"String">>, "Bytes", "anyhow")
public_key_from_z32 ==
    Call("public_key_from_z32", "sync", NoObject, <<"String">>, "Bytes", "anyhow")
public_key_to_hex == Call("public_key_to_hex", "sync", NoObject, <<"Bytes">>, "String", "anyhow")
public_key_to_z32 == Call("public_key_to_z32", "sync", NoObject, <<"Bytes">>, "String", "anyhow")
public_key_verify ==
    Call("public_key_verify", "sync", NoObject, <<"Bytes", "Bytes", "Bytes">>, "bool", "anyhow")
relay_url_parse == Call("relay_url_parse", "sync", NoObject, <<"String">>, "String", "anyhow")
router_builder ==
    Call("router_builder", "normal", Shared("Endpoint"), <<>>, "RouterBuilder", "none")
secret_key_generate == Call("secret_key_generate", "sync", NoObject, <<>>, "Bytes", "none")
secret_key_public == Call("secret_key_public", "sync", NoObject, <<"Bytes">>, "Bytes", "anyhow")
secret_key_sign ==
    Call("secret_key_sign", "sync", NoObject, <<"Bytes", "Bytes">>, "Bytes", "anyhow")


-----------------------------------------------------------------------------
(* The dispatchers.  Any other number is unreachable!().                  *)

PdeDispatchPrimary ==
    [id \in {1, 2, 5, 6, 7, 8, 9, 10, 16, 17, 20, 21, 22, 26, 27, 33, 34, 35, 36, 37,
               38, 39, 40, 42, 43, 48, 49, 60} |->
        CASE id = 1 -> Connection_accept_bi [] id = 2 -> Connection_accept_uni
          [] id = 5 -> Connection_closed [] id = 6 -> Connection_open_bi
          [] id = 7 -> Connection_open_uni [] id = 8 -> Connection_path_events
          [] id = 9 -> Connection_read_datagram
          [] id = 10 -> Connection_read_many_datagrams [] id = 16 -> Endpoint_accept
          [] id = 17 -> Endpoint_accept_incoming [] id = 20 -> Endpoint_close
          [] id = 21 -> Endpoint_connect [] id = 22 -> Endpoint_home_relay_status
          [] id = 26 -> Endpoint_watch_addr [] id = 27 -> Incoming_accept
          [] id = 33 -> RecvStream_read [] id = 34 -> RecvStream_read_exact
          [] id = 35 -> RecvStream_read_to_end [] id = 36 -> RecvStream_stop
          [] id = 37 -> RouterBuilder_accept [] id = 38 -> RouterBuilder_spawn
          [] id = 39 -> Router_shutdown [] id = 40 -> SendStream_finish
          [] id = 42 -> SendStream_reset [] id = 43 -> SendStream_write_all
          [] id = 48 -> endpoint_bind [] id = 49 -> endpoint_bind_with_address_lookup
          [] id = 60 -> router_builder]

PdeDispatchSync ==
    [id \in {3, 4, 11, 12, 13, 14, 15, 18, 19, 23, 24, 25, 28, 29, 30, 31, 32, 41, 44,
               45, 46, 47, 50, 51, 52, 53, 54, 55, 56, 57, 58, 59, 61, 62, 63} |->
        CASE id = 3 -> Connection_alpn [] id = 4 -> Connection_close
          [] id = 11 -> Connection_remote_id [] id = 12 -> Connection_send_datagram
          [] id = 13 -> Connection_send_many_datagrams [] id = 14 -> Connection_stable_id
          [] id = 15 -> Connection_stats [] id = 18 -> Endpoint_addr
          [] id = 19 -> Endpoint_bound_sockets [] id = 23 -> Endpoint_id
          [] id = 24 -> Endpoint_is_closed [] id = 25 -> Endpoint_set_alpns
          [] id = 28 -> Incoming_ignore [] id = 29 -> Incoming_refuse
          [] id = 30 -> Incoming_remote_addr [] id = 31 -> Incoming_retry
          [] id = 32 -> RecvStream_id [] id = 41 -> SendStream_id
          [] id = 44 -> cancel_stream [] id = 45 -> endpoint_addr_decode
          [] id = 46 -> endpoint_addr_encode [] id = 47 -> endpoint_addr_round_trip
          [] id = 50 -> irohdart_abi_version [] id = 51 -> irohdart_iroh_version
          [] id = 52 -> public_key_check [] id = 53 -> public_key_fmt_short
          [] id = 54 -> public_key_from_hex [] id = 55 -> public_key_from_z32
          [] id = 56 -> public_key_to_hex [] id = 57 -> public_key_to_z32
          [] id = 58 -> public_key_verify [] id = 59 -> relay_url_parse
          [] id = 61 -> secret_key_generate [] id = 62 -> secret_key_public
          [] id = 63 -> secret_key_sign]

-----------------------------------------------------------------------------
(* The Dart binding: method i calls function i.  handler.executeNormal goes *)
(* to the primary dispatcher and handler.executeSync to the other one; the  *)
(* types are those the method encodes, the object first, and the decoders   *)
(* it gives for a success and for an error ("none" when it gives none).     *)

Normal(name, args, ret, err) == [name |-> name, sync |-> FALSE, args |-> args, ret |-> ret, err |-> err]
Sync(name, args, ret, err) == [name |-> name, sync |-> TRUE, args |-> args, ret |-> ret, err |-> err]

DartMethods ==
  <<Normal("Connection_accept_bi", <<"Connection">>, "StreamPair", "anyhow"),
    Normal("Connection_accept_uni", <<"Connection">>, "RecvStream", "anyhow"),
    Sync("Connection_alpn", <<"Connection">>, "Bytes", "none"),
    Sync("Connection_close", <<"Connection", "u32", "Bytes">>, "unit", "none"),
    Normal("Connection_closed", <<"Connection">>, "String", "none"),
    Normal("Connection_open_bi", <<"Connection">>, "StreamPair", "anyhow"),
    Normal("Connection_open_uni", <<"Connection">>, "SendStream", "anyhow"),
    Normal("Connection_path_events", <<"Connection", "u64", "StreamSink">>, "unit", "none"),
    Normal("Connection_read_datagram", <<"Connection">>, "Bytes", "anyhow"),
    Normal("Connection_read_many_datagrams", <<"Connection", "usize">>, "ListBytes", "anyhow"),
    Sync("Connection_remote_id", <<"Connection">>, "Bytes", "none"),
    Sync("Connection_send_datagram", <<"Connection", "Bytes">>, "unit", "anyhow"),
    Sync("Connection_send_many_datagrams", <<"Connection", "ListBytes">>, "usize", "anyhow"),
    Sync("Connection_stable_id", <<"Connection">>, "usize", "none"),
    Sync("Connection_stats", <<"Connection">>, "ConnStats", "none"),
    Normal("Endpoint_accept", <<"Endpoint">>, "OptConnection", "anyhow"),
    Normal("Endpoint_accept_incoming", <<"Endpoint">>, "OptIncoming", "anyhow"),
    Sync("Endpoint_addr", <<"Endpoint">>, "AddrParts", "none"),
    Sync("Endpoint_bound_sockets", <<"Endpoint">>, "ListString", "none"),
    Normal("Endpoint_close", <<"Endpoint">>, "unit", "none"),
    Normal("Endpoint_connect", <<"Endpoint", "AddrParts", "Bytes">>, "Connection", "anyhow"),
    Normal("Endpoint_home_relay_status", <<"Endpoint", "u64", "StreamSink">>, "unit", "none"),
    Sync("Endpoint_id", <<"Endpoint">>, "Bytes", "none"),
    Sync("Endpoint_is_closed", <<"Endpoint">>, "bool", "none"),
    Sync("Endpoint_set_alpns", <<"Endpoint", "ListBytes">>, "unit", "none"),
    Normal("Endpoint_watch_addr", <<"Endpoint", "u64", "StreamSink">>, "unit", "none"),
    Normal("Incoming_accept", <<"Incoming">>, "Connection", "anyhow"),
    Sync("Incoming_ignore", <<"Incoming">>, "unit", "anyhow"),
    Sync("Incoming_refuse", <<"Incoming">>, "unit", "anyhow"),
    Sync("Incoming_remote_addr", <<"Incoming">>, "String", "none"),
    Sync("Incoming_retry", <<"Incoming">>, "unit", "anyhow"),
    Sync("RecvStream_id", <<"RecvStream">>, "u64", "none"),
    Normal("RecvStream_read", <<"RecvStream", "usize">>, "OptBytes", "anyhow"),
    Normal("RecvStream_read_exact", <<"RecvStream", "usize">>, "Bytes", "anyhow"),
    Normal("RecvStream_read_to_end", <<"RecvStream", "usize">>, "Bytes", "anyhow"),
    Normal("RecvStream_stop", <<"RecvStream", "u32">>, "unit", "anyhow"),
    Normal("RouterBuilder_accept", <<"RouterBuilder", "Bytes", "DartFn">>, "unit", "anyhow"),
    Normal("RouterBuilder_spawn", <<"RouterBuilder">>, "Router", "anyhow"),
    Normal("Router_shutdown", <<"Router">>, "unit", "anyhow"),
    Normal("SendStream_finish", <<"SendStream">>, "unit", "anyhow"),
    Sync("SendStream_id", <<"SendStream">>, "u64", "none"),
    Normal("SendStream_reset", <<"SendStream", "u32">>, "unit", "anyhow"),
    Normal("SendStream_write_all", <<"SendStream", "Bytes">>, "unit", "anyhow"),
    Sync("cancel_stream", <<"u64">>, "unit", "none"),
    Sync("endpoint_addr_decode", <<"Bytes">>, "AddrParts", "anyhow"),
    Sync("endpoint_addr_encode", <<"AddrParts">>, "Bytes", "anyhow"),
    Sync("endpoint_addr_round_trip", <<"AddrParts">>, "AddrParts", "anyhow"),
    Normal("endpoint_bind", <<"OptBytes", "ListBytes", "i32", "ListString">>, "Endpoint", "anyhow"),
    Normal("endpoint_bind_with_address_lookup",
         <<"OptBytes", "ListBytes", "i32", "ListString", "DartFn">>, "Endpoint", "anyhow"),
    Sync("irohdart_abi_version", <<>>, "u32", "none"),
    Sync("irohdart_iroh_version", <<>>, "String", "none"),
    Sync("public_key_check", <<"Bytes">>, "unit", "anyhow"),
    Sync("public_key_fmt_short", <<"Bytes">>, "String", "anyhow"),
    Sync("public_key_from_hex", <<"String">>, "Bytes", "anyhow"),
    Sync("public_key_from_z32", <<"String">>, "Bytes", "anyhow"),
    Sync("public_key_to_hex", <<"Bytes">>, "String", "anyhow"),
    Sync("public_key_to_z32", <<"Bytes">>, "String", "anyhow"),
    Sync("public_key_verify", <<"Bytes", "Bytes", "Bytes">>, "bool", "anyhow"),
    Sync("relay_url_parse", <<"String">>, "String", "anyhow"),
    Normal("router_builder", <<"Endpoint">>, "RouterBuilder", "none"),
    Sync("secret_key_generate", <<>>, "Bytes", "none"),
    Sync("secret_key_public", <<"Bytes">>, "Bytes", "anyhow"),
    Sync("secret_key_sign", <<"Bytes", "Bytes">>, "Bytes", "anyhow")>>
=============================================================================
