------------------------------ MODULE SseCodec ------------------------------
(***************************************************************************)
(* The wire format between Dart and the native library: the SseDecode and   *)
(* SseEncode implementations of rust/src/frb_generated.rs (3088 to 4345).    *)
(* A message is a sequence of bytes with no tags and no lengths but those of *)
(* the lists, so a reader that takes one field too many, too few or in the  *)
(* other order goes on with the wrong bytes.                               *)
(*                                                                         *)
(* Decoding gives the value and the bytes that are left, or Panic where the  *)
(* Rust code panics (unwrap, unreachable!()).                              *)
(* A struct is the tuple of its fields in the order the struct declares     *)
(* them, an Option a sequence of at most one element, a string its UTF-8.   *)
(***************************************************************************)
EXTENDS FfiTable, SequencesExt

CONSTANTS
    Byte,         \* values of a byte (256 in the code)
    Len32,        \* bytes of a 32-bit number (4)
    Len64         \* bytes of a 64-bit number (8)

ASSUME WidthAssumption ==
    /\ Byte \in Nat /\ Len32 \in Nat /\ Len64 \in Nat
    /\ Byte > 3 /\ 1 < Len32 /\ Len32 < Len64

Message == Seq(0..Byte - 1)

Done(v, m) == [ok |-> TRUE, v |-> v, rest |-> m]
Panic      == [ok |-> FALSE, rest |-> <<>>]

Then(r, Cont(_, _)) == IF r.ok THEN Cont(r.v, r.rest) ELSE Panic

-----------------------------------------------------------------------------
(* Numbers: ReadBytesExt and WriteBytesExt with the byte order of the host. *)

(* How many numbers k bytes hold.                                          *)
Holds[k \in Nat] == IF k = 0 THEN 1 ELSE Byte * Holds[k - 1]

Write(n, k) == [i \in 1..k |-> (n \div Holds[i - 1]) % Byte]

Number(s) ==
    LET upper[i \in 0..Len(s)] == IF i = 0 THEN 0 ELSE Byte * upper[i - 1] + s[Len(s) - i + 1]
    IN  upper[Len(s)]

Read(m, k) ==
    IF Len(m) < k THEN Panic ELSE Done(Number(SubSeq(m, 1, k)), SubSeq(m, k + 1, Len(m)))

DecodeU8   == [m \in Message |-> Read(m, 1)]
DecodeU32  == [m \in Message |-> Read(m, Len32)]
DecodeU64  == [m \in Message |-> Read(m, Len64)]
DecodeI32  == [m \in Message |->
    Then(Read(m, Len32),
         LAMBDA n, r : Done(IF 2 * n < Holds[Len32] THEN n ELSE n - Holds[Len32], r))]
DecodeBool == [m \in Message |-> Then(Read(m, 1), LAMBDA n, r : Done(n # 0, r))]

(* An opaque object, the receiver of a call, is the number of its MoiArc.   *)
DecodeOpaque == [m \in Message |-> Read(m, Len64)]

DecodeUnit == [m \in Message |-> Done("unit", m)]

-----------------------------------------------------------------------------
(* Containers.                                                             *)

(* One part after the other, each from where the one before it stopped.     *)
InOrder(parts, m) ==
    LET upto[i \in 0..Len(parts)] ==
            IF i = 0
            THEN Done(<<>>, m)
            ELSE Then(upto[i - 1], LAMBDA vs, r :
                     Then(parts[i][r], LAMBDA v, s : Done(Append(vs, v), s)))
    IN  upto[Len(parts)]

Struct(parts) == [m \in Message |-> InOrder(parts, m)]

(* `Vec::with_capacity(len_ as usize)` panics when the i32 is negative.     *)
DecodeVec(item) == [m \in Message |->
    Then(DecodeI32[m],
         LAMBDA len, r : IF len < 0 THEN Panic ELSE InOrder([i \in 1..len |-> item], r))]

DecodeBytes == DecodeVec(DecodeU8)

(* String::from_utf8 fails on the byte 0xFF; its other rules are left out.  *)
DecodeString == [m \in Message |->
    Then(DecodeBytes[m], LAMBDA s, r : IF Byte - 1 \in Range(s) THEN Panic ELSE Done(s, r))]

DecodeListString == DecodeVec(DecodeString)
DecodeListBytes  == DecodeVec(DecodeBytes)

DecodeOption(item) == [m \in Message |->
    Then(DecodeBool[m],
         LAMBDA some, r : IF some THEN Then(item[r], LAMBDA v, s : Done(<<v>>, s)) ELSE Done(<<>>, r))]

DecodeOptString == DecodeOption(DecodeString)
DecodeOptU64    == DecodeOption(DecodeU64)
DecodeOptBytes  == DecodeOption(DecodeBytes)

DecodePathEventKind == [m \in Message |->
    LET Kinds == <<"Opened", "Closed", "Selected", "Lagged", "Unknown">>
    IN  Then(DecodeI32[m], LAMBDA n, r : IF n \in 0..4 THEN Done(Kinds[n + 1], r) ELSE Panic)]

DecodeEndpointAddrParts    == Struct(<<DecodeBytes, DecodeListString, DecodeListString>>)
DecodeOptEndpointAddrParts == DecodeOption(DecodeEndpointAddrParts)

DecodeConnStats       == Struct([i \in 1..8 |-> DecodeU64])
DecodePathEventInfo   == Struct(<<DecodePathEventKind, DecodeOptString, DecodeOptU64>>)
DecodeRelayStatusInfo == Struct(<<DecodeString, DecodeBool, DecodeOptString, DecodeOptString>>)
DecodeListRelayStatus == DecodeVec(DecodeRelayStatusInfo)

Decoder(type) ==
    CASE type \in OpaqueTypes       -> DecodeOpaque
      [] type = "unit"              -> DecodeUnit
      [] type = "bool"              -> DecodeBool
      [] type = "i32"               -> DecodeI32
      [] type = "u32"               -> DecodeU32
      [] type \in {"u64", "usize", "DartFn"} -> DecodeU64
      [] type \in {"String", "StreamSink"}   -> DecodeString
      [] type = "Bytes"             -> DecodeBytes
      [] type = "ListString"        -> DecodeListString
      [] type = "ListBytes"         -> DecodeListBytes
      [] type = "OptBytes"          -> DecodeOptBytes
      [] type = "OptString"         -> DecodeOptString
      [] type = "OptU64"            -> DecodeOptU64
      [] type = "AddrParts"         -> DecodeEndpointAddrParts
      [] type = "OptAddrParts"      -> DecodeOptEndpointAddrParts
      [] type = "ConnStats"         -> DecodeConnStats
      [] type = "PathEventInfo"     -> DecodePathEventInfo
      [] type = "ListRelayStatus"   -> DecodeListRelayStatus

-----------------------------------------------------------------------------
(* Encoding.                                                               *)

EncodeBool(b)  == Write(IF b THEN 1 ELSE 0, 1)
EncodeU8(n)    == Write(n, 1)
EncodeU32(n)   == Write(n, Len32)
EncodeI32(n)   == Write(n, Len32)
EncodeU64(n)   == Write(n, Len64)

(* sse_encode_raw: the number of the MoiArc and the size of the object.     *)
EncodeOpaque(o) == Write(o, Len64) \o Write(1, Len32)

EncodeVec(Item(_), s) == Write(Len(s), Len32) \o FlattenSeq([i \in DOMAIN s |-> Item(s[i])])

(* Mutant: the length goes out as a u8.                                    *)
EncodeBytesShort(s) == Write(Len(s), 1) \o s

EncodeBytes(s)      == EncodeVec(EncodeU8, s)
EncodeString(s)     == EncodeBytes(s)
EncodeListString(s) == EncodeVec(EncodeString, s)
EncodeListBytes(s)  == EncodeVec(EncodeBytes, s)

EncodeOption(Item(_), o) == EncodeBool(o # <<>>) \o (IF o = <<>> THEN <<>> ELSE Item(o[1]))

EncodeOptString(o) == EncodeOption(EncodeString, o)
EncodeOptU64(o)    == EncodeOption(EncodeU64, o)
EncodeOptBytes(o)  == EncodeOption(EncodeBytes, o)
EncodeOptOpaque(o) == EncodeOption(EncodeOpaque, o)

EncodePathEventKind(k) ==
    Write(CASE k = "Opened" -> 0 [] k = "Closed" -> 1 [] k = "Selected" -> 2
            [] k = "Lagged" -> 3 [] k = "Unknown" -> 4, Len32)

EncodeStreamPair(p) == EncodeOpaque(p[1]) \o EncodeOpaque(p[2])

EncodeEndpointAddrParts(p) ==
    EncodeBytes(p[1]) \o EncodeListString(p[2]) \o EncodeListString(p[3])
EncodeConnStats(s)       == FlattenSeq([i \in 1..8 |-> EncodeU64(s[i])])
EncodePathEventInfo(e)   ==
    EncodePathEventKind(e[1]) \o EncodeOptString(e[2]) \o EncodeOptU64(e[3])
EncodeRelayStatusInfo(s) ==
    EncodeString(s[1]) \o EncodeBool(s[2]) \o EncodeOptString(s[3]) \o EncodeOptString(s[4])
EncodeListRelayStatus(s) == EncodeVec(EncodeRelayStatusInfo, s)

Encode(type, v) ==
    CASE type \in OpaqueTypes       -> EncodeOpaque(v)
      [] type \in {"OptConnection", "OptIncoming"} -> EncodeOptOpaque(v)
      [] type = "StreamPair"        -> EncodeStreamPair(v)
      [] type = "unit"              -> <<>>
      [] type = "bool"              -> EncodeBool(v)
      [] type = "u32"               -> EncodeU32(v)
      [] type \in {"u64", "usize"}  -> EncodeU64(v)
      [] type \in {"String", "anyhow"} -> EncodeString(v)
      [] type = "Bytes"             -> EncodeBytes(v)
      [] type = "OptBytes"          -> EncodeOptBytes(v)
      [] type = "ListString"        -> EncodeListString(v)
      [] type = "ListBytes"         -> EncodeListBytes(v)
      [] type = "AddrParts"         -> EncodeEndpointAddrParts(v)
      [] type = "ConnStats"         -> EncodeConnStats(v)
      [] type = "PathEventInfo"     -> EncodePathEventInfo(v)
      [] type = "ListRelayStatus"   -> EncodeListRelayStatus(v)

-----------------------------------------------------------------------------
(* A call: the dispatcher picks the row, the row decodes the object and the *)
(* arguments, deserializer.end() wants every byte used, and the outcome is  *)
(* sent back behind an action byte: 0 for a success, 1 for an error.        *)

RowTypes(row) == IF row.on = NoObject THEN row.args ELSE <<row.on.type>> \o row.args

Dispatcher(sync) == IF sync THEN PdeDispatchSync ELSE PdeDispatchPrimary

Received(id, sync, m) ==
    LET table    == Dispatcher(sync)
        types    == RowTypes(table[id])
        decoders == [i \in DOMAIN types |-> Decoder(types[i])]
    IN  IF id \notin DOMAIN table
        THEN Panic
        ELSE Then(InOrder(decoders, m),
                  LAMBDA vs, r : IF r = <<>> THEN Done(<<table[id].name, vs>>, r) ELSE Panic)

Posted(ok, type, v) == EncodeU8(IF ok THEN 0 ELSE 1) \o Encode(type, v)

(* The answer of a Dart callback.  A thrown error is decoded too, and then   *)
(* `expect` panics on it.                                                  *)
Answered(type, m) ==
    Then(DecodeU8[m], LAMBDA action, r :
        IF action = 0
        THEN Then(Decoder(type)[r], LAMBDA v, s : IF s = <<>> THEN Done(v, s) ELSE Panic)
        ELSE Panic)

-----------------------------------------------------------------------------
(* The Dart half, lib/src/rust/frb_generated.dart 2565 to 3703: what it     *)
(* writes for a value it sends, and what it must read to get that value.    *)

PutNumber(n, k)    == [i \in 1..k |-> (n \div Holds[i - 1]) % Byte]
PutList(Put(_), s) == PutNumber(Len(s), Len32) \o FlattenSeq([i \in DOMAIN s |-> Put(s[i])])
PutBytes(s)        == PutList(LAMBDA n : PutNumber(n, 1), s)
PutOption(Put(_), o) ==
    IF o = <<>> THEN PutNumber(0, 1) ELSE PutNumber(1, 1) \o Put(o[1])
PutU64(n)          == PutNumber(n, Len64)
PutHandle(o)       == PutU64(o) \o PutNumber(1, Len32)
PutAddrParts(p)    == PutBytes(p[1]) \o PutList(PutBytes, p[2]) \o PutList(PutBytes, p[3])
PutRelayStatus(s)  ==
    PutBytes(s[1]) \o PutNumber(IF s[2] THEN 1 ELSE 0, 1)
        \o PutOption(PutBytes, s[3]) \o PutOption(PutBytes, s[4])

DartKinds == [Opened |-> 0, Closed |-> 1, Selected |-> 2, Lagged |-> 3, Unknown |-> 4]

DartWrites(type, v) ==
    CASE type \in OpaqueTypes \cup {"u64", "usize", "DartFn"} -> PutU64(v)
      [] type \in {"u32", "i32"}   -> PutNumber(v, Len32)
      [] type = "unit"             -> <<>>
      [] type = "bool"             -> PutNumber(IF v THEN 1 ELSE 0, 1)
      [] type \in {"String", "StreamSink", "Bytes", "anyhow"} -> PutBytes(v)
      [] type = "OptBytes"         -> PutOption(PutBytes, v)
      [] type \in {"ListString", "ListBytes"} -> PutList(PutBytes, v)
      [] type = "AddrParts"        -> PutAddrParts(v)
      [] type = "OptAddrParts"     -> PutOption(PutAddrParts, v)

DartReads(type, v) ==
    CASE type \in OpaqueTypes      -> PutHandle(v)
      [] type \in {"OptConnection", "OptIncoming"} -> PutOption(PutHandle, v)
      [] type = "StreamPair"       -> PutHandle(v[1]) \o PutHandle(v[2])
      [] type = "ConnStats"        -> FlattenSeq([i \in 1..8 |-> PutU64(v[i])])
      [] type = "PathEventInfo"    ->
            PutNumber(DartKinds[v[1]], Len32) \o PutOption(PutBytes, v[2]) \o PutOption(PutU64, v[3])
      [] type = "ListRelayStatus"  -> PutList(PutRelayStatus, v)
      [] OTHER                     -> DartWrites(type, v)

-----------------------------------------------------------------------------
(* Values to check with: the smallest, the largest and some between.       *)

Texts == {<<>>, <<0>>, <<1, 2>>}

SomeParts == {<<id, relays, ips>> : id \in {<<>>, <<3, 1>>},
                                    relays \in {<<>>, <<<<1>>, <<>>>>}, ips \in {<<>>, <<<<2, 2>>>>}}

Samples(type) ==
    CASE type \in OpaqueTypes      -> {1, Holds[Len64] - 1}
      [] type = "u32"              -> {0, 1, Holds[Len32] - 1}
      [] type = "i32"              -> 0..3
      [] type \in {"u64", "usize"} -> {0, Holds[Len32], Holds[Len64] - 1}
      [] type = "DartFn"           -> {1, Holds[Len32]}
      [] type = "unit"             -> {"unit"}
      [] type = "bool"             -> BOOLEAN
      [] type \in {"String", "StreamSink", "anyhow"} -> Texts
      [] type = "Bytes"            -> Texts \cup {[i \in 1..(Holds[Len32] \div 2 - 1) |-> Byte - 1]}
      [] type = "OptBytes"         -> {<<>>, <<<<>>>>, <<<<3>>>>}
      [] type \in {"ListString", "ListBytes"} -> {<<>>, <<<<>>>>, <<<<1>>, <<2, 0>>>>}
      [] type = "AddrParts"        -> SomeParts
      [] type = "OptAddrParts"     -> {<<>>} \cup {<<p>> : p \in SomeParts}
      [] type \in {"OptConnection", "OptIncoming"} -> {<<>>, <<2>>}
      [] type = "StreamPair"       -> {<<1, 2>>}
      [] type = "ConnStats"        -> {[i \in 1..8 |-> i], [i \in 1..8 |-> Holds[Len64] - i]}
      [] type = "PathEventInfo"    ->
            {<<k, a, n>> : k \in DOMAIN DartKinds, a \in {<<>>, <<<<1>>>>}, n \in {<<>>, <<Holds[Len32]>>}}
      [] type = "ListRelayStatus"  ->
            {<<>>} \cup {<<s, s>> : s \in {<<u, b, e, a>> : u \in Texts, b \in BOOLEAN,
                                             e \in {<<>>, <<<<2>>>>}, a \in {<<>>, <<<<>>>>}}}

Valuations(types) ==
    LET upto[i \in 0..Len(types)] ==
            IF i = 0
            THEN {<<>>}
            ELSE {Append(vs, v) : vs \in upto[i - 1], v \in Samples(types[i])}
    IN  upto[Len(types)]

DartMessage(types, vs) == FlattenSeq([i \in DOMAIN types |-> DartWrites(types[i], vs[i])])

(* The calls, by method and arguments, that arrive as anything else.        *)
Misheard ==
    LET Lost(id, m) ==
            {<<m.name, vs>> : vs \in {ws \in Valuations(m.args) :
                Received(id, m.sync, DartMessage(m.args, ws)) # Done(<<m.name, ws>>, <<>>)}}
    IN  UNION {Lost(id, DartMethods[id]) : id \in DOMAIN DartMethods}

(* The methods whose result, or error, is not what they want to read.       *)
Misread ==
    {id \in DOMAIN DartMethods :
        LET m   == DartMethods[id]
            row == Dispatcher(m.sync)[id]
        IN  \/ \E v \in Samples(row.ret) :
                   Posted(TRUE, row.ret, v) # PutNumber(0, 1) \o DartReads(m.ret, v)
            \/ row.err # m.err
            \/ /\ row.err = "anyhow"
               /\ \E e \in Samples("anyhow") :
                     Posted(FALSE, "anyhow", e) # PutNumber(1, 1) \o DartReads("anyhow", e)}

(* The items of streams that arrive as something else.                     *)
Garbled ==
    UNION {{v \in Samples(type) : Encode(type, v) # DartReads(type, v)} :
              type \in {"AddrParts", "ListRelayStatus", "PathEventInfo"}}

(* The answers of callbacks that do not come back as given, and the errors  *)
(* that come back as an answer.                                            *)
Misquoted ==
    UNION {{v \in Samples(type) :
                Answered(type, PutNumber(0, 1) \o DartWrites(type, v)) # Done(v, <<>>)}
           \cup {e \in Samples("anyhow") :
                Answered(type, PutNumber(1, 1) \o DartWrites("anyhow", e)) # Panic} :
              type \in {"unit", "OptAddrParts"}}
=============================================================================
