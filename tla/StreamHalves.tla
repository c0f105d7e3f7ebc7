---------------------------- MODULE StreamHalves ----------------------------
(***************************************************************************)
(* One direction of a QUIC stream: SendStream on one side, RecvStream on   *)
(* the other (rust/src/api/connection.rs, lib/src/stream.dart).            *)
(*                                                                         *)
(* Every operation is a task that locks the tokio mutex of its half, for   *)
(* its whole duration, and the mutex is fair.  Dart may call an operation  *)
(* before an earlier one returned; which of them reaches the mutex first   *)
(* is then up to the workers.  iroh's stream below the mutex keeps the     *)
(* order of the bytes and bounds what the reader has not consumed.  The    *)
(* halves are in two processes; a panic ends one of a release build        *)
(* (Cargo.toml: panic = "abort").                                          *)
(***************************************************************************)
EXTENDS Integers, Sequences, FiniteSets, SequencesExt

CONSTANTS
    Sends,        \* calls on the SendStream
    Recvs,        \* calls on the RecvStream
    Do,           \* [Sends \cup Recvs -> what the call does]
    Size,         \* [Sends \cup Recvs -> Int] its length argument; of a write its data
    Window,       \* flow control: bytes sent and not consumed
    Width,        \* bits of a usize
    Build         \* of the reading process: "release" or "debug"

Ops == Sends \cup Recvs

ASSUME OpsAssumption == Sends \cap Recvs = {}
ASSUME DoAssumption ==
    /\ \A o \in Sends : Do[o] \in {"write_all", "finish", "reset"}
    /\ \A o \in Recvs : Do[o] \in {"read", "read_exact", "read_to_end", "stop"}
ASSUME SizeAssumption == Size \in [Ops -> Int] /\ \A o \in Sends : Size[o] \in Nat
ASSUME BuildAssumption == Build \in {"release", "debug"}
ASSUME WindowAssumption == Window \in Nat \ {0} /\ Width \in Nat \ {0}
ASSUME PowerAssumption == 2 ^ Width \in Nat \ {0}      \* for the provers, which know no powers

VARIABLES
    state,        \* [Ops -> OpState]
    lock,         \* ["send", "recv" -> tasks at the mutex, the holder first]
    data,         \* [Recvs -> Seq(Bytes)] a read's buffer
    written,      \* [Sends -> Nat] how much of a write_all is sent
    before,       \* [Sends -> send calls that had returned when it was called]
    sent,         \* the bytes of the stream
    arrived,      \* how many of them the receiving endpoint has
    consumed,     \* how many of them the reader took
    sending,      \* the send half: "open", "finished", "reset"
    seenEnd,      \* what of it the receiver knows
    stopped,      \* the reader stopped the stream
    seenStop,     \* the sender knows
    connected,
    dropped,      \* the halves that Dart and all tasks let go of
    process       \* the reading one: "up" or "aborted"

netVars == <<arrived, seenEnd, seenStop, connected, dropped, process>>
vars == <<state, lock, data, written, before, sent, consumed, sending, stopped, netVars>>

OpState == {"idle", "called", "locked", "ok", "none", "error"}
Returned == {"ok", "none", "error"}
Bytes == Sends \X (Nat \ {0})      \* the n-th byte of a write_all
HalfOf(o) == IF o \in Sends THEN "send" ELSE "recv"

TypeOK ==
    /\ state \in [Ops -> OpState]
    /\ lock \in [{"send", "recv"} -> Seq(Ops)]
    /\ data \in [Recvs -> Seq(Bytes)]
    /\ written \in [Sends -> Nat]
    /\ before \in [Sends -> SUBSET Sends]
    /\ sent \in Seq(Bytes)
    /\ arrived \in 0..Len(sent)
    /\ consumed \in 0..arrived
    /\ sending \in {"open", "finished", "reset"}
    /\ seenEnd \in {"open", "finished", "reset"}
    /\ {stopped, seenStop, connected} \subseteq BOOLEAN
    /\ dropped \subseteq {"send", "recv"}
    /\ process \in {"up", "aborted"}
    /\ \A o \in Ops : (state[o] = "locked") <=> (o \in ToSet(lock[HalfOf(o)]))

Init ==
    /\ state = [o \in Ops |-> "idle"]
    /\ lock = [h \in {"send", "recv"} |-> <<>>]
    /\ data = [o \in Recvs |-> <<>>]
    /\ written = [o \in Sends |-> 0]
    /\ before = [o \in Sends |-> {}]
    /\ sent = <<>>
    /\ arrived = 0
    /\ consumed = 0
    /\ sending = "open"
    /\ seenEnd = "open"
    /\ stopped = FALSE
    /\ seenStop = FALSE
    /\ connected = TRUE
    /\ dropped = {}
    /\ process = "up"

-----------------------------------------------------------------------------
(* The call and the mutex.                                                 *)

Call(o) ==
    /\ state[o] = "idle" /\ HalfOf(o) \notin dropped
    /\ state' = [state EXCEPT ![o] = "called"]
    /\ before' = [p \in Sends |-> IF p = o THEN {q \in Sends : state[q] \in Returned}
                                          ELSE before[p]]
    /\ UNCHANGED <<lock, data, written, sent, consumed, sending, stopped, netVars>>

(* A length goes to Rust as a BigInt and arrives as a usize.               *)
AsUsize(n) == n % (2 ^ Width)

(* vec![0u8; len] panics, before the mutex, for a length beyond isize.     *)
Allocates(o) == Do[o] \in {"read", "read_exact"} => AsUsize(Size[o]) < 2 ^ (Width - 1)

(* A debug build turns the panic of the task into an error of this call.    *)
AllocationFails(o) ==
    /\ state[o] = "called" /\ ~Allocates(o)
    /\ IF Build = "release" THEN process' = "aborted" /\ UNCHANGED state
       ELSE state' = [state EXCEPT ![o] = "error"] /\ UNCHANGED process
    /\ UNCHANGED <<lock, data, written, before, sent, consumed, sending, stopped,
                   arrived, seenEnd, seenStop, connected, dropped>>

(* The task asks for the mutex: it holds it, or waits in line.             *)
Lock(o) ==
    /\ state[o] = "called" /\ Allocates(o)
    /\ state' = [state EXCEPT ![o] = "locked"]
    /\ lock' = [lock EXCEPT ![HalfOf(o)] = Append(@, o)]
    /\ UNCHANGED <<data, written, before, sent, consumed, sending, stopped, netVars>>

(* Mutant: no mutex around the half.                                       *)
HoldsAnyway(o) == state[o] = "locked"

Holds(o) == state[o] = "locked" /\ Head(lock[HalfOf(o)]) = o

(* Mutant: an operation that fails keeps its guard.                        *)
ReturnKeeps(o, result) ==
    /\ state' = [state EXCEPT ![o] = result]
    /\ lock' = [lock EXCEPT ![HalfOf(o)] = IF result = "error" THEN @ ELSE Tail(@)]

(* The task ends: the guard is dropped.                                    *)
Return(o, result) ==
    /\ state' = [state EXCEPT ![o] = result]
    /\ lock' = [lock EXCEPT ![HalfOf(o)] = Tail(@)]

-----------------------------------------------------------------------------
(* SendStream.                                                             *)

SendBroken == ~connected \/ seenStop \/ sending # "open"

(* One poll of write_all sends as much as the window allows: one byte at a *)
(* time here.                                                              *)
WriteByte(o) ==
    /\ Holds(o) /\ Do[o] = "write_all" /\ ~SendBroken
    /\ written[o] < Size[o] /\ Len(sent) - consumed < Window
    /\ written' = [written EXCEPT ![o] = @ + 1]
    /\ sent' = Append(sent, <<o, written[o] + 1>>)
    /\ UNCHANGED <<state, lock, data, before, consumed, sending, stopped, netVars>>

WriteDone(o) ==
    /\ Holds(o) /\ Do[o] = "write_all" /\ written[o] = Size[o]
    /\ Return(o, "ok")
    /\ UNCHANGED <<data, written, before, sent, consumed, sending, stopped, netVars>>

(* Mutant: a write that the peer stopped goes on waiting.                  *)
WriteFailsUnlessStopped(o) ==
    /\ Holds(o) /\ Do[o] = "write_all" /\ written[o] < Size[o]
    /\ ~connected \/ sending # "open"
    /\ Return(o, "error")
    /\ UNCHANGED <<data, written, before, sent, consumed, sending, stopped, netVars>>

WriteFails(o) ==
    /\ Holds(o) /\ Do[o] = "write_all" /\ written[o] < Size[o] /\ SendBroken
    /\ Return(o, "error")
    /\ UNCHANGED <<data, written, before, sent, consumed, sending, stopped, netVars>>

(* A second finish fails; one on a stopped stream does nothing, and may     *)
(* say so or not.                                                          *)
Finish(o) ==
    /\ Holds(o) /\ Do[o] = "finish"
    /\ \/ /\ sending = "open"
          /\ Return(o, "ok") /\ sending' = IF seenStop THEN "open" ELSE "finished"
       \/ SendBroken /\ Return(o, "error") /\ UNCHANGED sending
    /\ UNCHANGED <<data, written, before, sent, consumed, stopped, netVars>>

(* reset may follow a finish whose data is still on its way.               *)
Reset(o) ==
    /\ Holds(o) /\ Do[o] = "reset"
    /\ \/ /\ sending # "reset" /\ seenEnd = "open"
          /\ Return(o, "ok") /\ sending' = "reset"
       \/ /\ ~connected \/ sending # "open"
          /\ Return(o, "error") /\ UNCHANGED sending
    /\ UNCHANGED <<data, written, before, sent, consumed, stopped, netVars>>

-----------------------------------------------------------------------------
(* RecvStream.                                                             *)

Available == arrived - consumed
AtEnd == seenEnd = "finished" /\ arrived = Len(sent) /\ Available = 0
Readable == ~stopped /\ seenEnd # "reset"

Consume(o, n) ==
    /\ data' = [data EXCEPT ![o] = @ \o SubSeq(sent, consumed + 1, consumed + n)]
    /\ consumed' = consumed + n

(* read answers what is there, up to max_len.                              *)
Read(o) ==
    /\ Holds(o) /\ Do[o] = "read" /\ Readable
    /\ \E n \in 0..Available :
          /\ n <= AsUsize(Size[o])
          /\ n = 0 => AsUsize(Size[o]) = 0
          /\ Consume(o, n)
    /\ Return(o, "ok")
    /\ UNCHANGED <<written, before, sent, sending, stopped, netVars>>

(* A stream that was stopped on this side reads as one at its end.         *)
ReadNone(o) ==
    /\ Holds(o) /\ Do[o] = "read" /\ (stopped \/ AtEnd)
    /\ Return(o, "none")
    /\ UNCHANGED <<data, written, before, sent, consumed, sending, stopped, netVars>>

(* read_exact and read_to_end take what arrives until they are content.    *)
Fill(o) ==
    /\ Holds(o) /\ Readable /\ Available > 0
    /\ \/ Do[o] = "read_exact" /\ Len(data[o]) < AsUsize(Size[o])
       \/ Do[o] = "read_to_end" /\ Len(data[o]) <= AsUsize(Size[o])
    /\ Consume(o, 1)
    /\ UNCHANGED <<state, lock, written, before, sent, sending, stopped, netVars>>

ReadExactDone(o) ==
    /\ Holds(o) /\ Do[o] = "read_exact" /\ Len(data[o]) = AsUsize(Size[o])
    /\ Return(o, "ok")
    /\ UNCHANGED <<data, written, before, sent, consumed, sending, stopped, netVars>>

(* Mutant: takes the end of the data for the end of what arrived.          *)
ReadToEndEager(o) ==
    /\ Holds(o) /\ Do[o] = "read_to_end"
    /\ stopped \/ (seenEnd = "finished" /\ Available = 0)
    /\ Len(data[o]) <= AsUsize(Size[o])
    /\ Return(o, "ok")
    /\ UNCHANGED <<data, written, before, sent, consumed, sending, stopped, netVars>>

ReadToEndDone(o) ==
    /\ Holds(o) /\ Do[o] = "read_to_end" /\ (stopped \/ AtEnd)
    /\ Len(data[o]) <= AsUsize(Size[o])
    /\ Return(o, "ok")
    /\ UNCHANGED <<data, written, before, sent, consumed, sending, stopped, netVars>>

(* Mutant: a reset of the peer is taken for silence.                       *)
ReadFailsUnlessReset(o) ==
    /\ Holds(o) /\ Do[o] # "stop"
    /\ \/ ~connected \/ stopped
       \/ Do[o] = "read_exact" /\ AtEnd /\ Len(data[o]) < AsUsize(Size[o])
       \/ Do[o] = "read_to_end" /\ Len(data[o]) > AsUsize(Size[o])
    /\ Return(o, "error")
    /\ UNCHANGED <<data, written, before, sent, consumed, sending, stopped, netVars>>

(* The stream is reset, stopped or gone, ends too early, or is too long;   *)
(* what the call read so far is lost.                                      *)
ReadFails(o) ==
    /\ Holds(o) /\ Do[o] # "stop"
    /\ \/ ~connected \/ ~Readable
       \/ Do[o] = "read_exact" /\ AtEnd /\ Len(data[o]) < AsUsize(Size[o])
       \/ Do[o] = "read_to_end" /\ Len(data[o]) > AsUsize(Size[o])
    /\ Return(o, "error")
    /\ UNCHANGED <<data, written, before, sent, consumed, sending, stopped, netVars>>

Stop(o) ==
    /\ Holds(o) /\ Do[o] = "stop"
    /\ \/ ~stopped /\ ~AtEnd /\ Return(o, "ok") /\ stopped' = TRUE
       \/ (~connected \/ ~Readable \/ AtEnd) /\ Return(o, "error") /\ UNCHANGED stopped
    /\ UNCHANGED <<data, written, before, sent, consumed, sending, netVars>>

-----------------------------------------------------------------------------
(* The end of a half.  Every task has a clone of its Arc, so the wrapper    *)
(* that is collected, or the last task, drops it.                          *)
Free(half) == half \notin dropped
              /\ \A o \in Ops : HalfOf(o) = half => state[o] \notin {"called", "locked"}

(* A send half that is dropped open finishes the stream.                   *)
DropSend ==
    /\ Free("send")
    /\ dropped' = dropped \cup {"send"}
    /\ sending' = IF sending = "open" /\ connected /\ ~seenStop THEN "finished" ELSE sending
    /\ UNCHANGED <<state, lock, data, written, before, sent, consumed, stopped,
                   arrived, seenEnd, seenStop, connected, process>>

(* A receive half that is dropped before its end stops the stream.         *)
DropRecv ==
    /\ Free("recv")
    /\ dropped' = dropped \cup {"recv"}
    /\ stopped' \in {stopped, TRUE}
    /\ connected /\ Readable /\ ~AtEnd => stopped'
    /\ UNCHANGED <<state, lock, data, written, before, sent, consumed, sending,
                   arrived, seenEnd, seenStop, connected, process>>

-----------------------------------------------------------------------------
(* The network and the connection, below iroh.                             *)

Arrive ==
    /\ connected /\ arrived < Len(sent) /\ sending # "reset"
    /\ arrived' = arrived + 1
    /\ UNCHANGED <<state, lock, data, written, before, sent, consumed, sending, stopped,
                   seenEnd, seenStop, connected, dropped, process>>

EndArrives ==
    /\ connected /\ seenEnd # sending /\ sending # "open"
    /\ seenEnd = "finished" => arrived < Len(sent)
    /\ seenEnd' = sending
    /\ UNCHANGED <<state, lock, data, written, before, sent, consumed, sending, stopped,
                   arrived, seenStop, connected, dropped, process>>

StopArrives ==
    /\ connected /\ stopped /\ ~seenStop
    /\ seenStop' = TRUE
    /\ UNCHANGED <<state, lock, data, written, before, sent, consumed, sending, stopped,
                   arrived, seenEnd, connected, dropped, process>>

(* Connection::close by either side, a loss of the path, or an end of the  *)
(* other process.                                                          *)
Disconnect ==
    /\ connected
    /\ connected' = FALSE
    /\ UNCHANGED <<state, lock, data, written, before, sent, consumed, sending, stopped,
                   arrived, seenEnd, seenStop, dropped, process>>

-----------------------------------------------------------------------------
Sending(o) == WriteByte(o) \/ WriteDone(o) \/ WriteFails(o) \/ Finish(o) \/ Reset(o)

Receiving(o) == \/ Read(o) \/ ReadNone(o) \/ Fill(o) \/ ReadExactDone(o)
                \/ ReadToEndDone(o) \/ ReadFails(o) \/ Stop(o)

Network == (process = "up" /\ (Arrive \/ EndArrives)) \/ StopArrives

Reader(o) == process = "up" /\ (Call(o) \/ AllocationFails(o) \/ Lock(o) \/ Receiving(o))

Next == \/ \E o \in Sends : Call(o) \/ Lock(o) \/ Sending(o)
        \/ \E o \in Recvs : Reader(o)
        \/ Network \/ Disconnect
        \/ DropSend \/ (process = "up" /\ DropRecv)

Spec == Init /\ [][Next]_vars

(* Tasks run, the network delivers, and a connection to a process that is   *)
(* gone times out; nobody must call, disconnect or collect a wrapper.      *)
Fairness == /\ \A o \in Sends : WF_vars(Lock(o)) /\ WF_vars(Sending(o))
            /\ \A o \in Recvs : /\ WF_vars(process = "up" /\ (AllocationFails(o) \/ Lock(o)))
                               /\ WF_vars(process = "up" /\ Receiving(o))
            /\ WF_vars(Network) /\ WF_vars(process = "aborted" /\ Disconnect)

FairSpec == Spec /\ Fairness

-----------------------------------------------------------------------------
(* Properties.                                                             *)

Positions(b) == {n \in DOMAIN sent : sent[n] \in b}
BytesOf(o) == {o} \X (1..written[o])

(* Concurrent write_all calls do not mix their bytes, and one that was     *)
(* called after another returned comes after it.                           *)
WritesInOrder ==
    /\ \A o \in Sends : \A n \in DOMAIN sent : n > 1 /\ sent[n][1] = o /\ sent[n][2] > 1 =>
          sent[n - 1] = <<o, sent[n][2] - 1>>
    /\ \A o \in Sends : \A p \in before[o] :
          \A i \in Positions(BytesOf(o)), j \in Positions(BytesOf(p)) : j < i

(* Concurrent reads do not share or mix bytes: each gets an unbroken piece *)
(* of the stream that no other read gets.                                  *)
ReadsInOrder ==
    /\ \A o \in Recvs : \E n \in 0..(Len(sent) - Len(data[o])) :
          data[o] = SubSeq(sent, n + 1, n + Len(data[o]))
    /\ \A o, p \in Recvs : o # p => ToSet(data[o]) \cap ToSet(data[p]) = {}

(* When a readToEnd succeeds, and this side has not stopped the stream,    *)
(* every byte of every writeAll that succeeded was read by some call: a    *)
(* finish that overtakes a write makes the write fail, it never cuts it    *)
(* off silently.                                                           *)
EndIsComplete ==
    \A e \in Recvs : Do[e] = "read_to_end" /\ state[e] = "ok" /\ ~stopped =>
        \A w \in Sends : Do[w] = "write_all" /\ state[w] = "ok" =>
            {w} \X (1..Size[w]) \subseteq UNION {ToSet(data[o]) : o \in Recvs}

(* Once the connection is gone no call hangs at a mutex or in the stream.  *)
Settled(o) == state[o] \in Returned \/ (o \in Recvs /\ process = "aborted")

DisconnectReleases ==
    \A o \in Ops : ~connected /\ state[o] # "idle" ~> Settled(o)

(* reset gets through a write_all that flow control blocks as soon as the   *)
(* reader stops the stream, loses its half, or aborts on a length that     *)
(* cannot be allocated, although reset has to wait for its mutex.          *)
StopFreesSender ==
    \A o \in Sends :
        (stopped \/ "recv" \in dropped \/ process = "aborted") /\ state[o] # "idle"
          ~> state[o] \in Returned

(* Every read, and every stop that waits behind one for the mutex, returns  *)
(* once the sender finished or reset the stream or lost its half, also     *)
(* with calls in flight when the wrapper was collected.                    *)
EndFreesReader ==
    \A o \in Recvs :
        (sending # "open" \/ "send" \in dropped) /\ state[o] # "idle" ~> Settled(o)
=============================================================================
