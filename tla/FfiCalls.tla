------------------------------ MODULE FfiCalls ------------------------------
(***************************************************************************)
(* Calls from Dart into the native library and the objects they are about:  *)
(* the generated wire functions of rust/src/frb_generated.rs (53 to 2992)   *)
(* with the reference counts of 4367 to 4464.                              *)
(*                                                                         *)
(* An object lives behind a MoiArc as long as its count is above zero.  A   *)
(* Dart wrapper owns one count and its finalizer gives it back; a call adds *)
(* one for the receiver while its message is written, and drops it with the *)
(* decoded RustOpaque when the handler is done; a result goes out with one. *)
(* A handler first takes the guard of its receiver: an async call awaits it *)
(* on a worker, a sync call waits for it on the thread that runs Dart.      *)
(*                                                                         *)
(* The flutter_rust_bridge runtime (MoiArc, its id generator, the guards,   *)
(* the finalizers) is not under src/ and is modelled from its use there.    *)
(* Callbacks that bring objects to Dart are left to the module Router.      *)
(***************************************************************************)
EXTENDS FfiTable, FiniteSets

CONSTANTS
    Calls,          \* slots of calls in flight
    Rows,           \* the wire functions that are called
    MaxObjects,     \* bound on the objects ever made
    MaxRestarts,    \* bound on the hot restarts of the Dart isolate
    NoCall          \* the Dart thread runs no sync call

Objects == 1..MaxObjects
NoId    == 0
Modes   == {"async", "normal", "sync"}

(* What a call can bring: the types of the objects in its result, none when *)
(* it answers null, fails or panics.                                       *)
Outcomes(row) ==
    {<<>>} \cup
    CASE row.ret \in OpaqueTypes   -> {<<row.ret>>}
      [] row.ret = "StreamPair"    -> {<<"SendStream", "RecvStream">>}
      [] row.ret = "OptConnection" -> {<<"Connection">>}
      [] row.ret = "OptIncoming"   -> {<<"Incoming">>}
      [] OTHER                     -> {}

NoKind    == [mode |-> "none", excl |-> FALSE, brings |-> {}]
Kind(row) == [mode |-> row.mode, excl |-> row.on.excl, brings |-> Outcomes(row)]
Kinds     == {Kind(row) : row \in Rows}

ASSUME CallsAssumption   == IsFiniteSet(Calls) /\ NoCall \notin Calls
ASSUME BoundsAssumption  == MaxObjects \in Nat /\ MaxRestarts \in Nat
ASSUME RowsAssumption ==
    \A row \in Rows :
        /\ row.mode \in Modes
        /\ row.on.excl \in BOOLEAN
        /\ Outcomes(row) \subseteq {<<>>} \cup {<<t>> : t \in OpaqueTypes}
                                   \cup {<<t, u>> : t \in OpaqueTypes, u \in OpaqueTypes}
        /\ row.mode = "sync" => Outcomes(row) = {<<>>}

VARIABLES
    typeOf,     \* the type of each object, "none" before it is made
    next,       \* the next number of the id generator
    strong,     \* the count of each object
    held,       \* objects with a live Dart wrapper
    mail,       \* objects in results that Dart has not decoded yet
    lost,       \* objects sent to an isolate that is gone
    calls,      \* the calls in flight
    thread,     \* the sync call that the Dart thread is in
    restarts

vars == <<typeOf, next, strong, held, mail, lost, calls, thread, restarts>>

Idle == [phase |-> "idle", kind |-> NoKind, on |-> NoId, live |-> FALSE]

Busy(c)  == calls[c].phase # "idle"
Users(o) == {c \in Calls : Busy(c) /\ calls[c].on = o}

Init ==
    /\ typeOf = [o \in Objects |-> "none"]
    /\ next = 1
    /\ strong = [o \in Objects |-> 0]
    /\ held = {} /\ mail = {} /\ lost = {}
    /\ calls = [c \in Calls |-> Idle]
    /\ thread = NoCall
    /\ restarts = 0

(* increment_strong_count and decrement_strong_count.                      *)
Increment(o) == strong' = [strong EXCEPT ![o] = @ + 1]
Decrement(o) == strong' = [strong EXCEPT ![o] = @ - 1]

Send(c, row, o) ==
    /\ thread = NoCall
    /\ ~Busy(c)
    /\ calls' = [calls EXCEPT ![c] =
                    [phase |-> "begun", kind |-> Kind(row), on |-> o, live |-> TRUE]]
    /\ thread' = IF row.mode = "sync" THEN c ELSE NoCall

(* Mutant: the count is added for any number, not for one Dart holds.      *)
CallOnAnyObject(c, row, o) ==
    /\ typeOf[o] = row.on.type
    /\ Increment(o)
    /\ Send(c, row, o)
    /\ UNCHANGED <<typeOf, next, held, mail, lost, restarts>>

(* Mutant: the receiver's number is sent without a count of its own.       *)
CallWithoutCount(c, row, o) ==
    /\ o \in held
    /\ typeOf[o] = row.on.type
    /\ Send(c, row, o)
    /\ UNCHANGED <<typeOf, next, strong, held, mail, lost, restarts>>

(* A Dart method of an object: its message carries a count of its own.     *)
CallOn(c, row, o) ==
    /\ o \in held
    /\ typeOf[o] = row.on.type
    /\ Increment(o)
    /\ Send(c, row, o)
    /\ UNCHANGED <<typeOf, next, held, mail, lost, restarts>>

(* A function without a receiver.                                          *)
CallFree(c, row) ==
    /\ row.on = NoObject
    /\ Send(c, row, NoId)
    /\ UNCHANGED <<typeOf, next, strong, held, mail, lost, restarts>>

(* lockable_decode_async_ref, lockable_decode_sync_ref: readers share the   *)
(* object, a writer has it alone.                                          *)
CanLock(c) ==
    \A d \in Users(calls[c].on) \ {c} :
        calls[d].phase = "guarded" => ~calls[c].kind.excl /\ ~calls[d].kind.excl

Guard(c) ==
    /\ calls[c].phase = "begun"
    /\ calls[c].on # NoId => CanLock(c)
    /\ calls' = [calls EXCEPT ![c].phase = "guarded"]
    /\ UNCHANGED <<typeOf, next, strong, held, mail, lost, thread, restarts>>

(* Mutant: the handler keeps the count of its receiver when it brings none. *)
ReturnKeepsReceiver(c) ==
    /\ calls[c].phase = "guarded"
    /\ \E brings \in calls[c].kind.brings :
        LET made == next..(next + Len(brings) - 1)
        IN  /\ made \subseteq Objects
            /\ typeOf' = [o \in Objects |-> IF o \in made THEN brings[o - next + 1] ELSE typeOf[o]]
            /\ strong' = [o \in Objects |->
                    IF o \in made THEN 1
                    ELSE IF o = calls[c].on /\ made # {} THEN strong[o] - 1 ELSE strong[o]]
            /\ next' = next + Len(brings)
            /\ mail' = mail \cup (IF calls[c].live THEN made ELSE {})
            /\ lost' = lost \cup (IF calls[c].live THEN {} ELSE made)
    /\ calls' = [calls EXCEPT ![c] = Idle]
    /\ thread' = IF thread = c THEN NoCall ELSE thread
    /\ UNCHANGED <<held, restarts>>

(* The API function is done: new objects get the next numbers and leave     *)
(* with one count each, the receiver's count and guard are dropped, and the *)
(* result goes to the port of the isolate that called.                     *)
Return(c) ==
    /\ calls[c].phase = "guarded"
    /\ \E brings \in calls[c].kind.brings :
        LET made == next..(next + Len(brings) - 1)
        IN  /\ made \subseteq Objects
            /\ typeOf' = [o \in Objects |-> IF o \in made THEN brings[o - next + 1] ELSE typeOf[o]]
            /\ strong' = [o \in Objects |->
                    IF o \in made THEN 1
                    ELSE IF o = calls[c].on THEN strong[o] - 1 ELSE strong[o]]
            /\ next' = next + Len(brings)
            /\ mail' = mail \cup (IF calls[c].live THEN made ELSE {})
            /\ lost' = lost \cup (IF calls[c].live THEN {} ELSE made)
    /\ calls' = [calls EXCEPT ![c] = Idle]
    /\ thread' = IF thread = c THEN NoCall ELSE thread
    /\ UNCHANGED <<held, restarts>>

(* Dart decodes a result, also that of a future that timed out in Dart.     *)
Receive(o) ==
    /\ thread = NoCall
    /\ o \in mail
    /\ mail' = mail \ {o}
    /\ held' = held \cup {o}
    /\ UNCHANGED <<typeOf, next, strong, lost, calls, thread, restarts>>

(* A wrapper is disposed or collected: its native finalizer runs whatever   *)
(* the Dart thread does.                                                   *)
Collect(o) ==
    /\ o \in held
    /\ held' = held \ {o}
    /\ Decrement(o)
    /\ UNCHANGED <<typeOf, next, mail, lost, calls, thread, restarts>>

(* A hot restart: the finalizers of the old isolate run, and nobody reads   *)
(* what was, or will be, sent to its ports.                                *)
Restart ==
    /\ thread = NoCall
    /\ restarts < MaxRestarts
    /\ strong' = [o \in Objects |-> IF o \in held THEN strong[o] - 1 ELSE strong[o]]
    /\ held' = {}
    /\ mail' = {}
    /\ lost' = lost \cup mail
    /\ calls' = [c \in Calls |-> [calls[c] EXCEPT !.live = FALSE]]
    /\ restarts' = restarts + 1
    /\ UNCHANGED <<typeOf, next, thread>>

Next ==
    \/ \E c \in Calls :
        \/ \E row \in Rows, o \in Objects : CallOn(c, row, o)
        \/ \E row \in Rows : CallFree(c, row)
        \/ Guard(c)
        \/ Return(c)
    \/ \E o \in Objects : Receive(o) \/ Collect(o)
    \/ Restart

(* The pool of the bridge and the workers run every handler that does not   *)
(* wait for the network: those of sync and of normal functions.            *)
Runs(c) == calls[c].kind.mode # "async" /\ (Guard(c) \/ Return(c))

Spec     == Init /\ [][Next]_vars
FairSpec == Spec /\ \A c \in Calls : WF_vars(Runs(c))

-----------------------------------------------------------------------------
Phases == {"idle", "begun", "guarded"}

(* Types, and the one call that blocks the Dart thread is a sync call.     *)
TypeOK ==
    /\ typeOf \in [Objects -> OpaqueTypes \cup {"none"}]
    /\ next \in 1..(MaxObjects + 1)
    /\ strong \in [Objects -> Nat]
    /\ held \subseteq Objects /\ mail \subseteq Objects /\ lost \subseteq Objects
    /\ calls \in [Calls -> [phase : Phases, kind : Kinds \cup {NoKind},
                            on : Objects \cup {NoId}, live : BOOLEAN]]
    /\ \A c \in Calls : Busy(c) => calls[c].kind \in Kinds
    /\ thread \in Calls \cup {NoCall}
    /\ restarts \in 0..MaxRestarts

(* The Dart side has an object in one place: one wrapper, one result under  *)
(* way, or one that no isolate will read.                                  *)
OneHolder == held \cap mail = {} /\ held \cap lost = {} /\ mail \cap lost = {}

Owned(o) == o \in held \cup mail \cup lost

(* An object is counted once for each call in flight on it and once for     *)
(* the Dart side: a finalizer that runs during a call never frees the       *)
(* object under it, and what nobody has is freed.                          *)
CountIsOwners ==
    \A o \in Objects : strong[o] = Cardinality(Users(o)) + (IF Owned(o) THEN 1 ELSE 0)

(* A freed object is never counted again: no message carries the number of  *)
(* an object that its MoiArc pool no longer knows.                         *)
FreedStaysFreed ==
    [][\A o \in Objects : typeOf[o] # "none" /\ strong[o] = 0 => strong'[o] = 0]_vars

(* The thread that runs Dart comes back from every sync call, however long  *)
(* async calls on the same object wait for the peer.                       *)
DartThreadReturns == \A c \in Calls : thread = c ~> thread = NoCall
=============================================================================
