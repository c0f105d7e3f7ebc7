---------------------------- MODULE StreamBridge ----------------------------
(***************************************************************************)
(* The reactive streams of iroh_quic: watchAddr, homeRelayStatus and       *)
(* pathEvents.  Four parties share one subscription:                       *)
(*                                                                         *)
(*   - the Dart isolate (_cancellableStream in lib/src/endpoint.dart) which *)
(*     draws a token, listens, receives messages and cancels;              *)
(*   - a worker thread of flutter_rust_bridge (FRB) that runs the exported *)
(*     function: it spawns the task, THEN records its abort handle;        *)
(*   - the tokio task that forwards the items of the source to the sink;   *)
(*   - the process-wide registry of abort handles (rust/src/runtime.rs).   *)
(*                                                                         *)
(* cancel_stream is a synchronous FFI call: it runs on the Dart thread and *)
(* may overtake the asynchronous call that registers the task.             *)
(***************************************************************************)
EXTENDS Integers, Sequences

CONSTANTS
    Subs,         \* the subscriptions that may be made
    Isolates,     \* Dart isolates (engines) that share the native library
    IsolateOf,    \* [Subs -> Isolates]
    KindOf,       \* [Subs -> Kinds]
    NoSub,        \* what the registry answers for an absent token
    MaxToken,     \* bound: tokens one isolate may draw
    MaxVersion,   \* bound: changes of one source
    Backlog,      \* events a path event stream keeps for a slow reader
    MaxRestarts   \* bound: hot restarts

Kinds == {"watch", "path"}

ASSUME IsolateAssumption == IsolateOf \in [Subs -> Isolates]
ASSUME KindAssumption    == KindOf \in [Subs -> Kinds]
ASSUME NoSubAssumption   == NoSub \notin Subs
ASSUME BoundAssumption   ==
    /\ MaxToken \in Nat
    /\ MaxVersion \in Nat
    /\ Backlog \in Nat \ {0}
    /\ MaxRestarts \in Nat

Tokens == 1..MaxToken

VARIABLES
    version,    \* [Kinds -> Nat] changes of the watched value, or path events
    closed,     \* [Kinds -> BOOLEAN] the endpoint is dropped / connection closed
    counter,    \* [Isolates -> Nat] _streamTokenCounter
    token,      \* [Subs -> 0..MaxToken] 0 before the Dart call
    dart,       \* [Subs -> DartState] the StreamController of the wrapper
    port,       \* [Subs -> messages posted to the isolate, not yet received]
    portOpen,   \* [Subs -> BOOLEAN] the FRB stream still reads its port
    buf,        \* [Subs -> what the controller holds for the listener]
    got,        \* [Subs -> items the listener was given]
    ffi,        \* [Subs -> FfiState] the exported function on the FRB worker
    task,       \* [Subs -> TaskState] the tokio task
    aborted,    \* [Subs -> BOOLEAN] its AbortHandle was used
    seen,       \* [Subs -> Nat] position of its watcher or event receiver
    hand,       \* [Subs -> Items] the item between next().await and sink.add
    registry,   \* [Tokens -> Subs \cup {NoSub}]
    restarts    \* hot restarts so far

dartVars  == <<counter, token, dart, buf, got>>
portVars  == <<port, portOpen>>
taskVars  == <<task, seen, hand>>
srcVars   == <<version, closed>>
vars == <<srcVars, dartVars, portVars, ffi, taskVars, aborted, registry, restarts>>

DartState == {"new", "created", "listening", "ended", "cancelled", "dead"}
FfiState  == {"none", "queued", "spawned", "returned"}
TaskState == {"none", "parked", "running", "adding", "leaving",
              "unregistered", "ended"}

(* An item says up to which position of the source it speaks, and how many *)
(* events the stream dropped before it (Lagged); missed is 0 otherwise.    *)
Items    == [pos : Nat, missed : Nat]
NoItem   == [pos |-> 0, missed |-> 0]
Done     == [done |-> TRUE]      \* the sink is dropped: FRB closes the stream
Messages == Items \cup {Done}

TypeOK ==
    /\ version \in [Kinds -> Nat]
    /\ closed \in [Kinds -> BOOLEAN]
    /\ counter \in [Isolates -> 0..MaxToken]
    /\ token \in [Subs -> 0..MaxToken]
    /\ dart \in [Subs -> DartState]
    /\ port \in [Subs -> Seq(Messages)]
    /\ portOpen \in [Subs -> BOOLEAN]
    /\ buf \in [Subs -> Seq(Messages)]
    /\ got \in [Subs -> Seq(Items)]
    /\ ffi \in [Subs -> FfiState]
    /\ task \in [Subs -> TaskState]
    /\ aborted \in [Subs -> BOOLEAN]
    /\ seen \in [Subs -> Nat]
    /\ hand \in [Subs -> Items]
    /\ registry \in [Tokens -> Subs \cup {NoSub}]
    /\ restarts \in Nat

Init ==
    /\ version = [k \in Kinds |-> IF k = "watch" THEN 1 ELSE 0]
    /\ closed = [k \in Kinds |-> FALSE]
    /\ counter = [i \in Isolates |-> 0]
    /\ token = [s \in Subs |-> 0]
    /\ dart = [s \in Subs |-> "new"]
    /\ port = [s \in Subs |-> <<>>]
    /\ portOpen = [s \in Subs |-> FALSE]
    /\ buf = [s \in Subs |-> <<>>]
    /\ got = [s \in Subs |-> <<>>]
    /\ ffi = [s \in Subs |-> "none"]
    /\ task = [s \in Subs |-> "none"]
    /\ aborted = [s \in Subs |-> FALSE]
    /\ seen = [s \in Subs |-> 0]
    /\ hand = [s \in Subs |-> NoItem]
    /\ registry = [t \in Tokens |-> NoSub]
    /\ restarts = 0

-----------------------------------------------------------------------------
(* The sources, kept by iroh: the address and relay watchers of an endpoint *)
(* and the path events of a connection.                                    *)

Change(k) ==
    /\ ~closed[k] /\ version[k] < MaxVersion
    /\ version' = [version EXCEPT ![k] = @ + 1]
    /\ UNCHANGED <<closed, dartVars, portVars, ffi, taskVars, aborted,
                   registry, restarts>>

CloseSource(k) ==
    /\ ~closed[k]
    /\ closed' = [closed EXCEPT ![k] = TRUE]
    /\ UNCHANGED <<version, dartVars, portVars, ffi, taskVars, aborted,
                   registry, restarts>>

(* A closed watcher answers "disconnected" even over an unread value; a    *)
(* closed event channel is drained first.                                  *)
HasNext(s) ==
    /\ version[KindOf[s]] > seen[s]
    /\ KindOf[s] = "watch" => ~closed["watch"]

(* Mutant: the loop leaves unread events behind.                           *)
EndUndrained(s) == closed[KindOf[s]]

EndOfSource(s) == closed[KindOf[s]] /\ ~HasNext(s)

(* Mutant: map_path_event drops the count of Lagged.                       *)
MapWithoutMissed(pos, lag) == [pos |-> pos, missed |-> 0]

(* map_path_event keeps the count of a Lagged event and gives none to the  *)
(* other kinds.                                                            *)
MapPathEvent(pos, lag) == [pos |-> pos, missed |-> lag]

(* Mutant: the lag is computed unsigned, without asking if there is one.   *)
NextItemUnchecked(s) ==
    LET lag == version["path"] - Backlog - seen[s]
    IN  MapPathEvent(seen[s] + lag, lag)

(* What stream.next() answers: a watcher answers the current value, an     *)
(* event receiver the next event it still holds or, once, how many it lost. *)
NextItem(s) ==
    LET lag == version["path"] - Backlog - seen[s]
    IN  IF KindOf[s] = "watch" THEN [pos |-> version["watch"], missed |-> 0]
        ELSE IF lag > 0 THEN MapPathEvent(seen[s] + lag, lag)
        ELSE MapPathEvent(seen[s] + 1, 0)

-----------------------------------------------------------------------------
(* The registry of runtime.rs; each operation holds its mutex throughout.  *)

RegisterStream(t, s) == registry' = [registry EXCEPT ![t] = s]

UnregisterStream(t) == registry' = [registry EXCEPT ![t] = NoSub]

(* Mutant: removes the handle and forgets to use it.                       *)
RemoveOnly(t) ==
    /\ registry' = [registry EXCEPT ![t] = NoSub]
    /\ UNCHANGED aborted

AbortStream(t) ==
    /\ registry' = [registry EXCEPT ![t] = NoSub]
    /\ aborted' = [s \in Subs |-> aborted[s] \/ registry[t] = s]

-----------------------------------------------------------------------------
(* The Dart isolate.                                                       *)

(* Mutant: every stream of an isolate has the same token.                  *)
CreateWithoutBump(s) ==
    /\ dart[s] = "new"
    /\ counter[IsolateOf[s]] < MaxToken
    /\ token' = [token EXCEPT ![s] = counter[IsolateOf[s]] + 1]
    /\ dart' = [dart EXCEPT ![s] = "created"]
    /\ UNCHANGED <<counter, srcVars, buf, got, portVars, ffi, taskVars, aborted,
                   registry, restarts>>

(* watchAddr(), homeRelayStatus() or pathEvents(): draws the token.        *)
Create(s) ==
    /\ dart[s] = "new"
    /\ counter[IsolateOf[s]] < MaxToken
    /\ counter' = [counter EXCEPT ![IsolateOf[s]] = @ + 1]
    /\ token' = [token EXCEPT ![s] = counter[IsolateOf[s]] + 1]
    /\ dart' = [dart EXCEPT ![s] = "created"]
    /\ UNCHANGED <<srcVars, buf, got, portVars, ffi, taskVars, aborted,
                   registry, restarts>>

(* onListen: opens the port, queues the FFI call and listens.              *)
Listen(s) ==
    /\ dart[s] = "created"
    /\ dart' = [dart EXCEPT ![s] = "listening"]
    /\ portOpen' = [portOpen EXCEPT ![s] = TRUE]
    /\ ffi' = [ffi EXCEPT ![s] = "queued"]
    /\ UNCHANGED <<srcVars, counter, token, buf, got, port, taskVars, aborted,
                   registry, restarts>>

(* The FRB stream, an async generator over the port, hands a message to the *)
(* wrapper: an item goes to the controller, the end closes it.             *)
Receive(s) ==
    /\ dart[s] = "listening" /\ portOpen[s] /\ port[s] # <<>>
    /\ buf' = [buf EXCEPT ![s] = Append(@, Head(port[s]))]
    /\ port' = [port EXCEPT ![s] = Tail(@)]
    /\ portOpen' = [portOpen EXCEPT ![s] = Head(port[s]) # Done]
    /\ UNCHANGED <<srcVars, counter, token, dart, got, ffi, taskVars, aborted,
                   registry, restarts>>

(* sub.cancel() cannot interrupt a generator that waits on its port: the   *)
(* generator ends, and the cancel completes, at the next message.          *)
ReceiveCancelled(s) ==
    /\ dart[s] = "cancelled" /\ portOpen[s] /\ port[s] # <<>>
    /\ portOpen' = [portOpen EXCEPT ![s] = FALSE]
    /\ port' = [port EXCEPT ![s] = <<>>]
    /\ UNCHANGED <<srcVars, dartVars, ffi, taskVars, aborted, registry, restarts>>

(* The controller gives the listener an item.                              *)
Deliver(s) ==
    /\ dart[s] = "listening" /\ buf[s] # <<>> /\ Head(buf[s]) # Done
    /\ got' = [got EXCEPT ![s] = Append(@, Head(buf[s]))]
    /\ buf' = [buf EXCEPT ![s] = Tail(@)]
    /\ UNCHANGED <<srcVars, counter, token, dart, portVars, ffi, taskVars,
                   aborted, registry, restarts>>

(* The controller ends; a StreamController runs onCancel then too.         *)
DeliverDone(s) ==
    /\ dart[s] = "listening" /\ buf[s] # <<>> /\ Head(buf[s]) = Done
    /\ AbortStream(token[s])
    /\ dart' = [dart EXCEPT ![s] = "ended"]
    /\ buf' = [buf EXCEPT ![s] = <<>>]
    /\ UNCHANGED <<srcVars, counter, token, got, portVars, ffi, taskVars, restarts>>

(* The user cancels: onCancel calls cancelStream, then sub.cancel(), in one *)
(* turn of the event loop.                                                 *)
Cancel(s) ==
    /\ dart[s] = "listening"
    /\ AbortStream(token[s])
    /\ dart' = [dart EXCEPT ![s] = "cancelled"]
    /\ buf' = [buf EXCEPT ![s] = <<>>]
    /\ UNCHANGED <<srcVars, counter, token, got, portVars, ffi, taskVars, restarts>>

(* Hot restart: the isolate's heap and ports go, the native library stays. *)
Restart(i) ==
    LET mine(s) == IsolateOf[s] = i /\ dart[s] # "new"
    IN  /\ restarts < MaxRestarts
        /\ restarts' = restarts + 1
        /\ counter' = [counter EXCEPT ![i] = 0]
        /\ dart' = [s \in Subs |-> IF mine(s) THEN "dead" ELSE dart[s]]
        /\ portOpen' = [s \in Subs |-> portOpen[s] /\ ~mine(s)]
        /\ port' = [s \in Subs |-> IF mine(s) THEN <<>> ELSE port[s]]
        /\ buf' = [s \in Subs |-> IF mine(s) THEN <<>> ELSE buf[s]]
        /\ UNCHANGED <<srcVars, token, got, ffi, taskVars, aborted, registry>>

-----------------------------------------------------------------------------
(* The FRB worker: Endpoint::watch_addr, Endpoint::home_relay_status and   *)
(* Connection::path_events.                                                *)

(* Mutant: stream_updates_only() instead of stream(): no initial value.    *)
SpawnUpdatesOnly(s) ==
    /\ ffi[s] = "queued"
    /\ ffi' = [ffi EXCEPT ![s] = "spawned"]
    /\ task' = [task EXCEPT ![s] = "parked"]
    /\ seen' = [seen EXCEPT ![s] = version[KindOf[s]]]
    /\ UNCHANGED <<srcVars, dartVars, portVars, hand, aborted, registry, restarts>>

(* Takes the watcher or event receiver and spawns the task.  A watcher     *)
(* starts with the current value, an event receiver after the past events. *)
Spawn(s) ==
    /\ ffi[s] = "queued"
    /\ ffi' = [ffi EXCEPT ![s] = "spawned"]
    /\ task' = [task EXCEPT ![s] = "parked"]
    /\ seen' = [seen EXCEPT ![s] =
                  IF KindOf[s] = "watch" THEN 0 ELSE version["path"]]
    /\ UNCHANGED <<srcVars, dartVars, portVars, hand, aborted, registry, restarts>>

(* Only then records the abort handle.                                     *)
Register(s) ==
    /\ ffi[s] = "spawned"
    /\ ffi' = [ffi EXCEPT ![s] = "returned"]
    /\ RegisterStream(token[s], s)
    /\ UNCHANGED <<srcVars, dartVars, portVars, taskVars, aborted, restarts>>

-----------------------------------------------------------------------------
(* The tokio task.  An abort takes effect only where the task is polled     *)
(* again: a task in the middle of a poll goes on until next().await is      *)
(* pending.                                                                 *)

AtNext(s) == \/ task[s] = "running"
             \/ task[s] = "parked" /\ ~aborted[s]

(* Mutant: the receiver does not advance.                                  *)
TakeAgain(s) ==
    /\ AtNext(s) /\ HasNext(s)
    /\ task' = [task EXCEPT ![s] = "adding"]
    /\ hand' = [hand EXCEPT ![s] = NextItem(s)]
    /\ UNCHANGED <<seen, srcVars, dartVars, portVars, ffi, aborted, registry, restarts>>

TakeNext(s) ==
    /\ AtNext(s) /\ HasNext(s)
    /\ task' = [task EXCEPT ![s] = "adding"]
    /\ hand' = [hand EXCEPT ![s] = NextItem(s)]
    /\ seen' = [seen EXCEPT ![s] = NextItem(s).pos]
    /\ UNCHANGED <<srcVars, dartVars, portVars, ffi, aborted, registry, restarts>>

(* next().await is pending: the task yields.                               *)
Park(s) ==
    /\ task[s] = "running" /\ ~HasNext(s) /\ ~EndOfSource(s)
    /\ task' = [task EXCEPT ![s] = "parked"]
    /\ UNCHANGED <<srcVars, dartVars, portVars, ffi, seen, hand, aborted,
                   registry, restarts>>

(* sink.add posts to the port; it fails once the port is closed.           *)
AddOk(s) ==
    /\ task[s] = "adding" /\ portOpen[s]
    /\ port' = [port EXCEPT ![s] = Append(@, hand[s])]
    /\ task' = [task EXCEPT ![s] = "running"]
    /\ UNCHANGED <<srcVars, dartVars, portOpen, ffi, seen, hand, aborted,
                   registry, restarts>>

AddFails(s) ==
    /\ task[s] = "adding" /\ ~portOpen[s]
    /\ task' = [task EXCEPT ![s] = "leaving"]
    /\ UNCHANGED <<srcVars, dartVars, portVars, ffi, seen, hand, aborted,
                   registry, restarts>>

(* Mutant: a parked task is not woken by the end of its source.            *)
SourceEndsUnnoticed(s) ==
    /\ task[s] = "running" /\ EndOfSource(s)
    /\ task' = [task EXCEPT ![s] = "leaving"]
    /\ UNCHANGED <<srcVars, dartVars, portVars, ffi, seen, hand, aborted,
                   registry, restarts>>

(* next() answers None: the loop ends.                                     *)
SourceEnds(s) ==
    /\ AtNext(s) /\ EndOfSource(s)
    /\ task' = [task EXCEPT ![s] = "leaving"]
    /\ UNCHANGED <<srcVars, dartVars, portVars, ffi, seen, hand, aborted,
                   registry, restarts>>

Unregister(s) ==
    /\ task[s] = "leaving"
    /\ task' = [task EXCEPT ![s] = "unregistered"]
    /\ UnregisterStream(token[s])
    /\ UNCHANGED <<srcVars, dartVars, portVars, ffi, seen, hand, aborted, restarts>>

(* The future is dropped, with the sink: FRB posts the end of the stream.  *)
DropFuture(s) ==
    /\ task' = [task EXCEPT ![s] = "ended"]
    /\ port' = [port EXCEPT ![s] = IF portOpen[s] THEN Append(@, Done) ELSE @]
    /\ UNCHANGED <<srcVars, dartVars, portOpen, ffi, seen, hand, aborted,
                   registry, restarts>>

Return(s)  == task[s] = "unregistered" /\ DropFuture(s)

(* Mutant: the task looks for its abort only when an item arrives.         *)
AbortedAtItem(s) == task[s] = "parked" /\ aborted[s] /\ HasNext(s) /\ DropFuture(s)

Aborted(s) == task[s] = "parked" /\ aborted[s] /\ DropFuture(s)

-----------------------------------------------------------------------------
Worker(s) == Spawn(s) \/ Register(s)

Task(s) == \/ TakeNext(s) \/ Park(s) \/ AddOk(s) \/ AddFails(s)
           \/ SourceEnds(s) \/ Unregister(s) \/ Return(s) \/ Aborted(s)

EventLoop(s) == Receive(s) \/ ReceiveCancelled(s) \/ Deliver(s) \/ DeliverDone(s)

User(s) == Create(s) \/ Listen(s) \/ Cancel(s)

Next == \/ \E s \in Subs : User(s) \/ EventLoop(s) \/ Worker(s) \/ Task(s)
        \/ \E k \in Kinds : Change(k) \/ CloseSource(k)
        \/ \E i \in Isolates : Restart(i)

Spec == Init /\ [][Next]_vars

(* The worker pool, the tokio scheduler and the event loop run whatever is *)
(* ready; users, sources and restarts promise nothing.  Fairness of        *)
(* EventLoop includes that the listener is not paused for ever.            *)
Fairness == \A s \in Subs : /\ WF_vars(Worker(s))
                            /\ WF_vars(Task(s))
                            /\ WF_vars(EventLoop(s))

FairSpec == Spec /\ Fairness
-----------------------------------------------------------------------------
(* Properties.                                                             *)

(* A stream that somebody may still listen to is never aborted: no cancel   *)
(* stops another stream (the docs say that "token identifies the stream"),  *)
(* also when a restarted isolate draws the tokens of tasks again that are   *)
(* still alive.  It holds in one engine.                                   *)
LiveNeverAborted == \A s \in Subs : aborted[s] => dart[s] \in {"ended", "cancelled", "dead"}

(* Weaker, and true with several engines and hot restarts too: whoever      *)
(* aborted a task drew the same token and is no longer listening.          *)
AbortSharesToken ==
    \A s \in Subs : aborted[s] =>
        \E r \in Subs : /\ token[r] = token[s]
                        /\ dart[r] \in {"ended", "cancelled", "dead"}

(* Until a restart, a task that outlives its subscription can still be      *)
(* found: either its registration is under way or the registry holds its   *)
(* handle.  A cancel that comes too early misses the task; it never loses   *)
(* the handle.                                                             *)
LeakIsRegistered ==
    \A s \in Subs :
        /\ restarts = 0
        /\ dart[s] \in {"ended", "cancelled"}
        /\ task[s] \in {"parked", "running", "adding"}
        /\ ~aborted[s]
        => ffi[s] = "spawned" \/ (ffi[s] = "returned" /\ registry[token[s]] = s)

(* The listener gets the items in the order of the source, and on a path   *)
(* event stream every event is either told or counted by a Lagged event,   *)
(* through the task, the port and the buffer of the controller.            *)
EveryEventCounted ==
    \A s \in Subs : \A n \in 2..Len(got[s]) :
        LET item == got[s][n]
            step == IF item.missed > 0 THEN item.missed ELSE 1
            gap  == item.pos - got[s][n - 1].pos
        IN  IF KindOf[s] = "watch" THEN gap > 0 ELSE gap = step

(* A path event stream that ended told everything up to the last event of  *)
(* its connection, although the items, the end and the abort that onCancel *)
(* makes at the end travel by different ways.                              *)
DoneMeansComplete ==
    \A s \in Subs : dart[s] = "ended" /\ KindOf[s] = "path" =>
        /\ closed["path"]
        /\ seen[s] = version["path"]
        /\ got[s] # <<>> => got[s][Len(got[s])].pos = seen[s]

(* An abort that reached a task stops it, and its end then closes the port, *)
(* so that `await sub.cancel()` returns.                                   *)
AbortStops == \A s \in Subs : aborted[s] ~> task[s] = "ended" /\ ~portOpen[s]

(* Whatever was leaked, cancelled or lost by a restart, every task ends     *)
(* once its endpoint is dropped or its connection closed.                  *)
TasksEndWithSource ==
    \A s \in Subs : closed[KindOf[s]] /\ task[s] # "none" ~> task[s] = "ended"

(* A listener that stays ends up with the current value, however many      *)
(* values the watcher skipped.                                             *)
WatchConverges ==
    \A s \in Subs : KindOf[s] = "watch" =>
        (<>[](dart[s] = "listening" /\ ~closed["watch"])
          => <>[](got[s] # <<>> /\ got[s][Len(got[s])].pos = version["watch"]))

(* How the listener sees the state of its stream.                          *)
Phase == [s \in Subs |-> CASE dart[s] \in {"new", "created"} -> "idle"
                           [] dart[s] = "listening" -> "live"
                           [] dart[s] = "ended" -> "ended"
                           [] dart[s] = "dead" -> "gone"
                           [] OTHER -> "cancelled"]

(* The bridge implements the promise of CancellableStream.                 *)
Abstract == INSTANCE CancellableStream WITH phase <- Phase, told <- got

(* Every step of the bridge is a step of the promise or hides in it, and a *)
(* stream whose source closed ends.                                        *)
ImplementsPromise == Abstract!Promise

-----------------------------------------------------------------------------
(* What the docs promise and the code does not keep.                       *)

(* endpoint.dart:36, "The crate then stops the Rust task immediately, and  *)
(* no resources stay in use": once the FFI call returned, the task of a    *)
(* cancelled subscription is over or told to stop.                         *)
CancelStopsTask ==
    \A s \in Subs : dart[s] = "cancelled" /\ ffi[s] = "returned" =>
        aborted[s] \/ task[s] \in {"leaving", "unregistered", "ended"}
=============================================================================
