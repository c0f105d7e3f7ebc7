# A verification project for iroh_quic

`iroh_quic` gives Dart programs the peer-to-peer QUIC endpoint of iroh. This directory keeps
TLA+ models of its own logic, the runs that check them with TLC and the proofs that TLAPS checks.
Paths below are relative to `packages/iroh_quic/`. `packages/iroh_flutter/rust` is a copy of
`packages/iroh_quic/rust`; what is said of one holds for the other.

## 1. The system

A Dart isolate holds wrapper objects (`lib/src/*.dart`). A call goes through code generated by
flutter_rust_bridge (FRB) into the native library (`rust/src/api/*.rs`). A synchronous function
(`#[frb(sync)]`) runs on the Dart thread. Any other function is queued for a worker thread of FRB;
an `async` one spawns its work on the one tokio runtime of the process and waits for it. Results,
stream items and calls of Dart closures come back as messages to a port of the isolate.

| Component | State | Operations | Hard behaviour |
|---|---|---|---|
| Reactive streams: `watchAddr`, `homeRelayStatus`, `pathEvents` (`endpoint.dart` 32-58, `endpoint.rs` 181-221, `connection.rs` 313-325, `runtime.rs`) | token counter (per isolate), registry of abort handles (per process), one task, port and controller per subscription | subscribe, register, forward, abort, end, cancel, hot restart | a synchronous cancel races an asynchronous registration; an abort waits for the next await; tokens of two isolates, or of two lives of one, collide |
| Endpoint: `bind`, `connect`, `accept`, `acceptIncoming`, `close`, `setAlpns` | queue of inbound attempts (iroh), ALPN list, open or closed | as named | several accepters compete; an abandoned call still takes an item; close while calls wait |
| Incoming | `Mutex<Option<..>>`, `None` after the first decision | accept, refuse, retry, ignore | two decisions race; a failed one consumes |
| Router: `RouterBuilder`, `Router`, `DartProtocolHandler` | `Mutex<Option<builder>>`, handler by ALPN | accept, spawn, shutdown, dispatch | builder calls that are not awaited reorder; a throwing Dart handler panics the task |
| Connection: streams and datagrams | iroh connection | open, accept, datagram read and write, batch read, closed | readers split the datagrams; a task whose call timed out in Dart still takes an item |
| Stream halves: `SendStream`, `RecvStream` | one tokio mutex per half around the iroh stream | write_all, finish, reset; read, read_exact, read_to_end, stop; the drop of the half | a blocked read holds the mutex that `stop` needs; calls that are not awaited reorder |
| Address lookup (`address_lookup.rs`) | the resolver closure | resolve | invalid answers, a resolver that throws or stays silent |
| Android bootstrap (`android.rs`, `IrohFlutterPlugin.java`) | `initialized`, `Once` | onAttachedToEngine | several engines, failure and retry |
| Library loading: `Iroh.init`, `loader.dart` | `_initialised` | ensureInitialized | two calls in flight; retry after a failure |
| Prebuilt cache: `bin/setup.dart`, `bin/build.dart`, `prebuilt.dart` | a file in the user's cache, a temporary file | download, verify, rename; build, copy; load | several processes share the files; a process is killed half way |
| Generated bindings: `rust/src/frb_generated.rs`, `lib/src/rust/*.dart` | reference count and read-write guard of each opaque object | 63 wire functions behind two dispatchers; encode, decode | a finalizer runs during a call; a sync call waits for a guard on the Dart thread; a message has no tags, so both halves must agree field by field |
| Keys and addresses (`key.rs`, `key.dart`), errors, capabilities | none | conversions | none |

What makes each part correct, and hard to test, is the list "hazards" of `PROJECT.json`: each
entry names its line and the properties that watch it.

## 2. Modules

| Module | Models | Extends |
|---|---|---|
| `CancellableStream` | what a reactive stream promises its listener | |
| `StreamBridge` | `_cancellableStream`, the FRB calls behind it, the tokio task, the abort registry; implements `CancellableStream` | |
| `EndpointAccept` | `Endpoint.accept`, `acceptIncoming`, `setAlpns`, `close`; the four decisions on an `Incoming` | |
| `Router` | `RouterBuilder`, `Router` and the Dart handlers, on the queue and the endpoint of `EndpointAccept` | `EndpointAccept` |
| `StreamHalves` | one direction of a QUIC stream: the calls on a `SendStream` and on the `RecvStream` of the peer | |
| `Bootstrap` | the Android bootstrap and `bind` | |
| `Dial` | `connect` and the address lookups | `Bootstrap` |
| `Connection` | the calls on a `Connection` that wait | |
| `Client` | a program that boots, binds, connects and uses the connection | `Dial`, `Connection` |
| `FfiTable` | the wire functions, one row each | |
| `FfiCalls` | calls in flight, reference counts, guards, the Dart thread | `FfiTable` |
| `SseCodec` | the wire format, both halves of it | `FfiTable` |
| `Ffi` | calls and format together | `FfiCalls`, `SseCodec` |
| `PrebuiltCache` | `setup` and `build`, processes that share the files of the cache | |
| `Loader` | `Iroh.init` in a program that reads the cache | `PrebuiltCache` |
| `StreamBridgeProofs`, `EndpointAcceptProofs`, `StreamHalvesProofs`, `ClientProofs`, `FfiCallsProofs`, `LoaderProofs` | theorems about the module they name | that module, `TLAPS` |
| `RouterProofs` | theorems about `Router` | `Router`, `EndpointAcceptProofs` |
| `SseCodecProofs` | theorems about `SseCodec` and `Ffi` | `Ffi`, `FfiCallsProofs` |
| `MC…` | constants for TLC | the module it names |

Every definition that stands for code is listed under "map" in `PROJECT.json` with its lines; one
for iroh, tokio, FRB or the Dart VM is marked external and models what the code above relies on.
An operator whose comment starts with "Mutant:" is a plausible bug that the runs must catch; it is
never part of a next-state relation.

### StreamBridge

`dart[s]` is where the wrapper of subscription `s` is, `token`, `counter` the tokens it draws,
`port`, `portOpen`, `buf` the message port and the buffer of the `StreamController`, `got` what the
listener was told. `ffi[s]` is the FRB call that spawns the task and registers its handle, two
separate steps of a worker (`Spawn`, `Register`). `task[s]` is the tokio task, `registry` the map
of abort handles. One action is one atomic piece of code: a turn of the event loop, a critical
section, a poll of a task between two awaits. `version` and `closed` are the source: iroh's watcher
answers the current value and skips what it missed, the receiver of path events holds the last
`Backlog` events and answers one `Lagged` with the number of those it lost.
`Restart` is a hot restart: the isolate's heap and ports are new, the native library stays.

A task in the middle of a poll cannot be aborted; the abort waits for the next pending `await`.
`sub.cancel()` on the stream of FRB, an async generator over the port, completes at the next
message of the port.

`CancellableStream` knows only the listener: what was told, in order, an end that is told last,
nothing after a cancel, and an end after the source closed. `Phase` maps the stages of the wrapper
to its phases.

### EndpointAccept

`queue` holds the inbound attempts, `call[c]` an accept call with its task, `inner[c]` the
`Mutex<Option<Incoming>>` of the object a call returned, `dec[d]` a decision. A synchronous
decision is one step; `Incoming.accept` is queued first (`CallAccept`) and takes the attempt when a
worker runs it (`AcceptTakes`). `Abandon` is a Dart timeout: nothing tells the task. `Collect` is
the finalizer of an `Incoming`; iroh refuses an attempt that is dropped undecided.

### Router

`builder` is the `Option` under the mutex, `table` the handlers, `running` iroh's accept loop,
`serving[a]` what the router does with an attempt. All steps of `EndpointAccept` go on beside it
and compete for `queue`. A Dart callback may return, throw or never complete. When it throws the
FRB glue panics: in a debug build (`CallbackThrows`) that ends iroh's loop, in a release build
(`CallbackAborts`; `panic = "abort"`) the process. `build` is either, chosen at the start.
`shutdown[h]` is one call of `Router.shutdown`. The first cancels the token of the loop and waits
for its task; one that comes later finds the token cancelled and returns at once (`"early"`).

### StreamHalves

Each call is a task that locks the mutex of its half, works, and drops the guard (`lock[half]` is
the fair queue of tokio's mutex). Calls that Dart does not await reach the mutex in any order.
`Window` is flow control, `Width` the bits of a `usize` (a negative Dart `int` wraps). A stream
stopped on this side reads as one at its end. The buffers of `read` and `readExact` are allocated
before the mutex is taken. For a length that no vector can have, `AllocationFails` is an error of
this call in a debug build and the end of the process in a release build (`Build`). `process` is
the side that reads; the one that writes goes on and its connection times out. `DropSend` and `DropRecv` are the last `Arc` of a
half: Dart has collected its wrapper and no task is left. iroh then finishes, or stops, the stream.

### Bootstrap, Dial, Connection, Client

`Bootstrap` has the static `initialized` of the Java class, the context that ndk-context keeps, and
what each engine's attach came to. `AttachFails` is an exception at any step of the bootstrap; the
embedding logs it and starts the Dart program all the same. `BindAborts` is the panic of iroh-dns
without a context, which ends the process in a release build (`panic = "abort"`).

`dial[d]` is one `connect`: it resolves when the address has no transport, by DNS or by the Dart
resolver. `ResolverAnswers` takes any parts, also ones that do not parse, `ResolverThrows` panics
in the glue of FRB. `AbandonConnect` is a Dart timeout.

In `Connection` a queue stands for what waits inside iroh for each kind of call: datagrams (the
oldest is pushed out of a full buffer), streams of the peer, credit to open one. `accept` and
`open` stand for the bidirectional and the unidirectional calls alike. `Call` spawns the task,
`Take` is its wake-up, with up to `maxCount` items for a batch, `Deliver` the message to Dart and
`Abandon` a timeout. The numbers of the items are the order in which they arrived. A batch call
allocates its answer first: `TooMany` stands for each `maxCount` that cannot be allocated, an error
of that call (`AllocationError`) in a debug build and the end of the process in a release build.

`Client` puts these together. Closing the endpoint closes the connection; no step is possible
after the process aborted.

### FfiTable, FfiCalls, SseCodec, Ffi

A row of `FfiTable` has the name of a wire function, how it runs (sync, normal, async), the object
it locks and for what, the types it decodes and encodes, and whether it can fail. The numbers of
the two dispatchers and the order in which the Dart methods write their arguments are there too.

In `FfiCalls` an object is a number with a type and a count (`strong`). `held` are the objects with
a wrapper, `mail` those in results under way, `lost` those whose isolate is gone. `CallOn` writes
the message with a count of its own, `Guard` takes the read or write guard, `Return` drops guard
and count and sends the result. `thread` is the sync call that the Dart thread is in: `Guard` of
that call may wait, and nothing else of Dart goes on while it does. `Collect` is a finalizer, at
any time. `Restart` runs all finalizers and leaves the calls in flight.

`SseCodec` encodes and decodes bytes as the generated code does, a decoder returning what is left
or `Panic`. Numbers are scaled down: `Byte` values of a byte, `Len32` and `Len64` bytes. `Ffi`
compares for each function what one half wrote with what the other half reads, with the type
the Dart declaration and the Rust declaration each give.

### PrebuiltCache and Loader

`dest` and `tmp` are the two names, `prebuiltCacheLibPath` and the same with `.tmp`; they point to
inodes, whose parts are in `content`. A rename moves a name, opening a file for writing truncates
the inode that has the name. `inst[i]` is how far the process is; `Kill` may end it at any step.
`Download` to `RenameTmp` are the awaits of `bin/setup.dart`; `OpenDest`, `CopyPart` and `CopyDone`
are the one `copySync` of `bin/build.dart`, which the operating system does not make atomic (it
opens the target in place, as on Linux). With `Overlap` two installers run at once.

`Loader` adds one isolate with some calls of `Iroh.init`. `CallInit` is `ensureInitialized` up to
its await, `CheckAbi` the rest. `near` is what the loader finds before the cache, `far` what it
finds after it; both are fixed at the start. RustLib.init is external: flutter_rust_bridge keeps
the library before its first await and refuses a second one.

## 3. Runs

| Run | Instance | What it shows |
|---|---|---|
| `bridge_two` | a path subscription and a watcher of one isolate, a restart | a stream that somebody may still listen to is never aborted, also when tokens repeat; until the restart a task that outlives its subscription keeps its handle in the registry; after it, every task still ends with its source |
| `bridge_one` | one subscription of either kind, 4 changes, backlog 1 | every event is told or counted, a stream that ends is complete, the bridge implements `CancellableStream`, an abort stops the task and closes the port, a listener of a watcher ends up with the last value |
| `bridge_leak` | 1 subscription | violated: `CancelStopsTask`, see findings |
| `accept` | 2 attempts, 2 accept calls, 2 decisions | an attempt is in one hand, and in one that has yet to answer while the peer waits; a connection has an owner, one decision takes; close releases callers, a taken peer is answered |
| `router` | 1 attempt, 2 registrations of one protocol, 2 spawns, 1 accept call, 2 shutdowns; either build | no registration that returned is lost, one hand per attempt over router and endpoint, none of it forgotten while its peer waits, quiet after the shutdown that joined the loop, every shutdown returns unless a callback that throws ends the process |
| `halves_data` | 2 writes and a finish; read, 2 readExact (one of a negative length), readToEnd with a negative limit; debug build | writes and reads do not mix, a readToEnd that succeeds has everything that was written |
| `halves_live` | write, finish, reset; 2 readExact (one of a negative length), stop; release build | which events free a blocked half, the drop of the other half and the end of the reading process among them |
| `client` | 2 engines, 1 connect to one of 2 peers, 2 calls on the connection, 3 datagrams, no stream of the peer; either build | an engine that attached can bind, what arrives reaches Dart unless Dart gave up on the call that took it, later reads get later items, close frees every call |
| `ffi` | 2 calls in flight, 4 objects, a restart; all 63 functions for the format | counts are the owners, a freed object stays freed, arguments and results arrive, the Dart thread comes back |
| `native` | a setup, a setup with `--force` and `--no-verify`, a build, 2 calls of init | no setup shows part of a library or writes into an open one; success means installed; an initialised program has a checked library |
| `native_overlap` | 2 setups at once | violated: `NoPartialSeen` |
| `native_init` | 2 calls of init | violated: `RepeatedInitSucceeds` |

Bounds. Two subscriptions, attempts, deciders or writers are what a collision needs; the code never
looks at a third. `bridge_one` has one token, so that one of its two subscriptions is made, whichever
kind it is; with 4 changes and a backlog of 1 a receiver lags more than once. In `bridge_two` one
restart makes tokens repeat. `Window` is smaller than what is written, so that writers block. One
attempt is enough in `router`, since what is in question is who gets it; a retry puts it back in
the queue. Two parts of a library are enough for a half one; three installers let a file be left
behind, replaced and replaced again. In `client` three datagrams overflow a buffer of two and a
batch of two leaves one behind; the peer opens no stream and gives no credit for one, so that
these calls wait until something ends them. Two calls of shutdown are one that joins the loop and
one that does not. In `ffi`
the calls are of 8 functions, one of each way to be run, to be guarded and to bring objects; the
format is checked for all 63, with samples that reach the largest unsigned number of each width;
`SseCodecProofs` has the same for all values.

`ffi` checks for deadlock. The other runs set `CHECK_DEADLOCK FALSE`: each of these systems stops
when the program makes no further call, the sources are closed, every installer has ended or the
process has aborted.

Fairness. Workers of FRB, tokio tasks, the event loop and the delivery of QUIC packets on a living
connection go on while they can and their process has not aborted, and a connection to a process
that is gone times out (the idle timeout of QUIC): weak fairness for each subscription (`bridge_one`,
`bridge_two`), for each call, decision and router step (`accept`, `router`), for each task and the
network (`halves_live`), for each connect and call (`client`). In `ffi` only handlers of sync and
normal functions are fair, since an async one may wait for the peer as long as it likes: the Dart
thread comes back nonetheless. No fairness for what a user, a peer or the network does: calls,
cancels, closes, restarts, lost connections, Dart resolvers and callbacks of the router, garbage
collection. Fairness of the event loop includes that a listener is not paused for ever. A handshake
and a lookup by DNS end, in success or failure, because they have timeouts.

### Findings

* `bridge_leak`: a subscription that is cancelled between `Spawn` and `Register` (or before) is not
  aborted; the task runs until its source closes or its next item finds the port closed.
  `lib/src/endpoint.dart:36` says that the task stops immediately.
* `native_overlap`: two setups share `$dest.tmp`. One truncates it when the other is about to
  rename it, and the loader sees part of a library, which `setup.dart:68-69` rules out.
* `native_init`: `_initialised` is set after the await. A call in between calls `RustLib.init`
  again and throws, although `runtime.dart:6-7` allows more than one call.

More follows from the models and has no run of its own:

* Tokens are unique per isolate, the registry is one per process. With two engines the cancel of
  one stream may stop that of another; the theorems that rule this out assume one engine. With one
  engine a hot restart makes tokens repeat: no living stream is aborted by it, but an old task that
  unregisters removes the handle of a new stream, whose cancel then finds none.
* A second `Router.shutdown` while the first one waits returns before the router has stopped;
  `router.dart:47` says of each that it stops the accept loop.
* `Incoming.accept()` without `await`, then `refuse()`: the refusal wins and `accept` fails,
  although `connection.rs:49-50` speaks of the first decision.
* A negative `sizeLimit` of `readToEnd` arrives as a huge one. A negative or huge length of `read`
  and `readExact`, and a huge `maxCount`, end the process in a release build.
* An object in a result that the isolate never receives, because it restarted, is never freed
  (`lost` in `FfiCalls`).
* A Dart resolver, or a Dart handler of the router, that throws ends the process in a release build.

## 4. Proofs

All theorems hold for every value of the constants that the named assumptions of the modules
admit: any number of subscriptions, isolates, calls, attempts, installers, and any bound. Each
invariant is a conjunction of named parts; the proof that a step keeps it has one step per action.

`StreamBridgeProofs`:

* `TypeCorrect`: `Spec => []TypeOK`.
* `AbortNeedsToken`: `Spec => []AbortSharesToken`, with restarts and many isolates.
* `NoForeignAbort`: `Spec => []LiveNeverAborted` if there is one isolate, however often it is
  restarted: no cancel stops a stream that somebody may still listen to.
* `NoHandleLost`: `Spec => []LeakIsRegistered` under the same assumption, until a restart.

None of the last three is inductive. `AbortSharesToken` needs `TokenInv`: a registry entry under
`t` belongs to a subscription that drew `t`. `LiveNeverAborted` needs `EndInv`, below: the tokens of
the subscriptions that are still living are distinct. `LeakIsRegistered`
needs that in the first life all tokens are distinct and below the counter, and where a handle is
at each stage of `ffi` and `task`; it is stated as `restarts = 0 => FirstLife`, which a restart
makes true for good.

And of what the listener is told:

* `EveryEventTold`: `Spec => []EveryEventCounted`. `OrderInv` reads the listener, the controller,
  the port and the hand of the task as one `Line`, whose items are in order and account for every
  event up to the position of the task.
* `EndMeansComplete`: `Spec => []DoneMeansComplete` with one engine, restarted as often as one
  likes. `EndInv` needs that an aborted task belongs to a subscription that is over, which holds
  across restarts because tokens of the subscriptions that are still living are distinct.
* `KeepsPromise`: with one engine, `Spec` implies the `Spec` of `CancellableStream` under the
  mapping of `Abstract`, the safety half of `ImplementsPromise`. `StepRefines` maps each action to
  an action of the abstract specification or to a stutter.

`EndpointAcceptProofs`:

* `TypeCorrect`, `DecidedOnce` (`Spec => []OneVerdict`), `AttemptHeldOnce` (`Spec => []HeldOnce`),
  `ConnectionIsOwned` (`Spec => []ConnectedHasOwner`). `HandInv` says for each pair of hands that
  an attempt is not in both; `WaitInv` that a peer that waits is in a hand that has yet to answer
  (an `Option` is full only after `acceptIncoming`, `InnerInv`); `VerdictInv` that a decision which took the attempt left `inner`
  empty and that no other decision on this object has one; `OwnerInv` and
  `ConnInv` follow an attempt from the hand that took it to its connection.

`RouterProofs`, on the combined state of endpoint and router:

* `RouterTypeCorrect`, `RegistrationCounts` (`[]RegisteredIsServed`; `TableInv` and `RegInv` say
  where a registration is before and after the spawn that takes the builder), `ShutdownIsQuiet`
  (`[]QuietAfterShutdown`, by `StopInv`: a call that waits has cancelled the token, so that the loop
  is on its way to the end whatever other calls find), `HeldOnceWithRouter` (`[]HeldOnceOverall`, by `ServeInv`,
  `HandsInv` of the endpoint, and `AnsweredInv` for the peers that wait: the router's loop is one
  more hand, and no panic or loss of the `Router` leaves it full).

`StreamHalvesProofs`:

* `TypeCorrect`, with `LockInv`: a call is in line at the mutex exactly while it is locked, once.
* `WritesKeepOrder` (`[]WritesInOrder`), `ReadsKeepOrder` (`[]ReadsInOrder`) and `EndCutsNothing`
  (`[]EndIsComplete`). `WriteInv` says that a write_all which has begun holds the mutex and wrote the
  last byte of the stream, `ReadInv` that the buffers of the reads cut `sent` into pieces,
  `EndInv` what a read_to_end knows when it sees the end.
* `HalvesNeverDeadlock`: `Spec => []StreamGoesOn`. Each half keeps its mutex across an await, so
  one blocked call blocks all of its half. The task in front, or the network, can go on, unless a
  write waits for a read of what has arrived or a read for a write; never both. `SenderMoves`,
  `ReaderMoves` and `NetworkMoves` state the guards, since the provers know no `ENABLED`. A reading
  process that aborted moves no more, and its connection times out.

`ClientProofs`:

* `BootedNeverAborts`: `Spec => []AttachedCanBind`, by `BootInv`: the flag is set only with the
  context, and an engine that attached saw it set.
* `ReadsAreFresh`: `Spec => []FreshReads`, by `ReadInv`: queues ascend, and what Dart had when a
  call began is older than what waits.
* `NothingIsLost`: `Spec => []LostOnlyToTimeouts`. `PlaceInv` adds to `ReadInv` that every item that
  arrived is in the queue, dropped or with a call (`AllPlaced`), that no two calls share one
  (`Apart`), that the dropped ones are older than the queue, and that what a call took stays with
  it until Dart has it or gave up (`KeptForDart`).

`FfiCallsProofs`:

* `Types`, `Counts` (`[]CountIsOwners`) and `FreedForGood` (`FreedStaysFreed`), by `IInv`: the
  types, `OneHolder` (the Dart side has an object in one place), that numbers from `next` on are
  unused, and the count itself.
* `AllFunctionsFit`: the 63 functions meet `RowsAssumption`, under which the above is proved.
* `DartThreadNeverWaits`: if `Rows` are among the 63 functions, `Spec => []ThreadGoesOn`: no guard
  is in the way of the sync call that the Dart thread is in. `ThreadInv`: every call in flight
  locks for reading. One function with a write guard would break it.

`SseCodecProofs`, for any widths that meet `WidthAssumption`, so also for those of the wire:

* `RoundTrip`: for every type of an argument and every value it can carry, the decoder of Rust
  takes from the message exactly what Dart wrote and returns the value. `Values` are the numbers
  that the width holds, and texts and lists of any length that an i32 counts.
* `CallArrives`: for every method and all such arguments, the function under its number is the
  one with its name, and it decodes these arguments and no byte is left. It needs that the two
  dispatchers and the order of the arguments agree, 63 rows on each side.
* `AnswerArrives` and `SentAsRead`: the same for the answers of Dart callbacks, and for results and
  errors on their way to Dart, field by field.
* `ArgumentsAlwaysArrive` (`[]ArgumentsArrive`) and `ResultsAlwaysArrive` (`[]ResultsArrive`): what
  the run `ffi` checks with its samples, for all widths.
* `HandlesAreCarried`: the number of an object that Dart has is one of these values, as long as
  there are not more objects than a `Len64` counts.

`Parses(decoder, bytes, value)` says that a decoder turns `bytes`, whatever follows them, into
`value` and leaves what follows. It is proved for the numbers, then for chains of decoders, then
for lists. Induction over the length of a list is stated of a set of numbers, not of a predicate
(`Induction`), because the provers cannot instantiate a theorem that takes an operator.

`LoaderProofs`:

* `TypeCorrect`: `Spec => []LoaderTypeOK`, also when installers overlap.
* `NoHalfSetup`: `Spec => []SetupInstallsWhole`, `SuccessMeansInstalled`: `Spec =>
  InstalledIsThere`, `OnlyVerifiedShown`: `Spec => []OnlyVerified` and `SetupsKeepMapped`:
  `Spec => SetupKeepsMapped`, each if `~Overlap`. The assumption is in the statements;
  `native_overlap` shows why the first needs it.
* `InitIsChecked`: `Spec => []InitialisedIsChecked`, `LaterCallsSucceed`: `Spec => SuccessLasts`,
  whatever the installers do.

`SetupInstallsWhole` says only what is at `dest`. `CacheInv` adds why: one installer is busy, the
temporary file is that of the setup that writes, is not `dest`, and holds the first `pos` parts; a
build that copies writes to `dest`; an installer that has opened nothing has created no inode.
`MappedInv` adds that an inode a program has opened is never the temporary one.

Proved without a run of their own: `AbortSharesToken`, `OnlyVerified`, `SuccessLasts`, the types of
`Router` and of `StreamHalves`, `StreamGoesOn`, `ThreadGoesOn`, the theorems of `SseCodecProofs`
other than those about the two properties of `ffi`, and the safety half of the refinement.

Model-checked only: the liveness properties, since TLAPS treats neither fairness nor `ENABLED`.
They are `TasksEndWithSource`, `AbortStops`, `WatchConverges` and the live half of
`ImplementsPromise`; `CloseReleases`, `TakenIsAnswered` and `ShutdownCompletes`; the three of
`halves_live`; `DartThreadReturns` and `CloseReleasesAll`. Every invariant and every action property
of the passing runs has a theorem.

## 5. Not modelled

* Of a connection: `sendDatagram` and `sendManyDatagrams`, one call into iroh without state of
  their own, and the getters (`remoteId`, `alpn`, `stats`).
* What the key functions compute, which iroh-base does; errors and capabilities, types without
  behaviour. That their arguments arrive is part of `ffi`.
* The `libraryPath` argument of `Iroh.init`, which replaces the search by one path; argument errors
  of `bind` and the relay mode, which the value classes of Dart rule out.
* The DCO codec and the web build of the bindings, which the package does not use; the vendored
  cargokit; build and release scripts; the second copy of the crate.
* Outside `src/` and modelled from its use: iroh, tokio, the FRB runtime (reference counts, guards
  and finalizers, the id generator), the Dart VM. The models assume that a closed endpoint ends the
  lookup of addresses, that the embedding starts Dart after a failed attach, that iroh finishes or
  stops a half that is dropped, and that tokio's mutex is fair.

## 6. Plan

1. The safety halves of more of the liveness properties, as `ThreadGoesOn` and `StreamGoesOn` are:
   what a blocked accept call or a blocked connect may be waiting for.
2. `libraryPath` and several isolates in `Loader`.
3. Two connections in `Client`, with a stream of `StreamHalves` on each.
