------------------------------- MODULE Router -------------------------------
(***************************************************************************)
(* RouterBuilder, Router and DartProtocolHandler (rust/src/api/router.rs)   *)
(* on top of the accepting endpoint: the router's accept loop competes     *)
(* with Endpoint.accept and acceptIncoming for the same inbound attempts.  *)
(*                                                                         *)
(* RouterBuilder.accept and spawn run on FRB workers, so calls that Dart   *)
(* does not await may reach the builder in any order.  iroh's Router is    *)
(* modelled from how router.rs uses it.                                    *)
(***************************************************************************)
EXTENDS EndpointAccept

CONSTANTS
    Regs,         \* calls of RouterBuilder.accept, each with its own handler
    Spawns,       \* calls of RouterBuilder.spawn
    RegAlpn,      \* [Regs -> Alpns] the protocol each registers for
    Shutdowns,    \* calls of Router.shutdown
    NoReg

ASSUME RegAssumption == RegAlpn \in [Regs -> Alpns] /\ NoReg \notin Regs

VARIABLES
    builder,      \* Option<IrohRouterBuilder>: is it Some?
    table,        \* [Alpns -> handlers registered so far, by call]
    reg,          \* [Regs -> CallResult]
    spawned,      \* [Spawns -> CallResult]
    running,      \* the accept loop: "off", "on", "stopping", "stopped", "released"
    serving,      \* [Attempts -> Serving] what the router does with an attempt
    handler,      \* [Attempts -> Regs \cup {NoReg}] whose Dart callback it got
    shutdown,     \* [Shutdowns -> ShutdownState]
    build,        \* "release" or "debug"
    process       \* "up" or "aborted"

rvars == <<builder, table, reg, spawned, running, serving, handler, shutdown>>
processVars == <<build, process>>
allVars == <<vars, rvars, processVars>>

CallResult == {"idle", "queued", "ok", "error"}
Serving    == {"none", "handshake", "callback", "done", "failed", "panicked"}

(* A call waits for the loop and joins it, or found it stopping already.    *)
ShutdownState == {"idle", "waiting", "joined", "early"}

RouterTypeOK ==
    /\ builder \in BOOLEAN
    /\ table \in [Alpns -> Regs \cup {NoReg}]
    /\ reg \in [Regs -> CallResult]
    /\ spawned \in [Spawns -> CallResult]
    /\ running \in {"off", "on", "stopping", "stopped", "released"}
    /\ serving \in [Attempts -> Serving]
    /\ handler \in [Attempts -> Regs \cup {NoReg}]
    /\ shutdown \in [Shutdowns -> ShutdownState]
    /\ build \in {"release", "debug"}
    /\ process \in {"up", "aborted"}

RouterInit ==
    /\ Init
    /\ builder = TRUE
    /\ table = [p \in Alpns |-> NoReg]
    /\ reg = [r \in Regs |-> "idle"]
    /\ spawned = [w \in Spawns |-> "idle"]
    /\ running = "off"
    /\ serving = [a \in Attempts |-> "none"]
    /\ handler = [a \in Attempts |-> NoReg]
    /\ shutdown = [h \in Shutdowns |-> "idle"]
    /\ build \in {"release", "debug"}
    /\ process = "up"

-----------------------------------------------------------------------------
(* RouterBuilder.                                                          *)

CallReg(r) ==
    /\ reg[r] = "idle"
    /\ reg' = [reg EXCEPT ![r] = "queued"]
    /\ UNCHANGED <<vars, builder, table, spawned, running, serving, handler, shutdown>>

(* Mutant: registers only if there is a builder and never complains.       *)
RegisterSilently(r) ==
    /\ reg[r] = "queued"
    /\ reg' = [reg EXCEPT ![r] = "ok"]
    /\ table' = IF builder THEN [table EXCEPT ![RegAlpn[r]] = r] ELSE table
    /\ UNCHANGED <<vars, builder, spawned, running, serving, handler, shutdown>>

(* The builder is taken and put back under one guard.                      *)
RegisterHandler(r) ==
    /\ reg[r] = "queued"
    /\ reg' = [reg EXCEPT ![r] = IF builder THEN "ok" ELSE "error"]
    /\ table' = IF builder THEN [table EXCEPT ![RegAlpn[r]] = r] ELSE table
    /\ UNCHANGED <<vars, builder, spawned, running, serving, handler, shutdown>>

CallSpawn(w) ==
    /\ spawned[w] = "idle"
    /\ spawned' = [spawned EXCEPT ![w] = "queued"]
    /\ UNCHANGED <<vars, builder, table, reg, running, serving, handler, shutdown>>

(* Takes the builder for good; iroh sets the protocols of the endpoint and  *)
(* starts the accept loop.                                                 *)
Spawn(w) ==
    /\ spawned[w] = "queued" /\ builder
    /\ spawned' = [spawned EXCEPT ![w] = "ok"]
    /\ builder' = FALSE
    /\ running' = "on"
    /\ alpns' = IF open THEN {p \in Alpns : table[p] # NoReg} ELSE alpns
    /\ UNCHANGED <<open, queue, peerVars, call, kind, held, abandoned, inner, dec,
                   table, reg, serving, handler, shutdown>>

SpawnFails(w) ==
    /\ spawned[w] = "queued" /\ ~builder
    /\ spawned' = [spawned EXCEPT ![w] = "error"]
    /\ UNCHANGED <<vars, builder, table, reg, running, serving, handler, shutdown>>

-----------------------------------------------------------------------------
(* The accept loop: one task per attempt.                                  *)

LoopTakes ==
    /\ running = "on" /\ queue # <<>>
    /\ queue' = Tail(queue)
    /\ StartHandshake(Head(queue))
    /\ serving' = [serving EXCEPT ![Head(queue)] = "handshake"]
    /\ UNCHANGED <<epVars, peer, validated, call, kind, held, abandoned, inner,
                   dec, builder, table, reg, spawned, running, handler, shutdown>>

(* The handshake is done: the handler of its protocol gets the connection; *)
(* without one (the protocols were changed meanwhile) it is dropped.       *)
Dispatch(a) ==
    /\ serving[a] = "handshake" /\ HandshakeSucceeds(a)
    /\ peer' = Tell(a, "connected")
    /\ handler' = [handler EXCEPT ![a] = table[AlpnOf[a]]]
    /\ serving' = [serving EXCEPT ![a] =
                     IF table[AlpnOf[a]] = NoReg THEN "failed" ELSE "callback"]
    /\ UNCHANGED <<epVars, queue, validated, fits, call, kind, held, abandoned, inner,
                   dec, builder, table, reg, spawned, running, shutdown>>

ServeFails(a) ==
    /\ serving[a] = "handshake"
    /\ peer' = Tell(a, "failed")
    /\ serving' = [serving EXCEPT ![a] = "failed"]
    /\ UNCHANGED <<epVars, queue, validated, fits, call, kind, held, abandoned, inner,
                   dec, builder, table, reg, spawned, running, handler, shutdown>>

(* The future of the Dart callback completes.                              *)
CallbackReturns(a) ==
    /\ serving[a] = "callback"
    /\ serving' = [serving EXCEPT ![a] = "done"]
    /\ UNCHANGED <<vars, builder, table, reg, spawned, running, handler, shutdown>>

(* It throws: the glue of FRB expects success and panics.  In a debug build *)
(* the panicked task ends iroh's accept loop, a release build aborts.      *)
CallbackThrows(a) ==
    /\ serving[a] = "callback" /\ build = "debug"
    /\ serving' = [serving EXCEPT ![a] = "panicked"]
    /\ running' = IF running = "on" THEN "stopping" ELSE running
    /\ UNCHANGED <<vars, builder, table, reg, spawned, handler, shutdown>>

CallbackAborts(a) ==
    /\ serving[a] = "callback" /\ build = "release"
    /\ process' = "aborted"
    /\ UNCHANGED <<vars, rvars, build>>

(* The token is cancelled by the first shutdown and at the end of the loop. *)
Cancelled == running = "stopped" \/ \E h \in Shutdowns : shutdown[h] # "idle"

(* Mutant: waits for the end of the loop without asking for it.            *)
CallShutdownWaits(h) ==
    /\ shutdown[h] = "idle" /\ running \notin {"off", "released"}
    /\ shutdown' = [shutdown EXCEPT ![h] = IF Cancelled THEN "early" ELSE "waiting"]
    /\ UNCHANGED <<vars, builder, table, reg, spawned, running, serving, handler>>

(* Router::shutdown cancels the loop and takes its task to wait for it; a   *)
(* later call finds the token cancelled and returns without waiting.       *)
CallShutdown(h) ==
    /\ shutdown[h] = "idle" /\ running \notin {"off", "released"}
    /\ shutdown' = [shutdown EXCEPT ![h] = IF Cancelled THEN "early" ELSE "waiting"]
    /\ running' = IF running = "on" /\ ~Cancelled THEN "stopping" ELSE running
    /\ UNCHANGED <<vars, builder, table, reg, spawned, serving, handler>>

(* A closed endpoint ends the loop too.                                    *)
LoopSeesClosed ==
    /\ running = "on" /\ ~open
    /\ running' = "stopping"
    /\ UNCHANGED <<vars, builder, table, reg, spawned, serving, handler, shutdown>>

(* The garbage collector releases the Router of a program that forgot it:  *)
(* the loop and its tasks are aborted, the endpoint stays open.            *)
Release ==
    /\ running \in {"on", "stopping"} /\ \A h \in Shutdowns : shutdown[h] # "waiting"
    /\ running' = "released"
    /\ serving' = [a \in Attempts |->
                     IF serving[a] \in {"handshake", "callback"} THEN "failed"
                     ELSE serving[a]]
    /\ peer' = [a \in Attempts |->
                   IF serving[a] = "handshake" THEN Tell(a, "failed")[a] ELSE peer[a]]
    /\ UNCHANGED <<epVars, queue, validated, fits, call, kind, held, abandoned, inner,
                   dec, builder, table, reg, spawned, handler, shutdown>>

(* The loop closes the endpoint and aborts the tasks that still serve.     *)
LoopStops ==
    /\ running = "stopping"
    /\ running' = "stopped"
    /\ open' = FALSE
    /\ queue' = <<>>
    /\ peer' = [a \in Attempts |->
                   IF peer[a] = "connecting" /\ Contains(queue, a) THEN "refused"
                   ELSE IF peer[a] = "connecting" /\ serving[a] = "handshake"
                        THEN "failed" ELSE peer[a]]
    /\ serving' = [a \in Attempts |->
                     IF serving[a] \in {"handshake", "callback"} THEN "failed"
                     ELSE serving[a]]
    /\ UNCHANGED <<alpns, validated, fits, call, kind, held, abandoned, inner,
                   dec, builder, table, reg, spawned, handler, shutdown>>

(* Mutant: returns without joining the task.                               *)
ShutdownReturnsEarly(h) ==
    /\ shutdown[h] = "waiting"
    /\ shutdown' = [shutdown EXCEPT ![h] = "joined"]
    /\ UNCHANGED <<vars, builder, table, reg, spawned, running, serving, handler>>

(* The loop itself does not panic, so shutdown has no error to report.      *)
ShutdownReturns(h) ==
    /\ shutdown[h] = "waiting" /\ running = "stopped"
    /\ shutdown' = [shutdown EXCEPT ![h] = "joined"]
    /\ UNCHANGED <<vars, builder, table, reg, spawned, running, serving, handler>>

-----------------------------------------------------------------------------
Building == \/ \E r \in Regs : RegisterHandler(r)
            \/ \E w \in Spawns : Spawn(w) \/ SpawnFails(w)

Serve(a) == Dispatch(a) \/ ServeFails(a)

Callback(a) == CallbackReturns(a) \/ CallbackThrows(a)

Loop == LoopTakes \/ LoopSeesClosed \/ LoopStops

RouterStep ==
    \/ \E r \in Regs : CallReg(r)
    \/ \E w \in Spawns : CallSpawn(w)
    \/ Building \/ Loop \/ Release
    \/ \E h \in Shutdowns : CallShutdown(h) \/ ShutdownReturns(h)
    \/ \E a \in Attempts : Serve(a) \/ Callback(a)

(* A step of the process while it runs.                                    *)
Up(A) == process = "up" /\ A /\ UNCHANGED processVars

RouterNext ==
    \/ Up(Next /\ UNCHANGED rvars)
    \/ Up(RouterStep)
    \/ process = "up" /\ \E a \in Attempts : CallbackAborts(a)

RouterSpec == RouterInit /\ [][RouterNext]_allVars

(* Workers and tokio tasks run; a Dart callback need not return.           *)
RouterFairness ==
    /\ WF_allVars(Up(Building)) /\ WF_allVars(Up(Loop))
    /\ \A h \in Shutdowns : WF_allVars(Up(ShutdownReturns(h)))
    /\ \A a \in Attempts : WF_allVars(Up(Serve(a)))
    /\ \A c \in Calls : WF_allVars(Up(Accepting(c) /\ UNCHANGED rvars))
    /\ \A d \in Deciders : WF_allVars(Up(Deciding(d) /\ UNCHANGED rvars))

RouterFairSpec == RouterSpec /\ RouterFairness

-----------------------------------------------------------------------------
(* Properties.                                                             *)

(* A registration that answered without error counts: while a router runs, *)
(* its protocol has a handler whose registration succeeded, also when the  *)
(* spawn overtook it on another worker.                                    *)
RegisteredIsServed ==
    \A r \in Regs : reg[r] = "ok" =>
        /\ table[RegAlpn[r]] # NoReg
        /\ reg[table[RegAlpn[r]]] = "ok"
        /\ RegAlpn[table[RegAlpn[r]]] = RegAlpn[r]

(* An attempt is never both with the router and with an accept call or an  *)
(* Incoming of the same endpoint; and while its peer waits, one of them has *)
(* it, also when the router was stopped or forgotten.                      *)
HeldOnceOverall ==
    \A a \in Attempts :
        /\ Cardinality(Holders(a))
           + (IF serving[a] \in {"handshake", "callback"} THEN 1 ELSE 0) <= 1
        /\ peer[a] = "connecting" => Pending(a) \/ serving[a] = "handshake"

(* The shutdown that joins the loop returns only when no Dart callback can  *)
(* start any more, and none is being served, however many shutdowns overlap *)
(* and whatever stopped the loop first.                                    *)
QuietAfterShutdown ==
    \A h \in Shutdowns : shutdown[h] = "joined" =>
        /\ ~open
        /\ \A a \in Attempts : serving[a] \notin {"handshake", "callback"}

(* Every shutdown returns even when a Dart callback never completes, unless *)
(* a callback that throws aborts the process.                              *)
ShutdownCompletes ==
    \A h \in Shutdowns : shutdown[h] = "waiting" ~> shutdown[h] = "joined" \/ process = "aborted"
=============================================================================
