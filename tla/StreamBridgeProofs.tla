------------------------- MODULE StreamBridgeProofs -------------------------
(***************************************************************************)
(* Proofs about StreamBridge for every number of subscriptions, isolates,  *)
(* tokens, versions and restarts.                                          *)
(***************************************************************************)
EXTENDS StreamBridge, SequenceTheorems, TLAPS

-----------------------------------------------------------------------------
(* What stream.next() answers lies beyond what the receiver had seen and    *)
(* within what the source has: NextItem never computes a negative count.   *)
LEMMA NextItemAdvances ==
    ASSUME TypeOK, NEW s \in Subs, HasNext(s)
    PROVE  /\ NextItem(s) \in Items
           /\ NextItem(s).pos > seen[s]
           /\ NextItem(s).pos <= version[KindOf[s]]
<1> DEFINE lag == version["path"] - Backlog - seen[s]
<1>1. /\ KindOf[s] \in Kinds
      /\ version["watch"] \in Nat /\ version["path"] \in Nat
      /\ seen[s] \in Nat /\ Backlog \in Nat \ {0}
      /\ version[KindOf[s]] > seen[s]
  BY KindAssumption, BoundAssumption DEF TypeOK, Kinds, HasNext
<1>2. CASE KindOf[s] = "watch"
  <2>1. NextItem(s) = [pos |-> version["watch"], missed |-> 0]
    BY <1>2 DEF NextItem
  <2> QED BY <1>1, <1>2, <2>1 DEF Items
<1>3. CASE KindOf[s] = "path" /\ lag > 0
  <2>1. NextItem(s) = [pos |-> seen[s] + lag, missed |-> lag]
    BY <1>3 DEF NextItem, MapPathEvent
  <2>2. lag \in Nat /\ seen[s] + lag \in Nat /\ seen[s] + lag = version["path"] - Backlog
    BY <1>1, <1>3
  <2> QED BY <1>1, <1>3, <2>1, <2>2 DEF Items
<1>4. CASE KindOf[s] = "path" /\ ~(lag > 0)
  <2>1. NextItem(s) = [pos |-> seen[s] + 1, missed |-> 0]
    BY <1>4 DEF NextItem, MapPathEvent
  <2> QED BY <1>1, <1>4, <2>1 DEF Items
<1> QED BY <1>1, <1>2, <1>3, <1>4 DEF Kinds

(* Type correctness is inductive by itself.                                *)
LEMMA TypeInit == Init => TypeOK
<1>1. <<>> \in Seq(Messages) /\ <<>> \in Seq(Items) /\ NoItem \in Items
  BY DEF NoItem, Items
<1> QED
  BY <1>1, BoundAssumption
  DEF Init, TypeOK, Kinds, Tokens, DartState, FfiState, TaskState

LEMMA AbortStreamType ==
    ASSUME TypeOK, NEW t, AbortStream(t)
    PROVE  /\ aborted' \in [Subs -> BOOLEAN]
           /\ registry' \in [Tokens -> Subs \cup {NoSub}]
<1>1. registry' \in [Tokens -> Subs \cup {NoSub}]
  BY DEF AbortStream, TypeOK
<1>2. \A s \in Subs : (aborted[s] \/ registry[t] = s) \in BOOLEAN
  BY Zenon
<1> QED BY <1>1, <1>2, Zenon DEF AbortStream

LEMMA TypeStep == TypeOK /\ [Next]_vars => TypeOK'
<1> SUFFICES ASSUME TypeOK, [Next]_vars PROVE TypeOK'
  OBVIOUS
<1> USE IsolateAssumption, KindAssumption, BoundAssumption
<1>1. ASSUME NEW s \in Subs, Create(s) PROVE TypeOK'
  BY <1>1, SMTT(30) DEF TypeOK, Create, DartState, srcVars, portVars, taskVars
<1>2. ASSUME NEW s \in Subs, Listen(s) PROVE TypeOK'
  BY <1>2 DEF TypeOK, Listen, DartState, FfiState, srcVars, taskVars
<1>3. ASSUME NEW s \in Subs, Cancel(s) PROVE TypeOK'
  <2>1. AbortStream(token[s])
    BY <1>3 DEF Cancel
  <2> QED
    BY <1>3, <2>1, AbortStreamType, SMTT(30)
    DEF TypeOK, Cancel, DartState, srcVars, portVars, taskVars
<1>4. ASSUME NEW s \in Subs, Receive(s) PROVE TypeOK'
  <2>1. Head(port[s]) \in Messages /\ Tail(port[s]) \in Seq(Messages)
    BY <1>4 DEF Receive, TypeOK
  <2>2. Append(buf[s], Head(port[s])) \in Seq(Messages)
    BY <2>1 DEF TypeOK
  <2> QED
    BY <1>4, <2>1, <2>2 DEF TypeOK, Receive, srcVars, taskVars
<1>5. ASSUME NEW s \in Subs, ReceiveCancelled(s) PROVE TypeOK'
  BY <1>5 DEF TypeOK, ReceiveCancelled, srcVars, taskVars, dartVars
<1>6. ASSUME NEW s \in Subs, Deliver(s) PROVE TypeOK'
  <2>1. Head(buf[s]) \in Items /\ Tail(buf[s]) \in Seq(Messages)
    BY <1>6 DEF Deliver, TypeOK, Messages
  <2>2. Append(got[s], Head(buf[s])) \in Seq(Items)
    BY <2>1 DEF TypeOK
  <2> QED
    BY <1>6, <2>1, <2>2 DEF TypeOK, Deliver, srcVars, portVars, taskVars
<1>7. ASSUME NEW s \in Subs, DeliverDone(s) PROVE TypeOK'
  <2>1. AbortStream(token[s])
    BY <1>7 DEF DeliverDone
  <2> QED
    BY <1>7, <2>1, AbortStreamType, SMTT(30)
    DEF TypeOK, DeliverDone, DartState, srcVars, portVars, taskVars
<1>8. ASSUME NEW s \in Subs, Spawn(s) PROVE TypeOK'
  BY <1>8 DEF TypeOK, Spawn, FfiState, TaskState, Kinds, srcVars, dartVars, portVars
<1>9. ASSUME NEW s \in Subs, Register(s) PROVE TypeOK'
  BY <1>9 DEF TypeOK, Register, RegisterStream, FfiState, srcVars, dartVars,
              portVars, taskVars
<1>10. ASSUME NEW s \in Subs, TakeNext(s) PROVE TypeOK'
  <2>1. NextItem(s) \in Items /\ NextItem(s).pos \in Nat
    BY <1>10, NextItemAdvances DEF TakeNext, Items
  <2> QED
    BY <1>10, <2>1 DEF TypeOK, TakeNext, TaskState, srcVars, dartVars, portVars
<1>11. ASSUME NEW s \in Subs, Park(s) \/ AddFails(s) \/ SourceEnds(s) PROVE TypeOK'
  BY <1>11 DEF TypeOK, Park, AddFails, SourceEnds, TaskState, srcVars, dartVars, portVars
<1>12. ASSUME NEW s \in Subs, AddOk(s) PROVE TypeOK'
  <2>1. Append(port[s], hand[s]) \in Seq(Messages)
    BY DEF TypeOK, Messages
  <2> QED
    BY <1>12, <2>1 DEF TypeOK, AddOk, TaskState, srcVars, dartVars
<1>13. ASSUME NEW s \in Subs, Unregister(s) PROVE TypeOK'
  BY <1>13 DEF TypeOK, Unregister, UnregisterStream, TaskState, srcVars, dartVars, portVars
<1>14. ASSUME NEW s \in Subs, Return(s) \/ Aborted(s) PROVE TypeOK'
  <2>0. Done \in Messages
    BY DEF Messages
  <2>1. Append(port[s], Done) \in Seq(Messages)
    BY <2>0 DEF TypeOK
  <2> QED
    <3>1. DropFuture(s)
      BY <1>14 DEF Return, Aborted
    <3>2. task' \in [Subs -> TaskState] /\ port' \in [Subs -> Seq(Messages)]
      BY <2>1, <3>1 DEF TypeOK, DropFuture, TaskState
    <3> QED
      BY <3>1, <3>2 DEF TypeOK, DropFuture, srcVars, dartVars
<1>15. ASSUME NEW k \in Kinds, Change(k) \/ CloseSource(k) PROVE TypeOK'
  <2>1. CASE Change(k)
    BY <2>1 DEF TypeOK, Change, dartVars, portVars, taskVars
  <2>2. CASE CloseSource(k)
    BY <2>2 DEF TypeOK, CloseSource, dartVars, portVars, taskVars
  <2> QED BY <1>15, <2>1, <2>2
<1>16. ASSUME NEW i \in Isolates, Restart(i) PROVE TypeOK'
  BY <1>16 DEF TypeOK, Restart, DartState, srcVars, taskVars
<1>17. CASE UNCHANGED vars
  BY <1>17 DEF TypeOK, vars, srcVars, dartVars, portVars, taskVars
<1> QED
  BY <1>1, <1>2, <1>3, <1>4, <1>5, <1>6, <1>7, <1>8, <1>9, <1>10, <1>11, <1>12,
     <1>13, <1>14, <1>15, <1>16, <1>17
  DEF Next, User, EventLoop, Worker, Task

(* The type invariant holds in every state of every instance.              *)
THEOREM TypeCorrect == Spec => []TypeOK
BY TypeInit, TypeStep, PTL DEF Spec

-----------------------------------------------------------------------------
(* Tokens.  A subscription keeps its token once drawn, the FFI call and the *)
(* task exist only after that, and the registry files every task under its *)
(* own token.                                                              *)
Over == {"ended", "cancelled", "dead"}

TokenDrawn ==
    \A s \in Subs : IF dart[s] = "new" THEN token[s] = 0 ELSE token[s] \in Tokens

CallAfterListen ==
    \A s \in Subs : /\ ffi[s] # "none" => dart[s] \notin {"new", "created"}
                    /\ task[s] # "none" => ffi[s] \in {"spawned", "returned"}

FiledByToken == \A t \in Tokens, s \in Subs : registry[t] = s => token[s] = t

TokenInv == TokenDrawn /\ CallAfterListen /\ FiledByToken /\ AbortSharesToken

(* aborting by token touches only what is filed there.                     *)
LEMMA AbortStreamOwn ==
    ASSUME TypeOK, TokenInv, NEW s \in Subs, AbortStream(token[s]), token' = token,
           token[s] \in Tokens
    PROVE  /\ FiledByToken'
           /\ \A r \in Subs : aborted'[r] => aborted[r] \/ token[r] = token[s]
<1>1. FiledByToken'
  BY NoSubAssumption DEF TypeOK, TokenInv, FiledByToken, AbortStream
<1>2. ASSUME NEW r \in Subs, aborted'[r] PROVE aborted[r] \/ token[r] = token[s]
  <2>1. aborted[r] \/ registry[token[s]] = r
    BY <1>2, Zenon DEF AbortStream
  <2> QED BY <2>1 DEF TokenInv, FiledByToken
<1> QED BY <1>1, <1>2

(* AbortSharesToken survives when the abort comes from a stream that is    *)
(* over after the step.                                                    *)
LEMMA AbortKeepsSharing ==
    ASSUME TypeOK, AbortSharesToken, token' = token, NEW s \in Subs, dart'[s] \in Over,
           \A r \in Subs : dart[r] \in Over => dart'[r] \in Over,
           \A r \in Subs : aborted'[r] => aborted[r] \/ token[r] = token[s]
    PROVE  AbortSharesToken'
<1> SUFFICES ASSUME NEW r \in Subs, aborted'[r]
             PROVE  \E q \in Subs : token'[q] = token'[r] /\ dart'[q] \in Over
  BY Zenon DEF AbortSharesToken, Over
<1>1. CASE aborted[r]
  <2>1. PICK q \in Subs : token[q] = token[r] /\ dart[q] \in Over
    BY <1>1, Zenon DEF AbortSharesToken, Over
  <2> QED BY <2>1
<1>2. CASE token[r] = token[s]
  BY <1>2
<1> QED BY <1>1, <1>2

(* Steps that change neither tokens, handles nor the state of the wrapper. *)
LEMMA TokenQuiet ==
    ASSUME TypeOK, TokenInv, CallAfterListen', UNCHANGED <<token, dart, aborted>>,
           FiledByToken'
    PROVE  TokenInv'
BY DEF TokenInv, TokenDrawn, AbortSharesToken

LEMMA TokenStep ==
    ASSUME TypeOK, TokenInv, [Next]_vars
    PROVE  TokenInv'
<1> USE DEF TokenInv
<1>1. ASSUME NEW s \in Subs, Create(s) PROVE TokenInv'
  <2>0. counter[IsolateOf[s]] + 1 \in Tokens
    <3>1. IsolateOf[s] \in Isolates
      BY IsolateAssumption
    <3>2. counter[IsolateOf[s]] \in 0..MaxToken /\ counter[IsolateOf[s]] < MaxToken
      BY <1>1, <3>1 DEF Create, TypeOK
    <3> QED BY <3>2, BoundAssumption DEF Tokens
  <2>1. TokenDrawn'
    BY <1>1, <2>0 DEF TypeOK, TokenDrawn, Create
  <2>2. CallAfterListen'
    BY <1>1 DEF TypeOK, CallAfterListen, Create, taskVars
  <2>3. FiledByToken'
    BY <1>1 DEF TypeOK, TokenDrawn, FiledByToken, Create, Tokens
  <2>4. ASSUME NEW r \in Subs, aborted[r]
        PROVE  \E q \in Subs : token'[q] = token'[r] /\ dart'[q] \in Over
    <3>1. PICK q \in Subs : token[q] = token[r] /\ dart[q] \in Over
      BY <2>4, Zenon DEF AbortSharesToken, Over
    <3>2. dart[s] = "new" /\ token[s] = 0 /\ q # s /\ token[q] \in Tokens
      BY <1>1, <3>1 DEF Create, TokenDrawn, Over
    <3>3. r # s
      BY <3>1, <3>2 DEF Tokens
    <3> QED BY <1>1, <3>1, <3>2, <3>3 DEF Create, TypeOK
  <2>5. AbortSharesToken'
    BY <1>1, <2>4, Zenon DEF AbortSharesToken, Over, Create
  <2> QED BY <2>1, <2>2, <2>3, <2>5
<1>2. ASSUME NEW s \in Subs, Listen(s) PROVE TokenInv'
  <2>1. TokenDrawn' /\ CallAfterListen' /\ FiledByToken'
    BY <1>2 DEF TypeOK, TokenDrawn, CallAfterListen, FiledByToken, Listen, taskVars, FfiState
  <2>2. \A r \in Subs : dart[r] \in Over => dart'[r] \in Over
    BY <1>2 DEF TypeOK, Listen, Over
  <2>3. AbortSharesToken'
    BY <1>2, <2>2, Zenon DEF AbortSharesToken, Over, Listen
  <2> QED BY <2>1, <2>3
<1>3. ASSUME NEW s \in Subs, Cancel(s) \/ DeliverDone(s) PROVE TokenInv'
  <2>1. /\ AbortStream(token[s]) /\ token' = token /\ ffi' = ffi /\ task' = task
        /\ dart[s] = "listening"
        /\ dart' \in {[dart EXCEPT ![s] = "ended"], [dart EXCEPT ![s] = "cancelled"]}
    BY <1>3 DEF Cancel, DeliverDone, taskVars
  <2>2. token[s] \in Tokens
    BY <2>1 DEF TokenDrawn
  <2>3. TokenDrawn' /\ CallAfterListen'
    BY <2>1, <2>2 DEF TypeOK, TokenDrawn, CallAfterListen
  <2>4. dart'[s] \in Over /\ \A r \in Subs : dart[r] \in Over => dart'[r] \in Over
    BY <2>1 DEF TypeOK, Over
  <2> QED
    BY <2>1, <2>2, <2>3, <2>4, AbortStreamOwn, AbortKeepsSharing
<1>4. ASSUME NEW s \in Subs, EventLoop(s), ~DeliverDone(s) PROVE TokenInv'
  <2>1. UNCHANGED <<token, dart, aborted, registry, ffi, task>>
    BY <1>4 DEF EventLoop, Receive, ReceiveCancelled, Deliver, dartVars, taskVars
  <2> QED
    BY <2>1, TokenQuiet DEF CallAfterListen, FiledByToken
<1>5. ASSUME NEW s \in Subs, Spawn(s) PROVE TokenInv'
  <2>1. UNCHANGED <<token, dart, aborted, registry>> /\ CallAfterListen'
    BY <1>5 DEF Spawn, dartVars, TypeOK, CallAfterListen
  <2> QED
    BY <2>1, TokenQuiet DEF FiledByToken
<1>6. ASSUME NEW s \in Subs, Register(s) PROVE TokenInv'
  <2>1. UNCHANGED <<token, dart, aborted, task>>
    BY <1>6 DEF Register, dartVars, taskVars
  <2>2. CallAfterListen'
    BY <1>6, <2>1 DEF Register, TypeOK, CallAfterListen
  <2>3. FiledByToken'
    BY <1>6, <2>1 DEF Register, RegisterStream, TypeOK, FiledByToken
  <2> QED BY <2>1, <2>2, <2>3, TokenQuiet
<1>7. ASSUME NEW s \in Subs, Task(s) PROVE TokenInv'
  <2>1. UNCHANGED <<token, dart, aborted, ffi>>
    BY <1>7 DEF Task, TakeNext, Park, AddOk, AddFails, SourceEnds, Unregister, Return,
                Aborted, DropFuture, dartVars
  <2>2. task[s] # "none" /\ \A r \in Subs : r # s => task'[r] = task[r]
    BY <1>7 DEF TypeOK, Task, TakeNext, AtNext, Park, AddOk, AddFails, SourceEnds,
                Unregister, Return, Aborted, DropFuture
  <2>3. CallAfterListen'
    BY <2>1, <2>2 DEF CallAfterListen
  <2>4. registry' = registry \/ UnregisterStream(token[s])
    BY <1>7 DEF Task, TakeNext, Park, AddOk, AddFails, SourceEnds, Unregister, Return,
                Aborted, DropFuture
  <2>5. FiledByToken'
    BY <2>1, <2>4, NoSubAssumption, SMTT(30) DEF TypeOK, FiledByToken, UnregisterStream
  <2> QED BY <2>1, <2>3, <2>5, TokenQuiet
<1>8. ASSUME NEW k \in Kinds, Change(k) \/ CloseSource(k) PROVE TokenInv'
  <2>1. UNCHANGED <<token, dart, aborted, registry, ffi, task>>
    BY <1>8 DEF Change, CloseSource, dartVars, taskVars
  <2> QED
    BY <2>1, TokenQuiet DEF CallAfterListen, FiledByToken
<1>9. ASSUME NEW i \in Isolates, Restart(i) PROVE TokenInv'
  <2>1. UNCHANGED <<token, aborted, registry, ffi, task>>
    BY <1>9 DEF Restart, taskVars
  <2>2. \A r \in Subs : \/ dart'[r] = dart[r]
                        \/ dart[r] # "new" /\ dart'[r] = "dead"
    <3>1. dart' = [r \in Subs |-> IF IsolateOf[r] = i /\ dart[r] # "new"
                                  THEN "dead" ELSE dart[r]]
      BY <1>9 DEF Restart
    <3> QED BY <3>1
  <2>3. TokenDrawn' /\ CallAfterListen' /\ FiledByToken'
    BY <2>1, <2>2 DEF TokenDrawn, CallAfterListen, FiledByToken
  <2>4. \A r \in Subs : dart[r] \in Over => dart'[r] \in Over
    BY <2>2 DEF Over
  <2>5. AbortSharesToken'
    BY <2>1, <2>4, Zenon DEF AbortSharesToken, Over
  <2> QED BY <2>3, <2>5
<1>10. CASE UNCHANGED vars
  <2>1. UNCHANGED <<token, dart, aborted, registry, ffi, task>>
    BY <1>10 DEF vars, dartVars, taskVars
  <2> QED
    BY <2>1, TokenQuiet DEF CallAfterListen, FiledByToken
<1> QED
  BY <1>1, <1>2, <1>3, <1>4, <1>5, <1>6, <1>7, <1>8, <1>9, <1>10
  DEF Next, User, Worker, EventLoop

LEMMA TokenInit == Init => TokenInv
BY NoSubAssumption DEF Init, TokenInv, TokenDrawn, CallAfterListen, FiledByToken,
                       AbortSharesToken

(* With any number of engines and hot restarts, a stream is aborted only by *)
(* a subscription that drew the same token and is over.                    *)
THEOREM AbortNeedsToken == Spec => []AbortSharesToken
<1>1. TypeOK /\ TokenInv /\ [Next]_vars => TokenInv'
  BY TokenStep
<1>2. TokenInv => AbortSharesToken
  BY DEF TokenInv
<1> QED BY TokenInit, TypeCorrect, <1>1, <1>2, PTL DEF Spec

-----------------------------------------------------------------------------
(* One engine, until it is restarted.                                      *)

OneEngine == \A s, r \in Subs : IsolateOf[s] = IsolateOf[r]

NeverRestarted == restarts = 0 /\ \A s \in Subs : dart[s] # "dead"

TokensBelowCounter == \A s \in Subs : token[s] <= counter[IsolateOf[s]]

TokensDistinct ==
    \A s, r \in Subs : token[s] # 0 /\ token[s] = token[r] => s = r

(* The registry holds every registered task that may still run and was not *)
(* told to stop.                                                           *)
Findable ==
    \A s \in Subs :
        /\ ffi[s] = "returned"
        /\ task[s] \in {"parked", "running", "adding"}
        /\ ~aborted[s]
        => registry[token[s]] = s

FirstLife == NeverRestarted /\ TokensBelowCounter /\ TokensDistinct /\ Findable

LEMMA FirstLifeInit == Init => FirstLife
BY IsolateAssumption
   DEF Init, FirstLife, NeverRestarted, TokensBelowCounter, TokensDistinct, Findable

(* Steps that draw no token.                                               *)
LEMMA FirstLifeQuiet ==
    ASSUME FirstLife, UNCHANGED <<token, counter, restarts>>,
           \A s \in Subs : dart'[s] # "dead", Findable'
    PROVE  FirstLife'
BY DEF FirstLife, NeverRestarted, TokensBelowCounter, TokensDistinct

LEMMA FirstLifeStep ==
    ASSUME OneEngine, TypeOK, TokenInv, FirstLife, [Next]_vars, restarts' = 0
    PROVE  FirstLife'
<1> USE DEF FirstLife
<1>0. \A s \in Subs : dart[s] # "dead"
  BY DEF NeverRestarted
<1>1. ASSUME NEW s \in Subs, Create(s) PROVE FirstLife'
  <2>1. /\ IsolateOf[s] \in Isolates
        /\ counter[IsolateOf[s]] \in Nat
        /\ \A r \in Subs : IsolateOf[r] = IsolateOf[s] /\ token[r] \in Nat
    BY IsolateAssumption, BoundAssumption DEF OneEngine, TypeOK
  <2>2. /\ \A r \in Subs : token'[r] = IF r = s THEN counter[IsolateOf[s]] + 1 ELSE token[r]
        /\ \A r \in Subs : counter'[IsolateOf[r]] = counter[IsolateOf[s]] + 1
    BY <1>1, <2>1 DEF Create, TypeOK
  <2>3. TokensBelowCounter' /\ TokensDistinct'
    BY <2>1, <2>2 DEF TokensBelowCounter, TokensDistinct
  <2>4. NeverRestarted'
    BY <1>1 DEF Create, TypeOK, NeverRestarted
  <2>5. ffi[s] = "none"
    BY <1>1 DEF Create, TokenInv, CallAfterListen
  <2>6. UNCHANGED <<ffi, task, aborted, registry>>
    BY <1>1 DEF Create, taskVars
  <2>7. Findable'
    BY <2>2, <2>5, <2>6 DEF Findable
  <2> QED BY <2>3, <2>4, <2>7
<1>2. ASSUME NEW s \in Subs, Cancel(s) \/ DeliverDone(s) PROVE FirstLife'
  <2>1. /\ AbortStream(token[s])
        /\ UNCHANGED <<token, counter, restarts, ffi, task>>
        /\ dart[s] = "listening"
        /\ dart' \in {[dart EXCEPT ![s] = "ended"], [dart EXCEPT ![s] = "cancelled"]}
    BY <1>2 DEF Cancel, DeliverDone, taskVars
  <2>2. token[s] \in Tokens /\ token[s] # 0
    BY <2>1 DEF TokenInv, TokenDrawn, Tokens
  <2>3. \A r \in Subs : dart'[r] # "dead"
    BY <1>0, <2>1 DEF TypeOK
  <2>4. ASSUME NEW r \in Subs, ffi[r] = "returned", ~aborted'[r],
               task[r] \in {"parked", "running", "adding"}
        PROVE  registry'[token[r]] = r
    <3>1. ~aborted[r] /\ registry[token[s]] # r
      BY <2>1, <2>4, Zenon DEF AbortStream
    <3>2. registry[token[r]] = r
      BY <2>4, <3>1 DEF Findable
    <3>3. token[r] \in Tokens /\ token[r] # token[s]
      BY <2>4, <3>1, <3>2 DEF TokenInv, TokenDrawn, CallAfterListen
    <3> QED BY <2>1, <3>2, <3>3 DEF AbortStream, TypeOK
  <2>5. Findable'
    BY <2>1, <2>4, Zenon DEF Findable
  <2> QED BY <2>1, <2>3, <2>5, FirstLifeQuiet
<1>3. ASSUME NEW s \in Subs, Listen(s) \/ (EventLoop(s) /\ ~DeliverDone(s)) PROVE FirstLife'
  <2>1. UNCHANGED <<token, counter, restarts, aborted, registry, task>>
    BY <1>3 DEF Listen, EventLoop, Receive, ReceiveCancelled, Deliver, dartVars, taskVars
  <2>2. /\ \A r \in Subs : dart'[r] # "dead"
        /\ \A r \in Subs : ffi'[r] = "returned" => ffi[r] = "returned"
    BY <1>0, <1>3 DEF Listen, EventLoop, Receive, ReceiveCancelled, Deliver, dartVars, TypeOK
  <2>3. Findable'
    BY <2>1, <2>2 DEF Findable
  <2> QED BY <2>1, <2>2, <2>3, FirstLifeQuiet
<1>4. ASSUME NEW s \in Subs, Spawn(s) PROVE FirstLife'
  <2>1. UNCHANGED <<token, counter, restarts, aborted, registry, dart>>
    BY <1>4 DEF Spawn, dartVars
  <2>2. Findable'
    BY <1>4, <2>1 DEF Spawn, TypeOK, Findable
  <2> QED BY <1>0, <2>1, <2>2, FirstLifeQuiet
<1>5. ASSUME NEW s \in Subs, Register(s) PROVE FirstLife'
  <2>1. UNCHANGED <<token, counter, restarts, aborted, dart, task>>
    BY <1>5 DEF Register, dartVars, taskVars
  <2>2. token[s] \in Tokens /\ token[s] # 0
    BY <1>5 DEF Register, TokenInv, TokenDrawn, CallAfterListen, Tokens
  <2>3. ASSUME NEW r \in Subs, ffi'[r] = "returned", ~aborted[r],
               task[r] \in {"parked", "running", "adding"}
        PROVE  registry'[token[r]] = r
    <3>1. CASE r = s
      BY <1>5, <2>2, <3>1 DEF Register, RegisterStream, TypeOK
    <3>2. CASE r # s
      <4>1. registry[token[r]] = r
        BY <1>5, <2>3, <3>2 DEF Register, TypeOK, Findable
      <4>2. token[r] # token[s]
        BY <2>2, <3>2 DEF TokensDistinct
      <4> QED BY <1>5, <4>1, <4>2 DEF Register, RegisterStream, TypeOK
    <3> QED BY <3>1, <3>2
  <2>4. Findable'
    BY <2>1, <2>3, Zenon DEF Findable
  <2> QED BY <1>0, <2>1, <2>4, FirstLifeQuiet
<1>6. ASSUME NEW s \in Subs, Task(s), ~Unregister(s) PROVE FirstLife'
  <2>1. UNCHANGED <<token, counter, restarts, aborted, dart, ffi, registry>>
    BY <1>6 DEF Task, TakeNext, Park, AddOk, AddFails, SourceEnds, Return,
                Aborted, DropFuture, dartVars
  <2>2. \A r \in Subs : task'[r] \in {"parked", "running", "adding"}
                       => task[r] \in {"parked", "running", "adding"}
    BY <1>6 DEF TypeOK, Task, TakeNext, AtNext, Park, AddOk, AddFails, SourceEnds,
                Return, Aborted, DropFuture
  <2>3. Findable'
    BY <2>1, <2>2 DEF Findable
  <2> QED BY <1>0, <2>1, <2>3, FirstLifeQuiet
<1>7. ASSUME NEW s \in Subs, Unregister(s) PROVE FirstLife'
  <2>1. UNCHANGED <<token, counter, restarts, aborted, dart, ffi>>
    BY <1>7 DEF Unregister, dartVars
  <2>2. token[s] # 0
    BY <1>7 DEF Unregister, TokenInv, TokenDrawn, CallAfterListen, Tokens
  <2>3. ASSUME NEW r \in Subs, ffi[r] = "returned", ~aborted[r],
               task'[r] \in {"parked", "running", "adding"}
        PROVE  registry'[token[r]] = r
    <3>1. r # s /\ task[r] = task'[r]
      BY <1>7, <2>3 DEF Unregister, TypeOK
    <3>2. registry[token[r]] = r /\ token[r] # token[s]
      BY <2>2, <2>3, <3>1 DEF Findable, TokensDistinct
    <3> QED BY <1>7, <3>2 DEF Unregister, UnregisterStream, TypeOK
  <2>4. Findable'
    BY <2>1, <2>3, Zenon DEF Findable
  <2> QED BY <1>0, <2>1, <2>4, FirstLifeQuiet
<1>8. ASSUME NEW k \in Kinds, Change(k) \/ CloseSource(k) PROVE FirstLife'
  <2>1. UNCHANGED <<token, counter, restarts, aborted, dart, ffi, registry, task>>
    BY <1>8 DEF Change, CloseSource, dartVars, taskVars
  <2> QED BY <1>0, <2>1, FirstLifeQuiet DEF Findable
<1>9. ASSUME NEW i \in Isolates, Restart(i) PROVE FirstLife'
  BY <1>9 DEF Restart, NeverRestarted
<1>10. CASE UNCHANGED vars
  <2>1. UNCHANGED <<token, counter, restarts, aborted, dart, ffi, registry, task>>
    BY <1>10 DEF vars, dartVars, taskVars
  <2> QED BY <1>0, <2>1, FirstLifeQuiet DEF Findable
<1> QED
  BY <1>1, <1>2, <1>3, <1>4, <1>5, <1>6, <1>7, <1>8, <1>9, <1>10
  DEF Next, User, Worker, EventLoop

(* A restart is counted for good.                                          *)
LEMMA RestartsStay == TypeOK /\ [Next]_vars /\ restarts' = 0 => restarts = 0
<1> SUFFICES ASSUME TypeOK, [Next]_vars, restarts' = 0 PROVE restarts = 0
  OBVIOUS
<1>1. restarts \in Nat
  BY DEF TypeOK
<1>2. ASSUME NEW s \in Subs, User(s) \/ EventLoop(s) PROVE restarts' = restarts
  BY <1>2 DEF User, Create, Listen, Cancel, EventLoop, Receive, ReceiveCancelled, Deliver,
              DeliverDone
<1>3. ASSUME NEW s \in Subs, Worker(s) \/ Task(s) PROVE restarts' = restarts
  BY <1>3 DEF Worker, Spawn, Register, Task, TakeNext, Park, AddOk, AddFails, SourceEnds,
              Unregister, Return, Aborted, DropFuture
<1>4. ASSUME NEW k \in Kinds, Change(k) \/ CloseSource(k) PROVE restarts' = restarts
  BY <1>4 DEF Change, CloseSource
<1>5. ASSUME NEW i \in Isolates, Restart(i) PROVE FALSE
  BY <1>1, <1>5 DEF Restart
<1>6. CASE UNCHANGED vars
  BY <1>6 DEF vars
<1> QED BY <1>2, <1>3, <1>4, <1>5, <1>6 DEF Next

EngineInv == restarts = 0 => FirstLife

LEMMA EngineInit == Init => EngineInv
BY FirstLifeInit DEF EngineInv

LEMMA EngineStep ==
    ASSUME OneEngine PROVE TypeOK /\ TokenInv /\ EngineInv /\ [Next]_vars => EngineInv'
<1> SUFFICES ASSUME TypeOK, TokenInv, EngineInv, [Next]_vars, restarts' = 0
             PROVE  FirstLife'
  BY DEF EngineInv
<1>1. FirstLife
  BY RestartsStay DEF EngineInv
<1> QED BY <1>1, FirstLifeStep

(* In one engine, until a restart, a task that outlives its subscription is *)
(* still on file.                                                          *)
THEOREM NoHandleLost == ASSUME OneEngine PROVE Spec => []LeakIsRegistered
<1>1. Init => EngineInv
  BY EngineInit
<1>2. TypeOK /\ TokenInv /\ EngineInv /\ [Next]_vars => EngineInv'
  BY EngineStep
<1>3. TokenInv /\ EngineInv => LeakIsRegistered
  BY DEF TokenInv, CallAfterListen, EngineInv, FirstLife, Findable, LeakIsRegistered
<1>4. TypeOK /\ TokenInv /\ [Next]_vars => TokenInv'
  BY TokenStep
<1> QED BY <1>1, <1>2, <1>3, <1>4, TokenInit, TypeCorrect, PTL DEF Spec

-----------------------------------------------------------------------------
(* StreamBridge keeps the promise of CancellableStream: the items of a     *)
(* subscription stay in order on their way through the task, the port and  *)
(* the controller, for any number of subscriptions, restarts and bounds.   *)

-----------------------------------------------------------------------------
(* Sequences.                                                              *)

LEMMA HeadMoves ==
    ASSUME NEW s \in Seq(Messages), NEW t \in Seq(Messages), t # <<>>
    PROVE  /\ Append(s, Head(t)) \in Seq(Messages) /\ Tail(t) \in Seq(Messages)
           /\ Append(s, Head(t)) \o Tail(t) = s \o t
<1>1. /\ Head(t) \in Messages /\ Tail(t) \in Seq(Messages) /\ Len(Tail(t)) = Len(t) - 1
      /\ \A i \in 1..Len(Tail(t)) : Tail(t)[i] = t[i + 1]
      /\ Head(t) = t[1] /\ Len(t) \in Nat \ {0} /\ Len(s) \in Nat
  BY HeadTailProperties
<1> DEFINE a == Append(s, Head(t))
<1>2. /\ a \in Seq(Messages) /\ Len(a) = Len(s) + 1
      /\ \A i \in 1..Len(s) : a[i] = s[i]
      /\ a[Len(s) + 1] = Head(t)
  BY <1>1, AppendProperties
<1> HIDE DEF a
<1>3. /\ a \o Tail(t) \in Seq(Messages) /\ Len(a \o Tail(t)) = Len(a) + Len(Tail(t))
      /\ \A i \in 1..(Len(a) + Len(Tail(t))) : (a \o Tail(t))[i] =
             IF i <= Len(a) THEN a[i] ELSE Tail(t)[i - Len(a)]
  BY <1>1, <1>2, ConcatProperties
<1>4. /\ s \o t \in Seq(Messages) /\ Len(s \o t) = Len(s) + Len(t)
      /\ \A i \in 1..(Len(s) + Len(t)) : (s \o t)[i] =
             IF i <= Len(s) THEN s[i] ELSE t[i - Len(s)]
  BY ConcatProperties
<1>5. Len(a \o Tail(t)) = Len(s \o t)
  BY <1>1, <1>2, <1>3, <1>4
<1>6. ASSUME NEW i \in 1..Len(a \o Tail(t)) PROVE (a \o Tail(t))[i] = (s \o t)[i]
  <2>1. i \in 1..(Len(a) + Len(Tail(t))) /\ i \in 1..(Len(s) + Len(t))
    BY <1>3, <1>4, <1>5
  <2>2. CASE i <= Len(s)
    <3>1. (a \o Tail(t))[i] = a[i]
      BY <1>1, <1>2, <1>3, <2>1, <2>2
    <3>2. a[i] = s[i]
      BY <1>1, <1>2, <2>1, <2>2
    <3>3. (s \o t)[i] = s[i]
      BY <1>4, <2>1, <2>2
    <3> QED BY <3>1, <3>2, <3>3
  <2>3. CASE i = Len(s) + 1
    <3>1. (a \o Tail(t))[i] = Head(t)
      BY <1>2, <1>3, <2>1, <2>3
    <3>2. (s \o t)[i] = t[1]
      BY <1>1, <1>4, <2>1, <2>3
    <3> QED BY <1>1, <3>1, <3>2
  <2>4. CASE i > Len(s) + 1
    <3>1. i - Len(a) \in 1..Len(Tail(t)) /\ (i - Len(a)) + 1 = i - Len(s)
      BY <1>1, <1>2, <2>1, <2>4
    <3>2. (a \o Tail(t))[i] = Tail(t)[i - Len(a)]
      BY <1>1, <1>2, <1>3, <2>1, <2>4
    <3>3. Tail(t)[i - Len(a)] = t[i - Len(s)]
      BY <1>1, <3>1
    <3>4. (s \o t)[i] = t[i - Len(s)]
      BY <1>1, <1>4, <2>1, <2>4
    <3> QED BY <3>2, <3>3, <3>4
  <2> QED BY <1>1, <2>1, <2>2, <2>3, <2>4
<1> QED BY <1>1, <1>2, <1>3, <1>4, <1>5, <1>6, SeqEqual DEF a

Regroups(s, t, r) == (s \o t) \o r = s \o (t \o r)

LEMMA MessagesRegroup ==
    ASSUME NEW s \in Seq(Messages), NEW t \in Seq(Messages), NEW r \in Seq(Messages)
    PROVE  Regroups(s, t, r)
BY ConcatAssociative DEF Regroups

LEMMA HeadMovesUp ==
    ASSUME NEW s \in Seq(Messages), NEW t \in Seq(Messages), NEW r \in Seq(Messages),
           t # <<>>
    PROVE  Append(s, Head(t)) \o (Tail(t) \o r) = s \o (t \o r)
<1>1. Regroups(Append(s, Head(t)), Tail(t), r)
  BY HeadMoves, MessagesRegroup, Zenon
<1>2. Regroups(s, t, r)
  BY MessagesRegroup, Zenon
<1>3. Append(s, Head(t)) \o Tail(t) = s \o t
  BY HeadMoves, Zenon
<1> QED BY <1>1, <1>2, <1>3, Zenon DEF Regroups

LEMMA AppendMoves ==
    ASSUME NEW g \in Seq(Messages), NEW b \in Seq(Messages), NEW p \in Seq(Messages),
           NEW m \in Messages
    PROVE  g \o (b \o Append(p, m)) = Append(g \o (b \o p), m)
<1>1. /\ <<m>> \in Seq(Messages) /\ b \o p \in Seq(Messages)
      /\ g \o (b \o p) \in Seq(Messages)
  BY ConcatProperties
<1>2. Append(p, m) = p \o <<m>> /\ Append(g \o (b \o p), m) = (g \o (b \o p)) \o <<m>>
  BY <1>1, AppendIsConcat
<1>3. Regroups(b, p, <<m>>) /\ Regroups(g, b \o p, <<m>>)
  BY <1>1, MessagesRegroup, Zenon
<1> QED BY <1>2, <1>3, Zenon DEF Regroups

LEMMA DoneIsNoItem == Done \notin Items
<1> SUFFICES ASSUME Done \in Items PROVE FALSE
  OBVIOUS
<1>1. DOMAIN Done = {"done"}
  BY DEF Done
<1>2. DOMAIN Done = {"pos", "missed"}
  BY DEF Items
<1> QED BY <1>1, <1>2

-----------------------------------------------------------------------------
(* The items of a subscription, those that were told first: with the        *)
(* listener, in the controller, at the port, in the hand of the task.       *)
Held(s) == IF task[s] = "adding" THEN <<hand[s]>> ELSE <<>>
Line(s) == got[s] \o (buf[s] \o (port[s] \o Held(s)))

(* b may come after a.                                                     *)
Continues(s, a, b) ==
    IF KindOf[s] = "watch" THEN b.pos > a.pos
    ELSE b.pos = a.pos + (IF b.missed > 0 THEN b.missed ELSE 1)

Placed(s) == \A n \in 1..Len(Line(s)) : Line(s)[n] # Done =>
    Line(s)[n].pos \in 1..version[KindOf[s]] /\ Line(s)[n].missed <= version[KindOf[s]]
InLine(s) == \A n \in 2..Len(Line(s)) : Line(s)[n] # Done =>
    Continues(s, Line(s)[n - 1], Line(s)[n])
DoneLast(s) == \A n \in 1..Len(Line(s)) : Line(s)[n] = Done =>
    n = Len(Line(s)) /\ task[s] = "ended"
AtSeen(s) == \A n \in 1..Len(Line(s)) :
    Line(s)[n] # Done /\ (n < Len(Line(s)) => Line(s)[n + 1] = Done) =>
        Line(s)[n].pos = seen[s]

LineInv(s) == /\ Placed(s) /\ InLine(s) /\ DoneLast(s) /\ AtSeen(s)
              /\ portOpen[s] \/ task[s] = "ended"

Unstarted(s) == task[s] = "none" => got[s] = <<>> /\ buf[s] = <<>> /\ port[s] = <<>>

GotInOrder(s) == \A n \in 2..Len(got[s]) : Continues(s, got[s][n - 1], got[s][n])

SubInv(s) == /\ Unstarted(s) /\ seen[s] <= version[KindOf[s]] /\ GotInOrder(s)
             /\ dart[s] = "listening" => LineInv(s)

OrderInv == TypeOK /\ TokenInv /\ \A s \in Subs : SubInv(s)

LEMMA LineType ==
    ASSUME TypeOK, NEW s \in Subs
    PROVE  /\ got[s] \in Seq(Messages) /\ buf[s] \in Seq(Messages) /\ port[s] \in Seq(Messages)
           /\ Held(s) \in Seq(Messages) /\ Line(s) \in Seq(Messages)
           /\ Len(Line(s)) \in Nat
           /\ \A n \in 1..Len(Line(s)) : Line(s)[n] # Done => Line(s)[n] \in Items
<1>1. got[s] \in Seq(Items) /\ Items \subseteq Messages /\ hand[s] \in Messages
  BY DEF TypeOK, Messages
<1>2. got[s] \in Seq(Messages)
  BY <1>1, SeqMonotonic
<1>3. buf[s] \in Seq(Messages) /\ port[s] \in Seq(Messages)
  BY DEF TypeOK
<1>4. Held(s) \in Seq(Messages)
  BY <1>1 DEF Held
<1>5. port[s] \o Held(s) \in Seq(Messages)
  BY <1>3, <1>4, ConcatProperties
<1>6. buf[s] \o (port[s] \o Held(s)) \in Seq(Messages)
  BY <1>3, <1>5, ConcatProperties
<1>7. Line(s) \in Seq(Messages)
  BY <1>2, <1>6, ConcatProperties DEF Line
<1> HIDE DEF Line
<1>8. \A n \in 1..Len(Line(s)) : Line(s)[n] \in Messages
  BY <1>7, ElementOfSeq
<1> QED BY <1>2, <1>3, <1>4, <1>7, <1>8 DEF Messages

(* The line stays as it is.                                                *)
LEMMA LineKeeps ==
    ASSUME TypeOK, NEW s \in Subs, LineInv(s), Line(s)' = Line(s),
           seen'[s] = seen[s], version'[KindOf[s]] \in Nat,
           version'[KindOf[s]] >= version[KindOf[s]],
           task[s] = "ended" => task'[s] = "ended",
           portOpen'[s] \/ task'[s] = "ended"
    PROVE  LineInv(s)'
<1> DEFINE L == Line(s)
<1> DEFINE k == KindOf[s]
<1>1. /\ Len(L) \in Nat /\ version[k] \in Nat
      /\ \A n \in 1..Len(L) : L[n] # Done => L[n].pos \in Nat /\ L[n].missed \in Nat
  <2>1. \A n \in 1..Len(L) : L[n] # Done => L[n] \in Items
    BY LineType
  <2>2. Len(L) \in Nat
    BY LineType
  <2>3. version[k] \in Nat
    BY KindAssumption DEF TypeOK
  <2> HIDE DEF L
  <2> QED BY <2>1, <2>2, <2>3 DEF Items
<1>2. Placed(s)'
  BY <1>1 DEF LineInv, Placed
<1>3. InLine(s)' /\ DoneLast(s)' /\ AtSeen(s)'
  BY DEF LineInv, InLine, DoneLast, AtSeen, Continues
<1> QED BY <1>2, <1>3 DEF LineInv

(* The task takes an item.                                                 *)
LEMMA LineTakes ==
    ASSUME TypeOK, NEW s \in Subs, LineInv(s), UNCHANGED <<version, portOpen>>,
           NEW m \in Items, Line(s)' = Append(Line(s), m), task[s] # "ended",
           seen'[s] = m.pos, m.pos \in 1..version[KindOf[s]], m.missed <= version[KindOf[s]],
           \A a \in Items : a.pos = seen[s] => Continues(s, a, m)
    PROVE  LineInv(s)'
<1> DEFINE L == Line(s)
<1> DEFINE M == Append(L, m)
<1>1. /\ Len(L) \in Nat /\ Len(M) = Len(L) + 1 /\ M[Len(L) + 1] = m
      /\ \A n \in 1..Len(L) : M[n] = L[n]
  BY LineType, AppendProperties DEF Messages
<1>2. \A n \in 1..Len(L) : L[n] # Done /\ L[n] \in Items
  BY LineType DEF LineInv, DoneLast
<1>3. m # Done
  BY DoneIsNoItem
<1> HIDE DEF L, M
<1>4. Placed(s)'
  <2>1. \A n \in 1..Len(M) : M[n].pos \in 1..version[KindOf[s]]
                             /\ M[n].missed <= version[KindOf[s]]
    BY <1>1, <1>2 DEF LineInv, Placed, L
  <2> QED BY <2>1 DEF Placed, L, M
<1>5. InLine(s)'
  <2>1. ASSUME NEW n \in 2..Len(M) PROVE Continues(s, M[n - 1], M[n])
    <3>1. CASE n <= Len(L)
      <4>1. n \in 2..Len(L) /\ M[n] = L[n] /\ M[n - 1] = L[n - 1] /\ L[n] # Done
        BY <1>1, <1>2, <3>1
      <4>2. Continues(s, L[n - 1], L[n])
        BY <4>1 DEF LineInv, InLine, L
      <4> QED BY <4>1, <4>2
    <3>2. CASE n > Len(L)
      <4>1. n = Len(L) + 1 /\ Len(L) \in 1..Len(L) /\ M[n] = m /\ M[n - 1] = L[Len(L)]
        BY <1>1, <3>2
      <4>2. L[Len(L)] \in Items /\ L[Len(L)].pos = seen[s]
        BY <1>2, <4>1 DEF LineInv, AtSeen, L
      <4> QED BY <4>1, <4>2
    <3> QED BY <1>1, <3>1, <3>2
  <2> QED BY <2>1 DEF InLine, Continues, L, M
<1>6. DoneLast(s)'
  <2>1. \A n \in 1..Len(M) : M[n] # Done
    BY <1>1, <1>2, <1>3
  <2> QED BY <2>1 DEF DoneLast, L, M
<1>7. AtSeen(s)'
  <2>1. \A n \in 1..Len(M) : (n < Len(M) => M[n + 1] = Done) => M[n].pos = m.pos
    <3> SUFFICES ASSUME NEW n \in 1..Len(L) PROVE M[n + 1] # Done /\ n < Len(M)
      BY <1>1
    <3>1. n + 1 \in 1..Len(L) \/ n + 1 = Len(L) + 1
      BY <1>1
    <3> QED BY <1>1, <1>2, <1>3, <3>1
  <2> QED BY <2>1 DEF AtSeen, L, M
<1>8. portOpen'[s]
  BY DEF LineInv
<1> QED BY <1>4, <1>5, <1>6, <1>7, <1>8 DEF LineInv

(* The task ends, and its sink with it.                                    *)
LEMMA LineEnds ==
    ASSUME TypeOK, NEW s \in Subs, LineInv(s), UNCHANGED <<version, seen>>,
           Line(s)' = Append(Line(s), Done), task[s] # "ended", task'[s] = "ended"
    PROVE  LineInv(s)'
<1> DEFINE L == Line(s)
<1> DEFINE M == Append(L, Done)
<1>1. /\ Len(L) \in Nat /\ Len(M) = Len(L) + 1 /\ M[Len(L) + 1] = Done
      /\ \A n \in 1..Len(L) : M[n] = L[n]
  BY LineType, AppendProperties DEF Messages
<1>2. \A n \in 1..Len(L) : L[n] # Done
  BY LineType DEF LineInv, DoneLast
<1> HIDE DEF L, M
<1>3. Placed(s)'
  <2>1. \A n \in 1..Len(M) : M[n] # Done => M[n].pos \in 1..version[KindOf[s]]
                                            /\ M[n].missed <= version[KindOf[s]]
    BY <1>1, <1>2 DEF LineInv, Placed, L
  <2> QED BY <2>1 DEF Placed, L, M
<1>4. InLine(s)'
  <2>1. ASSUME NEW n \in 2..Len(M), M[n] # Done PROVE Continues(s, M[n - 1], M[n])
    <3>1. n \in 2..Len(L) /\ M[n] = L[n] /\ M[n - 1] = L[n - 1]
      BY <1>1, <2>1
    <3>2. Continues(s, L[n - 1], L[n])
      BY <1>2, <3>1 DEF LineInv, InLine, L
    <3> QED BY <3>1, <3>2
  <2> QED BY <2>1 DEF InLine, Continues, L, M
<1>5. DoneLast(s)'
  <2>1. \A n \in 1..Len(M) : M[n] = Done => n = Len(M)
    BY <1>1, <1>2
  <2> QED BY <2>1 DEF DoneLast, L, M
<1>6. AtSeen(s)'
  <2>1. ASSUME NEW n \in 1..Len(M), M[n] # Done, n < Len(M) => M[n + 1] = Done
        PROVE  M[n].pos = seen[s]
    <3>1. n \in 1..Len(L) /\ M[n] = L[n]
      BY <1>1, <2>1
    <3>2. n < Len(L) => L[n + 1] = Done
      BY <1>1, <2>1, <3>1
    <3> QED BY <1>2, <3>1, <3>2 DEF LineInv, AtSeen, L
  <2> QED BY <2>1 DEF AtSeen, L, M
<1> QED BY <1>3, <1>4, <1>5, <1>6 DEF LineInv

-----------------------------------------------------------------------------
(* The steps.                                                              *)

(* A subscription that the step does not touch.                            *)
Untouched(s) ==
    /\ dart'[s] = dart[s] /\ got'[s] = got[s] /\ buf'[s] = buf[s]
    /\ port'[s] = port[s] /\ portOpen'[s] = portOpen[s]
    /\ task'[s] = task[s] /\ hand'[s] = hand[s] /\ seen'[s] = seen[s]

LEMMA OthersStay ==
    ASSUME TypeOK, NEW s \in Subs, User(s) \/ EventLoop(s) \/ Worker(s) \/ Task(s)
    PROVE  (\A r \in Subs : r # s => Untouched(r)) /\ UNCHANGED version
<1> USE DEF srcVars, dartVars, portVars, taskVars
<1>1. CASE User(s)
  BY <1>1 DEF User, Create, Listen, Cancel, TypeOK, Untouched
<1>2. CASE EventLoop(s)
  BY <1>2 DEF EventLoop, Receive, ReceiveCancelled, Deliver, DeliverDone, TypeOK, Untouched
<1>3. CASE Worker(s)
  BY <1>3 DEF Worker, Spawn, Register, TypeOK, Untouched
<1>4. CASE Task(s)
  BY <1>4 DEF Task, TakeNext, Park, AddOk, AddFails, SourceEnds, Unregister, Return, Aborted,
              DropFuture, TypeOK, Untouched
<1> QED BY <1>1, <1>2, <1>3, <1>4

LEMMA UntouchedKeeps ==
    ASSUME TypeOK, TypeOK', NEW s \in Subs, SubInv(s), Untouched(s),
           version'[KindOf[s]] >= version[KindOf[s]]
    PROVE  SubInv(s)'
<1>1. Line(s)' = Line(s)
  BY DEF Line, Held, Untouched
<1>2. version'[KindOf[s]] \in Nat /\ version[KindOf[s]] \in Nat /\ seen[s] \in Nat
  BY KindAssumption DEF TypeOK
<1>3. Unstarted(s)' /\ GotInOrder(s)' /\ seen'[s] <= version'[KindOf[s]]
  BY <1>2 DEF SubInv, Untouched, Unstarted, GotInOrder, Continues
<1>4. dart'[s] = "listening" => LineInv(s)'
  <2> SUFFICES ASSUME dart[s] = "listening" PROVE LineInv(s)'
    BY DEF Untouched
  <2>1. LineInv(s)
    BY DEF SubInv
  <2>2. portOpen'[s] \/ task'[s] = "ended"
    BY <2>1 DEF LineInv, Untouched
  <2> QED BY <1>1, <1>2, <2>1, <2>2, LineKeeps DEF Untouched
<1> QED BY <1>3, <1>4 DEF SubInv

(* A step that leaves what was told alone, and the line as well if the      *)
(* subscription is live.                                                   *)
LEMMA SubKeeps ==
    ASSUME TypeOK, TypeOK', NEW s \in Subs, SubInv(s), UNCHANGED version,
           got'[s] = got[s], seen'[s] = seen[s], Unstarted(s)',
           dart'[s] = "listening" =>
               /\ dart[s] = "listening" /\ Line(s)' = Line(s)
               /\ task[s] = "ended" => task'[s] = "ended"
               /\ portOpen'[s] \/ task'[s] = "ended"
    PROVE  SubInv(s)'
<1>1. version[KindOf[s]] \in Nat
  BY KindAssumption DEF TypeOK
<1>2. dart'[s] = "listening" => LineInv(s)'
  BY <1>1, LineKeeps DEF SubInv
<1>3. GotInOrder(s)'
  BY DEF SubInv, GotInOrder, Continues
<1> QED BY <1>2, <1>3 DEF SubInv

LEMMA UserKeeps ==
    ASSUME TypeOK, TypeOK', TokenInv, NEW s \in Subs, SubInv(s), User(s)
    PROVE  SubInv(s)'
<1> USE DEF srcVars, portVars, taskVars
<1>1. CASE Create(s)
  <2>1. /\ UNCHANGED <<version, got, seen, buf, port, task>>
        /\ dart'[s] # "listening"
    BY <1>1 DEF Create, TypeOK
  <2> QED BY <2>1, SubKeeps DEF SubInv, Unstarted
<1>2. CASE Listen(s)
  <2>1. /\ UNCHANGED <<version, got, seen, buf, port, task>>
        /\ portOpen'[s] /\ dart[s] = "created"
    BY <1>2 DEF Listen, TypeOK
  <2>2. task[s] = "none"
    BY <2>1 DEF TokenInv, CallAfterListen
  <2>3. got[s] = <<>> /\ buf[s] = <<>> /\ port[s] = <<>>
    BY <2>2 DEF SubInv, Unstarted
  <2>4. Line(s)' = <<>>
    BY <2>1, <2>2, <2>3 DEF Line, Held
  <2>5. LineInv(s)'
    BY <2>1, <2>4 DEF LineInv, Placed, InLine, DoneLast, AtSeen
  <2>6. Unstarted(s)' /\ GotInOrder(s)' /\ seen'[s] <= version'[KindOf[s]]
    BY <2>1 DEF SubInv, Unstarted, GotInOrder, Continues
  <2> QED BY <2>5, <2>6 DEF SubInv
<1>3. CASE Cancel(s)
  <2>1. /\ UNCHANGED <<version, got, seen, port, task>>
        /\ dart'[s] = "cancelled" /\ buf'[s] = <<>>
    BY <1>3 DEF Cancel, TypeOK
  <2> QED BY <2>1, SubKeeps DEF SubInv, Unstarted
<1> QED BY <1>1, <1>2, <1>3 DEF User

LEMMA EventLoopKeeps ==
    ASSUME TypeOK, TypeOK', NEW s \in Subs, SubInv(s), EventLoop(s)
    PROVE  SubInv(s)'
<1> USE DEF srcVars, dartVars, portVars, taskVars
<1>1. CASE Receive(s)
  <2>1. /\ UNCHANGED <<version, got, seen, task, hand, dart>>
        /\ dart[s] = "listening" /\ portOpen[s] /\ port[s] # <<>>
        /\ buf'[s] = Append(buf[s], Head(port[s])) /\ port'[s] = Tail(port[s])
        /\ portOpen'[s] <=> Head(port[s]) # Done
    BY <1>1 DEF Receive, TypeOK
  <2>2. LineInv(s) /\ task[s] # "none"
    BY <2>1 DEF SubInv, Unstarted
  <2> DEFINE g == got[s]
  <2> DEFINE b == buf[s]
  <2> DEFINE p == port[s]
  <2> DEFINE h == Held(s)
  <2>3. /\ g \in Seq(Messages) /\ b \in Seq(Messages) /\ p \in Seq(Messages)
        /\ h \in Seq(Messages) /\ p # <<>>
    BY <2>1, LineType
  <2>4. Line(s) = g \o (b \o (p \o h))
    BY DEF Line
  <2>5. Held(s)' = h
    BY <2>1 DEF Held
  <2>6. Line(s)' = g \o (Append(b, Head(p)) \o (Tail(p) \o h))
    BY <2>1, <2>5 DEF Line
  <2> HIDE DEF g, b, p, h
  <2>7. Append(b, Head(p)) \o (Tail(p) \o h) = b \o (p \o h)
    BY <2>3, HeadMovesUp
  <2>10. Line(s)' = Line(s)
    BY <2>4, <2>6, <2>7
  <2>11. portOpen'[s] \/ task'[s] = "ended"
    <3> SUFFICES ASSUME Head(p) = Done PROVE task[s] = "ended"
      BY <2>1 DEF p
    <3> DEFINE n == Len(g) + Len(b) + 1
    <3>1. Head(p) = p[1] /\ Len(p) \in Nat \ {0} /\ Len(g) \in Nat /\ Len(b) \in Nat
          /\ Len(h) \in Nat
      BY <2>3
    <3>2. /\ p \o h \in Seq(Messages) /\ Len(p \o h) = Len(p) + Len(h)
          /\ (p \o h)[1] = Done
      BY <2>3, <3>1, ConcatProperties
    <3>3. /\ b \o (p \o h) \in Seq(Messages)
          /\ Len(b \o (p \o h)) = Len(b) + Len(p \o h)
          /\ \A i \in 1..(Len(b) + Len(p \o h)) : (b \o (p \o h))[i] =
                IF i <= Len(b) THEN b[i] ELSE (p \o h)[i - Len(b)]
      BY <2>3, <3>2, ConcatProperties
    <3>4. Len(b) + 1 \in 1..(Len(b) + Len(p \o h)) /\ (Len(b) + 1) - Len(b) = 1
      BY <3>1, <3>2
    <3>5. (b \o (p \o h))[Len(b) + 1] = Done
      BY <3>1, <3>2, <3>3, <3>4
    <3> DEFINE r == b \o (p \o h)
    <3>6. /\ Len(g \o r) = Len(g) + Len(r)
          /\ \A i \in 1..(Len(g) + Len(r)) : (g \o r)[i] =
                IF i <= Len(g) THEN g[i] ELSE r[i - Len(g)]
      BY <2>3, <3>3, ConcatProperties
    <3>7. n \in 1..(Len(g) + Len(r)) /\ ~(n <= Len(g)) /\ n - Len(g) = Len(b) + 1
      BY <3>1, <3>2, <3>3, <3>4
    <3>8. n \in 1..Len(Line(s)) /\ Line(s)[n] = Done
      BY <2>4, <3>5, <3>6, <3>7
    <3> QED BY <2>2, <3>8 DEF LineInv, DoneLast
  <2>12. Unstarted(s)'
    BY <2>1, <2>2 DEF Unstarted
  <2> QED BY <2>1, <2>10, <2>11, <2>12, SubKeeps
<1>2. CASE ReceiveCancelled(s)
  <2>1. /\ UNCHANGED <<version, got, seen, buf, task, dart>>
        /\ dart[s] = "cancelled" /\ port'[s] = <<>>
    BY <1>2 DEF ReceiveCancelled, TypeOK
  <2> QED BY <2>1, SubKeeps DEF SubInv, Unstarted
<1>3. CASE DeliverDone(s)
  <2>1. /\ UNCHANGED <<version, got, seen, port, task>>
        /\ dart'[s] = "ended" /\ buf'[s] = <<>>
    BY <1>3 DEF DeliverDone, TypeOK
  <2> QED BY <2>1, SubKeeps DEF SubInv, Unstarted
<1>4. CASE Deliver(s)
  <2>1. /\ UNCHANGED <<version, seen, port, portOpen, task, hand, dart>>
        /\ dart[s] = "listening" /\ buf[s] # <<>> /\ Head(buf[s]) # Done
        /\ got'[s] = Append(got[s], Head(buf[s])) /\ buf'[s] = Tail(buf[s])
    BY <1>4 DEF Deliver, TypeOK
  <2>2. LineInv(s) /\ task[s] # "none"
    BY <2>1 DEF SubInv, Unstarted
  <2> DEFINE g == got[s]
  <2> DEFINE b == buf[s]
  <2> DEFINE r == port[s] \o Held(s)
  <2>3. /\ g \in Seq(Messages) /\ b \in Seq(Messages) /\ r \in Seq(Messages)
        /\ b # <<>>
    BY <2>1, LineType, ConcatProperties
  <2>4. Line(s) = g \o (b \o r)
    BY DEF Line
  <2>5. Held(s)' = Held(s)
    BY <2>1 DEF Held
  <2>6. Line(s)' = Append(g, Head(b)) \o (Tail(b) \o r)
    BY <2>1, <2>5 DEF Line
  <2> HIDE DEF g, b, r
  <2>7. /\ Append(g, Head(b)) \in Seq(Messages) /\ Tail(b) \in Seq(Messages)
        /\ Append(g, Head(b)) \o Tail(b) = g \o b
    BY <2>3, HeadMoves
  <2>8. Append(g, Head(b)) \o (Tail(b) \o r) = g \o (b \o r)
    BY <2>3, HeadMovesUp
  <2>9. Line(s)' = Line(s)
    BY <2>4, <2>6, <2>8
  <2>10. version[KindOf[s]] \in Nat
    BY KindAssumption DEF TypeOK
  <2>11. LineInv(s)'
    <3>1. portOpen'[s] \/ task'[s] = "ended"
      BY <2>1, <2>2 DEF LineInv
    <3> QED BY <2>1, <2>2, <2>9, <2>10, <3>1, LineKeeps
  <2> DEFINE G == Append(g, Head(b))
  <2>12. /\ G \in Seq(Messages) /\ Len(G) \in Nat
         /\ Tail(b) \o r \in Seq(Messages)
    BY <2>3, <2>7, ConcatProperties
  <2>13. ASSUME NEW n \in 1..Len(G) PROVE Line(s)'[n] = G[n] /\ n \in 1..Len(Line(s)')
    <3> DEFINE t == Tail(b) \o r
    <3> HIDE DEF G, t
    <3>1. /\ Len(G \o t) = Len(G) + Len(t) /\ Len(t) \in Nat
          /\ \A i \in 1..(Len(G) + Len(t)) : (G \o t)[i] =
                IF i <= Len(G) THEN G[i] ELSE t[i - Len(G)]
      BY <2>12, ConcatProperties DEF t
    <3>2. n \in 1..(Len(G) + Len(t)) /\ n <= Len(G)
      BY <2>12, <3>1
    <3>3. Line(s)' = G \o t
      BY <2>6 DEF G, t
    <3> QED BY <3>1, <3>2, <3>3
  <2>14. got'[s] = G
    BY <2>1 DEF g, b
  <2>15. \A n \in 1..Len(G) : G[n] # Done
    <3>1. got'[s] \in Seq(Items)
      BY DEF TypeOK
    <3> QED BY <2>14, <3>1, DoneIsNoItem, ElementOfSeq
  <2> HIDE DEF G
  <2>16. GotInOrder(s)'
    <3> SUFFICES ASSUME NEW n \in 2..Len(G) PROVE Continues(s, G[n - 1], G[n])
      BY <2>14 DEF GotInOrder, Continues
    <3>1. n \in 1..Len(G) /\ n - 1 \in 1..Len(G)
      BY <2>12
    <3>2. /\ Line(s)'[n] = G[n] /\ Line(s)'[n - 1] = G[n - 1] /\ n \in 2..Len(Line(s)')
          /\ G[n] # Done
      BY <2>13, <2>15, <3>1
    <3>3. InLine(s)'
      BY <2>11 DEF LineInv
    <3> QED BY <3>2, <3>3 DEF InLine, Continues
  <2>17. Unstarted(s)' /\ seen'[s] <= version'[KindOf[s]]
    BY <2>1, <2>2 DEF SubInv, Unstarted
  <2> QED BY <2>11, <2>16, <2>17 DEF SubInv
<1> QED BY <1>1, <1>2, <1>3, <1>4 DEF EventLoop
LEMMA WorkerKeeps ==
    ASSUME TypeOK, TypeOK', TokenInv, NEW s \in Subs, SubInv(s), Worker(s)
    PROVE  SubInv(s)'
<1> USE DEF srcVars, dartVars, portVars, taskVars
<1>1. CASE Spawn(s)
  <2>0. task[s] = "none"
    BY <1>1 DEF Spawn, TypeOK, TokenInv, CallAfterListen
  <2>1. /\ UNCHANGED <<version, got, buf, port, portOpen, dart>>
        /\ task'[s] = "parked"
        /\ seen'[s] = IF KindOf[s] = "watch" THEN 0 ELSE version["path"]
    BY <1>1 DEF Spawn, TypeOK
  <2>2. got[s] = <<>> /\ buf[s] = <<>> /\ port[s] = <<>>
    BY <2>0 DEF SubInv, Unstarted
  <2>3. Line(s)' = <<>>
    BY <2>1, <2>2 DEF Line, Held
  <2>4. seen'[s] <= version'[KindOf[s]]
    BY <2>1, KindAssumption DEF TypeOK, Kinds
  <2>5. dart[s] = "listening" => portOpen[s]
    BY <2>0 DEF SubInv, LineInv
  <2>6. dart'[s] = "listening" => LineInv(s)'
    BY <2>1, <2>3, <2>5 DEF LineInv, Placed, InLine, DoneLast, AtSeen
  <2> QED BY <2>1, <2>2, <2>4, <2>6 DEF SubInv, Unstarted, GotInOrder, Continues
<1>2. CASE Register(s)
  <2>1. UNCHANGED <<version, got, buf, port, portOpen, dart, task, hand, seen>>
    BY <1>2 DEF Register
  <2>2. version'[KindOf[s]] >= version[KindOf[s]]
    BY <2>1, KindAssumption DEF TypeOK
  <2> QED BY <2>1, <2>2, UntouchedKeeps DEF Untouched
<1> QED BY <1>1, <1>2 DEF Worker
LEMMA NextItemContinues ==
    ASSUME TypeOK, NEW s \in Subs, HasNext(s)
    PROVE  /\ NextItem(s) \in Items /\ NextItem(s).pos \in 1..version[KindOf[s]]
           /\ NextItem(s).missed <= version[KindOf[s]]
           /\ \A a \in Items : a.pos = seen[s] => Continues(s, a, NextItem(s))
<1> DEFINE lag == version["path"] - Backlog - seen[s]
<1>1. /\ KindOf[s] \in Kinds
      /\ version["watch"] \in Nat /\ version["path"] \in Nat
      /\ seen[s] \in Nat /\ Backlog \in Nat \ {0}
  BY KindAssumption, BoundAssumption DEF TypeOK, Kinds
<1>2. /\ NextItem(s) \in Items /\ NextItem(s).pos > seen[s]
      /\ NextItem(s).pos <= version[KindOf[s]]
  BY NextItemAdvances
<1>3. NextItem(s).pos \in Nat
  BY <1>2 DEF Items
<1>4. NextItem(s).pos \in 1..version[KindOf[s]]
  BY <1>1, <1>2, <1>3 DEF Kinds
<1>5. CASE KindOf[s] = "watch"
  <2>1. NextItem(s).missed = 0
    BY <1>5 DEF NextItem
  <2> QED BY <1>1, <1>2, <1>4, <1>5, <2>1 DEF Continues
<1>6. CASE KindOf[s] = "path" /\ lag > 0
  <2>1. NextItem(s).pos = seen[s] + lag /\ NextItem(s).missed = lag
    BY <1>6 DEF NextItem, MapPathEvent
  <2>2. lag \in Nat /\ lag <= version["path"]
    BY <1>1, <1>6
  <2> QED BY <1>2, <1>4, <1>6, <2>1, <2>2 DEF Continues
<1>7. CASE KindOf[s] = "path" /\ ~(lag > 0)
  <2>1. NextItem(s).pos = seen[s] + 1 /\ NextItem(s).missed = 0
    BY <1>7 DEF NextItem, MapPathEvent
  <2> QED BY <1>1, <1>2, <1>4, <1>7, <2>1 DEF Continues
<1> QED BY <1>1, <1>5, <1>6, <1>7 DEF Kinds

(* The task takes an item and holds it.                                    *)
LEMMA TakeKeeps ==
    ASSUME TypeOK, TypeOK', NEW s \in Subs, SubInv(s), TakeNext(s)
    PROVE  SubInv(s)'
<1> USE DEF srcVars, dartVars, portVars
<1> DEFINE m == NextItem(s)
<1>1. /\ UNCHANGED <<version, got, buf, port, portOpen, dart>>
      /\ task[s] \in {"running", "parked"} /\ task'[s] = "adding"
      /\ hand'[s] = m /\ seen'[s] = m.pos /\ HasNext(s)
  BY DEF TakeNext, AtNext, TypeOK
<1>2. /\ m \in Items /\ m.pos \in 1..version[KindOf[s]] /\ m.missed <= version[KindOf[s]]
      /\ \A a \in Items : a.pos = seen[s] => Continues(s, a, m)
  BY <1>1, NextItemContinues
<1> HIDE DEF m
<1>3. Unstarted(s)' /\ GotInOrder(s)'
  BY <1>1 DEF SubInv, Unstarted, GotInOrder, Continues
<1>4. version[KindOf[s]] \in Nat
  BY KindAssumption DEF TypeOK
<1>5. ASSUME dart[s] = "listening" PROVE LineInv(s)'
  <2>1. Held(s) = <<>> /\ Held(s)' = <<m>>
    BY <1>1 DEF Held
  <2> DEFINE g == got[s]
  <2> DEFINE b == buf[s]
  <2> DEFINE p == port[s]
  <2>2. g \in Seq(Messages) /\ b \in Seq(Messages) /\ p \in Seq(Messages) /\ m \in Messages
    BY <1>2, LineType DEF Messages
  <2>3. Line(s) = g \o (b \o (p \o <<>>)) /\ Line(s)' = g \o (b \o (p \o <<m>>))
    BY <1>1, <2>1 DEF Line
  <2> HIDE DEF g, b, p
  <2>4. p \o <<>> = p /\ p \o <<m>> = Append(p, m)
    BY <2>2, ConcatEmptySeq, AppendIsConcat
  <2>5. g \o (b \o Append(p, m)) = Append(g \o (b \o p), m)
    BY <2>2, AppendMoves
  <2>6. Line(s)' = Append(Line(s), m)
    BY <2>3, <2>4, <2>5
  <2> QED BY <1>1, <1>2, <1>5, <2>6, LineTakes DEF SubInv
<1> QED BY <1>1, <1>2, <1>3, <1>4, <1>5 DEF SubInv
(* The future is dropped: a live stream is told the end.                   *)
LEMMA DropKeeps ==
    ASSUME TypeOK, TypeOK', NEW s \in Subs, SubInv(s), DropFuture(s),
           task[s] \in {"parked", "unregistered"}
    PROVE  SubInv(s)'
<1> USE DEF srcVars, dartVars
<1>1. /\ UNCHANGED <<version, got, buf, portOpen, dart, seen, hand>>
      /\ task'[s] = "ended"
      /\ port'[s] = IF portOpen[s] THEN Append(port[s], Done) ELSE port[s]
  BY DEF DropFuture, TypeOK
<1>2. Unstarted(s)' /\ GotInOrder(s)' /\ seen'[s] <= version'[KindOf[s]]
  BY <1>1 DEF SubInv, Unstarted, GotInOrder, Continues
<1>3. ASSUME dart[s] = "listening" PROVE LineInv(s)'
  <2>1. portOpen[s]
    BY <1>3 DEF SubInv, LineInv
  <2>2. Held(s) = <<>> /\ Held(s)' = <<>>
    BY <1>1 DEF Held
  <2> DEFINE g == got[s]
  <2> DEFINE b == buf[s]
  <2> DEFINE p == port[s]
  <2>3. g \in Seq(Messages) /\ b \in Seq(Messages) /\ p \in Seq(Messages) /\ Done \in Messages
    BY LineType DEF Messages
  <2>4. Line(s) = g \o (b \o (p \o <<>>)) /\ Line(s)' = g \o (b \o (Append(p, Done) \o <<>>))
    BY <1>1, <2>1, <2>2 DEF Line
  <2> HIDE DEF g, b, p
  <2>5. p \o <<>> = p
    BY <2>3, ConcatEmptySeq
  <2>6. Append(p, Done) \in Seq(Messages)
    BY <2>3, AppendProperties
  <2>7. Append(p, Done) \o <<>> = Append(p, Done)
    BY <2>6, ConcatEmptySeq
  <2>8. g \o (b \o Append(p, Done)) = Append(g \o (b \o p), Done)
    BY <2>3, AppendMoves
  <2>9. Line(s)' = Append(Line(s), Done)
    BY <2>4, <2>5, <2>7, <2>8
  <2> QED BY <1>1, <1>3, <2>9, LineEnds DEF SubInv
<1> QED BY <1>1, <1>2, <1>3 DEF SubInv

LEMMA TaskKeeps ==
    ASSUME TypeOK, TypeOK', NEW s \in Subs, SubInv(s), Task(s)
    PROVE  SubInv(s)'
<1> USE DEF srcVars, dartVars, portVars
<1>1. CASE AddOk(s)
  <2>1. /\ UNCHANGED <<version, got, buf, portOpen, dart, seen, hand>>
        /\ task[s] = "adding" /\ task'[s] = "running" /\ portOpen[s]
        /\ port'[s] = Append(port[s], hand[s])
    BY <1>1 DEF AddOk, TypeOK
  <2>2. Held(s) = <<hand[s]>> /\ Held(s)' = <<>>
    BY <2>1 DEF Held
  <2>3. hand[s] \in Messages /\ port[s] \in Seq(Messages) /\ port'[s] \in Seq(Messages)
    BY DEF TypeOK, Messages
  <2>4. port'[s] = port[s] \o <<hand[s]>>
    BY <2>1, <2>3, AppendIsConcat
  <2>5. port'[s] \o <<>> = port'[s]
    BY <2>3, ConcatEmptySeq
  <2>6. port'[s] \o Held(s)' = port[s] \o Held(s)
    BY <2>2, <2>4, <2>5
  <2>7. Line(s)' = Line(s)
    BY <2>1, <2>6 DEF Line
  <2> QED BY <2>1, <2>7, SubKeeps DEF Unstarted
<1>2. CASE Park(s) \/ SourceEnds(s) \/ Unregister(s)
  <2>1. /\ UNCHANGED <<version, got, buf, port, portOpen, dart, seen, hand>>
        /\ task[s] \in {"running", "parked", "leaving"}
        /\ task'[s] \in {"leaving", "parked", "unregistered"}
    BY <1>2 DEF Park, SourceEnds, AtNext, Unregister, TypeOK
  <2>2. Held(s) = <<>> /\ Held(s)' = <<>>
    BY <2>1 DEF Held
  <2>3. Line(s)' = Line(s)
    BY <2>1, <2>2 DEF Line
  <2>4. dart[s] = "listening" => portOpen[s]
    BY <2>1 DEF SubInv, LineInv
  <2> QED BY <2>1, <2>3, <2>4, SubKeeps DEF Unstarted
<1>3. CASE AddFails(s)
  <2>1. /\ UNCHANGED <<version, got, buf, port, portOpen, dart, seen, hand>>
        /\ task[s] = "adding" /\ task'[s] = "leaving" /\ ~portOpen[s]
    BY <1>3 DEF AddFails, TypeOK
  <2>2. dart[s] # "listening"
    BY <2>1 DEF SubInv, LineInv
  <2> QED BY <2>1, <2>2, SubKeeps DEF Unstarted
<1>4. CASE Return(s) \/ Aborted(s)
  BY <1>4, DropKeeps DEF Return, Aborted
<1>5. CASE TakeNext(s)
  BY <1>5, TakeKeeps
<1> QED BY <1>1, <1>2, <1>3, <1>4, <1>5 DEF Task

(* A restart leaves no live subscription in its isolate and does not touch  *)
(* the others.                                                             *)
LEMMA RestartKeeps ==
    ASSUME TypeOK, TypeOK', NEW i \in Isolates, Restart(i), NEW s \in Subs, SubInv(s)
    PROVE  SubInv(s)'
<1> USE DEF srcVars, taskVars
<1>1. /\ UNCHANGED <<version, got, seen, task, hand>>
      /\ \/ /\ dart'[s] = dart[s] /\ buf'[s] = buf[s]
            /\ port'[s] = port[s] /\ portOpen'[s] = portOpen[s]
         \/ dart'[s] = "dead" /\ buf'[s] = <<>> /\ port'[s] = <<>>
  BY DEF Restart, TypeOK
<1>2. CASE dart'[s] = "dead" /\ buf'[s] = <<>> /\ port'[s] = <<>>
  BY <1>1, <1>2, SubKeeps DEF SubInv, Unstarted
<1>3. CASE dart'[s] = dart[s] /\ buf'[s] = buf[s] /\ port'[s] = port[s]
           /\ portOpen'[s] = portOpen[s]
  <2>1. version'[KindOf[s]] >= version[KindOf[s]]
    BY <1>1, KindAssumption DEF TypeOK
  <2> QED BY <1>1, <1>3, <2>1, UntouchedKeeps DEF Untouched
<1> QED BY <1>1, <1>2, <1>3

LEMMA SourceKeeps ==
    ASSUME TypeOK, TypeOK', NEW s \in Subs, SubInv(s),
           (\E k \in Kinds : Change(k) \/ CloseSource(k)) \/ UNCHANGED vars
    PROVE  SubInv(s)'
<1> USE DEF srcVars, dartVars, portVars, taskVars
<1>1. Untouched(s)
  BY DEF Untouched, Change, CloseSource, vars
<1>2. \A k \in Kinds : version[k] \in Nat
  BY DEF TypeOK
<1>3. \A k \in Kinds : version'[k] >= version[k]
  <2>1. ASSUME NEW j \in Kinds, Change(j), NEW k \in Kinds PROVE version'[k] >= version[k]
    BY <1>2, <2>1 DEF Change, TypeOK
  <2>2. CASE version' = version
    BY <1>2, <2>2
  <2> QED BY <2>1, <2>2 DEF CloseSource, vars
<1> QED BY <1>1, <1>3, KindAssumption, UntouchedKeeps

LEMMA OrderStep == OrderInv /\ [Next]_vars => OrderInv'
<1> SUFFICES ASSUME OrderInv, [Next]_vars PROVE OrderInv'
  OBVIOUS
<1>1. TypeOK /\ TokenInv /\ TypeOK' /\ TokenInv'
  BY TypeStep, TokenStep DEF OrderInv
<1>2. ASSUME NEW r \in Subs PROVE SubInv(r)'
  <2>1. SubInv(r)
    BY DEF OrderInv
  <2>2. ASSUME NEW s \in Subs, User(s) \/ EventLoop(s) \/ Worker(s) \/ Task(s)
        PROVE  SubInv(r)'
    <3>1. CASE r = s
      BY <1>1, <2>1, <2>2, <3>1, UserKeeps, EventLoopKeeps, WorkerKeeps, TaskKeeps
    <3>2. CASE r # s
      <4>1. Untouched(r) /\ version' = version
        BY <1>1, <2>2, <3>2, OthersStay
      <4>2. version'[KindOf[r]] >= version[KindOf[r]]
        BY <1>1, <4>1, KindAssumption DEF TypeOK
      <4> QED BY <1>1, <2>1, <4>1, <4>2, UntouchedKeeps
    <3> QED BY <3>1, <3>2
  <2>3. ASSUME NEW i \in Isolates, Restart(i) PROVE SubInv(r)'
    BY <1>1, <2>1, <2>3, RestartKeeps
  <2>4. CASE (\E k \in Kinds : Change(k) \/ CloseSource(k)) \/ UNCHANGED vars
    BY <1>1, <2>1, <2>4, SourceKeeps
  <2> QED BY <2>2, <2>3, <2>4 DEF Next
<1> QED BY <1>1, <1>2 DEF OrderInv

LEMMA OrderInit == Init => OrderInv
<1> SUFFICES ASSUME Init, NEW s \in Subs PROVE SubInv(s)
  BY TypeInit, TokenInit DEF OrderInv
<1>1. /\ got[s] = <<>> /\ buf[s] = <<>> /\ port[s] = <<>> /\ dart[s] = "new"
      /\ seen[s] = 0 /\ version[KindOf[s]] >= 0
  BY KindAssumption DEF Init, Kinds
<1> QED BY <1>1 DEF SubInv, Unstarted, GotInOrder, Continues

(* For any number of subscriptions, engines and restarts, and whatever the  *)
(* task, the port and the controller do, the listener gets the items in     *)
(* order and every path event is told or counted.                          *)
THEOREM EveryEventTold == Spec => []EveryEventCounted
<1>1. OrderInv => EveryEventCounted
  <2> SUFFICES ASSUME OrderInv, NEW s \in Subs, NEW n \in 2..Len(got[s])
               PROVE  LET item == got[s][n]
                          step == IF item.missed > 0 THEN item.missed ELSE 1
                          gap  == item.pos - got[s][n - 1].pos
                      IN  IF KindOf[s] = "watch" THEN gap > 0 ELSE gap = step
    BY DEF EveryEventCounted
  <2>1. Continues(s, got[s][n - 1], got[s][n])
    BY DEF OrderInv, SubInv, GotInOrder
  <2>2. got[s] \in Seq(Items) /\ n \in 1..Len(got[s]) /\ n - 1 \in 1..Len(got[s])
    BY DEF OrderInv, TypeOK
  <2>3. got[s][n] \in Items /\ got[s][n - 1] \in Items
    BY <2>2, ElementOfSeq
  <2> QED BY <2>1, <2>3 DEF Continues, Items
<1> QED BY OrderInit, OrderStep, <1>1, PTL DEF Spec
-----------------------------------------------------------------------------
(* One engine, restarted as often as one likes: a stream ends only because  *)
(* its source did, and then everything was told.                           *)

Living(s) == dart[s] \notin {"new", "dead"}

LivingTokens ==
    /\ \A s \in Subs : Living(s) => token[s] <= counter[IsolateOf[s]]
    /\ \A s, r \in Subs : Living(s) /\ Living(r) /\ token[s] = token[r] => s = r

AbortedIsOver == \A s \in Subs : aborted[s] => dart[s] \in Over

EndReason(s) ==
    dart[s] = "listening" /\ task[s] \in {"leaving", "unregistered", "ended"} =>
        closed[KindOf[s]] /\ ~HasNext(s)

(* What DoneMeansComplete says of one stream, and its source closed.       *)
Complete(s) ==
    /\ task[s] = "ended" /\ closed[KindOf[s]]
    /\ KindOf[s] = "path" =>
         /\ seen[s] = version["path"]
         /\ got[s] # <<>> => got[s][Len(got[s])].pos = seen[s]

EndInv == /\ LivingTokens /\ AbortedIsOver
          /\ \A s \in Subs : EndReason(s) /\ (dart[s] = "ended" => Complete(s))

(* The end was told last, after the item at the position of the receiver.  *)
LEMMA EndIsTold ==
    ASSUME TypeOK, NEW s \in Subs, SubInv(s), EndReason(s), DeliverDone(s)
    PROVE  Complete(s)
<1>1. dart[s] = "listening" /\ buf[s] # <<>> /\ Head(buf[s]) = Done /\ LineInv(s)
  BY DEF DeliverDone, SubInv
<1> DEFINE g == got[s]
<1> DEFINE b == buf[s]
<1> DEFINE r == port[s] \o Held(s)
<1>2. /\ g \in Seq(Messages) /\ b \in Seq(Messages) /\ r \in Seq(Messages) /\ b # <<>>
      /\ Line(s) = g \o (b \o r) /\ b[1] = Done
  <2>1. g \in Seq(Messages) /\ b \in Seq(Messages)
    BY LineType
  <2>2. r \in Seq(Messages)
    BY LineType, ConcatProperties
  <2>3. Line(s) = g \o (b \o r)
    BY DEF Line
  <2> QED BY <1>1, <2>1, <2>2, <2>3
<1>3. g \in Seq(Items)
  BY DEF TypeOK
<1> HIDE DEF g, b, r
<1>4. /\ Len(g) \in Nat /\ Len(b) \in Nat \ {0} /\ Len(r) \in Nat
  BY <1>2
<1>5. /\ b \o r \in Seq(Messages) /\ Len(b \o r) = Len(b) + Len(r) /\ (b \o r)[1] = Done
  BY <1>2, <1>4, ConcatProperties
<1> DEFINE t == b \o r
<1> HIDE DEF t
<1>6. t \in Seq(Messages) /\ Len(t) \in Nat \ {0} /\ t[1] = Done /\ Line(s) = g \o t
  BY <1>2, <1>4, <1>5 DEF t
<1>7. /\ Len(g \o t) = Len(g) + Len(t)
      /\ \A i \in 1..(Len(g) + Len(t)) : (g \o t)[i] =
            IF i <= Len(g) THEN g[i] ELSE t[i - Len(g)]
  BY <1>2, <1>6, ConcatProperties
<1> DEFINE n == Len(g) + 1
<1>8. n \in 1..(Len(g) + Len(t)) /\ ~(n <= Len(g)) /\ n - Len(g) = 1
  BY <1>4, <1>6
<1>9. n \in 1..Len(Line(s)) /\ Line(s)[n] = Done
  BY <1>6, <1>7, <1>8
<1>10. task[s] = "ended"
  BY <1>1, <1>9 DEF LineInv, DoneLast
<1>11. closed[KindOf[s]] /\ ~HasNext(s)
  BY <1>1, <1>10 DEF EndReason
<1>12. KindOf[s] = "path" => seen[s] = version["path"]
  <2>1. seen[s] \in Nat /\ version["path"] \in Nat /\ seen[s] <= version[KindOf[s]]
    BY DEF TypeOK, SubInv, Kinds
  <2> QED BY <1>11, <2>1 DEF HasNext
<1>13. ASSUME g # <<>> PROVE g[Len(g)].pos = seen[s]
  <2>1. Len(g) \in 1..Len(g) /\ Len(g) \in 1..(Len(g) + Len(t)) /\ Len(g) + 1 = n
    BY <1>2, <1>4, <1>6, <1>13
  <2>2. Line(s)[Len(g)] = g[Len(g)] /\ Len(g) \in 1..Len(Line(s))
    BY <1>6, <1>7, <2>1
  <2>3. g[Len(g)] # Done
    BY <1>3, <2>1, DoneIsNoItem, ElementOfSeq
  <2>4. AtSeen(s)
    BY <1>1 DEF LineInv
  <2> QED BY <1>9, <2>1, <2>2, <2>3, <2>4 DEF AtSeen
<1> QED BY <1>10, <1>11, <1>12, <1>13 DEF Complete, g

LEMMA TokensOfLiving ==
    ASSUME OneEngine, TypeOK, TokenInv, LivingTokens, [Next]_vars
    PROVE  LivingTokens'
<1>0. /\ \A s \in Subs : IsolateOf[s] \in Isolates /\ counter[IsolateOf[s]] \in Nat
      /\ \A s \in Subs : token[s] \in Nat
      /\ \A s, r \in Subs : IsolateOf[r] = IsolateOf[s]
  BY IsolateAssumption, BoundAssumption DEF OneEngine, TypeOK
<1>1. ASSUME NEW s \in Subs, Create(s) PROVE LivingTokens'
  <2>1. /\ \A r \in Subs : token'[r] = IF r = s THEN counter[IsolateOf[s]] + 1 ELSE token[r]
        /\ \A r \in Subs : counter'[IsolateOf[r]] = counter[IsolateOf[s]] + 1
        /\ \A r \in Subs : r # s => dart'[r] = dart[r]
    BY <1>0, <1>1 DEF Create, TypeOK
  <2>2. \A r \in Subs : r # s => (Living(r)' <=> Living(r))
    BY <2>1 DEF Living
  <2>3. \A r \in Subs : r # s /\ Living(r) => token[r] <= counter[IsolateOf[s]]
    BY <1>0 DEF LivingTokens
  <2>4. \A r \in Subs : Living(r)' => token'[r] <= counter'[IsolateOf[r]]
    BY <1>0, <2>1, <2>2, <2>3
  <2>5. ASSUME NEW q \in Subs, NEW r \in Subs, Living(q)', Living(r)', token'[q] = token'[r]
        PROVE  q = r
    BY <1>0, <2>1, <2>2, <2>3, <2>5 DEF LivingTokens
  <2> QED BY <2>4, <2>5 DEF LivingTokens
<1>2. ASSUME NEW s \in Subs, ~Create(s), User(s) \/ EventLoop(s) \/ Worker(s) \/ Task(s)
      PROVE  UNCHANGED <<token, counter>> /\ \A r \in Subs : Living(r)' <=> Living(r)
  <2> USE DEF srcVars, dartVars, portVars, taskVars, Living, TypeOK
  <2>1. CASE User(s)
    BY <1>2, <2>1 DEF User, Listen, Cancel
  <2>2. CASE EventLoop(s)
    BY <2>2 DEF EventLoop, Receive, ReceiveCancelled, Deliver, DeliverDone
  <2>3. CASE Worker(s) \/ Task(s)
    BY <2>3 DEF Worker, Spawn, Register, Task, TakeNext, Park, AddOk, AddFails, SourceEnds,
                Unregister, Return, Aborted, DropFuture
  <2> QED BY <1>2, <2>1, <2>2, <2>3
<1>3. ASSUME UNCHANGED <<token, counter>>, \A r \in Subs : Living(r)' <=> Living(r)
      PROVE  LivingTokens'
  BY <1>3 DEF LivingTokens
<1>4. ASSUME NEW i \in Isolates, Restart(i) PROVE LivingTokens'
  <2>1. /\ \A s \in Subs : dart'[s] = IF IsolateOf[s] = i /\ dart[s] # "new" THEN "dead"
                                      ELSE dart[s]
        /\ token' = token
        /\ \A j \in Isolates : j # i => counter'[j] = counter[j]
    BY <1>4 DEF Restart, TypeOK
  <2>2. \A r \in Subs : Living(r)' => Living(r) /\ IsolateOf[r] # i
    BY <2>1 DEF Living
  <2> QED BY <1>0, <2>1, <2>2 DEF LivingTokens
<1>5. ASSUME (\E k \in Kinds : Change(k) \/ CloseSource(k)) \/ UNCHANGED vars
      PROVE  UNCHANGED <<token, counter, dart>>
  BY <1>5 DEF Change, CloseSource, vars, dartVars
<1>6. CASE (\E k \in Kinds : Change(k) \/ CloseSource(k)) \/ UNCHANGED vars
  BY <1>3, <1>5, <1>6 DEF Living
<1> QED BY <1>1, <1>2, <1>3, <1>4, <1>6 DEF Next
LEMMA AbortsAreOver ==
    ASSUME TypeOK, TokenInv, LivingTokens, AbortedIsOver, [Next]_vars
    PROVE  AbortedIsOver'
<1>1. ASSUME NEW s \in Subs, Cancel(s) \/ DeliverDone(s) PROVE AbortedIsOver'
  <2>1. /\ AbortStream(token[s]) /\ token' = token /\ dart[s] = "listening"
        /\ dart' \in {[dart EXCEPT ![s] = "ended"], [dart EXCEPT ![s] = "cancelled"]}
    BY <1>1 DEF Cancel, DeliverDone
  <2>2. token[s] \in Tokens
    BY <2>1 DEF TokenInv, TokenDrawn
  <2>3. dart'[s] \in Over /\ \A r \in Subs : dart[r] \in Over => dart'[r] \in Over
    BY <2>1 DEF TypeOK, Over
  <2>4. \A r \in Subs : aborted'[r] => aborted[r] \/ token[r] = token[s]
    BY <2>1, <2>2, AbortStreamOwn
  <2> SUFFICES ASSUME NEW r \in Subs, aborted'[r] PROVE dart'[r] \in Over
    BY Zenon DEF AbortedIsOver
  <2>5. CASE aborted[r]
    BY <2>3, <2>5 DEF AbortedIsOver
  <2>6. CASE ~aborted[r]
    <3>1. token[r] = token[s] /\ registry[token[s]] = r
      BY <2>1, <2>4, <2>6, Zenon DEF AbortStream
    <3>2. r = s \/ ~Living(r)
      BY <2>1, <3>1 DEF LivingTokens, Living
    <3>3. dart[r] # "new"
      BY <2>2, <3>1 DEF TokenInv, TokenDrawn, Tokens
    <3> QED BY <2>3, <3>2, <3>3 DEF Living, Over
  <2> QED BY <2>5, <2>6
<1>2. ASSUME aborted' = aborted, \A r \in Subs : dart[r] \in Over => dart'[r] \in Over
      PROVE  AbortedIsOver'
  BY <1>2, Zenon DEF AbortedIsOver
<1>3. ASSUME NEW s \in Subs, ~Cancel(s), ~DeliverDone(s),
             User(s) \/ EventLoop(s) \/ Worker(s) \/ Task(s)
      PROVE  AbortedIsOver'
  <2> USE DEF dartVars, TypeOK, Over
  <2>1. aborted' = aborted
    BY <1>3 DEF User, Create, Listen, EventLoop, Receive, ReceiveCancelled, Deliver, Worker,
                Spawn, Register, Task, TakeNext, Park, AddOk, AddFails, SourceEnds,
                Unregister, Return, Aborted, DropFuture
  <2>2. CASE User(s) \/ EventLoop(s)
    <3>1. \A r \in Subs : dart[r] \in Over => dart'[r] \in Over
      BY <1>3, <2>2 DEF User, Create, Listen, EventLoop, Receive, ReceiveCancelled, Deliver
    <3> QED BY <1>2, <2>1, <3>1
  <2>3. CASE Worker(s) \/ Task(s)
    <3>1. dart' = dart
      BY <2>3 DEF Worker, Spawn, Register, Task, TakeNext, Park, AddOk, AddFails, SourceEnds,
                  Unregister, Return, Aborted, DropFuture
    <3> QED BY <1>2, <2>1, <3>1
  <2> QED BY <1>3, <2>2, <2>3
<1>4. ASSUME NEW i \in Isolates, Restart(i) PROVE AbortedIsOver'
  <2>1. /\ aborted' = aborted
        /\ \A s \in Subs : dart'[s] = "dead" \/ dart'[s] = dart[s]
    BY <1>4 DEF Restart
  <2> QED BY <1>2, <2>1 DEF Over
<1>5. CASE (\E k \in Kinds : Change(k) \/ CloseSource(k)) \/ UNCHANGED vars
  <2>1. UNCHANGED <<aborted, dart>>
    BY <1>5 DEF Change, CloseSource, vars, dartVars
  <2> QED BY <1>2, <2>1
<1> QED BY <1>1, <1>3, <1>4, <1>5 DEF Next

(* A subscription that the step leaves alone, its source included.         *)
LEMMA EndQuiet ==
    ASSUME NEW s \in Subs, EndReason(s), dart[s] = "ended" => Complete(s),
           Untouched(s), version' = version, closed' = closed
    PROVE  EndReason(s)' /\ (dart'[s] = "ended" => Complete(s)')
<1>1. HasNext(s)' <=> HasNext(s)
  BY DEF Untouched, HasNext
<1> QED BY <1>1 DEF Untouched, EndReason, Complete

(* A closed source does not change.                                        *)
LEMMA EndSource ==
    ASSUME TypeOK, NEW s \in Subs, EndReason(s), dart[s] = "ended" => Complete(s),
           (\E k \in Kinds : Change(k) \/ CloseSource(k)) \/ UNCHANGED vars
    PROVE  EndReason(s)' /\ (dart'[s] = "ended" => Complete(s)')
<1>1. Untouched(s)
  BY DEF Untouched, Change, CloseSource, vars, dartVars, portVars, taskVars
<1>2. ASSUME closed[KindOf[s]]
      PROVE  closed'[KindOf[s]] /\ version'[KindOf[s]] = version[KindOf[s]]
  BY <1>2, KindAssumption DEF TypeOK, Change, CloseSource, vars, srcVars
<1>3. closed[KindOf[s]] => (HasNext(s)' <=> HasNext(s))
  BY <1>1, <1>2 DEF Untouched, HasNext
<1> QED BY <1>1, <1>2, <1>3 DEF Untouched, EndReason, Complete

(* What the task of a live stream does.                                    *)
LEMMA EndTask ==
    ASSUME TypeOK, NEW s \in Subs, SubInv(s), EndReason(s), dart[s] = "ended" => Complete(s),
           aborted[s] => dart[s] \in Over, Task(s)
    PROVE  EndReason(s)' /\ (dart'[s] = "ended" => Complete(s)')
<1> USE DEF srcVars, dartVars, portVars
<1>1. UNCHANGED <<version, closed, dart, got>>
  BY DEF Task, TakeNext, Park, AddOk, AddFails, SourceEnds, Unregister, Return, Aborted,
         DropFuture
<1>2. task[s] # "ended"
  BY DEF Task, TakeNext, Park, AddOk, AddFails, SourceEnds, Unregister, Return, Aborted,
         AtNext
<1>3. dart'[s] # "ended"
  BY <1>1, <1>2 DEF Complete
<1>4. ASSUME dart[s] = "listening", task'[s] \in {"leaving", "unregistered", "ended"}
      PROVE  closed[KindOf[s]] /\ ~HasNext(s) /\ seen'[s] = seen[s]
  <2>1. ~aborted[s] /\ portOpen[s]
    BY <1>2, <1>4 DEF SubInv, LineInv, Over
  <2>2. CASE TakeNext(s) \/ Park(s) \/ AddOk(s)
    BY <1>4, <2>2 DEF TakeNext, Park, AddOk, TypeOK
  <2>3. CASE SourceEnds(s)
    BY <2>3 DEF SourceEnds, EndOfSource
  <2>4. CASE Unregister(s) \/ Return(s)
    BY <1>4, <2>4 DEF Unregister, Return, DropFuture, EndReason
  <2> QED BY <2>1, <2>2, <2>3, <2>4 DEF Task, AddFails, Aborted
<1>5. EndReason(s)'
  BY <1>1, <1>4 DEF EndReason, HasNext
<1> QED BY <1>3, <1>5

LEMMA EndStep ==
    ASSUME OneEngine, OrderInv, EndInv, [Next]_vars
    PROVE  EndInv'
<1>1. TypeOK /\ TokenInv /\ \A s \in Subs : SubInv(s)
  BY DEF OrderInv
<1>2. LivingTokens' /\ AbortedIsOver'
  BY <1>1, TokensOfLiving, AbortsAreOver DEF EndInv
<1>3. ASSUME NEW r \in Subs PROVE EndReason(r)' /\ (dart'[r] = "ended" => Complete(r)')
  <2>1. EndReason(r) /\ (dart[r] = "ended" => Complete(r)) /\ (aborted[r] => dart[r] \in Over)
    BY DEF EndInv, AbortedIsOver
  <2>2. ASSUME NEW s \in Subs, r # s, User(s) \/ EventLoop(s) \/ Worker(s) \/ Task(s)
        PROVE  Untouched(r) /\ version' = version /\ closed' = closed
    <3>1. closed' = closed
      BY <2>2 DEF User, Create, Listen, Cancel, EventLoop, Receive, ReceiveCancelled, Deliver,
                  DeliverDone, Worker, Spawn, Register, Task, TakeNext, Park, AddOk, AddFails,
                  SourceEnds, Unregister, Return, Aborted, DropFuture, srcVars
    <3> QED BY <1>1, <2>2, <3>1, OthersStay
  <2>3. CASE \E s \in Subs : r # s /\ (User(s) \/ EventLoop(s) \/ Worker(s) \/ Task(s))
    BY <2>1, <2>2, <2>3, EndQuiet
  <2>4. CASE Task(r)
    BY <1>1, <2>1, <2>4, EndTask
  <2>5. CASE DeliverDone(r)
    <3>1. Complete(r)
      BY <1>1, <2>1, <2>5, EndIsTold
    <3>2. UNCHANGED <<task, closed, seen, version, got>>
      BY <2>5 DEF DeliverDone, taskVars, srcVars
    <3>3. dart'[r] = "ended"
      BY <1>1, <2>5 DEF DeliverDone, TypeOK
    <3> QED BY <3>1, <3>2, <3>3 DEF Complete, EndReason
  <2>6. CASE User(r)
    <3>1. dart'[r] # "ended" /\ (dart'[r] = "listening" => task'[r] = "none")
      BY <1>1, <2>6 DEF User, Create, Listen, Cancel, TypeOK, TokenInv, CallAfterListen,
                        taskVars
    <3> QED BY <3>1 DEF EndReason
  <2>7. CASE Receive(r) \/ ReceiveCancelled(r) \/ Deliver(r)
    <3>1. /\ UNCHANGED <<task, closed, seen, version, dart>>
          /\ dart[r] # "ended"
      BY <2>7 DEF Receive, ReceiveCancelled, Deliver, taskVars, srcVars, dartVars
    <3> QED BY <2>1, <3>1 DEF EndReason, HasNext
  <2>8. CASE Worker(r)
    <3>1. UNCHANGED <<closed, version, dart, got>>
      BY <2>8 DEF Worker, Spawn, Register, srcVars, dartVars
    <3>2. CASE task' = task /\ seen' = seen
      BY <2>1, <3>1, <3>2 DEF EndReason, HasNext, Complete
    <3>3. CASE Spawn(r)
      <4>1. task[r] = "none" /\ task'[r] = "parked"
        BY <1>1, <3>3 DEF Spawn, TypeOK, TokenInv, CallAfterListen
      <4> QED BY <2>1, <3>1, <4>1 DEF EndReason, Complete
    <3> QED BY <2>8, <3>2, <3>3 DEF Worker, Register, taskVars
  <2>9. ASSUME NEW i \in Isolates, Restart(i)
        PROVE  EndReason(r)' /\ (dart'[r] = "ended" => Complete(r)')
    <3>1. UNCHANGED <<task, closed, seen, version, got>>
          /\ dart'[r] \in {dart[r], "dead"}
      BY <2>9 DEF Restart, taskVars, srcVars
    <3> QED BY <2>1, <3>1 DEF EndReason, HasNext, Complete
  <2>10. CASE (\E k \in Kinds : Change(k) \/ CloseSource(k)) \/ UNCHANGED vars
    BY <1>1, <2>1, <2>10, EndSource
  <2> QED BY <2>3, <2>4, <2>5, <2>6, <2>7, <2>8, <2>9, <2>10 DEF Next, EventLoop
<1> QED BY <1>2, <1>3 DEF EndInv

LEMMA EndInit == Init => EndInv
BY DEF Init, EndInv, LivingTokens, Living, AbortedIsOver, EndReason

(* In one engine, restarted or not, a path event stream that ended told     *)
(* everything up to the last event of its connection.                      *)
THEOREM EndMeansComplete == ASSUME OneEngine PROVE Spec => []DoneMeansComplete
<1>1. OrderInv /\ EndInv /\ [Next]_vars => EndInv'
  BY EndStep
<1>2. EndInv => DoneMeansComplete
  BY DEF EndInv, Complete, DoneMeansComplete
<1> QED BY OrderInit, OrderStep, EndInit, <1>1, <1>2, PTL DEF Spec

(* In one engine, restarted or not, a stream that is listened to is never   *)
(* aborted, however many streams come and go and whatever tokens repeat     *)
(* (runtime.rs 36-51, endpoint.dart 36-58).                                *)
THEOREM NoForeignAbort == ASSUME OneEngine PROVE Spec => []LiveNeverAborted
<1>1. OrderInv /\ EndInv /\ [Next]_vars => EndInv'
  BY EndStep
<1>2. EndInv => LiveNeverAborted
  BY DEF EndInv, AbortedIsOver, LiveNeverAborted, Over
<1> QED BY OrderInit, OrderStep, EndInit, <1>1, <1>2, PTL DEF Spec

-----------------------------------------------------------------------------
(* The refinement: each step of the bridge is a step of CancellableStream   *)
(* or changes nothing that it sees.                                        *)

PhaseOf(d) == CASE d \in {"new", "created"} -> "idle"
                [] d = "listening" -> "live"
                [] d = "ended" -> "ended"
                [] d = "dead" -> "gone"
                [] OTHER -> "cancelled"

LEMMA PhaseIs == Phase = [s \in Subs |-> PhaseOf(dart[s])]
BY DEF Phase, PhaseOf

LEMMA PhaseMoves ==
    ASSUME TypeOK, NEW s \in Subs, NEW d, dart' = [dart EXCEPT ![s] = d]
    PROVE  Phase' = [Phase EXCEPT ![s] = PhaseOf(d)]
<1>1. Phase' = [r \in Subs |-> PhaseOf(dart'[r])]
  BY DEF Phase, PhaseOf
<1>2. \A r \in Subs : dart'[r] = IF r = s THEN d ELSE dart[r]
  BY DEF TypeOK
<1> QED BY <1>1, <1>2, PhaseIs

LEMMA PromiseInit == Init => Abstract!Init
BY DEF Init, Abstract!Init, Phase, Abstract!Kinds, Kinds

(* The listener is told what may follow.                                   *)
LEMMA DeliverTells ==
    ASSUME TypeOK, TypeOK', NEW s \in Subs, SubInv(s), SubInv(s)', Deliver(s)
    PROVE  Abstract!Tell(s)
<1>1. /\ dart[s] = "listening" /\ got' = [got EXCEPT ![s] = Append(@, Head(buf[s]))]
      /\ UNCHANGED <<version, closed, dart>>
      /\ buf[s] # <<>> /\ Head(buf[s]) # Done
  BY DEF Deliver, srcVars
<1> DEFINE m == Head(buf[s])
<1>2. m \in Items
  BY <1>1 DEF TypeOK, Messages
<1>3. m.pos \in Nat /\ m.missed \in Nat /\ m = [pos |-> m.pos, missed |-> m.missed]
  BY <1>2 DEF Items
<1> HIDE DEF m
<1>4. got[s] \in Seq(Items) /\ Len(got[s]) \in Nat /\ got'[s] = Append(got[s], m)
  BY <1>1 DEF TypeOK, m
<1>5. /\ Len(got'[s]) = Len(got[s]) + 1 /\ got'[s][Len(got[s]) + 1] = m
      /\ \A n \in 1..Len(got[s]) : got'[s][n] = got[s][n]
  BY <1>2, <1>4, AppendProperties
<1>6. m.pos \in 1..version[KindOf[s]] /\ m.missed \in 0..version[KindOf[s]]
  <2> DEFINE n == Len(got[s]) + 1
  <2> DEFINE r == buf'[s] \o (port'[s] \o Held(s)')
  <2>1. r \in Seq(Messages) /\ got'[s] \in Seq(Messages)
    <3>1. Items \subseteq Messages /\ got'[s] \in Seq(Items)
      BY DEF TypeOK, Messages
    <3>2. buf'[s] \in Seq(Messages) /\ port'[s] \in Seq(Messages) /\ hand'[s] \in Messages
      BY DEF TypeOK, Messages
    <3>3. Held(s)' \in Seq(Messages)
      BY <3>2 DEF Held
    <3>4. port'[s] \o Held(s)' \in Seq(Messages)
      BY <3>2, <3>3, ConcatProperties
    <3>5. r \in Seq(Messages)
      BY <3>2, <3>4, ConcatProperties
    <3>6. got'[s] \in Seq(Messages)
      BY <3>1, SeqMonotonic
    <3> QED BY <3>5, <3>6
  <2>2. Line(s)' = got'[s] \o r
    BY DEF Line
  <2> DEFINE G == got'[s]
  <2> HIDE DEF r, G
  <2>3. /\ G \o r \in Seq(Messages) /\ Len(G \o r) = Len(G) + Len(r)
        /\ \A i \in 1..(Len(G) + Len(r)) : (G \o r)[i] =
              IF i <= Len(G) THEN G[i] ELSE r[i - Len(G)]
    BY <2>1, ConcatProperties DEF G
  <2>4. n \in 1..(Len(G) + Len(r)) /\ n <= Len(G) /\ G[n] = m
    BY <1>4, <1>5, <2>1 DEF G
  <2>5. n \in 1..Len(Line(s)') /\ Line(s)'[n] = m
    BY <2>2, <2>3, <2>4 DEF G
  <2>6. Placed(s)'
    BY <1>1 DEF SubInv, LineInv
  <2>7. m # Done /\ version' = version
    BY <1>1 DEF m
  <2>8. m.pos \in 1..version[KindOf[s]] /\ m.missed <= version[KindOf[s]]
    BY <2>5, <2>6, <2>7 DEF Placed
  <2>9. version[KindOf[s]] \in Nat
    BY KindAssumption DEF TypeOK
  <2> QED BY <1>3, <2>8, <2>9
<1>7. Abstract!Follows(s, m)
  <2> SUFFICES ASSUME got[s] # <<>>
               PROVE  IF KindOf[s] = "watch" THEN m.pos > got[s][Len(got[s])].pos
                      ELSE m.pos = got[s][Len(got[s])].pos
                                   + (IF m.missed > 0 THEN m.missed ELSE 1)
    BY DEF Abstract!Follows
  <2> DEFINE n == Len(got'[s])
  <2>1. n \in 2..Len(got'[s]) /\ n - 1 = Len(got[s]) /\ Len(got[s]) \in 1..Len(got[s])
    BY <1>4, <1>5
  <2>2. Continues(s, got'[s][n - 1], got'[s][n])
    BY <2>1 DEF SubInv, GotInOrder, Continues
  <2>3. got'[s][n - 1] = got[s][Len(got[s])] /\ got'[s][n] = m
    BY <1>4, <1>5, <2>1
  <2> QED BY <2>2, <2>3 DEF Continues
<1>8. Phase[s] = "live" /\ Phase' = Phase
  BY <1>1 DEF Phase
<1> QED BY <1>1, <1>3, <1>6, <1>7, <1>8 DEF Abstract!Tell, m

(* What the listener does not see.                                         *)
Hidden == UNCHANGED <<version, closed, got>> /\ Phase' = Phase

LEMMA SubRefines ==
    ASSUME OrderInv, OrderInv', NEW s \in Subs, EndReason(s),
           User(s) \/ EventLoop(s) \/ Worker(s) \/ Task(s)
    PROVE  Hidden \/ Abstract!Next
<1> USE DEF srcVars, dartVars
<1>0. TypeOK /\ TypeOK' /\ SubInv(s) /\ SubInv(s)'
  BY DEF OrderInv
<1>1. CASE Create(s)
  <2>1. UNCHANGED <<version, closed, got>> /\ dart[s] = "new"
        /\ dart' = [dart EXCEPT ![s] = "created"]
    BY <1>1 DEF Create
  <2>2. Phase' = [Phase EXCEPT ![s] = "idle"]
    BY <1>0, <2>1, PhaseMoves DEF PhaseOf
  <2>3. Phase = [Phase EXCEPT ![s] = "idle"]
    BY <2>1 DEF Phase
  <2> QED BY <2>1, <2>2, <2>3 DEF Hidden
<1>2. CASE Listen(s)
  <2>1. UNCHANGED <<version, closed, got>> /\ dart[s] = "created"
        /\ dart' = [dart EXCEPT ![s] = "listening"]
    BY <1>2 DEF Listen
  <2>2. Phase' = [Phase EXCEPT ![s] = "live"]
    BY <1>0, <2>1, PhaseMoves DEF PhaseOf
  <2>3. Phase[s] = "idle"
    BY <2>1 DEF Phase
  <2>4. Abstract!Subscribe(s)
    BY <2>1, <2>2, <2>3 DEF Abstract!Subscribe
  <2> QED BY <2>4 DEF Abstract!Next
<1>3. CASE Cancel(s)
  <2>1. UNCHANGED <<version, closed, got>> /\ dart[s] = "listening"
        /\ dart' = [dart EXCEPT ![s] = "cancelled"]
    BY <1>3 DEF Cancel
  <2>2. Phase' = [Phase EXCEPT ![s] = "cancelled"]
    <3>1. PhaseOf("cancelled") = "cancelled"
      BY DEF PhaseOf
    <3> QED BY <1>0, <2>1, <3>1, PhaseMoves
  <2>3. Phase[s] = "live"
    BY <2>1 DEF Phase
  <2>4. Abstract!Cancel(s)
    BY <2>1, <2>2, <2>3 DEF Abstract!Cancel
  <2> QED BY <2>4 DEF Abstract!Next
<1>4. CASE DeliverDone(s)
  <2>1. UNCHANGED <<version, closed, got>> /\ dart[s] = "listening"
        /\ dart' = [dart EXCEPT ![s] = "ended"]
    BY <1>4 DEF DeliverDone
  <2>2. Phase' = [Phase EXCEPT ![s] = "ended"]
    BY <1>0, <2>1, PhaseMoves DEF PhaseOf
  <2>3. Phase[s] = "live"
    BY <2>1 DEF Phase
  <2>4. Complete(s)
    BY <1>0, <1>4, EndIsTold
  <2>5. Abstract!End(s)
    BY <2>1, <2>2, <2>3, <2>4 DEF Abstract!End, Complete
  <2> QED BY <2>5 DEF Abstract!Next
<1>5. CASE Deliver(s)
  BY <1>0, <1>5, DeliverTells DEF Abstract!Next
<1>6. CASE Receive(s) \/ ReceiveCancelled(s)
  BY <1>6 DEF Receive, ReceiveCancelled, Hidden, Phase
<1>7. CASE Worker(s)
  BY <1>7 DEF Worker, Spawn, Register, Hidden, Phase
<1>8. CASE Task(s)
  BY <1>8 DEF Task, TakeNext, Park, AddOk, AddFails, SourceEnds, Unregister, Return,
              Aborted, DropFuture, Hidden, Phase
<1> QED BY <1>1, <1>2, <1>3, <1>4, <1>5, <1>6, <1>7, <1>8 DEF User, EventLoop

LEMMA StepRefines ==
    ASSUME OrderInv, OrderInv', EndInv, [Next]_vars
    PROVE  [Abstract!Next]_(Abstract!vars)
<1>1. Hidden => UNCHANGED Abstract!vars
  BY DEF Hidden, Abstract!vars
<1>2. ASSUME NEW s \in Subs, User(s) \/ EventLoop(s) \/ Worker(s) \/ Task(s)
      PROVE  Hidden \/ Abstract!Next
  BY <1>2, SubRefines DEF EndInv
<1>3. ASSUME NEW k \in Kinds, Change(k) \/ CloseSource(k) PROVE Abstract!Next
  <2>1. Phase' = Phase /\ got' = got
    BY <1>3 DEF Change, CloseSource, dartVars, Phase
  <2>2. Abstract!Change(k) \/ Abstract!CloseSource(k)
    BY <1>3, <2>1 DEF Change, CloseSource, Abstract!Change, Abstract!CloseSource
  <2>3. k \in Abstract!Kinds
    BY DEF Kinds, Abstract!Kinds
  <2> QED BY <2>2, <2>3 DEF Abstract!Next
<1>4. ASSUME NEW i \in Isolates, Restart(i) PROVE Abstract!Next
  <2> DEFINE S == {s \in Subs : IsolateOf[s] = i /\ dart[s] # "new"}
  <2>1. UNCHANGED <<version, closed, got>>
        /\ \A s \in Subs : dart'[s] = IF s \in S THEN "dead" ELSE dart[s]
    BY <1>4 DEF Restart, srcVars
  <2>2. Phase' = [s \in Subs |-> IF s \in S THEN "gone" ELSE Phase[s]]
    <3> HIDE DEF S
    <3>1. Phase' = [s \in Subs |-> PhaseOf(dart'[s])]
      BY DEF Phase, PhaseOf
    <3>2. \A s \in Subs : PhaseOf(dart'[s]) = IF s \in S THEN "gone" ELSE PhaseOf(dart[s])
      BY <2>1 DEF PhaseOf
    <3> QED BY <3>1, <3>2, PhaseIs
  <2>3. Abstract!Vanish(S) /\ S \in SUBSET Subs
    BY <2>1, <2>2 DEF Abstract!Vanish
  <2> QED BY <2>3 DEF Abstract!Next
<1>5. CASE UNCHANGED vars
  BY <1>5 DEF vars, srcVars, dartVars, Abstract!vars, Phase
<1> QED BY <1>1, <1>2, <1>3, <1>4, <1>5 DEF Next

(* In one engine, restarted or not, every step of the bridge is a step of   *)
(* the promise or hides in it: the safety part of ImplementsPromise.       *)
THEOREM KeepsPromise == ASSUME OneEngine PROVE Spec => Abstract!Spec
<1>1. OrderInv /\ EndInv /\ [Next]_vars => EndInv'
  BY EndStep
<1>2. OrderInv /\ OrderInv' /\ EndInv /\ [Next]_vars => [Abstract!Next]_(Abstract!vars)
  BY StepRefines
<1> QED BY PromiseInit, OrderInit, OrderStep, EndInit, <1>1, <1>2, PTL DEF Spec, Abstract!Spec

=============================================================================
