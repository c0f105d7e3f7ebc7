---------------------------- MODULE RouterProofs ----------------------------
(***************************************************************************)
(* Theorems about Router, for any number of registrations, spawns, attempts *)
(* and calls on the endpoint beside it.                                    *)
(***************************************************************************)
EXTENDS Router, EndpointAcceptProofs

-----------------------------------------------------------------------------
(* Type correctness of what the router adds.                               *)
LEMMA RouterTypeStart == RouterInit => RouterTypeOK
BY DEF RouterInit, RouterTypeOK, CallResult, Serving, ShutdownState

LEMMA RouterTypeStep == RouterTypeOK /\ [RouterNext]_allVars => RouterTypeOK'
<1> SUFFICES ASSUME RouterTypeOK, [RouterNext]_allVars PROVE RouterTypeOK'
  OBVIOUS
<1> USE DEF RouterTypeOK, CallResult, Serving, ShutdownState, processVars
<1>1. ASSUME NEW r \in Regs, CallReg(r) \/ RegisterHandler(r), UNCHANGED processVars
      PROVE  RouterTypeOK'
  BY <1>1, RegAssumption DEF CallReg, RegisterHandler
<1>2. ASSUME NEW w \in Spawns, CallSpawn(w) \/ Spawn(w) \/ SpawnFails(w), UNCHANGED processVars
      PROVE  RouterTypeOK'
  BY <1>2 DEF CallSpawn, Spawn, SpawnFails
<1>3. ASSUME Loop \/ Release, UNCHANGED processVars PROVE RouterTypeOK'
  BY <1>3 DEF Loop, LoopTakes, LoopSeesClosed, LoopStops, Release
<1>4. ASSUME NEW h \in Shutdowns, CallShutdown(h) \/ ShutdownReturns(h), UNCHANGED processVars
      PROVE  RouterTypeOK'
  BY <1>4 DEF CallShutdown, ShutdownReturns
<1>5. ASSUME NEW a \in Attempts, Serve(a), UNCHANGED processVars PROVE RouterTypeOK'
  BY <1>5, AlpnAssumption DEF Serve, Dispatch, ServeFails
<1>6. ASSUME NEW a \in Attempts, Callback(a), UNCHANGED processVars PROVE RouterTypeOK'
  BY <1>6 DEF Callback, CallbackReturns, CallbackThrows
<1>7. ASSUME NEW a \in Attempts, CallbackAborts(a) PROVE RouterTypeOK'
  BY <1>7 DEF CallbackAborts, rvars
<1>8. ASSUME UNCHANGED <<rvars, processVars>> PROVE RouterTypeOK'
  BY <1>8 DEF rvars
<1> QED BY <1>1, <1>2, <1>3, <1>4, <1>5, <1>6, <1>7, <1>8
        DEF RouterNext, RouterStep, Up, Building, allVars

(* The state of the router is well typed (router.rs).                      *)
THEOREM RouterTypeCorrect == RouterSpec => []RouterTypeOK
BY RouterTypeStart, RouterTypeStep, PTL DEF RouterSpec

-----------------------------------------------------------------------------
(* The builder.  RegisteredIsServed is kept because the table holds only    *)
(* handlers of calls that answered without error.                          *)
TableInv == \A p \in Alpns :
    table[p] # NoReg => table[p] \in Regs /\ reg[table[p]] = "ok" /\ RegAlpn[table[p]] = p

RegInv == RouterTypeOK /\ TableInv /\ \A r \in Regs : reg[r] = "ok" => table[RegAlpn[r]] # NoReg

LEMMA RegStart == RouterInit => RegInv
BY RouterTypeStart DEF RouterInit, RegInv, TableInv

LEMMA RegStep == RegInv /\ [RouterNext]_allVars => RegInv'
<1> SUFFICES ASSUME RegInv, [RouterNext]_allVars PROVE RegInv'
  OBVIOUS
<1>1. RouterTypeOK'
  BY RouterTypeStep DEF RegInv
<1>2. ASSUME UNCHANGED <<table, reg>> PROVE RegInv'
  BY <1>1, <1>2 DEF RegInv, TableInv
<1>3. ASSUME NEW r \in Regs, CallReg(r) PROVE RegInv'
  <2>1. UNCHANGED table /\ \A q \in Regs : reg'[q] = "ok" <=> reg[q] = "ok"
    BY <1>3 DEF CallReg, RegInv, RouterTypeOK
  <2> QED BY <1>1, <2>1 DEF RegInv, TableInv
<1>4. ASSUME NEW r \in Regs, RegisterHandler(r) PROVE RegInv'
  <2>1. RegAlpn[r] \in Alpns /\ r # NoReg
    BY RegAssumption
  <2>2. CASE builder
    <3>1. /\ reg'[r] = "ok" /\ table'[RegAlpn[r]] = r
          /\ \A q \in Regs : q # r => reg'[q] = reg[q]
          /\ \A p \in Alpns : p # RegAlpn[r] => table'[p] = table[p]
      BY <1>4, <2>1, <2>2 DEF RegisterHandler, RegInv, RouterTypeOK
    <3> QED BY <1>1, <2>1, <3>1, RegAssumption DEF RegInv, TableInv
  <2>3. CASE ~builder
    <3>1. UNCHANGED table /\ \A q \in Regs : reg'[q] = "ok" <=> reg[q] = "ok"
      BY <1>4, <2>3 DEF RegisterHandler, RegInv, RouterTypeOK
    <3> QED BY <1>1, <3>1 DEF RegInv, TableInv
  <2> QED BY <2>2, <2>3 DEF RegInv, RouterTypeOK
<1>5. (\E r \in Regs : CallReg(r) \/ RegisterHandler(r)) \/ UNCHANGED <<table, reg>>
  BY DEF RouterNext, RouterStep, Up, Building, Loop, Serve, Callback, CallSpawn, Spawn, SpawnFails,
         LoopTakes, LoopSeesClosed, LoopStops, CallShutdown, ShutdownReturns, Release, Dispatch,
         ServeFails, CallbackReturns, CallbackThrows, CallbackAborts, allVars, rvars
<1> QED BY <1>2, <1>3, <1>4, <1>5

(* A registration that answered without error has a handler in the table,   *)
(* also when a spawn overtook it (router.rs 71-100).                       *)
THEOREM RegistrationCounts == RouterSpec => []RegisteredIsServed
<1>1. RegInv => RegisteredIsServed
  BY RegAssumption DEF RegInv, TableInv, RegisteredIsServed
<1> QED BY RegStart, RegStep, <1>1, PTL DEF RouterSpec

-----------------------------------------------------------------------------
(* Shutdown.  What the loop does happens between the spawn and its end; a    *)
(* loop that ended closed the endpoint and serves nothing.  A call that     *)
(* waits has cancelled the token, so that the loop is on its way to the end *)
(* whatever other calls find.                                              *)
StopInv ==
    /\ builder => running = "off"
    /\ \A h \in Shutdowns :
          /\ shutdown[h] = "waiting" => running \in {"stopping", "stopped"}
          /\ shutdown[h] = "joined" => running = "stopped"
          /\ shutdown[h] = "early" =>
                running = "stopped" \/ \E k \in Shutdowns : shutdown[k] = "waiting"
    /\ running = "stopped" => /\ ~open
                              /\ \A a \in Attempts : serving[a] \notin {"handshake", "callback"}

LEMMA StopStart == RouterInit => StopInv
BY DEF RouterInit, StopInv

(* Nothing opens an endpoint again.                                        *)
LEMMA ClosedStays == Next /\ ~open => ~open'
<1> SUFFICES ASSUME Next, ~open PROVE ~open'
  OBVIOUS
<1>1. CASE User
  BY <1>1 DEF User, Call, SetAlpns, Abandon, Close, Decide, Refuse, Ignore, Retry, RetryFails,
              DecideTooLate, CallAccept, epVars
<1>2. ASSUME NEW c \in Calls, Accepting(c) \/ Collect(c) PROVE ~open'
  BY <1>2 DEF Accepting, Take, TakeNone, AcceptDone, AcceptFails, Collect, epVars
<1>3. ASSUME NEW d \in Deciders, Deciding(d) PROVE ~open'
  BY <1>3 DEF Deciding, AcceptTakes, AcceptTooLate, IncomingDone, IncomingFails, epVars
<1>4. ASSUME NEW a \in Attempts, Connect(a) \/ GiveUp(a) PROVE ~open'
  BY <1>4 DEF Connect, GiveUp, epVars
<1> QED BY <1>1, <1>2, <1>3, <1>4 DEF Next

LEMMA StopStep == RouterTypeOK /\ StopInv /\ [RouterNext]_allVars => StopInv'
<1> SUFFICES ASSUME RouterTypeOK, StopInv, [RouterNext]_allVars PROVE StopInv'
  OBVIOUS
<1> USE DEF StopInv, vars, epVars
<1>1. ASSUME Next /\ UNCHANGED rvars PROVE StopInv'
  BY <1>1, ClosedStays DEF rvars
<1>2. ASSUME NEW r \in Regs, CallReg(r) \/ RegisterHandler(r) PROVE StopInv'
  BY <1>2 DEF CallReg, RegisterHandler
<1>3. ASSUME NEW w \in Spawns, CallSpawn(w) \/ Spawn(w) \/ SpawnFails(w) PROVE StopInv'
  BY <1>3 DEF CallSpawn, Spawn, SpawnFails
<1>4. ASSUME LoopTakes \/ LoopSeesClosed PROVE StopInv'
  BY <1>4 DEF LoopTakes, LoopSeesClosed
<1>5. ASSUME LoopStops PROVE StopInv'
  <2>1. \A a \in Attempts : serving'[a] \notin {"handshake", "callback"}
    BY <1>5 DEF LoopStops, RouterTypeOK, Serving
  <2>2. /\ running = "stopping" /\ running' = "stopped" /\ ~open'
        /\ UNCHANGED <<builder, shutdown>>
    BY <1>5 DEF LoopStops
  <2> QED BY <2>1, <2>2
<1>6. ASSUME NEW h \in Shutdowns, CallShutdown(h) PROVE StopInv'
  <2>1. /\ \A k \in Shutdowns : k # h => shutdown'[k] = shutdown[k]
        /\ shutdown'[h] = IF Cancelled THEN "early" ELSE "waiting"
        /\ shutdown[h] = "idle" /\ running \in {"on", "stopping", "stopped"}
        /\ running' = IF running = "on" /\ ~Cancelled THEN "stopping" ELSE running
        /\ UNCHANGED <<vars, builder, serving>>
    BY <1>6 DEF CallShutdown, RouterTypeOK
  <2>2. Cancelled => running = "stopped" \/ \E k \in Shutdowns : shutdown[k] = "waiting"
    BY DEF Cancelled, RouterTypeOK, ShutdownState
  <2>3. running' \in {"stopping", "stopped"} /\ (running' = "stopped" <=> running = "stopped")
    BY <2>1, <2>2
  <2>4. \A k \in Shutdowns : shutdown[k] = "waiting" => shutdown'[k] = "waiting"
    BY <2>1
  <2>5. shutdown'[h] = "early" =>
            running' = "stopped" \/ \E k \in Shutdowns : shutdown'[k] = "waiting"
    BY <2>1, <2>2, <2>3, <2>4
  <2> QED BY <2>1, <2>3, <2>4, <2>5
<1>7. ASSUME NEW h \in Shutdowns, ShutdownReturns(h) PROVE StopInv'
  <2>1. /\ \A k \in Shutdowns : k # h => shutdown'[k] = shutdown[k]
        /\ shutdown'[h] = "joined" /\ running = "stopped"
        /\ UNCHANGED <<vars, builder, running, serving>>
    BY <1>7 DEF ShutdownReturns, RouterTypeOK
  <2> QED BY <2>1
<1>8. ASSUME Release PROVE StopInv'
  BY <1>8 DEF Release
<1>9. ASSUME NEW a \in Attempts, Serve(a) PROVE StopInv'
  BY <1>9 DEF Serve, Dispatch, ServeFails
<1>10. ASSUME NEW a \in Attempts, Callback(a) PROVE StopInv'
  BY <1>10 DEF Callback, CallbackReturns, CallbackThrows, RouterTypeOK
<1>11. ASSUME UNCHANGED <<vars, rvars>> PROVE StopInv'
  BY <1>11 DEF rvars
<1> QED BY <1>1, <1>2, <1>3, <1>4, <1>5, <1>6, <1>7, <1>8, <1>9, <1>10, <1>11
        DEF RouterNext, RouterStep, Up, Building, Loop, CallbackAborts, allVars

(* When the shutdown that joined the loop has returned, the endpoint is     *)
(* closed and no Dart callback runs or can start any more, whichever other  *)
(* shutdowns, panics and closes went before (router.rs 103-112).           *)
THEOREM ShutdownIsQuiet == RouterSpec => []QuietAfterShutdown
<1>1. StopInv => QuietAfterShutdown
  BY DEF StopInv, QuietAfterShutdown
<1> QED BY StopStart, StopStep, RouterTypeStart, RouterTypeStep, <1>1, PTL DEF RouterSpec

-----------------------------------------------------------------------------
(* Hands, over router and endpoint: what the router serves no hand of the    *)
(* endpoint has, and its peer has connected once, so that no later Connect  *)
(* puts it back.                                                           *)
Served == {"handshake", "callback"}

ServeInv == \A a \in Attempts : serving[a] \in Served => peer[a] # "idle" /\ ~InHand(a)

HandsInv == HandInv /\ RouterTypeOK /\ ServeInv

LEMMA HandsStart == RouterInit => HandsInv
BY HandStart, RouterTypeStart DEF RouterInit, HandsInv, ServeInv, Served

(* The steps of the endpoint.                                              *)
LEMMA HandsNext ==
    ASSUME HandsInv, Next, UNCHANGED <<rvars, processVars>>
    PROVE  HandsInv'
<1>1. HandInv' /\ \A a \in Attempts : InHand(a)' => InHand(a) \/ peer[a] = "idle"
  BY HandStep DEF HandsInv
<1>2. \A a \in Attempts : peer'[a] = "idle" => peer[a] = "idle"
  BY IdleNeverAgain DEF HandsInv, HandInv, VerdictInv
<1>3. RouterTypeOK'
  BY DEF HandsInv, RouterTypeOK, rvars, processVars
<1>4. ServeInv'
  BY <1>1, <1>2 DEF HandsInv, ServeInv, rvars
<1> QED BY <1>1, <1>3, <1>4 DEF HandsInv

(* The steps of the router leave the hands of the endpoint alone, but for   *)
(* the queue.                                                              *)
LEMMA RouterKeepsType == TypeOK /\ RouterTypeOK /\ RouterStep => TypeOK'
<1> SUFFICES ASSUME TypeOK, RouterTypeOK, RouterStep PROVE TypeOK'
  OBVIOUS
<1> USE DEF epVars, peerVars
<1>1. ASSUME NEW w \in Spawns, Spawn(w) PROVE TypeOK'
  <2>1. alpns' \subseteq Alpns
    BY <1>1 DEF Spawn, TypeOK
  <2> QED BY <1>1, <2>1 DEF Spawn, TypeOK
<1>2. ASSUME LoopTakes PROVE TypeOK'
  <2>1. queue' \in Seq(Attempts)
    BY <1>2 DEF LoopTakes, TypeOK
  <2>2. fits' \in [Attempts -> BOOLEAN]
    BY <1>2, HandshakeType DEF LoopTakes
  <2> QED BY <1>2, <2>1, <2>2 DEF LoopTakes, TypeOK
<1>3. ASSUME LoopStops PROVE TypeOK'
  <2>1. peer' \in [Attempts -> PeerState]
    BY <1>3 DEF LoopStops, TypeOK, PeerState
  <2>2. queue' = <<>> /\ open' = FALSE
    BY <1>3 DEF LoopStops
  <2>3. queue' \in Seq(Attempts)
    BY <2>2
  <2>4. open' \in BOOLEAN
    BY <2>2
  <2>5. UNCHANGED <<alpns, validated, fits, call, kind, held, abandoned, inner, dec>>
    BY <1>3 DEF LoopStops
  <2> QED BY <2>1, <2>3, <2>4, <2>5 DEF TypeOK
<1>4. ASSUME Release PROVE TypeOK'
  <2>1. peer' \in [Attempts -> PeerState]
    BY <1>4 DEF Release, Tell, TypeOK, PeerState
  <2> QED BY <1>4, <2>1 DEF Release, TypeOK
<1>5. ASSUME NEW a \in Attempts, Serve(a) PROVE TypeOK'
  <2>1. peer' \in [Attempts -> PeerState]
    BY <1>5 DEF Serve, Dispatch, ServeFails, Tell, TypeOK, PeerState
  <2> QED BY <1>5, <2>1 DEF Serve, Dispatch, ServeFails, TypeOK
<1>6. ASSUME UNCHANGED vars PROVE TypeOK'
  BY <1>6 DEF vars, TypeOK
<1>7. \/ (\E w \in Spawns : Spawn(w)) \/ LoopTakes \/ LoopStops \/ Release
      \/ (\E a \in Attempts : Serve(a)) \/ UNCHANGED vars
  BY DEF RouterStep, Building, Loop, CallReg, RegisterHandler, CallSpawn, SpawnFails,
         LoopSeesClosed, CallShutdown, ShutdownReturns, Callback, CallbackReturns,
         CallbackThrows
<1> QED BY <1>1, <1>2, <1>3, <1>4, <1>5, <1>6, <1>7

LEMMA RouterShrinks ==
    ASSUME TypeOK, RouterStep
    PROVE  Shrinks /\ UNCHANGED <<call, held, inner, dec>>
<1> USE DEF vars, epVars, peerVars
<1>1. UNCHANGED <<call, held, inner, dec>>
  BY DEF RouterStep, Building, Loop, CallReg, RegisterHandler, CallSpawn, Spawn, SpawnFails,
         LoopTakes, LoopSeesClosed, LoopStops, CallShutdown, ShutdownReturns, Release, Serve,
         Dispatch, ServeFails, Callback, CallbackReturns, CallbackThrows
<1>2. UNCHANGED queue \/ queue' = <<>> \/ (queue # <<>> /\ queue' = Tail(queue))
  BY DEF RouterStep, Building, Loop, CallReg, RegisterHandler, CallSpawn, Spawn, SpawnFails,
         LoopTakes, LoopSeesClosed, LoopStops, CallShutdown, ShutdownReturns, Release, Serve,
         Dispatch, ServeFails, Callback, CallbackReturns, CallbackThrows
<1>3. \A a \in Attempts : peer'[a] = "idle" => peer[a] = "idle"
  BY DEF RouterStep, Building, Loop, CallReg, RegisterHandler, CallSpawn, Spawn, SpawnFails,
         LoopTakes, LoopSeesClosed, LoopStops, CallShutdown, ShutdownReturns, Release, Serve,
         Dispatch, ServeFails, Callback, CallbackReturns, CallbackThrows, Tell, TypeOK
<1> QED BY <1>1, <1>2, <1>3 DEF Shrinks, Took

LEMMA RouterHands ==
    ASSUME HandsInv, Up(RouterStep)
    PROVE  HandsInv'
<1>1. TypeOK /\ TypeOK' /\ RouterTypeOK'
  <2>1. [RouterNext]_allVars
    BY DEF RouterNext
  <2>2. RouterStep
    BY DEF Up
  <2> QED BY <2>1, <2>2, RouterKeepsType, RouterTypeStep DEF HandsInv, HandInv, VerdictInv
<1>2. Shrinks /\ UNCHANGED <<call, inner, dec>>
  BY <1>1, RouterShrinks DEF Up
<1>3. VerdictInv'
  BY <1>1, <1>2, VerdictQuiet DEF HandsInv, HandInv
<1>4. HandInv' /\ \A a \in Attempts : InHand(a)' => InHand(a)
  BY <1>2, <1>3, ShrinkKeeps DEF HandsInv
<1>5. ASSUME NEW a \in Attempts, serving[a] \in Served PROVE peer'[a] # "idle" /\ ~InHand(a)'
  BY <1>2, <1>4, <1>5 DEF HandsInv, ServeInv, Shrinks
<1>6. ASSUME NEW a \in Attempts, serving'[a] \in Served, serving[a] \notin Served
      PROVE  LoopTakes /\ a = Head(queue)
  BY <1>6 DEF Up, RouterStep, Building, Loop, CallReg, RegisterHandler, CallSpawn, Spawn, SpawnFails,
         LoopTakes, LoopSeesClosed, LoopStops, CallShutdown, ShutdownReturns, Release, Serve,
         Dispatch, ServeFails, Callback, CallbackReturns, CallbackThrows, Served,
         HandsInv, RouterTypeOK
<1>7. ASSUME NEW h \in Attempts, LoopTakes, h = Head(queue)
      PROVE  peer'[h] # "idle" /\ ~InHand(h)'
  <2>1. /\ h = queue[1] /\ 1 \in 1..Len(queue)
        /\ \A n \in 1..Len(queue') : n + 1 \in 1..Len(queue) /\ queue'[n] = queue[n + 1]
        /\ UNCHANGED <<peer, held, inner, dec>>
    BY <1>1, <1>7 DEF LoopTakes, TypeOK
  <2>2. InHand(h) /\ peer[h] # "idle"
    BY <2>1 DEF InHand, HandsInv, HandInv, Unborn
  <2>3. \A n \in 1..Len(queue') : queue'[n] # h
    BY <2>1 DEF HandsInv, HandInv, QueueOnce
  <2>4. \A c \in Calls : held'[c] # h /\ inner'[c] # h
    BY <2>1 DEF HandsInv, HandInv, Apart
  <2>5. \A d \in Deciders : Took(d)' => dec'[d].att # h
    BY <2>1 DEF HandsInv, HandInv, Apart, Took
  <2> QED BY <2>1, <2>2, <2>3, <2>4, <2>5 DEF InHand
<1>8. ServeInv'
  BY <1>5, <1>6, <1>7 DEF ServeInv
<1> QED BY <1>1, <1>4, <1>8 DEF HandsInv

LEMMA HandsStep == HandsInv /\ [RouterNext]_allVars => HandsInv'
<1> SUFFICES ASSUME HandsInv, [RouterNext]_allVars PROVE HandsInv'
  OBVIOUS
<1>1. ASSUME UNCHANGED <<vars, rvars>> PROVE HandsInv'
  <2>1. HandInv'
    BY <1>1, HandStep DEF HandsInv
  <2>2. RouterTypeOK'
    BY RouterTypeStep DEF HandsInv
  <2>3. ServeInv'
    BY <1>1 DEF vars, peerVars, rvars, HandsInv, ServeInv, InHand, Took
  <2> QED BY <2>1, <2>2, <2>3 DEF HandsInv
<1> QED BY <1>1, HandsNext, RouterHands DEF RouterNext, Up, CallbackAborts, allVars

(* A peer that waits is in a hand of the endpoint or in a handshake of the  *)
(* router: taking moves the attempt, and whatever ends the loop answers.    *)
AnsweredInv ==
    InnerInv /\ \A a \in Attempts : peer[a] = "connecting" => Pending(a) \/ serving[a] = "handshake"

LEMMA AnsweredNext ==
    ASSUME HandsInv, AnsweredInv, Next, UNCHANGED rvars
    PROVE  AnsweredInv'
<1>1. VerdictInv /\ TypeOK /\ UNCHANGED serving
  BY DEF HandsInv, HandInv, VerdictInv, rvars
<1>2. InnerInv'
  BY <1>1, InnerStep DEF AnsweredInv
<1>3. ASSUME NEW a \in Attempts, peer'[a] = "connecting", serving[a] # "handshake"
      PROVE  Pending(a)'
  BY <1>1, <1>3, PendingStep DEF AnsweredInv
<1> QED BY <1>1, <1>2, <1>3 DEF AnsweredInv

LEMMA AnsweredRouter ==
    ASSUME HandsInv, AnsweredInv, RouterStep
    PROVE  AnsweredInv'
<1> USE DEF vars, epVars, peerVars
<1>0. TypeOK /\ RouterTypeOK
  BY DEF HandsInv, HandInv, VerdictInv
<1>1. UNCHANGED <<call, held, inner, dec>> /\ InnerInv'
  BY <1>0, RouterShrinks DEF AnsweredInv, InnerInv
<1>2. ASSUME NEW a \in Attempts, Pending(a), Contains(queue, a) => Contains(queue, a)' PROVE Pending(a)'
  BY <1>1, <1>2, StillPending DEF InCall, InDecision
<1>3. ASSUME UNCHANGED <<queue, peer>>,
             \A a \in Attempts : serving[a] = "handshake" => serving'[a] = "handshake"
      PROVE  AnsweredInv'
  BY <1>1, <1>2, <1>3 DEF AnsweredInv
<1>4. ASSUME LoopTakes PROVE AnsweredInv'
  <2> DEFINE h == Head(queue)
  <2>1. /\ queue \in Seq(Attempts) /\ queue # <<>> /\ queue' = Tail(queue) /\ UNCHANGED peer
        /\ serving' = [serving EXCEPT ![h] = "handshake"] /\ h \in Attempts
    BY <1>0, <1>4 DEF LoopTakes, TypeOK
  <2>2. \A a \in Attempts : serving'[a] = serving[a] \/ (a = h /\ serving'[a] = "handshake")
    BY <1>0, <2>1 DEF RouterTypeOK
  <2>3. serving'[h] = "handshake"
    BY <1>0, <2>1 DEF RouterTypeOK
  <2> HIDE DEF h
  <2>4. ASSUME NEW a \in Attempts, a # h, Pending(a) PROVE Pending(a)'
    <3>1. Contains(queue, a) => Contains(queue, a)'
      BY <2>1, <2>4, InTail DEF h
    <3> QED BY <1>2, <2>4, <3>1
  <2> QED BY <1>1, <2>1, <2>2, <2>3, <2>4 DEF AnsweredInv
<1>5. ASSUME LoopStops PROVE AnsweredInv'
  <2>1. ASSUME NEW a \in Attempts, peer'[a] = "connecting"
        PROVE  peer[a] = "connecting" /\ ~Contains(queue, a) /\ serving[a] # "handshake"
    BY <1>0, <1>5, <2>1 DEF LoopStops, TypeOK
  <2> QED BY <1>1, <1>2, <2>1 DEF AnsweredInv
<1>6. ASSUME Release PROVE AnsweredInv'
  <2>1. UNCHANGED queue
    BY <1>6 DEF Release
  <2>2. ASSUME NEW a \in Attempts, peer'[a] = "connecting"
        PROVE  peer[a] = "connecting" /\ serving[a] # "handshake"
    BY <1>0, <1>6, <2>2 DEF Release, Tell, TypeOK
  <2> QED BY <1>1, <1>2, <2>1, <2>2 DEF AnsweredInv
<1>7. ASSUME NEW b \in Attempts, Serve(b) PROVE AnsweredInv'
  <2>1. UNCHANGED queue /\ \A a \in Attempts : a # b => serving'[a] = serving[a]
    BY <1>0, <1>7 DEF Serve, Dispatch, ServeFails, RouterTypeOK
  <2>2. ASSUME NEW a \in Attempts, peer'[a] = "connecting"
        PROVE  peer[a] = "connecting" /\ a # b
    BY <1>0, <1>7, <2>2 DEF Serve, Dispatch, ServeFails, Tell, TypeOK
  <2> QED BY <1>1, <1>2, <2>1, <2>2 DEF AnsweredInv
<1>8. ASSUME NEW b \in Attempts, Callback(b) PROVE AnsweredInv'
  BY <1>0, <1>3, <1>8 DEF Callback, CallbackReturns, CallbackThrows, RouterTypeOK
<1>9. ASSUME \/ \E r \in Regs : CallReg(r)
             \/ \E w \in Spawns : CallSpawn(w)
             \/ Building \/ LoopSeesClosed
             \/ \E h \in Shutdowns : CallShutdown(h) \/ ShutdownReturns(h)
      PROVE  AnsweredInv'
  BY <1>3, <1>9 DEF Building, CallReg, RegisterHandler, CallSpawn, Spawn, SpawnFails,
                    LoopSeesClosed, CallShutdown, ShutdownReturns
<1> QED BY <1>4, <1>5, <1>6, <1>7, <1>8, <1>9 DEF RouterStep, Loop

LEMMA AnsweredStep == HandsInv /\ AnsweredInv /\ [RouterNext]_allVars => AnsweredInv'
<1> SUFFICES ASSUME HandsInv, AnsweredInv, [RouterNext]_allVars PROVE AnsweredInv'
  OBVIOUS
<1>1. ASSUME UNCHANGED <<vars, rvars>> PROVE AnsweredInv'
  <2>1. UNCHANGED <<queue, peer, call, held, inner, dec, serving>>
    BY <1>1 DEF vars, peerVars, rvars
  <2>2. ASSUME NEW a \in Attempts, Pending(a) PROVE Pending(a)'
    BY <2>1, <2>2, StillPending DEF InCall, InDecision
  <2> QED BY <2>1, <2>2 DEF AnsweredInv, InnerInv
<1> QED BY <1>1, AnsweredNext, AnsweredRouter DEF RouterNext, Up, CallbackAborts, allVars

(* An attempt that the router serves is in no hand of the endpoint: the     *)
(* accept loop, Endpoint.accept and acceptIncoming never share one.  And a  *)
(* peer that waits is with one of them, also after a shutdown, a panic or   *)
(* the loss of the Router (router.rs 89-100, endpoint.rs 145-173).          *)
THEOREM HeldOnceWithRouter == RouterSpec => []HeldOnceOverall
<1>1. HandsInv /\ AnsweredInv => HeldOnceOverall
  <2> SUFFICES ASSUME HandsInv, AnsweredInv, NEW a \in Attempts
               PROVE  /\ Cardinality(Holders(a))
                         + (IF serving[a] \in {"handshake", "callback"} THEN 1 ELSE 0) <= 1
                      /\ peer[a] = "connecting" => Pending(a) \/ serving[a] = "handshake"
    BY DEF HeldOnceOverall
  <2>1. Cardinality(Holders(a)) \in {0, 1} /\ (~InHand(a) => Holders(a) = {})
    BY HeldOnceHolds DEF HandsInv
  <2> DEFINE served == IF serving[a] \in {"handshake", "callback"} THEN 1 ELSE 0
  <2>2. ASSUME serving[a] \in Served PROVE Cardinality(Holders(a)) + served <= 1
    <3>1. Cardinality(Holders(a)) = 0
      BY <2>1, <2>2, FS_EmptySet DEF HandsInv, ServeInv
    <3> QED BY <3>1
  <2>3. ASSUME serving[a] \notin Served PROVE Cardinality(Holders(a)) + served <= 1
    BY <2>1, <2>3 DEF Served
  <2>4. peer[a] = "connecting" => Pending(a) \/ serving[a] = "handshake"
    BY DEF AnsweredInv
  <2> QED BY <2>2, <2>3, <2>4
<1>2. RouterInit => AnsweredInv
  BY DEF RouterInit, Init, AnsweredInv, InnerInv
<1> QED BY HandsStart, HandsStep, AnsweredStep, <1>1, <1>2, PTL DEF RouterSpec
=============================================================================
