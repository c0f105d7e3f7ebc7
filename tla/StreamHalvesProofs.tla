------------------------- MODULE StreamHalvesProofs -------------------------
(***************************************************************************)
(* Theorems about StreamHalves, for any number of calls on either half,    *)
(* any lengths, window and width of a usize.                               *)
(***************************************************************************)
EXTENDS StreamHalves, SequenceTheorems, TLAPS

-----------------------------------------------------------------------------
(* The mutexes.                                                            *)
Halves == {"send", "recv"}

StateType == state \in [Ops -> OpState] /\ lock \in [Halves -> Seq(Ops)]

LineInv ==
    /\ \A h \in Halves : \A i \in 1..Len(lock[h]) :
          HalfOf(lock[h][i]) = h /\ state[lock[h][i]] = "locked"
    /\ \A h \in Halves : \A i, j \in 1..Len(lock[h]) : lock[h][i] = lock[h][j] => i = j
    /\ \A o \in Ops : state[o] = "locked" =>
          \E i \in 1..Len(lock[HalfOf(o)]) : lock[HalfOf(o)][i] = o

LockInv == StateType /\ LineInv

(* What a step may do to a call, whatever else it does.                    *)
Onwards ==
    /\ \A o \in Ops : Holds(o) => state'[o] \in Returned \/ Holds(o)'
    /\ \A o \in Ops : state[o] \in Returned => state'[o] = state[o]

LEMMA HalfType == \A o \in Ops : HalfOf(o) \in Halves
BY DEF HalfOf, Halves

LEMMA LockStart == Init => LockInv
BY DEF Init, LockInv, StateType, LineInv, Halves, OpState, HalfOf

LEMMA LockQuiet ==
    ASSUME LockInv, UNCHANGED lock, NEW o \in Ops, state[o] \in {"idle", "called"},
           NEW s \in {"called", "error"}, state' = [state EXCEPT ![o] = s]
    PROVE  LockInv' /\ Onwards
<1>1. StateType'
  BY DEF LockInv, StateType, OpState
<1>2. \A p \in Ops : (state'[p] = "locked") <=> (state[p] = "locked")
  BY DEF LockInv, StateType
<1>3. \A h \in Halves : \A i \in 1..Len(lock[h]) : lock[h][i] \in Ops
  BY DEF LockInv, StateType
<1>4. LineInv'
  BY <1>2, <1>3 DEF LockInv, LineInv
<1>5. Onwards
  BY <1>2 DEF LockInv, StateType, Onwards, Holds, Returned
<1> QED BY <1>1, <1>4, <1>5 DEF LockInv

LEMMA LockAsk ==
    ASSUME LockInv, NEW o \in Ops, state[o] = "called",
           state' = [state EXCEPT ![o] = "locked"],
           lock' = [lock EXCEPT ![HalfOf(o)] = Append(@, o)]
    PROVE  LockInv' /\ Onwards
<1> DEFINE h == HalfOf(o)
<1>1. h \in Halves /\ lock[h] \in Seq(Ops)
  BY HalfType DEF LockInv, StateType
<1>2. \A g \in Halves : g # h => lock'[g] = lock[g]
  BY DEF LockInv, StateType
<1>3. lock'[h] = Append(lock[h], o)
  BY <1>1 DEF LockInv, StateType
<1>4. /\ Append(lock[h], o) \in Seq(Ops)
      /\ Len(Append(lock[h], o)) = Len(lock[h]) + 1
      /\ \A i \in 1..Len(lock[h]) : Append(lock[h], o)[i] = lock[h][i]
      /\ Append(lock[h], o)[Len(lock[h]) + 1] = o
  BY <1>1, AppendProperties
<1>5. Len(lock[h]) \in Nat
  BY <1>1
<1>6. StateType'
  BY <1>1, <1>4 DEF LockInv, StateType, OpState
<1>7. \A i \in 1..Len(lock'[h]) :
        \/ i \in 1..Len(lock[h]) /\ lock'[h][i] = lock[h][i]
        \/ i = Len(lock[h]) + 1 /\ lock'[h][i] = o
  BY <1>3, <1>4, <1>5
<1>8. /\ state'[o] = "locked" /\ \A p \in Ops : p # o => state'[p] = state[p]
      /\ \A i \in 1..Len(lock[h]) : lock[h][i] # o
  BY DEF LockInv, StateType, LineInv, Halves, HalfOf
<1>9. LineInv'
  <2>1. \A g \in Halves : \A i \in 1..Len(lock'[g]) :
            HalfOf(lock'[g][i]) = g /\ state'[lock'[g][i]] = "locked"
    <3>1. \A g \in Halves : \A i \in 1..Len(lock[g]) :
              HalfOf(lock[g][i]) = g /\ lock[g][i] \in Ops /\ state[lock[g][i]] = "locked"
      BY DEF LockInv, StateType, LineInv
    <3> QED BY <1>2, <1>7, <1>8, <3>1
  <2>2. \A g \in Halves : \A i, j \in 1..Len(lock'[g]) : lock'[g][i] = lock'[g][j] => i = j
    BY <1>2, <1>7, <1>8 DEF LockInv, LineInv
  <2>3. \A p \in Ops : state'[p] = "locked" =>
            \E i \in 1..Len(lock'[HalfOf(p)]) : lock'[HalfOf(p)][i] = p
    <3>1. SUFFICES ASSUME NEW p \in Ops, state'[p] = "locked"
                   PROVE \E i \in 1..Len(lock'[HalfOf(p)]) : lock'[HalfOf(p)][i] = p
      OBVIOUS
    <3>2. CASE p = o
      BY <1>3, <1>4, <1>5, <3>2
    <3>3. CASE p # o
      <4>1. PICK i \in 1..Len(lock[HalfOf(p)]) : lock[HalfOf(p)][i] = p
        BY <1>8, <3>1, <3>3 DEF LockInv, LineInv
      <4>2. CASE HalfOf(p) = h
        BY <1>3, <1>4, <1>5, <4>1, <4>2
      <4>3. CASE HalfOf(p) # h
        BY <1>2, <4>1, <4>3, HalfType
      <4> QED BY <4>2, <4>3
    <3> QED BY <3>2, <3>3
  <2> QED BY <2>1, <2>2, <2>3 DEF LineInv
<1>10. Onwards
  <2>1. ASSUME NEW p \in Ops, Holds(p) PROVE Holds(p)'
    <3>1. state'[p] = "locked" /\ p # o
      BY <1>8, <2>1 DEF Holds
    <3>2. HalfOf(p) \in Halves /\ lock[HalfOf(p)] # <<>>
      BY <2>1, HalfType DEF Holds, LockInv, LineInv
    <3>3. Head(lock[HalfOf(p)]) = p
      BY <2>1 DEF Holds
    <3>4. Head(lock'[HalfOf(p)]) = p
      BY <1>1, <1>2, <1>3, <3>2, <3>3, HeadTailAppend
    <3> QED BY <3>1, <3>4 DEF Holds
  <2>2. \A p \in Ops : state[p] \in Returned => state'[p] = state[p]
    BY <1>8 DEF Returned
  <2> QED BY <2>1, <2>2 DEF Onwards
<1> QED BY <1>6, <1>9, <1>10 DEF LockInv

LEMMA LockReturn ==
    ASSUME LockInv, NEW o \in Ops, Holds(o), NEW r \in Returned, Return(o, r)
    PROVE  LockInv' /\ Onwards
<1> DEFINE h == HalfOf(o)
<1>1. h \in Halves /\ lock[h] \in Seq(Ops) /\ lock[h] # <<>>
  BY HalfType DEF LockInv, StateType, Holds, LineInv
<1>2. /\ lock'[h] = Tail(lock[h])
      /\ \A g \in Halves : g # h => lock'[g] = lock[g]
      /\ state'[o] = r /\ \A p \in Ops : p # o => state'[p] = state[p]
  BY <1>1 DEF LockInv, StateType, Return
<1>3. /\ Tail(lock[h]) \in Seq(Ops)
      /\ Len(Tail(lock[h])) = Len(lock[h]) - 1
      /\ \A i \in 1..Len(Tail(lock[h])) : Tail(lock[h])[i] = lock[h][i + 1]
  BY <1>1, HeadTailProperties
<1>4. Len(lock[h]) \in Nat \ {0} /\ lock[h][1] = o
  BY <1>1 DEF Holds
<1>5. \A i \in 1..Len(lock'[h]) :
          i + 1 \in 1..Len(lock[h]) /\ lock'[h][i] = lock[h][i + 1]
  BY <1>2, <1>3, <1>4
<1>6. StateType'
  BY <1>1, <1>3 DEF LockInv, StateType, OpState, Returned, Return
<1>7. \A g \in Halves : \A i \in 1..Len(lock[g]) :
          HalfOf(lock[g][i]) = g /\ lock[g][i] \in Ops /\ state[lock[g][i]] = "locked"
  BY DEF LockInv, StateType, LineInv
<1>8. \A i \in 1..Len(lock'[h]) : lock'[h][i] # o
  BY <1>1, <1>4, <1>5 DEF LockInv, LineInv
<1>9. LineInv'
  <2>1. \A g \in Halves : \A i \in 1..Len(lock'[g]) :
            HalfOf(lock'[g][i]) = g /\ state'[lock'[g][i]] = "locked"
    <3>1. \A i \in 1..Len(lock'[h]) : HalfOf(lock'[h][i]) = h /\ state'[lock'[h][i]] = "locked"
      <4> TAKE i \in 1..Len(lock'[h])
      <4>1. PICK j \in 1..Len(lock[h]) : lock'[h][i] = lock[h][j]
        BY <1>5
      <4>2. HalfOf(lock[h][j]) = h /\ lock[h][j] \in Ops /\ state[lock[h][j]] = "locked"
        BY <1>1, <1>7
      <4>3. state'[lock[h][j]] = "locked"
        BY <1>2, <1>8, <4>1, <4>2
      <4> QED BY <4>1, <4>2, <4>3
    <3>2. \A g \in Halves : g # h => \A i \in 1..Len(lock'[g]) :
              HalfOf(lock'[g][i]) = g /\ state'[lock'[g][i]] = "locked"
      BY <1>2, <1>7
    <3> QED BY <3>1, <3>2
  <2>2. \A g \in Halves : \A i, j \in 1..Len(lock'[g]) : lock'[g][i] = lock'[g][j] => i = j
    <3>1. \A i, j \in 1..Len(lock[h]) : lock[h][i] = lock[h][j] => i = j
      BY <1>1 DEF LockInv, LineInv
    <3>2. \A i, j \in 1..Len(lock'[h]) : lock'[h][i] = lock'[h][j] => i = j
      <4> SUFFICES ASSUME NEW i \in 1..Len(lock'[h]), NEW j \in 1..Len(lock'[h]),
                          lock'[h][i] = lock'[h][j]
                   PROVE i = j
        OBVIOUS
      <4>1. lock[h][i + 1] = lock[h][j + 1] /\ i + 1 \in 1..Len(lock[h])
            /\ j + 1 \in 1..Len(lock[h])
        BY <1>5
      <4>2. i + 1 = j + 1
        BY <3>1, <4>1
      <4> QED BY <4>2
    <3>3. \A g \in Halves : g # h =>
              \A i, j \in 1..Len(lock'[g]) : lock'[g][i] = lock'[g][j] => i = j
      BY <1>2 DEF LockInv, LineInv
    <3> QED BY <3>2, <3>3
  <2>3. \A p \in Ops : state'[p] = "locked" =>
            \E i \in 1..Len(lock'[HalfOf(p)]) : lock'[HalfOf(p)][i] = p
    <3>1. SUFFICES ASSUME NEW p \in Ops, state'[p] = "locked"
                   PROVE \E i \in 1..Len(lock'[HalfOf(p)]) : lock'[HalfOf(p)][i] = p
      OBVIOUS
    <3>2. p # o
      BY <1>2, <3>1 DEF Returned
    <3>3. PICK i \in 1..Len(lock[HalfOf(p)]) : lock[HalfOf(p)][i] = p
      BY <1>2, <3>1, <3>2 DEF LockInv, LineInv
    <3>4. CASE HalfOf(p) = h
      <4>1. i # 1 /\ i - 1 \in 1..Len(lock'[h])
        BY <1>2, <1>3, <1>4, <3>2, <3>3, <3>4
      <4>2. lock'[h][i - 1] = p
        BY <1>5, <3>3, <3>4, <4>1
      <4> QED BY <3>4, <4>1, <4>2
    <3>5. CASE HalfOf(p) # h
      BY <1>2, <3>3, <3>5, HalfType
    <3> QED BY <3>4, <3>5
  <2> QED BY <2>1, <2>2, <2>3 DEF LineInv
<1>10. Onwards
  <2>1. ASSUME NEW p \in Ops, Holds(p) PROVE state'[p] \in Returned \/ Holds(p)'
    <3>1. CASE p = o
      BY <1>2, <3>1
    <3>2. CASE p # o
      <4>1. HalfOf(p) # h
        BY <2>1, <3>2 DEF Holds
      <4> QED BY <1>2, <2>1, <3>2, <4>1, HalfType DEF Holds
    <3> QED BY <3>1, <3>2
  <2>2. \A p \in Ops : state[p] \in Returned => state'[p] = state[p]
    BY <1>2 DEF Returned, Holds
  <2> QED BY <2>1, <2>2 DEF Onwards
<1> QED BY <1>6, <1>9, <1>10 DEF LockInv

LEMMA LockStays == ASSUME LockInv, UNCHANGED <<state, lock>> PROVE LockInv' /\ Onwards
BY DEF LockInv, StateType, LineInv, Onwards, Holds

(* The steps, whichever process takes them.                                *)
LEMMA Steps ==
    ASSUME [Next]_vars
    PROVE  \/ \E o \in Ops : Call(o) \/ AllocationFails(o) \/ Lock(o)
           \/ \E o \in Sends : Sending(o)
           \/ \E o \in Recvs : Receiving(o)
           \/ Network \/ Disconnect \/ DropSend \/ DropRecv
           \/ UNCHANGED vars
BY DEF Next, Reader, Ops

LEMMA LockStep == LockInv /\ [Next]_vars => LockInv' /\ Onwards
<1> SUFFICES ASSUME LockInv, [Next]_vars PROVE LockInv' /\ Onwards
  OBVIOUS
<1>1. ASSUME NEW o \in Ops, Call(o) \/ AllocationFails(o) PROVE LockInv' /\ Onwards
  <2>1. UNCHANGED lock /\ state[o] \in {"idle", "called"}
    BY <1>1 DEF Call, AllocationFails
  <2>2. UNCHANGED state \/ \E s \in {"called", "error"} : state' = [state EXCEPT ![o] = s]
    BY <1>1 DEF Call, AllocationFails
  <2> QED BY <2>1, <2>2, LockQuiet, LockStays
<1>2. ASSUME NEW o \in Ops, Lock(o) PROVE LockInv' /\ Onwards
  BY <1>2, LockAsk DEF Lock
<1>3. ASSUME NEW o \in Sends, Sending(o) PROVE LockInv' /\ Onwards
  <2>1. o \in Ops /\ Holds(o)
    BY <1>3 DEF Ops, Sending, WriteByte, WriteDone, WriteFails, Finish, Reset
  <2>2. UNCHANGED <<state, lock>> \/ \E r \in Returned : Return(o, r)
    BY <1>3 DEF Sending, WriteByte, WriteDone, WriteFails, Finish, Reset, Returned
  <2> QED BY <2>1, <2>2, LockStays, LockReturn
<1>4. ASSUME NEW o \in Recvs, Receiving(o) PROVE LockInv' /\ Onwards
  <2>1. o \in Ops /\ Holds(o)
    BY <1>4 DEF Ops, Receiving, Read, ReadNone, Fill, ReadExactDone, ReadToEndDone,
                ReadFails, Stop
  <2>2. UNCHANGED <<state, lock>> \/ \E r \in Returned : Return(o, r)
    BY <1>4 DEF Receiving, Read, ReadNone, Fill, ReadExactDone, ReadToEndDone,
                ReadFails, Stop, Returned
  <2> QED BY <2>1, <2>2, LockStays, LockReturn
<1>5. ASSUME Network \/ Disconnect \/ DropSend \/ DropRecv PROVE LockInv' /\ Onwards
  <2>1. UNCHANGED <<state, lock>>
    BY <1>5 DEF Network, Arrive, EndArrives, StopArrives, Disconnect, DropSend, DropRecv
  <2> QED BY <2>1, LockStays
<1>6. ASSUME UNCHANGED vars PROVE LockInv' /\ Onwards
  BY <1>6, LockStays DEF vars
<1> QED BY <1>1, <1>2, <1>3, <1>4, <1>5, <1>6, Steps

-----------------------------------------------------------------------------
(* The bytes, and what a step may do to them: one write sends a byte, one   *)
(* read takes some that arrived, a call is noted, or they stay.            *)
StreamType ==
    /\ data \in [Recvs -> Seq(Bytes)]
    /\ written \in [Sends -> Nat]
    /\ before \in [Sends -> SUBSET Sends]
    /\ sent \in Seq(Bytes)
    /\ arrived \in 0..Len(sent) /\ consumed \in 0..arrived

FlagType ==
    /\ sending \in {"open", "finished", "reset"}
    /\ seenEnd \in {"open", "finished", "reset"}
    /\ {stopped, seenStop, connected} \subseteq BOOLEAN
    /\ dropped \subseteq Halves
    /\ process \in {"up", "aborted"}

TypeInv == LockInv /\ StreamType /\ FlagType

Sent(o) == /\ Holds(o) /\ sending = "open"
           /\ written' = [written EXCEPT ![o] = @ + 1]
           /\ sent' = Append(sent, <<o, written[o] + 1>>)
           /\ UNCHANGED <<state, lock, data, before, consumed, arrived>>

Took(o, n) == /\ Holds(o) /\ n <= Available
              /\ Consume(o, n)
              /\ UNCHANGED <<written, before, sent, arrived, sending, stopped>>

Rests == UNCHANGED <<data, written, sent, consumed>> /\ arrived' \in arrived..Len(sent)

Noted == /\ UNCHANGED written
         /\ \/ UNCHANGED before
            \/ \E o \in Ops : /\ state[o] = "idle"
                             /\ before' = [p \in Sends |->
                                    IF p = o THEN {q \in Sends : state[q] \in Returned}
                                             ELSE before[p]]

LEMMA Shapes ==
    ASSUME StreamType, [Next]_vars
    PROVE  \/ \E o \in Sends : Sent(o)
           \/ Noted /\ (Rests \/ \E o \in Recvs, n \in Nat : Took(o, n))
<1> USE DEF Rests, Noted, netVars, StreamType
<1>1. ASSUME NEW o \in Ops, Call(o) \/ AllocationFails(o) \/ Lock(o) PROVE Noted /\ Rests
  <2>1. CASE Call(o)
    BY <2>1 DEF Call
  <2>2. CASE AllocationFails(o) \/ Lock(o)
    BY <2>2 DEF AllocationFails, Lock
  <2> QED BY <1>1, <2>1, <2>2
<1>2. ASSUME NEW o \in Sends, WriteByte(o) PROVE Sent(o)
  BY <1>2 DEF WriteByte, SendBroken, Sent
<1>3. ASSUME NEW o \in Sends, WriteDone(o) \/ WriteFails(o) \/ Finish(o) \/ Reset(o)
      PROVE  Noted /\ Rests
  BY <1>3 DEF WriteDone, WriteFails, Finish, Reset
<1>4. ASSUME NEW o \in Recvs, Read(o) \/ Fill(o)
      PROVE  Noted /\ \E n \in Nat : Took(o, n)
  <2>1. Available \in Nat
    BY DEF Available
  <2>2. CASE Read(o)
    <3>1. PICK n \in 0..Available : Consume(o, n)
      BY <2>2 DEF Read
    <3> QED BY <2>1, <2>2, <3>1 DEF Read, Took
  <2>3. CASE Fill(o)
    <3>1. Available > 0 /\ Consume(o, 1)
      BY <2>3 DEF Fill
    <3> QED BY <2>1, <2>3, <3>1 DEF Fill, Took
  <2> QED BY <1>4, <2>2, <2>3
<1>5. ASSUME NEW o \in Recvs,
             ReadNone(o) \/ ReadExactDone(o) \/ ReadToEndDone(o) \/ ReadFails(o) \/ Stop(o)
      PROVE  Noted /\ Rests
  BY <1>5 DEF ReadNone, ReadExactDone, ReadToEndDone, ReadFails, Stop
<1>6. ASSUME Network \/ Disconnect \/ DropSend \/ DropRecv PROVE Noted /\ Rests
  <2>1. CASE Arrive
    BY <2>1 DEF Arrive
  <2>2. CASE EndArrives \/ StopArrives \/ Disconnect
    BY <2>2 DEF EndArrives, StopArrives, Disconnect
  <2>3. CASE DropSend
    BY <2>3 DEF DropSend
  <2>4. CASE DropRecv
    BY <2>4 DEF DropRecv
  <2> QED BY <1>6, <2>1, <2>2, <2>3, <2>4 DEF Network
<1>7. ASSUME UNCHANGED vars PROVE Noted /\ Rests
  BY <1>7 DEF vars
<1> QED BY <1>1, <1>2, <1>3, <1>4, <1>5, <1>6, <1>7, Steps DEF Sending, Receiving

LEMMA TypeStart == Init => TypeInv
<1> SUFFICES ASSUME Init PROVE TypeInv
  OBVIOUS
<1>1. StreamType
  BY DEF Init, StreamType
<1>2. FlagType
  BY DEF Init, FlagType
<1> QED BY LockStart, <1>1, <1>2 DEF TypeInv

(* A read of n bytes appends the next n of the stream to its buffer.       *)
LEMMA ReadAppends ==
    ASSUME StreamType, NEW o \in Recvs, NEW n \in Nat, n <= Available, Consume(o, n)
    PROVE  /\ data' \in [Recvs -> Seq(Bytes)]
           /\ \A p \in Recvs : p # o => data'[p] = data[p]
           /\ Len(data'[o]) = Len(data[o]) + n
           /\ \A i \in 1..Len(data[o]) : data'[o][i] = data[o][i]
           /\ \A i \in 1..n : data'[o][Len(data[o]) + i] = sent[consumed + i]
           /\ consumed' = consumed + n
           /\ consumed' \in consumed..arrived
<1> DEFINE piece == SubSeq(sent, consumed + 1, consumed + n)
<1>1. consumed \in Nat /\ arrived \in Nat /\ Len(sent) \in Nat
      /\ consumed + n <= arrived /\ arrived <= Len(sent)
  BY DEF StreamType, Available
<1>2. \A i \in (consumed + 1)..(consumed + n) : sent[i] \in Bytes
  BY <1>1 DEF StreamType
<1>3. piece \in Seq(Bytes) /\ Len(piece) = n
      /\ \A i \in 1..n : piece[i] = sent[consumed + i]
  <2>1. consumed + 1 \in Int /\ consumed + n \in Int /\ (consumed + n) - (consumed + 1) + 1 = n
    BY <1>1
  <2>2. /\ piece \in Seq(Bytes)
        /\ Len(piece) = IF consumed + 1 <= consumed + n
                        THEN (consumed + n) - (consumed + 1) + 1 ELSE 0
        /\ \A i \in 1..((consumed + n) - (consumed + 1) + 1) :
              piece[i] = sent[(consumed + 1) + i - 1]
    BY <1>2, <2>1, SubSeqProperties
  <2>3. Len(piece) = n
    BY <1>1, <2>1, <2>2
  <2>4. \A i \in 1..n : piece[i] = sent[consumed + i]
    BY <1>1, <2>1, <2>2
  <2> QED BY <2>2, <2>3, <2>4
<1>4. data[o] \in Seq(Bytes) /\ Len(data[o]) \in Nat
  BY DEF StreamType
<1>5. data'[o] = data[o] \o piece /\ \A p \in Recvs : p # o => data'[p] = data[p]
  BY DEF StreamType, Consume
<1> HIDE DEF piece
<1>6. /\ data[o] \o piece \in Seq(Bytes)
      /\ Len(data[o] \o piece) = Len(data[o]) + n
      /\ \A i \in 1..(Len(data[o]) + n) : (data[o] \o piece)[i] =
             IF i <= Len(data[o]) THEN data[o][i] ELSE piece[i - Len(data[o])]
  <2> DEFINE old == data[o]
  <2>1. old \in Seq(Bytes) /\ piece \in Seq(Bytes) /\ Len(piece) = n
    BY <1>3, <1>4
  <2> HIDE DEF old
  <2>2. /\ old \o piece \in Seq(Bytes)
        /\ Len(old \o piece) = Len(old) + Len(piece)
        /\ \A i \in 1..(Len(old) + Len(piece)) : (old \o piece)[i] =
               IF i <= Len(old) THEN old[i] ELSE piece[i - Len(old)]
    BY <2>1, ConcatProperties
  <2> QED BY <2>1, <2>2 DEF old
<1>7. data' \in [Recvs -> Seq(Bytes)]
  <2>1. data' = [data EXCEPT ![o] = data[o] \o piece]
    BY DEF Consume, piece
  <2> QED BY <1>6, <2>1 DEF StreamType
<1>8. \A i \in 1..Len(data[o]) : data'[o][i] = data[o][i]
  BY <1>4, <1>5, <1>6
<1>9. ASSUME NEW i \in 1..n PROVE data'[o][Len(data[o]) + i] = sent[consumed + i]
  <2>1. Len(data[o]) + i \in 1..(Len(data[o]) + n) /\ ~(Len(data[o]) + i <= Len(data[o]))
        /\ (Len(data[o]) + i) - Len(data[o]) = i
    BY <1>4
  <2> QED BY <1>3, <1>5, <1>6, <2>1
<1>10. consumed' = consumed + n /\ consumed' \in consumed..arrived
  BY <1>1 DEF Consume
<1> QED BY <1>5, <1>6, <1>7, <1>8, <1>9, <1>10

(* A write appends one byte.                                               *)
LEMMA WriteAppends ==
    ASSUME StreamType, NEW o \in Sends, Sent(o)
    PROVE  /\ sent' \in Seq(Bytes) /\ Len(sent') = Len(sent) + 1
           /\ \A n \in 1..Len(sent) : sent'[n] = sent[n]
           /\ sent'[Len(sent) + 1] = <<o, written[o] + 1>>
           /\ written' \in [Sends -> Nat] /\ written'[o] = written[o] + 1
           /\ \A p \in Sends : p # o => written'[p] = written[p]
<1>1. written[o] \in Nat /\ <<o, written[o] + 1>> \in Bytes
  BY DEF StreamType, Bytes
<1>2. sent' = Append(sent, <<o, written[o] + 1>>)
  BY DEF Sent
<1> QED BY <1>1, <1>2, AppendProperties DEF StreamType, Sent

LEMMA StreamTypeStep == StreamType /\ [Next]_vars => StreamType'
<1> SUFFICES ASSUME StreamType, [Next]_vars PROVE StreamType'
  OBVIOUS
<1>1. ASSUME NEW o \in Sends, Sent(o) PROVE StreamType'
  <2>1. UNCHANGED <<data, before, consumed, arrived>>
    BY <1>1 DEF Sent
  <2>2. arrived' \in 0..Len(sent') /\ consumed' \in 0..arrived'
    BY <1>1, <2>1, WriteAppends DEF StreamType
  <2> QED BY <1>1, <2>1, <2>2, WriteAppends DEF StreamType
<1>2. Noted => before' \in [Sends -> SUBSET Sends]
  BY DEF Noted, StreamType
<1>3. ASSUME NEW o \in Recvs, NEW n \in Nat, Took(o, n), Noted PROVE StreamType'
  <2>1. n <= Available /\ Consume(o, n) /\ UNCHANGED <<written, sent, arrived>>
    BY <1>3 DEF Took
  <2>2. data' \in [Recvs -> Seq(Bytes)] /\ consumed' \in consumed..arrived
    BY <2>1, ReadAppends
  <2> QED BY <1>2, <1>3, <2>1, <2>2 DEF StreamType
<1>4. ASSUME Rests, Noted PROVE StreamType'
  BY <1>2, <1>4 DEF StreamType, Rests, Noted
<1> QED BY <1>1, <1>3, <1>4, Shapes

LEMMA FlagTypeStep == FlagType /\ [Next]_vars => FlagType'
<1> SUFFICES ASSUME FlagType, [Next]_vars PROVE FlagType'
  OBVIOUS
<1> USE DEF FlagType, netVars
<1>1. ASSUME NEW o \in Ops, Call(o) \/ AllocationFails(o) \/ Lock(o) PROVE FlagType'
  <2>1. UNCHANGED <<sending, seenEnd, stopped, seenStop, connected, dropped>>
    BY <1>1 DEF Call, AllocationFails, Lock
  <2>2. UNCHANGED process \/ process' = "aborted"
    BY <1>1 DEF Call, AllocationFails, Lock
  <2> QED BY <2>1, <2>2
<1>2. ASSUME NEW o \in Sends, Sending(o) PROVE FlagType'
  <2>1. UNCHANGED <<stopped, netVars>>
    BY <1>2 DEF Sending, WriteByte, WriteDone, WriteFails, Finish, Reset
  <2>2. sending' \in {"open", "finished", "reset"}
    BY <1>2 DEF Sending, WriteByte, WriteDone, WriteFails, Finish, Reset
  <2> QED BY <2>1, <2>2
<1>3. ASSUME NEW o \in Recvs, Receiving(o) PROVE FlagType'
  <2>1. UNCHANGED <<sending, netVars>>
    BY <1>3 DEF Receiving, Read, ReadNone, Fill, ReadExactDone, ReadToEndDone, ReadFails, Stop
  <2>2. UNCHANGED stopped \/ stopped' = TRUE
    BY <1>3 DEF Receiving, Read, ReadNone, Fill, ReadExactDone, ReadToEndDone, ReadFails, Stop
  <2> QED BY <2>1, <2>2
<1>4. ASSUME Arrive \/ EndArrives PROVE FlagType'
  <2>1. UNCHANGED <<sending, stopped, seenStop, connected, dropped, process>>
    BY <1>4 DEF Arrive, EndArrives
  <2>2. seenEnd' \in {"open", "finished", "reset"}
    BY <1>4 DEF Arrive, EndArrives
  <2> QED BY <2>1, <2>2
<1>5. ASSUME StopArrives \/ Disconnect PROVE FlagType'
  <2>1. UNCHANGED <<sending, stopped, seenEnd, dropped, process>>
    BY <1>5 DEF StopArrives, Disconnect
  <2>2. UNCHANGED seenStop \/ seenStop' = TRUE
    BY <1>5 DEF StopArrives, Disconnect
  <2>3. UNCHANGED connected \/ connected' = FALSE
    BY <1>5 DEF StopArrives, Disconnect
  <2> QED BY <2>1, <2>2, <2>3
<1>6. ASSUME DropSend PROVE FlagType'
  <2>1. /\ UNCHANGED <<stopped, seenEnd, seenStop, connected, process>>
        /\ dropped' = dropped \cup {"send"}
    BY <1>6 DEF DropSend
  <2>2. sending' \in {"open", "finished", "reset"}
    BY <1>6 DEF DropSend
  <2> QED BY <2>1, <2>2 DEF Halves
<1>7. ASSUME DropRecv PROVE FlagType'
  <2>1. /\ UNCHANGED <<sending, seenEnd, seenStop, connected, process>>
        /\ dropped' = dropped \cup {"recv"}
    BY <1>7 DEF DropRecv
  <2>2. UNCHANGED stopped \/ stopped' = TRUE
    BY <1>7 DEF DropRecv
  <2> QED BY <2>1, <2>2 DEF Halves
<1>8. ASSUME UNCHANGED vars PROVE FlagType'
  BY <1>8 DEF vars
<1> QED BY <1>1, <1>2, <1>3, <1>4, <1>5, <1>6, <1>7, <1>8, Steps DEF Network

LEMMA TypeStep == TypeInv /\ [Next]_vars => TypeInv'
BY LockStep, StreamTypeStep, FlagTypeStep DEF TypeInv

(* The types, and that a call is at the mutex of its half exactly while it  *)
(* is locked (connection.rs 327-452).                                      *)
THEOREM TypeCorrect == Spec => []TypeOK
<1>1. TypeInv => TypeOK
  <2> SUFFICES ASSUME TypeInv PROVE TypeOK
    OBVIOUS
  <2>1. ASSUME NEW o \in Ops
        PROVE  (state[o] = "locked") <=> (o \in ToSet(lock[HalfOf(o)]))
    BY HalfType DEF ToSet, TypeInv, LockInv, StateType, LineInv
  <2> QED BY <2>1 DEF TypeOK, TypeInv, LockInv, StateType, StreamType, FlagType, Halves
<1> QED BY TypeStart, TypeStep, <1>1, PTL DEF Spec

-----------------------------------------------------------------------------
(* Writes.  A write that has sent something and has not returned holds the  *)
(* mutex, and the stream ends with its last byte (LastByte): what follows   *)
(* is its next byte, or the first of another one when it cannot go on.     *)
Counted  == \A n \in 1..Len(sent) : sent[n][2] <= written[sent[n][1]]
Whole    == \A o \in Sends : \A k \in 1..written[o] :
                \E n \in 1..Len(sent) : sent[n] = <<o, k>>
Once     == \A m, n \in 1..Len(sent) : sent[m] = sent[n] => m = n
LastByte == \A o \in Sends : written[o] > 0 /\ state[o] \notin Returned =>
                Holds(o) /\ Len(sent) > 0 /\ sent[Len(sent)] = <<o, written[o]>>
Unbroken == \A n \in 1..Len(sent) : n > 1 /\ sent[n][2] > 1 =>
                sent[n - 1] = <<sent[n][1], sent[n][2] - 1>>
Earlier  == \A o \in Sends : \A p \in before[o] : state[p] \in Returned
Behind   == \A o \in Sends : \A p \in before[o] : \A i, j \in 1..Len(sent) :
                sent[i][1] = o /\ sent[j][1] = p => j < i

WriteInv == TypeInv /\ Counted /\ Whole /\ Once /\ LastByte /\ Unbroken /\ Earlier /\ Behind

LEMMA ByteType ==
    ASSUME StreamType, NEW n \in 1..Len(sent)
    PROVE  /\ sent[n] \in Bytes /\ sent[n][1] \in Sends /\ sent[n][2] \in Nat \ {0}
           /\ sent[n] = <<sent[n][1], sent[n][2]>>
BY DEF StreamType, Bytes

LEMMA WriteStart == Init => WriteInv
<1> SUFFICES ASSUME Init PROVE WriteInv
  OBVIOUS
<1>1. sent = <<>> /\ written = [o \in Sends |-> 0] /\ before = [o \in Sends |-> {}]
  BY DEF Init
<1> QED BY <1>1, TypeStart
        DEF WriteInv, Counted, Whole, Once, LastByte, Unbroken, Earlier, Behind

LEMMA WriteSends ==
    ASSUME WriteInv, TypeInv', Onwards, NEW o \in Sends, Sent(o)
    PROVE  WriteInv'
<1> DEFINE L == Len(sent)
<1> DEFINE b == <<o, written[o] + 1>>
<1>1. /\ L \in Nat /\ Len(sent') = L + 1
      /\ \A n \in 1..L : sent'[n] = sent[n]
      /\ sent'[L + 1] = b
      /\ written[o] \in Nat /\ written'[o] = written[o] + 1
      /\ \A p \in Sends : p # o => written'[p] = written[p]
  BY WriteAppends DEF WriteInv, TypeInv, StreamType
<1>2. /\ Holds(o) /\ state[o] \notin Returned
      /\ UNCHANGED <<state, lock, before>>
  BY DEF Sent, Holds, Returned
<1>3. \A n \in 1..L : sent[n][1] \in Sends /\ sent[n][2] \in Nat \ {0}
                      /\ sent[n] = <<sent[n][1], sent[n][2]>>
  BY ByteType DEF WriteInv, TypeInv
<1>4. \A n \in 1..L : sent[n][1] = o => sent[n][2] <= written[o]
  BY DEF WriteInv, Counted
<1>5. \A p \in Sends : p # o /\ written[p] > 0 => state[p] \in Returned
  <2> SUFFICES ASSUME NEW p \in Sends, p # o, Holds(p) PROVE FALSE
    BY DEF WriteInv, LastByte
  <2> QED BY <1>2 DEF Holds, HalfOf
<1>6. Counted'
  <2>1. \A p \in Sends : written[p] \in Nat /\ written[p] <= written'[p]
    <3>1. \A p \in Sends : written[p] \in Nat
      BY DEF WriteInv, TypeInv, StreamType
    <3> QED BY <1>1, <3>1
  <2>2. ASSUME NEW n \in 1..L PROVE sent[n][2] <= written'[sent[n][1]]
    <3>1. sent[n][2] <= written[sent[n][1]]
      BY DEF WriteInv, Counted
    <3>2. sent[n][1] \in Sends /\ sent[n][2] \in Nat
      BY <1>3
    <3>3. written[sent[n][1]] \in Nat /\ written[sent[n][1]] <= written'[sent[n][1]]
      BY <2>1, <3>2
    <3>4. written'[sent[n][1]] \in Nat
      BY <3>2 DEF TypeInv, StreamType
    <3> QED BY <3>1, <3>2, <3>3, <3>4
  <2>3. b[2] <= written'[b[1]]
    BY <1>1
  <2> QED BY <1>1, <2>2, <2>3 DEF Counted
<1>7. Whole'
  <2> SUFFICES ASSUME NEW p \in Sends, NEW k \in 1..written'[p]
               PROVE  \E n \in 1..Len(sent') : sent'[n] = <<p, k>>
    BY DEF Whole
  <2>1. CASE p = o /\ k = written[o] + 1
    BY <1>1, <2>1
  <2>2. CASE ~(p = o /\ k = written[o] + 1)
    <3>1. k \in 1..written[p]
      BY <1>1, <2>2
    <3>2. PICK n \in 1..L : sent[n] = <<p, k>>
      BY <3>1 DEF WriteInv, Whole
    <3> QED BY <1>1, <3>2
  <2> QED BY <2>1, <2>2
<1>8. Once'
  <2>1. \A n \in 1..L : sent[n] # b
    BY <1>1, <1>3, <1>4
  <2> QED BY <1>1, <2>1 DEF WriteInv, Once
<1>9. LastByte'
  <2> SUFFICES ASSUME NEW p \in Sends, written'[p] > 0, state'[p] \notin Returned
               PROVE  Holds(p)' /\ Len(sent') > 0 /\ sent'[Len(sent')] = <<p, written'[p]>>
    BY DEF LastByte
  <2>1. p = o
    BY <1>1, <1>2, <1>5
  <2>2. Holds(o)'
    BY <1>2 DEF Holds
  <2> QED BY <1>1, <2>1, <2>2
<1>10. Unbroken'
  <2>1. ASSUME NEW n \in 1..L, n > 1, sent'[n][2] > 1
        PROVE  sent'[n - 1] = <<sent'[n][1], sent'[n][2] - 1>>
    <3>1. n - 1 \in 1..L /\ sent'[n] = sent[n] /\ sent'[n - 1] = sent[n - 1]
      BY <1>1, <2>1
    <3>2. sent[n - 1] = <<sent[n][1], sent[n][2] - 1>>
      BY <2>1, <3>1 DEF WriteInv, Unbroken
    <3> QED BY <3>1, <3>2
  <2>2. ASSUME b[2] > 1 PROVE L > 0 /\ sent'[L] = <<b[1], b[2] - 1>>
    <3>1. written[o] > 0
      BY <1>1, <2>2
    <3>2. L > 0 /\ sent[L] = <<o, written[o]>>
      BY <1>2, <3>1 DEF WriteInv, LastByte
    <3> QED BY <1>1, <3>2
  <2>3. ASSUME NEW n \in 1..(L + 1), n > 1, sent'[n][2] > 1
        PROVE  sent'[n - 1] = <<sent'[n][1], sent'[n][2] - 1>>
    <3>1. CASE n \in 1..L
      BY <2>1, <2>3, <3>1
    <3>2. CASE n = L + 1
      <4>1. sent'[n] = b /\ n - 1 = L
        BY <1>1, <3>2
      <4> QED BY <2>2, <2>3, <4>1
    <3> QED BY <1>1, <3>1, <3>2
  <2> QED BY <1>1, <2>3 DEF Unbroken
<1>11. Earlier'
  BY <1>2 DEF WriteInv, Earlier
<1>12. Behind'
  <2> SUFFICES ASSUME NEW q \in Sends, NEW p \in before[q],
                      NEW i \in 1..(L + 1), NEW j \in 1..(L + 1),
                      sent'[i][1] = q, sent'[j][1] = p
               PROVE  j < i
    BY <1>1, <1>2 DEF Behind
  <2>1. p # o
    BY <1>2 DEF WriteInv, Earlier
  <2>2. j # L + 1
    BY <1>1, <2>1
  <2>3. CASE i = L + 1
    BY <1>1, <2>2, <2>3
  <2>4. CASE i # L + 1
    <3>1. i \in 1..L /\ j \in 1..L
      BY <1>1, <2>2, <2>4
    <3>2. sent[i][1] = q /\ sent[j][1] = p
      BY <1>1, <3>1
    <3> QED BY <3>1, <3>2 DEF WriteInv, Behind
  <2> QED BY <2>3, <2>4
<1> QED BY <1>6, <1>7, <1>8, <1>9, <1>10, <1>11, <1>12 DEF WriteInv

LEMMA WriteNotes ==
    ASSUME WriteInv, TypeInv', Onwards, Noted, UNCHANGED sent
    PROVE  WriteInv'
<1>1. UNCHANGED written
  BY DEF Noted
<1>2. /\ \A o \in Ops : state[o] \in Returned => state'[o] \in Returned
      /\ \A o \in Ops : Holds(o) => state'[o] \in Returned \/ Holds(o)'
  BY DEF Onwards
<1>3. Counted' /\ Whole' /\ Once' /\ Unbroken'
  BY <1>1 DEF WriteInv, Counted, Whole, Once, Unbroken
<1>4. LastByte'
  BY <1>1, <1>2 DEF WriteInv, LastByte, Ops
<1>5. CASE UNCHANGED before
  <2>1. Earlier'
    <3>1. \A o \in Sends : before[o] \subseteq Ops
      BY DEF WriteInv, TypeInv, StreamType, Ops
    <3> QED BY <1>2, <1>5, <3>1 DEF WriteInv, Earlier
  <2>2. Behind'
    BY <1>5 DEF WriteInv, Behind
  <2> QED BY <1>3, <1>4, <2>1, <2>2 DEF WriteInv
<1>6. ASSUME NEW o \in Ops, state[o] = "idle",
             before' = [p \in Sends |-> IF p = o THEN {q \in Sends : state[q] \in Returned}
                                                 ELSE before[p]]
      PROVE  WriteInv'
  <2>1. \A p \in Sends : before'[p] = IF p = o THEN {q \in Sends : state[q] \in Returned}
                                               ELSE before[p]
    BY <1>6
  <2>2. Earlier'
    <3>1. \A p \in Sends : \A q \in before'[p] : q \in Ops /\ state[q] \in Returned
      BY <2>1 DEF WriteInv, Earlier, TypeInv, StreamType, Ops
    <3> QED BY <1>2, <3>1 DEF Earlier
  <2>3. o \in Sends => \A n \in 1..Len(sent) : sent[n][1] # o
    <3> SUFFICES ASSUME o \in Sends, NEW n \in 1..Len(sent), sent[n][1] = o PROVE FALSE
      OBVIOUS
    <3>1. written[o] \in Nat /\ sent[n][2] \in Nat \ {0} /\ sent[n][2] <= written[o]
      BY ByteType DEF WriteInv, TypeInv, StreamType, Counted
    <3>2. written[o] > 0 /\ state[o] \notin Returned
      BY <1>6, <3>1 DEF Returned
    <3> QED BY <1>6, <3>2 DEF WriteInv, LastByte, Holds
  <2>4. Behind'
    <3> SUFFICES ASSUME NEW q \in Sends, NEW p \in before'[q],
                        NEW i \in 1..Len(sent), NEW j \in 1..Len(sent),
                        sent[i][1] = q, sent[j][1] = p
                 PROVE  j < i
      BY DEF Behind
    <3>1. q # o
      BY <2>3
    <3>2. p \in before[q]
      BY <2>1, <3>1
    <3> QED BY <3>2 DEF WriteInv, Behind
  <2> QED BY <1>3, <1>4, <2>2, <2>4 DEF WriteInv
<1> QED BY <1>5, <1>6 DEF Noted

LEMMA WriteStep == WriteInv /\ [Next]_vars => WriteInv'
<1> SUFFICES ASSUME WriteInv, [Next]_vars PROVE WriteInv'
  OBVIOUS
<1>1. TypeInv' /\ Onwards
  BY TypeStep, LockStep DEF WriteInv, TypeInv
<1>2. \/ \E o \in Sends : Sent(o)
      \/ Noted /\ UNCHANGED sent
  BY Shapes DEF WriteInv, TypeInv, Rests, Took
<1> QED BY <1>1, <1>2, WriteSends, WriteNotes

(* Concurrent write_all calls do not mix their bytes, and keep the order in *)
(* which one returned before the other was called (connection.rs 337-350).  *)
THEOREM WritesKeepOrder == Spec => []WritesInOrder
<1>1. WriteInv => WritesInOrder
  <2> SUFFICES ASSUME WriteInv PROVE WritesInOrder
    OBVIOUS
  <2>1. DOMAIN sent = 1..Len(sent)
    BY DEF WriteInv, TypeInv, StreamType
  <2>2. \A o \in Sends : \A n \in DOMAIN sent : n > 1 /\ sent[n][1] = o /\ sent[n][2] > 1 =>
            sent[n - 1] = <<o, sent[n][2] - 1>>
    BY <2>1 DEF WriteInv, Unbroken
  <2>3. ASSUME NEW o \in Sends, NEW p \in before[o],
               NEW i \in Positions(BytesOf(o)), NEW j \in Positions(BytesOf(p))
        PROVE  j < i
    <3>1. i \in 1..Len(sent) /\ j \in 1..Len(sent) /\ sent[i][1] = o /\ sent[j][1] = p
      BY <2>1 DEF Positions, BytesOf
    <3> QED BY <3>1 DEF WriteInv, Behind
  <2> QED BY <2>2, <2>3 DEF WritesInOrder
<1> QED BY WriteStart, WriteStep, <1>1, PTL DEF Spec

-----------------------------------------------------------------------------
(* Reads.  A read that took something and has not returned holds the mutex, *)
(* and has exactly the last bytes that were taken (Latest): so it goes on   *)
(* with the next, and every byte is with one read.                         *)
Piece    == \A o \in Recvs : \E n \in 0..(consumed - Len(data[o])) :
                \A i \in 1..Len(data[o]) : data[o][i] = sent[n + i]
Latest   == \A o \in Recvs : Len(data[o]) > 0 /\ state[o] \notin Returned =>
                /\ Holds(o) /\ Len(data[o]) <= consumed
                /\ \A i \in 1..Len(data[o]) : data[o][i] = sent[consumed - Len(data[o]) + i]
Disjoint == \A o, p \in Recvs : \A i \in 1..Len(data[o]), j \in 1..Len(data[p]) :
                data[o][i] = data[p][j] => o = p
AllRead  == \A n \in 1..consumed : \E o \in Recvs : \E i \in 1..Len(data[o]) :
                data[o][i] = sent[n]

ReadInv == WriteInv /\ Piece /\ Latest /\ Disjoint /\ AllRead

LEMMA ReadStart == Init => ReadInv
<1> SUFFICES ASSUME Init PROVE ReadInv
  OBVIOUS
<1>1. data = [o \in Recvs |-> <<>>] /\ consumed = 0
  BY DEF Init
<1>2. \A o \in Recvs : Len(data[o]) = 0
  BY <1>1
<1> QED BY <1>1, <1>2, WriteStart DEF ReadInv, Piece, Latest, Disjoint, AllRead

(* The bytes stay where they are, and nothing is read.                     *)
LEMMA ReadRests ==
    ASSUME ReadInv, WriteInv', Onwards, UNCHANGED <<data, consumed>>,
           Len(sent') >= Len(sent), \A n \in 1..Len(sent) : sent'[n] = sent[n]
    PROVE  ReadInv'
<1>1. consumed \in Nat /\ consumed <= Len(sent) /\ Len(sent) \in Nat
      /\ \A o \in Recvs : Len(data[o]) \in Nat
  BY DEF ReadInv, WriteInv, TypeInv, StreamType
<1>2. Piece'
  <2> SUFFICES ASSUME NEW o \in Recvs
               PROVE  \E n \in 0..(consumed - Len(data[o])) :
                          \A i \in 1..Len(data[o]) : data[o][i] = sent'[n + i]
    BY DEF Piece
  <2>1. PICK n \in 0..(consumed - Len(data[o])) :
            \A i \in 1..Len(data[o]) : data[o][i] = sent[n + i]
    BY DEF ReadInv, Piece
  <2>2. \A i \in 1..Len(data[o]) : n + i \in 1..Len(sent)
    BY <1>1
  <2> QED BY <2>1, <2>2
<1>3. Latest'
  <2> SUFFICES ASSUME NEW o \in Recvs, Len(data[o]) > 0, state'[o] \notin Returned
               PROVE  /\ Holds(o)' /\ Len(data[o]) <= consumed
                      /\ \A i \in 1..Len(data[o]) :
                            data[o][i] = sent'[consumed - Len(data[o]) + i]
    BY DEF Latest
  <2>1. o \in Ops /\ state[o] \notin Returned
    BY DEF Onwards, Ops
  <2>2. /\ Holds(o) /\ Len(data[o]) <= consumed
        /\ \A i \in 1..Len(data[o]) : data[o][i] = sent[consumed - Len(data[o]) + i]
    BY <2>1 DEF ReadInv, Latest
  <2>3. Holds(o)'
    BY <2>1, <2>2 DEF Onwards
  <2>4. \A i \in 1..Len(data[o]) : consumed - Len(data[o]) + i \in 1..Len(sent)
    BY <1>1, <2>2
  <2> QED BY <2>2, <2>3, <2>4
<1>4. Disjoint'
  BY DEF ReadInv, Disjoint
<1>5. AllRead'
  <2>1. \A n \in 1..consumed : n \in 1..Len(sent)
    BY <1>1
  <2> QED BY <2>1 DEF ReadInv, AllRead
<1> QED BY <1>2, <1>3, <1>4, <1>5 DEF ReadInv

LEMMA ReadTakes ==
    ASSUME ReadInv, WriteInv', Onwards, NEW o \in Recvs, NEW n \in Nat, Took(o, n)
    PROVE  ReadInv'
<1> DEFINE l == Len(data[o])
<1>1. /\ Holds(o) /\ UNCHANGED sent
      /\ \A p \in Recvs : p # o => data'[p] = data[p]
      /\ Len(data'[o]) = l + n
      /\ \A i \in 1..l : data'[o][i] = data[o][i]
      /\ \A i \in 1..n : data'[o][l + i] = sent[consumed + i]
      /\ consumed' = consumed + n
  BY ReadAppends DEF Took, ReadInv, WriteInv, TypeInv
<1>2. /\ consumed \in Nat /\ consumed + n <= Len(sent) /\ Len(sent) \in Nat
      /\ \A p \in Recvs : Len(data[p]) \in Nat
  BY DEF Took, Available, ReadInv, WriteInv, TypeInv, StreamType
<1>3. l \in Nat
  BY <1>2
<1>4. l <= consumed /\ \A i \in 1..l : data[o][i] = sent[consumed - l + i]
  <2>1. state[o] \notin Returned
    BY <1>1 DEF Holds, Returned
  <2>2. CASE l = 0
    BY <1>2, <2>2
  <2>3. CASE l > 0
    BY <2>1, <2>3 DEF ReadInv, Latest
  <2> QED BY <1>3, <2>2, <2>3
<1> HIDE DEF l
<1>5. \A i \in 1..(l + n) : data'[o][i] = sent[consumed - l + i]
  <2> SUFFICES ASSUME NEW i \in 1..(l + n) PROVE data'[o][i] = sent[consumed - l + i]
    OBVIOUS
  <2>1. CASE i <= l
    <3>1. i \in 1..l
      BY <1>3, <2>1
    <3> QED BY <1>1, <1>4, <3>1
  <2>2. CASE i > l
    <3>1. i - l \in 1..n /\ l + (i - l) = i /\ consumed + (i - l) = consumed - l + i
      BY <1>2, <1>3, <2>2
    <3>2. data'[o][l + (i - l)] = sent[consumed + (i - l)]
      BY <1>1, <3>1
    <3> QED BY <3>1, <3>2
  <2> QED BY <1>3, <2>1, <2>2
<1>6. Piece'
  <2> SUFFICES ASSUME NEW p \in Recvs
               PROVE  \E m \in 0..(consumed' - Len(data'[p])) :
                          \A i \in 1..Len(data'[p]) : data'[p][i] = sent[m + i]
    BY <1>1 DEF Piece
  <2>1. CASE p = o
    <3>1. consumed - l \in 0..(consumed' - Len(data'[o]))
      BY <1>1, <1>2, <1>3, <1>4
    <3>2. \A i \in 1..Len(data'[o]) : data'[o][i] = sent[(consumed - l) + i]
      BY <1>1, <1>5
    <3> QED BY <2>1, <3>1, <3>2
  <2>2. CASE p # o
    <3>1. PICK m \in 0..(consumed - Len(data[p])) :
              \A i \in 1..Len(data[p]) : data[p][i] = sent[m + i]
      BY DEF ReadInv, Piece
    <3>2. m \in 0..(consumed' - Len(data'[p]))
      BY <1>1, <1>2, <2>2
    <3>3. data'[p] = data[p]
      BY <1>1, <2>2
    <3>4. \A i \in 1..Len(data'[p]) : data'[p][i] = sent[m + i]
      BY <3>1, <3>3
    <3> QED BY <3>2, <3>4
  <2> QED BY <2>1, <2>2
<1>7. Latest'
  <2> SUFFICES ASSUME NEW p \in Recvs, Len(data'[p]) > 0, state'[p] \notin Returned
               PROVE  /\ Holds(p)' /\ Len(data'[p]) <= consumed'
                      /\ \A i \in 1..Len(data'[p]) :
                            data'[p][i] = sent[consumed' - Len(data'[p]) + i]
    BY <1>1 DEF Latest
  <2>1. p = o
    <3> SUFFICES ASSUME p # o PROVE FALSE
      OBVIOUS
    <3>1. Len(data[p]) > 0 /\ state[p] \notin Returned
      BY <1>1 DEF Onwards, Ops
    <3>2. Holds(p)
      BY <3>1 DEF ReadInv, Latest
    <3> QED BY <1>1, <3>2, OpsAssumption DEF Holds, HalfOf
  <2>2. Holds(o)'
    BY <1>1, <2>1 DEF Onwards, Ops
  <2>3. consumed' - Len(data'[o]) = consumed - l
    BY <1>1, <1>2, <1>3
  <2>4. Len(data'[o]) <= consumed'
    BY <1>1, <1>2, <1>3, <1>4
  <2> QED BY <1>1, <1>5, <2>1, <2>2, <2>3, <2>4
<1>8. \A p \in Recvs : p # o => \A i \in 1..l + n, j \in 1..Len(data[p]) :
          data'[o][i] # data[p][j]
  <2> SUFFICES ASSUME NEW p \in Recvs, p # o, NEW i \in 1..l + n, NEW j \in 1..Len(data[p]),
                      data'[o][i] = data[p][j]
               PROVE  FALSE
    OBVIOUS
  <2>1. CASE i <= l
    <3>1. i \in 1..Len(data[o]) /\ data[o][i] = data[p][j]
      BY <1>1, <1>3, <2>1 DEF l
    <3> QED BY <3>1 DEF ReadInv, Disjoint
  <2>2. CASE i > l
    <3>1. PICK m \in 0..(consumed - Len(data[p])) :
              \A k \in 1..Len(data[p]) : data[p][k] = sent[m + k]
      BY DEF ReadInv, Piece
    <3>2. m + j \in 1..Len(sent) /\ consumed - l + i \in 1..Len(sent)
          /\ m + j < consumed - l + i
      <4>1. Len(data[p]) \in Nat /\ m \in Nat /\ m + j \in 1..consumed
        BY <1>2, <3>1
      <4>2. l <= consumed /\ i \in Nat /\ i <= l + n
        BY <1>3, <1>4
      <4> QED BY <1>2, <1>3, <2>2, <4>1, <4>2
    <3>3. sent[m + j] = sent[consumed - l + i]
      BY <1>5, <3>1
    <3> QED BY <3>2, <3>3 DEF ReadInv, WriteInv, Once
  <2> QED BY <1>3, <2>1, <2>2
<1>9. Disjoint'
  <2> SUFFICES ASSUME NEW p \in Recvs, NEW q \in Recvs, p # q,
                      NEW i \in 1..Len(data'[p]), NEW j \in 1..Len(data'[q])
               PROVE  data'[p][i] # data'[q][j]
    BY DEF Disjoint
  <2>1. CASE p = o
    BY <1>1, <1>8, <2>1
  <2>2. CASE q = o
    BY <1>1, <1>8, <2>2
  <2>3. CASE p # o /\ q # o
    BY <1>1, <2>3 DEF ReadInv, Disjoint
  <2> QED BY <2>1, <2>2, <2>3
<1>10. AllRead'
  <2> SUFFICES ASSUME NEW m \in 1..(consumed + n)
               PROVE  \E p \in Recvs : \E i \in 1..Len(data'[p]) : data'[p][i] = sent[m]
    BY <1>1 DEF AllRead
  <2>1. CASE m <= consumed
    <3>0. AllRead /\ m \in 1..consumed
      BY <1>2, <2>1 DEF ReadInv
    <3>1. PICK p \in Recvs : \E i \in 1..Len(data[p]) : data[p][i] = sent[m]
      BY <3>0 DEF AllRead
    <3>2. PICK i \in 1..Len(data[p]) : data[p][i] = sent[m]
      BY <3>1
    <3>3. i \in 1..Len(data'[p]) /\ data'[p][i] = data[p][i]
      BY <1>1, <1>2 DEF l
    <3> QED BY <3>2, <3>3
  <2>2. CASE m > consumed
    <3>1. l + (m - consumed) \in 1..(l + n) /\ consumed - l + (l + (m - consumed)) = m
      BY <1>2, <1>3, <2>2
    <3>2. data'[o][l + (m - consumed)] = sent[consumed - l + (l + (m - consumed))]
      BY <1>5, <3>1
    <3> QED BY <1>1, <3>1, <3>2
  <2> QED BY <1>2, <2>1, <2>2
<1> QED BY <1>6, <1>7, <1>9, <1>10 DEF ReadInv

LEMMA ReadStep == ReadInv /\ [Next]_vars => ReadInv'
<1> SUFFICES ASSUME ReadInv, [Next]_vars PROVE ReadInv'
  OBVIOUS
<1>1. WriteInv' /\ Onwards
  BY WriteStep, LockStep DEF ReadInv, WriteInv, TypeInv
<1>2. StreamType
  BY DEF ReadInv, WriteInv, TypeInv
<1>3. ASSUME NEW o \in Sends, Sent(o) PROVE ReadInv'
  <2>1. UNCHANGED <<data, consumed>>
    BY <1>3 DEF Sent
  <2>2. Len(sent') >= Len(sent) /\ \A n \in 1..Len(sent) : sent'[n] = sent[n]
    BY <1>2, <1>3, WriteAppends DEF StreamType
  <2> QED BY <1>1, <2>1, <2>2, ReadRests
<1>4. ASSUME Rests PROVE ReadInv'
  BY <1>1, <1>2, <1>4, ReadRests DEF Rests, StreamType
<1> QED BY <1>1, <1>2, <1>3, <1>4, ReadTakes, Shapes

(* Concurrent reads get unbroken pieces of the stream, and none gets what    *)
(* another one got (connection.rs 387-437).                                *)
THEOREM ReadsKeepOrder == Spec => []ReadsInOrder
<1>1. ReadInv => ReadsInOrder
  <2> SUFFICES ASSUME ReadInv PROVE ReadsInOrder
    OBVIOUS
  <2>1. /\ consumed \in Nat /\ Len(sent) \in Nat /\ consumed <= Len(sent)
        /\ \A o \in Recvs : data[o] \in Seq(Bytes) /\ Len(data[o]) \in Nat
        /\ \A n \in 1..Len(sent) : sent[n] \in Bytes
    BY DEF ReadInv, WriteInv, TypeInv, StreamType
  <2>2. ASSUME NEW o \in Recvs
        PROVE  \E n \in 0..(Len(sent) - Len(data[o])) :
                   data[o] = SubSeq(sent, n + 1, n + Len(data[o]))
    <3> DEFINE l == Len(data[o])
    <3>1. PICK n \in 0..(consumed - l) : \A i \in 1..l : data[o][i] = sent[n + i]
      BY DEF ReadInv, Piece
    <3>2. n \in 0..(Len(sent) - l) /\ n \in Nat /\ l \in Nat /\ n + l <= Len(sent)
      BY <2>1
    <3> DEFINE piece == SubSeq(sent, n + 1, n + l)
    <3>3. \A i \in (n + 1)..(n + l) : sent[i] \in Bytes
      BY <2>1, <3>2
    <3>4. /\ piece \in Seq(Bytes)
          /\ Len(piece) = IF n + 1 <= n + l THEN (n + l) - (n + 1) + 1 ELSE 0
          /\ \A i \in 1..((n + l) - (n + 1) + 1) : piece[i] = sent[(n + 1) + i - 1]
      BY <3>2, <3>3, SubSeqProperties
    <3>5. Len(piece) = l /\ \A i \in 1..l : piece[i] = data[o][i]
      BY <3>1, <3>2, <3>4
    <3> HIDE DEF piece
    <3>6. data[o] = piece
      BY <2>1, <3>4, <3>5, SeqEqual
    <3> QED BY <3>2, <3>6 DEF piece
  <2>3. ASSUME NEW o \in Recvs, NEW p \in Recvs, o # p
        PROVE  ToSet(data[o]) \cap ToSet(data[p]) = {}
    <3>1. DOMAIN data[o] = 1..Len(data[o]) /\ DOMAIN data[p] = 1..Len(data[p])
      BY <2>1
    <3> QED BY <2>3, <3>1 DEF ToSet, ReadInv, Disjoint
  <2> QED BY <2>2, <2>3 DEF ReadsInOrder
<1> QED BY ReadStart, ReadStep, <1>1, PTL DEF Spec

-----------------------------------------------------------------------------
(* The end of the stream.  A readToEnd that succeeded, without a stop on     *)
(* this side, had taken every byte of a stream to which nothing is added    *)
(* any more; and a write that succeeded had sent all its bytes.            *)
EndSeen    == seenEnd = "finished" => sending # "open"
EndRead    == \A e \in Recvs : Do[e] = "read_to_end" /\ state[e] = "ok" /\ ~stopped =>
                  consumed = Len(sent) /\ sending # "open"
WriteWhole == \A w \in Sends : Do[w] = "write_all" /\ state[w] = "ok" => written[w] = Size[w]

EndInv == ReadInv /\ EndSeen /\ EndRead /\ WriteWhole

LEMMA EndStart == Init => EndInv
<1> SUFFICES ASSUME Init PROVE EndInv
  OBVIOUS
<1>1. state = [o \in Ops |-> "idle"] /\ seenEnd = "open"
  BY DEF Init
<1> QED BY <1>1, ReadStart DEF EndInv, EndSeen, EndRead, WriteWhole, Ops

(* Neither end of a stream is taken back.                                  *)
LEMMA EndsLast ==
    ASSUME [Next]_vars
    PROVE  /\ sending # "open" => sending' # "open"
           /\ stopped' = FALSE => stopped = FALSE
           /\ UNCHANGED seenEnd \/ seenEnd' = sending
<1> USE DEF netVars
<1>1. ASSUME NEW o \in Ops, Call(o) \/ AllocationFails(o) \/ Lock(o)
      PROVE  UNCHANGED <<sending, stopped, seenEnd>>
  BY <1>1 DEF Call, AllocationFails, Lock
<1>2. ASSUME NEW o \in Sends, Sending(o)
      PROVE  UNCHANGED <<stopped, seenEnd>> /\ (sending # "open" => sending' # "open")
  BY <1>2 DEF Sending, WriteByte, WriteDone, WriteFails, Finish, Reset
<1>3. ASSUME NEW o \in Recvs, Receiving(o)
      PROVE  UNCHANGED <<sending, seenEnd>> /\ (UNCHANGED stopped \/ stopped' = TRUE)
  BY <1>3 DEF Receiving, Read, ReadNone, Fill, ReadExactDone, ReadToEndDone, ReadFails, Stop
<1>4. ASSUME Network \/ Disconnect
      PROVE  UNCHANGED <<sending, stopped>> /\ (UNCHANGED seenEnd \/ seenEnd' = sending)
  BY <1>4 DEF Network, Arrive, EndArrives, StopArrives, Disconnect
<1>5. ASSUME DropSend
      PROVE  UNCHANGED <<stopped, seenEnd>> /\ (sending # "open" => sending' # "open")
  BY <1>5 DEF DropSend
<1>6. ASSUME DropRecv
      PROVE  UNCHANGED <<sending, seenEnd>> /\ (UNCHANGED stopped \/ stopped' = TRUE)
  BY <1>6 DEF DropRecv
<1>7. ASSUME UNCHANGED vars PROVE UNCHANGED <<sending, stopped, seenEnd>>
  BY <1>7 DEF vars
<1> QED BY <1>1, <1>2, <1>3, <1>4, <1>5, <1>6, <1>7, Steps

(* How a call comes to succeed.                                            *)
LEMMA Succeeds ==
    ASSUME TypeInv, [Next]_vars, NEW p \in Ops, state[p] # "ok", state'[p] = "ok"
    PROVE  \/ p \in Sends /\ (Do[p] = "write_all" => written[p] = Size[p])
           \/ p \in Recvs /\ (Do[p] = "read_to_end" => (stopped \/ AtEnd))
<1>1. state \in [Ops -> OpState]
  BY DEF TypeInv, LockInv, StateType
<1>2. ASSUME NEW o \in Ops, NEW s \in {"called", "locked", "none", "error"},
             state' = [state EXCEPT ![o] = s]
      PROVE  FALSE
  BY <1>1, <1>2
<1>3. ASSUME NEW o \in Ops, Call(o) \/ AllocationFails(o) \/ Lock(o) PROVE FALSE
  <2>1. UNCHANGED state \/ \E s \in {"called", "locked", "error"} : state' = [state EXCEPT ![o] = s]
    BY <1>3 DEF Call, AllocationFails, Lock
  <2> QED BY <1>2, <2>1
<1>4. ASSUME NEW o \in Ops, NEW r \in Returned, Return(o, r) PROVE o = p /\ r = "ok"
  BY <1>1, <1>4 DEF Return
<1>5. ASSUME NEW o \in Sends, Sending(o)
      PROVE  p \in Sends /\ (Do[p] = "write_all" => written[p] = Size[p])
  <2>1. ASSUME UNCHANGED state PROVE FALSE
    BY <2>1
  <2>2. WriteDone(o) \/ WriteFails(o) \/ Finish(o) \/ Reset(o)
    BY <1>5, <2>1 DEF Sending, WriteByte
  <2>3. PICK r \in Returned : /\ Return(o, r)
                              /\ r = "ok" /\ Do[o] = "write_all" => written[o] = Size[o]
    BY <2>2 DEF WriteDone, WriteFails, Finish, Reset, Returned
  <2> QED BY <1>4, <2>3 DEF Ops
<1>6. ASSUME NEW o \in Recvs, Receiving(o)
      PROVE  p \in Recvs /\ (Do[p] = "read_to_end" => (stopped \/ AtEnd))
  <2>1. ASSUME UNCHANGED state PROVE FALSE
    BY <2>1
  <2>2. Read(o) \/ ReadNone(o) \/ ReadExactDone(o) \/ ReadToEndDone(o) \/ ReadFails(o) \/ Stop(o)
    BY <1>6, <2>1 DEF Receiving, Fill
  <2>3. PICK r \in Returned :
            /\ Return(o, r)
            /\ r = "ok" /\ Do[o] = "read_to_end" => (stopped \/ AtEnd)
    BY <2>2 DEF Read, ReadNone, ReadExactDone, ReadToEndDone, ReadFails, Stop, Returned
  <2> QED BY <1>4, <2>3 DEF Ops
<1>7. ASSUME Network \/ Disconnect \/ DropSend \/ DropRecv \/ UNCHANGED vars PROVE FALSE
  <2>1. UNCHANGED state
    BY <1>7 DEF Network, Arrive, EndArrives, StopArrives, Disconnect, DropSend, DropRecv, vars
  <2> QED BY <2>1
<1> QED BY <1>3, <1>5, <1>6, <1>7, Steps

LEMMA EndStep == EndInv /\ [Next]_vars => EndInv'
<1> SUFFICES ASSUME EndInv, [Next]_vars PROVE EndInv'
  OBVIOUS
<1>1. ReadInv' /\ Onwards /\ TypeInv
  BY ReadStep, LockStep DEF EndInv, ReadInv, WriteInv, TypeInv
<1>2. EndSeen'
  BY EndsLast DEF EndInv, EndSeen
<1>3. ASSUME NEW e \in Recvs, Do[e] = "read_to_end", state'[e] = "ok", ~stopped'
      PROVE  consumed' = Len(sent') /\ sending' # "open"
  <2>1. e \in Ops /\ e \notin Sends /\ ~stopped
    <3>1. stopped' = FALSE
      BY <1>1, <1>3 DEF ReadInv, WriteInv, TypeInv, FlagType
    <3> QED BY <3>1, EndsLast, OpsAssumption DEF Ops
  <2>2. consumed = Len(sent) /\ sending # "open"
    <3>1. CASE state[e] = "ok"
      BY <1>3, <2>1, <3>1 DEF EndInv, EndRead
    <3>2. CASE state[e] # "ok"
      <4>1. AtEnd
        BY <1>1, <1>3, <2>1, <3>2, Succeeds
      <4> QED BY <1>1, <4>1 DEF AtEnd, Available, EndInv, EndSeen, TypeInv, StreamType
    <3> QED BY <3>1, <3>2
  <2>3. sending' # "open"
    BY <2>2, EndsLast
  <2>4. UNCHANGED <<sent, consumed>>
    <3>1. ~ \E o \in Sends : Sent(o)
      BY <2>2 DEF Sent
    <3>2. ASSUME NEW o \in Recvs, NEW n \in Nat, Took(o, n) PROVE UNCHANGED <<sent, consumed>>
      <4>1. n <= arrived - consumed /\ consumed' = consumed + n /\ UNCHANGED sent
        BY <3>2 DEF Took, Available, Consume
      <4>2. arrived - consumed = 0 /\ consumed \in Nat
        BY <1>1, <2>2 DEF TypeInv, StreamType
      <4> QED BY <4>1, <4>2
    <3> QED BY <1>1, <3>1, <3>2, Shapes DEF Rests, TypeInv
  <2> QED BY <2>2, <2>3, <2>4
<1>4. ASSUME NEW w \in Sends, Do[w] = "write_all", state'[w] = "ok"
      PROVE  written'[w] = Size[w]
  <2>1. w \in Ops /\ w \notin Recvs
    BY OpsAssumption DEF Ops
  <2>2. written[w] = Size[w]
    BY <1>1, <1>4, <2>1, Succeeds DEF EndInv, WriteWhole
  <2>3. UNCHANGED written \/ \E o \in Sends : Sent(o)
    BY <1>1, Shapes DEF TypeInv, Noted
  <2>4. ASSUME NEW o \in Sends, Sent(o) PROVE written'[w] = written[w]
    <3>1. state[o] = "locked" /\ UNCHANGED state
      BY <2>4 DEF Sent, Holds
    <3>2. o # w
      BY <1>4, <3>1
    <3> QED BY <1>1, <2>4, <3>2, WriteAppends DEF TypeInv
  <2> QED BY <2>2, <2>3, <2>4
<1>5. EndRead' /\ WriteWhole'
  BY <1>3, <1>4 DEF EndRead, WriteWhole
<1> QED BY <1>1, <1>2, <1>5 DEF EndInv

(* A readToEnd that succeeds cuts off no write that succeeded, in whatever   *)
(* order writes, finish and reads reach their mutexes (connection.rs        *)
(* 337-359 and 425-437).                                                   *)
THEOREM EndCutsNothing == Spec => []EndIsComplete
<1>1. EndInv => EndIsComplete
  <2> SUFFICES ASSUME EndInv, NEW e \in Recvs, Do[e] = "read_to_end", state[e] = "ok", ~stopped,
                      NEW w \in Sends, Do[w] = "write_all", state[w] = "ok",
                      NEW k \in 1..Size[w]
               PROVE  <<w, k>> \in UNION {ToSet(data[o]) : o \in Recvs}
    BY DEF EndIsComplete
  <2>1. consumed = Len(sent) /\ written[w] = Size[w]
    BY DEF EndInv, EndRead, WriteWhole
  <2>2. PICK n \in 1..Len(sent) : sent[n] = <<w, k>>
    BY <2>1 DEF EndInv, ReadInv, WriteInv, Whole
  <2>3. PICK o \in Recvs : \E i \in 1..Len(data[o]) : data[o][i] = <<w, k>>
    BY <2>1, <2>2 DEF EndInv, ReadInv, AllRead
  <2>4. DOMAIN data[o] = 1..Len(data[o])
    BY DEF EndInv, ReadInv, WriteInv, TypeInv, StreamType
  <2> QED BY <2>3, <2>4 DEF ToSet
<1> QED BY EndStart, EndStep, <1>1, PTL DEF Spec

-----------------------------------------------------------------------------
(* Who waits for whom.  The guards of the steps, for the task that holds    *)
(* the mutex of its half and for the network, which delivers, or times out *)
(* a connection to a process that is gone.                                 *)
SenderMoves(o) ==
    \/ /\ Do[o] = "write_all"
       /\ \/ written[o] = Size[o]
          \/ written[o] < Size[o] /\ (SendBroken \/ Len(sent) - consumed < Window)
    \/ Do[o] = "finish" /\ (sending = "open" \/ SendBroken)
    \/ /\ Do[o] = "reset"
       /\ (sending # "reset" /\ seenEnd = "open") \/ ~connected \/ sending # "open"

ReaderMoves(o) ==
    \/ Do[o] # "stop" /\ (~connected \/ ~Readable)
    \/ Do[o] = "stop" /\ ((~stopped /\ ~AtEnd) \/ ~connected \/ ~Readable \/ AtEnd)
    \/ Do[o] = "read" /\ (AtEnd \/ Available > 0 \/ AsUsize(Size[o]) = 0)
    \/ /\ Do[o] = "read_exact"
       /\ \/ Len(data[o]) = AsUsize(Size[o])
          \/ Len(data[o]) < AsUsize(Size[o]) /\ (AtEnd \/ Available > 0)
    \/ /\ Do[o] = "read_to_end"
       /\ Len(data[o]) > AsUsize(Size[o]) \/ AtEnd \/ Available > 0

NetworkMoves ==
    /\ connected
    /\ \/ process = "up" /\ arrived < Len(sent) /\ sending # "reset"
       \/ /\ process = "up" /\ seenEnd # sending /\ sending # "open"
          /\ seenEnd = "finished" => arrived < Len(sent)
       \/ stopped /\ ~seenStop
       \/ process = "aborted"

(* The only wait of a sender: all that the window admits has arrived, and   *)
(* nobody reads it.  The only wait of a reader: it has read all of a stream *)
(* that is still open.                                                     *)
WaitsForReader(o) ==
    /\ Do[o] = "write_all" /\ connected /\ sending = "open" /\ ~stopped
    /\ arrived = Len(sent) /\ Len(sent) - consumed >= Window

WaitsForSender ==
    connected /\ sending = "open" /\ Readable /\ consumed = Len(sent)

StreamGoesOn ==
    /\ \A o \in Sends : Holds(o) => SenderMoves(o) \/ NetworkMoves \/ WaitsForReader(o)
    /\ \A o \in Recvs : Holds(o) /\ process = "up" =>
                           ReaderMoves(o) \/ NetworkMoves \/ WaitsForSender
    /\ \A o \in Sends : ~(WaitsForReader(o) /\ WaitsForSender)

(* No call overshoots its length, and no end is seen before it is sent.     *)
NoExcess == /\ \A o \in Sends : Do[o] = "write_all" => written[o] <= Size[o]
            /\ \A o \in Recvs : Do[o] = "read_exact" => Len(data[o]) <= AsUsize(Size[o])
NoEarlyEnd == seenEnd # "open" => sending # "open"

MoveInv == TypeInv /\ NoExcess /\ NoEarlyEnd

LEMMA UsizeType == \A o \in Ops : AsUsize(Size[o]) \in Nat
<1> SUFFICES ASSUME NEW o \in Ops PROVE AsUsize(Size[o]) \in Nat
  OBVIOUS
<1> DEFINE m == 2 ^ Width
<1>1. m \in Nat \ {0}
  BY PowerAssumption
<1>2. Size[o] \in Int
  BY SizeAssumption
<1> HIDE DEF m
<1>3. Size[o] % m \in Nat
  BY <1>1, <1>2
<1> QED BY <1>3 DEF AsUsize, m

LEMMA MoveStart == Init => MoveInv
<1> SUFFICES ASSUME Init PROVE MoveInv
  OBVIOUS
<1>1. /\ written = [o \in Sends |-> 0] /\ data = [o \in Recvs |-> <<>>] /\ seenEnd = "open"
  BY DEF Init
<1>2. ASSUME NEW o \in Sends PROVE written[o] <= Size[o]
  BY <1>1, SizeAssumption
<1>3. ASSUME NEW o \in Recvs PROVE Len(data[o]) <= AsUsize(Size[o])
  <2>1. Len(data[o]) = 0
    BY <1>1
  <2> QED BY <2>1, UsizeType DEF Ops
<1> QED BY <1>1, <1>2, <1>3, TypeStart DEF MoveInv, NoExcess, NoEarlyEnd

LEMMA MoveStep == MoveInv /\ [Next]_vars => MoveInv'
<1> SUFFICES ASSUME MoveInv, [Next]_vars PROVE MoveInv'
  OBVIOUS
<1>0. StreamType /\ TypeInv' /\ \A o \in Recvs : Len(data[o]) \in Nat
  BY TypeStep DEF MoveInv, TypeInv, StreamType
<1>1. NoEarlyEnd'
  BY EndsLast DEF MoveInv, NoEarlyEnd
<1>2. ASSUME UNCHANGED <<written, data>> PROVE NoExcess'
  BY <1>2 DEF MoveInv, NoExcess
<1>3. ASSUME NEW o \in Sends, WriteByte(o) PROVE NoExcess'
  <2>1. /\ Do[o] = "write_all" /\ written[o] < Size[o] /\ UNCHANGED data
        /\ written' = [written EXCEPT ![o] = @ + 1]
    BY <1>3 DEF WriteByte
  <2>2. written[o] \in Nat /\ Size[o] \in Nat /\ written'[o] = written[o] + 1
        /\ \A p \in Sends : p # o => written'[p] = written[p]
    BY <1>0, <2>1, SizeAssumption DEF StreamType
  <2> QED BY <2>1, <2>2 DEF MoveInv, NoExcess
<1>4. ASSUME NEW o \in Recvs, Do[o] # "read_exact", UNCHANGED written,
             \A p \in Recvs : p # o => data'[p] = data[p]
      PROVE  NoExcess'
  BY <1>4 DEF MoveInv, NoExcess
<1>5. ASSUME NEW o \in Recvs, Read(o) PROVE NoExcess'
  <2>1. PICK n \in 0..Available : Consume(o, n)
    BY <1>5 DEF Read
  <2>2. Available \in Nat
    BY <1>0 DEF StreamType, Available
  <2>3. Do[o] = "read" /\ UNCHANGED written
    BY <1>5 DEF Read
  <2>4. \A p \in Recvs : p # o => data'[p] = data[p]
    BY <1>0, <2>1, <2>2, ReadAppends
  <2> QED BY <1>4, <2>3, <2>4
<1>6. ASSUME NEW o \in Recvs, Fill(o) PROVE NoExcess'
  <2>1. /\ Available > 0 /\ Consume(o, 1) /\ UNCHANGED written
        /\ Do[o] = "read_exact" => Len(data[o]) < AsUsize(Size[o])
    BY <1>6 DEF Fill
  <2>2. Available \in Nat
    BY <1>0 DEF StreamType, Available
  <2>3. Len(data'[o]) = Len(data[o]) + 1 /\ \A p \in Recvs : p # o => data'[p] = data[p]
    BY <1>0, <2>1, <2>2, ReadAppends
  <2>4. AsUsize(Size[o]) \in Nat
    BY UsizeType DEF Ops
  <2>5. CASE Do[o] = "read_exact"
    <3>1. Len(data'[o]) <= AsUsize(Size[o])
      BY <1>0, <2>1, <2>3, <2>4, <2>5
    <3> QED BY <2>1, <2>3, <3>1 DEF MoveInv, NoExcess
  <2> QED BY <1>4, <2>1, <2>3, <2>5
<1>7. ASSUME NEW o \in Ops, Call(o) \/ AllocationFails(o) \/ Lock(o)
      PROVE  UNCHANGED <<written, data>>
  BY <1>7 DEF Call, AllocationFails, Lock
<1>8. ASSUME NEW o \in Sends, WriteDone(o) \/ WriteFails(o) \/ Finish(o) \/ Reset(o)
      PROVE  UNCHANGED <<written, data>>
  BY <1>8 DEF WriteDone, WriteFails, Finish, Reset
<1>9. ASSUME NEW o \in Recvs,
             ReadNone(o) \/ ReadExactDone(o) \/ ReadToEndDone(o) \/ ReadFails(o) \/ Stop(o)
      PROVE  UNCHANGED <<written, data>>
  BY <1>9 DEF ReadNone, ReadExactDone, ReadToEndDone, ReadFails, Stop
<1>10. ASSUME Network \/ Disconnect \/ DropSend \/ DropRecv \/ UNCHANGED vars
       PROVE  UNCHANGED <<written, data>>
  BY <1>10 DEF Network, Arrive, EndArrives, StopArrives, Disconnect, DropSend, DropRecv, vars
<1>11. NoExcess'
  BY <1>2, <1>3, <1>5, <1>6, <1>7, <1>8, <1>9, <1>10, Steps DEF Sending, Receiving
<1> QED BY <1>0, <1>1, <1>11 DEF MoveInv

(* The two halves and the network never wait for each other in a circle.    *)
(* The task that holds a mutex can go on, or the network can, unless it     *)
(* waits for a call on the other half; and then that one does not wait for  *)
(* it (connection.rs 337-452: the lock is kept across the await).          *)
THEOREM HalvesNeverDeadlock == Spec => []StreamGoesOn
<1>1. MoveInv => StreamGoesOn
  <2> SUFFICES ASSUME MoveInv PROVE StreamGoesOn
    OBVIOUS
  <2>1. /\ Len(sent) \in Nat /\ arrived \in 0..Len(sent) /\ consumed \in 0..arrived
        /\ connected \in BOOLEAN /\ stopped \in BOOLEAN /\ seenStop \in BOOLEAN
        /\ Window \in Nat \ {0} /\ process \in {"up", "aborted"}
    BY WindowAssumption DEF MoveInv, TypeInv, StreamType, FlagType
  <2>2. ASSUME NEW o \in Sends PROVE SenderMoves(o) \/ NetworkMoves \/ WaitsForReader(o)
    <3>1. CASE Do[o] = "write_all"
      <4>1. written[o] \in Nat /\ Size[o] \in Nat /\ written[o] <= Size[o]
        BY <3>1, SizeAssumption DEF MoveInv, NoExcess, TypeInv, StreamType
      <4> QED BY <2>1, <3>1, <4>1 DEF SenderMoves, NetworkMoves, WaitsForReader, SendBroken
    <3>2. CASE Do[o] = "finish"
      BY <3>2 DEF SenderMoves, SendBroken
    <3>3. CASE Do[o] = "reset"
      BY <3>3 DEF SenderMoves, MoveInv, NoEarlyEnd
    <3> QED BY <3>1, <3>2, <3>3, DoAssumption
  <2>3. ASSUME NEW o \in Recvs, process = "up" PROVE ReaderMoves(o) \/ NetworkMoves \/ WaitsForSender
    <3> SUFFICES ASSUME ~WaitsForSender, ~NetworkMoves PROVE ReaderMoves(o)
      OBVIOUS
    <3>1. ~connected \/ ~Readable \/ AtEnd \/ Available > 0
      <4>1. sending \in {"open", "finished", "reset"} /\ seenEnd \in {"open", "finished", "reset"}
        BY DEF MoveInv, TypeInv, FlagType
      <4> QED BY <2>1, <2>3, <4>1 DEF Readable, AtEnd, Available, WaitsForSender, NetworkMoves
    <3>2. CASE Do[o] = "read_exact"
      <4>1. /\ Len(data[o]) \in Nat /\ AsUsize(Size[o]) \in Nat
            /\ Len(data[o]) <= AsUsize(Size[o])
        BY <3>2, UsizeType DEF MoveInv, NoExcess, TypeInv, StreamType, Ops
      <4>2. Len(data[o]) = AsUsize(Size[o]) \/ Len(data[o]) < AsUsize(Size[o])
        BY <4>1
      <4> QED BY <3>1, <3>2, <4>2 DEF ReaderMoves
    <3>3. CASE Do[o] # "read_exact"
      BY <3>1, <3>3, DoAssumption DEF ReaderMoves, Readable
    <3> QED BY <3>2, <3>3
  <2>4. ASSUME NEW o \in Sends, WaitsForReader(o), WaitsForSender PROVE FALSE
    BY <2>1, <2>4 DEF WaitsForReader, WaitsForSender
  <2> QED BY <2>2, <2>3, <2>4 DEF StreamGoesOn
<1> QED BY MoveStart, MoveStep, <1>1, PTL DEF Spec
=============================================================================
