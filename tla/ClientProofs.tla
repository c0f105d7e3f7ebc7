---------------------------- MODULE ClientProofs ----------------------------
(* Theorems about Client, for all engines, connects, calls and bounds.      *)
EXTENDS Client, SequenceTheorems, TLAPS

-----------------------------------------------------------------------------
(* The bootstrap.  AttachedCanBind is not inductive: it needs that an engine *)
(* that attached, and the flag that spares the next one the work, mean that  *)
(* ndk-context was set.                                                    *)
BootTypeOK ==
    /\ process \in {"up", "no context", "callback threw", "allocation failed"}
    /\ initialized \in BOOLEAN /\ ndk \in BOOLEAN
    /\ attached \in [Engines -> {"no", "ok", "failed"}]

BootInv ==
    /\ BootTypeOK
    /\ initialized => ndk
    /\ (\E e \in Engines : attached[e] = "ok") => ndk
    /\ AttachedCanBind

LEMMA BootStart == ClientInit => BootInv
BY DEF ClientInit, DialInit, BootInit, BootInv, BootTypeOK, AttachedCanBind

LEMMA BootStep == BootInv /\ [Next]_vars => BootInv'
<1> SUFFICES ASSUME BootInv, [Next]_vars PROVE BootInv'
  OBVIOUS
<1> USE DEF BootInv, BootTypeOK, AttachedCanBind, bootVars, Up
<1>1. ASSUME NEW e \in Engines, Attach(e), process = "up" PROVE BootInv'
  BY <1>1 DEF Attach, InitAndroidContext, bindVars
<1>2. ASSUME NEW e \in Engines, AttachFails(e), process = "up" PROVE BootInv'
  BY <1>2 DEF AttachFails, bindVars
<1>3. ASSUME Binding PROVE BootInv'
  <2>1. CASE BindDone
    BY <2>1 DEF BindDone
  <2>2. CASE BindFails
    BY <2>2 DEF BindFails
  <2>3. CASE BindAborts
    BY <2>3 DEF BindAborts
  <2> QED BY <1>3, <2>1, <2>2, <2>3 DEF Binding
<1>4. ASSUME NEW w \in {"dns", "dart"}, CallBind(w) PROVE BootInv'
  BY <1>4 DEF CallBind
<1>5. ASSUME NEW d \in Dials, ResolverThrows(d) PROVE BootInv'
  BY <1>5 DEF ResolverThrows
<1>6. ASSUME UNCHANGED bootVars PROVE BootInv'
  BY <1>6
<1>7. ASSUME OnDials, process = "up" PROVE BootInv'
  <2>1. PICK d \in Dials :
            \/ \E parts \in EndpointAddrParts : Connect(d, parts) \/ ResolverAnswers(d, parts)
            \/ ResolverAnswersNull(d) \/ ResolverThrows(d)
            \/ Dialing(d) \/ AbandonConnect(d)
    BY <1>7 DEF OnDials, Resolver
  <2>2. ResolverThrows(d) \/ UNCHANGED bootVars
    BY <2>1 DEF Connect, ResolverAnswers, ResolverAnswersNull, Dialing, DnsAnswers, LookupStops,
                ConnectFails, AbandonConnect
  <2> QED BY <2>2, <1>5, <1>6
<1>8. ASSUME NEW d \in Dials, Established(d) PROVE BootInv'
  BY <1>6, <1>8 DEF Established, Connected
<1>9. ASSUME CloseEndpoint PROVE BootInv'
  BY <1>6, <1>9 DEF CloseEndpoint
<1>10. ASSUME UNCHANGED vars PROVE BootInv'
  BY <1>6, <1>10 DEF vars
<1>11. ASSUME NEW r \in Reads, AllocationFails(r), UNCHANGED otherBoot PROVE BootInv'
  BY <1>11 DEF AllocationFails, otherBoot
<1> QED BY <1>1, <1>2, <1>3, <1>4, <1>6, <1>7, <1>8, <1>9, <1>10, <1>11 DEF Next, Booting

(* Whatever fails before: once an engine attached without an exception, no  *)
(* bind aborts the app for want of the Android context                     *)
(* (IrohFlutterPlugin.java 24-33, android.rs 36-64).                       *)
THEOREM BootedNeverAborts == Spec => []AttachedCanBind
<1>1. BootInv => AttachedCanBind BY DEF BootInv
<1> QED BY BootStart, BootStep, <1>1, PTL DEF Spec

-----------------------------------------------------------------------------
(* The calls on the connection.  FreshReads needs the order of what nobody   *)
(* took yet: the queue is sorted, all in it is later than what any call of   *)
(* its kind took or Dart had seen, and what is to arrive is later still.     *)
ReadTypeOK ==
    /\ arrived \in [Queues -> Nat]
    /\ queue \in [Queues -> Seq(Nat)]
    /\ read \in [Reads -> ReadState]

Sorted(s)       == \A i, j \in 1..Len(s) : i < j => s[i] < s[j]
Below(n, a, s)  == n <= a /\ \A j \in 1..Len(s) : n < s[j]

QueueSorted == \A k \in Queues : /\ Sorted(queue[k])
                                 /\ \A j \in 1..Len(queue[k]) : queue[k][j] <= arrived[k]

Older ==
    \A r \in Reads : read[r].kind \in Queues =>
        LET k == read[r].kind
        IN  /\ \A i \in 1..Len(read[r].items) : Below(read[r].items[i], arrived[k], queue[k])
            /\ \A n \in read[r].after : Below(n, arrived[k], queue[k])

Ascending ==
    \A r \in Reads :
        /\ Sorted(read[r].items)
        /\ \A i \in 1..Len(read[r].items) : \A n \in read[r].after : n < read[r].items[i]

IdleIsEmpty == \A r \in Reads : read[r].st \in {"idle", "waiting"} => read[r].items = <<>>

ReadInv == ReadTypeOK /\ QueueSorted /\ Older /\ Ascending /\ IdleIsEmpty

LEMMA ReadStart == ClientInit => ReadInv
<1> SUFFICES ASSUME ClientInit PROVE ReadInv
  OBVIOUS
<1> USE DEF ClientInit, ConnInit, Idle
<1>1. ReadTypeOK BY BoundsAssumption DEF ReadTypeOK, ReadState, TooMany, Kinds, Queues
<1>2. QueueSorted BY DEF QueueSorted, Sorted
<1>3. Older BY DEF Older, Queues
<1>4. Ascending BY DEF Ascending, Sorted
<1>5. IdleIsEmpty BY DEF IdleIsEmpty
<1> QED BY <1>1, <1>2, <1>3, <1>4, <1>5 DEF ReadInv

(* What Take splits off the front of a sorted queue is older than the rest. *)
LEMMA Split ==
    ASSUME NEW s \in Seq(Nat), Sorted(s), NEW n \in 1..Len(s)
    PROVE  LET front == SubSeq(s, 1, n)  rest == SubSeq(s, n + 1, Len(s))
           IN  /\ front \in Seq(Nat) /\ rest \in Seq(Nat)
               /\ Len(front) = n /\ Len(rest) = Len(s) - n
               /\ \A i \in 1..n : front[i] = s[i]
               /\ \A j \in 1..Len(rest) : rest[j] = s[n + j]
               /\ Sorted(front) /\ Sorted(rest)
               /\ \A i \in 1..n, j \in 1..Len(rest) : front[i] < rest[j]
<1> DEFINE front == SubSeq(s, 1, n)
           rest  == SubSeq(s, n + 1, Len(s))
<1>1. front \in Seq(Nat) /\ Len(front) = n /\ \A i \in 1..n : front[i] = s[i]
  OBVIOUS
<1>2. rest \in Seq(Nat) /\ Len(rest) = Len(s) - n
  OBVIOUS
<1>3. \A j \in 1..Len(rest) : rest[j] = s[n + j]
  BY <1>2
<1>0. Len(s) \in Nat /\ n \in Nat /\ n <= Len(s)
  OBVIOUS
<1>s. \A i, j \in 1..Len(s) : i < j => s[i] < s[j]
  BY DEF Sorted
<1> HIDE DEF front, rest
<1>4. Sorted(front)
  <2>1. \A i, j \in 1..n : i \in 1..Len(s) /\ j \in 1..Len(s)
    BY <1>0
  <2> QED BY <1>1, <1>s, <2>1 DEF Sorted
<1>r. \A j \in 1..Len(rest) : n + j \in 1..Len(s)
  BY <1>0, <1>2
<1>5. Sorted(rest)
  <2> SUFFICES ASSUME NEW i \in 1..Len(rest), NEW j \in 1..Len(rest), i < j
               PROVE  rest[i] < rest[j]
    BY DEF Sorted
  <2>1. n + i < n + j
    BY <1>0, <1>2
  <2> QED BY <1>3, <1>s, <1>r, <2>1
<1>6. \A i \in 1..n, j \in 1..Len(rest) : front[i] < rest[j]
  <2> SUFFICES ASSUME NEW i \in 1..n, NEW j \in 1..Len(rest) PROVE front[i] < rest[j]
    OBVIOUS
  <2>1. i < n + j /\ i \in 1..Len(s)
    BY <1>0, <1>2
  <2> QED BY <1>1, <1>3, <1>s, <1>r, <2>1
<1> QED BY <1>1, <1>2, <1>3, <1>4, <1>5, <1>6 DEF front, rest

(* Steps that leave kinds, items and what Dart had seen as they are.        *)
LEMMA SameItems ==
    ASSUME ReadInv, UNCHANGED <<arrived, queue>>, read' \in [Reads -> ReadState],
           \A r \in Reads : /\ read'[r].kind = read[r].kind
                            /\ read'[r].items = read[r].items
                            /\ read'[r].after = read[r].after
                            /\ read'[r].st \in {"idle", "waiting"} => read[r].st \in {"idle", "waiting"}
    PROVE  ReadInv'
<1>1. ReadTypeOK' BY DEF ReadInv, ReadTypeOK
<1>2. QueueSorted' BY DEF ReadInv, QueueSorted, Sorted
<1>3. Older' BY DEF ReadInv, Older
<1>4. Ascending' BY DEF ReadInv, Ascending, Sorted
<1>5. IdleIsEmpty' BY DEF ReadInv, IdleIsEmpty
<1> QED BY <1>1, <1>2, <1>3, <1>4, <1>5 DEF ReadInv

(* What Dart has seen is older than what waits.                            *)
LEMMA SeenIsOlder ==
    ASSUME ReadInv, NEW k \in Queues, NEW n \in Seen(k)
    PROVE  n \in Nat /\ Below(n, arrived[k], queue[k])
<1>1. PICK r \in Reads : read[r].kind = k /\ n \in ToSet(read[r].items)
  BY DEF Seen
<1>2. read[r].items \in Seq(Nat)
  BY DEF ReadInv, ReadTypeOK, ReadState
<1>3. PICK i \in 1..Len(read[r].items) : n = read[r].items[i]
  BY <1>1, <1>2 DEF ToSet
<1> QED BY <1>1, <1>2, <1>3 DEF ReadInv, Older

LEMMA CallKeeps ==
    ASSUME ReadInv, NEW r \in Reads, NEW k \in Kinds, NEW n \in 0..TooMany, Call(r, k, n)
    PROVE  ReadInv'
<1> DEFINE seen == IF k \in Queues THEN Seen(k) ELSE {}
           new  == [st |-> IF n = 0 THEN "holding" ELSE "waiting", kind |-> k, count |-> n,
                    items |-> <<>>, live |-> TRUE, after |-> seen]
<1>1. read' = [read EXCEPT ![r] = new] /\ UNCHANGED <<arrived, queue>>
  BY DEF Call
<1>2. seen \in SUBSET Nat /\ (k \in Queues => \A m \in seen : Below(m, arrived[k], queue[k]))
  BY SeenIsOlder
<1> HIDE DEF seen
<1>3. new \in ReadState
  BY <1>2 DEF ReadState
<1>4. new.kind = k /\ new.items = <<>> /\ new.after = seen /\ Len(new.items) = 0
  OBVIOUS
<1> HIDE DEF new
<1>5. \A q \in Reads : read'[q] = IF q = r THEN new ELSE read[q]
  BY <1>1 DEF ReadInv, ReadTypeOK
<1>6. ReadTypeOK' BY <1>1, <1>3 DEF ReadInv, ReadTypeOK
<1>7. QueueSorted' BY <1>1 DEF ReadInv, QueueSorted, Sorted
<1>8. Older'
  <2> SUFFICES ASSUME NEW q \in Reads, NEW p, p = read'[q].kind, p \in Queues
               PROVE  /\ \A i \in 1..Len(read'[q].items) :
                             Below(read'[q].items[i], arrived[p], queue[p])
                      /\ \A m \in read'[q].after : Below(m, arrived[p], queue[p])
    BY <1>1 DEF Older
  <2>1. CASE q = r
    <3>1. read'[q] = new BY <2>1, <1>5
    <3>2. p = k BY <3>1, <1>4
    <3>3. \A i \in 1..Len(new.items) : FALSE BY <1>4
    <3>4. \A m \in new.after : Below(m, arrived[p], queue[p])
      BY <3>2, <1>2, <1>4
    <3> QED BY <3>1, <3>3, <3>4
  <2>2. CASE q # r
    BY <2>2, <1>5 DEF ReadInv, Older
  <2> QED BY <2>1, <2>2
<1>9. Ascending' BY <1>4, <1>5 DEF ReadInv, Ascending, Sorted
<1>10. IdleIsEmpty' BY <1>4, <1>5 DEF ReadInv, IdleIsEmpty
<1> QED BY <1>6, <1>7, <1>8, <1>9, <1>10 DEF ReadInv

LEMMA ArriveKeeps ==
    ASSUME ReadInv, NEW k \in Queues, Arrive(k)
    PROVE  ReadInv'
<1> DEFINE old  == queue[k]
           kept == IF k = "datagram" /\ Len(old) = Buffer THEN Tail(old) ELSE old
           new  == arrived[k] + 1
<1>1. arrived' = [arrived EXCEPT ![k] = new] /\ queue' = [queue EXCEPT ![k] = Append(kept, new)]
      /\ read' = read
  BY DEF Arrive, ReadInv, ReadTypeOK
<1>2. arrived[k] \in Nat /\ old \in Seq(Nat) /\ new \in Nat /\ new > arrived[k]
  BY DEF ReadInv, ReadTypeOK
<1>3. \E c \in 0..1 : /\ kept \in Seq(Nat) /\ Len(kept) + c = Len(old)
                      /\ \A i \in 1..Len(kept) : kept[i] = old[i + c]
  <2>1. CASE k = "datagram" /\ Len(old) = Buffer
    <3>1. Len(old) > 0 BY <2>1, BoundsAssumption
    <3>2. kept = Tail(old) BY <2>1
    <3>3. Tail(old) \in Seq(Nat) /\ Len(Tail(old)) + 1 = Len(old)
          /\ \A i \in 1..Len(Tail(old)) : Tail(old)[i] = old[i + 1]
      BY <1>2, <3>1
    <3> QED BY <3>2, <3>3
  <2>2. CASE ~(k = "datagram" /\ Len(old) = Buffer)
    <3>1. kept = old BY <2>2
    <3>2. Len(old) + 0 = Len(old) /\ \A i \in 1..Len(old) : i + 0 = i
      BY <1>2
    <3>3. kept \in Seq(Nat) /\ Len(kept) + 0 = Len(old)
      BY <1>2, <3>1, <3>2
    <3>4. \A i \in 1..Len(kept) : kept[i] = old[i + 0]
      BY <3>1, <3>2
    <3> QED BY <3>3, <3>4
  <2> QED BY <2>1, <2>2
<1>4. PICK c \in 0..1 : /\ kept \in Seq(Nat) /\ Len(kept) + c = Len(old)
                        /\ \A i \in 1..Len(kept) : kept[i] = old[i + c]
  BY <1>3
<1>5. Sorted(old) /\ \A j \in 1..Len(old) : old[j] <= arrived[k]
  BY DEF ReadInv, QueueSorted
<1> HIDE DEF old, kept, new
<1>6. Append(kept, new) \in Seq(Nat) /\ Len(Append(kept, new)) = Len(kept) + 1
      /\ \A j \in 1..Len(kept) + 1 : Append(kept, new)[j] = IF j = Len(kept) + 1 THEN new ELSE kept[j]
  BY <1>2, <1>4
<1>7. \A j \in 1..Len(kept) : j + c \in 1..Len(old) /\ kept[j] \in Nat /\ kept[j] <= arrived[k]
  <2> SUFFICES ASSUME NEW j \in 1..Len(kept)
               PROVE  j + c \in 1..Len(old) /\ kept[j] \in Nat /\ kept[j] <= arrived[k]
    OBVIOUS
  <2>1. Len(kept) \in Nat /\ Len(old) \in Nat /\ kept[j] \in Nat
    BY <1>2, <1>4, SMTT(30)
  <2>2. j + c \in 1..Len(old)
    BY <2>1, <1>4
  <2> QED BY <2>1, <2>2, <1>4, <1>5
<1>8. Sorted(Append(kept, new))
  <2> SUFFICES ASSUME NEW i \in 1..Len(kept) + 1, NEW j \in 1..Len(kept) + 1, i < j
               PROVE  Append(kept, new)[i] < Append(kept, new)[j]
    BY <1>6 DEF Sorted
  <2>1. Len(kept) \in Nat /\ i \in 1..Len(kept)
    BY <1>4
  <2>2. CASE j = Len(kept) + 1
    <3>1. Append(kept, new)[j] = new /\ Append(kept, new)[i] = kept[i]
      BY <2>1, <2>2, <1>6
    <3>2. kept[i] \in Nat /\ kept[i] <= arrived[k]
      BY <2>1, <1>7
    <3> QED BY <3>1, <3>2, <1>2
  <2>3. CASE j # Len(kept) + 1
    <3>1. j \in 1..Len(kept) /\ i + c < j + c
      BY <2>1, <2>3
    <3>2. old[i + c] < old[j + c]
      BY <3>1, <2>1, <1>5, <1>7 DEF Sorted
    <3> QED BY <3>1, <3>2, <2>1, <2>3, <1>4, <1>6
  <2> QED BY <2>2, <2>3
<1>9. \A q \in Queues : /\ queue'[q] = IF q = k THEN Append(kept, new) ELSE queue[q]
                        /\ arrived'[q] = IF q = k THEN new ELSE arrived[q]
  BY <1>1 DEF ReadInv, ReadTypeOK
<1>10. ReadTypeOK'
  BY <1>1, <1>2, <1>6 DEF ReadInv, ReadTypeOK
<1>11. QueueSorted'
  <2> SUFFICES ASSUME NEW q \in Queues
               PROVE  /\ Sorted(queue'[q])
                      /\ \A j \in 1..Len(queue'[q]) : queue'[q][j] <= arrived'[q]
    BY DEF QueueSorted, Sorted
  <2>1. CASE q = k
    <3>1. \A j \in 1..Len(kept) + 1 : Append(kept, new)[j] <= new
      <4> SUFFICES ASSUME NEW j \in 1..Len(kept) + 1 PROVE Append(kept, new)[j] <= new
        OBVIOUS
      <4>1. CASE j = Len(kept) + 1
        BY <4>1, <1>2, <1>6
      <4>2. CASE j # Len(kept) + 1
        <5>1. j \in 1..Len(kept) BY <4>2, <1>4
        <5>2. kept[j] \in Nat /\ kept[j] <= arrived[k] BY <5>1, <1>7
        <5> QED BY <5>2, <4>2, <1>2, <1>6
      <4> QED BY <4>1, <4>2
    <3> QED BY <2>1, <3>1, <1>6, <1>8, <1>9
  <2>2. CASE q # k
    BY <2>2, <1>9 DEF ReadInv, QueueSorted
  <2> QED BY <2>1, <2>2
<1>12. ASSUME NEW n \in Nat, NEW q \in Queues, Below(n, arrived[q], queue[q])
       PROVE  Below(n, arrived'[q], queue'[q])
  <2>1. CASE q = k
    <3>1. n <= arrived[k] /\ \A j \in 1..Len(old) : n < old[j]
      BY <2>1, <1>12 DEF Below, old
    <3>2. n < new
      BY <3>1, <1>2
    <3>3. \A j \in 1..Len(kept) : n < kept[j]
      BY <3>1, <1>4, <1>7
    <3>4. \A j \in 1..Len(kept) + 1 : n < Append(kept, new)[j]
      <4> SUFFICES ASSUME NEW j \in 1..Len(kept) + 1 PROVE n < Append(kept, new)[j]
        OBVIOUS
      <4>1. Len(kept) \in Nat BY <1>4
      <4>2. j = Len(kept) + 1 \/ j \in 1..Len(kept) BY <4>1
      <4> QED BY <4>1, <4>2, <3>2, <3>3, <1>6
    <3>5. n <= new BY <3>2, <1>2
    <3> QED BY <2>1, <3>4, <3>5, <1>6, <1>9 DEF Below
  <2>2. CASE q # k
    BY <2>2, <1>9, <1>12
  <2> QED BY <2>1, <2>2
<1>13. Older'
  <2>1. \A r \in Reads : /\ \A i \in 1..Len(read[r].items) : read[r].items[i] \in Nat
                         /\ \A n \in read[r].after : n \in Nat
    BY DEF ReadInv, ReadTypeOK, ReadState
  <2> QED BY <2>1, <1>1, <1>12 DEF ReadInv, Older
<1>14. Ascending' BY <1>1 DEF ReadInv, Ascending, Sorted
<1>15. IdleIsEmpty' BY <1>1 DEF ReadInv, IdleIsEmpty
<1> QED BY <1>10, <1>11, <1>13, <1>14, <1>15 DEF ReadInv

LEMMA TakeKeeps ==
    ASSUME ReadInv, NEW r \in Reads, Take(r)
    PROVE  ReadInv'
<1> DEFINE k     == read[r].kind
           n     == Smaller(read[r].count, Len(queue[k]))
           front == SubSeq(queue[k], 1, n)
           rest  == SubSeq(queue[k], n + 1, Len(queue[k]))
<1>1. k \in Queues /\ n > 0 /\ arrived' = arrived
      /\ read' = [read EXCEPT ![r].st = "holding", ![r].items = front]
      /\ queue' = [queue EXCEPT ![k] = rest]
  BY DEF Take
<1>2. queue[k] \in Seq(Nat) /\ Sorted(queue[k]) /\ arrived[k] \in Nat
      /\ \A j \in 1..Len(queue[k]) : queue[k][j] <= arrived[k]
  BY <1>1 DEF ReadInv, ReadTypeOK, QueueSorted
<1>3. n \in 1..Len(queue[k])
  <2>1. read[r].count \in Int BY DEF ReadInv, ReadTypeOK, ReadState
  <2> QED BY <2>1, <1>1, <1>2 DEF Smaller
<1>4. /\ front \in Seq(Nat) /\ rest \in Seq(Nat)
      /\ Len(front) = n /\ Len(rest) = Len(queue[k]) - n
      /\ \A i \in 1..n : front[i] = queue[k][i]
      /\ \A j \in 1..Len(rest) : rest[j] = queue[k][n + j]
      /\ Sorted(front) /\ Sorted(rest)
      /\ \A i \in 1..n, j \in 1..Len(rest) : front[i] < rest[j]
  BY <1>2, <1>3, Split
<1> HIDE DEF n, front, rest
<1>5. \A q \in Queues : queue'[q] = IF q = k THEN rest ELSE queue[q]
  BY <1>1 DEF ReadInv, ReadTypeOK
<1>6. \A q \in Reads : /\ read'[q].kind = read[q].kind /\ read'[q].after = read[q].after
                       /\ read'[q].items = IF q = r THEN front ELSE read[q].items
                       /\ read'[q].st = IF q = r THEN "holding" ELSE read[q].st
  BY <1>1 DEF ReadInv, ReadTypeOK, ReadState
<1>7. \A j \in 1..Len(rest) : n + j \in 1..Len(queue[k])
  BY <1>2, <1>3, <1>4
<1>8. ReadTypeOK'
  <2>1. read' \in [Reads -> ReadState]
    <3>1. read[r] \in ReadState BY DEF ReadInv, ReadTypeOK
    <3>2. [read[r] EXCEPT !.st = "holding", !.items = front] \in ReadState
      BY <3>1, <1>4 DEF ReadState
    <3> QED BY <3>2, <1>1 DEF ReadInv, ReadTypeOK
  <2>2. queue' \in [Queues -> Seq(Nat)]
    BY <1>1, <1>4 DEF ReadInv, ReadTypeOK
  <2> QED BY <2>1, <2>2, <1>1 DEF ReadInv, ReadTypeOK
<1>9. QueueSorted'
  <2> SUFFICES ASSUME NEW q \in Queues
               PROVE  /\ Sorted(queue'[q])
                      /\ \A j \in 1..Len(queue'[q]) : queue'[q][j] <= arrived[q]
    BY <1>1 DEF QueueSorted, Sorted
  <2>1. CASE q = k
    <3>1. queue'[q] = rest BY <2>1, <1>5
    <3>2. \A j \in 1..Len(rest) : rest[j] <= arrived[k]
      BY <1>2, <1>4, <1>7
    <3> QED BY <3>1, <3>2, <2>1, <1>4
  <2>2. CASE q # k
    BY <2>2, <1>5 DEF ReadInv, QueueSorted
  <2> QED BY <2>1, <2>2
<1>10. ASSUME NEW m \in Nat, NEW q \in Queues, Below(m, arrived[q], queue[q])
       PROVE  Below(m, arrived[q], queue'[q])
  <2>1. CASE q = k
    <3>1. \A j \in 1..Len(rest) : m < rest[j]
      BY <2>1, <1>4, <1>7, <1>10 DEF Below
    <3> QED BY <2>1, <3>1, <1>5, <1>10 DEF Below
  <2>2. CASE q # k
    BY <2>2, <1>5, <1>10
  <2> QED BY <2>1, <2>2
<1>11. \A i \in 1..n : Below(front[i], arrived[k], queue'[k])
  <2> SUFFICES ASSUME NEW i \in 1..n
               PROVE  front[i] <= arrived[k] /\ \A j \in 1..Len(rest) : front[i] < rest[j]
    <3>1. queue'[k] = rest BY <1>1, <1>5
    <3> QED BY <3>1 DEF Below
  <2>1. i \in 1..Len(queue[k]) BY <1>2, <1>3
  <2> QED BY <2>1, <1>2, <1>4
<1>12. Older'
  <2> SUFFICES ASSUME NEW q \in Reads, NEW p, p = read[q].kind, p \in Queues
               PROVE  /\ \A i \in 1..Len(read'[q].items) :
                             Below(read'[q].items[i], arrived[p], queue'[p])
                      /\ \A m \in read[q].after : Below(m, arrived[p], queue'[p])
    BY <1>1, <1>6 DEF Older
  <2>1. \A m \in read[q].after : m \in Nat /\ Below(m, arrived[p], queue[p])
    BY DEF ReadInv, ReadTypeOK, ReadState, Older
  <2>2. \A i \in 1..Len(read[q].items) : /\ read[q].items[i] \in Nat
                                         /\ Below(read[q].items[i], arrived[p], queue[p])
    BY DEF ReadInv, ReadTypeOK, ReadState, Older
  <2>3. \A m \in read[q].after : Below(m, arrived[p], queue'[p])
    BY <2>1, <1>10
  <2>4. CASE q = r
    BY <2>3, <2>4, <1>4, <1>6, <1>11
  <2>5. CASE q # r
    <3>1. read'[q].items = read[q].items BY <2>5, <1>6
    <3> QED BY <2>2, <2>3, <3>1, <1>10
  <2> QED BY <2>4, <2>5
<1>13. Ascending'
  <2> SUFFICES ASSUME NEW q \in Reads
               PROVE  /\ Sorted(read'[q].items)
                      /\ \A i \in 1..Len(read'[q].items) : \A m \in read[q].after :
                             m < read'[q].items[i]
    BY <1>6 DEF Ascending, Sorted
  <2>1. CASE q = r
    <3>1. \A i \in 1..n : \A m \in read[r].after : m < queue[k][i]
      BY <1>1, <1>2, <1>3 DEF ReadInv, Older, Below
    <3> QED BY <2>1, <3>1, <1>4, <1>6
  <2>2. CASE q # r
    BY <2>2, <1>6 DEF ReadInv, Ascending
  <2> QED BY <2>1, <2>2
<1>14. IdleIsEmpty' BY <1>6 DEF ReadInv, IdleIsEmpty
<1> QED BY <1>8, <1>9, <1>12, <1>13, <1>14 DEF ReadInv

LEMMA AnswerKeeps ==
    ASSUME ReadInv, NEW r \in Reads, AllocationError(r) \/ Fail(r) \/ Closed(r) \/ Deliver(r) \/ Abandon(r)
    PROVE  ReadInv'
<1>1. UNCHANGED <<arrived, queue>>
  BY DEF AllocationError, Fail, Closed, Deliver, Abandon
<1>2. read[r] \in ReadState
  BY DEF ReadInv, ReadTypeOK
<1>3. \/ \E st \in {"holding", "returned", "wasted", "error"} : read' = [read EXCEPT ![r].st = st]
      \/ read' = [read EXCEPT ![r].live = FALSE]
  BY DEF AllocationError, Fail, Closed, Deliver, Abandon
<1>4. CASE \E st \in {"holding", "returned", "wasted", "error"} : read' = [read EXCEPT ![r].st = st]
  <2>1. PICK st \in {"holding", "returned", "wasted", "error"} : read' = [read EXCEPT ![r].st = st]
    BY <1>4
  <2>2. [read[r] EXCEPT !.st = st] \in ReadState
    BY <1>2 DEF ReadState
  <2>3. read' \in [Reads -> ReadState]
    BY <2>1, <2>2 DEF ReadInv, ReadTypeOK
  <2>4. \A q \in Reads : /\ read'[q].kind = read[q].kind
                         /\ read'[q].items = read[q].items
                         /\ read'[q].after = read[q].after
                         /\ read'[q].st \in {"idle", "waiting"} => read[q].st \in {"idle", "waiting"}
    BY <2>1, <1>2 DEF ReadInv, ReadTypeOK, ReadState
  <2> QED BY <1>1, <2>3, <2>4, SameItems
<1>5. CASE read' = [read EXCEPT ![r].live = FALSE]
  <2>1. [read[r] EXCEPT !.live = FALSE] \in ReadState
    BY <1>2 DEF ReadState
  <2>2. read' \in [Reads -> ReadState]
    BY <1>5, <2>1 DEF ReadInv, ReadTypeOK
  <2>3. \A q \in Reads : /\ read'[q].kind = read[q].kind
                         /\ read'[q].items = read[q].items
                         /\ read'[q].after = read[q].after
                         /\ read'[q].st \in {"idle", "waiting"} => read[q].st \in {"idle", "waiting"}
    BY <1>5, <1>2 DEF ReadInv, ReadTypeOK, ReadState
  <2> QED BY <1>1, <2>2, <2>3, SameItems
<1> QED BY <1>3, <1>4, <1>5

LEMMA ReadStep == ReadInv /\ [Next]_vars => ReadInv'
<1> SUFFICES ASSUME ReadInv, [Next]_vars PROVE ReadInv'
  OBVIOUS
<1>1. ASSUME UNCHANGED <<arrived, queue, read>> PROVE ReadInv'
  BY <1>1 DEF ReadInv, ReadTypeOK, QueueSorted, Older, Ascending, IdleIsEmpty
<1>2. ASSUME UNCHANGED connVars PROVE ReadInv'
  BY <1>1, <1>2 DEF connVars
<1>3. ASSUME NEW d \in Dials, Established(d) PROVE ReadInv'
  BY <1>1, <1>3 DEF Established
<1>4. ASSUME CloseEndpoint PROVE ReadInv'
  BY <1>1, <1>4 DEF CloseEndpoint
<1>5. ASSUME OnConnection PROVE ReadInv'
  <2>1. ASSUME NEW r \in Reads, Working(r) \/ Abandon(r) PROVE ReadInv'
    BY <2>1, TakeKeeps, AnswerKeeps DEF Working
  <2>2. ASSUME NEW r \in Reads, NEW k \in Kinds, NEW n \in 0..TooMany, Call(r, k, n) PROVE ReadInv'
    BY <2>2, CallKeeps
  <2>3. ASSUME NEW k \in Queues, Arrive(k) PROVE ReadInv'
    BY <2>3, ArriveKeeps
  <2>4. ASSUME Close PROVE ReadInv'
    BY <2>4, <1>1 DEF Close
  <2> QED BY <1>5, <2>1, <2>2, <2>3, <2>4 DEF OnConnection
<1>6. ASSUME UNCHANGED vars PROVE ReadInv'
  BY <1>2, <1>6 DEF vars
<1>7. ASSUME NEW r \in Reads, AllocationFails(r) PROVE ReadInv'
  BY <1>2, <1>7, AnswerKeeps DEF AllocationFails
<1> QED BY <1>2, <1>3, <1>4, <1>5, <1>6, <1>7 DEF Next, Up

(* Whatever timeouts, overlapping calls and closes do: what a call hands     *)
(* out is in the order of arrival, and later than all that Dart had when it  *)
(* called (connection.rs 207-290).                                         *)
THEOREM ReadsAreFresh == Spec => []FreshReads
<1>1. ReadInv => FreshReads
  <2> SUFFICES ASSUME ReadInv, NEW r \in Reads, NEW i \in DOMAIN read[r].items
               PROVE  /\ \A s \in read[r].after : s < read[r].items[i]
                      /\ \A j \in 1..i - 1 : read[r].items[j] < read[r].items[i]
    BY DEF FreshReads
  <2>1. read[r].items \in Seq(Nat) /\ i \in 1..Len(read[r].items)
    BY DEF ReadInv, ReadTypeOK, ReadState
  <2>2. \A j \in 1..i - 1 : j \in 1..Len(read[r].items) /\ j < i
    BY <2>1
  <2> QED BY <2>1, <2>2 DEF ReadInv, Ascending, Sorted
<1> QED BY ReadStart, ReadStep, <1>1, PTL DEF Spec

-----------------------------------------------------------------------------
(* LostOnlyToTimeouts.  What was pushed out is older than what waits, as is  *)
(* what a call took (Older), so no step puts an item in a second place; a   *)
(* call is emptied or forgotten only when it has nothing or Dart gave up.   *)
DroppedOlder == \A k \in Queues : \A n \in dropped[k] : n \in Nat /\ Below(n, arrived[k], queue[k])

OfKind(k) == {r \in Reads : read[r].kind = k}

AllPlaced == \A k \in Queues :
    1..arrived[k] = Queued(k) \cup dropped[k] \cup UNION {Items(r) : r \in OfKind(k)}

Apart == \A k \in Queues : \A r \in OfKind(k) :
    /\ Items(r) \cap dropped[k] = {}
    /\ \A s \in OfKind(k) \ {r} : Items(r) \cap Items(s) = {}

KeptForDart == \A r \in Reads :
    read[r].live /\ Items(r) # {} => read[r].st \in {"holding", "returned"}

PlaceInv == /\ ReadInv /\ dropped \in [Queues -> SUBSET Nat]
            /\ DroppedOlder /\ AllPlaced /\ Apart /\ KeptForDart

LEMMA PlaceStart == ClientInit => PlaceInv
<1> SUFFICES ASSUME ClientInit PROVE PlaceInv
  OBVIOUS
<1> USE DEF ClientInit, ConnInit
<1>1. \A k \in Queues : Queued(k) = {} /\ dropped[k] = {} /\ arrived[k] = 0 /\ OfKind(k) = {}
  BY DEF Queued, ToSet, OfKind, Idle, Queues
<1>2. \A r \in Reads : Items(r) = {}
  BY DEF Items, ToSet, Idle
<1>3. dropped \in [Queues -> SUBSET Nat] /\ DroppedOlder
  BY DEF DroppedOlder
<1>4. AllPlaced
  BY <1>1 DEF AllPlaced
<1>5. Apart
  BY <1>1 DEF Apart
<1>6. KeptForDart
  BY <1>2 DEF KeptForDart
<1> QED BY ReadStart, <1>3, <1>4, <1>5, <1>6 DEF PlaceInv

(* Steps that move no item.                                                *)
LEMMA SamePlaces ==
    ASSUME PlaceInv, ReadInv', UNCHANGED <<arrived, queue, dropped>>,
           \A r \in Reads : /\ Items(r)' = Items(r)
                            /\ read'[r].kind = read[r].kind \/ Items(r) = {}
                            /\ read'[r].live /\ Items(r) # {} =>
                                  read[r].live /\ (read'[r].st = read[r].st \/ read'[r].st = "returned")
    PROVE  PlaceInv'
<1>1. DroppedOlder' BY DEF PlaceInv, DroppedOlder, Below
<1>2. \A k \in Queues : Queued(k)' = Queued(k)
  BY DEF Queued
<1>3. \A k \in Queues : UNION {Items(r)' : r \in OfKind(k)'} = UNION {Items(r) : r \in OfKind(k)}
  BY DEF OfKind
<1>4. AllPlaced'
  BY <1>2, <1>3 DEF PlaceInv, AllPlaced
<1>5. Apart'
  BY DEF PlaceInv, Apart, OfKind
<1>6. KeptForDart'
  BY DEF PlaceInv, KeptForDart
<1> QED BY <1>1, <1>4, <1>5, <1>6 DEF PlaceInv

LEMMA ElementsOf ==
    ASSUME NEW S, NEW s \in Seq(S)
    PROVE  /\ \A i \in 1..Len(s) : s[i] \in ToSet(s)
           /\ \A x \in ToSet(s) : x \in S /\ \E i \in 1..Len(s) : x = s[i]
BY DEF ToSet

(* What waits is in no other place.                                        *)
LEMMA WaitingIsApart ==
    ASSUME PlaceInv, NEW k \in Queues
    PROVE  /\ Queued(k) \subseteq Nat /\ Queued(k) \cap dropped[k] = {}
           /\ \A r \in OfKind(k) : Items(r) \cap Queued(k) = {}
<1>1. queue[k] \in Seq(Nat) /\ \A r \in Reads : read[r].items \in Seq(Nat)
  BY DEF PlaceInv, ReadInv, ReadTypeOK, ReadState
<1>2. Queued(k) \subseteq Nat
  BY <1>1 DEF Queued, ToSet
<1>3. ASSUME NEW n \in Nat, Below(n, arrived[k], queue[k]) PROVE n \notin Queued(k)
  BY <1>1, <1>3 DEF Queued, ToSet, Below
<1>4. Queued(k) \cap dropped[k] = {}
  BY <1>3 DEF PlaceInv, DroppedOlder
<1>5. ASSUME NEW r \in OfKind(k) PROVE Items(r) \cap Queued(k) = {}
  <2>1. r \in Reads /\ read[r].kind = k
    BY DEF OfKind
  <2>2. \A i \in 1..Len(read[r].items) : read[r].items[i] \in Nat
                                         /\ Below(read[r].items[i], arrived[k], queue[k])
    BY <1>1, <2>1 DEF PlaceInv, ReadInv, Older
  <2>3. \A n \in Items(r) : n \in Nat /\ Below(n, arrived[k], queue[k])
    <3>1. \A n \in Items(r) : \E i \in 1..Len(read[r].items) : n = read[r].items[i]
      BY <1>1, <2>1, ElementsOf DEF Items
    <3> QED BY <3>1, <2>2
  <2> QED BY <2>3, <1>3
<1> QED BY <1>2, <1>4, <1>5

LEMMA TakePlaces ==
    ASSUME PlaceInv, NEW r \in Reads, Take(r)
    PROVE  PlaceInv'
<1> DEFINE k     == read[r].kind
           n     == Smaller(read[r].count, Len(queue[k]))
           front == SubSeq(queue[k], 1, n)
           rest  == SubSeq(queue[k], n + 1, Len(queue[k]))
<1>0. ReadInv'
  BY TakeKeeps DEF PlaceInv
<1>1. k \in Queues /\ n > 0 /\ UNCHANGED <<arrived, dropped>> /\ read[r].st = "waiting"
      /\ read' = [read EXCEPT ![r].st = "holding", ![r].items = front]
      /\ queue' = [queue EXCEPT ![k] = rest]
  BY DEF Take
<1>2. queue[k] \in Seq(Nat) /\ read \in [Reads -> ReadState] /\ queue \in [Queues -> Seq(Nat)]
  BY <1>1 DEF PlaceInv, ReadInv, ReadTypeOK
<1>3. n \in 1..Len(queue[k])
  <2>1. read[r].count \in Int BY <1>2 DEF ReadState
  <2> QED BY <2>1, <1>1, <1>2 DEF Smaller
<1>4. ToSet(queue[k]) = ToSet(front) \cup ToSet(rest) /\ rest \in Seq(Nat)
  <2>1. /\ front \in Seq(Nat) /\ rest \in Seq(Nat)
        /\ Len(front) = n /\ Len(rest) = Len(queue[k]) - n
        /\ \A i \in 1..n : front[i] = queue[k][i]
        /\ \A j \in 1..Len(rest) : rest[j] = queue[k][n + j]
    BY <1>1, <1>2, <1>3, Split DEF PlaceInv, ReadInv, QueueSorted
  <2> HIDE DEF front, rest, n
  <2>2. Len(queue[k]) \in Nat /\ n \in Nat
    BY <1>2, <1>3
  <2>3. ASSUME NEW i \in 1..Len(queue[k])
        PROVE  queue[k][i] \in ToSet(front) \cup ToSet(rest)
    <3>1. CASE i <= n
      <4>1. i \in 1..Len(front) /\ front[i] = queue[k][i]
        BY <3>1, <2>1, <2>2
      <4> QED BY <4>1, <2>1 DEF ToSet
    <3>2. CASE ~(i <= n)
      <4>1. i - n \in 1..Len(rest) /\ n + (i - n) = i
        BY <3>2, <2>1, <2>2
      <4>2. rest[i - n] = queue[k][i]
        BY <4>1, <2>1
      <4>3. rest[i - n] \in ToSet(rest)
        BY <4>1, <2>1, ElementsOf
      <4> QED BY <4>2, <4>3
    <3> QED BY <3>1, <3>2
  <2>4. ASSUME NEW i \in 1..n PROVE front[i] \in ToSet(queue[k])
    <3>1. i \in 1..Len(queue[k]) BY <1>3, <2>2
    <3> QED BY <3>1, <2>1, <1>2, ElementsOf
  <2>5. ASSUME NEW j \in 1..Len(rest) PROVE rest[j] \in ToSet(queue[k])
    <3>1. n + j \in 1..Len(queue[k]) BY <2>1, <2>2
    <3> QED BY <3>1, <2>1, <1>2, ElementsOf
  <2>6. /\ \A x \in ToSet(front) : \E i \in 1..n : x = front[i]
        /\ \A x \in ToSet(rest) : \E j \in 1..Len(rest) : x = rest[j]
        /\ \A x \in ToSet(queue[k]) : \E i \in 1..Len(queue[k]) : x = queue[k][i]
    BY <2>1, <1>2 DEF ToSet
  <2>7. ToSet(front) \cup ToSet(rest) \subseteq ToSet(queue[k])
    BY <2>4, <2>5, <2>6
  <2>8. ToSet(queue[k]) \subseteq ToSet(front) \cup ToSet(rest)
    BY <2>3, <2>6
  <2> QED BY <2>1, <2>7, <2>8
<1> HIDE DEF n, front, rest
<1>5. \A q \in Queues : Queued(q)' = IF q = k THEN ToSet(rest) ELSE Queued(q)
  BY <1>1, <1>2 DEF Queued
<1>6. \A q \in Reads : /\ Items(q)' = IF q = r THEN ToSet(front) ELSE Items(q)
                       /\ read'[q].kind = read[q].kind /\ read'[q].live = read[q].live
                       /\ read'[q].st = IF q = r THEN "holding" ELSE read[q].st
  BY <1>1, <1>2 DEF Items, ReadState
<1>7. Items(r) = {}
  BY <1>1 DEF PlaceInv, ReadInv, IdleIsEmpty, Items, ToSet
<1>8. /\ ToSet(front) \cap dropped[k] = {}
      /\ \A q \in OfKind(k) : Items(q) \cap ToSet(front) = {}
  BY <1>1, <1>4, WaitingIsApart DEF Queued
<1>9. \A q \in Queues : OfKind(q)' = OfKind(q)
  BY <1>6 DEF OfKind
<1>10. r \in OfKind(k) /\ \A q \in Queues \ {k} : r \notin OfKind(q)
  BY DEF OfKind
<1>11. DroppedOlder'
  <2> SUFFICES ASSUME NEW q \in Queues, NEW m \in dropped[q]
               PROVE  m \in Nat /\ Below(m, arrived[q], queue'[q])
    BY <1>1 DEF DroppedOlder
  <2>1. m \in Nat /\ Below(m, arrived[q], queue[q])
    BY DEF PlaceInv, DroppedOlder
  <2>2. ASSUME q = k PROVE Below(m, arrived[q], queue'[q])
    <3>1. queue'[q] = rest /\ rest \in Seq(Nat)
      BY <1>1, <1>2, <1>4, <2>2
    <3>2. \A x \in ToSet(queue[k]) : m < x
      BY <2>1, <2>2, <1>2 DEF Below, ToSet
    <3>3. \A j \in 1..Len(rest) : rest[j] \in ToSet(queue[k])
      BY <1>4, ElementsOf
    <3> QED BY <3>1, <3>2, <3>3, <2>1 DEF Below
  <2> QED BY <2>1, <2>2, <1>1, <1>2
<1>12. AllPlaced'
  <2> SUFFICES ASSUME NEW q \in Queues
               PROVE  1..arrived[q] = Queued(q)' \cup dropped[q] \cup UNION {Items(s)' : s \in OfKind(q)}
    BY <1>1, <1>9 DEF AllPlaced
  <2>1. 1..arrived[q] = Queued(q) \cup dropped[q] \cup UNION {Items(s) : s \in OfKind(q)}
    BY DEF PlaceInv, AllPlaced
  <2>2. OfKind(q) \subseteq Reads
    BY DEF OfKind
  <2>3. CASE q = k
    <3>1. UNION {Items(s)' : s \in OfKind(k)} = ToSet(front) \cup UNION {Items(s) : s \in OfKind(k)}
      BY <1>6, <1>7, <1>10, <2>2, <2>3
    <3> QED BY <2>1, <2>3, <3>1, <1>4, <1>5 DEF Queued
  <2>4. CASE q # k
    <3>1. UNION {Items(s)' : s \in OfKind(q)} = UNION {Items(s) : s \in OfKind(q)}
      BY <1>6, <1>10, <2>2, <2>4
    <3> QED BY <2>1, <2>4, <3>1, <1>5
  <2> QED BY <2>3, <2>4
<1>13. Apart'
  <2> SUFFICES ASSUME NEW q \in Queues, NEW s \in OfKind(q)
               PROVE  /\ Items(s)' \cap dropped[q] = {}
                      /\ \A t \in OfKind(q) \ {s} : Items(s)' \cap Items(t)' = {}
    BY <1>1, <1>9 DEF Apart
  <2>1. /\ Items(s) \cap dropped[q] = {}
        /\ \A t \in OfKind(q) \ {s} : Items(s) \cap Items(t) = {}
    BY DEF PlaceInv, Apart
  <2>2. OfKind(q) \subseteq Reads /\ (q = k \/ r \notin OfKind(q))
    BY <1>10 DEF OfKind
  <2> QED BY <2>1, <2>2, <1>6, <1>8
<1>14. KeptForDart'
  BY <1>6 DEF PlaceInv, KeptForDart
<1>15. dropped' \in [Queues -> SUBSET Nat]
  BY <1>1 DEF PlaceInv
<1> QED BY <1>0, <1>11, <1>12, <1>13, <1>14, <1>15 DEF PlaceInv

LEMMA ArrivePlaces ==
    ASSUME PlaceInv, NEW k \in Queues, Arrive(k)
    PROVE  PlaceInv'
<1> DEFINE old  == queue[k]
           full == k = "datagram" /\ Len(old) = Buffer
           kept == IF full THEN Tail(old) ELSE old
           gone == IF full THEN {Head(old)} ELSE {}
           new  == arrived[k] + 1
<1>0. ReadInv'
  BY ArriveKeeps DEF PlaceInv
<1>1. /\ arrived' = [arrived EXCEPT ![k] = new]
      /\ queue' = [queue EXCEPT ![k] = Append(kept, new)]
      /\ dropped' = [dropped EXCEPT ![k] = @ \cup gone]
      /\ read' = read
  <2>1. arrived'[k] = new BY DEF Arrive, PlaceInv, ReadInv, ReadTypeOK
  <2>2. full => dropped' = [dropped EXCEPT ![k] = @ \cup {Head(queue[k])}]
    BY DEF Arrive
  <2>3. ~full => dropped' = dropped
    BY DEF Arrive
  <2>4. ~full => dropped' = [dropped EXCEPT ![k] = @ \cup {}]
    BY <2>3 DEF PlaceInv
  <2> QED BY <2>1, <2>2, <2>4 DEF Arrive
<1>2. /\ arrived[k] \in Nat /\ old \in Seq(Nat) /\ new \in Nat /\ new > arrived[k]
      /\ arrived \in [Queues -> Nat] /\ queue \in [Queues -> Seq(Nat)]
      /\ dropped \in [Queues -> SUBSET Nat]
      /\ Sorted(old) /\ \A j \in 1..Len(old) : old[j] <= arrived[k]
  BY DEF PlaceInv, ReadInv, ReadTypeOK, QueueSorted
<1>3. /\ kept \in Seq(Nat) /\ ToSet(old) = ToSet(kept) \cup gone
      /\ \A m \in gone : m \in Nat /\ m <= arrived[k] /\ \A x \in ToSet(kept) : m < x
  <2>1. CASE full
    <3>1. Len(old) \in Nat /\ Len(old) > 0 BY <2>1, <1>2, BoundsAssumption
    <3>2. kept = Tail(old) /\ gone = {old[1]} BY <2>1, <3>1
    <3>3. Tail(old) \in Seq(Nat) /\ Len(Tail(old)) + 1 = Len(old)
          /\ \A i \in 1..Len(Tail(old)) : Tail(old)[i] = old[i + 1]
      BY <1>2, <3>1
    <3> HIDE DEF old, kept, gone
    <3>4. \A i \in 1..Len(kept) : i + 1 \in 1..Len(old) /\ 1 < i + 1
      BY <3>1, <3>2, <3>3
    <3>5. \A i \in 1..Len(old) : i = 1 \/ i - 1 \in 1..Len(kept)
      BY <3>1, <3>2, <3>3
    <3>6. 1 \in 1..Len(old) BY <3>1
    <3>7. \A i \in 1..Len(kept) : kept[i] = old[i + 1] /\ old[1] < kept[i]
      BY <3>2, <3>3, <3>4, <3>6, <1>2 DEF Sorted
    <3>8. \A i \in 1..Len(old) : i = 1 \/ old[i] = kept[i - 1]
      BY <3>5, <3>7
    <3>12. kept \in Seq(Nat) BY <3>2, <3>3
    <3>13. \A i \in 1..Len(kept) : kept[i] \in ToSet(kept)
      BY <3>12, ElementsOf
    <3>14. \A x \in ToSet(kept) : \E i \in 1..Len(kept) : x = kept[i]
      BY <3>12, ElementsOf
    <3>9. \A x \in ToSet(old) : x \in ToSet(kept) \cup gone
      <4> SUFFICES ASSUME NEW x \in ToSet(old) PROVE x \in ToSet(kept) \cup gone
        OBVIOUS
      <4>1. \E i \in 1..Len(old) : x = old[i]
        BY <1>2, ElementsOf
      <4>2. PICK i \in 1..Len(old) : x = old[i]
        BY <4>1
      <4>3. CASE i = 1 BY <4>2, <4>3, <3>2
      <4>4. CASE i # 1
        <5>1. i - 1 \in 1..Len(kept) /\ x = kept[i - 1]
          BY <4>2, <4>4, <3>5, <3>8
        <5> QED BY <5>1, <3>13
      <4> QED BY <4>3, <4>4
    <3>10. \A x \in ToSet(kept) : x \in ToSet(old) /\ old[1] < x
      <4> SUFFICES ASSUME NEW x \in ToSet(kept) PROVE x \in ToSet(old) /\ old[1] < x
        OBVIOUS
      <4>1. PICK i \in 1..Len(kept) : x = kept[i]
        BY <3>14
      <4>2. old[i + 1] \in ToSet(old)
        BY <4>1, <3>4, <1>2, ElementsOf
      <4> QED BY <4>1, <4>2, <3>7
    <3>11. old[1] \in ToSet(old) /\ old[1] \in Nat /\ old[1] <= arrived[k]
      BY <3>6, <1>2, ElementsOf
    <3> QED BY <3>2, <3>3, <3>9, <3>10, <3>11
  <2>2. CASE ~full
    BY <2>2, <1>2
  <2> QED BY <2>1, <2>2
<1>4. \A x \in ToSet(old) : x <= arrived[k]
  BY <1>2, ElementsOf
<1>5. Queued(k) = ToSet(old)
  BY DEF Queued
<1> HIDE DEF old, full, kept, gone, new
<1>6. Append(kept, new) \in Seq(Nat) /\ ToSet(Append(kept, new)) = ToSet(kept) \cup {new}
  <2>1. Append(kept, new) \in Seq(Nat) /\ Len(Append(kept, new)) = Len(kept) + 1 /\ Len(kept) \in Nat
        /\ \A j \in 1..Len(kept) + 1 : Append(kept, new)[j] = IF j = Len(kept) + 1 THEN new ELSE kept[j]
    BY <1>2, <1>3
  <2>2. \A j \in 1..Len(kept) + 1 : j = Len(kept) + 1 \/ j \in 1..Len(kept)
    BY <2>1
  <2>8. \A j \in 1..Len(kept) : kept[j] \in ToSet(kept)
    BY <1>3, ElementsOf
  <2>9. \A x \in ToSet(kept) : \E j \in 1..Len(kept) : x = kept[j]
    BY <1>3, ElementsOf
  <2>10. \A j \in 1..Len(Append(kept, new)) : Append(kept, new)[j] \in ToSet(Append(kept, new))
    BY <2>1, ElementsOf
  <2>11. \A x \in ToSet(Append(kept, new)) :
            \E j \in 1..Len(Append(kept, new)) : x = Append(kept, new)[j]
    <3> DEFINE longer == Append(kept, new)
    <3>1. longer \in Seq(Nat) BY <2>1
    <3> HIDE DEF longer
    <3>2. \A x \in ToSet(longer) : \E j \in 1..Len(longer) : x = longer[j]
      BY <3>1, ElementsOf
    <3> QED BY <3>2 DEF longer
  <2>3. \A x \in ToSet(Append(kept, new)) : x \in ToSet(kept) \cup {new}
    BY <2>1, <2>2, <2>8, <2>11
  <2>4. \A j \in 1..Len(kept) : j \in 1..Len(kept) + 1 /\ Append(kept, new)[j] = kept[j]
    BY <2>1
  <2>5. \A x \in ToSet(kept) : x \in ToSet(Append(kept, new))
    BY <2>1, <2>4, <2>9, <2>10
  <2>6. Len(kept) + 1 \in 1..Len(kept) + 1 BY <2>1
  <2>7. new \in ToSet(Append(kept, new))
    BY <2>1, <2>6, <2>10
  <2> QED BY <2>1, <2>3, <2>5, <2>7
<1>7. \A q \in Queues : /\ Queued(q)' = IF q = k THEN ToSet(kept) \cup {new} ELSE Queued(q)
                        /\ queue'[q] = IF q = k THEN Append(kept, new) ELSE queue[q]
                        /\ arrived'[q] = IF q = k THEN new ELSE arrived[q]
                        /\ dropped'[q] = IF q = k THEN dropped[k] \cup gone ELSE dropped[q]
  BY <1>1, <1>2, <1>6 DEF Queued
<1>8. \A q \in Queues : OfKind(q)' = OfKind(q)
  BY <1>1 DEF OfKind
<1>9. \A r \in Reads : Items(r)' = Items(r)
  BY <1>1 DEF Items
<1>10. dropped' \in [Queues -> SUBSET Nat]
  BY <1>1, <1>2, <1>3
<1>11. DroppedOlder'
  <2> SUFFICES ASSUME NEW q \in Queues, NEW m \in dropped'[q]
               PROVE  m \in Nat /\ Below(m, arrived'[q], queue'[q])
    BY DEF DroppedOlder
  <2>1. CASE q # k
    BY <2>1, <1>7 DEF PlaceInv, DroppedOlder
  <2>2. CASE q = k
    <3>1. m \in Nat /\ m <= arrived[k] /\ \A x \in ToSet(kept) : m < x
      <4>1. CASE m \in gone BY <4>1, <1>3
      <4>2. CASE m \in dropped[k]
        <5>1. m \in Nat /\ Below(m, arrived[k], old)
          BY <4>2 DEF PlaceInv, DroppedOlder, old
        <5>3. \A x \in ToSet(old) : \E i \in 1..Len(old) : x = old[i]
          BY <1>2, ElementsOf
        <5>2. \A x \in ToSet(old) : m < x
          BY <5>1, <5>3 DEF Below
        <5> QED BY <5>1, <5>2, <1>3 DEF Below
      <4> QED BY <4>1, <4>2, <2>2, <1>7
    <3>2. m < new /\ m <= new BY <3>1, <1>2
    <3>3. \A x \in ToSet(Append(kept, new)) : m < x
      BY <3>1, <3>2, <1>6
    <3>4. \A j \in 1..Len(Append(kept, new)) : Append(kept, new)[j] \in ToSet(Append(kept, new))
      BY <1>6, ElementsOf
    <3> QED BY <3>1, <3>2, <3>3, <3>4, <2>2, <1>7 DEF Below
  <2> QED BY <2>1, <2>2
<1>12. AllPlaced'
  <2> SUFFICES ASSUME NEW q \in Queues
               PROVE  1..arrived'[q] = Queued(q)' \cup dropped'[q] \cup UNION {Items(r)' : r \in OfKind(q)}
    BY <1>8 DEF AllPlaced
  <2>1. 1..arrived[q] = Queued(q) \cup dropped[q] \cup UNION {Items(r) : r \in OfKind(q)}
    BY DEF PlaceInv, AllPlaced
  <2>2. UNION {Items(r)' : r \in OfKind(q)} = UNION {Items(r) : r \in OfKind(q)}
    BY <1>9 DEF OfKind
  <2>3. 1..new = 1..arrived[k] \cup {new}
    BY <1>2 DEF new
  <2> QED BY <2>1, <2>2, <2>3, <1>3, <1>5, <1>7
<1>13. Apart'
  <2> SUFFICES ASSUME NEW q \in Queues, NEW r \in OfKind(q)
               PROVE  Items(r) \cap dropped'[q] = {}
    BY <1>8, <1>9 DEF PlaceInv, Apart, OfKind
  <2>1. Items(r) \cap dropped[q] = {}
    BY DEF PlaceInv, Apart
  <2>2. Items(r) \cap Queued(q) = {}
    BY WaitingIsApart
  <2> QED BY <2>1, <2>2, <1>3, <1>5, <1>7
<1>14. KeptForDart'
  BY <1>1, <1>9 DEF PlaceInv, KeptForDart
<1> QED BY <1>0, <1>10, <1>11, <1>12, <1>13, <1>14 DEF PlaceInv

LEMMA CallPlaces ==
    ASSUME PlaceInv, NEW r \in Reads, NEW k \in Kinds, NEW n \in 0..TooMany, Call(r, k, n)
    PROVE  PlaceInv'
<1>1. ReadInv'
  BY CallKeeps DEF PlaceInv
<1>2. read \in [Reads -> ReadState] /\ read[r].st = "idle" /\ Items(r) = {}
  BY DEF PlaceInv, ReadInv, ReadTypeOK, IdleIsEmpty, Call, Items, ToSet
<1>3. UNCHANGED <<arrived, queue, dropped>> /\ read'[r].items = <<>>
      /\ \A q \in Reads \ {r} : read'[q] = read[q]
  BY <1>2 DEF Call
<1>4. Items(r)' = {}
  BY <1>3 DEF Items, ToSet
<1>5. \A q \in Reads : /\ Items(q)' = Items(q)
                       /\ read'[q].kind = read[q].kind \/ Items(q) = {}
                       /\ read'[q].live /\ Items(q) # {} =>
                             read[q].live /\ (read'[q].st = read[q].st \/ read'[q].st = "returned")
  BY <1>2, <1>3, <1>4 DEF Items
<1> QED BY <1>1, <1>3, <1>5, SamePlaces

LEMMA AnswerPlaces ==
    ASSUME PlaceInv, NEW r \in Reads, AllocationError(r) \/ Fail(r) \/ Closed(r) \/ Deliver(r) \/ Abandon(r)
    PROVE  PlaceInv'
<1>1. ReadInv'
  BY AnswerKeeps DEF PlaceInv
<1>2. UNCHANGED <<arrived, queue, dropped>>
  BY DEF AllocationError, Fail, Closed, Deliver, Abandon
<1>3. read \in [Reads -> ReadState] /\ (read[r].st = "waiting" => Items(r) = {})
  BY DEF PlaceInv, ReadInv, ReadTypeOK, IdleIsEmpty, Items, ToSet
<1>7. \/ \E st \in {"holding", "returned", "wasted", "error"} : read' = [read EXCEPT ![r].st = st]
      \/ read' = [read EXCEPT ![r].live = FALSE]
  BY DEF AllocationError, Fail, Closed, Deliver, Abandon
<1>8. read[r] \in ReadState BY <1>3
<1>4. \A q \in Reads : read'[q].items = read[q].items /\ read'[q].kind = read[q].kind
  <2>1. CASE read' = [read EXCEPT ![r].live = FALSE]
    BY <2>1, <1>3, <1>8 DEF ReadState
  <2>2. ASSUME NEW st, read' = [read EXCEPT ![r].st = st]
        PROVE  \A q \in Reads : read'[q].items = read[q].items /\ read'[q].kind = read[q].kind
    BY <2>2, <1>3, <1>8 DEF ReadState
  <2> QED BY <1>7, <2>1, <2>2
<1>5. \A q \in Reads : Items(q)' = Items(q)
  BY <1>4 DEF Items
<1>6. ASSUME NEW q \in Reads, read'[q].live, Items(q) # {}
      PROVE  read[q].live /\ (read'[q].st = read[q].st \/ read'[q].st = "returned")
  <2>1. CASE q # r
    BY <2>1, <1>3, <1>6 DEF AllocationError, Fail, Closed, Deliver, Abandon, ReadState
  <2>2. CASE q = r
    <3>1. read[r].st # "waiting" BY <2>2, <1>3, <1>6
    <3>2. Deliver(r) \/ Abandon(r) BY <3>1 DEF AllocationError, Fail, Closed
    <3> QED BY <2>2, <3>2, <1>3, <1>6 DEF Deliver, Abandon, ReadState
  <2> QED BY <2>1, <2>2
<1> QED BY <1>1, <1>2, <1>4, <1>5, <1>6, SamePlaces

LEMMA PlaceStep == PlaceInv /\ [Next]_vars => PlaceInv'
<1> SUFFICES ASSUME PlaceInv, [Next]_vars PROVE PlaceInv'
  OBVIOUS
<1>0. ReadInv'
  BY ReadStep DEF PlaceInv
<1>1. ASSUME UNCHANGED <<arrived, queue, dropped, read>> PROVE PlaceInv'
  <2>1. \A r \in Reads : Items(r)' = Items(r) /\ read'[r] = read[r]
    BY <1>1 DEF Items
  <2> QED BY <1>0, <1>1, <2>1, SamePlaces
<1>2. ASSUME UNCHANGED connVars PROVE PlaceInv'
  BY <1>1, <1>2 DEF connVars
<1>3. ASSUME NEW d \in Dials, Established(d) PROVE PlaceInv'
  BY <1>1, <1>3 DEF Established
<1>4. ASSUME CloseEndpoint PROVE PlaceInv'
  BY <1>1, <1>4 DEF CloseEndpoint
<1>5. ASSUME OnConnection PROVE PlaceInv'
  <2>1. ASSUME NEW r \in Reads, Working(r) \/ Abandon(r) PROVE PlaceInv'
    BY <2>1, TakePlaces, AnswerPlaces DEF Working
  <2>2. ASSUME NEW r \in Reads, NEW k \in Kinds, NEW n \in 0..TooMany, Call(r, k, n) PROVE PlaceInv'
    BY <2>2, CallPlaces
  <2>3. ASSUME NEW k \in Queues, Arrive(k) PROVE PlaceInv'
    BY <2>3, ArrivePlaces
  <2>4. ASSUME Close PROVE PlaceInv'
    BY <2>4, <1>1 DEF Close
  <2> QED BY <1>5, <2>1, <2>2, <2>3, <2>4 DEF OnConnection
<1>6. ASSUME UNCHANGED vars PROVE PlaceInv'
  BY <1>2, <1>6 DEF vars
<1>7. ASSUME NEW r \in Reads, AllocationFails(r) PROVE PlaceInv'
  BY <1>2, <1>7, AnswerPlaces DEF AllocationFails
<1> QED BY <1>2, <1>3, <1>4, <1>5, <1>6, <1>7 DEF Next, Up

LEMMA SortedIsInjective == ASSUME NEW s \in Seq(Nat), Sorted(s) PROVE IsInjective(s)
<1> SUFFICES ASSUME NEW i \in 1..Len(s), NEW j \in 1..Len(s), s[i] = s[j], i # j PROVE FALSE
  BY DEF IsInjective
<1>1. i < j \/ j < i
  OBVIOUS
<1>2. s[i] < s[j] \/ s[j] < s[i]
  BY <1>1 DEF Sorted
<1>3. s[i] \in Nat /\ s[j] \in Nat
  OBVIOUS
<1> QED BY <1>2, <1>3

(* No datagram and no stream is lost or handed out twice, whatever mixture   *)
(* of single, batch and abandoned reads competes for them: it waits in iroh, *)
(* was pushed out of the full buffer, or went to one call, and then Dart has *)
(* it or will, unless it gave up on that call (connection.rs 207-290).      *)
THEOREM NothingIsLost == Spec => []LostOnlyToTimeouts
<1>1. PlaceInv => LostOnlyToTimeouts
  <2> SUFFICES ASSUME PlaceInv, NEW k \in Queues
               PROVE  /\ 1..arrived[k] = Queued(k) \cup dropped[k] \cup UNION {Items(r) : r \in OfKind(k)}
                      /\ IsInjective(queue[k]) /\ Queued(k) \cap dropped[k] = {}
                      /\ \A r \in OfKind(k) :
                            /\ IsInjective(read[r].items)
                            /\ Items(r) \cap (Queued(k) \cup dropped[k]) = {}
                            /\ \A s \in OfKind(k) \ {r} : Items(r) \cap Items(s) = {}
                            /\ read[r].live /\ Items(r) # {} => read[r].st \in {"holding", "returned"}
    BY DEF LostOnlyToTimeouts, OfKind
  <2>1. IsInjective(queue[k])
    BY SortedIsInjective DEF PlaceInv, ReadInv, ReadTypeOK, QueueSorted
  <2>2. \A r \in Reads : IsInjective(read[r].items)
    <3>1. \A r \in Reads : read[r].items \in Seq(Nat) /\ Sorted(read[r].items)
      BY DEF PlaceInv, ReadInv, ReadTypeOK, ReadState, Ascending
    <3> QED BY <3>1, SortedIsInjective
  <2>3. OfKind(k) \subseteq Reads BY DEF OfKind
  <2>4. /\ 1..arrived[k] = Queued(k) \cup dropped[k] \cup UNION {Items(r) : r \in OfKind(k)}
        /\ \A r \in OfKind(k) : /\ Items(r) \cap dropped[k] = {}
                                /\ \A s \in OfKind(k) \ {r} : Items(r) \cap Items(s) = {}
    BY DEF PlaceInv, AllPlaced, Apart
  <2>5. \A r \in Reads : read[r].live /\ Items(r) # {} => read[r].st \in {"holding", "returned"}
    BY DEF PlaceInv, KeptForDart
  <2> QED BY <2>1, <2>2, <2>3, <2>4, <2>5, WaitingIsApart
<1> QED BY PlaceStart, PlaceStep, <1>1, PTL DEF Spec
=============================================================================
