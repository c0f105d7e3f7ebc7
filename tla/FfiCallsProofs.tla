--------------------------- MODULE FfiCallsProofs ---------------------------
(***************************************************************************)
(* Proofs about the calls and counts of the bridge, for any number of calls *)
(* in flight, any wire functions, objects and restarts.                     *)
(***************************************************************************)
EXTENDS FfiCalls, FiniteSetTheorems, TLAPS

(* Numbers above the generator's belong to no object, and a call in flight  *)
(* is on an object that was made.                                          *)
FreshOK ==
    /\ \A o \in Objects : o >= next => typeOf[o] = "none" /\ ~Owned(o)
    /\ \A o \in Objects : typeOf[o] = "none" => o >= next
    /\ \A c \in Calls : Busy(c) => calls[c].on < next

IInv == TypeOK /\ OneHolder /\ FreshOK /\ CountIsOwners

-----------------------------------------------------------------------------
(* The calls on an object are finitely many.                               *)
LEMMA UsersFinite ==
    ASSUME NEW o
    PROVE  IsFiniteSet(Users(o)) /\ Cardinality(Users(o)) \in Nat
<1>1. Users(o) \subseteq Calls BY DEF Users
<1> QED BY <1>1, CallsAssumption, FS_Subset, FS_CardinalityType

(* An object with a call in flight or with a holder has a count.            *)
LEMMA OwnedIsCounted ==
    ASSUME TypeOK, CountIsOwners, NEW o \in Objects, Users(o) # {} \/ Owned(o)
    PROVE  strong[o] >= 1
<1>1. IsFiniteSet(Users(o)) /\ Cardinality(Users(o)) \in Nat BY UsersFinite
<1>2. Users(o) # {} => Cardinality(Users(o)) # 0 BY <1>1, FS_EmptySet
<1>3. strong[o] = Cardinality(Users(o)) + (IF Owned(o) THEN 1 ELSE 0) BY DEF CountIsOwners
<1> QED BY <1>1, <1>2, <1>3

(* One call more, or one call less, on an object.                          *)
LEMMA OneMore ==
    ASSUME NEW o, NEW c, c \notin Users(o)
    PROVE  Cardinality(Users(o) \cup {c}) = Cardinality(Users(o)) + 1
BY UsersFinite, FS_AddElement

LEMMA OneLess ==
    ASSUME NEW o, NEW c \in Users(o)
    PROVE  Cardinality(Users(o) \ {c}) = Cardinality(Users(o)) - 1
BY UsersFinite, FS_RemoveElement

(* What a call brings is at most two objects with known types.             *)
LEMMA BringsFew ==
    ASSUME NEW k \in Kinds, NEW b \in k.brings
    PROVE  /\ Len(b) \in 0..2
           /\ \A i \in 1..Len(b) : b[i] \in OpaqueTypes
<1>1. PICK row \in Rows : k = Kind(row) BY DEF Kinds
<1>2. b \in Outcomes(row) BY <1>1 DEF Kind
<1>3. b \in {<<>>} \cup {<<t>> : t \in OpaqueTypes}
                   \cup {<<t, u>> : t \in OpaqueTypes, u \in OpaqueTypes}
      BY <1>2, RowsAssumption
<1> QED BY <1>3

LEMMA NoneIsNoType == "none" \notin OpaqueTypes
BY DEF OpaqueTypes

-----------------------------------------------------------------------------
LEMMA InitIInv == Init => IInv
<1> SUFFICES ASSUME Init PROVE IInv OBVIOUS
<1>1. TypeOK
      BY BoundsAssumption DEF Init, TypeOK, Idle, Objects, NoId, Phases, Busy
<1>2. OneHolder /\ FreshOK BY DEF Init, OneHolder, FreshOK, Owned, Busy, Idle, Objects
<1>3. \A o : Users(o) = {} BY DEF Init, Users, Busy, Idle
<1>4. Cardinality({}) = 0 BY FS_EmptySet
<1>5. CountIsOwners BY <1>3, <1>4 DEF Init, CountIsOwners, Owned
<1> QED BY <1>1, <1>2, <1>5 DEF IInv

(* What sending a message does to the calls in flight.                     *)
LEMMA SendKeeps ==
    ASSUME TypeOK, NEW c \in Calls, NEW row \in Rows, NEW o \in Objects \cup {NoId},
           Send(c, row, o)
    PROVE  /\ calls' \in [Calls -> [phase : Phases, kind : Kinds \cup {NoKind},
                                    on : Objects \cup {NoId}, live : BOOLEAN]]
           /\ \A d \in Calls : Busy(d)' => calls'[d].kind \in Kinds
           /\ thread' \in Calls \cup {NoCall}
           /\ \A d \in Calls : Busy(d)' => (d = c /\ calls'[d].on = o) \/ (Busy(d) /\ calls'[d] = calls[d])
           /\ c \notin Users(o)
           /\ Users(o)' = Users(o) \cup {c}
           /\ \A p : p # o => Users(p)' = Users(p)
<1> DEFINE rec == [phase |-> "begun", kind |-> Kind(row), on |-> o, live |-> TRUE]
<1>1. Kind(row) \in Kinds BY DEF Kinds
<1>2. rec \in [phase : Phases, kind : Kinds \cup {NoKind}, on : Objects \cup {NoId}, live : BOOLEAN]
      BY <1>1 DEF Phases
<1>3. calls' = [calls EXCEPT ![c] = rec] BY DEF Send
<1>4. calls'[c] = rec /\ \A d \in Calls : d # c => calls'[d] = calls[d] BY <1>3 DEF TypeOK
<1>5. ~Busy(c) BY DEF Send
<1>6. rec.phase # "idle" /\ rec.on = o /\ rec.kind = Kind(row) OBVIOUS
<1> HIDE DEF rec
<1>7. calls' \in [Calls -> [phase : Phases, kind : Kinds \cup {NoKind},
                            on : Objects \cup {NoId}, live : BOOLEAN]]
      BY <1>2, <1>3 DEF TypeOK
<1>8. thread' \in Calls \cup {NoCall} BY DEF Send
<1>9. \A d \in Calls : Busy(d)' => calls'[d].kind \in Kinds
      BY <1>1, <1>4, <1>6 DEF TypeOK, Busy
<1>10. c \notin Users(o) BY <1>5 DEF Users
<1>11. Users(o)' = Users(o) \cup {c} BY <1>4, <1>5, <1>6 DEF Users, Busy
<1>12. \A p : p # o => Users(p)' = Users(p) BY <1>4, <1>5, <1>6 DEF Users, Busy
<1>13. \A d \in Calls : Busy(d)' => (d = c /\ calls'[d].on = o) \/ (Busy(d) /\ calls'[d] = calls[d])
       BY <1>4, <1>6 DEF Busy
<1> QED BY <1>7, <1>8, <1>9, <1>10, <1>11, <1>12, <1>13

LEMMA CallOnKeeps ==
    ASSUME IInv, NEW c \in Calls, NEW row \in Rows, NEW o \in Objects, CallOn(c, row, o)
    PROVE  IInv'
<1>1. Send(c, row, o) BY DEF CallOn
<1>2. /\ calls' \in [Calls -> [phase : Phases, kind : Kinds \cup {NoKind},
                               on : Objects \cup {NoId}, live : BOOLEAN]]
      /\ \A d \in Calls : Busy(d)' => calls'[d].kind \in Kinds
      /\ thread' \in Calls \cup {NoCall}
      /\ \A d \in Calls : Busy(d)' => (d = c /\ calls'[d].on = o) \/ (Busy(d) /\ calls'[d] = calls[d])
      /\ c \notin Users(o)
      /\ Users(o)' = Users(o) \cup {c}
      /\ \A p : p # o => Users(p)' = Users(p)
      BY <1>1, SendKeeps DEF IInv
<1>3. /\ o \in held
      /\ strong' = [strong EXCEPT ![o] = @ + 1]
      /\ UNCHANGED <<typeOf, next, held, mail, lost, restarts>>
      BY DEF CallOn, Increment
<1>4. TypeOK' BY <1>2, <1>3 DEF IInv, TypeOK
<1>5. OneHolder' BY <1>3 DEF IInv, OneHolder
<1>6. o < next BY <1>3 DEF IInv, FreshOK, Owned, TypeOK, Objects
<1>7. FreshOK' BY <1>2, <1>3, <1>6 DEF IInv, FreshOK, Owned
<1>8. ASSUME NEW p \in Objects
      PROVE  strong'[p] = Cardinality(Users(p)') + (IF Owned(p) THEN 1 ELSE 0)
  <2>0. /\ strong[p] = Cardinality(Users(p)) + (IF Owned(p) THEN 1 ELSE 0)
        /\ Cardinality(Users(p)) \in Nat
        BY UsersFinite DEF IInv, CountIsOwners
  <2>1. CASE p = o
    <3>1. Cardinality(Users(o) \cup {c}) = Cardinality(Users(o)) + 1 BY <1>2, OneMore
    <3>2. strong'[o] = strong[o] + 1 BY <1>3 DEF IInv, TypeOK
    <3> QED BY <2>0, <2>1, <3>1, <3>2, <1>2
  <2>2. CASE p # o
    <3>1. strong'[p] = strong[p] BY <1>3, <2>2 DEF IInv, TypeOK
    <3> QED BY <2>0, <2>2, <3>1, <1>2
  <2> QED BY <2>1, <2>2
<1>9. CountIsOwners' BY <1>8, <1>3 DEF CountIsOwners, Owned
<1> QED BY <1>4, <1>5, <1>7, <1>9 DEF IInv

LEMMA CallFreeKeeps ==
    ASSUME IInv, NEW c \in Calls, NEW row \in Rows, CallFree(c, row)
    PROVE  IInv'
<1>1. Send(c, row, NoId) /\ UNCHANGED <<typeOf, next, strong, held, mail, lost, restarts>>
      BY DEF CallFree
<1>2. /\ calls' \in [Calls -> [phase : Phases, kind : Kinds \cup {NoKind},
                               on : Objects \cup {NoId}, live : BOOLEAN]]
      /\ \A d \in Calls : Busy(d)' => calls'[d].kind \in Kinds
      /\ thread' \in Calls \cup {NoCall}
      /\ \A d \in Calls : Busy(d)' => (d = c /\ calls'[d].on = NoId)
                                     \/ (Busy(d) /\ calls'[d] = calls[d])
      /\ \A p : p # NoId => Users(p)' = Users(p)
      BY <1>1, SendKeeps DEF IInv
<1>3. TypeOK' BY <1>1, <1>2 DEF IInv, TypeOK
<1>4. NoId < next BY DEF IInv, TypeOK, NoId
<1>5. OneHolder' /\ FreshOK' BY <1>1, <1>2, <1>4 DEF IInv, OneHolder, FreshOK, Owned
<1>6. \A p \in Objects : Users(p)' = Users(p) BY <1>2 DEF Objects, NoId
<1>7. CountIsOwners' BY <1>1, <1>6 DEF IInv, CountIsOwners, Owned
<1> QED BY <1>3, <1>5, <1>7 DEF IInv

LEMMA GuardKeeps ==
    ASSUME IInv, NEW c \in Calls, Guard(c)
    PROVE  IInv'
<1>1. /\ calls[c].phase = "begun"
      /\ calls' = [calls EXCEPT ![c].phase = "guarded"]
      /\ UNCHANGED <<typeOf, next, strong, held, mail, lost, thread, restarts>>
      BY DEF Guard
<1>2. calls \in [Calls -> [phase : Phases, kind : Kinds \cup {NoKind},
                           on : Objects \cup {NoId}, live : BOOLEAN]]
      BY DEF IInv, TypeOK
<1>3. calls' \in [Calls -> [phase : Phases, kind : Kinds \cup {NoKind},
                            on : Objects \cup {NoId}, live : BOOLEAN]]
      BY <1>1, <1>2 DEF Phases
<1>4. \A d \in Calls : /\ Busy(d)' = Busy(d)
                       /\ calls'[d].on = calls[d].on /\ calls'[d].kind = calls[d].kind
      BY <1>1, <1>2 DEF Busy
<1>5. \A o : Users(o)' = Users(o) BY <1>4 DEF Users
<1>6. TypeOK' BY <1>1, <1>3, <1>4 DEF IInv, TypeOK
<1>7. OneHolder' /\ FreshOK' BY <1>1, <1>4 DEF IInv, OneHolder, FreshOK, Owned
<1>8. CountIsOwners' BY <1>1, <1>5 DEF IInv, CountIsOwners, Owned
<1> QED BY <1>6, <1>7, <1>8 DEF IInv

LEMMA ReceiveKeeps ==
    ASSUME IInv, NEW o \in Objects, Receive(o)
    PROVE  IInv'
<1>1. /\ o \in mail
      /\ mail' = mail \ {o} /\ held' = held \cup {o}
      /\ UNCHANGED <<typeOf, next, strong, lost, calls, thread, restarts>>
      BY DEF Receive
<1>2. \A p : Owned(p)' <=> Owned(p) BY <1>1 DEF Owned
<1>3. \A p : Users(p)' = Users(p) BY <1>1 DEF Users, Busy
<1>4. TypeOK' BY <1>1 DEF IInv, TypeOK, Busy
<1>5. OneHolder' BY <1>1 DEF IInv, OneHolder
<1>6. FreshOK' BY <1>1, <1>2 DEF IInv, FreshOK, Busy
<1>7. CountIsOwners' BY <1>1, <1>2, <1>3 DEF IInv, CountIsOwners
<1> QED BY <1>4, <1>5, <1>6, <1>7 DEF IInv

LEMMA CollectKeeps ==
    ASSUME IInv, NEW o \in Objects, Collect(o)
    PROVE  IInv'
<1>1. /\ o \in held
      /\ held' = held \ {o}
      /\ strong' = [strong EXCEPT ![o] = @ - 1]
      /\ UNCHANGED <<typeOf, next, mail, lost, calls, thread, restarts>>
      BY DEF Collect, Decrement
<1>2. ~Owned(o)' /\ Owned(o) /\ \A p : p # o => (Owned(p)' <=> Owned(p))
      BY <1>1 DEF Owned, IInv, OneHolder
<1>3. \A p : Users(p)' = Users(p) BY <1>1 DEF Users, Busy
<1>4. strong[o] >= 1 BY <1>2, OwnedIsCounted DEF IInv
<1>5. \A p \in Objects : strong'[p] = IF p = o THEN strong[p] - 1 ELSE strong[p]
      BY <1>1 DEF IInv, TypeOK
<1>6. TypeOK' BY <1>1, <1>4 DEF IInv, TypeOK, Busy
<1>7. OneHolder' BY <1>1 DEF IInv, OneHolder
<1>8. FreshOK' BY <1>1, <1>2 DEF IInv, FreshOK, Busy
<1>9. ASSUME NEW p \in Objects
      PROVE  strong'[p] = Cardinality(Users(p)') + (IF Owned(p)' THEN 1 ELSE 0)
  <2>1. /\ strong[p] = Cardinality(Users(p)) + (IF Owned(p) THEN 1 ELSE 0)
        /\ Cardinality(Users(p)) \in Nat
        BY UsersFinite DEF IInv, CountIsOwners
  <2> QED BY <2>1, <1>2, <1>3, <1>5
<1>10. CountIsOwners' BY <1>9 DEF CountIsOwners
<1> QED BY <1>6, <1>7, <1>8, <1>10 DEF IInv

LEMMA RestartKeeps ==
    ASSUME IInv, Restart
    PROVE  IInv'
<1>1. /\ restarts < MaxRestarts
      /\ strong' = [o \in Objects |-> IF o \in held THEN strong[o] - 1 ELSE strong[o]]
      /\ held' = {} /\ mail' = {} /\ lost' = lost \cup mail
      /\ calls' = [c \in Calls |-> [calls[c] EXCEPT !.live = FALSE]]
      /\ restarts' = restarts + 1
      /\ UNCHANGED <<typeOf, next, thread>>
      BY DEF Restart
<1>2. calls \in [Calls -> [phase : Phases, kind : Kinds \cup {NoKind},
                           on : Objects \cup {NoId}, live : BOOLEAN]]
      BY DEF IInv, TypeOK
<1>3. calls' \in [Calls -> [phase : Phases, kind : Kinds \cup {NoKind},
                            on : Objects \cup {NoId}, live : BOOLEAN]]
      BY <1>1, <1>2
<1>4. \A d \in Calls : /\ Busy(d)' = Busy(d)
                       /\ calls'[d].on = calls[d].on /\ calls'[d].kind = calls[d].kind
      BY <1>1, <1>2 DEF Busy
<1>5. \A o : Users(o)' = Users(o) BY <1>4 DEF Users
<1>6. \A o \in held : strong[o] >= 1 BY OwnedIsCounted DEF IInv, TypeOK, Owned
<1>7. strong' \in [Objects -> Nat] BY <1>1, <1>6 DEF IInv, TypeOK
<1>8. restarts' \in 0..MaxRestarts BY <1>1, BoundsAssumption DEF IInv, TypeOK
<1>9. TypeOK' BY <1>1, <1>3, <1>4, <1>7, <1>8 DEF IInv, TypeOK
<1>10. OneHolder' BY <1>1 DEF OneHolder
<1>11. \A o : Owned(o)' <=> (Owned(o) /\ o \notin held)
       BY <1>1 DEF Owned, IInv, OneHolder
<1>12. FreshOK' BY <1>1, <1>4, <1>11 DEF IInv, FreshOK
<1>13. ASSUME NEW p \in Objects
       PROVE  strong'[p] = Cardinality(Users(p)') + (IF Owned(p)' THEN 1 ELSE 0)
  <2>1. /\ strong[p] = Cardinality(Users(p)) + (IF Owned(p) THEN 1 ELSE 0)
        /\ Cardinality(Users(p)) \in Nat
        BY UsersFinite DEF IInv, CountIsOwners
  <2>2. strong'[p] = IF p \in held THEN strong[p] - 1 ELSE strong[p]
        BY <1>1
  <2>3. p \in held => Owned(p) BY DEF Owned
  <2>4. strong[p] \in Nat BY DEF IInv, TypeOK
  <2>5. Users(p)' = Users(p) BY <1>5
  <2>6. Owned(p)' <=> (Owned(p) /\ p \notin held) BY <1>11
  <2>7. CASE p \in held
    <3>1. strong[p] = Cardinality(Users(p)) + 1 BY <2>1, <2>3, <2>7
    <3>2. strong'[p] = Cardinality(Users(p)) BY <2>1, <2>2, <2>7, <3>1
    <3> QED BY <2>1, <2>5, <2>6, <2>7, <3>2
  <2>8. CASE p \notin held BY <2>1, <2>2, <2>5, <2>6, <2>8
  <2> QED BY <2>7, <2>8
<1>14. CountIsOwners' BY <1>13 DEF CountIsOwners
<1> QED BY <1>9, <1>10, <1>12, <1>14 DEF IInv

LEMMA ReturnKeeps ==
    ASSUME IInv, NEW c \in Calls, Return(c)
    PROVE  IInv'
<1>1. calls[c].phase = "guarded" /\ Busy(c) BY DEF Return, Busy
<1>2. PICK b \in calls[c].kind.brings :
        LET made == next..(next + Len(b) - 1)
        IN  /\ made \subseteq Objects
            /\ typeOf' = [o \in Objects |-> IF o \in made THEN b[o - next + 1] ELSE typeOf[o]]
            /\ strong' = [o \in Objects |->
                    IF o \in made THEN 1
                    ELSE IF o = calls[c].on THEN strong[o] - 1 ELSE strong[o]]
            /\ next' = next + Len(b)
            /\ mail' = mail \cup (IF calls[c].live THEN made ELSE {})
            /\ lost' = lost \cup (IF calls[c].live THEN {} ELSE made)
      BY DEF Return
<1> DEFINE made == next..(next + Len(b) - 1)
<1> DEFINE on == calls[c].on
<1>3. /\ calls' = [calls EXCEPT ![c] = Idle]
      /\ thread' = IF thread = c THEN NoCall ELSE thread
      /\ UNCHANGED <<held, restarts>>
      BY DEF Return
<1>4. /\ made \subseteq Objects
      /\ typeOf' = [o \in Objects |-> IF o \in made THEN b[o - next + 1] ELSE typeOf[o]]
      /\ strong' = [o \in Objects |->
                    IF o \in made THEN 1 ELSE IF o = on THEN strong[o] - 1 ELSE strong[o]]
      /\ next' = next + Len(b)
      /\ mail' = mail \cup (IF calls[c].live THEN made ELSE {})
      /\ lost' = lost \cup (IF calls[c].live THEN {} ELSE made)
      BY <1>2
<1>5. /\ Len(b) \in 0..2
      /\ \A i \in 1..Len(b) : b[i] \in OpaqueTypes
      BY <1>1, BringsFew DEF IInv, TypeOK
<1>6. /\ next \in 1..(MaxObjects + 1) /\ MaxObjects \in Nat
      /\ Objects = 1..MaxObjects
      BY BoundsAssumption DEF IInv, TypeOK, Objects
<1>7. \A o \in made : o >= next /\ o < next' /\ o - next + 1 \in 1..Len(b)
      BY <1>4, <1>5, <1>6
<1>8. next' \in 1..(MaxObjects + 1)
  <2>1. CASE Len(b) = 0 BY <2>1, <1>4, <1>6
  <2>2. CASE Len(b) # 0
    <3>1. next + Len(b) - 1 \in made BY <2>2, <1>5, <1>6
    <3>2. next + Len(b) - 1 \in 1..MaxObjects BY <3>1, <1>4, <1>6
    <3>3. next' = next + Len(b) BY <1>4
    <3> HIDE DEF made
    <3> QED BY <3>2, <3>3, <1>5, <1>6
  <2> QED BY <2>1, <2>2
<1>9. \A o \in Objects : o >= next /\ o < next' => o \in made BY <1>4, <1>5, <1>6
<1>10. \A o \in made : o \in Objects /\ typeOf[o] = "none" /\ ~Owned(o)
       BY <1>4, <1>7 DEF IInv, FreshOK
<1>11. calls \in [Calls -> [phase : Phases, kind : Kinds \cup {NoKind},
                            on : Objects \cup {NoId}, live : BOOLEAN]]
       BY DEF IInv, TypeOK
<1>12. \A d \in Calls : calls'[d] = IF d = c THEN Idle ELSE calls[d] BY <1>3, <1>11
<1>13. calls' \in [Calls -> [phase : Phases, kind : Kinds \cup {NoKind},
                             on : Objects \cup {NoId}, live : BOOLEAN]]
       BY <1>3, <1>11 DEF Idle, Phases
<1>14. \A d \in Calls : Busy(d)' = (d # c /\ Busy(d)) BY <1>12 DEF Busy, Idle
<1>15. \A o : Users(o)' = IF o = on THEN Users(o) \ {c} ELSE Users(o)
       BY <1>12, <1>14 DEF Users
<1>16. c \in Users(on) BY <1>1 DEF Users
<1>17. on < next BY <1>1 DEF IInv, FreshOK
<1>18. on \in Objects => strong[on] >= 1 BY <1>16, OwnedIsCounted DEF IInv
<1>19. \A o \in Objects : /\ strong'[o] = IF o \in made THEN 1
                                         ELSE IF o = on THEN strong[o] - 1 ELSE strong[o]
                          /\ typeOf'[o] = IF o \in made THEN b[o - next + 1] ELSE typeOf[o]
       BY <1>4
<1> HIDE DEF made, on
<1>20. \A o : Owned(o)' <=> (Owned(o) \/ o \in made) BY <1>3, <1>4 DEF Owned
<1>21. TypeOK'
  <2>1. typeOf' \in [Objects -> OpaqueTypes \cup {"none"}]
    <3>1. \A o \in Objects : typeOf'[o] \in OpaqueTypes \cup {"none"}
          BY <1>5, <1>7, <1>19 DEF IInv, TypeOK
    <3> QED BY <3>1, <1>4
  <2>2. strong' \in [Objects -> Nat]
    <3>1. \A o \in Objects : strong'[o] \in Nat BY <1>18, <1>19 DEF IInv, TypeOK
    <3> QED BY <3>1, <1>4
  <2>3. held' \subseteq Objects /\ mail' \subseteq Objects /\ lost' \subseteq Objects
        BY <1>3, <1>4 DEF IInv, TypeOK
  <2>4. \A d \in Calls : Busy(d)' => calls'[d].kind \in Kinds
        BY <1>12, <1>14 DEF IInv, TypeOK
  <2>5. thread' \in Calls \cup {NoCall} /\ restarts' \in 0..MaxRestarts
        BY <1>3 DEF IInv, TypeOK
  <2> QED BY <1>8, <1>13, <2>1, <2>2, <2>3, <2>4, <2>5 DEF TypeOK
<1>22. OneHolder'
  <2>1. made \cap (held \cup mail \cup lost) = {} BY <1>10 DEF Owned
  <2> QED BY <2>1, <1>3, <1>4 DEF IInv, OneHolder
<1>23. FreshOK'
  <2>1. next' >= next BY <1>4, <1>5, <1>6
  <2>2. \A o \in Objects : o >= next' => typeOf'[o] = "none" /\ ~Owned(o)'
    <3> SUFFICES ASSUME NEW o \in Objects, o >= next' PROVE typeOf'[o] = "none" /\ ~Owned(o)'
        OBVIOUS
    <3>1. o >= next /\ o \notin made BY <2>1, <1>6, <1>7, <1>8
    <3>2. typeOf[o] = "none" /\ ~Owned(o) BY <3>1 DEF IInv, FreshOK
    <3> QED BY <3>1, <3>2, <1>19, <1>20
  <2>3. \A o \in Objects : typeOf'[o] = "none" => o >= next'
        BY <1>5, <1>6, <1>7, <1>8, <1>9, <1>19, NoneIsNoType DEF IInv, FreshOK
  <2>4. \A d \in Calls : Busy(d)' => calls'[d].on < next'
    <3> SUFFICES ASSUME NEW d \in Calls, Busy(d)' PROVE calls'[d].on < next'
        OBVIOUS
    <3>1. Busy(d) /\ calls'[d] = calls[d] BY <1>12, <1>14
    <3>2. calls[d].on < next /\ calls[d].on \in Int
          BY <3>1, <1>6, <1>11 DEF IInv, FreshOK, NoId
    <3> QED BY <3>1, <3>2, <2>1, <1>6, <1>8
  <2> QED BY <2>2, <2>3, <2>4 DEF FreshOK
<1>24. ASSUME NEW p \in Objects
       PROVE  strong'[p] = Cardinality(Users(p)') + (IF Owned(p)' THEN 1 ELSE 0)
  <2>1. /\ strong[p] = Cardinality(Users(p)) + (IF Owned(p) THEN 1 ELSE 0)
        /\ Cardinality(Users(p)) \in Nat /\ strong[p] \in Nat
        BY UsersFinite DEF IInv, CountIsOwners, TypeOK
  <2>2. CASE p \in made
    <3>1. p # on BY <2>2, <1>6, <1>7, <1>17
    <3>2. Users(p) = {}
          BY <2>2, <1>6, <1>7 DEF Users, IInv, FreshOK
    <3>3. Users(p)' = {} BY <3>1, <3>2, <1>15
    <3>4. Owned(p)' /\ strong'[p] = 1 BY <2>2, <1>19, <1>20
    <3> QED BY <3>3, <3>4, FS_EmptySet
  <2>3. CASE p \notin made /\ p = on
    <3>1. Cardinality(Users(p) \ {c}) = Cardinality(Users(p)) - 1 BY <2>3, <1>16, OneLess
    <3>2. Users(p)' = Users(p) \ {c} BY <2>3, <1>15
    <3>3. strong'[p] = strong[p] - 1 /\ (Owned(p)' <=> Owned(p)) BY <2>3, <1>19, <1>20
    <3> QED BY <2>1, <3>1, <3>2, <3>3
  <2>4. CASE p \notin made /\ p # on
    <3>1. Users(p)' = Users(p) BY <2>4, <1>15
    <3>2. strong'[p] = strong[p] /\ (Owned(p)' <=> Owned(p)) BY <2>4, <1>19, <1>20
    <3> QED BY <2>1, <3>1, <3>2
  <2> QED BY <2>2, <2>3, <2>4
<1>25. CountIsOwners' BY <1>24 DEF CountIsOwners
<1> QED BY <1>21, <1>22, <1>23, <1>25 DEF IInv

-----------------------------------------------------------------------------
LEMMA NextKeeps == IInv /\ [Next]_vars => IInv'
<1> SUFFICES ASSUME IInv, [Next]_vars PROVE IInv' OBVIOUS
<1>1. ASSUME NEW c \in Calls, NEW row \in Rows, NEW o \in Objects, CallOn(c, row, o) PROVE IInv'
      BY <1>1, CallOnKeeps
<1>2. ASSUME NEW c \in Calls, NEW row \in Rows, CallFree(c, row) PROVE IInv'
      BY <1>2, CallFreeKeeps
<1>3. ASSUME NEW c \in Calls, Guard(c) PROVE IInv' BY <1>3, GuardKeeps
<1>4. ASSUME NEW c \in Calls, Return(c) PROVE IInv' BY <1>4, ReturnKeeps
<1>5. ASSUME NEW o \in Objects, Receive(o) PROVE IInv' BY <1>5, ReceiveKeeps
<1>6. ASSUME NEW o \in Objects, Collect(o) PROVE IInv' BY <1>6, CollectKeeps
<1>7. CASE Restart BY <1>7, RestartKeeps
<1>8. CASE UNCHANGED vars
  <2>1. \A o : Users(o)' = Users(o) /\ (Owned(o)' <=> Owned(o))
        BY <1>8 DEF vars, Users, Busy, Owned
  <2> QED BY <1>8, <2>1 DEF vars, IInv, TypeOK, OneHolder, FreshOK, CountIsOwners, Busy
<1> QED BY <1>1, <1>2, <1>3, <1>4, <1>5, <1>6, <1>7, <1>8 DEF Next

LEMMA Inductive == Spec => []IInv
<1> QED BY InitIInv, NextKeeps, PTL DEF Spec

(* Objects, counts and calls keep their types: no count goes below zero     *)
(* whatever finalizers, calls and restarts do.                             *)
THEOREM Types == Spec => []TypeOK
<1>1. IInv => TypeOK BY DEF IInv
<1> QED BY <1>1, Inductive, PTL

(* The count of every object is the number of calls in flight on it plus    *)
(* one for the Dart side: no call runs on a freed object, and no object     *)
(* outlives its owners.                                                    *)
THEOREM Counts == Spec => []CountIsOwners
<1>1. IInv => CountIsOwners BY DEF IInv
<1> QED BY <1>1, Inductive, PTL

(* No message brings a freed object back.                                  *)
THEOREM FreedForGood == Spec => FreedStaysFreed
<1> DEFINE A == \A o \in Objects : typeOf[o] # "none" /\ strong[o] = 0 => strong'[o] = 0
<1>1. ASSUME IInv, [Next]_vars PROVE [A]_vars
  <2> SUFFICES ASSUME Next, NEW o \in Objects, typeOf[o] # "none", strong[o] = 0
               PROVE  strong'[o] = 0
      BY <1>1
  <2>0. strong \in [Objects -> Nat] BY <1>1 DEF IInv, TypeOK
  <2>1. Users(o) = {} /\ ~Owned(o) BY <1>1, OwnedIsCounted DEF IInv
  <2>2. ASSUME NEW c \in Calls, NEW row \in Rows, NEW p \in Objects, CallOn(c, row, p)
        PROVE  strong'[o] = 0
    <3>1. p # o BY <2>1, <2>2 DEF CallOn, Owned
    <3> QED BY <2>0, <2>2, <3>1 DEF CallOn, Increment
  <2>3. ASSUME NEW c \in Calls, NEW row \in Rows, CallFree(c, row) PROVE strong'[o] = 0
        BY <2>3 DEF CallFree
  <2>4. ASSUME NEW c \in Calls, Guard(c) PROVE strong'[o] = 0 BY <2>4 DEF Guard
  <2>5. ASSUME NEW c \in Calls, Return(c) PROVE strong'[o] = 0
    <3>1. calls[c].on # o BY <2>1, <2>5 DEF Users, Busy, Return
    <3>2. \A n : o \notin next..n BY <1>1 DEF IInv, FreshOK, TypeOK, Objects
    <3> QED BY <3>1, <3>2, <2>5 DEF Return
  <2>6. ASSUME NEW p \in Objects, Receive(p) PROVE strong'[o] = 0 BY <2>6 DEF Receive
  <2>7. ASSUME NEW p \in Objects, Collect(p) PROVE strong'[o] = 0
    <3>1. p # o BY <2>1, <2>7 DEF Collect, Owned
    <3> QED BY <2>0, <2>7, <3>1 DEF Collect, Decrement
  <2>8. CASE Restart
    <3>1. o \notin held BY <2>1 DEF Owned
    <3> QED BY <3>1, <2>8 DEF Restart
  <2> QED BY <2>2, <2>3, <2>4, <2>5, <2>6, <2>7, <2>8 DEF Next
<1>2. Spec => [][A]_vars BY <1>1, Inductive, PTL DEF Spec
<1> QED BY <1>2 DEF FreedStaysFreed

-----------------------------------------------------------------------------
(* The functions that the dispatchers reach, and what of them the calls and *)
(* guards depend on: all 63 lock their receiver for reading.               *)
WireFunctions == {PdeDispatchPrimary[id] : id \in DOMAIN PdeDispatchPrimary}
                 \cup {PdeDispatchSync[id] : id \in DOMAIN PdeDispatchSync}

BringsObjects(row) ==
    Outcomes(row) \subseteq {<<>>} \cup {<<t>> : t \in OpaqueTypes}
                            \cup {<<t, u>> : t \in OpaqueTypes, u \in OpaqueTypes}

Fits(row) ==
    /\ row.mode \in Modes
    /\ row.on.excl \in BOOLEAN
    /\ BringsObjects(row)
    /\ row.mode = "sync" => Outcomes(row) = {<<>>}

(* What the dispatcher of the workers, and that of the Dart thread, run.    *)
ByWorker(row)     == row.mode \in {"async", "normal"} /\ row.on.excl = FALSE
ByDartThread(row) ==
    /\ row.mode = "sync" /\ row.on.excl = FALSE
    /\ row.ret \notin OpaqueTypes \cup {"StreamPair", "OptConnection", "OptIncoming"}

LEMMA PrimaryRuns == \A id \in DOMAIN PdeDispatchPrimary : ByWorker(PdeDispatchPrimary[id])
<1>1. ByWorker(Connection_accept_bi) /\ ByWorker(Connection_accept_uni) /\
      ByWorker(Connection_closed) /\ ByWorker(Connection_open_bi) /\
      ByWorker(Connection_open_uni) /\ ByWorker(Connection_path_events) /\
      ByWorker(Connection_read_datagram) /\ ByWorker(Connection_read_many_datagrams) /\
      ByWorker(Endpoint_accept)
  BY DEF ByWorker, Call, Shared, NoObject, Connection_accept_bi, Connection_accept_uni,
     Connection_closed, Connection_open_bi, Connection_open_uni,
     Connection_path_events, Connection_read_datagram, Connection_read_many_datagrams,
     Endpoint_accept
<1>2. ByWorker(Endpoint_accept_incoming) /\ ByWorker(Endpoint_close) /\
      ByWorker(Endpoint_connect) /\ ByWorker(Endpoint_home_relay_status) /\
      ByWorker(Endpoint_watch_addr) /\ ByWorker(Incoming_accept) /\
      ByWorker(RecvStream_read) /\ ByWorker(RecvStream_read_exact) /\
      ByWorker(RecvStream_read_to_end)
  BY DEF ByWorker, Call, Shared, NoObject, Endpoint_accept_incoming, Endpoint_close,
     Endpoint_connect, Endpoint_home_relay_status, Endpoint_watch_addr,
     Incoming_accept, RecvStream_read, RecvStream_read_exact, RecvStream_read_to_end
<1>3. ByWorker(RecvStream_stop) /\ ByWorker(RouterBuilder_accept) /\
      ByWorker(RouterBuilder_spawn) /\ ByWorker(Router_shutdown) /\
      ByWorker(SendStream_finish) /\ ByWorker(SendStream_reset) /\
      ByWorker(SendStream_write_all) /\ ByWorker(endpoint_bind) /\
      ByWorker(endpoint_bind_with_address_lookup)
  BY DEF ByWorker, Call, Shared, NoObject, RecvStream_stop, RouterBuilder_accept,
     RouterBuilder_spawn, Router_shutdown, SendStream_finish, SendStream_reset,
     SendStream_write_all, endpoint_bind, endpoint_bind_with_address_lookup
<1>4. ByWorker(router_builder)
  BY DEF ByWorker, Call, Shared, NoObject, router_builder
<1> QED BY <1>1, <1>2, <1>3, <1>4 DEF PdeDispatchPrimary

LEMMA SyncRuns == \A id \in DOMAIN PdeDispatchSync : ByDartThread(PdeDispatchSync[id])
<1>1. ByDartThread(Connection_alpn) /\ ByDartThread(Connection_close) /\
      ByDartThread(Connection_remote_id) /\ ByDartThread(Connection_send_datagram) /\
      ByDartThread(Connection_send_many_datagrams) /\
      ByDartThread(Connection_stable_id) /\ ByDartThread(Connection_stats) /\
      ByDartThread(Endpoint_addr) /\ ByDartThread(Endpoint_bound_sockets)
  BY DEF ByDartThread, Call, Shared, NoObject, OpaqueTypes, Connection_alpn,
     Connection_close, Connection_remote_id, Connection_send_datagram,
     Connection_send_many_datagrams, Connection_stable_id, Connection_stats,
     Endpoint_addr, Endpoint_bound_sockets
<1>2. ByDartThread(Endpoint_id) /\ ByDartThread(Endpoint_is_closed) /\
      ByDartThread(Endpoint_set_alpns) /\ ByDartThread(Incoming_ignore) /\
      ByDartThread(Incoming_refuse) /\ ByDartThread(Incoming_remote_addr) /\
      ByDartThread(Incoming_retry) /\ ByDartThread(RecvStream_id) /\
      ByDartThread(SendStream_id)
  BY DEF ByDartThread, Call, Shared, NoObject, OpaqueTypes, Endpoint_id,
     Endpoint_is_closed, Endpoint_set_alpns, Incoming_ignore, Incoming_refuse,
     Incoming_remote_addr, Incoming_retry, RecvStream_id, SendStream_id
<1>3. ByDartThread(cancel_stream) /\ ByDartThread(endpoint_addr_decode) /\
      ByDartThread(endpoint_addr_encode) /\ ByDartThread(endpoint_addr_round_trip) /\
      ByDartThread(irohdart_abi_version) /\ ByDartThread(irohdart_iroh_version) /\
      ByDartThread(public_key_check) /\ ByDartThread(public_key_fmt_short) /\
      ByDartThread(public_key_from_hex)
  BY DEF ByDartThread, Call, Shared, NoObject, OpaqueTypes, cancel_stream,
     endpoint_addr_decode, endpoint_addr_encode, endpoint_addr_round_trip,
     irohdart_abi_version, irohdart_iroh_version, public_key_check,
     public_key_fmt_short, public_key_from_hex
<1>4. ByDartThread(public_key_from_z32) /\ ByDartThread(public_key_to_hex) /\
      ByDartThread(public_key_to_z32) /\ ByDartThread(public_key_verify) /\
      ByDartThread(relay_url_parse) /\ ByDartThread(secret_key_generate) /\
      ByDartThread(secret_key_public) /\ ByDartThread(secret_key_sign)
  BY DEF ByDartThread, Call, Shared, NoObject, OpaqueTypes, public_key_from_z32,
     public_key_to_hex, public_key_to_z32, public_key_verify, relay_url_parse,
     secret_key_generate, secret_key_public, secret_key_sign
<1> QED BY <1>1, <1>2, <1>3, <1>4 DEF PdeDispatchSync

(* The functions of the library meet RowsAssumption: what is proved for any *)
(* Rows holds for all 63 of them (frb_generated.rs 53 to 2992).            *)
THEOREM AllFunctionsFit == \A row \in WireFunctions : Fits(row)
<1>1. ASSUME NEW row PROVE BringsObjects(row)
  <2>1. {"SendStream", "RecvStream", "Connection", "Incoming"} \subseteq OpaqueTypes
    BY DEF OpaqueTypes
  <2>2. "StreamPair" \notin OpaqueTypes /\ "OptConnection" \notin OpaqueTypes
        /\ "OptIncoming" \notin OpaqueTypes
    BY DEF OpaqueTypes
  <2> QED BY <2>1, <2>2 DEF BringsObjects, Outcomes
<1>2. ASSUME NEW row, ByWorker(row) PROVE Fits(row)
  BY <1>1, <1>2 DEF Fits, ByWorker, Modes
<1>3. ASSUME NEW row, ByDartThread(row) PROVE Fits(row)
  <2>1. Outcomes(row) = {<<>>}
    BY <1>3 DEF Outcomes, ByDartThread
  <2> QED BY <1>1, <1>3, <2>1 DEF Fits, ByDartThread, Modes
<1> QED BY <1>2, <1>3, PrimaryRuns, SyncRuns DEF WireFunctions

-----------------------------------------------------------------------------
(* The sync call that the Dart thread is in can take its next step at once: *)
(* no guard is in its way, and it makes no object.                         *)
ThreadGoesOn == \A c \in Calls : thread = c =>
    \/ calls[c].phase = "begun" /\ (calls[c].on # NoId => CanLock(c))
    \/ calls[c].phase = "guarded" /\ calls[c].kind.brings = {<<>>}

(* Every call in flight locks its receiver for reading, and the one that    *)
(* blocks the Dart thread is a sync call.                                  *)
ThreadInv ==
    /\ \A c \in Calls : Busy(c) => ~calls[c].kind.excl
    /\ \A c \in Calls : thread = c => Busy(c) /\ calls[c].kind.brings = {<<>>}

LEMMA ThreadKept ==
    ASSUME \A row \in Rows : ~row.on.excl, TypeOK, ThreadInv, [Next]_vars
    PROVE  ThreadInv'
<1> USE DEF ThreadInv
<1>1. ASSUME NEW c \in Calls, NEW row \in Rows, NEW o, Send(c, row, o) PROVE ThreadInv'
  <2> DEFINE rec == [phase |-> "begun", kind |-> Kind(row), on |-> o, live |-> TRUE]
  <2>1. calls' = [calls EXCEPT ![c] = rec] /\ thread' = (IF row.mode = "sync" THEN c ELSE NoCall)
    BY <1>1 DEF Send
  <2>2. calls'[c] = rec /\ \A d \in Calls : d # c => calls'[d] = calls[d]
    BY <2>1 DEF TypeOK
  <2>3. ~Kind(row).excl /\ (row.mode = "sync" => Kind(row).brings = {<<>>})
    BY RowsAssumption DEF Kind
  <2>4. \A d \in Calls : Busy(d)' => ~calls'[d].kind.excl
    BY <2>2, <2>3 DEF Busy
  <2>5. \A d \in Calls : thread' = d => d = c /\ row.mode = "sync"
    BY <2>1, CallsAssumption
  <2> QED BY <2>2, <2>3, <2>4, <2>5 DEF Busy
<1>2. ASSUME NEW c \in Calls, Guard(c) PROVE ThreadInv'
  <2>1. thread' = thread /\ \A d \in Calls : calls'[d].kind = calls[d].kind /\ (Busy(d)' <=> Busy(d))
    BY <1>2 DEF Guard, TypeOK, Busy
  <2> QED BY <2>1
<1>3. ASSUME NEW c \in Calls, Return(c) PROVE ThreadInv'
  <2>1. ~Busy(c)' /\ \A d \in Calls : d # c => calls'[d] = calls[d]
    BY <1>3 DEF Return, TypeOK, Busy, Idle
  <2>2. \A d \in Calls : thread' = d => thread = d /\ d # c
    BY <1>3, CallsAssumption DEF Return
  <2> QED BY <2>1, <2>2 DEF Busy
<1>4. ASSUME NEW o \in Objects, Receive(o) \/ Collect(o) PROVE ThreadInv'
  BY <1>4 DEF Receive, Collect, Busy
<1>5. CASE Restart
  <2>1. thread' = thread /\ \A d \in Calls : calls'[d].kind = calls[d].kind /\ (Busy(d)' <=> Busy(d))
    BY <1>5 DEF Restart, TypeOK, Busy
  <2> QED BY <2>1
<1>6. CASE UNCHANGED vars
  BY <1>6 DEF vars, Busy
<1> QED BY <1>1, <1>2, <1>3, <1>4, <1>5, <1>6 DEF Next, CallOn, CallFree

(* With the functions of the library, no handler waits for the guard of     *)
(* another: the thread that runs Dart has nothing to wait for, however     *)
(* long async calls on the same object do (frb_generated.rs, the           *)
(* LockableOrderInfo of every handler; the safety half of                  *)
(* DartThreadReturns).                                                     *)
THEOREM DartThreadNeverWaits ==
    ASSUME Rows \subseteq WireFunctions
    PROVE  Spec => []ThreadGoesOn
<1>1. \A row \in Rows : ~row.on.excl
  BY PrimaryRuns, SyncRuns DEF WireFunctions, ByWorker, ByDartThread
<1>2. Init => ThreadInv
  BY CallsAssumption DEF Init, ThreadInv, Busy, Idle
<1>3. IInv /\ ThreadInv /\ [Next]_vars => ThreadInv'
  BY <1>1, ThreadKept DEF IInv
<1>4. ThreadInv /\ TypeOK => ThreadGoesOn
  BY DEF ThreadInv, ThreadGoesOn, TypeOK, Phases, Busy, CanLock, Users
<1>5. Spec => []ThreadInv
  BY <1>2, <1>3, Inductive, PTL DEF Spec
<1>6. Spec => []TypeOK
  BY Types
<1> QED BY <1>4, <1>5, <1>6, PTL

=============================================================================
