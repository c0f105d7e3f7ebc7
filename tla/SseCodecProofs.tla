--------------------------- MODULE SseCodecProofs ---------------------------
(***************************************************************************)
(* Proofs about the wire format: for every width of bytes and numbers and   *)
(* every value that Dart can send, the native side decodes what was sent,   *)
(* and Dart is sent what it decodes.                                       *)
(***************************************************************************)
EXTENDS Ffi, FfiCallsProofs, SequenceTheorems, WellFoundedInduction

-----------------------------------------------------------------------------
(* Induction over the natural numbers, about a set instead of a predicate.  *)
LEMMA Induction ==
    ASSUME NEW S, 0 \in S, \A n \in Nat : n \in S => n + 1 \in S
    PROVE  Nat \subseteq S
<1> DEFINE T == Nat \ S
<1> SUFFICES ASSUME T # {} PROVE FALSE
  OBVIOUS
<1> DEFINE R == OpToRel(<, Nat)
<1>1. IsWellFoundedOn(R, Nat)
  BY NatLessThanWellFounded
<1>2. T \subseteq Nat
  OBVIOUS
<1>3. PICK x \in T : \A y \in T : ~(<<y, x>> \in R)
  <2> HIDE DEF T, R
  <2> QED BY <1>1, <1>2, WFMin
<1>4. x \in Nat /\ x # 0 /\ x - 1 \in Nat /\ x - 1 \notin S
  OBVIOUS
<1>5. <<x - 1, x>> \in R
  BY <1>4 DEF OpToRel
<1> QED BY <1>3, <1>4, <1>5

(* The same up to a bound.                                                 *)
LEMMA BoundedInduction ==
    ASSUME NEW S, NEW n \in Nat, 0 \in S, \A i \in 0..n - 1 : i \in S => i + 1 \in S
    PROVE  0..n \subseteq S
<1> DEFINE T == {i \in Nat : i <= n => i \in S}
<1>1. 0 \in T
  OBVIOUS
<1>2. \A i \in Nat : i \in T => i + 1 \in T
  <2> SUFFICES ASSUME NEW i \in Nat, i \in T, i + 1 <= n PROVE i + 1 \in S
    OBVIOUS
  <2>1. i \in 0..n - 1 /\ i \in S
    OBVIOUS
  <2> QED BY <2>1
<1>3. Nat \subseteq T
  <2> HIDE DEF T
  <2> QED BY <1>1, <1>2, Induction
<1> QED BY <1>3

(* What a recursive function must satisfy has a solution.                  *)
Solutions(V, base, step) ==
    {f \in [Nat -> V] : f[0] = base /\ \A i \in Nat : f[i + 1] = step[i + 1][f[i]]}

LEMMA Recursion ==
    ASSUME NEW V, NEW base \in V, NEW step \in [Nat -> [V -> V]]
    PROVE  Solutions(V, base, step) # {}
<1> DEFINE Ok(f, n) == f[0] = base /\ \A i \in 0..n - 1 : f[i + 1] = step[i + 1][f[i]]
           Upto(n) == {f \in [0..n -> V] : Ok(f, n)}
<1>1. \A n \in Nat : Upto(n) # {}
  <2> DEFINE S == {n \in Nat : Upto(n) # {}}
  <2>1. 0 \in S
    <3>1. [i \in 0..0 |-> base] \in Upto(0)
      OBVIOUS
    <3> QED BY <3>1
  <2>2. ASSUME NEW n \in Nat, n \in S PROVE n + 1 \in S
    <3>1. PICK f \in [0..n -> V] : Ok(f, n)
      BY <2>2
    <3> DEFINE g == [i \in 0..n + 1 |-> IF i = n + 1 THEN step[n + 1][f[n]] ELSE f[i]]
    <3>2. step[n + 1][f[n]] \in V
      OBVIOUS
    <3>3. g \in [0..n + 1 -> V]
      BY <3>2
    <3>4. g[0] = base
      BY <3>1
    <3>5. ASSUME NEW i \in 0..(n + 1) - 1 PROVE g[i + 1] = step[i + 1][g[i]]
      <4>1. CASE i = n
        <5>1. g[i] = f[n] /\ g[i + 1] = step[n + 1][f[n]]
          BY <4>1
        <5> QED BY <4>1, <5>1
      <4>2. CASE i # n
        <5>1. i \in 0..n - 1 /\ g[i] = f[i] /\ g[i + 1] = f[i + 1]
          BY <4>2
        <5> QED BY <3>1, <5>1
      <4> QED BY <4>1, <4>2
    <3> HIDE DEF g
    <3>6. g \in Upto(n + 1)
      BY <3>3, <3>4, <3>5
    <3> HIDE DEF Upto
    <3>7. n + 1 \in Nat /\ Upto(n + 1) # {}
      BY <3>6
    <3> QED BY <3>7
  <2> HIDE DEF S
  <2>3. Nat \subseteq S
    BY <2>1, <2>2, Induction
  <2> QED BY <2>3 DEF S
<1>2. ASSUME NEW m \in Nat, NEW n \in Nat, NEW f \in Upto(m), NEW g \in Upto(n), m <= n
      PROVE  f[m] = g[m]
  <2> DEFINE S == {i \in 0..m : f[i] = g[i]}
  <2>1. 0 \in S
    OBVIOUS
  <2>2. ASSUME NEW i \in 0..m - 1, i \in S PROVE i + 1 \in S
    <3>1. i \in 0..n - 1 /\ i + 1 \in 0..m /\ f[i] = g[i]
      BY <1>2, <2>2
    <3>2. f[i + 1] = step[i + 1][f[i]] /\ g[i + 1] = step[i + 1][g[i]]
      BY <3>1
    <3> QED BY <3>1, <3>2
  <2> HIDE DEF S
  <2>3. 0..m \subseteq S
    BY <2>1, <2>2, BoundedInduction
  <2> QED BY <2>3 DEF S
<1> DEFINE Some(n) == CHOOSE f : f \in Upto(n)
           f == [n \in Nat |-> Some(n)[n]]
<1>3. \A n \in Nat : Some(n) \in Upto(n)
  BY <1>1
<1>4. \A n \in Nat : f[n] \in V
  <2> SUFFICES ASSUME NEW n \in Nat PROVE Some(n)[n] \in V
    OBVIOUS
  <2>1. Some(n) \in Upto(n)
    BY <1>3
  <2> HIDE DEF Some
  <2> QED BY <2>1
<1>5. f[0] = base
  <2>1. f[0] = Some(0)[0]
    OBVIOUS
  <2>2. Some(0) \in Upto(0)
    BY <1>3
  <2> HIDE DEF Some
  <2>3. Some(0)[0] = base
    BY <2>2
  <2> QED BY <2>1, <2>3
<1>6. ASSUME NEW i \in Nat PROVE f[i + 1] = step[i + 1][f[i]]
  <2> DEFINE g == Some(i)
             h == Some(i + 1)
  <2>1. g \in Upto(i) /\ h \in Upto(i + 1)
    <3>1. i + 1 \in Nat
      OBVIOUS
    <3> HIDE DEF Some, Upto
    <3>2. Some(i) \in Upto(i) /\ Some(i + 1) \in Upto(i + 1)
      BY <1>3, <3>1
    <3> QED BY <3>2 DEF g, h
  <2>2. f[i] = g[i] /\ f[i + 1] = h[i + 1]
    <3>1. i + 1 \in Nat
      OBVIOUS
    <3> HIDE DEF Some
    <3> QED BY <3>1
  <2> HIDE DEF f, g, h, Some
  <2>3. h[i + 1] = step[i + 1][h[i]]
    <3>1. i \in 0..(i + 1) - 1
      OBVIOUS
    <3> QED BY <2>1, <3>1
  <2> HIDE DEF Upto
  <2>4. g[i] = h[i]
    BY <2>1, <1>2
  <2> QED BY <2>2, <2>3, <2>4
<1> HIDE DEF f
<1>7. f \in [Nat -> V]
  BY <1>4 DEF f
<1>8. f \in Solutions(V, base, step)
  BY <1>5, <1>6, <1>7 DEF Solutions
<1> QED BY <1>8

-----------------------------------------------------------------------------
(* Numbers.                                                                *)

LEMMA HoldsGrows ==
    /\ Holds \in [Nat -> Nat \ {0}]
    /\ Holds[0] = 1
    /\ \A k \in Nat : Holds[k + 1] = Byte * Holds[k]
<1> DEFINE V == Nat \ {0}
           step == [i \in Nat |-> [n \in V |-> Byte * n]]
<1>0. Byte \in Nat \ {0}
  BY WidthAssumption
<1>1. \A n \in V : Byte * n \in V
  BY <1>0
<1>2. step \in [Nat -> [V -> V]]
  BY <1>1
<1>3. 1 \in V
  OBVIOUS
<1>4. \A i \in Nat : \A n \in V : step[i + 1][n] = Byte * n
  OBVIOUS
<1> HIDE DEF V, step
<1>5. PICK f \in [Nat -> V] : f[0] = 1 /\ \A i \in Nat : f[i + 1] = step[i + 1][f[i]]
  <2>1. Solutions(V, 1, step) # {}
    BY <1>2, <1>3, Recursion
  <2> QED BY <2>1 DEF Solutions
<1>6. \A i \in Nat : f[i + 1] = Byte * f[i]
  BY <1>4, <1>5
<1>7. f = [k \in Nat |-> IF k = 0 THEN 1 ELSE Byte * f[k - 1]]
  <2>1. \A k \in Nat : k # 0 => k - 1 \in Nat /\ (k - 1) + 1 = k
    OBVIOUS
  <2>2. \A k \in Nat : f[k] = IF k = 0 THEN 1 ELSE Byte * f[k - 1]
    BY <2>1, <1>5, <1>6
  <2> QED BY <2>2, <1>5
<1>8. Holds = [k \in Nat |-> IF k = 0 THEN 1 ELSE Byte * Holds[k - 1]]
  BY <1>7 DEF Holds
<1>9. Holds[0] = 1 /\ \A k \in Nat : Holds[k + 1] = Byte * Holds[k]
  BY <1>8
<1>10. Nat \subseteq {k \in Nat : Holds[k] \in V}
  <2> DEFINE S == {k \in Nat : Holds[k] \in V}
  <2>1. 0 \in S
    BY <1>3, <1>9
  <2>2. \A k \in Nat : k \in S => k + 1 \in S
    BY <1>1, <1>9
  <2> HIDE DEF S
  <2> QED BY <2>1, <2>2, Induction DEF S
<1> QED BY <1>8, <1>9, <1>10 DEF V

LEMMA DivTwice ==
    ASSUME NEW n \in Nat, NEW a \in Nat \ {0}, NEW b \in Nat \ {0}
    PROVE  n \div (b * a) = (n \div a) \div b
OBVIOUS

LEMMA DivMod ==
    ASSUME NEW n \in Nat, NEW b \in Nat \ {0}
    PROVE  n \div b \in Nat /\ n % b \in 0..b - 1 /\ n = b * (n \div b) + (n % b)
OBVIOUS

LEMMA DivSmall == ASSUME NEW b \in Nat \ {0}, NEW n \in 0..b - 1 PROVE n \div b = 0
OBVIOUS

LEMMA WriteIsMessage ==
    ASSUME NEW n \in Nat, NEW k \in Nat
    PROVE  Write(n, k) \in Message /\ Len(Write(n, k)) = k
<1>1. Byte \in Nat \ {0}
  BY WidthAssumption
<1>2. ASSUME NEW i \in 1..k PROVE (n \div Holds[i - 1]) % Byte \in 0..Byte - 1
  <2>1. Holds[i - 1] \in Nat \ {0}
    BY HoldsGrows
  <2> QED BY <2>1, <1>1, DivMod
<1> QED BY <1>2 DEF Write, Message

(* Reading the bytes of a number from the most significant one on gives     *)
(* the number divided by what the bytes still to come hold.                *)
LEMMA NumberOfWrite ==
    ASSUME NEW k \in Nat, NEW n \in 0..Holds[k] - 1
    PROVE  Number(Write(n, k)) = n
<1> DEFINE s == Write(n, k)
           quot == [i \in 0..k |-> n \div Holds[k - i]]
           Solves(u) == u = [i \in 0..k |-> IF i = 0 THEN 0 ELSE Byte * u[i - 1] + s[k - i + 1]]
<1>0. Byte \in Nat \ {0} /\ n \in Nat
  BY WidthAssumption, HoldsGrows
<1>1. ASSUME NEW i \in 1..k PROVE quot[i] = Byte * quot[i - 1] + s[k - i + 1]
  <2> DEFINE h == Holds[k - i]
  <2>1. h \in Nat \ {0} /\ Holds[k - (i - 1)] = Byte * h
    <3>1. k - i \in Nat /\ k - (i - 1) = (k - i) + 1
      OBVIOUS
    <3> QED BY <3>1, HoldsGrows
  <2>2. s[k - i + 1] = (n \div h) % Byte
    <3>1. k - i + 1 \in 1..k /\ (k - i + 1) - 1 = k - i
      OBVIOUS
    <3> QED BY <3>1 DEF Write
  <2>3. quot[i] = n \div h /\ quot[i - 1] = n \div (Byte * h)
    BY <2>1
  <2> HIDE DEF h, s, quot
  <2>4. n \div (Byte * h) = (n \div h) \div Byte
    BY <1>0, <2>1, DivTwice
  <2>5. n \div h \in Nat
    BY <1>0, <2>1, DivMod
  <2> DEFINE q == n \div h
             d == k - i + 1
  <2>6. q \in Nat /\ quot[i] = q /\ quot[i - 1] = q \div Byte /\ s[d] = q % Byte
    BY <2>2, <2>3, <2>4, <2>5
  <2> HIDE DEF q, d
  <2>7. q = Byte * (q \div Byte) + (q % Byte)
    BY <1>0, <2>6, DivMod
  <2>8. quot[i] = Byte * quot[i - 1] + s[d]
    BY <2>6, <2>7
  <2> QED BY <2>8 DEF d
<1>2. quot[0] = 0
  <2>1. quot[0] = n \div Holds[k] /\ Holds[k] \in Nat \ {0}
    BY HoldsGrows
  <2> QED BY <2>1, DivSmall
<1>3. quot[k] = n
  <2>1. quot[k] = n \div Holds[0] /\ Holds[0] = 1
    BY HoldsGrows
  <2> QED BY <2>1, <1>0
<1>4. Solves(quot)
  <2> DEFINE rhs == [i \in 0..k |-> IF i = 0 THEN 0 ELSE Byte * quot[i - 1] + s[k - i + 1]]
  <2>1. \A i \in 0..k : quot[i] = rhs[i]
    <3> HIDE DEF quot, s
    <3>1. \A i \in 0..k : i = 0 \/ i \in 1..k
      OBVIOUS
    <3> QED BY <1>1, <1>2, <3>1
  <2>2. DOMAIN quot = 0..k /\ DOMAIN rhs = 0..k
    OBVIOUS
  <2>3. quot = [i \in 0..k |-> quot[i]]
    OBVIOUS
  <2> HIDE DEF quot, s
  <2> QED BY <2>1, <2>3
<1>5. Len(s) = k
  BY <1>0, WriteIsMessage
<1>6. \E u : Solves(u) /\ Number(s) = u[k]
  <2> DEFINE w == CHOOSE w : w = [i \in 0..Len(s) |-> IF i = 0 THEN 0
                                                     ELSE Byte * w[i - 1] + s[Len(s) - i + 1]]
  <2>1. Number(s) = w[Len(s)]
    BY DEF Number
  <2> HIDE DEF quot, s
  <2>2. Solves(w)
    BY <1>4, <1>5
  <2> QED BY <2>1, <2>2, <1>5
<1>7. PICK u : Solves(u) /\ Number(s) = u[k]
  BY <1>6
<1>8. 0..k \subseteq {i \in 0..k : u[i] = quot[i]}
  <2> DEFINE S == {i \in 0..k : u[i] = quot[i]}
  <2>1. 0 \in S
    BY <1>2, <1>7
  <2>2. ASSUME NEW i \in 0..k - 1, i \in S PROVE i + 1 \in S
    <3>1. i + 1 \in 0..k /\ i + 1 \in 1..k /\ (i + 1) - 1 = i /\ u[i] = quot[i]
      BY <2>2
    <3>2. u[i + 1] = Byte * u[i] + s[k - (i + 1) + 1]
      BY <1>7, <3>1
    <3>3. quot[i + 1] = Byte * quot[i] + s[k - (i + 1) + 1]
      BY <1>1, <3>1
    <3> HIDE DEF quot, s
    <3> QED BY <3>1, <3>2, <3>3
  <2> HIDE DEF S
  <2>3. 0..k \subseteq S
    BY <2>1, <2>2, BoundedInduction
  <2> QED BY <2>3 DEF S
<1> QED BY <1>3, <1>7, <1>8

-----------------------------------------------------------------------------
(* Messages.                                                               *)

LEMMA SameSeq ==
    ASSUME NEW S, NEW s \in Seq(S), NEW t \in Seq(S),
           Len(s) = Len(t), \A i \in 1..Len(s) : s[i] = t[i]
    PROVE  s = t
OBVIOUS

LEMMA Split ==
    ASSUME NEW S, NEW s \in Seq(S), NEW t \in Seq(S)
    PROVE  /\ s \o t \in Seq(S)
           /\ ~(Len(s \o t) < Len(s))
           /\ SubSeq(s \o t, 1, Len(s)) = s
           /\ SubSeq(s \o t, Len(s) + 1, Len(s \o t)) = t
<1> DEFINE st == s \o t
           a  == SubSeq(st, 1, Len(s))
           b  == SubSeq(st, Len(s) + 1, Len(st))
<1>1. /\ Len(s) \in Nat /\ Len(t) \in Nat
      /\ st \in Seq(S) /\ Len(st) = Len(s) + Len(t)
      /\ \A i \in 1..Len(s) + Len(t) : st[i] = IF i <= Len(s) THEN s[i] ELSE t[i - Len(s)]
  BY ConcatProperties
<1> HIDE DEF st
<1>2. a \in Seq(S) /\ Len(a) = Len(s) /\ \A i \in 1..Len(s) : a[i] = st[i]
  BY <1>1
<1>3. b \in Seq(S) /\ Len(b) = Len(t) /\ \A i \in 1..Len(t) : b[i] = st[Len(s) + i]
  BY <1>1
<1> HIDE DEF a, b
<1>4. \A i \in 1..Len(s) : a[i] = s[i]
  BY <1>1, <1>2
<1>5. \A i \in 1..Len(t) : b[i] = t[i]
  <2>1. \A i \in 1..Len(t) : /\ Len(s) + i \in 1..Len(s) + Len(t)
                             /\ ~(Len(s) + i <= Len(s)) /\ (Len(s) + i) - Len(s) = i
    BY <1>1
  <2> QED BY <1>1, <1>3, <2>1
<1>6. a = s
  BY <1>2, <1>4, SameSeq
<1>7. b = t
  BY <1>3, <1>5, SameSeq
<1> QED BY <1>1, <1>6, <1>7 DEF st, a, b

(* What is written of a number is read back, whatever comes behind it.     *)
LEMMA ReadWrite ==
    ASSUME NEW k \in Nat, NEW n \in 0..Holds[k] - 1, NEW r \in Message
    PROVE  Write(n, k) \o r \in Message /\ Read(Write(n, k) \o r, k) = Done(n, r)
<1>1. n \in Nat
  BY HoldsGrows
<1>2. Write(n, k) \in Message /\ Len(Write(n, k)) = k
  BY <1>1, WriteIsMessage
<1>3. Number(Write(n, k)) = n
  BY NumberOfWrite
<1> DEFINE w == Write(n, k)
<1> HIDE DEF w
<1>4. w \o r \in Message /\ ~(Len(w \o r) < k) /\ SubSeq(w \o r, 1, k) = w
      /\ SubSeq(w \o r, k + 1, Len(w \o r)) = r
  BY <1>2, Split DEF Message, w
<1>5. Read(w \o r, k) = Done(Number(w), r)
  BY <1>4 DEF Read
<1> QED BY <1>3, <1>4, <1>5 DEF w

LEMMA ThenDone == \A v, m : Done(v, m).ok /\ Done(v, m).v = v /\ Done(v, m).rest = m
BY DEF Done

(* Parts that each take their own piece of the message are decoded in turn: *)
(* rest[i] is what the first i of them leave.                              *)
Chain(n, parts, V, vs, rest) ==
    /\ n \in Nat /\ Len(parts) = n /\ vs \in Seq(V) /\ Len(vs) = n /\ rest \in [0..n -> Message]
    /\ \A i \in 1..n : parts[i][rest[i - 1]] = Done(vs[i], rest[i])

LEMMA InOrderChain ==
    ASSUME NEW n, NEW parts, NEW V, NEW vs, NEW rest, Chain(n, parts, V, vs, rest)
    PROVE  InOrder(parts, rest[0]) = Done(vs, rest[n])
<1>0. /\ n \in Nat /\ Len(parts) = n /\ vs \in Seq(V) /\ Len(vs) = n /\ rest \in [0..n -> Message]
      /\ \A i \in 1..n : parts[i][rest[i - 1]] = Done(vs[i], rest[i])
  BY DEF Chain
<1> USE <1>0
<1> DEFINE Next1(u, i) == Then(u[i - 1], LAMBDA xs, r :
                              Then(parts[i][r], LAMBDA x, s : Done(Append(xs, x), s)))
           Solves(u) == u = [i \in 0..n |-> IF i = 0 THEN Done(<<>>, rest[0]) ELSE Next1(u, i)]
           good == [i \in 0..n |-> Done(SubSeq(vs, 1, i), rest[i])]
<1>1. SubSeq(vs, 1, 0) = <<>> /\ SubSeq(vs, 1, n) = vs
  BY SubSeqFull, SubSeqEmpty
<1>8. good[0] = Done(<<>>, rest[0])
  <2>1. good[0] = Done(SubSeq(vs, 1, 0), rest[0])
    OBVIOUS
  <2> QED BY <1>1, <2>1
<1>9. good[n] = Done(vs, rest[n])
  <2>1. good[n] = Done(SubSeq(vs, 1, n), rest[n])
    OBVIOUS
  <2> QED BY <1>1, <2>1
<1>2. ASSUME NEW i \in 1..n, NEW u, u[i - 1] = good[i - 1] PROVE Next1(u, i) = good[i]
  <2>1. i - 1 \in 0..n /\ i \in 0..n
    OBVIOUS
  <2>2. u[i - 1] = Done(SubSeq(vs, 1, i - 1), rest[i - 1]) /\ good[i] = Done(SubSeq(vs, 1, i), rest[i])
    BY <1>2, <2>1
  <2>3. Append(SubSeq(vs, 1, i - 1), vs[i]) = SubSeq(vs, 1, i)
    <3>1. /\ SubSeq(vs, 1, i - 1) \in Seq(V) /\ Len(SubSeq(vs, 1, i - 1)) = i - 1
          /\ SubSeq(vs, 1, i) \in Seq(V) /\ Len(SubSeq(vs, 1, i)) = i
          /\ vs[i] \in V
      OBVIOUS
    <3>2. \A j \in 1..i : Append(SubSeq(vs, 1, i - 1), vs[i])[j] = SubSeq(vs, 1, i)[j]
      BY <3>1
    <3> QED BY <3>1, <3>2, SameSeq
  <2>4. parts[i][rest[i - 1]] = Done(vs[i], rest[i])
    OBVIOUS
  <2> DEFINE p == u[i - 1]
             q == parts[i][p.rest]
  <2>5. p.ok /\ p.v = SubSeq(vs, 1, i - 1) /\ p.rest = rest[i - 1]
    <3> DEFINE xs == SubSeq(vs, 1, i - 1)
    <3>1. p = Done(xs, rest[i - 1])
      BY <2>2
    <3> HIDE DEF p, good, xs
    <3>2. p.ok /\ p.v = xs /\ p.rest = rest[i - 1]
      BY <3>1, ThenDone
    <3> QED BY <3>2 DEF xs
  <2>6. q.ok /\ q.v = vs[i] /\ q.rest = rest[i]
    BY <2>4, <2>5, ThenDone
  <2>7. Next1(u, i) = IF p.ok THEN IF q.ok THEN Done(Append(p.v, q.v), q.rest) ELSE Panic ELSE Panic
    BY DEF Then
  <2> HIDE DEF p, q, good, Next1
  <2>8. Next1(u, i) = Done(Append(p.v, q.v), q.rest)
    BY <2>5, <2>6, <2>7
  <2> QED BY <2>2, <2>3, <2>5, <2>6, <2>8
<1>3. Solves(good)
  <2>2. \A i \in 0..n : good[i] = IF i = 0 THEN Done(<<>>, rest[0]) ELSE Next1(good, i)
    <3>1. \A i \in 0..n : i = 0 \/ i \in 1..n
      OBVIOUS
    <3>2. \A i \in 1..n : Next1(good, i) = good[i]
      BY <1>2
    <3> HIDE DEF good, Next1
    <3> QED BY <1>8, <3>1, <3>2
  <2>3. good = [i \in 0..n |-> good[i]]
    OBVIOUS
  <2> HIDE DEF good, Next1
  <2> QED BY <2>2, <2>3
<1> DEFINE w == CHOOSE w : Solves(w)
<1>4. InOrder(parts, rest[0]) = w[n]
  BY DEF InOrder
<1>5. Solves(w)
  <2> HIDE DEF good, Solves
  <2> QED BY <1>3
<1>6. 0..n \subseteq {i \in 0..n : w[i] = good[i]}
  <2> HIDE DEF w
  <2> DEFINE S == {i \in 0..n : w[i] = good[i]}
  <2>1. 0 \in S
    <3>1. w[0] = Done(<<>>, rest[0])
      <4> HIDE DEF Next1
      <4> QED BY <1>5
    <3> HIDE DEF good
    <3> QED BY <1>8, <3>1
  <2>2. ASSUME NEW i \in 0..n - 1, i \in S PROVE i + 1 \in S
    <3>1. i + 1 \in 0..n /\ i + 1 \in 1..n /\ (i + 1) - 1 = i /\ i + 1 # 0 /\ w[i] = good[i]
      BY <2>2
    <3>2. w[i + 1] = Next1(w, i + 1)
      <4> HIDE DEF Next1
      <4> QED BY <1>5, <3>1
    <3>3. Next1(w, i + 1) = good[i + 1]
      <4> HIDE DEF Next1, good
      <4> QED BY <1>2, <3>1
    <3> HIDE DEF good, Next1
    <3> QED BY <3>1, <3>2, <3>3
  <2> HIDE DEF S
  <2>3. 0..n \subseteq S
    BY <2>1, <2>2, BoundedInduction
  <2> QED BY <2>3 DEF S
<1> HIDE DEF w, good
<1> QED BY <1>4, <1>6, <1>9

LEMMA Join ==
    /\ <<>> \in Message
    /\ \A a \in Message : <<>> \o a = a
    /\ \A a, b \in Message : a \o b \in Message
    /\ \A a, b, c \in Message : (a \o b) \o c = a \o (b \o c)
<1>1. \A a \in Seq(0..Byte - 1) : <<>> \o a = a
  BY ConcatEmptySeq
<1>2. \A a, b \in Seq(0..Byte - 1) : a \o b \in Seq(0..Byte - 1)
  BY ConcatProperties
<1>3. \A a, b, c \in Seq(0..Byte - 1) : (a \o b) \o c = a \o (b \o c)
  BY ConcatAssociative
<1>4. <<>> \in Seq(0..Byte - 1)
  OBVIOUS
<1> QED BY <1>1, <1>2, <1>3, <1>4 DEF Message

(* FlattenSeq appends one piece after the other.                           *)
LEMMA FlattenSteps ==
    ASSUME NEW n \in Nat, NEW enc \in [1..n -> Message]
    PROVE  \E w \in [0..n -> Message] : /\ w[0] = <<>> /\ w[n] = FlattenSeq(enc)
                                        /\ \A i \in 1..n : w[i] = w[i - 1] \o enc[i]
<1> DEFINE step == [i \in Nat |-> [x \in Message |-> IF i \in 1..n THEN x \o enc[i] ELSE x]]
<1>1. step \in [Nat -> [Message -> Message]]
  BY Join
<1>2. \A i \in 1..n : \A x \in Message : step[i][x] = x \o enc[i]
  OBVIOUS
<1> HIDE DEF step
<1>3. PICK f \in [Nat -> Message] : f[0] = <<>> /\ \A i \in Nat : f[i + 1] = step[i + 1][f[i]]
  <2>1. Solutions(Message, <<>>, step) # {}
    BY <1>1, Join, Recursion
  <2> QED BY <2>1 DEF Solutions
<1>4. ASSUME NEW i \in 1..n PROVE f[i] = f[i - 1] \o enc[i]
  <2>1. i - 1 \in Nat /\ (i - 1) + 1 = i
    OBVIOUS
  <2>2. f[i] = step[i][f[i - 1]] /\ f[i - 1] \in Message
    BY <1>3, <2>1
  <2> QED BY <1>2, <2>2
<1>5. f[n] = FlattenSeq(enc)
  <2>0. enc \in Seq(Message) /\ Len(enc) = n
    OBVIOUS
  <2>1. CASE n = 0
    <3>1. enc = <<>>
      BY <2>0, <2>1
    <3> QED BY <1>3, <2>0, <2>1, <3>1 DEF FlattenSeq
  <2>2. CASE n > 0
    <3> DEFINE Joins(w) == w = [i \in 1..n |-> IF i = 1 THEN enc[i] ELSE w[i - 1] \o enc[i]]
               w == CHOOSE w : Joins(w)
               g == [i \in 1..n |-> f[i]]
    <3>1. FlattenSeq(enc) = w[n]
      BY <2>0, <2>2 DEF FlattenSeq
    <3>2. f[1] = enc[1]
      <4>1. 1 \in 1..n /\ 1 - 1 = 0
        BY <2>2
      <4>2. f[1] = <<>> \o enc[1] /\ enc[1] \in Message
        BY <1>3, <1>4, <4>1
      <4> QED BY <4>2, Join
    <3>3. \A i \in 1..n : g[i] = IF i = 1 THEN enc[i] ELSE g[i - 1] \o enc[i]
      <4>1. \A i \in 1..n : g[i] = f[i] /\ (i # 1 => i - 1 \in 1..n /\ g[i - 1] = f[i - 1])
        OBVIOUS
      <4> HIDE DEF g
      <4> QED BY <1>4, <3>2, <4>1
    <3>4. g = [i \in 1..n |-> g[i]]
      OBVIOUS
    <3> HIDE DEF g
    <3>5. Joins(g)
      BY <3>3, <3>4
    <3>6. Joins(w)
      <4> HIDE DEF Joins
      <4> QED BY <3>5
    <3> HIDE DEF w
    <3>7. \A i \in 1..n : w[i] = IF i = 1 THEN enc[i] ELSE w[i - 1] \o enc[i]
      BY <3>6
    <3> HIDE DEF Joins
    <3> DEFINE S == {i \in 0..n : i = 0 \/ w[i] = f[i]}
    <3>8. 0 \in S
      OBVIOUS
    <3>9. ASSUME NEW i \in 0..n - 1, i \in S PROVE i + 1 \in S
      <4>1. i + 1 \in 1..n /\ i + 1 \in 0..n /\ (i + 1) - 1 = i /\ (i = 0 \/ w[i] = f[i])
        BY <3>9
      <4>2. f[i + 1] = f[i] \o enc[i + 1]
        BY <1>4, <4>1
      <4>3. w[i + 1] = IF i + 1 = 1 THEN enc[i + 1] ELSE w[i] \o enc[i + 1]
        BY <3>7, <4>1
      <4>4. i = 0 => f[i + 1] = enc[i + 1] /\ i + 1 = 1
        BY <3>2
      <4>5. i # 0 => i + 1 # 1
        OBVIOUS
      <4>6. w[i + 1] = f[i + 1]
        BY <4>1, <4>2, <4>3, <4>4, <4>5
      <4> QED BY <4>1, <4>6
    <3> HIDE DEF S
    <3>10. 0..n \subseteq S
      BY <3>8, <3>9, BoundedInduction
    <3> QED BY <2>2, <3>1, <3>10 DEF S
  <2> QED BY <2>1, <2>2
<1> DEFINE w == [i \in 0..n |-> f[i]]
<1>6. w \in [0..n -> Message] /\ \A i \in 0..n : w[i] = f[i]
  BY <1>3
<1>7. n \in 0..n /\ 0 \in 0..n /\ \A i \in 1..n : i \in 0..n /\ i - 1 \in 0..n
  OBVIOUS
<1> HIDE DEF w
<1>8. w[0] = <<>> /\ w[n] = FlattenSeq(enc) /\ \A i \in 1..n : w[i] = w[i - 1] \o enc[i]
  BY <1>3, <1>4, <1>5, <1>6, <1>7
<1> QED BY <1>6, <1>8

(* What is left of a flattened sequence after each of its pieces.           *)
Rests(n, enc, r) ==
    {rest \in [0..n -> Message] : /\ rest[0] = FlattenSeq(enc) \o r /\ rest[n] = r
                                  /\ \A i \in 1..n : rest[i - 1] = enc[i] \o rest[i]}

LEMMA Flattened ==
    ASSUME NEW n \in Nat, NEW enc \in [1..n -> Message], NEW r \in Message
    PROVE  FlattenSeq(enc) \in Message /\ Rests(n, enc, r) # {}
<1>1. PICK w \in [0..n -> Message] : /\ w[0] = <<>> /\ w[n] = FlattenSeq(enc)
                                     /\ \A i \in 1..n : w[i] = w[i - 1] \o enc[i]
  BY FlattenSteps
<1> DEFINE Ok(k, end, rest) == /\ rest[0] = w[k] \o end /\ rest[k] = end
                               /\ \A i \in 1..k : rest[i - 1] = enc[i] \o rest[i]
           S == {k \in 0..n : \A end \in Message : \E rest \in [0..k -> Message] : Ok(k, end, rest)}
<1>2. 0 \in S
  <2>1. ASSUME NEW end \in Message PROVE \E rest \in [0..0 -> Message] : Ok(0, end, rest)
    <3> DEFINE rest == [i \in 0..0 |-> end]
    <3>1. rest \in [0..0 -> Message] /\ rest[0] = end
      OBVIOUS
    <3> HIDE DEF rest
    <3>2. Ok(0, end, rest)
      BY <1>1, <3>1, Join
    <3> HIDE DEF Ok
    <3> QED BY <3>1, <3>2
  <2> HIDE DEF Ok
  <2> QED BY <2>1
<1>3. ASSUME NEW k \in 0..n - 1, k \in S PROVE k + 1 \in S
  <2> SUFFICES ASSUME NEW end \in Message
               PROVE  \E rest \in [0..k + 1 -> Message] : Ok(k + 1, end, rest)
    <3> HIDE DEF Ok
    <3> QED OBVIOUS
  <2> DEFINE more == enc[k + 1] \o end
  <2>1. /\ k + 1 \in 1..n /\ enc[k + 1] \in Message /\ w[k] \in Message /\ more \in Message
        /\ w[k + 1] = w[k] \o enc[k + 1]
    <3>1. k + 1 \in 1..n /\ (k + 1) - 1 = k
      OBVIOUS
    <3>2. enc[k + 1] \in Message /\ w[k] \in Message
      BY <3>1
    <3>3. more \in Message
      BY <3>2, Join
    <3>4. w[k + 1] = w[(k + 1) - 1] \o enc[k + 1]
      BY <1>1, <3>1
    <3> QED BY <3>1, <3>2, <3>3, <3>4
  <2>2. PICK old \in [0..k -> Message] : Ok(k, more, old)
    <3> HIDE DEF Ok, more
    <3> QED BY <1>3, <2>1
  <2> DEFINE rest == [i \in 0..k + 1 |-> IF i = k + 1 THEN end ELSE old[i]]
  <2>3. rest \in [0..k + 1 -> Message] /\ rest[k + 1] = end /\ \A i \in 0..k : rest[i] = old[i]
    OBVIOUS
  <2> HIDE DEF rest
  <2>4. rest[0] = w[k + 1] \o end
    <3>1. rest[0] = w[k] \o more
      <4>1. rest[0] = old[0]
        BY <2>3
      <4> QED BY <2>2, <4>1
    <3>2. w[k] \o more = (w[k] \o enc[k + 1]) \o end
      BY <2>1, Join
    <3> QED BY <2>1, <3>1, <3>2
  <2>5. \A i \in 1..k + 1 : rest[i - 1] = enc[i] \o rest[i]
    <3> SUFFICES ASSUME NEW i \in 1..k + 1 PROVE rest[i - 1] = enc[i] \o rest[i]
      OBVIOUS
    <3>1. i - 1 \in 0..k /\ rest[i - 1] = old[i - 1]
      BY <2>3
    <3>2. CASE i = k + 1
      <4>1. rest[i - 1] = old[k] /\ rest[i] = end
        BY <2>3, <3>1, <3>2
      <4>2. old[k] = more
        BY <2>2
      <4> QED BY <3>2, <4>1, <4>2
    <3>3. CASE i # k + 1
      <4>1. i \in 1..k /\ i \in 0..k
        BY <3>3
      <4> QED BY <2>2, <2>3, <3>1, <4>1
    <3> QED BY <3>2, <3>3
  <2>6. Ok(k + 1, end, rest)
    BY <2>3, <2>4, <2>5
  <2> HIDE DEF Ok
  <2> QED BY <2>3, <2>6
<1> HIDE DEF S
<1>4. 0..n \subseteq S
  BY <1>2, <1>3, BoundedInduction
<1>5. \E rest \in [0..n -> Message] : Ok(n, r, rest)
  <2> HIDE DEF Ok
  <2> QED BY <1>4 DEF S
<1>6. FlattenSeq(enc) \in Message
  <2>1. n \in 0..n
    OBVIOUS
  <2> QED BY <1>1, <2>1
<1>7. \E rest \in [0..n -> Message] : /\ rest[0] = FlattenSeq(enc) \o r /\ rest[n] = r
                                      /\ \A i \in 1..n : rest[i - 1] = enc[i] \o rest[i]
  BY <1>1, <1>5
<1> QED BY <1>6, <1>7 DEF Rests

(* The decoder takes exactly the bytes e, whatever follows, and gives v.    *)
Parses(decoder, e, v) == e \in Message /\ \A s \in Message : decoder[e \o s] = Done(v, s)

(* The decoders of the parts of a message, in the order of the parts.       *)
Pieces(n, parts, V, vs, enc) ==
    /\ n \in Nat /\ Len(parts) = n /\ vs \in Seq(V) /\ Len(vs) = n /\ enc \in [1..n -> Message]
    /\ \A i \in 1..n : Parses(parts[i], enc[i], vs[i])

LEMMA InOrderFlattened ==
    ASSUME NEW n, NEW parts, NEW V, NEW vs, NEW enc, Pieces(n, parts, V, vs, enc), NEW r \in Message
    PROVE  /\ FlattenSeq(enc) \in Message /\ FlattenSeq(enc) \o r \in Message
           /\ InOrder(parts, FlattenSeq(enc) \o r) = Done(vs, r)
<1>0. n \in Nat /\ Len(parts) = n /\ vs \in Seq(V) /\ Len(vs) = n /\ enc \in [1..n -> Message]
  BY DEF Pieces
<1>1. FlattenSeq(enc) \in Message /\ FlattenSeq(enc) \o r \in Message
  BY <1>0, Flattened, Join
<1>2. PICK rest \in Rests(n, enc, r) : TRUE
  BY <1>0, Flattened
<1>3. /\ rest \in [0..n -> Message] /\ rest[0] = FlattenSeq(enc) \o r /\ rest[n] = r
      /\ \A i \in 1..n : rest[i - 1] = enc[i] \o rest[i]
  BY DEF Rests
<1>4. \A i \in 1..n : parts[i][rest[i - 1]] = Done(vs[i], rest[i])
  <2> TAKE i \in 1..n
  <2>1. rest[i] \in Message /\ rest[i - 1] = enc[i] \o rest[i]
    BY <1>0, <1>3
  <2>2. Parses(parts[i], enc[i], vs[i])
    BY DEF Pieces
  <2> QED BY <2>1, <2>2 DEF Parses
<1>5. Chain(n, parts, V, vs, rest)
  BY <1>0, <1>3, <1>4 DEF Chain
<1>6. InOrder(parts, rest[0]) = Done(vs, rest[n])
  BY <1>5, InOrderChain
<1> QED BY <1>1, <1>3, <1>6

-----------------------------------------------------------------------------
(* One lemma for each type.                                                *)

LEMMA PutIsWrite == \A n, k : PutNumber(n, k) = Write(n, k)
BY DEF PutNumber, Write

LEMMA HoldsOne == Holds[1] = Byte
BY HoldsGrows, WidthAssumption

LEMMA ParseNumber ==
    ASSUME NEW k \in Nat, NEW n \in 0..Holds[k] - 1
    PROVE  Parses([m \in Message |-> Read(m, k)], PutNumber(n, k), n)
<1>1. n \in Nat
  BY HoldsGrows
<1>2. PutNumber(n, k) \in Message
  BY <1>1, WriteIsMessage, PutIsWrite
<1>3. ASSUME NEW s \in Message
      PROVE  PutNumber(n, k) \o s \in Message /\ Read(PutNumber(n, k) \o s, k) = Done(n, s)
  BY ReadWrite, PutIsWrite
<1> QED BY <1>2, <1>3 DEF Parses

LEMMA ParseU8 == \A n \in 0..Byte - 1 : Parses(DecodeU8, PutNumber(n, 1), n)
BY ParseNumber, HoldsOne DEF DecodeU8

LEMMA ParseU32 == \A n \in 0..Holds[Len32] - 1 : Parses(DecodeU32, PutNumber(n, Len32), n)
BY ParseNumber, WidthAssumption DEF DecodeU32

LEMMA ParseU64 == \A n \in 0..Holds[Len64] - 1 : Parses(DecodeU64, PutU64(n), n)
BY ParseNumber, WidthAssumption DEF DecodeU64, PutU64

LEMMA ParseOpaque == \A n \in 0..Holds[Len64] - 1 : Parses(DecodeOpaque, PutU64(n), n)
BY ParseNumber, WidthAssumption DEF DecodeOpaque, PutU64

(* The numbers that an i32 gives back as they are.                         *)
Small == {n \in Nat : 2 * n < Holds[Len32]}

LEMMA ParseI32 == \A n \in Small : Parses(DecodeI32, PutNumber(n, Len32), n)
<1> SUFFICES ASSUME NEW n \in Small PROVE Parses(DecodeI32, PutNumber(n, Len32), n)
  OBVIOUS
<1>1. n \in 0..Holds[Len32] - 1 /\ 2 * n < Holds[Len32] /\ Len32 \in Nat /\ n \in Nat
  BY HoldsGrows, WidthAssumption DEF Small
<1>2. PutNumber(n, Len32) \in Message
  BY <1>1, WriteIsMessage, PutIsWrite
<1>3. ASSUME NEW s \in Message PROVE DecodeI32[PutNumber(n, Len32) \o s] = Done(n, s)
  <2> DEFINE m == PutNumber(n, Len32) \o s
             a == Read(m, Len32)
  <2>1. m \in Message /\ a = Done(n, s)
    BY <1>1, ReadWrite, PutIsWrite
  <2> HIDE DEF m
  <2>2. DecodeI32[m] = IF a.ok THEN Done(IF 2 * a.v < Holds[Len32] THEN a.v ELSE a.v - Holds[Len32], a.rest)
                       ELSE Panic
    BY <2>1 DEF DecodeI32, Then
  <2>3. a.ok /\ a.v = n /\ a.rest = s
    <3> HIDE DEF a
    <3> QED BY <2>1, ThenDone
  <2> HIDE DEF a
  <2> QED BY <1>1, <2>2, <2>3 DEF m
<1> QED BY <1>2, <1>3 DEF Parses

LEMMA ParseBool == \A b \in BOOLEAN : Parses(DecodeBool, PutNumber(IF b THEN 1 ELSE 0, 1), b)
<1> SUFFICES ASSUME NEW b \in BOOLEAN PROVE Parses(DecodeBool, PutNumber(IF b THEN 1 ELSE 0, 1), b)
  OBVIOUS
<1> DEFINE n == IF b THEN 1 ELSE 0
<1>1. n \in 0..Holds[1] - 1 /\ n \in Nat /\ (n # 0) = b
  BY HoldsOne, WidthAssumption
<1> HIDE DEF n
<1>2. PutNumber(n, 1) \in Message
  BY <1>1, WriteIsMessage, PutIsWrite
<1>3. ASSUME NEW s \in Message PROVE DecodeBool[PutNumber(n, 1) \o s] = Done(b, s)
  <2> DEFINE m == PutNumber(n, 1) \o s
             a == Read(m, 1)
  <2>1. m \in Message /\ a = Done(n, s)
    BY <1>1, ReadWrite, PutIsWrite
  <2> HIDE DEF m
  <2>2. DecodeBool[m] = IF a.ok THEN Done(a.v # 0, a.rest) ELSE Panic
    BY <2>1 DEF DecodeBool, Then
  <2>3. a.ok /\ a.v = n /\ a.rest = s
    <3> HIDE DEF a
    <3> QED BY <2>1, ThenDone
  <2> HIDE DEF a
  <2> QED BY <1>1, <2>2, <2>3 DEF m
<1> QED BY <1>2, <1>3 DEF Parses, n

LEMMA ParseUnit == Parses(DecodeUnit, <<>>, "unit")
BY Join DEF Parses, DecodeUnit

-----------------------------------------------------------------------------
(* Lists, options and structures of types that parse.                      *)

LEMMA ParseThen ==
    ASSUME NEW decoder, NEW e, NEW v, Parses(decoder, e, v), NEW s \in Message
    PROVE  /\ e \in Message /\ e \o s \in Message
           /\ decoder[e \o s].ok /\ decoder[e \o s].v = v /\ decoder[e \o s].rest = s
<1>1. e \in Message /\ decoder[e \o s] = Done(v, s)
  BY DEF Parses
<1>2. e \o s \in Message
  BY <1>1, Join
<1> DEFINE d == decoder[e \o s]
<1>3. d = Done(v, s)
  BY <1>1
<1> HIDE DEF d
<1>4. d.ok /\ d.v = v /\ d.rest = s
  BY <1>3, ThenDone
<1> QED BY <1>1, <1>2, <1>4 DEF d

(* Lists that an i32 can count.                                            *)
Lists(V) == {s \in Seq(V) : Len(s) \in Small}

ListOf(item, V, s, enc) ==
    /\ s \in Lists(V) /\ enc \in [1..Len(s) -> Message]
    /\ \A i \in 1..Len(s) : Parses(item, enc[i], s[i])

LEMMA ParseVec ==
    ASSUME NEW item, NEW V, NEW s, NEW enc, ListOf(item, V, s, enc)
    PROVE  Parses(DecodeVec(item), PutNumber(Len(s), Len32) \o FlattenSeq(enc), s)
<1> DEFINE n     == Len(s)
           parts == [i \in 1..n |-> item]
           head  == PutNumber(n, Len32)
           body  == FlattenSeq(enc)
<1>1. n \in Nat /\ n \in Small /\ s \in Seq(V) /\ enc \in [1..n -> Message]
      /\ \A i \in 1..n : Parses(item, enc[i], s[i])
  BY DEF ListOf, Lists
<1>2. Pieces(n, parts, V, s, enc)
  <2>1. Len(parts) = n /\ \A i \in 1..n : parts[i] = item
    BY <1>1
  <2> HIDE DEF parts
  <2> QED BY <1>1, <2>1 DEF Pieces
<1>3. Parses(DecodeI32, head, n)
  BY <1>1, ParseI32
<1>4. body \in Message
  BY <1>2, InOrderFlattened, Join
<1>5. head \in Message
  BY <1>3 DEF Parses
<1>6. ASSUME NEW r \in Message PROVE DecodeVec(item)[(head \o body) \o r] = Done(s, r)
  <2>1. body \o r \in Message /\ InOrder(parts, body \o r) = Done(s, r)
    BY <1>2, InOrderFlattened
  <2> DEFINE m == head \o (body \o r)
             a == DecodeI32[m]
  <2>2. (head \o body) \o r = m
    BY <1>4, <1>5, Join
  <2>3. m \in Message /\ a.ok /\ a.v = n /\ a.rest = body \o r
    <3> DEFINE e == body \o r
    <3>1. e \in Message
      BY <2>1
    <3> HIDE DEF head, body, n, e
    <3>2. head \o e \in Message /\ DecodeI32[head \o e].ok /\ DecodeI32[head \o e].v = n
          /\ DecodeI32[head \o e].rest = e
      BY <1>3, <3>1, ParseThen
    <3> QED BY <3>2 DEF e
  <2> HIDE DEF m
  <2>4. DecodeVec(item)[m] = IF a.ok THEN IF a.v < 0 THEN Panic ELSE InOrder([i \in 1..a.v |-> item], a.rest)
                             ELSE Panic
    BY <2>3 DEF DecodeVec, Then
  <2> HIDE DEF a
  <2>5. ~(a.v < 0) /\ [i \in 1..a.v |-> item] = parts
    BY <1>1, <2>3
  <2> HIDE DEF parts
  <2> QED BY <2>1, <2>2, <2>3, <2>4, <2>5
<1>7. head \o body \in Message
  BY <1>4, <1>5, Join
<1> QED BY <1>6, <1>7 DEF Parses

LEMMA ItemsOf == ASSUME NEW S, NEW s \in Seq(S) PROVE \A i \in 1..Len(s) : s[i] \in S
OBVIOUS

ByteStrings == Lists(0..Byte - 1)
Utf8        == {s \in ByteStrings : \A i \in 1..Len(s) : s[i] # Byte - 1}

LEMMA ParseBytes == \A s \in ByteStrings : Parses(DecodeBytes, PutBytes(s), s)
<1> SUFFICES ASSUME NEW s \in ByteStrings PROVE Parses(DecodeBytes, PutBytes(s), s)
  OBVIOUS
<1> DEFINE enc == [i \in DOMAIN s |-> PutNumber(s[i], 1)]
<1>1. s \in Lists(0..Byte - 1) /\ s \in Seq(0..Byte - 1) /\ DOMAIN s = 1..Len(s)
  BY DEF ByteStrings, Lists
<1>2. \A i \in 1..Len(s) : s[i] \in 0..Byte - 1
  BY <1>1, ItemsOf
<1>3. \A i \in 1..Len(s) : Parses(DecodeU8, PutNumber(s[i], 1), s[i]) /\ PutNumber(s[i], 1) \in Message
  BY <1>2, ParseU8 DEF Parses
<1>4. enc \in [1..Len(s) -> Message] /\ \A i \in 1..Len(s) : enc[i] = PutNumber(s[i], 1)
  BY <1>1, <1>3
<1>5. PutBytes(s) = PutNumber(Len(s), Len32) \o FlattenSeq(enc)
  BY DEF PutBytes, PutList
<1> HIDE DEF enc
<1>6. ListOf(DecodeU8, 0..Byte - 1, s, enc)
  BY <1>1, <1>3, <1>4 DEF ListOf
<1> QED BY <1>5, <1>6, ParseVec DEF DecodeBytes

LEMMA ParseString == \A s \in Utf8 : Parses(DecodeString, PutBytes(s), s)
<1> SUFFICES ASSUME NEW s \in Utf8 PROVE Parses(DecodeString, PutBytes(s), s)
  OBVIOUS
<1>1. s \in ByteStrings /\ Byte - 1 \notin Range(s)
  BY DEF Utf8, Range, ByteStrings, Lists
<1>2. Parses(DecodeBytes, PutBytes(s), s)
  BY <1>1, ParseBytes
<1>3. ASSUME NEW r \in Message PROVE DecodeString[PutBytes(s) \o r] = Done(s, r)
  <2> DEFINE m == PutBytes(s) \o r
             a == DecodeBytes[m]
  <2>1. m \in Message /\ a.ok /\ a.v = s /\ a.rest = r
    BY <1>2, ParseThen
  <2> HIDE DEF m
  <2>2. DecodeString[m] = IF a.ok THEN IF Byte - 1 \in Range(a.v) THEN Panic ELSE Done(a.v, a.rest) ELSE Panic
    BY <2>1 DEF DecodeString, Then
  <2> HIDE DEF a
  <2> QED BY <1>1, <2>1, <2>2 DEF m
<1> QED BY <1>2, <1>3 DEF Parses

(* A list of strings, of a type that parses.                               *)
LEMMA ParseStrings ==
    ASSUME NEW item, NEW V, \A s \in V : Parses(item, PutBytes(s), s), NEW ss \in Lists(V)
    PROVE  Parses(DecodeVec(item), PutList(PutBytes, ss), ss)
<1> DEFINE enc == [i \in DOMAIN ss |-> PutBytes(ss[i])]
<1>1. ss \in Seq(V) /\ DOMAIN ss = 1..Len(ss)
  BY DEF Lists
<1>2. \A i \in 1..Len(ss) : Parses(item, PutBytes(ss[i]), ss[i]) /\ PutBytes(ss[i]) \in Message
  <2>1. \A i \in 1..Len(ss) : ss[i] \in V
    BY <1>1
  <2> QED BY <2>1 DEF Parses
<1>3. enc \in [1..Len(ss) -> Message] /\ \A i \in 1..Len(ss) : enc[i] = PutBytes(ss[i])
  BY <1>1, <1>2
<1>4. PutList(PutBytes, ss) = PutNumber(Len(ss), Len32) \o FlattenSeq(enc)
  BY DEF PutList
<1> HIDE DEF enc
<1>5. ListOf(item, V, ss, enc)
  BY <1>2, <1>3 DEF ListOf
<1> QED BY <1>4, <1>5, ParseVec

LEMMA ParseListString == \A ss \in Lists(Utf8) : Parses(DecodeListString, PutList(PutBytes, ss), ss)
BY ParseString, ParseStrings DEF DecodeListString

LEMMA ParseListBytes == \A ss \in Lists(ByteStrings) : Parses(DecodeListBytes, PutList(PutBytes, ss), ss)
BY ParseBytes, ParseStrings DEF DecodeListBytes

LEMMA ParseNone == ASSUME NEW item PROVE Parses(DecodeOption(item), PutNumber(0, 1), <<>>)
<1> DEFINE e  == PutNumber(0, 1)
           no == FALSE
<1>0. e = PutNumber(IF no THEN 1 ELSE 0, 1) /\ no \in BOOLEAN
  OBVIOUS
<1> HIDE DEF e, no
<1>1. Parses(DecodeBool, e, no)
  BY <1>0, ParseBool
<1>2. ASSUME NEW r \in Message PROVE DecodeOption(item)[e \o r] = Done(<<>>, r)
  <2> DEFINE m == e \o r
             a == DecodeBool[m]
  <2>1. m \in Message /\ a.ok /\ a.v = no /\ a.rest = r
    BY <1>1, ParseThen
  <2> HIDE DEF m
  <2>2. DecodeOption(item)[m] =
          IF a.ok THEN IF a.v THEN Then(item[a.rest], LAMBDA v, s : Done(<<v>>, s)) ELSE Done(<<>>, a.rest)
          ELSE Panic
    BY <2>1 DEF DecodeOption, Then
  <2> HIDE DEF a
  <2> QED BY <2>1, <2>2 DEF m, no
<1> QED BY <1>1, <1>2 DEF Parses, e

LEMMA ParseSome ==
    ASSUME NEW item, NEW e, NEW v, Parses(item, e, v)
    PROVE  Parses(DecodeOption(item), PutNumber(1, 1) \o e, <<v>>)
<1> DEFINE f   == PutNumber(1, 1)
           yes == TRUE
<1>0. f = PutNumber(IF yes THEN 1 ELSE 0, 1) /\ yes \in BOOLEAN
  OBVIOUS
<1> HIDE DEF f, yes
<1>1. Parses(DecodeBool, f, yes)
  BY <1>0, ParseBool
<1>2. e \in Message /\ f \in Message /\ f \o e \in Message
  BY <1>1, Join DEF Parses
<1>3. ASSUME NEW r \in Message PROVE DecodeOption(item)[(f \o e) \o r] = Done(<<v>>, r)
  <2> DEFINE t == e \o r
             m == f \o t
             a == DecodeBool[m]
             b == item[t]
  <2>0. t \in Message /\ b.ok /\ b.v = v /\ b.rest = r
    BY ParseThen
  <2>1. (f \o e) \o r = m
    BY <1>2, Join
  <2> HIDE DEF t, b
  <2>2. m \in Message /\ a.ok /\ a.v = yes /\ a.rest = t
    BY <1>1, <2>0, ParseThen
  <2> HIDE DEF m
  <2>3. DecodeOption(item)[m] =
          IF a.ok THEN IF a.v THEN IF item[a.rest].ok THEN Done(<<item[a.rest].v>>, item[a.rest].rest) ELSE Panic
                       ELSE Done(<<>>, a.rest)
          ELSE Panic
    BY <2>2 DEF DecodeOption, Then
  <2> HIDE DEF a
  <2>4. item[a.rest] = b
    BY <2>2 DEF b
  <2> QED BY <2>0, <2>1, <2>2, <2>3, <2>4 DEF yes
<1> QED BY <1>2, <1>3 DEF Parses, f

Options(V) == {<<>>} \cup {<<v>> : v \in V}

LEMMA ParseOptBytes == \A o \in Options(ByteStrings) : Parses(DecodeOptBytes, PutOption(PutBytes, o), o)
<1> SUFFICES ASSUME NEW o \in Options(ByteStrings) PROVE Parses(DecodeOptBytes, PutOption(PutBytes, o), o)
  OBVIOUS
<1>1. CASE o = <<>>
  <2>1. PutOption(PutBytes, o) = PutNumber(0, 1)
    BY <1>1 DEF PutOption
  <2> QED BY <1>1, <2>1, ParseNone DEF DecodeOptBytes
<1>2. CASE o # <<>>
  <2>1. PICK v \in ByteStrings : o = <<v>>
    BY <1>2 DEF Options
  <2>2. PutOption(PutBytes, o) = PutNumber(1, 1) \o PutBytes(v)
    BY <2>1 DEF PutOption
  <2>3. Parses(DecodeBytes, PutBytes(v), v)
    BY <2>1, ParseBytes
  <2> QED BY <2>1, <2>2, <2>3, ParseSome DEF DecodeOptBytes
<1> QED BY <1>1, <1>2

PartsOf == ByteStrings \X Lists(Utf8) \X Lists(Utf8)

LEMMA ParseAddrParts == \A p \in PartsOf : Parses(DecodeEndpointAddrParts, PutAddrParts(p), p)
<1> SUFFICES ASSUME NEW p \in PartsOf PROVE Parses(DecodeEndpointAddrParts, PutAddrParts(p), p)
  OBVIOUS
<1> DEFINE parts == <<DecodeBytes, DecodeListString, DecodeListString>>
           a == PutBytes(p[1])
           b == PutList(PutBytes, p[2])
           c == PutList(PutBytes, p[3])
           V == {p[1], p[2], p[3]}
<1>1. p[1] \in ByteStrings /\ p[2] \in Lists(Utf8) /\ p[3] \in Lists(Utf8) /\ p \in Seq(V) /\ Len(p) = 3
  <2>1. PICK x \in ByteStrings, y \in Lists(Utf8), z \in Lists(Utf8) : p = <<x, y, z>>
    BY DEF PartsOf
  <2>2. p[1] = x /\ p[2] = y /\ p[3] = z /\ p \in Seq({x, y, z}) /\ Len(p) = 3
    BY <2>1
  <2> QED BY <2>1, <2>2
<1>2. Parses(DecodeBytes, a, p[1]) /\ Parses(DecodeListString, b, p[2]) /\ Parses(DecodeListString, c, p[3])
  BY <1>1, ParseBytes, ParseListString
<1>3. PutAddrParts(p) = (a \o b) \o c
  BY DEF PutAddrParts
<1> HIDE DEF a, b, c
<1>4. a \in Message /\ b \in Message /\ c \in Message /\ a \o b \in Message /\ (a \o b) \o c \in Message
  BY <1>2, Join DEF Parses
<1>5. ASSUME NEW r \in Message PROVE DecodeEndpointAddrParts[((a \o b) \o c) \o r] = Done(p, r)
  <2> DEFINE r2 == c \o r
             r1 == b \o r2
             r0 == a \o r1
             rest == [i \in 0..3 |-> IF i = 0 THEN r0 ELSE IF i = 1 THEN r1 ELSE IF i = 2 THEN r2 ELSE r]
  <2>1. r2 \in Message /\ r1 \in Message /\ r0 \in Message /\ ((a \o b) \o c) \o r = r0
    <3>1. r2 \in Message
      BY <1>4, Join
    <3>2. r1 \in Message
      BY <1>4, <3>1, Join
    <3>3. r0 \in Message
      BY <1>4, <3>2, Join
    <3>4. ((a \o b) \o c) \o r = (a \o b) \o r2
      BY <1>4, Join, ZenonT(60)
    <3>5. (a \o b) \o r2 = r0
      <4> HIDE DEF r2
      <4> QED BY <1>4, <3>1, Join, ZenonT(60)
    <3> QED BY <3>1, <3>2, <3>3, <3>4, <3>5
  <2>2. DecodeBytes[r0] = Done(p[1], r1) /\ DecodeListString[r1] = Done(p[2], r2)
        /\ DecodeListString[r2] = Done(p[3], r)
    <3>1. DecodeListString[r2] = Done(p[3], r)
      BY <1>2 DEF Parses
    <3> HIDE DEF r2
    <3>2. DecodeListString[r1] = Done(p[2], r2)
      BY <1>2, <2>1 DEF Parses
    <3> HIDE DEF r1
    <3>3. DecodeBytes[r0] = Done(p[1], r1)
      BY <1>2, <2>1 DEF Parses
    <3> QED BY <3>1, <3>2, <3>3
  <2> HIDE DEF r0, r1, r2
  <2>3. rest \in [0..3 -> Message] /\ rest[0] = r0 /\ rest[1] = r1 /\ rest[2] = r2 /\ rest[3] = r
    BY <2>1
  <2> HIDE DEF rest
  <2>4. Chain(3, parts, V, p, rest)
    <3>1. Len(parts) = 3 /\ parts[1] = DecodeBytes /\ parts[2] = DecodeListString /\ parts[3] = DecodeListString
      OBVIOUS
    <3> HIDE DEF parts
    <3>2. \A i \in 1..3 : parts[i][rest[i - 1]] = Done(p[i], rest[i])
      BY <2>2, <2>3, <3>1
    <3> QED BY <1>1, <2>3, <3>1, <3>2 DEF Chain
  <2>5. InOrder(parts, r0) = Done(p, r)
    <3> HIDE DEF parts, V
    <3> QED BY <2>3, <2>4, InOrderChain
  <2>6. DecodeEndpointAddrParts[r0] = InOrder(parts, r0)
    BY <2>1 DEF DecodeEndpointAddrParts, Struct
  <2> QED BY <2>1, <2>5, <2>6
<1> QED BY <1>3, <1>4, <1>5 DEF Parses

LEMMA ParseOptAddrParts ==
    \A o \in Options(PartsOf) : Parses(DecodeOptEndpointAddrParts, PutOption(PutAddrParts, o), o)
<1> SUFFICES ASSUME NEW o \in Options(PartsOf)
             PROVE  Parses(DecodeOptEndpointAddrParts, PutOption(PutAddrParts, o), o)
  OBVIOUS
<1>1. CASE o = <<>>
  <2>1. PutOption(PutAddrParts, o) = PutNumber(0, 1)
    BY <1>1 DEF PutOption
  <2> QED BY <1>1, <2>1, ParseNone DEF DecodeOptEndpointAddrParts
<1>2. CASE o # <<>>
  <2>1. PICK p \in PartsOf : o = <<p>>
    BY <1>2 DEF Options
  <2>2. PutOption(PutAddrParts, o) = PutNumber(1, 1) \o PutAddrParts(p)
    BY <2>1 DEF PutOption
  <2>3. Parses(DecodeEndpointAddrParts, PutAddrParts(p), p)
    BY <2>1, ParseAddrParts
  <2> QED BY <2>1, <2>2, <2>3, ParseSome DEF DecodeOptEndpointAddrParts
<1> QED BY <1>1, <1>2

-----------------------------------------------------------------------------
(* Every type that Dart sends.                                             *)

ArgTypes == OpaqueTypes \cup {"u64", "usize", "DartFn", "u32", "i32", "unit", "bool", "String", "StreamSink",
                              "Bytes", "OptBytes", "ListString", "ListBytes", "AddrParts", "OptAddrParts"}

(* What Dart can send: the numbers an i32, u32 or u64 holds, the strings and *)
(* lists whose length an i32 holds.  A negative relayMode does not come up.  *)
Values(type) ==
    CASE type \in OpaqueTypes \cup {"u64", "usize", "DartFn"} -> 0..Holds[Len64] - 1
      [] type = "u32"          -> 0..Holds[Len32] - 1
      [] type = "i32"          -> Small
      [] type = "unit"         -> {"unit"}
      [] type = "bool"         -> BOOLEAN
      [] type \in {"String", "StreamSink"} -> Utf8
      [] type = "Bytes"        -> ByteStrings
      [] type = "OptBytes"     -> Options(ByteStrings)
      [] type = "ListString"   -> Lists(Utf8)
      [] type = "ListBytes"    -> Lists(ByteStrings)
      [] type = "AddrParts"    -> PartsOf
      [] type = "OptAddrParts" -> Options(PartsOf)

(* The native decoder of a type takes exactly the bytes that Dart writes    *)
(* for a value of it, whatever follows them, and gives that value.          *)
THEOREM RoundTrip ==
    \A type \in ArgTypes : \A v \in Values(type) : Parses(Decoder(type), DartWrites(type, v), v)
<1> SUFFICES ASSUME NEW type \in ArgTypes, NEW v \in Values(type)
             PROVE  Parses(Decoder(type), DartWrites(type, v), v)
  OBVIOUS
<1>1. CASE type \in OpaqueTypes
  <2>1. v \in 0..Holds[Len64] - 1
    BY <1>1 DEF Values, OpaqueTypes
  <2>2. Decoder(type) = DecodeOpaque /\ DartWrites(type, v) = PutU64(v)
    BY <1>1 DEF Decoder, DartWrites, OpaqueTypes
  <2> QED BY <2>1, <2>2, ParseOpaque
<1>2. CASE type \in {"u64", "usize", "DartFn"}
  <2>1. v \in 0..Holds[Len64] - 1
    BY <1>2 DEF Values
  <2>2. Decoder(type) = DecodeU64 /\ DartWrites(type, v) = PutU64(v)
    BY <1>2 DEF Decoder, DartWrites, OpaqueTypes
  <2> QED BY <2>1, <2>2, ParseU64
<1>3. CASE type = "u32"
  <2>1. v \in 0..Holds[Len32] - 1
    BY <1>3 DEF Values, OpaqueTypes
  <2>2. Decoder(type) = DecodeU32 /\ DartWrites(type, v) = PutNumber(v, Len32)
    BY <1>3 DEF Decoder, DartWrites, OpaqueTypes
  <2> QED BY <2>1, <2>2, ParseU32
<1>4. CASE type = "i32"
  <2>1. v \in Small
    BY <1>4 DEF Values, OpaqueTypes
  <2>2. Decoder(type) = DecodeI32 /\ DartWrites(type, v) = PutNumber(v, Len32)
    BY <1>4 DEF Decoder, DartWrites, OpaqueTypes
  <2> QED BY <2>1, <2>2, ParseI32
<1>5. CASE type = "unit"
  <2>1. v = "unit"
    BY <1>5 DEF Values, OpaqueTypes
  <2>2. Decoder(type) = DecodeUnit /\ DartWrites(type, v) = <<>>
    BY <1>5 DEF Decoder, DartWrites, OpaqueTypes
  <2> QED BY <2>1, <2>2, ParseUnit
<1>6. CASE type = "bool"
  <2>1. v \in BOOLEAN
    BY <1>6 DEF Values, OpaqueTypes
  <2>2. Decoder(type) = DecodeBool /\ DartWrites(type, v) = PutNumber(IF v THEN 1 ELSE 0, 1)
    BY <1>6 DEF Decoder, DartWrites, OpaqueTypes
  <2> QED BY <2>1, <2>2, ParseBool
<1>7. CASE type \in {"String", "StreamSink"}
  <2>1. v \in Utf8
    BY <1>7 DEF Values, OpaqueTypes
  <2>2. Decoder(type) = DecodeString /\ DartWrites(type, v) = PutBytes(v)
    BY <1>7 DEF Decoder, DartWrites, OpaqueTypes
  <2> QED BY <2>1, <2>2, ParseString
<1>8. CASE type = "Bytes"
  <2>1. v \in ByteStrings
    BY <1>8 DEF Values, OpaqueTypes
  <2>2. Decoder(type) = DecodeBytes /\ DartWrites(type, v) = PutBytes(v)
    BY <1>8 DEF Decoder, DartWrites, OpaqueTypes
  <2> QED BY <2>1, <2>2, ParseBytes
<1>9. CASE type = "OptBytes"
  <2>1. v \in Options(ByteStrings)
    BY <1>9 DEF Values, OpaqueTypes
  <2>2. Decoder(type) = DecodeOptBytes /\ DartWrites(type, v) = PutOption(PutBytes, v)
    BY <1>9 DEF Decoder, DartWrites, OpaqueTypes
  <2> QED BY <2>1, <2>2, ParseOptBytes
<1>10. CASE type = "ListString"
  <2>1. v \in Lists(Utf8)
    BY <1>10 DEF Values, OpaqueTypes
  <2>2. Decoder(type) = DecodeListString /\ DartWrites(type, v) = PutList(PutBytes, v)
    BY <1>10 DEF Decoder, DartWrites, OpaqueTypes
  <2> QED BY <2>1, <2>2, ParseListString
<1>11. CASE type = "ListBytes"
  <2>1. v \in Lists(ByteStrings)
    BY <1>11 DEF Values, OpaqueTypes
  <2>2. Decoder(type) = DecodeListBytes /\ DartWrites(type, v) = PutList(PutBytes, v)
    BY <1>11 DEF Decoder, DartWrites, OpaqueTypes
  <2> QED BY <2>1, <2>2, ParseListBytes
<1>12. CASE type = "AddrParts"
  <2>1. v \in PartsOf
    BY <1>12 DEF Values, OpaqueTypes
  <2>2. Decoder(type) = DecodeEndpointAddrParts /\ DartWrites(type, v) = PutAddrParts(v)
    BY <1>12 DEF Decoder, DartWrites, OpaqueTypes
  <2> QED BY <2>1, <2>2, ParseAddrParts
<1>13. CASE type = "OptAddrParts"
  <2>1. v \in Options(PartsOf)
    BY <1>13 DEF Values, OpaqueTypes
  <2>2. Decoder(type) = DecodeOptEndpointAddrParts /\ DartWrites(type, v) = PutOption(PutAddrParts, v)
    BY <1>13 DEF Decoder, DartWrites, OpaqueTypes
  <2> QED BY <2>1, <2>2, ParseOptAddrParts
<1> QED BY <1>1, <1>2, <1>3, <1>4, <1>5, <1>6, <1>7, <1>8, <1>9, <1>10, <1>11, <1>12, <1>13 DEF ArgTypes

-----------------------------------------------------------------------------
(* The tables of the two bindings.                                         *)

LEMMA Prefixed ==
    /\ \A a : <<a>> \o <<>> = <<a>>
    /\ \A a, b : <<a>> \o <<b>> = <<a, b>>
    /\ \A a, b, c : <<a>> \o <<b, c>> = <<a, b, c>>
<1>1. ASSUME NEW a PROVE <<a>> \o <<>> = <<a>>
  BY ConcatEmptySeq
<1>2. ASSUME NEW a, NEW b PROVE <<a>> \o <<b>> = <<a, b>>
  <2> DEFINE x == <<a>> \o <<b>>
  <2>1. <<a>> \in Seq({a, b}) /\ <<b>> \in Seq({a, b}) /\ <<a, b>> \in Seq({a, b})
    OBVIOUS
  <2>2. x \in Seq({a, b}) /\ Len(x) = 2
    BY <2>1, ConcatProperties
  <2>3. x[1] = a /\ x[2] = b
    BY <2>1
  <2> HIDE DEF x
  <2>4. \A i \in 1..2 : x[i] = <<a, b>>[i]
    BY <2>3
  <2>5. x = <<a, b>>
    BY <2>1, <2>2, <2>4, SameSeq
  <2> QED BY <2>5 DEF x
<1>3. ASSUME NEW a, NEW b, NEW c PROVE <<a>> \o <<b, c>> = <<a, b, c>>
  <2> DEFINE x == <<a>> \o <<b, c>>
  <2>1. <<a>> \in Seq({a, b, c}) /\ <<b, c>> \in Seq({a, b, c}) /\ <<a, b, c>> \in Seq({a, b, c})
    OBVIOUS
  <2>2. x \in Seq({a, b, c}) /\ Len(x) = 3
    BY <2>1, ConcatProperties
  <2>3. x[1] = a /\ x[2] = b /\ x[3] = c
    BY <2>1
  <2> HIDE DEF x
  <2>4. \A i \in 1..3 : x[i] = <<a, b, c>>[i]
    BY <2>3
  <2>5. x = <<a, b, c>>
    BY <2>1, <2>2, <2>4, SameSeq
  <2> QED BY <2>5 DEF x
<1> QED BY <1>1, <1>2, <1>3

(* The method of the Dart binding that a row of the native side is for.     *)
MethodOf(row) ==
    [name |-> row.name, sync |-> IF row.mode = "sync" THEN TRUE ELSE FALSE,
     args |-> RowTypes(row), ret |-> row.ret, err |-> row.err]

Routed(id, table, row) == id \in DOMAIN table /\ table[id] = row
NormalCall(id, row)    == DartMethods[id] = MethodOf(row) /\ ~DartMethods[id].sync
SyncCall(id, row)      == DartMethods[id] = MethodOf(row) /\ DartMethods[id].sync

LEMMA PrimaryRows ==
    /\ Routed(1, PdeDispatchPrimary, Connection_accept_bi)
    /\ Routed(2, PdeDispatchPrimary, Connection_accept_uni)
    /\ Routed(5, PdeDispatchPrimary, Connection_closed)
    /\ Routed(6, PdeDispatchPrimary, Connection_open_bi)
    /\ Routed(7, PdeDispatchPrimary, Connection_open_uni)
    /\ Routed(8, PdeDispatchPrimary, Connection_path_events)
    /\ Routed(9, PdeDispatchPrimary, Connection_read_datagram)
    /\ Routed(10, PdeDispatchPrimary, Connection_read_many_datagrams)
    /\ Routed(16, PdeDispatchPrimary, Endpoint_accept)
    /\ Routed(17, PdeDispatchPrimary, Endpoint_accept_incoming)
    /\ Routed(20, PdeDispatchPrimary, Endpoint_close)
    /\ Routed(21, PdeDispatchPrimary, Endpoint_connect)
    /\ Routed(22, PdeDispatchPrimary, Endpoint_home_relay_status)
    /\ Routed(26, PdeDispatchPrimary, Endpoint_watch_addr)
    /\ Routed(27, PdeDispatchPrimary, Incoming_accept)
    /\ Routed(33, PdeDispatchPrimary, RecvStream_read)
    /\ Routed(34, PdeDispatchPrimary, RecvStream_read_exact)
    /\ Routed(35, PdeDispatchPrimary, RecvStream_read_to_end)
    /\ Routed(36, PdeDispatchPrimary, RecvStream_stop)
    /\ Routed(37, PdeDispatchPrimary, RouterBuilder_accept)
    /\ Routed(38, PdeDispatchPrimary, RouterBuilder_spawn)
    /\ Routed(39, PdeDispatchPrimary, Router_shutdown)
    /\ Routed(40, PdeDispatchPrimary, SendStream_finish)
    /\ Routed(42, PdeDispatchPrimary, SendStream_reset)
    /\ Routed(43, PdeDispatchPrimary, SendStream_write_all)
    /\ Routed(48, PdeDispatchPrimary, endpoint_bind)
    /\ Routed(49, PdeDispatchPrimary, endpoint_bind_with_address_lookup)
    /\ Routed(60, PdeDispatchPrimary, router_builder)
BY DEF Routed, PdeDispatchPrimary

LEMMA SyncRows ==
    /\ Routed(3, PdeDispatchSync, Connection_alpn)
    /\ Routed(4, PdeDispatchSync, Connection_close)
    /\ Routed(11, PdeDispatchSync, Connection_remote_id)
    /\ Routed(12, PdeDispatchSync, Connection_send_datagram)
    /\ Routed(13, PdeDispatchSync, Connection_send_many_datagrams)
    /\ Routed(14, PdeDispatchSync, Connection_stable_id)
    /\ Routed(15, PdeDispatchSync, Connection_stats)
    /\ Routed(18, PdeDispatchSync, Endpoint_addr)
    /\ Routed(19, PdeDispatchSync, Endpoint_bound_sockets)
    /\ Routed(23, PdeDispatchSync, Endpoint_id)
    /\ Routed(24, PdeDispatchSync, Endpoint_is_closed)
    /\ Routed(25, PdeDispatchSync, Endpoint_set_alpns)
    /\ Routed(28, PdeDispatchSync, Incoming_ignore)
    /\ Routed(29, PdeDispatchSync, Incoming_refuse)
    /\ Routed(30, PdeDispatchSync, Incoming_remote_addr)
    /\ Routed(31, PdeDispatchSync, Incoming_retry)
    /\ Routed(32, PdeDispatchSync, RecvStream_id)
    /\ Routed(41, PdeDispatchSync, SendStream_id)
    /\ Routed(44, PdeDispatchSync, cancel_stream)
    /\ Routed(45, PdeDispatchSync, endpoint_addr_decode)
    /\ Routed(46, PdeDispatchSync, endpoint_addr_encode)
    /\ Routed(47, PdeDispatchSync, endpoint_addr_round_trip)
    /\ Routed(50, PdeDispatchSync, irohdart_abi_version)
    /\ Routed(51, PdeDispatchSync, irohdart_iroh_version)
    /\ Routed(52, PdeDispatchSync, public_key_check)
    /\ Routed(53, PdeDispatchSync, public_key_fmt_short)
    /\ Routed(54, PdeDispatchSync, public_key_from_hex)
    /\ Routed(55, PdeDispatchSync, public_key_from_z32)
    /\ Routed(56, PdeDispatchSync, public_key_to_hex)
    /\ Routed(57, PdeDispatchSync, public_key_to_z32)
    /\ Routed(58, PdeDispatchSync, public_key_verify)
    /\ Routed(59, PdeDispatchSync, relay_url_parse)
    /\ Routed(61, PdeDispatchSync, secret_key_generate)
    /\ Routed(62, PdeDispatchSync, secret_key_public)
    /\ Routed(63, PdeDispatchSync, secret_key_sign)
BY DEF Routed, PdeDispatchSync

LEMMA NormalMethods ==
    /\ NormalCall(1, Connection_accept_bi)
    /\ NormalCall(2, Connection_accept_uni)
    /\ NormalCall(5, Connection_closed)
    /\ NormalCall(6, Connection_open_bi)
    /\ NormalCall(7, Connection_open_uni)
    /\ NormalCall(8, Connection_path_events)
    /\ NormalCall(9, Connection_read_datagram)
    /\ NormalCall(10, Connection_read_many_datagrams)
    /\ NormalCall(16, Endpoint_accept)
    /\ NormalCall(17, Endpoint_accept_incoming)
    /\ NormalCall(20, Endpoint_close)
    /\ NormalCall(21, Endpoint_connect)
    /\ NormalCall(22, Endpoint_home_relay_status)
    /\ NormalCall(26, Endpoint_watch_addr)
    /\ NormalCall(27, Incoming_accept)
    /\ NormalCall(33, RecvStream_read)
    /\ NormalCall(34, RecvStream_read_exact)
    /\ NormalCall(35, RecvStream_read_to_end)
    /\ NormalCall(36, RecvStream_stop)
    /\ NormalCall(37, RouterBuilder_accept)
    /\ NormalCall(38, RouterBuilder_spawn)
    /\ NormalCall(39, Router_shutdown)
    /\ NormalCall(40, SendStream_finish)
    /\ NormalCall(42, SendStream_reset)
    /\ NormalCall(43, SendStream_write_all)
    /\ NormalCall(48, endpoint_bind)
    /\ NormalCall(49, endpoint_bind_with_address_lookup)
    /\ NormalCall(60, router_builder)
<1>1. /\ NormalCall(1, Connection_accept_bi)
      /\ NormalCall(2, Connection_accept_uni)
      /\ NormalCall(5, Connection_closed)
      /\ NormalCall(6, Connection_open_bi)
      /\ NormalCall(7, Connection_open_uni)
      /\ NormalCall(8, Connection_path_events)
      /\ NormalCall(9, Connection_read_datagram)
      /\ NormalCall(10, Connection_read_many_datagrams)
  BY Prefixed DEF NormalCall, MethodOf, DartMethods, Sync, Normal, RowTypes, Shared, Exclusive, NoObject,
         Call, Connection_accept_bi, Connection_accept_uni, Connection_closed, Connection_open_bi,
         Connection_open_uni, Connection_path_events, Connection_read_datagram,
         Connection_read_many_datagrams
<1>2. /\ NormalCall(16, Endpoint_accept)
      /\ NormalCall(17, Endpoint_accept_incoming)
      /\ NormalCall(20, Endpoint_close)
      /\ NormalCall(21, Endpoint_connect)
      /\ NormalCall(22, Endpoint_home_relay_status)
      /\ NormalCall(26, Endpoint_watch_addr)
      /\ NormalCall(27, Incoming_accept)
  BY Prefixed DEF NormalCall, MethodOf, DartMethods, Sync, Normal, RowTypes, Shared, Exclusive, NoObject,
         Call, Endpoint_accept, Endpoint_accept_incoming, Endpoint_close, Endpoint_connect,
         Endpoint_home_relay_status, Endpoint_watch_addr, Incoming_accept
<1>3. /\ NormalCall(33, RecvStream_read)
      /\ NormalCall(34, RecvStream_read_exact)
      /\ NormalCall(35, RecvStream_read_to_end)
      /\ NormalCall(36, RecvStream_stop)
      /\ NormalCall(37, RouterBuilder_accept)
      /\ NormalCall(38, RouterBuilder_spawn)
      /\ NormalCall(39, Router_shutdown)
  BY Prefixed DEF NormalCall, MethodOf, DartMethods, Sync, Normal, RowTypes, Shared, Exclusive, NoObject,
         Call, RecvStream_read, RecvStream_read_exact, RecvStream_read_to_end, RecvStream_stop,
         RouterBuilder_accept, RouterBuilder_spawn, Router_shutdown
<1>4. /\ NormalCall(40, SendStream_finish)
      /\ NormalCall(42, SendStream_reset)
      /\ NormalCall(43, SendStream_write_all)
      /\ NormalCall(48, endpoint_bind)
      /\ NormalCall(49, endpoint_bind_with_address_lookup)
      /\ NormalCall(60, router_builder)
  BY Prefixed DEF NormalCall, MethodOf, DartMethods, Sync, Normal, RowTypes, Shared, Exclusive, NoObject,
         Call, SendStream_finish, SendStream_reset, SendStream_write_all, endpoint_bind,
         endpoint_bind_with_address_lookup, router_builder
<1> QED BY <1>1, <1>2, <1>3, <1>4

LEMMA SyncMethods ==
    /\ SyncCall(3, Connection_alpn)
    /\ SyncCall(4, Connection_close)
    /\ SyncCall(11, Connection_remote_id)
    /\ SyncCall(12, Connection_send_datagram)
    /\ SyncCall(13, Connection_send_many_datagrams)
    /\ SyncCall(14, Connection_stable_id)
    /\ SyncCall(15, Connection_stats)
    /\ SyncCall(18, Endpoint_addr)
    /\ SyncCall(19, Endpoint_bound_sockets)
    /\ SyncCall(23, Endpoint_id)
    /\ SyncCall(24, Endpoint_is_closed)
    /\ SyncCall(25, Endpoint_set_alpns)
    /\ SyncCall(28, Incoming_ignore)
    /\ SyncCall(29, Incoming_refuse)
    /\ SyncCall(30, Incoming_remote_addr)
    /\ SyncCall(31, Incoming_retry)
    /\ SyncCall(32, RecvStream_id)
    /\ SyncCall(41, SendStream_id)
    /\ SyncCall(44, cancel_stream)
    /\ SyncCall(45, endpoint_addr_decode)
    /\ SyncCall(46, endpoint_addr_encode)
    /\ SyncCall(47, endpoint_addr_round_trip)
    /\ SyncCall(50, irohdart_abi_version)
    /\ SyncCall(51, irohdart_iroh_version)
    /\ SyncCall(52, public_key_check)
    /\ SyncCall(53, public_key_fmt_short)
    /\ SyncCall(54, public_key_from_hex)
    /\ SyncCall(55, public_key_from_z32)
    /\ SyncCall(56, public_key_to_hex)
    /\ SyncCall(57, public_key_to_z32)
    /\ SyncCall(58, public_key_verify)
    /\ SyncCall(59, relay_url_parse)
    /\ SyncCall(61, secret_key_generate)
    /\ SyncCall(62, secret_key_public)
    /\ SyncCall(63, secret_key_sign)
<1>1. /\ SyncCall(3, Connection_alpn)
      /\ SyncCall(4, Connection_close)
      /\ SyncCall(11, Connection_remote_id)
      /\ SyncCall(12, Connection_send_datagram)
      /\ SyncCall(13, Connection_send_many_datagrams)
  BY Prefixed DEF SyncCall, MethodOf, DartMethods, Sync, Normal, RowTypes, Shared, Exclusive, NoObject,
         Call, Connection_alpn, Connection_close, Connection_remote_id, Connection_send_datagram,
         Connection_send_many_datagrams
<1>2. /\ SyncCall(14, Connection_stable_id)
      /\ SyncCall(15, Connection_stats)
      /\ SyncCall(18, Endpoint_addr)
      /\ SyncCall(19, Endpoint_bound_sockets)
  BY Prefixed DEF SyncCall, MethodOf, DartMethods, Sync, Normal, RowTypes, Shared, Exclusive, NoObject,
         Call, Connection_stable_id, Connection_stats, Endpoint_addr, Endpoint_bound_sockets
<1>3. /\ SyncCall(23, Endpoint_id)
      /\ SyncCall(24, Endpoint_is_closed)
      /\ SyncCall(25, Endpoint_set_alpns)
      /\ SyncCall(28, Incoming_ignore)
      /\ SyncCall(29, Incoming_refuse)
      /\ SyncCall(30, Incoming_remote_addr)
      /\ SyncCall(31, Incoming_retry)
      /\ SyncCall(32, RecvStream_id)
      /\ SyncCall(41, SendStream_id)
  BY Prefixed DEF SyncCall, MethodOf, DartMethods, Sync, Normal, RowTypes, Shared, Exclusive, NoObject,
         Call, Endpoint_id, Endpoint_is_closed, Endpoint_set_alpns, Incoming_ignore,
         Incoming_refuse, Incoming_remote_addr, Incoming_retry, RecvStream_id, SendStream_id
<1>4. /\ SyncCall(44, cancel_stream)
      /\ SyncCall(45, endpoint_addr_decode)
      /\ SyncCall(46, endpoint_addr_encode)
      /\ SyncCall(47, endpoint_addr_round_trip)
      /\ SyncCall(50, irohdart_abi_version)
      /\ SyncCall(51, irohdart_iroh_version)
      /\ SyncCall(52, public_key_check)
      /\ SyncCall(53, public_key_fmt_short)
      /\ SyncCall(54, public_key_from_hex)
  BY Prefixed DEF SyncCall, MethodOf, DartMethods, Sync, Normal, RowTypes, Shared, Exclusive, NoObject,
         Call, cancel_stream, endpoint_addr_decode, endpoint_addr_encode, endpoint_addr_round_trip,
         irohdart_abi_version, irohdart_iroh_version, public_key_check, public_key_fmt_short,
         public_key_from_hex
<1>5. /\ SyncCall(55, public_key_from_z32)
      /\ SyncCall(56, public_key_to_hex)
      /\ SyncCall(57, public_key_to_z32)
      /\ SyncCall(58, public_key_verify)
      /\ SyncCall(59, relay_url_parse)
      /\ SyncCall(61, secret_key_generate)
      /\ SyncCall(62, secret_key_public)
      /\ SyncCall(63, secret_key_sign)
  BY Prefixed DEF SyncCall, MethodOf, DartMethods, Sync, Normal, RowTypes, Shared, Exclusive, NoObject,
         Call, public_key_from_z32, public_key_to_hex, public_key_to_z32, public_key_verify,
         relay_url_parse, secret_key_generate, secret_key_public, secret_key_sign
<1> QED BY <1>1, <1>2, <1>3, <1>4, <1>5

(* Every number of the Dart binding is one that the dispatcher it goes to    *)
(* knows, and its row wants what the method sends and sends what it wants.  *)
Agree(id) ==
    LET m     == DartMethods[id]
        table == Dispatcher(m.sync)
    IN  id \in DOMAIN table /\ m = MethodOf(table[id])

LEMMA BindingsAgree == DOMAIN DartMethods = 1..63 /\ \A id \in 1..63 : Agree(id)
<1>1. DOMAIN DartMethods = 1..63
  BY DEF DartMethods
<1>2. \A id, row : Routed(id, PdeDispatchPrimary, row) /\ NormalCall(id, row) => Agree(id)
  BY DEF Routed, NormalCall, Agree, Dispatcher
<1>3. \A id, row : Routed(id, PdeDispatchSync, row) /\ SyncCall(id, row) => Agree(id)
  BY DEF Routed, SyncCall, Agree, Dispatcher
<1>4. \A id \in {1, 2, 5, 6, 7, 8, 9, 10, 16, 17, 20, 21, 22, 26, 27, 33, 34, 35, 36, 37, 38, 39, 40, 42, 43, 48,
                      49, 60} : Agree(id)
  BY <1>2, PrimaryRows, NormalMethods
<1>5. \A id \in {3, 4, 11, 12, 13, 14, 15, 18, 19, 23, 24, 25, 28, 29, 30, 31, 32, 41, 44, 45, 46, 47, 50, 51, 52,
                      53, 54, 55, 56, 57, 58, 59, 61, 62, 63} : Agree(id)
  BY <1>3, SyncRows, SyncMethods
<1> QED BY <1>1, <1>4, <1>5

(* What the functions return.                                              *)
ResultTypes ==
    OpaqueTypes \cup {"OptConnection", "OptIncoming", "StreamPair", "unit", "bool", "u32", "u64", "usize", "String",
                      "Bytes", "OptBytes", "ListString", "ListBytes", "AddrParts", "ConnStats"}

LEMMA Args ==
    /\ <<>> \in Seq(ArgTypes)
    /\ \A a \in ArgTypes : <<a>> \in Seq(ArgTypes)
    /\ \A a, b \in ArgTypes : <<a, b>> \in Seq(ArgTypes)
    /\ \A a, b, c \in ArgTypes : <<a, b, c>> \in Seq(ArgTypes)
    /\ \A a, b, c, d \in ArgTypes : <<a, b, c, d>> \in Seq(ArgTypes)
    /\ \A a, b, c, d, e \in ArgTypes : <<a, b, c, d, e>> \in Seq(ArgTypes)
OBVIOUS

LEMMA ArgNames ==
    {"Endpoint", "Connection", "Incoming", "SendStream", "RecvStream", "Router", "RouterBuilder", "u64", "usize",
     "DartFn", "u32", "i32", "String", "StreamSink", "Bytes", "OptBytes", "ListString", "ListBytes", "AddrParts"}
        \subseteq ArgTypes
BY DEF ArgTypes, OpaqueTypes

LEMMA ResultNames ==
    {"Endpoint", "Connection", "Incoming", "SendStream", "RecvStream", "Router", "RouterBuilder", "OptConnection",
     "OptIncoming", "StreamPair", "unit", "bool", "u32", "u64", "usize", "String", "Bytes", "OptBytes",
     "ListString", "ListBytes", "AddrParts", "ConnStats"}
        \subseteq ResultTypes
BY DEF ResultTypes, OpaqueTypes

Sends(id)   == DartMethods[id].args \in Seq(ArgTypes)
Returns(id) == DartMethods[id].ret \in ResultTypes

LEMMA Typed == \A id \in 1..63 : Sends(id) /\ Returns(id)
<1>1. Sends(1) /\ Sends(2) /\ Sends(3)
  BY ArgNames, Args DEF Sends, DartMethods, Sync, Normal
<1>2. Sends(4) /\ Sends(5) /\ Sends(6)
  BY ArgNames, Args DEF Sends, DartMethods, Sync, Normal
<1>3. Sends(7) /\ Sends(8) /\ Sends(9)
  BY ArgNames, Args DEF Sends, DartMethods, Sync, Normal
<1>4. Sends(10) /\ Sends(11) /\ Sends(12)
  BY ArgNames, Args DEF Sends, DartMethods, Sync, Normal
<1>5. Sends(13) /\ Sends(14) /\ Sends(15)
  BY ArgNames, Args DEF Sends, DartMethods, Sync, Normal
<1>6. Sends(16) /\ Sends(17) /\ Sends(18)
  BY ArgNames, Args DEF Sends, DartMethods, Sync, Normal
<1>7. Sends(19) /\ Sends(20) /\ Sends(21)
  BY ArgNames, Args DEF Sends, DartMethods, Sync, Normal
<1>8. Sends(22) /\ Sends(23) /\ Sends(24)
  BY ArgNames, Args DEF Sends, DartMethods, Sync, Normal
<1>9. Sends(25) /\ Sends(26) /\ Sends(27)
  BY ArgNames, Args DEF Sends, DartMethods, Sync, Normal
<1>10. Sends(28) /\ Sends(29) /\ Sends(30)
  BY ArgNames, Args DEF Sends, DartMethods, Sync, Normal
<1>11. Sends(31) /\ Sends(32) /\ Sends(33)
  BY ArgNames, Args DEF Sends, DartMethods, Sync, Normal
<1>12. Sends(34) /\ Sends(35) /\ Sends(36)
  BY ArgNames, Args DEF Sends, DartMethods, Sync, Normal
<1>13. Sends(37) /\ Sends(38) /\ Sends(39)
  BY ArgNames, Args DEF Sends, DartMethods, Sync, Normal
<1>14. Sends(40) /\ Sends(41) /\ Sends(42)
  BY ArgNames, Args DEF Sends, DartMethods, Sync, Normal
<1>15. Sends(43) /\ Sends(44) /\ Sends(45)
  BY ArgNames, Args DEF Sends, DartMethods, Sync, Normal
<1>16. Sends(46) /\ Sends(47) /\ Sends(48)
  BY ArgNames, Args DEF Sends, DartMethods, Sync, Normal
<1>17. Sends(49)
  BY ArgNames, Args DEF Sends, DartMethods, Sync, Normal
<1>18. Sends(50) /\ Sends(51) /\ Sends(52)
  BY ArgNames, Args DEF Sends, DartMethods, Sync, Normal
<1>19. Sends(53) /\ Sends(54) /\ Sends(55)
  BY ArgNames, Args DEF Sends, DartMethods, Sync, Normal
<1>20. Sends(56) /\ Sends(57) /\ Sends(58)
  BY ArgNames, Args DEF Sends, DartMethods, Sync, Normal
<1>21. Sends(59) /\ Sends(60) /\ Sends(61)
  BY ArgNames, Args DEF Sends, DartMethods, Sync, Normal
<1>22. Sends(62) /\ Sends(63)
  BY ArgNames, Args DEF Sends, DartMethods, Sync, Normal
<1>23. \A id \in 1..63 : Sends(id)
  BY <1>1, <1>2, <1>3, <1>4, <1>5, <1>6, <1>7, <1>8, <1>9, <1>10, <1>11, <1>12, <1>13, <1>14,
     <1>15, <1>16, <1>17, <1>18, <1>19, <1>20, <1>21, <1>22
<1>24. Returns(1) /\ Returns(2) /\ Returns(3) /\ Returns(4) /\ Returns(5) /\ Returns(6) /\ Returns(7)
  BY ResultNames DEF Returns, DartMethods, Sync, Normal
<1>25. Returns(8) /\ Returns(9) /\ Returns(10) /\ Returns(11) /\ Returns(12) /\ Returns(13) /\ Returns(14)
  BY ResultNames DEF Returns, DartMethods, Sync, Normal
<1>26. Returns(15) /\ Returns(16) /\ Returns(17) /\ Returns(18) /\ Returns(19) /\ Returns(20) /\ Returns(21)
  BY ResultNames DEF Returns, DartMethods, Sync, Normal
<1>27. Returns(22) /\ Returns(23) /\ Returns(24) /\ Returns(25) /\ Returns(26) /\ Returns(27) /\ Returns(28)
  BY ResultNames DEF Returns, DartMethods, Sync, Normal
<1>28. Returns(29) /\ Returns(30) /\ Returns(31) /\ Returns(32) /\ Returns(33) /\ Returns(34) /\ Returns(35)
  BY ResultNames DEF Returns, DartMethods, Sync, Normal
<1>29. Returns(36) /\ Returns(37) /\ Returns(38) /\ Returns(39) /\ Returns(40) /\ Returns(41) /\ Returns(42)
  BY ResultNames DEF Returns, DartMethods, Sync, Normal
<1>30. Returns(43) /\ Returns(44) /\ Returns(45) /\ Returns(46) /\ Returns(47) /\ Returns(48) /\ Returns(49)
  BY ResultNames DEF Returns, DartMethods, Sync, Normal
<1>31. Returns(50) /\ Returns(51) /\ Returns(52) /\ Returns(53) /\ Returns(54) /\ Returns(55) /\ Returns(56)
  BY ResultNames DEF Returns, DartMethods, Sync, Normal
<1>32. Returns(57) /\ Returns(58) /\ Returns(59) /\ Returns(60) /\ Returns(61) /\ Returns(62) /\ Returns(63)
  BY ResultNames DEF Returns, DartMethods, Sync, Normal
<1>33. \A id \in 1..63 : Returns(id)
  BY <1>24, <1>25, <1>26, <1>27, <1>28, <1>29, <1>30, <1>31, <1>32
<1> QED BY <1>23, <1>33

-----------------------------------------------------------------------------
(* A call.                                                                 *)

AnyValue == UNION {Values(type) : type \in ArgTypes}

(* Arguments of the types of a method.                                     *)
Given(types, vs) ==
    /\ types \in Seq(ArgTypes) /\ vs \in Seq(AnyValue) /\ Len(vs) = Len(types)
    /\ \A i \in 1..Len(types) : vs[i] \in Values(types[i])

LEMMA Heard ==
    ASSUME NEW types, NEW vs, Given(types, vs)
    PROVE  InOrder([i \in DOMAIN types |-> Decoder(types[i])], DartMessage(types, vs)) = Done(vs, <<>>)
<1> DEFINE n     == Len(types)
           parts == [i \in DOMAIN types |-> Decoder(types[i])]
           enc   == [i \in DOMAIN types |-> DartWrites(types[i], vs[i])]
<1>1. /\ n \in Nat /\ types \in Seq(ArgTypes) /\ DOMAIN types = 1..n /\ vs \in Seq(AnyValue) /\ Len(vs) = n
      /\ \A i \in 1..n : types[i] \in ArgTypes /\ vs[i] \in Values(types[i])
  BY ItemsOf DEF Given
<1>2. \A i \in 1..n : Parses(Decoder(types[i]), DartWrites(types[i], vs[i]), vs[i])
  BY <1>1, RoundTrip
<1>3. Len(parts) = n /\ enc \in [1..n -> Message] /\ \A i \in 1..n : Parses(parts[i], enc[i], vs[i])
  <2>1. \A i \in 1..n : DartWrites(types[i], vs[i]) \in Message
    BY <1>2 DEF Parses
  <2>2. \A i \in 1..n : parts[i] = Decoder(types[i]) /\ enc[i] = DartWrites(types[i], vs[i])
    BY <1>1
  <2>3. Len(parts) = n /\ enc \in [1..n -> Message]
    BY <1>1, <2>1
  <2> HIDE DEF parts, enc
  <2> QED BY <1>2, <2>2, <2>3
<1>4. DartMessage(types, vs) = FlattenSeq(enc)
  BY DEF DartMessage
<1> HIDE DEF parts, enc
<1>5. Pieces(n, parts, AnyValue, vs, enc)
  BY <1>1, <1>3 DEF Pieces
<1>6. <<>> \in Message
  BY Join
<1>7. FlattenSeq(enc) \in Message /\ InOrder(parts, FlattenSeq(enc) \o <<>>) = Done(vs, <<>>)
  <2> DEFINE end == <<>>
  <2>1. end \in Message
    BY <1>6
  <2> HIDE DEF end, n
  <2>2. FlattenSeq(enc) \in Message /\ InOrder(parts, FlattenSeq(enc) \o end) = Done(vs, end)
    BY <1>5, <2>1, InOrderFlattened
  <2> QED BY <2>2 DEF end
<1>8. FlattenSeq(enc) \o <<>> = FlattenSeq(enc)
  BY <1>7, ConcatEmptySeq DEF Message
<1> QED BY <1>4, <1>7, <1>8 DEF parts

(* Whatever arguments of its types a method is called with, the function    *)
(* behind its number gets exactly those.                                   *)
THEOREM CallArrives ==
    ASSUME NEW id \in DOMAIN DartMethods, NEW vs, Given(DartMethods[id].args, vs)
    PROVE  LET m == DartMethods[id]
           IN  Received(id, m.sync, DartMessage(m.args, vs)) = Done(<<m.name, vs>>, <<>>)
<1> DEFINE m     == DartMethods[id]
           table == Dispatcher(m.sync)
           row   == table[id]
           types == RowTypes(row)
           parts == [i \in DOMAIN types |-> Decoder(types[i])]
           a     == InOrder(parts, DartMessage(m.args, vs))
<1>1. id \in DOMAIN table /\ m = MethodOf(row)
  BY BindingsAgree DEF Agree
<1>2. types = m.args /\ row.name = m.name
  <2> HIDE DEF m, row
  <2> QED BY <1>1 DEF MethodOf
<1>3. a = Done(vs, <<>>)
  <2> HIDE DEF m, row
  <2> QED BY <1>2, Heard DEF m
<1>4. Received(id, m.sync, DartMessage(m.args, vs)) =
        IF id \notin DOMAIN table THEN Panic
        ELSE IF a.ok THEN IF a.rest = <<>> THEN Done(<<row.name, a.v>>, a.rest) ELSE Panic ELSE Panic
  BY DEF Received, Then
<1> HIDE DEF a, table
<1>5. a.ok /\ a.v = vs /\ a.rest = <<>>
  BY <1>3, ThenDone
<1> QED BY <1>1, <1>2, <1>4, <1>5

-----------------------------------------------------------------------------
(* The values that TLC checks with are among those.                        *)

LEMMA TimesByte == ASSUME NEW h \in Nat \ {0} PROVE Byte * h \in Nat /\ Byte * h >= 4 * h
<1>1. Byte \in Nat /\ Byte - 4 \in Nat
  BY WidthAssumption
<1>2. (Byte - 4) * h >= 0 /\ Byte * h = (Byte - 4) * h + 4 * h
  BY <1>1
<1> QED BY <1>1, <1>2

LEMMA HoldsOrder == \A k \in Nat : \A j \in Nat : j < k => Holds[j] < Holds[k]
<1> DEFINE S == {k \in Nat : \A j \in Nat : j < k => Holds[j] < Holds[k]}
<1>1. 0 \in S
  OBVIOUS
<1>2. ASSUME NEW k \in Nat, k \in S PROVE k + 1 \in S
  <2>1. Holds[k] \in Nat \ {0} /\ Holds[k + 1] = Byte * Holds[k]
    BY HoldsGrows
  <2>2. Holds[k + 1] \in Nat /\ Holds[k + 1] >= 4 * Holds[k]
    BY <2>1, TimesByte
  <2>3. ASSUME NEW j \in Nat, j < k + 1 PROVE Holds[j] < Holds[k + 1]
    <3>1. CASE j = k
      BY <2>1, <2>2, <3>1
    <3>2. CASE j # k
      <4>1. Holds[j] < Holds[k] /\ Holds[j] \in Nat
        BY <1>2, <2>3, <3>2, HoldsGrows
      <4> QED BY <2>1, <2>2, <4>1
    <3> QED BY <3>1, <3>2
  <2> QED BY <2>3
<1> HIDE DEF S
<1>3. Nat \subseteq S
  BY <1>1, <1>2, Induction
<1> QED BY <1>3 DEF S

LEMMA HoldsEnough ==
    /\ Holds[Len32] \in Nat /\ Holds[Len64] \in Nat
    /\ Holds[Len32] >= 16 /\ Holds[Len32] < Holds[Len64]
<1>1. Len32 \in Nat /\ Len64 \in Nat /\ 1 < Len32 /\ Len32 < Len64 /\ Len32 - 1 \in Nat /\ (Len32 - 1) + 1 = Len32
  BY WidthAssumption
<1>2. Holds[Len32] \in Nat /\ Holds[Len64] \in Nat /\ Holds[Len32] < Holds[Len64]
  BY <1>1, HoldsGrows, HoldsOrder
<1>3. Holds[Len32 - 1] \in Nat \ {0} /\ Holds[Len32] = Byte * Holds[Len32 - 1]
  BY <1>1, HoldsGrows
<1>4. Holds[1] <= Holds[Len32 - 1]
  <2>1. Len32 - 1 = 1 \/ 1 < Len32 - 1
    BY <1>1
  <2> QED BY <1>1, <1>3, <2>1, HoldsGrows, HoldsOrder
<1>5. Holds[Len32] >= 4 * Holds[Len32 - 1]
  BY <1>3, TimesByte
<1> QED BY <1>2, <1>3, <1>4, <1>5, HoldsOne, WidthAssumption

LEMMA SmallEnough == Holds[Len32] \div 2 - 1 \in Small /\ 0..3 \subseteq Small
BY HoldsEnough DEF Small

LEMMA ShortLists ==
    ASSUME NEW V
    PROVE  /\ <<>> \in Lists(V)
           /\ \A a \in V : <<a>> \in Lists(V)
           /\ \A a, b \in V : <<a, b>> \in Lists(V)
<1>1. 0 \in Small /\ 1 \in Small /\ 2 \in Small
  BY SmallEnough
<1> QED BY <1>1 DEF Lists

LEMMA ShortBytes ==
    /\ <<>> \in ByteStrings
    /\ \A a \in 0..Byte - 1 : <<a>> \in ByteStrings
    /\ \A a, b \in 0..Byte - 1 : <<a, b>> \in ByteStrings
BY ShortLists DEF ByteStrings

LEMMA ShortTexts ==
    /\ <<>> \in Utf8
    /\ \A a \in 0..Byte - 2 : <<a>> \in Utf8
    /\ \A a, b \in 0..Byte - 2 : <<a, b>> \in Utf8
<1>1. Byte \in Nat /\ \A a \in 0..Byte - 2 : a \in 0..Byte - 1 /\ a # Byte - 1
  BY WidthAssumption
<1>2. <<>> \in Utf8
  BY ShortBytes DEF Utf8
<1>3. ASSUME NEW a \in 0..Byte - 2 PROVE <<a>> \in Utf8
  BY <1>1, ShortBytes DEF Utf8
<1>4. ASSUME NEW a \in 0..Byte - 2, NEW b \in 0..Byte - 2 PROVE <<a, b>> \in Utf8
  BY <1>1, ShortBytes DEF Utf8
<1> QED BY <1>2, <1>3, <1>4

LEMMA SomePartsAreParts == SomeParts \subseteq PartsOf
<1>1. 0 \in 0..Byte - 2 /\ 1 \in 0..Byte - 2 /\ 2 \in 0..Byte - 2 /\ 1 \in 0..Byte - 1 /\ 3 \in 0..Byte - 1
  BY WidthAssumption
<1>2. <<>> \in ByteStrings /\ <<3, 1>> \in ByteStrings
  BY <1>1, ShortBytes
<1>3. <<1>> \in Utf8 /\ <<>> \in Utf8 /\ <<2, 2>> \in Utf8
  BY <1>1, ShortTexts
<1>4. <<>> \in Lists(Utf8) /\ <<<<1>>, <<>>>> \in Lists(Utf8) /\ <<<<2, 2>>>> \in Lists(Utf8)
  BY <1>3, ShortLists
<1> QED BY <1>2, <1>4 DEF SomeParts, PartsOf

LEMMA SamplesAreValues == \A type \in ArgTypes : Samples(type) \subseteq Values(type)
<1> SUFFICES ASSUME NEW type \in ArgTypes PROVE Samples(type) \subseteq Values(type)
  OBVIOUS
<1>0. /\ 0 \in 0..Byte - 2 /\ 1 \in 0..Byte - 2 /\ 2 \in 0..Byte - 2
      /\ 0 \in 0..Byte - 1 /\ 1 \in 0..Byte - 1 /\ 2 \in 0..Byte - 1 /\ 3 \in 0..Byte - 1
  BY WidthAssumption
<1>1. CASE type \in OpaqueTypes
  <2>1. Samples(type) = {1, Holds[Len64] - 1} /\ Values(type) = 0..Holds[Len64] - 1
    BY <1>1 DEF Samples, Values, OpaqueTypes
  <2> QED BY <2>1, HoldsEnough
<1>2. CASE type \in {"u64", "usize"}
  <2>1. Samples(type) = {0, Holds[Len32], Holds[Len64] - 1} /\ Values(type) = 0..Holds[Len64] - 1
    BY <1>2 DEF Samples, Values, OpaqueTypes
  <2> QED BY <2>1, HoldsEnough
<1>3. CASE type = "DartFn"
  <2>1. Samples(type) = {1, Holds[Len32]} /\ Values(type) = 0..Holds[Len64] - 1
    BY <1>3 DEF Samples, Values, OpaqueTypes
  <2> QED BY <2>1, HoldsEnough
<1>4. CASE type = "u32"
  <2>1. Samples(type) = {0, 1, Holds[Len32] - 1} /\ Values(type) = 0..Holds[Len32] - 1
    BY <1>4 DEF Samples, Values, OpaqueTypes
  <2> QED BY <2>1, HoldsEnough
<1>5. CASE type = "i32"
  <2>1. Samples(type) = 0..3 /\ Values(type) = Small
    BY <1>5 DEF Samples, Values, OpaqueTypes
  <2> QED BY <2>1, SmallEnough
<1>6. CASE type \in {"unit", "bool"}
  BY <1>6 DEF Samples, Values, OpaqueTypes
<1>7. CASE type \in {"String", "StreamSink"}
  <2>1. Samples(type) = Texts /\ Values(type) = Utf8
    BY <1>7 DEF Samples, Values, OpaqueTypes
  <2> QED BY <1>0, <2>1, ShortTexts DEF Texts
<1>8. CASE type = "Bytes"
  <2> DEFINE n    == Holds[Len32] \div 2 - 1
             long == [i \in 1..n |-> Byte - 1]
  <2>1. Samples(type) = Texts \cup {long} /\ Values(type) = ByteStrings
    BY <1>8 DEF Samples, Values, OpaqueTypes
  <2>2. long \in ByteStrings
    <3>1. n \in Nat /\ n \in Small
      BY SmallEnough DEF Small
    <3> HIDE DEF n
    <3>2. long \in Seq(0..Byte - 1) /\ Len(long) = n
      BY <3>1, WidthAssumption
    <3> QED BY <3>1, <3>2 DEF ByteStrings, Lists
  <2> HIDE DEF long
  <2> QED BY <1>0, <2>1, <2>2, ShortBytes DEF Texts
<1>9. CASE type = "OptBytes"
  <2>1. Samples(type) = {<<>>, <<<<>>>>, <<<<3>>>>} /\ Values(type) = Options(ByteStrings)
    BY <1>9 DEF Samples, Values, OpaqueTypes
  <2>2. <<>> \in ByteStrings /\ <<3>> \in ByteStrings
    BY <1>0, ShortBytes
  <2> QED BY <2>1, <2>2 DEF Options
<1>10. CASE type = "ListString"
  <2>1. Samples(type) = {<<>>, <<<<>>>>, <<<<1>>, <<2, 0>>>>} /\ Values(type) = Lists(Utf8)
    BY <1>10 DEF Samples, Values, OpaqueTypes
  <2>2. <<>> \in Utf8 /\ <<1>> \in Utf8 /\ <<2, 0>> \in Utf8
    BY <1>0, ShortTexts
  <2> QED BY <2>1, <2>2, ShortLists
<1>11. CASE type = "ListBytes"
  <2>1. Samples(type) = {<<>>, <<<<>>>>, <<<<1>>, <<2, 0>>>>} /\ Values(type) = Lists(ByteStrings)
    BY <1>11 DEF Samples, Values, OpaqueTypes
  <2>2. <<>> \in ByteStrings /\ <<1>> \in ByteStrings /\ <<2, 0>> \in ByteStrings
    BY <1>0, ShortBytes
  <2> QED BY <2>1, <2>2, ShortLists
<1>12. CASE type = "AddrParts"
  <2>1. Samples(type) = SomeParts /\ Values(type) = PartsOf
    BY <1>12 DEF Samples, Values, OpaqueTypes
  <2> QED BY <2>1, SomePartsAreParts
<1>13. CASE type = "OptAddrParts"
  <2>1. Samples(type) = {<<>>} \cup {<<p>> : p \in SomeParts} /\ Values(type) = Options(PartsOf)
    BY <1>13 DEF Samples, Values, OpaqueTypes
  <2> QED BY <2>1, SomePartsAreParts DEF Options
<1> QED BY <1>1, <1>2, <1>3, <1>4, <1>5, <1>6, <1>7, <1>8, <1>9, <1>10, <1>11, <1>12, <1>13 DEF ArgTypes

LEMMA SamplesGiven ==
    ASSUME NEW types \in Seq(ArgTypes), NEW vs \in Valuations(types)
    PROVE  Given(types, vs)
<1> DEFINE n       == Len(types)
           More(X, i) == {Append(ws, v) : ws \in X, v \in Samples(types[i])}
           Solves(u) == u = [i \in 0..n |-> IF i = 0 THEN {<<>>} ELSE More(u[i - 1], i)]
           w       == CHOOSE w : Solves(w)
           Good(i) == {ws \in Seq(AnyValue) : Len(ws) = i /\ \A j \in 1..i : ws[j] \in Values(types[j])}
           All     == SUBSET Seq(AnyValue)
           step    == [i \in Nat |-> [X \in All |-> IF i \in 1..n THEN More(X, i) ELSE X]]
<1>1. n \in Nat /\ \A i \in 1..n : types[i] \in ArgTypes
  BY ItemsOf
<1>2. \A i \in 1..n : \A v \in Samples(types[i]) : v \in Values(types[i]) /\ v \in AnyValue
  BY <1>1, SamplesAreValues DEF AnyValue
<1>3. \E u : Solves(u)
  <2>1. \A i \in 1..n : \A X \in All : More(X, i) \in All
    BY <1>2
  <2>2. step \in [Nat -> [All -> All]] /\ {<<>>} \in All
    <3> HIDE DEF More, All
    <3>1. step \in [Nat -> [All -> All]]
      BY <2>1
    <3>2. {<<>>} \in All
      BY DEF All
    <3> QED BY <3>1, <3>2
  <2>3. \A i \in 1..n : \A X \in All : step[i][X] = More(X, i)
    <3> HIDE DEF More, All
    <3> QED OBVIOUS
  <2> HIDE DEF step, All, More
  <2>4. PICK f \in [Nat -> All] : f[0] = {<<>>} /\ \A i \in Nat : f[i + 1] = step[i + 1][f[i]]
    <3>1. Solutions(All, {<<>>}, step) # {}
      BY <2>2, Recursion
    <3> QED BY <3>1 DEF Solutions
  <2> DEFINE u == [i \in 0..n |-> f[i]]
  <2>5. \A i \in 0..n : u[i] = IF i = 0 THEN {<<>>} ELSE More(u[i - 1], i)
    <3> SUFFICES ASSUME NEW i \in 0..n, i # 0 PROVE u[i] = More(u[i - 1], i)
      BY <2>4
    <3>1. i \in 1..n /\ i - 1 \in Nat /\ (i - 1) + 1 = i /\ u[i] = f[i] /\ u[i - 1] = f[i - 1]
      OBVIOUS
    <3>2. f[i] = step[i][f[i - 1]] /\ f[i - 1] \in All
      BY <2>4, <3>1
    <3> HIDE DEF u
    <3>3. step[i][f[i - 1]] = More(f[i - 1], i)
      BY <2>3, <3>1, <3>2
    <3> QED BY <3>1, <3>2, <3>3
  <2>6. u = [i \in 0..n |-> u[i]]
    OBVIOUS
  <2> HIDE DEF u
  <2>7. Solves(u)
    BY <2>5, <2>6
  <2> HIDE DEF Solves
  <2> QED BY <2>7
<1>4. Solves(w)
  <2> HIDE DEF Solves
  <2> QED BY <1>3
<1>5. Valuations(types) = w[n]
  BY DEF Valuations
<1> HIDE DEF w
<1>6. \A i \in 0..n : w[i] = IF i = 0 THEN {<<>>} ELSE More(w[i - 1], i)
  <2> HIDE DEF More
  <2> QED BY <1>4
<1> HIDE DEF Solves
<1>7. 0..n \subseteq {i \in 0..n : w[i] \subseteq Good(i)}
  <2> DEFINE S == {i \in 0..n : w[i] \subseteq Good(i)}
  <2>1. 0 \in S
    <3>1. <<>> \in Good(0)
      OBVIOUS
    <3>2. w[0] = {<<>>} /\ 0 \in 0..n
      <4> HIDE DEF More
      <4> QED BY <1>1, <1>6
    <3> HIDE DEF Good
    <3> QED BY <3>1, <3>2
  <2>2. ASSUME NEW i \in 0..n - 1, i \in S PROVE i + 1 \in S
    <3>1. i + 1 \in 1..n /\ i + 1 \in 0..n /\ i + 1 # 0 /\ (i + 1) - 1 = i /\ w[i] \subseteq Good(i)
      BY <2>2, <1>1
    <3>2. w[i + 1] = More(w[i], i + 1)
      <4> HIDE DEF More
      <4> QED BY <1>6, <3>1
    <3>3. ASSUME NEW ws \in Good(i), NEW v \in Samples(types[i + 1]) PROVE Append(ws, v) \in Good(i + 1)
      <4>1. v \in AnyValue /\ v \in Values(types[i + 1])
        BY <1>2, <3>1
      <4>2. Append(ws, v) \in Seq(AnyValue) /\ Len(Append(ws, v)) = i + 1 /\ Append(ws, v)[i + 1] = v
            /\ \A j \in 1..i : Append(ws, v)[j] = ws[j]
        BY <4>1
      <4> DEFINE x == Append(ws, v)
      <4>3. x \in Seq(AnyValue) /\ Len(x) = i + 1 /\ x[i + 1] = v /\ \A j \in 1..i : x[j] \in Values(types[j])
        BY <4>2
      <4> HIDE DEF x
      <4>4. \A j \in 1..i + 1 : j = i + 1 \/ j \in 1..i
        OBVIOUS
      <4>5. x \in Good(i + 1)
        BY <4>1, <4>3, <4>4
      <4> QED BY <4>5 DEF x
    <3>4. w[i + 1] \subseteq Good(i + 1)
      <4>1. \A y \in w[i + 1] : \E ws \in w[i] : \E v \in Samples(types[i + 1]) : y = Append(ws, v)
        BY <3>2
      <4> HIDE DEF Good
      <4> QED BY <3>1, <3>3, <4>1
    <3> QED BY <3>1, <3>4
  <2> HIDE DEF S
  <2>3. 0..n \subseteq S
    BY <1>1, <2>1, <2>2, BoundedInduction
  <2> QED BY <2>3 DEF S
<1>8. vs \in Good(n)
  <2>1. n \in 0..n
    BY <1>1
  <2> HIDE DEF Good, n
  <2> QED BY <1>5, <1>7, <2>1
<1> QED BY <1>8 DEF Given

LEMMA NoneMisheard == Misheard = {}
<1> SUFFICES ASSUME NEW id \in DOMAIN DartMethods, NEW vs \in Valuations(DartMethods[id].args)
             PROVE  Received(id, DartMethods[id].sync, DartMessage(DartMethods[id].args, vs))
                      = Done(<<DartMethods[id].name, vs>>, <<>>)
  BY DEF Misheard
<1>1. DartMethods[id].args \in Seq(ArgTypes)
  BY BindingsAgree, Typed DEF Sends
<1>2. Given(DartMethods[id].args, vs)
  BY <1>1, SamplesGiven
<1> QED BY <1>2, CallArrives

-----------------------------------------------------------------------------
(* The answer of a callback.                                               *)

LEMMA Actions ==
    /\ 0 \in 0..Byte - 1 /\ 1 \in 0..Byte - 1
    /\ Parses(DecodeU8, PutNumber(0, 1), 0) /\ Parses(DecodeU8, PutNumber(1, 1), 1)
<1>1. 0 \in 0..Byte - 1 /\ 1 \in 0..Byte - 1
  BY WidthAssumption
<1> QED BY <1>1, ParseU8

(* What a callback of Dart answers is what the Rust future yields, and      *)
(* nothing comes of one that throws.                                       *)
THEOREM AnswerArrives ==
    ASSUME NEW type \in ArgTypes
    PROVE  /\ \A v \in Values(type) : Answered(type, PutNumber(0, 1) \o DartWrites(type, v)) = Done(v, <<>>)
           /\ \A e \in Message : Answered(type, PutNumber(1, 1) \o e) = Panic
<1>1. ASSUME NEW v \in Values(type)
      PROVE  Answered(type, PutNumber(0, 1) \o DartWrites(type, v)) = Done(v, <<>>)
  <2> DEFINE h == PutNumber(0, 1)
             e == DartWrites(type, v)
             m == h \o e
             a == DecodeU8[m]
             d == Decoder(type)
             b == d[e]
  <2>1. Parses(DecodeU8, h, 0) /\ Parses(d, e, v)
    BY Actions, RoundTrip
  <2> HIDE DEF h, e, d
  <2>2. e \in Message
    BY <2>1 DEF Parses
  <2>3. a.ok /\ a.v = 0 /\ a.rest = e
    <3> DEFINE z == 0
    <3>1. Parses(DecodeU8, h, z)
      BY <2>1
    <3> HIDE DEF z, h, e
    <3>2. a.ok /\ a.v = z /\ a.rest = e
      BY <2>2, <3>1, ParseThen
    <3> QED BY <3>2 DEF z
  <2>4. b = Done(v, <<>>)
    <3> DEFINE end == <<>>
    <3>1. end \in Message
      BY Join
    <3>2. e \o <<>> = e
      BY <2>2, ConcatEmptySeq DEF Message
    <3>3. e \o end = e
      BY <3>2
    <3> HIDE DEF end
    <3>4. d[e \o end] = Done(v, end)
      BY <2>1, <3>1 DEF Parses
    <3>5. d[e] = Done(v, end)
      BY <3>3, <3>4
    <3> QED BY <3>5 DEF end
  <2> HIDE DEF b
  <2>5. b.ok /\ b.v = v /\ b.rest = <<>>
    BY <2>4, ThenDone
  <2> HIDE DEF m
  <2>6. Answered(type, m) =
          IF a.ok
          THEN IF a.v = 0
               THEN IF d[a.rest].ok
                    THEN IF d[a.rest].rest = <<>> THEN Done(d[a.rest].v, d[a.rest].rest) ELSE Panic
                    ELSE Panic
               ELSE Panic
          ELSE Panic
    BY DEF Answered, Then, d
  <2> HIDE DEF a
  <2>7. d[a.rest] = b
    BY <2>3 DEF b
  <2>8. Answered(type, m) = Done(v, <<>>)
    BY <2>3, <2>5, <2>6, <2>7
  <2> QED BY <2>8 DEF m, h, e
<1>2. ASSUME NEW e \in Message PROVE Answered(type, PutNumber(1, 1) \o e) = Panic
  <2> DEFINE h == PutNumber(1, 1)
             m == h \o e
             a == DecodeU8[m]
             d == Decoder(type)
  <2>1. Parses(DecodeU8, h, 1)
    BY Actions
  <2>2. a.ok /\ a.v = 1 /\ a.rest = e
    <3> DEFINE z == 1
    <3>1. Parses(DecodeU8, h, z)
      BY <2>1
    <3> HIDE DEF z, h
    <3>2. a.ok /\ a.v = z /\ a.rest = e
      BY <3>1, ParseThen
    <3> QED BY <3>2 DEF z
  <2> HIDE DEF h, m, d
  <2>3. Answered(type, m) =
          IF a.ok
          THEN IF a.v = 0
               THEN IF d[a.rest].ok
                    THEN IF d[a.rest].rest = <<>> THEN Done(d[a.rest].v, d[a.rest].rest) ELSE Panic
                    ELSE Panic
               ELSE Panic
          ELSE Panic
    BY DEF Answered, Then, d
  <2> HIDE DEF a
  <2>4. Answered(type, m) = Panic
    BY <2>2, <2>3
  <2> QED BY <2>4 DEF m, h
<1> QED BY <1>1, <1>2

LEMMA NoneMisquoted == Misquoted = {}
<1>1. "unit" \in ArgTypes /\ "OptAddrParts" \in ArgTypes
  BY DEF ArgTypes
<1>2. Samples("anyhow") = Texts /\ \A e \in Texts : DartWrites("anyhow", e) = PutBytes(e)
  BY DEF Samples, DartWrites, OpaqueTypes
<1>3. \A e \in Texts : PutBytes(e) \in Message
  <2>1. 0 \in 0..Byte - 1 /\ 1 \in 0..Byte - 1 /\ 2 \in 0..Byte - 1
    BY WidthAssumption
  <2>2. Texts \subseteq ByteStrings
    BY <2>1, ShortBytes DEF Texts
  <2> QED BY <2>2, ParseBytes DEF Parses
<1>4. ASSUME NEW type \in ArgTypes
      PROVE  /\ \A v \in Samples(type) : Answered(type, PutNumber(0, 1) \o DartWrites(type, v)) = Done(v, <<>>)
             /\ \A e \in Samples("anyhow") : Answered(type, PutNumber(1, 1) \o DartWrites("anyhow", e)) = Panic
  <2>1. \A v \in Samples(type) : v \in Values(type)
    BY SamplesAreValues
  <2>2. \A v \in Samples(type) : Answered(type, PutNumber(0, 1) \o DartWrites(type, v)) = Done(v, <<>>)
    BY <2>1, AnswerArrives
  <2>3. ASSUME NEW e \in Samples("anyhow")
        PROVE  Answered(type, PutNumber(1, 1) \o DartWrites("anyhow", e)) = Panic
    <3>1. DartWrites("anyhow", e) \in Message
      BY <1>2, <1>3
    <3> QED BY <3>1, AnswerArrives
  <2> QED BY <2>2, <2>3
<1> QED BY <1>1, <1>4 DEF Misquoted

-----------------------------------------------------------------------------
(* What the native side sends.                                             *)

LEMMA EncodeNumbers ==
    /\ \A n : EncodeU8(n) = PutNumber(n, 1) /\ EncodeU32(n) = PutNumber(n, Len32)
              /\ EncodeI32(n) = PutNumber(n, Len32) /\ EncodeU64(n) = PutU64(n)
    /\ \A b : EncodeBool(b) = PutNumber(IF b THEN 1 ELSE 0, 1)
    /\ \A o : EncodeOpaque(o) = PutHandle(o)
BY DEF EncodeU8, EncodeU32, EncodeI32, EncodeU64, EncodeBool, EncodeOpaque, PutU64, PutHandle, Write, PutNumber

LEMMA EncodeByteStrings == \A s : EncodeBytes(s) = PutBytes(s) /\ EncodeString(s) = PutBytes(s)
BY DEF EncodeString, EncodeBytes, EncodeVec, EncodeU8, PutBytes, PutList, Write, PutNumber

LEMMA EncodeLists ==
    \A ss : EncodeListString(ss) = PutList(PutBytes, ss) /\ EncodeListBytes(ss) = PutList(PutBytes, ss)
<1> TAKE ss
<1>1. PutNumber(Len(ss), Len32) = Write(Len(ss), Len32)
  BY PutIsWrite
<1>2. [i \in DOMAIN ss |-> EncodeString(ss[i])] = [i \in DOMAIN ss |-> PutBytes(ss[i])]
      /\ [i \in DOMAIN ss |-> EncodeBytes(ss[i])] = [i \in DOMAIN ss |-> PutBytes(ss[i])]
  BY EncodeByteStrings
<1> QED BY <1>1, <1>2 DEF EncodeListString, EncodeListBytes, EncodeVec, PutList

LEMMA EncodeNone == EncodeBool(FALSE) \o <<>> = PutNumber(0, 1) /\ EncodeBool(TRUE) = PutNumber(1, 1)
<1>1. PutNumber(0, 1) \in Message
  BY WriteIsMessage, PutIsWrite
<1>2. EncodeBool(FALSE) = PutNumber(0, 1) /\ EncodeBool(TRUE) = PutNumber(1, 1)
  BY EncodeNumbers
<1>3. PutNumber(0, 1) \o <<>> = PutNumber(0, 1)
  BY <1>1, ConcatEmptySeq DEF Message
<1> QED BY <1>2, <1>3

LEMMA EncodeOptions ==
    \A o : /\ EncodeOptString(o) = PutOption(PutBytes, o) /\ EncodeOptBytes(o) = PutOption(PutBytes, o)
           /\ EncodeOptU64(o) = PutOption(PutU64, o) /\ EncodeOptOpaque(o) = PutOption(PutHandle, o)
<1> TAKE o
<1>1. CASE o = <<>>
  <2>1. (o # <<>>) = FALSE
    BY <1>1
  <2>2. /\ EncodeOptString(o) = EncodeBool(FALSE) \o <<>> /\ EncodeOptBytes(o) = EncodeBool(FALSE) \o <<>>
        /\ EncodeOptU64(o) = EncodeBool(FALSE) \o <<>> /\ EncodeOptOpaque(o) = EncodeBool(FALSE) \o <<>>
    BY <1>1, <2>1 DEF EncodeOptString, EncodeOptBytes, EncodeOptU64, EncodeOptOpaque, EncodeOption
  <2>3. /\ PutOption(PutBytes, o) = PutNumber(0, 1) /\ PutOption(PutU64, o) = PutNumber(0, 1)
        /\ PutOption(PutHandle, o) = PutNumber(0, 1)
    BY <1>1 DEF PutOption
  <2> QED BY <2>2, <2>3, EncodeNone
<1>2. CASE o # <<>>
  <2>1. (o # <<>>) = TRUE
    BY <1>2
  <2>2. /\ EncodeOptString(o) = EncodeBool(TRUE) \o EncodeString(o[1])
        /\ EncodeOptBytes(o) = EncodeBool(TRUE) \o EncodeBytes(o[1])
        /\ EncodeOptU64(o) = EncodeBool(TRUE) \o EncodeU64(o[1])
        /\ EncodeOptOpaque(o) = EncodeBool(TRUE) \o EncodeOpaque(o[1])
    BY <1>2, <2>1 DEF EncodeOptString, EncodeOptBytes, EncodeOptU64, EncodeOptOpaque, EncodeOption
  <2>3. /\ PutOption(PutBytes, o) = PutNumber(1, 1) \o PutBytes(o[1])
        /\ PutOption(PutU64, o) = PutNumber(1, 1) \o PutU64(o[1])
        /\ PutOption(PutHandle, o) = PutNumber(1, 1) \o PutHandle(o[1])
    BY <1>2 DEF PutOption
  <2> QED BY <2>2, <2>3, EncodeNone, EncodeByteStrings, EncodeNumbers
<1> QED BY <1>1, <1>2

LEMMA EncodeStatuses == \A ss : EncodeListRelayStatus(ss) = PutList(PutRelayStatus, ss)
<1> TAKE ss
<1>1. \A s : EncodeRelayStatusInfo(s) = PutRelayStatus(s)
  BY EncodeByteStrings, EncodeNumbers, EncodeOptions DEF EncodeRelayStatusInfo, PutRelayStatus
<1>2. PutNumber(Len(ss), Len32) = Write(Len(ss), Len32)
  BY PutIsWrite
<1>3. [i \in DOMAIN ss |-> EncodeRelayStatusInfo(ss[i])] = [i \in DOMAIN ss |-> PutRelayStatus(ss[i])]
  BY <1>1
<1> QED BY <1>2, <1>3 DEF EncodeListRelayStatus, EncodeVec, PutList

LEMMA EncodePathEvents ==
    \A e : e[1] \in DOMAIN DartKinds =>
        EncodePathEventInfo(e)
          = PutNumber(DartKinds[e[1]], Len32) \o PutOption(PutBytes, e[2]) \o PutOption(PutU64, e[3])
<1> SUFFICES ASSUME NEW e, e[1] \in DOMAIN DartKinds
             PROVE  EncodePathEventInfo(e)
                      = PutNumber(DartKinds[e[1]], Len32) \o PutOption(PutBytes, e[2]) \o PutOption(PutU64, e[3])
  OBVIOUS
<1>1. \A k \in DOMAIN DartKinds : EncodePathEventKind(k) = Write(DartKinds[k], Len32)
  BY DEF DartKinds, EncodePathEventKind
<1>2. EncodePathEventKind(e[1]) = PutNumber(DartKinds[e[1]], Len32)
  BY <1>1, PutIsWrite
<1> QED BY <1>2, EncodeOptions DEF EncodePathEventInfo

SentTypes == ResultTypes \cup {"anyhow", "PathEventInfo", "ListRelayStatus"}

(* Whatever the native side sends, as a result, an error or an item of a    *)
(* stream, is what Dart's decoder of the type must find to give that value. *)
THEOREM SentAsRead ==
    \A type \in SentTypes : \A v :
        (type = "PathEventInfo" => v[1] \in DOMAIN DartKinds) => Encode(type, v) = DartReads(type, v)
<1> SUFFICES ASSUME NEW type \in SentTypes, NEW v, type = "PathEventInfo" => v[1] \in DOMAIN DartKinds
             PROVE  Encode(type, v) = DartReads(type, v)
  OBVIOUS
<1>1. CASE type \in OpaqueTypes
  <2>1. Encode(type, v) = EncodeOpaque(v) /\ DartReads(type, v) = PutHandle(v)
    BY <1>1 DEF Encode, DartReads, OpaqueTypes
  <2> QED BY <2>1, EncodeNumbers
<1>2. CASE type \in {"OptConnection", "OptIncoming"}
  <2>1. Encode(type, v) = EncodeOptOpaque(v) /\ DartReads(type, v) = PutOption(PutHandle, v)
    BY <1>2 DEF Encode, DartReads, OpaqueTypes
  <2> QED BY <2>1, EncodeOptions
<1>3. CASE type = "StreamPair"
  <2>1. Encode(type, v) = EncodeOpaque(v[1]) \o EncodeOpaque(v[2])
        /\ DartReads(type, v) = PutHandle(v[1]) \o PutHandle(v[2])
    BY <1>3 DEF Encode, EncodeStreamPair, DartReads, OpaqueTypes
  <2> QED BY <2>1, EncodeNumbers
<1>4. CASE type = "unit"
  BY <1>4 DEF Encode, DartReads, DartWrites, OpaqueTypes
<1>5. CASE type = "bool"
  <2>1. Encode(type, v) = EncodeBool(v) /\ DartReads(type, v) = PutNumber(IF v THEN 1 ELSE 0, 1)
    BY <1>5 DEF Encode, DartReads, DartWrites, OpaqueTypes
  <2> QED BY <2>1, EncodeNumbers
<1>6. CASE type = "u32"
  <2>1. Encode(type, v) = EncodeU32(v) /\ DartReads(type, v) = PutNumber(v, Len32)
    BY <1>6 DEF Encode, DartReads, DartWrites, OpaqueTypes
  <2> QED BY <2>1, EncodeNumbers
<1>7. CASE type \in {"u64", "usize"}
  <2>1. Encode(type, v) = EncodeU64(v) /\ DartReads(type, v) = PutU64(v)
    BY <1>7 DEF Encode, DartReads, DartWrites, OpaqueTypes
  <2> QED BY <2>1, EncodeNumbers
<1>8. CASE type \in {"String", "anyhow"}
  <2>1. Encode(type, v) = EncodeString(v) /\ DartReads(type, v) = PutBytes(v)
    BY <1>8 DEF Encode, DartReads, DartWrites, OpaqueTypes
  <2> QED BY <2>1, EncodeByteStrings
<1>9. CASE type = "Bytes"
  <2>1. Encode(type, v) = EncodeBytes(v) /\ DartReads(type, v) = PutBytes(v)
    BY <1>9 DEF Encode, DartReads, DartWrites, OpaqueTypes
  <2> QED BY <2>1, EncodeByteStrings
<1>10. CASE type = "OptBytes"
  <2>1. Encode(type, v) = EncodeOptBytes(v) /\ DartReads(type, v) = PutOption(PutBytes, v)
    BY <1>10 DEF Encode, DartReads, DartWrites, OpaqueTypes
  <2> QED BY <2>1, EncodeOptions
<1>11. CASE type = "ListString"
  <2>1. Encode(type, v) = EncodeListString(v) /\ DartReads(type, v) = PutList(PutBytes, v)
    BY <1>11 DEF Encode, DartReads, DartWrites, OpaqueTypes
  <2> QED BY <2>1, EncodeLists
<1>12. CASE type = "ListBytes"
  <2>1. Encode(type, v) = EncodeListBytes(v) /\ DartReads(type, v) = PutList(PutBytes, v)
    BY <1>12 DEF Encode, DartReads, DartWrites, OpaqueTypes
  <2> QED BY <2>1, EncodeLists
<1>13. CASE type = "AddrParts"
  <2>1. Encode(type, v) = EncodeBytes(v[1]) \o EncodeListString(v[2]) \o EncodeListString(v[3])
    BY <1>13 DEF Encode, EncodeEndpointAddrParts, OpaqueTypes
  <2>2. DartReads(type, v) = PutBytes(v[1]) \o PutList(PutBytes, v[2]) \o PutList(PutBytes, v[3])
    BY <1>13 DEF DartReads, DartWrites, PutAddrParts, OpaqueTypes
  <2> QED BY <2>1, <2>2, EncodeByteStrings, EncodeLists
<1>14. CASE type = "ConnStats"
  <2>1. Encode(type, v) = FlattenSeq([i \in 1..8 |-> EncodeU64(v[i])])
        /\ DartReads(type, v) = FlattenSeq([i \in 1..8 |-> PutU64(v[i])])
    BY <1>14 DEF Encode, EncodeConnStats, DartReads, OpaqueTypes
  <2>2. [i \in 1..8 |-> EncodeU64(v[i])] = [i \in 1..8 |-> PutU64(v[i])]
    BY EncodeNumbers
  <2> QED BY <2>1, <2>2
<1>15. CASE type = "PathEventInfo"
  <2>1. Encode(type, v) = EncodePathEventInfo(v)
    BY <1>15 DEF Encode, OpaqueTypes
  <2>2. DartReads(type, v)
          = PutNumber(DartKinds[v[1]], Len32) \o PutOption(PutBytes, v[2]) \o PutOption(PutU64, v[3])
    BY <1>15 DEF DartReads, OpaqueTypes
  <2> QED BY <1>15, <2>1, <2>2, EncodePathEvents
<1>16. CASE type = "ListRelayStatus"
  <2>1. Encode(type, v) = EncodeListRelayStatus(v) /\ DartReads(type, v) = PutList(PutRelayStatus, v)
    BY <1>16 DEF Encode, DartReads, OpaqueTypes
  <2> QED BY <2>1, EncodeStatuses
<1> QED BY <1>1, <1>2, <1>3, <1>4, <1>5, <1>6, <1>7, <1>8, <1>9, <1>10, <1>11, <1>12, <1>13, <1>14, <1>15, <1>16
       DEF SentTypes, ResultTypes

LEMMA NoneMisread == Misread = {}
<1> SUFFICES ASSUME NEW id \in DOMAIN DartMethods
             PROVE  LET m   == DartMethods[id]
                        row == Dispatcher(m.sync)[id]
                    IN  /\ \A v \in Samples(row.ret) :
                              Posted(TRUE, row.ret, v) = PutNumber(0, 1) \o DartReads(m.ret, v)
                        /\ row.err = m.err
                        /\ \A e \in Samples("anyhow") :
                              Posted(FALSE, "anyhow", e) = PutNumber(1, 1) \o DartReads("anyhow", e)
  BY DEF Misread
<1> DEFINE m   == DartMethods[id]
           row == Dispatcher(m.sync)[id]
<1>1. m = MethodOf(row) /\ m.ret \in ResultTypes
  BY BindingsAgree, Typed DEF Agree, Returns
<1> HIDE DEF m, row
<1>2. row.ret = m.ret /\ row.err = m.err
  BY <1>1 DEF MethodOf
<1>3. "PathEventInfo" \notin ResultTypes /\ "anyhow" # "PathEventInfo"
  BY DEF ResultTypes, OpaqueTypes
<1>4. \A type \in ResultTypes \cup {"anyhow"} : \A v : Encode(type, v) = DartReads(type, v)
  BY <1>3, SentAsRead DEF SentTypes
<1>5. \A type, v : Posted(TRUE, type, v) = PutNumber(0, 1) \o Encode(type, v)
                   /\ Posted(FALSE, type, v) = PutNumber(1, 1) \o Encode(type, v)
  BY EncodeNumbers DEF Posted
<1>6. \A v : Posted(TRUE, row.ret, v) = PutNumber(0, 1) \o DartReads(m.ret, v)
  <2> TAKE v
  <2>1. Encode(m.ret, v) = DartReads(m.ret, v)
    BY <1>1, <1>4
  <2>2. Posted(TRUE, row.ret, v) = PutNumber(0, 1) \o Encode(row.ret, v)
    BY <1>5
  <2> QED BY <1>2, <2>1, <2>2
<1>7. \A e : Posted(FALSE, "anyhow", e) = PutNumber(1, 1) \o DartReads("anyhow", e)
  BY <1>4, <1>5
<1> QED BY <1>2, <1>6, <1>7 DEF m, row

LEMMA NoneGarbled == Garbled = {}
<1>1. {"AddrParts", "ListRelayStatus", "PathEventInfo"} \subseteq SentTypes
  BY DEF SentTypes, ResultTypes
<1>2. \A v \in Samples("PathEventInfo") : v[1] \in DOMAIN DartKinds
  <2>1. Samples("PathEventInfo") =
          {<<k, a, n>> : k \in DOMAIN DartKinds, a \in {<<>>, <<<<1>>>>}, n \in {<<>>, <<Holds[Len32]>>}}
    BY DEF Samples, OpaqueTypes
  <2> HIDE DEF Samples
  <2> QED BY <2>1
<1>3. ASSUME NEW type \in {"AddrParts", "ListRelayStatus", "PathEventInfo"}, NEW v \in Samples(type)
      PROVE  Encode(type, v) = DartReads(type, v)
  BY <1>1, <1>2, SentAsRead
<1> QED BY <1>3 DEF Garbled

-----------------------------------------------------------------------------
(* The two invariants.                                                     *)

(* The function behind a number gets exactly the arguments that Dart gave,  *)
(* and a Rust future what a Dart callback answered (frb_generated.rs 3549   *)
(* to 3714, frb_generated.dart).                                           *)
THEOREM ArgumentsAlwaysArrive == Spec => []ArgumentsArrive
<1>1. ArgumentsArrive
  BY NoneMisheard, NoneMisquoted DEF ArgumentsArrive
<1> QED BY <1>1, PTL

(* Dart reads what a function returned or failed with, and the items of the *)
(* streams.                                                                *)
THEOREM ResultsAlwaysArrive == Spec => []ResultsArrive
<1>1. ResultsArrive
  BY NoneMisread, NoneGarbled DEF ResultsArrive
<1> QED BY <1>1, PTL

(* While the numbers fit, every object that Dart has, or is about to have,  *)
(* goes by a number that the wire format carries.                          *)
HandlesCarried == NumbersFit => \A o \in held \cup mail : typeOf[o] \in OpaqueTypes /\ o \in Values(typeOf[o])

(* A handle that Dart holds never overflows on the wire (decode of a         *)
(* RustOpaqueMoi, a u64, frb_generated.rs 3176 to 3242).                    *)
THEOREM HandlesAreCarried == Spec => []HandlesCarried
<1>1. IInv => HandlesCarried
  <2> SUFFICES ASSUME IInv, NumbersFit, NEW o \in held \cup mail
               PROVE  typeOf[o] \in OpaqueTypes /\ o \in Values(typeOf[o])
    BY DEF HandlesCarried
  <2>1. o \in Objects /\ next \in Nat /\ typeOf[o] \in OpaqueTypes \cup {"none"} /\ MaxObjects \in Nat
    BY BoundsAssumption DEF IInv, TypeOK, Objects
  <2>2. ~(o >= next) /\ typeOf[o] # "none"
    BY <2>1 DEF IInv, FreshOK, Owned, Objects
  <2>3. o \in 0..Holds[Len64] - 1
    BY <2>1, <2>2, HoldsEnough DEF NumbersFit, Objects
  <2>4. typeOf[o] \in OpaqueTypes
    BY <2>1, <2>2
  <2>5. Values(typeOf[o]) = 0..Holds[Len64] - 1
    BY <2>4 DEF Values, OpaqueTypes
  <2> QED BY <2>3, <2>4, <2>5
<1> QED BY <1>1, Inductive, PTL
=============================================================================
