------------------------ MODULE EndpointAcceptProofs ------------------------
(***************************************************************************)
(* Theorems about EndpointAccept, for any number of attempts, accept calls, *)
(* decisions and protocols.                                                *)
(***************************************************************************)
EXTENDS EndpointAccept, FiniteSetTheorems, SequenceTheorems, TLAPS

-----------------------------------------------------------------------------
(* Type correctness.  It needs that a decision that was called has an       *)
(* Incoming, whose Option it looks at.                                     *)
OnCall == \A d \in Deciders : dec[d].st # "idle" => dec[d].on \in Calls

LEMMA TellType == ASSUME TypeOK, NEW a, NEW answer \in PeerState
                  PROVE  Tell(a, answer) \in [Attempts -> PeerState]
BY DEF Tell, TypeOK

LEMMA HandshakeType ==
    ASSUME TypeOK, NEW a, StartHandshake(a)
    PROVE  fits' \in [Attempts -> BOOLEAN]
<1> DEFINE b == AlpnOf[a] \in alpns
<1>1. b \in BOOLEAN
  OBVIOUS
<1>2. fits' = [fits EXCEPT ![a] = b]
  BY DEF StartHandshake
<1> HIDE DEF b
<1> QED BY <1>1, <1>2 DEF TypeOK

LEMMA TypeStart == Init => TypeOK
BY NothingAssumption DEF Init, TypeOK, PeerState, CallState, DecState, Verdicts, Decisions

LEMMA DecideType ==
    ASSUME TypeOK, NEW d \in Deciders, NEW c \in Calls, NEW v \in Verdicts, NEW s \in DecState,
           Decide(d, c, v, s)
    PROVE  /\ dec' \in [Deciders -> Decisions]
           /\ UNCHANGED <<epVars, call, kind, held, abandoned>>
<1>1. [st |-> s, on |-> c, verdict |-> v, att |-> inner[c]] \in Decisions
  BY DEF TypeOK, Decisions
<1> QED BY <1>1 DEF Decide, TypeOK

LEMMA DecStateType ==
    ASSUME TypeOK, NEW d \in Deciders, NEW st \in DecState
    PROVE  [dec EXCEPT ![d].st = st] \in [Deciders -> Decisions]
<1>1. dec[d] \in Decisions
  BY DEF TypeOK
<1>2. [dec[d] EXCEPT !.st = st] \in Decisions
  BY <1>1 DEF Decisions
<1>3. [dec EXCEPT ![d].st = st] = [dec EXCEPT ![d] = [dec[d] EXCEPT !.st = st]]
  OBVIOUS
<1> QED BY <1>2, <1>3 DEF TypeOK

LEMMA UserType == TypeOK /\ User => TypeOK'
<1> SUFFICES ASSUME TypeOK, User PROVE TypeOK'
  OBVIOUS
<1> USE DEF epVars, peerVars
<1>1. ASSUME Close PROVE TypeOK'
  <2>1. peer' \in [Attempts -> PeerState]
    BY <1>1 DEF Close, Tell, TypeOK, PeerState
  <2>2. queue' \in Seq(Attempts) /\ open' \in BOOLEAN
    <3>1. queue' = <<>> /\ open' = FALSE
      BY <1>1 DEF Close
    <3>2. queue' \in Seq(Attempts)
      BY <3>1
    <3>3. open' \in BOOLEAN
      BY <3>1
    <3> QED BY <3>2, <3>3
  <2>3. UNCHANGED <<alpns, validated, fits, call, kind, held, abandoned, inner, dec>>
    BY <1>1 DEF Close
  <2> QED BY <2>1, <2>2, <2>3 DEF TypeOK
<1>2. ASSUME NEW S \in SUBSET Alpns, SetAlpns(S) PROVE TypeOK'
  BY <1>2 DEF SetAlpns, TypeOK
<1>3. ASSUME NEW c \in Calls, NEW k \in {"accept", "incoming"}, Call(c, k) PROVE TypeOK'
  BY <1>3 DEF Call, TypeOK, CallState
<1>4. ASSUME NEW c \in Calls, Abandon(c) PROVE TypeOK'
  BY <1>4 DEF Abandon, TypeOK
<1>5. ASSUME NEW d \in Deciders, NEW c \in Calls,
             \/ Refuse(d, c) \/ Ignore(d, c) \/ Retry(d, c) \/ RetryFails(d, c)
             \/ \E v \in Verdicts \ {"accept"} : DecideTooLate(d, c, v)
      PROVE TypeOK'
  <2>1. PICK v \in Verdicts, s \in DecState : Decide(d, c, v, s)
    BY <1>5 DEF Refuse, Ignore, Retry, RetryFails, DecideTooLate, Verdicts, DecState
  <2>2. dec' \in [Deciders -> Decisions] /\ UNCHANGED <<epVars, call, kind, held, abandoned>>
    BY <2>1, DecideType
  <2>3. inner' \in [Calls -> Attempts \cup {NoAttempt}]
    BY <1>5 DEF Refuse, Ignore, Retry, RetryFails, DecideTooLate, TakeInner, TypeOK
  <2>4. peer' \in [Attempts -> PeerState]
    BY <1>5 DEF Refuse, Ignore, Retry, RetryFails, DecideTooLate, Tell, TypeOK, PeerState
  <2>5. validated' \in [Attempts -> BOOLEAN] /\ fits' \in [Attempts -> BOOLEAN]
    BY <1>5 DEF Refuse, Ignore, Retry, RetryFails, DecideTooLate, TypeOK
  <2>6. queue' \in Seq(Attempts)
    <3>1. queue' = queue \/ (inner[c] \in Attempts /\ queue' = Append(queue, inner[c]))
      BY <1>5 DEF Refuse, Ignore, Retry, RetryFails, DecideTooLate, TypeOK
    <3> QED BY <3>1 DEF TypeOK
  <2> QED BY <2>2, <2>3, <2>4, <2>5, <2>6 DEF TypeOK
<1>6. ASSUME NEW d \in Deciders, NEW c \in Calls, CallAccept(d, c) PROVE TypeOK'
  <2>1. [st |-> "queued", on |-> c, verdict |-> "accept", att |-> NoAttempt] \in Decisions
    BY DEF Decisions, DecState, Verdicts
  <2> QED BY <1>6, <2>1 DEF CallAccept, TypeOK
<1> QED BY <1>1, <1>2, <1>3, <1>4, <1>5, <1>6 DEF User

LEMMA TaskType ==
    ASSUME TypeOK, OnCall,
           \/ \E a \in Attempts : Connect(a) \/ GiveUp(a)
           \/ \E c \in Calls : Accepting(c) \/ Collect(c)
           \/ \E d \in Deciders : Deciding(d)
    PROVE  TypeOK'
<1> USE DEF epVars, peerVars
<1>1. ASSUME NEW a \in Attempts, Connect(a) PROVE TypeOK'
  BY <1>1 DEF Connect, TypeOK, PeerState
<1>2. ASSUME NEW a \in Attempts, GiveUp(a) PROVE TypeOK'
  BY <1>2 DEF GiveUp, TypeOK, PeerState
<1>3. ASSUME NEW c \in Calls, Take(c) PROVE TypeOK'
  <2>1. Head(queue) \in Attempts /\ Tail(queue) \in Seq(Attempts)
    BY <1>3 DEF Take, TypeOK
  <2>2. fits' \in [Attempts -> BOOLEAN]
    <3>1. UNCHANGED fits \/ StartHandshake(Head(queue))
      BY <1>3 DEF Take
    <3> QED BY <3>1, HandshakeType DEF TypeOK
  <2> QED BY <1>3, <2>1, <2>2 DEF Take, TypeOK, CallState
<1>4. ASSUME NEW c \in Calls, TakeNone(c) PROVE TypeOK'
  BY <1>4 DEF TakeNone, TypeOK, CallState
<1>5. ASSUME NEW c \in Calls, AcceptDone(c) PROVE TypeOK'
  BY <1>5 DEF AcceptDone, Tell, TypeOK, CallState, PeerState
<1>6. ASSUME NEW c \in Calls, AcceptFails(c) PROVE TypeOK'
  BY <1>6 DEF AcceptFails, Tell, TypeOK, CallState, PeerState
<1>7. ASSUME NEW c \in Calls, Collect(c) PROVE TypeOK'
  BY <1>7 DEF Collect, TakeInner, Tell, TypeOK, CallState, PeerState
<1>8. ASSUME NEW d \in Deciders, AcceptTakes(d) PROVE TypeOK'
  <2> DEFINE c == dec[d].on
  <2>1. c \in Calls /\ inner[c] \in Attempts
    BY <1>8 DEF AcceptTakes, TypeOK, OnCall
  <2>2. dec' = [dec EXCEPT ![d] = [dec[d] EXCEPT !.st = "handshake", !.att = inner[c]]]
    BY <1>8 DEF AcceptTakes, TypeOK, Decisions
  <2>3. [dec[d] EXCEPT !.st = "handshake", !.att = inner[c]] \in Decisions
    <3> DEFINE old == dec[d]
    <3> DEFINE a == inner[c]
    <3>1. old \in Decisions /\ a \in Attempts
      BY <2>1 DEF TypeOK
    <3> HIDE DEF old, a
    <3>2. [old EXCEPT !.st = "handshake", !.att = a] \in Decisions
      BY <3>1 DEF Decisions, DecState
    <3> QED BY <3>2 DEF old, a
  <2>4. dec' \in [Deciders -> Decisions]
    BY <2>2, <2>3 DEF TypeOK
  <2>5. inner' \in [Calls -> Attempts \cup {NoAttempt}]
    BY <1>8 DEF AcceptTakes, TakeInner, TypeOK
  <2>6. fits' \in [Attempts -> BOOLEAN]
    BY <1>8, HandshakeType DEF AcceptTakes
  <2> QED BY <1>8, <2>4, <2>5, <2>6 DEF AcceptTakes, TypeOK
<1>9. ASSUME NEW d \in Deciders, AcceptTooLate(d) PROVE TypeOK'
  <2>1. dec' = [dec EXCEPT ![d].st = "consumed"]
        /\ UNCHANGED <<epVars, queue, peerVars, call, kind, held, abandoned, inner>>
    BY <1>9 DEF AcceptTooLate
  <2>2. dec' \in [Deciders -> Decisions]
    BY <2>1, DecStateType DEF DecState
  <2> QED BY <2>1, <2>2 DEF TypeOK
<1>10. ASSUME NEW d \in Deciders, IncomingDone(d) \/ IncomingFails(d) PROVE TypeOK'
  <2>1. PICK st \in {"ok", "error"} : dec' = [dec EXCEPT ![d].st = st]
    BY <1>10 DEF IncomingDone, IncomingFails
  <2>2. PICK answer \in {"connected", "failed"} : peer' = Tell(dec[d].att, answer)
    BY <1>10 DEF IncomingDone, IncomingFails
  <2>3. UNCHANGED <<epVars, queue, validated, fits, call, kind, held, abandoned, inner>>
    BY <1>10 DEF IncomingDone, IncomingFails
  <2>4. dec' \in [Deciders -> Decisions]
    BY <2>1, DecStateType DEF DecState
  <2>5. peer' \in [Attempts -> PeerState]
    BY <2>2, TellType DEF PeerState
  <2> QED BY <2>3, <2>4, <2>5 DEF TypeOK
<1> QED BY <1>1, <1>2, <1>3, <1>4, <1>5, <1>6, <1>7, <1>8, <1>9, <1>10
        DEF Accepting, Deciding

LEMMA TypeStep == TypeOK /\ OnCall /\ [Next]_vars => TypeOK'
<1>1. ASSUME TypeOK, UNCHANGED vars PROVE TypeOK'
  BY <1>1 DEF vars, epVars, peerVars, TypeOK
<1> QED BY <1>1, UserType, TaskType DEF Next

-----------------------------------------------------------------------------
(* Decisions.  OneVerdict says what the decisions on an Incoming answered;  *)
(* it is kept because a decision that took the attempt left None behind for *)
(* good (Emptied), and because what returned no Incoming has no decisions.  *)
Given == {"incoming", "collected"}

Progress == \A d \in Deciders :
    /\ dec[d].st = "idle" => dec[d].on = NoCall /\ dec[d].att = NoAttempt
    /\ dec[d].on \in Calls => call[dec[d].on] \in Given
    /\ dec[d].st = "queued" => dec[d].verdict = "accept" /\ dec[d].att = NoAttempt
    /\ dec[d].st = "handshake" => dec[d].verdict = "accept"
    /\ dec[d].on \in Calls /\ dec[d].att = NoAttempt => dec[d].st \in {"queued", "consumed"}
    /\ dec[d].st = "consumed" => dec[d].att = NoAttempt

Emptied == \A d \in Deciders :
    dec[d].att # NoAttempt => dec[d].on \in Calls /\ inner[dec[d].on] = NoAttempt

FirstOnly == \A d, e \in Deciders :
    dec[d].att # NoAttempt /\ dec[e].att # NoAttempt /\ dec[d].on = dec[e].on => d = e

VerdictInv == TypeOK /\ OnCall /\ Progress /\ Emptied /\ FirstOnly

LEMMA VerdictStart == Init => VerdictInv
BY TypeStart, NothingAssumption DEF Init, VerdictInv, OnCall, Progress, Emptied, FirstOnly

(* Steps that touch no decision and no Incoming.                           *)
LEMMA VerdictQuiet ==
    ASSUME VerdictInv, TypeOK', UNCHANGED <<dec, inner>>,
           \A c \in Calls : call[c] \in Given => call'[c] \in Given
    PROVE  VerdictInv'
BY DEF VerdictInv, OnCall, Progress, Emptied, FirstOnly

(* d becomes a decision on c that took the attempt, or came too late.      *)
LEMMA VerdictSync ==
    ASSUME VerdictInv, TypeOK', NEW d \in Deciders, NEW c \in Calls,
           NEW v \in Verdicts, NEW st \in DecState,
           Decide(d, c, v, st),
           \/ inner[c] # NoAttempt /\ st \in {"ok", "error"} /\ TakeInner(c)
           \/ inner[c] = NoAttempt /\ st = "consumed" /\ UNCHANGED inner
    PROVE  VerdictInv'
<1>1. /\ dec[d].st = "idle" /\ call[c] = "incoming" /\ UNCHANGED call
      /\ dec'[d] = [st |-> st, on |-> c, verdict |-> v, att |-> inner[c]]
      /\ \A e \in Deciders : e # d => dec'[e] = dec[e]
  BY DEF Decide, Reachable, VerdictInv, TypeOK
<1>2. inner'[c] = NoAttempt /\ \A b \in Calls : b # c => inner'[b] = inner[b]
  BY DEF TakeInner, VerdictInv, TypeOK
<1>3. OnCall' /\ Progress'
  BY <1>1 DEF VerdictInv, OnCall, Progress, Given
<1>4. Emptied'
  BY <1>1, <1>2 DEF VerdictInv, Emptied
<1>5. inner[c] # NoAttempt => \A e \in Deciders : dec[e].on = c => dec[e].att = NoAttempt
  BY DEF VerdictInv, Emptied
<1>6. FirstOnly'
  BY <1>1, <1>5 DEF VerdictInv, FirstOnly
<1> QED BY <1>3, <1>4, <1>6 DEF VerdictInv

LEMMA VerdictUser == VerdictInv /\ TypeOK' /\ User => VerdictInv'
<1> SUFFICES ASSUME VerdictInv, TypeOK', User PROVE VerdictInv'
  OBVIOUS
<1>1. ASSUME Close \/ (\E S \in SUBSET Alpns : SetAlpns(S)) \/ (\E c \in Calls : Abandon(c))
      PROVE VerdictInv'
  BY <1>1, VerdictQuiet DEF Close, SetAlpns, Abandon
<1>2. ASSUME NEW c \in Calls, NEW k \in {"accept", "incoming"}, Call(c, k) PROVE VerdictInv'
  BY <1>2, VerdictQuiet DEF Call, VerdictInv, TypeOK, Given
<1>3. ASSUME NEW d \in Deciders, NEW c \in Calls,
             Refuse(d, c) \/ Ignore(d, c) \/ Retry(d, c) \/ RetryFails(d, c)
      PROVE VerdictInv'
  <2>1. PICK v \in Verdicts, st \in {"ok", "error"} : Decide(d, c, v, st)
    BY <1>3 DEF Refuse, Ignore, Retry, RetryFails, Verdicts
  <2>2. inner[c] # NoAttempt /\ TakeInner(c) /\ st \in DecState
    BY <1>3 DEF Refuse, Ignore, Retry, RetryFails, DecState
  <2> QED BY <2>1, <2>2, VerdictSync
<1>4. ASSUME NEW d \in Deciders, NEW c \in Calls, NEW v \in Verdicts, DecideTooLate(d, c, v)
      PROVE VerdictInv'
  BY <1>4, VerdictSync DEF DecideTooLate, DecState
<1>5. ASSUME NEW d \in Deciders, NEW c \in Calls, CallAccept(d, c) PROVE VerdictInv'
  <2>1. /\ dec[d].st = "idle" /\ call[c] = "incoming" /\ UNCHANGED <<call, inner>>
        /\ dec'[d] = [st |-> "queued", on |-> c, verdict |-> "accept", att |-> NoAttempt]
        /\ \A e \in Deciders : e # d => dec'[e] = dec[e]
    BY <1>5 DEF CallAccept, Reachable, VerdictInv, TypeOK
  <2>2. OnCall' /\ Progress' /\ Emptied'
    BY <2>1 DEF VerdictInv, OnCall, Progress, Emptied, Given
  <2>3. FirstOnly'
    BY <2>1 DEF VerdictInv, FirstOnly
  <2> QED BY <2>2, <2>3 DEF VerdictInv
<1> QED BY <1>1, <1>2, <1>3, <1>4, <1>5 DEF User

LEMMA VerdictTask ==
    ASSUME VerdictInv, TypeOK',
           \/ \E a \in Attempts : Connect(a) \/ GiveUp(a)
           \/ \E c \in Calls : Accepting(c) \/ Collect(c)
           \/ \E d \in Deciders : Deciding(d)
    PROVE  VerdictInv'
<1>1. ASSUME NEW a \in Attempts, Connect(a) \/ GiveUp(a) PROVE VerdictInv'
  BY <1>1, VerdictQuiet DEF Connect, GiveUp
<1>2. ASSUME NEW c \in Calls, TakeNone(c) \/ AcceptDone(c) \/ AcceptFails(c) PROVE VerdictInv'
  BY <1>2, VerdictQuiet DEF TakeNone, AcceptDone, AcceptFails, VerdictInv, TypeOK, Given
<1>3. ASSUME NEW c \in Calls, Take(c) PROVE VerdictInv'
  <2>1. CASE UNCHANGED inner
    <3>1. UNCHANGED dec /\ \A b \in Calls : call[b] \in Given => call'[b] \in Given
      BY <1>3 DEF Take, VerdictInv, TypeOK, Given
    <3> QED BY <2>1, <3>1, VerdictQuiet
  <2>2. CASE ~UNCHANGED inner
    <3>1. /\ call[c] = "waiting" /\ UNCHANGED dec
          /\ \A b \in Calls : b # c => inner'[b] = inner[b] /\ call'[b] = call[b]
      BY <1>3, <2>2 DEF Take, VerdictInv, TypeOK
    <3>2. \A d \in Deciders : dec[d].on # c
      BY <3>1 DEF VerdictInv, Progress, Given
    <3>3. OnCall' /\ Progress' /\ FirstOnly'
      BY <3>1, <3>2 DEF VerdictInv, OnCall, Progress, FirstOnly
    <3>4. Emptied'
      BY <3>1, <3>2 DEF VerdictInv, Emptied
    <3> QED BY <3>3, <3>4 DEF VerdictInv
  <2> QED BY <2>1, <2>2
<1>4. ASSUME NEW c \in Calls, Collect(c) PROVE VerdictInv'
  <2>1. /\ UNCHANGED dec /\ call' = [call EXCEPT ![c] = "collected"]
        /\ inner' = [inner EXCEPT ![c] = NoAttempt]
    BY <1>4 DEF Collect, TakeInner
  <2>2. OnCall' /\ Progress' /\ FirstOnly'
    BY <2>1 DEF VerdictInv, TypeOK, OnCall, Progress, FirstOnly, Given
  <2>3. Emptied'
    BY <2>1 DEF VerdictInv, TypeOK, Emptied
  <2> QED BY <2>2, <2>3 DEF VerdictInv
<1>5. ASSUME NEW d \in Deciders, AcceptTakes(d) PROVE VerdictInv'
  <2> DEFINE c == dec[d].on
  <2>1. c \in Calls /\ inner[c] \in Attempts /\ dec[d].st = "queued" /\ UNCHANGED call
    BY <1>5 DEF AcceptTakes, VerdictInv, TypeOK, OnCall
  <2>2. /\ dec'[d].st = "handshake" /\ dec'[d].att = inner[c]
        /\ dec'[d].on = c /\ dec'[d].verdict = dec[d].verdict
        /\ \A e \in Deciders : e # d => dec'[e] = dec[e]
    BY <1>5 DEF AcceptTakes, VerdictInv, TypeOK, Decisions
  <2>3. inner'[c] = NoAttempt /\ \A b \in Calls : b # c => inner'[b] = inner[b]
    BY <1>5, <2>1 DEF AcceptTakes, TakeInner, VerdictInv, TypeOK
  <2>4. OnCall' /\ Progress'
    BY <2>1, <2>2, NothingAssumption DEF VerdictInv, OnCall, Progress
  <2>5. Emptied'
    BY <2>1, <2>2, <2>3 DEF VerdictInv, Emptied
  <2>6. \A e \in Deciders : dec[e].on = c => dec[e].att = NoAttempt
    BY <2>1, NothingAssumption DEF VerdictInv, Emptied
  <2>7. FirstOnly'
    BY <2>2, <2>6 DEF VerdictInv, FirstOnly
  <2> QED BY <2>4, <2>5, <2>7 DEF VerdictInv
<1>6. ASSUME NEW d \in Deciders,
             AcceptTooLate(d) \/ IncomingDone(d) \/ IncomingFails(d) PROVE VerdictInv'
  <2>1. PICK st \in {"consumed", "ok", "error"} :
            /\ dec' = [dec EXCEPT ![d].st = st] /\ UNCHANGED <<call, inner>>
            /\ st = "consumed" <=> dec[d].st = "queued"
            /\ dec[d].st \in {"queued", "handshake"}
    BY <1>6 DEF AcceptTooLate, IncomingDone, IncomingFails
  <2>2. /\ dec'[d].st = st /\ dec'[d].att = dec[d].att
        /\ dec'[d].on = dec[d].on /\ dec'[d].verdict = dec[d].verdict
        /\ \A e \in Deciders : e # d => dec'[e] = dec[e]
    BY <2>1 DEF VerdictInv, TypeOK, Decisions
  <2>3. OnCall' /\ Emptied' /\ FirstOnly'
    BY <2>1, <2>2 DEF VerdictInv, OnCall, Emptied, FirstOnly
  <2>4. Progress'
    BY <2>1, <2>2 DEF VerdictInv, OnCall, Progress
  <2> QED BY <2>3, <2>4 DEF VerdictInv
<1> QED BY <1>1, <1>2, <1>3, <1>4, <1>5, <1>6 DEF Accepting, Deciding

LEMMA VerdictStep == VerdictInv /\ [Next]_vars => VerdictInv'
<1> SUFFICES ASSUME VerdictInv, [Next]_vars PROVE VerdictInv'
  OBVIOUS
<1>1. TypeOK'
  BY TypeStep DEF VerdictInv
<1>2. ASSUME UNCHANGED vars PROVE VerdictInv'
  BY <1>1, <1>2, VerdictQuiet DEF vars
<1> QED BY <1>1, <1>2, VerdictUser, VerdictTask DEF Next

(* The state of the accepting side is well typed (endpoint.rs 145-173,     *)
(* connection.rs 66-124).                                                  *)
THEOREM TypeCorrect == Spec => []TypeOK
<1>1. VerdictInv => TypeOK BY DEF VerdictInv
<1> QED BY VerdictStart, VerdictStep, <1>1, PTL DEF Spec

LEMMA AtMostOne ==
    ASSUME NEW S, \A x, y \in S : x = y
    PROVE  Cardinality(S) \in {0, 1}
<1>1. CASE S = {}
  BY <1>1, FS_EmptySet
<1>2. CASE S # {}
  <2>1. PICK x \in S : TRUE
    BY <1>2
  <2>2. S = {x}
    BY <2>1
  <2> QED BY <2>2, FS_Singleton
<1> QED BY <1>1, <1>2

(* However many decisions race on an Incoming, one at most takes the        *)
(* attempt and the others are told that it is consumed (connection.rs 48-50 *)
(* and 66-72).                                                             *)
THEOREM DecidedOnce == Spec => []OneVerdict
<1>1. VerdictInv => OneVerdict
  <2> SUFFICES ASSUME VerdictInv, NEW c \in Calls
               PROVE  LET on == {d \in Deciders : dec[d].on = c}
                          took == {d \in on : dec[d].att # NoAttempt}
                      IN  /\ Cardinality(took) <= 1
                          /\ inner[c] # NoAttempt => took = {}
                          /\ \A d \in on \ took : dec[d].st \in {"queued", "consumed"}
    BY DEF OneVerdict
  <2> DEFINE on == {d \in Deciders : dec[d].on = c}
  <2> DEFINE took == {d \in on : dec[d].att # NoAttempt}
  <2>1. Cardinality(took) <= 1
    BY AtMostOne DEF VerdictInv, FirstOnly
  <2>2. inner[c] # NoAttempt => took = {}
    BY DEF VerdictInv, Emptied
  <2>3. \A d \in on \ took : dec[d].st \in {"queued", "consumed"}
    BY DEF VerdictInv, Progress
  <2> QED BY <2>1, <2>2, <2>3
<1> QED BY VerdictStart, VerdictStep, <1>1, PTL DEF Spec

-----------------------------------------------------------------------------
(* Hands.  HeldOnce, part by part: no attempt is twice in one kind of hand,  *)
(* none in two kinds; and one whose peer has not connected is in none, so    *)
(* that Connect adds a new one.                                            *)
Took(d) == dec[d].verdict = "accept" /\ dec[d].st \in {"handshake", "ok"}

InHand(a) ==
    \/ \E n \in 1..Len(queue) : queue[n] = a
    \/ \E c \in Calls : held[c] = a \/ inner[c] = a
    \/ \E d \in Deciders : Took(d) /\ dec[d].att = a

QueueOnce    == \A m, n \in 1..Len(queue) : queue[m] = queue[n] => m = n
CallOnce     == \A b, c \in Calls : held[b] # NoAttempt /\ held[b] = held[c] => b = c
IncomingOnce == \A b, c \in Calls : inner[b] # NoAttempt /\ inner[b] = inner[c] => b = c
DecisionOnce == \A d, e \in Deciders : Took(d) /\ Took(e) /\ dec[d].att = dec[e].att => d = e

Apart ==
    /\ \A n \in 1..Len(queue), c \in Calls : queue[n] # held[c] /\ queue[n] # inner[c]
    /\ \A n \in 1..Len(queue), d \in Deciders : Took(d) => queue[n] # dec[d].att
    /\ \A b, c \in Calls : held[b] # NoAttempt => held[b] # inner[c]
    /\ \A c \in Calls, d \in Deciders :
          Took(d) => dec[d].att # held[c] /\ dec[d].att # inner[c]

Unborn == \A a \in Attempts : peer[a] = "idle" => ~InHand(a)

HandInv == /\ VerdictInv
           /\ QueueOnce /\ CallOnce /\ IncomingOnce /\ DecisionOnce /\ Apart /\ Unborn

LEMMA TookSome == ASSUME VerdictInv, NEW d \in Deciders, Took(d) PROVE dec[d].att \in Attempts
BY DEF VerdictInv, TypeOK, Decisions, OnCall, Progress, Took

LEMMA HandStart == Init => HandInv
BY VerdictStart, NothingAssumption
   DEF Init, HandInv, QueueOnce, CallOnce, IncomingOnce, DecisionOnce, Apart, Unborn, InHand, Took

(* A step that at most lets go of attempts.                                *)
Shrinks ==
    /\ UNCHANGED queue \/ queue' = <<>> \/ (queue # <<>> /\ queue' = Tail(queue))
    /\ \A c \in Calls : held'[c] \in {held[c], NoAttempt} /\ inner'[c] \in {inner[c], NoAttempt}
    /\ \A d \in Deciders : Took(d)' => Took(d) /\ dec'[d].att = dec[d].att
    /\ \A a \in Attempts : peer'[a] = "idle" => peer[a] = "idle"

LEMMA ShrinkKeeps ==
    ASSUME HandInv, VerdictInv', Shrinks
    PROVE  /\ HandInv'
           /\ \A a \in Attempts : InHand(a)' => InHand(a)
<1> USE NothingAssumption
<1>1. /\ queue \in Seq(Attempts) /\ queue' \in Seq(Attempts)
      /\ \A a \in Attempts : a # NoAttempt
      /\ \A n \in 1..Len(queue) : queue[n] \in Attempts
  BY DEF HandInv, VerdictInv, TypeOK
<1>2. PICK k \in {0, 1} : \A n \in 1..Len(queue') :
          n + k \in 1..Len(queue) /\ queue'[n] = queue[n + k]
  <2>1. CASE UNCHANGED queue
    BY <1>1, <2>1
  <2>2. CASE queue' = <<>>
    BY <2>2
  <2>3. CASE queue # <<>> /\ queue' = Tail(queue)
    BY <1>1, <2>3
  <2> QED BY <2>1, <2>2, <2>3 DEF Shrinks
<1>3. \A d \in Deciders : Took(d)' => dec[d].att \in Attempts
  BY TookSome DEF Shrinks, HandInv
<1>4. \A a \in Attempts : InHand(a)' => InHand(a)
  BY <1>1, <1>2 DEF Shrinks, InHand
<1>5. QueueOnce' /\ CallOnce' /\ IncomingOnce'
  BY <1>1, <1>2 DEF Shrinks, HandInv, QueueOnce, CallOnce, IncomingOnce
<1>6. DecisionOnce'
  BY DEF Shrinks, HandInv, DecisionOnce
<1>7. Apart'
  <2>1. \A n \in 1..Len(queue'), c \in Calls : queue'[n] # held'[c] /\ queue'[n] # inner'[c]
    BY <1>1, <1>2 DEF Shrinks, HandInv, Apart
  <2>2. \A n \in 1..Len(queue'), d \in Deciders : Took(d)' => queue'[n] # dec'[d].att
    BY <1>2 DEF Shrinks, HandInv, Apart
  <2>3. \A b, c \in Calls : held'[b] # NoAttempt => held'[b] # inner'[c]
    BY DEF Shrinks, HandInv, Apart
  <2>4. \A c \in Calls, d \in Deciders :
            Took(d)' => dec'[d].att # held'[c] /\ dec'[d].att # inner'[c]
    BY <1>3 DEF Shrinks, HandInv, Apart
  <2> QED BY <2>1, <2>2, <2>3, <2>4 DEF Apart
<1>8. Unborn'
  BY <1>4 DEF Shrinks, HandInv, Unborn
<1> QED BY <1>4, <1>5, <1>6, <1>7, <1>8 DEF HandInv

(* An attempt that no hand has, or only one that lets go of it, joins the   *)
(* end of the queue.                                                       *)
LEMMA AppendKeeps ==
    ASSUME HandInv, VerdictInv', NEW a \in Attempts,
           queue' = Append(queue, a), peer'[a] # "idle",
           \A b \in Attempts : peer'[b] = "idle" => peer[b] = "idle",
           UNCHANGED held,
           \A d \in Deciders : Took(d)' => Took(d) /\ dec'[d].att = dec[d].att,
           \/ ~InHand(a) /\ UNCHANGED inner
           \/ \E c \in Calls : inner[c] = a /\ TakeInner(c)
    PROVE  HandInv' /\ \A b \in Attempts : InHand(b)' => InHand(b) \/ b = a
<1> USE NothingAssumption
<1>1. /\ queue \in Seq(Attempts) /\ Len(queue') = Len(queue) + 1
      /\ queue'[Len(queue) + 1] = a
      /\ \A n \in 1..Len(queue) : queue'[n] = queue[n] /\ queue[n] \in Attempts
  BY DEF HandInv, VerdictInv, TypeOK
<1>2. /\ \A c \in Calls : inner'[c] \in {inner[c], NoAttempt} /\ inner'[c] # a
      /\ \A n \in 1..Len(queue) : queue[n] # a
      /\ \A c \in Calls : held[c] # a
      /\ \A d \in Deciders : Took(d) => dec[d].att # a
  <2>1. CASE ~InHand(a) /\ UNCHANGED inner
    BY <2>1 DEF InHand
  <2>2. ASSUME NEW c \in Calls, inner[c] = a, TakeInner(c) PROVE <1>2!:
    <3>1. inner'[c] = NoAttempt /\ \A b \in Calls : b # c => inner'[b] = inner[b]
      BY <2>2 DEF TakeInner, HandInv, VerdictInv, TypeOK
    <3> QED BY <2>2, <3>1 DEF HandInv, Apart, IncomingOnce
  <2> QED BY <2>1, <2>2
<1>3. \A n \in 1..Len(queue') : n \in 1..Len(queue) \/ n = Len(queue) + 1
  BY <1>1
<1>4. \A d \in Deciders : Took(d)' => dec[d].att \in Attempts
  BY TookSome DEF HandInv
<1>5. \A b \in Attempts : InHand(b)' => InHand(b) \/ b = a
  BY <1>1, <1>2, <1>3 DEF InHand
<1>6. QueueOnce'
  BY <1>1, <1>2, <1>3 DEF HandInv, QueueOnce
<1>7. CallOnce' /\ IncomingOnce' /\ DecisionOnce'
  BY <1>2 DEF HandInv, CallOnce, IncomingOnce, DecisionOnce
<1>8. Apart'
  <2>1. \A n \in 1..Len(queue'), c \in Calls : queue'[n] # held'[c] /\ queue'[n] # inner'[c]
    BY <1>1, <1>2, <1>3 DEF HandInv, Apart
  <2>2. \A n \in 1..Len(queue'), d \in Deciders : Took(d)' => queue'[n] # dec'[d].att
    BY <1>1, <1>2, <1>3 DEF HandInv, Apart
  <2>3. \A b, c \in Calls : held'[b] # NoAttempt => held'[b] # inner'[c]
    BY <1>2 DEF HandInv, Apart
  <2>4. \A c \in Calls, d \in Deciders :
            Took(d)' => dec'[d].att # held'[c] /\ dec'[d].att # inner'[c]
    BY <1>2, <1>4 DEF HandInv, Apart
  <2> QED BY <2>1, <2>2, <2>3, <2>4 DEF Apart
<1>9. Unborn'
  BY <1>5 DEF HandInv, Unborn
<1> QED BY <1>5, <1>6, <1>7, <1>8, <1>9 DEF HandInv

(* The oldest attempt goes to an accept call or to a new Incoming.         *)
LEMMA TakeKeeps ==
    ASSUME HandInv, VerdictInv', NEW c \in Calls, Take(c)
    PROVE  HandInv' /\ \A a \in Attempts : InHand(a)' => InHand(a)
<1> USE NothingAssumption
<1> DEFINE h == Head(queue)
<1>1. /\ queue \in Seq(Attempts) /\ h \in Attempts /\ h = queue[1] /\ 1 \in 1..Len(queue)
      /\ \A n \in 1..Len(queue') : n + 1 \in 1..Len(queue) /\ queue'[n] = queue[n + 1]
      /\ \A n \in 1..Len(queue) : queue[n] \in Attempts
  BY DEF Take, HandInv, VerdictInv, TypeOK
<1>2. /\ UNCHANGED <<dec, peer>>
      /\ \A b \in Calls : b # c => held'[b] = held[b] /\ inner'[b] = inner[b]
      /\ \/ held'[c] = h /\ inner'[c] = inner[c]
         \/ held'[c] = held[c] /\ inner'[c] = h
  BY DEF Take, HandInv, VerdictInv, TypeOK
<1>3. /\ \A b \in Calls : held[b] # h /\ inner[b] # h
      /\ \A d \in Deciders : Took(d) => dec[d].att # h
      /\ \A n \in 1..Len(queue') : queue'[n] # h
  BY <1>1 DEF HandInv, Apart, QueueOnce
<1>4. \A d \in Deciders : (Took(d)' <=> Took(d)) /\ dec'[d] = dec[d]
  BY <1>2 DEF Took
<1> HIDE DEF h
<1>5. \A a \in Attempts : InHand(a)' => InHand(a)
  BY <1>1, <1>2, <1>4 DEF InHand
<1>6. QueueOnce'
  BY <1>1 DEF HandInv, QueueOnce
<1>7. CallOnce' /\ IncomingOnce' /\ DecisionOnce'
  BY <1>2, <1>3, <1>4 DEF HandInv, CallOnce, IncomingOnce, DecisionOnce
<1>8. Apart'
  <2>1. \A n \in 1..Len(queue'), b \in Calls : queue'[n] # held'[b] /\ queue'[n] # inner'[b]
    BY <1>1, <1>2, <1>3 DEF HandInv, Apart
  <2>2. \A n \in 1..Len(queue'), d \in Deciders : Took(d)' => queue'[n] # dec'[d].att
    BY <1>1, <1>4 DEF HandInv, Apart
  <2>3. \A a, b \in Calls : held'[a] # NoAttempt => held'[a] # inner'[b]
    BY <1>2, <1>3 DEF HandInv, Apart
  <2>4. \A b \in Calls, d \in Deciders :
            Took(d)' => dec'[d].att # held'[b] /\ dec'[d].att # inner'[b]
    BY <1>2, <1>3, <1>4 DEF HandInv, Apart
  <2> QED BY <2>1, <2>2, <2>3, <2>4 DEF Apart
<1>9. Unborn'
  BY <1>2, <1>5 DEF HandInv, Unborn
<1> QED BY <1>5, <1>6, <1>7, <1>8, <1>9 DEF HandInv

(* Incoming.accept moves the attempt from the Incoming to the decision.     *)
LEMMA AcceptTakesKeeps ==
    ASSUME HandInv, VerdictInv', NEW d \in Deciders, AcceptTakes(d)
    PROVE  HandInv' /\ \A a \in Attempts : InHand(a)' => InHand(a)
<1> USE NothingAssumption
<1> DEFINE c == dec[d].on
<1> DEFINE t == inner[c]
<1>1. c \in Calls /\ t \in Attempts /\ ~Took(d) /\ UNCHANGED <<queue, held, peer>>
  BY DEF AcceptTakes, HandInv, VerdictInv, TypeOK, OnCall, Took
<1>2. /\ dec'[d].att = t
      /\ \A e \in Deciders : e # d => dec'[e] = dec[e]
  BY DEF AcceptTakes, HandInv, VerdictInv, TypeOK, Decisions
<1>3. inner'[c] = NoAttempt /\ \A b \in Calls : b # c => inner'[b] = inner[b]
  BY <1>1 DEF AcceptTakes, TakeInner, HandInv, VerdictInv, TypeOK
<1> HIDE DEF t, c
<1>4. \A e \in Deciders : e # d => (Took(e)' <=> Took(e))
  BY <1>2 DEF Took
<1>5. /\ \A b \in Calls : held[b] # t /\ inner'[b] # t
      /\ \A e \in Deciders : Took(e) => dec[e].att # t
      /\ \A n \in 1..Len(queue) : queue[n] # t
  BY <1>1, <1>3 DEF HandInv, Apart, IncomingOnce, t
<1>6. \A a \in Attempts : InHand(a)' => InHand(a)
  <2>1. InHand(t)
    BY <1>1 DEF InHand, t
  <2> QED BY <1>1, <1>2, <1>3, <1>4, <2>1 DEF InHand
<1>7. QueueOnce' /\ CallOnce'
  BY <1>1 DEF HandInv, QueueOnce, CallOnce
<1>8. IncomingOnce' /\ DecisionOnce'
  BY <1>1, <1>2, <1>3, <1>4, <1>5 DEF HandInv, IncomingOnce, DecisionOnce
<1>9. Apart'
  <2>1. \A n \in 1..Len(queue'), b \in Calls : queue'[n] # held'[b] /\ queue'[n] # inner'[b]
    <3>1. \A n \in 1..Len(queue) : queue[n] \in Attempts
      BY DEF HandInv, VerdictInv, TypeOK
    <3> QED BY <1>1, <1>3, <3>1 DEF HandInv, Apart
  <2>2. \A n \in 1..Len(queue'), e \in Deciders : Took(e)' => queue'[n] # dec'[e].att
    BY <1>1, <1>2, <1>4, <1>5 DEF HandInv, Apart
  <2>3. \A a, b \in Calls : held'[a] # NoAttempt => held'[a] # inner'[b]
    BY <1>1, <1>3 DEF HandInv, Apart
  <2>4. \A b \in Calls, e \in Deciders :
            Took(e)' => dec'[e].att # held'[b] /\ dec'[e].att # inner'[b]
    <3>1. \A e \in Deciders : Took(e) => dec[e].att \in Attempts
      BY TookSome DEF HandInv
    <3> QED BY <1>1, <1>2, <1>3, <1>4, <1>5, <3>1 DEF HandInv, Apart
  <2> QED BY <2>1, <2>2, <2>3, <2>4 DEF Apart
<1>10. Unborn'
  BY <1>1, <1>6 DEF HandInv, Unborn
<1> QED BY <1>6, <1>7, <1>8, <1>9, <1>10 DEF HandInv

(* Of the steps of a user only a retry adds to the queue.                  *)
LEMMA UserMoves ==
    ASSUME HandInv, VerdictInv', User
    PROVE  HandInv' /\ \A a \in Attempts : InHand(a)' => InHand(a)
<1>1. ASSUME Close \/ (\E S \in SUBSET Alpns : SetAlpns(S)) \/ (\E c \in Calls : Abandon(c))
             \/ (\E c \in Calls, k \in {"accept", "incoming"} : Call(c, k))
      PROVE  Shrinks
  <2>1. UNCHANGED <<held, inner, dec>> /\ (UNCHANGED queue \/ queue' = <<>>)
    BY <1>1 DEF Close, SetAlpns, Abandon, Call
  <2>2. \A a \in Attempts : peer'[a] = "idle" => peer[a] = "idle"
    BY <1>1 DEF Close, SetAlpns, Abandon, Call, Tell, peerVars, HandInv, VerdictInv, TypeOK
  <2> QED BY <2>1, <2>2 DEF Shrinks, Took
<1>2. ASSUME NEW d \in Deciders, NEW c \in Calls, NEW v \in Verdicts, NEW st \in DecState,
             Decide(d, c, v, st), v # "accept" \/ st = "consumed"
      PROVE  /\ UNCHANGED held
             /\ \A e \in Deciders : Took(e)' => Took(e) /\ dec'[e].att = dec[e].att
  BY <1>2 DEF Decide, Took, HandInv, VerdictInv, TypeOK
<1>3. ASSUME NEW d \in Deciders, NEW c \in Calls,
             \/ Refuse(d, c) \/ Ignore(d, c) \/ RetryFails(d, c)
             \/ \E v \in Verdicts \ {"accept"} : DecideTooLate(d, c, v)
      PROVE  Shrinks
  <2>1. PICK v \in Verdicts \ {"accept"}, st \in DecState : Decide(d, c, v, st)
    BY <1>3 DEF Refuse, Ignore, RetryFails, DecideTooLate, Verdicts, DecState
  <2>2. UNCHANGED held /\ \A e \in Deciders : Took(e)' => Took(e) /\ dec'[e].att = dec[e].att
    BY <2>1, <1>2
  <2>3. UNCHANGED queue /\ (UNCHANGED inner \/ TakeInner(c))
    BY <1>3 DEF Refuse, Ignore, RetryFails, DecideTooLate
  <2>4. \A b \in Calls : inner'[b] \in {inner[b], NoAttempt}
    BY <2>3 DEF TakeInner, HandInv, VerdictInv, TypeOK
  <2>5. \A a \in Attempts : peer'[a] = "idle" => peer[a] = "idle"
    BY <1>3 DEF Refuse, Ignore, RetryFails, DecideTooLate, Tell, peerVars,
                HandInv, VerdictInv, TypeOK
  <2> QED BY <2>2, <2>3, <2>4, <2>5 DEF Shrinks
<1>4. ASSUME NEW d \in Deciders, NEW c \in Calls, CallAccept(d, c) PROVE Shrinks
  BY <1>4 DEF CallAccept, Shrinks, Took, peerVars, HandInv, VerdictInv, TypeOK
<1>5. ASSUME NEW d \in Deciders, NEW c \in Calls, Retry(d, c)
      PROVE  HandInv' /\ \A a \in Attempts : InHand(a)' => InHand(a)
  <2>1. UNCHANGED held /\ \A e \in Deciders : Took(e)' => Took(e) /\ dec'[e].att = dec[e].att
    BY <1>5, <1>2 DEF Retry, Verdicts, DecState
  <2>2. \A a \in Attempts : peer'[a] = "idle" => peer[a] = "idle"
    BY <1>5 DEF Retry, Tell, HandInv, VerdictInv, TypeOK
  <2>3. CASE UNCHANGED queue
    <3>1. \A b \in Calls : inner'[b] \in {inner[b], NoAttempt}
      BY <1>5 DEF Retry, TakeInner, HandInv, VerdictInv, TypeOK
    <3> QED BY <2>1, <2>2, <2>3, <3>1, ShrinkKeeps DEF Shrinks
  <2>4. CASE ~UNCHANGED queue
    <3>1. /\ inner[c] \in Attempts /\ InHand(inner[c]) /\ TakeInner(c)
          /\ queue' = Append(queue, inner[c]) /\ peer'[inner[c]] # "idle"
      BY <1>5, <2>4 DEF Retry, InHand, HandInv, VerdictInv, TypeOK
    <3> QED BY <2>1, <2>2, <3>1, AppendKeeps
  <2> QED BY <2>3, <2>4
<1> QED BY <1>1, <1>3, <1>4, <1>5, ShrinkKeeps DEF User

LEMMA TaskMoves ==
    ASSUME HandInv, VerdictInv',
           \/ \E a \in Attempts : GiveUp(a)
           \/ \E c \in Calls : Accepting(c) \/ Collect(c)
           \/ \E d \in Deciders : Deciding(d)
    PROVE  HandInv' /\ \A a \in Attempts : InHand(a)' => InHand(a)
<1>1. ASSUME NEW a \in Attempts, GiveUp(a) PROVE Shrinks
  BY <1>1 DEF GiveUp, Shrinks, Took, HandInv, VerdictInv, TypeOK
<1>2. ASSUME NEW c \in Calls, TakeNone(c) \/ AcceptDone(c) PROVE Shrinks
  BY <1>2 DEF TakeNone, AcceptDone, Tell, peerVars, Shrinks, Took, HandInv, VerdictInv, TypeOK
<1>3. ASSUME NEW c \in Calls, AcceptFails(c) PROVE Shrinks
  BY <1>3 DEF AcceptFails, Tell, Shrinks, Took, HandInv, VerdictInv, TypeOK
<1>4. ASSUME NEW c \in Calls, Collect(c) PROVE Shrinks
  BY <1>4 DEF Collect, TakeInner, Tell, Shrinks, Took, HandInv, VerdictInv, TypeOK
<1>5. ASSUME NEW d \in Deciders,
             AcceptTooLate(d) \/ IncomingDone(d) \/ IncomingFails(d) PROVE Shrinks
  <2>1. PICK st \in {"consumed", "ok", "error"} :
            /\ dec' = [dec EXCEPT ![d].st = st] /\ UNCHANGED <<queue, held, inner>>
            /\ st = "ok" => dec[d].st = "handshake"
    BY <1>5 DEF AcceptTooLate, IncomingDone, IncomingFails
  <2>2. \A e \in Deciders : Took(e)' => Took(e) /\ dec'[e].att = dec[e].att
    BY <2>1 DEF Took, HandInv, VerdictInv, TypeOK, Decisions
  <2>3. \A a \in Attempts : peer'[a] = "idle" => peer[a] = "idle"
    BY <1>5 DEF AcceptTooLate, IncomingDone, IncomingFails, Tell, peerVars,
                HandInv, VerdictInv, TypeOK
  <2> QED BY <2>1, <2>2, <2>3 DEF Shrinks
<1> QED BY <1>1, <1>2, <1>3, <1>4, <1>5, ShrinkKeeps, TakeKeeps, AcceptTakesKeeps
        DEF Accepting, Deciding

(* A new hand gets its attempt from another hand or from a peer that       *)
(* connects.                                                               *)
LEMMA HandStep ==
    ASSUME HandInv, [Next]_vars
    PROVE  HandInv' /\ \A a \in Attempts : InHand(a)' => InHand(a) \/ peer[a] = "idle"
<1>1. VerdictInv'
  BY VerdictStep DEF HandInv
<1>2. ASSUME NEW a \in Attempts, Connect(a)
      PROVE  HandInv' /\ \A b \in Attempts : InHand(b)' => InHand(b) \/ peer[b] = "idle"
  <2>1. /\ ~InHand(a) /\ peer[a] = "idle" /\ UNCHANGED <<held, inner, dec>>
        /\ queue' = Append(queue, a)
    BY <1>2 DEF Connect, HandInv, Unborn
  <2>2. peer'[a] # "idle" /\ \A b \in Attempts : peer'[b] = "idle" => peer[b] = "idle"
    BY <1>2 DEF Connect, HandInv, VerdictInv, TypeOK
  <2>3. \A d \in Deciders : Took(d)' => Took(d) /\ dec'[d].att = dec[d].att
    BY <2>1 DEF Took
  <2> QED BY <1>1, <2>1, <2>2, <2>3, AppendKeeps
<1>3. ASSUME UNCHANGED vars PROVE Shrinks
  BY <1>3 DEF vars, peerVars, Shrinks, Took
<1> QED BY <1>1, <1>2, <1>3, ShrinkKeeps, UserMoves, TaskMoves DEF Next

LEMMA IdleNeverAgain ==
    ASSUME TypeOK, Next
    PROVE  \A a \in Attempts : peer'[a] = "idle" => peer[a] = "idle"
<1>1. User => \A a \in Attempts : peer'[a] = "idle" => peer[a] = "idle"
  BY DEF User, Close, SetAlpns, Call, Abandon, Refuse, Ignore, Retry, RetryFails, CallAccept,
         DecideTooLate, Tell, peerVars, TypeOK
<1>2. ASSUME NEW c \in Calls, Accepting(c) \/ Collect(c)
      PROVE  \A a \in Attempts : peer'[a] = "idle" => peer[a] = "idle"
  BY <1>2 DEF Accepting, Take, TakeNone, AcceptDone, AcceptFails, Collect, Tell, peerVars, TypeOK
<1>3. ASSUME NEW d \in Deciders, Deciding(d)
      PROVE  \A a \in Attempts : peer'[a] = "idle" => peer[a] = "idle"
  BY <1>3 DEF Deciding, AcceptTakes, AcceptTooLate, IncomingDone, IncomingFails, Tell, peerVars,
              TypeOK
<1>4. ASSUME NEW b \in Attempts, Connect(b) \/ GiveUp(b)
      PROVE  \A a \in Attempts : peer'[a] = "idle" => peer[a] = "idle"
  BY <1>4 DEF Connect, GiveUp, TypeOK
<1> QED BY <1>1, <1>2, <1>3, <1>4 DEF Next

LEMMA HeldOnceHolds ==
    ASSUME HandInv, NEW a \in Attempts
    PROVE  /\ Cardinality(Holders(a)) \in {0, 1}
           /\ ~InHand(a) => Holders(a) = {}
<1>1. DOMAIN queue = 1..Len(queue) /\ a # NoAttempt
  BY NothingAssumption DEF HandInv, VerdictInv, TypeOK
<1>2. ASSUME NEW x \in Holders(a), NEW y \in Holders(a) PROVE x = y
  BY <1>1, <1>2 DEF Holders, HandInv, QueueOnce, CallOnce, IncomingOnce, DecisionOnce, Apart, Took
<1>3. ~InHand(a) => Holders(a) = {}
  BY <1>1 DEF Holders, InHand, Took
<1> QED BY <1>2, <1>3, AtMostOne

-----------------------------------------------------------------------------
(* Nobody is forgotten: the second half of HeldOnce, attempt by attempt.    *)
LEMMA InTail ==
    ASSUME NEW s \in Seq(Attempts), NEW a, s # <<>>, Contains(s, a)
    PROVE  a = Head(s) \/ Contains(Tail(s), a)
<1>1. PICK i \in 1..Len(s) : s[i] = a
  BY DEF Contains
<1>2. CASE i = 1
  BY <1>1, <1>2
<1>3. CASE i # 1
  <2>1. i - 1 \in 1..Len(Tail(s)) /\ Tail(s)[i - 1] = s[i]
    BY <1>3, HeadTailProperties
  <2> QED BY <1>1, <2>1 DEF Contains
<1> QED BY <1>2, <1>3

LEMMA InAppend ==
    ASSUME NEW s \in Seq(Attempts), NEW b \in Attempts
    PROVE  /\ Contains(Append(s, b), b)
           /\ \A a : Contains(s, a) => Contains(Append(s, b), a)
<1>1. /\ Len(s) \in Nat /\ Len(Append(s, b)) = Len(s) + 1 /\ Append(s, b)[Len(s) + 1] = b
      /\ \A i \in 1..Len(s) : Append(s, b)[i] = s[i]
  BY AppendProperties, LenProperties
<1> QED BY <1>1 DEF Contains

InCall(c, a)     == inner[c] = a \/ (held[c] = a /\ call[c] = "handshake")
InDecision(d, a) == dec[d].att = a /\ dec[d].st = "handshake"

(* Only what acceptIncoming returned has an attempt in its Option.          *)
InnerInv == \A c \in Calls : inner[c] # NoAttempt => call[c] = "incoming"

LEMMA InnerStep ==
    ASSUME TypeOK, InnerInv, [Next]_vars
    PROVE  InnerInv'
<1> USE NothingAssumption DEF epVars, peerVars, InnerInv
<1>1. ASSUME UNCHANGED <<call, inner>> PROVE InnerInv'
  BY <1>1
<1>2. ASSUME NEW c \in Calls, UNCHANGED call, TakeInner(c) PROVE InnerInv'
  BY <1>2 DEF TakeInner, TypeOK
<1>3. ASSUME NEW c \in Calls, UNCHANGED inner, call[c] # "incoming",
             \A b \in Calls : b # c => call'[b] = call[b]
      PROVE InnerInv'
  BY <1>3
<1>4. ASSUME User PROVE InnerInv'
  <2>1. \/ UNCHANGED <<call, inner>>
        \/ \E c \in Calls : UNCHANGED call /\ TakeInner(c)
        \/ \E c \in Calls : /\ UNCHANGED inner /\ call[c] # "incoming"
                            /\ \A b \in Calls : b # c => call'[b] = call[b]
    BY <1>4 DEF User, Close, SetAlpns, Call, Abandon, Refuse, Ignore, Retry, RetryFails, CallAccept,
                DecideTooLate, Decide, TypeOK
  <2> QED BY <2>1, <1>1, <1>2, <1>3
<1>5. ASSUME NEW c \in Calls, Take(c) PROVE InnerInv'
  <2>1. /\ call[c] = "waiting"
        /\ \A b \in Calls : b # c => call'[b] = call[b] /\ inner'[b] = inner[b]
        /\ \/ UNCHANGED inner
           \/ call'[c] = "incoming"
    BY <1>5 DEF Take, TypeOK
  <2> QED BY <2>1
<1>6. ASSUME NEW c \in Calls, TakeNone(c) \/ AcceptDone(c) \/ AcceptFails(c) PROVE InnerInv'
  BY <1>3, <1>6 DEF TakeNone, AcceptDone, AcceptFails, TypeOK
<1>7. ASSUME NEW c \in Calls, Collect(c) PROVE InnerInv'
  BY <1>7 DEF Collect, TakeInner, TypeOK
<1>8. ASSUME NEW d \in Deciders, Deciding(d), dec[d].st = "queued" => dec[d].on \in Calls PROVE InnerInv'
  <2>1. \/ UNCHANGED <<call, inner>>
        \/ \E c \in Calls : UNCHANGED call /\ TakeInner(c)
    BY <1>8 DEF Deciding, AcceptTakes, AcceptTooLate, IncomingDone, IncomingFails
  <2> QED BY <2>1, <1>1, <1>2
<1>9. ASSUME NEW d \in Deciders, Deciding(d), dec[d].on \notin Calls PROVE InnerInv'
  <2>1. \A c \in Calls : inner'[c] = inner[c] /\ call'[c] = call[c]
    BY <1>9 DEF Deciding, AcceptTakes, AcceptTooLate, IncomingDone, IncomingFails, TakeInner, TypeOK
  <2> QED BY <2>1
<1>10. (\E a \in Attempts : Connect(a) \/ GiveUp(a)) \/ UNCHANGED vars => UNCHANGED <<call, inner>>
  BY DEF Connect, GiveUp, vars
<1> QED BY <1>1, <1>4, <1>5, <1>6, <1>7, <1>8, <1>9, <1>10 DEF Next, Accepting

(* Whoever has the attempt keeps it.                                       *)
LEMMA StillPending ==
    ASSUME NEW a, Pending(a),
           Contains(queue, a) => Contains(queue, a)',
           \A c \in Calls : InCall(c, a) => InCall(c, a)',
           \A d \in Deciders : InDecision(d, a) => InDecision(d, a)'
    PROVE  Pending(a)'
BY DEF Pending, InCall, InDecision

LEMMA PendingUser ==
    ASSUME VerdictInv, User, NEW a \in Attempts, peer'[a] = "connecting",
           peer[a] = "connecting" => Pending(a)
    PROVE  Pending(a)'
<1> USE DEF epVars, peerVars
<1>0. TypeOK
  BY DEF VerdictInv
<1>1. ASSUME Close PROVE Pending(a)'
  <2>1. peer[a] = "connecting" /\ ~Contains(queue, a) /\ UNCHANGED <<call, held, inner, dec>>
    BY <1>0, <1>1 DEF Close, Tell, TypeOK
  <2> QED BY <2>1 DEF Pending
<1>2. ASSUME NEW S \in SUBSET Alpns, SetAlpns(S) PROVE Pending(a)'
  BY <1>2, StillPending DEF SetAlpns, InCall, InDecision
<1>3. ASSUME NEW c \in Calls, NEW k \in {"accept", "incoming"}, Call(c, k) PROVE Pending(a)'
  <2>1. \A b \in Calls : InCall(b, a) => InCall(b, a)'
    BY <1>0, <1>3 DEF Call, InCall, TypeOK
  <2> QED BY <1>3, <2>1, StillPending DEF Call, InDecision
<1>4. ASSUME NEW c \in Calls, Abandon(c) PROVE Pending(a)'
  BY <1>4, StillPending DEF Abandon, InCall, InDecision
<1>5. ASSUME NEW d \in Deciders, NEW c \in Calls, NEW v \in Verdicts, NEW st \in DecState,
             Decide(d, c, v, st), TakeInner(c) \/ UNCHANGED inner
      PROVE  /\ \A e \in Deciders : InDecision(e, a) => InDecision(e, a)'
             /\ inner[c] # a => \A b \in Calls : InCall(b, a) => InCall(b, a)'
  <2>1. dec[d].st = "idle" /\ (\A e \in Deciders : e # d => dec'[e] = dec[e]) /\ UNCHANGED <<held, call>>
    BY <1>0, <1>5 DEF Decide, TypeOK
  <2>2. \A b \in Calls : b # c => inner'[b] = inner[b]
    BY <1>0, <1>5 DEF TakeInner, TypeOK
  <2>3. inner[c] # a => (InCall(c, a) => InCall(c, a)')
    BY <2>1 DEF InCall
  <2> QED BY <2>1, <2>2, <2>3 DEF InCall, InDecision
<1>6. ASSUME NEW d \in Deciders, NEW c \in Calls,
             Refuse(d, c) \/ Ignore(d, c) \/ RetryFails(d, c)
      PROVE Pending(a)'
  <2>1. inner[c] # a /\ peer[a] = "connecting" /\ UNCHANGED queue
    BY <1>0, <1>6 DEF Refuse, Ignore, RetryFails, Tell, TypeOK
  <2>2. PICK v \in Verdicts, st \in DecState : Decide(d, c, v, st) /\ TakeInner(c)
    BY <1>6 DEF Refuse, Ignore, RetryFails, Verdicts, DecState
  <2> QED BY <1>5, <2>1, <2>2, StillPending
<1>7. ASSUME NEW d \in Deciders, NEW c \in Calls, Retry(d, c) PROVE Pending(a)'
  <2>1. /\ Decide(d, c, "retry", "ok") /\ "retry" \in Verdicts /\ "ok" \in DecState
        /\ TakeInner(c) /\ inner[c] \in Attempts
    BY <1>0, <1>7 DEF Retry, Verdicts, DecState, TypeOK
  <2>2. peer[a] = "connecting" /\ (inner[c] = a => open)
    BY <1>0, <1>7 DEF Retry, Tell, TypeOK
  <2>3. queue \in Seq(Attempts) /\ (UNCHANGED queue \/ queue' = Append(queue, inner[c]))
    BY <1>0, <1>7 DEF Retry, TypeOK
  <2>4. Contains(queue, a) => Contains(queue, a)'
    BY <2>1, <2>3, InAppend
  <2>5. CASE inner[c] = a
    <3>1. queue' = Append(queue, a)
      BY <1>7, <2>2, <2>5 DEF Retry
    <3> QED BY <2>3, <3>1, InAppend DEF Pending
  <2>6. CASE inner[c] # a
    BY <1>5, <2>1, <2>2, <2>4, <2>6, StillPending
  <2> QED BY <2>5, <2>6
<1>8. ASSUME NEW d \in Deciders, NEW c \in Calls, NEW v \in Verdicts, DecideTooLate(d, c, v)
      PROVE Pending(a)'
  <2>1. /\ Decide(d, c, v, "consumed") /\ "consumed" \in DecState
        /\ inner[c] # a /\ UNCHANGED <<queue, peer, inner>>
    BY <1>8, NothingAssumption DEF DecideTooLate, DecState
  <2> QED BY <1>5, <2>1, StillPending
<1>9. ASSUME NEW d \in Deciders, NEW c \in Calls, CallAccept(d, c) PROVE Pending(a)'
  <2>1. dec[d].st = "idle" /\ (\A e \in Deciders : e # d => dec'[e] = dec[e])
        /\ UNCHANGED <<queue, peer, held, call, inner>>
    BY <1>0, <1>9 DEF CallAccept, TypeOK
  <2> QED BY <2>1, StillPending DEF InCall, InDecision
<1> QED BY <1>1, <1>2, <1>3, <1>4, <1>6, <1>7, <1>8, <1>9 DEF User

LEMMA PendingTask ==
    ASSUME VerdictInv, InnerInv, NEW a \in Attempts, peer'[a] = "connecting",
           peer[a] = "connecting" => Pending(a),
           \/ \E b \in Attempts : Connect(b) \/ GiveUp(b)
           \/ \E c \in Calls : Accepting(c) \/ Collect(c)
           \/ \E d \in Deciders : Deciding(d)
    PROVE  Pending(a)'
<1> USE DEF epVars, peerVars
<1>0. TypeOK
  BY DEF VerdictInv
<1>1. ASSUME NEW b \in Attempts, Connect(b) PROVE Pending(a)'
  <2>1. queue \in Seq(Attempts) /\ queue' = Append(queue, b) /\ UNCHANGED <<call, held, inner, dec>>
    BY <1>0, <1>1 DEF Connect, TypeOK
  <2>2. CASE a = b
    BY <2>1, <2>2, InAppend DEF Pending
  <2>3. CASE a # b
    <3>1. peer[a] = "connecting"
      BY <1>0, <1>1, <2>3 DEF Connect, TypeOK
    <3> QED BY <2>1, <3>1, InAppend, StillPending DEF InCall, InDecision
  <2> QED BY <2>2, <2>3
<1>2. ASSUME NEW b \in Attempts, GiveUp(b) PROVE Pending(a)'
  <2>1. peer[a] = "connecting" /\ UNCHANGED <<queue, call, held, inner, dec>>
    BY <1>0, <1>2 DEF GiveUp, TypeOK
  <2> QED BY <2>1, StillPending DEF InCall, InDecision
<1>3. ASSUME NEW c \in Calls, Take(c) PROVE Pending(a)'
  <2> DEFINE h == Head(queue)
  <2>1. /\ queue \in Seq(Attempts) /\ queue # <<>> /\ queue' = Tail(queue)
        /\ call[c] = "waiting" /\ peer[a] = "connecting" /\ UNCHANGED dec
    BY <1>0, <1>3 DEF Take, TypeOK
  <2>2. /\ \A b \in Calls : b # c => held'[b] = held[b] /\ inner'[b] = inner[b] /\ call'[b] = call[b]
        /\ \/ held'[c] = h /\ call'[c] = "handshake" /\ inner'[c] = inner[c]
           \/ inner'[c] = h
    BY <1>0, <1>3 DEF Take, TypeOK
  <2>3. CASE a = h
    BY <2>2, <2>3 DEF Pending
  <2>4. CASE a # h /\ Contains(queue, a)
    <3>1. Contains(queue, a)'
      BY <2>1, <2>4, InTail
    <3> QED BY <3>1 DEF Pending
  <2>5. CASE inner[c] = a /\ inner'[c] # a /\ a # h
    <3>1. inner[c] = NoAttempt
      BY <2>1 DEF InnerInv
    <3> QED BY <2>5, <3>1, NothingAssumption
  <2>6. CASE a # h /\ ~Contains(queue, a) /\ (inner[c] = a => inner'[c] = a)
    <3>1. \A b \in Calls : InCall(b, a) => InCall(b, a)'
      BY <2>1, <2>2, <2>6 DEF InCall
    <3> QED BY <2>1, <2>6, <3>1, StillPending DEF InDecision
  <2> QED BY <2>3, <2>4, <2>5, <2>6
<1>4. ASSUME NEW c \in Calls, TakeNone(c) \/ AcceptDone(c) \/ AcceptFails(c) PROVE Pending(a)'
  <2>1. /\ peer[a] = "connecting" /\ UNCHANGED <<queue, inner, dec>>
        /\ \A b \in Calls : b # c => held'[b] = held[b] /\ call'[b] = call[b]
    BY <1>0, <1>4 DEF TakeNone, AcceptDone, AcceptFails, Tell, TypeOK
  <2>2. call[c] = "handshake" => held[c] # a
    BY <1>0, <1>4 DEF TakeNone, AcceptDone, AcceptFails, Tell, TypeOK
  <2>3. \A b \in Calls : InCall(b, a) => InCall(b, a)'
    BY <2>1, <2>2 DEF InCall
  <2> QED BY <2>1, <2>3, StillPending DEF InDecision
<1>5. ASSUME NEW c \in Calls, Collect(c) PROVE Pending(a)'
  <2>1. /\ peer[a] = "connecting" /\ inner[c] # a /\ UNCHANGED <<queue, held, dec>>
        /\ call[c] = "incoming"
        /\ \A b \in Calls : b # c => inner'[b] = inner[b] /\ call'[b] = call[b]
    BY <1>0, <1>5 DEF Collect, TakeInner, Tell, TypeOK
  <2>2. \A b \in Calls : InCall(b, a) => InCall(b, a)'
    BY <2>1 DEF InCall
  <2> QED BY <2>1, <2>2, StillPending DEF InDecision
<1>6. ASSUME NEW d \in Deciders, AcceptTakes(d) PROVE Pending(a)'
  <2> DEFINE c == dec[d].on
  <2>1. /\ c \in Calls /\ dec[d].st = "queued" /\ UNCHANGED <<queue, peer, held, call>>
        /\ dec'[d].st = "handshake" /\ dec'[d].att = inner[c]
        /\ \A e \in Deciders : e # d => dec'[e] = dec[e]
    BY <1>0, <1>6 DEF AcceptTakes, VerdictInv, TypeOK, Decisions, OnCall
  <2>2. \A b \in Calls : b # c => inner'[b] = inner[b]
    BY <1>0, <1>6 DEF AcceptTakes, TakeInner, TypeOK
  <2>3. CASE inner[c] = a
    BY <2>1, <2>3 DEF Pending
  <2>4. CASE inner[c] # a
    <3>1. \A b \in Calls : InCall(b, a) => InCall(b, a)'
      BY <2>1, <2>2, <2>4 DEF InCall
    <3>2. \A e \in Deciders : InDecision(e, a) => InDecision(e, a)'
      BY <2>1 DEF InDecision
    <3> QED BY <2>1, <3>1, <3>2, StillPending
  <2> QED BY <2>3, <2>4
<1>7. ASSUME NEW d \in Deciders, AcceptTooLate(d) \/ IncomingDone(d) \/ IncomingFails(d)
      PROVE Pending(a)'
  <2>1. /\ peer[a] = "connecting" /\ UNCHANGED <<queue, held, call, inner>>
        /\ \A e \in Deciders : e # d => dec'[e] = dec[e]
        /\ dec[d].st = "handshake" => dec[d].att # a
    BY <1>0, <1>7 DEF AcceptTooLate, IncomingDone, IncomingFails, Tell, TypeOK
  <2>2. \A e \in Deciders : InDecision(e, a) => InDecision(e, a)'
    BY <2>1 DEF InDecision
  <2> QED BY <2>1, <2>2, StillPending DEF InCall
<1> QED BY <1>1, <1>2, <1>3, <1>4, <1>5, <1>6, <1>7 DEF Accepting, Deciding

LEMMA PendingStep ==
    ASSUME VerdictInv, InnerInv, [Next]_vars, NEW a \in Attempts, peer'[a] = "connecting",
           peer[a] = "connecting" => Pending(a)
    PROVE  Pending(a)'
<1>1. CASE UNCHANGED vars
  BY <1>1, StillPending DEF vars, peerVars, InCall, InDecision
<1> QED BY <1>1, PendingUser, PendingTask DEF Next

(* A peer that waits is in a hand that has yet to answer it.               *)
WaitInv == InnerInv /\ \A a \in Attempts : peer[a] = "connecting" => Pending(a)

(* An inbound attempt is in one hand at most, however many accept calls,    *)
(* decisions, retries and closes compete for it, and in one that has yet to *)
(* answer as long as its peer waits (endpoint.rs 145-173, connection.rs     *)
(* 66-124).                                                                *)
THEOREM AttemptHeldOnce == Spec => []HeldOnce
<1>1. HandInv /\ WaitInv => HeldOnce
  BY HeldOnceHolds DEF HeldOnce, WaitInv
<1>2. HandInv /\ [Next]_vars => HandInv'
  BY HandStep
<1>3. Init => WaitInv
  BY DEF Init, WaitInv, InnerInv
<1>4. HandInv /\ WaitInv /\ [Next]_vars => WaitInv'
  BY PendingStep, InnerStep DEF WaitInv, HandInv, VerdictInv
<1> QED BY HandStart, <1>1, <1>2, <1>3, <1>4, PTL DEF Spec

-----------------------------------------------------------------------------
(* Connections.                                                            *)
CallOwns(c, a)     == call[c] = "connection" /\ held[c] = a
DecisionOwns(d, a) == dec[d].st = "ok" /\ dec[d].verdict = "accept" /\ dec[d].att = a

Owned(a) == (\E c \in Calls : CallOwns(c, a)) \/ (\E d \in Deciders : DecisionOwns(d, a))

OwnerInv == \A a \in Attempts : peer[a] = "connected" => Owned(a)

(* What a call or a decision got it keeps.                                 *)
LEMMA OwnersStay ==
    ASSUME TypeOK, [Next]_vars, NEW a \in Attempts
    PROVE  Owned(a) => Owned(a)'
<1>1. ASSUME NEW c \in Calls, CallOwns(c, a) PROVE CallOwns(c, a)'
  <2>1. ASSUME User PROVE CallOwns(c, a)'
    BY <1>1, <2>1 DEF User, Close, SetAlpns, Call, Abandon, Refuse, Ignore, Retry, RetryFails,
                      CallAccept, DecideTooLate, Decide, CallOwns, TypeOK
  <2>2. ASSUME NEW b \in Calls, Accepting(b) \/ Collect(b) PROVE CallOwns(c, a)'
    BY <1>1, <2>2 DEF Accepting, Take, TakeNone, AcceptDone, AcceptFails, Collect, CallOwns, TypeOK
  <2>3. ASSUME NEW d \in Deciders, Deciding(d) PROVE CallOwns(c, a)'
    BY <1>1, <2>3 DEF Deciding, AcceptTakes, AcceptTooLate, IncomingDone, IncomingFails, CallOwns
  <2>4. ASSUME NEW b \in Attempts, Connect(b) \/ GiveUp(b) PROVE CallOwns(c, a)'
    BY <1>1, <2>4 DEF Connect, GiveUp, CallOwns
  <2>5. ASSUME UNCHANGED vars PROVE CallOwns(c, a)'
    BY <1>1, <2>5 DEF vars, CallOwns
  <2> QED BY <2>1, <2>2, <2>3, <2>4, <2>5 DEF Next
<1>2. ASSUME NEW d \in Deciders, DecisionOwns(d, a) PROVE DecisionOwns(d, a)'
  <2>1. ASSUME User PROVE DecisionOwns(d, a)'
    BY <1>2, <2>1 DEF User, Close, SetAlpns, Call, Abandon, Refuse, Ignore, Retry, RetryFails,
                      CallAccept, DecideTooLate, Decide, DecisionOwns, TypeOK
  <2>2. ASSUME NEW b \in Calls, Accepting(b) \/ Collect(b) PROVE DecisionOwns(d, a)'
    BY <1>2, <2>2 DEF Accepting, Take, TakeNone, AcceptDone, AcceptFails, Collect, DecisionOwns
  <2>3. ASSUME NEW e \in Deciders, Deciding(e) PROVE DecisionOwns(d, a)'
    <3>1. dec[e].st # "ok" /\ \A x \in Deciders : x # e => dec'[x] = dec[x]
      BY <2>3 DEF Deciding, AcceptTakes, AcceptTooLate, IncomingDone, IncomingFails, TypeOK
    <3> QED BY <1>2, <3>1 DEF DecisionOwns
  <2>4. ASSUME NEW b \in Attempts, Connect(b) \/ GiveUp(b) PROVE DecisionOwns(d, a)'
    BY <1>2, <2>4 DEF Connect, GiveUp, DecisionOwns
  <2>5. ASSUME UNCHANGED vars PROVE DecisionOwns(d, a)'
    BY <1>2, <2>5 DEF vars, DecisionOwns
  <2> QED BY <2>1, <2>2, <2>3, <2>4, <2>5 DEF Next
<1> QED BY <1>1, <1>2 DEF Owned

(* A peer learns that it is connected when its attempt gets an owner.      *)
LEMMA ConnectedIsOwned ==
    ASSUME VerdictInv, OwnerInv, [Next]_vars, NEW a \in Attempts, peer'[a] = "connected"
    PROVE  Owned(a)'
<1> TypeOK BY DEF VerdictInv
<1>1. CASE peer[a] = "connected"
  BY <1>1, OwnersStay DEF OwnerInv
<1>2. CASE peer[a] # "connected"
  <2>1. ASSUME User PROVE FALSE
    BY <1>2, <2>1 DEF User, Close, SetAlpns, Call, Abandon, Refuse, Ignore, Retry, RetryFails,
                      CallAccept, DecideTooLate, Tell, peerVars, TypeOK
  <2>2. ASSUME NEW c \in Calls, AcceptDone(c) PROVE Owned(a)'
    <3>1. held[c] = a /\ call'[c] = "connection" /\ UNCHANGED held
      BY <1>2, <2>2 DEF AcceptDone, Tell, TypeOK
    <3> QED BY <3>1 DEF Owned, CallOwns
  <2>3. ASSUME NEW c \in Calls, Take(c) \/ TakeNone(c) \/ AcceptFails(c) \/ Collect(c) PROVE FALSE
    BY <1>2, <2>3 DEF Take, TakeNone, AcceptFails, Collect, Tell, peerVars, TypeOK
  <2>4. ASSUME NEW d \in Deciders, IncomingDone(d) PROVE Owned(a)'
    <3>1. /\ dec[d].att = a /\ dec[d].st = "handshake" /\ dec' = [dec EXCEPT ![d].st = "ok"]
      BY <1>2, <2>4 DEF IncomingDone, Tell, TypeOK
    <3>2. dec'[d].st = "ok" /\ dec'[d].att = a /\ dec'[d].verdict = "accept"
      BY <2>4, <3>1 DEF VerdictInv, Progress, TypeOK, Decisions
    <3> QED BY <3>2 DEF Owned, DecisionOwns
  <2>5. ASSUME NEW d \in Deciders, AcceptTakes(d) \/ AcceptTooLate(d) \/ IncomingFails(d)
        PROVE  FALSE
    BY <1>2, <2>5 DEF AcceptTakes, AcceptTooLate, IncomingFails, Tell, peerVars, TypeOK
  <2>6. ASSUME NEW b \in Attempts, Connect(b) \/ GiveUp(b) PROVE FALSE
    BY <1>2, <2>6 DEF Connect, GiveUp, TypeOK
  <2>7. ASSUME UNCHANGED vars PROVE FALSE
    BY <1>2, <2>7 DEF vars, peerVars
  <2> QED BY <2>1, <2>2, <2>3, <2>4, <2>5, <2>6, <2>7 DEF Next, Accepting, Deciding
<1> QED BY <1>1, <1>2

ConnInv == HandInv /\ OwnerInv

LEMMA ConnStart == Init => ConnInv
BY HandStart DEF Init, ConnInv, OwnerInv

LEMMA ConnStep == ConnInv /\ [Next]_vars => ConnInv'
BY HandStep, ConnectedIsOwned DEF ConnInv, OwnerInv, HandInv, VerdictInv

LEMMA OneOwner == ASSUME ConnInv PROVE ConnectedHasOwner
<1> SUFFICES ASSUME NEW a \in Attempts, peer[a] = "connected"
             PROVE  Cardinality({c \in Calls : call[c] = "connection" /\ held[c] = a})
                    + Cardinality({d \in Deciders : /\ dec[d].st = "ok" /\ dec[d].att = a
                                                    /\ dec[d].verdict = "accept"}) = 1
  BY DEF ConnectedHasOwner
<1> DEFINE C == {c \in Calls : call[c] = "connection" /\ held[c] = a}
<1> DEFINE D == {d \in Deciders : /\ dec[d].st = "ok" /\ dec[d].att = a
                                  /\ dec[d].verdict = "accept"}
<1>1. /\ \A x, y \in C : x = y
      /\ \A x, y \in D : x = y
      /\ C = {} \/ D = {}
  BY NothingAssumption DEF ConnInv, HandInv, CallOnce, DecisionOnce, Apart, Took
<1>2. C # {} \/ D # {}
  BY DEF ConnInv, OwnerInv, Owned, CallOwns, DecisionOwns
<1>3. ASSUME NEW S, S # {}, \A x, y \in S : x = y PROVE Cardinality(S) = 1
  <2>1. PICK x \in S : S = {x}
    BY <1>3
  <2> QED BY <2>1, FS_Singleton
<1> HIDE DEF C, D
<1>4. CASE C = {}
  <2>1. Cardinality(D) = 1
    BY <1>1, <1>2, <1>3, <1>4
  <2>2. Cardinality(C) = 0
    BY <1>4, FS_EmptySet
  <2> QED BY <2>1, <2>2 DEF C, D
<1>5. CASE D = {}
  <2>1. Cardinality(C) = 1
    BY <1>1, <1>2, <1>3, <1>5
  <2>2. Cardinality(D) = 0
    BY <1>5, FS_EmptySet
  <2> QED BY <2>1, <2>2 DEF C, D
<1> QED BY <1>1, <1>4, <1>5 DEF C, D

(* A peer that believes in a connection is the peer of exactly one         *)
(* connection that the program got or will get (endpoint.rs 145-159,       *)
(* connection.rs 82-93).                                                   *)
THEOREM ConnectionIsOwned == Spec => []ConnectedHasOwner
<1>1. ConnInv => ConnectedHasOwner BY OneOwner
<1> QED BY ConnStart, ConnStep, <1>1, PTL DEF Spec
=============================================================================
