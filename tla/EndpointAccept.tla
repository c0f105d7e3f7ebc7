--------------------------- MODULE EndpointAccept ---------------------------
(***************************************************************************)
(* The accepting side of an endpoint: Endpoint::accept, accept_incoming    *)
(* and close (rust/src/api/endpoint.rs), and the decisions on an Incoming  *)
(* (rust/src/api/connection.rs).                                           *)
(*                                                                         *)
(* accept and accept_incoming each spawn a task that waits for the next    *)
(* inbound attempt; the Dart future may be abandoned (a timeout), the task *)
(* stays.  refuse, retry and ignore are synchronous and run in the turn of *)
(* the event loop that calls them; accept of an Incoming is asynchronous   *)
(* and takes the attempt only when an FRB worker runs it.                  *)
(***************************************************************************)
EXTENDS Integers, Sequences, FiniteSets, SequencesExt

CONSTANTS
    Attempts,     \* connection attempts of peers
    Calls,        \* calls of Endpoint.accept and Endpoint.acceptIncoming
    Deciders,     \* calls of accept, refuse, retry and ignore on an Incoming
    Alpns,        \* protocols
    AlpnOf,       \* [Attempts -> Alpns] the protocol a peer asks for
    NoAttempt, NoCall

ASSUME NothingAssumption == NoAttempt \notin Attempts /\ NoCall \notin Calls
ASSUME AlpnAssumption == AlpnOf \in [Attempts -> Alpns]

VARIABLES
    open,         \* the endpoint is not closed
    alpns,        \* the protocols it accepts
    queue,        \* inbound attempts that nobody took
    peer,         \* [Attempts -> PeerState] what the peer knows
    validated,    \* [Attempts -> BOOLEAN] the peer answered a Retry packet
    fits,         \* [Attempts -> BOOLEAN] its protocol was accepted when its
                  \* handshake began
    call,         \* [Calls -> CallState]
    kind,         \* [Calls -> {"accept", "incoming"}]
    held,         \* [Calls -> attempt the call took or NoAttempt]
    abandoned,    \* [Calls -> BOOLEAN] Dart does not wait for it any more
    inner,        \* [Calls -> Attempts \cup {NoAttempt}]
                  \* Option<IrohIncoming> of the Incoming the call returned
    dec           \* [Deciders -> the state of that decision]

epVars   == <<open, alpns>>
peerVars == <<peer, validated, fits>>
vars == <<epVars, queue, peerVars, call, kind, held, abandoned, inner, dec>>

PeerState == {"idle", "connecting", "connected", "refused", "ignored", "failed"}
CallState == {"idle", "waiting", "handshake", "connection", "incoming", "null", "error",
              "collected"}
DecState  == {"idle", "queued", "handshake", "ok", "consumed", "error"}
Verdicts  == {"accept", "refuse", "retry", "ignore"}

(* st: how far it is; on: the Incoming, named by the call that returned it; *)
(* att: the attempt it took.                                               *)
Decisions == [st : DecState, on : Calls \cup {NoCall}, verdict : Verdicts,
              att : Attempts \cup {NoAttempt}]

TypeOK ==
    /\ open \in BOOLEAN
    /\ alpns \subseteq Alpns
    /\ fits \in [Attempts -> BOOLEAN]
    /\ queue \in Seq(Attempts)
    /\ peer \in [Attempts -> PeerState]
    /\ validated \in [Attempts -> BOOLEAN]
    /\ call \in [Calls -> CallState]
    /\ kind \in [Calls -> {"accept", "incoming"}]
    /\ held \in [Calls -> Attempts \cup {NoAttempt}]
    /\ abandoned \in [Calls -> BOOLEAN]
    /\ inner \in [Calls -> Attempts \cup {NoAttempt}]
    /\ dec \in [Deciders -> Decisions]

Init ==
    /\ open = TRUE
    /\ alpns \in SUBSET Alpns
    /\ fits = [a \in Attempts |-> FALSE]
    /\ queue = <<>>
    /\ peer = [a \in Attempts |-> "idle"]
    /\ validated = [a \in Attempts |-> FALSE]
    /\ call = [c \in Calls |-> "idle"]
    /\ kind = [c \in Calls |-> "accept"]
    /\ held = [c \in Calls |-> NoAttempt]
    /\ abandoned = [c \in Calls |-> FALSE]
    /\ inner = [c \in Calls |-> NoAttempt]
    /\ dec = [d \in Deciders |-> [st |-> "idle", on |-> NoCall,
                                  verdict |-> "accept", att |-> NoAttempt]]

-----------------------------------------------------------------------------
(* Peers and the transport, kept by iroh.                                  *)

Connect(a) ==
    /\ peer[a] = "idle" /\ open
    /\ peer' = [peer EXCEPT ![a] = "connecting"]
    /\ queue' = Append(queue, a)
    /\ UNCHANGED <<epVars, validated, fits, call, kind, held, abandoned, inner, dec>>

(* The peer's connect times out; what the endpoint holds of it is stale.   *)
GiveUp(a) ==
    /\ peer[a] \in {"connecting", "ignored"}
    /\ peer' = [peer EXCEPT ![a] = "failed"]
    /\ UNCHANGED <<epVars, queue, validated, fits, call, kind, held, abandoned, inner, dec>>

Tell(a, answer) == IF peer[a] = "connecting" THEN [peer EXCEPT ![a] = answer] ELSE peer

HandshakeSucceeds(a) == open /\ peer[a] = "connecting" /\ fits[a]

(* incoming.accept() starts the handshake with the protocols of this moment. *)
StartHandshake(a) == fits' = [fits EXCEPT ![a] = AlpnOf[a] \in alpns]

-----------------------------------------------------------------------------
(* Endpoint::accept and Endpoint::accept_incoming.                         *)

Call(c, k) ==
    /\ call[c] = "idle"
    /\ call' = [call EXCEPT ![c] = "waiting"]
    /\ kind' = [kind EXCEPT ![c] = k]
    /\ UNCHANGED <<epVars, queue, peerVars, held, abandoned, inner, dec>>

(* Mutant: reads the oldest attempt and leaves it in the queue.            *)
TakeWithoutPop(c) ==
    /\ call[c] = "waiting" /\ queue # <<>>
    /\ call' = [call EXCEPT ![c] = "handshake"]
    /\ held' = [held EXCEPT ![c] = Head(queue)]
    /\ StartHandshake(Head(queue))
    /\ UNCHANGED <<epVars, queue, peer, validated, kind, abandoned, inner, dec>>

(* ep.accept() answers the oldest attempt to one of the tasks that wait.   *)
(* accept goes on with the handshake, accept_incoming wraps the attempt.   *)
Take(c) ==
    /\ call[c] = "waiting" /\ queue # <<>>
    /\ queue' = Tail(queue)
    /\ \/ /\ kind[c] = "accept"
          /\ call' = [call EXCEPT ![c] = "handshake"]
          /\ held' = [held EXCEPT ![c] = Head(queue)]
          /\ StartHandshake(Head(queue))
          /\ UNCHANGED inner
       \/ /\ kind[c] = "incoming"
          /\ call' = [call EXCEPT ![c] = "incoming"]
          /\ inner' = [inner EXCEPT ![c] = Head(queue)]
          /\ UNCHANGED <<held, fits>>
    /\ UNCHANGED <<epVars, peer, validated, kind, abandoned, dec>>

(* Mutant: accept_incoming goes on waiting at the end.                     *)
TakeNoneAcceptOnly(c) ==
    /\ call[c] = "waiting" /\ ~open /\ kind[c] = "accept"
    /\ call' = [call EXCEPT ![c] = "null"]
    /\ UNCHANGED <<epVars, queue, peerVars, kind, held, abandoned, inner, dec>>

(* ep.accept() answers None once the endpoint is closed.                   *)
TakeNone(c) ==
    /\ call[c] = "waiting" /\ ~open
    /\ call' = [call EXCEPT ![c] = "null"]
    /\ UNCHANGED <<epVars, queue, peerVars, kind, held, abandoned, inner, dec>>

(* Mutant: answers None in place of the connection.                        *)
AcceptDoneNull(c) ==
    /\ call[c] = "handshake" /\ HandshakeSucceeds(held[c])
    /\ call' = [call EXCEPT ![c] = "null"]
    /\ peer' = Tell(held[c], "connected")
    /\ UNCHANGED <<epVars, queue, validated, fits, kind, held, abandoned, inner, dec>>

AcceptDone(c) ==
    /\ call[c] = "handshake" /\ HandshakeSucceeds(held[c])
    /\ call' = [call EXCEPT ![c] = "connection"]
    /\ peer' = Tell(held[c], "connected")
    /\ UNCHANGED <<epVars, queue, validated, fits, kind, held, abandoned, inner, dec>>

AcceptFails(c) ==
    /\ call[c] = "handshake"
    /\ call' = [call EXCEPT ![c] = "error"]
    /\ peer' = Tell(held[c], "failed")
    /\ held' = [held EXCEPT ![c] = NoAttempt]
    /\ UNCHANGED <<epVars, queue, validated, fits, kind, abandoned, inner, dec>>

(* Endpoint::set_alpns; iroh ignores it on a closed endpoint.              *)
SetAlpns(S) ==
    /\ alpns' = IF open THEN S ELSE alpns
    /\ UNCHANGED <<open, queue, peerVars, call, kind, held, abandoned, inner, dec>>

(* A Dart timeout: nothing reaches the task.                               *)
Abandon(c) ==
    /\ call[c] \in {"waiting", "handshake"} /\ ~abandoned[c]
    /\ abandoned' = [abandoned EXCEPT ![c] = TRUE]
    /\ UNCHANGED <<epVars, queue, peerVars, call, kind, held, inner, dec>>

(* Endpoint::close; iroh refuses what is queued.                           *)
Close ==
    /\ open
    /\ open' = FALSE
    /\ UNCHANGED alpns
    /\ queue' = <<>>
    /\ peer' = [a \in Attempts |->
                   IF Contains(queue, a) THEN Tell(a, "refused")[a] ELSE peer[a]]
    /\ UNCHANGED <<validated, fits, call, kind, held, abandoned, inner, dec>>

-----------------------------------------------------------------------------
(* Decisions on the Incoming that call c returned.                         *)

(* The Dart side has the object: the future that returns it was awaited.   *)
Reachable(c) == call[c] = "incoming" /\ ~abandoned[c]

(* Mutant: hands out a second reference and leaves the first.              *)
CloneInner(c) == inner' = inner

(* Incoming::take: swaps None in under the mutex.                          *)
TakeInner(c) == inner' = [inner EXCEPT ![c] = NoAttempt]

(* The synchronous decisions: the call, the take and the answer are one    *)
(* step of the Dart thread.                                                *)
Decide(d, c, verdict, answer) ==
    /\ dec[d].st = "idle" /\ Reachable(c)
    /\ dec' = [dec EXCEPT ![d] = [st |-> answer, on |-> c, verdict |-> verdict,
                                  att |-> inner[c]]]
    /\ UNCHANGED <<epVars, call, kind, held, abandoned>>

Refuse(d, c) ==
    /\ inner[c] # NoAttempt
    /\ Decide(d, c, "refuse", "ok")
    /\ TakeInner(c)
    /\ peer' = Tell(inner[c], "refused")
    /\ UNCHANGED <<queue, validated, fits>>

Ignore(d, c) ==
    /\ inner[c] # NoAttempt
    /\ Decide(d, c, "ignore", "ok")
    /\ TakeInner(c)
    /\ peer' = Tell(inner[c], "ignored")
    /\ UNCHANGED <<queue, validated, fits>>

(* Mutant: looks at the attempt after the take.                            *)
RetryAfterTake(d, c) ==
    /\ inner[c] # NoAttempt /\ ~validated[inner[c]]
    /\ Decide(d, c, "retry", "ok")
    /\ TakeInner(c)
    /\ validated' = [validated EXCEPT ![inner[c]] = TRUE]
    /\ queue' = Append(queue, inner'[c])
    /\ UNCHANGED <<peer, fits>>

(* The peer connects again: a new attempt for the queue.                   *)
Retry(d, c) ==
    /\ inner[c] # NoAttempt /\ ~validated[inner[c]]
    /\ Decide(d, c, "retry", "ok")
    /\ TakeInner(c)
    /\ validated' = [validated EXCEPT ![inner[c]] = TRUE]
    /\ queue' = IF open /\ peer[inner[c]] = "connecting"
                THEN Append(queue, inner[c]) ELSE queue
    /\ peer' = IF open THEN peer ELSE Tell(inner[c], "refused")
    /\ UNCHANGED fits

(* The error holds the attempt and is dropped: iroh refuses it.            *)
RetryFails(d, c) ==
    /\ inner[c] # NoAttempt /\ validated[inner[c]]
    /\ Decide(d, c, "retry", "error")
    /\ TakeInner(c)
    /\ peer' = Tell(inner[c], "refused")
    /\ UNCHANGED <<queue, validated, fits>>

(* Mutant: `if let Some(inc) = take()` in place of the error.              *)
DecideSilently(d, c, verdict) ==
    /\ inner[c] = NoAttempt
    /\ Decide(d, c, verdict, "ok")
    /\ UNCHANGED <<queue, peerVars, inner>>

(* "incoming connection already consumed"                                  *)
DecideTooLate(d, c, verdict) ==
    /\ inner[c] = NoAttempt
    /\ Decide(d, c, verdict, "consumed")
    /\ UNCHANGED <<queue, peerVars, inner>>

(* Incoming.accept queues the call; a worker takes the attempt later.      *)
CallAccept(d, c) ==
    /\ dec[d].st = "idle" /\ Reachable(c)
    /\ dec' = [dec EXCEPT ![d] = [st |-> "queued", on |-> c, verdict |-> "accept",
                                  att |-> NoAttempt]]
    /\ UNCHANGED <<epVars, queue, peerVars, call, kind, held, abandoned, inner>>

AcceptTakes(d) ==
    LET c == dec[d].on
    IN  /\ dec[d].st = "queued" /\ inner[c] # NoAttempt
        /\ dec' = [dec EXCEPT ![d].st = "handshake", ![d].att = inner[c]]
        /\ TakeInner(c)
        /\ StartHandshake(inner[c])
        /\ UNCHANGED <<epVars, queue, peer, validated, call, kind, held, abandoned>>

AcceptTooLate(d) ==
    /\ dec[d].st = "queued" /\ inner[dec[d].on] = NoAttempt
    /\ dec' = [dec EXCEPT ![d].st = "consumed"]
    /\ UNCHANGED <<epVars, queue, peerVars, call, kind, held, abandoned, inner>>

IncomingDone(d) ==
    /\ dec[d].st = "handshake" /\ HandshakeSucceeds(dec[d].att)
    /\ dec' = [dec EXCEPT ![d].st = "ok"]
    /\ peer' = Tell(dec[d].att, "connected")
    /\ UNCHANGED <<epVars, queue, validated, fits, call, kind, held, abandoned, inner>>

(* Mutant: the handshake is forgotten, the attempt not dropped.            *)
IncomingForgets(d) ==
    /\ dec[d].st = "handshake"
    /\ dec' = [dec EXCEPT ![d].st = "error"]
    /\ UNCHANGED <<epVars, queue, peerVars, call, kind, held, abandoned, inner>>

IncomingFails(d) ==
    /\ dec[d].st = "handshake"
    /\ dec' = [dec EXCEPT ![d].st = "error"]
    /\ peer' = Tell(dec[d].att, "failed")
    /\ UNCHANGED <<epVars, queue, validated, fits, call, kind, held, abandoned, inner>>

(* The garbage collector releases an Incoming that no call uses; iroh       *)
(* refuses an attempt that is dropped undecided.                           *)
Collect(c) ==
    /\ call[c] = "incoming" /\ inner[c] # NoAttempt
    /\ \A d \in Deciders : dec[d].on = c => dec[d].st # "queued"
    /\ TakeInner(c)
    /\ peer' = Tell(inner[c], "refused")
    /\ call' = [call EXCEPT ![c] = "collected"]
    /\ UNCHANGED <<epVars, queue, validated, fits, kind, held, abandoned, dec>>

-----------------------------------------------------------------------------
Accepting(c) == Take(c) \/ TakeNone(c) \/ AcceptDone(c) \/ AcceptFails(c)

Deciding(d) == AcceptTakes(d) \/ AcceptTooLate(d) \/ IncomingDone(d) \/ IncomingFails(d)

User == \/ Close
        \/ \E S \in SUBSET Alpns : SetAlpns(S)
        \/ \E c \in Calls, k \in {"accept", "incoming"} : Call(c, k)
        \/ \E c \in Calls : Abandon(c)
        \/ \E d \in Deciders, c \in Calls :
              \/ Refuse(d, c) \/ Ignore(d, c) \/ Retry(d, c) \/ RetryFails(d, c)
              \/ CallAccept(d, c)
              \/ \E v \in Verdicts \ {"accept"} : DecideTooLate(d, c, v)

Next == \/ User
        \/ \E a \in Attempts : Connect(a) \/ GiveUp(a)
        \/ \E c \in Calls : Accepting(c) \/ Collect(c)
        \/ \E d \in Deciders : Deciding(d)

Spec == Init /\ [][Next]_vars

(* The tasks run, and a handshake ends one way or the other (QUIC has a     *)
(* timeout).  Nobody must connect, call, decide or collect.                *)
Fairness == /\ \A c \in Calls : WF_vars(Accepting(c))
            /\ \A d \in Deciders : WF_vars(Deciding(d))

FairSpec == Spec /\ Fairness

-----------------------------------------------------------------------------
(* Properties.                                                             *)

(* Who holds attempt a: places in the queue, accept calls, Incomings and   *)
(* decisions that took it and neither failed nor gave it back.             *)
Holders(a) ==
    {<<"queue", n>> : n \in {n \in DOMAIN queue : queue[n] = a}}
    \cup {<<"call", c>> : c \in {c \in Calls : held[c] = a}}
    \cup {<<"incoming", c>> : c \in {c \in Calls : inner[c] = a}}
    \cup {<<"decision", d>> :
            d \in {d \in Deciders : /\ dec[d].att = a
                                    /\ dec[d].verdict = "accept"
                                    /\ dec[d].st \in {"handshake", "ok"}}}

(* Somebody has attempt a and has yet to answer its peer: the queue, an     *)
(* accept or a decision in the handshake, or an undecided Incoming.        *)
Pending(a) ==
    \/ Contains(queue, a)
    \/ \E c \in Calls : inner[c] = a \/ (held[c] = a /\ call[c] = "handshake")
    \/ \E d \in Deciders : dec[d].att = a /\ dec[d].st = "handshake"

(* No attempt is ever in two hands, whatever accepters, decisions, retries *)
(* and closes run at once: no peer is answered twice.  And while its peer   *)
(* waits it is in one that has yet to answer: none is dropped silently.    *)
HeldOnce ==
    \A a \in Attempts : /\ Cardinality(Holders(a)) <= 1
                        /\ peer[a] = "connecting" => Pending(a)

(* A connection the peer believes in belongs to exactly one accept of the  *)
(* program: no answer of ep.accept() or take() is dropped on the way.      *)
ConnectedHasOwner ==
    \A a \in Attempts : peer[a] = "connected" =>
        Cardinality({c \in Calls : call[c] = "connection" /\ held[c] = a})
        + Cardinality({d \in Deciders : /\ dec[d].st = "ok" /\ dec[d].att = a
                                        /\ dec[d].verdict = "accept"}) = 1

(* Of all decisions on one Incoming one at most takes the attempt, and a    *)
(* later one is told so: it never answers as if it had decided.            *)
OneVerdict ==
    \A c \in Calls :
        LET on == {d \in Deciders : dec[d].on = c}
            took == {d \in on : dec[d].att # NoAttempt}
        IN  /\ Cardinality(took) <= 1
            /\ inner[c] # NoAttempt => took = {}
            /\ \A d \in on \ took : dec[d].st \in {"queued", "consumed"}

(* Once the endpoint is closed every accept returns.                       *)
CloseReleases ==
    \A c \in Calls : ~open ~> call[c] \notin {"waiting", "handshake"}

(* A peer does not wait for ever once an accept took its attempt, even when *)
(* the protocols changed, the endpoint closed or Dart gave up meanwhile.   *)
TakenIsAnswered ==
    \A a \in Attempts :
        (\E c \in Calls : held[c] = a)
            \/ (\E d \in Deciders : dec[d].att = a /\ dec[d].verdict = "accept")
        ~> peer[a] # "connecting"

=============================================================================
