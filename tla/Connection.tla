----------------------------- MODULE Connection -----------------------------
(***************************************************************************)
(* The calls on a Connection that wait (rust/src/api/connection.rs): each   *)
(* clones the connection into a tokio task and waits for a datagram, for a  *)
(* stream of the peer, for the credit to open one, or for the close.  Dart  *)
(* may time out; the task then still takes what comes next.                *)
(*                                                                         *)
(* What waits inside iroh is a queue for each kind of call, its items       *)
(* numbered as they arrive.                                                *)
(***************************************************************************)
EXTENDS Integers, Sequences, FiniteSets, SequencesExt

CONSTANTS
    Reads,        \* calls
    Limit,        \* bound: [Queues -> how many items of a kind arrive]
    MaxCount,     \* bound: the largest maxCount of readManyDatagrams
    Buffer        \* datagrams iroh keeps; a further one pushes out the oldest

Queues == {"datagram", "accept", "open"}
Kinds  == Queues \cup {"closed"}

ASSUME BoundsAssumption ==
    Limit \in [Queues -> Nat] /\ MaxCount \in Nat \ {0} /\ Buffer \in Nat \ {0}

VARIABLES
    conn,         \* "none", "open", "closed"
    arrived,      \* [Queues -> number of items that arrived]
    queue,        \* [Queues -> items nobody took]
    dropped,      \* [Queues -> items pushed out of the buffer]
    read          \* [Reads -> ReadState]

connVars == <<conn, arrived, queue, dropped, read>>

(* A maxCount that no vector has room for; Dart refuses negative ones only. *)
TooMany == MaxCount + 1

(* st: how far the call is; items: what its task took; live: Dart waits;    *)
(* after: the items Dart had when it called.                               *)
ReadState == [st : {"idle", "waiting", "holding", "returned", "wasted", "error"},
              kind : Kinds, count : 0..TooMany, items : Seq(Nat),
              live : BOOLEAN, after : SUBSET Nat]

Idle == [st |-> "idle", kind |-> "closed", count |-> 0, items |-> <<>>,
         live |-> TRUE, after |-> {}]

ConnInit ==
    /\ conn = "none"
    /\ arrived = [k \in Queues |-> 0]
    /\ queue = [k \in Queues |-> <<>>]
    /\ dropped = [k \in Queues |-> {}]
    /\ read = [r \in Reads |-> Idle]

-----------------------------------------------------------------------------
(* Items that Dart has: of calls of kind k whose future completed.         *)
Seen(k) == UNION {ToSet(read[r].items) : r \in {s \in Reads : /\ read[s].kind = k
                                                               /\ read[s].st = "returned"}}

(* read_many_datagrams into an empty buffer is answered at once.           *)
Call(r, k, n) ==
    /\ read[r].st = "idle" /\ conn # "none"
    /\ IF k = "datagram" THEN n \in 0..TooMany ELSE n = 1
    /\ read' = [read EXCEPT ![r] = [st |-> IF n = 0 THEN "holding" ELSE "waiting", kind |-> k,
                                    count |-> n, items |-> <<>>, live |-> TRUE,
                                    after |-> IF k \in Queues THEN Seen(k) ELSE {}]]
    /\ UNCHANGED <<conn, arrived, queue, dropped>>

(* The panic of the task becomes an error of this call in a debug build.    *)
AllocationError(r) ==
    /\ read[r].st = "waiting" /\ read[r].count = TooMany
    /\ read' = [read EXCEPT ![r].st = "error"]
    /\ UNCHANGED <<conn, arrived, queue, dropped>>

Smaller(m, n) == IF m < n THEN m ELSE n

(* Mutant: out[..n - 1].                                                   *)
TakeOneShort(r) ==
    LET k == read[r].kind
        n == Smaller(read[r].count, Len(queue[k]))
    IN  /\ read[r].st = "waiting" /\ read[r].count # TooMany /\ k \in Queues /\ n > 0
        /\ k = "open" => conn = "open"
        /\ read' = [read EXCEPT ![r].st = "holding",
                                ![r].items = SubSeq(queue[k], 1, n - 1)]
        /\ queue' = [queue EXCEPT ![k] = SubSeq(@, n + 1, Len(@))]
        /\ UNCHANGED <<conn, arrived, dropped>>

(* Mutant: pops the datagrams off the end.                                 *)
TakeNewest(r) ==
    LET k == read[r].kind
        n == Smaller(read[r].count, Len(queue[k]))
    IN  /\ read[r].st = "waiting" /\ read[r].count # TooMany /\ k \in Queues /\ n > 0
        /\ k = "open" => conn = "open"
        /\ read' = [read EXCEPT ![r].st = "holding",
                                ![r].items = SubSeq(queue[k], Len(queue[k]) - n + 1, Len(queue[k]))]
        /\ queue' = [queue EXCEPT ![k] = SubSeq(@, 1, Len(@) - n)]
        /\ UNCHANGED <<conn, arrived, dropped>>

(* What is there is handed out, oldest first; what arrived before a close   *)
(* may still be read after it, a stream cannot be opened.                  *)
Take(r) ==
    LET k == read[r].kind
        n == Smaller(read[r].count, Len(queue[k]))
    IN  /\ read[r].st = "waiting" /\ read[r].count # TooMany /\ k \in Queues /\ n > 0
        /\ k = "open" => conn = "open"
        /\ read' = [read EXCEPT ![r].st = "holding", ![r].items = SubSeq(queue[k], 1, n)]
        /\ queue' = [queue EXCEPT ![k] = SubSeq(@, n + 1, Len(@))]
        /\ UNCHANGED <<conn, arrived, dropped>>

Fail(r) ==
    /\ read[r].st = "waiting" /\ read[r].count # TooMany
    /\ read[r].kind \in Queues /\ conn = "closed"
    /\ read' = [read EXCEPT ![r].st = "error"]
    /\ UNCHANGED <<conn, arrived, queue, dropped>>

(* closed() answers with the reason.                                       *)
Closed(r) ==
    /\ read[r].st = "waiting" /\ read[r].kind = "closed" /\ conn = "closed"
    /\ read' = [read EXCEPT ![r].st = "holding"]
    /\ UNCHANGED <<conn, arrived, queue, dropped>>

(* The answer reaches Dart; nobody looks at that of an abandoned call, and  *)
(* the streams in it are dropped.                                          *)
Deliver(r) ==
    /\ read[r].st = "holding"
    /\ read' = [read EXCEPT ![r].st = IF read[r].live THEN "returned" ELSE "wasted"]
    /\ UNCHANGED <<conn, arrived, queue, dropped>>

(* A Dart timeout: nothing reaches the task.                               *)
Abandon(r) ==
    /\ read[r].st \in {"waiting", "holding"} /\ read[r].live
    /\ read' = [read EXCEPT ![r].live = FALSE]
    /\ UNCHANGED <<conn, arrived, queue, dropped>>

(* From the peer: a datagram, a stream, or the credit for one.             *)
Arrive(k) ==
    /\ conn = "open" /\ arrived[k] < Limit[k]
    /\ arrived' = [arrived EXCEPT ![k] = @ + 1]
    /\ LET full == k = "datagram" /\ Len(queue[k]) = Buffer
       IN  /\ queue' = [queue EXCEPT ![k] = Append(IF full THEN Tail(@) ELSE @, arrived'[k])]
           /\ dropped' = IF full THEN [dropped EXCEPT ![k] = @ \cup {Head(queue[k])}] ELSE dropped
    /\ UNCHANGED <<conn, read>>

(* Connection::close, the peer's, an idle timeout, or the garbage collector *)
(* that drops the last handle.                                             *)
Close ==
    /\ conn = "open"
    /\ conn' = "closed"
    /\ UNCHANGED <<arrived, queue, dropped, read>>

Working(r) == Take(r) \/ Fail(r) \/ Closed(r) \/ Deliver(r)

-----------------------------------------------------------------------------
Queued(k) == ToSet(queue[k])
Items(r)  == ToSet(read[r].items)

(* Every item that arrived is in one place: waiting in iroh, pushed out of  *)
(* the full buffer, or with one call; and it misses Dart only if Dart gave  *)
(* up on that very call.                                                   *)
LostOnlyToTimeouts ==
    \A k \in Queues :
        LET of == {r \in Reads : read[r].kind = k}
        IN  /\ 1..arrived[k] = Queued(k) \cup dropped[k] \cup UNION {Items(r) : r \in of}
            /\ IsInjective(queue[k]) /\ Queued(k) \cap dropped[k] = {}
            /\ \A r \in of :
                  /\ IsInjective(read[r].items)
                  /\ Items(r) \cap (Queued(k) \cup dropped[k]) = {}
                  /\ \A s \in of \ {r} : Items(r) \cap Items(s) = {}
                  /\ read[r].live /\ Items(r) # {} => read[r].st \in {"holding", "returned"}

(* A program that calls again after it has an answer gets later items, in   *)
(* the order of their arrival, whatever the tasks of calls it gave up on    *)
(* took meanwhile.                                                         *)
FreshReads ==
    \A r \in Reads :
        LET items == read[r].items
        IN  \A i \in DOMAIN items : /\ \A s \in read[r].after : s < items[i]
                                    /\ \A j \in 1..i - 1 : items[j] < items[i]
=============================================================================
