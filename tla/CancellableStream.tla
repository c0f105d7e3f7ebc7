-------------------------- MODULE CancellableStream --------------------------
(***************************************************************************)
(* What a reactive stream of iroh_quic promises to the one who listens,    *)
(* whatever the bridge below it does: items come in the order of the       *)
(* source, a lost path event is accounted for, the stream ends only when   *)
(* its source did and everything due was told, and nothing comes after the *)
(* end or a cancel.                                                        *)
(***************************************************************************)
EXTENDS Integers, Sequences

CONSTANTS Subs, KindOf

Kinds == {"watch", "path"}

VARIABLES version, closed,
          phase,    \* [Subs -> {"idle", "live", "ended", "cancelled", "gone"}]
          told      \* [Subs -> Seq([pos, missed])]

vars == <<version, closed, phase, told>>

Init == /\ version = [k \in Kinds |-> IF k = "watch" THEN 1 ELSE 0]
        /\ closed = [k \in Kinds |-> FALSE]
        /\ phase = [s \in Subs |-> "idle"]
        /\ told = [s \in Subs |-> <<>>]

Change(k) == /\ ~closed[k]
             /\ version' = [version EXCEPT ![k] = @ + 1]
             /\ UNCHANGED <<closed, phase, told>>

CloseSource(k) == /\ ~closed[k]
                  /\ closed' = [closed EXCEPT ![k] = TRUE]
                  /\ UNCHANGED <<version, phase, told>>

Subscribe(s) == /\ phase[s] = "idle"
                /\ phase' = [phase EXCEPT ![s] = "live"]
                /\ UNCHANGED <<version, closed, told>>

(* A watched value may skip versions; path events may not, except those a  *)
(* Lagged event counts.  The first event follows the subscription.         *)
Follows(s, item) ==
    LET last == told[s][Len(told[s])].pos
        step == IF item.missed > 0 THEN item.missed ELSE 1
    IN  told[s] # <<>> =>
            IF KindOf[s] = "watch" THEN item.pos > last ELSE item.pos = last + step

Tell(s) ==
    /\ phase[s] = "live"
    /\ \E p \in 1..version[KindOf[s]], m \in 0..version[KindOf[s]] :
          /\ Follows(s, [pos |-> p, missed |-> m])
          /\ told' = [told EXCEPT ![s] = Append(@, [pos |-> p, missed |-> m])]
    /\ UNCHANGED <<version, closed, phase>>

(* A path event stream ends at the last event of its connection (or had    *)
(* none to tell).                                                          *)
End(s) ==
    /\ phase[s] = "live" /\ closed[KindOf[s]]
    /\ KindOf[s] = "path" /\ told[s] # <<>> =>
            told[s][Len(told[s])].pos = version["path"]
    /\ phase' = [phase EXCEPT ![s] = "ended"]
    /\ UNCHANGED <<version, closed, told>>

Cancel(s) == /\ phase[s] = "live"
             /\ phase' = [phase EXCEPT ![s] = "cancelled"]
             /\ UNCHANGED <<version, closed, told>>

(* Listeners go without a cancel when their program restarts.              *)
Vanish(S) == /\ phase' = [s \in Subs |-> IF s \in S THEN "gone" ELSE phase[s]]
             /\ UNCHANGED <<version, closed, told>>

Next == \/ \E S \in SUBSET Subs : Vanish(S)
        \/ \E k \in Kinds : Change(k) \/ CloseSource(k)
        \/ \E s \in Subs : Subscribe(s) \/ Tell(s) \/ End(s) \/ Cancel(s)

Spec == Init /\ [][Next]_vars

(* The stream of a closed source does not stay open. *)
EndsAfterClose == \A s \in Subs :
    closed[KindOf[s]] /\ phase[s] = "live" ~> phase[s] # "live"

Promise == Spec /\ EndsAfterClose
=============================================================================
