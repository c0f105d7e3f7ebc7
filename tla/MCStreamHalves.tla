--------------------------- MODULE MCStreamHalves ---------------------------
(* Small instances of StreamHalves.                                        *)
EXTENDS StreamHalves, TLC

CONSTANTS w1, w2, fin, rst, rd, ex, end, stp, bad

(* Writes of two bytes, a read of at most two, one of exactly one; and of   *)
(* negative lengths, a readToEnd whose limit is then a large number, and a *)
(* readExact whose buffer cannot be allocated.                             *)
Calls == [w1  |-> <<"write_all", 2>>, w2  |-> <<"write_all", 2>>,
          fin |-> <<"finish", 0>>,    rst |-> <<"reset", 0>>,
          rd  |-> <<"read", 2>>,      ex  |-> <<"read_exact", 1>>,
          end |-> <<"read_to_end", -1>>, stp |-> <<"stop", 0>>,
          bad |-> <<"read_exact", -1>>]

Named == w1 :> "w1" @@ w2 :> "w2" @@ fin :> "fin" @@ rst :> "rst" @@ rd :> "rd"
         @@ ex :> "ex" @@ end :> "end" @@ stp :> "stp" @@ bad :> "bad"

DoOps   == [o \in Ops |-> Calls[Named[o]][1]]
SizeOps == [o \in Ops |-> Calls[Named[o]][2]]

=============================================================================
