--------------------------- MODULE MCStreamBridge ---------------------------
(* Small instances of StreamBridge: a path event stream and a watcher side   *)
(* by side, or, with a single token, one of the two; and a path event stream *)
(* alone.                                                                  *)
EXTENDS StreamBridge, TLC

CONSTANTS s1, s2, i1

PathAndWatch == s1 :> "path" @@ s2 :> "watch"
OnePath      == s1 :> "path"

Together == s1 :> i1 @@ s2 :> i1
Alone    == s1 :> i1
=============================================================================
