-------------------------------- MODULE Ffi --------------------------------
(* The calls and the wire format of the bridge together: what the format    *)
(* promises holds while the objects' numbers fit into its fields.          *)
EXTENDS FfiCalls, SseCodec

(* The id generator of MoiArc has not outgrown a u64.                      *)
NumbersFit == next <= Holds[Len64]

(* While they fit, whatever a method of the Dart binding is called with,    *)
(* the function it is named for gets exactly those arguments: the          *)
(* dispatcher knows the number, no decoder panics, and no byte is left      *)
(* over.  And what a Dart callback answers is what the Rust future yields,  *)
(* the None of a resolver included; nothing comes of a callback that throws. *)
ArgumentsArrive == NumbersFit => Misheard = {} /\ Misquoted = {}

(* While they fit, what a function returns, or fails with, is what Dart     *)
(* reads: the method's decoder of results wants exactly the bytes that      *)
(* come, and a method whose function can fail has a decoder of errors.  And *)
(* every item of a stream arrives in Dart as it was sent.                  *)
ResultsArrive == NumbersFit => Misread = {} /\ Garbled = {}
=============================================================================
