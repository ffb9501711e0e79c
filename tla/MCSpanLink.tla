----------------------------- MODULE MCSpanLink -----------------------------
(* Instances of SpanLink for TLC. *)
EXTENDS SpanLink, TLC

(* The callbacks are interchangeable; used only where no liveness is checked. *)
CallbackSymmetry == Permutations(Callbacks)
=============================================================================
