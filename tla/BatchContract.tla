--------------------------- MODULE BatchContract ---------------------------
(***************************************************************************)
(* What receiveBatch of span-link promises its caller, without callbacks,  *)
(* locks, flow control or acknowledgements: while the batch is open one    *)
(* message at a time joins it, none is ever overwritten or dropped; it     *)
(* becomes full only with at least BatchSize messages; and a full batch    *)
(* does not change until it is given up.  An open batch may be given up at *)
(* any time (an error of Receive, the end of the process).                 *)
(***************************************************************************)
EXTENDS Integers, Sequences

CONSTANTS Message, BatchSize

VARIABLES
    phase,             \* "none", "open" or "full"
    batch              \* the messages received so far, in order

Init == phase = "none" /\ batch = <<>>

Open ==
    /\ phase = "none"
    /\ phase' = "open" /\ batch' = <<>>

Take ==
    /\ phase = "open"
    /\ \E m \in Message : batch' = Append(batch, m)
    /\ phase' = phase

Fill ==
    /\ phase = "open" /\ Len(batch) >= BatchSize
    /\ phase' = "full" /\ batch' = batch

GiveUp ==
    /\ phase # "none"
    /\ phase' = "none" /\ batch' = <<>>

Next == Open \/ Take \/ Fill \/ GiveUp

Spec == Init /\ [][Next]_<<phase, batch>>
=============================================================================
