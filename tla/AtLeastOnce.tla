---------------------------- MODULE AtLeastOnce ----------------------------
(***************************************************************************)
(* What a consumer of the subscription promises: every message is handled  *)
(* at least once before it is settled, and a settled message stays so.     *)
(* Handling may happen again at any time, before and after.                *)
(***************************************************************************)
CONSTANT Messages

VARIABLES
    pending,           \* messages published and not settled
    handled,           \* messages that were handled
    settled            \* messages the broker will not deliver again

contractVars == <<pending, handled, settled>>

ContractInit == pending = {} /\ handled = {} /\ settled = {}

Publish(ms) ==
    /\ ms \cap (pending \cup settled) = {}
    /\ pending' = pending \cup ms
    /\ UNCHANGED <<handled, settled>>

Handle(m) ==
    /\ m \in pending \cup settled
    /\ handled' = handled \cup {m}
    /\ UNCHANGED <<pending, settled>>

Settle(m) ==
    /\ m \in pending \cap handled
    /\ settled' = settled \cup {m} /\ pending' = pending \ {m}
    /\ UNCHANGED handled

ContractNext ==
    \/ \E ms \in SUBSET Messages : Publish(ms)
    \/ \E m \in Messages : Handle(m) \/ Settle(m)

ContractSpec == ContractInit /\ [][ContractNext]_contractVars
=============================================================================
