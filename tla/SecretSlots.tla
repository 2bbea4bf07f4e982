---------------------------- MODULE SecretSlots -----------------------------
(***************************************************************************)
(* The abstract specification of secret values: what a slot resolves to    *)
(* changes only as the whole effect of a request on that slot that is      *)
(* under way - never in between, never after it was answered, and never    *)
(* because of another slot's request - or when the registry drops or       *)
(* re-points the slot's row.                                               *)
(***************************************************************************)
EXTENDS Naturals

CONSTANTS Slot, Request, NoValue, Drops

VARIABLES
    value,  \* what each slot resolves to: the request that wrote it
    open,   \* the requests under way, as [id, op, slot]
    drops   \* how often the registry may still drop a row (a bound)

Init ==
    /\ value = [s \in Slot |-> NoValue]
    /\ open = {}
    /\ drops = Drops

Begins == \E q \in Request, op \in {"set", "rotate", "delete"}, s \in Slot :
    /\ open' = open \cup {[id |-> q, op |-> op, slot |-> s]}
    /\ UNCHANGED <<value, drops>>

\* At most one slot changes, and the request may be over with it.
TakesEffect == \E q \in open :
    /\ value' = [value EXCEPT ![q.slot] = IF q.op = "delete" THEN NoValue ELSE q.id]
    /\ open' \in {open, open \ {q}}
    /\ UNCHANGED drops

Ends == \E q \in open : open' = open \ {q} /\ UNCHANGED <<value, drops>>

Dropped == \E s \in Slot :
    /\ drops > 0 /\ drops' = drops - 1
    /\ value' = [value EXCEPT ![s] = NoValue]
    /\ UNCHANGED open

Next == Begins \/ TakesEffect \/ Ends \/ Dropped

Spec == Init /\ [][Next]_<<value, open, drops>>
=============================================================================
