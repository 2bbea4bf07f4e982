--------------------------- MODULE DeployPromise ----------------------------
(***************************************************************************)
(* The abstract specification of a deploy: what whoever triggered it may   *)
(* rely on.  Its row follows RunStatus; its work is done at most once, and *)
(* begins only while the row says `running' (or is gone); and the row is   *)
(* settled with what the work ended with, or as failed with no exit code.  *)
(* Queue, lock, containers, backstops and the sweep are not mentioned.     *)
(***************************************************************************)
EXTENDS RunTypes

VARIABLES
    status, exit,   \* the row
    work,           \* none -> active -> over
    ended           \* what the work ended with; NoOutcome: it was cut off

Row == INSTANCE RunStatus

Init ==
    /\ Row!Init
    /\ work = [r \in Run |-> "none"]
    /\ ended = [r \in Run |-> NoOutcome]

WorkStays(r) == work'[r] = work[r] /\ ended'[r] = ended[r]

\* An outcome may be recorded if it is the one the work had, or none is known.
Known(r) == {FailedNoExit} \cup (IF work[r] = "over" THEN {ended[r]} \cap Outcome ELSE {})

Settled(r) ==
    /\ Row!Finished(r)
    /\ \E o \in Known(r) : status'[r] = o.state /\ exit'[r] = o.exit
    /\ WorkStays(r)

RowMoves(r) ==
    /\ Row!Created(r) \/ Row!Started(r) \/ Row!Removed(r)
    /\ WorkStays(r)

Launched(r) ==
    /\ work[r] = "none"
    /\ status[r] \in {"running", "deleted"}
    /\ work'[r] = "active"
    /\ UNCHANGED ended[r]
    /\ Row!Stays(r)

Ended(r) ==
    /\ work[r] = "active"
    /\ work'[r] = "over"
    /\ ended'[r] \in Outcome \cup {NoOutcome}
    /\ Row!Stays(r)

RunStep(r) ==
    \/ RowMoves(r) \/ Settled(r) \/ Launched(r) \/ Ended(r)
    \/ Row!Stays(r) /\ WorkStays(r)

\* One statement may settle or remove many rows (the sweep, a cascade).
Next == \A r \in Run : RunStep(r)

Spec == Init /\ [][Next]_<<status, exit, work, ended>>
=============================================================================
