----------------------------- MODULE RunStatus ------------------------------
(***************************************************************************)
(* The abstract specification of a row of the `runs' table: what the       *)
(* dashboard and every caller of the API may rely on, whoever writes the   *)
(* row (queue consumer, vozka-runner, backstop, cron sweep, app deletion). *)
(***************************************************************************)
CONSTANT Run
VARIABLES status, exit

Open     == {"pending", "running"}
Terminal == {"succeeded", "failed"}

Init ==
    /\ status = [r \in Run |-> "absent"]
    /\ exit = [r \in Run |-> "none"]

Stays(r) == status'[r] = status[r] /\ exit'[r] = exit[r]

Created(r) ==
    /\ status[r] = "absent"
    /\ status'[r] = "pending"
    /\ exit'[r] = "none"

Started(r) ==
    /\ status[r] = "pending"
    /\ status'[r] = "running"
    /\ exit'[r] = "none"

\* The one transition that settles a run; the exit code lands with it.
Finished(r) ==
    /\ status[r] \in Open
    /\ \/ status'[r] = "succeeded" /\ exit'[r] = "zero"
       \/ status'[r] = "failed" /\ exit'[r] \in {"none", "nonzero"}

\* Deleting an app cascades to its runs, whatever state they are in.
Removed(r) ==
    /\ status[r] # "absent"
    /\ status'[r] = "deleted"
    /\ exit'[r] = "none"

RowStep(r) == Stays(r) \/ Created(r) \/ Started(r) \/ Finished(r) \/ Removed(r)

\* One statement may settle or remove many rows (the sweep, a cascade).
Next == \A r \in Run : RowStep(r)

Spec == Init /\ [][Next]_<<status, exit>>
=============================================================================
