----------------------------- MODULE RunsTable ------------------------------
(***************************************************************************)
(* The `runs' table in D1 and the statements that write it.  Each operator *)
(* is one SQL statement, hence atomic.  `age' is the time since            *)
(* COALESCE(started_at, created_at) of a row that is still open, capped    *)
(* just past the age at which the cron sweep reaps it.                     *)
(***************************************************************************)
EXTENDS RunTypes

CONSTANT StaleAge

ASSUME StaleAgeAssumption == StaleAge \in Nat

VARIABLES status, exit, age

tableVars == <<status, exit, age>>

IsOpen(r)     == status[r] \in {"pending", "running"}
IsFinished(r) == status[r] \in {"succeeded", "failed"}

TableTypeOK ==
    /\ status \in [Run -> {"absent", "pending", "running", "succeeded", "failed", "deleted"}]
    /\ exit \in [Run -> {"none", "zero", "nonzero"}]
    /\ age \in [Run -> 0 .. StaleAge + 1]

TableInit ==
    /\ status = [r \in Run |-> "absent"]
    /\ exit = [r \in Run |-> "none"]
    /\ age = [r \in Run |-> 0]

\* INSERT ... 'pending'.  The id is fresh.
CreateRun(r) ==
    /\ status[r] = "absent"
    /\ status' = [status EXCEPT ![r] = "pending"]
    /\ age' = [age EXCEPT ![r] = 0]
    /\ UNCHANGED exit

\* Plausible mistakes, for the mutation runs: a start that does not stamp
\* started_at, a finish without its guard, a sweep of running rows only.
MarkRunStartedUnstamped(r) ==
    /\ status' = [status EXCEPT ![r] = IF @ = "pending" THEN "running" ELSE @]
    /\ UNCHANGED <<exit, age>>

MarkRunFinishedUnguarded(r, o) ==
    /\ status' = [status EXCEPT ![r] = IF @ = "deleted" THEN @ ELSE o.state]
    /\ exit' = [exit EXCEPT ![r] = IF status[r] = "deleted" THEN @ ELSE o.exit]
    /\ age' = [age EXCEPT ![r] = 0]

StaleIfRunning(r) == status[r] = "running" /\ age[r] > StaleAge

\* UPDATE ... WHERE status = 'pending'.  The row is re-stamped (started_at);
\* the caller learns whether it moved from the row it matched.
MarkRunStarted(r) ==
    IF status[r] = "pending"
    THEN /\ status' = [status EXCEPT ![r] = "running"]
         /\ age' = [age EXCEPT ![r] = 0]
         /\ UNCHANGED exit
    ELSE UNCHANGED tableVars

\* UPDATE ... WHERE status IN ('pending','running'): first writer wins.
MarkRunFinished(r, o) ==
    IF IsOpen(r)
    THEN /\ status' = [status EXCEPT ![r] = o.state]
         /\ exit' = [exit EXCEPT ![r] = o.exit]
         /\ age' = [age EXCEPT ![r] = 0]
    ELSE UNCHANGED tableVars

Stale(r) == IsOpen(r) /\ age[r] > StaleAge

\* One UPDATE over every open row older than the limit; exit_code stays NULL.
SweepStaleRuns ==
    /\ status' = [r \in Run |-> IF Stale(r) THEN "failed" ELSE status[r]]
    /\ age' = [r \in Run |-> IF Stale(r) THEN 0 ELSE age[r]]
    /\ UNCHANGED exit

\* ON DELETE CASCADE from apps: the rows of the runs in `gone' disappear.
DeleteRuns(gone) ==
    /\ status' = [r \in Run |-> IF r \in gone /\ status[r] # "absent" THEN "deleted" ELSE status[r]]
    /\ exit' = [r \in Run |-> IF r \in gone THEN "none" ELSE exit[r]]
    /\ age' = [r \in Run |-> IF r \in gone THEN 0 ELSE age[r]]

AgeTick ==
    /\ age' = [r \in Run |-> IF IsOpen(r) THEN Up(age[r], StaleAge + 1) ELSE age[r]]
    /\ UNCHANGED <<status, exit>>
=============================================================================
