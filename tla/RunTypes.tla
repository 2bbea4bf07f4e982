------------------------------ MODULE RunTypes ------------------------------
(***************************************************************************)
(* The vocabulary every module of the deploy path shares: what a run is    *)
(* aimed at, and what a deploy can end with.                               *)
(***************************************************************************)
EXTENDS Integers, FiniteSets

CONSTANTS
    Run,        \* run ids (uuidv7, never reused)
    NoRun,      \* "no run": an empty lease, an idle consumer
    App, Env,   \* registered app ids and environment names
    TargetOf    \* the (app, env) a run was created for

Target == App \X Env

ASSUME TargetAssumption == TargetOf \in [Run -> Target]
ASSUME NoRunAssumption == NoRun \notin Run

(* The terminal RunnerStatus of a container.  `exit' is the exit code of   *)
(* the `vozka deploy' child: absent when clone or install failed first.    *)
Succeeded    == [state |-> "succeeded", exit |-> "zero"]
DeployFailed == [state |-> "failed",    exit |-> "nonzero"]
FailedNoExit == [state |-> "failed",    exit |-> "none"]
NoOutcome    == [state |-> "none",      exit |-> "none"]
Outcome      == {Succeeded, DeployFailed, FailedNoExit}

(* A countdown or an age moves by one unit per tick of the clock and stops *)
(* at its last meaningful value, so no timer is unbounded.                 *)
Down(n)    == IF n > 0 THEN n - 1 ELSE 0
Up(n, cap) == IF n < cap THEN n + 1 ELSE cap
=============================================================================
