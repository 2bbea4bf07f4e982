----------------------------- MODULE TriggersMC -----------------------------
(***************************************************************************)
(* Small instances of Triggers for TLC: two apps on one repository, a      *)
(* branch, and a pattern of release tags.                                  *)
(***************************************************************************)
EXTENDS Triggers

CONSTANTS a1, a2, t1, t2

MCAppOf == [t \in Target |-> IF t = t1 THEN a1 ELSE a2]
MCMatching == [p \in Pattern |-> Tag]
=============================================================================
