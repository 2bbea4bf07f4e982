--------------------------- MODULE DeployEngineMC ---------------------------
(***************************************************************************)
(* A small instance of DeployEngine for TLC: the base as it is declared.   *)
(***************************************************************************)
EXTENDS DeployEngine

BaseConfig ==
    [c \in Base |-> CASE c = Propustka -> PropustkaConfig
                      [] c = Runner -> RunnerConfig
                      [] c = Vozka -> VozkaConfig]
=============================================================================
