------------------------------ MODULE VaultMC ------------------------------
(***************************************************************************)
(* Small instances of Vault for TLC.                                       *)
(***************************************************************************)
EXTENDS Vault, TLC

CONSTANTS Crash, RegistryN, MasterN

MCBudget == [k \in Disturbance |->
    CASE k = "crash" -> Crash [] k = "registry" -> RegistryN [] k = "master" -> MasterN]

Interchangeable == Permutations(Request)
=============================================================================
