---------------------------- MODULE ApiServerMC ----------------------------
(***************************************************************************)
(* A small instance of ApiServer for TLC: a bootstrap admin without any    *)
(* grant, the owner of one app's configuration, the keeper of its secrets, *)
(* and an operator.                                                        *)
(***************************************************************************)
EXTENDS ApiServer, TLC

CONSTANTS a1, a2, admin, owner, keeper, operator

MCOldRun == <<a1, a1, a1>>
MCGrants == [u \in User |->
    CASE u = admin -> {}
      [] u = owner -> {[action |-> "app.manage", scope |-> a1]}
      [] u = keeper -> {[action |-> "secret.manage", scope |-> a1]}
      [] OTHER -> [action : {"deploy.read", "deploy.trigger"}, scope : {Global}]]

Interchangeable == Permutations(Request)
=============================================================================
