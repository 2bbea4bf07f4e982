--------------------------- MODULE RunLifecycleMC ---------------------------
(***************************************************************************)
(* Small instances of RunLifecycle for TLC: one target, timers that keep   *)
(* the order of the real ones, a few disturbances of each kind.            *)
(***************************************************************************)
EXTENDS RunLifecycle, TLC

CONSTANTS r1, r2, app, env, Rpc, Store, Crash, Duplicate, Producer, Removal

MCTargetOf == [r \in Run |-> <<app, env>>]
MCBudget == [k \in Disturbance |->
    CASE k = "rpc" -> Rpc [] k = "store" -> Store [] k = "crash" -> Crash
      [] k = "duplicate" -> Duplicate [] k = "producer" -> Producer
      [] k = "removal" -> Removal]

Interchangeable == Permutations(Run) \cup Permutations(Consumer)

(* A platform that is never slow: while time passes every invocation is     *)
(* waiting for its container, and no message waits for anything but a lock  *)
(* or a free invocation.                                                    *)
Prompt ==
    /\ \A c \in Consumer : pc[c] \in {"idle", "tail"}
    /\ \A m \in queue : Live(TargetOf[m.run]) \/ \A c \in Consumer : pc[c] # "idle"
    /\ unsent = {}

PromptNext ==
    \/ \E c \in Consumer : Consume(c)
    \/ \E r \in Run : RunStep(r)
    \/ Sweep \/ Registry
    \/ Prompt /\ Tick

PromptSpec == Init /\ [][PromptNext]_vars
=============================================================================
