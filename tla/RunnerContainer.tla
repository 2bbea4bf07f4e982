--------------------------- MODULE RunnerContainer --------------------------
(***************************************************************************)
(* The per-run container of vozka-runner: the server in it, the deploy it  *)
(* runs, and the backstop its Durable Object schedules.                    *)
(*                                                                         *)
(* cont[r]    off -> booted -> active -> done, and dead once killed/asleep *)
(* result[r]  the terminal status the runner inside reached, kept after    *)
(*            the container is gone so that properties can speak of it     *)
(* life[r]    time since the run was accepted, while it is active          *)
(* phase, deadline, verdict: the scheduled backstop of run r               *)
(***************************************************************************)
EXTENDS RunsTable

CONSTANTS HardKill,      \* the platform kills a container this long after its start
          BackstopMax    \* BACKSTOP_MAX_MS

ASSUME ContainerAssumption == HardKill \in Nat /\ BackstopMax \in Nat

VARIABLES cont, result, life, phase, deadline, verdict

runnerVars    == <<cont, result, life>>
backstopVars  == <<phase, deadline, verdict>>
containerVars == <<runnerVars, backstopVars>>

ContainerTypeOK ==
    /\ cont \in [Run -> {"off", "booted", "active", "done", "dead"}]
    /\ result \in [Run -> Outcome \cup {NoOutcome}]
    /\ life \in [Run -> 0 .. HardKill]
    /\ phase \in [Run -> {"off", "armed", "finish"}]
    /\ deadline \in [Run -> 0 .. BackstopMax]
    /\ verdict \in [Run -> Outcome \cup {NoOutcome}]

ContainerInit ==
    /\ cont = [r \in Run |-> "off"]
    /\ result = [r \in Run |-> NoOutcome]
    /\ life = [r \in Run |-> 0]
    /\ phase = [r \in Run |-> "off"]
    /\ deadline = [r \in Run |-> 0]
    /\ verdict = [r \in Run |-> NoOutcome]

\* startAndWaitForPorts(): a container that is not up is (re)started.
BootContainer(r) ==
    /\ cont' = [cont EXCEPT ![r] = IF @ \in {"off", "dead"} THEN "booted" ELSE @]
    /\ UNCHANGED <<result, life, backstopVars>>

\* POST /run is accepted (202) unless a run is already in progress.
Accepts(r) == cont[r] \in {"booted", "done"}
AcceptRun(r) ==
    /\ Accepts(r)
    /\ cont' = [cont EXCEPT ![r] = "active"]
    /\ result' = [result EXCEPT ![r] = NoOutcome]
    /\ life' = [life EXCEPT ![r] = 0]
    /\ UNCHANGED backstopVars

\* Runner.run() reaches finish(): clone or install failed (no exit code), or
\* the deploy child exited.
RunnerFinish(r) ==
    /\ cont[r] = "active"
    /\ \E o \in Outcome : result' = [result EXCEPT ![r] = o]
    /\ cont' = [cont EXCEPT ![r] = "done"]
    /\ life' = [life EXCEPT ![r] = 0]
    /\ UNCHANGED <<tableVars, backstopVars>>

\* The platform stops the container: rollout, out of memory, the hard kill,
\* or the inactivity timer once the run is over.
ContainerStops(r) ==
    /\ cont[r] \in {"active", "done"}
    /\ cont' = [cont EXCEPT ![r] = "dead"]
    /\ life' = [life EXCEPT ![r] = 0]
    /\ UNCHANGED <<result, tableVars, backstopVars>>

-----------------------------------------------------------------------------
\* armBackstop(): the first check is scheduled and the deadline fixed.
ArmBackstop(r) ==
    /\ phase' = [phase EXCEPT ![r] = "armed"]
    /\ deadline' = [deadline EXCEPT ![r] = BackstopMax]
    /\ verdict' = [verdict EXCEPT ![r] = NoOutcome]
    /\ UNCHANGED runnerVars

\* backstopDecision(), when it decides to write: the container's own terminal
\* status, or `failed' past the deadline for one in flight or unreachable.
Decided(r) ==
    IF cont[r] = "done" THEN result[r]
    ELSE IF deadline[r] = 0 THEN FailedNoExit ELSE NoOutcome

\* A scheduled backstopCheck that does not re-schedule itself: the row is
\* terminal already (noop), or there is an outcome to write.
BackstopCheck(r) ==
    /\ phase[r] = "armed"
    /\ \/ /\ IsFinished(r)
          /\ phase' = [phase EXCEPT ![r] = "off"]
          /\ deadline' = [deadline EXCEPT ![r] = 0]
          /\ UNCHANGED verdict
       \/ /\ ~IsFinished(r)
          /\ Decided(r) # NoOutcome
          /\ phase' = [phase EXCEPT ![r] = "finish"]
          /\ deadline' = [deadline EXCEPT ![r] = 0]
          /\ verdict' = [verdict EXCEPT ![r] = Decided(r)]
    /\ UNCHANGED <<tableVars, runnerVars>>

\* ... and, after it has flushed the logs, its guarded write.
BackstopFinish(r) ==
    /\ phase[r] = "finish"
    /\ MarkRunFinished(r, verdict[r])
    /\ phase' = [phase EXCEPT ![r] = "off"]
    /\ verdict' = [verdict EXCEPT ![r] = NoOutcome]
    /\ UNCHANGED <<deadline, runnerVars>>

\* A D1 error escapes backstopCheck, which has not re-scheduled itself.
BackstopLost(r) ==
    /\ phase[r] \in {"armed", "finish"}
    /\ phase' = [phase EXCEPT ![r] = "off"]
    /\ deadline' = [deadline EXCEPT ![r] = 0]
    /\ verdict' = [verdict EXCEPT ![r] = NoOutcome]
    /\ UNCHANGED <<tableVars, runnerVars>>

\* The hard kill bounds a run, so the clock waits for it.
ContainerMayTick == \A r \in Run : cont[r] = "active" => life[r] < HardKill
ContainerTick ==
    /\ life' = [r \in Run |-> IF cont[r] = "active" THEN life[r] + 1 ELSE life[r]]
    /\ deadline' = [r \in Run |-> Down(deadline[r])]
    /\ UNCHANGED <<cont, result, phase, verdict>>
=============================================================================
