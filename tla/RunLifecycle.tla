---------------------------- MODULE RunLifecycle ----------------------------
(***************************************************************************)
(* One deploy from its trigger to its terminal row: the queue, the         *)
(* consumer invocations of executeDeploy (each carrying the RPC into       *)
(* vozka-runner it awaits), the per-target lock, the runs table, the       *)
(* containers with their backstops, the cron sweep, and the removal of     *)
(* targets.  The consumer advances one await at a time.                    *)
(***************************************************************************)
EXTENDS RunnerContainer, DeployLock

CONSTANTS
    Consumer,        \* invocations of queue() that may overlap
    MaxInvocation,   \* the platform's limit on the length of an invocation
    MaxRetries,      \* redeliveries of a message before it is dropped
    Budget           \* how often each disturbance may strike (a bound)

(* Disturbances: an RPC into vozka-runner that rejects, a D1 / DO / queue   *)
(* call that throws, an invocation that dies, a message delivered twice, a  *)
(* producer that dies between its two writes, a removal from the registry.  *)
Disturbance == {"rpc", "store", "crash", "duplicate", "producer", "removal"}

ASSUME ConsumerAssumption ==
    /\ MaxInvocation \in Nat
    /\ MaxRetries \in Nat
    /\ Budget \in [Disturbance -> Nat]

VARIABLES
    queue,       \* messages waiting for a consumer
    unsent,      \* runs whose row is created and whose message is not sent yet
    pc,          \* where each invocation is in executeDeploy
    job,         \* the run it is about
    tries,       \* how often its message had been delivered before
    held,        \* how long it has been running
    out,         \* the outcome the RPC is returning
    faults,      \* disturbances of each kind still to come
    apps,        \* rows of apps
    registered,  \* rows of app_envs
    abandoned    \* runs whose invocation gave up while the container worked on

invocationVars == <<pc, job, tries, held, out>>
registryVars == <<apps, registered>>
vars == <<tableVars, lockVars, containerVars, queue, unsent, invocationVars,
          faults, registryVars, abandoned>>

Message == [run : Run, tries : 0 .. MaxRetries]

Early   == {"read", "acquire", "requeue"}
InRunner == {"boot", "arm", "post", "tail", "rfinish"}
Holding == {"start", "load", "record", "fail", "release", "rerelease"} \cup InRunner
PC      == {"idle", "ack"} \cup Early \cup Holding

TypeOK ==
    /\ TableTypeOK
    /\ LockTypeOK
    /\ ContainerTypeOK
    /\ queue \subseteq Message
    /\ unsent \subseteq Run
    /\ pc \in [Consumer -> PC]
    /\ job \in [Consumer -> Run \cup {NoRun}]
    /\ tries \in [Consumer -> 0 .. MaxRetries]
    /\ held \in [Consumer -> 0 .. MaxInvocation]
    /\ out \in [Consumer -> Outcome \cup {NoOutcome}]
    /\ faults \in [Disturbance -> Nat]
    /\ apps \subseteq App
    /\ registered \subseteq Target
    /\ abandoned \subseteq Run
    /\ \A c \in Consumer : (pc[c] # "idle") => job[c] \in Run

Init ==
    /\ TableInit
    /\ LockInit
    /\ ContainerInit
    /\ queue = {}
    /\ unsent = {}
    /\ pc = [c \in Consumer |-> "idle"]
    /\ job = [c \in Consumer |-> NoRun]
    /\ tries = [c \in Consumer |-> 0]
    /\ held = [c \in Consumer |-> 0]
    /\ out = [c \in Consumer |-> NoOutcome]
    /\ faults = Budget
    /\ apps = App
    /\ registered = Target
    /\ abandoned = {}

Key(c) == TargetOf[job[c]]

Goto(c, l) == pc' = [pc EXCEPT ![c] = l] /\ UNCHANGED <<job, tries, held, out>>

Idle(c) ==
    /\ pc' = [pc EXCEPT ![c] = "idle"]
    /\ job' = [job EXCEPT ![c] = NoRun]
    /\ tries' = [tries EXCEPT ![c] = 0]
    /\ held' = [held EXCEPT ![c] = 0]
    /\ out' = [out EXCEPT ![c] = NoOutcome]

Strike(k) == faults[k] > 0 /\ faults' = [faults EXCEPT ![k] = @ - 1]

\* A plausible mistake: the retries of a message are not counted.
RedeliverAlways(c) ==
    /\ queue' = queue \cup {[run |-> job[c], tries |-> tries[c] + 1]}
    /\ Idle(c)

\* message.retry(), or a death the queue notices: redelivered within budget.
Redeliver(c) ==
    /\ queue' = IF tries[c] < MaxRetries
                THEN queue \cup {[run |-> job[c], tries |-> tries[c] + 1]}
                ELSE queue
    /\ Idle(c)

-----------------------------------------------------------------------------
(* Producers: webhook, poll and the Deploy button insert the row, then send *)
(* the message.                                                             *)

\* The foreign key on apps is all the insert checks.
Trigger(r) ==
    /\ TargetOf[r][1] \in apps
    /\ CreateRun(r)
    /\ unsent' = unsent \cup {r}
    /\ UNCHANGED <<lockVars, containerVars, queue, invocationVars, faults, registryVars, abandoned>>

Send(r) ==
    /\ r \in unsent
    /\ unsent' = unsent \ {r}
    /\ queue' = queue \cup {[run |-> r, tries |-> 0]}
    /\ UNCHANGED <<tableVars, lockVars, containerVars, invocationVars, faults, registryVars, abandoned>>

ProducerDies(r) ==
    /\ r \in unsent
    /\ Strike("producer")
    /\ unsent' = unsent \ {r}
    /\ UNCHANGED <<tableVars, lockVars, containerVars, queue, invocationVars, registryVars, abandoned>>

-----------------------------------------------------------------------------
(* The consumer, up to the lock. *)

Deliver(c) ==
    /\ pc[c] = "idle"
    /\ \E m \in queue :
          /\ \/ queue' = queue \ {m} /\ UNCHANGED faults
             \/ queue' = queue /\ Strike("duplicate")
          /\ pc' = [pc EXCEPT ![c] = "read"]
          /\ job' = [job EXCEPT ![c] = m.run]
          /\ tries' = [tries EXCEPT ![c] = m.tries]
    /\ UNCHANGED <<tableVars, lockVars, containerVars, unsent, held, out, registryVars, abandoned>>

\* getRun: a deleted row, or one past `pending', is acknowledged untouched.
Read(c) ==
    /\ pc[c] = "read"
    /\ Goto(c, IF status[job[c]] = "pending" THEN "acquire" ELSE "ack")
    /\ UNCHANGED <<tableVars, lockVars, containerVars, queue, unsent, faults, registryVars, abandoned>>

TakeLock(c) ==
    /\ pc[c] = "acquire"
    /\ Acquire(Key(c), job[c])
    /\ Goto(c, "start")
    /\ UNCHANGED <<tableVars, containerVars, queue, unsent, faults, registryVars, abandoned>>

Defer(c) ==
    /\ pc[c] = "acquire"
    /\ Live(Key(c))
    /\ Goto(c, "requeue")
    /\ UNCHANGED <<tableVars, lockVars, containerVars, queue, unsent, faults, registryVars, abandoned>>

\* A plausible mistake: waiting for the lock is a retry of the message.
RequeueByRetry(c) ==
    /\ pc[c] = "requeue"
    /\ Redeliver(c)
    /\ UNCHANGED <<tableVars, lockVars, containerVars, unsent, faults, registryVars, abandoned>>

\* A deferred run is sent again as a fresh message, then this one is acked.
Requeue(c) ==
    /\ pc[c] = "requeue"
    /\ queue' = queue \cup {[run |-> job[c], tries |-> 0]}
    /\ Goto(c, "ack")
    /\ UNCHANGED <<tableVars, lockVars, containerVars, unsent, faults, registryVars, abandoned>>

Ack(c) ==
    /\ pc[c] = "ack"
    /\ Idle(c)
    /\ UNCHANGED <<tableVars, lockVars, containerVars, queue, unsent, faults, registryVars, abandoned>>

\* A call before the `try' throws: message.retry().  The lock may have been
\* granted and only its answer lost.
EarlyThrow(c) ==
    /\ pc[c] \in Early
    /\ Strike("store")
    /\ \/ pc[c] = "acquire" /\ Acquire(Key(c), job[c])
       \/ UNCHANGED lockVars
    /\ Redeliver(c)
    /\ UNCHANGED <<tableVars, containerVars, unsent, registryVars, abandoned>>

-----------------------------------------------------------------------------
(* The consumer under the lock: the body of the `try'. *)

\* A plausible mistake: whether the row moved is not looked at.
StartRegardless(c) ==
    /\ pc[c] = "start"
    /\ MarkRunStarted(job[c])
    /\ Goto(c, "load")
    /\ UNCHANGED <<lockVars, containerVars, queue, unsent, faults, registryVars, abandoned>>

Start(c) ==
    /\ pc[c] = "start"
    /\ MarkRunStarted(job[c])
    /\ Goto(c, IF status[job[c]] = "pending" THEN "load" ELSE "release")
    /\ UNCHANGED <<lockVars, containerVars, queue, unsent, faults, registryVars, abandoned>>

\* getApp / getAppEnv find nothing: failed at once.
LoadGone(c) ==
    /\ pc[c] = "load"
    /\ Key(c) \notin registered
    /\ MarkRunFinished(job[c], FailedNoExit)
    /\ Goto(c, "release")
    /\ UNCHANGED <<lockVars, containerVars, queue, unsent, faults, registryVars, abandoned>>

\* assembleJob builds the job, or throws: credentials unset, no clone token,
\* a secret that does not resolve.
LoadJob(c) ==
    /\ pc[c] = "load"
    /\ Key(c) \in registered
    /\ \E l \in {"boot", "fail"} : Goto(c, l)
    /\ UNCHANGED <<tableVars, lockVars, containerVars, queue, unsent, faults, registryVars, abandoned>>

Boot(c) ==
    /\ pc[c] = "boot"
    /\ BootContainer(job[c])
    /\ Goto(c, "arm")
    /\ UNCHANGED <<tableVars, lockVars, queue, unsent, faults, registryVars, abandoned>>

Arm(c) ==
    /\ pc[c] = "arm"
    /\ ArmBackstop(job[c])
    /\ Goto(c, "post")
    /\ UNCHANGED <<tableVars, lockVars, queue, unsent, faults, registryVars, abandoned>>

Post(c) ==
    /\ pc[c] = "post"
    /\ AcceptRun(job[c])
    /\ Goto(c, "tail")
    /\ UNCHANGED <<tableVars, lockVars, queue, unsent, faults, registryVars, abandoned>>

\* A plausible mistake: a log stream that closes is taken for a success.
RelayedAtStreamEnd(c) ==
    /\ pc[c] = "tail"
    /\ cont[job[c]] \in {"done", "dead"}
    /\ pc' = [pc EXCEPT ![c] = "rfinish"]
    /\ out' = [out EXCEPT ![c] = Succeeded]
    /\ UNCHANGED <<tableVars, lockVars, containerVars, queue, unsent, job, tries, held,
                   faults, registryVars, abandoned>>

\* /logs closes and /status is terminal: the relay has its outcome.
Relayed(c) ==
    /\ pc[c] = "tail"
    /\ cont[job[c]] = "done"
    /\ pc' = [pc EXCEPT ![c] = "rfinish"]
    /\ out' = [out EXCEPT ![c] = result[job[c]]]
    /\ UNCHANGED <<tableVars, lockVars, containerVars, queue, unsent, job, tries, held,
                   faults, registryVars, abandoned>>

\* vozka-runner's own write of the terminal row; a D1 error is swallowed.
RunnerRecords(c) ==
    /\ pc[c] = "rfinish"
    /\ \/ MarkRunFinished(job[c], out[c]) /\ UNCHANGED faults
       \/ UNCHANGED tableVars /\ Strike("store")
    /\ Goto(c, "record")
    /\ UNCHANGED <<lockVars, containerVars, queue, unsent, registryVars, abandoned>>

Record(c) ==
    /\ pc[c] = "record"
    /\ MarkRunFinished(job[c], out[c])
    /\ Goto(c, "release")
    /\ UNCHANGED <<lockVars, containerVars, queue, unsent, faults, registryVars, abandoned>>

\* The RPC rejects: the container does not come up, refuses /run, its stream
\* or an R2 write breaks, or the answer is lost.  A deploy that is under way
\* in the container is left to itself.
CallRejects(c) ==
    /\ pc[c] \in InRunner \cup {"record"}
    /\ Strike("rpc")
    /\ Goto(c, "fail")
    /\ abandoned' = IF cont[job[c]] = "active" THEN abandoned \cup {job[c]} ELSE abandoned
    /\ UNCHANGED <<tableVars, lockVars, containerVars, queue, unsent, registryVars>>

\* /run is answered with something other than 202 (409: a run is already in
\* progress), or the relay reads from a container that has died.
RelayThrows(c) ==
    /\ \/ pc[c] = "post" /\ ~Accepts(job[c])
       \/ pc[c] = "tail" /\ cont[job[c]] = "dead"
    /\ Goto(c, "fail")
    /\ UNCHANGED <<tableVars, lockVars, containerVars, queue, unsent, faults, registryVars, abandoned>>

\* A D1 call inside the `try' throws, before or after it took effect.
BodyThrow(c) ==
    /\ pc[c] \in {"start", "load", "record"}
    /\ Strike("store")
    /\ Goto(c, "fail")
    /\ UNCHANGED <<tableVars, lockVars, containerVars, queue, unsent, registryVars, abandoned>>

\* catch: the run is failed, with no exit code.  If that write throws too,
\* `finally' still releases and the message is retried.
Fail(c) ==
    /\ pc[c] = "fail"
    /\ \/ /\ MarkRunFinished(job[c], FailedNoExit)
          /\ Goto(c, "release")
          /\ UNCHANGED faults
       \/ /\ Strike("store")
          /\ Goto(c, "rerelease")
          /\ UNCHANGED tableVars
    /\ UNCHANGED <<lockVars, containerVars, queue, unsent, registryVars, abandoned>>

\* finally: release the lease this run holds.
Unlock(c) ==
    /\ pc[c] \in {"release", "rerelease"}
    /\ Release(Key(c), job[c])
    /\ \/ pc[c] = "release" /\ Goto(c, "ack") /\ UNCHANGED queue
       \/ pc[c] = "rerelease" /\ Redeliver(c)
    /\ UNCHANGED <<tableVars, containerVars, unsent, faults, registryVars, abandoned>>

\* release() itself throws: the lease is left to lapse.
UnlockThrows(c) ==
    /\ pc[c] \in {"release", "rerelease"}
    /\ Strike("store")
    /\ Redeliver(c)
    /\ UNCHANGED <<tableVars, lockVars, containerVars, unsent, registryVars, abandoned>>

\* The invocation dies: vozka deploys itself, or runs into the platform's
\* limit.  No catch, no finally; the RPC and the relay die with it.
Dies(c) ==
    /\ pc[c] # "idle"
    /\ IF held[c] = MaxInvocation THEN UNCHANGED faults ELSE Strike("crash")
    /\ Redeliver(c)
    /\ UNCHANGED <<tableVars, lockVars, containerVars, unsent, registryVars, abandoned>>

-----------------------------------------------------------------------------
(* Everything that is not the consumer. *)

RunnerStep(r) ==
    /\ \/ RunnerFinish(r)
       \/ ContainerStops(r)
    /\ UNCHANGED <<lockVars, queue, unsent, invocationVars, faults, registryVars, abandoned>>

Backstop(r) ==
    /\ BackstopCheck(r) \/ BackstopFinish(r)
    /\ UNCHANGED <<lockVars, queue, unsent, invocationVars, faults, registryVars, abandoned>>

BackstopFails(r) ==
    /\ BackstopLost(r)
    /\ Strike("store")
    /\ UNCHANGED <<lockVars, queue, unsent, invocationVars, registryVars, abandoned>>

\* scheduled(), every five minutes.
Sweep ==
    /\ \E r \in Run : Stale(r)
    /\ SweepStaleRuns
    /\ UNCHANGED <<lockVars, containerVars, queue, unsent, invocationVars, faults, registryVars, abandoned>>

RemoveEnv(t) ==
    /\ t \in registered
    /\ Strike("removal")
    /\ registered' = registered \ {t}
    /\ UNCHANGED <<tableVars, lockVars, containerVars, queue, unsent, invocationVars, apps, abandoned>>

\* DELETE FROM apps: its environments and all its runs go with it.  Leases,
\* messages and containers stay.
RemoveApp(a) ==
    /\ a \in apps
    /\ Strike("removal")
    /\ apps' = apps \ {a}
    /\ registered' = {t \in registered : t[1] # a}
    /\ DeleteRuns({r \in Run : TargetOf[r][1] = a})
    /\ UNCHANGED <<lockVars, containerVars, queue, unsent, invocationVars, abandoned>>

\* An app, then its environment, is registered (again, perhaps).
RegisterApp(a) ==
    /\ a \notin apps
    /\ apps' = apps \cup {a}
    /\ UNCHANGED <<tableVars, lockVars, containerVars, queue, unsent, invocationVars, faults, registered, abandoned>>

RegisterEnv(t) ==
    /\ t[1] \in apps
    /\ t \notin registered
    /\ registered' = registered \cup {t}
    /\ UNCHANGED <<tableVars, lockVars, containerVars, queue, unsent, invocationVars, faults, apps, abandoned>>

\* Time passes for every timer at once.  It waits for what the platform
\* bounds: an invocation at its limit, a container at its hard kill.
Tick ==
    /\ ContainerMayTick
    /\ \A c \in Consumer : pc[c] # "idle" => held[c] < MaxInvocation
    /\ AgeTick
    /\ LeaseTick
    /\ ContainerTick
    /\ held' = [c \in Consumer |-> IF pc[c] = "idle" THEN held[c] ELSE held[c] + 1]
    /\ UNCHANGED <<queue, unsent, pc, job, tries, out, faults, registryVars, abandoned>>

Consume(c) ==
    \/ Deliver(c) \/ Read(c) \/ TakeLock(c) \/ Defer(c) \/ Requeue(c) \/ Ack(c)
    \/ EarlyThrow(c) \/ Start(c) \/ LoadGone(c) \/ LoadJob(c) \/ Boot(c) \/ Arm(c)
    \/ Post(c) \/ Relayed(c) \/ RunnerRecords(c) \/ Record(c) \/ CallRejects(c)
    \/ RelayThrows(c) \/ BodyThrow(c) \/ Fail(c) \/ Unlock(c) \/ UnlockThrows(c) \/ Dies(c)

RunStep(r) ==
    \/ Trigger(r) \/ Send(r) \/ ProducerDies(r)
    \/ RunnerStep(r) \/ Backstop(r) \/ BackstopFails(r)

Registry ==
    \/ \E t \in Target : RemoveEnv(t) \/ RegisterEnv(t)
    \/ \E a \in App : RemoveApp(a) \/ RegisterApp(a)

Next ==
    \/ \E c \in Consumer : Consume(c)
    \/ \E r \in Run : RunStep(r)
    \/ Sweep \/ Registry \/ Tick

Spec == Init /\ [][Next]_vars

-----------------------------------------------------------------------------
(* Safety. *)

Deploying(r) == cont[r] = "active"

(* Per-target exclusion, as far as the code carries it: two containers work *)
(* on the same (app, env) at once only if one of them was given up by its   *)
(* invocation after a failed startRun call, or is at its hard kill: the     *)
(* lease's TTL is the invocation limit plus the hard kill and no longer.    *)
(* It relates all three across crashes and redeliveries.                    *)
AtWork(r) == Deploying(r) /\ r \notin abandoned /\ life[r] < HardKill
ExclusiveDeploy ==
    \A r1, r2 \in Run : AtWork(r1) /\ AtWork(r2) /\ TargetOf[r1] = TargetOf[r2] => r1 = r2

(* DeployLock.ts:4 "One DO instance per idFromName('<app>:<env>') gives     *)
(* mutual exclusion per target": never two containers at work on the same   *)
(* (app, env).                                                              *)
MutualExclusion ==
    \A s, r \in Run : Deploying(s) /\ Deploying(r) /\ TargetOf[s] = TargetOf[r] => s = r

(* A container that is working for a run its invocation has not given up is *)
(* covered by a live lease in that run's name until it is old enough to     *)
(* outlast any (TTL minus invocation limit), even after the invocation      *)
(* died: nobody's late release() has freed it and it has not lapsed.        *)
Outlasts(r) == life[r] + MaxInvocation >= LockTTL
LeaseCoversDeploy ==
    \A r \in Run :
        Deploying(r) /\ r \notin abandoned /\ ~Outlasts(r) =>
            holder[TargetOf[r]] = r /\ Live(TargetOf[r])

(* Why it is: the arithmetic of the lease.  An invocation past acquire()    *)
(* holds its target's lease alone and for as long as it can live; until its *)
(* container is old enough to outlast any lease, it has no deploy under way *)
(* except while it tails one (or has abandoned it), and the lease lasts     *)
(* until the container gets that old.                                       *)
HolderHasLease ==
    \A c \in Consumer : pc[c] \in Holding =>
        holder[Key(c)] = job[c] /\ left[Key(c)] + held[c] >= LockTTL
OneHolder ==
    \A c, d \in Consumer : pc[c] \in Holding /\ pc[d] \in Holding /\ Key(c) = Key(d) => c = d
OnlyTailDeploys ==
    \A c \in Consumer : pc[c] \in Holding \ {"tail"} =>
        ~Deploying(job[c]) \/ job[c] \in abandoned \/ Outlasts(job[c])
LeaseSpansDeploy ==
    \A r \in Run : Deploying(r) /\ r \notin abandoned /\ ~Outlasts(r) =>
        /\ holder[TargetOf[r]] = r
        /\ left[TargetOf[r]] + life[r] + MaxInvocation >= LockTTL
LeaseInv == HolderHasLease /\ OneHolder /\ OnlyTailDeploys /\ LeaseSpansDeploy

(* What a terminal row says is what the container did: `succeeded' and any  *)
(* exit code come from the run's own container, whichever of the four       *)
(* writers settled the row and whatever they raced with.                    *)
RecordedOutcomeIsReal ==
    \A r \in Run :
        /\ status[r] = "succeeded" => result[r] = Succeeded
        /\ exit[r] # "none" => exit[r] = result[r].exit

(* A genuinely long deploy is never reaped: a running row whose container   *)
(* is still working is too young for the sweep, however late in the         *)
(* invocation its container came up.                                        *)
SweepSparesLiveDeploys ==
    \A r \in Run : Deploying(r) => ~Stale(r)

-----------------------------------------------------------------------------
(* What a step may never do. *)

(* The lifecycle keeps the promise of a deploy: its row is settled once, by *)
(* one writer, exit code included, with what its container ended with, and  *)
(* is never re-opened; its container works once, for a row that is running. *)
Work == [r \in Run |-> IF cont[r] \in {"off", "booted"} THEN "none"
                       ELSE IF cont[r] = "active" THEN "active" ELSE "over"]
Ended == [r \in Run |-> IF cont[r] \in {"done", "dead"} THEN result[r] ELSE NoOutcome]

Row     == INSTANCE RunStatus
Promise == INSTANCE DeployPromise WITH work <- Work, ended <- Ended
PromiseKept == Promise!Spec

(* A pending run loses the last of its producer, messages and invocations  *)
(* only when its producer dies or an invocation fails on the last retry (a *)
(* call throws, it dies, or the catch block could not fail the row and the *)
(* throw leaves through `finally'): waiting for the lock, however long and *)
(* behind whomever, drops no run, even when its retries are used up.       *)
Carried(r) ==
    \/ r \in unsent
    \/ \E m \in queue : m.run = r
    \/ \E c \in Consumer : job[c] = r /\ pc[c] # "ack"
OnlyFailuresDropRuns ==
    [][\A r \in Run :
          Carried(r) /\ ~Carried(r)' /\ status[r] = "pending" /\ status'[r] = "pending" =>
              \/ r \in unsent
              \/ \E c \in Consumer :
                    /\ job[c] = r /\ tries[c] = MaxRetries
                    /\ \/ faults' # faults
                       \/ held[c] = MaxInvocation
                       \/ pc[c] = "rerelease"]_vars

(* At most one execution: a run whose container has accepted it is never    *)
(* booted or accepted a second time, whatever is redelivered.               *)
AtMostOneExecution ==
    [][\A r \in Run :
          cont[r] \in {"active", "done", "dead"} =>
              /\ cont'[r] # "booted"
              /\ cont'[r] = "active" => cont[r] = "active"]_vars

(* A deploy begins only for a run the table still has as running: neither   *)
(* the sweep nor the backstop can have failed a run whose container is only *)
(* about to start (a deleted row is the exception).                         *)
NoDeployOfSettledRun ==
    [][\A r \in Run :
          ~Deploying(r) /\ Deploying(r)' => status[r] \in {"running", "deleted"}]_vars

-----------------------------------------------------------------------------
(* Liveness.  Only the platform's own schedules are fair: the clock, the    *)
(* invocation limit, the hard kill, the cron, the Durable Object's alarms.  *)

TimesOut(c)   == held[c] = MaxInvocation /\ Dies(c)
IsKilled(r)   == life[r] = HardKill /\ cont[r] = "active" /\ RunnerStep(r)
PlatformFair ==
    /\ WF_vars(Tick)
    /\ \A c \in Consumer : WF_vars(TimesOut(c))
    /\ \A r \in Run : WF_vars(IsKilled(r))

CronSpec     == Spec /\ PlatformFair /\ WF_vars(Sweep)

(* Every run leaves the open states, whatever dies or gets lost, because    *)
(* the cron sweep does.                                                     *)
EveryRunSettles == \A r \in Run : IsOpen(r) ~> ~IsOpen(r)
=============================================================================
