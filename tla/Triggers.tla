------------------------------ MODULE Triggers ------------------------------
(***************************************************************************)
(* From a push to a deploy: the webhook handler (worker/src/webhook.ts),   *)
(* the manual trigger (api/runs.ts), the queue with its deferrals, and the *)
(* clone that decides which commit a run deploys (runner/src/runner.ts),   *)
(* while the registry changes.  A step ends at an await.                   *)
(*                                                                         *)
(* Of a run's lifecycle only what orders deploys is kept: one at a time    *)
(* for a target, whatever RunLifecycle shows about how.  A push is known   *)
(* by its number, which is also the commit it brings.                      *)
(***************************************************************************)
EXTENDS Integers, Sequences, FiniteSets

CONSTANTS
    App, Target, AppOf,   \* apps of one repository, their environments
    Branch, Tag,          \* refs
    Pattern, Matching,    \* tag globs, and the refs each matches
    Default,              \* the default branch
    NoRef, NoRow,         \* no trigger ref; no row
    MaxPush, MaxRun,      \* bounds: pushes, runs, and
    Budget                \* disturbances: changes of the registry, manual
                          \* triggers, deletions of refs, faults

ASSUME TriggersAssumption ==
    /\ AppOf \in [Target -> App]
    /\ Default \in Branch /\ Matching \in [Pattern -> SUBSET (Branch \cup Tag)]
    /\ NoRef \notin Branch \cup Tag \cup Pattern
    /\ NoRow \notin Branch \cup Tag \cup Pattern \cup {NoRef}
    /\ (Branch \cup Tag) \cap Pattern = {}
    /\ MaxPush \in Nat /\ MaxRun \in Nat
    /\ Budget \in Nat

Ref == Branch \cup Tag
Push == 1 .. MaxPush
RunId == 1 .. MaxRun

VARIABLES
    apps, trigger,  \* the registry: apps, and each environment's trigger ref
    head,           \* the repository: the commit of each ref, 0 where there is none
    pushed,         \* the pushes so far: ref, and whether it deleted the ref
    pc, todo, hook, \* each push's delivery: its handler, apps it has yet to look at, and
                    \* matches of the app at hand it has yet to trigger
    steady,         \* history: who has subscribed since the delivery arrived
    runs,           \* rows of runs, in the order of their creation
    unsent,         \* runs created whose message is not sent
    queue,          \* messages
    work,           \* the deploy of each target: the run, and the commit it has cloned
    deployed,       \* what was last deployed to each target
    budget

registry == <<apps, trigger>>
handler == <<pc, todo, hook, steady>>
rows == <<runs, unsent, queue>>
vars == <<registry, head, pushed, handler, rows, work, deployed, budget>>

Place == {"none", "sent", "apps", "create", "send", "ok", "failed"}
Row == [target : Target, ref : Ref, commit : Push \cup {0}, push : Push \cup {0},
        got : Push \cup {0}, status : {"pending", "running", "succeeded", "failed", "removed"}]
Nothing == [ref |-> NoRef, commit |-> 0]
Idle == [run |-> 0, commit |-> 0]

TypeOK ==
    /\ apps \subseteq App
    /\ trigger \in [Target -> Ref \cup Pattern \cup {NoRef, NoRow}]
    /\ head \in [Ref -> Push \cup {0}]
    /\ pushed \in Seq([ref : Ref, deletes : BOOLEAN]) /\ Len(pushed) <= MaxPush
    /\ pc \in [Push -> Place] /\ todo \in [Push -> SUBSET App] /\ hook \in [Push -> SUBSET Target]
    /\ steady \in [Push -> SUBSET Target]
    /\ runs \in Seq(Row) /\ Len(runs) <= MaxRun
    /\ unsent \subseteq DOMAIN runs /\ queue \subseteq DOMAIN runs
    /\ work \in [Target -> [run : RunId \cup {0}, commit : Push \cup {0}]]
    /\ deployed \in [Target -> [ref : Ref \cup {NoRef}, commit : Push \cup {0}]]
    /\ budget \in 0 .. Budget

Init ==
    /\ apps \in SUBSET App
    /\ trigger \in [Target -> {Default, NoRow} \cup Pattern]
    /\ \A t \in Target : AppOf[t] \in apps <=> trigger[t] # NoRow
    /\ \A s, t \in Target : (AppOf[s] = AppOf[t] /\ trigger[s] = trigger[t]) =>
         s = t \/ trigger[s] = NoRow
    /\ head = [r \in Ref |-> 0] /\ pushed = <<>>
    /\ pc = [n \in Push |-> "none"] /\ todo = [n \in Push |-> {}] /\ hook = [n \in Push |-> {}]
    /\ steady = [n \in Push |-> {}]
    /\ runs = <<>> /\ unsent = {} /\ queue = {}
    /\ work = [t \in Target |-> Idle] /\ deployed = [t \in Target |-> Nothing]
    /\ budget = Budget

Strike == budget > 0 /\ budget' = budget - 1

(***************************************************************************)
(* GitHub: a push changes a ref and is delivered once, if at all; a        *)
(* failed delivery can be sent again by hand.                              *)
(***************************************************************************)
GitPush(ref) ==
    LET n == Len(pushed) + 1 IN
    /\ n \in Push /\ (ref \in Tag => head[ref] = 0)
    /\ \E deletes \in BOOLEAN :
        /\ IF deletes THEN head[ref] # 0 /\ Strike ELSE UNCHANGED budget
        /\ head' = [head EXCEPT ![ref] = IF deletes THEN 0 ELSE n]
        /\ pushed' = Append(pushed, [ref |-> ref, deletes |-> deletes])
    /\ pc' = [pc EXCEPT ![n] = "sent"]
    /\ UNCHANGED <<registry, todo, hook, steady, rows, work, deployed>>

DeliveryLost(n) ==
    /\ pc[n] = "sent" /\ Strike
    /\ pc' = [pc EXCEPT ![n] = "failed"]
    /\ UNCHANGED <<registry, head, pushed, todo, hook, steady, rows, work, deployed>>

Redeliver(n) ==
    /\ pc[n] = "failed"
    /\ pc' = [pc EXCEPT ![n] = "sent"]
    /\ UNCHANGED <<registry, head, pushed, todo, hook, steady, rows, work, deployed, budget>>

(***************************************************************************)
(* The webhook.                                                            *)
(***************************************************************************)
\* refMatches() on an environment that has a row and a trigger ref.
RefMatches(t, ref) ==
    \/ trigger[t] = ref
    \/ trigger[t] \in Pattern /\ ref \in Matching[trigger[t]]

Subscribed(t, ref) ==
    /\ AppOf[t] \in apps
    /\ \/ trigger[t] = ref
       \/ trigger[t] \in Pattern /\ ref \in Matching[trigger[t]]

\* getAppsByRepoUrl, once the signature is verified and the payload decoded.
Receive(n) ==
    /\ pc[n] = "sent"
    /\ pc' = [pc EXCEPT ![n] = "apps"]
    /\ todo' = [todo EXCEPT ![n] = apps]
    /\ steady' = [steady EXCEPT ![n] = {t \in Target : Subscribed(t, pushed[n].ref)}]
    /\ UNCHANGED <<registry, head, pushed, hook, rows, work, deployed, budget>>

\* listTriggerEnvs of the next app.
ListEnvs(n) ==
    /\ pc[n] = "apps"
    /\ \E a \in todo[n] :
        LET matches == {t \in Target : AppOf[t] = a /\ RefMatches(t, pushed[n].ref)} IN
        /\ todo' = [todo EXCEPT ![n] = @ \ {a}]
        /\ hook' = [hook EXCEPT ![n] = matches]
        /\ pc' = [pc EXCEPT ![n] = IF matches = {} THEN "apps" ELSE "create"]
    /\ UNCHANGED <<registry, head, pushed, steady, rows, work, deployed, budget>>

NewRun(t, ref, commit, push) ==
    runs' = Append(runs, [target |-> t, ref |-> ref, commit |-> commit, push |-> push,
                          got |-> 0, status |-> "pending"])

\* 500; nothing of the invocation is left.
GiveUp(n) ==
    /\ pc' = [pc EXCEPT ![n] = "failed"]
    /\ todo' = [todo EXCEPT ![n] = {}] /\ hook' = [hook EXCEPT ![n] = {}]
    /\ steady' = [steady EXCEPT ![n] = {}]

\* decodePushEvent(): the commit is the payload's `after', all zeros for a deletion.
Decoded(n) == [ref |-> pushed[n].ref, commit |-> IF pushed[n].deletes THEN 0 ELSE n]

\* createRun; the row of an app that is gone violates the foreign key.
CreateRun(n) ==
    /\ pc[n] = "create"
    /\ \E t \in hook[n] :
        IF AppOf[t] \in apps
        THEN /\ Len(runs) < MaxRun
             /\ NewRun(t, Decoded(n).ref, Decoded(n).commit, n)
             /\ unsent' = unsent \cup {Len(runs) + 1}
             /\ hook' = [hook EXCEPT ![n] = @ \ {t}]
             /\ pc' = [pc EXCEPT ![n] = "send"] /\ UNCHANGED <<todo, steady>>
        ELSE GiveUp(n) /\ UNCHANGED <<runs, unsent>>
    /\ UNCHANGED <<registry, head, pushed, queue, work, deployed, budget>>

\* The run the handler has just created.
Created(n) == CHOOSE i \in unsent : runs[i].push = n

Send(n) ==
    /\ pc[n] = "send"
    /\ queue' = queue \cup {Created(n)}
    /\ unsent' = unsent \ {Created(n)}
    /\ pc' = [pc EXCEPT ![n] = IF hook[n] = {} THEN "apps" ELSE "create"]
    /\ UNCHANGED <<registry, head, pushed, todo, hook, steady, runs, work, deployed, budget>>

\* 200 or 204.
Answer(n) ==
    /\ pc[n] = "apps" /\ todo[n] = {}
    /\ pc' = [pc EXCEPT ![n] = "ok"]
    /\ UNCHANGED <<registry, head, pushed, todo, hook, steady, rows, work, deployed, budget>>

\* Mutant: a failed call is answered as if the push had been handled.
HandlerSwallows(n) ==
    /\ pc[n] \in {"apps", "create", "send"} /\ Strike
    /\ pc' = [pc EXCEPT ![n] = "ok"]
    /\ todo' = [todo EXCEPT ![n] = {}] /\ hook' = [hook EXCEPT ![n] = {}]
    /\ unsent' = IF pc[n] = "send" THEN unsent \ {Created(n)} ELSE unsent
    /\ UNCHANGED <<registry, head, pushed, steady, runs, queue, work, deployed>>

\* A call of D1 or the queue fails, or the invocation dies: 500, with what was done done.
HandlerFails(n) ==
    /\ pc[n] \in {"apps", "create", "send"} /\ Strike
    /\ GiveUp(n)
    /\ unsent' = IF pc[n] = "send" THEN unsent \ {Created(n)} ELSE unsent
    /\ UNCHANGED <<registry, head, pushed, runs, queue, work, deployed>>

(***************************************************************************)
(* The manual trigger.                                                     *)
(***************************************************************************)
\* Without an explicit ref: the trigger ref if it is one, else the default branch.
ManualRef(t) == IF trigger[t] \in Ref THEN trigger[t] ELSE Default

TriggerDeploy(t) ==
    /\ AppOf[t] \in apps /\ trigger[t] # NoRow
    /\ Len(runs) < MaxRun /\ Strike
    /\ \E ref \in Ref \cup {ManualRef(t)} : NewRun(t, ref, 0, 0)
    /\ unsent' = unsent \cup {Len(runs) + 1}
    /\ UNCHANGED <<registry, head, pushed, handler, queue, work, deployed>>

SendManual(i) ==
    /\ i \in unsent /\ runs[i].push = 0
    /\ queue' = queue \cup {i} /\ unsent' = unsent \ {i}
    /\ UNCHANGED <<registry, head, pushed, handler, runs, work, deployed, budget>>

(***************************************************************************)
(* The registry.                                                           *)
(***************************************************************************)
\* Who is still subscribed to each push under way.
Unsettled(a, tr) ==
    steady' = [n \in Push |-> {t \in steady[n] :
                 AppOf[t] \in a /\ tr[t] = trigger[t]}]

PutAppEnv(t, ref) ==
    /\ AppOf[t] \in apps /\ Strike
    /\ \A s \in Target \ {t} : (AppOf[s] = AppOf[t] /\ trigger[s] = ref) => ref = NoRef
    /\ trigger' = [trigger EXCEPT ![t] = ref]
    /\ Unsettled(apps, trigger')
    /\ UNCHANGED <<apps, head, pushed, pc, todo, hook, rows, work, deployed>>

DeleteAppEnv(t) ==
    /\ trigger[t] # NoRow /\ Strike
    /\ trigger' = [trigger EXCEPT ![t] = NoRow]
    /\ Unsettled(apps, trigger')
    /\ UNCHANGED <<apps, head, pushed, pc, todo, hook, rows, work, deployed>>

\* With everything that references it.
DeleteApp(a) ==
    /\ a \in apps /\ Strike
    /\ apps' = apps \ {a}
    /\ trigger' = [t \in Target |-> IF AppOf[t] = a THEN NoRow ELSE trigger[t]]
    /\ runs' = [i \in DOMAIN runs |-> IF AppOf[runs[i].target] = a
                                      THEN [runs[i] EXCEPT !.status = "removed"] ELSE runs[i]]
    /\ Unsettled(apps', trigger')
    /\ UNCHANGED <<head, pushed, pc, todo, hook, unsent, queue, work, deployed>>

RegisterApp(a) ==
    /\ a \notin apps /\ Strike
    /\ apps' = apps \cup {a}
    /\ \E t \in Target : AppOf[t] = a /\ trigger' = [trigger EXCEPT ![t] = Default]
    /\ UNCHANGED <<head, pushed, handler, rows, work, deployed>>

(***************************************************************************)
(* Deploys.  A message whose target is being deployed is sent anew.        *)
(***************************************************************************)
Status(i, s) == runs' = [runs EXCEPT ![i].status = s]
Locked(t) == work[t].run # 0

\* The row is gone, or is not pending.
Skip(i) ==
    /\ i \in queue /\ runs[i].status # "pending"
    /\ queue' = queue \ {i}
    /\ UNCHANGED <<registry, head, pushed, handler, runs, unsent, work, deployed, budget>>

\* Mutant: the message of a deferred run is acknowledged and not sent again.
BeginOrDrop(i) ==
    LET t == runs[i].target IN
    /\ i \in queue /\ runs[i].status = "pending"
    /\ queue' = queue \ {i}
    /\ IF Locked(t) THEN UNCHANGED <<runs, work>>
       ELSE IF AppOf[t] \in apps /\ trigger[t] # NoRow
       THEN Status(i, "running") /\ work' = [work EXCEPT ![t] = [run |-> i, commit |-> 0]]
       ELSE Status(i, "failed") /\ UNCHANGED work
    /\ UNCHANGED <<registry, head, pushed, handler, unsent, deployed, budget>>

Begin(i) ==
    LET t == runs[i].target IN
    /\ i \in queue /\ runs[i].status = "pending" /\ ~Locked(t)
    /\ queue' = queue \ {i}
    /\ IF AppOf[t] \in apps /\ trigger[t] # NoRow
       THEN Status(i, "running") /\ work' = [work EXCEPT ![t] = [run |-> i, commit |-> 0]]
       ELSE Status(i, "failed") /\ UNCHANGED work
    /\ UNCHANGED <<registry, head, pushed, handler, unsent, deployed, budget>>

\* Updates of a row that was deleted meanwhile change nothing.
Settle(t, s) ==
    LET i == work[t].run IN
    IF runs[i].status = "running" THEN Status(i, s) ELSE UNCHANGED runs

\* Mutant: the commit recorded in the run's row is checked out.
CloneRecorded(t) ==
    LET i == work[t].run  c == IF runs[i].commit # 0 THEN runs[i].commit ELSE head[runs[i].ref] IN
    /\ Locked(t) /\ work[t].commit = 0
    /\ IF c = 0
       THEN Settle(t, "failed") /\ work' = [work EXCEPT ![t] = Idle]
       ELSE runs' = [runs EXCEPT ![i].got = c] /\ work' = [work EXCEPT ![t].commit = c]
    /\ UNCHANGED <<registry, head, pushed, handler, unsent, queue, deployed, budget>>

\* `git clone --branch': what the ref points at by now, or an error.
Clone(t) ==
    LET i == work[t].run  c == IF runs[i].ref \in Ref THEN head[runs[i].ref] ELSE 0 IN
    /\ Locked(t) /\ work[t].commit = 0
    /\ IF c = 0
       THEN Settle(t, "failed") /\ work' = [work EXCEPT ![t] = Idle]
       ELSE runs' = [runs EXCEPT ![i].got = c] /\ work' = [work EXCEPT ![t].commit = c]
    /\ UNCHANGED <<registry, head, pushed, handler, unsent, queue, deployed, budget>>

Cloned(t) == [ref |-> runs[work[t].run].ref, commit |-> work[t].commit]

\* `vozka deploy' exits, and the outcome is recorded.
Deploy(t) ==
    /\ work[t].commit # 0
    /\ deployed' = [deployed EXCEPT ![t] = Cloned(t)]
    /\ Settle(t, "succeeded")
    /\ work' = [work EXCEPT ![t] = Idle]
    /\ UNCHANGED <<registry, head, pushed, handler, unsent, queue, budget>>

\* The deploy fails, after its worker went live or before.
DeployFails(t) ==
    /\ work[t].commit # 0 /\ Strike
    /\ deployed' \in {deployed, [deployed EXCEPT ![t] = Cloned(t)]}
    /\ Settle(t, "failed")
    /\ work' = [work EXCEPT ![t] = Idle]
    /\ UNCHANGED <<registry, head, pushed, handler, unsent, queue>>

\* The sweep reaps a run that waits too long for its turn.
Sweep(i) ==
    /\ i \in DOMAIN runs /\ runs[i].status = "pending" /\ Strike
    /\ Status(i, "failed")
    /\ UNCHANGED <<registry, head, pushed, handler, unsent, queue, work, deployed>>

-----------------------------------------------------------------------------
HookStep(n) == Receive(n) \/ ListEnvs(n) \/ CreateRun(n) \/ Send(n) \/ Answer(n)
DeployStep(t) == Clone(t) \/ Deploy(t)
Registry ==
    \/ \E t \in Target : DeleteAppEnv(t) \/ \E ref \in Ref \cup Pattern \cup {NoRef} : PutAppEnv(t, ref)
    \/ \E a \in App : DeleteApp(a) \/ RegisterApp(a)

Next ==
    \/ \E r \in Ref : GitPush(r)
    \/ \E n \in Push : HookStep(n) \/ DeliveryLost(n) \/ Redeliver(n) \/ HandlerFails(n)
    \/ \E t \in Target : TriggerDeploy(t) \/ DeployStep(t) \/ DeployFails(t)
    \/ \E i \in RunId : SendManual(i) \/ Skip(i) \/ Begin(i) \/ Sweep(i)
    \/ Registry

Spec == Init /\ [][Next]_vars

\* Handlers, the queue (which hands out every message over and over) and containers go on.
FairSpec ==
    /\ Spec
    /\ \A n \in Push : WF_vars(HookStep(n))
    /\ \A t \in Target : WF_vars(DeployStep(t))
    /\ \A i \in RunId : WF_vars(SendManual(i)) /\ WF_vars(Skip(i)) /\ SF_vars(Begin(i))

-----------------------------------------------------------------------------
\* A delivery that was answered without an error has triggered every environment that
\* had subscribed throughout, in whichever app, and beside whatever else was changed
\* (webhook.ts: one failed call in the middle must not pass for success).
Triggered(n, t) == \E i \in DOMAIN runs : runs[i].push = n /\ runs[i].target = t

PushReachesSubscribers ==
    \A n \in Push : pc[n] = "ok" => \A t \in steady[n] : Triggered(n, t)

\* What makes it inductive: who has not been triggered is still to be looked at.
HandlerFor(n) ==
    /\ n > Len(pushed) => pc[n] = "none"
    /\ pc[n] \in {"none", "sent", "failed"} => steady[n] = {}
    /\ pc[n] \notin {"create", "send"} => hook[n] = {}
    /\ pc[n] = "ok" => todo[n] = {}
    /\ pc[n] = "send" => \E i \in unsent : runs[i].push = n
    /\ \A t \in steady[n] : /\ Subscribed(t, pushed[n].ref)
                            /\ AppOf[t] \in todo[n] \/ t \in hook[n] \/ Triggered(n, t)

HandlerInv == \A n \in Push : HandlerFor(n)

\* Nothing that was cloned or deployed is newer than the ref it came from; and a clone
\* is not older than what it replaces of the same ref.
CommitsInv ==
    /\ \A r \in Ref : head[r] <= Len(pushed)
    /\ \A t \in Target :
        LET d == deployed[t]  w == work[t]  ref == runs[w.run].ref IN
        /\ d.commit <= Len(pushed)
        /\ d.ref \in Ref => head[d.ref] = 0 \/ d.commit <= head[d.ref]
        /\ w.run <= Len(runs)
        /\ w.commit # 0 =>
            /\ w.run # 0 /\ ref \in Ref /\ w.commit <= Len(pushed)
            /\ head[ref] = 0 \/ w.commit <= head[ref]
            /\ ref = d.ref => d.commit <= w.commit

TriggersInv == TypeOK /\ PushReachesSubscribers /\ HandlerInv /\ CommitsInv

\* Deferred runs are redelivered in any order.  The last push still wins: a target never
\* goes back to an older commit of the branch it runs, because a run clones what the
\* branch points at, not the commit its row names.
BranchNeverGoesBack ==
    [][\A t \in Target : (deployed[t].ref \in Branch /\ deployed'[t].ref = deployed[t].ref) =>
        deployed'[t].commit >= deployed[t].commit]_vars

\* A push that was answered for is deployed, or a later one is, or its run failed (a
\* clone of a deleted ref, a fault) or went with its app (the queue's deferrals).
PushesArrive ==
    \A n \in Push, t \in Target :
        (pc[n] = "ok" /\ t \in steady[n]) ~>
            \/ pc[n] # "ok" \/ t \notin steady[n]
            \/ \E i \in DOMAIN runs :
                /\ runs[i].push = n /\ runs[i].target = t
                /\ \/ runs[i].status = "succeeded" /\ runs[i].got >= n
                   \/ runs[i].status \in {"failed", "removed"}
=============================================================================
