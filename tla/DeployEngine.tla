---------------------------- MODULE DeployEngine ----------------------------
(***************************************************************************)
(* The deploy engine (core/src/deploy.ts, plan.ts) and the two ways the    *)
(* control plane's own base is deployed with it: the platform workflow     *)
(* (cli/src/templates/platform.yml, `vozka platform deploy`), one run at a *)
(* time, and a deploy of the control plane alone (scripts/bootstrap.ts     *)
(* from a laptop, or `vozka deploy` in a run's container), which the       *)
(* workflow's concurrency group knows nothing of.                          *)
(*                                                                         *)
(* What a deploy changes is Cloudflare's and propustka's state of the      *)
(* component.  Versions are ordered as commits are, and a version's        *)
(* migrations bring the schema at least to that version.                   *)
(***************************************************************************)
EXTENDS Integers, Sequences

CONSTANTS
    Propustka, Runner, Vozka,  \* the base, each with a worker of its own
    Config,       \* what each of them declares in its config
    MaxVersion,   \* bound: versions deployed
    MaxOther,     \* bound: deploys started beside the platform workflow
    Faults        \* bound: commands that fail, processes that are killed

Base == {Propustka, Runner, Vozka}
Key == "provisioning"  \* the secret vozka and propustka share

ASSUME EngineAssumption ==
    /\ Propustka # Runner /\ Runner # Vozka /\ Propustka # Vozka
    /\ MaxVersion \in Nat \ {0} /\ MaxOther \in Nat /\ Faults \in Nat
    /\ DOMAIN Config = Base
    /\ \A c \in Base :
        /\ Config[c].build \in BOOLEAN /\ Config[c].schema \in BOOLEAN
        /\ Config[c].dbs \in Seq(STRING) /\ Config[c].secrets \in Seq(STRING)
        /\ Config[c].adopts \subseteq {Config[Vozka].dbs[i] : i \in DOMAIN Config[Vozka].dbs}

Version == 1 .. MaxVersion
Names(s) == {s[i] : i \in DOMAIN s}
Secrets(c) == Names(Config[c].secrets)
Databases(c) == Names(Config[c].dbs)

Deployer == {"platform", "other"}

VARIABLES
    cloud,   \* per component: resources, schemas, worker, authz vocabulary, secrets
    job,     \* per deployer: the deploy() it runs
    chain,   \* the platform workflow: the stage it is at, 0 when none runs
    others, faults

vars == <<cloud, job, chain, others, faults>>

(***************************************************************************)
(* What the base's configs declare: whether there is something to build,   *)
(* the databases with migrations, those of the control plane that the      *)
(* worker binds without migrating them, an authz vocabulary to reconcile,  *)
(* and the secrets to put.                                                 *)
(***************************************************************************)
\* The workflow's own stage.
PropustkaConfig ==
    [build |-> TRUE, dbs |-> <<"DB">>, adopts |-> {}, schema |-> FALSE,
     secrets |-> <<"signing", "oidc", Key>>]

\* vozka-runner adopts the control plane's database, which the control plane migrates.
RunnerConfig ==
    [build |-> FALSE, dbs |-> <<>>, adopts |-> {"DB"}, schema |-> FALSE, secrets |-> <<>>]

\* The control plane; what it takes from GitHub and Cloudflare is one secret here.
VozkaConfig ==
    [build |-> TRUE, dbs |-> <<"DB">>, adopts |-> {}, schema |-> TRUE,
     secrets |-> <<"vault", "github", Key>>]

(***************************************************************************)
(* Plans.                                                                  *)
(***************************************************************************)
\* Mutant: the worker is deployed before its databases are migrated.
StepsDeployFirst == <<"build", "provision-resources", "deploy-worker", "migrate",
                      "reconcile-schema", "sync-secrets">>

\* buildPlan()'s order; the workflow's own steps for propustka are in the same.
Steps == <<"build", "provision-resources", "migrate", "deploy-worker",
           "reconcile-schema", "sync-secrets">>

\* The commands of a step of c's plan, one after the other: a database to migrate, a
\* secret to put, or the step's only one.  A step that does not apply has none; a
\* vocabulary is reconciled only where the environment says with which propustka.
Commands(c, url, step) ==
    IF step = "migrate" THEN Config[c].dbs
    ELSE IF step = "sync-secrets" THEN Config[c].secrets
    ELSE IF /\ step = "build" => Config[c].build
            /\ step = "reconcile-schema" => Config[c].schema /\ url
         THEN <<step>> ELSE <<>>

\* Mutant: the control plane before the runner it binds.
StagesVozkaFirst == <<Propustka, Vozka, Runner>>

\* platformComponents(), after the workflow's own first stage.
Stages == <<Propustka, Runner, Vozka>>

Cloud(c) == [resources : Version \cup {0}, schema : [Databases(c) -> Version \cup {0}],
             worker : Version \cup {0}, authz : Version \cup {0}, secrets : SUBSET Secrets(c)]

\* given, url: the secrets the environment had, and whether it had propustka's URL; at, ran:
\* the step, and how many of its commands have run.  alone: no other deploy of the component
\* has overlapped with this one or followed it.
Job(c) == [of : {c}, version : Version, dry : BOOLEAN, given : SUBSET Secrets(c), url : BOOLEAN,
           at : DOMAIN Steps, ran : Nat, alone : BOOLEAN,
           result : {"none", "running", "succeeded", "failed"}]

TypeOK ==
    /\ DOMAIN cloud = Base /\ \A c \in Base : cloud[c] \in Cloud(c)
    /\ DOMAIN job = Deployer
    /\ \A d \in Deployer :
        /\ job[d].of \in Base /\ job[d] \in Job(job[d].of)
        /\ job[d].ran \in 0 .. Len(Commands(job[d].of, job[d].url, Steps[job[d].at]))
    /\ chain \in 0 .. Len(Stages)
    /\ others \in 0 .. MaxOther /\ faults \in 0 .. Faults

Init ==
    /\ cloud = [c \in Base |-> [resources |-> 0, schema |-> [db \in Databases(c) |-> 0],
                                worker |-> 0, authz |-> 0, secrets |-> {}]]
    /\ job = [d \in Deployer |-> [of |-> Vozka, version |-> 1, dry |-> FALSE, given |-> {},
                                  url |-> FALSE, at |-> 1, ran |-> 0, alone |-> FALSE,
                                  result |-> "none"]]
    /\ chain = 0
    /\ others = 0 /\ faults = Faults

(***************************************************************************)
(* Starting deploy().  A missing credential or pipeline var ends it before *)
(* there is a plan; a missing secret does not.                             *)
(***************************************************************************)
Running(d) == job[d].result = "running"

\* The jobs once d has started one for c.
Started(d, c, v, dry, given, url) ==
    LET Beside(e) == e # d /\ job[e].of = c IN
    [e \in Deployer |->
        IF e = d THEN [of |-> c, version |-> v, dry |-> dry, given |-> given, url |-> url,
                       at |-> 1, ran |-> 0,
                       alone |-> \A o \in Deployer : Beside(o) /\ Running(o) => job[o].dry,
                       result |-> "running"]
        ELSE [job[e] EXCEPT !.alone = @ /\ ~(Beside(e) /\ ~dry)]]

\* The workflow passes propustka's URL to `platform deploy', not to its own first stage.
StartPlatform ==
    /\ chain = 0
    /\ \E v \in Version :
        job' = Started("platform", Stages[1], v, FALSE, Secrets(Stages[1]), FALSE)
    /\ chain' = 1
    /\ UNCHANGED <<cloud, others, faults>>

\* A stage that failed ends the workflow.
NextStage ==
    /\ chain > 0 /\ ~Running("platform")
    /\ IF job["platform"].result = "succeeded" /\ chain < Len(Stages)
       THEN /\ job' = Started("platform", Stages[chain + 1], job["platform"].version, FALSE,
                              Secrets(Stages[chain + 1]), TRUE)
            /\ chain' = chain + 1
       ELSE chain' = 0 /\ UNCHANGED job
    /\ UNCHANGED <<cloud, others, faults>>

\* Its environment may lack a secret, or propustka's URL.
StartOther ==
    /\ ~Running("other") /\ others < MaxOther
    /\ \E v \in Version, dry \in BOOLEAN, missing \in Secrets(Vozka) \cup {"url", "none"} :
        job' = Started("other", Vozka, v, dry, Secrets(Vozka) \ {missing}, missing # "url")
    /\ others' = others + 1
    /\ UNCHANGED <<cloud, chain, faults>>

(***************************************************************************)
(* The loop over the steps.                                                *)
(***************************************************************************)
StepOf(d) == Steps[job[d].at]
CommandsOf(d) == Commands(job[d].of, job[d].url, StepOf(d))
Command(d) == CommandsOf(d)[job[d].ran + 1]
Runs(d) == Running(d) /\ job[d].ran < Len(CommandsOf(d))

Max(a, b) == IF a > b THEN a ELSE b

\* What d's command leaves: in a dry run, nothing.
Effect(d) ==
    LET c == job[d].of  v == job[d].version  step == StepOf(d) IN
    IF job[d].dry \/ step = "build" THEN cloud
    ELSE IF step = "provision-resources" THEN [cloud EXCEPT ![c].resources = v]
    ELSE IF step = "migrate" THEN [cloud EXCEPT ![c].schema[Command(d)] = Max(@, v)]
    ELSE IF step = "deploy-worker" THEN [cloud EXCEPT ![c].worker = v]
    ELSE IF step = "reconcile-schema" THEN [cloud EXCEPT ![c].authz = v]
    ELSE [cloud EXCEPT ![c].secrets = @ \cup {Command(d)}]

\* vozka's worker binds vozka-runner's; propustka admits the key it was given; a secret
\* needs a value, in a dry run too.
Admitted(d) ==
    /\ StepOf(d) = "sync-secrets" => Command(d) \in job[d].given
    /\ StepOf(d) = "deploy-worker" /\ job[d].of = Vozka => job[d].dry \/ cloud[Runner].worker # 0
    /\ StepOf(d) = "reconcile-schema" =>
         \/ job[d].dry
         \/ /\ cloud[Propustka].worker # 0 /\ Key \in cloud[Propustka].secrets
            /\ Key \in job[d].given

\* Mutant: a secret without a value is passed over.
RunCommandOrSkip(d) ==
    /\ Runs(d) /\ (Admitted(d) \/ StepOf(d) = "sync-secrets")
    /\ cloud' = (IF Admitted(d) THEN Effect(d) ELSE cloud)
    /\ job' = [job EXCEPT ![d].ran = @ + 1]
    /\ UNCHANGED <<chain, others, faults>>

RunCommand(d) ==
    /\ Runs(d) /\ Admitted(d)
    /\ cloud' = Effect(d) /\ job' = [job EXCEPT ![d].ran = @ + 1]
    /\ UNCHANGED <<chain, others, faults>>

Failed(d) == job' = [job EXCEPT ![d].result = "failed"]

\* The rest is skipped; what was put before a secret without a value stays.
CommandRejected(d) ==
    /\ Runs(d) /\ ~Admitted(d)
    /\ Failed(d)
    /\ UNCHANGED <<cloud, chain, others, faults>>

\* A command exits with an error, or the process is killed: what the command was to
\* do is done or not.
CommandFails(d) ==
    /\ Runs(d) /\ faults > 0 /\ faults' = faults - 1
    /\ cloud' \in {cloud, Effect(d)}
    /\ Failed(d)
    /\ UNCHANGED <<chain, others>>

StepDone(d) ==
    /\ Running(d) /\ ~Runs(d)
    /\ job' = IF job[d].at = Len(Steps)
              THEN [job EXCEPT ![d].result = "succeeded"]
              ELSE [job EXCEPT ![d].at = job[d].at + 1, ![d].ran = 0]
    /\ UNCHANGED <<cloud, chain, others, faults>>

DeployStep(d) == RunCommand(d) \/ CommandRejected(d) \/ StepDone(d)

Next ==
    \/ StartPlatform \/ NextStage \/ StartOther
    \/ \E d \in Deployer : DeployStep(d) \/ CommandFails(d)

Spec == Init /\ [][Next]_vars

\* A deploy that was started goes on, and the workflow is run again until it succeeds.
Unfinished == \E c \in Base : cloud[c].worker = 0 \/ cloud[c].secrets # Secrets(c)
FairSpec ==
    /\ Spec
    /\ \A d \in Deployer : WF_vars(DeployStep(d))
    /\ WF_vars(NextStage) /\ WF_vars(StartPlatform /\ Unfinished)

(***************************************************************************)
(* Properties.                                                             *)
(***************************************************************************)
\* Every migration of a version comes before the worker that it is deployed with, wherever
\* deploys fail or are killed, and when a laptop's deploy of another version runs through
\* the workflow's.
SchemaBeforeWorker ==
    \A c \in Base : \A db \in Databases(c) : cloud[c].worker <= cloud[c].schema[db]

\* The control plane is only deployed by the workflow once the propustka and the
\* runner of the same version are up (`platform deploy` stops the chain).
StagesInOrder ==
    \A i \in 1 .. chain - 1 : Stages[i] # Vozka =>
        /\ cloud[Stages[i]].worker = job["platform"].version
        /\ cloud[Stages[i]].secrets = Secrets(Stages[i])

\* The first n commands of the k-th step of d have run, or it has no such step.
Ran(d, k, n) ==
    \/ job[d].result = "succeeded" \/ job[d].at > k
    \/ job[d].at = k /\ n <= job[d].ran

\* What d has run is there, whoever else deploys...
Lasting(d) ==
    LET c == job[d].of IN
    ~job[d].dry =>
        /\ \A n \in DOMAIN Config[c].dbs :
             Ran(d, 3, n) => cloud[c].schema[Config[c].dbs[n]] >= job[d].version
        /\ \A n \in DOMAIN Config[c].secrets :
             Ran(d, 6, n) => Config[c].secrets[n] \in cloud[c].secrets

\* The vocabulary is one of the things d deploys.
Reconciles(d) == Config[job[d].of].schema /\ job[d].url

\* ... and what a later deploy would replace, if there is none.
Replaceable(d) ==
    LET c == job[d].of IN
    job[d].alone /\ ~job[d].dry =>
        /\ Ran(d, 2, 1) => cloud[c].resources = job[d].version
        /\ Ran(d, 4, 1) => cloud[c].worker = job[d].version
        /\ Ran(d, 5, 1) /\ Reconciles(d) => cloud[c].authz = job[d].version

\* A worker that binds the control plane's database is deployed a stage before that one's
\* migrations, so that it may be ahead of the schema until they have run.  From then on it
\* is not, whoever deploys the control plane beside the workflow, until the workflow
\* starts over.
AdoptersFollow ==
    LET v == job["platform"].version  dbs == Config[Vozka].dbs IN
    job["platform"].of = Vozka =>
        \A c \in Base \ {Vozka} :
            /\ cloud[c].worker <= v
            /\ \A n \in DOMAIN dbs : dbs[n] \in Config[c].adopts /\ Ran("platform", 3, n) =>
                   cloud[c].worker <= cloud[Vozka].schema[dbs[n]]

\* What is called alone is: and the workflow's propustka and runner always are.
Separate ==
    /\ \A d, e \in Deployer :
        d # e /\ job[d].of = job[e].of /\ Running(e) /\ ~job[e].dry => ~job[d].alone
    /\ job["other"].of = Vozka /\ ~job["platform"].dry
    /\ chain > 0 => /\ job["platform"].of = Stages[chain]
                    /\ Stages[chain] # Vozka => job["platform"].alone

\* No worker is live on a schema of its own that is older than it was written for, nor, but
\* for a workflow under way or cut short, on an adopted one; and the control plane follows
\* what it stands on (buildPlan()'s order, the loop's stop at the first failure).
EngineInv ==
    /\ TypeOK /\ SchemaBeforeWorker /\ AdoptersFollow /\ StagesInOrder /\ Separate
    /\ \A d \in Deployer : Lasting(d) /\ Replaceable(d)

\* A deploy that says it succeeded has left its version, with its schemas, all of its secrets
\* and, if its environment named a propustka, its authz vocabulary, unless another deploy of
\* it overlapped or came later.
SucceededIsDeployed ==
    \A d \in Deployer :
        LET c == job[d].of  v == job[d].version IN
        job[d].result = "succeeded" /\ job[d].alone /\ ~job[d].dry =>
            /\ cloud[c].worker = v /\ cloud[c].resources = v
            /\ \A db \in Databases(c) : cloud[c].schema[db] >= v
            /\ Reconciles(d) => cloud[c].authz = v
            /\ cloud[c].secrets = Secrets(c)

\* From an empty account the workflow brings up the base, whatever fails and whatever
\* is deployed beside it (the order of the stages: each finds what it binds and whom it
\* calls; every step can be repeated).
BaseComesUp == <>[]~Unfinished
=============================================================================
