---------------------------- MODULE EngineProofs ----------------------------
(***************************************************************************)
(* What deploys guarantee for every base config, number of versions and of *)
(* deploys: DeployInv is inductive, and SucceededIsDeployed follows.       *)
(*                                                                         *)
(* The argument: schemas only rise and secrets only accumulate, so what a  *)
(* deploy has done of those lasts (Lasting), and the migrations precede    *)
(* the worker in Steps.  The rest a concurrent deploy may replace, which   *)
(* takes `alone` away (Separate, Replaceable).                             *)
(***************************************************************************)
EXTENDS DeployEngine, TLAPS

\* EngineInv but for the adopted databases, which follow from it.
DeployInv ==
    /\ TypeOK /\ SchemaBeforeWorker /\ StagesInOrder /\ Separate
    /\ \A d \in Deployer : Lasting(d) /\ Replaceable(d)

(* The literals and the parameters.                                         *)
LEMMA Constants ==
    /\ Propustka # Runner /\ Runner # Vozka /\ Propustka # Vozka
    /\ DOMAIN Steps = 1 .. 6 /\ Len(Steps) = 6
    /\ Steps[1] = "build" /\ Steps[2] = "provision-resources" /\ Steps[3] = "migrate"
    /\ Steps[4] = "deploy-worker" /\ Steps[5] = "reconcile-schema" /\ Steps[6] = "sync-secrets"
    /\ Len(Stages) = 3 /\ Stages[1] = Propustka /\ Stages[2] = Runner /\ Stages[3] = Vozka
    /\ Faults \in Nat /\ MaxOther \in Nat /\ MaxVersion \in Nat \ {0}
BY EngineAssumption DEF EngineAssumption, Steps, Stages

(* What a component's config declares.                                      *)
LEMMA Configs ==
    ASSUME NEW c \in Base
    PROVE  /\ Config[c].dbs \in Seq(STRING) /\ Config[c].secrets \in Seq(STRING)
           /\ DOMAIN Config[c].dbs = 1 .. Len(Config[c].dbs) /\ Len(Config[c].dbs) \in Nat
           /\ DOMAIN Config[c].secrets = 1 .. Len(Config[c].secrets) /\ Len(Config[c].secrets) \in Nat
           /\ \A n \in DOMAIN Config[c].dbs : Config[c].dbs[n] \in Databases(c)
           /\ \A n \in DOMAIN Config[c].secrets : Config[c].secrets[n] \in Secrets(c)
           /\ \A db \in Databases(c) : \E n \in DOMAIN Config[c].dbs : Config[c].dbs[n] = db
           /\ \A s \in Secrets(c) : \E n \in DOMAIN Config[c].secrets : Config[c].secrets[n] = s
           /\ Secrets(c) \subseteq STRING
BY EngineAssumption DEF EngineAssumption, Databases, Secrets, Names

(* How many commands a step has.                                            *)
LEMMA CommandCounts ==
    ASSUME NEW c \in Base, NEW url \in BOOLEAN
    PROVE  /\ Commands(c, url, "migrate") = Config[c].dbs
           /\ Commands(c, url, "sync-secrets") = Config[c].secrets
           /\ Len(Commands(c, url, "provision-resources")) = 1 /\ Len(Commands(c, url, "deploy-worker")) = 1
           /\ Len(Commands(c, url, "reconcile-schema")) = IF Config[c].schema /\ url THEN 1 ELSE 0
           /\ \A k \in 1 .. 6 : Len(Commands(c, url, Steps[k])) \in Nat
<1>1. /\ Commands(c, url, "migrate") = Config[c].dbs /\ Commands(c, url, "sync-secrets") = Config[c].secrets
      /\ Commands(c, url, "provision-resources") = <<"provision-resources">>
      /\ Commands(c, url, "deploy-worker") = <<"deploy-worker">>
      /\ Commands(c, url, "reconcile-schema") = IF Config[c].schema /\ url THEN <<"reconcile-schema">> ELSE <<>>
      /\ Commands(c, url, "build") = IF Config[c].build THEN <<"build">> ELSE <<>>
    BY DEF Commands
<1>2. /\ Len(Commands(c, url, "provision-resources")) = 1 /\ Len(Commands(c, url, "deploy-worker")) = 1
      /\ Len(Commands(c, url, "reconcile-schema")) = IF Config[c].schema /\ url THEN 1 ELSE 0
      /\ Len(Commands(c, url, "build")) \in Nat
    BY <1>1
<1>3. \A k \in 1 .. 6 : k = 1 \/ k = 2 \/ k = 3 \/ k = 4 \/ k = 5 \/ k = 6
    OBVIOUS
<1>4. ASSUME NEW k \in 1 .. 6 PROVE Len(Commands(c, url, Steps[k])) \in Nat
  <2>1. CASE k = 3 \/ k = 6
      BY <1>1, <2>1, Configs, Constants
  <2>2. CASE k = 1 \/ k = 2 \/ k = 4 \/ k = 5
      BY <1>2, <2>2, Constants
  <2> QED BY <1>3, <2>1, <2>2
<1> QED BY <1>1, <1>2, <1>4

(* The step a job is at, and the command it runs next.                      *)
LEMMA JobFacts ==
    ASSUME TypeOK, NEW d \in Deployer
    PROVE  /\ job[d].of \in Base /\ job[d].version \in Version /\ job[d].dry \in BOOLEAN
           /\ job[d].url \in BOOLEAN
           /\ job[d].at \in 1 .. 6 /\ job[d].ran \in Nat /\ job[d].alone \in BOOLEAN
           /\ job[d].ran <= Len(CommandsOf(d)) /\ Len(CommandsOf(d)) \in Nat
           /\ job[d].given \subseteq Secrets(job[d].of)
           /\ DOMAIN job = Deployer /\ DOMAIN cloud = Base
           /\ StepOf(d) = Steps[job[d].at]
<1>1. job[d].of \in Base /\ job[d] \in Job(job[d].of) /\ DOMAIN job = Deployer /\ DOMAIN cloud = Base
      /\ job[d].ran \in 0 .. Len(Commands(job[d].of, job[d].url, Steps[job[d].at]))
    BY DEF TypeOK
<1>2. job[d].at \in 1 .. 6
    BY <1>1, Constants DEF Job
<1>3. Len(CommandsOf(d)) \in Nat
  <2>1. job[d].url \in BOOLEAN
      BY <1>1 DEF Job
  <2> QED BY <1>1, <1>2, <2>1, CommandCounts DEF CommandsOf, StepOf
<1> QED BY <1>1, <1>2, <1>3 DEF Job, CommandsOf, StepOf

LEMMA CommandFacts ==
    ASSUME TypeOK, NEW d \in Deployer, Runs(d)
    PROVE  /\ job[d].ran + 1 \in 1 .. Len(CommandsOf(d))
           /\ job[d].at = 3 => /\ job[d].ran + 1 \in DOMAIN Config[job[d].of].dbs
                               /\ Command(d) = Config[job[d].of].dbs[job[d].ran + 1]
                               /\ Command(d) \in Databases(job[d].of)
           /\ job[d].at = 6 => /\ job[d].ran + 1 \in DOMAIN Config[job[d].of].secrets
                               /\ Command(d) = Config[job[d].of].secrets[job[d].ran + 1]
                               /\ Command(d) \in Secrets(job[d].of)
<1>1. job[d].ran + 1 \in 1 .. Len(CommandsOf(d))
    BY JobFacts DEF Runs
<1>2. CASE job[d].at = 3
  <2>0. StepOf(d) = "migrate" /\ job[d].of \in Base
      BY <1>2, JobFacts, Constants
  <2>1. CommandsOf(d) = Config[job[d].of].dbs
      BY <2>0, JobFacts, CommandCounts DEF CommandsOf
  <2> QED BY <1>1, <1>2, <2>1, JobFacts, Configs DEF Command
<1>3. CASE job[d].at = 6
  <2>0. StepOf(d) = "sync-secrets" /\ job[d].of \in Base
      BY <1>3, JobFacts, Constants
  <2>1. CommandsOf(d) = Config[job[d].of].secrets
      BY <2>0, JobFacts, CommandCounts DEF CommandsOf
  <2> QED BY <1>1, <1>3, <2>1, JobFacts, Configs DEF Command
<1> QED BY <1>1, <1>2, <1>3

(* What a command leaves, attribute by attribute.                           *)
LEMMA Effects ==
    ASSUME TypeOK, NEW d \in Deployer, Runs(d)
    PROVE  LET c == job[d].of  v == job[d].version  E == Effect(d) IN
           /\ DOMAIN E = Base /\ \A b \in Base : E[b] \in Cloud(b)
           /\ \A b \in Base \ {c} : E[b] = cloud[b]
           /\ job[d].dry => E = cloud
           /\ \A db \in Databases(c) : cloud[c].schema[db] <= E[c].schema[db]
           /\ job[d].at = 3 /\ ~job[d].dry => E[c].schema[Command(d)] >= v
           /\ cloud[c].secrets \subseteq E[c].secrets
           /\ job[d].at = 6 /\ ~job[d].dry => Command(d) \in E[c].secrets
           /\ E[c].resources = IF job[d].at = 2 /\ ~job[d].dry THEN v ELSE cloud[c].resources
           /\ E[c].worker = IF job[d].at = 4 /\ ~job[d].dry THEN v ELSE cloud[c].worker
           /\ E[c].authz = IF job[d].at = 5 /\ ~job[d].dry THEN v ELSE cloud[c].authz
<1> DEFINE c == job[d].of
           v == job[d].version
           E == Effect(d)
<1>0. /\ c \in Base /\ v \in Version /\ DOMAIN cloud = Base /\ StepOf(d) = Steps[job[d].at]
      /\ job[d].at \in 1 .. 6 /\ \A b \in Base : cloud[b] \in Cloud(b)
    BY JobFacts DEF TypeOK
<1>1. /\ cloud[c].schema \in [Databases(c) -> Version \cup {0}] /\ cloud[c].secrets \subseteq Secrets(c)
      /\ cloud[c].worker \in Version \cup {0} /\ cloud[c].authz \in Version \cup {0}
      /\ cloud[c].resources \in Version \cup {0}
    BY <1>0 DEF Cloud
<1>2. Version \subseteq Nat
    BY Constants DEF Version
<1>3. CASE job[d].dry \/ job[d].at = 1
  <2>1. E = cloud
      BY <1>0, <1>3, Constants DEF Effect
  <2> QED BY <1>0, <1>1, <1>2, <1>3, <2>1
<1>4. CASE ~job[d].dry /\ job[d].at = 2
  <2>1. E = [cloud EXCEPT ![c].resources = v]
      BY <1>0, <1>4, Constants DEF Effect
  <2>2. E[c] = [cloud[c] EXCEPT !.resources = v] /\ DOMAIN E = Base /\ \A b \in Base \ {c} : E[b] = cloud[b]
      BY <1>0, <2>1
  <2> QED BY <1>0, <1>1, <1>2, <1>4, <2>2 DEF Cloud
<1>5. CASE ~job[d].dry /\ job[d].at = 4
  <2>1. E = [cloud EXCEPT ![c].worker = v]
      BY <1>0, <1>5, Constants DEF Effect
  <2>2. E[c] = [cloud[c] EXCEPT !.worker = v] /\ DOMAIN E = Base /\ \A b \in Base \ {c} : E[b] = cloud[b]
      BY <1>0, <2>1
  <2> QED BY <1>0, <1>1, <1>2, <1>5, <2>2 DEF Cloud
<1>6. CASE ~job[d].dry /\ job[d].at = 5
  <2>1. E = [cloud EXCEPT ![c].authz = v]
      BY <1>0, <1>6, Constants DEF Effect
  <2>2. E[c] = [cloud[c] EXCEPT !.authz = v] /\ DOMAIN E = Base /\ \A b \in Base \ {c} : E[b] = cloud[b]
      BY <1>0, <2>1
  <2> QED BY <1>0, <1>1, <1>2, <1>6, <2>2 DEF Cloud
<1>7. CASE ~job[d].dry /\ job[d].at = 3
  <2>0. Command(d) \in Databases(c)
      BY <1>7, CommandFacts
  <2> DEFINE m == Max(cloud[c].schema[Command(d)], v)
             S == [cloud[c].schema EXCEPT ![Command(d)] = m]
  <2>1. E = [cloud EXCEPT ![c].schema[Command(d)] = Max(@, v)]
      BY <1>0, <1>7, Constants DEF Effect
  <2>2. E[c] = [cloud[c] EXCEPT !.schema = S] /\ DOMAIN E = Base /\ \A b \in Base \ {c} : E[b] = cloud[b]
      BY <1>0, <2>1
  <2>3. m \in Version /\ m >= v /\ m >= cloud[c].schema[Command(d)]
      BY <1>0, <1>1, <1>2, <2>0, Constants DEF Max, Version
  <2>4. S \in [Databases(c) -> Version \cup {0}] /\ S[Command(d)] = m
      BY <1>1, <2>0, <2>3
  <2>5. \A db \in Databases(c) : cloud[c].schema[db] <= S[db]
    <3> HIDE DEF m
    <3>1. \A db \in Databases(c) : S[db] = IF db = Command(d) THEN m ELSE cloud[c].schema[db]
        BY <1>1, <2>0
    <3>2. \A db \in Databases(c) : cloud[c].schema[db] \in Nat
      <4>1. Version \cup {0} \subseteq Nat
          BY <1>2
      <4>2. \A db \in Databases(c) : cloud[c].schema[db] \in Version \cup {0}
          BY <1>1
      <4> HIDE DEF c
      <4> QED BY <4>1, <4>2
    <3> QED BY <2>3, <3>1, <3>2
  <2> HIDE DEF m, S
  <2> QED BY <1>0, <1>1, <1>2, <1>7, <2>2, <2>3, <2>4, <2>5 DEF Cloud
<1>8. CASE ~job[d].dry /\ job[d].at = 6
  <2>0. Command(d) \in Secrets(c)
      BY <1>8, CommandFacts
  <2>1. E = [cloud EXCEPT ![c].secrets = @ \cup {Command(d)}]
      BY <1>0, <1>8, Constants DEF Effect
  <2>2. E[c] = [cloud[c] EXCEPT !.secrets = @ \cup {Command(d)}] /\ DOMAIN E = Base
        /\ \A b \in Base \ {c} : E[b] = cloud[b]
      BY <1>0, <2>1
  <2> QED BY <1>0, <1>1, <1>2, <1>8, <2>0, <2>2 DEF Cloud
<1>9. job[d].at \in {1, 2, 3, 4, 5, 6}
    BY <1>0
<1> QED BY <1>3, <1>4, <1>5, <1>6, <1>7, <1>8, <1>9

-----------------------------------------------------------------------------
(* Jobs that start, and jobs that go on.                                    *)
LEMMA StartedIs ==
    ASSUME TypeOK, NEW d \in Deployer, NEW c \in Base, NEW v \in Version, NEW dry \in BOOLEAN,
           NEW given \in SUBSET Secrets(c), NEW url \in BOOLEAN, job' = Started(d, c, v, dry, given, url)
    PROVE  /\ DOMAIN job' = Deployer
           /\ job'[d] \in Job(c) /\ job'[d].of = c /\ job'[d].version = v /\ job'[d].dry = dry
           /\ job'[d].at = 1 /\ job'[d].ran = 0 /\ job'[d].result = "running" /\ job'[d].url = url
           /\ job'[d].alone <=> \A e \in Deployer : e # d /\ job[e].of = c /\ Running(e) => job[e].dry
           /\ \A e \in Deployer \ {d} :
                /\ job'[e] \in Job(job[e].of) /\ job'[e].of = job[e].of
                /\ job'[e].version = job[e].version /\ job'[e].dry = job[e].dry /\ job'[e].url = job[e].url
                /\ job'[e].at = job[e].at /\ job'[e].ran = job[e].ran /\ job'[e].result = job[e].result
                /\ job'[e].alone <=> job[e].alone /\ ~(job[e].of = c /\ ~dry)
<1>1. \A e \in Deployer : job[e] \in Job(job[e].of)
    BY DEF TypeOK
<1>2. DOMAIN job' = Deployer
    BY DEF Started
<1>3. job'[d] = [of |-> c, version |-> v, dry |-> dry, given |-> given, url |-> url, at |-> 1, ran |-> 0,
                 alone |-> \A o \in Deployer : o # d /\ job[o].of = c /\ Running(o) => job[o].dry,
                 result |-> "running"]
    BY DEF Started
<1>4. \A e \in Deployer \ {d} : job'[e] = [job[e] EXCEPT !.alone = @ /\ ~(e # d /\ job[e].of = c /\ ~dry)]
    BY DEF Started
<1>5. job'[d] \in Job(c)
  <2>1. 1 \in DOMAIN Steps
      BY Constants
  <2>2. (\A o \in Deployer : o # d /\ job[o].of = c /\ Running(o) => job[o].dry) \in BOOLEAN
      OBVIOUS
  <2> QED BY <1>3, <2>1, <2>2 DEF Job
<1>6. ASSUME NEW e \in Deployer \ {d}
      PROVE  /\ job'[e] \in Job(job[e].of) /\ job'[e].of = job[e].of
             /\ job'[e].version = job[e].version /\ job'[e].dry = job[e].dry /\ job'[e].url = job[e].url
             /\ job'[e].at = job[e].at /\ job'[e].ran = job[e].ran /\ job'[e].result = job[e].result
             /\ job'[e].alone <=> job[e].alone /\ ~(job[e].of = c /\ ~dry)
  <2> DEFINE alone == job[e].alone /\ ~(job[e].of = c /\ ~dry)
  <2>1. job'[e] = [job[e] EXCEPT !.alone = alone]
      BY <1>4
  <2>2. job[e] \in Job(job[e].of) /\ alone \in BOOLEAN
      BY <1>1
  <2> HIDE DEF alone
  <2>3. /\ job'[e] \in Job(job[e].of) /\ job'[e].of = job[e].of
        /\ job'[e].version = job[e].version /\ job'[e].dry = job[e].dry /\ job'[e].url = job[e].url
        /\ job'[e].at = job[e].at /\ job'[e].ran = job[e].ran /\ job'[e].result = job[e].result
        /\ job'[e].alone = alone
      BY <2>1, <2>2 DEF Job
  <2> QED BY <2>3 DEF alone
<1>7. /\ job'[d].of = c /\ job'[d].version = v /\ job'[d].dry = dry
      /\ job'[d].at = 1 /\ job'[d].ran = 0 /\ job'[d].result = "running" /\ job'[d].url = url
      /\ job'[d].alone <=> \A e \in Deployer : e # d /\ job[e].of = c /\ Running(e) => job[e].dry
    BY <1>3
<1> QED BY <1>2, <1>5, <1>6, <1>7

LEMMA RunIs ==
    ASSUME TypeOK, NEW d \in Deployer, RunCommand(d)
    PROVE  /\ job[d].result = "running"
           /\ DOMAIN job' = Deployer /\ \A e \in Deployer \ {d} : job'[e] = job[e]
           /\ job'[d] \in Job(job[d].of) /\ job'[d].of = job[d].of /\ job'[d].version = job[d].version
           /\ job'[d].dry = job[d].dry /\ job'[d].url = job[d].url /\ job'[d].alone = job[d].alone
           /\ job'[d].at = job[d].at /\ job'[d].ran = job[d].ran + 1 /\ job'[d].result = "running"
<1>1. job[d] \in Job(job[d].of) /\ DOMAIN job = Deployer /\ job[d].at \in 1 .. 6 /\ job[d].ran \in Nat
    BY JobFacts DEF TypeOK
<1>2. job' = [job EXCEPT ![d].ran = @ + 1] /\ job[d].result = "running"
    BY Constants DEF RunCommand, Runs, Running
<1>3. job'[d] = [job[d] EXCEPT !.ran = @ + 1] /\ DOMAIN job' = Deployer /\ \A e \in Deployer \ {d} : job'[e] = job[e]
    BY <1>1, <1>2
<1> QED BY <1>1, <1>2, <1>3, Constants DEF Job

LEMMA FailIs ==
    ASSUME TypeOK, NEW d \in Deployer, CommandRejected(d) \/ CommandFails(d)
    PROVE  /\ job[d].result = "running"
           /\ DOMAIN job' = Deployer /\ \A e \in Deployer \ {d} : job'[e] = job[e]
           /\ job'[d] \in Job(job[d].of) /\ job'[d].of = job[d].of /\ job'[d].version = job[d].version
           /\ job'[d].dry = job[d].dry /\ job'[d].url = job[d].url /\ job'[d].alone = job[d].alone
           /\ job'[d].at = job[d].at /\ job'[d].ran = job[d].ran /\ job'[d].result = "failed"
<1>1. job[d] \in Job(job[d].of) /\ DOMAIN job = Deployer /\ job[d].at \in 1 .. 6 /\ job[d].ran \in Nat
    BY JobFacts DEF TypeOK
<1>2. job' = [job EXCEPT ![d].result = "failed"] /\ job[d].result = "running"
    BY Constants DEF CommandRejected, CommandFails, Failed, Runs, Running
<1>3. job'[d] = [job[d] EXCEPT !.result = "failed"] /\ DOMAIN job' = Deployer /\ \A e \in Deployer \ {d} : job'[e] = job[e]
    BY <1>1, <1>2
<1> QED BY <1>1, <1>2, <1>3, Constants DEF Job

LEMMA NextStepIs ==
    ASSUME TypeOK, NEW d \in Deployer, StepDone(d), job[d].at # 6
    PROVE  /\ job[d].result = "running"
           /\ DOMAIN job' = Deployer /\ \A e \in Deployer \ {d} : job'[e] = job[e]
           /\ job'[d] \in Job(job[d].of) /\ job'[d].of = job[d].of /\ job'[d].version = job[d].version
           /\ job'[d].dry = job[d].dry /\ job'[d].url = job[d].url /\ job'[d].alone = job[d].alone
           /\ job'[d].at = job[d].at + 1 /\ job'[d].ran = 0 /\ job'[d].result = "running"
<1>1. job[d] \in Job(job[d].of) /\ DOMAIN job = Deployer /\ job[d].at \in 1 .. 6 /\ job[d].ran \in Nat
    BY JobFacts DEF TypeOK
<1>2. job' = [job EXCEPT ![d].at = job[d].at + 1, ![d].ran = 0] /\ job[d].result = "running"
    BY Constants DEF StepDone, Running
<1>3. job'[d] = [job[d] EXCEPT !.at = job[d].at + 1, !.ran = 0] /\ DOMAIN job' = Deployer /\ \A e \in Deployer \ {d} : job'[e] = job[e]
    BY <1>1, <1>2
<1>4. job[d].at + 1 \in DOMAIN Steps
    BY <1>1, Constants
<1> QED BY <1>1, <1>2, <1>3, <1>4 DEF Job

LEMMA LastStepIs ==
    ASSUME TypeOK, NEW d \in Deployer, StepDone(d), job[d].at = 6
    PROVE  /\ job[d].result = "running"
           /\ DOMAIN job' = Deployer /\ \A e \in Deployer \ {d} : job'[e] = job[e]
           /\ job'[d] \in Job(job[d].of) /\ job'[d].of = job[d].of /\ job'[d].version = job[d].version
           /\ job'[d].dry = job[d].dry /\ job'[d].url = job[d].url /\ job'[d].alone = job[d].alone
           /\ job'[d].at = job[d].at /\ job'[d].ran = job[d].ran /\ job'[d].result = "succeeded"
<1>1. job[d] \in Job(job[d].of) /\ DOMAIN job = Deployer /\ job[d].at \in 1 .. 6 /\ job[d].ran \in Nat
    BY JobFacts DEF TypeOK
<1>2. job' = [job EXCEPT ![d].result = "succeeded"] /\ job[d].result = "running"
    BY Constants DEF StepDone, Running
<1>3. job'[d] = [job[d] EXCEPT !.result = "succeeded"] /\ DOMAIN job' = Deployer /\ \A e \in Deployer \ {d} : job'[e] = job[e]
    BY <1>1, <1>2
<1> QED BY <1>1, <1>2, <1>3, Constants DEF Job


-----------------------------------------------------------------------------
(* A command that runs, or that is cut off, changes the cloud in one place. *)
LEMMA Touch ==
    ASSUME DeployInv, NEW d \in Deployer, Runs(d), cloud' \in {cloud, Effect(d)}
    PROVE  /\ DOMAIN cloud' = Base /\ \A b \in Base : cloud'[b] \in Cloud(b)
           /\ SchemaBeforeWorker'
           /\ \A e \in Deployer \ {d} : job'[e] = job[e] => Lasting(e)' /\ Replaceable(e)'
<1> DEFINE c == job[d].of
           E == Effect(d)
<1> USE DEF DeployInv
<1>1. /\ DOMAIN cloud' = Base /\ \A b \in Base : cloud'[b] \in Cloud(b)
      /\ \A b \in Base \ {c} : cloud'[b] = cloud[b]
      /\ job[d].dry => cloud' = cloud
      /\ \A db \in Databases(c) : cloud[c].schema[db] <= cloud'[c].schema[db]
      /\ cloud[c].secrets \subseteq cloud'[c].secrets
      /\ cloud'[c].worker = cloud[c].worker
           \/ (job[d].at = 4 /\ ~job[d].dry /\ cloud'[c].worker = job[d].version)
  <2>1. DOMAIN cloud = Base /\ \A b \in Base : cloud[b] \in Cloud(b)
      BY DEF TypeOK
  <2>2. \A db \in Databases(c) : cloud[c].schema[db] <= cloud[c].schema[db]
    <3>1. c \in Base
        BY JobFacts
    <3>2. \A db \in Databases(c) : cloud[c].schema[db] \in Version \cup {0}
        BY <2>1, <3>1 DEF Cloud
    <3> QED BY <3>2, Constants DEF Version
  <2>3. CASE cloud' = cloud
      BY <2>1, <2>2, <2>3
  <2>4. CASE cloud' = E
    <3> HIDE DEF E
    <3> QED BY <2>4, Effects DEF E
  <2> QED BY <2>3, <2>4
<1>2. c \in Base /\ job[d].version \in Version /\ job[d].at \in 1 .. 6 /\ job[d].dry \in BOOLEAN
    BY JobFacts
<1>3. \A b \in Base : \A db \in Databases(b) :
         cloud[b].schema[db] \in Nat /\ cloud'[b].schema[db] \in Nat /\ cloud[b].worker \in Nat
  <2>1. \A b \in Base : cloud[b] \in Cloud(b)
      BY DEF TypeOK
  <2>2. Version \cup {0} \subseteq Nat
      BY Constants DEF Version
  <2> QED BY <1>1, <2>1, <2>2 DEF Cloud
<1>4. SchemaBeforeWorker'
  <2> SUFFICES ASSUME NEW b \in Base, NEW db \in Databases(b)
               PROVE  cloud'[b].worker <= cloud'[b].schema[db]
      BY DEF SchemaBeforeWorker
  <2>0. cloud[b].worker <= cloud[b].schema[db]
      BY DEF SchemaBeforeWorker
  <2>1. CASE b # c
      BY <1>1, <2>0, <2>1
  <2>2. CASE b = c /\ cloud'[c].worker = cloud[c].worker
      BY <1>1, <1>3, <2>0, <2>2
  <2>3. CASE b = c /\ job[d].at = 4 /\ ~job[d].dry /\ cloud'[c].worker = job[d].version
    <3>1. PICK n \in DOMAIN Config[c].dbs : Config[c].dbs[n] = db
        BY <1>2, <2>3, Configs
    <3>2. cloud[c].schema[db] >= job[d].version
        BY <2>3, <3>1 DEF Lasting, Ran
    <3>3. job[d].version \in Nat
        BY <1>2, Constants DEF Version
    <3> QED BY <1>1, <1>3, <2>3, <3>2, <3>3
  <2> QED BY <1>1, <2>1, <2>2, <2>3
<1>5. ASSUME NEW e \in Deployer \ {d}, job'[e] = job[e] PROVE Lasting(e)' /\ Replaceable(e)'
  <2> DEFINE b == job[e].of
  <2>0. b \in Base /\ job[e].version \in Nat /\ Lasting(e) /\ Replaceable(e)
      BY JobFacts, Constants DEF Version
  <2>1. CASE cloud'[b] = cloud[b]
      BY <1>5, <2>0, <2>1 DEF Lasting, Replaceable, Reconciles, Ran
  <2>2. CASE b = c /\ ~job[d].dry
    <3>1. ~job[e].alone
        BY <2>2 DEF Separate, Runs
    <3>2. Replaceable(e)'
        BY <1>5, <3>1 DEF Replaceable
    <3>3. Lasting(e)'
      <4> SUFFICES ASSUME ~job[e].dry
                   PROVE  /\ \A n \in DOMAIN Config[b].dbs :
                               Ran(e, 3, n) => cloud'[b].schema[Config[b].dbs[n]] >= job[e].version
                          /\ \A n \in DOMAIN Config[b].secrets :
                               Ran(e, 6, n) => Config[b].secrets[n] \in cloud'[b].secrets
          BY <1>5 DEF Lasting, Ran
      <4>1. \A n \in DOMAIN Config[b].dbs : Config[b].dbs[n] \in Databases(b)
          BY <2>0, Configs
      <4>2. \A n \in DOMAIN Config[b].dbs :
               Ran(e, 3, n) => cloud[b].schema[Config[b].dbs[n]] >= job[e].version
          BY <2>0 DEF Lasting
      <4>3. \A n \in DOMAIN Config[b].secrets : Ran(e, 6, n) => Config[b].secrets[n] \in cloud[b].secrets
          BY <2>0 DEF Lasting
      <4>4. \A db \in Databases(b) : /\ cloud[b].schema[db] <= cloud'[b].schema[db]
                                     /\ cloud[b].schema[db] \in Nat /\ cloud'[b].schema[db] \in Nat
          BY <1>1, <1>3, <2>0, <2>2
      <4>5. cloud[b].secrets \subseteq cloud'[b].secrets
          BY <1>1, <2>2
      <4> HIDE DEF b
      <4> QED BY <2>0, <4>1, <4>2, <4>3, <4>4, <4>5
    <3> QED BY <3>2, <3>3
  <2> QED BY <1>1, <2>0, <2>1, <2>2
<1> QED BY <1>1, <1>4, <1>5

(* What the workflow's earlier stages have deployed is not touched either.  *)
LEMMA StagesKept ==
    ASSUME DeployInv, NEW d \in Deployer, Runs(d), cloud' \in {cloud, Effect(d)}, chain' = chain,
           job'["platform"].version = job["platform"].version
    PROVE  StagesInOrder'
<1> USE DEF DeployInv
<1> SUFFICES ASSUME NEW i \in 1 .. chain - 1, Stages[i] # Vozka
             PROVE  cloud'[Stages[i]] = cloud[Stages[i]]
    BY DEF StagesInOrder
<1>1. chain \in 0 .. 3
    BY Constants DEF TypeOK
<1>2. Stages[i] \in Base /\ i \in 1 .. 3 /\ i < chain
    BY <1>1, Constants DEF Base
<1>3. job[d].of # Stages[i]
  <2>1. CASE d = "other"
      BY <2>1 DEF Separate
  <2>2. CASE d = "platform"
    <3>1. job[d].of = Stages[chain] /\ chain \in 1 .. 3
        BY <1>1, <1>2, <2>2 DEF Separate
    <3> QED BY <1>2, <3>1, Constants
  <2> QED BY <2>1, <2>2 DEF Deployer
<1>4. CASE cloud' = Effect(d)
    BY <1>2, <1>3, <1>4, Effects
<1> QED BY <1>4

(* A job that goes on stays typed, and as separate from the others as it was.*)
LEMMA StaysTyped ==
    ASSUME TypeOK, NEW d \in Deployer, UNCHANGED <<chain, others>>, faults' \in 0 .. Faults,
           DOMAIN cloud' = Base, \A b \in Base : cloud'[b] \in Cloud(b),
           DOMAIN job' = Deployer, \A e \in Deployer \ {d} : job'[e] = job[e],
           job'[d] \in Job(job[d].of), job'[d].of = job[d].of, job'[d].url = job[d].url,
           job'[d].ran \in 0 .. Len(Commands(job[d].of, job[d].url, Steps[job'[d].at]))
    PROVE  TypeOK'
BY DEF TypeOK

LEMMA StaysSeparate ==
    ASSUME TypeOK, Separate, NEW d \in Deployer, chain' = chain, job[d].result = "running",
           \A e \in Deployer \ {d} : job'[e] = job[e],
           job'[d].of = job[d].of, job'[d].dry = job[d].dry, job'[d].alone = job[d].alone
    PROVE  Separate'
<1>1. \A e \in Deployer : /\ job'[e].of = job[e].of /\ job'[e].dry = job[e].dry
                          /\ job'[e].alone = job[e].alone /\ (Running(e)' => Running(e))
    BY DEF Running
<1>2. \A e, f \in Deployer :
         e # f /\ job'[e].of = job'[f].of /\ Running(f)' /\ ~job'[f].dry => ~job'[e].alone
    BY <1>1 DEF Separate
<1>3. {"platform", "other"} \subseteq Deployer
    BY DEF Deployer
<1> QED BY <1>1, <1>2, <1>3 DEF Separate

(* The steps of a running job keep the invariant.                           *)
LEMMA RunKeeps == ASSUME DeployInv, NEW d \in Deployer, RunCommand(d) PROVE DeployInv'
<1> DEFINE c == job[d].of
           v == job[d].version
<1> USE DEF DeployInv
<1>1. Runs(d) /\ cloud' = Effect(d) /\ UNCHANGED <<chain, others, faults>>
    BY DEF RunCommand
<1>2. /\ c \in Base /\ v \in Version /\ job[d].at \in 1 .. 6 /\ job[d].ran \in Nat
      /\ Len(CommandsOf(d)) \in Nat /\ job[d].ran < Len(CommandsOf(d)) /\ job[d].dry \in BOOLEAN
    BY <1>1, JobFacts DEF Runs
<1>3. TypeOK'
  <2>1. job'[d].ran \in 0 .. Len(Commands(c, job[d].url, Steps[job'[d].at]))
      BY <1>2, RunIs DEF CommandsOf, StepOf
  <2>2. faults' \in 0 .. Faults
      BY <1>1 DEF TypeOK
  <2> QED BY <1>1, <2>1, <2>2, RunIs, Touch, StaysTyped
<1>4. Separate'
    BY <1>1, RunIs, StaysSeparate
<1>5. StagesInOrder'
  <2>1. job'["platform"].version = job["platform"].version
      BY RunIs DEF Deployer
  <2> QED BY <1>1, <2>1, StagesKept
<1>6. /\ DOMAIN cloud' = Base
      /\ \A db \in Databases(c) : cloud[c].schema[db] <= cloud'[c].schema[db]
      /\ job[d].at = 3 /\ ~job[d].dry => cloud'[c].schema[Command(d)] >= v
      /\ cloud[c].secrets \subseteq cloud'[c].secrets
      /\ job[d].at = 6 /\ ~job[d].dry => Command(d) \in cloud'[c].secrets
      /\ cloud'[c].resources = IF job[d].at = 2 /\ ~job[d].dry THEN v ELSE cloud[c].resources
      /\ cloud'[c].worker = IF job[d].at = 4 /\ ~job[d].dry THEN v ELSE cloud[c].worker
      /\ cloud'[c].authz = IF job[d].at = 5 /\ ~job[d].dry THEN v ELSE cloud[c].authz
    BY <1>1, Effects
<1>7. \A k \in 1 .. 6 : \A n \in Nat :
         Ran(d, k, n)' => Ran(d, k, n) \/ (k = job[d].at /\ n = job[d].ran + 1)
    BY <1>2, RunIs DEF Ran
<1>8. Replaceable(d)'
  <2>1. \A k \in 1 .. 6 : Ran(d, k, 1)' => Ran(d, k, 1) \/ k = job[d].at
      BY <1>7
  <2>2. Replaceable(d)
      OBVIOUS
  <2> QED BY <1>2, <1>6, <2>1, <2>2, RunIs DEF Replaceable, Reconciles
<1>9. Lasting(d)'
  <2> SUFFICES ASSUME ~job[d].dry
               PROVE  /\ \A n \in DOMAIN Config[c].dbs :
                           Ran(d, 3, n)' => cloud'[c].schema[Config[c].dbs[n]] >= v
                      /\ \A n \in DOMAIN Config[c].secrets :
                           Ran(d, 6, n)' => Config[c].secrets[n] \in cloud'[c].secrets
      BY RunIs DEF Lasting
  <2>1. ASSUME NEW n \in DOMAIN Config[c].dbs, Ran(d, 3, n)'
        PROVE  cloud'[c].schema[Config[c].dbs[n]] >= v
    <3>1. n \in Nat /\ Config[c].dbs[n] \in Databases(c)
        BY <1>2, Configs
    <3>2. CASE Ran(d, 3, n)
      <4>1. cloud[c].schema[Config[c].dbs[n]] >= v
          BY <3>2 DEF Lasting
      <4>2. /\ cloud[c].schema[Config[c].dbs[n]] \in Nat /\ cloud'[c].schema[Config[c].dbs[n]] \in Nat
            /\ v \in Nat
        <5>1. Version \cup {0} \subseteq Nat
            BY Constants DEF Version
        <5>2. cloud[c] \in Cloud(c) /\ cloud'[c] \in Cloud(c)
            BY <1>2, <1>3 DEF TypeOK
        <5>3. \A db \in Databases(c) : cloud[c].schema[db] \in Nat /\ cloud'[c].schema[db] \in Nat
            BY <5>1, <5>2 DEF Cloud
        <5>4. v \in Nat
            BY <1>2, <5>1
        <5> QED BY <3>1, <5>3, <5>4
      <4>3. cloud[c].schema[Config[c].dbs[n]] <= cloud'[c].schema[Config[c].dbs[n]]
          BY <1>6, <3>1
      <4> HIDE DEF c, v
      <4> QED BY <4>1, <4>2, <4>3
    <3>3. CASE job[d].at = 3 /\ n = job[d].ran + 1
      <4>1. Command(d) = Config[c].dbs[n]
          BY <1>1, <3>3, CommandFacts
      <4> QED BY <1>6, <3>3, <4>1
    <3>4. Ran(d, 3, n) \/ (job[d].at = 3 /\ n = job[d].ran + 1)
        BY <1>7, <2>1, <3>1
    <3> QED BY <3>2, <3>3, <3>4
  <2>2. ASSUME NEW n \in DOMAIN Config[c].secrets, Ran(d, 6, n)'
        PROVE  Config[c].secrets[n] \in cloud'[c].secrets
    <3>1. n \in Nat
        BY <1>2, Configs
    <3>2. CASE Ran(d, 6, n)
        BY <1>6, <3>2 DEF Lasting
    <3>3. CASE job[d].at = 6 /\ n = job[d].ran + 1
      <4>1. Command(d) = Config[c].secrets[n]
          BY <1>1, <3>3, CommandFacts
      <4> QED BY <1>6, <3>3, <4>1
    <3>4. Ran(d, 6, n) \/ (job[d].at = 6 /\ n = job[d].ran + 1)
        BY <1>7, <2>2, <3>1
    <3> QED BY <3>2, <3>3, <3>4
  <2> QED BY <2>1, <2>2
<1>10. SchemaBeforeWorker' /\ \A e \in Deployer \ {d} : Lasting(e)' /\ Replaceable(e)'
    BY <1>1, RunIs, Touch
<1> QED BY <1>3, <1>4, <1>5, <1>8, <1>9, <1>10

LEMMA FailKeeps == ASSUME DeployInv, NEW d \in Deployer, CommandRejected(d) \/ CommandFails(d) PROVE DeployInv'
<1> USE DEF DeployInv
<1>1. Runs(d) /\ cloud' \in {cloud, Effect(d)} /\ UNCHANGED <<chain, others>> /\ faults' \in 0 .. Faults
    BY Constants DEF CommandRejected, CommandFails, TypeOK
<1>2. TypeOK'
  <2>1. job'[d].ran \in 0 .. Len(Commands(job[d].of, job[d].url, Steps[job'[d].at]))
      BY FailIs DEF TypeOK
  <2> QED BY <1>1, <2>1, FailIs, Touch, StaysTyped
<1>3. Separate'
    BY <1>1, FailIs, StaysSeparate
<1>4. StagesInOrder'
  <2>1. job'["platform"].version = job["platform"].version
      BY FailIs DEF Deployer
  <2> QED BY <1>1, <2>1, StagesKept
<1>5. SchemaBeforeWorker' /\ \A e \in Deployer \ {d} : Lasting(e)' /\ Replaceable(e)'
    BY <1>1, FailIs, Touch
<1>6. Lasting(d)' /\ Replaceable(d)'
  <2>1. \A k, n : Ran(d, k, n)' => Ran(d, k, n)
      BY FailIs DEF Ran
  <2> DEFINE c == job[d].of
  <2>2. /\ c \in Base /\ Lasting(d) /\ Replaceable(d)
        /\ job[d].at \in 1 .. 6 /\ job[d].ran \in Nat /\ job[d].version \in Version
      BY JobFacts
  <2>3. CASE cloud' = cloud
      BY <2>1, <2>2, <2>3, FailIs DEF Lasting, Replaceable, Reconciles
  <2>4. CASE cloud' = Effect(d)
    <3>1. /\ \A db \in Databases(c) : cloud[c].schema[db] <= cloud'[c].schema[db]
          /\ cloud[c].secrets \subseteq cloud'[c].secrets
          /\ cloud'[c].resources \in {cloud[c].resources, job[d].version}
          /\ cloud'[c].worker \in {cloud[c].worker, job[d].version}
          /\ cloud'[c].authz \in {cloud[c].authz, job[d].version}
        BY <1>1, <2>4, Effects
    <3>2. Replaceable(d)'
        BY <2>1, <2>2, <3>1, FailIs DEF Replaceable, Reconciles
    <3>3. Lasting(d)'
      <4> SUFFICES ASSUME ~job[d].dry
                   PROVE  /\ \A n \in DOMAIN Config[c].dbs :
                               Ran(d, 3, n) => cloud'[c].schema[Config[c].dbs[n]] >= job[d].version
                          /\ \A n \in DOMAIN Config[c].secrets :
                               Ran(d, 6, n) => Config[c].secrets[n] \in cloud'[c].secrets
          BY <2>1, FailIs DEF Lasting
      <4>1. \A n \in DOMAIN Config[c].dbs : Config[c].dbs[n] \in Databases(c)
          BY <2>2, Configs
      <4>2. \A db \in Databases(c) : cloud[c].schema[db] \in Nat /\ cloud'[c].schema[db] \in Nat
        <5>1. Version \cup {0} \subseteq Nat
            BY Constants DEF Version
        <5>2. cloud[c] \in Cloud(c) /\ cloud'[c] \in Cloud(c)
            BY <1>2, <2>2 DEF TypeOK
        <5> QED BY <5>1, <5>2 DEF Cloud
      <4>3. job[d].version \in Nat
          BY <2>2, Constants DEF Version
      <4>4. \A n \in DOMAIN Config[c].dbs :
               Ran(d, 3, n) => cloud[c].schema[Config[c].dbs[n]] >= job[d].version
          BY <2>2 DEF Lasting
      <4>5. \A n \in DOMAIN Config[c].secrets : Ran(d, 6, n) => Config[c].secrets[n] \in cloud[c].secrets
          BY <2>2 DEF Lasting
      <4> HIDE DEF c
      <4> QED BY <3>1, <4>1, <4>2, <4>3, <4>4, <4>5
    <3> QED BY <3>2, <3>3
  <2> QED BY <1>1, <2>3, <2>4
<1> QED BY <1>2, <1>3, <1>4, <1>5, <1>6

(* A step whose commands have all run is done: the next one has run none.   *)
LEMMA DoneKeeps == ASSUME DeployInv, NEW d \in Deployer, StepDone(d) PROVE DeployInv'
<1> DEFINE c == job[d].of
<1> USE DEF DeployInv
<1>1. ~Runs(d) /\ Running(d) /\ UNCHANGED <<cloud, chain, others, faults>>
    BY DEF StepDone
<1>2. /\ c \in Base /\ job[d].version \in Version /\ job[d].at \in 1 .. 6 /\ job[d].dry \in BOOLEAN
      /\ job[d].ran = Len(CommandsOf(d)) /\ Len(CommandsOf(d)) \in Nat /\ job[d].url \in BOOLEAN
      /\ CommandsOf(d) = Commands(c, job[d].url, Steps[job[d].at])
    BY <1>1, JobFacts DEF Runs, CommandsOf
<1>3. /\ job[d].result = "running" /\ DOMAIN job' = Deployer
      /\ \A e \in Deployer \ {d} : job'[e] = job[e]
      /\ job'[d] \in Job(c) /\ job'[d].of = c /\ job'[d].version = job[d].version
      /\ job'[d].dry = job[d].dry /\ job'[d].url = job[d].url /\ job'[d].alone = job[d].alone
      /\ \/ /\ job[d].at # 6 /\ job'[d].at = job[d].at + 1 /\ job'[d].ran = 0
            /\ job'[d].result = "running"
         \/ /\ job[d].at = 6 /\ job'[d].at = 6 /\ job'[d].ran = job[d].ran
            /\ job'[d].result = "succeeded"
  <2>1. CASE job[d].at # 6
      BY <2>1, NextStepIs
  <2>2. CASE job[d].at = 6
      BY <2>2, LastStepIs
  <2> QED BY <2>1, <2>2
<1>4. TypeOK'
  <2>1. job'[d].ran \in 0 .. Len(Commands(c, job[d].url, Steps[job'[d].at]))
    <3>1. CASE job[d].at # 6
      <4>1. job'[d].ran = 0 /\ job'[d].at \in 1 .. 6
          BY <1>2, <1>3, <3>1
      <4>2. Len(Commands(c, job[d].url, Steps[job'[d].at])) \in Nat
          BY <1>2, <4>1, CommandCounts
      <4> QED BY <4>1, <4>2
    <3>2. CASE job[d].at = 6
        BY <1>2, <1>3, <3>2
    <3> QED BY <3>1, <3>2
  <2>2. DOMAIN cloud' = Base /\ (\A b \in Base : cloud'[b] \in Cloud(b)) /\ faults' \in 0 .. Faults
      BY <1>1 DEF TypeOK
  <2> QED BY <1>1, <1>3, <2>1, <2>2, StaysTyped
<1>5. Separate'
    BY <1>1, <1>3, StaysSeparate
<1>6. StagesInOrder' /\ SchemaBeforeWorker'
  <2>1. job'["platform"].version = job["platform"].version
      BY <1>3 DEF Deployer
  <2> QED BY <1>1, <2>1 DEF StagesInOrder, SchemaBeforeWorker
<1>7. ASSUME NEW e \in Deployer \ {d} PROVE Lasting(e)' /\ Replaceable(e)'
  <2>1. Lasting(e) /\ Replaceable(e)
      OBVIOUS
  <2>2. job'[e] = job[e] /\ cloud' = cloud
      BY <1>1, <1>3
  <2> HIDE DEF DeployInv
  <2>3. \A k, n : Ran(e, k, n)' <=> Ran(e, k, n)
      BY <2>2 DEF Ran
  <2>4. Lasting(e)'
      BY <2>1, <2>2, <2>3 DEF Lasting
  <2>5. Replaceable(e)'
      BY <2>1, <2>2, <2>3 DEF Replaceable, Reconciles
  <2> QED BY <2>4, <2>5
<1>8. \A k \in 1 .. 6 : \A n \in Nat :
         Ran(d, k, n)' => Ran(d, k, n) \/ k = job[d].at \/ n = 0
    BY <1>2, <1>3 DEF Ran
<1>9. \A k \in 1 .. 6 : \A n \in Nat :
         Ran(d, k, n)' /\ n \in 1 .. Len(Commands(c, job[d].url, Steps[k])) => Ran(d, k, n)
  <2> SUFFICES ASSUME NEW k \in 1 .. 6, NEW n \in Nat, Ran(d, k, n)', n \in 1 .. Len(Commands(c, job[d].url, Steps[k]))
               PROVE  Ran(d, k, n)
      OBVIOUS
  <2>1. CASE k = job[d].at
      BY <1>2, <2>1 DEF Ran
  <2>2. n # 0
      BY <1>2, CommandCounts
  <2> QED BY <1>8, <2>1, <2>2
<1>10. Lasting(d)'
  <2>3. Lasting(d)
      OBVIOUS
  <2> HIDE DEF DeployInv, c
  <2>4. /\ Commands(c, job[d].url, Steps[3]) = Config[c].dbs /\ Commands(c, job[d].url, Steps[6]) = Config[c].secrets
        /\ DOMAIN Config[c].dbs = 1 .. Len(Config[c].dbs)
        /\ DOMAIN Config[c].secrets = 1 .. Len(Config[c].secrets)
    <3>1. /\ Commands(c, job[d].url, "migrate") = Config[c].dbs
          /\ Commands(c, job[d].url, "sync-secrets") = Config[c].secrets
        BY <1>2, CommandCounts
    <3>2. Steps[3] = "migrate" /\ Steps[6] = "sync-secrets"
        BY Constants
    <3>3. /\ DOMAIN Config[c].dbs = 1 .. Len(Config[c].dbs)
          /\ DOMAIN Config[c].secrets = 1 .. Len(Config[c].secrets)
        BY <1>2, Configs
    <3> QED BY <3>1, <3>2, <3>3
  <2>1. \A n \in DOMAIN Config[c].dbs : Ran(d, 3, n)' => Ran(d, 3, n)
      BY <1>9, <2>4
  <2>2. \A n \in DOMAIN Config[c].secrets : Ran(d, 6, n)' => Ran(d, 6, n)
      BY <1>9, <2>4
  <2>5. /\ cloud' = cloud /\ job[d].of = c /\ job'[d].of = c
        /\ job'[d].version = job[d].version /\ job'[d].dry = job[d].dry
      BY <1>1, <1>3 DEF c
  <2> QED BY <2>1, <2>2, <2>3, <2>5 DEF Lasting
<1>11. Replaceable(d)'
  <2>0. /\ Len(Commands(c, job[d].url, Steps[2])) = 1 /\ Len(Commands(c, job[d].url, Steps[4])) = 1
        /\ Reconciles(d) => Len(Commands(c, job[d].url, Steps[5])) = 1
      BY <1>2, CommandCounts, Constants DEF Reconciles
  <2>4. \A k \in 1 .. 6 : Len(Commands(c, job[d].url, Steps[k])) = 1 /\ Ran(d, k, 1)' => Ran(d, k, 1)
    <3> SUFFICES ASSUME NEW k \in 1 .. 6, Len(Commands(c, job[d].url, Steps[k])) = 1, Ran(d, k, 1)'
                 PROVE  Ran(d, k, 1)
        OBVIOUS
    <3>1. 1 \in 1 .. Len(Commands(c, job[d].url, Steps[k])) /\ 1 \in Nat
        OBVIOUS
    <3> QED BY <1>9, <3>1
  <2>5. 2 \in 1 .. 6 /\ 4 \in 1 .. 6 /\ 5 \in 1 .. 6
      OBVIOUS
  <2>1. (Ran(d, 2, 1)' => Ran(d, 2, 1)) /\ (Ran(d, 4, 1)' => Ran(d, 4, 1))
      BY <2>0, <2>4, <2>5
  <2>2. Reconciles(d) => (Ran(d, 5, 1)' => Ran(d, 5, 1))
      BY <2>0, <2>4, <2>5
  <2>3. Replaceable(d)
      OBVIOUS
  <2> QED BY <1>1, <1>3, <2>1, <2>2, <2>3 DEF Replaceable, Reconciles
<1> QED BY <1>4, <1>5, <1>6, <1>7, <1>10, <1>11

-----------------------------------------------------------------------------
(* A deploy that starts has done nothing yet, and ends the others' being    *)
(* alone if it is of the same component.                                    *)
LEMMA StartedKeeps ==
    ASSUME DeployInv, NEW d \in Deployer, NEW c \in Base, NEW v \in Version, NEW dry \in BOOLEAN,
           NEW given \in SUBSET Secrets(c), NEW url \in BOOLEAN, job' = Started(d, c, v, dry, given, url),
           UNCHANGED <<cloud, faults>>, chain' \in 0 .. 3, others' \in 0 .. MaxOther
    PROVE  /\ TypeOK' /\ SchemaBeforeWorker' /\ \A e \in Deployer : Lasting(e)' /\ Replaceable(e)'
           /\ \A e, f \in Deployer :
                e # f /\ job'[e].of = job'[f].of /\ Running(f)' /\ ~job'[f].dry => ~job'[e].alone
<1> USE DEF DeployInv
<1>1. /\ DOMAIN job' = Deployer
      /\ job'[d] \in Job(c) /\ job'[d].of = c /\ job'[d].version = v /\ job'[d].dry = dry
      /\ job'[d].at = 1 /\ job'[d].ran = 0 /\ job'[d].result = "running" /\ job'[d].url = url
      /\ job'[d].alone <=> \A e \in Deployer : e # d /\ job[e].of = c /\ Running(e) => job[e].dry
      /\ \A e \in Deployer \ {d} :
           /\ job'[e] \in Job(job[e].of) /\ job'[e].of = job[e].of
           /\ job'[e].version = job[e].version /\ job'[e].dry = job[e].dry /\ job'[e].url = job[e].url
           /\ job'[e].at = job[e].at /\ job'[e].ran = job[e].ran /\ job'[e].result = job[e].result
           /\ job'[e].alone <=> job[e].alone /\ ~(job[e].of = c /\ ~dry)
    BY StartedIs
<1>2. TypeOK'
  <2>1. Len(Commands(c, url, Steps[1])) \in Nat
      BY CommandCounts
  <2>2. \A e \in Deployer : /\ job'[e].of \in Base /\ job'[e] \in Job(job'[e].of)
                            /\ job'[e].ran \in 0 .. Len(Commands(job'[e].of, job'[e].url, Steps[job'[e].at]))
    <3>1. \A e \in Deployer \ {d} : /\ job[e].of \in Base
                                    /\ job[e].ran \in 0 .. Len(Commands(job[e].of, job[e].url, Steps[job[e].at]))
        BY DEF TypeOK
    <3> QED BY <1>1, <2>1, <3>1
  <2>3. DOMAIN cloud' = Base /\ (\A b \in Base : cloud'[b] \in Cloud(b)) /\ faults' \in 0 .. Faults
      BY DEF TypeOK
  <2> QED BY <1>1, <2>2, <2>3, Constants DEF TypeOK
<1>3. SchemaBeforeWorker'
    BY DEF SchemaBeforeWorker
<1>4. Lasting(d)' /\ Replaceable(d)'
  <2>1. \A k \in 2 .. 6 : \A n \in Nat : ~Ran(d, k, n)'
      BY <1>1 DEF Ran
  <2>2. (\A n \in DOMAIN Config[c].dbs : n \in Nat) /\ (\A n \in DOMAIN Config[c].secrets : n \in Nat)
      BY Configs
  <2>3. job'[d].of = c
      BY <1>1
  <2> HIDE DEF DeployInv
  <2>4. Lasting(d)'
      BY <2>1, <2>2, <2>3 DEF Lasting
  <2>5. Replaceable(d)'
      BY <2>1, <2>3 DEF Replaceable
  <2> QED BY <2>4, <2>5
<1>5. ASSUME NEW e \in Deployer \ {d} PROVE Lasting(e)' /\ Replaceable(e)'
  <2>1. \A k, n : Ran(e, k, n)' <=> Ran(e, k, n)
      BY <1>1 DEF Ran
  <2>2. Lasting(e) /\ Replaceable(e)
      OBVIOUS
  <2>3. /\ job'[e].of = job[e].of /\ job'[e].version = job[e].version /\ job'[e].dry = job[e].dry
        /\ job'[e].url = job[e].url /\ (job'[e].alone => job[e].alone) /\ cloud' = cloud
      BY <1>1
  <2> HIDE DEF DeployInv
  <2>4. Lasting(e)'
      BY <2>1, <2>2, <2>3 DEF Lasting
  <2>5. Replaceable(e)'
      BY <2>1, <2>2, <2>3 DEF Replaceable, Reconciles
  <2> QED BY <2>4, <2>5
<1>6. ASSUME NEW e \in Deployer, NEW f \in Deployer, e # f, job'[e].of = job'[f].of, Running(f)', ~job'[f].dry
      PROVE  ~job'[e].alone
  <2>1. CASE f = d
      BY <1>1, <1>6, <2>1
  <2>2. CASE f # d
    <3>1. Running(f) /\ ~job[f].dry /\ job'[f].of = job[f].of
        BY <1>1, <1>6, <2>2 DEF Running
    <3>2. CASE e = d
        BY <1>1, <1>6, <2>2, <3>1, <3>2
    <3>3. CASE e # d
        BY <1>1, <1>6, <3>1, <3>3 DEF Separate
    <3> QED BY <3>2, <3>3
  <2> QED BY <2>1, <2>2
<1> QED BY <1>2, <1>3, <1>4, <1>5, <1>6

LEMMA PlatformStarts == ASSUME DeployInv, StartPlatform PROVE DeployInv'
<1> USE DEF DeployInv
<1>1. PICK v \in Version : job' = Started("platform", Propustka, v, FALSE, Secrets(Propustka), FALSE)
    BY Constants DEF StartPlatform
<1>2. chain = 0 /\ chain' = 1 /\ UNCHANGED <<cloud, others, faults>> /\ others' \in 0 .. MaxOther
    BY DEF StartPlatform, TypeOK
<1>3. Propustka \in Base /\ "platform" \in Deployer /\ "other" \in Deployer
    BY DEF Base, Deployer
<1>4. job["other"].of = Vozka /\ Vozka # Propustka
    BY Constants DEF Separate
<1>5. /\ TypeOK' /\ SchemaBeforeWorker' /\ \A e \in Deployer : Lasting(e)' /\ Replaceable(e)'
      /\ \A e, f \in Deployer :
           e # f /\ job'[e].of = job'[f].of /\ Running(f)' /\ ~job'[f].dry => ~job'[e].alone
  <2>1. FALSE \in BOOLEAN /\ Secrets(Propustka) \in SUBSET Secrets(Propustka) /\ chain' \in 0 .. 3
      BY <1>2
  <2> QED BY <1>1, <1>2, <1>3, <2>1, StartedKeeps
<1>6. /\ job'["platform"].of = Propustka /\ job'["platform"].dry = FALSE /\ job'["other"].of = Vozka
      /\ job'["platform"].alone
  <2>1. /\ job'["platform"].of = Propustka /\ job'["platform"].dry = FALSE
        /\ job'["platform"].alone <=>
             \A e \in Deployer : e # "platform" /\ job[e].of = Propustka /\ Running(e) => job[e].dry
        /\ \A e \in Deployer \ {"platform"} : job'[e].of = job[e].of
    <3> DEFINE dry == FALSE
               url == FALSE
               given == Secrets(Propustka)
    <3>1. dry \in BOOLEAN /\ url \in BOOLEAN /\ given \in SUBSET Secrets(Propustka)
        OBVIOUS
    <3>2. job' = Started("platform", Propustka, v, dry, given, url)
        BY <1>1
    <3>3. dry = FALSE
        OBVIOUS
    <3> HIDE DEF dry, given, url
    <3> QED BY <1>3, <3>1, <3>2, <3>3, StartedIs
  <2> QED BY <1>4, <2>1 DEF Deployer
<1>7. Separate'
    BY <1>2, <1>5, <1>6, Constants DEF Separate
<1>8. StagesInOrder'
    BY <1>2 DEF StagesInOrder
<1> QED BY <1>5, <1>7, <1>8

LEMMA StageStarts == ASSUME DeployInv, NextStage PROVE DeployInv'
<1> DEFINE p == job["platform"]
<1> USE DEF DeployInv
<1>1. chain \in 1 .. 3 /\ UNCHANGED <<cloud, others, faults>> /\ others' \in 0 .. MaxOther
    BY Constants DEF NextStage, TypeOK
<1>2. /\ "platform" \in Deployer /\ "other" \in Deployer
      /\ p.version \in Version /\ p.of = Stages[chain] /\ p.dry = FALSE
      /\ Stages[chain] # Vozka => p.alone
      /\ job["other"].of = Vozka
  <2>1. "platform" \in Deployer /\ "other" \in Deployer
      BY DEF Deployer
  <2> QED BY <1>1, <2>1, JobFacts DEF Separate
<1>3. CASE p.result = "succeeded" /\ chain < 3
  <2> DEFINE c == Stages[chain + 1]
  <2>1. c \in Base /\ (c # Vozka => c = Runner) /\ chain + 1 \in 1 .. 3 /\ chain' = chain + 1
      BY <1>1, <1>3, Constants DEF Base, NextStage
  <2>2. job' = Started("platform", c, p.version, FALSE, Secrets(c), TRUE)
      BY <1>1, <1>3, Constants DEF NextStage
  <2> HIDE DEF c
  <2>3. /\ TypeOK' /\ SchemaBeforeWorker' /\ \A e \in Deployer : Lasting(e)' /\ Replaceable(e)'
        /\ \A e, f \in Deployer :
             e # f /\ job'[e].of = job'[f].of /\ Running(f)' /\ ~job'[f].dry => ~job'[e].alone
    <3>1. FALSE \in BOOLEAN /\ Secrets(c) \in SUBSET Secrets(c) /\ chain' \in 0 .. 3
        BY <2>1
    <3> QED BY <1>1, <1>2, <2>1, <2>2, <3>1, StartedKeeps
  <2>4. /\ job'["platform"].of = c /\ job'["platform"].dry = FALSE /\ job'["other"].of = Vozka
        /\ job'["platform"].version = p.version
        /\ c # Vozka => job'["platform"].alone
    <3>1. /\ job'["platform"].of = c /\ job'["platform"].dry = FALSE
          /\ job'["platform"].version = p.version
          /\ job'["platform"].alone <=>
               \A e \in Deployer : e # "platform" /\ job[e].of = c /\ Running(e) => job[e].dry
          /\ \A e \in Deployer \ {"platform"} : job'[e].of = job[e].of
      <4> DEFINE dry == FALSE
                 url == TRUE
                 given == Secrets(c)
                 v == p.version
      <4>1. dry \in BOOLEAN /\ url \in BOOLEAN /\ given \in SUBSET Secrets(c) /\ v \in Version
          BY <1>2
      <4>2. job' = Started("platform", c, v, dry, given, url)
          BY <2>2
      <4>3. dry = FALSE
          OBVIOUS
      <4> HIDE DEF dry, given, url, v
      <4>4. /\ job'["platform"].of = c /\ job'["platform"].dry = FALSE
            /\ job'["platform"].version = v
            /\ job'["platform"].alone <=>
                 \A e \in Deployer : e # "platform" /\ job[e].of = c /\ Running(e) => job[e].dry
            /\ \A e \in Deployer \ {"platform"} : job'[e].of = job[e].of
          BY <1>2, <2>1, <4>1, <4>2, <4>3, StartedIs
      <4> QED BY <4>4 DEF v
    <3> QED BY <1>2, <3>1 DEF Deployer
  <2>5. Separate'
      BY <1>2, <2>1, <2>3, <2>4 DEF Separate, c
  <2>6. Stages[chain] # Vozka =>
           cloud[Stages[chain]].worker = p.version /\ cloud[Stages[chain]].secrets = Secrets(Stages[chain])
    <3> SUFFICES ASSUME Stages[chain] # Vozka
                 PROVE  cloud[p.of].worker = p.version /\ cloud[p.of].secrets = Secrets(p.of)
        BY <1>2
    <3>1. \A k, n : Ran("platform", k, n)
        BY <1>3 DEF Ran
    <3>2. cloud[p.of].worker = p.version
        BY <1>2, <3>1 DEF Replaceable
    <3>3. p.of \in Base /\ cloud[p.of].secrets \subseteq Secrets(p.of)
      <4>1. p.of \in Base /\ cloud[p.of] \in Cloud(p.of)
          BY <1>2, JobFacts DEF TypeOK
      <4> QED BY <4>1 DEF Cloud
    <3>4. \A n \in DOMAIN Config[p.of].secrets : Config[p.of].secrets[n] \in cloud[p.of].secrets
        BY <1>2, <3>1 DEF Lasting
    <3>5. Secrets(p.of) \subseteq cloud[p.of].secrets
        BY <3>3, <3>4, Configs
    <3> QED BY <3>2, <3>3, <3>5
  <2>7. StagesInOrder'
    <3> SUFFICES ASSUME NEW i \in 1 .. chain, Stages[i] # Vozka
                 PROVE  cloud[Stages[i]].worker = p.version /\ cloud[Stages[i]].secrets = Secrets(Stages[i])
        BY <1>1, <2>1, <2>4 DEF StagesInOrder
    <3>1. CASE i = chain
        BY <2>6, <3>1
    <3>2. CASE i # chain
        BY <1>1, <3>2 DEF StagesInOrder
    <3> QED BY <3>1, <3>2
  <2> QED BY <2>3, <2>5, <2>7
<1>4. CASE ~(p.result = "succeeded" /\ chain < 3)
  <2>1. chain' = 0 /\ job' = job
      BY <1>4, Constants DEF NextStage
  <2>2. TypeOK'
      BY <1>1, <2>1 DEF TypeOK
  <2>3. SchemaBeforeWorker' /\ StagesInOrder'
      BY <1>1, <2>1 DEF SchemaBeforeWorker, StagesInOrder
  <2>4. Separate'
      BY <1>1, <2>1 DEF Separate, Running
  <2>5. \A d \in Deployer : Lasting(d)' /\ Replaceable(d)'
      BY <1>1, <2>1 DEF Lasting, Replaceable, Reconciles, Ran
  <2> QED BY <2>2, <2>3, <2>4, <2>5
<1> QED BY <1>3, <1>4

LEMMA OtherStarts == ASSUME DeployInv, StartOther PROVE DeployInv'
<1> USE DEF DeployInv
<1>1. PICK v \in Version, dry \in BOOLEAN, missing \in Secrets(Vozka) \cup {"url", "none"} :
         job' = Started("other", Vozka, v, dry, Secrets(Vozka) \ {missing}, missing # "url")
    BY DEF StartOther
<1>2. UNCHANGED <<cloud, chain, faults>> /\ chain' \in 0 .. 3 /\ others' \in 0 .. MaxOther
    BY Constants DEF StartOther, TypeOK
<1>3. Vozka \in Base /\ "other" \in Deployer /\ "platform" \in Deployer
      /\ Secrets(Vozka) \ {missing} \in SUBSET Secrets(Vozka)
    BY DEF Base, Deployer
<1>4. /\ TypeOK' /\ SchemaBeforeWorker' /\ \A e \in Deployer : Lasting(e)' /\ Replaceable(e)'
      /\ \A e, f \in Deployer :
           e # f /\ job'[e].of = job'[f].of /\ Running(f)' /\ ~job'[f].dry => ~job'[e].alone
    BY <1>1, <1>2, <1>3, StartedKeeps
<1>5. /\ job'["other"].of = Vozka
      /\ job'["platform"].of = job["platform"].of /\ job'["platform"].dry = job["platform"].dry
      /\ job'["platform"].version = job["platform"].version
      /\ job["platform"].of # Vozka => (job'["platform"].alone <=> job["platform"].alone)
  <2>1. /\ job'["other"].of = Vozka
        /\ \A e \in Deployer \ {"other"} :
             /\ job'[e].of = job[e].of /\ job'[e].version = job[e].version /\ job'[e].dry = job[e].dry
             /\ job'[e].alone <=> job[e].alone /\ ~(job[e].of = Vozka /\ ~dry)
    <3>1. \E url \in BOOLEAN : url = (missing # "url")
        OBVIOUS
    <3>2. PICK given \in SUBSET Secrets(Vozka), url \in BOOLEAN :
             job' = Started("other", Vozka, v, dry, given, url)
        BY <1>1, <1>3, <3>1
    <3>3. TypeOK
        OBVIOUS
    <3>4. /\ job'["other"].of = Vozka
          /\ \A e \in Deployer \ {"other"} :
               /\ job'[e] \in Job(job[e].of) /\ job'[e].of = job[e].of
               /\ job'[e].version = job[e].version /\ job'[e].dry = job[e].dry /\ job'[e].url = job[e].url
               /\ job'[e].at = job[e].at /\ job'[e].ran = job[e].ran /\ job'[e].result = job[e].result
               /\ job'[e].alone <=> job[e].alone /\ ~(job[e].of = Vozka /\ ~dry)
      <4> DEFINE d == "other"
                 c == Vozka
      <4>1. d \in Deployer /\ c \in Base
          BY <1>3
      <4>2. given \in SUBSET Secrets(c) /\ job' = Started(d, c, v, dry, given, url)
          BY <3>2
      <4> HIDE DEF DeployInv, d, c
      <4>3. /\ job'[d].of = c
            /\ \A e \in Deployer \ {d} :
                 /\ job'[e] \in Job(job[e].of) /\ job'[e].of = job[e].of
                 /\ job'[e].version = job[e].version /\ job'[e].dry = job[e].dry /\ job'[e].url = job[e].url
                 /\ job'[e].at = job[e].at /\ job'[e].ran = job[e].ran /\ job'[e].result = job[e].result
                 /\ job'[e].alone <=> job[e].alone /\ ~(job[e].of = c /\ ~dry)
          BY <3>3, <4>1, <4>2, StartedIs, SMTT(30)
      <4> QED BY <4>3 DEF c, d
    <3> QED BY <3>4
  <2>2. "platform" \in Deployer \ {"other"}
      BY <1>3
  <2> QED BY <2>1, <2>2
<1>6. Separate'
    BY <1>2, <1>4, <1>5 DEF Separate
<1>7. StagesInOrder'
    BY <1>2, <1>5 DEF StagesInOrder
<1> QED BY <1>4, <1>6, <1>7

-----------------------------------------------------------------------------
(* DeployInv is inductive.                                                  *)
LEMMA DeployInit == Init => DeployInv
<1> SUFFICES ASSUME Init PROVE DeployInv
    OBVIOUS
<1>1. /\ DOMAIN job = Deployer /\ DOMAIN cloud = Base /\ chain = 0 /\ others = 0 /\ faults = Faults
      /\ \A d \in Deployer : job[d] = [of |-> Vozka, version |-> 1, dry |-> FALSE, given |-> {},
                                     url |-> FALSE, at |-> 1, ran |-> 0, alone |-> FALSE, result |-> "none"]
      /\ \A c \in Base : cloud[c] = [resources |-> 0, schema |-> [db \in Databases(c) |-> 0],
                                     worker |-> 0, authz |-> 0, secrets |-> {}]
    BY DEF Init
<1>2. TypeOK
  <2>1. \A c \in Base : cloud[c] \in Cloud(c)
      BY <1>1 DEF Cloud
  <2>2. \A d \in Deployer : /\ job[d].of \in Base /\ job[d] \in Job(job[d].of)
                            /\ job[d].ran \in 0 .. Len(Commands(job[d].of, job[d].url, Steps[job[d].at]))
    <3>1. Vozka \in Base /\ 1 \in Version /\ 1 \in DOMAIN Steps
        BY Constants DEF Base, Version
    <3>2. Len(Commands(Vozka, FALSE, Steps[1])) \in Nat
      <4>1. ASSUME NEW url \in BOOLEAN PROVE Len(Commands(Vozka, url, Steps[1])) \in Nat
          BY <3>1, CommandCounts
      <4> QED BY <4>1
    <3> SUFFICES ASSUME NEW d \in Deployer
                 PROVE  /\ job[d].of \in Base /\ job[d] \in Job(job[d].of)
                        /\ job[d].ran \in 0 .. Len(Commands(job[d].of, job[d].url, Steps[job[d].at]))
        OBVIOUS
    <3>3. job[d].of = Vozka /\ job[d].url = FALSE /\ job[d].at = 1 /\ job[d].ran = 0
        BY <1>1
    <3>4. job[d] \in Job(Vozka)
      <4>1. /\ "none" \in {"none", "running", "succeeded", "failed"} /\ FALSE \in BOOLEAN
            /\ {} \in SUBSET Secrets(Vozka) /\ 0 \in Nat
          OBVIOUS
      <4> DEFINE none == "none"
                 given == {}
                 Results == {"none", "running", "succeeded", "failed"}
      <4>2. job[d] = [of |-> Vozka, version |-> 1, dry |-> FALSE, given |-> given,
                      url |-> FALSE, at |-> 1, ran |-> 0, alone |-> FALSE, result |-> none]
          BY <1>1
      <4>3. Job(Vozka) = [of : {Vozka}, version : Version, dry : BOOLEAN, given : SUBSET Secrets(Vozka),
                          url : BOOLEAN, at : DOMAIN Steps, ran : Nat, alone : BOOLEAN, result : Results]
          BY DEF Job
      <4>4. none \in Results /\ given \in SUBSET Secrets(Vozka)
          OBVIOUS
      <4> HIDE DEF none, given, Results
      <4> QED BY <3>1, <4>1, <4>2, <4>3, <4>4
    <3> QED BY <3>1, <3>2, <3>3, <3>4
  <2> QED BY <1>1, <2>1, <2>2, Constants DEF TypeOK
<1>3. SchemaBeforeWorker /\ StagesInOrder /\ Separate
  <2>1. SchemaBeforeWorker
      BY <1>1 DEF SchemaBeforeWorker
  <2>2. StagesInOrder
      BY <1>1 DEF StagesInOrder
  <2>3. Separate
      BY <1>1 DEF Separate, Deployer
  <2> QED BY <2>1, <2>2, <2>3
<1>4. ASSUME NEW d \in Deployer PROVE Lasting(d) /\ Replaceable(d)
  <2>1. \A k \in 2 .. 6 : \A n \in Nat : ~Ran(d, k, n)
      BY <1>1 DEF Ran
  <2>2. job[d].of \in Base
      BY <1>2 DEF TypeOK
  <2>3. (\A n \in DOMAIN Config[job[d].of].dbs : n \in Nat) /\ (\A n \in DOMAIN Config[job[d].of].secrets : n \in Nat)
      BY <2>2, Configs
  <2> QED BY <2>1, <2>3 DEF Lasting, Replaceable
<1> QED BY <1>2, <1>3, <1>4 DEF DeployInv

LEMMA DeployInvStep == DeployInv /\ [Next]_vars => DeployInv'
<1> SUFFICES ASSUME DeployInv, [Next]_vars PROVE DeployInv'
    OBVIOUS
<1>1. CASE StartPlatform
    BY <1>1, PlatformStarts
<1>2. CASE NextStage
    BY <1>2, StageStarts
<1>3. CASE StartOther
    BY <1>3, OtherStarts
<1>4. ASSUME NEW d \in Deployer, RunCommand(d) PROVE DeployInv'
    BY <1>4, RunKeeps
<1>5. ASSUME NEW d \in Deployer, CommandRejected(d) \/ CommandFails(d) PROVE DeployInv'
    BY <1>5, FailKeeps
<1>6. ASSUME NEW d \in Deployer, StepDone(d) PROVE DeployInv'
    BY <1>6, DoneKeeps
<1>7. CASE UNCHANGED vars
  <2>1. TypeOK'
      BY <1>7 DEF DeployInv, TypeOK, vars
  <2> QED BY <1>7, <2>1 DEF DeployInv, SchemaBeforeWorker, StagesInOrder, Separate, Lasting, Replaceable, Reconciles,
                          Ran, Running, vars
<1> QED BY <1>1, <1>2, <1>3, <1>4, <1>5, <1>6, <1>7 DEF Next, DeployStep

(* An adopted database.  No worker but the control plane's is ahead of the  *)
(* version that the workflow deploys the control plane with.                *)
NotAhead ==
    job["platform"].of = Vozka =>
        \A c \in Base \ {Vozka} : cloud[c].worker <= job["platform"].version

LEMMA NotAheadKept ==
    ASSUME DeployInv, DeployInv', NotAhead, [Next]_vars
    PROVE  NotAhead'
<1> DEFINE p == job["platform"]
<1> USE DEF DeployInv
<1> SUFFICES ASSUME job'["platform"].of = Vozka, NEW c \in Base \ {Vozka}
             PROVE  cloud'[c].worker <= job'["platform"].version
    BY DEF NotAhead
<1>0. "platform" \in Deployer /\ "other" \in Deployer
    BY DEF Deployer
<1>1. CASE /\ p.of = Vozka /\ job'["platform"].version = p.version
           /\ cloud'[c].worker = cloud[c].worker
    BY <1>1 DEF NotAhead
<1>2. CASE StartPlatform
  <2>1. \E v : job' = Started("platform", Propustka, v, FALSE, Secrets(Propustka), FALSE)
      BY <1>2, Constants DEF StartPlatform
  <2>2. job'["platform"].of = Propustka
      BY <1>0, <2>1 DEF Started
  <2> QED BY <2>2, Constants
<1>3. CASE NextStage
  <2>1. CASE job' = job
      BY <1>1, <1>3, <2>1 DEF NextStage
  <2>2. CASE p.result = "succeeded" /\ chain < 3
    <3>1. chain \in 1 .. 2 /\ cloud' = cloud
        BY <1>3, <2>2, Constants DEF NextStage, TypeOK
    <3>2. job'["platform"].of = Stages[chain + 1] /\ job'["platform"].version = p.version
        BY <1>0, <1>3, <2>2, Constants DEF NextStage, Started
    <3>3. chain = 2
        BY <3>1, <3>2, Constants
    <3>4. cloud[Propustka].worker = p.version
        BY <3>3, Constants DEF StagesInOrder
    <3>5. cloud[Runner].worker = p.version
      <4>1. p.of = Runner /\ p.alone /\ ~p.dry
          BY <3>3, Constants DEF Separate
      <4>2. Ran("platform", 4, 1)
          BY <2>2 DEF Ran
      <4> QED BY <1>0, <4>1, <4>2 DEF Replaceable
    <3>6. p.version \in Nat
        BY <1>0, JobFacts, Constants DEF Version
    <3> QED BY <3>1, <3>2, <3>4, <3>5, <3>6 DEF Base
  <2> QED BY <1>3, <2>1, <2>2, Constants DEF NextStage
<1>4. CASE StartOther
  <2>1. /\ job'["platform"].of = p.of /\ job'["platform"].version = p.version
    <3>1. \E alone : job'["platform"] = [p EXCEPT !.alone = alone]
        BY <1>0, <1>4 DEF StartOther, Started
    <3>2. p \in Job(p.of)
        BY <1>0 DEF TypeOK
    <3> QED BY <3>1, <3>2 DEF Job
  <2> QED BY <1>1, <1>4, <2>1 DEF StartOther
<1>5. ASSUME NEW d \in Deployer, DeployStep(d) \/ CommandFails(d)
      PROVE  cloud'[c].worker <= job'["platform"].version
  <2>1. \A e \in Deployer : job'[e].of = job[e].of /\ job'[e].version = job[e].version
      BY <1>5, RunIs, FailIs, NextStepIs, LastStepIs DEF DeployStep
  <2>2. job[d].of = Vozka
      BY <1>0, <2>1 DEF Separate, Deployer
  <2>3. cloud' = cloud \/ (Runs(d) /\ cloud' = Effect(d))
      BY <1>5 DEF DeployStep, RunCommand, CommandRejected, StepDone, CommandFails
  <2>4. cloud'[c] = cloud[c]
      BY <2>2, <2>3, Effects
  <2> QED BY <1>0, <1>1, <2>1, <2>4
<1>6. CASE UNCHANGED vars
    BY <1>1, <1>6 DEF vars
<1> QED BY <1>2, <1>3, <1>4, <1>5, <1>6 DEF Next

(* And what the workflow's migrations have run lasts.                       *)
LEMMA NotAheadFollows ==
    ASSUME DeployInv, NotAhead
    PROVE  EngineInv
<1> DEFINE v == job["platform"].version
           dbs == Config[Vozka].dbs
<1> SUFFICES ASSUME job["platform"].of = Vozka, NEW c \in Base \ {Vozka},
                    NEW n \in DOMAIN dbs, Ran("platform", 3, n)
             PROVE  cloud[c].worker <= cloud[Vozka].schema[dbs[n]]
    BY DEF EngineInv, DeployInv, AdoptersFollow, NotAhead
<1>1. Vozka \in Base /\ "platform" \in Deployer /\ TypeOK
    BY DEF Base, Deployer, DeployInv
<1>2. cloud[c].worker <= v /\ cloud[Vozka].schema[dbs[n]] >= v
  <2>1. Lasting("platform") /\ ~job["platform"].dry
      BY <1>1 DEF DeployInv, Separate
  <2> QED BY <2>1 DEF Lasting, NotAhead
<1>3. v \in Nat /\ cloud[c].worker \in Nat /\ cloud[Vozka].schema[dbs[n]] \in Nat
  <2>1. Version \cup {0} \subseteq Nat
      BY Constants DEF Version
  <2>2. cloud[c] \in Cloud(c) /\ cloud[Vozka] \in Cloud(Vozka) /\ v \in Version
      BY <1>1, JobFacts DEF TypeOK
  <2>3. dbs[n] \in Databases(Vozka)
      BY <1>1, Configs
  <2> QED BY <2>1, <2>2, <2>3 DEF Cloud
<1> QED BY <1>2, <1>3

(* No worker is live on a schema of its own that is older than it is, nor,  *)
(* once the workflow has migrated the control plane, on an adopted one; the *)
(* stages keep their order, and what a deploy has run lasts (buildPlan()'s  *)
(* order, the loop of deploy(), the chain of the platform workflow).        *)
THEOREM EngineSafe == Spec => []EngineInv
<1>1. Init => DeployInv /\ NotAhead
  <2> SUFFICES ASSUME Init PROVE NotAhead
      BY DeployInit
  <2>1. \A c \in Base : cloud[c].worker = 0
      BY DEF Init
  <2>2. job["platform"].version = 1
      BY DEF Init, Deployer
  <2> QED BY <2>1, <2>2 DEF NotAhead
<1>2. DeployInv /\ [Next]_vars => DeployInv'
    BY DeployInvStep
<1>3. DeployInv /\ DeployInv' /\ NotAhead /\ [Next]_vars => NotAhead'
    BY NotAheadKept
<1>4. DeployInv /\ NotAhead => EngineInv
    BY NotAheadFollows
<1> QED BY <1>1, <1>2, <1>3, <1>4, PTL DEF Spec

(* A deploy that says it succeeded has deployed all of its plan (deploy()'s *)
(* loop, however deploys interleave, fail or are killed).                   *)
THEOREM SuccessIsReal == Spec => []SucceededIsDeployed
<1>1. EngineInv => SucceededIsDeployed
  <2> SUFFICES ASSUME EngineInv, NEW d \in Deployer,
                      job[d].result = "succeeded", job[d].alone, ~job[d].dry
               PROVE  LET c == job[d].of  v == job[d].version IN
                      /\ cloud[c].worker = v /\ cloud[c].resources = v
                      /\ \A db \in Databases(c) : cloud[c].schema[db] >= v
                      /\ Reconciles(d) => cloud[c].authz = v
                      /\ cloud[c].secrets = Secrets(c)
      BY DEF SucceededIsDeployed
  <2> DEFINE c == job[d].of
  <2>1. \A k, n : Ran(d, k, n)
      BY DEF Ran
  <2>2. c \in Base /\ cloud[c] \in Cloud(c)
      BY JobFacts DEF EngineInv, TypeOK
  <2>3. /\ cloud[c].worker = job[d].version /\ cloud[c].resources = job[d].version
        /\ Reconciles(d) => cloud[c].authz = job[d].version
      BY <2>1 DEF EngineInv, Replaceable
  <2>4. /\ \A n \in DOMAIN Config[c].dbs : cloud[c].schema[Config[c].dbs[n]] >= job[d].version
        /\ \A n \in DOMAIN Config[c].secrets : Config[c].secrets[n] \in cloud[c].secrets
      BY <2>1 DEF EngineInv, Lasting
  <2>5. \A db \in Databases(c) : cloud[c].schema[db] >= job[d].version
      BY <2>2, <2>4, Configs
  <2>6. cloud[c].secrets \subseteq Secrets(c)
      BY <2>2 DEF Cloud
  <2>7. Secrets(c) \subseteq cloud[c].secrets
      BY <2>2, <2>4, Configs
  <2> QED BY <2>3, <2>5, <2>6, <2>7
<1> QED BY <1>1, EngineSafe, PTL

-----------------------------------------------------------------------------
(* What BaseComesUp rests on, apart from fairness: the workflow meets no    *)
(* refusal, its success brings the base up, and what is up stays up.        *)

\* Only the control plane has a vocabulary, and propustka knows the key it comes with.
KeyShared ==
    /\ \A c \in Base : Config[c].schema => c = Vozka
    /\ Key \in Secrets(Propustka) /\ Key \in Secrets(Vozka)

\* The base as it is declared is like that.
LEMMA DeclaredSharesKey ==
    ASSUME Config[Propustka] = PropustkaConfig, Config[Runner] = RunnerConfig,
           Config[Vozka] = VozkaConfig
    PROVE  KeyShared
<1>1. Config[Propustka].secrets[3] = Key /\ 3 \in DOMAIN Config[Propustka].secrets
    BY DEF PropustkaConfig
<1>2. Config[Vozka].secrets[3] = Key /\ 3 \in DOMAIN Config[Vozka].secrets
    BY DEF VozkaConfig
<1>3. ~Config[Propustka].schema /\ ~Config[Runner].schema
    BY DEF PropustkaConfig, RunnerConfig
<1> QED BY <1>1, <1>2, <1>3 DEF KeyShared, Base, Secrets, Names

\* The workflow has every secret of its stage, and a worker that was deployed is up.
GivenAll == chain > 0 => job["platform"].given = Secrets(job["platform"].of)
WorkersUp == \A d \in Deployer : ~job[d].dry /\ Ran(d, 4, 1) => cloud[job[d].of].worker # 0
BringUp == GivenAll /\ WorkersUp

LEMMA CloudKept ==
    ASSUME TypeOK, [Next]_vars, NEW c \in Base
    PROVE  /\ cloud[c].worker # 0 => cloud'[c].worker # 0
           /\ cloud[c].secrets \subseteq cloud'[c].secrets
<1>1. ASSUME NEW d \in Deployer, Runs(d), cloud' \in {cloud, Effect(d)}
      PROVE  /\ cloud[c].worker # 0 => cloud'[c].worker # 0
             /\ cloud[c].secrets \subseteq cloud'[c].secrets
  <2>1. job[d].version # 0 /\ job[d].of \in Base
      BY JobFacts, Constants DEF Version
  <2>2. CASE cloud' = Effect(d)
      BY <1>1, <2>1, <2>2, Effects
  <2> QED BY <1>1, <2>2
<1>2. ASSUME NEW d \in Deployer, DeployStep(d) \/ CommandFails(d)
      PROVE  cloud' = cloud \/ (Runs(d) /\ cloud' \in {cloud, Effect(d)})
    BY <1>2 DEF DeployStep, RunCommand, CommandRejected, StepDone, CommandFails
<1> QED BY <1>1, <1>2 DEF Next, StartPlatform, NextStage, StartOther, vars

LEMMA GivenKept ==
    ASSUME TypeOK, GivenAll, [Next]_vars
    PROVE  GivenAll'
<1>1. "platform" \in Deployer /\ DOMAIN job = Deployer /\ chain \in Nat
      /\ job["platform"] \in Job(job["platform"].of)
    BY DEF TypeOK, Deployer
<1>2. ASSUME NEW c \in Base, NEW v, NEW url, job' = Started("platform", c, v, FALSE, Secrets(c), url) PROVE GivenAll'
    BY <1>1, <1>2 DEF Started, GivenAll
<1>3. CASE StartPlatform
    BY <1>2, <1>3, Constants DEF StartPlatform, Base
<1>4. CASE NextStage
  <2>1. CASE chain' = 0
      BY <2>1 DEF GivenAll
  <2>2. CASE chain < Len(Stages) /\ chain > 0 /\ chain' # 0
    <3>1. chain = 1 \/ chain = 2
        BY <1>1, <2>2, Constants
    <3>2. Stages[chain + 1] \in Base
        BY <3>1, Constants DEF Base
    <3> QED BY <1>2, <1>4, <2>2, <3>2 DEF NextStage
  <2> QED BY <1>4, <2>1, <2>2 DEF NextStage
<1>5. ASSUME NEW v \in Version, NEW dry \in BOOLEAN, NEW given, NEW url,
             job' = Started("other", Vozka, v, dry, given, url), chain' = chain
      PROVE  GivenAll'
  <2>1. \E alone : job'["platform"] = [job["platform"] EXCEPT !.alone = alone]
      BY <1>1, <1>5 DEF Started, Deployer
  <2>2. job'["platform"].given = job["platform"].given /\ job'["platform"].of = job["platform"].of
      BY <1>1, <2>1 DEF Job
  <2> QED BY <1>5, <2>2 DEF GivenAll
<1>6. ASSUME NEW d \in Deployer, DeployStep(d) \/ CommandFails(d) PROVE GivenAll'
  <2>1. \A e \in Deployer : job'[e].given = job[e].given /\ job'[e].of = job[e].of
    <3>1. \A e \in Deployer : job[e] \in Job(job[e].of)
        BY DEF TypeOK
    <3>2. CASE RunCommand(d)
        BY <1>1, <3>1, <3>2 DEF RunCommand, Job
    <3>3. CASE CommandRejected(d) \/ CommandFails(d)
        BY <1>1, <3>1, <3>3 DEF CommandRejected, CommandFails, Failed, Job
    <3>4. CASE StepDone(d)
        BY <1>1, <3>1, <3>4 DEF StepDone, Job
    <3> QED BY <1>6, <3>2, <3>3, <3>4 DEF DeployStep
  <2>2. chain' = chain
      BY <1>6 DEF DeployStep, RunCommand, CommandRejected, StepDone, CommandFails
  <2> QED BY <1>1, <2>1, <2>2 DEF GivenAll
<1>7. CASE UNCHANGED vars
    BY <1>7 DEF vars, GivenAll
<1> QED BY <1>3, <1>4, <1>5, <1>6, <1>7 DEF Next, StartOther

LEMMA WorkersKept ==
    ASSUME EngineInv, EngineInv', WorkersUp, [Next]_vars
    PROVE  WorkersUp'
<1> SUFFICES ASSUME NEW d \in Deployer, ~job'[d].dry, Ran(d, 4, 1)'
             PROVE  cloud'[job'[d].of].worker # 0
    BY DEF WorkersUp
<1>1. TypeOK /\ TypeOK'
    BY DEF EngineInv
<1>2. job[d].of \in Base /\ job[d].version # 0
    BY <1>1, JobFacts, Constants DEF Version
<1>3. CASE job'[d].of = job[d].of /\ job'[d].dry = job[d].dry /\ Ran(d, 4, 1)
    BY <1>1, <1>2, <1>3, CloudKept DEF WorkersUp
<1>4. ASSUME NEW e \in Deployer, NEW c \in Base, NEW v \in Version, NEW dry \in BOOLEAN,
             NEW given \in SUBSET Secrets(c), NEW url \in BOOLEAN, job' = Started(e, c, v, dry, given, url)
      PROVE  cloud'[job'[d].of].worker # 0
    BY <1>1, <1>3, <1>4, StartedIs DEF Ran
<1>5. CASE StartPlatform
    BY <1>4, <1>5, Constants DEF StartPlatform, Base, Deployer
<1>6. CASE NextStage
  <2>1. CASE job' = job
      BY <1>3, <2>1 DEF Ran
  <2>2. CASE job["platform"].result = "succeeded" /\ chain < Len(Stages)
    <3>1. Stages[chain + 1] \in Base
        BY <1>1, <2>2, Constants DEF Base, TypeOK
    <3>2. job["platform"].version \in Version
        BY <1>1, JobFacts DEF Deployer
    <3> QED BY <1>4, <1>6, <2>2, <3>1, <3>2 DEF NextStage, Deployer
  <2> QED BY <1>6, <2>1, <2>2 DEF NextStage
<1>7. CASE StartOther
  <2>1. Vozka \in Base /\ "other" \in Deployer
      BY DEF Base, Deployer
  <2>2. PICK v \in Version, dry \in BOOLEAN, missing \in Secrets(Vozka) \cup {"url", "none"} :
             job' = Started("other", Vozka, v, dry, Secrets(Vozka) \ {missing}, missing # "url")
      BY <1>7 DEF StartOther
  <2>3. Secrets(Vozka) \ {missing} \in SUBSET Secrets(Vozka)
      OBVIOUS
  <2> QED BY <1>4, <2>1, <2>2, <2>3
<1>8. ASSUME NEW e \in Deployer, RunCommand(e) PROVE cloud'[job'[d].of].worker # 0
  <2>1. CASE Ran(d, 4, 1) \/ d # e
      BY <1>1, <1>3, <1>8, <2>1, RunIs DEF Ran
  <2>2. CASE ~Ran(d, 4, 1) /\ d = e
    <3>1. job[d].at = 4 /\ job'[d].of = job[d].of /\ ~job[d].dry /\ Runs(d) /\ cloud' = Effect(d)
        BY <1>1, <1>8, <2>2, RunIs, JobFacts DEF Ran, RunCommand
    <3>2. Effect(d)[job[d].of].worker = job[d].version
        BY <1>1, <3>1, Effects
    <3> QED BY <1>2, <3>1, <3>2
  <2> QED BY <2>1, <2>2
<1>9. ASSUME NEW e \in Deployer, CommandRejected(e) \/ CommandFails(e)
      PROVE  cloud'[job'[d].of].worker # 0
    BY <1>1, <1>3, <1>9, FailIs DEF Ran
<1>10. ASSUME NEW e \in Deployer, StepDone(e) PROVE cloud'[job'[d].of].worker # 0
  <2>1. CASE Ran(d, 4, 1) \/ d # e
      BY <1>1, <1>3, <1>10, <2>1, NextStepIs, LastStepIs DEF Ran
  <2>2. CASE ~Ran(d, 4, 1) /\ d = e
    <3>1. job[d].at \in 1 .. 4 /\ (job[d].at = 4 => job[d].ran < 1) /\ job[d].ran \in Nat
        BY <1>1, <2>2, JobFacts DEF Ran
    <3>2. job[d].at # 6 /\ job'[d].at = job[d].at + 1 /\ job'[d].ran = 0 /\ job'[d].result = "running"
        BY <1>1, <1>10, <2>2, <3>1, NextStepIs
    <3>3. job[d].at = 4
        BY <3>1, <3>2 DEF Ran
    <3>4. Len(CommandsOf(d)) = 1
      <4>1. StepOf(d) = "deploy-worker" /\ job[d].url \in BOOLEAN
          BY <1>1, <3>3, JobFacts, Constants
      <4> QED BY <1>2, <4>1, CommandCounts DEF CommandsOf
    <3>5. job[d].ran >= 1
        BY <1>10, <2>2, <3>1, <3>4 DEF StepDone, Runs
    <3> QED BY <3>1, <3>3, <3>5
  <2> QED BY <2>1, <2>2
<1>11. CASE UNCHANGED vars
    BY <1>3, <1>11 DEF vars, Ran
<1> QED BY <1>5, <1>6, <1>7, <1>8, <1>9, <1>10, <1>11 DEF Next, DeployStep

LEMMA BringUpInvariant == Spec => []BringUp
<1>1. Init => BringUp
    BY DEF Init, BringUp, GivenAll, WorkersUp, Ran
<1>2. EngineInv /\ EngineInv' /\ BringUp /\ [Next]_vars => BringUp'
    BY GivenKept, WorkersKept DEF BringUp, EngineInv
<1> QED BY <1>1, <1>2, EngineSafe, PTL DEF Spec

(* No command of the workflow is turned down for want of something: each    *)
(* stage finds what it binds, whom it calls, and the key it calls with (the *)
(* order of platformComponents() and of buildPlan()).                       *)
WorkflowNotRefused == chain > 0 /\ Runs("platform") => Admitted("platform")

(* Whatever is deployed beside it, the workflow is refused nothing.         *)
THEOREM WorkflowFindsWhatItNeeds ==
    ASSUME KeyShared
    PROVE  Spec => []WorkflowNotRefused
<1>1. ASSUME EngineInv, GivenAll, chain > 0, Runs("platform") PROVE Admitted("platform")
  <2> DEFINE d == "platform"
  <2>1. /\ d \in Deployer /\ TypeOK /\ job[d].of = Stages[chain] /\ chain \in 1 .. 3
        /\ job[d].given = Secrets(job[d].of)
      BY <1>1, Constants DEF EngineInv, Separate, TypeOK, Deployer, GivenAll
  <2>2. job[d].version # 0 /\ StepOf(d) = Steps[job[d].at] /\ job[d].at \in 1 .. 6 /\ job[d].of \in Base
      BY <2>1, JobFacts, Constants DEF Version
  <2>3. ASSUME job[d].of = Vozka
        PROVE  /\ cloud[Runner].worker # 0 /\ cloud[Propustka].worker # 0
               /\ Key \in cloud[Propustka].secrets /\ Key \in job[d].given
    <3>1. chain = 3
      <4>1. Stages[chain] = Vozka /\ (chain = 1 \/ chain = 2 \/ chain = 3)
          BY <2>1, <2>3
      <4>2. Stages[1] # Vozka /\ Stages[2] # Vozka
          BY Constants
      <4> QED BY <4>1, <4>2
    <3>2. /\ cloud[Stages[1]].worker = job[d].version /\ cloud[Stages[1]].secrets = Secrets(Stages[1])
          /\ cloud[Stages[2]].worker = job[d].version
        BY <1>1, <3>1, Constants DEF EngineInv, StagesInOrder
    <3> QED BY <2>1, <2>2, <2>3, <3>2, Constants DEF KeyShared
  <2>4. StepOf(d) = "sync-secrets" => Command(d) \in job[d].given
      BY <1>1, <2>1, <2>2, CommandFacts, Constants
  <2>5. StepOf(d) = "reconcile-schema" => job[d].of = Vozka
    <3> SUFFICES ASSUME StepOf(d) = "reconcile-schema" PROVE Config[job[d].of].schema
        BY <2>2 DEF KeyShared
    <3>1. Len(CommandsOf(d)) = IF Config[job[d].of].schema /\ job[d].url THEN 1 ELSE 0
        BY <2>1, <2>2, JobFacts, CommandCounts DEF CommandsOf
    <3>2. job[d].ran \in Nat /\ job[d].ran < Len(CommandsOf(d))
        BY <1>1, <2>1, JobFacts DEF Runs
    <3> QED BY <3>1, <3>2
  <2> QED BY <2>3, <2>4, <2>5 DEF Admitted
<1>2. EngineInv /\ BringUp => WorkflowNotRefused
    BY <1>1 DEF BringUp, WorkflowNotRefused
<1> QED BY <1>2, EngineSafe, BringUpInvariant, PTL

(* A workflow whose last stage has succeeded has brought up the whole base, *)
(* whatever was deployed beside it.                                         *)
SuccessIsUp == chain = Len(Stages) /\ job["platform"].result = "succeeded" => ~Unfinished

(* When the last stage succeeds, the base is up (cli.ts, platform deploy).  *)
THEOREM WorkflowBringsUp == Spec => []SuccessIsUp
<1>1. ASSUME EngineInv, WorkersUp, chain = Len(Stages), job["platform"].result = "succeeded"
      PROVE  ~Unfinished
  <2> DEFINE d == "platform"
  <2>1. /\ d \in Deployer /\ TypeOK /\ chain = 3 /\ job[d].of = Vozka /\ ~job[d].dry
        /\ \A k, n : Ran(d, k, n)
      BY <1>1, Constants DEF EngineInv, Separate, Deployer, Ran
  <2>2. job[d].version # 0
      BY <2>1, JobFacts, Constants DEF Version
  <2>3. \A i \in 1 .. 2 : /\ cloud[Stages[i]].worker # 0
                          /\ cloud[Stages[i]].secrets = Secrets(Stages[i])
      BY <1>1, <2>1, <2>2, Constants DEF EngineInv, StagesInOrder
  <2>4. cloud[Vozka].worker # 0
      BY <1>1, <2>1 DEF WorkersUp
  <2>5. cloud[Vozka].secrets = Secrets(Vozka)
    <3>1. \A n \in DOMAIN Config[Vozka].secrets : Config[Vozka].secrets[n] \in cloud[Vozka].secrets
        BY <1>1, <2>1 DEF EngineInv, Lasting
    <3>2. Vozka \in Base /\ cloud[Vozka] \in Cloud(Vozka)
        BY <2>1 DEF Base, TypeOK
    <3>3. Secrets(Vozka) \subseteq cloud[Vozka].secrets
        BY <3>1, <3>2, Configs
    <3> QED BY <3>2, <3>3 DEF Cloud
  <2> QED BY <2>3, <2>4, <2>5, Constants DEF Unfinished, Base
<1>2. EngineInv /\ BringUp => SuccessIsUp
    BY <1>1 DEF BringUp, SuccessIsUp
<1> QED BY <1>2, EngineSafe, BringUpInvariant, PTL

(* And once it is up no deploy takes it down again, one that fails halfway  *)
(* or is of an older version included.                                      *)
BaseStaysUp == [][~Unfinished => ~Unfinished']_vars

(* No step of any deploy takes down a base that is up (deploy.ts, plan.ts). *)
THEOREM StaysUp == Spec => BaseStaysUp
<1>1. EngineInv /\ EngineInv' /\ [Next]_vars => [~Unfinished => ~Unfinished']_vars
  <2> SUFFICES ASSUME EngineInv, EngineInv', [Next]_vars, ~Unfinished PROVE ~Unfinished'
      OBVIOUS
  <2>1. ASSUME NEW c \in Base PROVE cloud'[c].worker # 0 /\ cloud'[c].secrets = Secrets(c)
    <3>1. cloud'[c].secrets \subseteq Secrets(c)
        BY DEF EngineInv, TypeOK, Cloud
    <3>2. cloud[c].worker # 0 /\ cloud[c].secrets = Secrets(c)
        BY DEF Unfinished
    <3> QED BY <3>1, <3>2, CloudKept DEF EngineInv
  <2> QED BY <2>1 DEF Unfinished
<1> QED BY <1>1, EngineSafe, PTL DEF Spec, BaseStaysUp
=============================================================================
