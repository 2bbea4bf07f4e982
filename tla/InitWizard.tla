----------------------------- MODULE InitWizard -----------------------------
(***************************************************************************)
(* `vozka init <account>` (cli/src/init.ts and what it calls): a wizard    *)
(* on the operator's machine that generates keys, has a GitHub App         *)
(* created, scaffolds the platform repository, fills its GitHub            *)
(* Environment and triggers the platform workflow.  It can end anywhere    *)
(* (an error, a failed `gh`, Ctrl-C), keeps what it has in `.env` and is   *)
(* meant to be run again.                                                  *)
(*                                                                         *)
(* A value stands for where it comes from: the number of the wizard run    *)
(* that typed, generated or created it.  So one App's number is its id,    *)
(* its private key and its webhook secret.                                 *)
(***************************************************************************)
EXTENDS Integers, Sequences

CONSTANTS
    None,         \* not set: no line in .env, no setting, no repository
    Placeholder,  \* the placeholder OIDC client id, and its secret
    MaxRun,       \* bound: how often the wizard is run
    MaxVersion,   \* bound: releases of the CLI, each with other templates
    Failures      \* bound: runs that end by an error or by the operator

ASSUME WizardAssumption ==
    /\ MaxRun \in Nat \ {0} /\ MaxVersion \in Nat \ {0} /\ Failures \in Nat
    /\ None # Placeholder
    /\ {None, Placeholder} \cap Int = {}

Run == 1 .. MaxRun
Version == 1 .. MaxVersion

\* What .env keeps.  PROPUSTKA_SIGNING_KEYS is "sign"; "pem", "webhook" and
\* "id" are the App's private key, its webhook secret and its id.
Generated == {"vault", "provisioning", "sign"}
Saved == {"token", "account", "oidc", "pem", "webhook", "id"} \cup Generated

\* Mutant: propustka's secrets are written before the GitHub App's.
WritesPropustkaFirst == <<"account", "token", "vault", "provisioning", "sign", "oidc",
                          "pem", "webhook", "id", "client">>

\* What configureEnvironment writes, in its order: secrets, then variables.
Writes == <<"account", "token", "vault", "pem", "webhook", "provisioning",
            "sign", "oidc", "id", "client">>
Secret == {"account", "token", "vault", "pem", "webhook", "provisioning", "sign", "oidc"}
Setting == Secret \cup {"id", "client"}

Value == Run \cup {None, Placeholder}

VARIABLES
    run,       \* runs of the wizard so far
    pc,        \* where the current one is
    client, id,  \* its OIDC client id and App id, which only it knows
    at,        \* the next setting to write
    env,       \* .env
    apps,      \* GitHub Apps that exist
    repo,      \* the templates in the platform repository, 0 when it is empty
    local,     \* the checkout: .git, the templates committed, the remote origin
    conf,      \* the GitHub Environment
    due,       \* a platform workflow was triggered and has not run
    base,      \* the settings the control plane was last deployed with
    cli,       \* the release in use
    failures   \* failures still to come

wizardVars == <<run, pc, client, id, at, failures>>
scaffoldVars == <<repo, local>>
vars == <<wizardVars, env, apps, scaffoldVars, conf, due, base, cli>>

Place == {"off", "token", "account", "answers", "vault", "provisioning", "sign", "oidc",
          "app", "callback", "pem", "webhook", "id", "scaffold", "init", "first",
          "create", "upload", "checkout", "drift", "push", "environment", "write",
          "done"}

WizardOK ==
    /\ run \in 0 .. MaxRun /\ pc \in Place /\ (run = 0 => pc = "off")
    /\ client \in Value /\ id \in Value
    /\ at \in 1 .. Len(Writes) + 1
    /\ cli \in Version /\ failures \in 0 .. Failures

ScaffoldOK ==
    /\ repo \in Version \cup {0, None} /\ (pc = "checkout" => repo # None)
    /\ local \in [git : BOOLEAN, head : Version \cup {0}, origin : BOOLEAN]

StoredOK ==
    /\ env \in [Saved -> Value]
    /\ apps \subseteq Run
    /\ conf \in [Setting -> Value] /\ base \in [Setting -> Value]
    /\ due \in BOOLEAN

TypeOK == WizardOK /\ ScaffoldOK /\ StoredOK

Init ==
    /\ run = 0 /\ pc = "off" /\ client = None /\ id = None /\ at = 1
    /\ env = [k \in Saved |-> None]
    /\ apps = {}
    /\ repo = None /\ local = [git |-> FALSE, head |-> 0, origin |-> FALSE]
    /\ conf = [s \in Setting |-> None] /\ base = conf
    /\ due = FALSE
    /\ cli = 1 /\ failures = Failures

(***************************************************************************)
(* Starting and ending.                                                    *)
(***************************************************************************)
Goto(place) == pc' = place
Keep == UNCHANGED <<run, client, id, at, failures, due, base, cli>>

Start ==
    /\ pc \in {"off", "done"} /\ run < MaxRun
    /\ run' = run + 1 /\ Goto("token")
    /\ UNCHANGED <<client, id, at, failures, env, apps, scaffoldVars, conf, due, base, cli>>

\* Nothing of a run outlives it but what it has stored.
Leaves(place) == Goto(place) /\ client' = None /\ id' = None /\ at' = 1
Ends == Leaves("off")

\* An error, a prompt the operator gives up on, Ctrl-C, the 5 minutes of the callback.
Fail ==
    /\ pc \notin {"off", "done"} /\ failures > 0
    /\ failures' = failures - 1 /\ Ends
    /\ UNCHANGED <<run, env, apps, scaffoldVars, conf, due, base, cli>>

\* The operator updates the CLI between two runs (bound: there are runs left for the
\* failures still to come, and one more).
Upgrade ==
    /\ pc \in {"off", "done"} /\ run + failures < MaxRun /\ cli < MaxVersion
    /\ cli' = cli + 1
    /\ UNCHANGED <<wizardVars, env, apps, scaffoldVars, conf, due, base>>

(***************************************************************************)
(* Collecting: what .env has is not asked for, or generated, again.        *)
(***************************************************************************)
Save(key, value) == env' = [env EXCEPT ![key] = value]
FromEnv(key) == env[key]

Ensure(key, next) ==
    /\ pc = key
    /\ IF FromEnv(key) # None THEN UNCHANGED env ELSE Save(key, run)
    /\ Goto(next)
    /\ Keep /\ UNCHANGED <<apps, scaffoldVars, conf>>

\* The token is verified, or accepted unverified, before it is saved; a token
\* from .env that is refused ends the run (Fail): retry() reads it again.
CollectToken == Ensure("token", "account")
CollectAccount == Ensure("account", "answers")
\* Mutant: ensureVaultKey() generates without looking at .env.
EnsureVaultKeyAnew ==
    /\ pc = "vault" /\ Save("vault", run) /\ Goto("provisioning")
    /\ Keep /\ UNCHANGED <<apps, scaffoldVars, conf>>

EnsureVaultKey == Ensure("vault", "provisioning")
EnsureProvisioningKey == Ensure("provisioning", "sign")
EnsureSigningKeys == Ensure("sign", "oidc")

\* The other answers are asked for in every run; a blank client id means none yet.
Answer ==
    /\ pc = "answers"
    /\ client' \in {Placeholder, run}
    /\ Goto("vault")
    /\ UNCHANGED <<run, id, at, failures, env, apps, scaffoldVars, conf, due, base, cli>>

\* The hidden prompt accepts an empty secret, which .env then keeps as unset.
EnsureOidcClientSecret ==
    /\ pc = "oidc"
    /\ \/ FromEnv("oidc") # None /\ UNCHANGED env
       \/ FromEnv("oidc") = None /\ client = Placeholder /\ Save("oidc", Placeholder)
       \/ FromEnv("oidc") = None /\ client # Placeholder /\ \E v \in {None, run} : Save("oidc", v)
    /\ Goto("app")
    /\ Keep /\ UNCHANGED <<apps, scaffoldVars, conf>>

(***************************************************************************)
(* The GitHub App: created by the operator in the browser, its credentials *)
(* fetched once, and saved one by one.                                     *)
(***************************************************************************)
\* Mutant: the private key alone counts as an App.
HasKey == FromEnv("pem") # None

HasApp == FromEnv("pem") # None /\ FromEnv("webhook") # None

ReuseApp ==
    /\ pc = "app" /\ HasApp
    /\ id' = FromEnv("id")  \* None is the code's '0'
    /\ Goto("scaffold")
    /\ UNCHANGED <<run, client, at, failures, env, apps, scaffoldVars, conf, due, base, cli>>

CreateApp ==
    /\ pc = "app" /\ ~HasApp
    /\ apps' = apps \cup {run}
    /\ Goto("callback")
    /\ Keep /\ UNCHANGED <<env, scaffoldVars, conf>>

\* A lost redirect, a refused code or an unexpected answer is a Fail.
Callback ==
    /\ pc = "callback"
    /\ id' = run
    /\ Goto("pem")
    /\ UNCHANGED <<run, client, at, failures, env, apps, scaffoldVars, conf, due, base, cli>>

SaveApp(key, next) ==
    /\ pc = key
    /\ Save(key, id) /\ Goto(next)
    /\ Keep /\ UNCHANGED <<apps, scaffoldVars, conf>>

PersistApp ==
    \/ SaveApp("pem", "webhook")
    \/ SaveApp("webhook", "id")
    \/ SaveApp("id", "scaffold")

(***************************************************************************)
(* Scaffolding the platform repository.  materialize() and `git add` leave *)
(* the templates of this release staged, so there is drift exactly if they *)
(* are not what was committed last.                                        *)
(***************************************************************************)
Elsewhere == Keep /\ UNCHANGED <<env, apps, conf>>

\* `gh repo view`: any failure of the probe reads as an absent repository.
Probe ==
    /\ pc = "scaffold"
    /\ \/ repo # None /\ Goto("checkout") /\ UNCHANGED failures
       \/ repo = None /\ Goto("init") /\ UNCHANGED failures
       \/ repo # None /\ failures > 0 /\ failures' = failures - 1 /\ Goto("init")
    /\ UNCHANGED <<run, client, id, at, scaffoldVars, env, apps, conf, due, base, cli>>

\* createFresh(): a checkout without a repository is not the wizard's to repair.
GitInit ==
    /\ pc = "init"
    /\ IF local.git
       THEN Ends /\ UNCHANGED <<local, run, failures, due, base, cli>>
       ELSE local' = [local EXCEPT !.git = TRUE] /\ Goto("first") /\ Keep
    /\ UNCHANGED <<repo, env, apps, conf>>

FirstCommit ==
    /\ pc = "first"
    /\ local' = [local EXCEPT !.head = cli] /\ Goto("create")
    /\ UNCHANGED repo /\ Elsewhere

\* `gh repo create --source --push`: creates, adds the remote, then pushes.
CreateRepo ==
    /\ pc = "create"
    /\ IF repo # None
       THEN Ends /\ UNCHANGED <<scaffoldVars, run, failures, due, base, cli>>
       ELSE repo' = 0 /\ local' = [local EXCEPT !.origin = TRUE] /\ Goto("upload") /\ Keep
    /\ UNCHANGED <<env, apps, conf>>

\* The workflow also runs on a push that changes it or a pinned version.
PushTriggers == due' \in {due, TRUE}

FirstPush ==
    /\ pc = "upload"
    /\ repo' = local.head /\ Goto("environment")
    /\ PushTriggers
    /\ UNCHANGED <<local, run, client, id, at, failures, env, apps, conf, base, cli>>

\* Mutant: updateExisting() clones whether or not there is a checkout.
CheckoutByClone ==
    /\ pc = "checkout"
    /\ IF local.git
       THEN Ends /\ UNCHANGED <<local, run, failures, due, base, cli>>
       ELSE local' = [git |-> TRUE, head |-> repo, origin |-> TRUE] /\ Goto("drift") /\ Keep
    /\ UNCHANGED <<repo, env, apps, conf>>

\* updateExisting(): clone unless there is a checkout, commit and push on drift.
Checkout ==
    /\ pc = "checkout"
    /\ local' = IF local.git THEN local ELSE [git |-> TRUE, head |-> repo, origin |-> TRUE]
    /\ Goto("drift")
    /\ UNCHANGED repo /\ Elsewhere

CommitDrift ==
    /\ pc = "drift"
    /\ IF local.head = cli
       THEN UNCHANGED local /\ Goto("environment")
       ELSE local' = [local EXCEPT !.head = cli] /\ Goto("push")
    /\ UNCHANGED repo /\ Elsewhere

\* `git push` needs the remote a clone or `gh repo create` has configured.
Push ==
    /\ pc = "push"
    /\ IF local.origin
       THEN repo' = local.head /\ Goto("environment") /\ PushTriggers /\ UNCHANGED <<client, id, at>>
       ELSE Ends /\ UNCHANGED <<repo, due>>
    /\ UNCHANGED <<local, run, failures, env, apps, conf, base, cli>>

(***************************************************************************)
(* The GitHub Environment, and the platform workflow that reads it.        *)
(***************************************************************************)
Collected(setting) ==
    IF setting = "client" THEN client ELSE IF setting = "id" THEN id ELSE env[setting]

EnvironmentReady ==
    /\ pc = "environment" /\ repo # None
    /\ Goto("write")
    /\ Keep /\ UNCHANGED <<env, apps, scaffoldVars, conf>>

\* One `gh secret set` or `gh variable set`; a secret without a value is skipped.
WriteSetting ==
    /\ pc = "write" /\ at <= Len(Writes)
    /\ LET s == Writes[at] IN
       conf' = IF s \in Secret /\ Collected(s) = None THEN conf
               ELSE [conf EXCEPT ![s] = Collected(s)]
    /\ at' = at + 1
    /\ UNCHANGED <<run, pc, client, id, failures, env, apps, scaffoldVars, due, base, cli>>

\* The operator may decline; `gh workflow run` fails where there is no workflow.
Trigger ==
    /\ pc = "write" /\ at > Len(Writes)
    /\ \/ due' = due /\ Leaves("done")
       \/ repo \in Version /\ due' = TRUE /\ Leaves("done")
       \/ repo = 0 /\ due' = due /\ Ends
    /\ UNCHANGED <<run, failures, env, apps, scaffoldVars, conf, base, cli>>

\* GitHub Actions, when it gets to it: deploys with the settings it finds.  Without
\* credentials, or without a secret of propustka's, it fails before the control plane.
WorkflowRuns ==
    /\ due /\ due' = FALSE
    /\ base' = IF \E s \in {"account", "token", "provisioning", "sign", "oidc"} : conf[s] = None
               THEN base ELSE conf
    /\ UNCHANGED <<wizardVars, env, apps, scaffoldVars, conf, cli>>

WizardStep ==
    \/ CollectToken \/ CollectAccount \/ Answer \/ EnsureVaultKey
    \/ EnsureProvisioningKey \/ EnsureSigningKeys \/ EnsureOidcClientSecret
    \/ ReuseApp \/ CreateApp \/ Callback \/ PersistApp
    \/ Probe \/ GitInit \/ FirstCommit \/ CreateRepo \/ FirstPush
    \/ Checkout \/ CommitDrift \/ Push
    \/ EnvironmentReady \/ WriteSetting \/ Trigger

Next == Start \/ Fail \/ Upgrade \/ WizardStep \/ WorkflowRuns

Spec == Init /\ [][Next]_vars

\* The operator answers every prompt, and runs it again after a failure.
PatientSpec == Spec /\ WF_vars(WizardStep) /\ WF_vars(Start /\ pc = "off")

(***************************************************************************)
(* Properties.                                                             *)
(***************************************************************************)
\* What a deployed control plane must never lose: it holds sealed values, issued
\* tokens and installations under them.
Durable == Generated \cup {"token", "account", "pem", "webhook"}

\* Where the wizard may still be without a value.
NoAccount == {"off", "token", "account"}
NoKeys == NoAccount \cup {"answers", "vault"}
Scaffolding == {"scaffold", "init", "first", "create", "upload", "checkout", "drift", "push",
                "environment", "write"}

KeysCollected ==
    /\ pc \notin NoAccount \ {"account"} => env["token"] # None
    /\ pc \notin NoAccount => env["account"] # None
    /\ pc \notin NoKeys => env["vault"] # None
    /\ pc \notin NoKeys \cup {"provisioning"} => env["provisioning"] # None
    /\ pc \notin NoKeys \cup {"provisioning", "sign"} => env["sign"] # None

\* .env never mixes two Apps, and names one only once it can be reused.
OneApp ==
    /\ IF env["webhook"] = None THEN env["id"] = None
       ELSE env["pem"] = env["webhook"] /\ env["id"] \in {None, env["pem"]}
    /\ pc \in {"callback", "pem", "webhook"} => env["webhook"] = None
    /\ pc \in {"pem", "webhook", "id"} => id \in Run
    /\ pc \in {"webhook", "id"} => env["pem"] = id
    /\ pc = "id" => env["webhook"] = id
    /\ pc \in Scaffolding => HasApp /\ id \in {None, env["pem"]}

\* Whatever the Environment has, and a deployment has taken from it, is what .env has.
FromDotenv(settings) ==
    /\ \A k \in Durable : settings[k] # None => settings[k] = env[k] /\ HasApp
    /\ settings["id"] # None => settings["id"] = env["pem"] /\ HasApp

\* PROPUSTKA_SIGNING_KEYS is the last of them to be written.
SignedLast ==
    /\ pc # "write" => at = 1
    /\ \A i \in 1 .. at - 1 : Writes[i] \in Durable => conf[Writes[i]] # None
    /\ \A settings \in {conf, base} :
         settings["sign"] # None => \A k \in Durable : settings[k] # None
    /\ base["sign"] = None => \A s \in Setting : base[s] = None

\* What the wizard leaves behind fits together wherever its runs end: in .env, in the
\* Environment and in what was deployed with it.
WizardInv ==
    TypeOK /\ KeysCollected /\ OneApp /\ FromDotenv(conf) /\ FromDotenv(base) /\ SignedLast

\* However many runs there are and wherever they end, a control plane keeps the
\* keys, the account and the GitHub App it was first deployed with (ensure*() and
\* ensureGitHubApp() save a value before anything can depend on it).
KeysAreDurable == [][\A k \in Durable : base[k] # None => base'[k] = base[k]]_vars

\* A control plane is deployed with all of its keys or not at all, whenever a push or
\* the operator has the workflow run, in the middle of configureEnvironment() too (the
\* order of its writes), and the private key, the webhook secret and the id are of
\* one App.  The id alone may be missing.
BaseIsWhole ==
    (\E s \in Setting : base[s] # None) =>
        /\ \A k \in Durable : base[k] # None
        /\ base["pem"] = base["webhook"]
        /\ base["id"] \in {None, base["pem"]}

\* Failures that no later run gets past: a checkout that does not belong to the
\* repository, and a repository whose first push was lost.
Stranded ==
    \/ local.git /\ (repo = None \/ ~local.origin)
    \/ repo = 0 /\ local.head = cli

\* Running it again finishes the job, unless the checkout has to be repaired by hand.
Finishes == <>(pc = "done") \/ <>[]Stranded
=============================================================================
