---------------------------- MODULE WizardProofs ----------------------------
(***************************************************************************)
(* What `vozka init` guarantees however often it is run, and wherever its  *)
(* runs end: WizardInv is inductive, and with it go BaseIsWhole and        *)
(* KeysAreDurable.                                                         *)
(*                                                                         *)
(* The argument: a value in .env that something may depend on does not     *)
(* change (ensure*() looks first, and the App's two secrets count only     *)
(* together), so whatever the Environment and a deployment have is still   *)
(* what .env has; and the signing keys, without which nothing is deployed, *)
(* are the last durable value the wizard writes.                           *)
(***************************************************************************)
EXTENDS InitWizard, TLAPS

(* Values that are not set, or are placeholders, are not numbers of runs.   *)
LEMMA Values == None # Placeholder /\ None \notin Run /\ Placeholder \notin Run /\ None \notin Version \cup {0}
BY WizardAssumption DEF WizardAssumption, Run, Version

(* What the wizard writes, in which order.                                  *)
LEMMA WritesAre ==
    /\ Len(Writes) = 10
    /\ \A i \in 1 .. 10 : Writes[i] \in Setting
    /\ \A i \in 1 .. 10 : Writes[i] = "sign" => i = 7
    /\ \A k \in Durable : \E i \in 1 .. 7 : Writes[i] = k
BY DEF Writes, Setting, Secret, Durable, Generated

(* The places the actions go to.                                            *)
LEMMA Places ==
    {"off", "token", "account", "answers", "vault", "provisioning", "sign", "oidc",
     "app", "callback", "pem", "webhook", "id", "scaffold", "init", "first",
     "create", "upload", "checkout", "drift", "push", "environment", "write",
     "done"} \subseteq Place
BY DEF Place

(* Types are kept.                                                          *)
LEMMA TypeStep == TypeOK /\ [Next]_vars => TypeOK'
<1> SUFFICES ASSUME TypeOK, [Next]_vars PROVE TypeOK'
    OBVIOUS
<1> USE Values, WizardAssumption DEF WizardAssumption, TypeOK, Goto, Keep, wizardVars, scaffoldVars
<1>1. WizardOK'
  <2> USE Places, WritesAre DEF WizardOK, Run, Version, Value
  <2>1. CASE Start
      BY <2>1 DEF Start
  <2>2. CASE Fail
      BY <2>2 DEF Fail, Ends, Leaves
  <2>3. CASE Upgrade
      BY <2>3 DEF Upgrade
  <2>4. CASE CollectToken
      BY <2>4 DEF CollectToken, Ensure, Save, FromEnv
  <2>5. CASE CollectAccount
      BY <2>5 DEF CollectAccount, Ensure, Save, FromEnv
  <2>6. CASE Answer
      BY <2>6 DEF Answer
  <2>7. CASE EnsureVaultKey
      BY <2>7 DEF EnsureVaultKey, Ensure, Save, FromEnv
  <2>8. CASE EnsureProvisioningKey
      BY <2>8 DEF EnsureProvisioningKey, Ensure, Save, FromEnv
  <2>9. CASE EnsureSigningKeys
      BY <2>9 DEF EnsureSigningKeys, Ensure, Save, FromEnv
  <2>10. CASE EnsureOidcClientSecret
      BY <2>10 DEF EnsureOidcClientSecret, Save, FromEnv
  <2>11. CASE ReuseApp
      BY <2>11 DEF ReuseApp, FromEnv, StoredOK, Saved
  <2>12. CASE CreateApp
      BY <2>12 DEF CreateApp
  <2>13. CASE Callback
      BY <2>13 DEF Callback
  <2>14. CASE PersistApp
      BY <2>14 DEF PersistApp, SaveApp, Save
  <2>15. CASE Probe
      BY <2>15 DEF Probe
  <2>16. CASE GitInit
      BY <2>16 DEF GitInit, Ends, Leaves
  <2>17. CASE FirstCommit
      BY <2>17 DEF FirstCommit, Elsewhere
  <2>18. CASE CreateRepo
      BY <2>18 DEF CreateRepo, Ends, Leaves
  <2>19. CASE FirstPush
      BY <2>19 DEF FirstPush, PushTriggers
  <2>20. CASE Checkout
      BY <2>20 DEF Checkout, Elsewhere
  <2>21. CASE CommitDrift
      BY <2>21 DEF CommitDrift, Elsewhere
  <2>22. CASE Push
    <3>1. CASE local.origin
        BY <2>22, <3>1 DEF Push
    <3>2. CASE ~ local.origin
        BY <2>22, <3>2 DEF Push, Ends, Leaves
    <3> QED BY <3>1, <3>2
  <2>23. CASE EnvironmentReady
      BY <2>23 DEF EnvironmentReady
  <2>24. CASE WriteSetting
      BY <2>24 DEF WriteSetting, Collected
  <2>25. CASE Trigger
      BY <2>25 DEF Trigger, Ends, Leaves
  <2>26. CASE WorkflowRuns
      BY <2>26 DEF WorkflowRuns
  <2>27. CASE UNCHANGED vars
      BY <2>27 DEF vars
  <2> QED BY <2>1, <2>2, <2>3, <2>4, <2>5, <2>6, <2>7, <2>8, <2>9, <2>10, <2>11, <2>12, <2>13, <2>14, <2>15, <2>16, <2>17, <2>18, <2>19, <2>20, <2>21, <2>22, <2>23, <2>24, <2>25, <2>26, <2>27 DEF Next, WizardStep
<1>2. ScaffoldOK'
  <2> USE DEF WizardOK, ScaffoldOK
  <2>1. CASE Start
      BY <2>1 DEF Start
  <2>2. CASE Fail
      BY <2>2 DEF Fail, Ends, Leaves
  <2>3. CASE Upgrade
      BY <2>3 DEF Upgrade
  <2>4. CASE CollectToken
      BY <2>4 DEF CollectToken, Ensure, Save, FromEnv
  <2>5. CASE CollectAccount
      BY <2>5 DEF CollectAccount, Ensure, Save, FromEnv
  <2>6. CASE Answer
      BY <2>6 DEF Answer
  <2>7. CASE EnsureVaultKey
      BY <2>7 DEF EnsureVaultKey, Ensure, Save, FromEnv
  <2>8. CASE EnsureProvisioningKey
      BY <2>8 DEF EnsureProvisioningKey, Ensure, Save, FromEnv
  <2>9. CASE EnsureSigningKeys
      BY <2>9 DEF EnsureSigningKeys, Ensure, Save, FromEnv
  <2>10. CASE EnsureOidcClientSecret
      BY <2>10 DEF EnsureOidcClientSecret, Save, FromEnv
  <2>11. CASE ReuseApp
      BY <2>11 DEF ReuseApp, FromEnv
  <2>12. CASE CreateApp
      BY <2>12 DEF CreateApp
  <2>13. CASE Callback
      BY <2>13 DEF Callback
  <2>14. CASE PersistApp
      BY <2>14 DEF PersistApp, SaveApp, Save
  <2>15. CASE Probe
      BY <2>15 DEF Probe
  <2>16. CASE GitInit
      BY <2>16 DEF GitInit, Ends, Leaves
  <2>17. CASE FirstCommit
      BY <2>17 DEF FirstCommit, Elsewhere
  <2>18. CASE CreateRepo
      BY <2>18 DEF CreateRepo, Ends, Leaves
  <2>19. CASE FirstPush
      BY <2>19 DEF FirstPush, PushTriggers
  <2>20. CASE Checkout
      BY <2>20 DEF Checkout, Elsewhere
  <2>21. CASE CommitDrift
      BY <2>21 DEF CommitDrift, Elsewhere
  <2>22. CASE Push
      BY <2>22 DEF Push, Ends, Leaves, PushTriggers
  <2>23. CASE EnvironmentReady
      BY <2>23 DEF EnvironmentReady
  <2>24. CASE WriteSetting
      BY <2>24 DEF WriteSetting, Collected
  <2>25. CASE Trigger
      BY <2>25 DEF Trigger, Ends, Leaves
  <2>26. CASE WorkflowRuns
      BY <2>26 DEF WorkflowRuns
  <2>27. CASE UNCHANGED vars
      BY <2>27 DEF vars
  <2> QED BY <2>1, <2>2, <2>3, <2>4, <2>5, <2>6, <2>7, <2>8, <2>9, <2>10, <2>11, <2>12, <2>13, <2>14, <2>15, <2>16, <2>17, <2>18, <2>19, <2>20, <2>21, <2>22, <2>23, <2>24, <2>25, <2>26, <2>27 DEF Next, WizardStep
<1>3. StoredOK'
  <2> USE DEF WizardOK, StoredOK, Value, Run
  <2>1. CASE Start
      BY <2>1 DEF Start
  <2>2. CASE Fail
      BY <2>2 DEF Fail, Ends, Leaves
  <2>3. CASE Upgrade
      BY <2>3 DEF Upgrade
  <2>4. CASE CollectToken
      BY <2>4 DEF CollectToken, Ensure, Save, FromEnv
  <2>5. CASE CollectAccount
      BY <2>5 DEF CollectAccount, Ensure, Save, FromEnv
  <2>6. CASE Answer
      BY <2>6 DEF Answer
  <2>7. CASE EnsureVaultKey
      BY <2>7 DEF EnsureVaultKey, Ensure, Save, FromEnv
  <2>8. CASE EnsureProvisioningKey
      BY <2>8 DEF EnsureProvisioningKey, Ensure, Save, FromEnv
  <2>9. CASE EnsureSigningKeys
      BY <2>9 DEF EnsureSigningKeys, Ensure, Save, FromEnv
  <2>10. CASE EnsureOidcClientSecret
      BY <2>10 DEF EnsureOidcClientSecret, Save, FromEnv
  <2>11. CASE ReuseApp
      BY <2>11 DEF ReuseApp, FromEnv
  <2>12. CASE CreateApp
      BY <2>12 DEF CreateApp
  <2>13. CASE Callback
      BY <2>13 DEF Callback
  <2>14. CASE PersistApp
      BY <2>14 DEF PersistApp, SaveApp, Save
  <2>15. CASE Probe
      BY <2>15 DEF Probe
  <2>16. CASE GitInit
      BY <2>16 DEF GitInit, Ends, Leaves
  <2>17. CASE FirstCommit
      BY <2>17 DEF FirstCommit, Elsewhere
  <2>18. CASE CreateRepo
      BY <2>18 DEF CreateRepo, Ends, Leaves
  <2>19. CASE FirstPush
      BY <2>19 DEF FirstPush, PushTriggers
  <2>20. CASE Checkout
      BY <2>20 DEF Checkout, Elsewhere
  <2>21. CASE CommitDrift
      BY <2>21 DEF CommitDrift, Elsewhere
  <2>22. CASE Push
      BY <2>22 DEF Push, Ends, Leaves, PushTriggers
  <2>23. CASE EnvironmentReady
      BY <2>23 DEF EnvironmentReady
  <2>24. CASE WriteSetting
    <3>0. at \in 1 .. 10
        BY <2>24, WritesAre DEF WriteSetting
    <3>1. Writes[at] \in Saved \cup {"client"}
        BY <3>0, WritesAre DEF Setting, Secret, Saved, Generated
    <3>2. Collected(Writes[at]) \in Value
        BY <3>1 DEF Collected
    <3> QED BY <2>24, <3>2 DEF WriteSetting
  <2>25. CASE Trigger
      BY <2>25 DEF Trigger, Ends, Leaves
  <2>26. CASE WorkflowRuns
      BY <2>26 DEF WorkflowRuns
  <2>27. CASE UNCHANGED vars
      BY <2>27 DEF vars
  <2> QED BY <2>1, <2>2, <2>3, <2>4, <2>5, <2>6, <2>7, <2>8, <2>9, <2>10, <2>11, <2>12, <2>13, <2>14, <2>15, <2>16, <2>17, <2>18, <2>19, <2>20, <2>21, <2>22, <2>23, <2>24, <2>25, <2>26, <2>27 DEF Next, WizardStep
<1> QED BY <1>1, <1>2, <1>3

(* What a run has gone past stays collected.                                *)
LEMMA CollectedStep == TypeOK /\ KeysCollected /\ [Next]_vars => KeysCollected'
<1> SUFFICES ASSUME TypeOK, KeysCollected, [Next]_vars PROVE KeysCollected'
    OBVIOUS
<1> USE Values DEF TypeOK, WizardOK, StoredOK, Saved, Generated, Run, KeysCollected, NoAccount, NoKeys,
            Goto, Keep, wizardVars, scaffoldVars
<1>1. CASE Start
    BY <1>1 DEF Start
<1>2. CASE Fail
    BY <1>2 DEF Fail, Ends, Leaves
<1>3. CASE Upgrade
    BY <1>3 DEF Upgrade
<1>4. CASE CollectToken
    BY <1>4 DEF CollectToken, Ensure, Save, FromEnv
<1>5. CASE CollectAccount
    BY <1>5 DEF CollectAccount, Ensure, Save, FromEnv
<1>6. CASE Answer
    BY <1>6 DEF Answer
<1>7. CASE EnsureVaultKey
    BY <1>7 DEF EnsureVaultKey, Ensure, Save, FromEnv
<1>8. CASE EnsureProvisioningKey
    BY <1>8 DEF EnsureProvisioningKey, Ensure, Save, FromEnv
<1>9. CASE EnsureSigningKeys
    BY <1>9 DEF EnsureSigningKeys, Ensure, Save, FromEnv
<1>10. CASE EnsureOidcClientSecret
    BY <1>10 DEF EnsureOidcClientSecret, Save, FromEnv
<1>11. CASE ReuseApp
    BY <1>11 DEF ReuseApp, FromEnv
<1>12. CASE CreateApp
    BY <1>12 DEF CreateApp
<1>13. CASE Callback
    BY <1>13 DEF Callback
<1>14. CASE PersistApp
    BY <1>14 DEF PersistApp, SaveApp, Save
<1>15. CASE Probe
    BY <1>15 DEF Probe
<1>16. CASE GitInit
    BY <1>16 DEF GitInit, Ends, Leaves
<1>17. CASE FirstCommit
    BY <1>17 DEF FirstCommit, Elsewhere
<1>18. CASE CreateRepo
    BY <1>18 DEF CreateRepo, Ends, Leaves
<1>19. CASE FirstPush
    BY <1>19 DEF FirstPush, PushTriggers
<1>20. CASE Checkout
    BY <1>20 DEF Checkout, Elsewhere
<1>21. CASE CommitDrift
    BY <1>21 DEF CommitDrift, Elsewhere
<1>22. CASE Push
    BY <1>22 DEF Push, Ends, Leaves, PushTriggers
<1>23. CASE EnvironmentReady
    BY <1>23 DEF EnvironmentReady
<1>24. CASE WriteSetting
    BY <1>24 DEF WriteSetting, Collected
<1>25. CASE Trigger
    BY <1>25 DEF Trigger, Ends, Leaves
<1>26. CASE WorkflowRuns
    BY <1>26 DEF WorkflowRuns
<1>27. CASE UNCHANGED vars
    BY <1>27 DEF vars
<1> QED BY <1>1, <1>2, <1>3, <1>4, <1>5, <1>6, <1>7, <1>8, <1>9, <1>10, <1>11, <1>12, <1>13, <1>14, <1>15, <1>16, <1>17, <1>18, <1>19, <1>20, <1>21, <1>22, <1>23, <1>24, <1>25, <1>26, <1>27 DEF Next, WizardStep

(* The App's credentials stay one App's.                                    *)
LEMMA OneAppStep == TypeOK /\ OneApp /\ [Next]_vars => OneApp'
<1> SUFFICES ASSUME TypeOK, OneApp, [Next]_vars PROVE OneApp'
    OBVIOUS
<1> USE Values DEF TypeOK, WizardOK, StoredOK, Saved, Generated, Run, OneApp, HasApp, FromEnv, Scaffolding,
            Goto, Keep, wizardVars, scaffoldVars
<1>1. CASE Start
    BY <1>1 DEF Start
<1>2. CASE Fail
    BY <1>2 DEF Fail, Ends, Leaves
<1>3. CASE Upgrade
    BY <1>3 DEF Upgrade
<1>4. CASE CollectToken
    BY <1>4 DEF CollectToken, Ensure, Save, FromEnv
<1>5. CASE CollectAccount
    BY <1>5 DEF CollectAccount, Ensure, Save, FromEnv
<1>6. CASE Answer
    BY <1>6 DEF Answer
<1>7. CASE EnsureVaultKey
    BY <1>7 DEF EnsureVaultKey, Ensure, Save, FromEnv
<1>8. CASE EnsureProvisioningKey
    BY <1>8 DEF EnsureProvisioningKey, Ensure, Save, FromEnv
<1>9. CASE EnsureSigningKeys
    BY <1>9 DEF EnsureSigningKeys, Ensure, Save, FromEnv
<1>10. CASE EnsureOidcClientSecret
    BY <1>10 DEF EnsureOidcClientSecret, Save, FromEnv
<1>11. CASE ReuseApp
    BY <1>11 DEF ReuseApp, FromEnv
<1>12. CASE CreateApp
    BY <1>12 DEF CreateApp
<1>13. CASE Callback
    BY <1>13 DEF Callback
<1>14. CASE PersistApp
    BY <1>14 DEF PersistApp, SaveApp, Save
<1>15. CASE Probe
    BY <1>15 DEF Probe
<1>16. CASE GitInit
    BY <1>16 DEF GitInit, Ends, Leaves
<1>17. CASE FirstCommit
    BY <1>17 DEF FirstCommit, Elsewhere
<1>18. CASE CreateRepo
    BY <1>18 DEF CreateRepo, Ends, Leaves
<1>19. CASE FirstPush
    BY <1>19 DEF FirstPush, PushTriggers
<1>20. CASE Checkout
    BY <1>20 DEF Checkout, Elsewhere
<1>21. CASE CommitDrift
    BY <1>21 DEF CommitDrift, Elsewhere
<1>22. CASE Push
    BY <1>22 DEF Push, Ends, Leaves, PushTriggers
<1>23. CASE EnvironmentReady
    BY <1>23 DEF EnvironmentReady
<1>24. CASE WriteSetting
    BY <1>24 DEF WriteSetting, Collected
<1>25. CASE Trigger
    BY <1>25 DEF Trigger, Ends, Leaves
<1>26. CASE WorkflowRuns
    BY <1>26 DEF WorkflowRuns
<1>27. CASE UNCHANGED vars
    BY <1>27 DEF vars
<1> QED BY <1>1, <1>2, <1>3, <1>4, <1>5, <1>6, <1>7, <1>8, <1>9, <1>10, <1>11, <1>12, <1>13, <1>14, <1>15, <1>16, <1>17, <1>18, <1>19, <1>20, <1>21, <1>22, <1>23, <1>24, <1>25, <1>26, <1>27 DEF Next, WizardStep

(* A durable value of .env that counts does not change.                     *)
LEMMA EnvKept ==
    TypeOK /\ OneApp /\ [Next]_vars =>
        /\ HasApp => HasApp' /\ env'["pem"] = env["pem"]
        /\ \A k \in Durable : HasApp /\ env[k] # None => env'[k] = env[k]
<1> SUFFICES ASSUME TypeOK, OneApp, [Next]_vars, HasApp
             PROVE  HasApp' /\ \A k \in Durable : env[k] # None => env'[k] = env[k]
    BY DEF Durable, HasApp, FromEnv
<1> USE Values DEF TypeOK, WizardOK, StoredOK, Saved, Generated, Run, OneApp, HasApp, FromEnv, Durable
<1>4. CASE CollectToken
    BY <1>4 DEF CollectToken, Ensure, Save, FromEnv
<1>5. CASE CollectAccount
    BY <1>5 DEF CollectAccount, Ensure, Save, FromEnv
<1>7. CASE EnsureVaultKey
    BY <1>7 DEF EnsureVaultKey, Ensure, Save, FromEnv
<1>8. CASE EnsureProvisioningKey
    BY <1>8 DEF EnsureProvisioningKey, Ensure, Save, FromEnv
<1>9. CASE EnsureSigningKeys
    BY <1>9 DEF EnsureSigningKeys, Ensure, Save, FromEnv
<1>10. CASE EnsureOidcClientSecret
    BY <1>10 DEF EnsureOidcClientSecret, Save, FromEnv
<1>14. CASE PersistApp
    BY <1>14 DEF PersistApp, SaveApp, Save
<1>27. CASE ~ (CollectToken \/ CollectAccount \/ EnsureVaultKey \/ EnsureProvisioningKey \/ EnsureSigningKeys \/ EnsureOidcClientSecret \/ PersistApp)
    BY <1>27 DEF Next, WizardStep, vars, Keep, Elsewhere, Start, Fail, Upgrade, Answer, ReuseApp, CreateApp, Callback, Probe, GitInit, FirstCommit, CreateRepo, FirstPush, Checkout, CommitDrift, Push, EnvironmentReady, WriteSetting, Trigger, WorkflowRuns
<1> QED BY <1>4, <1>5, <1>7, <1>8, <1>9, <1>10, <1>14, <1>27

(* Only a write changes the Environment, and only the workflow what is deployed. *)
LEMMA ConfAndBaseKept ==
    [Next]_vars => (WriteSetting \/ conf' = conf) /\ (WorkflowRuns \/ base' = base)
BY DEF Next, WizardStep, vars, Keep, Elsewhere, Ensure, SaveApp, Start, Fail, Upgrade, CollectToken, CollectAccount, Answer, EnsureVaultKey, EnsureProvisioningKey, EnsureSigningKeys, EnsureOidcClientSecret, ReuseApp, CreateApp, Callback, PersistApp, Probe, GitInit, FirstCommit, CreateRepo, FirstPush, Checkout, CommitDrift, Push, EnvironmentReady, WriteSetting, Trigger, WorkflowRuns

(* What the Environment and the deployment have stays what .env has.        *)
LEMMA FromDotenvStep ==
    TypeOK /\ OneApp /\ FromDotenv(conf) /\ FromDotenv(base) /\ [Next]_vars
        => FromDotenv(conf)' /\ FromDotenv(base)'
<1> SUFFICES ASSUME TypeOK, OneApp, FromDotenv(conf), FromDotenv(base), [Next]_vars
             PROVE  FromDotenv(conf)' /\ FromDotenv(base)'
    OBVIOUS
<1>1. ASSUME NEW s, FromDotenv(s)
      PROVE  /\ \A k \in Durable : s[k] # None => s[k] = env'[k] /\ HasApp'
             /\ s["id"] # None => s["id"] = env'["pem"] /\ HasApp'
    BY <1>1, EnvKept DEF FromDotenv
<1>2. CASE conf' = conf /\ base' = base
    BY <1>1, <1>2 DEF FromDotenv
<1>3. CASE WorkflowRuns
  <2>1. base' \in {conf, base} /\ conf' = conf
      BY <1>3 DEF WorkflowRuns
  <2> QED BY <1>1, <2>1 DEF FromDotenv
<1>4. CASE WriteSetting
  <2>1. base' = base /\ env' = env
      BY <1>4 DEF WriteSetting
  <2>2. HasApp /\ HasApp' /\ id \in {None, env["pem"]}
      BY <1>4, <2>1 DEF WriteSetting, OneApp, Scaffolding, HasApp, FromEnv
  <2>3. \A s \in Setting : conf'[s] \in {conf[s], Collected(s)}
      BY <1>4 DEF WriteSetting, TypeOK, StoredOK
  <2>4. \A k \in Durable : k \in Setting /\ Collected(k) = env[k]
      BY DEF Durable, Generated, Setting, Secret, Collected
  <2>5. "id" \in Setting /\ Collected("id") = id
      BY DEF Setting, Collected
  <2> QED BY <1>1, <2>1, <2>2, <2>3, <2>4, <2>5 DEF FromDotenv
<1> QED BY <1>2, <1>3, <1>4, ConfAndBaseKept DEF WorkflowRuns, WriteSetting

(* The signing keys are written after everything else a deployment needs.   *)
LEMMA SignedLastStep ==
    TypeOK /\ KeysCollected /\ OneApp /\ SignedLast /\ [Next]_vars => SignedLast'
<1> SUFFICES ASSUME TypeOK, KeysCollected, OneApp, SignedLast, [Next]_vars PROVE SignedLast'
    OBVIOUS
<1>1. CASE WorkflowRuns
  <2>1. base' = base \/ (base' = conf /\ conf["sign"] # None)
      BY <1>1 DEF WorkflowRuns
  <2>2. conf' = conf /\ pc' = pc /\ at' = at
      BY <1>1 DEF WorkflowRuns, wizardVars
  <2> QED BY <2>1, <2>2 DEF SignedLast
<1>2. CASE WriteSetting
  <2> DEFINE s == Writes[at]
  <2>1. at \in 1 .. 10 /\ s \in Setting /\ at' = at + 1 /\ pc = "write" /\ pc' = pc /\ base' = base
      BY <1>2, WritesAre DEF WriteSetting, TypeOK, WizardOK
  <2>2. \A k \in Durable : env[k] # None
    <3>1. HasApp
        BY <2>1 DEF OneApp, Scaffolding
    <3> QED BY <2>1, <3>1, Values DEF KeysCollected, NoAccount, NoKeys, HasApp, FromEnv, OneApp, Durable, Generated
  <2>3. s \in Durable => conf'[s] # None
    <3>1. s \in Durable => s \in Secret /\ Collected(s) = env[s]
        BY DEF Durable, Generated, Secret, Collected
    <3> QED BY <1>2, <2>1, <2>2, <3>1 DEF WriteSetting, TypeOK, StoredOK
  <2>4. \A t \in Setting \ {s} : conf'[t] = conf[t]
      BY <1>2, <2>1 DEF WriteSetting, TypeOK, StoredOK
  <2>5. \A i \in 1 .. at' - 1 : Writes[i] \in Durable => conf'[Writes[i]] # None
    <3> SUFFICES ASSUME NEW i \in 1 .. at, Writes[i] \in Durable PROVE conf'[Writes[i]] # None
        BY <2>1
    <3>1. CASE Writes[i] = s
        BY <2>3, <3>1
    <3>2. CASE Writes[i] # s
      <4>1. i \in 1 .. at - 1 /\ i \in 1 .. 10
          BY <2>1, <3>2
      <4>2. conf[Writes[i]] # None
          BY <2>1, <4>1 DEF SignedLast
      <4> QED BY <2>4, <3>2, <4>1, <4>2, WritesAre
    <3> QED BY <3>1, <3>2
  <2>6. conf'["sign"] # None => \A k \in Durable : conf'[k] # None
    <3> SUFFICES ASSUME conf'["sign"] # None, NEW k \in Durable PROVE conf'[k] # None
        OBVIOUS
    <3>0. "sign" \in Setting /\ k \in Setting
        BY DEF Setting, Secret, Durable, Generated
    <3>1. CASE conf["sign"] # None
        BY <2>3, <2>4, <3>0, <3>1 DEF SignedLast
    <3>2. CASE conf["sign"] = None
      <4>1. at = 7
          BY <2>1, <2>4, <3>0, <3>2, WritesAre
      <4>2. PICK i \in 1 .. 7 : Writes[i] = k
          BY WritesAre
      <4> QED BY <2>1, <2>5, <4>1, <4>2
    <3> QED BY <3>1, <3>2
  <2> QED BY <2>1, <2>5, <2>6 DEF SignedLast
<1>3. CASE UNCHANGED <<conf, base>> /\ ~ WriteSetting
  <2>1. at' = at \/ at' = 1
      BY <1>3 DEF Next, WizardStep, vars, wizardVars, Keep, Elsewhere, Ensure, SaveApp, Ends, Leaves, Start, Fail, Upgrade, CollectToken, CollectAccount, Answer, EnsureVaultKey, EnsureProvisioningKey, EnsureSigningKeys, EnsureOidcClientSecret, ReuseApp, CreateApp, Callback, PersistApp, Probe, GitInit, FirstCommit, CreateRepo, FirstPush, Checkout, CommitDrift, Push, EnvironmentReady, WriteSetting, Trigger, WorkflowRuns
  <2>2. pc' = "write" => pc \in {"environment", "write"}
      BY <1>3 DEF Next, WizardStep, vars, wizardVars, Goto, Keep, Elsewhere, Ensure, SaveApp, Ends, Leaves, Start, Fail, Upgrade, CollectToken, CollectAccount, Answer, EnsureVaultKey, EnsureProvisioningKey, EnsureSigningKeys, EnsureOidcClientSecret, ReuseApp, CreateApp, Callback, PersistApp, Probe, GitInit, FirstCommit, CreateRepo, FirstPush, Checkout, CommitDrift, Push, EnvironmentReady, WriteSetting, Trigger, WorkflowRuns
  <2>3. pc' # "write" /\ pc = "write" => at' = 1
      BY <1>3 DEF Next, WizardStep, vars, wizardVars, Goto, Keep, Elsewhere, Ensure, SaveApp, Ends, Leaves, Start, Fail, Upgrade, CollectToken, CollectAccount, Answer, EnsureVaultKey, EnsureProvisioningKey, EnsureSigningKeys, EnsureOidcClientSecret, ReuseApp, CreateApp, Callback, PersistApp, Probe, GitInit, FirstCommit, CreateRepo, FirstPush, Checkout, CommitDrift, Push, EnvironmentReady, WriteSetting, Trigger, WorkflowRuns
  <2> QED BY <1>3, <2>1, <2>2, <2>3 DEF SignedLast
<1> QED BY <1>1, <1>2, <1>3, ConfAndBaseKept DEF WorkflowRuns, WriteSetting

(* The invariant holds before the first run, and every step keeps it.       *)
LEMMA WizardInit == Init => WizardInv
<1> SUFFICES ASSUME Init PROVE WizardInv
    OBVIOUS
<1> USE Values, Places, WritesAre, WizardAssumption DEF WizardAssumption, Init, Value, Run, Version
<1>1. TypeOK
  <2>1. WizardOK
      BY DEF WizardOK
  <2>2. ScaffoldOK
      BY DEF ScaffoldOK
  <2>3. StoredOK
      BY DEF StoredOK
  <2> QED BY <2>1, <2>2, <2>3 DEF TypeOK
<1>2. KeysCollected
    BY DEF KeysCollected, NoAccount, NoKeys
<1>3. OneApp
    BY DEF OneApp, Scaffolding, Saved
<1>4. \A s \in Setting : conf[s] = None /\ base[s] = None
    OBVIOUS
<1>5. Durable \cup {"id", "sign"} \subseteq Setting
    BY DEF Durable, Generated, Setting, Secret
<1>6. FromDotenv(conf) /\ FromDotenv(base) /\ SignedLast
    BY <1>4, <1>5 DEF FromDotenv, SignedLast
<1> QED BY <1>1, <1>2, <1>3, <1>6 DEF WizardInv

LEMMA WizardStepKeeps == WizardInv /\ [Next]_vars => WizardInv'
BY TypeStep, CollectedStep, OneAppStep, FromDotenvStep, SignedLastStep DEF WizardInv

(* Wherever runs of the wizard end, what they leave behind fits together.   *)
THEOREM WizardFits == Spec => []WizardInv
<1> QED BY WizardInit, WizardStepKeeps, PTL DEF Spec

(* A control plane has all of its keys, and the credentials of one App.     *)
THEOREM BaseAlwaysWhole == Spec => []BaseIsWhole
<1>1. WizardInv => BaseIsWhole
  <2> SUFFICES ASSUME WizardInv, NEW s \in Setting, base[s] # None
               PROVE  /\ \A k \in Durable : base[k] # None
                      /\ base["pem"] = base["webhook"]
                      /\ base["id"] \in {None, base["pem"]}
      BY DEF BaseIsWhole
  <2>1. \A k \in Durable : base[k] # None
      BY DEF WizardInv, SignedLast
  <2>2. base["pem"] = env["pem"] /\ base["webhook"] = env["webhook"] /\ HasApp
      BY <2>1 DEF WizardInv, FromDotenv, Durable
  <2> QED BY <2>1, <2>2 DEF WizardInv, FromDotenv, OneApp, HasApp, FromEnv
<1> QED BY <1>1, WizardFits, PTL

(* A control plane keeps what it was first deployed with.                   *)
THEOREM DurableKept == Spec => KeysAreDurable
<1>1. ASSUME WizardInv, [Next]_vars
      PROVE  [\A k \in Durable : base[k] # None => base'[k] = base[k]]_vars
  <2> SUFFICES ASSUME NEW k \in Durable, base[k] # None PROVE base'[k] = base[k]
      OBVIOUS
  <2>1. WorkflowRuns \/ base' = base
      BY <1>1, ConfAndBaseKept
  <2>2. base' = base \/ (base' = conf /\ conf["sign"] # None)
      BY <2>1 DEF WorkflowRuns
  <2>3. conf["sign"] # None => conf[k] = env[k]
      BY <1>1 DEF WizardInv, SignedLast, FromDotenv
  <2>4. base[k] = env[k]
      BY <1>1 DEF WizardInv, FromDotenv
  <2> QED BY <2>2, <2>3, <2>4
<1> QED BY <1>1, WizardFits, PTL DEF Spec, KeysAreDurable

(***************************************************************************)
(* Running it again.  That an operator who does so is done in the end,     *)
(* unless the checkout is stranded, is checked by TLC (Finishes).  Proved  *)
(* here is what it rests on: a run that neither fails nor is interrupted   *)
(* goes forward with every step, and gives up only where Stranded says it  *)
(* must, or where it took `gh repo view` failing for an absent repository. *)
(***************************************************************************)
\* Where a run is, and what the checkout and the repository are then.
OnTheWay ==
    /\ pc \in {"create", "upload", "push", "environment", "write"} => local.head = cli
    /\ pc \in {"upload", "drift", "push", "environment", "write"} => repo # None
    /\ pc \in {"first", "create", "upload", "drift", "push"} => local.git
    /\ pc \in {"first", "create"} => ~ local.origin
    /\ ~ local.git => ~ local.origin

\* The stages of init() in its order, with the two ways through scaffoldRepo().
Stages ==
    << {"token"}, {"account"}, {"answers"}, {"vault"}, {"provisioning"}, {"sign"}, {"oidc"},
       {"app"}, {"callback"}, {"pem"}, {"webhook"}, {"id"}, {"scaffold"}, {"init", "checkout"},
       {"first", "drift"}, {"create", "push"}, {"upload"}, {"environment"}, {"write"}, {"done"} >>

\* A run moves to a later stage, or writes the next setting.
Forward ==
    \/ \E i, j \in 1 .. Len(Stages) : i < j /\ pc \in Stages[i] /\ pc' \in Stages[j]
    \/ pc = "write" /\ pc' = "write" /\ at' = at + 1 /\ at' <= Len(Writes) + 1

\* `gh repo view` failed, and was read as there being no repository.
Misread == pc = "init" /\ repo # None

\* What a run of the wizard may do by itself (init()): go forward; or end, with the checkout
\* or the repository in the state that stops the next run too, or after a misread probe.
RunsForward == [][WizardStep => Forward \/ (pc' = "off" /\ (Stranded' \/ Misread))]_vars

(* Whatever a run reaches, the checkout and the repository allow for it.    *)
LEMMA OnTheWayStep == TypeOK /\ OnTheWay /\ [Next]_vars => OnTheWay'
<1> SUFFICES ASSUME TypeOK, OnTheWay, [Next]_vars PROVE OnTheWay'
    OBVIOUS
<1> USE Values DEF TypeOK, WizardOK, ScaffoldOK, Version, OnTheWay, Goto, Keep, wizardVars, scaffoldVars
<1>1. CASE Start
    BY <1>1 DEF Start
<1>2. CASE Fail
    BY <1>2 DEF Fail, Ends, Leaves
<1>3. CASE Upgrade
    BY <1>3 DEF Upgrade
<1>4. CASE CollectToken
    BY <1>4 DEF CollectToken, Ensure, Save, FromEnv
<1>5. CASE CollectAccount
    BY <1>5 DEF CollectAccount, Ensure, Save, FromEnv
<1>6. CASE Answer
    BY <1>6 DEF Answer
<1>7. CASE EnsureVaultKey
    BY <1>7 DEF EnsureVaultKey, Ensure, Save, FromEnv
<1>8. CASE EnsureProvisioningKey
    BY <1>8 DEF EnsureProvisioningKey, Ensure, Save, FromEnv
<1>9. CASE EnsureSigningKeys
    BY <1>9 DEF EnsureSigningKeys, Ensure, Save, FromEnv
<1>10. CASE EnsureOidcClientSecret
    BY <1>10 DEF EnsureOidcClientSecret, Save, FromEnv
<1>11. CASE ReuseApp
    BY <1>11 DEF ReuseApp, FromEnv
<1>12. CASE CreateApp
    BY <1>12 DEF CreateApp
<1>13. CASE Callback
    BY <1>13 DEF Callback
<1>14. CASE PersistApp
    BY <1>14 DEF PersistApp, SaveApp, Save
<1>15. CASE Probe
    BY <1>15 DEF Probe
<1>16. CASE GitInit
    BY <1>16 DEF GitInit, Ends, Leaves
<1>17. CASE FirstCommit
    BY <1>17 DEF FirstCommit, Elsewhere
<1>18. CASE CreateRepo
    BY <1>18 DEF CreateRepo, Ends, Leaves
<1>19. CASE FirstPush
    BY <1>19 DEF FirstPush, PushTriggers
<1>20. CASE Checkout
    BY <1>20 DEF Checkout, Elsewhere
<1>21. CASE CommitDrift
    BY <1>21 DEF CommitDrift, Elsewhere
<1>22. CASE Push
    BY <1>22 DEF Push, Ends, Leaves, PushTriggers
<1>23. CASE EnvironmentReady
    BY <1>23 DEF EnvironmentReady
<1>24. CASE WriteSetting
    BY <1>24 DEF WriteSetting
<1>25. CASE Trigger
    BY <1>25 DEF Trigger, Ends, Leaves
<1>26. CASE WorkflowRuns
    BY <1>26 DEF WorkflowRuns
<1>27. CASE UNCHANGED vars
    BY <1>27 DEF vars
<1> QED BY <1>1, <1>2, <1>3, <1>4, <1>5, <1>6, <1>7, <1>8, <1>9, <1>10, <1>11, <1>12, <1>13, <1>14, <1>15, <1>16, <1>17, <1>18, <1>19, <1>20, <1>21, <1>22, <1>23, <1>24, <1>25, <1>26, <1>27 DEF Next, WizardStep

(* The same wherever earlier runs have ended.                               *)
THEOREM EveryRunOnTheWay == Spec => [](TypeOK /\ OnTheWay)
<1>1. Init => TypeOK /\ OnTheWay
    BY WizardInit DEF WizardInv, Init, OnTheWay
<1>2. TypeOK /\ OnTheWay /\ [Next]_vars => (TypeOK /\ OnTheWay)'
    BY TypeStep, OnTheWayStep
<1> QED BY <1>1, <1>2, PTL DEF Spec

(* What the stages are, and a move from one to a later one.                 *)
LEMMA StagesAre ==
    /\ Len(Stages) = 20
    /\ Stages[1] = {"token"} /\ Stages[2] = {"account"} /\ Stages[3] = {"answers"}
    /\ Stages[4] = {"vault"} /\ Stages[5] = {"provisioning"} /\ Stages[6] = {"sign"}
    /\ Stages[7] = {"oidc"} /\ Stages[8] = {"app"} /\ Stages[9] = {"callback"}
    /\ Stages[10] = {"pem"} /\ Stages[11] = {"webhook"} /\ Stages[12] = {"id"}
    /\ Stages[13] = {"scaffold"} /\ Stages[14] = {"init", "checkout"}
    /\ Stages[15] = {"first", "drift"} /\ Stages[16] = {"create", "push"}
    /\ Stages[17] = {"upload"} /\ Stages[18] = {"environment"}
    /\ Stages[19] = {"write"} /\ Stages[20] = {"done"}
BY DEF Stages

LEMMA Moves ==
    ASSUME NEW i \in 1 .. 20, NEW j \in 1 .. 20, i < j, pc \in Stages[i], pc' \in Stages[j]
    PROVE  Forward
BY StagesAre DEF Forward

(* A run that is not cut short goes forward, or ends stranded.              *)
THEOREM GoesForward == Spec => RunsForward
<1>1. ASSUME TypeOK, OnTheWay, WizardStep
      PROVE  Forward \/ (pc' = "off" /\ (Stranded' \/ Misread))
  <2> USE Values DEF TypeOK, WizardOK, ScaffoldOK, Version, OnTheWay, Goto, Keep, wizardVars, scaffoldVars
  <2>1. CASE CollectToken
    <3>1. pc \in Stages[1] /\ pc' \in Stages[2]
        BY <1>1, <2>1, StagesAre DEF CollectToken, Ensure, Save, FromEnv
    <3> QED BY <3>1, Moves
  <2>2. CASE CollectAccount
    <3>1. pc \in Stages[2] /\ pc' \in Stages[3]
        BY <1>1, <2>2, StagesAre DEF CollectAccount, Ensure, Save, FromEnv
    <3> QED BY <3>1, Moves
  <2>3. CASE Answer
    <3>1. pc \in Stages[3] /\ pc' \in Stages[4]
        BY <1>1, <2>3, StagesAre DEF Answer
    <3> QED BY <3>1, Moves
  <2>4. CASE EnsureVaultKey
    <3>1. pc \in Stages[4] /\ pc' \in Stages[5]
        BY <1>1, <2>4, StagesAre DEF EnsureVaultKey, Ensure, Save, FromEnv
    <3> QED BY <3>1, Moves
  <2>5. CASE EnsureProvisioningKey
    <3>1. pc \in Stages[5] /\ pc' \in Stages[6]
        BY <1>1, <2>5, StagesAre DEF EnsureProvisioningKey, Ensure, Save, FromEnv
    <3> QED BY <3>1, Moves
  <2>6. CASE EnsureSigningKeys
    <3>1. pc \in Stages[6] /\ pc' \in Stages[7]
        BY <1>1, <2>6, StagesAre DEF EnsureSigningKeys, Ensure, Save, FromEnv
    <3> QED BY <3>1, Moves
  <2>7. CASE EnsureOidcClientSecret
    <3>1. pc \in Stages[7] /\ pc' \in Stages[8]
        BY <1>1, <2>7, StagesAre DEF EnsureOidcClientSecret, Save, FromEnv
    <3> QED BY <3>1, Moves
  <2>8. CASE ReuseApp
    <3>1. pc \in Stages[8] /\ pc' \in Stages[13]
        BY <1>1, <2>8, StagesAre DEF ReuseApp, FromEnv
    <3> QED BY <3>1, Moves
  <2>9. CASE CreateApp
    <3>1. pc \in Stages[8] /\ pc' \in Stages[9]
        BY <1>1, <2>9, StagesAre DEF CreateApp
    <3> QED BY <3>1, Moves
  <2>10. CASE Callback
    <3>1. pc \in Stages[9] /\ pc' \in Stages[10]
        BY <1>1, <2>10, StagesAre DEF Callback
    <3> QED BY <3>1, Moves
  <2>11. CASE PersistApp
    <3>1. \/ pc \in Stages[10] /\ pc' \in Stages[11]
          \/ pc \in Stages[11] /\ pc' \in Stages[12]
          \/ pc \in Stages[12] /\ pc' \in Stages[13]
        BY <1>1, <2>11, StagesAre DEF PersistApp, SaveApp, Save
    <3> QED BY <3>1, Moves
  <2>12. CASE Probe
    <3>1. pc \in Stages[13] /\ pc' \in Stages[14]
        BY <1>1, <2>12, StagesAre DEF Probe
    <3> QED BY <3>1, Moves
  <2>13. CASE GitInit
    <3>1. \/ pc \in Stages[14] /\ pc' \in Stages[15]
          \/ pc' = "off" /\ (Stranded' \/ Misread)
        BY <1>1, <2>13, StagesAre DEF GitInit, Ends, Leaves, Stranded, Misread
    <3> QED BY <3>1, Moves
  <2>14. CASE FirstCommit
    <3>1. pc \in Stages[15] /\ pc' \in Stages[16]
        BY <1>1, <2>14, StagesAre DEF FirstCommit, Elsewhere
    <3> QED BY <3>1, Moves
  <2>15. CASE CreateRepo
    <3>1. \/ pc \in Stages[16] /\ pc' \in Stages[17]
          \/ pc' = "off" /\ (Stranded' \/ Misread)
        BY <1>1, <2>15, StagesAre DEF CreateRepo, Ends, Leaves, Stranded, Misread
    <3> QED BY <3>1, Moves
  <2>16. CASE FirstPush
    <3>1. pc \in Stages[17] /\ pc' \in Stages[18]
        BY <1>1, <2>16, StagesAre DEF FirstPush, PushTriggers
    <3> QED BY <3>1, Moves
  <2>17. CASE Checkout
    <3>1. pc \in Stages[14] /\ pc' \in Stages[15]
        BY <1>1, <2>17, StagesAre DEF Checkout, Elsewhere
    <3> QED BY <3>1, Moves
  <2>18. CASE CommitDrift
    <3>1. \/ pc \in Stages[15] /\ pc' \in Stages[16]
          \/ pc \in Stages[15] /\ pc' \in Stages[18]
        BY <1>1, <2>18, StagesAre DEF CommitDrift, Elsewhere
    <3> QED BY <3>1, Moves
  <2>19. CASE Push
    <3>1. \/ pc \in Stages[16] /\ pc' \in Stages[18]
          \/ pc' = "off" /\ (Stranded' \/ Misread)
        BY <1>1, <2>19, StagesAre DEF Push, Ends, Leaves, PushTriggers, Stranded, Misread
    <3> QED BY <3>1, Moves
  <2>20. CASE EnvironmentReady
    <3>1. pc \in Stages[18] /\ pc' \in Stages[19]
        BY <1>1, <2>20, StagesAre DEF EnvironmentReady
    <3> QED BY <3>1, Moves
  <2>21. CASE WriteSetting
      BY <1>1, <2>21, WritesAre DEF WriteSetting, Forward
  <2>22. CASE Trigger
    <3>1. \/ pc \in Stages[19] /\ pc' \in Stages[20]
          \/ pc' = "off" /\ (Stranded' \/ Misread)
        BY <1>1, <2>22, StagesAre DEF Trigger, Ends, Leaves, Stranded, Misread
    <3> QED BY <3>1, Moves
  <2> QED BY <1>1, <2>1, <2>2, <2>3, <2>4, <2>5, <2>6, <2>7, <2>8, <2>9, <2>10, <2>11, <2>12, <2>13, <2>14, <2>15, <2>16, <2>17, <2>18, <2>19, <2>20, <2>21, <2>22 DEF WizardStep
<1> QED BY <1>1, EveryRunOnTheWay, PTL DEF RunsForward
=============================================================================
