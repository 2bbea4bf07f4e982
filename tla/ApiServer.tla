----------------------------- MODULE ApiServer -----------------------------
(***************************************************************************)
(* The control plane's API: the router and its ACL (api/router.ts, iam.ts),*)
(* the registry and deploy handlers (api/registry.ts, api/runs.ts), the    *)
(* tables behind them (db.ts and its migrations), and the dashboard's page *)
(* of runs, which loads the history a page at a time while all of this     *)
(* goes on (dashboard/src/routes/runs).  A step ends at an await.          *)
(*                                                                         *)
(* An app has one environment, one secret and one var, each known by the   *)
(* request that wrote it.  Layers of secrets are Vault's, trigger refs     *)
(* Triggers', and what becomes of a run RunLifecycle's.                    *)
(***************************************************************************)
EXTENDS Integers, Sequences, FiniteSets

CONSTANTS
    App, Request, User,
    Admins,          \* bootstrap admins, and who bears the provisioning key
    Grants,          \* what each user holds: actions on an app or on Global
    Global,          \* no scope: every app
    Viewer,          \* who has the page of runs open
    Old, NoRow,      \* a row from before, and none
    OldRun,          \* the runs from before: the app of each
    MaxRun,          \* bound: runs
    Limit,           \* rows of a page
    Budget           \* failures of D1, the queue or the audit (a bound)

Action == {"app.manage", "secret.manage", "deploy.trigger", "deploy.read"}

ASSUME ApiAssumption ==
    /\ Grants \in [User -> SUBSET [action : Action, scope : App \cup {Global}]]
    /\ Admins \subseteq User /\ Viewer \in User /\ App # {}
    /\ Global \notin App /\ Old \notin Request /\ NoRow \notin Request \cup {Old} \cup App
    /\ OldRun \in Seq(App) /\ MaxRun \in Nat /\ Len(OldRun) <= MaxRun
    /\ Limit \in Nat \ {0} /\ Budget \in Nat

Kind == {"env", "secret", "var"}
RunId == 1 .. MaxRun

VARIABLES
    app,      \* apps: the request that created each
    row,      \* app_envs, app_secrets, app_vars
    runs,     \* runs: the app of each, by id
    minted,   \* the ids drawn so far: uuidv7() is ordered by time
    by,       \* history: the request of each id
    req,      \* the requests: who asks for what, about which app
    pc, id,   \* each request: its handler's step, the id it has drawn
    made,     \* history: the requests whose change was made
    form, applied,         \* the page: its filter, and the one the list was loaded with
    shown, cursor, opened, \* the list (how often each run is in it), where to go on,
                           \* and the page as it was opened
    since,    \* history: the runs there were when the list was begun
    budget

tables == <<app, row, runs, minted, by>>
server == <<tables, req, pc, id, made, budget>>
page == <<form, applied, shown, cursor, opened, since>>
vars == <<server, page>>

Op == {"register", "create", "update", "delete", "putEnv", "dropEnv", "putSecret",
       "dropSecret", "putVar", "dropVar", "deploy"}
NoRequest == [user |-> Viewer, op |-> "update", app |-> CHOOSE a \in App : TRUE]
Working == {"check", "checkEnv", "write", "writeEnv", "send", "audit"}
Place == {"idle", "refused", "ok", "rejected", "error"} \cup Working
Blank == [i \in RunId |-> 0]
Closed == [shown |-> Blank, cursor |-> 0, since |-> {}]

TablesOK ==
    /\ app \in [App -> Request \cup {Old, NoRow}]
    /\ row \in [Kind -> [App -> Request \cup {Old, NoRow}]]
    /\ runs \in [RunId -> App \cup {NoRow}] /\ minted \in 0 .. MaxRun
    /\ by \in [RunId -> Request \cup {Old, NoRow}]

RequestsOK ==
    /\ req \in [Request -> [user : User, op : Op, app : App]]
    /\ pc \in [Request -> Place]
    /\ id \in [Request -> RunId \cup {0}]
    /\ made \subseteq Request /\ budget \in 0 .. Budget

PageOK ==
    /\ form \in App \cup {Global} /\ applied \in App \cup {Global, NoRow}
    /\ shown \in [RunId -> Nat] /\ cursor \in RunId \cup {0}
    /\ opened \in [shown : [RunId -> Nat], cursor : RunId \cup {0}, since : SUBSET RunId]
    /\ since \subseteq RunId

TypeOK == TablesOK /\ RequestsOK /\ PageOK

Init ==
    /\ app \in [App -> {Old, NoRow}] /\ \A i \in DOMAIN OldRun : app[OldRun[i]] = Old
    /\ row = [k \in Kind |-> app]
    /\ runs = [i \in RunId |-> IF i <= Len(OldRun) THEN OldRun[i] ELSE NoRow]
    /\ minted = Len(OldRun)
    /\ by = [i \in RunId |-> IF i <= Len(OldRun) THEN Old ELSE NoRow]
    /\ req = [q \in Request |-> NoRequest]
    /\ pc = [q \in Request |-> "idle"] /\ id = [q \in Request |-> 0]
    /\ made = {}
    /\ form = Global /\ applied = NoRow /\ shown = Blank /\ cursor = 0 /\ opened = Closed /\ since = {}
    /\ budget = Budget

(***************************************************************************)
(* The router.                                                             *)
(***************************************************************************)
\* withProvisioningKey(), withBootstrapAdmins(): every action, whatever propustka grants.
Held(u) == IF u \in Admins THEN [action : Action, scope : {Global}] ELSE Grants[u]

\* AuthContext.can(): a grant without a scope, or on the app asked about.
Can(u, action, scope) ==
    \E g \in Held(u) : g.action = action /\ g.scope \in {Global, scope}

\* Mutant: the routes of secrets ask for what the other nested routes ask for.
RouteAlike(op, a) ==
    CASE op = "deploy" -> [action |-> "deploy.trigger", scope |-> Global]
      [] op \in {"register", "create"} -> [action |-> "app.manage", scope |-> Global]
      [] OTHER -> [action |-> "app.manage", scope |-> a]

\* dispatch(): what each route asks for.
Route(op, a) ==
    CASE op = "deploy" -> [action |-> "deploy.trigger", scope |-> Global]
      [] op \in {"register", "create"} -> [action |-> "app.manage", scope |-> Global]
      [] op \in {"putSecret", "dropSecret"} -> [action |-> "secret.manage", scope |-> a]
      [] OTHER -> [action |-> "app.manage", scope |-> a]

Unchecked == {"delete", "dropEnv", "dropSecret", "dropVar"}

\* authorize(), then on to the handler: 401 or 403 without the grant.
Dispatch(q, u, op, a) ==
    LET r == Route(op, a) IN
    /\ pc[q] = "idle"
    /\ req' = [req EXCEPT ![q] = [user |-> u, op |-> op, app |-> a]]
    /\ pc' = [pc EXCEPT ![q] = IF ~Can(u, r.action, r.scope) THEN "refused"
                               ELSE IF op \in Unchecked THEN "write" ELSE "check"]
    /\ UNCHANGED <<tables, id, made, budget, page>>

(***************************************************************************)
(* The handlers.                                                           *)
(***************************************************************************)
At(q, place, ops) == pc[q] = place /\ req[q].op \in ops
Goto(q, place) == pc' = [pc EXCEPT ![q] = place]
Creates == {"register", "create"}

\* getApp(): 409 if there is one already, 404 if there is none.
Check(q) ==
    LET exists == app[req[q].app] # NoRow IN
    /\ pc[q] = "check"
    /\ Goto(q, IF exists = (req[q].op \in Creates) THEN "rejected"
               ELSE IF req[q].op = "deploy" THEN "checkEnv" ELSE "write")
    /\ UNCHANGED <<tables, req, id, made, budget, page>>

\* getAppEnv(), and the id of the run to be.
CheckEnv(q) ==
    /\ pc[q] = "checkEnv"
    /\ IF row["env"][req[q].app] = NoRow
       THEN Goto(q, "rejected") /\ UNCHANGED <<minted, by, id>>
       ELSE /\ minted < MaxRun /\ minted' = minted + 1
            /\ id' = [id EXCEPT ![q] = minted'] /\ by' = [by EXCEPT ![minted'] = q]
            /\ Goto(q, "write")
    /\ UNCHANGED <<app, row, runs, req, made, budget, page>>

\* A statement that violates a constraint throws, and the router answers 500.
Throws(q) == Goto(q, "error") /\ UNCHANGED <<tables, made>>
Made(q) == made' = made \cup {q}

\* Mutant: an existing row of the id is replaced.
CreateOrReplace(q) ==
    LET a == req[q].app IN
    /\ At(q, "write", Creates)
    /\ app' = [app EXCEPT ![a] = q] /\ UNCHANGED <<row, runs, minted, by>>
    /\ Made(q) /\ Goto(q, IF req[q].op = "register" THEN "writeEnv" ELSE "audit")
    /\ UNCHANGED <<req, id, budget, page>>

\* The primary key stands when another request has created the app meanwhile.
CreateApp(q) ==
    LET a == req[q].app IN
    /\ At(q, "write", Creates)
    /\ IF app[a] # NoRow THEN Throws(q)
       ELSE /\ app' = [app EXCEPT ![a] = q] /\ UNCHANGED <<row, runs, minted, by>>
            /\ Made(q) /\ Goto(q, IF req[q].op = "register" THEN "writeEnv" ELSE "audit")
    /\ UNCHANGED <<req, id, budget, page>>

\* The update of a row that is gone is audited too, and answered with 404.
UpdateApp(q) ==
    /\ At(q, "write", {"update"})
    /\ made' = IF app[req[q].app] # NoRow THEN made \cup {q} ELSE made
    /\ Goto(q, "audit")
    /\ UNCHANGED <<tables, req, id, budget, page>>

\* Mutant: a table whose foreign key does not cascade.
DeleteAppKeepingVars(q) ==
    LET a == req[q].app IN
    /\ At(q, "write", {"delete"})
    /\ IF app[a] = NoRow THEN Goto(q, "rejected") /\ UNCHANGED <<tables, made>>
       ELSE /\ app' = [app EXCEPT ![a] = NoRow]
            /\ row' = [k \in Kind |-> IF k = "var" THEN row[k] ELSE [row[k] EXCEPT ![a] = NoRow]]
            /\ runs' = [i \in RunId |-> IF runs[i] = a THEN NoRow ELSE runs[i]]
            /\ Made(q) /\ Goto(q, "audit") /\ UNCHANGED <<minted, by>>
    /\ UNCHANGED <<req, id, budget, page>>

\* Every row that references the app goes with it, its runs included.
DeleteApp(q) ==
    LET a == req[q].app IN
    /\ At(q, "write", {"delete"})
    /\ IF app[a] = NoRow THEN Goto(q, "rejected") /\ UNCHANGED <<tables, made>>
       ELSE /\ app' = [app EXCEPT ![a] = NoRow]
            /\ row' = [k \in Kind |-> [row[k] EXCEPT ![a] = NoRow]]
            /\ runs' = [i \in RunId |-> IF runs[i] = a THEN NoRow ELSE runs[i]]
            /\ Made(q) /\ Goto(q, "audit") /\ UNCHANGED <<minted, by>>
    /\ UNCHANGED <<req, id, budget, page>>

Table(q) ==
    IF req[q].op \in {"putEnv", "dropEnv", "register"} THEN "env"
    ELSE IF req[q].op \in {"putSecret", "dropSecret"} THEN "secret" ELSE "var"

\* upsertAppEnv(), upsertAppSecret(), upsertAppVar(): the foreign key stands when the
\* app has been deleted meanwhile.
Upsert(q) ==
    /\ At(q, "write", {"putEnv", "putSecret", "putVar"}) \/ At(q, "writeEnv", {"register"})
    /\ IF app[req[q].app] = NoRow THEN Throws(q)
       ELSE /\ row' = [row EXCEPT ![Table(q)][req[q].app] = q] /\ UNCHANGED <<app, runs, minted, by>>
            /\ Made(q) /\ Goto(q, "audit")
    /\ UNCHANGED <<req, id, budget, page>>

\* 404 when there was no row to delete.
Drop(q) ==
    /\ At(q, "write", {"dropEnv", "dropSecret", "dropVar"})
    /\ IF row[Table(q)][req[q].app] = NoRow THEN Goto(q, "rejected") /\ UNCHANGED <<tables, made>>
       ELSE /\ row' = [row EXCEPT ![Table(q)][req[q].app] = NoRow] /\ UNCHANGED <<app, runs, minted, by>>
            /\ Made(q) /\ Goto(q, "audit")
    /\ UNCHANGED <<req, id, budget, page>>

\* createRun(); ids that were drawn in one order may be inserted in another.
CreateRun(q) ==
    /\ At(q, "write", {"deploy"})
    /\ IF app[req[q].app] = NoRow THEN Throws(q)
       ELSE /\ runs' = [runs EXCEPT ![id[q]] = req[q].app] /\ UNCHANGED <<app, row, minted, by>>
            /\ Made(q) /\ Goto(q, "send")
    /\ UNCHANGED <<req, id, budget, page>>

Send(q) ==
    /\ pc[q] = "send" /\ Goto(q, "audit")
    /\ UNCHANGED <<tables, req, id, made, budget, page>>

Audit(q) ==
    /\ pc[q] = "audit"
    /\ Goto(q, IF req[q].op = "update" /\ q \notin made THEN "rejected" ELSE "ok")
    /\ UNCHANGED <<tables, req, id, made, budget, page>>

\* A call throws: 500, after what was done before it.
Fails(q) ==
    /\ pc[q] \in Working /\ budget > 0
    /\ budget' = budget - 1
    /\ Goto(q, "error")
    /\ UNCHANGED <<tables, req, id, made, page>>

(***************************************************************************)
(* The page of runs.                                                       *)
(***************************************************************************)
Matching(f) == {i \in RunId : runs[i] # NoRow /\ f \in {Global, runs[i]}}
Newest(n, S) == {i \in S : Cardinality({j \in S : j > i}) < n}

\* Mutant: pages are counted off from the top.
PageByOffset(f, before) ==
    LET skip == IF before = 0 THEN 0 ELSE Cardinality({i \in RunId : shown[i] > 0}) IN
    Newest(skip + Limit, Matching(f)) \ Newest(skip, Matching(f))

\* listRuns(): the newest rows below the cursor.
Page(f, before) == Newest(Limit, {i \in Matching(f) : before = 0 \/ i < before})

\* The next cursor is the last id of a full page.
GoesOn(items) ==
    /\ cursor' \in RunId \cup {0}
    /\ IF Cardinality(items) = Limit THEN cursor' \in items /\ \A i \in items : cursor' <= i
       ELSE cursor' = 0

Extended(list, items) == [i \in RunId |-> IF i \in items THEN list[i] + 1 ELSE list[i]]

\* The loader also lists the apps, which takes the right to manage them.
OpenPage ==
    LET items == Page(Global, 0) IN
    /\ applied = NoRow
    /\ Can(Viewer, "deploy.read", Global) /\ Can(Viewer, "app.manage", Global)
    /\ applied' = Global /\ shown' = Extended(Blank, items) /\ GoesOn(items) /\ since' = Matching(Global)
    /\ opened' = [shown |-> shown', cursor |-> cursor', since |-> since']
    /\ UNCHANGED <<form, server>>

EditFilter(f) ==
    /\ applied # NoRow /\ f # form
    /\ form' = f
    /\ UNCHANGED <<applied, shown, cursor, opened, since, server>>

\* "Filter": the list is loaded anew.
Filter ==
    LET items == Page(form, 0) IN
    /\ applied # NoRow /\ Can(Viewer, "deploy.read", form)
    /\ applied' = form /\ shown' = Extended(Blank, items) /\ GoesOn(items) /\ since' = Matching(form)
    /\ UNCHANGED <<form, opened, server>>

\* "Load more" takes the filter as it stands in the form.
LoadMore ==
    LET items == Page(form, cursor) IN
    /\ applied # NoRow /\ cursor # 0 /\ Can(Viewer, "deploy.read", form)
    /\ shown' = Extended(shown, items) /\ GoesOn(items)
    /\ since' = IF form = applied THEN since ELSE {}
    /\ UNCHANGED <<form, applied, opened, server>>

\* "Reset": back to the page as it was opened.
Reset ==
    /\ applied # NoRow
    /\ form' = Global /\ applied' = Global
    /\ shown' = opened.shown /\ cursor' = opened.cursor /\ since' = opened.since
    /\ UNCHANGED <<opened, server>>

-----------------------------------------------------------------------------
Handler(q) ==
    \/ Check(q) \/ CheckEnv(q)
    \/ CreateApp(q) \/ UpdateApp(q) \/ DeleteApp(q) \/ Upsert(q) \/ Drop(q) \/ CreateRun(q)
    \/ Send(q) \/ Audit(q) \/ Fails(q)

Browser == OpenPage \/ Filter \/ LoadMore \/ Reset \/ \E f \in App \cup {Global} : EditFilter(f)

Next ==
    \/ \E q \in Request, u \in User, op \in Op, a \in App : Dispatch(q, u, op, a)
    \/ \E q \in Request : Handler(q)
    \/ Browser

Spec == Init /\ [][Next]_vars

-----------------------------------------------------------------------------
RowsHaveApps ==
    /\ \A k \in Kind, a \in App : row[k][a] # NoRow => app[a] # NoRow
    /\ \A i \in RunId : runs[i] # NoRow => app[runs[i]] # NoRow

AnswersAreTrue ==
    \A q \in Request : /\ pc[q] = "ok" => q \in made
                       /\ pc[q] \in {"refused", "rejected"} => q \notin made

Progress ==
    \A q \in Request :
        /\ pc[q] \in {"writeEnv", "send"} \/ (pc[q] = "audit" /\ req[q].op # "update") => q \in made
        /\ pc[q] \in {"idle", "check", "checkEnv", "write"} => q \notin made

\* Rows outlive no app, whichever requests overlap its deletion: what is checked before
\* a write is stale by the time of it, the foreign keys are not.  And the answers are
\* true: a success has changed the registry, a 4xx has not (a 500 may have).
ApiInv == TypeOK /\ RowsHaveApps /\ AnswersAreTrue /\ Progress

\* Of two requests that create one app, both past the check, one creates it: an app is
\* never another's before it is deleted.
AppKeepsIdentity ==
    [][\A a \in App : app[a] # NoRow /\ app'[a] # NoRow => app'[a] = app[a]]_vars

\* Whatever stands in the registry was written by someone who may write it.
RowsAreGranted ==
    /\ \A a \in App :
        /\ app[a] \in Request => Can(req[app[a]].user, "app.manage", Global)
        /\ \A k \in Kind : row[k][a] \in Request =>
             Can(req[row[k][a]].user, IF k = "secret" THEN "secret.manage" ELSE "app.manage", a)
    /\ \A i \in RunId : runs[i] # NoRow /\ by[i] \in Request =>
         Can(req[by[i]].user, "deploy.trigger", runs[i])

\* A list has no run twice, and one that was loaded to its end has every run that was
\* there when it was begun, while runs come and go: as long as the filter was not edited
\* between two of its pages.
PagesCoverHistory ==
    /\ \A i \in RunId : shown[i] <= 1
    /\ (applied # NoRow /\ cursor = 0) => \A i \in since : runs[i] # NoRow => shown[i] = 1
=============================================================================
