----------------------------- MODULE ApiProofs -----------------------------
(***************************************************************************)
(* What ApiServer guarantees for every set of apps, users and requests.    *)
(*                                                                         *)
(* ApiInv is inductive: the foreign keys keep RowsHaveApps by themselves,  *)
(* and Progress follows each handler from its checks (nothing is made yet) *)
(* to its answer.  Grants are the second invariant: who may act is decided *)
(* when the request is dispatched, and the request does not change after.  *)
(* The third, of the page of runs, says of a list what it has down to its  *)
(* cursor; it needs IdsInv, that no run is inserted under an id that a list*)
(* already counts, and what the newest rows of a set are (NewestFirst).    *)
(***************************************************************************)
EXTENDS ApiServer, FiniteSetTheorems, TLAPS

(* NoRow is no row.                                                         *)
LEMMA NoRowIsNone == NoRow \notin Request /\ NoRow # Old /\ NoRow \notin App /\ Old \notin Request
BY ApiAssumption DEF ApiAssumption

USE DEF Kind, RunId

(* A handler that goes on from a state of the right type goes on to a place.*)
LEMMA Moves ==
    ASSUME TypeOK, NEW q \in Request, NEW place \in Place, Goto(q, place)
    PROVE  pc' \in [Request -> Place]
BY DEF TypeOK, RequestsOK, Goto

(* What the literals of the handlers are.                                   *)
LEMMA Places ==
    /\ {"idle", "refused", "ok", "rejected", "error", "check", "checkEnv", "write", "writeEnv",
        "send", "audit"} \subseteq Place
    /\ NoRequest \in [user : User, op : Op, app : App]
BY ApiAssumption DEF ApiAssumption, Place, Working, NoRequest, Op

(* What a page shows is made of runs.                                       *)
LEMMA PagesAreRuns ==
    /\ \A f : Matching(f) \subseteq RunId
    /\ \A f, before : Page(f, before) \subseteq RunId
    /\ \A list \in [RunId -> Nat], items \in SUBSET RunId : Extended(list, items) \in [RunId -> Nat]
    /\ Blank \in [RunId -> Nat]
<1>1. \A n, S : Newest(n, S) \subseteq S
    BY DEF Newest
<1>2. \A f : Matching(f) \subseteq RunId
    BY DEF Matching
<1>3. \A f, before : Page(f, before) \subseteq Matching(f)
    BY <1>1 DEF Page
<1>4. \A list \in [RunId -> Nat], items \in SUBSET RunId : Extended(list, items) \in [RunId -> Nat]
    BY DEF Extended
<1> QED BY <1>2, <1>3, <1>4 DEF Blank

(* The initial states satisfy the invariant.                                *)
LEMMA ApiInit == Init => ApiInv
<1> SUFFICES ASSUME Init PROVE ApiInv
    OBVIOUS
<1> USE ApiAssumption, NoRowIsNone, Places DEF ApiAssumption
<1>1. Len(OldRun) \in 0 .. MaxRun /\ OldRun \in [1 .. Len(OldRun) -> App]
    OBVIOUS
<1>2. app \in [App -> Request \cup {Old, NoRow}]
    BY DEF Init
<1>3. row \in [Kind -> [App -> Request \cup {Old, NoRow}]]
    BY <1>2 DEF Init
<1>4. runs \in [RunId -> App \cup {NoRow}] /\ by \in [RunId -> Request \cup {Old, NoRow}]
    BY <1>1 DEF Init
<1>5. TablesOK
    BY <1>1, <1>2, <1>3, <1>4 DEF Init, TablesOK
<1>6. RequestsOK
    BY DEF Init, RequestsOK
<1>7. PageOK
  <2>1. Closed \in [shown : [RunId -> Nat], cursor : RunId \cup {0}, since : SUBSET RunId]
      BY PagesAreRuns DEF Closed
  <2> QED BY <2>1, PagesAreRuns DEF Init, PageOK
<1>8. RowsHaveApps
  <2>1. \A i \in RunId : runs[i] # NoRow => app[runs[i]] = Old
      BY <1>1 DEF Init
  <2> QED BY <2>1 DEF Init, RowsHaveApps
<1>9. AnswersAreTrue /\ Progress
    BY DEF Init, AnswersAreTrue, Progress
<1> QED BY <1>5, <1>6, <1>7, <1>8, <1>9 DEF ApiInv, TypeOK

(* A deleted app takes its rows along.                                      *)
LEMMA Deleted ==
    ASSUME TablesOK, RowsHaveApps, NEW a \in App,
           app' = [app EXCEPT ![a] = NoRow],
           row' = [k \in Kind |-> [row[k] EXCEPT ![a] = NoRow]],
           runs' = [i \in RunId |-> IF runs[i] = a THEN NoRow ELSE runs[i]],
           UNCHANGED <<minted, by>>
    PROVE  TablesOK' /\ RowsHaveApps'
<1>1. app' \in [App -> Request \cup {Old, NoRow}] /\ \A b \in App \ {a} : app'[b] = app[b]
    BY DEF TablesOK
<1>2. \A k \in Kind : row'[k] \in [App -> Request \cup {Old, NoRow}]
    BY DEF TablesOK
<1>3. row' \in [Kind -> [App -> Request \cup {Old, NoRow}]]
    BY <1>2
<1>4. \A k \in Kind, b \in App : row'[k][b] # NoRow => b # a /\ row[k][b] # NoRow
    BY DEF TablesOK
<1>5. runs' \in [RunId -> App \cup {NoRow}]
    BY DEF TablesOK
<1>6. \A i \in RunId : runs'[i] # NoRow => runs'[i] = runs[i] /\ runs[i] \in App \ {a}
    BY DEF TablesOK
<1> QED BY <1>1, <1>3, <1>4, <1>5, <1>6 DEF TablesOK, RowsHaveApps

(* One row changes, and one that is there then has its app.                 *)
LEMMA RowChanged ==
    ASSUME TablesOK, RowsHaveApps, NEW k \in Kind, NEW a \in App, NEW v \in Request \cup {NoRow},
           v # NoRow => app[a] # NoRow,
           row' = [row EXCEPT ![k][a] = v],
           UNCHANGED <<app, runs, minted, by>>
    PROVE  TablesOK' /\ RowsHaveApps'
<1>1. row' = [row EXCEPT ![k] = [row[k] EXCEPT ![a] = v]]
    BY DEF TablesOK
<1>2. [row[k] EXCEPT ![a] = v] \in [App -> Request \cup {Old, NoRow}]
    BY DEF TablesOK
<1>3. row' \in [Kind -> [App -> Request \cup {Old, NoRow}]]
    BY <1>1, <1>2 DEF TablesOK
<1>4. \A j \in Kind, b \in App : row'[j][b] # row[j][b] => b = a /\ row'[j][b] = v
    BY DEF TablesOK
<1> QED BY <1>3, <1>4 DEF TablesOK, RowsHaveApps

(* A request's step leaves the page alone.                                  *)
LEMMA PageStays == ASSUME PageOK, UNCHANGED page PROVE PageOK'
BY DEF PageOK, page

(* So does every step lead from a state that satisfies it to one that does. *)
LEMMA ApiStep == ApiInv /\ [Next]_vars => ApiInv'
<1> SUFFICES ASSUME ApiInv, [Next]_vars PROVE ApiInv'
    OBVIOUS
<1> USE NoRowIsNone, Places DEF ApiInv, TypeOK
<1>a. ASSUME UNCHANGED vars PROVE ApiInv'
    BY <1>a DEF vars, server, page, tables, TablesOK, RequestsOK, PageOK, RowsHaveApps, AnswersAreTrue, Progress
<1>b. ASSUME NEW q \in Request, NEW u \in User, NEW op \in Op, NEW a \in App, Dispatch(q, u, op, a)
      PROVE  ApiInv'
  <2>1. TablesOK' /\ RowsHaveApps'
      BY <1>b DEF Dispatch, tables, TablesOK, RowsHaveApps
  <2>2. RequestsOK'
      BY <1>b DEF Dispatch, RequestsOK
  <2>3. (AnswersAreTrue /\ Progress)'
      BY <1>b DEF Dispatch, RequestsOK, AnswersAreTrue, Progress
  <2> QED BY <1>b, <2>1, <2>2, <2>3, PageStays DEF Dispatch
<1>c. ASSUME NEW q \in Request, Check(q) PROVE ApiInv'
  <2>1. TablesOK'
      BY <1>c DEF Check, Throws, tables, TablesOK, RequestsOK
  <2>2. RequestsOK'
    <3>1. pc' \in [Request -> Place]
        BY <1>c, Moves DEF Check, Throws
    <3> QED BY <1>c, <3>1 DEF Check, Throws, Made, TablesOK, RequestsOK
  <2>3. RowsHaveApps'
      BY <1>c DEF Check, Throws, tables, TablesOK, RequestsOK, RowsHaveApps
  <2>4. (AnswersAreTrue /\ Progress)'
      BY <1>c DEF Check, At, Creates, Throws, Made, Goto, RequestsOK, AnswersAreTrue, Progress
  <2>5. UNCHANGED page
      BY <1>c DEF Check
  <2> QED BY <2>1, <2>2, <2>3, <2>4, <2>5, PageStays
<1>d. ASSUME NEW q \in Request, CheckEnv(q) PROVE ApiInv'
  <2>1. TablesOK'
    <3>1. CASE minted' = minted + 1 /\ minted < MaxRun
      <4>1. minted' \in RunId
          BY <3>1, ApiAssumption DEF ApiAssumption, TablesOK
      <4> QED BY <1>d, <4>1 DEF CheckEnv, TablesOK
    <3>2. CASE UNCHANGED <<minted, by>>
        BY <1>d, <3>2 DEF CheckEnv, TablesOK
    <3> QED BY <1>d, <3>1, <3>2 DEF CheckEnv
  <2>2. RequestsOK'
    <3>1. pc' \in [Request -> Place]
        BY <1>d, Moves DEF CheckEnv
    <3>2. id' \in [Request -> RunId \cup {0}]
      <4>1. CASE minted < MaxRun /\ id' = [id EXCEPT ![q] = minted + 1]
        <5>1. minted + 1 \in RunId
            BY <4>1, ApiAssumption DEF ApiAssumption, TablesOK
        <5> QED BY <4>1, <5>1 DEF RequestsOK
      <4> QED BY <1>d, <4>1 DEF CheckEnv, RequestsOK
    <3> QED BY <1>d, <3>1, <3>2 DEF CheckEnv, RequestsOK
  <2>3. RowsHaveApps'
      BY <1>d DEF ApiAssumption, CheckEnv, Throws, tables, TablesOK, RequestsOK, RowsHaveApps
  <2>4. (AnswersAreTrue /\ Progress)'
      BY <1>d DEF ApiAssumption, CheckEnv, At, Creates, Throws, Made, Goto, RequestsOK, AnswersAreTrue, Progress
  <2>5. UNCHANGED page
      BY <1>d DEF ApiAssumption, CheckEnv
  <2> QED BY <2>1, <2>2, <2>3, <2>4, <2>5, PageStays
<1>e. ASSUME NEW q \in Request, CreateApp(q) PROVE ApiInv'
  <2>1. TablesOK'
      BY <1>e DEF CreateApp, Throws, tables, TablesOK, RequestsOK
  <2>2. RequestsOK'
    <3>1. pc' \in [Request -> Place]
        BY <1>e, Moves DEF CreateApp, Throws
    <3> QED BY <1>e, <3>1 DEF CreateApp, Throws, Made, TablesOK, RequestsOK
  <2>3. RowsHaveApps'
    <3>1. UNCHANGED <<row, runs>>
        BY <1>e DEF CreateApp, Throws, tables
    <3>2. \A a \in App : app[a] # NoRow => app'[a] # NoRow
        BY <1>e DEF CreateApp, Throws, tables, TablesOK
    <3> QED BY <3>1, <3>2 DEF RowsHaveApps, TablesOK
  <2>4. (AnswersAreTrue /\ Progress)'
      BY <1>e DEF CreateApp, At, Creates, Throws, Made, Goto, RequestsOK, AnswersAreTrue, Progress
  <2>5. UNCHANGED page
      BY <1>e DEF CreateApp
  <2> QED BY <2>1, <2>2, <2>3, <2>4, <2>5, PageStays
<1>f. ASSUME NEW q \in Request, UpdateApp(q) PROVE ApiInv'
  <2>1. TablesOK'
      BY <1>f DEF UpdateApp, Throws, tables, TablesOK, RequestsOK
  <2>2. RequestsOK'
    <3>1. pc' \in [Request -> Place]
        BY <1>f, Moves DEF UpdateApp, Throws
    <3> QED BY <1>f, <3>1 DEF UpdateApp, Throws, Made, TablesOK, RequestsOK
  <2>3. RowsHaveApps'
      BY <1>f DEF UpdateApp, Throws, tables, TablesOK, RequestsOK, RowsHaveApps
  <2>4. (AnswersAreTrue /\ Progress)'
      BY <1>f DEF UpdateApp, At, Creates, Throws, Made, Goto, RequestsOK, AnswersAreTrue, Progress
  <2>5. UNCHANGED page
      BY <1>f DEF UpdateApp
  <2> QED BY <2>1, <2>2, <2>3, <2>4, <2>5, PageStays
<1>g. ASSUME NEW q \in Request, DeleteApp(q) PROVE ApiInv'
  <2>0. req[q].app \in App /\ Table(q) \in Kind
      BY DEF RequestsOK, Table
  <2>1. TablesOK' /\ RowsHaveApps'
    <3>1. CASE UNCHANGED tables
        BY <3>1 DEF tables, TablesOK, RowsHaveApps
    <3>2. CASE app[req[q].app] # NoRow
        BY <1>g, <2>0, <3>2, Deleted DEF DeleteApp
    <3> QED BY <1>g, <3>1, <3>2 DEF DeleteApp, Throws, tables
  <2>2. RequestsOK'
    <3>1. pc' \in [Request -> Place]
        BY <1>g, Moves DEF DeleteApp, Throws
    <3> QED BY <1>g, <3>1 DEF DeleteApp, Throws, Made, RequestsOK
  <2>3. (AnswersAreTrue /\ Progress)'
      BY <1>g DEF DeleteApp, At, Creates, Throws, Made, Goto, RequestsOK, AnswersAreTrue, Progress
  <2>4. UNCHANGED page
      BY <1>g DEF DeleteApp
  <2> QED BY <2>1, <2>2, <2>3, <2>4, PageStays
<1>h. ASSUME NEW q \in Request, Upsert(q) PROVE ApiInv'
  <2>0. req[q].app \in App /\ Table(q) \in Kind
      BY DEF RequestsOK, Table
  <2>1. TablesOK' /\ RowsHaveApps'
    <3>1. CASE UNCHANGED tables
        BY <3>1 DEF tables, TablesOK, RowsHaveApps
    <3>2. CASE app[req[q].app] # NoRow
      <4>1. row' = [row EXCEPT ![Table(q)][req[q].app] = q] /\ UNCHANGED <<app, runs, minted, by>>
          BY <1>h, <3>2 DEF Upsert
      <4> QED BY <2>0, <3>2, <4>1, RowChanged
    <3> QED BY <1>h, <3>1, <3>2 DEF Upsert, Throws, tables
  <2>2. RequestsOK'
    <3>1. pc' \in [Request -> Place]
        BY <1>h, Moves DEF Upsert, Throws
    <3> QED BY <1>h, <3>1 DEF Upsert, Throws, Made, RequestsOK
  <2>3. (AnswersAreTrue /\ Progress)'
      BY <1>h DEF Upsert, At, Creates, Throws, Made, Goto, RequestsOK, AnswersAreTrue, Progress
  <2>4. UNCHANGED page
      BY <1>h DEF Upsert
  <2> QED BY <2>1, <2>2, <2>3, <2>4, PageStays
<1>i. ASSUME NEW q \in Request, Drop(q) PROVE ApiInv'
  <2>0. req[q].app \in App /\ Table(q) \in Kind
      BY DEF RequestsOK, Table
  <2>1. TablesOK' /\ RowsHaveApps'
    <3>1. CASE UNCHANGED tables
        BY <3>1 DEF tables, TablesOK, RowsHaveApps
    <3>2. CASE row[Table(q)][req[q].app] # NoRow
      <4>1. row' = [row EXCEPT ![Table(q)][req[q].app] = NoRow] /\ UNCHANGED <<app, runs, minted, by>>
          BY <1>i, <3>2 DEF Drop
      <4> QED BY <2>0, <4>1, RowChanged
    <3> QED BY <1>i, <3>1, <3>2 DEF Drop, Throws, tables
  <2>2. RequestsOK'
    <3>1. pc' \in [Request -> Place]
        BY <1>i, Moves DEF Drop, Throws
    <3> QED BY <1>i, <3>1 DEF Drop, Throws, Made, RequestsOK
  <2>3. (AnswersAreTrue /\ Progress)'
      BY <1>i DEF Drop, At, Creates, Throws, Made, Goto, RequestsOK, AnswersAreTrue, Progress
  <2>4. UNCHANGED page
      BY <1>i DEF Drop
  <2> QED BY <2>1, <2>2, <2>3, <2>4, PageStays
<1>j. ASSUME NEW q \in Request, CreateRun(q) PROVE ApiInv'
  <2>1. TablesOK'
      BY <1>j DEF CreateRun, Throws, tables, TablesOK, RequestsOK
  <2>2. RequestsOK'
    <3>1. pc' \in [Request -> Place]
        BY <1>j, Moves DEF CreateRun, Throws
    <3> QED BY <1>j, <3>1 DEF CreateRun, Throws, Made, TablesOK, RequestsOK
  <2>3. RowsHaveApps'
      BY <1>j DEF CreateRun, Throws, tables, TablesOK, RequestsOK, RowsHaveApps
  <2>4. (AnswersAreTrue /\ Progress)'
      BY <1>j DEF CreateRun, At, Creates, Throws, Made, Goto, RequestsOK, AnswersAreTrue, Progress
  <2>5. UNCHANGED page
      BY <1>j DEF CreateRun
  <2> QED BY <2>1, <2>2, <2>3, <2>4, <2>5, PageStays
<1>k. ASSUME NEW q \in Request, Send(q) PROVE ApiInv'
  <2>1. TablesOK'
      BY <1>k DEF Send, Throws, tables, TablesOK, RequestsOK
  <2>2. RequestsOK'
    <3>1. pc' \in [Request -> Place]
        BY <1>k, Moves DEF Send, Throws
    <3> QED BY <1>k, <3>1 DEF Send, Throws, Made, TablesOK, RequestsOK
  <2>3. RowsHaveApps'
      BY <1>k DEF Send, Throws, tables, TablesOK, RequestsOK, RowsHaveApps
  <2>4. (AnswersAreTrue /\ Progress)'
      BY <1>k DEF Send, At, Creates, Throws, Made, Goto, RequestsOK, AnswersAreTrue, Progress
  <2>5. UNCHANGED page
      BY <1>k DEF Send
  <2> QED BY <2>1, <2>2, <2>3, <2>4, <2>5, PageStays
<1>l. ASSUME NEW q \in Request, Audit(q) PROVE ApiInv'
  <2>1. TablesOK'
      BY <1>l DEF Audit, Throws, tables, TablesOK, RequestsOK
  <2>2. RequestsOK'
    <3>1. pc' \in [Request -> Place]
        BY <1>l, Moves DEF Audit, Throws
    <3> QED BY <1>l, <3>1 DEF Audit, Throws, Made, TablesOK, RequestsOK
  <2>3. RowsHaveApps'
      BY <1>l DEF Audit, Throws, tables, TablesOK, RequestsOK, RowsHaveApps
  <2>4. (AnswersAreTrue /\ Progress)'
      BY <1>l DEF Audit, At, Creates, Throws, Made, Goto, RequestsOK, AnswersAreTrue, Progress
  <2>5. UNCHANGED page
      BY <1>l DEF Audit
  <2> QED BY <2>1, <2>2, <2>3, <2>4, <2>5, PageStays
<1>m. ASSUME NEW q \in Request, Fails(q) PROVE ApiInv'
  <2>1. TablesOK'
      BY <1>m, ApiAssumption DEF ApiAssumption, Fails, Throws, tables, TablesOK, RequestsOK
  <2>2. RequestsOK'
    <3>1. pc' \in [Request -> Place]
        BY <1>m, Moves DEF ApiAssumption, Fails, Throws
    <3> QED BY <1>m, <3>1, ApiAssumption DEF ApiAssumption, Fails, Throws, Made, TablesOK, RequestsOK
  <2>3. RowsHaveApps'
      BY <1>m DEF ApiAssumption, Fails, Throws, tables, TablesOK, RequestsOK, RowsHaveApps
  <2>4. (AnswersAreTrue /\ Progress)'
      BY <1>m DEF ApiAssumption, Fails, At, Creates, Throws, Made, Goto, RequestsOK, AnswersAreTrue, Progress
  <2>5. UNCHANGED page
      BY <1>m DEF ApiAssumption, Fails
  <2> QED BY <2>1, <2>2, <2>3, <2>4, <2>5, PageStays
<1>n. ASSUME Browser PROVE ApiInv'
  <2>1. UNCHANGED server
      BY <1>n DEF Browser, OpenPage, EditFilter, Filter, LoadMore, Reset
  <2>2. (TablesOK /\ RequestsOK /\ RowsHaveApps /\ AnswersAreTrue /\ Progress)'
      BY <2>1 DEF server, tables, TablesOK, RequestsOK, RowsHaveApps, AnswersAreTrue, Progress
  <2> USE PagesAreRuns DEF PageOK, GoesOn
  <2>3. ASSUME OpenPage PROVE PageOK'
      BY <2>3 DEF OpenPage
  <2>4. ASSUME Filter PROVE PageOK'
      BY <2>4 DEF Filter
  <2>5. ASSUME LoadMore PROVE PageOK'
      BY <2>5 DEF LoadMore
  <2>6. ASSUME Reset PROVE PageOK'
      BY <2>6 DEF Reset
  <2>7. ASSUME NEW f \in App \cup {Global}, EditFilter(f) PROVE PageOK'
      BY <2>7 DEF EditFilter
  <2> QED BY <1>n, <2>2, <2>3, <2>4, <2>5, <2>6, <2>7 DEF Browser
<1> QED BY <1>a, <1>b, <1>c, <1>d, <1>e, <1>f, <1>g, <1>h, <1>i, <1>j, <1>k, <1>l, <1>m, <1>n
        DEF Next, Handler

(* For all apps, requests and users: no row outlives its app, and no answer lies. *)
THEOREM RegistryConsistent == Spec => []ApiInv
<1> QED BY ApiInit, ApiStep, PTL DEF Spec

-----------------------------------------------------------------------------
(* Who has got past the router, and who has written what.                   *)
Admitted(q) == pc[q] \notin {"idle", "refused"}
Writes(k) == IF k = "env" THEN {"putEnv", "register"}
             ELSE IF k = "secret" THEN {"putSecret"} ELSE {"putVar"}

GrantInv ==
    /\ \A q \in Request : Admitted(q) =>
         Can(req[q].user, Route(req[q].op, req[q].app).action, Route(req[q].op, req[q].app).scope)
    /\ \A q \in Request : pc[q] = "checkEnv" => req[q].op = "deploy"
    /\ \A a \in App : app[a] \in Request => Admitted(app[a]) /\ req[app[a]].op \in Creates
    /\ \A k \in Kind, a \in App : row[k][a] \in Request =>
         Admitted(row[k][a]) /\ req[row[k][a]].op \in Writes(k) /\ req[row[k][a]].app = a
    /\ \A i \in RunId : by[i] \in Request => Admitted(by[i]) /\ req[by[i]].op = "deploy"

(* An app keeps the request that created it until it is deleted.            *)
THEOREM IdentityKept == Spec => AppKeepsIdentity
<1>1. ASSUME ApiInv, [Next]_vars, NEW a \in App, app[a] # NoRow, app'[a] # NoRow
      PROVE  app'[a] = app[a]
  <2> USE <1>1 DEF ApiInv, TypeOK, TablesOK
  <2>1. ASSUME NEW q \in Request, CreateApp(q) PROVE app'[a] = app[a]
      BY <2>1 DEF CreateApp, Throws, tables
  <2>2. ASSUME NEW q \in Request, DeleteApp(q) PROVE app'[a] = app[a]
      BY <2>2 DEF DeleteApp, tables
  <2>3. ASSUME NEW q \in Request, Check(q) \/ CheckEnv(q) \/ UpdateApp(q) \/ Upsert(q) \/ Drop(q)
                                  \/ CreateRun(q) \/ Send(q) \/ Audit(q) \/ Fails(q)
        PROVE  app' = app
      BY <2>3 DEF Check, CheckEnv, UpdateApp, Upsert, Drop, CreateRun, Send, Audit, Fails, Throws, tables
  <2>4. ASSUME NEW q \in Request, NEW u \in User, NEW op \in Op, NEW b \in App, Dispatch(q, u, op, b)
        PROVE  app' = app
      BY <2>4 DEF Dispatch, tables
  <2>5. ASSUME Browser \/ UNCHANGED vars PROVE app' = app
      BY <2>5 DEF Browser, OpenPage, EditFilter, Filter, LoadMore, Reset, vars, server, tables
  <2> QED BY <2>1, <2>2, <2>3, <2>4, <2>5 DEF Next, Handler
<1>2. ASSUME ApiInv, [Next]_vars
      PROVE  [\A a \in App : app[a] # NoRow /\ app'[a] # NoRow => app'[a] = app[a]]_vars
    BY <1>1, <1>2
<1> QED BY <1>2, RegistryConsistent, PTL DEF Spec, AppKeepsIdentity

(* The grants that stand behind the registry stand behind it after a step.  *)
LEMMA GrantStep == ApiInv /\ GrantInv /\ [Next]_vars => GrantInv'
<1> SUFFICES ASSUME ApiInv, GrantInv, [Next]_vars PROVE GrantInv'
    OBVIOUS
<1> USE NoRowIsNone DEF ApiInv, TypeOK, TablesOK, RequestsOK
<1>1. CASE UNCHANGED <<app, row, by, req, pc>>
    BY <1>1 DEF GrantInv, Admitted
<1>2. ASSUME NEW q \in Request, NEW u \in User, NEW op \in Op, NEW a \in App, Dispatch(q, u, op, a)
      PROVE  GrantInv'
  <2>1. \A p \in Request : Admitted(p) => p # q /\ req'[p] = req[p] /\ pc'[p] = pc[p]
      BY <1>2 DEF Dispatch, Admitted
  <2>2. Admitted(q)' => Can(u, Route(op, a).action, Route(op, a).scope) /\ req'[q].user = u /\ req'[q].op = op /\ req'[q].app = a
      BY <1>2 DEF Dispatch, Admitted
  <2>3. pc'[q] # "checkEnv" /\ UNCHANGED <<app, row, by>>
      BY <1>2 DEF Dispatch, tables
  <2>4. \A p \in Request \ {q} : req'[p] = req[p] /\ pc'[p] = pc[p]
      BY <1>2 DEF Dispatch
  <2>5. \A p \in Request : Admitted(p)' => (p = q \/ Admitted(p))
      BY <2>4 DEF Admitted
  <2>6. \A p \in Request : Admitted(p) => Admitted(p)'
      BY <2>1 DEF Admitted
  <2>7. \A p \in Request : Admitted(p)' =>
           Can(req'[p].user, Route(req'[p].op, req'[p].app).action, Route(req'[p].op, req'[p].app).scope)
    <3> SUFFICES ASSUME NEW p \in Request, Admitted(p)'
                 PROVE  Can(req'[p].user, Route(req'[p].op, req'[p].app).action, Route(req'[p].op, req'[p].app).scope)
        OBVIOUS
    <3>1. CASE p = q
        BY <2>2, <3>1
    <3>2. CASE p # q
        BY <2>4, <2>5, <3>2 DEF GrantInv
    <3> QED BY <3>1, <3>2
  <2>8. \A b \in App : app[b] \in Request => Admitted(app[b])' /\ req'[app[b]].op \in Creates
      BY <2>1, <2>3, <2>6 DEF GrantInv, Admitted
  <2>9. \A k \in Kind, b \in App : row[k][b] \in Request =>
           Admitted(row[k][b])' /\ req'[row[k][b]].op \in Writes(k) /\ req'[row[k][b]].app = b
      BY <2>1, <2>3, <2>6 DEF GrantInv, Admitted
  <2>10. \A i \in RunId : by[i] \in Request => Admitted(by[i])' /\ req'[by[i]].op = "deploy"
      BY <2>1, <2>3, <2>6 DEF GrantInv, Admitted
  <2>11. \A p \in Request : pc'[p] = "checkEnv" => req'[p].op = "deploy"
      BY <2>3, <2>4 DEF GrantInv
  <2> QED BY <2>3, <2>7, <2>8, <2>9, <2>10, <2>11 DEF GrantInv
<1>3. ASSUME NEW q \in Request, Handler(q) PROVE GrantInv'
  <2>1. Admitted(q) /\ UNCHANGED req
      BY <1>3 DEF Handler, Admitted, At, Working, Check, CheckEnv, CreateApp, UpdateApp, DeleteApp, Upsert, Drop, CreateRun, Send, Audit, Fails
  <2>2. \A p \in Request : Admitted(p) => Admitted(p)'
      BY <1>3 DEF Handler, Admitted, Goto, Throws, Check, CheckEnv, CreateApp, UpdateApp, DeleteApp, Upsert, Drop, CreateRun, Send, Audit, Fails
  <2>3. \A p \in Request : Admitted(p)' => Admitted(p)
      BY <1>3, <2>1 DEF Handler, Admitted, Goto, Throws, Check, CheckEnv, CreateApp, UpdateApp, DeleteApp, Upsert, Drop, CreateRun, Send, Audit, Fails
  <2>4. \A p \in Request : pc'[p] = "checkEnv" => req[p].op = "deploy"
      BY <1>3 DEF GrantInv, Handler, Goto, Throws, Check, CheckEnv, CreateApp, UpdateApp, DeleteApp, Upsert, Drop, CreateRun, Send, Audit, Fails
  <2>5. \A a \in App : app'[a] \in Request => app'[a] = app[a] \/ (app'[a] = q /\ req[q].op \in Creates)
      BY <1>3 DEF Handler, At, Throws, tables, Check, CheckEnv, CreateApp, UpdateApp, DeleteApp, Upsert, Drop, CreateRun, Send, Audit, Fails
  <2>6. \A k \in Kind, a \in App : row'[k][a] \in Request =>
           row'[k][a] = row[k][a] \/ (row'[k][a] = q /\ req[q].op \in Writes(k) /\ req[q].app = a)
    <3>1. ASSUME Upsert(q) PROVE \A k \in Kind, a \in App :
             row'[k][a] = row[k][a] \/ (row'[k][a] = q /\ req[q].op \in Writes(k) /\ req[q].app = a)
      <4>1. CASE UNCHANGED row
          BY <4>1
      <4>2. CASE row' = [row EXCEPT ![Table(q)] = [row[Table(q)] EXCEPT ![req[q].app] = q]]
        <5>1. \A k \in Kind, a \in App : row'[k][a] = row[k][a] \/ (row'[k][a] = q /\ k = Table(q) /\ req[q].app = a)
            BY <4>2
        <5>2. req[q].op \in Writes(Table(q))
            BY <3>1 DEF Upsert, At, Table, Writes
        <5> QED BY <5>1, <5>2
      <4> QED BY <3>1, <4>1, <4>2 DEF Upsert, Throws, tables
    <3>2. ASSUME Drop(q) \/ DeleteApp(q) PROVE \A k \in Kind, a \in App :
             row'[k][a] = row[k][a] \/ row'[k][a] = NoRow
        BY <3>2 DEF Drop, DeleteApp, Throws, tables
    <3>3. ASSUME ~ (Upsert(q) \/ Drop(q) \/ DeleteApp(q)) PROVE UNCHANGED row
        BY <1>3, <3>3 DEF Handler, Throws, tables, Check, CheckEnv, CreateApp, UpdateApp, CreateRun, Send, Audit, Fails
    <3> QED BY <3>1, <3>2, <3>3
  <2>7. \A i \in RunId : by'[i] \in Request => by'[i] = by[i] \/ (by'[i] = q /\ req[q].op = "deploy")
      BY <1>3 DEF GrantInv, Handler, Throws, tables, Check, CheckEnv, CreateApp, UpdateApp, DeleteApp, Upsert, Drop, CreateRun, Send, Audit, Fails
  <2>8. \A p \in Request : Admitted(p)' =>
           Can(req'[p].user, Route(req'[p].op, req'[p].app).action, Route(req'[p].op, req'[p].app).scope)
      BY <2>1, <2>3 DEF GrantInv
  <2>9. \A p \in Request : pc'[p] = "checkEnv" => req'[p].op = "deploy"
      BY <2>1, <2>4
  <2>10. ASSUME NEW a \in App, app'[a] \in Request
         PROVE  Admitted(app[a])' /\ req'[app'[a]].op \in Creates
    <3>1. Admitted(app'[a]) /\ req[app'[a]].op \in Creates
        BY <2>1, <2>5, <2>10 DEF GrantInv
    <3> QED BY <2>1, <2>2, <2>10, <3>1 DEF Admitted
  <2>11. ASSUME NEW k \in Kind, NEW a \in App, row'[k][a] \in Request
         PROVE  Admitted(row[k][a])' /\ req'[row'[k][a]].op \in Writes(k) /\ req'[row'[k][a]].app = a
    <3>1. Admitted(row'[k][a]) /\ req[row'[k][a]].op \in Writes(k) /\ req[row'[k][a]].app = a
        BY <2>1, <2>6, <2>11 DEF GrantInv
    <3> QED BY <2>1, <2>2, <2>11, <3>1 DEF Admitted
  <2>12. ASSUME NEW i \in RunId, by'[i] \in Request
         PROVE  Admitted(by[i])' /\ req'[by'[i]].op = "deploy"
    <3>1. Admitted(by'[i]) /\ req[by'[i]].op = "deploy"
        BY <2>1, <2>7, <2>12 DEF GrantInv
    <3> QED BY <2>1, <2>2, <2>12, <3>1 DEF Admitted
  <2> QED BY <2>8, <2>9, <2>10, <2>11, <2>12 DEF GrantInv
<1>4. ASSUME Browser PROVE UNCHANGED <<app, row, by, req, pc>>
    BY <1>4 DEF Browser, OpenPage, EditFilter, Filter, LoadMore, Reset, server, tables
<1> QED BY <1>1, <1>2, <1>3, <1>4 DEF Next, vars, server, tables

(* A right that is held on every app, or on the app asked about, is enough. *)
LEMMA GrantsSuffice == ApiInv /\ GrantInv => RowsAreGranted
<1> SUFFICES ASSUME ApiInv, GrantInv PROVE RowsAreGranted
    OBVIOUS
<1> USE DEF ApiInv, TypeOK, TablesOK, RequestsOK
<1>1. \A u, action, a : Can(u, action, Global) => Can(u, action, a)
    BY DEF Can
<1>2. \A a \in App : app[a] \in Request => Can(req[app[a]].user, "app.manage", Global)
    BY DEF GrantInv, Route, Creates
<1>3. ASSUME NEW a \in App, NEW k \in Kind, row[k][a] \in Request
      PROVE  Can(req[row[k][a]].user, IF k = "secret" THEN "secret.manage" ELSE "app.manage", a)
  <2> DEFINE q == row[k][a]
  <2>1. Can(req[q].user, Route(req[q].op, a).action, Route(req[q].op, a).scope) /\ req[q].op \in Writes(k)
      BY <1>3 DEF GrantInv
  <2>2. CASE k = "env"
      BY <1>1, <2>1, <2>2 DEF Route, Writes, Creates
  <2>3. CASE k = "secret"
      BY <1>1, <2>1, <2>3 DEF Route, Writes
  <2>4. CASE k = "var"
      BY <1>1, <2>1, <2>4 DEF Route, Writes
  <2> QED BY <2>2, <2>3, <2>4
<1>4. \A i \in RunId : runs[i] # NoRow /\ by[i] \in Request => Can(req[by[i]].user, "deploy.trigger", runs[i])
  <2>1. \A i \in RunId : by[i] \in Request => Can(req[by[i]].user, "deploy.trigger", Global)
      BY DEF GrantInv, Route
  <2> QED BY <1>1, <2>1
<1> QED BY <1>2, <1>3, <1>4 DEF RowsAreGranted

(* No request that overlaps with others gets a row in that its sender may not write. *)
THEOREM Granted == Spec => []RowsAreGranted
<1>1. Init => GrantInv
  <2> SUFFICES ASSUME Init PROVE GrantInv
      OBVIOUS
  <2>1. \A a \in App : app[a] \notin Request
      BY NoRowIsNone DEF Init
  <2>2. \A k \in Kind, a \in App : row[k][a] \notin Request
      BY <2>1 DEF Init
  <2>3. \A i \in RunId : by[i] \notin Request
      BY NoRowIsNone DEF Init
  <2>4. \A q \in Request : ~ Admitted(q) /\ pc[q] # "checkEnv"
      BY DEF Init, Admitted
  <2> QED BY <2>1, <2>2, <2>3, <2>4 DEF GrantInv
<1> QED BY <1>1, ApiInit, ApiStep, GrantStep, GrantsSuffice, PTL DEF Spec

-----------------------------------------------------------------------------
(* A set of runs that is not empty has an oldest and a newest.              *)
LEMMA Ends ==
    ASSUME NEW T \in SUBSET RunId, T # {}
    PROVE  /\ \E m \in T : \A i \in T : m <= i
           /\ \E m \in T : \A i \in T : i <= m
<1> USE ApiAssumption DEF ApiAssumption
<1>1. ASSUME NEW U \in SUBSET Nat, U # {} PROVE \E m \in U : \A i \in U : m <= i
  <2>1. PICK m \in U : \A i \in U : <<i, m>> \notin OpToRel(<, Nat)
      BY <1>1, NatLessThanWellFounded, WFMin, Zenon
  <2>2. \A i \in U : ~ (i < m)
      BY <2>1, Zenon DEF OpToRel
  <2>3. \A i \in U : i \in Nat
      OBVIOUS
  <2> QED BY <2>2, <2>3
<1>2. \A i \in T : i \in Nat /\ i <= MaxRun /\ MaxRun - i \in Nat
    OBVIOUS
<1>3. \E m \in T : \A i \in T : m <= i
  <2>1. T \in SUBSET Nat
      BY <1>2
  <2> QED BY <1>1, <2>1
<1>4. \E m \in T : \A i \in T : i <= m
  <2> DEFINE U == {MaxRun - i : i \in T}
  <2>1. U \in SUBSET Nat /\ U # {}
    <3>1. \A u \in U : u \in Nat
        BY <1>2
    <3>2. U # {}
      <4>1. PICK i \in T : TRUE
          OBVIOUS
      <4>2. MaxRun - i \in U
          OBVIOUS
      <4> QED BY <4>2
    <3> QED BY <3>1, <3>2
  <2>2. PICK u \in U : \A w \in U : u <= w
    <3> HIDE DEF U
    <3> QED BY <1>1, <2>1
  <2>3. PICK m \in T : u = MaxRun - m
      OBVIOUS
  <2>4. \A i \in T : MaxRun - m <= MaxRun - i
      BY <2>2, <2>3
  <2> QED BY <1>2, <2>4
<1> QED BY <1>3, <1>4

(* The newest n of S have everything newer with them, and are S when there  *)
(* are not n of them.                                                       *)
LEMMA NewestFirst ==
    ASSUME NEW n \in Nat \ {0}, NEW S \in SUBSET RunId
    PROVE  /\ \A i \in Newest(n, S), j \in S : i < j => j \in Newest(n, S)
           /\ Cardinality(Newest(n, S)) # n => Newest(n, S) = S
<1> USE ApiAssumption DEF ApiAssumption
<1> DEFINE Above(i) == {j \in S : j > i}
           N == Newest(n, S)
<1>0. \A i \in S : i \in Int
    OBVIOUS
<1>1. \A U \in SUBSET RunId : IsFiniteSet(U) /\ Cardinality(U) \in Nat
  <2>1. IsFiniteSet(RunId)
      BY FS_Interval
  <2> QED BY <2>1, FS_Subset, FS_CardinalityType
<1>2. \A U, V \in SUBSET RunId : U \subseteq V => Cardinality(U) <= Cardinality(V)
    BY <1>1, FS_Subset
<1>3. N \in SUBSET RunId /\ (\A i \in N : i \in S) /\ \A i \in S : i \in N <=> Cardinality(Above(i)) < n
    BY DEF Newest
<1>a. \A i : Above(i) \in SUBSET RunId
    OBVIOUS
<1>b. \A i \in S : \A j : j \in Above(i) <=> j \in S /\ i < j
    BY <1>0
<1> HIDE DEF Above, N
<1>4. ASSUME NEW i \in N, NEW j \in S, i < j PROVE j \in N
  <2>0. i \in S
      BY <1>3
  <2>1. ASSUME NEW k \in Above(j) PROVE k \in Above(i)
    <3>1. k \in S /\ j < k
        BY <1>b, <2>1
    <3>2. i < k
        BY <1>0, <1>4, <2>0, <3>1
    <3> QED BY <1>b, <2>0, <3>1, <3>2
  <2>2. Cardinality(Above(j)) <= Cardinality(Above(i)) /\ Cardinality(Above(j)) \in Nat /\ Cardinality(Above(i)) \in Nat
      BY <1>1, <1>2, <1>a, <2>1
  <2>3. Cardinality(Above(i)) < n
      BY <1>3
  <2>4. Cardinality(Above(j)) < n
      BY <2>2, <2>3
  <2> QED BY <1>3, <2>4
<1>5. ASSUME N # S PROVE Cardinality(N) = n
  <2>0. S \ N \in SUBSET RunId /\ S \ N # {}
      BY <1>3, <1>5
  <2>1. PICK x \in S \ N : \A i \in S \ N : i <= x
      BY <2>0, Ends
  <2>2. Above(x) = N
    <3>1. ASSUME NEW i \in Above(x) PROVE i \in N
      <4>1. i \in S /\ x < i
          BY <1>b, <3>1
      <4>2. i \in Int /\ x \in Int /\ ~ (i <= x)
          BY <1>0, <4>1
      <4> QED BY <2>1, <4>1, <4>2
    <3>2. ASSUME NEW i \in N PROVE i \in Above(x)
        BY <1>0, <1>3, <1>4, <1>b, <2>1
    <3> QED BY <3>1, <3>2
  <2>3. Cardinality(N) \in Nat /\ Cardinality(N) >= n
    <3>1. ~ (Cardinality(N) < n)
        BY <1>3, <2>1, <2>2
    <3>2. Cardinality(N) \in Nat
        BY <1>1, <1>3
    <3> QED BY <3>1, <3>2
  <2>4. N # {}
    <3>1. Cardinality(N) # 0
        BY <2>3
    <3> QED BY <3>1, FS_EmptySet
  <2>5. PICK m \in N : \A i \in N : m <= i
      BY <1>3, <2>4, Ends
  <2>6. Above(m) = N \ {m}
    <3>1. ASSUME NEW i \in Above(m) PROVE i \in N \ {m}
      <4>1. m \in S
          BY <1>3
      <4>2. i \in S /\ m < i
          BY <1>b, <3>1, <4>1
      <4>3. i # m
          BY <1>0, <4>1, <4>2
      <4> QED BY <1>4, <4>2, <4>3
    <3>2. ASSUME NEW i \in N \ {m} PROVE i \in Above(m)
        BY <1>0, <1>3, <1>b, <2>5
    <3> QED BY <3>1, <3>2
  <2>7. Cardinality(N \ {m}) = Cardinality(N) - 1
      BY <1>1, <1>3, FS_RemoveElement
  <2>8. Cardinality(Above(m)) < n
      BY <1>3
  <2>9. Cardinality(N) - 1 < n
      BY <2>6, <2>7, <2>8
  <2> QED BY <2>3, <2>9
<1>6. \A i \in N, j \in S : i < j => j \in N
    BY <1>4
<1>7. Cardinality(N) # n => N = S
    BY <1>5
<1> QED BY <1>6, <1>7 DEF N

(* What a list that was begun with the runs of s, and goes on at c, has in  *)
(* it: nothing twice, and what is left of s down to c.                      *)
ListKept(list, c, s) ==
    /\ \A i \in RunId : list[i] <= 1 /\ (list[i] # 0 /\ c # 0 => c <= i)
    /\ \A i \in s : runs[i] # NoRow /\ (c = 0 \/ c <= i) => list[i] = 1

(* Ids are drawn once and inserted once: no list was begun with a run that  *)
(* is yet to be inserted.                                                   *)
Inserts(q) == At(q, "write", {"deploy"})
IdsInv ==
    /\ \A i \in RunId : runs[i] # NoRow => i <= minted
    /\ \A i \in since \cup opened.since : i <= minted
    /\ \A q \in Request : Inserts(q) =>
         /\ id[q] \in RunId /\ id[q] <= minted /\ runs[id[q]] = NoRow
         /\ id[q] \notin since \cup opened.since
         /\ \A p \in Request \ {q} : Inserts(p) => id[p] # id[q]

ListsInv ==
    /\ ListKept(shown, cursor, since)
    /\ ListKept(opened.shown, opened.cursor, opened.since)
    /\ \A i \in since : runs[i] # NoRow => applied \in {Global, runs[i]}

(* A list that is begun, or goes on with the filter it was begun with.      *)
LEMMA PageExtends ==
    ASSUME TypeOK, NEW f, NEW c \in RunId \cup {0}, NEW list \in [RunId -> Nat], NEW s \in SUBSET RunId,
           IF c = 0 THEN list = Blank ELSE ListKept(list, c, s),
           \A i \in s : runs[i] # NoRow => f \in {Global, runs[i]},
           GoesOn(Page(f, c))
    PROVE  LET longer == Extended(list, Page(f, c)) IN
           /\ \A i \in RunId : longer[i] <= 1 /\ (longer[i] # 0 /\ cursor' # 0 => cursor' <= i)
           /\ \A i \in s : runs[i] # NoRow /\ (cursor' = 0 \/ cursor' <= i) => longer[i] = 1
<1> DEFINE S == {i \in Matching(f) : c = 0 \/ i < c}
           items == Page(f, c)
           longer == Extended(list, items)
<1>0. Limit \in Nat \ {0} /\ \A i \in RunId : i \in Int /\ i # 0
  <2>1. Limit \in Nat \ {0} /\ MaxRun \in Nat
      BY ApiAssumption DEF ApiAssumption
  <2>2. \A i \in RunId : i \in Int /\ i # 0
      BY <2>1
  <2> QED BY <2>1, <2>2
<1>1. /\ S \in SUBSET RunId /\ items = Newest(Limit, S)
      /\ \A i \in items : i \in S
      /\ \A i \in S : i \in RunId /\ (c = 0 \/ i < c)
    BY PagesAreRuns DEF Page, Newest
<1>3. \A i \in s : runs[i] # NoRow /\ (c = 0 \/ i < c) => i \in S
    BY DEF Matching
<1>4. \A i \in RunId : longer[i] = IF i \in items THEN list[i] + 1 ELSE list[i]
    BY DEF Extended
<1>6. IF Cardinality(items) = Limit THEN cursor' \in items /\ \A i \in items : cursor' <= i ELSE cursor' = 0
    BY DEF GoesOn
<1> HIDE DEF S, items, longer
<1>2. /\ \A i \in items, j \in S : i < j => j \in items
      /\ Cardinality(items) # Limit => items = S
  <2>1. /\ \A i \in Newest(Limit, S), j \in S : i < j => j \in Newest(Limit, S)
        /\ Cardinality(Newest(Limit, S)) # Limit => Newest(Limit, S) = S
      BY <1>0, <1>1, NewestFirst
  <2> QED BY <1>1, <2>1
<1>5. \A i \in items : list[i] = 0
  <2>1. CASE c = 0
      BY <1>1, <2>1 DEF Blank
  <2>2. CASE c # 0
    <3>1. ASSUME NEW i \in items PROVE list[i] = 0
      <4>1. i \in RunId /\ i < c /\ c \in Int /\ i \in Int
          BY <1>0, <1>1, <2>2
      <4>2. ~ (c <= i)
          BY <4>1
      <4> QED BY <2>2, <4>1, <4>2 DEF ListKept
    <3> QED BY <3>1
  <2> QED BY <2>1, <2>2
<1>7. \A i \in RunId : list[i] \in Nat /\ list[i] <= 1 /\ i \in Int
    BY <1>0 DEF ListKept, Blank
<1>8. ASSUME NEW i \in RunId PROVE longer[i] <= 1 /\ (longer[i] # 0 /\ cursor' # 0 => cursor' <= i)
  <2>1. CASE i \in items
    <3>1. longer[i] = 1
        BY <1>4, <1>5, <2>1
    <3> QED BY <1>6, <2>1, <3>1
  <2>2. CASE i \notin items
    <3>1. longer[i] = list[i]
        BY <1>4, <2>2
    <3>2. ASSUME list[i] # 0, cursor' # 0 PROVE cursor' <= i
      <4>1. c # 0 /\ c <= i
          BY <3>2 DEF ListKept, Blank
      <4>2. cursor' \in S
          BY <1>1, <1>6, <3>2
      <4>3. cursor' < c /\ cursor' \in Int /\ c \in Int
          BY <1>1, <1>7, <4>1, <4>2
      <4> QED BY <1>7, <4>1, <4>3
    <3> QED BY <1>7, <3>1, <3>2
  <2> QED BY <2>1, <2>2
<1>9. ASSUME NEW i \in s, runs[i] # NoRow, cursor' = 0 \/ cursor' <= i PROVE longer[i] = 1
  <2>1. CASE i \in items
      BY <1>4, <1>5, <2>1
  <2>2. CASE i \notin items
    <3>1. longer[i] = list[i]
        BY <1>4, <2>2
    <3>2. i \notin S
      <4>1. CASE cursor' = 0
        <5>1. cursor' \notin items
            BY <1>0, <1>1, <4>1
        <5> QED BY <1>2, <1>6, <2>2, <5>1
      <4>2. CASE cursor' # 0
        <5>1. cursor' \in items /\ cursor' \in Int /\ cursor' <= i
            BY <1>1, <1>6, <1>7, <1>9, <4>2
        <5>2. i # cursor'
            BY <2>2, <5>1
        <5>3. cursor' < i
            BY <1>7, <5>1, <5>2
        <5> QED BY <1>2, <2>2, <5>1, <5>3
      <4> QED BY <4>1, <4>2
    <3>3. c # 0 /\ ~ (i < c)
        BY <1>3, <1>9, <3>2
    <3>4. c <= i
        BY <1>7, <3>3
    <3> QED BY <1>9, <3>1, <3>3, <3>4 DEF ListKept
  <2> QED BY <2>1, <2>2
<1> QED BY <1>8, <1>9 DEF longer, items

(* What the page's lists are made of stays while the tables change under it.*)
LEMMA ListsStay ==
    ASSUME TypeOK, ListsInv, UNCHANGED page,
           \A i \in since \cup opened.since : runs'[i] # NoRow => runs'[i] = runs[i]
    PROVE  ListsInv'
<1>1. UNCHANGED <<applied, shown, cursor, since, opened>>
    BY DEF page
<1> QED BY <1>1 DEF ListsInv, ListKept

(* A run is inserted under an id that no list has been begun with.          *)
LEMMA IdsStep == ApiInv /\ IdsInv /\ [Next]_vars => IdsInv'
<1> SUFFICES ASSUME ApiInv, IdsInv, [Next]_vars PROVE IdsInv'
    OBVIOUS
<1> USE DEF ApiInv, TypeOK, TablesOK, RequestsOK, PageOK
<1>0. MaxRun \in Nat /\ NoRow \notin App
    BY ApiAssumption DEF ApiAssumption
<1>1. ASSUME UNCHANGED <<minted, page>>, \A i \in RunId : runs'[i] # NoRow => runs[i] # NoRow,
             \A q \in Request : Inserts(q)' => Inserts(q) /\ id'[q] = id[q]
      PROVE  IdsInv'
    BY <1>0, <1>1 DEF IdsInv, page
<1>2. ASSUME NEW q \in Request, NEW u \in User, NEW op \in Op, NEW a \in App, Dispatch(q, u, op, a)
      PROVE  IdsInv'
  <2>1. UNCHANGED <<minted, page, runs, id>>
      BY <1>2 DEF Dispatch, tables
  <2>2. \A p \in Request : Inserts(p)' => Inserts(p)
      BY <1>2 DEF Dispatch, Inserts, At, Unchecked
  <2> QED BY <1>1, <2>1, <2>2
<1>3. ASSUME NEW q \in Request, Check(q) PROVE IdsInv'
  <2>1. UNCHANGED <<minted, page, runs, id>>
      BY <1>3 DEF Check, tables
  <2>2. \A p \in Request : Inserts(p)' => Inserts(p)
      BY <1>3 DEF Check, Goto, Inserts, At
  <2> QED BY <1>1, <2>1, <2>2
<1>4. ASSUME NEW q \in Request, CheckEnv(q) PROVE IdsInv'
  <2>1. UNCHANGED <<page, runs, req>>
      BY <1>4 DEF CheckEnv
  <2>2. CASE row["env"][req[q].app] = NoRow
    <3>1. UNCHANGED <<minted, id>> /\ \A p \in Request : Inserts(p)' => Inserts(p)
        BY <1>4, <2>2 DEF CheckEnv, Goto, Inserts, At
    <3> QED BY <1>1, <2>1, <3>1
  <2>3. CASE row["env"][req[q].app] # NoRow
    <3>1. minted' = minted + 1 /\ minted' \in RunId /\ minted < minted' /\ minted \in Int
        BY <1>0, <1>4, <2>3 DEF CheckEnv
    <3>2. id' = [id EXCEPT ![q] = minted'] /\ \A p \in Request \ {q} : Inserts(p)' => Inserts(p)
        BY <1>4, <2>3 DEF CheckEnv, Goto, Inserts, At
    <3>3. \A i \in RunId : i <= minted => i <= minted' /\ i # minted'
        BY <1>0, <3>1
    <3>4. since \cup opened.since \subseteq RunId /\ UNCHANGED <<since, opened>>
        BY <2>1 DEF page
    <3>5. \A i \in RunId : runs'[i] # NoRow => i <= minted'
        BY <2>1, <3>3 DEF IdsInv
    <3>6. \A i \in (since \cup opened.since)' : i <= minted' /\ i # minted'
        BY <3>3, <3>4 DEF IdsInv
    <3>7. ASSUME NEW p \in Request, Inserts(p)'
          PROVE  /\ id'[p] \in RunId /\ id'[p] <= minted' /\ runs'[id'[p]] = NoRow
                 /\ id'[p] \notin (since \cup opened.since)'
                 /\ \A r \in Request \ {p} : Inserts(r)' => id'[r] # id'[p]
      <4>1. CASE p = q
        <5>1. id'[p] = minted'
            BY <3>2, <4>1
        <5>2. runs'[minted'] = NoRow
            BY <1>0, <2>1, <3>1 DEF IdsInv
        <5>3. \A r \in Request \ {p} : Inserts(r)' => id'[r] = id[r] /\ id[r] \in RunId /\ id[r] <= minted
            BY <3>2, <4>1 DEF IdsInv
        <5>4. minted' <= minted'
            BY <3>1
        <5> QED BY <3>1, <3>3, <3>6, <5>1, <5>2, <5>3, <5>4
      <4>2. CASE p # q
        <5>1. Inserts(p) /\ id'[p] = id[p]
            BY <3>2, <3>7, <4>2
        <5>2. id[p] \in RunId /\ id[p] <= minted /\ runs[id[p]] = NoRow /\ id[p] \notin since \cup opened.since
            BY <5>1 DEF IdsInv
        <5>3. ASSUME NEW r \in Request \ {p}, Inserts(r)' PROVE id'[r] # id'[p]
          <6>1. CASE r = q
              BY <3>2, <3>3, <5>1, <5>2, <6>1
          <6>2. CASE r # q
              BY <3>2, <5>1, <5>3, <6>2 DEF IdsInv
          <6> QED BY <6>1, <6>2
        <5> QED BY <2>1, <3>3, <3>4, <5>1, <5>2, <5>3
      <4> QED BY <4>1, <4>2
    <3> QED BY <3>5, <3>6, <3>7 DEF IdsInv
  <2> QED BY <2>2, <2>3
<1>5. ASSUME NEW q \in Request, CreateRun(q) PROVE IdsInv'
  <2>1. Inserts(q) /\ UNCHANGED <<minted, page, id, req>>
      BY <1>5 DEF CreateRun, Inserts, Throws, tables
  <2>2. \A p \in Request : Inserts(p)' => p # q /\ Inserts(p)
      BY <1>5 DEF CreateRun, Throws, Goto, Inserts, At
  <2>3. \A i \in RunId : runs'[i] # NoRow => runs[i] # NoRow \/ i = id[q]
      BY <1>5 DEF CreateRun, Throws, tables
  <2>4. \A i \in RunId : runs'[i] # NoRow => i <= minted
      BY <2>1, <2>3 DEF IdsInv
  <2>5. ASSUME NEW p \in Request, Inserts(p)' PROVE runs'[id[p]] = NoRow
      BY <2>1, <2>2, <2>3, <2>5 DEF IdsInv
  <2> QED BY <2>1, <2>2, <2>4, <2>5 DEF IdsInv, page
<1>6. ASSUME NEW q \in Request,
             CreateApp(q) \/ UpdateApp(q) \/ Upsert(q) \/ Drop(q) \/ Send(q) \/ Audit(q) \/ Fails(q)
      PROVE  IdsInv'
  <2>1. UNCHANGED <<minted, page, runs, id>>
      BY <1>6 DEF CreateApp, UpdateApp, Upsert, Drop, Send, Audit, Fails, Throws, tables
  <2>2. \A p \in Request : Inserts(p)' => Inserts(p)
      BY <1>6 DEF CreateApp, UpdateApp, Upsert, Drop, Send, Audit, Fails, Throws, Goto, Inserts, At
  <2> QED BY <1>1, <2>1, <2>2
<1>7. ASSUME NEW q \in Request, DeleteApp(q) PROVE IdsInv'
  <2>1. UNCHANGED <<minted, page, id>> /\ \A i \in RunId : runs'[i] # NoRow => runs[i] # NoRow
      BY <1>7 DEF DeleteApp, tables
  <2>2. \A p \in Request : Inserts(p)' => Inserts(p)
      BY <1>7 DEF DeleteApp, Goto, Inserts, At
  <2> QED BY <1>1, <2>1, <2>2
<1>8. ASSUME Browser PROVE IdsInv'
  <2>1. UNCHANGED <<minted, runs, id, req, pc>>
      BY <1>8 DEF Browser, OpenPage, EditFilter, Filter, LoadMore, Reset, server, tables
  <2>2. \A i \in (since \cup opened.since)' : i \in since \cup opened.since \/ (i \in RunId /\ runs[i] # NoRow)
    <3>1. \A f : \A i \in Matching(f) : i \in RunId /\ runs[i] # NoRow
        BY DEF Matching
    <3>2. ASSUME OpenPage PROVE since' = Matching(Global) /\ opened'.since = Matching(Global)
        BY <3>2 DEF OpenPage
    <3>3. ASSUME Filter PROVE since' = Matching(form) /\ opened' = opened
        BY <3>3 DEF Filter
    <3>4. ASSUME LoadMore PROVE since' \in {since, {}} /\ opened' = opened
        BY <3>4 DEF LoadMore
    <3>5. ASSUME Reset PROVE since' = opened.since /\ opened' = opened
        BY <3>5 DEF Reset
    <3>6. ASSUME NEW f \in App \cup {Global}, EditFilter(f) PROVE since' = since /\ opened' = opened
        BY <3>6 DEF EditFilter
    <3> QED BY <1>8, <3>1, <3>2, <3>3, <3>4, <3>5, <3>6 DEF Browser
  <2>3. \A q \in Request : Inserts(q)' <=> Inserts(q)
      BY <2>1 DEF Inserts, At
  <2> QED BY <2>1, <2>2, <2>3 DEF IdsInv
<1>9. CASE UNCHANGED vars
    BY <1>1, <1>9 DEF vars, server, tables, Inserts, At
<1> QED BY <1>2, <1>3, <1>4, <1>5, <1>6, <1>7, <1>8, <1>9 DEF Next, Handler

(* A list that is begun, or that goes on with the filter it was begun with. *)
LEMMA ListsStep == ApiInv /\ IdsInv /\ ListsInv /\ [Next]_vars => ListsInv'
<1> SUFFICES ASSUME ApiInv, IdsInv, ListsInv, [Next]_vars PROVE ListsInv'
    OBVIOUS
<1> USE DEF ApiInv
<1>1. ASSUME NEW q \in Request, CreateRun(q) PROVE ListsInv'
  <2>1. Inserts(q) /\ UNCHANGED page
      BY <1>1 DEF CreateRun, Inserts
  <2>2. id[q] \notin since \cup opened.since
      BY <2>1 DEF IdsInv
  <2>3. since \cup opened.since \subseteq RunId
      BY DEF TypeOK, PageOK
  <2>4. \A i \in RunId : i # id[q] => runs'[i] = runs[i]
      BY <1>1 DEF CreateRun, Throws, tables, TypeOK, TablesOK
  <2> QED BY <2>1, <2>2, <2>3, <2>4, ListsStay
<1>2. ASSUME NEW q \in Request, DeleteApp(q) PROVE ListsInv'
  <2>1. UNCHANGED page /\ \A i \in RunId : runs'[i] # NoRow => runs'[i] = runs[i]
      BY <1>2 DEF DeleteApp, tables, TypeOK, TablesOK
  <2>2. since \cup opened.since \subseteq RunId
      BY DEF TypeOK, PageOK
  <2> QED BY <2>1, <2>2, ListsStay
<1>3. ASSUME NEW q \in Request, Check(q) \/ CheckEnv(q) \/ CreateApp(q) \/ UpdateApp(q) \/ Upsert(q)
                                \/ Drop(q) \/ Send(q) \/ Audit(q) \/ Fails(q)
      PROVE  ListsInv'
  <2>1. UNCHANGED <<page, runs>>
      BY <1>3 DEF Check, CheckEnv, CreateApp, UpdateApp, Upsert, Drop, Send, Audit, Fails, Throws, tables
  <2> QED BY <2>1, ListsStay
<1>4. ASSUME NEW q \in Request, NEW u \in User, NEW op \in Op, NEW a \in App, Dispatch(q, u, op, a)
      PROVE  ListsInv'
  <2>1. UNCHANGED <<page, runs>>
      BY <1>4 DEF Dispatch, tables
  <2> QED BY <2>1, ListsStay
<1>5. CASE UNCHANGED vars
    BY <1>5, ListsStay DEF vars, server, tables
<1>6. ASSUME Browser PROVE runs' = runs
    BY <1>6 DEF Browser, OpenPage, EditFilter, Filter, LoadMore, Reset, server, tables
<1>7. \A f : Matching(f) \subseteq RunId /\ \A i \in Matching(f) : f \in {Global, runs[i]}
    BY DEF Matching
<1>8. Blank \in [RunId -> Nat]
    BY PagesAreRuns
<1>a. ASSUME NEW f, GoesOn(Page(f, 0)), shown' = Extended(Blank, Page(f, 0)), since' = Matching(f), runs' = runs
      PROVE  ListKept(shown, cursor, since)'
    BY <1>7, <1>8, <1>a, PageExtends DEF ListKept
<1>b. ASSUME OpenPage PROVE ListsInv'
  <2>1. /\ GoesOn(Page(Global, 0)) /\ shown' = Extended(Blank, Page(Global, 0)) /\ since' = Matching(Global)
        /\ opened'.shown = shown' /\ opened'.cursor = cursor' /\ opened'.since = since' /\ applied' = Global
      BY <1>b DEF OpenPage
  <2>2. runs' = runs
      BY <1>6, <1>b DEF Browser
  <2>3. ListKept(shown, cursor, since)'
      BY <1>a, <2>1, <2>2
  <2> QED BY <1>7, <2>1, <2>2, <2>3 DEF ListsInv, ListKept
<1>c. ASSUME Filter PROVE ListsInv'
  <2>1. /\ GoesOn(Page(form, 0)) /\ shown' = Extended(Blank, Page(form, 0)) /\ since' = Matching(form)
        /\ opened' = opened /\ applied' = form
      BY <1>c DEF Filter
  <2>2. runs' = runs
      BY <1>6, <1>c DEF Browser
  <2>3. ListKept(shown, cursor, since)'
      BY <1>a, <2>1, <2>2
  <2> QED BY <1>7, <2>1, <2>2, <2>3 DEF ListsInv, ListKept
<1>d. ASSUME LoadMore PROVE ListsInv'
  <2>1. /\ GoesOn(Page(form, cursor)) /\ shown' = Extended(shown, Page(form, cursor)) /\ cursor # 0
        /\ since' = (IF form = applied THEN since ELSE {}) /\ opened' = opened /\ applied' = applied
      BY <1>d DEF LoadMore
  <2>2. runs' = runs
      BY <1>6, <1>d DEF Browser
  <2>3. since' \in SUBSET RunId /\ \A i \in since' : runs[i] # NoRow => form \in {Global, runs[i]}
      BY <2>1 DEF ListsInv, TypeOK, PageOK
  <2>4. ListKept(shown, cursor, since')
      BY <2>1 DEF ListsInv, ListKept
  <2>5. cursor \in RunId \cup {0} /\ shown \in [RunId -> Nat]
      BY DEF TypeOK, PageOK
  <2>6. /\ \A i \in RunId : shown'[i] <= 1 /\ (shown'[i] # 0 /\ cursor' # 0 => cursor' <= i)
        /\ \A i \in since' : runs[i] # NoRow /\ (cursor' = 0 \/ cursor' <= i) => shown'[i] = 1
    <3> HIDE DEF ListKept
    <3> QED BY <2>1, <2>3, <2>4, <2>5, PageExtends
  <2>7. ListKept(shown, cursor, since)'
      BY <2>2, <2>6 DEF ListKept
  <2> QED BY <2>1, <2>2, <2>7 DEF ListsInv, ListKept
<1>e. ASSUME Reset PROVE ListsInv'
  <2>1. /\ shown' = opened.shown /\ cursor' = opened.cursor /\ since' = opened.since
        /\ opened' = opened /\ applied' = Global /\ runs' = runs
      BY <1>6, <1>e DEF Reset, Browser
  <2> QED BY <2>1 DEF ListsInv, ListKept
<1>f. ASSUME NEW f \in App \cup {Global}, EditFilter(f) PROVE ListsInv'
  <2>1. UNCHANGED <<shown, cursor, since, opened, applied, runs>>
      BY <1>6, <1>f DEF EditFilter, Browser
  <2> QED BY <2>1 DEF ListsInv, ListKept
<1> QED BY <1>1, <1>2, <1>3, <1>4, <1>5, <1>b, <1>c, <1>d, <1>e, <1>f DEF Next, Handler, Browser

(* Loading page after page, nobody sees a run twice or misses one, whatever *)
(* is created and deleted meanwhile and however pages and filters alternate.*)
THEOREM HistoryCovered == Spec => []PagesCoverHistory
<1>1. Init => IdsInv /\ ListsInv
  <2> SUFFICES ASSUME Init PROVE IdsInv /\ ListsInv
      OBVIOUS
  <2>0. OldRun \in Seq(App) /\ NoRow \notin App /\ MaxRun \in Nat
      BY ApiAssumption DEF ApiAssumption
  <2>1. since = {} /\ opened.since = {} /\ shown = Blank /\ opened.shown = Blank /\ cursor = 0 /\ opened.cursor = 0
      BY DEF Init, Closed
  <2>2. \A i \in RunId : runs[i] # NoRow => i <= minted
      BY DEF Init
  <2>3. \A q \in Request : ~ Inserts(q)
      BY DEF Init, Inserts, At
  <2> QED BY <2>1, <2>2, <2>3 DEF IdsInv, ListsInv, ListKept, Blank
<1>2. ApiInv /\ ListsInv => PagesCoverHistory
    BY DEF ListsInv, ListKept, PagesCoverHistory
<1> QED BY <1>1, <1>2, ApiInit, ApiStep, IdsStep, ListsStep, PTL DEF Spec
=============================================================================
