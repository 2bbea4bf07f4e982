--------------------------- MODULE TriggersProofs ---------------------------
(***************************************************************************)
(* What holds of the way from a push to a deploy for any apps, refs,       *)
(* pushes and disturbances: TriggersInv is inductive, and with it go the   *)
(* promise of an answered delivery and BranchNeverGoesBack.                *)
(*                                                                         *)
(* The argument: rows are only added, and what a row says of its target,   *)
(* ref and push never changes (Kept), so who was triggered stays so; and   *)
(* the head of a ref only rises, or is deleted, so a clone is never older  *)
(* than one made before it.                                                *)
(***************************************************************************)
EXTENDS Triggers, SequenceTheorems, TLAPS

(* The parameters, and the empty values.                                    *)
LEMMA Constants ==
    /\ AppOf \in [Target -> App] /\ Default \in Ref
    /\ Matching \in [Pattern -> SUBSET Ref]
    /\ NoRef \notin Ref /\ NoRef \notin Pattern
    /\ NoRow \notin Ref /\ NoRow \notin Pattern /\ NoRow # NoRef
    /\ MaxPush \in Nat /\ MaxRun \in Nat /\ Budget \in Nat
    /\ Branch \subseteq Ref
BY TriggersAssumption DEF TriggersAssumption, Ref

-----------------------------------------------------------------------------
(* Rows that are there keep what they were created with.                    *)
Kept ==
    /\ Len(runs) <= Len(runs')
    /\ \A i \in 1 .. Len(runs) : /\ runs'[i].target = runs[i].target
                                 /\ runs'[i].ref = runs[i].ref
                                 /\ runs'[i].push = runs[i].push

RunsOK == runs \in Seq(Row) /\ Len(runs) <= MaxRun

(* What a sequence of rows is.                                              *)
LEMMA RunsAre ==
    ASSUME RunsOK
    PROVE  /\ Len(runs) \in Nat /\ DOMAIN runs = 1 .. Len(runs)
           /\ \A i \in 1 .. Len(runs) : runs[i] \in Row
BY LenProperties, ElementOfSeq DEF RunsOK

(* A row that is not changed in target, ref and push.                       *)
LEMMA RowChanged ==
    ASSUME RunsOK, NEW i \in DOMAIN runs, NEW r \in Row, runs' = [runs EXCEPT ![i] = r],
           r.target = runs[i].target, r.ref = runs[i].ref, r.push = runs[i].push
    PROVE  RunsOK' /\ Kept /\ Len(runs') = Len(runs)
<1>1. i \in 1 .. Len(runs) /\ runs \in Seq(Row) /\ Len(runs) \in Nat /\ Len(runs) <= MaxRun
    BY RunsAre DEF RunsOK
<1>2. /\ runs' \in Seq(Row) /\ Len(runs') = Len(runs)
      /\ \A j \in 1 .. Len(runs) : runs'[j] = IF j = i THEN r ELSE runs[j]
    BY <1>1, ExceptSeq
<1>3. RunsOK'
    BY <1>1, <1>2 DEF RunsOK
<1>4. Kept
    BY <1>1, <1>2 DEF Kept
<1> QED BY <1>2, <1>3, <1>4

(* A new status.                                                            *)
LEMMA StatusKeeps ==
    ASSUME RunsOK, NEW i \in DOMAIN runs,
           NEW s \in {"pending", "running", "succeeded", "failed", "removed"}, Status(i, s)
    PROVE  RunsOK' /\ Kept /\ Len(runs') = Len(runs)
<1> DEFINE r == [runs[i] EXCEPT !.status = s]
<1>1. runs[i] \in Row
    BY RunsAre
<1>2. r \in Row /\ r.target = runs[i].target /\ r.ref = runs[i].ref /\ r.push = runs[i].push
    BY <1>1 DEF Row
<1>3. runs' = [runs EXCEPT ![i] = r]
    BY DEF Status
<1> QED BY <1>2, <1>3, RowChanged

(* The commit of a clone.                                                   *)
LEMMA GotKeeps ==
    ASSUME RunsOK, NEW i \in DOMAIN runs, NEW c \in Push, runs' = [runs EXCEPT ![i].got = c]
    PROVE  RunsOK' /\ Kept /\ Len(runs') = Len(runs)
<1> DEFINE r == [runs[i] EXCEPT !.got = c]
<1>1. runs[i] \in Row
    BY RunsAre
<1>2. r \in Row /\ r.target = runs[i].target /\ r.ref = runs[i].ref /\ r.push = runs[i].push
    BY <1>1 DEF Row
<1>3. runs' = [runs EXCEPT ![i] = r]
    OBVIOUS
<1> QED BY <1>2, <1>3, RowChanged

(* The outcome of a deploy.                                                 *)
LEMMA SettleKeeps ==
    ASSUME RunsOK, NEW t \in Target, work[t].run \in DOMAIN runs,
           NEW s \in {"succeeded", "failed"}, Settle(t, s)
    PROVE  RunsOK' /\ Kept /\ Len(runs') = Len(runs)
<1>1. CASE runs[work[t].run].status = "running"
    BY <1>1, StatusKeeps DEF Settle
<1>2. CASE UNCHANGED runs
    BY <1>2, RunsAre DEF RunsOK, Kept
<1> QED BY <1>1, <1>2 DEF Settle

(* A new row.                                                               *)
LEMMA NewRunKeeps ==
    ASSUME RunsOK, Len(runs) < MaxRun, NEW t \in Target, NEW ref \in Ref,
           NEW commit \in Push \cup {0}, NEW push \in Push \cup {0}, NewRun(t, ref, commit, push)
    PROVE  /\ RunsOK' /\ Kept /\ Len(runs') = Len(runs) + 1
           /\ runs'[Len(runs) + 1].push = push /\ runs'[Len(runs) + 1].target = t
<1> DEFINE r == [target |-> t, ref |-> ref, commit |-> commit, push |-> push,
                 got |-> 0, status |-> "pending"]
<1>1. r \in Row /\ runs \in Seq(Row)
    BY DEF Row, RunsOK
<1>2. runs' = Append(runs, r)
    BY DEF NewRun
<1>3. /\ runs' \in Seq(Row) /\ Len(runs') = Len(runs) + 1
      /\ \A i \in 1 .. Len(runs) : runs'[i] = runs[i]
      /\ runs'[Len(runs) + 1] = r
    BY <1>1, <1>2, AppendProperties
<1>4. Len(runs) \in Nat
    BY RunsAre
<1>5. RunsOK'
    BY <1>3, <1>4, Constants DEF RunsOK
<1>6. Kept
    BY <1>3, <1>4 DEF Kept
<1> HIDE DEF r
<1>7. r.push = push /\ r.target = t
    BY DEF r
<1> QED BY <1>3, <1>5, <1>6, <1>7

(* The rows of a deleted app.                                               *)
LEMMA RemovedKeeps ==
    ASSUME RunsOK, NEW a \in App, DeleteApp(a)
    PROVE  RunsOK' /\ Kept /\ Len(runs') = Len(runs)
<1> DEFINE r(i) == IF AppOf[runs[i].target] = a
                   THEN [runs[i] EXCEPT !.status = "removed"] ELSE runs[i]
<1>1. /\ Len(runs) \in Nat /\ DOMAIN runs = 1 .. Len(runs)
      /\ \A i \in 1 .. Len(runs) : runs[i] \in Row
    BY RunsAre
<1>2. \A i \in 1 .. Len(runs) : /\ r(i) \in Row /\ r(i).target = runs[i].target
                                /\ r(i).ref = runs[i].ref /\ r(i).push = runs[i].push
    BY <1>1 DEF Row
<1>3. runs' = [i \in 1 .. Len(runs) |-> r(i)]
    BY <1>1 DEF DeleteApp
<1> HIDE DEF r
<1>4. runs' \in [1 .. Len(runs) -> Row]
    BY <1>2, <1>3
<1>5. runs' \in Seq(Row)
    BY <1>1, <1>4, SeqDef
<1>6. Len(runs') = Len(runs)
    BY <1>1, <1>4, <1>5, LenProperties
<1>7. \A i \in 1 .. Len(runs) : runs'[i] = r(i)
    BY <1>3
<1> QED BY <1>1, <1>2, <1>5, <1>6, <1>7 DEF RunsOK, Kept

-----------------------------------------------------------------------------
(* The run that Send sends is the handler's own.                            *)
LEMMA CreatedIs ==
    ASSUME NEW n \in Push, \E i \in unsent : runs[i].push = n
    PROVE  Created(n) \in unsent /\ runs[Created(n)].push = n
BY DEF Created

(* Who was triggered stays triggered.                                       *)
LEMMA TriggeredKept ==
    ASSUME RunsOK, RunsOK', Kept, NEW n \in Push, NEW t \in Target, Triggered(n, t)
    PROVE  Triggered(n, t)'
<1>1. PICK i \in DOMAIN runs : runs[i].push = n /\ runs[i].target = t
    BY DEF Triggered
<1>2. i \in 1 .. Len(runs) /\ i \in DOMAIN runs'
    <2>1. /\ Len(runs) \in Nat /\ DOMAIN runs = 1 .. Len(runs)
        BY RunsAre
    <2>2. /\ Len(runs') \in Nat /\ DOMAIN runs' = 1 .. Len(runs')
        BY LenProperties DEF RunsOK
    <2> QED BY <2>1, <2>2, <1>1 DEF Kept
<1>3. runs'[i].push = n /\ runs'[i].target = t
    BY <1>1, <1>2 DEF Kept
<1> QED BY <1>2, <1>3 DEF Triggered

(* A delivery that a step does not touch: nobody joins those who have       *)
(* subscribed throughout, and those who stay still have.                    *)
LEMMA UntouchedDelivery ==
    ASSUME TypeOK, RunsOK', Kept, NEW n \in Push, HandlerFor(n),
           pc'[n] = pc[n], todo'[n] = todo[n], hook'[n] = hook[n],
           Len(pushed) <= Len(pushed'), Len(pushed') \in Nat,
           \A t \in steady'[n] : t \in steady[n] /\ Subscribed(t, pushed[n].ref)',
           \A i \in unsent : runs[i].push = n => i \in unsent'
    PROVE  HandlerFor(n)'
<1>1. RunsOK /\ Len(runs) \in Nat /\ DOMAIN runs = 1 .. Len(runs) /\ unsent \subseteq 1 .. Len(runs)
    BY RunsAre DEF TypeOK, RunsOK
<1>2. Len(pushed) \in Nat
    BY LenProperties DEF TypeOK
<1>3. (n > Len(pushed) => pc[n] = "none")'
    BY <1>2, Constants DEF HandlerFor, Push
<1>4. (pc[n] \in {"none", "sent", "failed"} => steady[n] = {})'
    BY DEF HandlerFor
<1>5. (pc[n] \notin {"create", "send"} => hook[n] = {})' /\ (pc[n] = "ok" => todo[n] = {})'
    BY DEF HandlerFor
<1>6. (pc[n] = "send" => \E i \in unsent : runs[i].push = n)'
    <2>1. SUFFICES ASSUME pc[n] = "send" PROVE \E i \in unsent' : runs'[i].push = n
        OBVIOUS
    <2>2. PICK i \in unsent : runs[i].push = n
        BY <2>1 DEF HandlerFor
    <2> QED BY <2>2, <1>1 DEF Kept
<1>7. ASSUME NEW t \in steady'[n]
      PROVE  /\ Subscribed(t, pushed[n].ref)'
             /\ (AppOf[t] \in todo[n] \/ t \in hook[n] \/ Triggered(n, t))'
    <2>1. t \in steady[n] /\ t \in Target
        BY DEF TypeOK
    <2>2. AppOf[t] \in todo[n] \/ t \in hook[n] \/ Triggered(n, t)
        BY <2>1 DEF HandlerFor
    <2>3. Triggered(n, t) => Triggered(n, t)'
        BY <1>1, <2>1, TriggeredKept
    <2> QED BY <2>2, <2>3
<1> QED BY <1>3, <1>4, <1>5, <1>6, <1>7 DEF HandlerFor

-----------------------------------------------------------------------------
(* Types.                                                                   *)
RegistryOK == apps \subseteq App /\ trigger \in [Target -> Ref \cup Pattern \cup {NoRef, NoRow}]
RepositoryOK == /\ head \in [Ref -> Push \cup {0}]
                /\ pushed \in Seq([ref : Ref, deletes : BOOLEAN]) /\ Len(pushed) <= MaxPush
HandlersOK == /\ pc \in [Push -> Place] /\ todo \in [Push -> SUBSET App]
              /\ hook \in [Push -> SUBSET Target] /\ steady \in [Push -> SUBSET Target]
MessagesOK == RunsOK /\ unsent \subseteq DOMAIN runs /\ queue \subseteq DOMAIN runs
WorkOK == /\ work \in [Target -> [run : RunId \cup {0}, commit : Push \cup {0}]]
          /\ deployed \in [Target -> [ref : Ref \cup {NoRef}, commit : Push \cup {0}]]

(* The typing, part by part.                                                *)
LEMMA TypeParts ==
    /\ TypeOK <=> /\ RegistryOK /\ RepositoryOK /\ HandlersOK /\ MessagesOK /\ WorkOK
                  /\ budget \in 0 .. Budget
    /\ TypeOK' <=> /\ RegistryOK' /\ RepositoryOK' /\ HandlersOK' /\ MessagesOK' /\ WorkOK'
                   /\ budget' \in 0 .. Budget
BY DEF TypeOK, RegistryOK, RepositoryOK, HandlersOK, MessagesOK, RunsOK, WorkOK

(* A disturbance keeps the budget a budget.                                 *)
LEMMA StrikeKeeps == ASSUME TypeOK, Strike PROVE budget' \in 0 .. Budget
BY Constants DEF TypeOK, Strike

(* What is known of pushes and messages.                                    *)
LEMMA PushedAre ==
    ASSUME RepositoryOK
    PROVE  /\ Len(pushed) \in Nat /\ DOMAIN pushed = 1 .. Len(pushed) /\ Len(pushed) <= MaxPush
           /\ \A n \in 1 .. Len(pushed) : pushed[n].ref \in Ref
<1>1. pushed \in Seq([ref : Ref, deletes : BOOLEAN])
    BY DEF RepositoryOK
<1>2. \A n \in 1 .. Len(pushed) : pushed[n] \in [ref : Ref, deletes : BOOLEAN]
    BY <1>1, ElementOfSeq
<1> QED BY <1>1, <1>2, LenProperties DEF RepositoryOK

(* Messages of rows that are there stay messages of rows.                   *)
LEMMA MessagesKept ==
    ASSUME MessagesOK, RunsOK', Kept, NEW more \in SUBSET DOMAIN runs',
           unsent' \subseteq unsent \cup more, queue' \subseteq queue \cup more
    PROVE  MessagesOK'
<1>1. /\ Len(runs) \in Nat /\ DOMAIN runs = 1 .. Len(runs)
    BY RunsAre DEF MessagesOK
<1>2. /\ Len(runs') \in Nat /\ DOMAIN runs' = 1 .. Len(runs')
    BY LenProperties DEF RunsOK
<1>3. DOMAIN runs \subseteq DOMAIN runs'
    BY <1>1, <1>2 DEF Kept
<1> QED BY <1>3 DEF MessagesOK

(* Nothing is changed of the rows.                                          *)
LEMMA SameRuns ==
    ASSUME RunsOK, UNCHANGED runs
    PROVE  RunsOK' /\ Kept
BY RunsAre DEF RunsOK, Kept

(* Of a step that leaves heads and deploys alone: what is cloned and        *)
(* deployed keeps its bounds.                                               *)
LEMMA CommitsKept ==
    ASSUME TypeOK, CommitsInv, RunsOK', Kept, UNCHANGED <<head, pushed, work, deployed>>
    PROVE  CommitsInv'
<1>1. Len(runs) \in Nat /\ Len(runs') \in Nat
    BY RunsAre, LenProperties DEF TypeOK, RunsOK
<1>2. SUFFICES ASSUME NEW t \in Target
               PROVE  LET d == deployed[t]  w == work[t]  ref == runs'[w.run].ref IN
                      /\ w.run <= Len(runs')
                      /\ w.commit # 0 => /\ w.run # 0 /\ ref \in Ref
                                         /\ head[ref] = 0 \/ w.commit <= head[ref]
                                         /\ ref = d.ref => d.commit <= w.commit
    BY DEF CommitsInv
<1>3. work[t] \in [run : RunId \cup {0}, commit : Push \cup {0}]
    BY DEF TypeOK
<1>4. work[t].run \in Nat /\ work[t].run <= Len(runs)
    BY <1>3, Constants DEF CommitsInv, RunId
<1>5. CASE work[t].run = 0
    BY <1>1, <1>5 DEF CommitsInv
<1>6. CASE work[t].run # 0
    <2>1. runs'[work[t].run].ref = runs[work[t].run].ref
        BY <1>1, <1>4, <1>6 DEF Kept
    <2>2. work[t].run <= Len(runs')
        BY <1>1, <1>4 DEF Kept
    <2> QED BY <2>1, <2>2, <1>6 DEF CommitsInv
<1> QED BY <1>5, <1>6

-----------------------------------------------------------------------------
Unreached == UNCHANGED <<pc, todo, hook>>

(* A step of none of the handlers, that takes no run from them.             *)
LEMMA HandlersUntouched ==
    ASSUME TypeOK, HandlerInv, RunsOK', Kept, Unreached, UNCHANGED pushed,
           \A n \in Push : \A t \in steady'[n] : t \in steady[n] /\ Subscribed(t, pushed[n].ref)',
           \A i \in unsent : runs[i].push \in Push => i \in unsent'
    PROVE  HandlerInv'
<1>1. Len(pushed') \in Nat /\ Len(pushed) <= Len(pushed')
    BY PushedAre, TypeParts
<1>2. ASSUME NEW n \in Push PROVE HandlerFor(n)'
    BY <1>1, UntouchedDelivery DEF HandlerInv, Unreached
<1> QED BY <1>2 DEF HandlerInv

(* The same of a step that does not touch the registry either.              *)
LEMMA SubscribersStay ==
    ASSUME TypeOK, HandlerInv, UNCHANGED <<registry, pushed>>,
           NEW n \in Push, steady'[n] = steady[n]
    PROVE  \A t \in steady'[n] : t \in steady[n] /\ Subscribed(t, pushed[n].ref)'
BY DEF HandlerInv, HandlerFor, Subscribed, registry

(* Unsettled() leaves those who still subscribe.                            *)
LEMMA UnsettledStay ==
    ASSUME TypeOK, HandlerInv, UNCHANGED pushed, Unsettled(apps', trigger')
    PROVE  /\ steady' \in [Push -> SUBSET Target]
           /\ \A n \in Push : \A t \in steady'[n] :
                t \in steady[n] /\ Subscribed(t, pushed[n].ref)'
<1>1. ASSUME NEW n \in Push, NEW t \in steady'[n]
      PROVE  t \in steady[n] /\ Subscribed(t, pushed[n].ref)'
    <2>1. t \in steady[n] /\ AppOf[t] \in apps' /\ trigger'[t] = trigger[t]
        BY DEF Unsettled
    <2> QED BY <2>1 DEF HandlerInv, HandlerFor, Subscribed
<1> QED BY <1>1 DEF Unsettled, TypeOK

(* A step of the handler of one delivery.                                   *)
LEMMA OtherDeliveries ==
    ASSUME TypeOK, HandlerInv, RunsOK', Kept, UNCHANGED <<registry, pushed>>, NEW n \in Push,
           \A m \in Push \ {n} : /\ pc'[m] = pc[m] /\ todo'[m] = todo[m]
                                 /\ hook'[m] = hook[m] /\ steady'[m] = steady[m],
           \A i \in unsent : runs[i].push # n => i \in unsent',
           HandlerFor(n)'
    PROVE  HandlerInv'
<1>1. Len(pushed') \in Nat /\ Len(pushed) <= Len(pushed')
    BY PushedAre, TypeParts
<1>2. ASSUME NEW m \in Push, m # n PROVE HandlerFor(m)'
    <2>1. \A t \in steady'[m] : t \in steady[m] /\ Subscribed(t, pushed[m].ref)'
        BY <1>2, SubscribersStay
    <2>2. \A i \in unsent : runs[i].push = m => i \in unsent'
        BY <1>2
    <2> QED BY <1>1, <1>2, <2>1, <2>2, UntouchedDelivery DEF HandlerInv
<1> QED BY <1>2 DEF HandlerInv

(* The initial states.                                                      *)
LEMMA TriggersInit == Init => TriggersInv
<1> SUFFICES ASSUME Init PROVE TriggersInv
    OBVIOUS
<1>1. runs = <<>> /\ Len(runs) = 0 /\ runs \in Seq(Row) /\ pushed = <<>> /\ Len(pushed) = 0
      /\ pushed \in Seq([ref : Ref, deletes : BOOLEAN])
    BY EmptySeq DEF Init
<1>2. TypeOK
  <2>1. RegistryOK
      BY Constants DEF Init, RegistryOK
  <2>2. RepositoryOK
      BY <1>1, Constants DEF Init, RepositoryOK
  <2>3. HandlersOK
      BY DEF Init, HandlersOK, Place
  <2>4. MessagesOK
      BY <1>1, Constants DEF Init, MessagesOK, RunsOK
  <2>5. WorkOK
      BY DEF Init, WorkOK, Idle, Nothing
  <2>6. budget \in 0 .. Budget
      BY Constants DEF Init
  <2> QED BY <2>1, <2>2, <2>3, <2>4, <2>5, <2>6, TypeParts
<1>3. HandlerInv
    BY DEF Init, HandlerInv, HandlerFor
<1>4. PushReachesSubscribers
    BY DEF Init, PushReachesSubscribers
<1>5. CommitsInv
    BY <1>1, Constants DEF Init, CommitsInv, Idle, Nothing
<1> QED BY <1>2, <1>3, <1>4, <1>5 DEF TriggersInv

-----------------------------------------------------------------------------
Holds == TypeOK /\ HandlerInv /\ CommitsInv

(* What a state that holds is made of.                                      *)
LEMMA HoldsParts ==
    ASSUME Holds
    PROVE  /\ TypeOK /\ HandlerInv /\ CommitsInv
           /\ RegistryOK /\ RepositoryOK /\ HandlersOK /\ MessagesOK /\ RunsOK /\ WorkOK
           /\ budget \in 0 .. Budget
           /\ Len(runs) \in Nat /\ DOMAIN runs = 1 .. Len(runs) /\ Len(runs) <= MaxRun
           /\ unsent \subseteq 1 .. Len(runs) /\ queue \subseteq 1 .. Len(runs)
<1>1. TypeOK /\ HandlerInv /\ CommitsInv
    BY DEF Holds
<1>2. /\ RegistryOK /\ RepositoryOK /\ HandlersOK /\ MessagesOK /\ WorkOK /\ budget \in 0 .. Budget
    BY <1>1, TypeParts
<1>3. RunsOK
    BY <1>2 DEF MessagesOK
<1> QED BY <1>1, <1>2, <1>3, RunsAre DEF MessagesOK, RunsOK

(* Everything but the rows, for a step that leaves it alone.                *)
LEMMA Framed ==
    ASSUME Holds
    PROVE  /\ UNCHANGED registry => RegistryOK'
           /\ UNCHANGED <<head, pushed>> => RepositoryOK'
           /\ UNCHANGED handler => HandlersOK'
           /\ UNCHANGED <<work, deployed>> => WorkOK'
           /\ UNCHANGED budget => budget' \in 0 .. Budget
           /\ Strike => budget' \in 0 .. Budget
<1>1. TypeOK /\ RegistryOK /\ RepositoryOK /\ HandlersOK /\ WorkOK /\ budget \in 0 .. Budget
    BY HoldsParts
<1>2. UNCHANGED registry => RegistryOK'
    BY <1>1 DEF RegistryOK, registry
<1>3. UNCHANGED <<head, pushed>> => RepositoryOK'
    BY <1>1 DEF RepositoryOK
<1>4. UNCHANGED handler => HandlersOK'
    BY <1>1 DEF HandlersOK, handler
<1>5. UNCHANGED <<work, deployed>> => WorkOK'
    BY <1>1 DEF WorkOK
<1> QED BY <1>1, <1>2, <1>3, <1>4, <1>5, StrikeKeeps

(* A step that leaves the rows alone.                                       *)
LEMMA RowsStay ==
    ASSUME Holds, UNCHANGED runs
    PROVE  /\ RunsOK' /\ Kept /\ DOMAIN runs' = 1 .. Len(runs)
           /\ unsent' \cup queue' \subseteq unsent \cup queue => MessagesOK'
<1>1. RunsOK' /\ Kept
    BY HoldsParts, SameRuns
<1>2. DOMAIN runs' = 1 .. Len(runs)
    BY HoldsParts
<1> QED BY <1>1, <1>2, HoldsParts DEF MessagesOK

(* GitHub.                                                                  *)
LEMMA GitPushStep == ASSUME Holds, NEW ref \in Ref, GitPush(ref) PROVE Holds'
<1> DEFINE n == Len(pushed) + 1
<1>1. /\ TypeOK /\ HandlerInv /\ CommitsInv /\ RepositoryOK /\ HandlersOK /\ RunsOK
      /\ Len(pushed) \in Nat /\ n \in Push
      /\ UNCHANGED <<registry, todo, hook, steady, rows, work, deployed>>
      /\ pc' = [pc EXCEPT ![n] = "sent"]
    BY HoldsParts, PushedAre DEF GitPush
<1>2. PICK deletes \in BOOLEAN :
        /\ head' = [head EXCEPT ![ref] = IF deletes THEN 0 ELSE n]
        /\ pushed' = Append(pushed, [ref |-> ref, deletes |-> deletes])
        /\ IF deletes THEN Strike ELSE UNCHANGED budget
    BY DEF GitPush
<1> HIDE DEF n
<1>3. pushed \in Seq([ref : Ref, deletes : BOOLEAN])
      /\ [ref |-> ref, deletes |-> deletes] \in [ref : Ref, deletes : BOOLEAN]
    BY <1>1 DEF RepositoryOK
<1>4. /\ pushed' \in Seq([ref : Ref, deletes : BOOLEAN]) /\ Len(pushed') = n
      /\ \A m \in 1 .. Len(pushed) : pushed'[m] = pushed[m]
    BY <1>2, <1>3, AppendProperties DEF n
<1>5. RunsOK' /\ Kept /\ MessagesOK'
    BY <1>1, RowsStay DEF rows
<1>6. TypeOK'
  <2>1. RegistryOK' /\ WorkOK' /\ budget' \in 0 .. Budget
      BY <1>1, <1>2, Framed
  <2>2. RepositoryOK'
      BY <1>1, <1>2, <1>4, Constants DEF RepositoryOK, Push
  <2>3. HandlersOK'
      BY <1>1 DEF HandlersOK, Place
  <2> QED BY <1>5, <2>1, <2>2, <2>3, TypeParts
<1>7. ASSUME NEW m \in Push PROVE HandlerFor(m)'
  <2>1. CASE m = n
    <3>1. pc[n] = "none" /\ steady[n] = {} /\ hook[n] = {}
        BY <1>1 DEF HandlerInv, HandlerFor, n
    <3>2. pc'[n] = "sent" /\ steady'[n] = {} /\ hook'[n] = {}
        BY <1>1, <3>1 DEF HandlersOK
    <3> QED BY <2>1, <1>1, <1>4, <3>2 DEF HandlerFor, n
  <2>2. CASE m # n
    <3>1. pc'[m] = pc[m] /\ todo'[m] = todo[m] /\ hook'[m] = hook[m] /\ steady'[m] = steady[m]
          /\ HandlerFor(m) /\ Len(pushed) <= Len(pushed') /\ Len(pushed') \in Nat /\ unsent' = unsent
        BY <2>2, <1>1, <1>4 DEF HandlersOK, HandlerInv, n, rows
    <3>2. \A t \in steady'[m] : t \in steady[m] /\ Subscribed(t, pushed[m].ref)'
      <4>1. SUFFICES ASSUME NEW t \in steady[m] PROVE Subscribed(t, pushed[m].ref)'
          BY <3>1
      <4>2. m \in 1 .. Len(pushed)
          BY <3>1, <1>1 DEF HandlerFor, Push
      <4> QED BY <3>1, <4>2, <1>1, <1>4 DEF HandlerFor, Subscribed, registry
    <3> QED BY <3>1, <3>2, <1>1, <1>5, UntouchedDelivery
  <2> QED BY <2>1, <2>2
<1>8. CommitsInv'
  <2>1. ASSUME NEW r \in Ref PROVE head'[r] <= Len(pushed')
      BY <1>1, <1>2, <1>4 DEF CommitsInv, RepositoryOK, Push, n
  <2>2. ASSUME NEW r \in Ref, NEW c \in Push \cup {0}, c <= Len(pushed), head[r] = 0 \/ c <= head[r] \/ head'[r] # head[r]
        PROVE  c <= Len(pushed') /\ (head'[r] = 0 \/ c <= head'[r])
    <3>1. c \in Nat /\ head[r] \in Nat /\ head'[r] \in {head[r], 0, n}
        BY <1>1, <1>2, Constants DEF RepositoryOK, Push
    <3>2. CASE head[r] # 0 \/ head'[r] # head[r]
        BY <2>2, <3>1, <3>2, <1>1, <1>4 DEF n
    <3>3. CASE head[r] = 0 /\ head'[r] = head[r]
        BY <2>2, <3>1, <3>3, <1>1, <1>4 DEF n
    <3> QED BY <3>2, <3>3
  <2>3. ASSUME NEW t \in Target
        PROVE  LET d == deployed[t]  w == work[t]  ref_ == runs[w.run].ref IN
               /\ d.commit <= Len(pushed')
               /\ d.ref \in Ref => head'[d.ref] = 0 \/ d.commit <= head'[d.ref]
               /\ w.run <= Len(runs)
               /\ w.commit # 0 => /\ w.run # 0 /\ ref_ \in Ref /\ w.commit <= Len(pushed')
                                  /\ head'[ref_] = 0 \/ w.commit <= head'[ref_]
                                  /\ ref_ = d.ref => d.commit <= w.commit
    <3>1. deployed[t].commit \in Push \cup {0} /\ work[t].commit \in Push \cup {0}
        BY <1>1, HoldsParts DEF WorkOK
    <3>2. deployed[t].commit \in Nat /\ deployed[t].commit <= Len(pushed')
        BY <3>1, <1>1, <1>4, Constants DEF CommitsInv, Push, n
    <3> QED BY <2>2, <3>1, <3>2, <1>1 DEF CommitsInv
  <2> QED BY <2>1, <2>3, <1>1 DEF CommitsInv, rows
<1> QED BY <1>6, <1>7, <1>8 DEF Holds, HandlerInv

(* Deliveries that are lost or sent again.                                  *)
LEMMA DeliveryStep == ASSUME Holds, NEW n \in Push, DeliveryLost(n) \/ Redeliver(n) PROVE Holds'
<1>1. /\ TypeOK /\ HandlerInv /\ CommitsInv /\ HandlersOK
      /\ UNCHANGED <<registry, head, pushed, todo, hook, steady, rows, work, deployed>>
      /\ pc[n] \in {"sent", "failed"} /\ pc' = [pc EXCEPT ![n] = pc'[n]] /\ pc'[n] \in {"sent", "failed"}
    BY HoldsParts DEF DeliveryLost, Redeliver, HandlersOK
<1>2. RunsOK' /\ Kept /\ MessagesOK'
    BY <1>1, RowsStay DEF rows
<1>3. RegistryOK' /\ RepositoryOK' /\ WorkOK' /\ budget' \in 0 .. Budget
    BY <1>1, Framed DEF DeliveryLost, Redeliver
<1>4. HandlersOK'
    BY <1>1 DEF HandlersOK, Place
<1>5. HandlerFor(n)'
    BY <1>1 DEF HandlerInv, HandlerFor
<1>6. HandlerInv'
    BY <1>1, <1>2, <1>5, OtherDeliveries DEF HandlersOK, rows
<1>7. CommitsInv'
    BY <1>1, <1>2, CommitsKept
<1>8. TypeOK'
    BY <1>2, <1>3, <1>4, TypeParts
<1> QED BY <1>6, <1>7, <1>8 DEF Holds

-----------------------------------------------------------------------------
(* A step of one handler holds if it keeps types and that delivery.         *)
LEMMA HandlerStepHolds ==
    ASSUME Holds, NEW n \in Push,
           UNCHANGED <<registry, head, pushed, work, deployed>>, budget' \in 0 .. Budget,
           HandlersOK', MessagesOK', Kept,
           \A m \in Push \ {n} : /\ pc'[m] = pc[m] /\ todo'[m] = todo[m]
                                 /\ hook'[m] = hook[m] /\ steady'[m] = steady[m],
           \A i \in unsent : runs[i].push # n => i \in unsent',
           HandlerFor(n)'
    PROVE  Holds'
<1>1. TypeOK /\ HandlerInv /\ CommitsInv /\ RunsOK'
    BY HoldsParts DEF MessagesOK
<1>2. RegistryOK' /\ RepositoryOK' /\ WorkOK'
    BY Framed
<1>3. HandlerInv'
    BY <1>1, OtherDeliveries
<1>4. CommitsInv'
    BY <1>1, CommitsKept
<1> QED BY <1>2, <1>3, <1>4, TypeParts DEF Holds

(* The apps of the repository, and who subscribes by then.                  *)
LEMMA ReceiveStep == ASSUME Holds, NEW n \in Push, Receive(n) PROVE Holds'
<1>1. /\ HandlerInv /\ HandlersOK /\ RegistryOK /\ pc[n] = "sent"
      /\ UNCHANGED <<registry, head, pushed, hook, rows, work, deployed, budget>>
      /\ pc' = [pc EXCEPT ![n] = "apps"] /\ todo' = [todo EXCEPT ![n] = apps]
      /\ steady' = [steady EXCEPT ![n] = {t \in Target : Subscribed(t, pushed[n].ref)}]
    BY HoldsParts DEF Receive
<1>2. Kept /\ MessagesOK' /\ unsent' = unsent
    BY <1>1, RowsStay DEF rows
<1>3. HandlersOK'
    BY <1>1 DEF HandlersOK, RegistryOK, Place
<1>4. /\ pc'[n] = "apps" /\ todo'[n] = apps /\ hook'[n] = hook[n] /\ pushed' = pushed
      /\ steady'[n] = {t \in Target : Subscribed(t, pushed[n].ref)}
    BY <1>1 DEF HandlersOK
<1>5. HandlerFor(n)'
  <2>1. hook[n] = {} /\ ~(n > Len(pushed))
      BY <1>1 DEF HandlerInv, HandlerFor
  <2>2. ASSUME NEW t \in steady'[n]
        PROVE  Subscribed(t, pushed[n].ref)' /\ AppOf[t] \in todo'[n]
      BY <1>1, <1>4 DEF Subscribed, registry
  <2> QED BY <1>4, <2>1, <2>2 DEF HandlerFor
<1>6. budget' \in 0 .. Budget
    BY <1>1, Framed
<1>7. \A m \in Push \ {n} : /\ pc'[m] = pc[m] /\ todo'[m] = todo[m]
                             /\ hook'[m] = hook[m] /\ steady'[m] = steady[m]
    BY <1>1 DEF HandlersOK
<1> QED BY <1>1, <1>2, <1>3, <1>5, <1>6, <1>7, HandlerStepHolds

(* The matches of the next app.                                             *)
LEMMA ListEnvsStep == ASSUME Holds, NEW n \in Push, ListEnvs(n) PROVE Holds'
<1>1. /\ HandlerInv /\ HandlersOK /\ RunsOK /\ pc[n] = "apps"
      /\ UNCHANGED <<registry, head, pushed, steady, rows, work, deployed, budget>>
    BY HoldsParts DEF ListEnvs
<1> DEFINE matches(a) == {t \in Target : AppOf[t] = a /\ RefMatches(t, pushed[n].ref)}
<1>2. PICK a \in todo[n] :
        /\ todo' = [todo EXCEPT ![n] = @ \ {a}] /\ hook' = [hook EXCEPT ![n] = matches(a)]
        /\ pc' = [pc EXCEPT ![n] = IF matches(a) = {} THEN "apps" ELSE "create"]
    BY DEF ListEnvs
<1>3. Kept /\ MessagesOK' /\ RunsOK' /\ unsent' = unsent
    BY <1>1, RowsStay DEF rows
<1>4. HandlersOK'
    BY <1>1, <1>2 DEF HandlersOK, Place
<1>5. /\ pc'[n] = (IF matches(a) = {} THEN "apps" ELSE "create") /\ todo'[n] = todo[n] \ {a}
      /\ hook'[n] = matches(a) /\ steady'[n] = steady[n] /\ pushed' = pushed
    BY <1>1, <1>2 DEF HandlersOK
<1>6. HandlerFor(n)'
  <2>1. hook[n] = {} /\ ~(n > Len(pushed))
      BY <1>1 DEF HandlerInv, HandlerFor
  <2>2. ASSUME NEW t \in steady'[n]
        PROVE  /\ Subscribed(t, pushed[n].ref)'
               /\ (AppOf[t] \in todo[n] \/ t \in hook[n] \/ Triggered(n, t))'
    <3>1. t \in steady[n] /\ t \in Target
        BY <1>1, <1>5 DEF HandlersOK
    <3>2. Subscribed(t, pushed[n].ref) /\ (AppOf[t] \in todo[n] \/ Triggered(n, t))
        BY <1>1, <2>1, <3>1 DEF HandlerInv, HandlerFor
    <3>3. Subscribed(t, pushed[n].ref)'
        BY <1>1, <3>2 DEF Subscribed, registry
    <3>4. CASE AppOf[t] = a
        BY <3>1, <3>2, <3>3, <3>4, <1>5 DEF Subscribed, RefMatches
    <3>5. CASE AppOf[t] # a
        BY <3>1, <3>2, <3>3, <3>5, <1>1, <1>3, <1>5, TriggeredKept
    <3> QED BY <3>4, <3>5
  <2> QED BY <1>5, <2>1, <2>2 DEF HandlerFor
<1>7. budget' \in 0 .. Budget
    BY <1>1, Framed
<1>8. \A m \in Push \ {n} : /\ pc'[m] = pc[m] /\ todo'[m] = todo[m]
                             /\ hook'[m] = hook[m] /\ steady'[m] = steady[m]
    BY <1>1, <1>2 DEF HandlersOK
<1> QED BY <1>1, <1>3, <1>4, <1>6, <1>7, <1>8, HandlerStepHolds

(* A handler that gives up, with or without a run that it has not sent.     *)
LEMMA GiveUpHolds ==
    ASSUME Holds, NEW n \in Push, pc[n] \in {"apps", "create", "send"}, GiveUp(n),
           UNCHANGED <<registry, head, pushed, runs, queue, work, deployed>>, budget' \in 0 .. Budget,
           unsent' \subseteq unsent, \A i \in unsent : runs[i].push # n => i \in unsent'
    PROVE  Holds'
<1>1. HandlerInv /\ HandlersOK
    BY HoldsParts
<1>2. Kept /\ MessagesOK'
    BY RowsStay
<1>3. HandlersOK'
    BY <1>1 DEF HandlersOK, GiveUp, Place
<1>4. pc'[n] = "failed" /\ todo'[n] = {} /\ hook'[n] = {} /\ steady'[n] = {}
    BY <1>1 DEF HandlersOK, GiveUp
<1>5. HandlerFor(n)'
    BY <1>1, <1>4 DEF HandlerInv, HandlerFor
<1>6. \A m \in Push \ {n} : /\ pc'[m] = pc[m] /\ todo'[m] = todo[m]
                             /\ hook'[m] = hook[m] /\ steady'[m] = steady[m]
    BY <1>1 DEF HandlersOK, GiveUp
<1> QED BY <1>2, <1>3, <1>5, <1>6, HandlerStepHolds

(* A row for the next match, or an error.                                   *)
LEMMA CreateRunStep == ASSUME Holds, NEW n \in Push, CreateRun(n) PROVE Holds'
<1>1. /\ HandlerInv /\ HandlersOK /\ RunsOK /\ MessagesOK /\ RepositoryOK /\ pc[n] = "create"
      /\ Len(runs) \in Nat
      /\ UNCHANGED <<registry, head, pushed, queue, work, deployed, budget>>
    BY HoldsParts DEF CreateRun
<1>2. budget' \in 0 .. Budget
    BY <1>1, Framed
<1>3. PICK t \in hook[n] :
        \/ /\ AppOf[t] \in apps /\ Len(runs) < MaxRun
           /\ NewRun(t, Decoded(n).ref, Decoded(n).commit, n)
           /\ unsent' = unsent \cup {Len(runs) + 1}
           /\ hook' = [hook EXCEPT ![n] = @ \ {t}]
           /\ pc' = [pc EXCEPT ![n] = "send"] /\ UNCHANGED <<todo, steady>>
        \/ GiveUp(n) /\ UNCHANGED <<runs, unsent>>
    BY DEF CreateRun
<1>4. CASE GiveUp(n) /\ UNCHANGED <<runs, unsent>>
    BY <1>1, <1>2, <1>4, GiveUpHolds
<1>5. CASE /\ AppOf[t] \in apps /\ Len(runs) < MaxRun
           /\ NewRun(t, Decoded(n).ref, Decoded(n).commit, n)
           /\ unsent' = unsent \cup {Len(runs) + 1}
           /\ hook' = [hook EXCEPT ![n] = @ \ {t}]
           /\ pc' = [pc EXCEPT ![n] = "send"] /\ UNCHANGED <<todo, steady>>
  <2>1. t \in Target /\ ~(n > Len(pushed))
      BY <1>1 DEF HandlersOK, HandlerInv, HandlerFor
  <2>2. Decoded(n).ref \in Ref /\ Decoded(n).commit \in Push \cup {0}
      BY <1>1, <2>1, PushedAre DEF Decoded, Push
  <2>3. /\ RunsOK' /\ Kept /\ Len(runs') = Len(runs) + 1
        /\ runs'[Len(runs) + 1].push = n /\ runs'[Len(runs) + 1].target = t
      BY <1>1, <1>5, <2>1, <2>2, NewRunKeeps
  <2>4. Len(runs) + 1 \in DOMAIN runs'
      BY <1>1, <2>3, LenProperties DEF RunsOK
  <2>5. MessagesOK'
      BY <1>1, <1>5, <2>3, <2>4, MessagesKept
  <2>6. HandlersOK'
      BY <1>1, <1>5 DEF HandlersOK, Place
  <2>7. /\ pc'[n] = "send" /\ todo'[n] = todo[n] /\ hook'[n] = hook[n] \ {t}
        /\ steady'[n] = steady[n] /\ pushed' = pushed
      BY <1>1, <1>5 DEF HandlersOK
  <2>8. HandlerFor(n)'
    <3>1. \E i \in unsent' : runs'[i].push = n
        BY <1>5, <2>3
    <3>2. Triggered(n, t)'
        BY <2>3, <2>4 DEF Triggered
    <3>3. ASSUME NEW s \in steady'[n]
          PROVE  /\ Subscribed(s, pushed[n].ref)'
                 /\ (AppOf[s] \in todo[n] \/ s \in hook[n] \/ Triggered(n, s))'
      <4>1. s \in steady[n] /\ s \in Target
          BY <1>1, <2>7 DEF HandlersOK
      <4>2. Subscribed(s, pushed[n].ref) /\ (AppOf[s] \in todo[n] \/ s \in hook[n] \/ Triggered(n, s))
          BY <1>1, <4>1 DEF HandlerInv, HandlerFor
      <4>3. Subscribed(s, pushed[n].ref)'
          BY <1>1, <4>2 DEF Subscribed, registry
      <4>4. Triggered(n, s) => Triggered(n, s)'
          BY <1>1, <2>3, <4>1, TriggeredKept
      <4>5. CASE s = t
          BY <3>2, <4>3, <4>5
      <4>6. CASE s # t
          BY <4>2, <4>3, <4>4, <4>6, <2>7
      <4> QED BY <4>5, <4>6
    <3> QED BY <2>1, <2>7, <3>1, <3>3 DEF HandlerFor
  <2>9. \A m \in Push \ {n} : /\ pc'[m] = pc[m] /\ todo'[m] = todo[m]
                               /\ hook'[m] = hook[m] /\ steady'[m] = steady[m]
      BY <1>1, <1>5 DEF HandlersOK
  <2>10. \A i \in unsent : i \in unsent'
      BY <1>5
  <2> QED BY <1>1, <1>2, <2>3, <2>5, <2>6, <2>8, <2>9, <2>10, HandlerStepHolds
<1> QED BY <1>3, <1>4, <1>5

(* Its message.                                                             *)
LEMMA SendStep == ASSUME Holds, NEW n \in Push, Send(n) PROVE Holds'
<1>1. /\ HandlerInv /\ HandlersOK /\ RunsOK /\ MessagesOK /\ pc[n] = "send"
      /\ unsent \subseteq 1 .. Len(runs) /\ queue \subseteq 1 .. Len(runs)
      /\ UNCHANGED <<registry, head, pushed, todo, hook, steady, runs, work, deployed, budget>>
      /\ queue' = queue \cup {Created(n)} /\ unsent' = unsent \ {Created(n)}
      /\ pc' = [pc EXCEPT ![n] = IF hook[n] = {} THEN "apps" ELSE "create"]
    BY HoldsParts DEF Send
<1>2. Created(n) \in unsent /\ runs[Created(n)].push = n
    BY <1>1, CreatedIs DEF HandlerInv, HandlerFor
<1>3. RunsOK' /\ Kept /\ MessagesOK'
    BY <1>1, <1>2, RowsStay
<1>4. HandlersOK'
    BY <1>1 DEF HandlersOK, Place
<1>5. /\ pc'[n] = (IF hook[n] = {} THEN "apps" ELSE "create") /\ todo'[n] = todo[n]
      /\ hook'[n] = hook[n] /\ steady'[n] = steady[n] /\ pushed' = pushed
    BY <1>1 DEF HandlersOK
<1>6. HandlerFor(n)'
  <2>1. ~(n > Len(pushed))
      BY <1>1 DEF HandlerInv, HandlerFor
  <2>2. ASSUME NEW t \in steady'[n]
        PROVE  /\ Subscribed(t, pushed[n].ref)'
               /\ (AppOf[t] \in todo[n] \/ t \in hook[n] \/ Triggered(n, t))'
    <3>1. t \in steady[n] /\ t \in Target
        BY <1>1, <1>5 DEF HandlersOK
    <3>2. Subscribed(t, pushed[n].ref) /\ (AppOf[t] \in todo[n] \/ t \in hook[n] \/ Triggered(n, t))
        BY <1>1, <3>1 DEF HandlerInv, HandlerFor
    <3> QED BY <3>1, <3>2, <1>1, <1>3, <1>5, TriggeredKept DEF Subscribed, registry
  <2> QED BY <1>5, <2>1, <2>2 DEF HandlerFor
<1>7. budget' \in 0 .. Budget
    BY <1>1, Framed
<1>8. \A m \in Push \ {n} : /\ pc'[m] = pc[m] /\ todo'[m] = todo[m]
                             /\ hook'[m] = hook[m] /\ steady'[m] = steady[m]
    BY <1>1 DEF HandlersOK
<1>9. \A i \in unsent : runs[i].push # n => i \in unsent'
    BY <1>1, <1>2
<1> QED BY <1>1, <1>3, <1>4, <1>6, <1>7, <1>8, <1>9, HandlerStepHolds

(* The answer.                                                              *)
LEMMA AnswerStep == ASSUME Holds, NEW n \in Push, Answer(n) PROVE Holds'
<1>1. /\ HandlerInv /\ HandlersOK /\ RunsOK /\ pc[n] = "apps" /\ todo[n] = {}
      /\ UNCHANGED <<registry, head, pushed, todo, hook, steady, rows, work, deployed, budget>>
      /\ pc' = [pc EXCEPT ![n] = "ok"]
    BY HoldsParts DEF Answer
<1>2. RunsOK' /\ Kept /\ MessagesOK' /\ unsent' = unsent
    BY <1>1, RowsStay DEF rows
<1>3. HandlersOK'
    BY <1>1 DEF HandlersOK, Place
<1>4. /\ pc'[n] = "ok" /\ todo' = todo /\ hook' = hook /\ steady' = steady /\ pushed' = pushed
      /\ apps' = apps /\ trigger' = trigger
    BY <1>1 DEF HandlersOK, registry
<1>5. HandlerFor(n)'
  <2>1. ~(n > Len(pushed)) /\ hook[n] = {}
      BY <1>1 DEF HandlerInv, HandlerFor
  <2>2. ASSUME NEW t \in steady[n]
        PROVE  Subscribed(t, pushed[n].ref) /\ Triggered(n, t)'
    <3>1. t \in Target
        BY <1>1 DEF HandlersOK
    <3> QED BY <3>1, <2>1, <1>1, <1>2, TriggeredKept DEF HandlerInv, HandlerFor
  <2> QED BY <1>1, <1>4, <2>1, <2>2 DEF HandlerFor, Subscribed
<1>6. budget' \in 0 .. Budget
    BY <1>1, Framed
<1>7. \A m \in Push \ {n} : /\ pc'[m] = pc[m] /\ todo'[m] = todo[m]
                             /\ hook'[m] = hook[m] /\ steady'[m] = steady[m]
    BY <1>1 DEF HandlersOK
<1> QED BY <1>1, <1>2, <1>3, <1>5, <1>6, <1>7, HandlerStepHolds

(* A call that fails, wherever the handler is.                              *)
LEMMA HandlerFailsStep == ASSUME Holds, NEW n \in Push, HandlerFails(n) PROVE Holds'
<1>1. /\ HandlerInv /\ pc[n] \in {"apps", "create", "send"} /\ GiveUp(n) /\ Strike
      /\ UNCHANGED <<registry, head, pushed, runs, queue, work, deployed>>
      /\ unsent' = IF pc[n] = "send" THEN unsent \ {Created(n)} ELSE unsent
    BY HoldsParts DEF HandlerFails
<1>2. \A i \in unsent : runs[i].push # n => i \in unsent'
  <2>1. CASE pc[n] = "send"
      BY <1>1, <2>1, CreatedIs DEF HandlerInv, HandlerFor
  <2>2. CASE pc[n] # "send"
      BY <1>1, <2>2
  <2> QED BY <2>1, <2>2
<1>3. unsent' \subseteq unsent /\ budget' \in 0 .. Budget
    BY <1>1, Framed
<1> QED BY <1>1, <1>2, <1>3, GiveUpHolds

-----------------------------------------------------------------------------
(* A step that is none of the handlers' and changes nothing of the          *)
(* repository, the work and the registry holds if it keeps the rows.        *)
LEMMA RowStepHolds ==
    ASSUME Holds, UNCHANGED <<registry, head, pushed, handler, work, deployed>>,
           budget' \in 0 .. Budget, MessagesOK', Kept,
           \A i \in unsent : runs[i].push \in Push => i \in unsent'
    PROVE  Holds'
<1>1. TypeOK /\ HandlerInv /\ CommitsInv /\ RunsOK'
    BY HoldsParts DEF MessagesOK
<1>2. RegistryOK' /\ RepositoryOK' /\ HandlersOK' /\ WorkOK'
    BY Framed
<1>3. \A n \in Push : \A t \in steady'[n] : t \in steady[n] /\ Subscribed(t, pushed[n].ref)'
    BY <1>1, SubscribersStay DEF handler
<1>4. HandlerInv'
    BY <1>1, <1>3, HandlersUntouched DEF handler, Unreached
<1>5. CommitsInv'
    BY <1>1, CommitsKept
<1> QED BY <1>2, <1>4, <1>5, TypeParts DEF Holds

(* The manual trigger, and its message.                                     *)
LEMMA TriggerDeployStep == ASSUME Holds, NEW t \in Target, TriggerDeploy(t) PROVE Holds'
<1>1. /\ RunsOK /\ MessagesOK /\ Len(runs) \in Nat /\ Len(runs) < MaxRun
      /\ UNCHANGED <<registry, head, pushed, handler, queue, work, deployed>>
      /\ unsent' = unsent \cup {Len(runs) + 1}
    BY HoldsParts DEF TriggerDeploy
<1>2. PICK ref \in Ref \cup {ManualRef(t)} : NewRun(t, ref, 0, 0)
    BY DEF TriggerDeploy
<1>3. ref \in Ref
    BY Constants DEF ManualRef
<1>4. RunsOK' /\ Kept /\ Len(runs') = Len(runs) + 1
    BY <1>1, <1>2, <1>3, NewRunKeeps
<1>5. Len(runs) + 1 \in DOMAIN runs'
    BY <1>1, <1>4, LenProperties DEF RunsOK
<1>6. MessagesOK'
    BY <1>1, <1>4, <1>5, MessagesKept
<1>7. budget' \in 0 .. Budget
    BY Framed DEF TriggerDeploy
<1> QED BY <1>1, <1>4, <1>6, <1>7, RowStepHolds

(* triggerDeploy's message.                                                 *)
LEMMA SendManualStep == ASSUME Holds, NEW i \in RunId, SendManual(i) PROVE Holds'
<1>1. /\ i \in unsent /\ runs[i].push = 0 /\ UNCHANGED runs
      /\ queue' = queue \cup {i} /\ unsent' = unsent \ {i}
      /\ UNCHANGED <<registry, head, pushed, handler, work, deployed, budget>>
    BY DEF SendManual
<1>2. MessagesOK' /\ Kept /\ budget' \in 0 .. Budget
    BY <1>1, RowsStay, Framed
<1>3. 0 \notin Push
    BY Constants DEF Push
<1> QED BY <1>1, <1>2, <1>3, RowStepHolds

(* Messages of rows that are settled, and the sweep.                        *)
LEMMA SkipStep == ASSUME Holds, NEW i \in RunId, Skip(i) PROVE Holds'
<1>1. /\ queue' = queue \ {i} /\ UNCHANGED <<runs, unsent>>
      /\ UNCHANGED <<registry, head, pushed, handler, work, deployed, budget>>
    BY DEF Skip
<1>2. MessagesOK' /\ Kept /\ budget' \in 0 .. Budget
    BY <1>1, RowsStay, Framed
<1> QED BY <1>1, <1>2, RowStepHolds

(* The sweep fails a row and leaves the rest.                               *)
LEMMA SweepStep == ASSUME Holds, NEW i \in RunId, Sweep(i) PROVE Holds'
<1>1. /\ i \in DOMAIN runs /\ Status(i, "failed") /\ Strike
      /\ UNCHANGED <<registry, head, pushed, handler, unsent, queue, work, deployed>>
    BY DEF Sweep
<1>2. RunsOK /\ MessagesOK
    BY HoldsParts
<1>3. RunsOK' /\ Kept
    BY <1>1, <1>2, StatusKeeps
<1>4. MessagesOK'
    BY <1>1, <1>2, <1>3, MessagesKept
<1>5. budget' \in 0 .. Budget
    BY <1>1, Framed
<1> QED BY <1>1, <1>3, <1>4, <1>5, RowStepHolds

-----------------------------------------------------------------------------
(* A change of the registry holds if it keeps types and those who subscribe.*)
LEMMA RegistryStepHolds ==
    ASSUME Holds, UNCHANGED <<head, pushed, pc, todo, hook, unsent, queue, work, deployed>>,
           budget' \in 0 .. Budget, RegistryOK', RunsOK', Kept,
           steady' \in [Push -> SUBSET Target],
           \A n \in Push : \A t \in steady'[n] : t \in steady[n] /\ Subscribed(t, pushed[n].ref)'
    PROVE  Holds'
<1>1. TypeOK /\ HandlerInv /\ CommitsInv /\ HandlersOK /\ MessagesOK
    BY HoldsParts
<1>2. RepositoryOK' /\ WorkOK'
    BY Framed
<1>3. HandlersOK'
    BY <1>1 DEF HandlersOK
<1>4. MessagesOK'
    BY <1>1, MessagesKept
<1>5. HandlerInv'
    BY <1>1, HandlersUntouched DEF Unreached
<1>6. CommitsInv'
    BY <1>1, CommitsKept
<1> QED BY <1>2, <1>3, <1>4, <1>5, <1>6, TypeParts DEF Holds

LEMMA RegistryStep == ASSUME Holds, Registry PROVE Holds'
<1>1. TypeOK /\ HandlerInv /\ RegistryOK /\ HandlersOK /\ RunsOK
    BY HoldsParts
<1>2. UNCHANGED runs => RunsOK' /\ Kept
    BY RowsStay
<1>3. ASSUME NEW t \in Target, DeleteAppEnv(t) PROVE Holds'
  <2>1. /\ UNCHANGED <<head, pushed, pc, todo, hook, runs, unsent, queue, work, deployed>>
        /\ Unsettled(apps', trigger') /\ budget' \in 0 .. Budget
      BY <1>3, Framed DEF DeleteAppEnv, rows, Unsettled
  <2>2. RegistryOK'
      BY <1>1, <1>3 DEF RegistryOK, DeleteAppEnv
  <2> QED BY <1>1, <1>2, <2>1, <2>2, UnsettledStay, RegistryStepHolds
<1>4. ASSUME NEW t \in Target, NEW ref \in Ref \cup Pattern \cup {NoRef}, PutAppEnv(t, ref) PROVE Holds'
  <2>1. /\ UNCHANGED <<head, pushed, pc, todo, hook, runs, unsent, queue, work, deployed>>
        /\ Unsettled(apps', trigger') /\ budget' \in 0 .. Budget
      BY <1>4, Framed DEF PutAppEnv, rows, Unsettled
  <2>2. RegistryOK'
      BY <1>1, <1>4 DEF RegistryOK, PutAppEnv
  <2> QED BY <1>1, <1>2, <2>1, <2>2, UnsettledStay, RegistryStepHolds
<1>5. ASSUME NEW a \in App, DeleteApp(a) PROVE Holds'
  <2>1. /\ UNCHANGED <<head, pushed, pc, todo, hook, unsent, queue, work, deployed>>
        /\ Unsettled(apps', trigger') /\ budget' \in 0 .. Budget
      BY <1>5, Framed DEF DeleteApp
  <2>2. RegistryOK'
      BY <1>1, <1>5 DEF RegistryOK, DeleteApp
  <2> QED BY <1>1, <1>5, <2>1, <2>2, UnsettledStay, RemovedKeeps, RegistryStepHolds
<1>6. ASSUME NEW a \in App, RegisterApp(a) PROVE Holds'
  <2>1. /\ UNCHANGED <<head, pushed, pc, todo, hook, steady, runs, unsent, queue, work, deployed>>
        /\ budget' \in 0 .. Budget /\ a \notin apps /\ apps' = apps \cup {a}
      BY <1>6, Framed DEF RegisterApp, rows, handler
  <2>2. PICK s \in Target : AppOf[s] = a /\ trigger' = [trigger EXCEPT ![s] = Default]
      BY <1>6 DEF RegisterApp
  <2>3. RegistryOK'
      BY <1>1, <2>1, <2>2, Constants DEF RegistryOK
  <2>4. ASSUME NEW n \in Push, NEW t \in steady'[n]
        PROVE  t \in steady[n] /\ Subscribed(t, pushed[n].ref)'
    <3>1. t \in steady[n] /\ t \in Target /\ Subscribed(t, pushed[n].ref)
        BY <1>1, <2>1 DEF HandlersOK, HandlerInv, HandlerFor
    <3>2. AppOf[t] \in apps' /\ t # s
        BY <2>1, <2>2, <3>1 DEF Subscribed
    <3>3. trigger'[t] = trigger[t]
        BY <1>1, <2>2, <3>1, <3>2 DEF RegistryOK
    <3> QED BY <2>1, <3>1, <3>2, <3>3 DEF Subscribed
  <2> QED BY <1>1, <1>2, <2>1, <2>3, <2>4, RegistryStepHolds DEF HandlersOK
<1> QED BY <1>3, <1>4, <1>5, <1>6 DEF Registry

-----------------------------------------------------------------------------
(* A step of the work on a target holds if it keeps rows, types and bounds. *)
LEMMA WorkStepHolds ==
    ASSUME Holds, UNCHANGED <<registry, head, pushed, handler, unsent>>, budget' \in 0 .. Budget,
           queue' \subseteq queue, RunsOK', Kept, WorkOK', CommitsInv'
    PROVE  Holds'
<1>1. TypeOK /\ HandlerInv /\ MessagesOK
    BY HoldsParts
<1>2. RegistryOK' /\ RepositoryOK' /\ HandlersOK'
    BY Framed
<1>3. MessagesOK'
    BY <1>1, MessagesKept
<1>4. \A n \in Push : \A t \in steady'[n] : t \in steady[n] /\ Subscribed(t, pushed[n].ref)'
    BY <1>1, SubscribersStay DEF handler
<1>5. HandlerInv'
    BY <1>1, <1>4, HandlersUntouched DEF handler, Unreached
<1> QED BY <1>2, <1>3, <1>5, TypeParts DEF Holds

(* What CommitsInv says of a target, for a step that changes only t's.      *)
CommitsOf(t) ==
    LET d == deployed[t]  w == work[t]  ref == runs[w.run].ref IN
    /\ d.commit <= Len(pushed)
    /\ d.ref \in Ref => head[d.ref] = 0 \/ d.commit <= head[d.ref]
    /\ w.run <= Len(runs)
    /\ w.commit # 0 =>
        /\ w.run # 0 /\ ref \in Ref /\ w.commit <= Len(pushed)
        /\ head[ref] = 0 \/ w.commit <= head[ref]
        /\ ref = d.ref => d.commit <= w.commit

(* CommitsInv, target by target.                                            *)
LEMMA CommitsOfEach ==
    /\ CommitsInv <=> (\A r \in Ref : head[r] <= Len(pushed)) /\ (\A t \in Target : CommitsOf(t))
    /\ CommitsInv' <=> (\A r \in Ref : head'[r] <= Len(pushed')) /\ (\A t \in Target : CommitsOf(t)')
BY DEF CommitsInv, CommitsOf

(* Targets that a step does not touch keep their part.                      *)
LEMMA CommitsOfOthers ==
    ASSUME Holds, RunsOK', Kept, UNCHANGED <<head, pushed>>, NEW t \in Target,
           \A s \in Target \ {t} : work'[s] = work[s] /\ deployed'[s] = deployed[s],
           CommitsOf(t)'
    PROVE  CommitsInv'
<1>1. /\ CommitsInv /\ WorkOK /\ Len(runs) \in Nat /\ Len(runs') \in Nat
    BY HoldsParts, LenProperties DEF RunsOK
<1>2. ASSUME NEW s \in Target, s # t PROVE CommitsOf(s)'
  <2>1. CommitsOf(s) /\ work'[s] = work[s] /\ deployed'[s] = deployed[s]
      BY <1>1, <1>2, CommitsOfEach
  <2>2. work[s].run \in Nat /\ work[s].run <= Len(runs)
      BY <1>1, <2>1, Constants DEF WorkOK, RunId, CommitsOf
  <2>3. work[s].run # 0 => runs'[work[s].run].ref = runs[work[s].run].ref
      BY <1>1, <2>2 DEF Kept
  <2>4. work[s].run <= Len(runs')
      BY <1>1, <2>2 DEF Kept
  <2> QED BY <2>1, <2>3, <2>4 DEF CommitsOf
<1> QED BY <1>1, <1>2, CommitsOfEach

(* A run that begins, or whose environment is gone.                         *)
LEMMA BeginStep == ASSUME Holds, NEW i \in RunId, Begin(i) PROVE Holds'
<1>1. /\ RunsOK /\ WorkOK /\ CommitsInv /\ i \in queue /\ i \in 1 .. Len(runs) /\ i \in DOMAIN runs
      /\ Len(runs) \in Nat
      /\ queue' = queue \ {i}
      /\ UNCHANGED <<registry, head, pushed, handler, unsent, deployed, budget>>
    BY HoldsParts DEF Begin
<1>2. PICK t \in Target : t = runs[i].target
    BY <1>1, RunsAre DEF Row
<1>3. \/ Status(i, "running") /\ work' = [work EXCEPT ![t] = [run |-> i, commit |-> 0]]
      \/ Status(i, "failed") /\ UNCHANGED work
    BY <1>2 DEF Begin
<1>4. RunsOK' /\ Kept /\ Len(runs') = Len(runs)
    BY <1>1, <1>3, StatusKeeps
<1>5. WorkOK'
    BY <1>1, <1>2, <1>3 DEF WorkOK
<1>6. CommitsOf(t)'
  <2>1. CASE UNCHANGED work
    <3>1. TypeOK /\ UNCHANGED <<head, pushed, work, deployed>>
        BY <1>1, <2>1, HoldsParts
    <3> QED BY <1>1, <1>2, <1>4, <3>1, CommitsKept, CommitsOfEach
  <2>2. CASE work' = [work EXCEPT ![t] = [run |-> i, commit |-> 0]]
    <3>1. work'[t] = [run |-> i, commit |-> 0] /\ deployed' = deployed
        BY <1>1, <1>2, <2>2 DEF WorkOK
    <3>2. CommitsOf(t)
        BY <1>1, <1>2, CommitsOfEach
    <3> QED BY <1>1, <1>4, <3>1, <3>2 DEF CommitsOf
  <2> QED BY <1>3, <2>1, <2>2
<1>7. CommitsInv'
    BY <1>1, <1>2, <1>3, <1>4, <1>6, CommitsOfOthers DEF WorkOK
<1>8. budget' \in 0 .. Budget
    BY <1>1, Framed
<1> QED BY <1>1, <1>4, <1>5, <1>7, <1>8, WorkStepHolds

(* What is known of the run that works on a target.                         *)
LEMMA WorkingRun ==
    ASSUME Holds, NEW t \in Target, work[t].run # 0
    PROVE  /\ work[t].run \in DOMAIN runs /\ work[t].run \in 1 .. Len(runs)
           /\ runs[work[t].run].ref \in Ref
<1>1. work[t].run \in Nat /\ work[t].run <= Len(runs) /\ DOMAIN runs = 1 .. Len(runs) /\ RunsOK
    BY HoldsParts, Constants, CommitsOfEach DEF WorkOK, RunId, CommitsOf
<1> QED BY <1>1, RunsAre DEF Row

(* A clone.                                                                 *)
LEMMA CloneStep == ASSUME Holds, NEW t \in Target, Clone(t) PROVE Holds'
<1> DEFINE i == work[t].run
           c == IF runs[i].ref \in Ref THEN head[runs[i].ref] ELSE 0
<1>1. /\ RunsOK /\ WorkOK /\ RepositoryOK /\ CommitsInv /\ CommitsOf(t)
      /\ i # 0 /\ work[t].commit = 0
      /\ UNCHANGED <<registry, head, pushed, handler, unsent, queue, deployed, budget>>
    BY HoldsParts, CommitsOfEach DEF Clone, Locked
<1>2. i \in DOMAIN runs /\ i \in 1 .. Len(runs) /\ runs[i].ref \in Ref
    BY <1>1, WorkingRun
<1>3. \/ Settle(t, "failed") /\ work' = [work EXCEPT ![t] = Idle]
      \/ c # 0 /\ runs' = [runs EXCEPT ![i].got = c] /\ work' = [work EXCEPT ![t].commit = c]
    BY DEF Clone
<1>4. c = head[runs[i].ref] /\ c \in Push \cup {0} /\ c <= Len(pushed)
    BY <1>1, <1>2 DEF RepositoryOK, CommitsInv
<1> HIDE DEF c
<1>5. RunsOK' /\ Kept /\ Len(runs') = Len(runs)
    BY <1>1, <1>2, <1>3, <1>4, SettleKeeps, GotKeeps
<1>6. WorkOK'
  <2>1. CASE work' = [work EXCEPT ![t] = Idle]
      BY <1>1, <2>1 DEF WorkOK, Idle
  <2>2. CASE c # 0 /\ work' = [work EXCEPT ![t].commit = c]
      BY <1>1, <1>4, <2>2 DEF WorkOK
  <2> QED BY <1>3, <2>1, <2>2
<1>7. CommitsOf(t)'
  <2>1. CASE work' = [work EXCEPT ![t] = Idle]
    <3>1. work'[t] = Idle /\ deployed' = deployed /\ Len(runs') \in Nat
        BY <1>1, <2>1, <1>5, LenProperties DEF WorkOK, RunsOK
    <3> QED BY <1>1, <3>1 DEF CommitsOf, Idle
  <2>2. CASE c # 0 /\ work' = [work EXCEPT ![t].commit = c]
    <3>1. work'[t].run = i /\ work'[t].commit = c /\ deployed' = deployed /\ head' = head /\ pushed' = pushed
        BY <1>1, <2>2 DEF WorkOK
    <3>2. runs'[i].ref = runs[i].ref
        BY <1>2, <1>5 DEF Kept
    <3>3. deployed[t].commit \in Nat /\ c \in Nat
        BY <1>1, <1>4, Constants DEF WorkOK, Push
    <3>4. runs[i].ref = deployed[t].ref => deployed[t].commit <= c
        BY <1>1, <1>2, <1>4, <2>2 DEF CommitsOf
    <3> QED BY <1>1, <1>2, <1>4, <1>5, <3>1, <3>2, <3>3, <3>4 DEF CommitsOf
  <2> QED BY <1>3, <2>1, <2>2
<1>8. CommitsInv'
    BY <1>1, <1>3, <1>5, <1>7, CommitsOfOthers DEF WorkOK
<1>9. budget' \in 0 .. Budget
    BY <1>1, Framed
<1> QED BY <1>1, <1>5, <1>6, <1>8, <1>9, WorkStepHolds

(* A deploy that ends, with the commit deployed or not.                     *)
LEMMA DeployEnds ==
    ASSUME Holds, NEW t \in Target, work[t].commit # 0,
           deployed' \in {deployed, [deployed EXCEPT ![t] = Cloned(t)]},
           NEW s \in {"succeeded", "failed"}, Settle(t, s),
           work' = [work EXCEPT ![t] = Idle], budget' \in 0 .. Budget,
           UNCHANGED <<registry, head, pushed, handler, unsent, queue>>
    PROVE  Holds'
<1>1. RunsOK /\ WorkOK /\ CommitsInv /\ CommitsOf(t)
    BY HoldsParts, CommitsOfEach
<1>2. /\ work[t].run # 0 /\ work[t].run \in DOMAIN runs
      /\ runs[work[t].run].ref \in Ref /\ work[t].commit \in Push \cup {0}
    BY <1>1, WorkingRun DEF CommitsOf, WorkOK
<1>3. RunsOK' /\ Kept /\ Len(runs') \in Nat
    BY <1>1, <1>2, SettleKeeps, LenProperties DEF RunsOK
<1>4. Cloned(t) \in [ref : Ref \cup {NoRef}, commit : Push \cup {0}]
    BY <1>2 DEF Cloned
<1>5. WorkOK'
    BY <1>1, <1>4 DEF WorkOK, Idle
<1>6. CommitsOf(t)'
  <2>1. work'[t] = Idle /\ deployed'[t] \in {deployed[t], Cloned(t)} /\ head' = head /\ pushed' = pushed
      BY <1>1 DEF WorkOK
  <2>2. CASE deployed'[t] = deployed[t]
      BY <1>1, <1>3, <2>1, <2>2 DEF CommitsOf, Idle
  <2>3. CASE deployed'[t] = Cloned(t)
      BY <1>1, <1>2, <1>3, <2>1, <2>3 DEF CommitsOf, Idle, Cloned
  <2> QED BY <2>1, <2>2, <2>3
<1>7. \A o \in Target \ {t} : work'[o] = work[o] /\ deployed'[o] = deployed[o]
    BY <1>1 DEF WorkOK
<1>8. CommitsInv'
    BY <1>3, <1>6, <1>7, CommitsOfOthers
<1> QED BY <1>3, <1>5, <1>8, WorkStepHolds

-----------------------------------------------------------------------------
(* Every step holds.                                                        *)
LEMMA TriggersStep == Holds /\ [Next]_vars => Holds'
<1> SUFFICES ASSUME Holds, [Next]_vars PROVE Holds'
    OBVIOUS
<1>1. CASE \E r \in Ref : GitPush(r)
    BY <1>1, GitPushStep
<1>2. CASE \E n \in Push : HookStep(n) \/ DeliveryLost(n) \/ Redeliver(n) \/ HandlerFails(n)
    BY <1>2, ReceiveStep, ListEnvsStep, CreateRunStep, SendStep, AnswerStep, DeliveryStep,
       HandlerFailsStep DEF HookStep
<1>3. CASE \E t \in Target : TriggerDeploy(t) \/ DeployStep(t) \/ DeployFails(t)
  <2>1. PICK t \in Target : TriggerDeploy(t) \/ Clone(t) \/ Deploy(t) \/ DeployFails(t)
      BY <1>3 DEF DeployStep
  <2>2. CASE Deploy(t)
      BY <2>2, Framed, DeployEnds DEF Deploy
  <2>3. CASE DeployFails(t)
      BY <2>3, Framed, DeployEnds DEF DeployFails
  <2> QED BY <2>1, <2>2, <2>3, TriggerDeployStep, CloneStep
<1>4. CASE \E i \in RunId : SendManual(i) \/ Skip(i) \/ Begin(i) \/ Sweep(i)
    BY <1>4, SendManualStep, SkipStep, BeginStep, SweepStep
<1>5. CASE Registry
    BY <1>5, RegistryStep
<1>6. CASE UNCHANGED vars
  <2>1. /\ UNCHANGED <<registry, head, pushed, handler, work, deployed>> /\ UNCHANGED runs
        /\ budget' \in 0 .. Budget /\ unsent' = unsent /\ queue' = queue
      BY <1>6, Framed DEF vars, rows
  <2>2. MessagesOK' /\ Kept
      BY <2>1, RowsStay
  <2> QED BY <2>1, <2>2, RowStepHolds
<1> QED BY <1>1, <1>2, <1>3, <1>4, <1>5, <1>6 DEF Next

(* An answered delivery has nobody left to look at.                         *)
LEMMA AnsweredReached == Holds => PushReachesSubscribers
BY HoldsParts DEF HandlerInv, HandlerFor, PushReachesSubscribers

(* TriggersInv: for any apps, refs, number of pushes and disturbances, a    *)
(* delivery that was answered without an error has triggered everyone who   *)
(* subscribed throughout, and nothing cloned or deployed is newer than the  *)
(* ref it came from (webhook.ts, runner.ts).                                *)
THEOREM TriggersSafe == Spec => []TriggersInv
<1>1. Init => Holds
    BY TriggersInit DEF TriggersInv, Holds
<1>2. Holds /\ [Next]_vars => Holds'
    BY TriggersStep
<1>3. Holds => TriggersInv
    BY AnsweredReached DEF Holds, TriggersInv
<1> QED BY <1>1, <1>2, <1>3, PTL DEF Spec

(* What one step may do to a target.                                        *)
LEMMA NeverBackStep ==
    ASSUME Holds, [Next]_vars, NEW t \in Target, deployed'[t].ref = deployed[t].ref
    PROVE  deployed'[t].commit >= deployed[t].commit
<1>1. WorkOK /\ CommitsOf(t)
    BY HoldsParts, CommitsOfEach
<1>2. deployed[t].commit \in Nat /\ work[t].commit \in Nat
    BY <1>1, Constants DEF WorkOK, Push
<1>3. CASE UNCHANGED deployed
    BY <1>2, <1>3
<1>4. CASE \E s \in Target : /\ work[s].commit # 0
                            /\ deployed' \in {deployed, [deployed EXCEPT ![s] = Cloned(s)]}
  <2>1. deployed'[t] \in {deployed[t], Cloned(t)} /\ (deployed'[t] = deployed[t] \/ work[t].commit # 0)
      BY <1>1, <1>4 DEF WorkOK
  <2>2. CASE deployed'[t] = deployed[t]
      BY <1>2, <2>2
  <2>3. CASE deployed'[t] = Cloned(t) /\ work[t].commit # 0
      BY <1>1, <1>2, <2>3 DEF CommitsOf, Cloned
  <2> QED BY <2>1, <2>2, <2>3
<1>5. UNCHANGED deployed \/ \E s \in Target : Deploy(s) \/ DeployFails(s)
    BY DEF Next, vars, GitPush, HookStep, Receive, ListEnvs, CreateRun, Send, Answer, DeliveryLost,
       Redeliver, HandlerFails, TriggerDeploy, DeployStep, Clone, SendManual, Skip, Begin, Sweep,
       Registry, DeleteAppEnv, PutAppEnv, DeleteApp, RegisterApp
<1> QED BY <1>3, <1>4, <1>5 DEF Deploy, DeployFails

(* BranchNeverGoesBack: runs that are deferred, redelivered and overtake    *)
(* each other never take a target back on its branch, because a run clones  *)
(* the branch (runner.ts), not the commit its row names.                    *)
THEOREM NeverGoesBack == Spec => BranchNeverGoesBack
<1>1. Init => Holds
    BY TriggersInit DEF TriggersInv, Holds
<1>2. Holds /\ [Next]_vars => Holds'
    BY TriggersStep
<1>3. Holds /\ [Next]_vars =>
        \A t \in Target : (deployed[t].ref \in Branch /\ deployed'[t].ref = deployed[t].ref) =>
            deployed'[t].commit >= deployed[t].commit
    BY NeverBackStep
<1> QED BY <1>1, <1>2, <1>3, PTL DEF Spec, BranchNeverGoesBack

-----------------------------------------------------------------------------
(***************************************************************************)
(* From the answer to the deploy.  PushesArrive needs fairness and stays   *)
(* with TLC; proved here is that nothing else can stop a push: its run is  *)
(* never lost on the way, and never ends with an older commit.             *)
(***************************************************************************)
\* A row says what its push said, runs for whoever works on it, and has cloned that push
\* or a newer one if it has cloned at all.
RowFits(i) ==
    /\ runs[i].push # 0 => /\ runs[i].push <= Len(pushed)
                           /\ runs[i].ref = pushed[runs[i].push].ref
                           /\ runs[i].got # 0 => runs[i].got >= runs[i].push
    /\ runs[i].status = "running" => work[runs[i].target].run = i
    /\ runs[i].status = "succeeded" => runs[i].got # 0

RowsFit == \A i \in DOMAIN runs : RowFits(i)

WorkFits ==
    \A t \in Target : /\ work[t].run # 0 => runs[work[t].run].target = t
                      /\ work[t].commit # 0 => runs[work[t].run].got # 0

\* The head of a ref is its latest push.
HeadsFit == \A n \in 1 .. Len(pushed) : head[pushed[n].ref] = 0 \/ head[pushed[n].ref] >= n

\* A handler has one run at most whose message it has yet to send.
UnsentFits ==
    \A i \in unsent : runs[i].push # 0 =>
        /\ pc[runs[i].push] = "send"
        /\ \A j \in unsent : runs[j].push = runs[i].push => j = i

\* Whoever has subscribed throughout is still to be looked at, or has a run of that push that is
\* in the queue, or about to be, or was taken from it for its turn.
Carried(n, t) ==
    \E i \in DOMAIN runs : /\ runs[i].push = n /\ runs[i].target = t
                           /\ i \in unsent \/ i \in queue \/ runs[i].status # "pending"

CarriedInv ==
    \A n \in Push : \A t \in steady[n] : AppOf[t] \in todo[n] \/ t \in hook[n] \/ Carried(n, t)

OnTheWay == RowsFit /\ WorkFits /\ HeadsFit /\ UnsentFits /\ CarriedInv

\* What is left of PushesArrive without its fairness (webhook.ts, run-lifecycle.ts): at any time
\* after an answer, everyone who has subscribed throughout has a run of that push which waits in
\* the queue, or works, or has deployed that push or a newer one, or failed, or went with its app.
AnsweredMovesOn ==
    \A n \in Push : pc[n] = "ok" => \A t \in steady[n] :
        \E i \in DOMAIN runs :
            /\ runs[i].push = n /\ runs[i].target = t
            /\ \/ i \in queue
               \/ work[t].run = i
               \/ runs[i].status = "succeeded" /\ runs[i].got >= n
               \/ runs[i].status \in {"failed", "removed"}

(* What OnTheWay is made of.                                                *)
LEMMA RowsAre ==
    ASSUME Holds, OnTheWay
    PROVE  /\ \A i \in 1 .. Len(runs) : RowFits(i) /\ runs[i] \in Row
           /\ WorkFits /\ HeadsFit /\ UnsentFits /\ CarriedInv
BY HoldsParts, RunsAre DEF OnTheWay, RowsFit

(* Rows, after a step that changes the status of one.                       *)
LEMMA StatusIs ==
    ASSUME RunsOK, NEW i \in DOMAIN runs, NEW s, Status(i, s)
    PROVE  \A j \in 1 .. Len(runs) : /\ runs'[j].got = runs[j].got
                                     /\ runs'[j].status = IF j = i THEN s ELSE runs[j].status
<1>1. DOMAIN runs = 1 .. Len(runs) /\ \A j \in 1 .. Len(runs) : runs[j] \in Row
    BY RunsAre
<1>2. \A j \in 1 .. Len(runs) : runs'[j] = IF j = i THEN [runs[i] EXCEPT !.status = s] ELSE runs[j]
    BY <1>1 DEF Status
<1> QED BY <1>1, <1>2 DEF Row

(* After a clone.                                                           *)
LEMMA GotIs ==
    ASSUME RunsOK, NEW i \in DOMAIN runs, NEW c, runs' = [runs EXCEPT ![i].got = c]
    PROVE  \A j \in 1 .. Len(runs) : /\ runs'[j].status = runs[j].status
                                     /\ runs'[j].got = IF j = i THEN c ELSE runs[j].got
<1>1. DOMAIN runs = 1 .. Len(runs) /\ \A j \in 1 .. Len(runs) : runs[j] \in Row
    BY RunsAre
<1>2. \A j \in 1 .. Len(runs) : runs'[j] = IF j = i THEN [runs[i] EXCEPT !.got = c] ELSE runs[j]
    BY <1>1
<1> QED BY <1>1, <1>2 DEF Row

(* After the end of a deploy, of which the row may know nothing any more.   *)
LEMMA SettleIs ==
    ASSUME RunsOK, NEW t \in Target, work[t].run \in DOMAIN runs,
           NEW s \in {"succeeded", "failed"}, Settle(t, s)
    PROVE  \A j \in 1 .. Len(runs) :
             /\ runs'[j].got = runs[j].got
             /\ \/ runs'[j].status = runs[j].status
                \/ j = work[t].run /\ runs'[j].status = s
             /\ j = work[t].run => runs'[j].status # "running"
<1>1. CASE runs[work[t].run].status = "running"
    BY <1>1, StatusIs DEF Settle
<1>2. CASE runs[work[t].run].status # "running" /\ UNCHANGED runs
    BY <1>2
<1> QED BY <1>1, <1>2 DEF Settle

(* After a new one.                                                         *)
LEMMA NewRunIs ==
    ASSUME RunsOK, NEW t \in Target, NEW ref, NEW commit, NEW push, NewRun(t, ref, commit, push),
           RunsOK', Len(runs') = Len(runs) + 1
    PROVE  /\ \A j \in 1 .. Len(runs) : runs'[j] = runs[j]
           /\ runs'[Len(runs) + 1] = [target |-> t, ref |-> ref, commit |-> commit, push |-> push,
                                      got |-> 0, status |-> "pending"]
<1>1. Len(runs) \in Nat
    BY RunsAre
<1> QED BY <1>1 DEF NewRun, RunsOK

(* After the deletion of an app.                                            *)
LEMMA RemovedIs ==
    ASSUME RunsOK, NEW a \in App, DeleteApp(a)
    PROVE  \A j \in 1 .. Len(runs) : /\ runs'[j].got = runs[j].got
                                     /\ runs'[j].status \in {runs[j].status, "removed"}
<1>1. DOMAIN runs = 1 .. Len(runs) /\ \A j \in 1 .. Len(runs) : runs[j] \in Row
    BY RunsAre
<1>2. \A j \in 1 .. Len(runs) : runs'[j] = IF AppOf[runs[j].target] = a
                                          THEN [runs[j] EXCEPT !.status = "removed"] ELSE runs[j]
    BY <1>1 DEF DeleteApp
<1> QED BY <1>1, <1>2 DEF Row

(* A row that fits still fits if it only ends without success.              *)
LEMMA FitsStay ==
    ASSUME Holds, OnTheWay, RunsOK', Kept, UNCHANGED <<work, pushed>>,
           \A i \in 1 .. Len(runs) :
               /\ runs'[i].got = runs[i].got
               /\ runs'[i].status \in {runs[i].status, "failed", "removed"},
           \A i \in 1 .. Len(runs') : i > Len(runs) =>
               /\ runs'[i].got = 0 /\ runs'[i].status = "pending"
               /\ runs'[i].push # 0 => /\ runs'[i].push <= Len(pushed)
                                       /\ runs'[i].ref = pushed[runs'[i].push].ref
    PROVE  RowsFit' /\ WorkFits'
<1>1. /\ Len(runs) \in Nat /\ DOMAIN runs' = 1 .. Len(runs') /\ Len(runs') \in Nat
      /\ \A i \in 1 .. Len(runs') : i \in 1 .. Len(runs) \/ i > Len(runs)
    BY HoldsParts, LenProperties DEF RunsOK
<1>2. ASSUME NEW i \in 1 .. Len(runs) PROVE RowFits(i)'
    BY <1>2, RowsAre DEF RowFits, Kept
<1>3. ASSUME NEW i \in 1 .. Len(runs'), i > Len(runs) PROVE RowFits(i)'
    BY <1>3 DEF RowFits
<1>4. WorkFits'
  <2> SUFFICES ASSUME NEW t \in Target, work[t].run # 0
               PROVE  /\ runs'[work[t].run].target = t
                      /\ work[t].commit # 0 => runs'[work[t].run].got # 0
      BY HoldsParts, CommitsOfEach DEF WorkFits, CommitsOf
  <2>1. work[t].run \in 1 .. Len(runs)
      BY WorkingRun
  <2> QED BY <2>1, RowsAre DEF WorkFits, Kept
<1> QED BY <1>1, <1>2, <1>3, <1>4 DEF RowsFit

(* Handlers keep the one run they have yet to send.                         *)
LEMMA UnsentStay ==
    ASSUME Holds, OnTheWay, Kept, unsent' \subseteq unsent,
           \A i \in unsent' : runs[i].push # 0 => pc'[runs[i].push] = pc[runs[i].push]
    PROVE  UnsentFits'
<1>1. unsent \subseteq 1 .. Len(runs) /\ UnsentFits
    BY HoldsParts, RowsAre
<1>2. \A i \in unsent' : i \in unsent /\ runs'[i].push = runs[i].push
    BY <1>1 DEF Kept
<1> QED BY <1>1, <1>2 DEF UnsentFits

(* Whoever has a run that is not lost keeps it.                             *)
LEMMA CarriedStay ==
    ASSUME Holds, OnTheWay, RunsOK', Kept,
           \A n \in Push : \A t \in steady'[n] :
               /\ t \in steady[n]
               /\ AppOf[t] \in todo[n] \/ t \in hook[n] =>
                    AppOf[t] \in todo'[n] \/ t \in hook'[n] \/ Carried(n, t)',
           \A i \in 1 .. Len(runs) :
               /\ runs[i].push \in Push /\ steady'[runs[i].push] # {}
               /\ i \in unsent \/ i \in queue \/ runs[i].status # "pending"
               => i \in unsent' \/ i \in queue' \/ runs'[i].status # "pending"
    PROVE  CarriedInv'
<1>1. SUFFICES ASSUME NEW n \in Push, NEW t \in steady'[n]
               PROVE  AppOf[t] \in todo'[n] \/ t \in hook'[n] \/ Carried(n, t)'
    BY DEF CarriedInv
<1>2. t \in steady[n]
    BY <1>1
<1>3. AppOf[t] \in todo[n] \/ t \in hook[n] \/ Carried(n, t)
    BY <1>2, RowsAre DEF CarriedInv
<1>4. CASE Carried(n, t)
  <2>1. PICK i \in DOMAIN runs : /\ runs[i].push = n /\ runs[i].target = t
                                 /\ i \in unsent \/ i \in queue \/ runs[i].status # "pending"
      BY <1>4 DEF Carried
  <2>2. i \in 1 .. Len(runs) /\ i \in DOMAIN runs'
    <3>1. Len(runs) \in Nat /\ DOMAIN runs = 1 .. Len(runs)
        BY HoldsParts
    <3>2. Len(runs') \in Nat /\ DOMAIN runs' = 1 .. Len(runs')
        BY LenProperties DEF RunsOK
    <3> QED BY <2>1, <3>1, <3>2 DEF Kept
  <2>3. runs'[i].push = n /\ runs'[i].target = t
      BY <2>1, <2>2 DEF Kept
  <2>4. i \in unsent' \/ i \in queue' \/ runs'[i].status # "pending"
      BY <1>1, <2>1, <2>2
  <2> QED BY <2>2, <2>3, <2>4 DEF Carried
<1> QED BY <1>1, <1>3, <1>4

(* A step that leaves rows, messages, work and the repository alone.        *)
LEMMA RowsAlone ==
    ASSUME Holds, OnTheWay, UNCHANGED <<runs, unsent, queue, work, pushed, head>>,
           \A n \in Push : pc[n] = "send" => pc'[n] = "send",
           \A n \in Push : \A t \in steady'[n] :
               /\ t \in steady[n]
               /\ AppOf[t] \in todo[n] \/ t \in hook[n] =>
                    AppOf[t] \in todo'[n] \/ t \in hook'[n] \/ Carried(n, t)'
    PROVE  OnTheWay'
<1>1. RunsOK' /\ Kept
    BY RowsStay
<1>2. RowsFit' /\ WorkFits'
    BY <1>1, FitsStay
<1>3. HeadsFit'
    BY RowsAre DEF HeadsFit
<1>4. UnsentFits'
    BY RowsAre, HoldsParts, RunsAre DEF UnsentFits, Row
<1>5. CarriedInv'
    BY <1>1, CarriedStay
<1> QED BY <1>2, <1>3, <1>4, <1>5 DEF OnTheWay

(* A push is newer than all before it, and nobody has looked at it yet.     *)
LEMMA GitPushOnTheWay == ASSUME Holds, OnTheWay, NEW ref \in Ref, GitPush(ref) PROVE OnTheWay'
<1> DEFINE m == Len(pushed) + 1
<1>1. /\ RepositoryOK /\ HandlersOK /\ RunsOK /\ HandlerInv /\ m \in Push
      /\ UNCHANGED <<runs, unsent, queue, todo, hook, steady, work>>
      /\ pc' = [pc EXCEPT ![m] = "sent"]
    BY HoldsParts DEF GitPush, rows
<1>2. PICK deletes \in BOOLEAN :
        /\ head' = [head EXCEPT ![ref] = IF deletes THEN 0 ELSE m]
        /\ pushed' = Append(pushed, [ref |-> ref, deletes |-> deletes])
    BY DEF GitPush
<1>3. Len(pushed) \in Nat /\ \A n \in 1 .. Len(pushed) : pushed[n].ref \in Ref
    BY <1>1, PushedAre
<1>4. /\ Len(pushed') = m /\ pushed'[m].ref = ref
      /\ \A n \in 1 .. Len(pushed) : pushed'[n] = pushed[n]
    BY <1>1, <1>2, AppendProperties DEF RepositoryOK
<1>5. RunsOK' /\ Kept
    BY RowsStay, <1>1
<1>6. RowsFit'
  <2> SUFFICES ASSUME NEW i \in 1 .. Len(runs) PROVE RowFits(i)'
      BY <1>1, RunsAre DEF RowsFit
  <2>1. RowFits(i) /\ runs[i].push \in Nat
      BY RowsAre, Constants DEF Row, Push
  <2>2. runs[i].push # 0 => runs[i].push \in 1 .. Len(pushed) /\ runs[i].push <= m
      BY <2>1, <1>3 DEF RowFits
  <2> QED BY <1>1, <1>4, <2>1, <2>2 DEF RowFits
<1>7. WorkFits'
    BY <1>1, RowsAre DEF WorkFits
<1>8. HeadsFit'
  <2> SUFFICES ASSUME NEW n \in 1 .. m PROVE head'[pushed'[n].ref] = 0 \/ head'[pushed'[n].ref] >= n
      BY <1>4 DEF HeadsFit
  <2>1. CASE n = m
      BY <1>1, <1>2, <1>3, <1>4, <2>1 DEF RepositoryOK
  <2>2. CASE n \in 1 .. Len(pushed)
    <3>1. head[pushed[n].ref] = 0 \/ head[pushed[n].ref] >= n
        BY <2>2, RowsAre DEF HeadsFit
    <3>2. pushed'[n].ref = pushed[n].ref /\ pushed[n].ref \in Ref
        BY <1>3, <1>4, <2>2
    <3>3. head'[pushed[n].ref] = IF pushed[n].ref = ref THEN IF deletes THEN 0 ELSE m
                                 ELSE head[pushed[n].ref]
        BY <1>1, <1>2, <3>2 DEF RepositoryOK
    <3> QED BY <1>3, <2>2, <3>1, <3>2, <3>3
  <2> QED BY <1>3, <2>1, <2>2
<1>9. UnsentFits'
  <2>1. \A i \in unsent : runs[i].push # 0 => runs[i].push \in Push /\ runs[i].push # m
      BY HoldsParts, RowsAre, <1>3, Constants DEF RowFits, Row, Push
  <2>2. \A i \in unsent : runs[i].push # 0 => pc'[runs[i].push] = pc[runs[i].push]
      BY <1>1, <2>1 DEF HandlersOK
  <2> QED BY <1>1, <1>5, <2>2, UnsentStay
<1>10. CarriedInv'
    BY <1>1, <1>5, CarriedStay
<1> QED BY <1>6, <1>7, <1>8, <1>9, <1>10 DEF OnTheWay

(* A delivery begins with everybody still to be looked at.                  *)
LEMMA ReceiveOnTheWay == ASSUME Holds, OnTheWay, NEW n \in Push, Receive(n) PROVE OnTheWay'
<1>1. /\ HandlersOK /\ HandlerInv /\ RunsOK /\ pc[n] = "sent"
      /\ UNCHANGED <<runs, unsent, queue, work, pushed, head, hook>>
      /\ pc' = [pc EXCEPT ![n] = "apps"] /\ todo' = [todo EXCEPT ![n] = apps]
      /\ steady' = [steady EXCEPT ![n] = {t \in Target : Subscribed(t, pushed[n].ref)}]
    BY HoldsParts DEF Receive, rows
<1>2. RunsOK' /\ Kept
    BY RowsStay, <1>1
<1>3. RowsFit' /\ WorkFits'
    BY <1>1, <1>2, FitsStay
<1>4. HeadsFit'
    BY <1>1, RowsAre DEF HeadsFit
<1>5. UnsentFits'
  <2>1. \A i \in unsent : runs[i].push # 0 => runs[i].push \in Push /\ pc[runs[i].push] = "send"
      BY HoldsParts, RowsAre DEF UnsentFits, Row
  <2>2. \A i \in unsent : runs[i].push # 0 => pc'[runs[i].push] = pc[runs[i].push]
      BY <1>1, <2>1 DEF HandlersOK
  <2> QED BY <1>1, <1>2, <2>2, UnsentStay
<1>6. CarriedInv'
  <2> SUFFICES ASSUME NEW m \in Push, NEW t \in steady'[m]
               PROVE  AppOf[t] \in todo'[m] \/ t \in hook'[m] \/ Carried(m, t)'
      BY DEF CarriedInv
  <2>1. CASE m = n
      BY <1>1, <2>1 DEF HandlersOK, Subscribed
  <2>2. CASE m # n
    <3>1. t \in steady[m] /\ todo'[m] = todo[m]
        BY <1>1, <2>2 DEF HandlersOK
    <3>2. Carried(m, t) => Carried(m, t)'
        BY <1>1 DEF Carried
    <3> QED BY <1>1, <3>1, <3>2, RowsAre DEF CarriedInv
  <2> QED BY <2>1, <2>2
<1> QED BY <1>3, <1>4, <1>5, <1>6 DEF OnTheWay

(* Of an app that is looked at, all that still subscribe are matches.       *)
LEMMA ListEnvsOnTheWay == ASSUME Holds, OnTheWay, NEW n \in Push, ListEnvs(n) PROVE OnTheWay'
<1>1. PICK a \in todo[n] :
        LET matches == {t \in Target : AppOf[t] = a /\ RefMatches(t, pushed[n].ref)} IN
        /\ todo' = [todo EXCEPT ![n] = @ \ {a}]
        /\ hook' = [hook EXCEPT ![n] = matches]
        /\ pc' = [pc EXCEPT ![n] = IF matches = {} THEN "apps" ELSE "create"]
    BY DEF ListEnvs
<1>2. /\ HandlersOK /\ HandlerInv /\ pc[n] = "apps" /\ hook[n] = {}
      /\ UNCHANGED <<runs, unsent, queue, work, pushed, head, steady>>
    BY HoldsParts DEF ListEnvs, rows, HandlerInv, HandlerFor
<1>3. \A m \in Push : pc[m] = "send" => pc'[m] = "send"
    BY <1>1, <1>2 DEF HandlersOK
<1>4. ASSUME NEW m \in Push, NEW t \in steady'[m], AppOf[t] \in todo[m] \/ t \in hook[m]
      PROVE  AppOf[t] \in todo'[m] \/ t \in hook'[m]
  <2>1. t \in steady[m] /\ t \in Target
      BY <1>2, <1>4 DEF HandlersOK
  <2>2. CASE m # n
      BY <1>1, <1>2, <1>4, <2>2 DEF HandlersOK
  <2>3. CASE m = n
    <3>1. RefMatches(t, pushed[n].ref) /\ AppOf[t] \in todo[n]
        BY <1>2, <1>4, <2>1, <2>3 DEF HandlerInv, HandlerFor, Subscribed, RefMatches
    <3> QED BY <1>1, <1>2, <2>1, <2>3, <3>1 DEF HandlersOK
  <2> QED BY <2>2, <2>3
<1> QED BY <1>2, <1>3, <1>4, RowsAlone

(* Deliveries that are lost, redelivered or answered, and the registry.     *)
LEMMA QuietOnTheWay ==
    ASSUME Holds, OnTheWay,
           \/ \E n \in Push : DeliveryLost(n) \/ Redeliver(n) \/ Answer(n)
           \/ \E t \in Target : DeleteAppEnv(t) \/ \E ref \in Ref \cup Pattern \cup {NoRef} : PutAppEnv(t, ref)
           \/ \E a \in App : RegisterApp(a)
           \/ UNCHANGED vars
    PROVE  OnTheWay'
<1>1. UNCHANGED <<runs, unsent, queue, work, pushed, head, todo, hook>> /\ HandlersOK
    BY HoldsParts DEF DeliveryLost, Redeliver, Answer, DeleteAppEnv, PutAppEnv, RegisterApp, vars, rows, handler
<1>2. \A n \in Push : pc[n] = "send" => pc'[n] = "send"
    BY <1>1 DEF HandlersOK, DeliveryLost, Redeliver, Answer, DeleteAppEnv, PutAppEnv, RegisterApp, vars, handler
<1>3. \A n \in Push : \A t \in steady'[n] : t \in steady[n]
    BY <1>1 DEF HandlersOK, DeliveryLost, Redeliver, Answer, DeleteAppEnv, PutAppEnv, RegisterApp, Unsettled, vars, handler
<1> QED BY <1>1, <1>2, <1>3, RowsAlone

(* A delivery that failed has no subscribers that count on it.              *)
LEMMA GiveUpOnTheWay ==
    ASSUME Holds, OnTheWay, NEW n \in Push, GiveUp(n), pc[n] # "send" => unsent' = unsent,
           pc[n] = "send" => unsent' = unsent \ {Created(n)},
           UNCHANGED <<runs, queue, work, pushed, head>>
    PROVE  OnTheWay'
<1>1. /\ HandlersOK /\ RunsOK /\ HandlerInv /\ unsent' \subseteq unsent /\ Len(runs) \in Nat
      /\ unsent \subseteq 1 .. Len(runs)
    BY HoldsParts
<1>2. RunsOK' /\ Kept
    BY RowsStay
<1>3. RowsFit' /\ WorkFits'
    BY <1>1, <1>2, FitsStay
<1>4. HeadsFit'
    BY RowsAre DEF HeadsFit
<1>5. \A i \in unsent \ unsent' : runs[i].push = n
    BY <1>1, CreatedIs DEF HandlerInv, HandlerFor
<1>6. \A i \in unsent' : runs[i].push # n
  <2> SUFFICES ASSUME NEW i \in unsent', runs[i].push = n PROVE FALSE
      OBVIOUS
  <2>1. n # 0 /\ i \in unsent
      BY <1>1, Constants DEF Push
  <2>2. pc[n] = "send" /\ \A j \in unsent : runs[j].push = n => j = i
      BY <2>1, RowsAre DEF UnsentFits
  <2>3. Created(n) \in unsent /\ runs[Created(n)].push = n
      BY <2>1, CreatedIs
  <2> QED BY <2>2, <2>3
<1>7. UnsentFits'
  <2>1. \A i \in unsent' : runs[i].push # 0 => runs[i].push \in Push
      BY <1>1, RowsAre DEF Row
  <2>2. \A i \in unsent' : runs[i].push # 0 => pc'[runs[i].push] = pc[runs[i].push]
      BY <1>1, <1>6, <2>1 DEF HandlersOK, GiveUp
  <2> QED BY <1>1, <1>2, <2>2, UnsentStay
<1>8. CarriedInv'
  <2>1. steady'[n] = {} /\ \A m \in Push \ {n} : /\ todo'[m] = todo[m] /\ hook'[m] = hook[m]
                                                 /\ steady'[m] = steady[m]
      BY <1>1 DEF HandlersOK, GiveUp
  <2>2. \A m \in Push : \A t \in steady'[m] :
          /\ t \in steady[m]
          /\ AppOf[t] \in todo[m] \/ t \in hook[m] => AppOf[t] \in todo'[m] \/ t \in hook'[m]
      BY <2>1
  <2>3. \A i \in 1 .. Len(runs) : runs[i].push \in Push /\ steady'[runs[i].push] # {} /\ i \in unsent
          => i \in unsent'
      BY <1>5, <2>1
  <2> QED BY <1>2, <2>2, <2>3, CarriedStay
<1> QED BY <1>3, <1>4, <1>7, <1>8 DEF OnTheWay

(* A match that gets its row.                                               *)
LEMMA CreateRunOnTheWay ==
    ASSUME Holds, OnTheWay, Holds', NEW n \in Push, CreateRun(n) PROVE OnTheWay'
<1>1. /\ HandlerInv /\ HandlersOK /\ RunsOK /\ RunsOK' /\ RepositoryOK /\ pc[n] = "create"
      /\ Len(runs) \in Nat /\ unsent \subseteq 1 .. Len(runs)
      /\ UNCHANGED <<registry, head, pushed, queue, work, deployed, budget>>
    BY HoldsParts DEF CreateRun, Holds, TypeOK, RunsOK
<1>2. PICK t \in hook[n] :
        \/ /\ Len(runs) < MaxRun
           /\ NewRun(t, Decoded(n).ref, Decoded(n).commit, n)
           /\ unsent' = unsent \cup {Len(runs) + 1}
           /\ hook' = [hook EXCEPT ![n] = @ \ {t}]
           /\ pc' = [pc EXCEPT ![n] = "send"] /\ UNCHANGED <<todo, steady>>
        \/ GiveUp(n) /\ UNCHANGED <<runs, unsent>>
    BY DEF CreateRun
<1>3. CASE GiveUp(n) /\ UNCHANGED <<runs, unsent>>
    BY <1>1, <1>3, GiveUpOnTheWay
<1>4. CASE /\ Len(runs) < MaxRun
           /\ NewRun(t, Decoded(n).ref, Decoded(n).commit, n)
           /\ unsent' = unsent \cup {Len(runs) + 1}
           /\ hook' = [hook EXCEPT ![n] = @ \ {t}]
           /\ pc' = [pc EXCEPT ![n] = "send"] /\ UNCHANGED <<todo, steady>>
  <2>0. t \in Target /\ ~(n > Len(pushed)) /\ n # 0 /\ n \in Nat /\ Len(pushed) \in Nat
      BY <1>1, Constants, PushedAre DEF HandlersOK, HandlerInv, HandlerFor, Push
  <2>1. Decoded(n).ref = pushed[n].ref /\ Decoded(n).ref \in Ref /\ Decoded(n).commit \in Push \cup {0}
      BY <1>1, <2>0, PushedAre DEF Decoded
  <2>2. Kept /\ Len(runs') = Len(runs) + 1
      BY <1>1, <1>4, <2>0, <2>1, NewRunKeeps
  <2>3. /\ \A j \in 1 .. Len(runs) : runs'[j] = runs[j]
        /\ runs'[Len(runs) + 1] = [target |-> t, ref |-> Decoded(n).ref, commit |-> Decoded(n).commit,
                                   push |-> n, got |-> 0, status |-> "pending"]
      BY <1>1, <1>4, <2>0, <2>2, NewRunIs
  <2>4. /\ runs'[Len(runs) + 1].got = 0 /\ runs'[Len(runs) + 1].status = "pending"
        /\ runs'[Len(runs) + 1].push = n /\ runs'[Len(runs) + 1].ref = pushed[n].ref
        /\ runs'[Len(runs) + 1].target = t
      BY <2>1, <2>3
  <2>5. \A i \in 1 .. Len(runs') : i > Len(runs) => i = Len(runs) + 1
      BY <1>1, <2>2
  <2>6. RowsFit' /\ WorkFits'
      BY <1>1, <2>0, <2>2, <2>3, <2>4, <2>5, FitsStay
  <2>7. HeadsFit'
      BY <1>1, RowsAre DEF HeadsFit
  <2>8. \A i \in unsent : runs[i].push # n
    <3> SUFFICES ASSUME NEW i \in unsent, runs[i].push = n PROVE FALSE
        OBVIOUS
    <3> QED BY <1>1, <2>0, RowsAre DEF UnsentFits
  <2>9. UnsentFits'
    <3>1. ASSUME NEW i \in unsent, runs'[i].push # 0
          PROVE  /\ runs'[i].push # n /\ pc'[runs'[i].push] = "send"
                 /\ \A j \in unsent : runs'[j].push = runs'[i].push => j = i
      <4>1. runs'[i] = runs[i] /\ runs[i].push \in Push /\ runs[i].push # n
          BY <1>1, <2>3, <2>8, <3>1, RowsAre DEF Row
      <4>2. pc[runs[i].push] = "send" /\ \A j \in unsent : runs[j].push = runs[i].push => j = i
          BY <3>1, <4>1, RowsAre DEF UnsentFits
      <4>3. pc'[runs[i].push] = "send"
          BY <1>1, <1>4, <4>1, <4>2 DEF HandlersOK
      <4> QED BY <1>1, <2>3, <4>1, <4>2, <4>3
    <3>2. pc'[n] = "send" /\ \A j \in unsent : runs'[j].push # n
        BY <1>1, <1>4, <2>3, <2>8 DEF HandlersOK
    <3> QED BY <1>4, <2>4, <3>1, <3>2 DEF UnsentFits
  <2>10. CarriedInv'
    <3>1. Carried(n, t)'
        BY <1>1, <1>4, <2>2, <2>4, RunsAre, LenProperties DEF Carried, RunsOK
    <3>2. \A m \in Push : /\ todo'[m] = todo[m] /\ steady'[m] = steady[m]
                          /\ hook'[m] = IF m = n THEN hook[n] \ {t} ELSE hook[m]
        BY <1>1, <1>4 DEF HandlersOK
    <3>3. \A m \in Push : \A s \in steady'[m] :
            /\ s \in steady[m]
            /\ AppOf[s] \in todo[m] \/ s \in hook[m] =>
                 AppOf[s] \in todo'[m] \/ s \in hook'[m] \/ Carried(m, s)'
        BY <3>1, <3>2
    <3>4. \A i \in 1 .. Len(runs) : i \in unsent \/ i \in queue \/ runs[i].status # "pending"
            => i \in unsent' \/ i \in queue' \/ runs'[i].status # "pending"
        BY <1>1, <1>4, <2>3
    <3> QED BY <1>1, <2>2, <3>3, <3>4, CarriedStay
  <2> QED BY <2>6, <2>7, <2>9, <2>10 DEF OnTheWay
<1> QED BY <1>2, <1>3, <1>4

(* Its message goes into the queue.                                         *)
LEMMA SendOnTheWay == ASSUME Holds, OnTheWay, NEW n \in Push, Send(n) PROVE OnTheWay'
<1>1. /\ HandlerInv /\ HandlersOK /\ RunsOK /\ unsent \subseteq 1 .. Len(runs) /\ pc[n] = "send"
      /\ UNCHANGED <<head, pushed, todo, hook, steady, runs, work>>
      /\ queue' = queue \cup {Created(n)} /\ unsent' = unsent \ {Created(n)}
      /\ pc' = [pc EXCEPT ![n] = IF hook[n] = {} THEN "apps" ELSE "create"]
    BY HoldsParts DEF Send
<1>2. Created(n) \in unsent /\ runs[Created(n)].push = n /\ n # 0
    BY <1>1, CreatedIs, Constants DEF HandlerInv, HandlerFor, Push
<1>3. RunsOK' /\ Kept
    BY <1>1, RowsStay
<1>4. RowsFit' /\ WorkFits'
    BY <1>1, <1>3, FitsStay
<1>5. HeadsFit'
    BY <1>1, RowsAre DEF HeadsFit
<1>6. UnsentFits'
  <2>1. \A i \in unsent' : runs[i].push # n
      BY <1>1, <1>2, RowsAre DEF UnsentFits
  <2>2. \A i \in unsent' : runs[i].push # 0 => runs[i].push \in Push
      BY <1>1, RowsAre DEF Row
  <2>3. \A i \in unsent' : runs[i].push # 0 => pc'[runs[i].push] = pc[runs[i].push]
      BY <1>1, <2>1, <2>2 DEF HandlersOK
  <2> QED BY <1>1, <1>3, <2>3, UnsentStay
<1>7. CarriedInv'
    BY <1>1, <1>3, CarriedStay
<1> QED BY <1>4, <1>5, <1>6, <1>7 DEF OnTheWay

(* The button, and its message.                                             *)
LEMMA ManualOnTheWay ==
    ASSUME Holds, OnTheWay, Holds',
           (\E t \in Target : TriggerDeploy(t)) \/ (\E i \in RunId : SendManual(i))
    PROVE  OnTheWay'
<1>1. /\ HandlersOK /\ RunsOK /\ RunsOK' /\ Len(runs) \in Nat /\ unsent \subseteq 1 .. Len(runs)
      /\ UNCHANGED <<head, pushed, pc, todo, hook, steady, work>>
    BY HoldsParts DEF TriggerDeploy, SendManual, handler, Holds, TypeOK, RunsOK
<1>2. HeadsFit'
    BY <1>1, RowsAre DEF HeadsFit
<1>3. CASE \E i \in RunId : SendManual(i)
  <2>1. PICK i \in RunId : SendManual(i)
      BY <1>3
  <2>2. /\ UNCHANGED runs /\ unsent' \subseteq unsent /\ queue \subseteq queue'
        /\ \A j \in unsent : j \in unsent' \/ j \in queue'
      BY <2>1 DEF SendManual
  <2>3. RunsOK' /\ Kept
      BY <2>2, RowsStay
  <2>4. RowsFit' /\ WorkFits'
      BY <1>1, <2>2, <2>3, FitsStay
  <2>5. UnsentFits'
      BY <1>1, <2>2, <2>3, UnsentStay
  <2>6. CarriedInv'
      BY <1>1, <2>2, <2>3, CarriedStay
  <2> QED BY <1>2, <2>4, <2>5, <2>6 DEF OnTheWay
<1>4. CASE \E t \in Target : TriggerDeploy(t)
  <2>1. PICK t \in Target : TriggerDeploy(t)
      BY <1>4
  <2>2. PICK ref \in Ref \cup {ManualRef(t)} : NewRun(t, ref, 0, 0)
      BY <2>1 DEF TriggerDeploy
  <2>3. /\ ref \in Ref /\ Len(runs) < MaxRun /\ queue' = queue
        /\ unsent' = unsent \cup {Len(runs) + 1}
      BY <2>1, <2>2, Constants DEF TriggerDeploy, ManualRef
  <2>4. Kept /\ Len(runs') = Len(runs) + 1
      BY <1>1, <2>2, <2>3, NewRunKeeps
  <2>5. /\ \A j \in 1 .. Len(runs) : runs'[j] = runs[j]
        /\ runs'[Len(runs) + 1].push = 0 /\ runs'[Len(runs) + 1].got = 0
        /\ runs'[Len(runs) + 1].status = "pending"
    <3>1. /\ \A j \in 1 .. Len(runs) : runs'[j] = runs[j]
          /\ runs'[Len(runs) + 1] = [target |-> t, ref |-> ref, commit |-> 0, push |-> 0,
                                     got |-> 0, status |-> "pending"]
        BY <1>1, <2>2, <2>4, NewRunIs
    <3> QED BY <3>1
  <2>6. \A i \in 1 .. Len(runs') : i > Len(runs) => i = Len(runs) + 1
      BY <1>1, <2>4
  <2>7. RowsFit' /\ WorkFits'
      BY <1>1, <2>4, <2>5, <2>6, FitsStay
  <2>8. UnsentFits'
    <3>1. \A i \in unsent : runs'[i] = runs[i]
        BY <1>1, <2>5
    <3>2. \A i \in unsent' : runs'[i].push # 0 => i \in unsent
        BY <2>3, <2>5
    <3>3. UnsentFits /\ pc' = pc
        BY <1>1, RowsAre
    <3> QED BY <3>1, <3>2, <3>3 DEF UnsentFits
  <2>9. CarriedInv'
      BY <1>1, <2>3, <2>4, <2>5, CarriedStay
  <2> QED BY <1>2, <2>7, <2>8, <2>9 DEF OnTheWay
<1> QED BY <1>3, <1>4

(* Rows that end without a success, and messages of rows that have.         *)
LEMMA EndsOnTheWay ==
    ASSUME Holds, OnTheWay, Holds',
           \/ \E i \in RunId : Skip(i) \/ Sweep(i)
           \/ \E a \in App : DeleteApp(a)
    PROVE  OnTheWay'
<1>1. /\ HandlersOK /\ RunsOK /\ RunsOK' /\ Len(runs) \in Nat /\ DOMAIN runs = 1 .. Len(runs)
      /\ \A i \in 1 .. Len(runs) : runs[i] \in Row
      /\ UNCHANGED <<head, pushed, pc, todo, hook, unsent, work>>
    BY HoldsParts, RunsAre DEF Skip, Sweep, DeleteApp, handler, Holds, TypeOK, RunsOK
<1>2. /\ Kept /\ Len(runs') = Len(runs)
      /\ \A j \in 1 .. Len(runs) : /\ runs'[j].got = runs[j].got
                                   /\ runs'[j].status \in {runs[j].status, "failed", "removed"}
                                   /\ j \in queue => j \in queue' \/ runs'[j].status # "pending"
  <2>1. CASE \E i \in RunId : Skip(i)
    <3>1. PICK i \in RunId : Skip(i)
        BY <2>1
    <3> QED BY <1>1, <3>1, RowsStay DEF Skip
  <2>2. CASE \E i \in RunId : Sweep(i)
    <3>1. PICK i \in RunId : i \in DOMAIN runs /\ Status(i, "failed") /\ queue' = queue
        BY <2>2 DEF Sweep
    <3>2. Kept /\ Len(runs') = Len(runs)
        BY <1>1, <3>1, StatusKeeps
    <3>3. \A j \in 1 .. Len(runs) : /\ runs'[j].got = runs[j].got
                                    /\ runs'[j].status = IF j = i THEN "failed" ELSE runs[j].status
        BY <1>1, <3>1, StatusIs
    <3> QED BY <3>1, <3>2, <3>3
  <2>3. CASE \E a \in App : DeleteApp(a)
    <3>1. PICK a \in App : DeleteApp(a)
        BY <2>3
    <3>2. queue' = queue
        BY <3>1 DEF DeleteApp
    <3> QED BY <1>1, <3>1, <3>2, RemovedKeeps, RemovedIs
  <2> QED BY <2>1, <2>2, <2>3
<1>3. \A n \in Push : steady'[n] \subseteq steady[n]
    BY <1>1 DEF HandlersOK, Skip, Sweep, DeleteApp, Unsettled, handler
<1>4. RowsFit' /\ WorkFits'
    BY <1>1, <1>2, FitsStay
<1>5. HeadsFit'
    BY <1>1, RowsAre DEF HeadsFit
<1>6. UnsentFits'
    BY <1>1, <1>2, UnsentStay
<1>7. CarriedInv'
  <2>1. \A i \in 1 .. Len(runs) : i \in unsent \/ i \in queue \/ runs[i].status # "pending"
          => i \in unsent' \/ i \in queue' \/ runs'[i].status # "pending"
      BY <1>1, <1>2
  <2> QED BY <1>1, <1>2, <1>3, <2>1, CarriedStay
<1> QED BY <1>4, <1>5, <1>6, <1>7 DEF OnTheWay

(* A step of a target's work: its own row and no other's is at issue.       *)
LEMMA WorkOnTheWay ==
    ASSUME Holds, OnTheWay, Holds', UNCHANGED <<head, pushed, handler, unsent>>, Kept,
           Len(runs') = Len(runs), RowsFit', WorkFits',
           \A i \in 1 .. Len(runs) : i \in queue \/ runs[i].status # "pending"
               => i \in queue' \/ runs'[i].status # "pending"
    PROVE  OnTheWay'
<1>1. UNCHANGED <<pc, todo, hook, steady>> /\ RunsOK'
    BY DEF handler, Holds, TypeOK, RunsOK
<1>2. HeadsFit'
    BY RowsAre DEF HeadsFit
<1>3. UnsentFits'
    BY <1>1, UnsentStay
<1>4. CarriedInv'
    BY <1>1, CarriedStay
<1> QED BY <1>2, <1>3, <1>4 DEF OnTheWay

(* A run begins only where no other one works.                              *)
LEMMA BeginOnTheWay == ASSUME Holds, OnTheWay, Holds', NEW i \in RunId, Begin(i) PROVE OnTheWay'
<1> DEFINE t == runs[i].target
<1>1. /\ RunsOK /\ WorkOK /\ i \in queue /\ i \in 1 .. Len(runs) /\ i \in DOMAIN runs
      /\ Len(runs) \in Nat /\ DOMAIN runs = 1 .. Len(runs)
      /\ queue' = queue \ {i} /\ work[t].run = 0
      /\ UNCHANGED <<head, pushed, handler, unsent>>
    BY HoldsParts DEF Begin, Locked
<1>2. PICK s \in {"running", "failed"} :
        /\ Status(i, s)
        /\ IF s = "running" THEN work' = [work EXCEPT ![t] = [run |-> i, commit |-> 0]]
           ELSE UNCHANGED work
    BY DEF Begin
<1>3. Kept /\ Len(runs') = Len(runs) /\ DOMAIN runs' = 1 .. Len(runs) /\ t \in Target
    BY <1>1, <1>2, StatusKeeps, RunsAre, LenProperties DEF RunsOK, Row
<1>4. \A j \in 1 .. Len(runs) : /\ runs'[j].got = runs[j].got
                                /\ runs'[j].status = IF j = i THEN s ELSE runs[j].status
                                /\ runs'[j].target = runs[j].target
    BY <1>1, <1>2, <1>3, StatusIs DEF Kept
<1>5. \A u \in Target : work'[u] = IF s = "running" /\ u = t THEN [run |-> i, commit |-> 0] ELSE work[u]
    BY <1>1, <1>2 DEF WorkOK
<1>6. RowsFit'
  <2> SUFFICES ASSUME NEW j \in 1 .. Len(runs) PROVE RowFits(j)'
      BY <1>3 DEF RowsFit
  <2>1. RowFits(j) /\ runs[j].target \in Target
      BY RowsAre DEF Row
  <2>2. runs'[j].status = "running" => work'[runs'[j].target].run = j
    <3>1. CASE j = i
        BY <1>4, <1>5, <3>1, <1>3
    <3>2. CASE j # i /\ runs[j].status = "running"
      <4>1. work[runs[j].target].run = j
          BY <2>1, <3>2 DEF RowFits
      <4>2. runs[j].target # t
          BY <1>1, <4>1
      <4> QED BY <1>4, <1>5, <2>1, <4>1, <4>2
    <3> QED BY <1>4, <3>1, <3>2
  <2>3. /\ runs'[j].push = runs[j].push /\ runs'[j].ref = runs[j].ref /\ pushed' = pushed
        /\ runs'[j].got = runs[j].got
      BY <1>1, <1>3, <1>4 DEF Kept
  <2>4. runs'[j].status = "succeeded" => runs[j].status = "succeeded"
      BY <1>4
  <2> QED BY <2>1, <2>2, <2>3, <2>4 DEF RowFits
<1>7. WorkFits'
  <2> SUFFICES ASSUME NEW u \in Target, work'[u].run # 0
               PROVE  /\ runs'[work'[u].run].target = u
                      /\ work'[u].commit # 0 => runs'[work'[u].run].got # 0
    <3>1. \A u \in Target : work'[u].commit # 0 => work'[u].run # 0
        BY DEF Holds, CommitsInv
    <3> QED BY <3>1 DEF WorkFits
  <2>1. CASE work'[u] = [run |-> i, commit |-> 0] /\ u = t
      BY <1>1, <1>4, <2>1
  <2>2. CASE work'[u] = work[u]
    <3>1. work[u].run \in 1 .. Len(runs)
        BY <2>2, WorkingRun
    <3> QED BY <1>4, <2>2, <3>1, RowsAre DEF WorkFits
  <2> QED BY <1>5, <2>1, <2>2
<1>8. \A j \in 1 .. Len(runs) : j \in queue \/ runs[j].status # "pending"
        => j \in queue' \/ runs'[j].status # "pending"
    BY <1>1, <1>4
<1> QED BY <1>1, <1>3, <1>6, <1>7, <1>8, WorkOnTheWay

(* The end of what works on a target, whatever its row says by then.        *)
LEMMA SettleOnTheWay ==
    ASSUME Holds, OnTheWay, Holds', NEW t \in Target, work[t].run # 0,
           NEW s \in {"succeeded", "failed"}, Settle(t, s), s = "succeeded" => work[t].commit # 0,
           work' = [work EXCEPT ![t] = Idle],
           UNCHANGED <<head, pushed, handler, unsent, queue>>
    PROVE  OnTheWay'
<1>1. RunsOK /\ WorkOK /\ work[t].run \in DOMAIN runs /\ DOMAIN runs = 1 .. Len(runs)
    BY HoldsParts, WorkingRun
<1>2. Kept /\ Len(runs') = Len(runs) /\ DOMAIN runs' = 1 .. Len(runs)
    BY <1>1, SettleKeeps, LenProperties DEF RunsOK
<1>3. \A j \in 1 .. Len(runs) :
        /\ runs'[j].got = runs[j].got
        /\ runs'[j].status = runs[j].status \/ (j = work[t].run /\ runs'[j].status = s)
        /\ j = work[t].run => runs'[j].status # "running"
    BY <1>1, SettleIs
<1>4. \A u \in Target : work'[u] = IF u = t THEN Idle ELSE work[u]
    BY <1>1 DEF WorkOK
<1>5. RowsFit'
  <2> SUFFICES ASSUME NEW j \in 1 .. Len(runs) PROVE RowFits(j)'
      BY <1>2 DEF RowsFit
  <2>1. RowFits(j) /\ runs[j].target \in Target
      BY RowsAre DEF Row
  <2>2. /\ runs'[j].push = runs[j].push /\ runs'[j].ref = runs[j].ref /\ pushed' = pushed
        /\ runs'[j].target = runs[j].target /\ runs'[j].got = runs[j].got
      BY <1>2, <1>3 DEF Kept
  <2>3. runs'[j].status = "running" => work'[runs'[j].target].run = j
    <3>1. SUFFICES ASSUME runs'[j].status = "running" PROVE work'[runs[j].target].run = j
        BY <2>2
    <3>2. j # work[t].run /\ runs[j].status = "running"
        BY <1>3, <3>1
    <3>3. work[runs[j].target].run = j
        BY <2>1, <3>2 DEF RowFits
    <3> QED BY <1>4, <2>1, <3>2, <3>3
  <2>4. runs'[j].status = "succeeded" => runs[j].got # 0
    <3>1. CASE runs'[j].status = runs[j].status
        BY <2>1, <3>1 DEF RowFits
    <3>2. CASE j = work[t].run /\ runs'[j].status = s
        BY <3>2, RowsAre DEF WorkFits
    <3> QED BY <1>3, <3>1, <3>2
  <2> QED BY <2>1, <2>2, <2>3, <2>4 DEF RowFits
<1>6. WorkFits'
  <2> SUFFICES ASSUME NEW u \in Target, u # t, work[u].run # 0
               PROVE  /\ runs'[work[u].run].target = u
                      /\ work[u].commit # 0 => runs'[work[u].run].got # 0
    <3>1. \A u \in Target : work'[u].commit # 0 => work'[u].run # 0
        BY DEF Holds, CommitsInv
    <3> QED BY <1>4, <3>1 DEF WorkFits, Idle
  <2>1. work[u].run \in 1 .. Len(runs)
      BY WorkingRun
  <2> QED BY <1>2, <1>3, <2>1, RowsAre DEF WorkFits, Kept
<1>7. \A j \in 1 .. Len(runs) : j \in queue \/ runs[j].status # "pending"
        => j \in queue' \/ runs'[j].status # "pending"
    BY <1>3
<1> QED BY <1>2, <1>5, <1>6, <1>7, WorkOnTheWay

(* A clone takes the head of the ref its row names: that push or a newer one. *)
LEMMA CloneOnTheWay == ASSUME Holds, OnTheWay, Holds', NEW t \in Target, Clone(t) PROVE OnTheWay'
<1> DEFINE i == work[t].run
           c == head[runs[i].ref]
<1>1. /\ RunsOK /\ WorkOK /\ RepositoryOK /\ i # 0 /\ i \in 1 .. Len(runs) /\ i \in DOMAIN runs
      /\ runs[i].ref \in Ref /\ DOMAIN runs = 1 .. Len(runs)
      /\ UNCHANGED <<head, pushed, handler, unsent, queue>>
    BY HoldsParts, WorkingRun DEF Clone, Locked
<1>2. \/ Settle(t, "failed") /\ work' = [work EXCEPT ![t] = Idle]
      \/ c # 0 /\ runs' = [runs EXCEPT ![i].got = c] /\ work' = [work EXCEPT ![t].commit = c]
    BY <1>1 DEF Clone
<1>3. CASE Settle(t, "failed") /\ work' = [work EXCEPT ![t] = Idle]
    BY <1>1, <1>3, SettleOnTheWay
<1>4. CASE c # 0 /\ runs' = [runs EXCEPT ![i].got = c] /\ work' = [work EXCEPT ![t].commit = c]
  <2>0. c \in Push
      BY <1>1, <1>4 DEF RepositoryOK
  <2>1. Kept /\ Len(runs') = Len(runs) /\ DOMAIN runs' = 1 .. Len(runs)
      BY <1>1, <1>4, <2>0, GotKeeps, LenProperties DEF RunsOK
  <2>2. \A j \in 1 .. Len(runs) : /\ runs'[j].status = runs[j].status
                                  /\ runs'[j].got = IF j = i THEN c ELSE runs[j].got
      BY <1>1, <1>4, GotIs
  <2>3. \A u \in Target : /\ work'[u].run = work[u].run
                          /\ work'[u].commit = IF u = t THEN c ELSE work[u].commit
      BY <1>1, <1>4 DEF WorkOK
  <2>4. RowsFit'
    <3> SUFFICES ASSUME NEW j \in 1 .. Len(runs) PROVE RowFits(j)'
        BY <2>1 DEF RowsFit
    <3>1. RowFits(j) /\ runs[j].target \in Target /\ runs[j].push \in Nat
        BY RowsAre, Constants DEF Row, Push
    <3>2. /\ runs'[j].push = runs[j].push /\ runs'[j].ref = runs[j].ref /\ pushed' = pushed
          /\ runs'[j].target = runs[j].target
        BY <1>1, <2>1 DEF Kept
    <3>3. runs[j].push # 0 /\ j = i => c >= runs[j].push
      <4>1. SUFFICES ASSUME runs[j].push # 0, j = i PROVE c >= runs[j].push
          OBVIOUS
      <4>2. runs[j].push <= Len(pushed) /\ runs[j].ref = pushed[runs[j].push].ref
          BY <3>1, <4>1 DEF RowFits
      <4>3. Len(pushed) \in Nat
          BY <1>1, PushedAre
      <4>4. runs[j].push \in 1 .. Len(pushed)
          BY <3>1, <4>1, <4>2, <4>3
      <4> QED BY <1>4, <4>1, <4>2, <4>4, RowsAre DEF HeadsFit
    <3> HIDE DEF c
    <3> QED BY <1>4, <2>2, <2>3, <3>1, <3>2, <3>3 DEF RowFits
  <2>5. WorkFits'
    <3> SUFFICES ASSUME NEW u \in Target, work[u].run # 0
                 PROVE  /\ runs'[work[u].run].target = u
                        /\ work'[u].commit # 0 => runs'[work[u].run].got # 0
      <4>1. \A u \in Target : work'[u].commit # 0 => work'[u].run # 0
          BY DEF Holds, CommitsInv
      <4> QED BY <2>3, <4>1 DEF WorkFits
    <3>1. work[u].run \in 1 .. Len(runs)
        BY WorkingRun
    <3> HIDE DEF c
    <3> QED BY <1>4, <2>1, <2>2, <2>3, <3>1, RowsAre DEF WorkFits, Kept
  <2> QED BY <1>1, <2>1, <2>2, <2>4, <2>5, WorkOnTheWay
<1> QED BY <1>2, <1>3, <1>4

(* Every step keeps what is on the way there, or brings it there.           *)
LEMMA OnTheWayStep == Holds /\ OnTheWay /\ [Next]_vars => OnTheWay'
<1> SUFFICES ASSUME Holds, OnTheWay, [Next]_vars PROVE OnTheWay'
    OBVIOUS
<1>0. Holds'
    BY TriggersStep
<1>1. CASE \E r \in Ref : GitPush(r)
    BY <1>1, GitPushOnTheWay
<1>2. CASE \E n \in Push : HookStep(n) \/ DeliveryLost(n) \/ Redeliver(n) \/ HandlerFails(n)
  <2>1. PICK n \in Push : HookStep(n) \/ DeliveryLost(n) \/ Redeliver(n) \/ HandlerFails(n)
      BY <1>2
  <2>2. CASE HandlerFails(n)
      BY <2>2, GiveUpOnTheWay DEF HandlerFails
  <2> QED BY <1>0, <2>1, <2>2, ReceiveOnTheWay, ListEnvsOnTheWay, CreateRunOnTheWay, SendOnTheWay,
             QuietOnTheWay DEF HookStep
<1>3. CASE \E t \in Target : TriggerDeploy(t) \/ DeployStep(t) \/ DeployFails(t)
  <2>1. PICK t \in Target : TriggerDeploy(t) \/ Clone(t) \/ Deploy(t) \/ DeployFails(t)
      BY <1>3 DEF DeployStep
  <2>2. work[t].commit # 0 => work[t].run # 0
      BY DEF Holds, CommitsInv
  <2>3. CASE Deploy(t)
      BY <1>0, <2>2, <2>3, SettleOnTheWay DEF Deploy
  <2>4. CASE DeployFails(t)
      BY <1>0, <2>2, <2>4, SettleOnTheWay DEF DeployFails
  <2> QED BY <1>0, <2>1, <2>3, <2>4, ManualOnTheWay, CloneOnTheWay
<1>4. CASE \E i \in RunId : SendManual(i) \/ Skip(i) \/ Begin(i) \/ Sweep(i)
    BY <1>0, <1>4, ManualOnTheWay, EndsOnTheWay, BeginOnTheWay
<1>5. CASE Registry
    BY <1>0, <1>5, QuietOnTheWay, EndsOnTheWay DEF Registry
<1>6. CASE UNCHANGED vars
    BY <1>6, QuietOnTheWay
<1> QED BY <1>1, <1>2, <1>3, <1>4, <1>5, <1>6 DEF Next

(* AnsweredMovesOn: no answered push is lost before it is deployed, and a   *)
(* run that a push has triggered never succeeds with what was there before. *)
THEOREM PushesMoveOn == Spec => []AnsweredMovesOn
<1>1. Init => Holds /\ OnTheWay
  <2>1. Init => Holds
      BY TriggersInit DEF TriggersInv, Holds
  <2>2. ASSUME Init PROVE OnTheWay
    <3>1. DOMAIN runs = {} /\ Len(pushed) = 0
        BY <2>2 DEF Init
    <3>2. RowsFit /\ WorkFits /\ HeadsFit /\ UnsentFits /\ CarriedInv
        BY <2>2, <3>1 DEF Init, RowsFit, WorkFits, HeadsFit, UnsentFits, CarriedInv, Idle
    <3> QED BY <3>2 DEF OnTheWay
  <2> QED BY <2>1, <2>2
<1>2. Holds /\ OnTheWay /\ [Next]_vars => (Holds /\ OnTheWay)'
    BY TriggersStep, OnTheWayStep
<1>3. Holds /\ OnTheWay => AnsweredMovesOn
  <2> SUFFICES ASSUME Holds, OnTheWay, NEW n \in Push, pc[n] = "ok", NEW t \in steady[n]
               PROVE  \E i \in DOMAIN runs :
                        /\ runs[i].push = n /\ runs[i].target = t
                        /\ \/ i \in queue
                           \/ work[t].run = i
                           \/ runs[i].status = "succeeded" /\ runs[i].got >= n
                           \/ runs[i].status \in {"failed", "removed"}
      BY DEF AnsweredMovesOn
  <2>1. todo[n] = {} /\ hook[n] = {} /\ n # 0
      BY HoldsParts, Constants DEF HandlerInv, HandlerFor, Push
  <2>2. Carried(n, t)
      BY <2>1, RowsAre DEF CarriedInv
  <2>3. PICK i \in DOMAIN runs : /\ runs[i].push = n /\ runs[i].target = t
                                 /\ i \in unsent \/ i \in queue \/ runs[i].status # "pending"
      BY <2>2 DEF Carried
  <2>4. i \notin unsent
      BY <2>1, <2>3, RowsAre DEF UnsentFits
  <2>5. RowFits(i) /\ runs[i].status \in {"pending", "running", "succeeded", "failed", "removed"}
      BY <2>3, HoldsParts, RowsAre DEF Row
  <2>6. CASE runs[i].status = "succeeded"
      BY <2>1, <2>3, <2>5, <2>6 DEF RowFits
  <2>7. CASE runs[i].status = "running"
      BY <2>3, <2>5, <2>7 DEF RowFits
  <2> QED BY <2>3, <2>4, <2>5, <2>6, <2>7
<1> QED BY <1>1, <1>2, <1>3, PTL DEF Spec
=============================================================================
