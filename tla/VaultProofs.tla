---------------------------- MODULE VaultProofs ----------------------------
(***************************************************************************)
(* What Vault guarantees for any names, requests and disturbances: refs on *)
(* rows resolve, what was replaced stays replaced, jobs get what is current*)
(* and the master key can be rotated at rest.                              *)
(***************************************************************************)
EXTENDS Vault, TLAPS

-----------------------------------------------------------------------------
(* Type correctness. *)

\* Partial functions are closed under what the model does with them.
LEMMA PartialIntro ==
    ASSUME NEW S, NEW T, NEW D \in SUBSET S, NEW f \in [D -> T]
    PROVE  f \in Partial(S, T)
  BY DEF Partial

LEMMA PartialElim ==
    ASSUME NEW S, NEW T, NEW f \in Partial(S, T)
    PROVE  DOMAIN f \subseteq S /\ f \in [DOMAIN f -> T]
  BY DEF Partial

LEMMA AssignedTyped ==
    ASSUME NEW S, NEW T, NEW f \in Partial(S, T), NEW n \in S, NEW x \in T
    PROVE  Assigned(f, n, x) \in Partial(S, T)
  <1>1. DOMAIN f \subseteq S /\ \A m \in DOMAIN f : f[m] \in T
    BY PartialElim
  <1>2. Assigned(f, n, x) \in [DOMAIN f \cup {n} -> T]
    BY <1>1 DEF Assigned
  <1> QED
    BY <1>1, <1>2, PartialIntro

LEMMA NoJobTyped == NoJob \in [pc : {"idle", "resolve", "done", "failed"}, rows : Partial(Slot, Ref),
               todo : SUBSET Slot, secrets : Partial(Name, Chosen), key : Key, stale : SUBSET Request]
  <1>1. [s \in {} |-> NoRow] \in Partial(Slot, Ref)
    <2>1. [s \in {} |-> NoRow] \in [{} -> Ref]
      OBVIOUS
    <2> QED
      BY <2>1, PartialIntro
  <1>2. [n \in {} |-> NoRow] \in Partial(Name, Chosen)
    <2>1. [n \in {} |-> NoRow] \in [{} -> Chosen]
      OBVIOUS
    <2> QED
      BY <2>1, PartialIntro
  <1> QED
    BY <1>1, <1>2 DEF NoJob, Key

LEMMA NoMasterTyped == NoMaster \in [pc : {"idle", "rewrap", "swap"}, rows : Partial(Request, Sealed)]
  <1>1. [i \in {} |-> Absent] \in [{} -> Sealed]
    OBVIOUS
  <1>2. [i \in {} |-> Absent] \in Partial(Request, Sealed)
    BY <1>1, PartialIntro
  <1> QED
    BY <1>2 DEF NoMaster

LEMMA TypeInit == Init => TypeOK
  BY VaultAssumption, NoJobTyped, NoMasterTyped
  DEF Init, TypeOK, Ref, Key, PC, NoJob

LEMMA RequestTyped ==
    ASSUME TypeOK, NEW q \in Request, RequestStep(q)
    PROVE  TypeOK'
  <1> USE VaultAssumption DEF TypeOK, Goto, RestIdle
  <1>1. ASSUME NEW op \in Op, NEW s \in Slot, Call(q, op, s) PROVE TypeOK'
    BY <1>1 DEF Call, Demand, PC
  <1>2. CASE Find(q)
    BY <1>2 DEF Find, Demand, PC, Ref
  <1>3. CASE PutSecret(q)
    BY <1>3 DEF PutSecret, Seal, Sealed, Demand, PC
  <1>4. CASE Upsert(q)
    BY <1>4 DEF Upsert, Demand, PC, Ref
  <1>5. CASE Purge(q)
    BY <1>5 DEF Purge, PC
  <1>6. CASE Load(q)
    BY <1>6 DEF Load, PC
  <1>7. CASE Update(q)
    BY <1>7 DEF Update, Seal, Sealed, Demand, PC
  <1>8. CASE Remove(q)
    BY <1>8 DEF Remove, PC
  <1>9. CASE Dies(q)
    BY <1>9 DEF Dies, Strike, PC, Under_way, Idle, Disturbance
  <1> QED
    BY <1>1, <1>2, <1>3, <1>4, <1>5, <1>6, <1>7, <1>8, <1>9 DEF RequestStep

LEMMA JobTyped ==
    ASSUME TypeOK, JobStep
    PROVE  TypeOK'
  <1> USE DEF TypeOK, JobIdle
  <1>1. CASE ReadRows
    <2> DEFINE rows == {s \in Slot : row[s] # NoRow}
    <2>1. [s \in rows |-> row[s]] \in Partial(Slot, Ref)
      <3>1. [s \in rows |-> row[s]] \in [rows -> Ref]
        OBVIOUS
      <3> QED
        BY <3>1, PartialIntro
    <2>2. [n \in {} |-> NoRow] \in Partial(Name, Chosen)
      BY NoJobTyped DEF NoJob
    <2>3. Superseded \subseteq Request
      BY DEF Superseded
    <2> QED
      BY <1>1, <2>1, <2>2, <2>3 DEF ReadRows
  <1>2. ASSUME NEW s \in Slot, Resolve(s) PROVE TypeOK'
    <2> DEFINE r == job.rows[s]
               x == [slot |-> s, value |-> IF r \in Request THEN entry[r].value ELSE Foreign]
    <2>1. s[1] \in Name
      BY DEF Slot
    <2>2. ASSUME r \in Request => Opens(r, job.key)
          PROVE  Assigned(job.secrets, s[1], x) \in Partial(Name, Chosen)
      <3>1. r \in Request => entry[r] \in Sealed
        BY <2>2 DEF Opens
      <3>2. x \in Chosen
        BY <3>1 DEF Chosen, Sealed
      <3> QED
        BY <2>1, <3>2, AssignedTyped
    <2>3. CASE r \in Request /\ ~Opens(r, job.key)
      BY <1>2, <2>3 DEF Resolve
    <2>4. CASE r \in Request => Opens(r, job.key)
      <3> DEFINE a == Assigned(job.secrets, s[1], x)
      <3>1. a \in Partial(Name, Chosen)
        BY <2>2, <2>4
      <3>2. job' = [job EXCEPT !.todo = @ \ {s}, !.secrets = a] /\ JobIdle
        BY <1>2, <2>4 DEF Resolve
      <3> HIDE DEF a
      <3> QED
        BY <3>1, <3>2
    <2> QED
      BY <2>3, <2>4
  <1>3. CASE Assembled
    BY <1>3 DEF Assembled
  <1>4. CASE NextJob
    BY <1>4, NoJobTyped DEF NextJob, NoJob
  <1> QED
    BY <1>1, <1>2, <1>3, <1>4 DEF JobStep

LEMMA MasterTyped ==
    ASSUME TypeOK, MasterStep
    PROVE  TypeOK'
  <1> USE VaultAssumption DEF TypeOK, MasterIdle
  <1>1. CASE StartRewrap
    <2> DEFINE present == {i \in Request : entry[i] # Absent}
    <2>1. [i \in present |-> entry[i]] \in [present -> Sealed]
      OBVIOUS
    <2>2. [i \in present |-> entry[i]] \in Partial(Request, Sealed)
      BY <2>1, PartialIntro
    <2> QED
      BY <1>1, <2>2 DEF StartRewrap, Strike, Disturbance
  <1>2. ASSUME NEW i \in Request, Rewrap(i) PROVE TypeOK'
    <2>1. /\ DOMAIN master.rows \subseteq Request
          /\ \A j \in DOMAIN master.rows : master.rows[j] \in Sealed
      BY PartialElim
    <2> DEFINE D == DOMAIN master.rows \ {i}
    <2>2. [j \in D |-> master.rows[j]] \in [D -> Sealed]
      BY <2>1
    <2>3. [j \in D |-> master.rows[j]] \in Partial(Request, Sealed)
      BY <2>1, <2>2, PartialIntro
    <2>4. master' \in [pc : {"idle", "rewrap", "swap"}, rows : Partial(Request, Sealed)]
      BY <1>2, <2>3 DEF Rewrap
    <2>5. entry' \in [Request -> Sealed \cup {Absent}]
      <3> DEFINE wrapped == [entry[i] EXCEPT !.dek = master.rows[i].dek, !.kek = "new"]
      <3>1. entry[i] # Absent => wrapped \in Sealed
        <4>1. master.rows[i] \in Sealed
          BY <1>2, <2>1 DEF Rewrap
        <4>2. entry[i] # Absent => entry[i] \in Sealed
          OBVIOUS
        <4> QED
          BY <4>1, <4>2 DEF Sealed, Key
      <3>2. entry' = [entry EXCEPT ![i] = IF @ = Absent THEN @ ELSE wrapped]
        BY <1>2 DEF Rewrap
      <3> HIDE DEF wrapped
      <3> QED
        BY <3>1, <3>2
    <2> QED
      BY <1>2, <2>4, <2>5 DEF Rewrap
  <1>3. CASE RewrapFails
    BY <1>3, NoMasterTyped DEF RewrapFails, Strike, Disturbance
  <1>4. CASE Rewrapped
    BY <1>4 DEF Rewrapped
  <1>5. CASE Swap
    BY <1>5, NoMasterTyped DEF Swap, Key
  <1> QED
    BY <1>1, <1>2, <1>3, <1>4, <1>5 DEF MasterStep

LEMMA TypeStep == TypeOK /\ [Next]_vars => TypeOK'
  <1> SUFFICES ASSUME TypeOK, [Next]_vars PROVE TypeOK'
    OBVIOUS
  <1>1. ASSUME NEW s \in Slot, Registry(s) PROVE TypeOK'
    BY <1>1, VaultAssumption DEF TypeOK, Registry, Strike, Ref, Disturbance
  <1>2. CASE UNCHANGED vars
    BY <1>2 DEF TypeOK, vars
  <1> QED
    BY <1>1, <1>2, RequestTyped, JobTyped, MasterTyped DEF Next

(* In every reachable state the tables, the requests, the job under        *)
(* assembly and the re-wrapping are well typed; in particular the vault is *)
(* only ever asked for refs that are its own.                              *)
THEOREM VaultTypeCorrect == Spec => []TypeOK
  <1>1. Init => TypeOK
    BY TypeInit
  <1>2. TypeOK /\ [Next]_vars => TypeOK'
    BY TypeStep
  <1> QED
    BY <1>1, <1>2, PTL DEF Spec

-----------------------------------------------------------------------------
(* A row's vault ref resolves.  What a row or a request refers to is the   *)
(* entry of a set on the same slot that has got past its upsert; so nobody *)
(* deletes an entry before a row refers to it, and a set deletes what it   *)
(* has replaced when no row refers to that any more.                       *)

Referred == {"purge", "acked", "dead"}

RowsAreSet ==
    \A s \in Slot : row[s] \in Request =>
        pc[row[s]] \in Referred /\ req[row[s]].slot = s

RefsAreSet ==
    \A q \in Request : ref[q] \in Request =>
        pc[q] # "new" /\ pc[ref[q]] \in Referred /\ req[ref[q]].slot = req[q].slot

FreshStays == \A q \in Request : pc[q] = "upsert" => entry[q] # Absent

PurgedIsReplaced ==
    \A q \in Request : pc[q] = "purge" => \A s \in Slot : row[s] # ref[q]

OnlyDeletesRemove == \A q \in Request : pc[q] = "remove" => req[q].op = "delete"

RefsInv ==
    /\ RowsAreSet /\ RefsAreSet /\ FreshStays /\ PurgedIsReplaced /\ OnlyDeletesRemove
    /\ RefsResolve

\* Steps that leave rows, refs and requests alone and delete no entry.
LEMMA RefsFrame ==
    ASSUME TypeOK, RefsInv, UNCHANGED <<row, req, ref, pc>>,
           \A i \in Request : entry[i] # Absent => entry'[i] # Absent
    PROVE  RefsInv'
  BY DEF RefsInv, TypeOK, RowsAreSet, RefsAreSet, FreshStays, PurgedIsReplaced, OnlyDeletesRemove,
         RefsResolve, Referred

\* Steps of a request that leave rows and refs alone and delete no entry.
LEMMA RefsMoves ==
    ASSUME TypeOK, RefsInv, UNCHANGED <<row, req, ref>>, NEW q \in Request, NEW l,
           pc[q] \in Under_way, Goto(q, l), l \notin {"new", "purge", "remove"},
           pc[q] \in Referred => l \in Referred,
           \A i \in Request : entry[i] # Absent => entry'[i] # Absent,
           l = "upsert" => entry'[q] # Absent
    PROVE  RefsInv'
  <1> USE DEF RefsInv, TypeOK, Goto
  <1>1. RowsAreSet' /\ RefsAreSet'
    BY DEF RowsAreSet, RefsAreSet, Referred
  <1>2. FreshStays' /\ PurgedIsReplaced' /\ OnlyDeletesRemove'
    BY DEF FreshStays, PurgedIsReplaced, OnlyDeletesRemove
  <1>3. RefsResolve'
    BY DEF RefsResolve, Under_way, Idle
  <1> QED
    BY <1>1, <1>2, <1>3

LEMMA RefsCall ==
    ASSUME TypeOK, RefsInv, NEW q \in Request, NEW op \in Op, NEW s \in Slot, Call(q, op, s)
    PROVE  RefsInv'
  <1> USE DEF RefsInv, TypeOK, Goto, Call
  <1>1. RowsAreSet'
    BY DEF RowsAreSet, Referred
  <1>2. RefsAreSet'
    BY DEF RefsAreSet, Referred
  <1>3. FreshStays' /\ PurgedIsReplaced' /\ OnlyDeletesRemove'
    BY DEF FreshStays, PurgedIsReplaced, OnlyDeletesRemove
  <1>4. RefsResolve'
    BY DEF RefsResolve
  <1> QED
    BY <1>1, <1>2, <1>3, <1>4

LEMMA RefsFind ==
    ASSUME TypeOK, RefsInv, NEW q \in Request, Find(q)
    PROVE  RefsInv'
  <1> USE DEF RefsInv, TypeOK, Goto, Find
  <1>1. RowsAreSet'
    BY DEF RowsAreSet, Referred
  <1>2. RefsAreSet'
    BY DEF RefsAreSet, RowsAreSet, Referred, Demand
  <1>3. FreshStays' /\ PurgedIsReplaced' /\ OnlyDeletesRemove'
    BY DEF FreshStays, PurgedIsReplaced, OnlyDeletesRemove, Demand, Op
  <1>4. RefsResolve'
    BY DEF RefsResolve
  <1> QED
    BY <1>1, <1>2, <1>3, <1>4

LEMMA RefsUpsert ==
    ASSUME TypeOK, RefsInv, NEW q \in Request, Upsert(q)
    PROVE  RefsInv'
  <1> USE DEF RefsInv, TypeOK, Goto, Upsert
  <1>1. RowsAreSet'
    BY DEF RowsAreSet, Referred, Demand
  <1>2. RefsAreSet'
    BY DEF RefsAreSet, Referred
  <1>3. FreshStays' /\ OnlyDeletesRemove'
    BY DEF FreshStays, OnlyDeletesRemove
  <1>4. PurgedIsReplaced'
    <2> SUFFICES ASSUME NEW p \in Request, pc'[p] = "purge", NEW s \in Slot
                 PROVE  row'[s] # ref'[p]
      BY DEF PurgedIsReplaced
    <2>1. ref[p] # q
      BY DEF RefsAreSet, Referred
    <2>2. CASE p = q
      BY <2>1, <2>2 DEF RowsAreSet, RefsAreSet, Demand
    <2>3. CASE p # q
      BY <2>1, <2>3 DEF PurgedIsReplaced, Demand
    <2> QED
      BY <2>2, <2>3
  <1>5. RefsResolve'
    BY DEF RefsResolve, FreshStays, Demand
  <1> QED
    BY <1>1, <1>2, <1>3, <1>4, <1>5

LEMMA RefsPurge ==
    ASSUME TypeOK, RefsInv, NEW q \in Request, Purge(q)
    PROVE  RefsInv'
  <1> USE DEF RefsInv, TypeOK, Goto, Purge
  <1>1. RowsAreSet' /\ RefsAreSet'
    BY DEF RowsAreSet, RefsAreSet, Referred
  <1>2. FreshStays'
    BY DEF FreshStays, RefsAreSet, Referred
  <1>3. PurgedIsReplaced' /\ OnlyDeletesRemove'
    BY DEF PurgedIsReplaced, OnlyDeletesRemove
  <1>4. RefsResolve'
    BY DEF RefsResolve, PurgedIsReplaced
  <1> QED
    BY <1>1, <1>2, <1>3, <1>4

LEMMA RefsRemove ==
    ASSUME TypeOK, RefsInv, NEW q \in Request, Remove(q)
    PROVE  RefsInv'
  <1> USE DEF RefsInv, TypeOK, Goto, Remove
  <1>1. RowsAreSet' /\ RefsAreSet'
    BY DEF RowsAreSet, RefsAreSet, Referred
  <1>2. FreshStays'
    BY DEF FreshStays, RefsAreSet, Referred
  <1>3. PurgedIsReplaced' /\ OnlyDeletesRemove'
    BY DEF PurgedIsReplaced, OnlyDeletesRemove
  <1>4. RefsResolve'
    BY DEF RefsResolve, OnlyDeletesRemove
  <1> QED
    BY <1>1, <1>2, <1>3, <1>4

LEMMA RefsRequest ==
    ASSUME TypeOK, RefsInv, NEW q \in Request, RequestStep(q)
    PROVE  RefsInv'
  <1>1. CASE PutSecret(q)
    <2>1. entry'[q] # Absent /\ \A i \in Request : entry[i] # Absent => entry'[i] # Absent
      BY <1>1, VaultAssumption DEF PutSecret, TypeOK, Seal, Sealed, Demand
    <2> QED
      BY <1>1, <2>1, RefsMoves DEF PutSecret, Under_way, Idle, PC, Referred
  <1>2. CASE Load(q)
    BY <1>2, RefsMoves DEF Load, Under_way, Idle, PC, Referred, RestIdle
  <1>3. CASE Update(q)
    <2>1. \A i \in Request : entry[i] # Absent => entry'[i] # Absent
      BY <1>3, VaultAssumption DEF Update, TypeOK, Seal, Sealed, Demand
    <2> QED
      BY <1>3, <2>1, RefsMoves DEF Update, Under_way, Idle, PC, Referred
  <1>4. CASE Dies(q)
    BY <1>4, RefsMoves DEF Dies, Referred
  <1> QED
    BY <1>1, <1>2, <1>3, <1>4, RefsCall, RefsFind, RefsUpsert, RefsPurge, RefsRemove DEF RequestStep

LEMMA RefsRegistry ==
    ASSUME TypeOK, RefsInv, NEW s \in Slot, Registry(s)
    PROVE  RefsInv'
  <1>0. \A t \in Slot : row'[t] = row[t] \/ row'[t] \notin Request
    BY VaultAssumption DEF Registry, TypeOK
  <1> USE <1>0 DEF RefsInv, TypeOK, Registry
  <1>1. RowsAreSet' /\ RefsAreSet' /\ RefsResolve'
    BY DEF RowsAreSet, RefsAreSet, RefsResolve
  <1>2. FreshStays' /\ PurgedIsReplaced' /\ OnlyDeletesRemove'
    BY DEF FreshStays, PurgedIsReplaced, OnlyDeletesRemove
  <1> QED
    BY <1>1, <1>2

LEMMA MasterKeepsValues ==
    ASSUME TypeOK, MasterStep, NEW j \in Request
    PROVE  /\ entry'[j] # Absent <=> entry[j] # Absent
           /\ entry[j] # Absent => entry'[j].value = entry[j].value
  <1>1. ASSUME NEW i \in Request, Rewrap(i)
        PROVE  /\ entry'[j] # Absent <=> entry[j] # Absent
               /\ entry[j] # Absent => entry'[j].value = entry[j].value
    <2> DEFINE wrapped == [entry[i] EXCEPT !.dek = master.rows[i].dek, !.kek = "new"]
    <2>1. master.rows[i] \in Sealed
      BY <1>1, PartialElim DEF Rewrap, TypeOK
    <2>2. entry[i] # Absent => wrapped \in Sealed /\ wrapped.value = entry[i].value
      BY <2>1 DEF TypeOK, Sealed, Key
    <2>3. entry' = [entry EXCEPT ![i] = IF @ = Absent THEN @ ELSE wrapped]
      BY <1>1 DEF Rewrap
    <2> HIDE DEF wrapped
    <2> QED
      BY <2>2, <2>3, VaultAssumption DEF TypeOK
  <1> QED
    BY <1>1 DEF MasterStep, StartRewrap, RewrapFails, Rewrapped, Swap

LEMMA RefsMaster ==
    ASSUME TypeOK, RefsInv, MasterStep
    PROVE  RefsInv'
  <1>1. UNCHANGED <<row, req, ref, pc>>
    BY DEF MasterStep, MasterIdle, StartRewrap, Rewrap, RewrapFails, Rewrapped, Swap
  <1> QED
    BY <1>1, MasterKeepsValues, RefsFrame

LEMMA RefsStep == TypeOK /\ RefsInv /\ [Next]_vars => RefsInv'
  <1> SUFFICES ASSUME TypeOK, RefsInv, [Next]_vars PROVE RefsInv'
    OBVIOUS
  <1>1. CASE JobStep
    BY <1>1, RefsFrame DEF JobStep, JobIdle, ReadRows, Resolve, Assembled, NextJob
  <1>2. CASE UNCHANGED vars
    BY <1>2, RefsFrame DEF vars
  <1> QED
    BY <1>1, <1>2, RefsRequest, RefsRegistry, RefsMaster DEF Next

LEMMA RefsInit == Init => RefsInv
  BY VaultAssumption
  DEF Init, RefsInv, RowsAreSet, RefsAreSet, FreshStays, PurgedIsReplaced, OnlyDeletesRemove,
      RefsResolve

(* For any number of overlapping sets, rotations and deletions, any of     *)
(* which may die at any await, and whatever the registry and a rotation of *)
(* the master key do meanwhile: a row's vault ref resolves to an entry     *)
(* unless the deletion of that entry was asked for.                        *)
THEOREM RefsAlwaysResolve == Spec => []RefsResolve
  <1>1. Init => TypeOK /\ RefsInv
    BY TypeInit, RefsInit
  <1>2. (TypeOK /\ RefsInv) /\ [Next]_vars => (TypeOK /\ RefsInv)'
    BY TypeStep, RefsStep
  <1>3. TypeOK /\ RefsInv => RefsResolve
    BY DEF RefsInv
  <1> QED
    BY <1>1, <1>2, <1>3, PTL DEF Spec

-----------------------------------------------------------------------------
(* The master key, rotated as a maintenance task.                          *)
(*                                                                         *)
(* While it is re-wrapped nobody writes: the rows read at the start are    *)
(* the rows, and each of them is still to come or under the new key.  A    *)
(* request seals under the binding's key for as long as it is under way.   *)

DataKeyFits == \A i \in Request : entry[i] # Absent => entry[i].dek = entry[i].value

RequestsUseBinding == \A q \in Request : pc[q] \in Under_way => req[q].key = key

QuietWhileRewrapped ==
    master.pc # "idle" => key = "old" /\ \A q \in Request : pc[q] \in Idle

RewrapCovers ==
    master.pc = "rewrap" => \A i \in Request : entry[i] # Absent =>
        IF i \in DOMAIN master.rows THEN master.rows[i].dek = entry[i].dek
                                    ELSE entry[i].kek = "new"

RewrapComplete ==
    master.pc = "swap" \/ key = "new" =>
        \A i \in Request : entry[i] # Absent => entry[i].kek = "new"

KeyInv ==
    DataKeyFits /\ RequestsUseBinding /\ QuietWhileRewrapped /\ RewrapCovers /\ RewrapComplete

LEMMA KeyInit == Init => KeyInv
  BY DEF Init, KeyInv, DataKeyFits, RequestsUseBinding, QuietWhileRewrapped, RewrapCovers,
         RewrapComplete, NoMaster, Under_way, Idle

\* Steps of a request: each entry stays, goes, or is sealed by the request.
LEMMA KeyRequest ==
    ASSUME Maintenance, TypeOK, TypeOK', KeyInv, NEW q \in Request, RequestStep(q)
    PROVE  KeyInv'
  <1>1. UNCHANGED <<key, master>>
    BY DEF RequestStep, Call, Find, PutSecret, Upsert, Purge, Load, Update, Remove, Dies, RestIdle
  <1>2. master.pc = "idle"
    BY DEF RequestStep, Call, Find, PutSecret, Upsert, Purge, Load, Update, Remove, Dies,
           KeyInv, QuietWhileRewrapped, Under_way, Idle
  <1>3. RequestsUseBinding'
    <2>1. ASSUME NEW op \in Op, NEW s \in Slot, Call(q, op, s) PROVE RequestsUseBinding'
      BY <2>1 DEF Call, Goto, RestIdle, KeyInv, RequestsUseBinding, TypeOK
    <2>2. CASE req' = req /\ pc[q] \in Under_way /\ \E l \in PC : Goto(q, l)
      BY <1>1, <2>2 DEF KeyInv, RequestsUseBinding, Goto, TypeOK
    <2>3. CASE ~ \E op \in Op, s \in Slot : Call(q, op, s)
      <3>1. req' = req /\ pc[q] \in Under_way
        BY <2>3 DEF RequestStep, Find, PutSecret, Upsert, Purge, Load, Update, Remove, Dies,
                    Under_way, Idle, PC
      <3>2. \E l \in PC : Goto(q, l)
        BY <2>3 DEF RequestStep, Find, PutSecret, Upsert, Purge, Load, Update, Remove, Dies, PC
      <3> QED
        BY <2>2, <3>1, <3>2
    <2> QED
      BY <2>1, <2>3
  <1>4. \A i \in Request : entry'[i] # Absent =>
           entry'[i] = entry[i] \/ (entry'[i] = Seal(q) /\ req[q].key = key)
    <2>1. CASE entry' = entry
      BY <2>1
    <2>2. CASE PutSecret(q) \/ Update(q)
      BY <2>2 DEF PutSecret, Update, TypeOK, KeyInv, RequestsUseBinding, Under_way, Idle, PC
    <2>3. CASE Purge(q) \/ Remove(q)
      BY <2>3 DEF Purge, Remove, TypeOK
    <2> QED
      BY <2>1, <2>2, <2>3 DEF RequestStep, Call, Find, Upsert, Load, Dies
  <1>5. DataKeyFits' /\ RewrapComplete'
    BY <1>1, <1>2, <1>4 DEF KeyInv, DataKeyFits, RewrapComplete, Seal
  <1>6. QuietWhileRewrapped' /\ RewrapCovers'
    BY <1>1, <1>2 DEF QuietWhileRewrapped, RewrapCovers
  <1> QED
    BY <1>3, <1>5, <1>6 DEF KeyInv

LEMMA KeyMaster ==
    ASSUME Maintenance, TypeOK, TypeOK', KeyInv, MasterStep
    PROVE  KeyInv'
  <1> USE DEF KeyInv, MasterIdle
  <1>1. CASE StartRewrap
    <2> DEFINE present == {i \in Request : entry[i] # Absent}
    <2>1. master' = [pc |-> "rewrap", rows |-> [i \in present |-> entry[i]]]
      BY <1>1 DEF StartRewrap
    <2>2. RewrapCovers'
      BY <1>1, <2>1 DEF StartRewrap, RewrapCovers
    <2> QED
      BY <1>1, <2>1, <2>2
      DEF StartRewrap, DataKeyFits, RequestsUseBinding, QuietWhileRewrapped, RewrapComplete
  <1>2. ASSUME NEW i \in Request, Rewrap(i) PROVE KeyInv'
    <2>1. /\ \A j \in Request \ {i} : entry'[j] = entry[j]
          /\ entry[i] = Absent => entry'[i] = Absent
          /\ entry[i] # Absent => entry'[i] = [entry[i] EXCEPT !.dek = master.rows[i].dek, !.kek = "new"]
      BY <1>2 DEF Rewrap, TypeOK
    <2>2. entry[i] # Absent => entry'[i].dek = entry[i].dek /\ entry'[i].value = entry[i].value
                               /\ entry'[i].kek = "new"
      BY <1>2, <2>1 DEF Rewrap, RewrapCovers, TypeOK, Sealed
    <2>3. /\ master'.pc = "rewrap"
          /\ DOMAIN master'.rows = DOMAIN master.rows \ {i}
          /\ \A j \in DOMAIN master'.rows : master'.rows[j] = master.rows[j]
      BY <1>2 DEF Rewrap, TypeOK
    <2>4. DataKeyFits'
      BY <2>1, <2>2 DEF DataKeyFits
    <2>5. RewrapCovers'
      BY <1>2, <2>1, <2>2, <2>3 DEF RewrapCovers, Rewrap
    <2>6. RequestsUseBinding' /\ QuietWhileRewrapped' /\ RewrapComplete'
      BY <1>2, <2>1, <2>2, <2>3
      DEF Rewrap, RequestsUseBinding, QuietWhileRewrapped, RewrapComplete
    <2> QED
      BY <2>4, <2>5, <2>6
  <1>3. CASE RewrapFails
    BY <1>3 DEF RewrapFails, NoMaster, DataKeyFits, RequestsUseBinding, QuietWhileRewrapped,
                RewrapCovers, RewrapComplete
  <1>4. CASE Rewrapped
    BY <1>4 DEF Rewrapped, TypeOK, DataKeyFits, RequestsUseBinding, QuietWhileRewrapped,
                RewrapCovers, RewrapComplete
  <1>5. CASE Swap
    BY <1>5 DEF Swap, NoMaster, DataKeyFits, RequestsUseBinding, QuietWhileRewrapped,
                RewrapCovers, RewrapComplete, Under_way
  <1> QED
    BY <1>1, <1>2, <1>3, <1>4, <1>5 DEF MasterStep

LEMMA KeyStep ==
    ASSUME Maintenance, TypeOK, TypeOK', KeyInv, [Next]_vars
    PROVE  KeyInv'
  <1>1. CASE UNCHANGED <<entry, key, pc, req, master>>
    BY <1>1 DEF KeyInv, DataKeyFits, RequestsUseBinding, QuietWhileRewrapped, RewrapCovers,
                RewrapComplete
  <1>2. CASE JobStep
    BY <1>1, <1>2 DEF JobStep, JobIdle, ReadRows, Resolve, Assembled, NextJob
  <1>3. ASSUME NEW s \in Slot, Registry(s) PROVE KeyInv'
    BY <1>1, <1>3 DEF Registry
  <1> QED
    BY <1>1, <1>2, <1>3, KeyRequest, KeyMaster DEF Next, vars

LEMMA KeyInvariant ==
    ASSUME Maintenance
    PROVE  Spec => [](TypeOK /\ KeyInv)
  <1>1. Init => TypeOK /\ KeyInv
    BY TypeInit, KeyInit
  <1>2. (TypeOK /\ KeyInv) /\ [Next]_vars => (TypeOK /\ KeyInv)'
    BY TypeStep, KeyStep
  <1> QED
    BY <1>1, <1>2, PTL DEF Spec

(* When nobody writes while it runs, reencryptAll may be broken off at any *)
(* row and begun again: no value is ever out of both keys' reach.          *)
THEOREM EntriesOpen ==
    ASSUME Maintenance
    PROVE  Spec => []EveryEntryOpens
  <1>1. TypeOK /\ KeyInv => EveryEntryOpens
    BY DEF TypeOK, KeyInv, DataKeyFits, EveryEntryOpens, Readable, Opens, Sealed
  <1> QED
    BY <1>1, KeyInvariant, PTL

(* Under the same condition, every value opens under the new key once the  *)
(* binding has been swapped to it.                                         *)
THEOREM SwapIsComplete ==
    ASSUME Maintenance
    PROVE  Spec => []SwapCompletes
  <1>1. TypeOK /\ KeyInv => SwapCompletes
    BY DEF KeyInv, DataKeyFits, RewrapComplete, SwapCompletes, Opens
  <1> QED
    BY <1>1, KeyInvariant, PTL

-----------------------------------------------------------------------------
(* A value never comes back.  Who was answered before a request came had    *)
(* done all its writing: the request finds the row that the latest of them  *)
(* left (or a later one), replaces it, re-seals its entry or deletes that,  *)
(* and nobody refers to a replaced entry again.                             *)

OpsFit == \A q \in Request :
    /\ pc[q] \in {"put", "upsert", "purge"} => req[q].op = "set"
    /\ pc[q] \in {"load", "update"} => req[q].op = "rotate"
    /\ pc[q] = "remove" => req[q].op = "delete"
    /\ pc[q] = "acked" /\ req[q].op # "set" => ref[q] \in Request

AckedStay == \A q \in Request : \A v \in acked[q] : pc[v] = "acked"

\* An entry holds the value of the set that made it or of an answered rotation.
WrittenBy == \A i \in Request : entry[i] # Absent =>
    \/ entry[i].value = i
    \/ ref[entry[i].value] = i /\ pc[entry[i].value] = "acked"

FreshIsOwn == \A q \in Request : pc[q] = "upsert" => entry[q] # Absent /\ entry[q].value = q

Found == {"put", "upsert", "purge", "load", "update", "remove", "acked"}

\* Once a request has found its row, only requests answered later change it.
RowsMoveOn == \A q \in Request : pc[q] \in Found =>
    \A v \in acked[q] : req[v].slot = req[q].slot =>
        LET i == row[req[q].slot] IN i \in Request /\ i # ref[q] => i \notin {v, ref[v]}

SetsReplace == \A q \in Request :
    pc[q] \in {"purge", "acked"} /\ req[q].op = "set" /\ ref[q] \in Request =>
        \A s \in Slot : row[s] # ref[q]

RotationsReseal == \A q \in Request :
    pc[q] = "acked" /\ req[q].op = "rotate" /\ entry[ref[q]] # Absent =>
        entry[ref[q]].value \notin acked[q]

DeletionsRemove == \A q \in Request :
    pc[q] = "acked" /\ req[q].op = "delete" => entry[ref[q]] = Absent

ValueInv ==
    /\ OpsFit /\ AckedStay /\ WrittenBy /\ FreshIsOwn /\ RowsMoveOn /\ SetsReplace
    /\ RotationsReseal /\ DeletionsRemove

\* What the rest of this argument needs of typing.
RequestTypes ==
    /\ row \in [Slot -> Ref] /\ entry \in [Request -> Sealed \cup {Absent}]
    /\ pc \in [Request -> PC] /\ req \in [Request -> Demand \cup {NoValue}]
    /\ ref \in [Request -> Ref] /\ acked \in [Request -> SUBSET Request]
    /\ \A q \in Request :
        /\ pc[q] # "new" => req[q] \in Demand
        /\ pc[q] \in {"purge", "load", "update", "remove"} => ref[q] \in Request

LEMMA RequestsTyped == TypeOK => RequestTypes
  BY DEF TypeOK, RequestTypes

\* Steps that leave rows, refs and requests alone and write no value.
LEMMA ValueFrame ==
    ASSUME RequestTypes, ValueInv, UNCHANGED <<row, pc, req, ref, acked>>,
           \A i \in Request :
              (entry'[i] # Absent <=> entry[i] # Absent)
              /\ (entry[i] # Absent => entry'[i].value = entry[i].value)
    PROVE  ValueInv'
  <1> USE DEF ValueInv, RequestTypes
  <1>1. OpsFit' /\ AckedStay'
    BY DEF OpsFit, AckedStay
  <1>2. WrittenBy' /\ FreshIsOwn'
    BY DEF WrittenBy, FreshIsOwn, Sealed
  <1>3. RowsMoveOn' /\ SetsReplace'
    BY DEF RowsMoveOn, SetsReplace
  <1>4. RotationsReseal' /\ DeletionsRemove'
    BY DEF RotationsReseal, DeletionsRemove, OpsFit
  <1> QED
    BY <1>1, <1>2, <1>3, <1>4

LEMMA ValueCall ==
    ASSUME RequestTypes, RefsInv, ValueInv, NEW q \in Request, NEW op \in Op, NEW s \in Slot,
           Call(q, op, s)
    PROVE  ValueInv'
  <1> USE DEF ValueInv, RequestTypes, Goto, Call
  <1>1. \A v \in Request : pc'[v] = "acked" <=> pc[v] = "acked"
    OBVIOUS
  <1>2. \A p \in Request : pc'[p] # "find" => p # q /\ pc'[p] = pc[p] /\ req'[p] = req[p] /\ acked'[p] = acked[p]
    OBVIOUS
  <1>3. \A p \in Request : \A v \in acked[p] : v # q
    BY DEF AckedStay
  <1>4. OpsFit'
    BY <1>2 DEF OpsFit
  <1>5. AckedStay'
    BY <1>1 DEF AckedStay
  <1>6. WrittenBy' /\ FreshIsOwn'
    BY <1>1, <1>2 DEF WrittenBy, FreshIsOwn, Sealed
  <1>7. RowsMoveOn'
    BY <1>2, <1>3 DEF RowsMoveOn, Found
  <1>8. SetsReplace' /\ RotationsReseal' /\ DeletionsRemove'
    BY <1>2 DEF SetsReplace, RotationsReseal, DeletionsRemove
  <1> QED
    BY <1>4, <1>5, <1>6, <1>7, <1>8

LEMMA ValueFind ==
    ASSUME RequestTypes, RefsInv, ValueInv, NEW q \in Request, Find(q)
    PROVE  ValueInv'
  <1> USE DEF ValueInv, RequestTypes, Goto, Find
  <1>1. \A p \in Request \ {q} : pc'[p] = pc[p] /\ ref'[p] = ref[p]
    OBVIOUS
  <1>2. /\ pc[q] = "find" /\ pc'[q] \in {"put", "refused", "load", "remove"}
        /\ ref'[q] = row[req[q].slot] /\ req[q] \in Demand
    OBVIOUS
  <1>3. \A p \in Request : \A v \in acked[p] : v # q
    BY DEF AckedStay
  <1>4. OpsFit'
    BY <1>1, <1>2 DEF OpsFit, Demand, Op
  <1>5. AckedStay'
    BY <1>1, <1>3 DEF AckedStay
  <1>6. WrittenBy' /\ FreshIsOwn'
    BY <1>1, <1>2 DEF WrittenBy, FreshIsOwn, Sealed
  <1>7. RowsMoveOn'
    BY <1>1, <1>2, <1>3 DEF RowsMoveOn, Found
  <1>8. SetsReplace' /\ RotationsReseal' /\ DeletionsRemove'
    BY <1>1, <1>2 DEF SetsReplace, RotationsReseal, DeletionsRemove
  <1> QED
    BY <1>4, <1>5, <1>6, <1>7, <1>8

\* A request whose step writes nothing and does not answer it.
LEMMA ValueMoves ==
    ASSUME RequestTypes, ValueInv, NEW q \in Request, NEW l \in PC, Goto(q, l),
           pc[q] \in Under_way,
           UNCHANGED <<row, entry, req, ref, acked>>,
           l \in {"refused", "dead"} \/ (pc[q] = "load" /\ l = "update")
    PROVE  ValueInv'
  <1> USE DEF ValueInv, RequestTypes, Goto
  <1>1. \A p \in Request \ {q} : pc'[p] = pc[p]
    OBVIOUS
  <1>2. pc'[q] = l /\ pc[q] # "acked"
    BY DEF Under_way, Idle
  <1>3. OpsFit' /\ AckedStay'
    BY <1>1, <1>2 DEF OpsFit, AckedStay
  <1>4. WrittenBy' /\ FreshIsOwn'
    BY <1>1, <1>2 DEF WrittenBy, FreshIsOwn, Sealed
  <1>5. RowsMoveOn'
    BY <1>1, <1>2 DEF RowsMoveOn, Found
  <1>6. SetsReplace' /\ RotationsReseal' /\ DeletionsRemove'
    BY <1>1, <1>2 DEF SetsReplace, RotationsReseal, DeletionsRemove
  <1> QED
    BY <1>3, <1>4, <1>5, <1>6

LEMMA ValuePut ==
    ASSUME RequestTypes, RefsInv, ValueInv, NEW q \in Request, PutSecret(q)
    PROVE  ValueInv'
  <1> USE DEF ValueInv, RequestTypes, Goto, PutSecret
  <1>1. /\ \A p \in Request \ {q} : pc'[p] = pc[p] /\ entry'[p] = entry[p]
        /\ pc[q] = "put" /\ pc'[q] = "upsert"
        /\ entry'[q] = Seal(q) /\ Seal(q).value = q /\ Seal(q) # Absent
    BY VaultAssumption DEF Seal, Sealed, Demand
  <1>2. \A p \in Request : ref[p] # q /\ \A v \in acked[p] : v # q
    BY <1>1 DEF AckedStay, RefsInv, RefsAreSet, Referred
  <1>3. OpsFit' /\ AckedStay'
    BY <1>1 DEF OpsFit, AckedStay
  <1>4. WrittenBy' /\ FreshIsOwn'
    BY <1>1 DEF WrittenBy, FreshIsOwn, Sealed
  <1>5. RowsMoveOn' /\ SetsReplace'
    BY <1>1 DEF RowsMoveOn, SetsReplace, Found
  <1>6. RotationsReseal' /\ DeletionsRemove'
    BY <1>1, <1>2 DEF RotationsReseal, DeletionsRemove, OpsFit
  <1> QED
    BY <1>3, <1>4, <1>5, <1>6

LEMMA ValueUpsert ==
    ASSUME RequestTypes, RefsInv, ValueInv, NEW q \in Request, Upsert(q)
    PROVE  ValueInv'
  <1> USE DEF ValueInv, RequestTypes, Goto, Upsert
  <1>1. /\ \A p \in Request \ {q} : pc'[p] = pc[p]
        /\ pc[q] = "upsert" /\ pc'[q] \in {"purge", "acked"} /\ req[q] \in Demand
        /\ req[q].slot \in Slot /\ req[q].op = "set"
        /\ pc'[q] = "purge" => ref[q] \in Request
        /\ \A s \in Slot : row'[s] = IF s = req[q].slot THEN q ELSE row[s]
    BY DEF Demand, OpsFit
  <1>2. \A p \in Request : ref[p] # q /\ \A v \in acked[p] : v # q
    BY <1>1 DEF AckedStay, RefsInv, RefsAreSet, Referred
  <1>3. OpsFit' /\ AckedStay'
    BY <1>1 DEF OpsFit, AckedStay
  <1>4. WrittenBy' /\ FreshIsOwn'
    BY <1>1 DEF WrittenBy, FreshIsOwn, Sealed
  <1>5. RowsMoveOn'
    <2> SUFFICES ASSUME NEW p \in Request, pc'[p] \in Found, NEW v \in acked[p],
                        req[v].slot = req[p].slot, row'[req[p].slot] \in Request,
                        row'[req[p].slot] # ref[p]
                 PROVE  row'[req[p].slot] \notin {v, ref[v]}
      BY DEF RowsMoveOn
    <2>1. pc[p] \in Found /\ req[p].slot \in Slot /\ v \in Request
      BY <1>1 DEF Found, Demand
    <2> QED
      BY <1>1, <1>2, <2>1 DEF RowsMoveOn
  <1>6. SetsReplace'
    <2> SUFFICES ASSUME NEW p \in Request, pc'[p] \in {"purge", "acked"}, req[p].op = "set",
                        ref[p] \in Request, NEW s \in Slot
                 PROVE  row'[s] # ref[p]
      BY DEF SetsReplace
    <2>1. CASE p = q
      BY <1>1, <1>2, <2>1 DEF RefsInv, RowsAreSet, RefsAreSet
    <2>2. CASE p # q
      BY <1>1, <1>2, <2>2 DEF SetsReplace
    <2> QED
      BY <2>1, <2>2
  <1>7. RotationsReseal' /\ DeletionsRemove'
    BY <1>1 DEF RotationsReseal, DeletionsRemove
  <1> QED
    BY <1>3, <1>4, <1>5, <1>6, <1>7

\* The last step of a request that removes the entry it refers to.
LEMMA ValueDrop ==
    ASSUME RequestTypes, RefsInv, ValueInv, NEW q \in Request, Purge(q) \/ Remove(q)
    PROVE  ValueInv'
  <1> USE DEF ValueInv, RequestTypes, Goto, Purge, Remove
  <1>1. /\ \A p \in Request \ {q} : pc'[p] = pc[p]
        /\ pc'[q] = "acked" /\ ref[q] \in Request
        /\ \/ pc[q] = "purge" /\ req[q].op = "set"
           \/ pc[q] = "remove" /\ req[q].op = "delete"
        /\ \A i \in Request : entry'[i] = IF i = ref[q] THEN Absent ELSE entry[i]
        /\ UNCHANGED <<row, req, ref, acked>>
    BY DEF OpsFit
  <1>2. \A p \in Request : pc[p] = "upsert" => ref[q] # p
    BY <1>1 DEF RefsInv, RefsAreSet, Referred
  <1>3. OpsFit' /\ AckedStay'
    BY <1>1 DEF OpsFit, AckedStay
  <1>4. WrittenBy' /\ FreshIsOwn'
    BY <1>1, <1>2 DEF WrittenBy, FreshIsOwn, Sealed
  <1>5. RowsMoveOn' /\ SetsReplace'
    BY <1>1 DEF RowsMoveOn, SetsReplace, Found
  <1>6. RotationsReseal' /\ DeletionsRemove'
    BY <1>1, <1>3 DEF RotationsReseal, DeletionsRemove, OpsFit
  <1> QED
    BY <1>3, <1>4, <1>5, <1>6

LEMMA ValueUpdate ==
    ASSUME RequestTypes, RefsInv, ValueInv, NEW q \in Request, Update(q)
    PROVE  ValueInv'
  <1> USE DEF ValueInv, RequestTypes, Goto, Update
  <1>1. /\ \A p \in Request \ {q} : pc'[p] = pc[p]
        /\ pc'[q] = "acked" /\ pc[q] = "update" /\ ref[q] \in Request /\ req[q].op = "rotate"
        /\ Seal(q).value = q /\ Seal(q) # Absent
        /\ \A i \in Request : entry'[i] = IF i = ref[q] /\ entry[i] # Absent THEN Seal(q) ELSE entry[i]
        /\ UNCHANGED <<row, req, ref, acked>>
    BY VaultAssumption DEF OpsFit, Seal, Sealed, Demand
  <1>2. \A p \in Request : pc[p] = "upsert" => ref[q] # p
    BY <1>1 DEF RefsInv, RefsAreSet, Referred
  <1>3. \A p \in Request : \A v \in acked[p] : v # q
    BY <1>1 DEF AckedStay
  <1>4. OpsFit' /\ AckedStay'
    BY <1>1 DEF OpsFit, AckedStay
  <1>5. WrittenBy' /\ FreshIsOwn'
    BY <1>1, <1>2 DEF WrittenBy, FreshIsOwn, Sealed
  <1>6. RowsMoveOn' /\ SetsReplace'
    BY <1>1 DEF RowsMoveOn, SetsReplace, Found
  <1>7. RotationsReseal' /\ DeletionsRemove'
    BY <1>1, <1>3, <1>4 DEF RotationsReseal, DeletionsRemove, OpsFit
  <1> QED
    BY <1>4, <1>5, <1>6, <1>7

LEMMA ValueRequest ==
    ASSUME RequestTypes, RefsInv, ValueInv, NEW q \in Request, RequestStep(q)
    PROVE  ValueInv'
  <1>1. CASE Load(q) \/ Dies(q)
    <2>1. /\ pc[q] \in Under_way /\ UNCHANGED <<row, entry, req, ref, acked>>
          /\ \E l \in PC : Goto(q, l) /\ (l \in {"refused", "dead"} \/ (pc[q] = "load" /\ l = "update"))
      BY <1>1 DEF Load, Dies, Under_way, Idle, PC
    <2> QED
      BY <2>1, ValueMoves
  <1> QED
    BY <1>1, ValueCall, ValueFind, ValuePut, ValueUpsert, ValueDrop, ValueUpdate DEF RequestStep

LEMMA ValueRegistry ==
    ASSUME RequestTypes, ValueInv, NEW s \in Slot, Registry(s)
    PROVE  ValueInv'
  <1>1. \A t \in Slot : row'[t] = row[t] \/ row'[t] \notin Request
    BY VaultAssumption DEF Registry, RequestTypes
  <1> USE <1>1 DEF ValueInv, RequestTypes, Registry
  <1>2. OpsFit' /\ AckedStay' /\ WrittenBy' /\ FreshIsOwn' /\ RotationsReseal' /\ DeletionsRemove'
    BY DEF OpsFit, AckedStay, WrittenBy, FreshIsOwn, RotationsReseal, DeletionsRemove
  <1>3. RowsMoveOn' /\ SetsReplace'
    BY DEF RowsMoveOn, SetsReplace, Found, Demand
  <1> QED
    BY <1>2, <1>3

LEMMA ValueMaster ==
    ASSUME TypeOK, ValueInv, MasterStep
    PROVE  ValueInv'
  <1>1. UNCHANGED <<row, pc, req, ref, acked>>
    BY DEF MasterStep, MasterIdle, StartRewrap, Rewrap, RewrapFails, Rewrapped, Swap
  <1> QED
    BY <1>1, MasterKeepsValues, RequestsTyped, ValueFrame

LEMMA ValueStep == TypeOK /\ RefsInv /\ ValueInv /\ [Next]_vars => ValueInv'
  <1> SUFFICES ASSUME TypeOK, RefsInv, ValueInv, [Next]_vars PROVE ValueInv'
    OBVIOUS
  <1>1. CASE UNCHANGED <<row, entry, pc, req, ref, acked>>
    BY <1>1, RequestsTyped, ValueFrame
  <1>2. CASE JobStep
    BY <1>1, <1>2 DEF JobStep, JobIdle, ReadRows, Resolve, Assembled, NextJob
  <1> QED
    BY <1>1, <1>2, RequestsTyped, ValueRequest, ValueRegistry, ValueMaster DEF Next, vars

LEMMA ValueInit == Init => ValueInv
  BY DEF Init, ValueInv, OpsFit, AckedStay, WrittenBy, FreshIsOwn, RowsMoveOn, SetsReplace,
         RotationsReseal, DeletionsRemove, Found

\* What a row's entry holds has not been superseded, whether it opens or not.
LEMMA CurrentValue ==
    ASSUME RequestTypes, RefsInv, ValueInv, NEW s \in Slot,
           row[s] \in Request, entry[row[s]] # Absent
    PROVE  entry[row[s]].value \notin Superseded
  <1> DEFINE v == entry[row[s]].value
  <1> SUFFICES ASSUME NEW q \in Request, pc[q] = "acked", v \in acked[q], req[v].slot = req[q].slot
               PROVE  FALSE
    BY DEF Superseded
  <1>1. v \in Request /\ req[q] \in Demand
    BY DEF RequestTypes, Sealed
  <1>2. (v = row[s] \/ ref[v] = row[s]) /\ req[v].slot = s
    BY <1>1 DEF ValueInv, WrittenBy, RefsInv, RowsAreSet, RefsAreSet
  <1>3. row[s] = ref[q]
    BY <1>1, <1>2 DEF ValueInv, RowsMoveOn, Found
  <1>4. CASE req[q].op = "set"
    BY <1>3, <1>4 DEF ValueInv, SetsReplace
  <1>5. CASE req[q].op = "rotate"
    BY <1>3, <1>5 DEF ValueInv, RotationsReseal
  <1>6. CASE req[q].op = "delete"
    BY <1>3, <1>6 DEF ValueInv, DeletionsRemove
  <1> QED
    BY <1>1, <1>4, <1>5, <1>6 DEF Demand, Op

LEMMA ValueInvariant == Spec => [](TypeOK /\ RefsInv /\ ValueInv)
  <1>1. Init => TypeOK /\ RefsInv /\ ValueInv
    BY TypeInit, RefsInit, ValueInit
  <1>2. (TypeOK /\ RefsInv /\ ValueInv) /\ [Next]_vars => (TypeOK /\ RefsInv /\ ValueInv)'
    BY TypeStep, RefsStep, ValueStep
  <1> QED
    BY <1>1, <1>2, PTL DEF Spec

(* However sets, rotations and deletions of one slot overlap, die, or meet *)
(* the registry and a rotation of the master key: a slot never resolves to *)
(* what had been answered before a later request on it came and was        *)
(* answered in its turn.                                                   *)
THEOREM ReplacedStaysReplaced == Spec => []NoValueReturns
  <1>1. TypeOK /\ RefsInv /\ ValueInv => NoValueReturns
    <2> SUFFICES ASSUME TypeOK, RefsInv, ValueInv, NEW s \in Slot
                 PROVE  Value(s) \notin Superseded
      BY DEF NoValueReturns
    <2>1. CASE row[s] \in Request /\ Readable(row[s])
      BY <2>1, RequestsTyped, CurrentValue DEF Value, Readable, Opens
    <2>2. CASE ~(row[s] \in Request /\ Readable(row[s]))
      BY <2>2, VaultAssumption DEF Value, Superseded
    <2> QED
      BY <2>1, <2>2
  <1> QED
    BY <1>1, ValueInvariant, PTL

-----------------------------------------------------------------------------
(* The master key rotated while requests are under way.  The one thing that *)
(* can put a value out of both keys' reach is a rotate() of its entry: it is *)
(* the only writer that gives an entry another data key.                    *)

NeverRotated(i) ==
    \A q \in Request : ~(pc[q] = "acked" /\ req[q].op = "rotate" /\ ref[q] = i)

UnrotatedEntriesOpen ==
    \A i \in Request : entry[i] # Absent /\ NeverRotated(i) => Readable(i)

AsInserted ==
    /\ \A i \in Request : entry[i] # Absent /\ NeverRotated(i) =>
          entry[i].dek = i /\ entry[i].value = i
    /\ \A i \in DOMAIN master.rows : NeverRotated(i) => master.rows[i].dek = i

LEMMA AsInsertedRequest ==
    ASSUME TypeOK, OpsFit, AsInserted, NEW q \in Request, RequestStep(q)
    PROVE  AsInserted'
  <1>1. RequestTypes /\ master' = master
    BY RequestsTyped
    DEF RequestStep, Call, Find, PutSecret, Upsert, Purge, Load, Update, Remove, Dies, RestIdle
  <1>2. ASSUME NEW i \in Request, NeverRotated(i)' PROVE NeverRotated(i)
    <2> SUFFICES ASSUME NEW p \in Request, pc[p] = "acked", req[p].op = "rotate", ref[p] = i
                 PROVE  FALSE
      BY DEF NeverRotated
    <2>1. p # q
      BY DEF RequestStep, Call, Find, PutSecret, Upsert, Purge, Load, Update, Remove, Dies,
             Under_way, Idle
    <2>2. pc'[p] = pc[p]
      BY <1>1, <2>1 DEF RequestTypes, Goto,
             RequestStep, Call, Find, PutSecret, Upsert, Purge, Load, Update, Remove, Dies
    <2>3. req'[p] = req[p] /\ ref'[p] = ref[p]
      BY <1>1, <2>1 DEF RequestTypes,
             RequestStep, Call, Find, PutSecret, Upsert, Purge, Load, Update, Remove, Dies
    <2> QED
      BY <1>2, <2>2, <2>3 DEF NeverRotated
  <1>3. ASSUME NEW i \in Request, entry'[i] # Absent, NeverRotated(i)'
        PROVE  entry'[i] = entry[i] \/ (entry'[i].dek = i /\ entry'[i].value = i)
    <2>1. CASE entry' = entry
      BY <2>1
    <2>2. CASE PutSecret(q)
      BY <1>1, <2>2 DEF PutSecret, RequestTypes, Seal
    <2>3. CASE Update(q)
      <3>1. pc'[q] = "acked" /\ req'[q].op = "rotate" /\ ref'[q] = ref[q]
        BY <1>1, <2>3 DEF Update, Goto, OpsFit, RequestTypes
      <3>2. i # ref[q]
        BY <1>3, <3>1 DEF NeverRotated
      <3> QED
        BY <1>1, <2>3, <3>2 DEF Update, RequestTypes
    <2>4. CASE Purge(q) \/ Remove(q)
      BY <1>1, <1>3, <2>4 DEF Purge, Remove, RequestTypes
    <2> QED
      BY <2>1, <2>2, <2>3, <2>4 DEF RequestStep, Call, Find, Upsert, Load, Dies
  <1>4. DOMAIN master.rows \subseteq Request
    BY DEF TypeOK, Partial
  <1> QED
    BY <1>1, <1>2, <1>3, <1>4 DEF AsInserted

LEMMA AsInsertedMaster ==
    ASSUME TypeOK, AsInserted, MasterStep
    PROVE  AsInserted'
  <1>1. \A i : NeverRotated(i)' <=> NeverRotated(i)
    BY DEF NeverRotated, MasterStep, StartRewrap, Rewrap, RewrapFails, Rewrapped, Swap, MasterIdle
  <1>2. CASE StartRewrap
    <2> DEFINE present == {i \in Request : entry[i] # Absent}
    <2>1. master'.rows = [i \in present |-> entry[i]] /\ entry' = entry
      BY <1>2 DEF StartRewrap
    <2> QED
      BY <1>1, <2>1 DEF AsInserted
  <1>3. ASSUME NEW i \in Request, Rewrap(i) PROVE AsInserted'
    <2>1. /\ \A j \in Request \ {i} : entry'[j] = entry[j]
          /\ entry[i] = Absent => entry'[i] = Absent
          /\ entry[i] # Absent =>
                entry'[i] = [entry[i] EXCEPT !.dek = master.rows[i].dek, !.kek = "new"]
      BY <1>3 DEF Rewrap, TypeOK
    <2>2. entry[i] # Absent =>
             entry'[i].dek = master.rows[i].dek /\ entry'[i].value = entry[i].value
      BY <2>1 DEF TypeOK, Sealed
    <2>3. /\ i \in DOMAIN master.rows
          /\ DOMAIN master'.rows = DOMAIN master.rows \ {i}
          /\ \A j \in DOMAIN master'.rows : master'.rows[j] = master.rows[j]
      BY <1>3 DEF Rewrap, TypeOK
    <2>4. ASSUME NEW j \in Request, entry'[j] # Absent, NeverRotated(j)
          PROVE  entry'[j].dek = j /\ entry'[j].value = j
      <3>1. CASE j = i
        BY <2>1, <2>2, <2>3, <2>4, <3>1 DEF AsInserted
      <3>2. CASE j # i
        BY <2>1, <2>4, <3>2 DEF AsInserted
      <3> QED
        BY <3>1, <3>2
    <2>5. \A j \in DOMAIN master'.rows : NeverRotated(j) => master'.rows[j].dek = j
      BY <2>3 DEF AsInserted
    <2> QED
      BY <1>1, <2>4, <2>5 DEF AsInserted
  <1>4. CASE RewrapFails \/ Swap
    BY <1>1, <1>4 DEF RewrapFails, Swap, NoMaster, AsInserted
  <1>5. CASE Rewrapped
    <2>1. master'.rows = master.rows /\ entry' = entry
      BY <1>5 DEF Rewrapped, TypeOK
    <2> QED
      BY <1>1, <2>1 DEF AsInserted
  <1> QED
    BY <1>2, <1>3, <1>4, <1>5 DEF MasterStep

LEMMA AsInsertedStep ==
    ASSUME TypeOK, OpsFit, AsInserted, [Next]_vars
    PROVE  AsInserted'
  <1>1. CASE UNCHANGED <<entry, pc, req, ref, master>>
    BY <1>1 DEF AsInserted, NeverRotated
  <1>2. CASE JobStep
    BY <1>1, <1>2 DEF JobStep, JobIdle, ReadRows, Resolve, Assembled, NextJob
  <1>3. ASSUME NEW s \in Slot, Registry(s) PROVE AsInserted'
    BY <1>1, <1>3 DEF Registry
  <1> QED
    BY <1>1, <1>2, <1>3, AsInsertedRequest, AsInsertedMaster DEF Next, vars

(* Whatever overlaps with reencryptAll, however often it is broken off: a   *)
(* value whose entry no answered rotate() has written opens under the old   *)
(* key or the new one (vault.ts:236 says it of every row).                  *)
THEOREM UnrotatedOpen == Spec => []UnrotatedEntriesOpen
  <1>1. Init => AsInserted
    BY DEF Init, AsInserted, NoMaster
  <1>2. TypeOK /\ AsInserted => UnrotatedEntriesOpen
    BY DEF TypeOK, AsInserted, UnrotatedEntriesOpen, Readable, Opens, Sealed
  <1>3. ValueInv => OpsFit
    BY DEF ValueInv
  <1> QED
    BY <1>1, <1>2, <1>3, AsInsertedStep, ValueInvariant, PTL DEF Spec

-----------------------------------------------------------------------------
(* A job's secrets.  What had been superseded when the rows were read is   *)
(* of requests that were answered by then, so no entry that one of these   *)
(* rows refers to comes to hold it again before it is resolved.            *)

JobInv ==
    job.pc \in {"resolve", "done"} =>
        /\ \A v \in job.stale : pc[v] = "acked"
        /\ \A s \in job.todo : job.rows[s] \in Request =>
              /\ pc[job.rows[s]] \in Referred
              /\ entry[job.rows[s]] # Absent => entry[job.rows[s]].value \notin job.stale
        /\ \A n \in DOMAIN job.secrets : job.secrets[n].value \notin job.stale
        /\ DOMAIN job.secrets = {s[1] : s \in DOMAIN job.rows \ job.todo}
        /\ job.pc = "done" => job.todo = {}

\* What anybody but the job does to it.
LEMMA JobFrame ==
    ASSUME TypeOK, JobInv, job' = job,
           \A q \in Request : pc[q] \in Referred => pc'[q] = pc[q] \/ (pc[q] = "purge" /\ pc'[q] \in Referred),
           \A i \in Request : pc[i] \in Referred /\ entry'[i] # Absent =>
               /\ entry[i] # Absent
               /\ entry'[i].value = entry[i].value \/ (entry'[i].value \in Request /\ pc[entry'[i].value] = "update")
    PROVE  JobInv'
  <1> SUFFICES ASSUME job.pc \in {"resolve", "done"} PROVE JobInv'
    BY DEF JobInv
  <1>1. \A v \in job.stale : v \in Request /\ pc[v] = "acked" /\ pc'[v] = "acked"
    BY DEF JobInv, TypeOK, Referred
  <1>2. ASSUME NEW s \in job.todo, job.rows[s] \in Request
        PROVE  /\ pc'[job.rows[s]] \in Referred
               /\ entry'[job.rows[s]] # Absent => entry'[job.rows[s]].value \notin job.stale
    BY <1>1, <1>2 DEF JobInv
  <1> QED
    BY <1>1, <1>2 DEF JobInv

LEMMA JobOfOthers ==
    ASSUME TypeOK, RefsInv, ValueInv, JobInv,
           (\E q \in Request : RequestStep(q)) \/ (\E s \in Slot : Registry(s)) \/ MasterStep
    PROVE  JobInv'
  <1>1. ASSUME NEW q \in Request, RequestStep(q) PROVE JobInv'
    <2>1. /\ job' = job /\ \A p \in Request \ {q} : pc'[p] = pc[p]
          /\ pc[q] \notin {"acked", "dead"}
          /\ pc[q] = "purge" => pc'[q] \in Referred
      BY <1>1 DEF RequestStep, Call, Find, PutSecret, Upsert, Purge, Load, Update, Remove, Dies,
                  RestIdle, Goto, TypeOK, Referred, Under_way, Idle, PC
    <2>2. ASSUME NEW i \in Request, pc[i] \in Referred, entry'[i] # Absent
          PROVE  /\ entry[i] # Absent
                 /\ entry'[i].value = entry[i].value
                    \/ (entry'[i].value \in Request /\ pc[entry'[i].value] = "update")
      <3>1. CASE PutSecret(q)
        BY <2>2, <3>1 DEF PutSecret, TypeOK, Referred
      <3>2. CASE Update(q)
        <4>1. entry'[i] = entry[i] \/ (entry[i] # Absent /\ entry'[i] = Seal(q) /\ pc[q] = "update")
          BY <2>2, <3>2 DEF Update, TypeOK
        <4> QED
          BY <2>2, <4>1 DEF Seal
      <3>3. CASE Purge(q) \/ Remove(q)
        BY <2>2, <3>3 DEF Purge, Remove, TypeOK
      <3> QED
        BY <1>1, <2>2, <3>1, <3>2, <3>3 DEF RequestStep, Call, Find, Upsert, Load, Dies
    <2> QED
      BY <2>1, <2>2, JobFrame DEF Referred
  <1>2. ASSUME NEW s \in Slot, Registry(s) PROVE JobInv'
    BY <1>2, JobFrame DEF Registry
  <1>3. CASE MasterStep
    <2>1. job' = job /\ pc' = pc
      BY <1>3 DEF MasterStep, MasterIdle, StartRewrap, Rewrap, RewrapFails, Rewrapped, Swap
    <2>2. ASSUME NEW i \in Request, entry'[i] # Absent
          PROVE  entry[i] # Absent /\ entry'[i].value = entry[i].value
      BY <1>3, <2>2, MasterKeepsValues
    <2> QED
      BY <2>1, <2>2, JobFrame
  <1> QED
    BY <1>1, <1>2, <1>3

LEMMA JobOfItself ==
    ASSUME TypeOK, TypeOK', RefsInv, ValueInv, JobInv, JobStep
    PROVE  JobInv'
  <1>0. UNCHANGED <<row, entry, pc, req, ref, acked>>
    BY DEF JobStep, JobIdle, ReadRows, Resolve, Assembled, NextJob
  <1>1. CASE ReadRows
    <2> DEFINE rows == {s \in Slot : row[s] # NoRow}
    <2>1. job' = [pc |-> "resolve", rows |-> [s \in rows |-> row[s]], todo |-> rows,
                  secrets |-> [n \in {} |-> NoRow], key |-> key, stale |-> Superseded]
      BY <1>1 DEF ReadRows
    <2>2. \A v \in Superseded : pc[v] = "acked"
      BY DEF Superseded, ValueInv, AckedStay
    <2>3. \A s \in rows : row[s] \in Request =>
              pc[row[s]] \in Referred
              /\ (entry[row[s]] # Absent => entry[row[s]].value \notin Superseded)
      BY RequestsTyped, CurrentValue DEF RefsInv, RowsAreSet
    <2> QED
      BY <1>0, <2>1, <2>2, <2>3 DEF JobInv
  <1>2. ASSUME NEW s \in Slot, Resolve(s), job'.pc = "resolve" PROVE JobInv'
    <2> DEFINE r == job.rows[s]
               x == [slot |-> s, value |-> IF r \in Request THEN entry[r].value ELSE Foreign]
    <2>1. /\ job.pc = "resolve" /\ s \in job.todo /\ s \in DOMAIN job.rows
          /\ r \in Request => entry[r] # Absent
          /\ job' = [job EXCEPT !.todo = @ \ {s}, !.secrets = Assigned(@, s[1], x)]
      BY <1>2 DEF Resolve, Opens, TypeOK
    <2>2. job'.stale = job.stale /\ job'.todo = job.todo \ {s} /\ job'.rows = job.rows
          /\ job'.secrets = Assigned(job.secrets, s[1], x)
      BY <2>1 DEF TypeOK
    <2>3. x.value \notin job.stale
      BY <2>1, VaultAssumption DEF JobInv, TypeOK
    <2>4. \A n \in DOMAIN job'.secrets : job'.secrets[n].value \notin job.stale
      BY <2>1, <2>2, <2>3 DEF Assigned, JobInv
    <2>5. DOMAIN job'.secrets = {t[1] : t \in DOMAIN job.rows \ job'.todo}
      <3>1. DOMAIN job'.secrets = DOMAIN job.secrets \cup {s[1]}
        BY <2>2 DEF Assigned
      <3>2. DOMAIN job.rows \ job'.todo = (DOMAIN job.rows \ job.todo) \cup {s}
        BY <2>1, <2>2
      <3> QED
        BY <2>1, <3>1, <3>2 DEF JobInv
    <2> QED
      BY <1>0, <1>2, <2>1, <2>2, <2>4, <2>5 DEF JobInv
  <1>3. CASE Assembled
    BY <1>0, <1>3 DEF Assembled, JobInv, TypeOK
  <1>4. CASE job'.pc \notin {"resolve", "done"}
    BY <1>4 DEF JobInv
  <1>5. ASSUME NEW s \in Slot, Resolve(s) PROVE job'.pc \in {"resolve", "failed"}
    BY <1>5 DEF Resolve, TypeOK
  <1>6. ASSUME NextJob PROVE job'.pc = "idle"
    BY <1>6 DEF NextJob, NoJob
  <1> QED
    BY <1>1, <1>2, <1>3, <1>4, <1>5, <1>6 DEF JobStep

(* Whatever happens to the vault while a job is assembled value by value:  *)
(* the job has a secret for every name its environment had a row for, and  *)
(* none that had been superseded when the assembly began.                  *)
THEOREM AssembledSecretsAreSound == Spec => []JobSecretsSound
  <1>1. Init => JobInv
    BY DEF Init, NoJob, JobInv
  <1>2. TypeOK /\ TypeOK' /\ (RefsInv /\ ValueInv) /\ JobInv /\ [Next]_vars => JobInv'
    <2>1. TypeOK /\ JobInv /\ UNCHANGED vars => JobInv'
      BY JobFrame DEF vars
    <2> QED
      BY <2>1, JobOfOthers, JobOfItself DEF Next
  <1>3. TypeOK /\ JobInv => JobSecretsSound
    BY DEF JobInv, JobSecretsSound, TypeOK
  <1> QED
    BY <1>1, <1>2, <1>3, ValueInvariant, PTL DEF Spec

-----------------------------------------------------------------------------
(* With the master key rotated as a maintenance task, requests are what    *)
(* SecretSlots says.  Every entry opens, so a slot resolves to what its    *)
(* entry holds; only one slot's row can refer to an entry.                 *)

Holds(s) == IF row[s] \in Request /\ entry[row[s]] # Absent THEN entry[row[s]].value ELSE NoValue

ValuesHold == \A s \in Slot : Value(s) = Holds(s)

Shown == <<[s \in Slot |-> Value(s)], Open, faults["registry"]>>

Asked(q) == [id |-> q, op |-> req[q].op, slot |-> req[q].slot]

LEMMA OpenMoves ==
    ASSUME TypeOK, NEW q \in Request, pc[q] \in Under_way, NEW l \in PC, Goto(q, l), req' = req
    PROVE  /\ Asked(q) \in Open
           /\ Open' = IF l \in Under_way THEN Open ELSE Open \ {Asked(q)}
  <1>1. \A p \in Request : pc'[p] = IF p = q THEN l ELSE pc[p]
    BY DEF Goto, TypeOK
  <1>2. \A p \in Request : Asked(p) = Asked(q) => p = q
    BY DEF Asked
  <1>3. Open = {Asked(p) : p \in {p \in Request : pc[p] \in Under_way}}
    BY DEF Open, Asked
  <1>4. Open' = {Asked(p) : p \in {p \in Request : pc'[p] \in Under_way}}
    BY DEF Open, Asked
  <1> HIDE DEF Asked
  <1> QED
    BY <1>1, <1>2, <1>3, <1>4

\* A request's step that no slot shows: it goes on, or ends.
LEMMA SlotsStay ==
    ASSUME TypeOK, ValuesHold, ValuesHold', NEW q \in Request, pc[q] \in Under_way,
           NEW l \in PC, Goto(q, l), req' = req, faults'["registry"] = faults["registry"],
           \A s \in Slot : Holds(s)' = Holds(s)
    PROVE  [Slots!Next]_Shown
  <1>1. [s \in Slot |-> Value(s)]' = [s \in Slot |-> Value(s)]
    BY DEF ValuesHold
  <1>2. CASE Open' = Open
    BY <1>1, <1>2 DEF Shown
  <1>3. CASE Open' = Open \ {Asked(q)} /\ Asked(q) \in Open
    <2>1. Slots!Ends
      BY <1>1, <1>3 DEF Slots!Ends
    <2> QED
      BY <2>1 DEF Slots!Next
  <1> QED
    BY <1>2, <1>3, OpenMoves

\* The step that a slot shows.
LEMMA SlotsShow ==
    ASSUME TypeOK, ValuesHold, ValuesHold', NEW q \in Request, pc[q] \in Under_way,
           NEW l \in PC, Goto(q, l), req' = req, faults' = faults,
           \A s \in Slot : Holds(s)' =
               IF s = req[q].slot THEN (IF req[q].op = "delete" THEN NoValue ELSE q) ELSE Holds(s)
    PROVE  Slots!Next
  <1> DEFINE value == [s \in Slot |-> Value(s)]
  <1>1. value' = [value EXCEPT ![Asked(q).slot] = IF Asked(q).op = "delete" THEN NoValue ELSE Asked(q).id]
    <2>1. value' = [s \in Slot |-> Holds(s)'] /\ value = [s \in Slot |-> Holds(s)]
      BY DEF ValuesHold
    <2> HIDE DEF value
    <2> QED
      BY <2>1 DEF Asked
  <1>2. Asked(q) \in Open /\ Open' \in {Open, Open \ {Asked(q)}}
    BY OpenMoves
  <1>3. Slots!TakesEffect
    BY <1>1, <1>2 DEF Slots!TakesEffect
  <1> QED
    BY <1>3 DEF Slots!Next

LEMMA SlotsCall ==
    ASSUME TypeOK, TypeOK', NEW q \in Request, NEW op \in Op, NEW s \in Slot, Call(q, op, s)
    PROVE  Slots!Next
  <1>1. \A p \in Request : p # q => pc'[p] = pc[p] /\ Asked(p)' = Asked(p)
    BY DEF Call, Goto, TypeOK, Asked
  <1>2. pc[q] \notin Under_way /\ pc'[q] \in Under_way /\ Asked(q)' = [id |-> q, op |-> op, slot |-> s]
    BY DEF Call, Goto, TypeOK, Asked, Under_way, Idle, PC
  <1>3. Open = {Asked(p) : p \in {p \in Request : pc[p] \in Under_way}}
    BY DEF Open, Asked
  <1>4. Open' = {Asked(p)' : p \in {p \in Request : pc'[p] \in Under_way}}
    BY DEF Open, Asked
  <1>5. Open' = Open \cup {[id |-> q, op |-> op, slot |-> s]}
    <2> HIDE DEF Asked
    <2> QED
      BY <1>1, <1>2, <1>3, <1>4
  <1>6. [t \in Slot |-> Value(t)]' = [t \in Slot |-> Value(t)] /\ faults' = faults
    BY DEF Call, RestIdle, Value, Readable, Opens
  <1>7. Slots!Begins
    BY <1>5, <1>6 DEF Slots!Begins, Op
  <1> QED
    BY <1>7 DEF Slots!Next

LEMMA SlotsUpsert ==
    ASSUME TypeOK, RefsInv, ValueInv, ValuesHold, ValuesHold', NEW q \in Request, Upsert(q)
    PROVE  Slots!Next
  <1>1. pc[q] \in Under_way /\ req' = req /\ faults' = faults /\ \E l \in PC : Goto(q, l)
    BY DEF Upsert, RestIdle, Under_way, Idle, PC
  <1>2. req[q].op = "set" /\ req[q].slot \in Slot
    BY DEF Upsert, ValueInv, OpsFit, TypeOK, Demand
  <1>3. \A s \in Slot : row'[s] = IF s = req[q].slot THEN q ELSE row[s]
    BY <1>2 DEF Upsert, TypeOK
  <1>4. entry' = entry /\ entry[q] # Absent /\ entry[q].value = q
    BY DEF Upsert, ValueInv, FreshIsOwn
  <1>5. \A s \in Slot : Holds(s)' =
            IF s = req[q].slot THEN (IF req[q].op = "delete" THEN NoValue ELSE q) ELSE Holds(s)
    BY <1>2, <1>3, <1>4 DEF Holds
  <1> QED
    BY <1>1, <1>5, SlotsShow

LEMMA SlotsUpdate ==
    ASSUME TypeOK, RefsInv, ValueInv, ValuesHold, ValuesHold', NEW q \in Request, Update(q)
    PROVE  [Slots!Next]_Shown
  <1>1. pc[q] \in Under_way /\ req' = req /\ faults' = faults /\ row' = row /\ Goto(q, "acked") /\ "acked" \in PC
    BY DEF Update, RestIdle, Under_way, Idle, PC
  <1>2. ref[q] \in Request /\ req[q].op = "rotate" /\ req[q].slot \in Slot
    BY DEF Update, ValueInv, OpsFit, TypeOK, Demand
  <1>3. Seal(q) # Absent /\ Seal(q).value = q
    BY VaultAssumption DEF Update, Seal, Sealed, TypeOK, Demand
  <1>4. \A i \in Request : entry'[i] = IF i = ref[q] /\ entry[i] # Absent THEN Seal(q) ELSE entry[i]
    BY <1>2 DEF Update, TypeOK
  <1>5. \A s \in Slot : row[s] = ref[q] => s = req[q].slot
    BY <1>2 DEF RefsInv, RowsAreSet, RefsAreSet
  <1> HIDE DEF Seal
  <1>6. CASE row[req[q].slot] = ref[q] /\ entry[ref[q]] # Absent
    <2>1. \A s \in Slot : Holds(s)' =
              IF s = req[q].slot THEN (IF req[q].op = "delete" THEN NoValue ELSE q) ELSE Holds(s)
      BY <1>1, <1>2, <1>3, <1>4, <1>5, <1>6 DEF Holds
    <2> QED
      BY <1>1, <2>1, SlotsShow
  <1>7. CASE ~(row[req[q].slot] = ref[q] /\ entry[ref[q]] # Absent)
    <2>1. \A s \in Slot : Holds(s)' = Holds(s)
      BY <1>1, <1>2, <1>4, <1>5, <1>7 DEF Holds
    <2> QED
      BY <1>1, <2>1, SlotsStay
  <1> QED
    BY <1>6, <1>7

LEMMA SlotsRemove ==
    ASSUME TypeOK, RefsInv, ValueInv, ValuesHold, ValuesHold', NEW q \in Request, Remove(q)
    PROVE  [Slots!Next]_Shown
  <1>1. pc[q] \in Under_way /\ req' = req /\ faults' = faults /\ row' = row /\ Goto(q, "acked") /\ "acked" \in PC
    BY DEF Remove, RestIdle, Under_way, Idle, PC
  <1>2. ref[q] \in Request /\ req[q].op = "delete" /\ req[q].slot \in Slot
    BY DEF Remove, ValueInv, OpsFit, TypeOK, Demand
  <1>3. \A i \in Request : entry'[i] = IF i = ref[q] THEN Absent ELSE entry[i]
    BY <1>2 DEF Remove, TypeOK
  <1>4. \A s \in Slot : row[s] = ref[q] => s = req[q].slot
    BY <1>2 DEF RefsInv, RowsAreSet, RefsAreSet
  <1>5. CASE row[req[q].slot] = ref[q]
    <2>1. \A s \in Slot : Holds(s)' =
              IF s = req[q].slot THEN (IF req[q].op = "delete" THEN NoValue ELSE q) ELSE Holds(s)
      BY <1>1, <1>2, <1>3, <1>4, <1>5 DEF Holds
    <2> QED
      BY <1>1, <2>1, SlotsShow
  <1>6. CASE row[req[q].slot] # ref[q]
    <2>1. \A s \in Slot : Holds(s)' = Holds(s)
      BY <1>1, <1>3, <1>4, <1>6 DEF Holds
    <2> QED
      BY <1>1, <2>1, SlotsStay
  <1> QED
    BY <1>5, <1>6

LEMMA SlotsRequest ==
    ASSUME TypeOK, TypeOK', RefsInv, ValueInv, ValuesHold, ValuesHold',
           NEW q \in Request, RequestStep(q)
    PROVE  [Slots!Next]_Shown
  <1>1. CASE Find(q) \/ Load(q) \/ Dies(q)
    <2>1. pc[q] \in Under_way /\ req' = req /\ (\E l \in PC : Goto(q, l))
      BY <1>1 DEF Find, Load, Dies, Under_way, Idle, PC
    <2>2. faults'["registry"] = faults["registry"]
      BY <1>1 DEF Find, Load, Dies, RestIdle, Strike, TypeOK, Disturbance
    <2>3. \A s \in Slot : Holds(s)' = Holds(s)
      BY <1>1 DEF Find, Load, Dies, Holds
    <2> QED
      BY <2>1, <2>2, <2>3, SlotsStay
  <1>2. CASE PutSecret(q) \/ Purge(q)
    <2>1. pc[q] \in Under_way /\ req' = req /\ faults' = faults /\ (\E l \in PC : Goto(q, l))
      BY <1>2 DEF PutSecret, Purge, RestIdle, Under_way, Idle, PC
    <2>2. \A s \in Slot : row[s] \in Request => entry'[row[s]] = entry[row[s]]
      <3>1. CASE PutSecret(q)
        BY <3>1 DEF PutSecret, TypeOK, RefsInv, RowsAreSet, Referred
      <3>2. CASE Purge(q)
        BY <3>2 DEF Purge, TypeOK, RefsInv, PurgedIsReplaced
      <3> QED
        BY <1>2, <3>1, <3>2
    <2>3. \A s \in Slot : Holds(s)' = Holds(s)
      BY <1>2, <2>2 DEF PutSecret, Purge, Holds
    <2> QED
      BY <2>1, <2>3, SlotsStay
  <1> QED
    BY <1>1, <1>2, SlotsCall, SlotsUpsert, SlotsUpdate, SlotsRemove DEF RequestStep

LEMMA SlotsRegistry ==
    ASSUME TypeOK, ValuesHold, ValuesHold', NEW s \in Slot, Registry(s)
    PROVE  Slots!Next
  <1> DEFINE value == [t \in Slot |-> Value(t)]
  <1>1. \A t \in Slot : Holds(t)' = IF t = s THEN NoValue ELSE Holds(t)
    BY VaultAssumption DEF Registry, Holds, TypeOK
  <1>2. value' = [value EXCEPT ![s] = NoValue]
    <2>1. value' = [t \in Slot |-> Holds(t)'] /\ value = [t \in Slot |-> Holds(t)]
      BY DEF ValuesHold
    <2> HIDE DEF value
    <2> QED
      BY <1>1, <2>1
  <1>3. Open' = Open
    BY DEF Registry, Open
  <1>4. faults["registry"] > 0 /\ faults'["registry"] = faults["registry"] - 1
    BY DEF Registry, Strike, TypeOK, Disturbance
  <1>5. Slots!Dropped
    BY <1>2, <1>3, <1>4 DEF Slots!Dropped
  <1> QED
    BY <1>5 DEF Slots!Next

LEMMA SlotsOthers ==
    ASSUME TypeOK, ValuesHold, ValuesHold', JobStep \/ MasterStep \/ UNCHANGED vars
    PROVE  UNCHANGED Shown
  <1>1. /\ UNCHANGED <<row, pc, req>>
        /\ faults'["registry"] = faults["registry"]
    BY DEF JobStep, JobIdle, ReadRows, Resolve, Assembled, NextJob, MasterStep, MasterIdle,
           StartRewrap, Rewrap, RewrapFails, Rewrapped, Swap, vars, Strike, TypeOK, Disturbance
  <1>2. \A i \in Request : /\ entry'[i] # Absent <=> entry[i] # Absent
                           /\ entry[i] # Absent => entry'[i].value = entry[i].value
    BY MasterKeepsValues DEF JobStep, JobIdle, ReadRows, Resolve, Assembled, NextJob, vars
  <1>3. \A s \in Slot : Holds(s)' = Holds(s)
    BY <1>1, <1>2 DEF Holds
  <1> QED
    BY <1>1, <1>3 DEF Shown, ValuesHold, Open

(* However the statements of overlapping requests interleave, and wherever *)
(* one of them dies: what a slot resolves to changes only as the whole     *)
(* effect of one request on that slot that is under way, or as the         *)
(* registry drops the slot's row.                                          *)
THEOREM RequestsAreAtomic ==
    ASSUME Maintenance
    PROVE  Spec => SlotsChangeByRequest
  <1>1. TypeOK /\ KeyInv => ValuesHold
    BY DEF TypeOK, KeyInv, DataKeyFits, ValuesHold, Value, Holds, Readable, Opens, Sealed
  <1>2. Init => Slots!Init
    BY VaultAssumption DEF Init, Slots!Init, Value, Open, Under_way, Idle
  <1>3. TypeOK /\ TypeOK' /\ RefsInv /\ ValueInv /\ ValuesHold /\ ValuesHold' /\ [Next]_vars
            => [Slots!Next]_Shown
    BY SlotsRequest, SlotsRegistry, SlotsOthers DEF Next
  <1> QED
    BY <1>1, <1>2, <1>3, KeyInvariant, ValueInvariant, PTL DEF Spec, SlotsChangeByRequest, Slots!Spec, Shown
=============================================================================
