------------------------------- MODULE Vault -------------------------------
(***************************************************************************)
(* Secret values: the rows of app_secrets that refer to vault entries, the *)
(* requests that set, rotate and delete values, the assembly of a job that *)
(* reads them, and the rotation of the master key.  A step ends at an      *)
(* await.                                                                  *)
(*                                                                         *)
(* A request stands for all that is fresh about it: the value it writes,   *)
(* the data key it seals it with and the id of the entry it inserts.       *)
(***************************************************************************)
EXTENDS Integers, FiniteSets

CONSTANTS
    Name,              \* secret names of one app
    Request,           \* API requests, each of them made at most once
    NoRow, Foreign,    \* no row in app_secrets; a ref that is not `vault:<id>'
    Absent,            \* no row in vault
    NoValue,
    Maintenance,       \* whether the master key is rotated with the API at rest
    Budget             \* how often each disturbance may strike (a bound)

(* A request or a rotation of the master key that dies, a row that the     *)
(* registry deletes or re-points, a rotation of the master key.            *)
Disturbance == {"crash", "registry", "master"}

Key == {"old", "new"}
Sealed == [value : Request, dek : Request, kek : Key]

ASSUME VaultAssumption ==
    /\ NoRow \notin Request \cup {Foreign}
    /\ Foreign \notin Request
    /\ NoValue \notin Request
    /\ Absent \notin Sealed
    /\ Maintenance \in BOOLEAN
    /\ Budget \in [Disturbance -> Nat]

\* A secret of one environment's deploys: its name, and its layer.
Slot == Name \X {"all", "env"}

VARIABLES
    row,     \* value_ref of each slot's row in app_secrets
    entry,   \* rows of vault: the value, the data key its wrap holds, and the
             \* master key the wrap is under
    key,     \* the binding VOZKA_VAULT_KEY, imported anew for every request and job
    pc,      \* where each request is
    req,     \* what it asks for, and the master key it has imported
    ref,     \* the value_ref it has found
    acked,   \* history: what had been answered `ok' when it was called
    job,     \* the assembly of a job
    master,  \* the rotation of the master key
    faults

vars == <<row, entry, key, pc, req, ref, acked, job, master, faults>>

Op == {"set", "rotate", "delete"}
Ref == Request \cup {NoRow, Foreign}
PC == {"new", "find", "put", "upsert", "purge", "load", "update", "remove",
       "acked", "refused", "dead"}
Idle == {"new", "acked", "refused", "dead"}
Under_way == PC \ Idle

Partial(S, T) == UNION {[D -> T] : D \in SUBSET S}
Chosen == [slot : Slot, value : Request \cup {Foreign}]
Demand == [op : Op, slot : Slot, key : Key]
NoJob == [pc |-> "idle", rows |-> [s \in {} |-> NoRow], todo |-> {}, secrets |-> [n \in {} |-> NoRow],
          key |-> "old", stale |-> {}]
NoMaster == [pc |-> "idle", rows |-> [i \in {} |-> Absent]]

TypeOK ==
    /\ row \in [Slot -> Ref]
    /\ entry \in [Request -> Sealed \cup {Absent}]
    /\ key \in Key
    /\ pc \in [Request -> PC]
    /\ req \in [Request -> Demand \cup {NoValue}]
    /\ ref \in [Request -> Ref]
    /\ acked \in [Request -> SUBSET Request]
    /\ job \in [pc : {"idle", "resolve", "done", "failed"}, rows : Partial(Slot, Ref),
               todo : SUBSET Slot, secrets : Partial(Name, Chosen), key : Key, stale : SUBSET Request]
    /\ job.todo \subseteq DOMAIN job.rows
    /\ master \in [pc : {"idle", "rewrap", "swap"}, rows : Partial(Request, Sealed)]
    /\ faults \in [Disturbance -> Nat]
    /\ \A q \in Request :
        /\ pc[q] # "new" => req[q] \in Demand
        /\ pc[q] \in {"purge", "load", "update", "remove"} => ref[q] \in Request

Init ==
    /\ row = [s \in Slot |-> NoRow]
    /\ entry = [i \in Request |-> Absent]
    /\ key = "old"
    /\ pc = [q \in Request |-> "new"]
    /\ req = [q \in Request |-> NoValue]
    /\ ref = [q \in Request |-> NoRow]
    /\ acked = [q \in Request |-> {}]
    /\ job = NoJob
    /\ master = NoMaster
    /\ faults = Budget

Strike(k) == faults[k] > 0 /\ faults' = [faults EXCEPT ![k] = @ - 1]

-----------------------------------------------------------------------------
(* Envelope encryption: a value opens when its wrap is under the key at    *)
(* hand and holds the data key the value was sealed with.                  *)

Seal(q) == [value |-> q, dek |-> q, kek |-> req[q].key]
Opens(i, k) == entry[i] # Absent /\ entry[i].kek = k /\ entry[i].dek = entry[i].value
Readable(i) == \E k \in Key : Opens(i, k)

\* What a slot resolves to.
Value(s) == IF row[s] \in Request /\ Readable(row[s]) THEN entry[row[s]].value ELSE NoValue

\* Values that a later request on the slot has replaced, and answered for.
Superseded == {v \in Request : \E q \in Request :
                 /\ pc[q] = "acked" /\ v \in acked[q]
                 /\ req[v].slot = req[q].slot}

-----------------------------------------------------------------------------
(* Requests. *)

Goto(q, l) == pc' = [pc EXCEPT ![q] = l]
RestIdle == UNCHANGED <<key, job, master, faults>>

Call(q, op, s) ==
    /\ pc[q] = "new"
    /\ Maintenance => master.pc = "idle"
    /\ Goto(q, "find")
    /\ req' = [req EXCEPT ![q] = [op |-> op, slot |-> s, key |-> key]]
    /\ acked' = [acked EXCEPT ![q] = {v \in Request : pc[v] = "acked"}]
    /\ UNCHANGED <<row, entry, ref>> /\ RestIdle

\* findAppSecretRef.  A rotation or deletion of what is not in the vault is
\* refused here.
Find(q) ==
    LET found == row[req[q].slot]
    IN  /\ pc[q] = "find"
        /\ ref' = [ref EXCEPT ![q] = found]
        /\ \/ req[q].op = "set" /\ Goto(q, "put")
           \/ req[q].op # "set" /\ found \notin Request /\ Goto(q, "refused")
           \/ req[q].op = "rotate" /\ found \in Request /\ Goto(q, "load")
           \/ req[q].op = "delete" /\ found \in Request /\ Goto(q, "remove")
        /\ UNCHANGED <<row, entry, req, acked>> /\ RestIdle

\* Mutant: the new value takes the place of the old before the row refers to it.
PutSecretReplacing(q) ==
    /\ pc[q] = "put"
    /\ entry' = [i \in Request |-> IF i = q THEN Seal(q) ELSE IF i = ref[q] THEN Absent ELSE entry[i]]
    /\ Goto(q, "upsert")
    /\ UNCHANGED <<row, req, ref, acked>> /\ RestIdle

PutSecret(q) ==
    /\ pc[q] = "put"
    /\ entry' = [entry EXCEPT ![q] = Seal(q)]
    /\ Goto(q, "upsert")
    /\ UNCHANGED <<row, req, ref, acked>> /\ RestIdle

\* Mutant: whatever the row referred to is deleted as if it were the vault's.
UpsertPurgesAny(q) ==
    /\ pc[q] = "upsert"
    /\ row' = [row EXCEPT ![req[q].slot] = q]
    /\ Goto(q, IF ref[q] # NoRow THEN "purge" ELSE "acked")
    /\ UNCHANGED <<entry, req, ref, acked>> /\ RestIdle

Upsert(q) ==
    /\ pc[q] = "upsert"
    /\ row' = [row EXCEPT ![req[q].slot] = q]
    /\ Goto(q, IF ref[q] \in Request THEN "purge" ELSE "acked")
    /\ UNCHANGED <<entry, req, ref, acked>> /\ RestIdle

\* Mutant: the ref to delete is read from the row again.
PurgeReread(q) ==
    /\ pc[q] = "purge"
    /\ entry' = [i \in Request |-> IF i = row[req[q].slot] THEN Absent ELSE entry[i]]
    /\ Goto(q, "acked")
    /\ UNCHANGED <<row, req, ref, acked>> /\ RestIdle

\* deletePriorVaultEntry: refs that are not the vault's are left alone.
Purge(q) ==
    /\ pc[q] = "purge"
    /\ entry' = [entry EXCEPT ![ref[q]] = Absent]
    /\ Goto(q, "acked")
    /\ UNCHANGED <<row, req, ref, acked>> /\ RestIdle

\* rotate() makes sure that the entry exists ...
Load(q) ==
    /\ pc[q] = "load"
    /\ Goto(q, IF entry[ref[q]] = Absent THEN "refused" ELSE "update")
    /\ UNCHANGED <<row, entry, req, ref, acked>> /\ RestIdle

\* Mutant: an entry that was rotated once is not rotated again.
UpdateOnce(q) ==
    /\ pc[q] = "update"
    /\ entry' = [entry EXCEPT ![ref[q]] = IF @ = Absent \/ @.value # ref[q] THEN @ ELSE Seal(q)]
    /\ Goto(q, "acked")
    /\ UNCHANGED <<row, req, ref, acked>> /\ RestIdle

\* Mutant: the ciphertext is replaced and the wrapped data key is not.
UpdateKeepsWrap(q) ==
    /\ pc[q] = "update"
    /\ entry' = [entry EXCEPT ![ref[q]] = IF @ = Absent THEN @ ELSE [@ EXCEPT !.value = q]]
    /\ Goto(q, "acked")
    /\ UNCHANGED <<row, req, ref, acked>> /\ RestIdle

\* ... and updates it, if it still does.
Update(q) ==
    /\ pc[q] = "update"
    /\ entry' = [entry EXCEPT ![ref[q]] = IF @ = Absent THEN @ ELSE Seal(q)]
    /\ Goto(q, "acked")
    /\ UNCHANGED <<row, req, ref, acked>> /\ RestIdle

\* The row keeps its ref, which dangles from now on.
Remove(q) ==
    /\ pc[q] = "remove"
    /\ entry' = [entry EXCEPT ![ref[q]] = Absent]
    /\ Goto(q, "acked")
    /\ UNCHANGED <<row, req, ref, acked>> /\ RestIdle

Dies(q) ==
    /\ pc[q] \in Under_way
    /\ Strike("crash")
    /\ Goto(q, "dead")
    /\ UNCHANGED <<row, entry, key, req, ref, acked, job, master>>

\* The registry deletes a row, or points it at a secret kept elsewhere; it
\* never touches the vault.
Registry(s) ==
    /\ row[s] # NoRow
    /\ Strike("registry")
    /\ \E r \in {NoRow, Foreign} : row' = [row EXCEPT ![s] = r]
    /\ UNCHANGED <<entry, key, pc, req, ref, acked, job, master>>

-----------------------------------------------------------------------------
(* assembleJob: all rows of the environment first, then value by value.    *)

JobIdle == UNCHANGED <<row, entry, key, pc, req, ref, acked, master, faults>>

ReadRows ==
    /\ job.pc = "idle"
    /\ LET rows == {s \in Slot : row[s] # NoRow}
       IN  job' = [pc |-> "resolve", rows |-> [s \in rows |-> row[s]], todo |-> rows,
                   secrets |-> [n \in {} |-> NoRow], key |-> key, stale |-> Superseded]
    /\ JobIdle

Assigned(secrets, n, x) == [m \in DOMAIN secrets \cup {n} |-> IF m = n THEN x ELSE secrets[m]]

\* Mutant: a value that does not resolve is left out.
ResolveOrSkip(s) ==
    LET r == job.rows[s]
    IN  /\ job.pc = "resolve" /\ s \in job.todo
        /\ job' = [job EXCEPT
              !.todo = @ \ {s},
              !.secrets = IF r \in Request /\ ~Opens(r, job.key) THEN @ ELSE
                  Assigned(@, s[1],
                      [slot |-> s, value |-> IF r \in Request THEN entry[r].value ELSE Foreign])]
        /\ JobIdle

\* ORDER BY name: rows of one name come in any order, and the last one stays.
\* An entry that is missing or does not open fails the run.
Resolve(s) ==
    LET r == job.rows[s]
    IN  /\ job.pc = "resolve" /\ s \in job.todo
        /\ \/ /\ r \in Request => Opens(r, job.key)
              /\ job' = [job EXCEPT
                    !.todo = @ \ {s},
                    !.secrets = Assigned(@, s[1],
                        [slot |-> s, value |-> IF r \in Request THEN entry[r].value ELSE Foreign])]
           \/ /\ r \in Request /\ ~Opens(r, job.key)
              /\ job' = [job EXCEPT !.pc = "failed"]
        /\ JobIdle

Assembled ==
    /\ job.pc = "resolve" /\ job.todo = {}
    /\ job' = [job EXCEPT !.pc = "done"]
    /\ JobIdle

NextJob ==
    /\ job.pc \in {"done", "failed"}
    /\ job' = NoJob
    /\ JobIdle

-----------------------------------------------------------------------------
(* The rotation of the master key. *)

MasterIdle == UNCHANGED <<row, pc, req, ref, acked, job>>

\* reencryptAll reads the whole table under the old key.
StartRewrap ==
    /\ master.pc = "idle" /\ key = "old"
    /\ Strike("master")
    /\ Maintenance => \A q \in Request : pc[q] \in Idle
    /\ LET present == {i \in Request : entry[i] # Absent}
       IN  master' = [pc |-> "rewrap", rows |-> [i \in present |-> entry[i]]]
    /\ UNCHANGED <<entry, key>> /\ MasterIdle

\* One row as it was read: its data key, under the new master key.
Rewrap(i) ==
    /\ master.pc = "rewrap" /\ i \in DOMAIN master.rows
    /\ master.rows[i].kek = "old"
    /\ entry' = [entry EXCEPT ![i] =
                   IF @ = Absent THEN @ ELSE [@ EXCEPT !.dek = master.rows[i].dek, !.kek = "new"]]
    /\ master' = [master EXCEPT !.rows = [j \in DOMAIN @ \ {i} |-> @[j]]]
    /\ UNCHANGED <<key, faults>> /\ MasterIdle

\* It dies, or meets a row that an earlier attempt has already re-wrapped.
RewrapFails ==
    /\ master.pc = "rewrap"
    /\ \/ \E i \in DOMAIN master.rows : master.rows[i].kek = "new" /\ UNCHANGED faults
       \/ Strike("crash")
    /\ master' = NoMaster
    /\ UNCHANGED <<entry, key>> /\ MasterIdle

\* Mutant: the re-wrapping is not waited for.
RewrappedEarly ==
    /\ master.pc = "rewrap"
    /\ master' = [master EXCEPT !.pc = "swap"]
    /\ UNCHANGED <<entry, key, faults>> /\ MasterIdle

Rewrapped ==
    /\ master.pc = "rewrap" /\ DOMAIN master.rows = {}
    /\ master' = [master EXCEPT !.pc = "swap"]
    /\ UNCHANGED <<entry, key, faults>> /\ MasterIdle

\* The operator swaps the binding.
Swap ==
    /\ master.pc = "swap"
    /\ key' = "new"
    /\ master' = NoMaster
    /\ UNCHANGED <<entry, faults>> /\ MasterIdle

-----------------------------------------------------------------------------

RequestStep(q) ==
    \/ \E op \in Op, s \in Slot : Call(q, op, s)
    \/ Find(q) \/ PutSecret(q) \/ Upsert(q) \/ Purge(q) \/ Load(q) \/ Update(q) \/ Remove(q)
    \/ Dies(q)

JobStep == ReadRows \/ (\E s \in Slot : Resolve(s)) \/ Assembled \/ NextJob

MasterStep == StartRewrap \/ (\E i \in Request : Rewrap(i)) \/ RewrapFails \/ Rewrapped \/ Swap

Next == (\E q \in Request : RequestStep(q)) \/ (\E s \in Slot : Registry(s)) \/ JobStep \/ MasterStep

Spec == Init /\ [][Next]_vars

-----------------------------------------------------------------------------

(* Requests change what a slot resolves to as SecretSlots says, although   *)
(* each of them writes two tables in several steps.                        *)
Open == {[id |-> q, op |-> req[q].op, slot |-> req[q].slot] :
            q \in {p \in Request : pc[p] \in Under_way}}

Slots == INSTANCE SecretSlots WITH
    value <- [s \in Slot |-> Value(s)], open <- Open,
    drops <- faults["registry"], Drops <- Budget["registry"]

SlotsChangeByRequest == Slots!Spec

(* A value never comes back: once a request has been answered, its slot    *)
(* does not resolve to what had been answered before that request came.    *)
NoValueReturns == \A s \in Slot : Value(s) \notin Superseded

(* A row's vault ref resolves to an entry, however requests overlap or     *)
(* die, unless a deletion of the value was asked for.                      *)
RefsResolve ==
    \A s \in Slot : row[s] \in Request /\ entry[row[s]] = Absent =>
        \E q \in Request : pc[q] = "acked" /\ req[q].op = "delete" /\ ref[q] = row[s]

(* A job that is assembled has every secret its environment had a row for, *)
(* and none that had been superseded when the assembly began.              *)
JobSecretsSound ==
    job.pc = "done" =>
        /\ DOMAIN job.secrets = {s[1] : s \in DOMAIN job.rows}
        /\ \A n \in DOMAIN job.secrets : job.secrets[n].value \notin job.stale

(* vault.ts:236: while the master key is rotated, and however often that   *)
(* is broken off, every value opens under the old key or the new one.      *)
EveryEntryOpens == \A i \in Request : entry[i] # Absent => Readable(i)

(* Once the binding is swapped every value opens under it. *)
SwapCompletes == key = "new" => \A i \in Request : entry[i] # Absent => Opens(i, "new")
=============================================================================
