----------------------------- MODULE DeployLock -----------------------------
(***************************************************************************)
(* The DeployLock Durable Object: one lease per (app, env).  A lease names *)
(* its holder (a run id) and lapses `LockTTL' units after it was taken.    *)
(* `left' counts down to the lease's expiresAt: 0 is "expired or none".    *)
(***************************************************************************)
EXTENDS RunTypes

CONSTANT LockTTL

ASSUME LockTTLAssumption == LockTTL \in Nat \ {0}

VARIABLES holder, left

lockVars == <<holder, left>>

LockTypeOK ==
    /\ holder \in [Target -> Run \cup {NoRun}]
    /\ left \in [Target -> 0 .. LockTTL]

LockInit ==
    /\ holder = [t \in Target |-> NoRun]
    /\ left = [t \in Target |-> 0]

\* A lease is honoured while now < expiresAt, whoever asks.
Live(t) == left[t] > 0

\* Plausible mistakes, for the mutation runs: the lease is not looked at;
\* its TTL is shorter than the deploy it has to cover.
AcquireUnchecked(t, r) ==
    /\ holder' = [holder EXCEPT ![t] = r]
    /\ left' = [left EXCEPT ![t] = LockTTL]

AcquireBriefly(t, r) ==
    /\ ~Live(t)
    /\ holder' = [holder EXCEPT ![t] = r]
    /\ left' = [left EXCEPT ![t] = LockTTL - 1]

\* acquire(): the slot is free or its lease has lapsed.
Acquire(t, r) ==
    /\ ~Live(t)
    /\ holder' = [holder EXCEPT ![t] = r]
    /\ left' = [left EXCEPT ![t] = LockTTL]

\* release(): deletes the lease iff `r' is its holder, lapsed or not.
Release(t, r) ==
    IF holder[t] = r
    THEN /\ holder' = [holder EXCEPT ![t] = NoRun]
         /\ left' = [left EXCEPT ![t] = 0]
    ELSE UNCHANGED lockVars

LeaseTick ==
    /\ left' = [t \in Target |-> Down(left[t])]
    /\ UNCHANGED holder
=============================================================================
