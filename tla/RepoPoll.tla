------------------------------ MODULE RepoPoll ------------------------------
(***************************************************************************)
(* The poller of public repositories: cron invocations walk the            *)
(* environments subscribed to a ref, fetch each ref's feed conditionally   *)
(* and turn a new head into a run, while heads move, subscriptions change  *)
(* and calls fail.  A step ends at an await.  Nothing stops two cron       *)
(* invocations from overlapping.                                           *)
(***************************************************************************)
EXTENDS Integers, SequencesExt

CONSTANTS
    Target, App, AppOf,  \* environments, apps, and the app an environment is of
    Ref, NoRef,          \* subscribed refs of a repository; none (manual only)
    Feed, TagFeed,       \* Atom feeds, and those of them that list tags
    NoFeed, FeedOf,      \* the feed that shows a ref (NoFeed: not pollable)
    Entry, NoEntry,      \* commits and tag names
    Matching,            \* the entries a ref's pattern covers
    NoEtag,
    Batch,               \* cron invocations that may overlap
    Budget               \* how often each disturbance may strike (a bound)

(* A feed that cannot be fetched, a D1 or queue call that throws, an       *)
(* invocation that dies, a push or a deletion in a repository, a change of *)
(* the registry.                                                           *)
Disturbance == {"fault", "push", "registry"}

ASSUME PollAssumption ==
    /\ AppOf \in [Target -> App]
    /\ TagFeed \subseteq Feed
    /\ NoFeed \notin Feed
    /\ FeedOf \in [Ref -> Feed \cup {NoFeed}]
    /\ Matching \in [Ref -> SUBSET Entry]
    /\ NoEntry \notin Entry
    /\ NoEtag \notin [feed : Feed, lists : Seq(Entry)]
    /\ NoRef \notin Ref
    /\ Budget \in [Disturbance -> Nat]

VARIABLES
    apps,     \* rows of apps (all of them public)
    sub,      \* trigger_ref of each row of app_envs; NoRef: none, or no row
    poll,     \* rows of repo_poll_state; BlankRow: none, or nothing seen yet
    content,  \* what each feed lists, newest first
    pc,       \* where each cron invocation is
    todo,     \* the eligible environments it has still to poll
    item,     \* the one it is polling
    prior,    \* the poll state it has read
    new,      \* the poll state it means to write
    faults,   \* disturbances of each kind still to come
    sent      \* history: the heads a message was sent for

batchVars == <<pc, todo, item, prior, new>>
vars == <<apps, sub, poll, content, batchVars, faults, sent>>

\* under: history, the ref whose pattern was applied to what the ETag stands for.
Etag == [feed : Feed, lists : Seq(Entry)] \cup {NoEtag}
PollRow == [etag : Etag, seen : Entry \cup {NoEntry}, under : Ref \cup {NoRef}]
BlankRow == [etag |-> NoEtag, seen |-> NoEntry, under |-> NoRef]

EligibleEnv == {e \in [target : Target, ref : Ref] : FeedOf[e.ref] \in Feed}
NoItem == [target |-> NoRef, ref |-> NoRef]

PC == {"idle", "next", "fetch", "create", "send", "store", "error", "sweep"}
Polling == {"fetch", "create", "send", "store", "error"}

TypeOK ==
    /\ apps \subseteq App
    /\ sub \in [Target -> Ref \cup {NoRef}]
    /\ poll \in [Target -> PollRow]
    /\ content \in [Feed -> Seq(Entry)]
    /\ pc \in [Batch -> PC]
    /\ todo \in [Batch -> SUBSET EligibleEnv]
    /\ item \in [Batch -> EligibleEnv \cup {NoItem}]
    /\ prior \in [Batch -> PollRow]
    /\ new \in [Batch -> PollRow]
    /\ faults \in [Disturbance -> Nat]
    /\ sent \subseteq Target \X (Entry \cup {NoEntry})
    /\ \A b \in Batch : pc[b] \in Polling => item[b] \in EligibleEnv

Init ==
    /\ apps = App
    /\ sub = [t \in Target |-> NoRef]
    /\ poll = [t \in Target |-> BlankRow]
    /\ content = [f \in Feed |-> <<>>]
    /\ pc = [b \in Batch |-> "idle"]
    /\ todo = [b \in Batch |-> {}]
    /\ item = [b \in Batch |-> NoItem]
    /\ prior = [b \in Batch |-> BlankRow]
    /\ new = [b \in Batch |-> BlankRow]
    /\ faults = Budget
    /\ sent = {}

Strike(k) == faults[k] > 0 /\ faults' = [faults EXCEPT ![k] = @ - 1]

-----------------------------------------------------------------------------
(* Feeds. *)

\* The newest entry of a list that is in `covered': what parseLatestEntry and
\* parseLatestTag return.
FirstIn(covered, list) ==
    LET IsFirst(i) == list[i] \in covered /\ \A j \in 1 .. i - 1 : list[j] \notin covered
    IN  IF \E i \in DOMAIN list : IsFirst(i)
        THEN list[CHOOSE i \in DOMAIN list : IsFirst(i)]
        ELSE NoEntry

Newest(ref, list) == FirstIn(Matching[ref], list)

\* An entity tag stands for what was served, at the URL it was served at.
EtagOf(f) == [feed |-> f, lists |-> content[f]]

Pollable(t) == AppOf[t] \in apps /\ sub[t] \in Ref /\ FeedOf[sub[t]] \in Feed

\* The head an environment should be at; NoEntry when it subscribes to none.
HeadOf(t) == IF Pollable(t) THEN Newest(sub[t], content[FeedOf[sub[t]]]) ELSE NoEntry

-----------------------------------------------------------------------------
(* One cron invocation. *)

Forget(b) ==
    /\ item' = [item EXCEPT ![b] = NoItem]
    /\ prior' = [prior EXCEPT ![b] = BlankRow]
    /\ new' = [new EXCEPT ![b] = BlankRow]

\* Out of scheduled(): by its end, by an exception, or by death.
Leave(b) ==
    /\ pc' = [pc EXCEPT ![b] = "idle"]
    /\ todo' = [todo EXCEPT ![b] = {}]
    /\ Forget(b)

Goto(b, l) == pc' = [pc EXCEPT ![b] = l] /\ UNCHANGED <<todo, item, prior, new>>

(* Plausible mistakes, for the mutation runs: a batch that does not skip   *)
(* unpollable refs, an upsert that never overwrites, a failed send that is *)
(* taken for done, error records with the new cursor or the new ETag, and  *)
(* errors that end the batch.                                              *)
StartUnfiltered(b) ==
    /\ pc[b] = "idle"
    /\ pc' = [pc EXCEPT ![b] = "next"]
    /\ todo' = [todo EXCEPT ![b] =
                   {[target |-> t, ref |-> sub[t]] : t \in {u \in Target : sub[u] \in Ref}}]
    /\ UNCHANGED <<item, prior, new, apps, sub, poll, content, faults, sent>>

StoreOnce(b) ==
    /\ pc[b] = "store"
    /\ poll' = [poll EXCEPT ![item[b].target] =
                   IF @ = BlankRow /\ AppOf[item[b].target] \in apps THEN new[b] ELSE @]
    /\ pc' = [pc EXCEPT ![b] = "next"]
    /\ Forget(b)
    /\ UNCHANGED <<todo, apps, sub, content, faults, sent>>

CallFailsQuietly(b) ==
    /\ pc[b] \in {"create", "send", "store"}
    /\ Strike("fault")
    /\ Goto(b, "store")
    /\ UNCHANGED <<apps, sub, poll, content, sent>>

RecordErrorAs(b, row) ==
    /\ pc[b] = "error"
    /\ AppOf[item[b].target] \in apps
    /\ poll' = [poll EXCEPT ![item[b].target] = row]
    /\ pc' = [pc EXCEPT ![b] = "next"]
    /\ Forget(b)
    /\ UNCHANGED <<todo, apps, sub, content, faults, sent>>

RecordErrorWithEtag(b) == RecordErrorAs(b, [new[b] EXCEPT !.seen = prior[b].seen])

RecordErrorThrows(b) ==
    /\ pc[b] = "error"
    /\ Leave(b)
    /\ UNCHANGED <<apps, sub, poll, content, faults, sent>>

\* getPollEligibleEnvs, once per batch; refs that no feed shows are skipped.
Start(b) ==
    /\ pc[b] = "idle"
    /\ pc' = [pc EXCEPT ![b] = "next"]
    /\ todo' = [todo EXCEPT ![b] = {[target |-> t, ref |-> sub[t]] : t \in {u \in Target : Pollable(u)}}]
    /\ UNCHANGED <<item, prior, new, apps, sub, poll, content, faults, sent>>

\* getRepoPollState of the next environment, whatever has become of it.
ReadPrior(b) ==
    /\ pc[b] = "next"
    /\ \E e \in todo[b] :
          /\ todo' = [todo EXCEPT ![b] = @ \ {e}]
          /\ item' = [item EXCEPT ![b] = e]
          /\ prior' = [prior EXCEPT ![b] = poll[e.target]]
          /\ pc' = [pc EXCEPT ![b] = "fetch"]
    /\ UNCHANGED <<new, apps, sub, poll, content, faults, sent>>

\* The response as a row to store, and the await that comes next.
Respond(b, l, row) ==
    /\ pc' = [pc EXCEPT ![b] = l]
    /\ new' = [new EXCEPT ![b] = row]
    /\ UNCHANGED <<todo, item, prior>>

Fetch(b) ==
    LET ref  == item[b].ref
        feed == FeedOf[ref]
        head == Newest(ref, content[feed])
        Row(seen) == [etag |-> EtagOf(feed), seen |-> seen, under |-> ref]
    IN  /\ pc[b] = "fetch"
        /\ \/ /\ prior[b].etag = EtagOf(feed)                  \* 304
              /\ Respond(b, "store", prior[b])
           \/ /\ prior[b].etag # EtagOf(feed)
              /\ \/ /\ head = NoEntry /\ feed \notin TagFeed   \* 404, unparseable
                    /\ Goto(b, "error")
                 \/ /\ head = NoEntry /\ feed \in TagFeed      \* no tag matches yet
                    /\ Respond(b, "store", Row(prior[b].seen))
                 \/ /\ head # NoEntry
                    /\ Respond(b, IF head = prior[b].seen THEN "store" ELSE "create",
                               Row(head))
        /\ UNCHANGED <<apps, sub, poll, content, faults, sent>>

FetchFails(b) ==
    /\ pc[b] = "fetch"
    /\ Strike("fault")
    /\ Goto(b, "error")
    /\ UNCHANGED <<apps, sub, poll, content, sent>>

\* Rows of runs and of repo_poll_state refer to apps, not to app_envs.
HasApp(b) == AppOf[item[b].target] \in apps

CreateRun(b) ==
    /\ pc[b] = "create"
    /\ Goto(b, IF HasApp(b) THEN "send" ELSE "error")
    /\ UNCHANGED <<apps, sub, poll, content, faults, sent>>

Send(b) ==
    /\ pc[b] = "send"
    /\ sent' = sent \cup {<<item[b].target, new[b].seen>>}
    /\ Goto(b, "store")
    /\ UNCHANGED <<apps, sub, poll, content, faults>>

\* upsertRepoPollState, then the next environment.
Store(b) ==
    /\ pc[b] = "store"
    /\ IF HasApp(b)
       THEN /\ poll' = [poll EXCEPT ![item[b].target] = new[b]]
            /\ pc' = [pc EXCEPT ![b] = "next"]
            /\ Forget(b)
            /\ UNCHANGED todo
       ELSE /\ Goto(b, "error")
            /\ UNCHANGED poll
    /\ UNCHANGED <<apps, sub, content, faults, sent>>

\* createRun, send or the upsert throws inside the try.
CallFails(b) ==
    /\ pc[b] \in {"create", "send", "store"}
    /\ Strike("fault")
    /\ Goto(b, "error")
    /\ UNCHANGED <<apps, sub, poll, content, sent>>

\* recordError writes back the row that was read.  It is called from the
\* catch: what it throws ends the batch, and scheduled() with it.
RecordError(b) ==
    /\ pc[b] = "error"
    /\ IF HasApp(b)
       THEN /\ poll' = [poll EXCEPT ![item[b].target] = prior[b]]
            /\ pc' = [pc EXCEPT ![b] = "next"]
            /\ Forget(b)
            /\ UNCHANGED todo
       ELSE Leave(b) /\ UNCHANGED poll
    /\ UNCHANGED <<apps, sub, content, faults, sent>>

\* Outside any try: listing, reading the prior state, recordError itself.
BatchThrows(b) ==
    /\ pc[b] \in {"next", "error"}
    /\ Strike("fault")
    /\ Leave(b)
    /\ UNCHANGED <<apps, sub, poll, content, sent>>

BatchDone(b) ==
    /\ pc[b] = "next" /\ todo[b] = {}
    /\ Goto(b, "sweep")
    /\ UNCHANGED <<apps, sub, poll, content, faults, sent>>

\* sweepStaleRuns (action Sweep of RunLifecycle), the end of scheduled().
SweepRuns(b) ==
    /\ pc[b] = "sweep"
    /\ Leave(b)
    /\ UNCHANGED <<apps, sub, poll, content, faults, sent>>

Dies(b) ==
    /\ pc[b] # "idle"
    /\ Strike("fault")
    /\ Leave(b)
    /\ UNCHANGED <<apps, sub, poll, content, sent>>

-----------------------------------------------------------------------------
(* The repository and the registry, meanwhile. *)

Repository(f) ==
    /\ Strike("push")
    /\ \/ /\ f \notin TagFeed          \* a push, a forced one too, or a deleted branch
          /\ \E lists \in {<<>>} \cup {<<e>> : e \in Entry} :
                /\ lists # content[f]
                /\ content' = [content EXCEPT ![f] = lists]
       \/ /\ f \in TagFeed             \* a new tag
          /\ \E e \in Entry : /\ \A i \in DOMAIN content[f] : content[f][i] # e
                              /\ content' = [content EXCEPT ![f] = <<e>> \o @]
       \/ /\ f \in TagFeed             \* a deleted tag
          /\ \E i \in DOMAIN content[f] :
                content' = [content EXCEPT ![f] = RemoveAt(@, i)]
    /\ UNCHANGED <<apps, sub, poll, batchVars, sent>>

\* A ref is unique within an app: idx_app_envs_trigger.
PutAppEnv(t, ref) ==
    /\ AppOf[t] \in apps
    /\ sub[t] # ref
    /\ \A u \in Target \ {t} : AppOf[u] = AppOf[t] => sub[u] # ref
    /\ Strike("registry")
    /\ sub' = [sub EXCEPT ![t] = ref]
    /\ UNCHANGED <<apps, poll, content, batchVars, sent>>

\* The environment's row goes, or loses its ref; its poll state stays.
DeleteAppEnv(t) ==
    /\ sub[t] # NoRef
    /\ Strike("registry")
    /\ sub' = [sub EXCEPT ![t] = NoRef]
    /\ UNCHANGED <<apps, poll, content, batchVars, sent>>

\* The cascade takes environments and poll states along.
DeleteApp(a) ==
    /\ a \in apps
    /\ Strike("registry")
    /\ apps' = apps \ {a}
    /\ sub' = [t \in Target |-> IF AppOf[t] = a THEN NoRef ELSE sub[t]]
    /\ poll' = [t \in Target |-> IF AppOf[t] = a THEN BlankRow ELSE poll[t]]
    /\ UNCHANGED <<content, batchVars, sent>>

CreateApp(a) ==
    /\ a \notin apps
    /\ Strike("registry")
    /\ apps' = apps \cup {a}
    /\ UNCHANGED <<sub, poll, content, batchVars, sent>>

-----------------------------------------------------------------------------

Progress(b) ==
    \/ Start(b) \/ ReadPrior(b) \/ Fetch(b) \/ CreateRun(b) \/ Send(b) \/ Store(b)
    \/ RecordError(b) \/ BatchDone(b) \/ SweepRuns(b)

Mishap(b) == FetchFails(b) \/ CallFails(b) \/ BatchThrows(b) \/ Dies(b)

Outside ==
    \/ \E f \in Feed : Repository(f)
    \/ \E t \in Target : DeleteAppEnv(t) \/ \E ref \in Ref : PutAppEnv(t, ref)
    \/ \E a \in App : DeleteApp(a) \/ CreateApp(a)

Next == (\E b \in Batch : Progress(b) \/ Mishap(b)) \/ Outside

Spec == Init /\ [][Next]_vars

\* The cron fires for ever, and an invocation moves on unless it dies: every
\* call it awaits is answered, fails, or is cut off by the platform.
CronSpec == Spec /\ \A b \in Batch : WF_vars(Progress(b))

-----------------------------------------------------------------------------

Sent(t, e) == e = NoEntry \/ <<t, e>> \in sent

(* No commit or tag is taken for seen before its message is in the queue,  *)
(* whatever fails between createRun, send and the upsert, and whichever    *)
(* overlapping invocation writes last.                                     *)
CursorMeansSent == \A t \in Target : Sent(t, poll[t].seen)

(* A 304 never hides a head from the pattern that has been applied to it:  *)
(* when an environment's stored ETag is its feed's current one, what the   *)
(* ref of its time matches first in the feed has been sent.                *)
NotModifiedIsSafe ==
    \A t \in Target :
        LET feed == FeedOf[sub[t]] IN
        Pollable(t) /\ poll[t].etag = EtagOf(feed) => Sent(t, Newest(poll[t].under, content[feed]))

(* Neither the cursor nor the ETag gets ahead of the queue.                *)
HeadsAreSent == CursorMeansSent /\ NotModifiedIsSafe

\* The pattern was changed, and the feed has not: every fetch is answered 304.
Hidden(t) == /\ poll[t].etag = EtagOf(FeedOf[sub[t]])
             /\ Newest(poll[t].under, content[FeedOf[sub[t]]]) # HeadOf(t)

(* repo-poll.ts:6: the head at which a subscribed ref comes to rest is     *)
(* sent, if the failures end; but for one of a pattern that has taken the  *)
(* place of another while the feed stayed as it was.                       *)
EveryHeadTriggers == \A t \in Target : <>[](Sent(t, HeadOf(t)) \/ Hidden(t))

(* When repositories, registry and failures come to rest, so do the        *)
(* deploys: no head is triggered over and over.                            *)
PollingQuietens == <>[][\A b \in Batch : ~Send(b)]_vars

(* The sweep of stale runs comes after the poll in the same invocation: no *)
(* feed, however long it stays broken, keeps the sweep from running.       *)
SweepRecurs == []<>(\E b \in Batch : pc[b] = "sweep")
=============================================================================
