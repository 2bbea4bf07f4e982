--------------------------- MODULE RepoPollProofs ---------------------------
(***************************************************************************)
(* Proofs about RepoPoll for every set of environments, refs, feeds and    *)
(* overlapping cron invocations, and every budget.                         *)
(***************************************************************************)
EXTENDS RepoPoll, TLAPS

(* A ref whose feed shows the same entries for every ref: a branch, always, *)
(* for its feed is its own; a tag pattern if no other pattern is looked for *)
(* in the tags of its repository.                                          *)
OwnPattern(ref) ==
    \A s \in Ref : FeedOf[s] = FeedOf[ref] => Matching[s] = Matching[ref]

(* With the messages in `history' sent, row is safe for t: what it has     *)
(* seen was sent, and so was what the ref it was filled for matches first  *)
(* in the list that its ETag stands for, a list of that ref's feed.        *)
SentIn(history, t, e) == e = NoEntry \/ <<t, e>> \in history

EtagSafe(history, t, row) ==
    \A feed \in Feed : \A list \in Seq(Entry) :
        row.etag = [feed |-> feed, lists |-> list] =>
            /\ row.under \in Ref /\ FeedOf[row.under] = feed
            /\ SentIn(history, t, Newest(row.under, list))

RowSafe(history, t, row) == SentIn(history, t, row.seen) /\ EtagSafe(history, t, row)

\* The row's cursor is the newest match of the very list its ETag is of.
Served(ref, row) ==
    /\ row.seen \in Entry
    /\ row.under = ref
    /\ \E list \in Seq(Entry) :
          /\ row.etag = [feed |-> FeedOf[ref], lists |-> list]
          /\ row.seen = Newest(ref, list)

(* What an invocation holds is safe to write: the row it read, always; the *)
(* row it means to write, once its message is sent.                        *)
HeldSafe(b) ==
    /\ pc[b] \in Polling => RowSafe(sent, item[b].target, prior[b])
    /\ pc[b] = "store" => RowSafe(sent, item[b].target, new[b])
    /\ pc[b] \in {"create", "send"} => Served(item[b].ref, new[b])

SafeInv ==
    /\ \A t \in Target : RowSafe(sent, t, poll[t])
    /\ \A b \in Batch : HeldSafe(b)

PollInv == TypeOK /\ SafeInv

-----------------------------------------------------------------------------

(* The newest match of a list is one of its entries. *)
LEMMA FirstInTyped ==
    ASSUME NEW covered, NEW list \in Seq(Entry)
    PROVE  FirstIn(covered, list) \in Entry \cup {NoEntry}
  BY DEF FirstIn

(* The three things that can happen to a feed leave it a list of entries. *)
LEMMA FeedTyped ==
    ASSUME NEW list \in Seq(Entry)
    PROVE  /\ <<>> \in Seq(Entry)
           /\ \A e \in Entry : <<e>> \in Seq(Entry) /\ <<e>> \o list \in Seq(Entry)
           /\ \A i \in DOMAIN list : RemoveAt(list, i) \in Seq(Entry)
  BY DEF RemoveAt

LEMMA BlankRowSafe ==
    ASSUME NEW history, NEW t PROVE BlankRow \in PollRow /\ RowSafe(history, t, BlankRow)
  BY PollAssumption DEF BlankRow, PollRow, Etag, RowSafe, SentIn, EtagSafe

(* A row that is safe stays safe: messages are not unsent. *)
LEMMA SafeForEver ==
    ASSUME NEW h, NEW k, h \subseteq k, NEW t, NEW row, RowSafe(h, t, row)
    PROVE  RowSafe(k, t, row)
  BY DEF RowSafe, SentIn, EtagSafe

(* A row is safe once what it has seen has been sent, and what its ref     *)
(* matches first in its list.                                              *)
LEMMA HeadSafe ==
    ASSUME NEW ref \in Ref, FeedOf[ref] \in Feed, NEW list \in Seq(Entry), NEW row,
           row.etag = [feed |-> FeedOf[ref], lists |-> list], row.under = ref,
           NEW history, NEW t, SentIn(history, t, row.seen), SentIn(history, t, Newest(ref, list))
    PROVE  RowSafe(history, t, row)
  <1>1. ASSUME NEW f \in Feed, NEW l \in Seq(Entry), row.etag = [feed |-> f, lists |-> l]
        PROVE  f = FeedOf[ref] /\ l = list
    BY <1>1
  <1>2. QED
    BY <1>1 DEF EtagSafe, RowSafe

(* Sending the served head makes the row safe. *)
LEMMA ServedBecomesSafe ==
    ASSUME NEW ref \in Ref, FeedOf[ref] \in Feed,
           NEW t, NEW row, Served(ref, row), NEW history, <<t, row.seen>> \in history
    PROVE  RowSafe(history, t, row)
  BY HeadSafe DEF Served, RowSafe, SentIn

-----------------------------------------------------------------------------
(* Type correctness. *)

SharedTypeOK ==
    /\ apps \subseteq App
    /\ sub \in [Target -> Ref \cup {NoRef}]
    /\ poll \in [Target -> PollRow]
    /\ content \in [Feed -> Seq(Entry)]
    /\ faults \in [Disturbance -> Nat]
    /\ sent \subseteq Target \X (Entry \cup {NoEntry})

BatchTypeOK ==
    /\ pc \in [Batch -> PC]
    /\ todo \in [Batch -> SUBSET EligibleEnv]
    /\ item \in [Batch -> EligibleEnv \cup {NoItem}]
    /\ prior \in [Batch -> PollRow]
    /\ new \in [Batch -> PollRow]
    /\ \A b \in Batch : pc[b] \in Polling => item[b] \in EligibleEnv

LEMMA TypeParts == TypeOK <=> SharedTypeOK /\ BatchTypeOK
  BY DEF TypeOK, SharedTypeOK, BatchTypeOK

LEMMA InitTyped == Init => TypeOK
  <1> SUFFICES ASSUME Init PROVE TypeOK
    OBVIOUS
  <1>1. SharedTypeOK
    <2>1. content \in [Feed -> Seq(Entry)]
      BY DEF Init
    <2>2. QED
      BY <2>1, PollAssumption, BlankRowSafe DEF Init, SharedTypeOK
  <1>2. BatchTypeOK
    BY BlankRowSafe DEF Init, BatchTypeOK, PC, Polling
  <1>3. QED
    BY <1>1, <1>2, TypeParts

LEMMA StrikeTyped ==
    ASSUME faults \in [Disturbance -> Nat]
    PROVE  \A k \in Disturbance : Strike(k) => faults' \in [Disturbance -> Nat]
  BY DEF Strike

(* What a polled environment is served. *)
LEMMA ServedTyped ==
    ASSUME TypeOK, NEW b \in Batch, pc[b] \in Polling
    PROVE  /\ item[b] \in EligibleEnv
           /\ item[b].target \in Target /\ item[b].ref \in Ref
           /\ FeedOf[item[b].ref] \in Feed
           /\ content[FeedOf[item[b].ref]] \in Seq(Entry)
           /\ EtagOf(FeedOf[item[b].ref]) \in Etag
           /\ Newest(item[b].ref, content[FeedOf[item[b].ref]]) \in Entry \cup {NoEntry}
           /\ prior[b] \in PollRow /\ prior[b].seen \in Entry \cup {NoEntry}
           /\ new[b] \in PollRow
  BY FirstInTyped DEF TypeOK, EligibleEnv, EtagOf, Etag, Newest, PollRow

(* A move of one invocation keeps what the invocations hold typed. *)
LEMMA MoveTyped ==
    ASSUME BatchTypeOK, NEW b \in Batch
    PROVE  /\ \A l \in PC : (l \in Polling => pc[b] \in Polling) /\ Goto(b, l) => BatchTypeOK'
           /\ \A l \in PC : \A row \in PollRow :
                 (l \in Polling => pc[b] \in Polling) /\ Respond(b, l, row) => BatchTypeOK'
           /\ Leave(b) => BatchTypeOK'
           /\ pc' = [pc EXCEPT ![b] = "next"] /\ Forget(b) /\ UNCHANGED todo => BatchTypeOK'
  <1>1. ASSUME NEW l \in PC, l \in Polling => pc[b] \in Polling, Goto(b, l)
        PROVE  BatchTypeOK'
    BY <1>1 DEF BatchTypeOK, Goto
  <1>2. ASSUME NEW l \in PC, NEW row \in PollRow, l \in Polling => pc[b] \in Polling,
               Respond(b, l, row)
        PROVE  BatchTypeOK'
    BY <1>2 DEF BatchTypeOK, Respond
  <1>3. CASE Leave(b)
    BY <1>3, BlankRowSafe DEF BatchTypeOK, Leave, Forget, PC, Polling
  <1>4. CASE pc' = [pc EXCEPT ![b] = "next"] /\ Forget(b) /\ UNCHANGED todo
    BY <1>4, BlankRowSafe DEF BatchTypeOK, Forget, PC, Polling
  <1>5. QED
    BY <1>1, <1>2, <1>3, <1>4

(* No step of an invocation, and nothing that befalls it, spoils a type. *)
LEMMA BatchTyped ==
    ASSUME TypeOK, NEW b \in Batch, Progress(b) \/ Mishap(b)
    PROVE  TypeOK'
  <1> USE TypeParts
  <1> SUFFICES SharedTypeOK' /\ BatchTypeOK'
    BY DEF TypeOK, SharedTypeOK, BatchTypeOK
  <1>a. SharedTypeOK /\ BatchTypeOK
    OBVIOUS
  <1>b. \A l \in {"store", "error", "create", "send", "fetch"} : l \in Polling /\ l \in PC
    BY DEF Polling, PC
  <1>c. ASSUME UNCHANGED <<apps, sub, poll, content, sent>>,
               UNCHANGED faults \/ \E k \in Disturbance : Strike(k)
        PROVE  SharedTypeOK'
    BY <1>a, <1>c, StrikeTyped DEF SharedTypeOK
  <1>d. "fault" \in Disturbance
    BY DEF Disturbance
  <1>1. CASE Start(b)
    <2>1. {[target |-> t, ref |-> sub[t]] : t \in {u \in Target : Pollable(u)}} \subseteq EligibleEnv
      BY DEF EligibleEnv, Pollable
    <2>2. BatchTypeOK'
      BY <1>a, <1>1, <2>1 DEF Start, BatchTypeOK, PC, Polling
    <2>3. QED
      BY <1>1, <1>c, <2>2 DEF Start
  <1>2. CASE ReadPrior(b)
    <2>1. BatchTypeOK'
      <3>1. PICK e \in todo[b] :
                /\ todo' = [todo EXCEPT ![b] = @ \ {e}]
                /\ item' = [item EXCEPT ![b] = e]
                /\ prior' = [prior EXCEPT ![b] = poll[e.target]]
                /\ pc' = [pc EXCEPT ![b] = "fetch"]
        BY <1>2 DEF ReadPrior
      <3>2. e \in EligibleEnv /\ poll[e.target] \in PollRow
        BY <1>a DEF BatchTypeOK, SharedTypeOK, EligibleEnv
      <3>3. new' = new
        BY <1>2 DEF ReadPrior
      <3>4. QED
        BY <1>a, <3>1, <3>2, <3>3 DEF BatchTypeOK, PC
    <2>2. QED
      BY <1>2, <1>c, <2>1 DEF ReadPrior
  <1>3. CASE Fetch(b)
    <2>1. pc[b] \in Polling
      BY <1>3 DEF Fetch, Polling
    <2> DEFINE feed == FeedOf[item[b].ref]
               head == Newest(item[b].ref, content[feed])
               Row(seen) == [etag |-> EtagOf(feed), seen |-> seen, under |-> item[b].ref]
    <2>2. /\ Row(prior[b].seen) \in PollRow
          /\ head # NoEntry => Row(head) \in PollRow
          /\ prior[b] \in PollRow
      BY <2>1, ServedTyped DEF PollRow
    <2>3. BatchTypeOK'
      BY <1>a, <1>b, <1>3, <2>1, <2>2, MoveTyped DEF Fetch
    <2>4. QED
      BY <1>3, <1>c, <2>3 DEF Fetch
  <1>4. CASE CreateRun(b)
    BY <1>a, <1>b, <1>c, <1>4, MoveTyped DEF CreateRun
  <1>5. CASE Send(b)
    <2>1. pc[b] \in Polling /\ BatchTypeOK'
      BY <1>a, <1>b, <1>5, MoveTyped DEF Send
    <2>2. SharedTypeOK'
      BY <1>a, <1>5, <2>1, ServedTyped DEF Send, SharedTypeOK, PollRow
    <2>3. QED
      BY <2>1, <2>2
  <1>6. CASE Store(b)
    <2>1. pc[b] \in Polling
      BY <1>6 DEF Store, Polling
    <2>2. BatchTypeOK'
      BY <1>a, <1>b, <1>6, <2>1, MoveTyped DEF Store
    <2>3. SharedTypeOK'
      BY <1>a, <1>6, <2>1, ServedTyped DEF Store, SharedTypeOK
    <2>4. QED
      BY <2>2, <2>3
  <1>7. CASE RecordError(b)
    <2>1. pc[b] \in Polling
      BY <1>7 DEF RecordError, Polling
    <2>2. BatchTypeOK'
      BY <1>a, <1>7, MoveTyped DEF RecordError
    <2>3. SharedTypeOK'
      BY <1>a, <1>7, <2>1, ServedTyped DEF RecordError, SharedTypeOK
    <2>4. QED
      BY <2>2, <2>3
  <1>8. CASE BatchDone(b)
    BY <1>a, <1>c, <1>8, MoveTyped DEF BatchDone, PC, Polling
  <1>9. CASE SweepRuns(b)
    BY <1>a, <1>c, <1>9, MoveTyped DEF SweepRuns
  <1>10. CASE FetchFails(b)
    BY <1>a, <1>b, <1>c, <1>d, <1>10, MoveTyped DEF FetchFails
  <1>11. CASE CallFails(b)
    BY <1>a, <1>b, <1>c, <1>d, <1>11, MoveTyped DEF CallFails
  <1>12. CASE BatchThrows(b)
    BY <1>a, <1>c, <1>d, <1>12, MoveTyped DEF BatchThrows
  <1>13. CASE Dies(b)
    BY <1>a, <1>c, <1>d, <1>13, MoveTyped DEF Dies
  <1>14. QED
    BY <1>1, <1>2, <1>3, <1>4, <1>5, <1>6, <1>7, <1>8, <1>9, <1>10, <1>11, <1>12, <1>13
       DEF Progress, Mishap

(* Nor does anything outside. *)
LEMMA OutsideTyped ==
    ASSUME TypeOK, Outside
    PROVE  TypeOK'
  <1>1. SharedTypeOK'
    <2> USE DEF Disturbance
    <2>0. SharedTypeOK
      BY TypeParts
    <2>1. ASSUME NEW f \in Feed, Repository(f) PROVE SharedTypeOK'
      <3>1. content' \in [Feed -> Seq(Entry)]
        <4>1. content[f] \in Seq(Entry) /\ content \in [Feed -> Seq(Entry)]
          BY <2>0, <2>1 DEF SharedTypeOK
        <4>2. CASE \E e \in Entry : content' = [content EXCEPT ![f] = <<e>> \o @]
          BY <4>1, <4>2, FeedTyped
        <4>3. CASE \E i \in DOMAIN content[f] : content' = [content EXCEPT ![f] = RemoveAt(@, i)]
          BY <4>1, <4>3, FeedTyped
        <4>4. CASE \E l \in {<<>>} \cup {<<e>> : e \in Entry} : content' = [content EXCEPT ![f] = l]
          BY <4>1, <4>4, FeedTyped
        <4>5. QED
          BY <2>1, <4>2, <4>3, <4>4 DEF Repository
      <3>2. QED
        BY <2>0, <2>1, <3>1, StrikeTyped DEF Repository, SharedTypeOK
    <2>2. ASSUME NEW t \in Target, NEW ref \in Ref, PutAppEnv(t, ref) PROVE SharedTypeOK'
      BY <2>0, <2>2, StrikeTyped DEF PutAppEnv, SharedTypeOK
    <2>3. ASSUME NEW t \in Target, DeleteAppEnv(t) PROVE SharedTypeOK'
      BY <2>0, <2>3, StrikeTyped DEF DeleteAppEnv, SharedTypeOK
    <2>4. ASSUME NEW a \in App, DeleteApp(a) PROVE SharedTypeOK'
      BY <2>0, <2>4, StrikeTyped, BlankRowSafe DEF DeleteApp, SharedTypeOK
    <2>5. ASSUME NEW a \in App, CreateApp(a) PROVE SharedTypeOK'
      BY <2>0, <2>5, StrikeTyped DEF CreateApp, SharedTypeOK
    <2>6. QED
      BY <2>1, <2>2, <2>3, <2>4, <2>5 DEF Outside
  <1>2. UNCHANGED batchVars
    BY DEF Outside, Repository, PutAppEnv, DeleteAppEnv, DeleteApp, CreateApp
  <1>3. QED
    BY <1>1, <1>2 DEF TypeOK, SharedTypeOK, batchVars

LEMMA TypeStep ==
    ASSUME TypeOK, [Next]_vars
    PROVE  TypeOK'
  <1>1. CASE UNCHANGED vars
    BY <1>1 DEF vars, batchVars, TypeOK
  <1>2. CASE Next
    BY <1>2, BatchTyped, OutsideTyped DEF Next
  <1>3. QED
    BY <1>1, <1>2

(* Every variable keeps its type. *)
THEOREM PollTypeCorrect == Spec => []TypeOK
  BY InitTyped, TypeStep, PTL DEF Spec

-----------------------------------------------------------------------------
(* The safety invariant. *)

OthersStay(b) ==
    \A d \in Batch \ {b} :
        pc'[d] = pc[d] /\ item'[d] = item[d] /\ prior'[d] = prior[d] /\ new'[d] = new[d]

(* Invocations that do not move keep what they hold, and it stays safe. *)
LEMMA OthersSafe ==
    ASSUME SafeInv, NEW d \in Batch, sent \subseteq sent',
           pc'[d] = pc[d], item'[d] = item[d], prior'[d] = prior[d], new'[d] = new[d]
    PROVE  HeldSafe(d)'
  BY SafeForEver DEF SafeInv, HeldSafe

(* So do rows that nobody writes. *)
LEMMA RowsSafe ==
    ASSUME SafeInv, sent \subseteq sent', UNCHANGED poll
    PROVE  (\A t \in Target : RowSafe(sent, t, poll[t]))'
  BY SafeForEver DEF SafeInv

(* A row stays safe when a safe one is written over it. *)
LEMMA WriteSafe ==
    ASSUME SafeInv, TypeOK, UNCHANGED sent, NEW t \in Target, NEW row, RowSafe(sent, t, row),
           poll' = [poll EXCEPT ![t] = row]
    PROVE  (\A u \in Target : RowSafe(sent, u, poll[u]))'
  <1>1. ASSUME NEW u \in Target PROVE RowSafe(sent', u, poll'[u])
    BY <1>1 DEF SafeInv, TypeOK
  <1>2. QED
    BY <1>1

(* An invocation at `error', or out of the loop, holds what it read. *)
LEMMA MoveSafe ==
    ASSUME SafeInv, TypeOK, NEW b \in Batch, UNCHANGED sent
    PROVE  /\ Goto(b, "error") /\ pc[b] \in Polling => HeldSafe(b)' /\ OthersStay(b)
           /\ Goto(b, "sweep") => HeldSafe(b)' /\ OthersStay(b)
           /\ Leave(b) => HeldSafe(b)' /\ OthersStay(b)
           /\ pc' = [pc EXCEPT ![b] = "next"] /\ Forget(b) => HeldSafe(b)' /\ OthersStay(b)
  <1>1. CASE Goto(b, "error") /\ pc[b] \in Polling
    BY <1>1 DEF SafeInv, TypeOK, HeldSafe, OthersStay, Goto, Polling
  <1>2. CASE Goto(b, "sweep")
    BY <1>2 DEF TypeOK, HeldSafe, OthersStay, Goto, Polling
  <1>3. CASE Leave(b)
    BY <1>3 DEF TypeOK, HeldSafe, OthersStay, Leave, Forget, Polling
  <1>4. CASE pc' = [pc EXCEPT ![b] = "next"] /\ Forget(b)
    BY <1>4 DEF TypeOK, HeldSafe, OthersStay, Forget, Polling
  <1>5. QED
    BY <1>1, <1>2, <1>3, <1>4

(* What an invocation reads, is served, sends and writes is safe. *)
LEMMA BatchSafe ==
    ASSUME TypeOK, SafeInv, NEW b \in Batch, Progress(b) \/ Mishap(b)
    PROVE  SafeInv'
  <1>a. SUFFICES /\ sent \subseteq sent'
                 /\ (\A t \in Target : RowSafe(sent, t, poll[t]))'
                 /\ HeldSafe(b)' /\ OthersStay(b)
    BY OthersSafe DEF SafeInv, OthersStay
  <1>b. pc[b] \in Polling => item[b].target \in Target /\ item[b].ref \in Ref /\ FeedOf[item[b].ref] \in Feed
    BY ServedTyped
  <1>c. \A l \in {"store", "error", "create", "send", "fetch"} : l \in Polling
    BY DEF Polling
  <1>1. CASE Start(b)
    <2>1. HeldSafe(b)' /\ OthersStay(b)
      BY <1>1 DEF Start, TypeOK, HeldSafe, OthersStay, Polling
    <2>2. QED
      BY <1>1, <2>1, RowsSafe DEF Start
  <1>2. CASE ReadPrior(b)
    <2>1. PICK e \in todo[b] :
              /\ item' = [item EXCEPT ![b] = e]
              /\ prior' = [prior EXCEPT ![b] = poll[e.target]]
              /\ pc' = [pc EXCEPT ![b] = "fetch"]
      BY <1>2 DEF ReadPrior
    <2>2. e.target \in Target
      BY DEF TypeOK, EligibleEnv
    <2>3. UNCHANGED <<new, poll, sent>>
      BY <1>2 DEF ReadPrior
    <2>4. RowSafe(sent', item'[b].target, prior'[b]) /\ pc'[b] = "fetch"
      BY <2>1, <2>2, <2>3 DEF SafeInv, TypeOK
    <2>5. OthersStay(b)
      BY <2>1, <2>3 DEF OthersStay, TypeOK
    <2>6. QED
      BY <2>3, <2>4, <2>5, RowsSafe DEF HeldSafe
  <1>3. CASE Fetch(b)
    <2> DEFINE ref == item[b].ref
               feed == FeedOf[ref]
               list == content[feed]
               head == Newest(ref, list)
    <2>1. pc[b] \in Polling /\ UNCHANGED <<sent, poll>>
      BY <1>3, <1>c DEF Fetch
    <2>2. RowSafe(sent, item[b].target, prior[b])
      BY <2>1 DEF SafeInv, HeldSafe
    <2>3. list \in Seq(Entry) /\ head \in Entry \cup {NoEntry} /\ EtagOf(feed) = [feed |-> feed, lists |-> list]
      BY <2>1, ServedTyped DEF EtagOf
    <2>4. Goto(b, "error") \/ \E l \in {"store", "create"}, row \in PollRow :
              /\ Respond(b, l, row)
              /\ l = "store" => RowSafe(sent, item[b].target, row)
              /\ l = "create" => Served(ref, row)
      <3>1. CASE prior[b].etag = EtagOf(feed)
        BY <1>3, <2>1, <2>2, <3>1, ServedTyped DEF Fetch
      <3>2. CASE head = NoEntry /\ feed \in TagFeed /\ prior[b].etag # EtagOf(feed)
        <4> DEFINE row == [etag |-> EtagOf(feed), seen |-> prior[b].seen, under |-> ref]
        <4>1. row \in PollRow
          BY <2>1, ServedTyped DEF PollRow
        <4>2. RowSafe(sent, item[b].target, row)
          BY <1>b, <2>1, <2>2, <2>3, <3>2, HeadSafe DEF RowSafe, SentIn
        <4>3. Respond(b, "store", row)
          BY <1>3, <3>2 DEF Fetch
        <4>4. QED
          BY <4>1, <4>2, <4>3
      <3>3. CASE head # NoEntry /\ prior[b].etag # EtagOf(feed)
        <4> DEFINE row == [etag |-> EtagOf(feed), seen |-> head, under |-> ref]
        <4>1. row \in PollRow
          BY <2>1, <2>3, ServedTyped DEF PollRow
        <4>2. Served(ref, row)
          BY <2>3, <3>3 DEF Served
        <4>3. head = prior[b].seen => RowSafe(sent, item[b].target, row)
          BY <1>b, <2>1, <2>2, <2>3, HeadSafe DEF RowSafe
        <4>4. Respond(b, IF head = prior[b].seen THEN "store" ELSE "create", row)
          BY <1>3, <3>3 DEF Fetch
        <4>5. QED
          BY <4>1, <4>2, <4>3, <4>4
      <3>4. CASE head = NoEntry /\ feed \notin TagFeed /\ prior[b].etag # EtagOf(feed)
        BY <1>3, <3>4 DEF Fetch
      <3>5. QED
        BY <3>1, <3>2, <3>3, <3>4
    <2>5. CASE Goto(b, "error")
      BY <2>1, <2>5, RowsSafe, MoveSafe
    <2>6. ASSUME NEW l \in {"store", "create"}, NEW row \in PollRow, Respond(b, l, row),
                 l = "store" => RowSafe(sent, item[b].target, row),
                 l = "create" => Served(ref, row)
          PROVE  HeldSafe(b)' /\ OthersStay(b)
      BY <2>1, <2>2, <2>6 DEF Respond, HeldSafe, OthersStay, TypeOK
    <2>7. QED
      BY <2>1, <2>4, <2>5, <2>6, RowsSafe
  <1>4. CASE CreateRun(b)
    <2>1. HeldSafe(b)' /\ OthersStay(b)
      BY <1>4 DEF CreateRun, Goto, SafeInv, HeldSafe, OthersStay, TypeOK, Polling
    <2>2. QED
      BY <1>4, <2>1, RowsSafe DEF CreateRun
  <1>5. CASE Send(b)
    <2>1. /\ pc[b] \in Polling /\ UNCHANGED <<item, prior, new, poll>>
          /\ sent \subseteq sent' /\ <<item[b].target, new[b].seen>> \in sent'
          /\ pc' = [pc EXCEPT ![b] = "store"]
      BY <1>5, <1>c DEF Send, Goto
    <2>2. RowSafe(sent', item[b].target, new[b])
      <3>1. Served(item[b].ref, new[b])
        BY <1>5 DEF Send, SafeInv, HeldSafe
      <3>2. QED
        BY <1>b, <2>1, <3>1, ServedBecomesSafe
    <2>3. RowSafe(sent', item[b].target, prior[b])
      BY <2>1, SafeForEver DEF SafeInv, HeldSafe
    <2>4. HeldSafe(b)' /\ OthersStay(b)
      BY <2>1, <2>2, <2>3 DEF HeldSafe, OthersStay, TypeOK
    <2>5. QED
      BY <2>1, <2>4, RowsSafe
  <1>6. CASE Store(b)
    <2>1. pc[b] \in Polling /\ UNCHANGED sent /\ RowSafe(sent, item[b].target, new[b])
      BY <1>6, <1>c DEF Store, SafeInv, HeldSafe
    <2>2. CASE HasApp(b)
      BY <1>6, <1>b, <2>1, <2>2, MoveSafe, WriteSafe DEF Store
    <2>3. CASE ~HasApp(b)
      BY <1>6, <2>1, <2>3, MoveSafe, RowsSafe DEF Store
    <2>4. QED
      BY <2>2, <2>3
  <1>7. CASE RecordError(b)
    <2>1. pc[b] \in Polling /\ UNCHANGED sent /\ RowSafe(sent, item[b].target, prior[b])
      BY <1>7, <1>c DEF RecordError, SafeInv, HeldSafe
    <2>2. CASE HasApp(b)
      BY <1>7, <1>b, <2>1, <2>2, MoveSafe, WriteSafe DEF RecordError
    <2>3. CASE ~HasApp(b)
      BY <1>7, <2>1, <2>3, MoveSafe, RowsSafe DEF RecordError
    <2>4. QED
      BY <2>2, <2>3
  <1>8. CASE BatchDone(b)
    BY <1>8, MoveSafe, RowsSafe DEF BatchDone
  <1>9. CASE SweepRuns(b)
    BY <1>9, MoveSafe, RowsSafe DEF SweepRuns
  <1>10. CASE FetchFails(b)
    BY <1>10, <1>c, MoveSafe, RowsSafe DEF FetchFails
  <1>11. CASE CallFails(b)
    BY <1>11, <1>c, MoveSafe, RowsSafe DEF CallFails
  <1>12. CASE BatchThrows(b)
    BY <1>12, MoveSafe, RowsSafe DEF BatchThrows
  <1>13. CASE Dies(b)
    BY <1>13, MoveSafe, RowsSafe DEF Dies
  <1>14. QED
    BY <1>1, <1>2, <1>3, <1>4, <1>5, <1>6, <1>7, <1>8, <1>9, <1>10, <1>11, <1>12, <1>13
       DEF Progress, Mishap

(* Outside, rows only ever become blank. *)
LEMMA OutsideSafe ==
    ASSUME TypeOK, SafeInv, Outside
    PROVE  SafeInv'
  <1>1. UNCHANGED batchVars /\ UNCHANGED sent
    BY DEF Outside, Repository, PutAppEnv, DeleteAppEnv, DeleteApp, CreateApp
  <1>2. ASSUME NEW t \in Target PROVE poll'[t] \in {poll[t], BlankRow}
    BY DEF Outside, Repository, PutAppEnv, DeleteAppEnv, DeleteApp, CreateApp, TypeOK
  <1>3. ASSUME NEW t \in Target PROVE RowSafe(sent', t, poll'[t])
    BY <1>1, <1>2, BlankRowSafe DEF SafeInv
  <1>4. ASSUME NEW d \in Batch PROVE HeldSafe(d)'
    BY <1>1, OthersSafe DEF batchVars
  <1>5. QED
    BY <1>3, <1>4 DEF SafeInv

-----------------------------------------------------------------------------

LEMMA PollInvariant == Spec => []PollInv
  <1>1. Init => PollInv
    <2>1. ASSUME Init PROVE SafeInv
      BY <2>1, BlankRowSafe DEF Init, SafeInv, HeldSafe, Polling
    <2>2. QED
      BY <2>1, InitTyped DEF PollInv
  <1>2. PollInv /\ [Next]_vars => PollInv'
    <2> SUFFICES ASSUME PollInv, [Next]_vars PROVE PollInv'
      OBVIOUS
    <2>1. TypeOK'
      BY TypeStep DEF PollInv
    <2>2. CASE UNCHANGED vars
      <3>1. ASSUME NEW d \in Batch PROVE HeldSafe(d)'
        BY <2>2, OthersSafe DEF PollInv, vars, batchVars
      <3>2. QED
        BY <2>1, <2>2, <3>1, RowsSafe DEF PollInv, SafeInv, vars
    <2>3. CASE Next
      BY <2>1, <2>3, BatchSafe, OutsideSafe DEF PollInv, Next
    <2>4. QED
      BY <2>2, <2>3
  <1>3. QED
    BY <1>1, <1>2, PTL DEF Spec

(* repo-poll.ts:179-196: no head counts as seen before its message is in    *)
(* the queue, whatever the refs, the feeds and the tag patterns are.        *)
THEOREM CursorsSent == Spec => []CursorMeansSent
  <1>1. PollInv => CursorMeansSent
    BY DEF PollInv, SafeInv, RowSafe, SentIn, CursorMeansSent, Sent
  <1>2. QED
    BY <1>1, PollInvariant, PTL

(* repo-poll.ts:266-274: a 304 never hides the head of an environment that  *)
(* subscribes to a branch, whose feed is its own, or to a tag pattern that  *)
(* is alone on its feed.                                                    *)
OwnHeadsShown ==
    \A t \in Target :
        /\ Pollable(t) /\ OwnPattern(sub[t])
        /\ poll[t].etag = EtagOf(FeedOf[sub[t]])
        => Sent(t, HeadOf(t))

(* Such a head, if the stored ETag is the one that GitHub would confirm,    *)
(* has been sent, whatever pattern was looked for before (repo-poll.ts).    *)
THEOREM NotModifiedHidesNothing == Spec => []OwnHeadsShown
  <1>1. PollInv => OwnHeadsShown
    <2> SUFFICES ASSUME PollInv, NEW t \in Target, Pollable(t), OwnPattern(sub[t]),
                        poll[t].etag = EtagOf(FeedOf[sub[t]])
                 PROVE  Sent(t, HeadOf(t))
      BY DEF OwnHeadsShown
    <2> DEFINE feed == FeedOf[sub[t]]
    <2>1. sub[t] \in Ref /\ feed \in Feed /\ content[feed] \in Seq(Entry)
      BY DEF Pollable, PollInv, TypeOK
    <2>2. /\ poll[t].under \in Ref /\ FeedOf[poll[t].under] = feed
          /\ SentIn(sent, t, Newest(poll[t].under, content[feed]))
      BY <2>1 DEF PollInv, SafeInv, RowSafe, EtagSafe, EtagOf
    <2>3. Newest(poll[t].under, content[feed]) = HeadOf(t)
      BY <2>1, <2>2 DEF OwnPattern, Newest, HeadOf
    <2>4. QED
      BY <2>2, <2>3 DEF SentIn, Sent
  <1>2. QED
    BY <1>1, PollInvariant, PTL

(* Neither the cursor nor the ETag of any row gets ahead of the queue, by   *)
(* the pattern that was applied when the row was filled, however many       *)
(* patterns share a feed and whenever they change (repo-poll.ts:179-196).   *)
THEOREM HeadsSent == Spec => []HeadsAreSent
  <1>1. PollInv => NotModifiedIsSafe
    <2> SUFFICES ASSUME PollInv, NEW t \in Target, Pollable(t),
                        poll[t].etag = EtagOf(FeedOf[sub[t]])
                 PROVE  Sent(t, Newest(poll[t].under, content[FeedOf[sub[t]]]))
      BY DEF NotModifiedIsSafe
    <2> DEFINE feed == FeedOf[sub[t]]
    <2>1. feed \in Feed /\ content[feed] \in Seq(Entry)
      BY DEF Pollable, PollInv, TypeOK
    <2>2. SentIn(sent, t, Newest(poll[t].under, content[feed]))
      BY <2>1 DEF PollInv, SafeInv, RowSafe, EtagSafe, EtagOf
    <2>3. QED
      BY <2>2 DEF SentIn, Sent
  <1>2. QED
    BY <1>1, CursorsSent, PollInvariant, PTL DEF HeadsAreSent

-----------------------------------------------------------------------------
(* What the liveness properties rest on.  That an invocation moves on is    *)
(* an assumption about the platform (CronSpec); that moving on leads to the *)
(* message, and to the sweep, is the code's doing.                          *)

(* As Hidden, by the row that an invocation has read. *)
HiddenFrom(b) ==
    LET t == item[b].target IN
    /\ prior[b].etag = EtagOf(FeedOf[sub[t]])
    /\ Newest(prior[b].under, content[FeedOf[sub[t]]]) # HeadOf(t)

(* For EveryHeadTriggers: when the feed of what an environment subscribes   *)
(* to is fetched, the head that it shows has been sent, or the invocation   *)
(* sets out to send it, or the pattern was changed under an unchanged feed  *)
(* (repo-poll.ts:179-196).                                                  *)
FetchFindsHead ==
    [][\A b \in Batch : LET t == item[b].target IN
          Fetch(b) /\ Pollable(t) /\ item[b].ref = sub[t] /\ ~HiddenFrom(b)
              => \/ Sent(t, HeadOf(t))
                 \/ pc'[b] = "create" /\ new'[b].seen = HeadOf(t) /\ item'[b] = item[b]]_vars

(* A fetch for a subscription that stands finds the head to send, unless it *)
(* has been sent: no cursor hides it, and a 304 only if another pattern was *)
(* applied to the same list (repo-poll.ts).                                 *)
THEOREM HeadsAreFound == Spec => FetchFindsHead
  <1>1. ASSUME PollInv, NEW b \in Batch, Fetch(b),
               Pollable(item[b].target), item[b].ref = sub[item[b].target], ~HiddenFrom(b)
        PROVE  \/ Sent(item[b].target, HeadOf(item[b].target))
               \/ /\ pc'[b] = "create" /\ new'[b].seen = HeadOf(item[b].target)
                  /\ item'[b] = item[b]
    <2> DEFINE t == item[b].target
               ref == item[b].ref
               feed == FeedOf[ref]
               list == content[feed]
               head == Newest(ref, list)
    <2>1. pc[b] = "fetch" /\ pc[b] \in Polling /\ item' = item
      BY <1>1 DEF Fetch, Goto, Respond, Polling
    <2>2. ref \in Ref /\ feed \in Feed /\ list \in Seq(Entry) /\ t \in Target
      BY <1>1, <2>1 DEF PollInv, TypeOK, EligibleEnv
    <2>3. HeadOf(t) = head
      BY <1>1 DEF HeadOf
    <2>4. RowSafe(sent, t, prior[b])
      BY <1>1, <2>1 DEF PollInv, SafeInv, HeldSafe
    <2>5. CASE prior[b].etag = EtagOf(feed)
      <3>1. Newest(prior[b].under, list) = HeadOf(t)
        BY <1>1, <2>5 DEF HiddenFrom
      <3>2. QED
        BY <2>2, <2>4, <2>5, <3>1 DEF RowSafe, EtagSafe, EtagOf, SentIn, Sent
    <2>6. CASE head = NoEntry
      BY <2>3, <2>6 DEF Sent
    <2>7. CASE head = prior[b].seen
      BY <2>3, <2>4, <2>7 DEF RowSafe, SentIn, Sent
    <2>8. CASE prior[b].etag # EtagOf(feed) /\ head # NoEntry /\ head # prior[b].seen
      <3>1. Respond(b, "create", [etag |-> EtagOf(feed), seen |-> head, under |-> ref])
        BY <1>1, <2>8 DEF Fetch
      <3>2. QED
        BY <1>1, <2>1, <2>3, <3>1 DEF Respond, PollInv, TypeOK
    <2>9. QED
      BY <2>5, <2>6, <2>7, <2>8
  <1>2. PollInv /\ [Next]_vars =>
            [\A b \in Batch : LET t == item[b].target IN
                Fetch(b) /\ Pollable(t) /\ item[b].ref = sub[t] /\ ~HiddenFrom(b)
                    => \/ Sent(t, HeadOf(t))
                       \/ pc'[b] = "create" /\ new'[b].seen = HeadOf(t) /\ item'[b] = item[b]]_vars
    BY <1>1, Zenon
  <1>3. QED
    BY <1>2, PollInvariant, PTL DEF Spec, FetchFindsHead

(* What it has set out to send it sends, unless a call throws, it dies, or  *)
(* the app has gone: nothing else comes between fetch and send.             *)
GoesToQueue(b) ==
    \/ pc'[b] \in {"create", "send"} /\ UNCHANGED <<item[b], new[b]>>
    \/ <<item[b].target, new[b].seen>> \in sent'
    \/ faults'["fault"] < faults["fault"]
    \/ ~HasApp(b)

HeadsGoToQueue == [][\A b \in Batch : pc[b] \in {"create", "send"} => GoesToQueue(b)]_vars

(* For SweepRecurs: an invocation comes closer to the sweep with every step *)
(* of its own, an environment the less to poll or an await further on, and  *)
(* it ends before the sweep only if a call throws, it dies, or the app of   *)
(* the environment it polls has gone.                                       *)
Left == [fetch |-> 6, create |-> 5, send |-> 4, store |-> 3, error |-> 2, next |-> 1, sweep |-> 0]

ComesCloser(b) ==
    \/ todo'[b] \subseteq todo[b] /\ todo'[b] # todo[b]
    \/ todo'[b] = todo[b] /\ pc'[b] # "idle" /\ Left[pc'[b]] < Left[pc[b]]

RoundsReachSweep ==
    [][\A b \in Batch : pc[b] # "idle" =>
          /\ Progress(b) => ComesCloser(b) \/ pc[b] = "sweep" \/ ~HasApp(b)
          /\ pc'[b] = "idle" => \/ pc[b] = "sweep" \/ ~HasApp(b)
                                \/ faults'["fault"] < faults["fault"]]_vars

(* Steps outside the invocation `b' leave it alone.                         *)
LEMMA OthersKeep ==
    ASSUME TypeOK, NEW b \in Batch, NEW d \in Batch, d # b, Progress(d) \/ Mishap(d)
    PROVE  pc'[b] = pc[b] /\ todo'[b] = todo[b] /\ item'[b] = item[b] /\ new'[b] = new[b]
  BY DEF TypeOK, Progress, Mishap, Start, ReadPrior, Fetch, CreateRun, Send, Store, RecordError,
         BatchDone, SweepRuns, FetchFails, CallFails, BatchThrows, Dies, Goto, Respond, Leave, Forget

(* A disturbance that strikes is one less to come.                          *)
LEMMA StrikesCount ==
    ASSUME TypeOK, Strike("fault")
    PROVE  faults'["fault"] < faults["fault"]
  BY DEF TypeOK, Strike, Disturbance

(* While an invocation runs, it moves by its own steps and mishaps only.    *)
LEMMA OwnStep ==
    ASSUME TypeOK, NEW b \in Batch, pc[b] # "idle", [Next]_vars
    PROVE  \/ Progress(b) \/ Mishap(b)
           \/ pc'[b] = pc[b] /\ todo'[b] = todo[b] /\ item'[b] = item[b] /\ new'[b] = new[b]
  <1>1. CASE Outside \/ UNCHANGED vars
    BY <1>1 DEF Outside, Repository, PutAppEnv, DeleteAppEnv, DeleteApp, CreateApp, vars, batchVars
  <1>2. CASE \E d \in Batch \ {b} : Progress(d) \/ Mishap(d)
    BY <1>2, OthersKeep
  <1>3. QED
    BY <1>1, <1>2 DEF Next

(* Between fetch and the queue an invocation keeps the head it has found,   *)
(* unless a call throws, it dies, or the app has gone (repo-poll.ts).       *)
THEOREM HeadsAreSentOn == Spec => HeadsGoToQueue
  <1>1. ASSUME TypeOK, NEW b \in Batch, pc[b] \in {"create", "send"}, [Next]_vars
        PROVE  GoesToQueue(b)
    <2>1. CASE Progress(b)
      BY <1>1, <2>1 DEF TypeOK, PC, Progress, Start, ReadPrior, Fetch, CreateRun, Send, Store, RecordError,
         BatchDone, SweepRuns, Goto, GoesToQueue
    <2>2. CASE Mishap(b)
      <3>1. Strike("fault")
        BY <1>1, <2>2 DEF Mishap, FetchFails, CallFails, BatchThrows, Dies
      <3>2. QED
        BY <1>1, <3>1, StrikesCount DEF GoesToQueue
    <2>3. CASE pc'[b] = pc[b] /\ item'[b] = item[b] /\ new'[b] = new[b]
      BY <1>1, <2>3 DEF GoesToQueue
    <2>4. QED
      BY <1>1, <2>1, <2>2, <2>3, OwnStep
  <1>2. TypeOK /\ [Next]_vars =>
            [\A b \in Batch : pc[b] \in {"create", "send"} => GoesToQueue(b)]_vars
    BY <1>1
  <1>3. QED
    BY <1>2, PollTypeCorrect, PTL DEF Spec, HeadsGoToQueue

(* Each of its own steps brings an invocation nearer to the sweep, and none *)
(* but a failure ends it before that (repo-poll.ts, index.ts).              *)
THEOREM SweepIsReached == Spec => RoundsReachSweep
  <1>1. ASSUME TypeOK, NEW b \in Batch, pc[b] # "idle", Progress(b)
        PROVE  ComesCloser(b) \/ pc[b] = "sweep" \/ ~HasApp(b)
    <2>1. CASE ReadPrior(b)
      BY <1>1, <2>1 DEF TypeOK, ReadPrior, ComesCloser
    <2>2. CASE Fetch(b)
      BY <1>1, <2>2 DEF TypeOK, Fetch, Goto, Respond, ComesCloser, Left
    <2>3. CASE ~ReadPrior(b) /\ ~Fetch(b)
      BY <1>1, <2>3 DEF TypeOK, Progress, Start, CreateRun, Send, Store, RecordError, BatchDone, SweepRuns,
         Goto, Leave, Forget, ComesCloser, Left
    <2>4. QED
      BY <2>1, <2>2, <2>3
  <1>2. ASSUME TypeOK, NEW b \in Batch, pc[b] # "idle", [Next]_vars, pc'[b] = "idle"
        PROVE  pc[b] = "sweep" \/ ~HasApp(b) \/ faults'["fault"] < faults["fault"]
    <2>1. CASE Progress(b)
      BY <1>1, <1>2, <2>1 DEF TypeOK, Progress, Start, ReadPrior, Fetch, CreateRun, Send, Store,
         RecordError, BatchDone, SweepRuns, Goto, Respond
    <2>2. CASE Mishap(b)
      <3>1. Strike("fault")
        BY <2>2 DEF Mishap, FetchFails, CallFails, BatchThrows, Dies
      <3>2. QED
        BY <1>2, <3>1, StrikesCount
    <2>3. QED
      BY <1>2, <2>1, <2>2, OwnStep
  <1>3. TypeOK /\ [Next]_vars =>
            [\A b \in Batch : pc[b] # "idle" =>
               /\ Progress(b) => ComesCloser(b) \/ pc[b] = "sweep" \/ ~HasApp(b)
               /\ pc'[b] = "idle" => \/ pc[b] = "sweep" \/ ~HasApp(b)
                                     \/ faults'["fault"] < faults["fault"]]_vars
    BY <1>1, <1>2
  <1>4. QED
    BY <1>3, PollTypeCorrect, PTL DEF Spec, RoundsReachSweep
=============================================================================
