------------------------------- MODULE RunLog -------------------------------
(***************************************************************************)
(* The log of one run on its way from the container to the screen: the run *)
(* engine that prints it into a bounded buffer (runner.ts), the server     *)
(* that replays and streams the buffer (server.ts), the relay that         *)
(* accumulates the stream and puts it to R2 (relay.ts), the backstop that  *)
(* puts what the container still holds (RunnerContainer.ts), and the       *)
(* dashboard that tails the object (api/runs.ts, LogView.tsx).             *)
(*                                                                         *)
(* A line is its number, a text a sequence of lines.  Leases, queue and    *)
(* sweeper, and failures of D1, are RunLifecycle's.                        *)
(***************************************************************************)
EXTENDS Integers, Sequences, FiniteSets

CONSTANTS
    None,
    MaxLine,     \* bound: lines a run prints
    MaxBuffer,   \* MAX_BUFFER_LINES
    Dropped,     \* the lines dropped when the buffer is full (a tenth of it)
    MaxFlying    \* bound: puts of the relay in flight at a time

ASSUME RunLogAssumption ==
    /\ MaxLine \in Nat /\ MaxLine >= 5
    /\ MaxBuffer \in Nat \ {0} /\ Dropped \in 1 .. MaxBuffer
    /\ MaxFlying \in Nat \ {0}
    /\ None \notin {"relay", "succeeded", "failed"}

Line == 1 .. MaxLine
Text(a, b) == [i \in 1 .. b - a + 1 |-> a + i - 1]
Texts == {Text(a, b) : a \in Line, b \in 0 .. MaxLine}

\* What a container that was started anew answers for its log: a line no run has printed.
Refusal == <<0>>

Active == {"cloning", "installing", "deploying"}
Terminal == {"succeeded", "failed"}

VARIABLES
    state,     \* RunnerState, "pending" before /run, "gone" with the container
    stuck,     \* run() has thrown: it will never reach a terminal state
    printed,   \* lines emitted
    oldest,    \* the first line still in the buffer
    relay,     \* where startRun()'s relay is
    first, last,  \* the lines it has accumulated
    outcome,   \* the terminal status it has read
    flying,    \* its puts of the log under way, the last one awaited
    object,    \* runs/<id>/logs.ndjson
    row, by,   \* the run's status in D1 and who recorded it
    backstop, held, seen,  \* the backstop: its step, the log and the state it has read
    viewer, cursor, shown, done,  \* the dashboard: its step, position, screen, and the
                                  \* status it was answered
    disturbed  \* an update of the object was not an extension

runnerVars   == <<state, stuck, printed, oldest>>
relayVars    == <<relay, first, last, outcome>>
storeVars    == <<object, disturbed>>
rowVars      == <<row, by>>
backstopVars == <<backstop, held, seen>>
viewerVars   == <<viewer, cursor, shown, done>>
vars == <<runnerVars, relayVars, flying, storeVars, rowVars, backstopVars, viewerVars>>

Put == [text : Texts, final : BOOLEAN]

TypeOK ==
    /\ state \in {"pending", "gone"} \cup Active \cup Terminal
    /\ stuck \in BOOLEAN
    /\ printed \in 0 .. MaxLine /\ oldest \in 1 .. MaxLine + 1
    /\ printed - oldest < MaxBuffer
    /\ relay \in {"run", "logs", "tail", "final", "status", "put", "finish",
                  "done", "failed", "off"}
    /\ first \in 1 .. MaxLine + 1 /\ last \in 0 .. MaxLine
    /\ outcome \in {None} \cup Terminal
    /\ \A p \in flying : p.text \in Texts /\ p.final \in BOOLEAN
    /\ object \in Texts \cup {Refusal}
    /\ row \in {"running"} \cup Terminal
    /\ by \in {None, "relay", "backstop", "caller"}
    /\ backstop \in {"armed", "logs", "put", "status", "finish", "off"}
    /\ held \in Texts \cup {Refusal}
    /\ seen \in {None, "gone"} \cup Active \cup Terminal
    /\ viewer \in {"idle", "read", "stopped"}
    /\ cursor \in 0 .. MaxLine /\ \A i \in DOMAIN shown : shown[i] \in Line \cup {0}
    /\ done \in BOOLEAN
    /\ disturbed \in BOOLEAN

\* startRun() has started the container and armed the backstop.
Init ==
    /\ state = "pending" /\ stuck = FALSE /\ printed = 0 /\ oldest = 1
    /\ relay = "run" /\ first = 1 /\ last = 0 /\ outcome = None /\ flying = {}
    /\ object = <<>> /\ disturbed = FALSE
    /\ row = "running" /\ by = None
    /\ backstop = "armed" /\ held = <<>> /\ seen = None
    /\ viewer = "idle" /\ cursor = 0 /\ shown = <<>> /\ done = FALSE

(***************************************************************************)
(* In the container.                                                       *)
(***************************************************************************)
\* emit(): appends to the buffer, and drops the oldest lines of a full one.
Emit ==
    /\ printed < MaxLine /\ printed' = printed + 1
    /\ oldest' = IF printed' - oldest + 1 > MaxBuffer THEN oldest + Dropped ELSE oldest

Elsewhere == UNCHANGED <<relayVars, flying, storeVars, rowVars, backstopVars, viewerVars>>

\* A line of a child's output; the bound leaves room for the engine's own lines.
PrintLine ==
    /\ state \in Active /\ ~stuck /\ printed < MaxLine - 3
    /\ Emit
    /\ UNCHANGED <<state, stuck>> /\ Elsewhere

Following(s) == IF s = "cloning" THEN "installing" ELSE "deploying"

\* The child exits: with 0, on to the next step ...
NextStep ==
    /\ state \in {"cloning", "installing"} /\ ~stuck
    /\ state' = Following(state)
    /\ Emit
    /\ UNCHANGED stuck /\ Elsewhere

\* ... or it was the last step, or failed: a last line, then finish().
Finish ==
    /\ state \in Active /\ ~stuck
    /\ state' \in IF state = "deploying" THEN Terminal ELSE {"failed"}
    /\ Emit
    /\ UNCHANGED stuck /\ Elsewhere

\* Bun.spawn() throws, as for a working directory that is not in the repository:
\* run() rejects, and nothing finishes the run.
SpawnThrows ==
    /\ state \in Active /\ ~stuck
    /\ stuck' = TRUE
    /\ UNCHANGED <<state, printed, oldest>> /\ Elsewhere

\* The platform stops the container, at the latest at its hard kill.
ContainerStops ==
    /\ state # "gone"
    /\ state' = "gone"
    /\ UNCHANGED <<stuck, printed, oldest>> /\ Elsewhere

(***************************************************************************)
(* The relay, inside the startRun() RPC.                                   *)
(***************************************************************************)
RelayOnly == UNCHANGED <<storeVars, rowVars, backstopVars, viewerVars>>

\* POST /run: accepted, run() has printed its first line by then.
PostRun ==
    /\ relay = "run" /\ state = "pending"
    /\ state' = "cloning" /\ Emit
    /\ relay' = "logs"
    /\ UNCHANGED <<stuck, first, last, outcome, flying>> /\ RelayOnly

\* GET /logs: replays what the buffer holds, then streams.
OpenLogs ==
    /\ relay = "logs" /\ state # "gone"
    /\ relay' = "tail" /\ first' = oldest /\ last' = oldest - 1
    /\ UNCHANGED <<outcome, runnerVars, flying>> /\ RelayOnly

Accumulated(b) == Text(first, b)

\* onLine(): flush(false) starts a put if the interval has passed; nobody waits for it.
RelayLine ==
    /\ relay = "tail" /\ last < printed /\ state # "gone"
    /\ last' = last + 1
    /\ \/ UNCHANGED flying
       \/ /\ Cardinality(flying) < MaxFlying
          /\ flying' = flying \cup {[text |-> Accumulated(last'), final |-> FALSE]}
    /\ UNCHANGED <<relay, first, outcome, runnerVars>> /\ RelayOnly

\* Mutant: the last flush heeds the interval too, so it may be skipped.
CloseLogsUnforced ==
    /\ relay = "tail" /\ last = printed /\ state \in Terminal
    /\ relay' = "status"
    /\ UNCHANGED <<first, last, outcome, flying, runnerVars>> /\ RelayOnly

\* The stream closes after the terminal state: flush(true), which is awaited.
CloseLogs ==
    /\ relay = "tail" /\ last = printed /\ state \in Terminal
    /\ relay' = "final"
    /\ flying' = flying \cup {[text |-> Accumulated(last), final |-> TRUE]}
    /\ UNCHANGED <<first, last, outcome, runnerVars>> /\ RelayOnly

\* GET /status, polled until it is terminal.  A container that was started anew
\* answers 404: the relay then polls for as long as its RPC lives.
ReadStatus ==
    /\ relay = "status" /\ state \in Terminal
    /\ relay' = "put" /\ outcome' = state
    /\ UNCHANGED <<first, last, runnerVars, flying>> /\ RelayOnly

\* status.json, which nothing in the system reads.
PutStatus ==
    /\ relay = "put"
    /\ relay' = "finish"
    /\ UNCHANGED <<first, last, outcome, runnerVars, flying>> /\ RelayOnly

\* finishRun(), guarded, by whoever comes first.
Record(ending, who) ==
    IF row = "running" THEN row' = ending /\ by' = who ELSE UNCHANGED rowVars

RecordByRelay ==
    /\ relay = "finish" /\ relay' = "done"
    /\ Record(outcome, "relay")
    /\ UNCHANGED <<first, last, outcome, runnerVars, flying, storeVars, backstopVars, viewerVars>>

\* A fetch or an awaited put rejects (the container is gone, a quiet stream was
\* closed by the server's idle timeout), and with it the RPC ...
RelayFails ==
    /\ relay \in {"run", "logs", "tail", "final", "status", "put"}
    /\ relay' = "failed"
    /\ flying' = {p \in flying : ~p.final}
    /\ UNCHANGED <<first, last, outcome, runnerVars>> /\ RelayOnly

\* ... which executeDeploy() records as a failure.
RecordByCaller ==
    /\ relay = "failed" /\ relay' = "off"
    /\ Record("failed", "caller")
    /\ UNCHANGED <<first, last, outcome, runnerVars, flying, storeVars, backstopVars, viewerVars>>

\* The caller is reset (a deploy of the control plane itself) and its RPC with it.
RelayCut ==
    /\ relay \notin {"done", "off"} /\ relay' = "off"
    /\ UNCHANGED <<first, last, outcome, runnerVars, flying>> /\ RelayOnly

(***************************************************************************)
(* R2: puts complete in any order, or fail.                                *)
(***************************************************************************)
\* What replaces the object goes on from it: it is not an older text, one that lacks the
\* first lines, or no log at all.
Extends(text) ==
    /\ text # Refusal
    /\ object # <<>> =>
         text # <<>> /\ text[1] = object[1] /\ text[Len(text)] >= object[Len(object)]

Store(text) ==
    /\ object' = text
    /\ disturbed' = (disturbed \/ ~Extends(text))

PutLands(p) ==
    /\ Store(p.text)
    /\ flying' = flying \ {p}
    /\ relay' = IF p.final /\ relay = "final" THEN "status" ELSE relay
    /\ UNCHANGED <<first, last, outcome, runnerVars, rowVars, backstopVars, viewerVars>>

\* Nobody hears of an interval put that fails; its lines come with the next one.
PutLost(p) ==
    /\ flying' = flying \ {p} /\ relay' = IF p.final /\ relay = "final" THEN "failed" ELSE relay
    /\ UNCHANGED <<first, last, outcome, runnerVars>> /\ RelayOnly

(***************************************************************************)
(* The backstop.                                                           *)
(***************************************************************************)
BackstopOnly == UNCHANGED <<runnerVars, relayVars, flying, viewerVars>>

\* backstopCheck() until it waits for /logs: the container is in a terminal state, or
\* the deadline is past.  (When that is is left open.)  One that is gone is not reached,
\* or the fetch starts it anew, and its 404 passes for the status of a run.
BackstopDecides ==
    /\ backstop = "armed"
    /\ \/ row \in Terminal /\ backstop' = "off" /\ UNCHANGED <<held, seen>>
       \/ /\ row = "running"
          /\ state # "pending" /\ seen' = state
          /\ backstop' \in IF state = "gone" THEN {"finish", "logs"} ELSE {"logs"}
          /\ UNCHANGED held
    /\ BackstopOnly /\ UNCHANGED <<storeVars, rowVars>>

\* logs.text() has the whole stream, which a run in flight keeps open.
BackstopReads ==
    /\ backstop = "logs" /\ state \in Terminal \cup {"gone"}
    /\ held' = IF state = "gone" THEN Refusal ELSE Text(oldest, printed)
    /\ backstop' = "put"
    /\ BackstopOnly /\ UNCHANGED <<seen, storeVars, rowVars>>

BackstopPuts ==
    /\ backstop = "put"
    /\ Store(held) /\ held' = <<>>
    /\ backstop' = "status"
    /\ BackstopOnly /\ UNCHANGED <<seen, rowVars>>

BackstopPutsStatus ==
    /\ backstop = "status"
    /\ backstop' = "finish"
    /\ BackstopOnly /\ UNCHANGED <<held, seen, storeVars, rowVars>>

\* Mutant: nothing catches an error of the flush.
BackstopThrows ==
    /\ backstop \in {"logs", "put", "status"}
    /\ backstop = "logs" => state = "gone"
    /\ backstop' = "off" /\ held' = <<>>
    /\ BackstopOnly /\ UNCHANGED <<seen, storeVars, rowVars>>

\* The flush is best effort: what fails of it is skipped.
BackstopSkips ==
    /\ backstop \in {"logs", "put", "status"}
    /\ backstop = "logs" => state = "gone"
    /\ backstop' = "finish" /\ held' = <<>>
    /\ BackstopOnly /\ UNCHANGED <<seen, storeVars, rowVars>>

RecordByBackstop ==
    /\ backstop = "finish" /\ backstop' = "off"
    /\ Record(IF seen \in Terminal THEN seen ELSE "failed", "backstop")
    /\ seen' = None
    /\ BackstopOnly /\ UNCHANGED <<held, storeVars>>

(***************************************************************************)
(* The dashboard: GET /tail reads the row, then the object.                *)
(***************************************************************************)
ViewerOnly == UNCHANGED <<runnerVars, relayVars, flying, storeVars, rowVars, backstopVars>>

Rest(text) == SubSeq(text, cursor + 1, Len(text))

ReadRow ==
    /\ viewer = "idle" /\ viewer' = "read"
    /\ done' = (row \in Terminal)
    /\ UNCHANGED <<cursor, shown>> /\ ViewerOnly

\* Mutant: the end of the run is looked at before the lines of the answer.
ReadObjectUnlessDone ==
    /\ viewer = "read"
    /\ shown' = IF done THEN shown ELSE shown \o Rest(object)
    /\ cursor' = Len(object)
    /\ viewer' = IF done THEN "stopped" ELSE "idle"
    /\ UNCHANGED done /\ ViewerOnly

\* Mutant: the cursor is the number of lines of the answer.
ReadObjectCountingNew ==
    /\ viewer = "read"
    /\ shown' = shown \o Rest(object) /\ cursor' = Len(Rest(object))
    /\ viewer' = IF done THEN "stopped" ELSE "idle"
    /\ UNCHANGED done /\ ViewerOnly

\* The lines past the cursor are appended to the screen, and the cursor becomes the
\* object's length; the tail ends with the run.
ReadObject ==
    /\ viewer = "read"
    /\ shown' = shown \o Rest(object) /\ cursor' = Len(object)
    /\ viewer' = IF done THEN "stopped" ELSE "idle"
    /\ UNCHANGED done /\ ViewerOnly

Container == PrintLine \/ NextStep \/ Finish \/ SpawnThrows \/ ContainerStops
Relay ==
    \/ PostRun \/ OpenLogs \/ RelayLine \/ CloseLogs \/ ReadStatus \/ PutStatus
    \/ RecordByRelay \/ RelayFails \/ RecordByCaller \/ RelayCut
Bucket == \E p \in flying : PutLands(p) \/ PutLost(p)
Backstop ==
    \/ BackstopDecides \/ BackstopReads \/ BackstopPuts \/ BackstopPutsStatus
    \/ BackstopSkips \/ RecordByBackstop
Viewer == ReadRow \/ ReadObject

Next == Container \/ Relay \/ Bucket \/ Backstop \/ Viewer

Spec == Init /\ [][Next]_vars

\* The scheduled backstop goes on, and the platform's hard kill comes.
FairSpec == Spec /\ WF_vars(Backstop) /\ WF_vars(ContainerStops)

(***************************************************************************)
(* Properties.                                                             *)
(***************************************************************************)
\* When the relay has returned, R2 has every line from the first one it was
\* replayed to the last one printed, although the puts of the interval are not
\* awaited and may be lost; unless one of those was overtaken by the last put, or
\* the backstop has written from a buffer that had dropped lines or lacks the run.
RelayedLogIsWhole ==
    relay = "done" /\ ~disturbed => object = Text(first, printed)

\* With the bound of the container's buffer (runner.ts emitChunk()).
LogInv == TypeOK /\ RelayedLogIsWhole

\* The screen shows consecutive lines, none twice and none left out, whatever part
\* of the log each answer had, as long as the object was only ever extended.
ShownInOrder ==
    ~disturbed => \A i \in 1 .. Len(shown) - 1 : shown[i + 1] = shown[i] + 1

\* A tail that ended because the relay had recorded the run has shown the last line:
\* the final flush comes before the status, and the row is read before the object.
StoppedShowsAll ==
    viewer = "stopped" /\ by = "relay" /\ ~disturbed =>
        shown # <<>> /\ shown[Len(shown)] = printed

\* Every run is recorded, even one whose engine is stuck while the backstop waits for
\* the end of its log.
Recorded == <>(row \in Terminal)
=============================================================================
