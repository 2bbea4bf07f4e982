---------------------------- MODULE RunLogProofs -----------------------------
(***************************************************************************)
(* Proofs about RunLog for logs of any length, buffers of any size and any *)
(* number of puts in flight.                                               *)
(***************************************************************************)
EXTENDS RunLog, SequenceTheorems, TLAPS

-----------------------------------------------------------------------------
(* Texts of consecutive lines. *)

LEMMA TextFacts ==
    ASSUME NEW a \in Int, NEW b \in Int, 1 <= a, a <= b + 1
    PROVE  /\ Text(a, b) \in Seq(Int)
           /\ Len(Text(a, b)) = b - a + 1
           /\ \A i \in 1 .. b - a + 1 : Text(a, b)[i] = a + i - 1
  BY DEF Text

LEMMA EmptyText == Text(1, 0) = <<>>
  BY DEF Text

\* A text shows its ends.
LEMMA TextEnds ==
    ASSUME NEW a \in Int, NEW b \in Int, 1 <= a, a <= b
    PROVE  /\ Text(a, b) # <<>> /\ Len(Text(a, b)) = b - a + 1
           /\ Text(a, b)[1] = a
           /\ Text(a, b)[Len(Text(a, b))] = b
  <1>1. Len(Text(a, b)) = b - a + 1 /\ Text(a, b) \in Seq(Int)
    BY TextFacts
  <1>2. Text(a, b) # <<>>
    BY <1>1
  <1>3. 1 \in 1 .. b - a + 1 /\ b - a + 1 \in 1 .. b - a + 1
    OBVIOUS
  <1>4. \A i \in 1 .. b - a + 1 : Text(a, b)[i] = a + i - 1
    BY TextFacts
  <1>5. Text(a, b)[1] = a /\ Text(a, b)[b - a + 1] = b
    BY <1>3, <1>4
  <1> QED
    BY <1>1, <1>2, <1>5

LEMMA TextBegins ==
    ASSUME NEW a \in Int, NEW b \in Int, 1 <= a, a <= b, NEW n \in 0 .. b - a + 1
    PROVE  SubSeq(Text(a, b), 1, n) = Text(a, a + n - 1)
  BY TextFacts DEF Text

LEMMA TextRest ==
    ASSUME NEW S, NEW t \in Seq(S), NEW n \in 0 .. Len(t)
    PROVE  SubSeq(t, 1, n) \o SubSeq(t, n + 1, Len(t)) = t
  <1>1. SubSeq(t, 1, n) \o SubSeq(t, n + 1, Len(t)) = SubSeq(t, 1, Len(t))
    <2>1. Len(t) \in Nat /\ n \in Int /\ 1 \in 1 .. Len(t) + 1 /\ n \in 1 - 1 .. Len(t) /\ Len(t) \in n .. Len(t)
      OBVIOUS
    <2> QED
      BY <2>1, ConcatAdjacentSubSeq
  <1> QED
    BY <1>1, SubSeqFull

-----------------------------------------------------------------------------
(* The invariant.  Each text on its way is the relay's text, or part of it *)
(* from its beginning, or what the backstop has read of a finished run;    *)
(* the object is one of those, or the 404 of a container started anew, and *)
(* the screen is the object's beginning.                                   *)

Over == Terminal \cup {"gone"}
Closed == {"final", "status", "put", "finish", "done"}

PrintedFits ==
    /\ oldest <= printed \/ (printed = 0 /\ oldest = 1)
    /\ state \in Active \cup Terminal => printed > 0
    /\ relay \notin {"run", "failed", "off"} => printed > 0

RelayFits ==
    /\ first <= last + 1 /\ last <= printed
    /\ relay = "tail" => first <= printed
    /\ relay \in {"run", "logs"} => flying = {}
    /\ relay \in Closed => last = printed /\ first <= last /\ state \in Over
    /\ relay \in {"put", "finish"} => outcome \in Terminal

PutsFit == \A p \in flying :
    /\ \E b \in first .. last : p.text = Text(first, b)
    /\ p.final => p.text = Text(first, last) /\ first <= last /\ relay \notin {"run", "logs", "tail"}

HeldFits ==
    IF backstop = "put"
    THEN held = Refusal \/ (held = Text(oldest, printed) /\ oldest <= printed /\ state \in Over)
    ELSE held = <<>>

ObjectFits ==
    \/ object = <<>>
    \/ \E a, b \in Line : a <= b /\ b <= printed /\ object = Text(a, b)
    \/ object = Refusal /\ disturbed

Stored == relay \in Closed \ {"final"} /\ ~disturbed => object = Text(first, printed)

ScreenFits ==
    /\ shown \in Seq(Line \cup {0})
    /\ ~disturbed => cursor \in 0 .. Len(object) /\ shown = SubSeq(object, 1, cursor)

RowFits ==
    /\ row = "running" => by = None
    /\ by = "relay" => relay = "done"
    /\ viewer = "read" /\ done => row \in Terminal
    /\ viewer = "stopped" => row \in Terminal
    /\ viewer = "stopped" /\ by = "relay" /\ ~disturbed => shown = object

TextsInv == PrintedFits /\ RelayFits /\ PutsFit /\ HeldFits /\ ObjectFits
LogSafe == TypeOK /\ TextsInv /\ Stored /\ ScreenFits /\ RowFits

LEMMA LineTexts ==
    ASSUME NEW a \in Line, NEW b \in Line, a <= b
    PROVE  Text(a, b) \in Texts /\ Text(a, b) \in Seq(Line)
  <1>1. MaxLine \in Nat
    BY RunLogAssumption
  <1>2. Text(a, b) \in Texts
    BY <1>1 DEF Texts, Line
  <1>3. Text(a, b) \in Seq(Line)
    BY <1>1 DEF Line, Text
  <1> QED
    BY <1>2, <1>3

LEMMA NoText == <<>> \in Texts /\ <<>> \in Seq(Line)
  <1>1. 1 \in Line /\ 0 \in 0 .. MaxLine
    BY RunLogAssumption DEF Line
  <1>2. Text(1, 0) \in Texts
    BY <1>1 DEF Texts
  <1> QED
    BY <1>2, EmptyText

LEMMA LogSafeInit == Init => LogSafe
  <1> SUFFICES ASSUME Init PROVE LogSafe
    OBVIOUS
  <1> USE RunLogAssumption, NoText DEF Init
  <1>1. TypeOK
    <2>1. DOMAIN shown = {}
      OBVIOUS
    <2>2. /\ printed \in 0 .. MaxLine /\ oldest \in 1 .. MaxLine + 1 /\ printed - oldest < MaxBuffer
          /\ first \in 1 .. MaxLine + 1 /\ last \in 0 .. MaxLine /\ cursor \in 0 .. MaxLine
      OBVIOUS
    <2>3. object \in Texts /\ held \in Texts /\ disturbed \in BOOLEAN
      OBVIOUS
    <2>4. \A p \in flying : p.text \in Texts /\ p.final \in BOOLEAN
      OBVIOUS
    <2> QED
      BY <2>1, <2>2, <2>3, <2>4 DEF TypeOK
  <1>2. TextsInv
    BY DEF TextsInv, PrintedFits, RelayFits, PutsFit, HeldFits, ObjectFits, Active, Terminal, Closed
  <1>3. Stored /\ RowFits
    BY DEF Stored, RowFits, Closed
  <1>4. ScreenFits
    BY DEF ScreenFits
  <1> QED
    BY <1>1, <1>2, <1>3, <1>4 DEF LogSafe

-----------------------------------------------------------------------------
(* The container's steps. *)

LEMMA EmitFits ==
    ASSUME TypeOK, PrintedFits, Emit
    PROVE  /\ printed' = printed + 1 /\ printed' \in 1 .. MaxLine
           /\ oldest' \in 1 .. printed'
           /\ printed' - oldest' < MaxBuffer
  BY RunLogAssumption DEF TypeOK, PrintedFits, Emit

LEMMA ContainerKeeps ==
    ASSUME LogSafe, Container
    PROVE  LogSafe'
  <1>0. TypeOK /\ PrintedFits /\ RelayFits /\ PutsFit /\ HeldFits /\ ObjectFits
    BY DEF LogSafe, TextsInv
  <1>1. Elsewhere
    BY DEF Container, PrintLine, NextStep, Finish, SpawnThrows, ContainerStops
  <1>2. \/ /\ state \in Active /\ state' \in Active \cup Terminal /\ stuck' = stuck
           /\ printed' = printed + 1 /\ printed' \in 1 .. MaxLine /\ oldest' \in 1 .. printed'
           /\ printed' - oldest' < MaxBuffer
        \/ /\ state' \in {state, "gone"} /\ stuck' \in BOOLEAN /\ UNCHANGED <<printed, oldest>>
    <2>1. CASE PrintLine
      BY <1>0, <2>1, EmitFits DEF PrintLine
    <2>2. CASE NextStep
      BY <1>0, <2>2, EmitFits DEF NextStep, Following, Active
    <2>3. CASE Finish
      BY <1>0, <2>3, EmitFits DEF Finish, Terminal
    <2>4. CASE SpawnThrows \/ ContainerStops
      BY <1>0, <2>4 DEF SpawnThrows, ContainerStops, TypeOK
    <2> QED
      BY <2>1, <2>2, <2>3, <2>4 DEF Container
  <1>3. state \in Over => printed' = printed /\ oldest' = oldest /\ state' \in Over
    BY <1>2 DEF Over, Active, Terminal
  <1>4. TypeOK'
    <2>1. /\ state' \in {"pending", "gone"} \cup Active \cup Terminal /\ stuck' \in BOOLEAN
          /\ printed' \in 0 .. MaxLine /\ oldest' \in 1 .. MaxLine + 1 /\ printed' - oldest' < MaxBuffer
      BY <1>0, <1>2, RunLogAssumption DEF TypeOK
    <2> QED
      BY <1>0, <1>1, <2>1 DEF TypeOK, Elsewhere, relayVars, storeVars, rowVars, backstopVars, viewerVars
  <1>5. PrintedFits'
    BY <1>0, <1>1, <1>2 DEF PrintedFits, Elsewhere, relayVars, TypeOK, Active, Terminal
  <1>6. RelayFits' /\ PutsFit'
    BY <1>0, <1>1, <1>2, <1>3 DEF RelayFits, PutsFit, Elsewhere, relayVars, TypeOK
  <1>7. HeldFits' /\ ObjectFits'
    BY <1>0, <1>1, <1>2, <1>3 DEF HeldFits, ObjectFits, Elsewhere, backstopVars, storeVars, TypeOK, Line
  <1>8. Stored'
    BY <1>0, <1>1, <1>3 DEF LogSafe, Stored, RelayFits, Elsewhere, relayVars, storeVars
  <1>9. ScreenFits' /\ RowFits'
    BY <1>1 DEF LogSafe, ScreenFits, RowFits, Elsewhere, relayVars, storeVars, rowVars, viewerVars
  <1> QED
    BY <1>4, <1>5, <1>6, <1>7, <1>8, <1>9 DEF LogSafe, TextsInv

-----------------------------------------------------------------------------
(* The relay's steps. *)

\* Those that write neither the object nor the row.
LEMMA RelayFrame ==
    ASSUME LogSafe, RelayOnly, UNCHANGED runnerVars,
           relay' \in {"run", "logs", "tail", "final", "status", "put", "finish", "done", "failed", "off"},
           first' \in 1 .. MaxLine + 1, last' \in 0 .. MaxLine, outcome' \in {None} \cup Terminal,
           \A p \in flying' : p.text \in Texts /\ p.final \in BOOLEAN,
           relay' \notin {"run", "failed", "off"} => printed > 0,
           RelayFits', PutsFit', Stored', relay # "done"
    PROVE  LogSafe'
  <1> USE DEF LogSafe, TextsInv, RelayOnly, runnerVars, storeVars, rowVars, backstopVars, viewerVars
  <1>1. TypeOK'
    BY DEF TypeOK
  <1>2. PrintedFits'
    BY DEF PrintedFits
  <1>3. HeldFits' /\ ObjectFits'
    BY DEF HeldFits, ObjectFits
  <1>4. ScreenFits' /\ RowFits'
    BY DEF ScreenFits, RowFits
  <1> QED
    BY <1>1, <1>2, <1>3, <1>4

LEMMA PostRunKeeps ==
    ASSUME LogSafe, PostRun
    PROVE  LogSafe'
  <1> USE DEF LogSafe, TextsInv
  <1>1. /\ printed' = printed + 1 /\ printed' \in 1 .. MaxLine /\ oldest' \in 1 .. printed'
        /\ printed' - oldest' < MaxBuffer
    BY EmitFits DEF PostRun
  <1>2. /\ relay = "run" /\ relay' = "logs" /\ state = "pending" /\ state' = "cloning" /\ flying = {}
        /\ UNCHANGED <<stuck, first, last, outcome, flying>> /\ RelayOnly
    BY DEF PostRun, RelayFits
  <1> USE DEF RelayOnly, storeVars, rowVars, backstopVars, viewerVars
  <1>3. TypeOK'
    <2>1. printed' \in 0 .. MaxLine /\ oldest' \in 1 .. MaxLine + 1
      BY <1>1, RunLogAssumption
    <2> QED
      BY <1>1, <1>2, <2>1 DEF TypeOK, Active
  <1>4. PrintedFits'
    BY <1>1, <1>2 DEF PrintedFits
  <1>5. RelayFits' /\ PutsFit'
    BY <1>1, <1>2 DEF RelayFits, PutsFit, Closed, TypeOK
  <1>6. HeldFits'
    BY <1>1, <1>2 DEF HeldFits, Over, Terminal
  <1>7. ObjectFits'
    BY <1>1, <1>2 DEF ObjectFits, TypeOK, Line
  <1>8. Stored' /\ ScreenFits' /\ RowFits'
    BY <1>2 DEF Stored, ScreenFits, RowFits, Closed
  <1> QED
    BY <1>3, <1>4, <1>5, <1>6, <1>7, <1>8

LEMMA OpenLogsKeeps ==
    ASSUME LogSafe, OpenLogs
    PROVE  LogSafe'
  <1>1. /\ relay = "logs" /\ relay' = "tail" /\ printed > 0 /\ oldest <= printed /\ flying = {}
        /\ first' = oldest /\ last' = oldest - 1 /\ UNCHANGED <<outcome, runnerVars, flying>> /\ RelayOnly
    BY DEF LogSafe, TextsInv, OpenLogs, PrintedFits, RelayFits
  <1>2. TypeOK /\ printed' = printed
    BY <1>1 DEF LogSafe, runnerVars
  <1>3. RelayFits' /\ PutsFit' /\ Stored'
    BY <1>1, <1>2 DEF RelayFits, PutsFit, Stored, Closed, TypeOK
  <1>4. first' \in 1 .. MaxLine + 1 /\ last' \in 0 .. MaxLine
    BY <1>1, <1>2, RunLogAssumption DEF TypeOK
  <1> QED
    BY <1>1, <1>2, <1>3, <1>4, RelayFrame DEF TypeOK

LEMMA TailKeeps ==
    ASSUME LogSafe, RelayLine \/ CloseLogs
    PROVE  LogSafe'
  <1>0. TypeOK /\ PrintedFits /\ RelayFits /\ PutsFit
    BY DEF LogSafe, TextsInv
  <1>1. /\ relay = "tail" /\ printed > 0 /\ first <= printed /\ first <= last' /\ last' <= printed /\ last <= last'
        /\ last' \in Line /\ first \in Line
        /\ UNCHANGED <<first, outcome, runnerVars>> /\ RelayOnly
        /\ \/ relay' = "tail"
           \/ relay' = "final" /\ last' = printed /\ last' = last /\ state \in Over
    <2>1. first \in Int /\ last \in Int /\ printed \in 1 .. MaxLine /\ 1 <= first
      BY <1>0, RunLogAssumption DEF RelayLine, CloseLogs, PrintedFits, TypeOK
    <2>2. relay = "tail" /\ first <= printed /\ first <= last + 1 /\ last <= printed
      BY <1>0 DEF RelayLine, CloseLogs, RelayFits
    <2>3. CASE RelayLine
      BY <2>1, <2>2, <2>3, RunLogAssumption DEF RelayLine, Line
    <2>4. CASE CloseLogs
      BY <2>1, <2>2, <2>4, RunLogAssumption DEF CloseLogs, Line, Over
    <2> QED
      BY <2>3, <2>4
  <1>2. \A p \in flying' : \/ p \in flying
                           \/ p = [text |-> Text(first, last'), final |-> FALSE]
                           \/ p = [text |-> Text(first, last'), final |-> TRUE] /\ relay' = "final"
    BY <1>1 DEF RelayLine, CloseLogs, Accumulated
  <1>3. \A p \in flying : ~p.final
    BY <1>0, <1>1 DEF PutsFit, RelayFits
  <1>4. \A p \in flying' : p.text \in Texts /\ p.final \in BOOLEAN
    <2>1. Text(first, last') \in Texts
      BY <1>1, LineTexts
    <2>2. \A p \in flying : p.text \in Texts /\ p.final \in BOOLEAN
      BY <1>0 DEF TypeOK
    <2>3. ASSUME NEW p, NEW f \in BOOLEAN, p = [text |-> Text(first, last'), final |-> f]
          PROVE  p.text \in Texts /\ p.final \in BOOLEAN
      <3>1. p.text = Text(first, last') /\ p.final = f
        BY <2>3
      <3> QED
        BY <2>1, <3>1
    <2>4. TRUE \in BOOLEAN /\ FALSE \in BOOLEAN
      OBVIOUS
    <2> QED
      BY <1>2, <2>2, <2>3, <2>4, Zenon
  <1>5. PutsFit'
    BY <1>0, <1>1, <1>2, <1>3 DEF PutsFit, TypeOK, Line
  <1>6. RelayFits' /\ Stored'
    <2>1. first' = first /\ printed' = printed /\ state' = state
      BY <1>1 DEF runnerVars
    <2>2. first' \in Int /\ last' \in Int
      BY <1>1 DEF Line
    <2>3. relay' \in {"tail", "final"} /\ (relay' = "final" => last' = printed' /\ state' \in Over)
      BY <1>1, <2>1
    <2>4. printed' \in Int /\ first' <= last' /\ last' <= printed'
      BY <1>0, <1>1, <2>1 DEF TypeOK
    <2>5. RelayFits'
      <3>0. first' <= last' + 1
        <4>1. \A x, y \in Int : x <= y => x <= y + 1
          OBVIOUS
        <4> QED
          BY <2>2, <2>4, <4>1, Zenon
      <3>1. first' <= printed'
        BY <2>2, <2>4
      <3>2. relay' \notin {"run", "logs"}
        BY <2>3
      <3>3. relay' \in Closed => relay' = "final"
        BY <2>3 DEF Closed
      <3> QED
        BY <2>3, <2>4, <3>0, <3>1, <3>2, <3>3, Zenon DEF RelayFits
    <2> QED
      BY <2>3, <2>5 DEF Stored, Closed
  <1> QED
    BY <1>0, <1>1, <1>4, <1>5, <1>6, RelayFrame DEF TypeOK, Line

LEMMA RelayGoesOn ==
    ASSUME LogSafe, ReadStatus \/ PutStatus \/ RelayFails \/ RelayCut
    PROVE  LogSafe'
  <1>0. TypeOK /\ PrintedFits /\ RelayFits /\ PutsFit /\ Stored
    BY DEF LogSafe, TextsInv
  <1>1. /\ UNCHANGED <<first, last, runnerVars>> /\ RelayOnly /\ relay # "done"
        /\ outcome' \in {None} \cup Terminal
        /\ flying' \subseteq flying
        /\ \/ relay \in {"status", "put"} /\ relay' \in {"put", "finish"}
           \/ relay' \in {"failed", "off"}
    BY <1>0 DEF ReadStatus, PutStatus, RelayFails, RelayCut, TypeOK
  <1>2. UNCHANGED <<state, printed, object, disturbed>>
    BY <1>1 DEF runnerVars, RelayOnly, storeVars
  <1>3. relay' \notin {"run", "logs", "tail"} /\ (relay' \in Closed => relay \in Closed \ {"final"})
    BY <1>1 DEF Closed
  <1>4. RelayFits'
    <2>1. relay' \in {"put", "finish"} => outcome' \in Terminal
      BY <1>0 DEF ReadStatus, PutStatus, RelayFails, RelayCut, RelayFits
    <2> QED
      BY <1>0, <1>1, <1>2, <1>3, <2>1 DEF RelayFits
  <1>5. PutsFit'
    BY <1>0, <1>1, <1>3 DEF PutsFit
  <1>6. Stored'
    BY <1>0, <1>1, <1>2, <1>3 DEF Stored
  <1>7. relay' \notin {"run", "failed", "off"} => printed > 0
    BY <1>0, <1>1 DEF PrintedFits
  <1>8. \A p \in flying' : p.text \in Texts /\ p.final \in BOOLEAN
    BY <1>0, <1>1 DEF TypeOK
  <1>9. /\ relay' \in {"put", "finish", "failed", "off"}
        /\ first' \in 1 .. MaxLine + 1 /\ last' \in 0 .. MaxLine
    BY <1>0, <1>1 DEF TypeOK
  <1> QED
    BY <1>1, <1>4, <1>5, <1>6, <1>7, <1>8, <1>9, RelayFrame

\* finishRun(), by any of the three.
LEMMA RecordKeeps ==
    ASSUME LogSafe, RecordByRelay \/ RecordByCaller
    PROVE  LogSafe'
  <1>0. TypeOK /\ PrintedFits /\ RelayFits /\ PutsFit /\ HeldFits /\ ObjectFits /\ Stored /\ ScreenFits /\ RowFits
    BY DEF LogSafe, TextsInv
  <1>1. /\ UNCHANGED <<first, last, outcome, runnerVars, flying, storeVars, backstopVars, viewerVars>>
        /\ \/ relay = "finish" /\ relay' = "done"
           \/ relay = "failed" /\ relay' = "off"
    BY DEF RecordByRelay, RecordByCaller
  <1>2. UNCHANGED <<state, printed, oldest, object, disturbed, backstop, held, viewer, cursor, shown, done>>
    BY <1>1 DEF runnerVars, storeVars, backstopVars, viewerVars
  <1>3. \/ row # "running" /\ row' = row /\ by' = by
        \/ row = "running" /\ row' \in Terminal /\ by' \in {"relay", "caller"}
           /\ (by' = "relay" => relay' = "done")
    BY <1>0, RunLogAssumption DEF RecordByRelay, RecordByCaller, Record, rowVars, RelayFits, Terminal
  <1>4. TypeOK'
    BY <1>0, <1>1, <1>2, <1>3 DEF TypeOK, runnerVars, backstopVars
  <1>5. PrintedFits'
    BY <1>0, <1>1, <1>2 DEF PrintedFits
  <1>6. RelayFits'
    BY <1>0, <1>1, <1>2 DEF RelayFits, Closed
  <1>7. PutsFit'
    BY <1>0, <1>1 DEF PutsFit
  <1>8. HeldFits' /\ ObjectFits'
    BY <1>0, <1>2 DEF HeldFits, ObjectFits
  <1>9. Stored' /\ ScreenFits'
    BY <1>0, <1>1, <1>2 DEF Stored, ScreenFits, Closed
  <1>10. RowFits'
    BY <1>0, <1>1, <1>2, <1>3 DEF RowFits, Terminal
  <1> QED
    BY <1>4, <1>5, <1>6, <1>7, <1>8, <1>9, <1>10 DEF LogSafe, TextsInv

-----------------------------------------------------------------------------
(* Puts.  One after which `disturbed' is false extends the object. *)

LEMMA StoreExtends ==
    ASSUME NEW a \in Line, NEW b \in Line, a <= b, NEW c \in Line, NEW d \in Line, c <= d,
           Store(Text(a, b)), object = Text(c, d), ~disturbed'
    PROVE  a = c /\ d <= b
  <1>0. a \in Int /\ b \in Int /\ c \in Int /\ d \in Int /\ 1 <= a /\ 1 <= c
    BY RunLogAssumption DEF Line
  <1>1. Extends(Text(a, b))
    BY DEF Store
  <1>2. /\ Text(a, b)[1] = a /\ Text(a, b)[Len(Text(a, b))] = b
        /\ Text(c, d) # <<>> /\ Text(c, d)[1] = c /\ Text(c, d)[Len(Text(c, d))] = d
    BY <1>0, TextEnds
  <1> HIDE DEF Text
  <1>3. a = c /\ b >= d
    BY <1>1, <1>2 DEF Extends
  <1> QED
    BY <1>0, <1>3

LEMMA StoreKeeps ==
    ASSUME LogSafe, NEW a \in Line, NEW b \in Line, a <= b, b <= printed,
           Store(Text(a, b)), UNCHANGED <<printed, cursor, shown>>
    PROVE  /\ ObjectFits' /\ ScreenFits' /\ object' \in Texts
           /\ disturbed' \in BOOLEAN /\ (~disturbed' => ~disturbed)
  <1>0. object' = Text(a, b) /\ object' \in Texts
    BY LineTexts DEF Store
  <1>1. disturbed' \in BOOLEAN /\ (~disturbed' => ~disturbed)
    BY DEF LogSafe, TypeOK, Store
  <1>2. ObjectFits'
    BY <1>0 DEF ObjectFits
  <1>3. ScreenFits'
    <2> SUFFICES ASSUME ~disturbed'
                 PROVE  cursor \in 0 .. Len(object') /\ shown = SubSeq(object', 1, cursor)
      BY DEF LogSafe, ScreenFits
    <2>1. cursor \in 0 .. Len(object) /\ shown = SubSeq(object, 1, cursor)
      BY <1>1 DEF LogSafe, ScreenFits
    <2>2. a \in Int /\ b \in Int /\ 1 <= a
      BY RunLogAssumption DEF Line
    <2>3. Len(object') = b - a + 1
      BY <1>0, <2>2, TextEnds
    <2>4. CASE object = <<>>
      <3>1. cursor = 0
        BY <2>1, <2>4
      <3>2. shown = <<>> /\ SubSeq(object', 1, 0) = <<>>
        BY <2>1, <3>1, SubSeqEmpty
      <3> QED
        BY <2>2, <2>3, <3>1, <3>2
    <2>5. CASE object # <<>>
      <3>1. PICK c \in Line, d \in Line : c <= d /\ object = Text(c, d)
        BY <1>1, <2>5 DEF LogSafe, TextsInv, ObjectFits
      <3>2. c = a /\ d <= b /\ d \in Int
        BY <3>1, StoreExtends, RunLogAssumption DEF Line
      <3>3. Len(object) = d - a + 1
        BY <2>2, <3>1, <3>2, TextEnds
      <3>4. cursor \in 0 .. d - a + 1 /\ cursor \in 0 .. b - a + 1
        BY <2>1, <2>2, <3>2, <3>3
      <3>5. SubSeq(object, 1, cursor) = Text(a, a + cursor - 1)
        BY <2>2, <3>1, <3>2, <3>4, TextBegins
      <3>6. SubSeq(object', 1, cursor) = Text(a, a + cursor - 1)
        BY <1>0, <2>2, <3>4, TextBegins
      <3> QED
        BY <2>1, <2>3, <3>4, <3>5, <3>6
    <2> QED
      BY <2>4, <2>5
  <1> QED
    BY <1>0, <1>1, <1>2, <1>3

\* Who has seen the whole log of a recorded run goes on seeing it.
LEMMA StoredStays ==
    ASSUME RowFits, Stored, Stored', UNCHANGED <<first, printed, row, by, viewer, shown, done>>,
           relay = "done" => relay' = "done", ~disturbed' => ~disturbed
    PROVE  RowFits'
  <1>1. by = "relay" => relay' = "done"
    BY DEF RowFits
  <1>2. viewer = "stopped" /\ by = "relay" /\ ~disturbed' => shown = object'
    BY DEF RowFits, Stored, Closed
  <1> QED
    BY <1>1, <1>2 DEF RowFits

LEMMA PutLandsKeeps ==
    ASSUME LogSafe, NEW p \in flying, PutLands(p)
    PROVE  LogSafe'
  <1>0. TypeOK /\ PrintedFits /\ RelayFits /\ PutsFit /\ HeldFits /\ Stored /\ RowFits
    BY DEF LogSafe, TextsInv
  <1>1. UNCHANGED <<state, stuck, printed, oldest, first, last, outcome, row, by, backstop, held, seen,
                    viewer, cursor, shown, done>>
    BY DEF PutLands, runnerVars, rowVars, backstopVars, viewerVars
  <1>2. Store(p.text) /\ flying' = flying \ {p}
        /\ relay' = IF p.final /\ relay = "final" THEN "status" ELSE relay
    BY DEF PutLands
  <1>3. PICK b \in first .. last : p.text = Text(first, b)
    BY <1>0 DEF PutsFit
  <1>4. /\ first \in Line /\ b \in Line /\ first <= b /\ b <= printed
        /\ first \in Int /\ b \in Int /\ last \in Int /\ printed \in Int /\ b <= last
    BY <1>0, RunLogAssumption DEF TypeOK, RelayFits, Line
  <1>5. /\ ObjectFits' /\ ScreenFits' /\ object' \in Texts
        /\ disturbed' \in BOOLEAN /\ (~disturbed' => ~disturbed)
    BY <1>1, <1>2, <1>3, <1>4, StoreKeeps
  <1>6. TypeOK'
    BY <1>0, <1>1, <1>2, <1>5 DEF TypeOK
  <1>7. PrintedFits' /\ HeldFits'
    BY <1>0, <1>1, <1>2 DEF PrintedFits, HeldFits
  <1>8. RelayFits' /\ PutsFit'
    BY <1>0, <1>1, <1>2 DEF RelayFits, PutsFit, Closed
  <1>9. Stored'
    <2> SUFFICES ASSUME relay' \in Closed \ {"final"}, ~disturbed'
                 PROVE  Text(first, b) = Text(first, printed)
      BY <1>1, <1>2, <1>3 DEF Stored, Store
    <2>1. CASE p.final
      BY <1>0, <1>2, <1>3, <2>1 DEF PutsFit, RelayFits, Closed
    <2>2. CASE ~p.final
      <3>1. object = Text(first, printed) /\ printed = last
        BY <1>0, <1>2, <1>5, <2>2 DEF Stored, RelayFits
      <3>2. printed \in Line /\ first <= printed
        BY <1>0, <1>2, <1>4, <2>2, RunLogAssumption DEF TypeOK, RelayFits, Line
      <3>3. printed <= b
        BY <1>2, <1>3, <1>4, <3>1, <3>2, StoreExtends
      <3> QED
        BY <1>4, <3>1, <3>3
    <2> QED
      BY <2>1, <2>2
  <1>10. RowFits'
    BY <1>0, <1>1, <1>2, <1>5, <1>9, StoredStays
  <1> QED
    BY <1>5, <1>6, <1>7, <1>8, <1>9, <1>10 DEF LogSafe, TextsInv

LEMMA PutLostKeeps ==
    ASSUME LogSafe, NEW p \in flying, PutLost(p)
    PROVE  LogSafe'
  <1>0. TypeOK /\ PrintedFits /\ RelayFits /\ PutsFit /\ Stored
    BY DEF LogSafe, TextsInv
  <1>1. /\ UNCHANGED <<first, last, outcome, runnerVars>> /\ RelayOnly
        /\ flying' = flying \ {p}
        /\ relay' \in {relay, "failed"} /\ (relay = "done" => relay' = "done")
    BY DEF PutLost
  <1>2. UNCHANGED <<state, printed, object, disturbed>>
    BY <1>1 DEF runnerVars, RelayOnly, storeVars
  <1>3. RelayFits' /\ PutsFit'
    BY <1>0, <1>1, <1>2 DEF RelayFits, PutsFit, Closed
  <1>4. Stored'
    BY <1>0, <1>1, <1>2 DEF Stored, Closed
  <1>5. PrintedFits'
    BY <1>0, <1>1 DEF PrintedFits, runnerVars
  <1>6. TypeOK'
    BY <1>0, <1>1 DEF TypeOK, runnerVars, RelayOnly, storeVars, rowVars, backstopVars, viewerVars
  <1>7. HeldFits' /\ ObjectFits' /\ ScreenFits' /\ RowFits'
    BY <1>1 DEF LogSafe, TextsInv, HeldFits, ObjectFits, ScreenFits, RowFits, runnerVars, RelayOnly,
                storeVars, rowVars, backstopVars, viewerVars
  <1> QED
    BY <1>3, <1>4, <1>5, <1>6, <1>7 DEF LogSafe, TextsInv

-----------------------------------------------------------------------------
(* The backstop's steps, and the screen's. *)

LEMMA BackstopQuiet ==
    ASSUME LogSafe,
           BackstopDecides \/ BackstopReads \/ BackstopPutsStatus \/ BackstopSkips
    PROVE  LogSafe'
  <1>0. TypeOK /\ PrintedFits /\ HeldFits
    BY DEF LogSafe, TextsInv
  <1>1. BackstopOnly /\ UNCHANGED <<storeVars, rowVars>>
    BY DEF BackstopDecides, BackstopReads, BackstopPutsStatus, BackstopSkips
  <1> USE DEF BackstopOnly, runnerVars, relayVars, storeVars, rowVars, viewerVars
  <1>2. /\ backstop' \in {"armed", "logs", "put", "status", "finish", "off"}
        /\ seen' \in {None, "gone"} \cup Active \cup Terminal
    BY <1>0 DEF BackstopDecides, BackstopReads, BackstopPutsStatus, BackstopSkips, TypeOK
  <1>3. HeldFits' /\ held' \in Texts \cup {Refusal}
    <2>0. CASE BackstopReads /\ state = "gone"
      BY <2>0 DEF BackstopReads, HeldFits
    <2>1. CASE BackstopReads /\ state # "gone"
      <3>1. oldest <= printed /\ state \in Over
        BY <1>0, <2>1 DEF BackstopReads, PrintedFits, TypeOK, Over
      <3>2. Text(oldest, printed) \in Texts
        BY <1>0, <3>1, LineTexts, RunLogAssumption DEF TypeOK, Line
      <3> QED
        BY <1>1, <2>1, <3>1, <3>2 DEF BackstopReads, HeldFits
    <2>2. CASE BackstopDecides \/ BackstopPutsStatus \/ BackstopSkips
      BY <1>0, <2>2, NoText DEF BackstopDecides, BackstopPutsStatus, BackstopSkips, HeldFits, TypeOK
    <2> QED
      BY <2>0, <2>1, <2>2
  <1>4. TypeOK'
    BY <1>0, <1>1, <1>2, <1>3 DEF TypeOK
  <1>5. PrintedFits' /\ RelayFits' /\ PutsFit' /\ ObjectFits'
    BY <1>1 DEF LogSafe, TextsInv, PrintedFits, RelayFits, PutsFit, ObjectFits
  <1>6. Stored' /\ ScreenFits' /\ RowFits'
    BY <1>1 DEF LogSafe, Stored, ScreenFits, RowFits
  <1> QED
    BY <1>3, <1>4, <1>5, <1>6 DEF LogSafe, TextsInv

LEMMA BackstopPutsKeeps ==
    ASSUME LogSafe, BackstopPuts
    PROVE  LogSafe'
  <1>0. TypeOK /\ PrintedFits /\ RelayFits /\ PutsFit /\ HeldFits /\ Stored /\ RowFits
    BY DEF LogSafe, TextsInv
  <1>1. UNCHANGED <<state, stuck, printed, oldest, relay, first, last, outcome, flying, row, by, seen,
                    viewer, cursor, shown, done>>
    BY DEF BackstopPuts, BackstopOnly, runnerVars, relayVars, rowVars, viewerVars
  <1>2. /\ Store(held) /\ held' = <<>> /\ backstop' = "status"
        /\ held = Refusal \/ (held = Text(oldest, printed) /\ oldest <= printed)
    BY <1>0 DEF BackstopPuts, HeldFits
  <1>3. oldest <= printed =>
           oldest \in Line /\ printed \in Line /\ oldest \in Int /\ printed \in Int
    BY <1>0, RunLogAssumption DEF TypeOK, Line
  <1>9. held = Refusal => object' = Refusal /\ disturbed' = TRUE
    BY <1>2 DEF Store, Extends
  <1>4. /\ ObjectFits' /\ ScreenFits' /\ object' \in Texts \cup {Refusal}
        /\ disturbed' \in BOOLEAN /\ (~disturbed' => ~disturbed)
    <2>1. CASE held = Refusal
      BY <1>1, <1>9, <2>1 DEF LogSafe, ObjectFits, ScreenFits
    <2>2. CASE held # Refusal
      BY <1>1, <1>2, <1>3, <2>2, StoreKeeps
    <2> QED
      BY <2>1, <2>2
  <1>5. TypeOK'
    BY <1>0, <1>1, <1>2, <1>4, NoText DEF TypeOK
  <1>6. PrintedFits' /\ RelayFits' /\ PutsFit' /\ HeldFits'
    BY <1>0, <1>1, <1>2 DEF PrintedFits, RelayFits, PutsFit, HeldFits
  <1>7. Stored'
    <2> SUFFICES ASSUME relay \in Closed \ {"final"}, ~disturbed'
                 PROVE  held = Text(first, printed)
      BY <1>1, <1>2 DEF Stored, Store
    <2>0. held = Text(oldest, printed) /\ oldest <= printed
      BY <1>2, <1>9
    <2>1. object = Text(first, printed)
      BY <1>0, <1>4 DEF Stored
    <2>2. first \in Line /\ first <= printed
      BY <1>0, <1>3, <2>0, RunLogAssumption DEF TypeOK, RelayFits, Line
    <2>3. oldest = first
      BY <1>2, <1>3, <2>0, <2>1, <2>2, StoreExtends
    <2> QED
      BY <2>0, <2>3
  <1>8. RowFits'
    BY <1>0, <1>1, <1>4, <1>7, StoredStays
  <1> QED
    BY <1>4, <1>5, <1>6, <1>7, <1>8 DEF LogSafe, TextsInv

LEMMA BackstopRecords ==
    ASSUME LogSafe, RecordByBackstop
    PROVE  LogSafe'
  <1>1. UNCHANGED <<state, stuck, printed, oldest, relay, first, last, outcome, flying, object, disturbed,
                    held, viewer, cursor, shown, done>>
    BY DEF RecordByBackstop, BackstopOnly, runnerVars, relayVars, storeVars, viewerVars
  <1>2. /\ backstop = "finish" /\ backstop' = "off" /\ seen' = None
        /\ \/ row # "running" /\ row' = row /\ by' = by
           \/ row = "running" /\ row' \in Terminal /\ by' = "backstop"
    BY DEF RecordByBackstop, Record, rowVars, Terminal
  <1>3. TypeOK'
    BY <1>1, <1>2 DEF LogSafe, TypeOK
  <1>4. TextsInv'
    BY <1>1, <1>2 DEF LogSafe, TextsInv, PrintedFits, RelayFits, PutsFit, HeldFits, ObjectFits
  <1>5. Stored' /\ ScreenFits'
    BY <1>1 DEF LogSafe, Stored, ScreenFits
  <1>6. RowFits'
    BY <1>1, <1>2 DEF LogSafe, RowFits, TypeOK, Terminal
  <1> QED
    BY <1>3, <1>4, <1>5, <1>6 DEF LogSafe

LEMMA ViewerKeeps ==
    ASSUME LogSafe, Viewer
    PROVE  LogSafe'
  <1>0. TypeOK /\ ObjectFits /\ ScreenFits /\ RowFits /\ Stored
    BY DEF LogSafe, TextsInv
  <1>1. ViewerOnly
    BY DEF Viewer, ReadRow, ReadObject
  <1>2. UNCHANGED <<state, stuck, printed, oldest, relay, first, last, outcome, flying, object, disturbed,
                    row, by, backstop, held, seen>>
    BY <1>1 DEF ViewerOnly, runnerVars, relayVars, storeVars, rowVars, backstopVars
  <1>3. TextsInv' /\ Stored'
    BY <1>2 DEF LogSafe, TextsInv, PrintedFits, RelayFits, PutsFit, HeldFits, ObjectFits, Stored
  <1>4. object \in Seq(Line \cup {0}) /\ Len(object) \in 0 .. MaxLine
    <2>1. CASE object = <<>>
      BY <2>1, NoText, RunLogAssumption
    <2>2. CASE object = Refusal
      BY <2>2, RunLogAssumption DEF Refusal
    <2>3. CASE object # <<>> /\ object # Refusal
      <3>1. PICK a \in Line, b \in Line : a <= b /\ b <= printed /\ object = Text(a, b)
        BY <1>0, <2>3 DEF ObjectFits
      <3>2. a \in Int /\ b \in Int /\ 1 <= a
        BY RunLogAssumption DEF Line
      <3>3. Len(object) = b - a + 1
        BY <3>1, <3>2, TextEnds
      <3>4. object \in Seq(Line)
        BY <3>1, LineTexts
      <3> QED
        BY <3>2, <3>3, <3>4, RunLogAssumption DEF Line
    <2> QED
      BY <2>1, <2>2, <2>3
  <1>5. CASE ReadRow
    <2>1. UNCHANGED <<cursor, shown>> /\ viewer' = "read"
      BY <1>5 DEF ReadRow
    <2>2. done' \in BOOLEAN /\ (done' => row \in Terminal)
      <3>1. done' = (row \in Terminal)
        BY <1>5 DEF ReadRow
      <3>2. (row \in Terminal) = TRUE \/ (row \in Terminal) = FALSE
        OBVIOUS
      <3> QED
        BY <3>1, <3>2
    <2>3. TypeOK' /\ ScreenFits'
      BY <1>0, <1>2, <2>1, <2>2 DEF TypeOK, ScreenFits
    <2>4. RowFits'
      BY <1>0, <1>2, <2>1, <2>2 DEF RowFits
    <2> QED
      BY <1>3, <2>3, <2>4 DEF LogSafe
  <1>6. CASE ReadObject
    <2>1. /\ viewer = "read" /\ done' = done /\ cursor' = Len(object)
          /\ viewer' = (IF done THEN "stopped" ELSE "idle")
          /\ shown' = shown \o Rest(object)
      BY <1>6 DEF ReadObject
    <2>2. Rest(object) \in Seq(Line \cup {0})
      <3>1. cursor + 1 \in Int /\ Len(object) \in Int /\ \A i \in cursor + 1 .. Len(object) : object[i] \in Line \cup {0}
        BY <1>0, <1>4 DEF TypeOK
      <3> QED
        BY <3>1, SubSeqProperties DEF Rest
    <2>3. shown' \in Seq(Line \cup {0})
      BY <1>0, <2>1, <2>2 DEF ScreenFits
    <2>4. ~disturbed => shown' = object
      BY <1>0, <1>4, <2>1, TextRest DEF ScreenFits, Rest
    <2>5. ScreenFits'
      BY <1>2, <1>4, <2>1, <2>3, <2>4, SubSeqFull DEF ScreenFits
    <2>6. TypeOK'
      <3>1. viewer' \in {"idle", "read", "stopped"} /\ cursor' \in 0 .. MaxLine /\ done' \in BOOLEAN
        BY <1>0, <1>4, <2>1 DEF TypeOK
      <3>2. \A i \in DOMAIN shown' : shown'[i] \in Line \cup {0}
        BY <2>3
      <3> QED
        BY <1>0, <1>2, <3>1, <3>2 DEF TypeOK
    <2>7. RowFits'
      BY <1>0, <1>2, <2>1, <2>4 DEF RowFits
    <2> QED
      BY <1>3, <2>5, <2>6, <2>7 DEF LogSafe
  <1> QED
    BY <1>5, <1>6 DEF Viewer

-----------------------------------------------------------------------------

LEMMA LogSafeStep == LogSafe /\ [Next]_vars => LogSafe'
  <1> SUFFICES ASSUME LogSafe, [Next]_vars PROVE LogSafe'
    OBVIOUS
  <1>1. CASE UNCHANGED vars
    BY <1>1 DEF vars, runnerVars, relayVars, storeVars, rowVars, backstopVars, viewerVars, LogSafe,
                TypeOK, TextsInv, PrintedFits, RelayFits, PutsFit, HeldFits, ObjectFits, Stored,
                ScreenFits, RowFits
  <1>2. CASE Relay
    BY <1>2, PostRunKeeps, OpenLogsKeeps, TailKeeps, RelayGoesOn, RecordKeeps DEF Relay
  <1>3. CASE Bucket
    BY <1>3, PutLandsKeeps, PutLostKeeps DEF Bucket
  <1>4. CASE Backstop
    BY <1>4, BackstopQuiet, BackstopPutsKeeps, BackstopRecords DEF Backstop
  <1> QED
    BY <1>1, <1>2, <1>3, <1>4, ContainerKeeps, ViewerKeeps DEF Next

LEMMA LogInvariant == Spec => []LogSafe
  BY LogSafeInit, LogSafeStep, PTL DEF Spec

(* For a log of any length, a container's buffer of any size and any       *)
(* number of puts that land in any order or not at all: when the relay has *)
(* returned, R2 has every line from the first it was replayed to the last  *)
(* one printed, unless a put was overtaken, or the backstop's text began   *)
(* elsewhere or was no log.                                                *)
THEOREM RelayedLogKept == Spec => []LogInv
  <1>1. LogSafe => LogInv
    BY DEF LogSafe, LogInv, RelayedLogIsWhole, Stored, Closed
  <1> QED
    BY <1>1, LogInvariant, PTL

(* Under the same exceptions the screen has no line twice and skips none,  *)
(* whichever versions of the object its requests met.                      *)
THEOREM ScreenInOrder == Spec => []ShownInOrder
  <1>1. LogSafe => ShownInOrder
    <2> SUFFICES ASSUME LogSafe, ~disturbed, NEW i \in 1 .. Len(shown) - 1
                 PROVE  shown[i + 1] = shown[i] + 1
      BY DEF ShownInOrder
    <2>1. cursor \in 0 .. Len(object) /\ shown = SubSeq(object, 1, cursor)
      BY DEF LogSafe, ScreenFits
    <2>2. object # <<>>
      <3> SUFFICES ASSUME object = <<>> PROVE FALSE
        OBVIOUS
      <3>1. cursor = 0 /\ shown = <<>>
        BY <2>1, SubSeqEmpty
      <3> QED
        BY <3>1
    <2>3. PICK a \in Line, b \in Line : a <= b /\ object = Text(a, b)
      BY <2>2 DEF LogSafe, TextsInv, ObjectFits
    <2>4. a \in Int /\ b \in Int /\ 1 <= a
      BY RunLogAssumption DEF Line
    <2>5. cursor \in 0 .. b - a + 1
      BY <2>1, <2>3, <2>4, TextEnds
    <2>6. shown = Text(a, a + cursor - 1)
      BY <2>1, <2>3, <2>4, <2>5, TextBegins
    <2>7. Len(shown) = cursor /\ \A j \in 1 .. cursor : shown[j] = a + j - 1
      BY <2>4, <2>5, <2>6 DEF Text
    <2> QED
      BY <2>4, <2>5, <2>7
  <1> QED
    BY <1>1, LogInvariant, PTL

(* Under the same exceptions, a tail that ends because the relay recorded  *)
(* the run has shown the log's last line.                                  *)
THEOREM NothingLeftUnshown == Spec => []StoppedShowsAll
  <1>1. LogSafe => StoppedShowsAll
    <2> SUFFICES ASSUME LogSafe, viewer = "stopped", by = "relay", ~disturbed
                 PROVE  shown # <<>> /\ shown[Len(shown)] = printed
      BY DEF StoppedShowsAll
    <2>1. shown = Text(first, printed) /\ first <= printed
      BY DEF LogSafe, TextsInv, RowFits, Stored, RelayFits, Closed
    <2>2. first \in Int /\ printed \in Int /\ 1 <= first
      BY DEF LogSafe, TypeOK
    <2> QED
      BY <2>1, <2>2, TextEnds
  <1> QED
    BY <1>1, LogInvariant, PTL
=============================================================================
