------------------------- MODULE BinanceOrdersProofs -------------------------
(***************************************************************************)
(* Proofs about BinanceOrders for any set of orders, any quantity and any  *)
(* number of crashes.  The inductive invariant IInv says how the two       *)
(* copies of the journal relate to the exchange and where the worker can   *)
(* be; from it follow the answers' truth, the single placement and the     *)
(* refinement of OneShotOrder.                                             *)
(***************************************************************************)
EXTENDS BinanceOrders, TLAPS

Unfinished == {"intent", "submitted", "unknown"}

\* Memory and disk differ only after a failed append, never about a terminal
\* state, and a new id is at most intended on the disk.
CopiesAgree ==
    /\ ~poisoned => disk = journal
    /\ \A o \in Orders :
          /\ journal[o].state \in Terminal => disk[o] = journal[o]
          /\ journal[o].state = "none" => disk[o].state \in {"none", "intent"}

\* What either copy of the journal says of the exchange.
RecordIsTrue(record, o) ==
    /\ record.state = "none" => exchange[o].state = "none"
    /\ record.state = "rejected" => NoEffect(o)
    /\ record.state = "terminal" => exchange[o] = Progress("closed", record.executed)

RecordsAreTrue ==
    \A o \in Orders : RecordIsTrue(journal[o], o) /\ RecordIsTrue(disk[o], o)

\* An order the exchange has heard of was sent exactly once.
SentOnce == \A o \in Orders : placed[o] = IF exchange[o].state = "none" THEN 0 ELSE 1

\* Where the worker is, and what that says of its order and of the queue.
WorkerOK ==
    /\ worker.step \in {"down", "starting", "idle"} =>
          worker.order = NoOrder /\ worker.confirm_absent = FALSE
    /\ worker.step \in {"intended", "placing", "confirming", "querying"} => worker.order \in Orders
    /\ worker.step \in {"down", "idle", "intended", "placing", "confirming"} => queue = {}
    /\ worker.step = "intended" =>
          /\ ~poisoned /\ journal[worker.order].state = "intent"
          /\ exchange[worker.order].state = "none"
          /\ answer[worker.order] = Reply("none", 0)
    /\ worker.step = "placing" =>
          journal[worker.order].state = "intent" /\ exchange[worker.order].state # "none"
    /\ worker.step = "confirming" =>
          journal[worker.order].state = "submitted" /\ exchange[worker.order].state # "none"
    /\ worker.step = "querying" =>
          /\ journal[worker.order].state \in Unfinished
          /\ queue = {} \/ worker.order \in queue
    /\ \A o \in queue : journal[o].state \in Unfinished
    /\ worker.step # "down" =>
          \A o \in Orders : journal[o].state \in Unfinished =>
             \/ o \in queue \/ exchange[o].state # "none"
             \/ worker.step = "intended" /\ worker.order = o

\* The inductive invariant.
IInv ==
    /\ TypeOK
    /\ CopiesAgree
    /\ RecordsAreTrue
    /\ SentOnce
    /\ WorkerOK
    /\ AnswersAreTrue

Record == [state : JournalStates, executed : Quantities]

\* Every state of the worker has its type.
LEMMA WorkerType ==
    ASSUME NEW s \in Steps, NEW o \in Orders \cup {NoOrder}, NEW c \in BOOLEAN
    PROVE  At(s, o, c) \in [step : Steps, order : Orders \cup {NoOrder}, confirm_absent : BOOLEAN]
  BY Zenon DEF At

\* A lane that has served nothing satisfies IInv.
LEMMA InitIInv == ASSUME OrdersAssumption, Init PROVE IInv
<1> USE DEF OrdersAssumption, Init, Fresh, Progress, Reply, Idle, At
<1>1. TypeOK
  <2>1. Fresh \in [state : JournalStates, executed : Quantities]
    BY DEF JournalStates, Quantities
  <2>2. Fresh \in [state : ExchangeStates, executed : Quantities]
    BY DEF ExchangeStates, Quantities
  <2>3. Reply("none", 0) \in [kind : AnswerKinds, executed : Quantities]
    BY DEF AnswerKinds, Quantities
  <2>4. Idle \in [step : Steps, order : Orders \cup {NoOrder}, confirm_absent : BOOLEAN]
    BY Zenon DEF Steps
  <2> HIDE DEF Fresh, Reply, Idle
  <2>5. crashes \in 0 .. MaxCrashes
    OBVIOUS
  <2>6. /\ poisoned \in BOOLEAN /\ queue \subseteq Orders
        /\ worker \in [step : Steps, order : Orders \cup {NoOrder}, confirm_absent : BOOLEAN]
    BY <2>4, Zenon
  <2>7. placed \in [Orders -> Nat]
    BY Zenon
  <2> QED
    BY <2>1, <2>2, <2>3, <2>5, <2>6, <2>7, Zenon DEF TypeOK
<1>2. CopiesAgree /\ RecordsAreTrue /\ SentOnce
  BY Zenon DEF CopiesAgree, RecordsAreTrue, RecordIsTrue, NoEffect, SentOnce, Terminal
<1>3. WorkerOK
  BY Zenon DEF WorkerOK, Unfinished, NoOrder
<1>4. AnswersAreTrue
  BY Zenon DEF AnswersAreTrue
<1> QED
  BY <1>1, <1>2, <1>3, <1>4, Zenon DEF IInv

\* An append, whether it succeeds or fails, keeps both copies of the journal
\* true if the record is true.
LEMMA AppendOK ==
    ASSUME OrdersAssumption, IInv, NEW o \in Orders, NEW p \in Record,
           Appended(o, p) \/ AppendFailed(o, p), RecordIsTrue(p, o), UNCHANGED exchange
    PROVE  /\ journal' \in [Orders -> Record] /\ disk' \in [Orders -> Record]
           /\ poisoned' \in BOOLEAN
           /\ CopiesAgree' /\ RecordsAreTrue'
<1>1. /\ journal \in [Orders -> Record] /\ disk \in [Orders -> Record]
      /\ ~poisoned => disk = journal
      /\ journal[o].state \notin Terminal
      /\ journal[o].state = "none" => p.state = "intent"
  BY Zenon DEF IInv, TypeOK, Record, CopiesAgree, Appended, AppendFailed, TransitionAllowed
<1>2. CASE Appended(o, p)
  <2>1. journal' = [journal EXCEPT ![o] = p] /\ disk' = journal' /\ poisoned' = FALSE
    BY <1>2 DEF Appended
  <2>2. QED
    BY <1>1, <2>1, Zenon DEF IInv, CopiesAgree, RecordsAreTrue, RecordIsTrue, NoEffect, Record, Terminal, Appended, TransitionAllowed
<1>3. CASE AppendFailed(o, p)
  <2>1. /\ journal' = journal /\ poisoned' = TRUE
        /\ disk' = disk \/ disk' = [disk EXCEPT ![o] = p]
    BY <1>3, Zenon DEF AppendFailed
  <2>2. QED
    BY <1>1, <2>1 DEF IInv, CopiesAgree, RecordsAreTrue, RecordIsTrue, NoEffect, Record, Terminal
<1> QED
  BY <1>2, <1>3, Zenon

\* A true answer keeps the answers true.
LEMMA AnswerOK ==
    ASSUME IInv, NEW o \in Orders, NEW kind \in AnswerKinds, NEW x \in Quantities,
           Answer(o, kind, x), UNCHANGED exchange,
           kind = "done" => exchange[o] = Progress("closed", x),
           kind \in {"void", "unsubmitted"} => NoEffect(o)
    PROVE  /\ answer' \in [Orders -> [kind : AnswerKinds, executed : Quantities]]
           /\ AnswersAreTrue'
  BY Zenon DEF IInv, TypeOK, Answer, Reply, AnswersAreTrue, NoEffect

\* A step that appends a true record, gives a true answer and leaves the worker
\* idle: how every request ends that reached the exchange.
LEMMA RequestEnds ==
    ASSUME OrdersAssumption, IInv, NEW o \in Orders, NEW p \in Record,
           Appended(o, p) \/ AppendFailed(o, p), RecordIsTrue(p, o),
           NEW kind \in AnswerKinds, NEW x \in Quantities, Answer(o, kind, x),
           kind = "done" => exchange[o] = Progress("closed", x),
           kind \in {"void", "unsubmitted"} => NoEffect(o),
           worker.step \in {"placing", "confirming", "querying"}, worker.order = o,
           o \notin queue, worker' = Idle, UNCHANGED <<queue, venue, crashes>>
    PROVE  IInv'
<1>1. UNCHANGED <<exchange, placed, queue, crashes>>
  BY Zenon DEF venue
<1>2. /\ journal' \in [Orders -> Record] /\ disk' \in [Orders -> Record]
      /\ poisoned' \in BOOLEAN /\ CopiesAgree' /\ RecordsAreTrue'
  BY <1>1, AppendOK, Zenon
<1>3. /\ answer' \in [Orders -> [kind : AnswerKinds, executed : Quantities]]
      /\ AnswersAreTrue'
  BY <1>1, AnswerOK, Zenon
<1>4. TypeOK'
  BY <1>1, <1>2, <1>3, Zenon DEF IInv, TypeOK, Record, Idle, At, Steps
<1>5. SentOnce'
  BY <1>1, Zenon DEF IInv, SentOnce
<1>6. queue = {} /\ exchange[o].state # "none"
  BY Zenon DEF IInv, WorkerOK, Unfinished
<1>7. \A q \in Orders : q # o => journal'[q] = journal[q]
  BY Zenon DEF Appended, AppendFailed, IInv, TypeOK
<1>8. WorkerOK'
  BY <1>1, <1>6, <1>7, Zenon DEF IInv, WorkerOK, Idle, At, Unfinished
<1> QED
  BY <1>2, <1>3, <1>4, <1>5, <1>8, Zenon DEF IInv

\* A step that appends a true record while start-up queries the order: the
\* order leaves the queue, or the process stops.
LEMMA StartupQueryEnds ==
    ASSUME OrdersAssumption, IInv, NEW o \in Orders, NEW p \in Record,
           Appended(o, p) \/ AppendFailed(o, p), RecordIsTrue(p, o),
           worker.step = "querying", worker.order = o, o \in queue,
           UNCHANGED <<answer, venue, crashes>>,
           \/ Appended(o, p) /\ p.state \in Terminal /\ worker' = Starting /\ queue' = queue \ {o}
           \/ worker' = Down /\ queue' = {}
    PROVE  IInv'
<1>1. UNCHANGED <<exchange, placed, answer, crashes>>
  BY Zenon DEF venue
<1>2. /\ journal' \in [Orders -> Record] /\ disk' \in [Orders -> Record]
      /\ poisoned' \in BOOLEAN /\ CopiesAgree' /\ RecordsAreTrue'
  BY <1>1, AppendOK, Zenon
<1>3. CASE worker' = Down /\ queue' = {}
  <2>1. worker' \in [step : Steps, order : Orders \cup {NoOrder}, confirm_absent : BOOLEAN]
    BY <1>3, Zenon DEF Down, At, Steps
  <2>2. TypeOK'
    BY <1>1, <1>2, <1>3, <2>1, Zenon DEF IInv, TypeOK, Record
  <2>3. WorkerOK'
    BY <1>3, Zenon DEF WorkerOK, Down, At
  <2>4. SentOnce' /\ AnswersAreTrue'
    BY <1>1, Zenon DEF IInv, SentOnce, AnswersAreTrue, NoEffect
  <2> QED
    BY <1>2, <2>2, <2>3, <2>4, Zenon DEF IInv
<1>4. CASE Appended(o, p) /\ p.state \in Terminal /\ worker' = Starting /\ queue' = queue \ {o}
  <2>1. journal' = [journal EXCEPT ![o] = p]
    BY <1>4, Zenon DEF Appended
  <2>2. worker' \in [step : Steps, order : Orders \cup {NoOrder}, confirm_absent : BOOLEAN]
    BY <1>4, Zenon DEF Starting, At, Steps
  <2>3. TypeOK'
    BY <1>1, <1>2, <1>4, <2>2, Zenon DEF IInv, TypeOK, Record
  <2>4. WorkerOK'
    BY <1>1, <1>4, <2>1, Zenon DEF IInv, TypeOK, WorkerOK, Starting, At, Unfinished, Terminal
  <2>5. SentOnce' /\ AnswersAreTrue'
    BY <1>1, Zenon DEF IInv, SentOnce, AnswersAreTrue, NoEffect
  <2> QED
    BY <1>2, <2>3, <2>4, <2>5, Zenon DEF IInv
<1> QED
  BY <1>3, <1>4, Zenon

\* A step that appends a true record and goes on with the same order.
LEMMA RequestGoesOn ==
    ASSUME OrdersAssumption, IInv, NEW o \in Orders, NEW p \in Record,
           Appended(o, p), RecordIsTrue(p, o), p.state \in Unfinished,
           worker.step = "placing", worker.order = o,
           \/ p.state = "submitted" /\ worker' = At("confirming", o, FALSE)
           \/ worker' = At("querying", o, TRUE),
           UNCHANGED <<answer, queue, venue, crashes>>
    PROVE  IInv'
<1>1. UNCHANGED <<exchange, placed, answer, queue, crashes>>
  BY Zenon DEF venue
<1>2. /\ journal' \in [Orders -> Record] /\ disk' \in [Orders -> Record]
      /\ poisoned' \in BOOLEAN /\ CopiesAgree' /\ RecordsAreTrue'
  BY <1>1, AppendOK, Zenon
<1>a. worker' \in [step : Steps, order : Orders \cup {NoOrder}, confirm_absent : BOOLEAN]
  <2>1. CASE worker' = At("confirming", o, FALSE)
    BY <2>1, Zenon DEF At, Steps
  <2>2. CASE worker' = At("querying", o, TRUE)
    BY <2>2, Zenon DEF At, Steps
  <2> QED
    BY <2>1, <2>2, Zenon
<1>3. TypeOK'
  BY <1>1, <1>2, <1>a, Zenon DEF IInv, TypeOK, Record
<1>4. SentOnce' /\ AnswersAreTrue'
  BY <1>1, Zenon DEF IInv, SentOnce, AnswersAreTrue, NoEffect
<1>5. journal' = [journal EXCEPT ![o] = p]
  BY Zenon DEF Appended
<1>6. WorkerOK'
  BY <1>1, <1>5 DEF IInv, TypeOK, WorkerOK, At, Unfinished
<1> QED
  BY <1>2, <1>3, <1>4, <1>6, Zenon DEF IInv

\* Every step of the lane, of the exchange and of the process keeps IInv.
LEMMA NextIInv == ASSUME OrdersAssumption, IInv, [Next]_vars PROVE IInv'
<1> USE DEF OrdersAssumption
<1>r. \A s \in JournalStates, x \in Quantities : Progress(s, x) \in Record
  BY Zenon DEF Progress, Record
<1>t. /\ journal \in [Orders -> Record] /\ exchange \in [Orders -> [state : ExchangeStates, executed : Quantities]]
      /\ 0 \in Quantities
  BY DEF IInv, TypeOK, Record, Quantities
<1>c. \A o \in Orders : journal[o].state \in Unfinished => Classify(o) = "unknown"
  BY Zenon DEF Classify, Unfinished
<1>u. \A o \in Orders : RecordIsTrue(Progress("unknown", 0), o)
  BY Zenon DEF RecordIsTrue, Progress
<1>1. ASSUME NEW o \in Orders, ExecuteNew(o) PROVE IInv'
  <2> DEFINE p == Progress("intent", 0)
  <2>1. p \in Record /\ RecordIsTrue(p, o)
    BY <1>r, <1>t, Zenon DEF JournalStates, RecordIsTrue, Progress
  <2>2. UNCHANGED <<exchange, placed, queue, crashes>> /\ worker = Idle /\ journal[o].state = "none"
        /\ exchange[o].state = "none"
    BY <1>1, Zenon DEF ExecuteNew, venue, IInv, RecordsAreTrue, RecordIsTrue
  <2>3. Appended(o, p) \/ AppendFailed(o, p)
    BY <1>1, Zenon DEF ExecuteNew, FailClosed
  <2>4. p.state = "intent"
    BY Zenon DEF Progress
  <2>5. \/ Appended(o, p) /\ worker' = At("intended", o, FALSE) /\ Answer(o, "none", 0)
        \/ AppendFailed(o, p) /\ worker' = Idle /\ Answer(o, "unsubmitted", 0)
    BY <1>1, <2>2, Zenon DEF ExecuteNew, FailClosed, Classify
  <2> HIDE DEF p
  <2>6. /\ journal' \in [Orders -> Record] /\ disk' \in [Orders -> Record]
        /\ poisoned' \in BOOLEAN /\ CopiesAgree' /\ RecordsAreTrue'
    BY <2>1, <2>2, <2>3, AppendOK, Zenon
  <2>7. /\ answer' \in [Orders -> [kind : AnswerKinds, executed : Quantities]]
        /\ AnswersAreTrue'
    <3>1. CASE Answer(o, "none", 0)
      BY <3>1, <2>2, <1>t, AnswerOK, Zenon DEF AnswerKinds
    <3>2. CASE Answer(o, "unsubmitted", 0)
      BY <3>2, <2>2, <1>t, AnswerOK, Zenon DEF AnswerKinds, NoEffect
    <3> QED
      BY <3>1, <3>2, <2>5, Zenon
  <2>8. worker' \in [step : Steps, order : Orders \cup {NoOrder}, confirm_absent : BOOLEAN]
    <3>1. CASE worker' = At("intended", o, FALSE)
      BY <3>1, Zenon DEF At, Steps
    <3>2. CASE worker' = Idle
      BY <3>2, Zenon DEF Idle, At, Steps
    <3> QED
      BY <2>5, <3>1, <3>2, Zenon
  <2>9. TypeOK' /\ SentOnce'
    BY <2>2, <2>6, <2>7, <2>8, Zenon DEF IInv, TypeOK, SentOnce, Record
  <2>10. CASE Appended(o, p) /\ worker' = At("intended", o, FALSE) /\ Answer(o, "none", 0)
    <3>1. journal' = [journal EXCEPT ![o] = p] /\ ~poisoned'
      BY <2>10, Zenon DEF Appended
    <3>2. answer'[o] = Reply("none", 0)
      BY <2>10, Zenon DEF Answer, IInv, TypeOK
    <3>3. WorkerOK'
      BY <2>2, <2>4, <2>10, <3>1, <3>2, <1>t, Zenon DEF IInv, WorkerOK, Idle, At, Unfinished
    <3> QED
      BY <2>6, <2>7, <2>9, <3>3, Zenon DEF IInv
  <2>11. CASE AppendFailed(o, p) /\ worker' = Idle
    <3>1. journal' = journal
      BY <2>11, Zenon DEF AppendFailed
    <3>2. WorkerOK'
      BY <2>2, <2>11, <3>1, Zenon DEF IInv, WorkerOK, Idle, At, Unfinished
    <3> QED
      BY <2>6, <2>7, <2>9, <3>2, Zenon DEF IInv
  <2> QED
    BY <2>5, <2>10, <2>11, Zenon
<1>2. ASSUME NEW o \in Orders, ReplayUnfinished(o) PROVE IInv'
  <2>1. UNCHANGED <<journal, disk, poisoned, queue, exchange, placed, crashes>>
    BY <1>2, Zenon DEF ReplayUnfinished, store, venue
  <2>2. Answer(o, "none", 0)
    BY <1>2, Zenon DEF ReplayUnfinished
  <2>3. /\ answer' \in [Orders -> [kind : AnswerKinds, executed : Quantities]]
        /\ AnswersAreTrue'
    BY <2>1, <2>2, <1>t, AnswerOK, Zenon DEF AnswerKinds
  <2>4. worker' \in [step : Steps, order : Orders \cup {NoOrder}, confirm_absent : BOOLEAN]
    BY <1>2 DEF ReplayUnfinished, At, Steps, ConfirmsAbsent
  <2>5. TypeOK'
    BY <2>1, <2>3, <2>4, Zenon DEF IInv, TypeOK
  <2>6. CopiesAgree' /\ RecordsAreTrue' /\ SentOnce'
    BY <2>1, Zenon DEF IInv, CopiesAgree, RecordsAreTrue, RecordIsTrue, NoEffect, SentOnce
  <2>7. journal[o].state \in Unfinished
    BY <1>2, <1>t, Zenon DEF ReplayUnfinished, Unfinished, Record, JournalStates
  <2>8. WorkerOK'
    BY <1>2, <2>1, <2>7, Zenon DEF ReplayUnfinished, IInv, WorkerOK, Idle, At
  <2> QED
    BY <2>3, <2>5, <2>6, <2>8, Zenon DEF IInv
<1>3. ASSUME NEW o \in Orders, ReplayFinished(o) PROVE IInv'
  <2>1. UNCHANGED <<journal, disk, poisoned, queue, exchange, placed, crashes, worker>> /\ worker = Idle
    BY <1>3, Zenon DEF ReplayFinished, store, venue
  <2>2. /\ answer' \in [Orders -> [kind : AnswerKinds, executed : Quantities]]
        /\ AnswersAreTrue'
    <3>1. CASE journal[o].state = "terminal"
      <4>1. Answer(o, "done", journal[o].executed) /\ journal[o].executed \in Quantities
            /\ exchange[o] = Progress("closed", journal[o].executed)
        BY <3>1, <1>3, <1>t, Zenon DEF ReplayFinished, Record, IInv, RecordsAreTrue, RecordIsTrue
      <4> QED
        BY <4>1, <2>1, AnswerOK, Zenon DEF AnswerKinds
    <3>2. CASE journal[o].state = "rejected"
      <4>1. Answer(o, "void", 0) /\ NoEffect(o)
        BY <3>2, <1>3, Zenon DEF ReplayFinished, IInv, RecordsAreTrue, RecordIsTrue
      <4> QED
        BY <4>1, <2>1, <1>t, AnswerOK, Zenon DEF AnswerKinds
    <3> QED
      BY <3>1, <3>2, <1>3, Zenon DEF ReplayFinished, Terminal
  <2>3. TypeOK'
    BY <2>1, <2>2, Zenon DEF IInv, TypeOK
  <2>4. CopiesAgree' /\ RecordsAreTrue' /\ SentOnce'
    BY <2>1, Zenon DEF IInv, CopiesAgree, RecordsAreTrue, RecordIsTrue, NoEffect, SentOnce
  <2>5. WorkerOK'
    BY <2>1, Zenon DEF IInv, WorkerOK, Idle, At
  <2> QED
    BY <2>2, <2>3, <2>4, <2>5, Zenon DEF IInv
<1>4. ASSUME NEW o \in Orders, Place(o) PROVE IInv'
  <2>1. UNCHANGED <<journal, disk, poisoned, queue, answer, crashes>>
    BY <1>4, Zenon DEF Place, store
  <2>2. /\ worker = At("intended", o, FALSE) /\ worker' = At("placing", o, FALSE)
        /\ exchange' = [exchange EXCEPT ![o] = Progress("inflight", 0)]
        /\ placed' = [placed EXCEPT ![o] = @ + 1]
    BY <1>4, Zenon DEF Place
  <2>3. /\ ~poisoned /\ journal[o].state = "intent" /\ exchange[o].state = "none" /\ queue = {}
        /\ answer[o] = Reply("none", 0) /\ disk[o].state = "intent"
    BY <2>2, Zenon DEF IInv, WorkerOK, CopiesAgree, At
  <2>4. Progress("inflight", 0) \in [state : ExchangeStates, executed : Quantities]
    BY <1>t, Zenon DEF Progress, ExchangeStates
  <2>5. worker' \in [step : Steps, order : Orders \cup {NoOrder}, confirm_absent : BOOLEAN]
    BY <2>2, WorkerType, Zenon DEF Steps
  <2>6. exchange' \in [Orders -> [state : ExchangeStates, executed : Quantities]]
    BY <2>2, <2>4, <1>t, Zenon
  <2>14. placed' \in [Orders -> Nat]
    BY <2>2 DEF IInv, TypeOK
  <2>7. TypeOK'
    BY <2>1, <2>5, <2>6, <2>14, Zenon DEF IInv, TypeOK
  <2>8. \A q \in Orders : exchange'[q] = IF q = o THEN Progress("inflight", 0) ELSE exchange[q]
    BY <2>2, <1>t, Zenon
  <2>9. CopiesAgree' /\ RecordsAreTrue'
    BY <2>1, <2>3, <2>8 DEF IInv, CopiesAgree, RecordsAreTrue, RecordIsTrue, NoEffect
  <2>10. SentOnce'
    BY <2>2, <2>3, <2>8 DEF IInv, TypeOK, SentOnce, Progress
  <2>11. AnswersAreTrue'
    BY <2>1, <2>3, <2>8 DEF IInv, AnswersAreTrue, NoEffect, Reply
  <2>12. exchange'[o].state # "none"
    BY <2>8 DEF Progress
  <2>13. WorkerOK'
    BY <2>1, <2>2, <2>3, <2>8, <2>12 DEF IInv, WorkerOK, At, Unfinished
  <2> QED
    BY <2>7, <2>9, <2>10, <2>11, <2>13, Zenon DEF IInv
<1>5. ASSUME NEW o \in Orders, RecordTerminal(o), UNCHANGED <<queue, venue, crashes>>,
             worker = At("placing", o, FALSE) \/ worker = At("confirming", o, FALSE)
      PROVE  IInv'
  <2> DEFINE p == Progress("terminal", exchange[o].executed)
  <2>1. exchange[o].state = "closed" /\ exchange[o].executed \in Quantities
    BY <1>5, <1>t, Zenon DEF RecordTerminal
  <2>2. exchange[o] = Progress("closed", exchange[o].executed)
    BY <2>1, <1>t, Zenon DEF Progress
  <2>3. p \in Record /\ RecordIsTrue(p, o)
    BY <1>r, <2>1, <2>2, Zenon DEF JournalStates, Terminal, RecordIsTrue, Progress
  <2>4. /\ worker.step \in {"placing", "confirming", "querying"} /\ worker.order = o /\ o \notin queue
        /\ Classify(o) = "unknown"
    BY <1>5, <1>c DEF IInv, WorkerOK, At, Unfinished
  <2>5. /\ Appended(o, p) \/ AppendFailed(o, p)
        /\ worker' = Idle
        /\ Answer(o, "done", exchange[o].executed) \/ Answer(o, "unknown", 0)
    BY <1>5, <2>4, Zenon DEF RecordTerminal, FailClosed
  <2> HIDE DEF p
  <2>6. CASE Answer(o, "done", exchange[o].executed)
    BY <1>5, <2>1, <2>2, <2>3, <2>4, <2>5, <2>6, RequestEnds, Zenon DEF AnswerKinds
  <2>7. CASE Answer(o, "unknown", 0)
    BY <1>5, <1>t, <2>3, <2>4, <2>5, <2>7, RequestEnds, Zenon DEF AnswerKinds
  <2> QED
    BY <2>5, <2>6, <2>7, Zenon
<1>6. ASSUME NEW o \in Orders, PlacedClosed(o) PROVE IInv'
  BY <1>5, <1>6, Zenon DEF PlacedClosed
<1>7. ASSUME NEW o \in Orders, ConfirmClosed(o) PROVE IInv'
  BY <1>5, <1>7, Zenon DEF ConfirmClosed
<1>8. ASSUME NEW o \in Orders, PlacedOpen(o) PROVE IInv'
  <2> DEFINE p == Progress("submitted", exchange[o].executed)
  <2>1. exchange[o].executed \in Quantities
    BY <1>t, Zenon
  <2>2. p \in Record /\ RecordIsTrue(p, o) /\ p.state = "submitted"
    BY <1>r, <2>1, Zenon DEF JournalStates, RecordIsTrue, Progress
  <2>3. /\ worker.step = "placing" /\ worker.order = o /\ o \notin queue
        /\ Classify(o) = "unknown"
    BY <1>8, <1>c, Zenon DEF PlacedOpen, IInv, WorkerOK, At, Unfinished
  <2>4. UNCHANGED <<queue, venue, crashes>>
    BY <1>8, Zenon DEF PlacedOpen
  <2>5. \/ Appended(o, p) /\ worker' = At("confirming", o, FALSE) /\ UNCHANGED answer
        \/ AppendFailed(o, p) /\ worker' = Idle /\ Answer(o, "unknown", 0)
    BY <1>8, <2>3, Zenon DEF PlacedOpen, FailClosed
  <2> HIDE DEF p
  <2>6. CASE Appended(o, p) /\ worker' = At("confirming", o, FALSE) /\ UNCHANGED answer
    BY <2>2, <2>3, <2>4, <2>6, RequestGoesOn, Zenon DEF Unfinished
  <2>7. CASE AppendFailed(o, p) /\ worker' = Idle /\ Answer(o, "unknown", 0)
    BY <1>t, <2>2, <2>3, <2>4, <2>7, RequestEnds, Zenon DEF AnswerKinds
  <2> QED
    BY <2>5, <2>6, <2>7, Zenon
<1>9. ASSUME NEW o \in Orders, PlacedInconsistent(o) \/ ConfirmFails(o) PROVE IInv'
  <2> DEFINE p == Progress("unknown", 0)
  <2>1. p \in Record /\ RecordIsTrue(p, o)
    BY <1>r, <1>t, <1>u, Zenon DEF JournalStates
  <2>2. /\ worker.step \in {"placing", "confirming", "querying"} /\ worker.order = o /\ o \notin queue
        /\ Classify(o) = "unknown"
    BY <1>9, <1>c DEF PlacedInconsistent, ConfirmFails, IInv, WorkerOK, At, Unfinished
  <2>3. /\ Appended(o, p) \/ AppendFailed(o, p)
        /\ worker' = Idle /\ Answer(o, "unknown", 0)
        /\ UNCHANGED <<queue, venue, crashes>>
    BY <1>9, <2>2, Zenon DEF PlacedInconsistent, ConfirmFails, FailClosed
  <2> HIDE DEF p
  <2> QED
    BY <1>t, <2>1, <2>2, <2>3, RequestEnds, Zenon DEF AnswerKinds
<1>10. ASSUME NEW o \in Orders, PlacedRejected(o) PROVE IInv'
  <2> DEFINE p == Progress("rejected", 0)
  <2>1. NoEffect(o)
    BY <1>10, Zenon DEF PlacedRejected, NoEffect
  <2>2. p \in Record /\ RecordIsTrue(p, o)
    BY <1>r, <1>t, <2>1, Zenon DEF JournalStates, Terminal, RecordIsTrue, Progress
  <2>3. /\ worker.step \in {"placing", "confirming", "querying"} /\ worker.order = o /\ o \notin queue
        /\ Classify(o) = "unknown"
    BY <1>10, <1>c, Zenon DEF PlacedRejected, IInv, WorkerOK, At, Unfinished
  <2>4. \E kind \in {"void", "unknown"} :
           /\ Appended(o, p) \/ AppendFailed(o, p)
           /\ worker' = Idle /\ Answer(o, kind, 0)
           /\ UNCHANGED <<queue, venue, crashes>>
    BY <1>10, <2>3, Zenon DEF PlacedRejected, FailClosed
  <2> HIDE DEF p
  <2> QED
    BY <1>t, <2>1, <2>2, <2>3, <2>4, RequestEnds, Zenon DEF AnswerKinds
<1>11. ASSUME NEW o \in Orders, PlacedAmbiguous(o) PROVE IInv'
  <2> DEFINE p == Progress("unknown", 0)
  <2>1. p \in Record /\ RecordIsTrue(p, o) /\ p.state \in Unfinished
    BY <1>r, <1>t, <1>u, Zenon DEF JournalStates, Unfinished, Progress
  <2>2. /\ worker.step = "placing" /\ worker.order = o /\ o \notin queue
        /\ Classify(o) = "unknown"
    BY <1>11, <1>c, Zenon DEF PlacedAmbiguous, IInv, WorkerOK, At, Unfinished
  <2>3. UNCHANGED <<queue, venue, crashes>>
    BY <1>11, Zenon DEF PlacedAmbiguous
  <2>4. \/ Appended(o, p) /\ worker' = At("querying", o, TRUE) /\ UNCHANGED answer
        \/ AppendFailed(o, p) /\ worker' = Idle /\ Answer(o, "unknown", 0)
    BY <1>11, <2>2, Zenon DEF PlacedAmbiguous, FailClosed
  <2> HIDE DEF p
  <2>5. CASE Appended(o, p) /\ worker' = At("querying", o, TRUE) /\ UNCHANGED answer
    BY <2>1, <2>2, <2>3, <2>5, RequestGoesOn, Zenon
  <2>6. CASE AppendFailed(o, p) /\ worker' = Idle /\ Answer(o, "unknown", 0)
    BY <1>t, <2>1, <2>2, <2>3, <2>6, RequestEnds, Zenon DEF AnswerKinds
  <2> QED
    BY <2>4, <2>5, <2>6, Zenon
<1>12. ASSUME NEW o \in Orders, QueryClosed(o) PROVE IInv'
  <2> DEFINE p == Progress("terminal", exchange[o].executed)
  <2>1. exchange[o].state = "closed" /\ exchange[o].executed \in Quantities
    BY <1>12, <1>t, Zenon DEF QueryClosed
  <2>2. exchange[o] = Progress("closed", exchange[o].executed)
    BY <2>1, <1>t, Zenon DEF Progress
  <2>3. p \in Record /\ RecordIsTrue(p, o) /\ p.state \in Terminal
    BY <1>r, <2>1, <2>2, Zenon DEF JournalStates, Terminal, RecordIsTrue, Progress
  <2>4. /\ worker.step = "querying" /\ worker.order = o
        /\ Classify(o) = "unknown"
    BY <1>12, <1>c, Zenon DEF QueryClosed, IInv, WorkerOK
  <2>5. /\ Appended(o, p) \/ AppendFailed(o, p)
        /\ UNCHANGED <<venue, crashes>>
    BY <1>12, Zenon DEF QueryClosed
  <2>6. CASE o \in queue
    <3>1. /\ UNCHANGED answer
          /\ \/ Appended(o, p) /\ worker' = Starting /\ queue' = queue \ {o}
             \/ worker' = Down /\ queue' = {}
      BY <1>12, <2>6, Zenon DEF QueryClosed, QueryError, Serving
    <3> HIDE DEF p
    <3> QED
      BY <2>3, <2>4, <2>5, <2>6, <3>1, StartupQueryEnds, Zenon
  <2>7. CASE o \notin queue
    <3>1. /\ worker' = Idle /\ UNCHANGED queue
          /\ Answer(o, "done", exchange[o].executed) \/ Answer(o, "unknown", 0)
      BY <1>12, <2>4, <2>7, Zenon DEF QueryClosed, QueryError, Serving
    <3> HIDE DEF p
    <3>2. CASE Answer(o, "done", exchange[o].executed)
      BY <2>1, <2>2, <2>3, <2>4, <2>5, <2>7, <3>1, <3>2, RequestEnds, Zenon DEF AnswerKinds
    <3>3. CASE Answer(o, "unknown", 0)
      BY <1>t, <2>3, <2>4, <2>5, <2>7, <3>1, <3>3, RequestEnds, Zenon DEF AnswerKinds
    <3> QED
      BY <3>1, <3>2, <3>3, Zenon
  <2> QED
    BY <2>6, <2>7, Zenon
<1>13. ASSUME NEW o \in Orders, QueryAbsent(o) PROVE IInv'
  <2> DEFINE p == Progress("rejected", 0)
  <2>1. NoEffect(o)
    BY <1>13, Zenon DEF QueryAbsent, NotFound, NoEffect
  <2>3. p \in Record /\ RecordIsTrue(p, o) /\ p.state \in Terminal
    BY <1>r, <1>t, <2>1, Zenon DEF JournalStates, Terminal, RecordIsTrue, Progress
  <2>4. /\ worker.step = "querying" /\ worker.order = o
        /\ Classify(o) = "unknown"
    BY <1>13, <1>c, Zenon DEF QueryAbsent, IInv, WorkerOK
  <2>5. /\ Appended(o, p) \/ AppendFailed(o, p)
        /\ UNCHANGED <<venue, crashes>>
    BY <1>13, Zenon DEF QueryAbsent
  <2>6. CASE o \in queue
    <3>1. /\ UNCHANGED answer
          /\ \/ Appended(o, p) /\ worker' = Starting /\ queue' = queue \ {o}
             \/ worker' = Down /\ queue' = {}
      BY <1>13, <2>6, Zenon DEF QueryAbsent, QueryError, Serving
    <3> HIDE DEF p
    <3> QED
      BY <2>3, <2>4, <2>5, <2>6, <3>1, StartupQueryEnds, Zenon
  <2>7. CASE o \notin queue
    <3>1. /\ worker' = Idle /\ UNCHANGED queue
          /\ Answer(o, "void", 0) \/ Answer(o, "unknown", 0)
      BY <1>13, <2>4, <2>7, Zenon DEF QueryAbsent, QueryError, Serving
    <3> HIDE DEF p
    <3>2. CASE Answer(o, "void", 0)
      BY <1>t, <2>1, <2>3, <2>4, <2>5, <2>7, <3>1, <3>2, RequestEnds, Zenon DEF AnswerKinds
    <3>3. CASE Answer(o, "unknown", 0)
      BY <1>t, <2>3, <2>4, <2>5, <2>7, <3>1, <3>3, RequestEnds, Zenon DEF AnswerKinds
    <3> QED
      BY <3>1, <3>2, <3>3, Zenon
  <2> QED
    BY <2>6, <2>7, Zenon
<1>14. ASSUME NEW o \in Orders, QueryFails(o) PROVE IInv'
  <2> DEFINE p == Progress("unknown", 0)
  <2>3. p \in Record /\ RecordIsTrue(p, o)
    BY <1>r, <1>t, <1>u, Zenon DEF JournalStates
  <2>4. worker.step = "querying" /\ worker.order = o
    BY <1>14, Zenon DEF QueryFails
  <2>5. /\ Appended(o, p) \/ AppendFailed(o, p)
        /\ UNCHANGED <<venue, crashes>>
    BY <1>14, Zenon DEF QueryFails
  <2>6. CASE o \in queue
    <3>1. UNCHANGED answer /\ worker' = Down /\ queue' = {}
      BY <1>14, <2>6, Zenon DEF QueryFails, Serving
    <3> HIDE DEF p
    <3> QED
      BY <2>3, <2>4, <2>5, <2>6, <3>1, StartupQueryEnds, Zenon
  <2>7. CASE o \notin queue
    <3>1. worker' = Idle /\ UNCHANGED queue /\ Answer(o, "unknown", 0)
      BY <1>14, <2>7, Zenon DEF QueryFails, Serving
    <3> HIDE DEF p
    <3> QED
      BY <1>t, <2>3, <2>4, <2>5, <2>7, <3>1, RequestEnds, Zenon DEF AnswerKinds
  <2> QED
    BY <2>6, <2>7, Zenon
<1>15. ASSUME NEW o \in Orders, NEW s \in ExchangeStates \ {"none"}, NEW x \in Quantities,
              exchange[o].state \in {"inflight", "open"},
              exchange' = [exchange EXCEPT ![o] = Progress(s, x)],
              UNCHANGED <<store, worker, queue, placed, answer, crashes>>
       PROVE  IInv'
  <2>1. UNCHANGED <<journal, disk, poisoned, worker, queue, placed, answer, crashes>>
    BY <1>15, Zenon DEF store
  <2>2. Progress(s, x) \in [state : ExchangeStates, executed : Quantities] /\ Progress(s, x).state # "none"
    BY Zenon DEF Progress
  <2>3. exchange' \in [Orders -> [state : ExchangeStates, executed : Quantities]]
    BY <1>15, <2>2, <1>t, Zenon
  <2>4. TypeOK'
    BY <2>1, <2>3, Zenon DEF IInv, TypeOK
  <2>5. \A q \in Orders : exchange'[q] = IF q = o THEN Progress(s, x) ELSE exchange[q]
    BY <1>15, <1>t, Zenon
  <2>6. CopiesAgree'
    BY <2>1, Zenon DEF IInv, CopiesAgree
  <2>p. \A r : Progress("closed", r) # exchange[o]
    BY <1>15 DEF Progress
  <2>7. journal[o].state \notin {"none"} \cup Terminal /\ disk[o].state \notin {"none"} \cup Terminal
    BY <1>15, <2>p, Zenon DEF IInv, RecordsAreTrue, RecordIsTrue, NoEffect, Terminal
  <2>8. RecordsAreTrue'
    BY <2>1, <2>5, <2>7, Zenon DEF IInv, RecordsAreTrue, RecordIsTrue, NoEffect, Terminal
  <2>9. SentOnce'
    BY <1>15, <2>1, <2>2, <2>5, Zenon DEF IInv, SentOnce
  <2>10. answer[o].kind \notin {"done", "void", "unsubmitted"}
    BY <1>15, <2>p, Zenon DEF IInv, AnswersAreTrue, NoEffect
  <2>11. AnswersAreTrue'
    BY <2>1, <2>5, <2>10, Zenon DEF IInv, AnswersAreTrue, NoEffect
  <2>12. \A q \in Orders : exchange'[q].state = "none" <=> exchange[q].state = "none"
    BY <1>15, <2>2, <2>5, Zenon
  <2>13. WorkerOK'
    BY <2>1, <2>12, Zenon DEF IInv, WorkerOK
  <2> QED
    BY <2>4, <2>6, <2>8, <2>9, <2>11, <2>13, Zenon DEF IInv
<1>16. ASSUME NEW o \in Orders, Fill(o) \/ Refuse(o) PROVE IInv'
  <2>1. \E s \in ExchangeStates \ {"none"}, x \in Quantities :
           exchange' = [exchange EXCEPT ![o] = Progress(s, x)]
    BY <1>16, <1>t DEF Fill, Refuse, ExchangeStates, Quantities
  <2>2. /\ exchange[o].state \in {"inflight", "open"}
        /\ UNCHANGED <<store, worker, queue, placed, answer, crashes>>
    BY <1>16, Zenon DEF Fill, Refuse
  <2> QED
    BY <1>15, <2>1, <2>2, Zenon
<1>17. ASSUME UNCHANGED <<store, venue, answer>>, crashes' \in 0 .. MaxCrashes,
              worker' = Down, queue' = {}
       PROVE  IInv'
  <2>1. UNCHANGED <<journal, disk, poisoned, exchange, placed, answer>>
    BY <1>17, Zenon DEF store, venue
  <2>2. worker' \in [step : Steps, order : Orders \cup {NoOrder}, confirm_absent : BOOLEAN]
    BY <1>17, WorkerType, Zenon DEF Down, Steps
  <2>3. TypeOK'
    BY <1>17, <2>1, <2>2, Zenon DEF IInv, TypeOK
  <2>4. CopiesAgree' /\ RecordsAreTrue' /\ SentOnce' /\ AnswersAreTrue'
    BY <2>1, Zenon DEF IInv, CopiesAgree, RecordsAreTrue, RecordIsTrue, NoEffect, SentOnce, AnswersAreTrue
  <2>5. WorkerOK'
    BY <1>17, Zenon DEF WorkerOK, Down, At
  <2> QED
    BY <2>3, <2>4, <2>5, Zenon DEF IInv
<1>18. ASSUME Crash PROVE IInv'
  <2>1. crashes' \in 0 .. MaxCrashes
    BY <1>18 DEF Crash, IInv, TypeOK
  <2> QED
    BY <1>17, <1>18, <2>1, Zenon DEF Crash
<1>19. ASSUME Open PROVE IInv'
  <2>1. /\ UNCHANGED <<disk, exchange, placed, answer, crashes>>
        /\ journal' = disk /\ poisoned' = FALSE /\ queue' = Active
        /\ worker' = Idle \/ worker' = Starting
        /\ worker' = Idle => Active = {}
    BY <1>19, Zenon DEF Open, venue, Idle, Starting, At
  <2>2. worker' \in [step : Steps, order : Orders \cup {NoOrder}, confirm_absent : BOOLEAN]
    <3>1. CASE worker' = Idle
      BY <3>1, Zenon DEF Idle, At, Steps
    <3>2. CASE worker' = Starting
      BY <3>2, Zenon DEF Starting, At, Steps
    <3> QED
      BY <2>1, <3>1, <3>2, Zenon
  <2>3. queue' \subseteq Orders /\ poisoned' \in BOOLEAN
    BY <2>1, Zenon DEF Active
  <2>4. TypeOK'
    BY <2>1, <2>2, <2>3, Zenon DEF IInv, TypeOK
  <2>5. CopiesAgree' /\ RecordsAreTrue' /\ SentOnce' /\ AnswersAreTrue'
    BY <2>1, Zenon DEF IInv, CopiesAgree, RecordsAreTrue, RecordIsTrue, NoEffect, SentOnce, AnswersAreTrue, Terminal
  <2>6. \A o \in Orders : o \in Active <=> disk[o].state \in Unfinished
    BY Zenon DEF IInv, TypeOK, Active, Unfinished, JournalStates, Terminal
  <2>7. WorkerOK'
    BY <2>1, <2>3, <2>6 DEF WorkerOK, Idle, Starting, At
  <2> QED
    BY <2>4, <2>5, <2>7, Zenon DEF IInv
<1>20. ASSUME ReconcileStartup PROVE IInv'
  <2>1. UNCHANGED <<journal, disk, poisoned, exchange, placed, answer, crashes, queue>>
    BY <1>20, Zenon DEF ReconcileStartup, store, venue
  <2>2. \/ worker' = Idle /\ queue = {}
        \/ \E o \in queue : worker' = At("querying", o, ConfirmsAbsent(journal[o].state))
    BY <1>20, Zenon DEF ReconcileStartup
  <2>3. worker' \in [step : Steps, order : Orders \cup {NoOrder}, confirm_absent : BOOLEAN]
    <3>1. CASE worker' = Idle
      BY <3>1, Zenon DEF Idle, At, Steps
    <3>2. ASSUME NEW o \in queue, worker' = At("querying", o, ConfirmsAbsent(journal[o].state))
          PROVE  worker' \in [step : Steps, order : Orders \cup {NoOrder}, confirm_absent : BOOLEAN]
      <4>1. o \in Orders /\ ConfirmsAbsent(journal[o].state) \in BOOLEAN
        BY DEF IInv, TypeOK, ConfirmsAbsent
      <4> QED
        BY <3>2, <4>1, Zenon DEF At, Steps
    <3> QED
      BY <2>2, <3>1, <3>2, Zenon
  <2>4. TypeOK'
    BY <2>1, <2>3, Zenon DEF IInv, TypeOK
  <2>5. CopiesAgree' /\ RecordsAreTrue' /\ SentOnce' /\ AnswersAreTrue'
    BY <2>1, Zenon DEF IInv, CopiesAgree, RecordsAreTrue, RecordIsTrue, NoEffect, SentOnce, AnswersAreTrue
  <2>6. worker = Starting
    BY <1>20, Zenon DEF ReconcileStartup
  <2>7. WorkerOK'
    BY <2>1, <2>2, <2>6 DEF IInv, TypeOK, WorkerOK, Idle, Starting, At
  <2> QED
    BY <2>4, <2>5, <2>7, Zenon DEF IInv
<1>21. ASSUME UNCHANGED vars PROVE IInv'
  <2>1. UNCHANGED <<journal, disk, poisoned, worker, queue, exchange, placed, answer, crashes>>
    BY <1>21, Zenon DEF vars, store, venue
  <2> QED
    BY <2>1 DEF IInv, TypeOK, CopiesAgree, RecordsAreTrue, RecordIsTrue, NoEffect, SentOnce, WorkerOK, AnswersAreTrue
<1> QED
  BY Zenon, <1>1, <1>2, <1>3, <1>4, <1>6, <1>7, <1>8, <1>9, <1>10, <1>11, <1>12, <1>13, <1>14,
     <1>16, <1>18, <1>19, <1>20, <1>21 DEF Next, Serve

\* IInv is an invariant of the lane.
THEOREM SpecIInv == ASSUME OrdersAssumption PROVE Spec => []IInv
<1>1. Init => IInv
  BY InitIInv, Zenon
<1>2. IInv /\ [Next]_vars => IInv'
  BY NextIInv, Zenon
<1> QED
  BY <1>1, <1>2, PTL DEF Spec

\* execute_instrumented places a client order id at most once, and every answer
\* it gives is true of the exchange, for any orders, quantities and crashes.
THEOREM OrdersPlacedOnce == ASSUME OrdersAssumption PROVE Spec => [](PlacedAtMostOnce /\ AnswersAreTrue)
<1>1. IInv => PlacedAtMostOnce /\ AnswersAreTrue
  BY DEF IInv, SentOnce, PlacedAtMostOnce
<1> QED
  BY <1>1, SpecIInv, PTL

-----------------------------------------------------------------------------
(* The refinement *)

\* A step that changes the effect of one order only.
LEMMA EffectsExcept ==
    ASSUME NEW o \in Orders, NEW e, EffectOf(o)' = e,
           \A q \in Orders : q # o => EffectOf(q)' = EffectOf(q)
    PROVE  Effects' = [Effects EXCEPT ![o] = e]
  BY Zenon DEF Effects

\* A step that changes the effect of no order.
LEMMA EffectsSame ==
    ASSUME \A q \in Orders : EffectOf(q)' = EffectOf(q)
    PROVE  Effects' = Effects
  BY Zenon DEF Effects

\* An append changes the effect of an order only where it gives up an order
\* that was never sent.
LEMMA AppendEffect ==
    ASSUME OrdersAssumption, IInv, NEW o \in Orders, NEW p \in Record,
           Appended(o, p) \/ AppendFailed(o, p), UNCHANGED exchange
    PROVE  /\ \A q \in Orders : q # o => EffectOf(q)' = EffectOf(q)
           /\ p.state # "rejected" \/ exchange[o].state # "none" => EffectOf(o)' = EffectOf(o)
           /\ exchange[o].state = "none" =>
                 EffectOf(o)' \in {EffectOf(o), [kind |-> "void", executed |-> 0]}
<1>1. /\ journal \in [Orders -> Record] /\ disk \in [Orders -> Record]
      /\ ~poisoned => disk = journal
      /\ journal[o].state # "rejected"
  BY Zenon DEF IInv, TypeOK, Record, CopiesAgree, Appended, AppendFailed, TransitionAllowed, Terminal
<1>2. \/ UNCHANGED <<journal, disk>>
      \/ /\ disk = journal
         /\ journal' \in {journal, [journal EXCEPT ![o] = p]}
         /\ disk' = [disk EXCEPT ![o] = p]
  BY <1>1, Zenon DEF Appended, AppendFailed
<1>3. CASE UNCHANGED <<journal, disk>>
  BY <1>3, Zenon DEF EffectOf
<1>4. CASE /\ disk = journal
           /\ journal' \in {journal, [journal EXCEPT ![o] = p]}
           /\ disk' = [disk EXCEPT ![o] = p]
  <2>1. \A q \in Orders : q # o => journal'[q] = journal[q] /\ disk'[q] = disk[q]
    BY <1>1, <1>4, Zenon
  <2>2. disk'[o] = p /\ journal'[o] \in {journal[o], p} /\ disk[o] = journal[o]
    BY <1>1, <1>4, Zenon
  <2>3. \A q \in Orders : q # o => EffectOf(q)' = EffectOf(q)
    BY <2>1, Zenon DEF EffectOf
  <2>4. exchange[o].state # "none" => EffectOf(o)' = EffectOf(o)
    BY DEF EffectOf
  <2>5. exchange[o].state = "none" =>
           /\ EffectOf(o) = [kind |-> "none", executed |-> 0]
           /\ EffectOf(o)' = [kind |-> IF p.state = "rejected" THEN "void" ELSE "none", executed |-> 0]
    BY <1>1, <2>2, Zenon DEF EffectOf
  <2> QED
    BY <2>3, <2>4, <2>5, Zenon
<1> QED
  BY <1>2, <1>3, <1>4, Zenon

\* What the abstract steps are, in terms of the lane's answers.
LEMMA PromiseSteps ==
    ASSUME NEW o \in Orders
    PROVE  /\ Effects' = Effects /\ Answer(o, "none", 0) => Promise!Next
           /\ Effects' = Effects /\ Answer(o, "unknown", 0) => Promise!Next
           /\ Effects' = Effects /\ Answer(o, "unsubmitted", 0) /\ exchange[o].state = "none"
                /\ "rejected" \notin {journal[o].state, disk[o].state} => Promise!Next
           /\ Effects' = Effects /\ exchange[o] = Progress("closed", exchange[o].executed)
                /\ Answer(o, "done", exchange[o].executed) => Promise!Next
  <1> USE DEF Answer, Reply, Promise!Effect, Promise!Nothing, Promise!Unknown, Promise!Unsubmitted
  <1>1. Effects' = Effects /\ Answer(o, "none", 0) => Promise!Next
    BY Zenon DEF Promise!Next, Promise!Ask
  <1>2. Effects' = Effects /\ Answer(o, "unknown", 0) => Promise!Next
    BY Zenon DEF Promise!Next, Promise!Reply
  <1>3. ASSUME Effects' = Effects, Answer(o, "unsubmitted", 0), exchange[o].state = "none",
               "rejected" \notin {journal[o].state, disk[o].state}
        PROVE  Promise!Next
    <2>1. Effects[o] = Promise!Nothing
      BY <1>3, Zenon DEF Effects, EffectOf
    <2> QED
      BY <1>3, <2>1, Zenon DEF Promise!Next, Promise!Reply
  <1>4. ASSUME Effects' = Effects, exchange[o] = Progress("closed", exchange[o].executed),
               Answer(o, "done", exchange[o].executed)
        PROVE  Promise!Next
    <2>1. exchange[o].state = "closed"
      BY <1>4 DEF Progress
    <2>2. Effects[o] = [kind |-> "done", executed |-> exchange[o].executed]
      BY <2>1, Zenon DEF Effects, EffectOf
    <2>3. answer' = [answer EXCEPT ![o] = Effects[o]] /\ Effects[o].kind = "done"
      BY <1>4, <2>2
    <2>4. Promise!Reply(o)
      BY <1>4, <2>3, Zenon DEF Promise!Reply
    <2> QED
      BY <2>4, Zenon DEF Promise!Next
  <1> QED
    BY <1>1, <1>2, <1>3, <1>4, Zenon

\* An order with no effect that was sent, or that is given up, is Void; giving
\* it up, with or without an answer, is an abstract step.
LEMMA PromiseGiveUp ==
    ASSUME NEW o \in Orders, Effects[o] \in {Promise!Nothing, Promise!Void},
           Effects' = [Effects EXCEPT ![o] = Promise!Void],
           UNCHANGED answer \/ Answer(o, "void", 0)
    PROVE  Promise!Next
<1>1. answer' \in {answer, [answer EXCEPT ![o] = Promise!Void]}
  BY Zenon DEF Answer, Reply, Promise!Void, Promise!Effect
<1>2. Promise!GiveUp(o)
  BY <1>1, Zenon DEF Promise!GiveUp
<1> QED
  BY <1>2, Zenon DEF Promise!Next

\* The initial states of the lane are those of the promise.
LEMMA InitPromise == ASSUME Init PROVE Promise!Init
<1>1. \A o \in Orders : EffectOf(o) = Promise!Nothing
  BY Zenon DEF Init, EffectOf, Fresh, Progress, Promise!Nothing, Promise!Effect
<1> QED
  BY <1>1, Zenon DEF Init, Promise!Init, Effects, Reply, Promise!Nothing, Promise!Effect

\* Every step of the lane is a step of the promise or leaves it unchanged.
LEMMA NextPromise ==
    ASSUME OrdersAssumption, IInv, [Next]_vars
    PROVE  [Promise!Next]_Promise!vars
<1> USE DEF OrdersAssumption
<1>r. \A s \in JournalStates, x \in Quantities : Progress(s, x) \in Record /\ Progress(s, x).state = s
  BY Zenon DEF Progress, Record
<1>t. /\ journal \in [Orders -> Record] /\ exchange \in [Orders -> [state : ExchangeStates, executed : Quantities]]
      /\ 0 \in Quantities
  BY DEF IInv, TypeOK, Record, Quantities
<1>c. \A o \in Orders : journal[o].state \in Unfinished => Classify(o) = "unknown"
  BY Zenon DEF Classify, Unfinished
<1>s. ASSUME Effects' = Effects, UNCHANGED answer PROVE [Promise!Next]_Promise!vars
  BY <1>s, Zenon DEF Promise!vars
\* An append of anything but "rejected", or of an order that was sent.
<1>a. ASSUME NEW o \in Orders, NEW s \in JournalStates, NEW x \in Quantities, UNCHANGED venue,
             Appended(o, Progress(s, x)) \/ AppendFailed(o, Progress(s, x)),
             s # "rejected" \/ exchange[o].state # "none"
      PROVE  Effects' = Effects
  <2> DEFINE p == Progress(s, x)
  <2>1. p \in Record /\ p.state = s /\ UNCHANGED exchange
    BY <1>a, <1>r, Zenon DEF venue
  <2>2. Appended(o, p) \/ AppendFailed(o, p)
    BY <1>a, Zenon
  <2> HIDE DEF p
  <2>3. \A q \in Orders : EffectOf(q)' = EffectOf(q)
    BY <1>a, <2>1, <2>2, AppendEffect, Zenon
  <2> QED
    BY <2>3, EffectsSame, Zenon
<1>1. ASSUME NEW o \in Orders, ExecuteNew(o) PROVE [Promise!Next]_Promise!vars
  <2>1. Effects' = Effects
    BY <1>1, <1>a, <1>t, Zenon DEF ExecuteNew, FailClosed, JournalStates
  <2>2. /\ journal[o].state = "none" /\ exchange[o].state = "none"
        /\ disk[o].state \in {"none", "intent"}
    BY <1>1, Zenon DEF ExecuteNew, IInv, RecordsAreTrue, RecordIsTrue, CopiesAgree
  <2>3. Answer(o, "none", 0) \/ Answer(o, "unsubmitted", 0)
    BY <1>1, <2>2, Zenon DEF ExecuteNew, FailClosed, Classify
  <2> QED
    BY <2>1, <2>2, <2>3, PromiseSteps, Zenon
<1>2. ASSUME NEW o \in Orders, ReplayUnfinished(o) PROVE [Promise!Next]_Promise!vars
  <2>1. UNCHANGED <<journal, disk, exchange>> /\ Answer(o, "none", 0)
    BY <1>2, Zenon DEF ReplayUnfinished, store, venue
  <2>2. Effects' = Effects
    BY <2>1 DEF Effects, EffectOf
  <2> QED
    BY <2>1, <2>2, PromiseSteps, Zenon
<1>3. ASSUME NEW o \in Orders, ReplayFinished(o) PROVE [Promise!Next]_Promise!vars
  <2>1. UNCHANGED <<journal, disk, exchange>>
    BY <1>3, Zenon DEF ReplayFinished, store, venue
  <2>2. Effects' = Effects
    BY <2>1 DEF Effects, EffectOf
  <2>3. CASE journal[o].state = "terminal"
    <3>1. exchange[o] = Progress("closed", journal[o].executed) /\ Answer(o, "done", journal[o].executed)
      BY <1>3, <2>3, Zenon DEF ReplayFinished, IInv, RecordsAreTrue, RecordIsTrue
    <3>2. exchange[o].executed = journal[o].executed
      BY <3>1 DEF Progress
    <3> QED
      BY <2>2, <3>1, <3>2, PromiseSteps, Zenon
  <2>4. CASE journal[o].state = "rejected"
    <3>1. exchange[o].state \in {"none", "lost", "refused"} /\ Answer(o, "void", 0)
      BY <1>3, <2>4, Zenon DEF ReplayFinished, IInv, RecordsAreTrue, RecordIsTrue, NoEffect
    <3>2. Effects[o] = Promise!Void
      BY <2>4, <3>1, Zenon DEF Effects, EffectOf, Promise!Void, Promise!Effect
    <3>3. Effects' = [Effects EXCEPT ![o] = Promise!Void]
      BY <2>2, <3>2, Zenon DEF Effects
    <3> QED
      BY <3>1, <3>2, <3>3, PromiseGiveUp, Zenon
  <2> QED
    BY <1>3, <2>3, <2>4, Zenon DEF ReplayFinished, Terminal
<1>4. ASSUME NEW o \in Orders, Place(o) PROVE [Promise!Next]_Promise!vars
  <2>1. /\ UNCHANGED <<journal, disk, answer>> /\ worker = At("intended", o, FALSE)
        /\ exchange' = [exchange EXCEPT ![o] = Progress("inflight", 0)]
    BY <1>4, Zenon DEF Place, store
  <2>2. /\ journal[o].state = "intent" /\ disk[o].state = "intent" /\ exchange[o].state = "none"
        /\ answer[o] = Reply("none", 0)
    BY <2>1, Zenon DEF IInv, WorkerOK, CopiesAgree, At
  <2>3. exchange'[o].state = "inflight" /\ \A q \in Orders : q # o => exchange'[q] = exchange[q]
    BY <2>1, <1>t, Zenon DEF Progress
  <2>4. EffectOf(o)' = Promise!Live
    BY <2>3, Zenon DEF EffectOf, Promise!Live, Promise!Effect
  <2>5. \A q \in Orders : q # o => EffectOf(q)' = EffectOf(q)
    BY <2>1, <2>3, Zenon DEF EffectOf
  <2>6. Effects' = [Effects EXCEPT ![o] = Promise!Live]
    BY <2>4, <2>5, EffectsExcept, Zenon
  <2>7. Effects[o] = Promise!Nothing /\ answer[o] = Promise!Nothing
    BY <2>2, Zenon DEF Effects, EffectOf, Promise!Nothing, Promise!Effect, Reply
  <2>8. Promise!Begin(o)
    BY <2>1, <2>6, <2>7, Zenon DEF Promise!Begin
  <2> QED
    BY <2>8, Zenon DEF Promise!Next
<1>5. ASSUME NEW o \in Orders, PlacedClosed(o) \/ ConfirmClosed(o) PROVE [Promise!Next]_Promise!vars
  <2>1. exchange[o].state = "closed" /\ exchange[o].executed \in Quantities /\ UNCHANGED venue
    BY <1>5, <1>t, Zenon DEF PlacedClosed, ConfirmClosed, RecordTerminal
  <2>2. exchange[o] = Progress("closed", exchange[o].executed)
    BY <2>1, <1>t, Zenon DEF Progress
  <2>3. Effects' = Effects
    BY <1>5, <2>1, <1>a, Zenon DEF PlacedClosed, ConfirmClosed, RecordTerminal, FailClosed, JournalStates, Terminal
  <2>4. Classify(o) = "unknown"
    BY <1>5, <1>c DEF PlacedClosed, ConfirmClosed, IInv, WorkerOK, At, Unfinished
  <2>5. Answer(o, "done", exchange[o].executed) \/ Answer(o, "unknown", 0)
    BY <1>5, <2>4, Zenon DEF PlacedClosed, ConfirmClosed, RecordTerminal, FailClosed
  <2> QED
    BY <2>2, <2>3, <2>5, PromiseSteps, Zenon
<1>6. ASSUME NEW o \in Orders, PlacedOpen(o) \/ PlacedAmbiguous(o) PROVE [Promise!Next]_Promise!vars
  <2>1. exchange[o].executed \in Quantities /\ UNCHANGED venue
    BY <1>6, <1>t, Zenon DEF PlacedOpen, PlacedAmbiguous
  <2>2. Effects' = Effects
    BY <1>6, <2>1, <1>a, <1>t, Zenon DEF PlacedOpen, PlacedAmbiguous, FailClosed, JournalStates
  <2>3. Classify(o) = "unknown"
    BY <1>6, <1>c DEF PlacedOpen, PlacedAmbiguous, IInv, WorkerOK, At, Unfinished
  <2>4. UNCHANGED answer \/ Answer(o, "unknown", 0)
    BY <1>6, <2>3, Zenon DEF PlacedOpen, PlacedAmbiguous, FailClosed
  <2> QED
    BY <1>s, <2>2, <2>4, PromiseSteps, Zenon
<1>7. ASSUME NEW o \in Orders, PlacedInconsistent(o) \/ ConfirmFails(o) PROVE [Promise!Next]_Promise!vars
  <2>1. UNCHANGED venue
    BY <1>7, Zenon DEF PlacedInconsistent, ConfirmFails
  <2>2. Effects' = Effects
    BY <1>7, <2>1, <1>a, <1>t, Zenon DEF PlacedInconsistent, ConfirmFails, FailClosed, JournalStates
  <2>3. Classify(o) = "unknown"
    BY <1>7, <1>c DEF PlacedInconsistent, ConfirmFails, IInv, WorkerOK, At, Unfinished
  <2>4. Answer(o, "unknown", 0)
    BY <1>7, <2>3, Zenon DEF PlacedInconsistent, ConfirmFails, FailClosed
  <2> QED
    BY <2>2, <2>4, PromiseSteps, Zenon
\* The answer "rejected" for an order that was sent and has no effect.
<1>v. ASSUME NEW o \in Orders, Effects' = Effects, exchange[o].state \in {"lost", "refused"},
             Answer(o, "void", 0)
      PROVE  [Promise!Next]_Promise!vars
  <2>1. Effects[o] = Promise!Void
    BY <1>v, Zenon DEF Effects, EffectOf, Promise!Void, Promise!Effect
  <2>2. Effects' = [Effects EXCEPT ![o] = Promise!Void]
    BY <1>v, <2>1, Zenon DEF Effects
  <2> QED
    BY <1>v, <2>1, <2>2, PromiseGiveUp, Zenon
<1>8. ASSUME NEW o \in Orders, PlacedRejected(o) PROVE [Promise!Next]_Promise!vars
  <2>1. exchange[o].state = "refused" /\ UNCHANGED venue
    BY <1>8, Zenon DEF PlacedRejected
  <2>2. Effects' = Effects
    BY <1>8, <2>1, <1>a, <1>t, Zenon DEF PlacedRejected, FailClosed, JournalStates, Terminal
  <2>3. Classify(o) = "unknown"
    BY <1>8, <1>c, Zenon DEF PlacedRejected, IInv, WorkerOK, At, Unfinished
  <2>4. Answer(o, "void", 0) \/ Answer(o, "unknown", 0)
    BY <1>8, <2>3, Zenon DEF PlacedRejected, FailClosed
  <2> QED
    BY <1>v, <2>1, <2>2, <2>4, PromiseSteps, Zenon
<1>9. ASSUME NEW o \in Orders, QueryClosed(o) PROVE [Promise!Next]_Promise!vars
  <2>1. exchange[o].state = "closed" /\ exchange[o].executed \in Quantities /\ UNCHANGED venue
    BY <1>9, <1>t, Zenon DEF QueryClosed
  <2>2. exchange[o] = Progress("closed", exchange[o].executed)
    BY <2>1, <1>t, Zenon DEF Progress
  <2>3. Effects' = Effects
    BY <1>9, <2>1, <1>a, Zenon DEF QueryClosed, JournalStates, Terminal
  <2>4. Classify(o) = "unknown"
    BY <1>9, <1>c, Zenon DEF QueryClosed, IInv, WorkerOK
  <2>5. UNCHANGED answer \/ Answer(o, "done", exchange[o].executed) \/ Answer(o, "unknown", 0)
    BY <1>9, <2>4, Zenon DEF QueryClosed, QueryError
  <2> QED
    BY <1>s, <2>2, <2>3, <2>5, PromiseSteps, Zenon
<1>10. ASSUME NEW o \in Orders, QueryAbsent(o) PROVE [Promise!Next]_Promise!vars
  <2>1. /\ exchange[o].state \in {"none", "lost", "refused"} /\ UNCHANGED venue
        /\ worker.step = "querying" /\ worker.order = o
    BY <1>10, Zenon DEF QueryAbsent, NotFound
  <2>2. Classify(o) = "unknown" /\ journal[o].state \in Unfinished
    BY <2>1, <1>c, Zenon DEF IInv, WorkerOK
  <2>3. /\ Serving(o) => Answer(o, "void", 0) \/ Answer(o, "unknown", 0)
        /\ ~Serving(o) => UNCHANGED answer
    BY <1>10, <2>2, Zenon DEF QueryAbsent, QueryError
  <2>4. CASE exchange[o].state # "none"
    <3>1. Effects' = Effects
      BY <1>10, <2>1, <2>4, <1>a, <1>t, Zenon DEF QueryAbsent, JournalStates, Terminal
    <3> QED
      BY <1>s, <1>v, <2>1, <2>3, <2>4, <3>1, PromiseSteps, Zenon
  <2>5. CASE exchange[o].state = "none"
    <3> DEFINE p == Progress("rejected", 0)
    <3>1. UNCHANGED answer
      BY <2>1, <2>2, <2>3, <2>5, Zenon DEF Serving, IInv, WorkerOK
    <3>2. p \in Record /\ UNCHANGED exchange
      BY <1>r, <1>t, <2>1, Zenon DEF JournalStates, Terminal, venue
    <3>3. Appended(o, p) \/ AppendFailed(o, p)
      BY <1>10, Zenon DEF QueryAbsent
    <3> HIDE DEF p
    <3>4. /\ \A q \in Orders : q # o => EffectOf(q)' = EffectOf(q)
          /\ EffectOf(o)' \in {EffectOf(o), Promise!Void}
      BY <2>5, <3>2, <3>3, AppendEffect, Zenon DEF Promise!Void, Promise!Effect
    <3>5. CASE EffectOf(o)' = EffectOf(o)
      BY <1>s, <3>1, <3>4, <3>5, EffectsSame, Zenon
    <3>6. CASE EffectOf(o)' = Promise!Void
      <4>1. Effects' = [Effects EXCEPT ![o] = Promise!Void]
        BY <3>4, <3>6, EffectsExcept, Zenon
      <4>2. Effects[o] \in {Promise!Nothing, Promise!Void}
        BY <2>5, Zenon DEF Effects, EffectOf, Promise!Nothing, Promise!Void, Promise!Effect
      <4> QED
        BY <3>1, <4>1, <4>2, PromiseGiveUp, Zenon
    <3> QED
      BY <3>4, <3>5, <3>6, Zenon
  <2> QED
    BY <2>4, <2>5, Zenon
<1>11. ASSUME NEW o \in Orders, QueryFails(o) PROVE [Promise!Next]_Promise!vars
  <2>1. Effects' = Effects
    BY <1>11, <1>a, <1>t, Zenon DEF QueryFails, JournalStates
  <2>2. UNCHANGED answer \/ Answer(o, "unknown", 0)
    BY <1>11, Zenon DEF QueryFails
  <2> QED
    BY <1>s, <2>1, <2>2, PromiseSteps, Zenon
<1>12. ASSUME NEW o \in Orders, Fill(o) \/ Refuse(o) PROVE [Promise!Next]_Promise!vars
  <2>1. /\ UNCHANGED <<journal, disk, answer>> /\ exchange[o].state \in {"inflight", "open"}
        /\ exchange[o].executed \in Quantities
    BY <1>12, <1>t, Zenon DEF Fill, Refuse, store
  <2>2. \E s \in {"open", "closed", "lost", "refused"}, x \in Quantities :
           exchange' = [exchange EXCEPT ![o] = Progress(s, x)]
    BY <1>12, <1>t, <2>1 DEF Fill, Refuse, Quantities
  <2>3. PICK s \in {"open", "closed", "lost", "refused"}, x \in Quantities :
           exchange' = [exchange EXCEPT ![o] = Progress(s, x)]
    BY <2>2, Zenon
  <2>4. /\ exchange'[o].state = s /\ exchange'[o].executed = x
        /\ \A q \in Orders : q # o => exchange'[q] = exchange[q]
    BY <2>3, <1>t, Zenon DEF Progress
  <2>5. \A q \in Orders : q # o => EffectOf(q)' = EffectOf(q)
    BY <2>1, <2>4, Zenon DEF EffectOf
  <2>6. EffectOf(o) = Promise!Live /\ Effects[o] = Promise!Live
    BY <2>1, Zenon DEF Effects, EffectOf, Promise!Live, Promise!Effect
  <2>7. CASE s = "open"
    <3>1. EffectOf(o)' = EffectOf(o)
      BY <2>4, <2>6, <2>7, Zenon DEF EffectOf, Promise!Live, Promise!Effect
    <3> QED
      BY <1>s, <2>1, <2>5, <3>1, EffectsSame, Zenon
  <2>8. CASE s # "open"
    <3>1. EffectOf(o)' \in {Promise!Void} \cup {Promise!Done(y) : y \in Quantities}
      BY <2>4, <2>8, Zenon DEF EffectOf, Promise!Void, Promise!Done, Promise!Effect
    <3>2. Effects' = [Effects EXCEPT ![o] = EffectOf(o)']
      BY <2>5, EffectsExcept, Zenon
    <3>3. Promise!Decide(o)
      BY <2>1, <2>6, <3>1, <3>2, Zenon DEF Promise!Decide
    <3> QED
      BY <3>3, Zenon DEF Promise!Next
  <2> QED
    BY <2>7, <2>8, Zenon
<1>13. ASSUME Crash \/ ReconcileStartup \/ UNCHANGED vars PROVE [Promise!Next]_Promise!vars
  <2>1. UNCHANGED <<journal, disk, exchange, answer>>
    BY <1>13, Zenon DEF Crash, ReconcileStartup, vars, store, venue
  <2>2. Effects' = Effects
    BY <2>1 DEF Effects, EffectOf
  <2> QED
    BY <1>s, <2>1, <2>2, Zenon
<1>14. ASSUME Open PROVE [Promise!Next]_Promise!vars
  <2>1. UNCHANGED <<disk, exchange, answer>> /\ journal' = disk
    BY <1>14, Zenon DEF Open, venue
  <2>2. \A o \in Orders : "rejected" \in {journal[o].state, disk[o].state} <=> disk[o].state = "rejected"
    BY Zenon DEF IInv, CopiesAgree, Terminal
  <2>3. \A o \in Orders : EffectOf(o)' = EffectOf(o)
    BY <2>1, <2>2, Zenon DEF EffectOf
  <2> QED
    BY <1>s, <2>1, <2>3, EffectsSame, Zenon
<1> QED
  BY <1>1, <1>2, <1>3, <1>4, <1>5, <1>6, <1>7, <1>8, <1>9, <1>10, <1>11, <1>12, <1>13, <1>14, Zenon
  DEF Next, Serve

\* The lane implements OneShotOrder for any orders, quantities and crashes: an
\* id takes effect at most once, and an answer is exact or "unknown".
THEOREM OrdersKeepPromise == ASSUME OrdersAssumption PROVE Spec => KeepsPromise
<1>1. Init => Promise!Init
  BY InitPromise, Zenon
<1>2. IInv /\ [Next]_vars => [Promise!Next]_Promise!vars
  BY NextPromise, Zenon
<1> QED
  BY <1>1, <1>2, SpecIInv, PTL DEF Spec, KeepsPromise, Promise!Spec
=============================================================================
