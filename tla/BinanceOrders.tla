---------------------------- MODULE BinanceOrders ----------------------------
(***************************************************************************)
(* The Binance execution lane (binance/execution.rs) and its order journal *)
(* (binance/order_journal.rs).                                             *)
(*                                                                         *)
(* One worker serves the requests one at a time.  An order is identified   *)
(* by its client order id; its intent is journaled before it is placed,    *)
(* and a request for a journaled id is answered from the journal or by one *)
(* order.status query, never by placing again.  The exchange and the       *)
(* WebSocket between are the environment: a request may be lost, executed  *)
(* with its answer lost, refused, or answered while the order is open.     *)
(***************************************************************************)
EXTENDS Integers, FiniteSets

CONSTANTS
    Orders,         \* client order ids
    MaxQuantity,    \* quantity of an order, in steps
    LateArrival,    \* a lost request may still reach the exchange after a query
    MaxCrashes      \* bound on process restarts

Quantities == 0 .. MaxQuantity
NoOrder == "none"

\* What the proofs assume of the constants.  LateArrival is the one that
\* matters: an order the exchange does not know will not reach it any more.
OrdersAssumption ==
    /\ NoOrder \notin Orders
    /\ MaxQuantity \in Nat /\ MaxCrashes \in Nat
    /\ LateArrival = FALSE

VARIABLES
    journal,    \* order -> [state, executed]: BinanceOrderProgress in memory
    disk,       \* order -> the same, as a restart will read it
    poisoned,   \* an append failed: the journal accepts nothing more
    worker,     \* [step, order, confirm_absent]
    queue,      \* orders startup reconciliation still has to query
    exchange,   \* order -> [state, executed]
    placed,     \* order -> how often a placement was written to the socket
    answer,     \* order -> [kind, executed]: the last answer to the caller
    crashes

store == <<journal, disk, poisoned>>
venue == <<exchange, placed>>
vars == <<store, worker, queue, venue, answer, crashes>>

Progress(state, executed) == [state |-> state, executed |-> executed]
Fresh == Progress("none", 0)
Terminal == {"rejected", "terminal"}
JournalStates == {"none", "intent", "submitted", "unknown"} \cup Terminal
ExchangeStates == {"none", "inflight", "lost", "refused", "open", "closed"}
Steps == {"down", "starting", "idle", "intended", "placing", "confirming", "querying"}
AnswerKinds == {"none", "done", "void", "unsubmitted", "unknown"}
Reply(kind, executed) == [kind |-> kind, executed |-> executed]
At(step, o, confirm) == [step |-> step, order |-> o, confirm_absent |-> confirm]
Idle == At("idle", NoOrder, FALSE)
Down == At("down", NoOrder, FALSE)
Starting == At("starting", NoOrder, FALSE)

Init ==
    /\ journal = [o \in Orders |-> Fresh]
    /\ disk = journal
    /\ poisoned = FALSE
    /\ worker = Idle
    /\ queue = {}
    /\ exchange = [o \in Orders |-> Fresh]
    /\ placed = [o \in Orders |-> 0]
    /\ answer = [o \in Orders |-> Reply("none", 0)]
    /\ crashes = 0

-----------------------------------------------------------------------------
(* The journal *)

\* validate_transition: nothing follows a terminal state, nothing returns to
\* the intent.
TransitionAllowed(from, to) ==
    /\ from.state \notin Terminal
    /\ to.state # "none"
    /\ (to.state = "intent") <=> (from.state = "none")

\* append succeeds.
Appended(o, p) ==
    /\ ~poisoned
    /\ TransitionAllowed(journal[o], p)
    /\ journal' = [journal EXCEPT ![o] = p]
    /\ disk' = journal'
    /\ UNCHANGED poisoned

\* append fails: memory keeps the old state, the disk may hold either, and
\* the journal is poisoned until the process restarts.
AppendFailed(o, p) ==
    /\ TransitionAllowed(journal[o], p)
    /\ poisoned' = TRUE
    /\ disk' \in IF poisoned THEN {disk} ELSE {disk, [disk EXCEPT ![o] = p]}
    /\ UNCHANGED journal

Answer(o, kind, executed) == answer' = [answer EXCEPT ![o] = Reply(kind, executed)]

\* classify_execution_error: what a failed call means, from the journal.
Classify(o) ==
    CASE journal[o].state = "none" -> "unsubmitted"
      [] journal[o].state = "rejected" -> "void"
      [] OTHER -> "unknown"

\* The call ends with an error after the journal refused an append.
FailClosed(o, p) ==
    /\ AppendFailed(o, p)
    /\ worker' = Idle
    /\ Answer(o, Classify(o), 0)

-----------------------------------------------------------------------------
(* One request *)

ConfirmsAbsent(state) == state \in {"intent", "unknown"}

\* A new id: the intent is durable before anything is sent.
ExecuteNew(o) ==
    /\ worker = Idle /\ journal[o].state = "none"
    /\ \/ /\ Appended(o, Progress("intent", 0))
          /\ worker' = At("intended", o, FALSE)
          /\ Answer(o, "none", 0)
       \/ FailClosed(o, Progress("intent", 0))
    /\ UNCHANGED <<queue, venue, crashes>>

ReplayPlacesIntent(o) ==
    /\ worker = Idle /\ journal[o].state \notin {"none"} \cup Terminal
    /\ worker' = IF journal[o].state = "intent" THEN At("intended", o, FALSE)
                 ELSE At("querying", o, ConfirmsAbsent(journal[o].state))
    /\ Answer(o, "none", 0)
    /\ UNCHANGED <<store, queue, venue, crashes>>

\* A journaled, unfinished id is only queried.
ReplayUnfinished(o) ==
    /\ worker = Idle /\ journal[o].state \notin {"none"} \cup Terminal
    /\ worker' = At("querying", o, ConfirmsAbsent(journal[o].state))
    /\ Answer(o, "none", 0)
    /\ UNCHANGED <<store, queue, venue, crashes>>

ReplayRejectedAsUnsubmitted(o) ==
    /\ worker = Idle /\ journal[o].state \in Terminal
    /\ IF journal[o].state = "terminal"
       THEN Answer(o, "done", journal[o].executed)
       ELSE Answer(o, "unsubmitted", 0)
    /\ UNCHANGED <<store, worker, queue, venue, crashes>>

\* A finished id is answered from the journal.
ReplayFinished(o) ==
    /\ worker = Idle /\ journal[o].state \in Terminal
    /\ IF journal[o].state = "terminal"
       THEN Answer(o, "done", journal[o].executed)
       ELSE Answer(o, "void", 0)
    /\ UNCHANGED <<store, worker, queue, venue, crashes>>

\* place_*: the request is written to the socket.
Place(o) ==
    /\ worker = At("intended", o, FALSE)
    /\ worker' = At("placing", o, FALSE)
    /\ exchange' = [exchange EXCEPT ![o] = Progress("inflight", 0)]
    /\ placed' = [placed EXCEPT ![o] = @ + 1]
    /\ UNCHANGED <<store, queue, answer, crashes>>

\* record_order of a terminal order, and the outcome handed to the caller.
RecordTerminal(o) ==
    LET p == Progress("terminal", exchange[o].executed) IN
    /\ exchange[o].state = "closed"
    /\ \/ /\ Appended(o, p)
          /\ worker' = Idle
          /\ Answer(o, "done", exchange[o].executed)
       \/ FailClosed(o, p)

PlacedClosed(o) ==
    /\ worker = At("placing", o, FALSE)
    /\ RecordTerminal(o)
    /\ UNCHANGED <<queue, venue, crashes>>

PlacedOpenCountsTwice(o) ==
    LET p == Progress("submitted", exchange[o].executed + exchange[o].executed) IN
    /\ worker = At("placing", o, FALSE)
    /\ exchange[o].state = "open"
    /\ \/ /\ Appended(o, p)
          /\ worker' = At("confirming", o, FALSE)
          /\ UNCHANGED answer
       \/ FailClosed(o, p)
    /\ UNCHANGED <<queue, venue, crashes>>

\* The placement is answered while the order is still open.
PlacedOpen(o) ==
    LET p == Progress("submitted", exchange[o].executed) IN
    /\ worker = At("placing", o, FALSE)
    /\ exchange[o].state = "open"
    /\ \/ /\ Appended(o, p)
          /\ worker' = At("confirming", o, FALSE)
          /\ UNCHANGED answer
       \/ FailClosed(o, p)
    /\ UNCHANGED <<queue, venue, crashes>>

\* The answer does not describe the requested order: journaled as unknown.
PlacedInconsistent(o) ==
    /\ worker = At("placing", o, FALSE)
    /\ exchange[o].state \in {"open", "closed"}
    /\ \/ /\ Appended(o, Progress("unknown", 0))
          /\ worker' = Idle
          /\ Answer(o, "unknown", 0)
       \/ FailClosed(o, Progress("unknown", 0))
    /\ UNCHANGED <<queue, venue, crashes>>

\* A definitive refusal.
PlacedRejected(o) ==
    /\ worker = At("placing", o, FALSE)
    /\ exchange[o].state = "refused"
    /\ \/ /\ Appended(o, Progress("rejected", 0))
          /\ worker' = Idle
          /\ Answer(o, "void", 0)
       \/ FailClosed(o, Progress("rejected", 0))
    /\ UNCHANGED <<queue, venue, crashes>>

PlacedAmbiguousIsRejected(o) ==
    /\ worker = At("placing", o, FALSE)
    /\ \/ /\ Appended(o, Progress("rejected", 0))
          /\ worker' = Idle
          /\ Answer(o, "void", 0)
       \/ FailClosed(o, Progress("rejected", 0))
    /\ UNCHANGED <<queue, venue, crashes>>

\* A transport failure, a 5xx or an ambiguous code (rejection_outcome_unknown):
\* nothing is known, so the order is queried.
PlacedAmbiguous(o) ==
    /\ worker = At("placing", o, FALSE)
    /\ \/ /\ Appended(o, Progress("unknown", 0))
          /\ worker' = At("querying", o, TRUE)
          /\ UNCHANGED answer
       \/ FailClosed(o, Progress("unknown", 0))
    /\ UNCHANGED <<queue, venue, crashes>>

\* reconcile_known_order, one query: a terminal status, or
ConfirmClosed(o) ==
    /\ worker = At("confirming", o, FALSE)
    /\ RecordTerminal(o)
    /\ UNCHANGED <<queue, venue, crashes>>

ConfirmHangs(o) ==
    /\ worker = At("confirming", o, FALSE)
    /\ UNCHANGED vars

\* the order still open, or no answer.
ConfirmFails(o) ==
    /\ worker = At("confirming", o, FALSE)
    /\ \/ /\ Appended(o, Progress("unknown", 0))
          /\ worker' = Idle
          /\ Answer(o, "unknown", 0)
       \/ FailClosed(o, Progress("unknown", 0))
    /\ UNCHANGED <<queue, venue, crashes>>

-----------------------------------------------------------------------------
(* query_after_reconnect, during a request or at startup *)

\* During startup there is no caller.
Serving(o) == o \notin queue

\* The error that leaves query_after_reconnect: a request is classified, a
\* startup fails ("journal remains blocked") and the process stops.
QueryError(o) ==
    IF Serving(o)
    THEN worker' = Idle /\ Answer(o, Classify(o), 0) /\ UNCHANGED queue
    ELSE worker' = Down /\ queue' = {} /\ UNCHANGED answer

\* A terminal order: its fills are journaled and answered.
QueryClosed(o) ==
    LET p == Progress("terminal", exchange[o].executed) IN
    /\ worker.step = "querying" /\ worker.order = o
    /\ exchange[o].state = "closed"
    /\ \/ /\ Appended(o, p)
          /\ IF Serving(o)
             THEN Answer(o, "done", exchange[o].executed) /\ worker' = Idle /\ UNCHANGED queue
             ELSE queue' = queue \ {o} /\ worker' = Starting /\ UNCHANGED answer
       \/ AppendFailed(o, p) /\ QueryError(o)
    /\ UNCHANGED <<venue, crashes>>

\* -2013: the exchange does not know the order.
NotFound(o) ==
    \/ exchange[o].state \in {"none", "lost", "refused"}
    \/ LateArrival /\ exchange[o].state = "inflight"

\* The order is absent and absence may be confirmed: journaled as rejected.
QueryAbsent(o) ==
    /\ worker.step = "querying" /\ worker.order = o
    /\ worker.confirm_absent /\ NotFound(o)
    /\ \/ /\ Appended(o, Progress("rejected", 0))
          /\ IF Serving(o)
             THEN Answer(o, "void", 0) /\ worker' = Idle /\ UNCHANGED queue
             ELSE queue' = queue \ {o} /\ worker' = Starting /\ UNCHANGED answer
       \/ AppendFailed(o, Progress("rejected", 0)) /\ QueryError(o)
    /\ UNCHANGED <<venue, crashes>>

\* No answer, an open order, or an absence that proves nothing.
QueryFails(o) ==
    /\ worker.step = "querying" /\ worker.order = o
    /\ \/ Appended(o, Progress("unknown", 0))
       \/ AppendFailed(o, Progress("unknown", 0))
    /\ IF Serving(o)
       THEN worker' = Idle /\ Answer(o, "unknown", 0) /\ UNCHANGED queue
       ELSE worker' = Down /\ queue' = {} /\ UNCHANGED answer
    /\ UNCHANGED <<venue, crashes>>

-----------------------------------------------------------------------------
(* The process *)

Active == {o \in Orders : disk[o].state \notin {"none"} \cup Terminal}

\* The process stops anywhere; what memory held is gone.
Crash ==
    /\ worker # Down /\ crashes < MaxCrashes
    /\ crashes' = crashes + 1
    /\ worker' = Down
    /\ queue' = {}
    /\ UNCHANGED <<store, venue, answer>>

\* open replays the journal; every unfinished order must be reconciled.
Open ==
    /\ worker = Down
    /\ journal' = disk /\ poisoned' = FALSE
    /\ queue' = Active
    /\ worker' = IF Active = {} THEN Idle ELSE Starting
    /\ UNCHANGED <<disk, venue, answer, crashes>>

\* reconcile_startup takes the next order, and ends when none is left.
ReconcileStartup ==
    /\ worker = Starting
    /\ IF queue = {}
       THEN worker' = Idle
       ELSE \E o \in queue :
               worker' = At("querying", o, ConfirmsAbsent(journal[o].state))
    /\ UNCHANGED <<store, queue, venue, answer, crashes>>

-----------------------------------------------------------------------------
(* The exchange *)

Fill(o) ==
    /\ exchange[o].state \in {"inflight", "open"}
    /\ \E x \in exchange[o].executed .. MaxQuantity, s \in {"open", "closed"} :
          exchange' = [exchange EXCEPT ![o] = Progress(s, x)]
    /\ UNCHANGED <<store, worker, queue, placed, answer, crashes>>

Refuse(o) ==
    /\ exchange[o].state = "inflight"
    /\ \E s \in {"lost", "refused"} : exchange' = [exchange EXCEPT ![o] = Progress(s, 0)]
    /\ UNCHANGED <<store, worker, queue, placed, answer, crashes>>

Serve(o) ==
    \/ Place(o) \/ PlacedClosed(o) \/ PlacedOpen(o) \/ PlacedInconsistent(o)
    \/ PlacedRejected(o) \/ PlacedAmbiguous(o) \/ ConfirmClosed(o) \/ ConfirmFails(o)
    \/ QueryClosed(o) \/ QueryAbsent(o) \/ QueryFails(o)

Next ==
    \/ \E o \in Orders :
          \/ ExecuteNew(o) \/ ReplayUnfinished(o) \/ ReplayFinished(o)
          \/ Serve(o) \/ Fill(o) \/ Refuse(o)
    \/ Crash \/ Open \/ ReconcileStartup

Spec == Init /\ [][Next]_vars

\* Every placement and query has a timeout (PlacedAmbiguous, ConfirmFails and
\* QueryFails are always possible), and the worker's thread runs.
FairSpec == Spec /\ WF_vars(\E o \in Orders : Serve(o)) /\ WF_vars(ReconcileStartup)

-----------------------------------------------------------------------------
(* Properties *)

TypeOK ==
    /\ journal \in [Orders -> [state : JournalStates, executed : Quantities]]
    /\ disk \in [Orders -> [state : JournalStates, executed : Quantities]]
    /\ poisoned \in BOOLEAN
    /\ worker \in [step : Steps, order : Orders \cup {NoOrder}, confirm_absent : BOOLEAN]
    /\ queue \subseteq Orders
    /\ exchange \in [Orders -> [state : ExchangeStates, executed : Quantities]]
    /\ placed \in [Orders -> Nat]
    /\ answer \in [Orders -> [kind : AnswerKinds, executed : Quantities]]
    /\ crashes \in 0 .. MaxCrashes

\* execute_instrumented writes a placement for a client order id at most once,
\* whatever is replayed, reconciled or restarted.
PlacedAtMostOnce == \A o \in Orders : placed[o] <= 1

\* An order the exchange has not executed and will not execute.
NoEffect(o) == exchange[o].state \in {"none", "lost", "refused"}

\* The caller builds its next order on the answer: a fill is reported with the
\* exact executed quantity of a closed order, and "rejected" or "failed before
\* submission" only when the order can have no effect.
AnswersAreTrue ==
    \A o \in Orders :
        /\ answer[o].kind = "done" => exchange[o] = Progress("closed", answer[o].executed)
        /\ answer[o].kind \in {"void", "unsubmitted"} => NoEffect(o)

\* A request does not hold the lane for ever: the worker answers or stops.
Occupied == worker.step \in {"intended", "placing", "confirming", "querying"}
WorkerReturns == Occupied ~> worker.step \in {"idle", "down"}

\* The child promise, with the exchange and the journal mapped to it.
EffectOf(o) ==
    CASE exchange[o].state = "closed" -> [kind |-> "done", executed |-> exchange[o].executed]
      [] exchange[o].state \in {"inflight", "open"} -> [kind |-> "live", executed |-> 0]
      [] exchange[o].state \in {"lost", "refused"} -> [kind |-> "void", executed |-> 0]
      [] exchange[o].state = "none" ->
            [kind |-> IF "rejected" \in {journal[o].state, disk[o].state} THEN "void" ELSE "none",
             executed |-> 0]

Effects == [o \in Orders |-> EffectOf(o)]

Promise == INSTANCE OneShotOrder WITH effect <- Effects

\* The lane implements OneShotOrder: at most one effect per id, answers that
\* are exact or "unknown", through crashes, replays and journal failures.
KeepsPromise == Promise!Spec
=============================================================================
