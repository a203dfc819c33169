-------------------------- MODULE OpportunityMailbox --------------------------
(***************************************************************************)
(* The hand-off between the engine and the trade task (arbitrage.rs,       *)
(* engine.rs, live_execution.rs).                                          *)
(*                                                                         *)
(* The engine reserves inventory for a plan and submits it; the mailbox    *)
(* keeps the newest plan of each strategy and serves the strategies round  *)
(* robin; the task takes one plan when the lane is available, executes it  *)
(* and reports one event; the engine settles the event and only then       *)
(* releases the lane.  Waiting uses tokio's Notify: a wake-up sent between *)
(* the receiver's look at the state and its wait must not be lost.         *)
(***************************************************************************)
EXTENDS Integers, Sequences, FiniteSets

CONSTANTS
    Strategies,     \* pair ids
    Generations,    \* plans of a strategy that may be reserved at one time
    Leftovers,      \* plans a restart finds unfinished: plan -> stage
    MaxHandles      \* bound on clones of the engine's handle

Plans == Strategies \X Generations
NoPlan == <<"none", 0>>
Executing == {"prepared", "executing", "recovering"}
Quarantined == {"unknown_exposure", "halted"}

MailboxAssumption ==
    /\ "none" \notin Strategies /\ MaxHandles \in Nat \ {0}
    /\ DOMAIN Leftovers \subseteq Plans

\* A restart found no unfinished plan, or only the one that was executing.
OneLeftover ==
    \A p, q \in DOMAIN Leftovers : p = q /\ Leftovers[p] \in Executing

VARIABLES
    pending_by_strategy,  \* strategy -> plan, or NoPlan
    round_robin,          \* strategies with a pending plan, in service order
    lane,                 \* "available" or "busy"
    senders,              \* live handles
    receiver_open,
    permit,               \* the permit notify_one stores
    woken,                \* the receiver's Notified future was woken
    task,                 \* where the trade task is
    current,              \* the plan it executes, or NoPlan
    resume,               \* plans the task still has to resume after a restart
    events,               \* reported, not yet handled by the engine
    reservation,          \* plan -> the engine's reservation
    unresolved            \* plans left in UnknownExposure or Halted

mailbox == <<pending_by_strategy, round_robin, lane, senders, receiver_open>>
notify == <<permit, woken>>
engine == <<events, reservation>>
vars == <<mailbox, notify, task, current, resume, engine, unresolved>>

TaskStates == {"resuming", "top", "checking", "parking", "waiting",
               "executing", "stopped"}
EventStates == {"Balanced", "RejectedUnsubmitted", "BlockedUnknown"}
Event(p, s) == [plan |-> p, state |-> s]

\* initial_execution_lane: a plan that was still executing keeps the lane busy.
InitialLane ==
    IF \E p \in DOMAIN Leftovers : Leftovers[p] \in Executing
    THEN "busy" ELSE "available"

Init ==
    /\ pending_by_strategy = [s \in Strategies |-> NoPlan]
    /\ round_robin = <<>>
    /\ lane = InitialLane
    /\ senders = 1
    /\ receiver_open = TRUE
    /\ permit = FALSE /\ woken = FALSE
    /\ task = "resuming"
    /\ current = NoPlan
    /\ resume = DOMAIN Leftovers
    /\ events = <<>>
    /\ reservation = [p \in Plans |-> "none"]
    /\ unresolved = {p \in DOMAIN Leftovers : Leftovers[p] \in Quarantined}

-----------------------------------------------------------------------------
(* tokio::sync::Notify.  A Notified future exists from its creation at the
   top of recv's loop; it is a registered waiter once it is awaited. *)

\* notify_one: wakes a registered waiter, else stores one permit.
NotifyOne ==
    IF task = "waiting" /\ ~woken
    THEN woken' = TRUE /\ UNCHANGED permit
    ELSE permit' = TRUE /\ UNCHANGED woken

\* notify_waiters: wakes every future created before the call, stores nothing.
NotifyWaiters ==
    /\ woken' = (woken \/ task \in {"checking", "parking", "waiting"})
    /\ UNCHANGED permit

-----------------------------------------------------------------------------
(* The engine *)

TrySubmitKeepsReservation(p) ==
    LET s == p[1]
        previous == pending_by_strategy[s]
    IN
    /\ senders > 0
    /\ receiver_open
    /\ reservation[p] = "none"
    /\ p \notin DOMAIN Leftovers
    /\ pending_by_strategy' = [pending_by_strategy EXCEPT ![s] = p]
    /\ round_robin' = IF previous = NoPlan THEN Append(round_robin, s) ELSE round_robin
    /\ reservation' = [reservation EXCEPT ![p] = "held"]
    /\ NotifyOne
    /\ UNCHANGED <<lane, senders, receiver_open, task, current, resume, events, unresolved>>

\* The engine reserves the plan's inventory and submits it.  The newest plan
\* of a strategy replaces the pending one in place, and the replaced plan's
\* reservation is released.  A closed mailbox answers Unavailable and the
\* engine releases the new reservation at once: nothing changes.  Plan ids are
\* fresh: a plan a restart left over is never submitted again.
TrySubmit(p) ==
    LET s == p[1]
        previous == pending_by_strategy[s]
    IN
    /\ senders > 0
    /\ receiver_open
    /\ reservation[p] = "none"
    /\ p \notin DOMAIN Leftovers
    /\ pending_by_strategy' = [pending_by_strategy EXCEPT ![s] = p]
    /\ round_robin' = IF previous = NoPlan THEN Append(round_robin, s) ELSE round_robin
    /\ reservation' = [q \in Plans |->
          IF q = p THEN "held" ELSE IF q = previous THEN "none" ELSE reservation[q]]
    /\ NotifyOne
    /\ UNCHANGED <<lane, senders, receiver_open, task, current, resume, events, unresolved>>

\* The reservation once the engine has handled the event.
Settled(e) ==
    IF reservation[e.plan] = "none" THEN reservation
    ELSE CASE e.state = "Balanced" -> [reservation EXCEPT ![e.plan] = "pending_settlement"]
           [] e.state = "RejectedUnsubmitted" -> [reservation EXCEPT ![e.plan] = "none"]
           [] e.state = "BlockedUnknown" -> reservation

\* The main loop's arm for trade events: the receipt is applied to the mirror
\* and the reservation moves on before finish releases the lane.
OnPaperTradeEvent ==
    /\ events # <<>>
    /\ senders > 0
    /\ events' = Tail(events)
    /\ reservation' = Settled(Head(events))
    /\ lane' = "available"
    /\ NotifyWaiters
    /\ UNCHANGED <<pending_by_strategy, round_robin, senders, receiver_open,
                   task, current, resume, unresolved>>

\* Newer balances of every claimed venue release a settled reservation.
BalancesObserved(p) ==
    /\ reservation[p] = "pending_settlement"
    /\ reservation' = [reservation EXCEPT ![p] = "none"]
    /\ UNCHANGED <<mailbox, notify, task, current, resume, events, unresolved>>

CloneHandle ==
    /\ senders \in 1 .. MaxHandles - 1
    /\ senders' = senders + 1
    /\ UNCHANGED <<pending_by_strategy, round_robin, lane, receiver_open, notify,
                   task, current, resume, engine, unresolved>>

DropHandleTwice ==
    /\ receiver_open
    /\ senders' = senders - 1
    /\ NotifyWaiters
    /\ UNCHANGED <<pending_by_strategy, round_robin, lane, receiver_open,
                   task, current, resume, engine, unresolved>>

\* A handle is dropped; the last one ends the engine.
DropHandle ==
    /\ senders > 0
    /\ senders' = senders - 1
    /\ NotifyWaiters
    /\ UNCHANGED <<pending_by_strategy, round_robin, lane, receiver_open,
                   task, current, resume, engine, unresolved>>

-----------------------------------------------------------------------------
(* The trade task *)

\* Dropping the receiver closes the mailbox and forgets what was pending.
CloseReceiver ==
    /\ task' = "stopped"
    /\ receiver_open' = FALSE
    /\ pending_by_strategy' = [s \in Strategies |-> NoPlan]
    /\ round_robin' = <<>>

\* The unresolved plans once the coordinator reported s for plan p.
Quarantine(p, s) ==
    CASE s = "BlockedUnknown" -> unresolved \cup {p}
      [] s = "Balanced" -> unresolved \ {p}
      [] s = "RejectedUnsubmitted" -> unresolved

\* authorize_entry refuses a strategy with an unresolved plan.
IsQuarantined(s) == \E p \in unresolved : p[1] = s

\* resume_active drives every unfinished plan to rest, one event each.
ResumePlan(p) ==
    /\ task = "resuming" /\ p \in resume
    /\ \E s \in {"Balanced", "BlockedUnknown"} :
          /\ events' = Append(events, Event(p, s))
          /\ unresolved' = Quarantine(p, s)
    /\ resume' = resume \ {p}
    /\ UNCHANGED <<mailbox, notify, task, current, reservation>>

\* A plan that cannot be resumed ends the task.
ResumeFails ==
    /\ task = "resuming" /\ resume # {}
    /\ CloseReceiver
    /\ UNCHANGED <<lane, senders, notify, current, resume, engine, unresolved>>

ResumeDone ==
    /\ task = "resuming" /\ resume = {}
    /\ task' = "top"
    /\ UNCHANGED <<mailbox, notify, current, resume, engine, unresolved>>

\* The top of recv's loop creates the Notified future before the state is read.
RecvListen ==
    /\ task = "top"
    /\ task' = "checking"
    /\ woken' = FALSE
    /\ UNCHANGED <<mailbox, permit, current, resume, engine, unresolved>>

RecvTakeLeavesLane ==
    /\ task = "checking" /\ lane = "available" /\ round_robin # <<>>
    /\ current' = pending_by_strategy[Head(round_robin)]
    /\ pending_by_strategy' = [pending_by_strategy EXCEPT ![Head(round_robin)] = NoPlan]
    /\ round_robin' = Tail(round_robin)
    /\ task' = "executing"
    /\ UNCHANGED <<lane, senders, receiver_open, notify, resume, engine, unresolved>>

\* Under the mailbox lock: an available lane takes the first strategy's plan.
RecvTake ==
    /\ task = "checking" /\ lane = "available" /\ round_robin # <<>>
    /\ current' = pending_by_strategy[Head(round_robin)]
    /\ pending_by_strategy' = [pending_by_strategy EXCEPT ![Head(round_robin)] = NoPlan]
    /\ round_robin' = Tail(round_robin)
    /\ lane' = "busy"
    /\ task' = "executing"
    /\ UNCHANGED <<senders, receiver_open, notify, resume, engine, unresolved>>

RecvEnds ==
    /\ task = "checking" /\ ~(lane = "available" /\ round_robin # <<>>)
    /\ senders = 0
    /\ CloseReceiver
    /\ UNCHANGED <<lane, senders, notify, current, resume, engine, unresolved>>

\* Nothing to take: the lock is released with the decision to wait.
RecvPark ==
    /\ task = "checking" /\ ~(lane = "available" /\ round_robin # <<>>)
    /\ senders > 0
    /\ task' = "parking"
    /\ UNCHANGED <<mailbox, notify, current, resume, engine, unresolved>>

RecvAwaitLosesWake ==
    /\ task = "parking"
    /\ task' = "waiting"
    /\ woken' = FALSE
    /\ UNCHANGED <<mailbox, permit, current, resume, engine, unresolved>>

\* The first poll registers the future as a waiter.
RecvAwait ==
    /\ task = "parking"
    /\ task' = "waiting"
    /\ UNCHANGED <<mailbox, notify, current, resume, engine, unresolved>>

\* The awaited future completes: woken, or by consuming the stored permit.
RecvWake ==
    /\ task = "waiting" /\ (woken \/ permit)
    /\ task' = "top"
    /\ permit' = (permit /\ woken)
    /\ UNCHANGED <<mailbox, woken, current, resume, engine, unresolved>>

\* The live task's select drops the waiting future on its control tick.  The
\* paper task has no tick, so nothing below relies on it (it is not fair).
Tick ==
    /\ task = "waiting"
    /\ task' = "top"
    /\ UNCHANGED <<mailbox, notify, current, resume, engine, unresolved>>

\* The plan ends with one event; a quarantined strategy is refused at entry.
FinishPlan ==
    /\ task = "executing"
    /\ \E s \in EventStates :
          /\ s = "RejectedUnsubmitted" \/ ~IsQuarantined(current[1])
          /\ events' = Append(events, Event(current, s))
          /\ unresolved' = Quarantine(current, s)
    /\ task' = "top"
    /\ current' = NoPlan
    /\ UNCHANGED <<mailbox, notify, resume, reservation>>

Recv == RecvListen \/ RecvTake \/ RecvEnds \/ RecvPark \/ RecvAwait \/ RecvWake

Next ==
    \/ \E p \in Plans : TrySubmit(p) \/ BalancesObserved(p) \/ ResumePlan(p)
    \/ OnPaperTradeEvent \/ CloneHandle \/ DropHandle
    \/ ResumeFails \/ ResumeDone \/ Recv \/ Tick \/ FinishPlan

Spec == Init /\ [][Next]_vars

\* The runtime polls a task that was woken; a plan ends (every wait of the
\* venues has a timeout); the main loop serves its channels.
Fairness ==
    /\ WF_vars(Recv) /\ WF_vars(FinishPlan) /\ WF_vars(OnPaperTradeEvent)
    /\ WF_vars(ResumeDone) /\ \A p \in Plans : WF_vars(ResumePlan(p))
FairSpec == Spec /\ Fairness

-----------------------------------------------------------------------------
(* Properties *)

TypeOK ==
    /\ pending_by_strategy \in [Strategies -> Plans \cup {NoPlan}]
    /\ round_robin \in Seq(Strategies)
    /\ lane \in {"available", "busy"}
    /\ senders \in 0 .. MaxHandles
    /\ receiver_open \in BOOLEAN /\ permit \in BOOLEAN /\ woken \in BOOLEAN
    /\ task \in TaskStates
    /\ current \in Plans \cup {NoPlan}
    /\ resume \subseteq DOMAIN Leftovers
    /\ events \in Seq([plan : Plans, state : EventStates])
    /\ reservation \in [Plans -> {"none", "held", "pending_settlement"}]
    /\ unresolved \subseteq Plans

\* The plans someone still has to decide about.
Undecided ==
    {pending_by_strategy[s] : s \in Strategies} \cup {current}
        \cup {events[i].plan : i \in 1 .. Len(events)}

\* While the task lives, inventory is held for exactly the plans that still
\* need it: a held reservation belongs to a plan that is pending, executing,
\* reported or quarantined, and a plan that may still execute holds one.
ReservationsAccounted ==
    receiver_open =>
        /\ \A p \in Plans : reservation[p] = "held" =>
              p \in Undecided \cup unresolved
        /\ \A s \in Strategies : pending_by_strategy[s] # NoPlan =>
              reservation[pending_by_strategy[s]] = "held"
        /\ current # NoPlan => reservation[current] = "held"

\* The engine applies a finished plan's receipt to the mirror and moves its
\* reservation before the task may take the next plan: recv takes nothing
\* while an event is unhandled.  That needs OneLeftover: on_paper_trade_event
\* releases the lane whichever plan its event is of, so after a restart with a
\* second, quarantined plan the event of one frees the lane for another.
TakesWhenSettled == task = "checking" /\ task' = "executing" => events = <<>>
SettledBeforeNextPlan == [][TakesWhenSettled]_vars

\* A pending plan of a strategy is reached: its strategy's turn comes however
\* often it and the others are superseded, unless the mailbox closes or the
\* last handle is dropped.
Reached(s) ==
    \/ current # NoPlan /\ current[1] = s
    \/ ~receiver_open \/ senders = 0
PendingTaken == \A s \in Strategies : pending_by_strategy[s] # NoPlan ~> Reached(s)
=============================================================================
