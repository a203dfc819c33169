--------------------------- MODULE TradeCoordinator ---------------------------
(***************************************************************************)
(* The parent trades of the live execution task: PaperTradeCoordinator     *)
(* and its journal (arbitrage.rs), driven by LiveTradeTask, with the legs  *)
(* run by ComposedLiveLegExecutor (live_execution.rs).                     *)
(*                                                                         *)
(* A parent has up to five child orders: the DEX swap, the primary CEX     *)
(* order and three MARKET recoveries.  The child executors keep the        *)
(* promise of OneShotOrder; what a child did at its venue is "child", what *)
(* the parent journaled about it is "op".  Quantities are base units of    *)
(* token B, signed: what the wallets gain is positive.                     *)
(*                                                                         *)
(* Every durable append is a step of its own, so a crash may fall between  *)
(* any two.  An append that fails poisons the journal; if its bytes did    *)
(* reach the disk, the journal is the one of a crash after the append.     *)
(***************************************************************************)
EXTENDS Integers, Sequences, FiniteSets

CONSTANTS
    Plans,          \* plan ids, positive, in the order of the journal
    StrategyOf,     \* plan -> strategy
    Modes,          \* subset of {"dex_first", "concurrent"}
    Directions,     \* 1: buy on DEX and sell on CEX, -1: the opposite
    Quantity,       \* planned token B
    DexCredits,     \* what a DEX buy may credit
    LotStep,        \* Binance quantity step
    BuyFees,        \* commission taken from token B on a buy
    Prices,         \* limit prices the post-DEX selection may pick
    Drift,          \* subset of Drifts: what time may do between two reads
    MaxCrashes

MaxRecoveryAttempts == 3
Drifts == {"plan_expires", "backoff_ends_between_reads", "filters_move"}

ASSUME PlansAssumption == Plans \subseteq Nat \ {0} /\ IsFiniteSet(Plans)
ASSUME QuantityAssumption ==
    /\ Quantity \in Nat \ {0} /\ LotStep \in Nat \ {0}
    /\ DexCredits \subseteq Nat \ {0}
    /\ BuyFees \subseteq Nat /\ BuyFees # {}
    /\ \A f \in BuyFees : f < LotStep
ASSUME InputsAssumption ==
    /\ Modes \subseteq {"dex_first", "concurrent"}
    /\ Directions \subseteq {-1, 1}
    /\ Prices \subseteq Nat \ {0}
    /\ Drift \subseteq Drifts
    /\ MaxCrashes \in Nat

VARIABLES
    op,         \* plan -> TradeOperation, the durable parent
    unresolved, \* strategy -> unresolved_by_strategy, kept by append
    pc,         \* where the task is
    plan,       \* the plan it drives, 0 if none
    resuming,   \* plans that resume_active has yet to drive
    resumed,    \* whether the current drive is part of resume_active
    calls,      \* the leg executions in flight, in command order
    backoff,    \* plan -> the retry deadline lies in the future
    stopped,    \* the venues whose executor stopped in this process
    event,      \* plan -> last event published by this process
    child,      \* plan -> child -> what the venue did
    asked,      \* plan -> child -> the commands ever handed to the executor
    expired,    \* plan -> the DEX deadline has passed
    crashes

task == <<pc, plan, resuming, resumed, calls, stopped, event>>
journal == <<op, unresolved>>
venues == <<child, asked>>
clock == <<expired, backoff>>
vars == <<journal, task, venues, clock, crashes>>

-----------------------------------------------------------------------------
(* Children *)

Dex == 0
Cex == 1
Recovery(attempt) == 1 + attempt
Children == 0 .. Recovery(MaxRecoveryAttempts)

\* fill is the signed executed quantity, fee what a buy lost to commission.
Child(kind, fill, fee) == [kind |-> kind, fill |-> fill, fee |-> fee]
Unsent == Child("none", 0, 0)
Live(side) == Child("live", side, 0)
Void == Child("void", 0, 0)

Abs(n) == IF n < 0 THEN -n ELSE n
Sign(n) == IF n < 0 THEN -1 ELSE IF n > 0 THEN 1 ELSE 0
AtMost(m, n) == IF m <= n THEN m ELSE n

\* plan_limit_ioc and plan_market_order: rounded down to the step.
Submitted(target) == (Abs(target) \div LotStep) * LotStep

-----------------------------------------------------------------------------
(* Parent operations *)

Stages == {"none", "prepared", "executing", "recovering",
           "balanced", "unknown_exposure", "halted"}
ActiveStages == {"prepared", "executing", "recovering"}
UnresolvedStages == {"unknown_exposure", "halted"}
Statuses == {"none", "filled", "failed", "unknown"}
References == {"none", "fill", "unsubmitted", "reverted", "expired",
               "rejected", "zero_fill", "filtered", "unknown"}

Result(status, delta, executed, ref) ==
    [status |-> status, delta |-> delta, executed |-> executed, ref |-> ref]
NoResult == Result("none", 0, 0, "none")
Failed(ref) == Result("failed", 0, 0, ref)
UnknownResult == Result("unknown", 0, 0, "unknown")

NoOp == [stage |-> "none", mode |-> "dex_first", dir |-> 1,
         dex_dispatched |-> FALSE, cex_dispatched |-> FALSE, price |-> 0,
         dex |-> NoResult, cex |-> NoResult, recovery |-> <<>>,
         inflight |-> FALSE, target |-> 0, residual |-> 0]

Init ==
    /\ op = [p \in Plans |-> NoOp]
    /\ unresolved = [s \in {StrategyOf[p] : p \in Plans} |-> 0]
    /\ pc = "down" /\ plan = 0 /\ resuming = {} /\ resumed = FALSE
    /\ calls = <<>> /\ stopped = {}
    /\ event = [p \in Plans |-> "none"]
    /\ child = [p \in Plans |-> [k \in Children |-> Unsent]]
    /\ asked = [p \in Plans |-> [k \in Children |-> {}]]
    /\ backoff = [p \in Plans |-> FALSE]
    /\ expired = [p \in Plans |-> FALSE]
    /\ crashes = 0

\* The three operators of SequencesExt that the journal needs; that module as
\* a whole weighs on every step of a proof.
Last(s) == s[Len(s)]
Front(s) == SubSeq(s, 1, Len(s) - 1)
IsPrefix(s, t) == Len(s) <= Len(t) /\ SubSeq(t, 1, Len(s)) = s

Terminal(o) == o.stage = "balanced"
HasResult(r) == r.status # "none"
Results(o) == {o.dex, o.cex} \cup {o.recovery[i] : i \in DOMAIN o.recovery}
HasUnknownLeg(o) == \E r \in Results(o) : r.status = "unknown"

\* token_b_residual_base_units: the sum over all results.
RecoveryDelta(o, attempt) ==
    IF attempt \in DOMAIN o.recovery THEN o.recovery[attempt].delta ELSE 0
Residual(o) ==
    o.dex.delta + o.cex.delta
        + RecoveryDelta(o, 1) + RecoveryDelta(o, 2) + RecoveryDelta(o, 3)

RecoveryTargetIgnoresCex(o) == IF ~HasResult(o.cex) THEN 0 ELSE -o.dex.delta
RecoveryTargetFlipped(o) ==
    LET target == o.dex.delta + o.cex.executed IN
    IF ~HasResult(o.cex) \/ Abs(target) < LotStep THEN 0 ELSE target
\* primary_recovery_target_token_b_delta_base_units, 0 without a CEX result.
RecoveryTarget(o) ==
    LET target == -o.dex.delta - o.cex.executed IN
    IF ~HasResult(o.cex) \/ Abs(target) < LotStep THEN 0 ELSE target

Retryable(r) == r.status = "failed" /\ r.ref \in {"unsubmitted", "rejected", "zero_fill"}
RetryPending(o) ==
    /\ o.recovery # <<>> /\ Retryable(Last(o.recovery))
    /\ Len(o.recovery) < MaxRecoveryAttempts
ProvesZeroIfExpired(r) == r.status = "failed" /\ r.ref \in {"unsubmitted", "reverted", "expired"}
ProvesZeroExposure(r) == r.status = "failed" /\ r.ref \in {"unsubmitted", "reverted"}
DirectionIsValid(o, target) == Sign(target) = -o.dir

\* finalize_balanced accepts the operation.
MayFinalize(o) ==
    /\ ~HasUnknownLeg(o)
    /\ o.dex_dispatched => HasResult(o.dex)
    /\ o.cex_dispatched => HasResult(o.cex)
    /\ ~o.inflight
    /\ o.dex.status = "failed" => ProvesZeroExposure(o.dex)
Finalized(o) == [o EXCEPT !.stage = "balanced", !.residual = Residual(o)]

-----------------------------------------------------------------------------
(* The journal *)

Unresolved(o) == o.stage \in UnresolvedStages

StageTransitionAllowed(from, to) ==
    \/ from = to
    \/ from = "none" /\ to = "prepared"
    \/ from = "prepared" /\ to = "executing"
    \/ from = "executing" /\ to \in {"recovering", "balanced", "unknown_exposure", "halted"}
    \/ from = "recovering" /\ to \in {"balanced", "unknown_exposure", "halted"}
    \/ from = "unknown_exposure" /\ to \in {"executing", "recovering", "halted"}
    \/ from = "halted" /\ to \in {"recovering", "balanced"}

UnchangedOrReconciled(r, s) ==
    r = s \/ r = NoResult \/ (r.status = "unknown" /\ s.status # "unknown")
AppendOnlyOrReconciled(rs, ss) ==
    \/ IsPrefix(rs, ss)
    \/ /\ Len(rs) = Len(ss) /\ rs # <<>>
       /\ Front(rs) = Front(ss)
       /\ UnchangedOrReconciled(Last(rs), Last(ss))

\* apply_snapshot and validate_operation: what append, and the replay of the
\* journal at startup, accept after the previous snapshot of the parent.
SnapshotAllowed(o, n) ==
    /\ o.stage # "none" => <<o.mode, o.dir>> = <<n.mode, n.dir>>
    /\ ~Terminal(o)
    /\ StageTransitionAllowed(o.stage, n.stage)
    /\ o.dex_dispatched => n.dex_dispatched
    /\ o.cex_dispatched => n.cex_dispatched
    /\ o.price \in {0, n.price}
    /\ o.target \in {0, n.target}
    /\ UnchangedOrReconciled(o.dex, n.dex)
    /\ UnchangedOrReconciled(o.cex, n.cex)
    /\ AppendOnlyOrReconciled(o.recovery, n.recovery)
    /\ Len(n.recovery) <= MaxRecoveryAttempts

\* append: the snapshot and the index it keeps, in memory as on disk.
PersistForgetsIndex(p, o) ==
    /\ op' = [op EXCEPT ![p] = o]
    /\ unresolved' = [unresolved EXCEPT ![StrategyOf[p]] =
                          @ + (IF Unresolved(o) THEN 1 ELSE 0)]
PersistReleasesTwice(p, o) ==
    /\ op' = [op EXCEPT ![p] = o]
    /\ unresolved' = [unresolved EXCEPT ![StrategyOf[p]] = @ + (IF Unresolved(o) THEN 1 ELSE -1)]
Persist(p, o) ==
    /\ op' = [op EXCEPT ![p] = o]
    /\ unresolved' = [unresolved EXCEPT ![StrategyOf[p]] =
                          @ - (IF Unresolved(op[p]) THEN 1 ELSE 0)
                            + (IF Unresolved(o) THEN 1 ELSE 0)]

GoTo(step) == pc' = step
KeepTask == UNCHANGED <<plan, resuming, resumed, stopped, event>>

-----------------------------------------------------------------------------
(* Entry *)

AuthorizeIgnoresQuarantine(p) ==
    \A q \in Plans : StrategyOf[q] = StrategyOf[p] => op[q].stage \notin ActiveStages
\* authorize_entry: the strategy is not quarantined, its parents are fewer
\* than maximum_concurrent_trades (1); the market preflight passed.
AuthorizeEntry(p) ==
    /\ unresolved[StrategyOf[p]] = 0
    /\ \A q \in Plans : StrategyOf[q] = StrategyOf[p] => op[q].stage \notin ActiveStages

\* execute and admit: no other parent is executing and the plan is new.
Admit(p) ==
    /\ pc = "idle"
    /\ op[p].stage = "none"
    /\ AuthorizeEntry(p)
    /\ \A q \in Plans : op[q].stage \notin ActiveStages
    /\ \E mode \in Modes, dir \in Directions :
          Persist(p, [NoOp EXCEPT !.stage = "prepared", !.mode = mode, !.dir = dir])
    /\ GoTo("drive") /\ plan' = p /\ resumed' = FALSE
    /\ UNCHANGED <<resuming, calls, stopped, event, venues, clock, crashes>>

-----------------------------------------------------------------------------
(* take_commands, one action per outcome *)

O == op[plan]

\* prepare_primary_cex_limit_price comes first in every turn of drive.
NeedsPrice ==
    /\ O.mode = "dex_first" /\ ~O.cex_dispatched /\ O.price = 0
    /\ O.dex.status = "filled" /\ O.dex.delta # 0
Driving == pc = "drive" /\ ~NeedsPrice

Call(k, target, price, recon) ==
    [child |-> k, target |-> target, price |-> price, recon |-> recon,
     at |-> "start", result |-> NoResult]
DexCall(o, recon) == Call(Dex, o.dir * Quantity, 0, recon)

\* The limit price of a concurrent parent is the one of its admission.
CexTarget(o) == IF o.mode = "dex_first" THEN -o.dex.delta ELSE -o.dir * Quantity
CexCall(o) == Call(Cex, CexTarget(o), o.price, FALSE)
RecoveryCall(o, attempt) == Call(Recovery(attempt), o.target, 0, FALSE)

\* The commands are handed out after the append that owns them.
Dispatch(o, commands) ==
    /\ Persist(plan, o)
    /\ calls' = commands
    /\ GoTo("exec")
    /\ KeepTask /\ UNCHANGED <<venues, clock, crashes>>

SelectPriceUnjournaled ==
    /\ pc = "drive" /\ NeedsPrice
    /\ \E price \in Prices :
          Dispatch([O EXCEPT !.cex_dispatched = TRUE],
                   <<[CexCall(O) EXCEPT !.price = price]>>)
SelectPrice ==
    /\ pc = "drive" /\ NeedsPrice
    /\ \E price \in Prices : Persist(plan, [O EXCEPT !.price = price])
    /\ KeepTask /\ UNCHANGED <<pc, calls, venues, clock, crashes>>

\* An unknown leg: no command, the parent waits for reconciliation.
MarkUnknown ==
    /\ Driving /\ HasUnknownLeg(O)
    /\ IF O.stage = "unknown_exposure"
       THEN UNCHANGED journal
       ELSE Persist(plan, [O EXCEPT !.stage = "unknown_exposure"])
    /\ GoTo("reconcile_dex")
    /\ KeepTask /\ UNCHANGED <<calls, venues, clock, crashes>>

DispatchEntry ==
    /\ Driving /\ ~HasUnknownLeg(O) /\ ~O.dex_dispatched
    /\ LET o == [O EXCEPT !.dex_dispatched = TRUE, !.stage = "executing",
                          !.cex_dispatched = (O.mode = "concurrent")]
       IN Dispatch(o, IF O.mode = "concurrent"
                      THEN <<DexCall(o, FALSE), CexCall(o)>>
                      ELSE <<DexCall(o, FALSE)>>)

DispatchHedge ==
    /\ Driving /\ ~HasUnknownLeg(O)
    /\ O.mode = "dex_first" /\ O.dex_dispatched /\ ~O.cex_dispatched
    /\ O.dex.status = "filled" /\ O.dex.delta # 0
    /\ Dispatch([O EXCEPT !.cex_dispatched = TRUE], <<CexCall(O)>>)

\* Both primary legs have their result and no recovery runs.
PrimaryFinished ==
    /\ Driving /\ ~HasUnknownLeg(O)
    /\ O.dex_dispatched /\ HasResult(O.dex)
    /\ IF O.cex_dispatched THEN HasResult(O.cex) ELSE O.dex.delta = 0
    /\ ~O.inflight

\* The target is fixed here for every attempt.  A direction the DEX fill does
\* not explain halts the parent.
StartRecovery ==
    /\ PrimaryFinished /\ O.recovery = <<>> /\ RecoveryTarget(O) # 0
    /\ IF O.mode = "dex_first" /\ ~DirectionIsValid(O, RecoveryTarget(O))
       THEN /\ Persist(plan, [O EXCEPT !.stage = "halted"])
            /\ GoTo("reconcile_dex")
            /\ KeepTask /\ UNCHANGED <<calls, venues, clock, crashes>>
       ELSE LET o == [O EXCEPT !.stage = "recovering", !.inflight = TRUE,
                               !.target = RecoveryTarget(O)]
            IN Dispatch(o, <<RecoveryCall(o, 1)>>)

RetryRecoveryRecomputes ==
    /\ PrimaryFinished /\ RetryPending(O) /\ ~backoff[plan]
    /\ LET o == [O EXCEPT !.inflight = TRUE, !.target = -Residual(O)]
       IN Dispatch(o, <<RecoveryCall(o, Len(O.recovery) + 1)>>)
RetryRecovery ==
    /\ PrimaryFinished /\ RetryPending(O) /\ ~backoff[plan]
    /\ Dispatch([O EXCEPT !.inflight = TRUE], <<RecoveryCall(O, Len(O.recovery) + 1)>>)

\* Too early for the retry: no command.
AwaitBackoff ==
    /\ PrimaryFinished /\ RetryPending(O) /\ backoff[plan]
    /\ GoTo("backoff")
    /\ KeepTask /\ UNCHANGED <<journal, calls, venues, clock, crashes>>

Finishes == PrimaryFinished /\ ~RetryPending(O) /\ (O.recovery = <<>> => RecoveryTarget(O) = 0)

\* Publish the event of the drive and return to the loop, or to resume_active.
Return(e) ==
    /\ event' = [event EXCEPT ![plan] = e]
    /\ GoTo(IF resumed THEN "next" ELSE "idle")
    /\ plan' = 0 /\ UNCHANGED <<resuming, resumed, calls, stopped>>

Finish ==
    /\ Finishes /\ MayFinalize(O)
    /\ Persist(plan, Finalized(O))
    /\ Return("balanced")
    /\ UNCHANGED <<venues, clock, crashes>>

\* finalize_balanced refuses: drive returns the error.  run publishes
\* execution_failure_event_state; resume_active ends the task.
FinishRefused ==
    /\ Finishes /\ ~MayFinalize(O)
    /\ IF resumed
       THEN GoTo("failed") /\ KeepTask /\ UNCHANGED calls
       ELSE Return("blocked")
    /\ UNCHANGED <<journal, venues, clock, crashes>>

-----------------------------------------------------------------------------
(* Legs: execute_inner, execute_cex_limit and execute_cex_market *)

SetCall(i, f) == calls' = [calls EXCEPT ![i] = f]
Hand(i) == /\ SetCall(i, [calls[i] EXCEPT !.at = "asked"])
           /\ asked' = [asked EXCEPT ![plan][calls[i].child] =
                            @ \cup {<<calls[i].target, calls[i].price>>}]
Answer(i, r) == SetCall(i, [calls[i] EXCEPT !.result = r])
Venue(i) == child[plan][calls[i].child]
Leg(i) == pc \in {"exec", "await_dex", "await_cex"} /\ i \in DOMAIN calls /\ calls[i].result = NoResult
VenueOf(k) == IF k = Dex THEN "dex" ELSE "binance"
KeepLegs == UNCHANGED <<journal, pc, clock, crashes>> /\ KeepTask

\* A swap that may still be sent is refused after its deadline.
StartDex(i) ==
    /\ Leg(i) /\ calls[i].at = "start" /\ calls[i].child = Dex
    /\ IF ~calls[i].recon /\ expired[plan]
       THEN Answer(i, Failed("expired")) /\ UNCHANGED asked
       ELSE Hand(i)
    /\ KeepLegs /\ UNCHANGED child

\* The order is planned anew on every call, against the filters and, for a
\* MARKET order, the current top of book.  An order the filters let through
\* once is refused later only if they, or the price, move.
StartCex(i) ==
    /\ Leg(i) /\ calls[i].at = "start" /\ calls[i].child # Dex
    /\ \/ Submitted(calls[i].target) > 0 /\ Hand(i)
       \/ /\ Venue(i) = Unsent \/ "filters_move" \in Drift
          /\ Answer(i, Failed("filtered")) /\ UNCHANGED asked
    /\ KeepLegs /\ UNCHANGED child

SetChild(p, k, v) == child' = [child EXCEPT ![p][k] = v]
Asked(i) == Leg(i) /\ calls[i].at = "asked" /\ VenueOf(calls[i].child) \notin stopped

\* The child executor journals and sends the order; it never sends one it has
\* journaled, nor a swap it is only asked to reconcile.
Submit(i) ==
    /\ Asked(i) /\ Venue(i) = Unsent /\ ~calls[i].recon
    /\ SetChild(plan, calls[i].child, Live(Sign(calls[i].target)))
    /\ KeepLegs /\ UNCHANGED <<calls, asked>>

\* cap_dex_credit_to_execution_envelope
DexDelta(o, credit) == o.dir * (IF o.dir = 1 THEN AtMost(credit, Quantity) ELSE credit)
DoneResult(k, v) ==
    IF k = Dex THEN Result("filled", DexDelta(O, v.fill), 0, "fill")
    ELSE IF v.fill = 0 THEN Failed("zero_fill")
    ELSE Result("filled", v.fill - v.fee, v.fill, "fill")

AnswersAbsentOnTimeout(i) ==
    LET v == Venue(i) IN
    CASE v.kind = "none" -> {Failed("unsubmitted")}
      [] v.kind = "live" -> {IF pc = "await_cex" THEN Failed("rejected") ELSE UnknownResult}
      [] v.kind = "void" -> {UnknownResult, Failed(IF calls[i].child = Dex THEN "reverted" ELSE "rejected")}
      [] v.kind = "done" -> {UnknownResult, DoneResult(calls[i].child, v)}
\* What the executor may answer, given what the venue did.
Answers(i) ==
    LET v == Venue(i) IN
    CASE v.kind = "none" -> {Failed("unsubmitted")}
      [] v.kind = "live" -> {UnknownResult}
      [] v.kind = "void" -> {UnknownResult, Failed(IF calls[i].child = Dex THEN "reverted" ELSE "rejected")}
      [] v.kind = "done" -> {UnknownResult, DoneResult(calls[i].child, v)}
Reply(i) ==
    /\ Asked(i)
    /\ \E r \in Answers(i) : Answer(i, r)
    /\ KeepLegs /\ UNCHANGED venues

\* The executor's thread is gone: the outcome is unknown, even of an order it
\* never journaled.
ExecutorStopped(i) ==
    /\ Leg(i) /\ calls[i].at = "asked"
    /\ stopped' = stopped \cup {VenueOf(calls[i].child)}
    /\ Answer(i, UnknownResult)
    /\ UNCHANGED <<journal, pc, plan, resuming, resumed, event, venues, clock, crashes>>

Answered == calls # <<>> /\ \A i \in DOMAIN calls : calls[i].result # NoResult

\* record_result, one append per leg in the order of the commands.
Recorded(o, k, r) ==
    CASE k = Dex -> [o EXCEPT !.dex = r]
      [] k = Cex -> [o EXCEPT !.cex = r]
      [] OTHER -> [o EXCEPT !.recovery = Append(@, r), !.inflight = FALSE]
RefreshDeadline(k, o) ==
    backoff' = [backoff EXCEPT ![plan] = IF k \in {Dex, Cex} THEN @ ELSE RetryPending(o)]
RecordResult ==
    LET c == Head(calls)
        o == Recorded(O, c.child, c.result)
    IN /\ pc = "exec" /\ Answered
       /\ Persist(plan, o)
       /\ RefreshDeadline(c.child, o)
       /\ calls' = Tail(calls)
       /\ GoTo(IF Len(calls) > 1 THEN "exec" ELSE IF resumed THEN "resume" ELSE "drive")
       /\ KeepTask /\ UNCHANGED <<venues, expired, crashes>>

-----------------------------------------------------------------------------
(* Reconciliation and backoff, when drive has no command *)

Replay(command, step) ==
    /\ calls' = <<command>> /\ GoTo(step)
    /\ KeepTask /\ UNCHANGED <<journal, venues, clock, crashes>>

\* unknown_dex_reconciliation_command
ReconcileDex ==
    /\ pc = "reconcile_dex"
    /\ O.stage = "unknown_exposure" /\ O.dex.status = "unknown"
    /\ Replay(DexCall(O, TRUE), "await_dex")
SkipDex ==
    /\ pc = "reconcile_dex"
    /\ ~(O.stage = "unknown_exposure" /\ O.dex.status = "unknown")
    /\ GoTo("reconcile_cex")
    /\ KeepTask /\ UNCHANGED <<journal, calls, venues, clock, crashes>>

\* unknown_binance_reconciliation_command
UnknownCex == O.stage = "unknown_exposure" /\ O.cex.status = "unknown"
UnknownRecovery ==
    /\ O.stage = "unknown_exposure" /\ O.recovery # <<>>
    /\ Last(O.recovery).status = "unknown"
ReconcileCex ==
    /\ pc = "reconcile_cex" /\ (UnknownCex \/ UnknownRecovery)
    /\ Replay(IF UnknownCex THEN CexCall(O) ELSE RecoveryCall(O, Len(O.recovery)), "await_cex")

\* Nothing more to ask: the parent is left to a restart or an operator.
Blocked ==
    /\ pc = "reconcile_cex" /\ ~UnknownCex /\ ~UnknownRecovery
    /\ Return("blocked")
    /\ UNCHANGED <<journal, venues, clock, crashes>>

StillUnknown ==
    /\ pc \in {"await_dex", "await_cex"} /\ Answered
    /\ calls[1].result.status = "unknown"
    /\ calls' = <<>>
    /\ IF pc = "await_dex"
       THEN GoTo("reconcile_cex") /\ KeepTask
       ELSE /\ event' = [event EXCEPT ![plan] = "blocked"]
            /\ GoTo(IF resumed THEN "next" ELSE "idle")
            /\ plan' = 0 /\ UNCHANGED <<resuming, resumed, stopped>>
    /\ UNCHANGED <<journal, venues, clock, crashes>>

\* reconcile_unknown
Reopened(o) == IF o.recovery = <<>> THEN "executing" ELSE "recovering"
Reconciled(o, k, r) ==
    CASE k = Dex -> [o EXCEPT !.dex = r, !.stage = Reopened(o)]
      [] k = Cex -> [o EXCEPT !.cex = r, !.stage = Reopened(o)]
      [] OTHER -> [o EXCEPT !.recovery = Append(Front(@), r), !.stage = Reopened(o)]
ReconcileUnknown ==
    LET c == calls[1]
        o == Reconciled(O, c.child, c.result)
    IN /\ pc \in {"await_dex", "await_cex"} /\ Answered
       /\ c.result.status # "unknown"
       /\ c.child = Dex /\ c.result.status = "failed" => ProvesZeroExposure(c.result)
       /\ Persist(plan, o)
       /\ RefreshDeadline(c.child, o)
       /\ calls' = <<>> /\ GoTo("drive")
       /\ KeepTask /\ UNCHANGED <<venues, expired, crashes>>

\* recovery_retry_wait reads the clock again: sleep until the deadline, or,
\* if it has passed since take_commands, fall through and return no event.
SleepBackoff ==
    /\ pc = "backoff" /\ backoff[plan]
    /\ GoTo("sleeping")
    /\ KeepTask /\ UNCHANGED <<journal, calls, venues, clock, crashes>>
WakeUp ==
    /\ pc = "sleeping" /\ ~backoff[plan]
    /\ GoTo("drive")
    /\ KeepTask /\ UNCHANGED <<journal, calls, venues, clock, crashes>>
MissBackoff ==
    /\ pc = "backoff" /\ ~backoff[plan]
    /\ Return(event[plan])
    /\ UNCHANGED <<journal, venues, clock, crashes>>

-----------------------------------------------------------------------------
(* Restart *)

StartSkipsRecovering ==
    /\ pc = "down"
    /\ resuming' = {p \in Plans : op[p].stage \notin {"none", "balanced", "recovering"}}
    /\ unresolved' = [s \in DOMAIN unresolved |->
                          Cardinality({p \in Plans : StrategyOf[p] = s /\ Unresolved(op[p])})]
    /\ GoTo("next")
    /\ UNCHANGED <<op, plan, resumed, calls, stopped, event, venues, clock, crashes>>
Start ==
    /\ pc = "down"
    /\ resuming' = {p \in Plans : op[p].stage \notin {"none", "balanced"}}
    /\ unresolved' = [s \in DOMAIN unresolved |->
                          Cardinality({p \in Plans : StrategyOf[p] = s /\ Unresolved(op[p])})]
    /\ GoTo("next")
    /\ UNCHANGED <<op, plan, resumed, calls, stopped, event, venues, clock, crashes>>

\* resume_active, in plan order.
ResumeNext ==
    /\ pc = "next"
    /\ IF resuming = {}
       THEN GoTo("idle") /\ UNCHANGED <<plan, resuming, resumed>>
       ELSE LET p == CHOOSE q \in resuming : \A r \in resuming : q <= r IN
            /\ plan' = p /\ resuming' = resuming \ {p} /\ resumed' = TRUE
            /\ GoTo("resume")
    /\ UNCHANGED <<journal, calls, stopped, event, venues, clock, crashes>>

\* resume_command: a command whose dispatch is journaled and has no result.
Unfinished ==
    \/ O.dex_dispatched /\ ~HasResult(O.dex)
    \/ O.cex_dispatched /\ ~HasResult(O.cex)
    \/ O.inflight
ResumeCommand ==
    /\ pc = "resume" /\ Unfinished
    /\ Replay(IF ~HasResult(O.dex) THEN DexCall(O, expired[plan])
              ELSE IF O.cex_dispatched /\ ~HasResult(O.cex) THEN CexCall(O)
              ELSE RecoveryCall(O, Len(O.recovery) + 1), "exec")
ResumeDrive ==
    /\ pc = "resume" /\ ~Unfinished
    /\ GoTo("drive")
    /\ KeepTask /\ UNCHANGED <<journal, calls, venues, clock, crashes>>

\* A failed append: drive returns the error, the journal refuses every later
\* append.  During resume_active the task ends.
JournalFails ==
    /\ crashes < MaxCrashes /\ crashes' = crashes + 1
    /\ pc = "drive" \/ (pc \in {"exec", "await_dex", "await_cex"} /\ Answered)
    /\ GoTo(IF resumed THEN "failed" ELSE "poisoned")
    /\ event' = IF resumed THEN event
                ELSE [event EXCEPT ![plan] = IF O.dex_dispatched THEN "blocked" ELSE "rejected"]
    /\ plan' = 0 /\ calls' = <<>>
    /\ UNCHANGED <<journal, resuming, resumed, stopped, venues, clock>>

Crash ==
    /\ crashes < MaxCrashes /\ crashes' = crashes + 1
    /\ pc # "down" /\ GoTo("down")
    /\ plan' = 0 /\ resuming' = {} /\ resumed' = FALSE /\ calls' = <<>>
    /\ stopped' = {}
    /\ event' = [p \in Plans |-> "none"]
    /\ UNCHANGED <<journal, venues, clock>>

-----------------------------------------------------------------------------
(* Venues and time *)

\* A live order comes to its end, whoever still waits for it.
Fills(p, k) ==
    IF k = Dex
    THEN {Child("done", credit, 0) : credit \in IF op[p].dir = 1 THEN DexCredits ELSE {Quantity}}
    ELSE LET side == child[p][k].fill
             target == CHOOSE t \in {a[1] : a \in asked[p][k]} : TRUE
         IN {Child("done", side * lots * LotStep, fee) :
                lots \in 0 .. Submitted(target) \div LotStep,
                fee \in IF side = 1 THEN BuyFees ELSE {0}}
Decide(p, k) ==
    /\ child[p][k].kind = "live"
    /\ \E v \in {Void} \cup {f \in Fills(p, k) : f.fill = 0 => f.fee = 0} : SetChild(p, k, v)
    /\ UNCHANGED <<journal, task, asked, clock, crashes>>

Expire(p) ==
    /\ "plan_expires" \in Drift /\ ~expired[p] /\ op[p].stage # "none"
    /\ expired' = [expired EXCEPT ![p] = TRUE]
    /\ UNCHANGED <<journal, task, venues, backoff, crashes>>

BackoffElapses(p) ==
    /\ backoff[p]
    /\ pc = "backoff" => "backoff_ends_between_reads" \in Drift
    /\ backoff' = [backoff EXCEPT ![p] = FALSE]
    /\ UNCHANGED <<journal, task, venues, expired, crashes>>

-----------------------------------------------------------------------------

TakeCommands ==
    \/ SelectPrice \/ MarkUnknown \/ DispatchEntry \/ DispatchHedge
    \/ StartRecovery \/ RetryRecovery \/ AwaitBackoff \/ Finish \/ FinishRefused
ExecuteLeg ==
    \E i \in 1 .. 2 :
        StartDex(i) \/ StartCex(i) \/ Submit(i) \/ Reply(i) \/ ExecutorStopped(i)
Reconcile ==
    \/ ReconcileDex \/ SkipDex \/ ReconcileCex \/ Blocked
    \/ StillUnknown \/ ReconcileUnknown
Wait == SleepBackoff \/ WakeUp \/ MissBackoff
Resume == Start \/ ResumeNext \/ ResumeCommand \/ ResumeDrive
Step == TakeCommands \/ ExecuteLeg \/ RecordResult \/ Reconcile \/ Wait \/ Resume
Environment ==
    \E p \in Plans : Expire(p) \/ BackoffElapses(p) \/ \E k \in Children : Decide(p, k)

Next ==
    \/ \E p \in Plans : Admit(p)
    \/ Step
    \/ JournalFails \/ Crash
    \/ Environment

Spec == Init /\ [][Next]_vars

\* The task is polled until it waits, each leg ends by its timeouts, the clock
\* advances, and a stopped process is started again.
FairSpec ==
    /\ Spec /\ WF_vars(Step)
    /\ \A p \in Plans : WF_vars(BackoffElapses(p))

-----------------------------------------------------------------------------
(* Properties *)

\* Type invariant of the parents, the task and the venues.
ResultType == [status : Statuses, delta : Int, executed : Int, ref : References]
OpType == [stage : Stages, mode : {"dex_first", "concurrent"}, dir : {-1, 1},
           dex_dispatched : BOOLEAN, cex_dispatched : BOOLEAN, price : Nat,
           dex : ResultType, cex : ResultType, recovery : Seq(ResultType),
           inflight : BOOLEAN, target : Int, residual : Int]
CallType == [child : Children, target : Int, price : Nat, recon : BOOLEAN,
             at : {"start", "asked"}, result : ResultType]
ChildType == [kind : {"none", "live", "void", "done"}, fill : Int, fee : Nat]
Places == {"down", "next", "resume", "idle", "drive", "exec", "reconcile_dex",
           "await_dex", "reconcile_cex", "await_cex", "backoff", "sleeping",
           "poisoned", "failed"}
TypeOK ==
    /\ op \in [Plans -> OpType]
    /\ \A p \in Plans : Len(op[p].recovery) <= MaxRecoveryAttempts
    /\ unresolved \in [{StrategyOf[p] : p \in Plans} -> Nat]
    /\ pc \in Places /\ plan \in Plans \cup {0} /\ resuming \subseteq Plans
    /\ resumed \in BOOLEAN /\ calls \in Seq(CallType)
    /\ child \in [Plans -> [Children -> ChildType]]
    /\ asked \in [Plans -> [Children -> SUBSET (Int \X Nat)]]
    /\ expired \in [Plans -> BOOLEAN] /\ backoff \in [Plans -> BOOLEAN]
    /\ event \in [Plans -> {"none", "balanced", "blocked", "rejected"}]
    /\ stopped \subseteq {"dex", "binance"} /\ crashes \in Nat

\* The token B a child really moved, and the open exposure of a parent.
Moved(p, k) ==
    LET v == child[p][k] IN
    IF v.kind # "done" THEN 0
    ELSE IF k = Dex THEN DexDelta(op[p], v.fill) ELSE v.fill - v.fee
Exposure(p) ==
    Moved(p, Dex) + Moved(p, Cex)
        + Moved(p, Recovery(1)) + Moved(p, Recovery(2)) + Moved(p, Recovery(3))

\* A parent closed as balanced states its true residual: no child of it is
\* still live, and what the venues moved is what the result says, whatever
\* was unknown, replayed or retried on the way.
SettledMatchesVenues ==
    \A p \in Plans : Terminal(op[p]) =>
        /\ op[p].residual = Exposure(p)
        /\ \A k \in Children : child[p][k].kind # "live"

\* A parent never holds more token B, long or short, than it planned, in
\* either mode and whichever leg failed, was unknown or was resumed, unless
\* its swap was written off as expired.
ExposureBounded ==
    \A p \in Plans : op[p].dex.ref # "expired" => Abs(Exposure(p)) <= Quantity

\* "Venue reconciliation may replace an unknown child result only with
\* terminal data or the bounded Binance proof that the order is absent": a
\* result that stops being unknown says what the venue did.
ResultOf(o, k) ==
    IF k = Dex THEN o.dex ELSE IF k = Cex THEN o.cex
    ELSE IF k - 1 \in DOMAIN o.recovery THEN o.recovery[k - 1] ELSE NoResult
UnknownReplacedByProof ==
    [][\A p \in Plans, k \in Children :
          (ResultOf(op[p], k).status = "unknown" /\ ResultOf(op'[p], k).status # "unknown")
          => /\ child[p][k].kind # "live"
             /\ ResultOf(op'[p], k).delta = Moved(p, k)]_vars

\* Every form in which a child was ever handed to its executor is the same:
\* a replay, a reconciliation or a restart never changes quantity or price.
SameCommandEachTime ==
    \A p \in Plans, k \in Children : Cardinality(asked[p][k]) <= 1

\* A strategy has at most one parent that is not terminal.
OneParentPerStrategy ==
    \A p, q \in Plans :
        (/\ p # q /\ StrategyOf[p] = StrategyOf[q]
         /\ op[p].stage # "none" /\ op[q].stage # "none")
        => Terminal(op[p]) \/ Terminal(op[q])

\* The index append maintains is the one a restart would compute.
UnresolvedIndexExact ==
    pc # "down" => \A s \in DOMAIN unresolved :
        unresolved[s] = Cardinality({p \in Plans : StrategyOf[p] = s /\ Unresolved(op[p])})
\* Admissions and restarts count on both: one open parent of a strategy, and
\* an index that knows it.
ParentsAccounted == OneParentPerStrategy /\ UnresolvedIndexExact

\* The journal accepts every snapshot the task appends, so a restart can
\* replay it: no parent regresses, forgets or rewrites what it recorded.
EveryAppendIsAccepted ==
    [][\A p \in Plans : op'[p] # op[p] => SnapshotAllowed(op[p], op'[p])]_vars

\* "An unresolved plan must never close the global execution lane
\* permanently": a parent that blocks every admission stops doing so.
Blocking(p) == op[p].stage \in ActiveStages /\ pc \notin {"poisoned", "failed"}
LaneReopens == \A p \in Plans : Blocking(p) ~> ~Blocking(p)

\* A DEX-first parent keeps the promise of HedgedTrade: after the swap every
\* order, primary or recovery, reduces the exposure without reversing it, and
\* nothing moves once the parent is terminal.
DexFirst(p) == op[p].mode = "dex_first"
HedgePhase(p) ==
    IF ~DexFirst(p) \/ op[p].stage = "none" THEN "none"
    ELSE IF op[p].stage = "balanced" THEN "closed" ELSE "open"
HedgeSwapped(p) == DexFirst(p) /\ child[p][Dex].kind = "done"
HedgeExposure(p) == IF DexFirst(p) THEN Exposure(p) ELSE 0
Hedged ==
    INSTANCE HedgedTrade WITH
        Trades <- Plans,
        Limit <- Quantity,
        phase <- [p \in Plans |-> HedgePhase(p)],
        swapped <- [p \in Plans |-> HedgeSwapped(p)],
        exposure <- [p \in Plans |-> HedgeExposure(p)]
KeepsHedgePromise == Hedged!Spec

-----------------------------------------------------------------------------
(* Values of the constants for TLC: plans of one strategy, both directions. *)
SameStrategy == [p \in Plans |-> "s"]
BothDirections == {-1, 1}
=============================================================================
