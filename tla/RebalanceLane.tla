---------------------------- MODULE RebalanceLane ----------------------------
(***************************************************************************)
(* The single process-wide rebalance lane: each engine's planning state     *)
(* (engine.rs), the round over the engines and the two queues of one in     *)
(* main.rs, and the outcomes of the worker task (RebalanceSaga has its      *)
(* inside).  Balances appear as snapshots that may or may not leave a token *)
(* wanting a transfer; what an allocator or a shared reservation refuses is *)
(* a set of engines that defer.                                             *)
(***************************************************************************)
EXTENDS Naturals, FiniteSets, Sequences, SequencesExt

CONSTANTS Engines,     \* the engines in the order of the round, primary first
          TokensOf,    \* engine -> its rebalanced tokens, in tracker order
          PlanFails    \* whether the instance lets plan_rebalance return an error

EngineSet == ToSet(Engines)
Tokens(e) == ToSet(TokensOf[e])
Ops == UNION {{<<e, t>> : t \in Tokens(e)} : e \in EngineSet}
None == "none"
Sources == {"binance", "wallet"}

VARIABLES
  eng,      \* per engine: its rebalance fields
  inv,      \* per operation slot: the shared inventory reservation
  lane,     \* rebalance_lane_busy, next_rebalance_target and the queue
  worker,   \* what the executor task is doing
  result,   \* the result channel
  quar,     \* per slot: the journal's quarantine, by how it may be recovered
  missing,  \* history: snapshots not yet newer than the slot's last completion
  stalePlan \* history: slots whose last plan saw such a snapshot

laneVars == <<eng, inv, lane, worker, result, quar, missing, stalePlan>>

Free == [st |-> "none", wait |-> {}]
NoBarrier == [on |-> FALSE, wait |-> {}]
Idle == [kind |-> "idle", op |-> <<None, None>>]

----------------------------------------------------------------------------
(* The engine.                                                              *)

(* settled_owned_rebalance_reservations                                     *)
OwnedHeld(e, E, I) == {t \in E.held : I[<<e, t>>].st # "none"}

(* pending_action_excluding: the first token with an action that is not     *)
(* blocked; refresh_pending_rebalance_execution drops it when its           *)
(* reservation still stands.                                                *)
FirstAction(e, E) ==
  LET open == SelectSeq(TokensOf[e], LAMBDA t : t \in E.want \ E.blocked)
  IN  IF open = <<>> THEN None ELSE Head(open)

refresh_pending_rebalance_execution(e, E0, I) ==
  LET E == [E0 EXCEPT !.held = OwnedHeld(e, E0, I)]
      t == FirstAction(e, E)
  IN  IF E.inflight \/ E.barrier.on THEN E
      ELSE [E EXCEPT !.pending = IF t \in E.held THEN None ELSE t]

(* evaluate_rebalance: the barrier falls when both snapshots are newer, and *)
(* only then does the engine plan again.  A planning error (an inventory    *)
(* below its minimum) leaves the plans of before in the tracker.            *)
evaluate_rebalance(e, E0, I, want, ok) ==
  LET E == IF E0.barrier.on /\ E0.barrier.wait = {}
           THEN [E0 EXCEPT !.barrier = NoBarrier] ELSE E0
  IN  IF E.inflight \/ E.barrier.on \/ ~ok THEN E
      ELSE refresh_pending_rebalance_execution(e, [E EXCEPT !.want = want], I)
Replans(E, ok) == ok /\ ~E.inflight /\ (E.barrier.on => E.barrier.wait = {})
PlanOutcomes == IF PlanFails THEN BOOLEAN ELSE {TRUE}

Seen(E, s) == [E EXCEPT !.barrier.wait = @ \ {s}]

----------------------------------------------------------------------------
(* take_rebalance_execution: reserve the source inventory and go in flight. *)
take_rebalance_execution(E, t) ==
  [E EXCEPT !.pending = None, !.inflight = TRUE, !.held = @ \cup {t}]

(* dispatch_rebalance_execution, one engine: nothing pending, refused by a  *)
(* limit, the allocator or the shared reservation (`refused`) or by the     *)
(* full queue, or submitted.  d is what the engines before it left.         *)
dispatch_rebalance_execution(d, e, refused) ==
  LET E == refresh_pending_rebalance_execution(e, d.eng[e], d.inv)
      t == E.pending
  IN  IF t = None \/ refused \/ d.lane.queue # <<>>
      THEN [d EXCEPT !.eng[e] = E]
      ELSE IF t \in E.held
      THEN [d EXCEPT !.eng[e] = [E EXCEPT !.pending = None, !.inflight = FALSE]]
      ELSE [d EXCEPT !.eng[e] = take_rebalance_execution(E, t),
                     !.inv[<<e, t>>] = [st |-> "active", wait |-> {}],
                     !.lane.queue = <<[kind |-> "execute", op |-> <<e, t>>]>>]

(* dispatch_next_rebalance_execution: offer the idle lane to each engine of *)
(* the round until one submits.                                             *)
Round(k) == [i \in 1..Len(Engines) |-> Engines[((k + i - 2) % Len(Engines)) + 1]]
After(e) == ((CHOOSE i \in 1..Len(Engines) : Engines[i] = e) % Len(Engines)) + 1

\* Mutant: the lane is claimed only when the worker takes the command.
ClaimLate(before, d, e) ==
  IF before.lane.queue = d.lane.queue THEN d
  ELSE [d EXCEPT !.lane.next = After(e)]

(* apply_rebalance_dispatch_outcome                                         *)
apply_rebalance_dispatch_outcome(before, d, e) ==
  IF before.lane.queue = d.lane.queue THEN d
  ELSE [d EXCEPT !.lane.busy = TRUE, !.lane.next = After(e)]

Dispatched(d0, defer) ==
  IF d0.lane.busy THEN d0
  ELSE FoldLeft(LAMBDA d, e :
                  IF d.lane.busy THEN d
                  ELSE apply_rebalance_dispatch_outcome(
                         d, dispatch_rebalance_execution(d, e, e \in defer), e),
                [d0 EXCEPT !.eng = [e \in EngineSet |->
                   refresh_pending_rebalance_execution(e, d0.eng[e], d0.inv)]],
                Round(d0.lane.next))

(* The tail of every arm that may free or fill the lane.                    *)
ThenDispatch(E, I, L) ==
  \E defer \in SUBSET EngineSet :
    LET d == Dispatched([eng |-> E, inv |-> I, lane |-> L], defer)
    IN  eng' = d.eng /\ inv' = d.inv /\ lane' = d.lane

SupervisorTick ==
  /\ ThenDispatch(eng, inv, lane)
  /\ UNCHANGED <<worker, result, quar, missing, stalePlan>>

(* dispatch_across_reconciliation, on its own tick.                         *)
AcrossTick ==
  /\ ~lane.busy /\ lane.queue = <<>>
  /\ lane' = [lane EXCEPT !.busy = TRUE,
                          !.queue = <<[kind |-> "across", op |-> <<None, None>>]>>]
  /\ UNCHANGED <<eng, inv, worker, result, quar, missing, stalePlan>>

----------------------------------------------------------------------------
(* Balance snapshots.  A reservation that is settling is released once both *)
(* locations have newer snapshots.                                          *)
Settle(I, S, s) ==
  [o \in Ops |->
     IF o \in S /\ I[o].st = "settling"
     THEN IF I[o].wait \ {s} = {} THEN Free ELSE [I[o] EXCEPT !.wait = @ \ {s}]
     ELSE I[o]]
OpsOf(e) == {o \in Ops : o[1] = e}

Observed(E, planner, S, s, ok) ==
  LET left == [o \in Ops |-> IF o \in S THEN missing[o] \ {s} ELSE missing[o]]
  IN  /\ missing' = left
      /\ stalePlan' = IF Replans(Seen(E, s), ok)
                      THEN {o \in stalePlan : o[1] = planner => left[o] # {}}
                      ELSE stalePlan

(* BalanceEvent::Binance: inventory, the primary engine's evaluation, then  *)
(* the shared snapshot to the others, which plan with their next wallet     *)
(* snapshot.  A failed read plans again from the same snapshots, which      *)
(* changes nothing and is not an action.                                    *)
BinanceSnapshot ==
  \E ok \in PlanOutcomes :
    LET p == Engines[1]
        I == Settle(inv, Ops, "binance")
    IN  /\ \E want \in SUBSET Tokens(p) :
             ThenDispatch([e \in EngineSet |->
               IF e = p THEN evaluate_rebalance(e, Seen(eng[e], "binance"), I, want, ok)
               ELSE Seen(eng[e], "binance")], I, lane)
        /\ Observed(eng[p], p, Ops, "binance", ok)
        /\ UNCHANGED <<worker, result, quar>>

WalletSnapshot(e) ==
  \E ok \in PlanOutcomes :
    LET I == Settle(inv, OpsOf(e), "wallet")
    IN  /\ \E want \in SUBSET Tokens(e) :
             ThenDispatch([eng EXCEPT ![e] =
               evaluate_rebalance(e, Seen(@, "wallet"), I, want, ok)], I, lane)
        /\ Observed(eng[e], e, OpsOf(e), "wallet", ok)
        /\ UNCHANGED <<worker, result, quar>>

----------------------------------------------------------------------------
(* The worker task.                                                         *)
TakeCommand ==
  /\ worker = Idle /\ lane.queue # <<>>
  /\ worker' = Head(lane.queue)
  /\ lane' = [lane EXCEPT !.queue = <<>>]
  /\ UNCHANGED <<eng, inv, result, quar, missing, stalePlan>>

Publish(r) == result = <<>> /\ result' = <<r>>
Completes(o) == /\ missing' = [missing EXCEPT ![o] = Sources]
                /\ stalePlan' = stalePlan \cup {o}
Report(kind, o, how, started, next) ==
  [kind |-> kind, op |-> o, how |-> how, started |-> started, next |-> next]

(* The journal's quarantines after a process call on o.                     *)
QuarantineAfter(o, how, kind) ==
  [quar EXCEPT ![o] = IF how = "quarantined" THEN kind ELSE "none"]

(* What the history remembers of it.                                        *)
Remember(o, how) ==
  IF how = "completed" THEN Completes(o) ELSE UNCHANGED <<missing, stalePlan>>

ExecuteEnds ==
  /\ worker.kind = "execute"
  /\ \E how \in {"completed", "cancelled", "failed", "quarantined"},
        kind \in {"credit", "reopen"} :
       /\ quar' = QuarantineAfter(worker.op, how, kind)
       /\ Remember(worker.op, how)
       /\ Publish(Report("execution", worker.op, how, FALSE, <<None, None>>))
  /\ worker' = Idle
  /\ UNCHANGED <<eng, inv, lane>>

(* Recovery at start-up, which goes on with the next quarantine it reopens. *)
RecoveryEnds ==
  /\ worker.kind = "recover"
  /\ \E how \in {"completed", "cancelled", "failed", "quarantined"},
        kind \in {"credit", "reopen"} :
       LET o == worker.op
           others == {x \in Ops : x # o /\ quar[x] = "retry"}
       IN  \/ /\ others = {}
              /\ quar' = QuarantineAfter(o, how, kind)
              /\ Publish(Report("recovery", o, how, FALSE, <<None, None>>))
              /\ worker' = Idle
           \/ \E x \in others :
                /\ quar' = [QuarantineAfter(o, how, kind) EXCEPT ![x] = "none"]
                /\ Publish(Report("recovery", o, how, FALSE, x))
                /\ worker' = [kind |-> "recover", op |-> x]
  /\ UNCHANGED <<eng, inv, lane, missing, stalePlan>>

(* ReconcileAcross: a credited deposit is completed in place; otherwise a   *)
(* deposit whose nonce was consumed, or then one whose fill was found, is   *)
(* reopened and processed; or nothing can be done yet.                      *)
CreditEnds ==
  \E o \in Ops :
    /\ quar[o] = "credit" /\ quar' = [quar EXCEPT ![o] = "none"]
    /\ Publish(Report("recovery", o, "completed", FALSE, <<None, None>>))
    /\ UNCHANGED <<missing, stalePlan>>

ReopenedEnds(kind) ==
  \E o \in Ops, how \in {"completed", "quarantined"} :
    /\ quar[o] = kind /\ quar' = QuarantineAfter(o, how, kind)
    /\ Publish(Report("recovery", o, how, TRUE, <<None, None>>))
    /\ Remember(o, how)

NothingYet ==
  /\ Publish(Report("idle", <<None, None>>, "idle", FALSE, <<None, None>>))
  /\ UNCHANGED <<quar, missing, stalePlan>>

AcrossEnds ==
  /\ worker.kind = "across"
  /\ (CreditEnds \/ ReopenedEnds("reopen") \/ NothingYet)
  /\ worker' = Idle
  /\ UNCHANGED <<eng, inv, lane>>

----------------------------------------------------------------------------
(* The result arm of the main loop.                                         *)
on_rebalance_recovery_started(E, o) ==
  IF o[1] = None THEN E
  ELSE [E EXCEPT ![o[1]].blocked = @ \ {o[2]}, ![o[1]].pending = None,
                 ![o[1]].inflight = TRUE]

Barrier == [on |-> TRUE, wait |-> Sources]

\* Mutant: a completed execution leaves no barrier.
NoBarrierAfter(E, r) ==
  [E EXCEPT !.inflight = FALSE,
            !.blocked = IF r.how = "quarantined" THEN @ \cup {r.op[2]} ELSE @]

on_rebalance_execution_result(E, r) ==
  [E EXCEPT !.inflight = FALSE,
            !.blocked = IF r.how = "quarantined" THEN @ \cup {r.op[2]} ELSE @,
            !.barrier = IF r.how \in {"completed", "cancelled"} THEN Barrier ELSE @]

on_rebalance_recovery_result(E, r) ==
  [E EXCEPT !.inflight = FALSE,
            !.blocked = IF r.how = "quarantined" THEN @ \cup {r.op[2]}
                        ELSE IF r.how = "failed" THEN @ ELSE @ \ {r.op[2]},
            !.barrier = IF r.how = "completed" THEN Barrier ELSE @]

ResultArm ==
  /\ result # <<>>
  /\ LET r == Head(result)
         e == r.op[1]
         begun == IF r.started THEN on_rebalance_recovery_started(eng, r.op) ELSE eng
         ended == CASE r.kind = "execution" ->
                         [begun EXCEPT ![e] = on_rebalance_execution_result(@, r)]
                    [] r.kind = "recovery" ->
                         [begun EXCEPT ![e] = on_rebalance_recovery_result(@, r)]
                    [] OTHER -> begun
         next == on_rebalance_recovery_started(ended, r.next)
         I == IF r.kind = "execution" /\ r.how \in {"completed", "cancelled"}
              THEN [inv EXCEPT ![r.op] = [st |-> "settling", wait |-> Sources]]
              ELSE inv
     IN  ThenDispatch(next, I, [lane EXCEPT !.busy = r.next[1] # None])
  /\ result' = <<>>
  /\ UNCHANGED <<worker, quar, missing, stalePlan>>

(* The start of the main loop: the journal may hold an operation to recover *)
(* and quarantines this process may reopen after it, and every engine has   *)
(* planned from its first snapshots.                                        *)
Init ==
  \E recovering \in Ops \cup {<<None, None>>}, retry \in SUBSET Ops,
     want \in {w \in [EngineSet -> SUBSET UNION {Tokens(e) : e \in EngineSet}] :
                \A e \in EngineSet : w[e] \subseteq Tokens(e)} :
    /\ recovering \notin retry
    /\ recovering[1] = None => retry = {}
    /\ eng = [e \in EngineSet |->
         evaluate_rebalance(e,
           [want |-> {}, pending |-> None, inflight |-> recovering[1] = e,
            blocked |-> {t \in Tokens(e) : <<e, t>> \in retry},
            barrier |-> NoBarrier, held |-> {}],
           [o \in Ops |-> Free], want[e], TRUE)]
    /\ inv = [o \in Ops |-> Free]
    /\ lane = [busy |-> recovering[1] # None,
               next |-> IF recovering[1] = None THEN 1 ELSE After(recovering[1]), queue |-> <<>>]
    /\ worker = IF recovering[1] = None THEN Idle
                ELSE [kind |-> "recover", op |-> recovering]
    /\ result = <<>>
    /\ quar = [o \in Ops |-> IF o \in retry THEN "retry" ELSE "none"]
    /\ missing = [o \in Ops |-> {}] /\ stalePlan = {}

Next ==
  \/ SupervisorTick \/ AcrossTick \/ BinanceSnapshot
  \/ \E e \in EngineSet : WalletSnapshot(e)
  \/ TakeCommand \/ ExecuteEnds \/ RecoveryEnds \/ AcrossEnds \/ ResultArm

Spec == Init /\ [][Next]_laneVars

----------------------------------------------------------------------------
(* lane_busy is exactly the worker's occupation: a command queued, running  *)
(* or reported and not yet handled.  So the queue of one is never full when *)
(* the lane is idle, where dispatch_across_reconciliation would bail, and   *)
(* no second operation is ever handed over.                                 *)
LaneMatchesWorker ==
  lane.busy <=> (lane.queue # <<>> \/ worker # Idle \/ result # <<>>)

(* A command is never submitted from a plan that saw a balance of before    *)
(* the same token's last transfer, when the lane or a reopened quarantine   *)
(* completed that transfer: evaluate_rebalance's barrier and the standing   *)
(* reservation keep a stale snapshot from repeating it.  Two kinds of       *)
(* completion are not covered by the barrier and not remembered: a          *)
(* post-credit settlement, whose barrier a plan already pending ignores,    *)
(* and a start-up recovery that another of the same engine follows, under   *)
(* which the barrier may fall while the engine is in flight.                *)
SubmitsFreshPlan ==
  \A o \in Ops :
    (lane'.queue # lane.queue /\ lane'.queue # <<>>
       /\ Head(lane'.queue).kind = "execute" /\ Head(lane'.queue).op = o)
    => o \notin stalePlan'
NoRepeatFromStalePlan == [][SubmitsFreshPlan]_laneVars
=============================================================================
