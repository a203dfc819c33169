--------------------------- MODULE CapitalPlanning ---------------------------
(***************************************************************************)
(* How much capital a rebalance moves, and whether it may: the planner      *)
(* (rebalance/planner.rs), the tracker that holds its plans                 *)
(* (rebalance/tracker.rs), the capital policy and allocator (portfolio.rs)  *)
(* and the dispatch that joins them (main.rs), for one token of a secondary *)
(* engine, while trades move the same token between the venues.             *)
(*                                                                          *)
(* Amounts are base units.  The journaled transfer is RebalanceSaga's and   *)
(* the lane RebalanceLane's; here a transfer is dispatched and completes.   *)
(***************************************************************************)
EXTENDS Naturals, Sequences, FiniteSets

CONSTANTS
  Total,        \* the token's inventory at start-up, over both venues
  StartBps,     \* start_threshold_bps
  Capital,      \* Binance's switches for all deposits and withdrawals of the token
  Networks,     \* its networks as Binance lists them, with the kind of route
  RuntimeCap,   \* RebalanceRuntimeLimits of the token
  DebitCap, FeeCap,  \* the compiled capital policy of the token
  TradeSizes, MaxTrades   \* sizes a trade may take, and how many there are

Venues == {"binance", "wallet"}
Other(v) == IF v = "binance" THEN "wallet" ELSE "binance"
Source(dir) == IF dir = "b2w" THEN "binance" ELSE "wallet"
NoAction == [dir |-> "none", amount |-> 0, route |-> "none"]

(* RouteCandidate: kind, enabled flags and the withdrawal rules.            *)
supports(c, dir) ==
  /\ IF dir = "w2b" THEN c.deposit ELSE c.withdraw
  /\ c.kind = "across" => IF dir = "w2b" THEN c.toBridge ELSE c.toWallet

(* route_candidates_from_capital: the direct network first, then Across.    *)
route_candidate(network) ==
  [kind |-> network.kind, deposit |-> Capital.depositAll /\ network.deposit,
   withdraw |-> Capital.withdrawAll /\ network.withdraw,
   toBridge |-> network.kind = "across", toWallet |-> network.kind = "across",
   minimum |-> network.minimum, maximum |-> network.maximum,
   multiple |-> network.multiple]
Routes == [i \in DOMAIN Networks |-> route_candidate(Networks[i])]

(* select_route takes the head; an empty sequence is its error.             *)
select_route(dir) == SelectSeq(Routes, LAMBDA c : supports(c, dir))

Smaller(a, b) == IF a < b THEN a ELSE b
Larger(a, b) == IF a > b THEN a ELSE b
Less(a, b) == IF a > b THEN a - b ELSE 0      \* checked_sub or zero

constrain_withdrawal(requested, c) ==
  LET bounded == Smaller(Larger(requested, c.minimum), c.maximum)
      rounded == bounded - (bounded % c.multiple)
  IN  IF requested = 0 \/ rounded < c.minimum THEN 0 ELSE rounded

----------------------------------------------------------------------------
(* The planner.  The set holds its plan, and is empty for an error.         *)
start_balance(reference) == (reference * StartBps) \div 10000

plan_binance_refill(p, start, target) ==
  LET amount == Smaller(Less(target, p.binance), Less(p.wallet, start))
      usable == select_route("w2b")
  IN  IF amount = 0 THEN {NoAction}
      ELSE IF usable = <<>> THEN {}
      ELSE {[dir |-> "w2b", amount |-> amount, route |-> Head(usable).kind]}

\* Mutant: the withdrawal's minimum may exceed what Binance can spare.
RefillBeyondSurplus(p, start, target) ==
  LET surplus == Less(p.binance, start)
      requested == Smaller(Less(target, p.wallet), surplus)
      usable == select_route("b2w")
      amount == constrain_withdrawal(requested, Head(usable))
  IN  IF requested = 0 THEN {NoAction}
      ELSE IF usable = <<>> THEN {}
      ELSE IF amount = 0 THEN {NoAction}
      ELSE {[dir |-> "b2w", amount |-> amount, route |-> Head(usable).kind]}

plan_wallet_refill(p, start, target) ==
  LET surplus == Less(p.binance, start)
      requested == Smaller(Less(target, p.wallet), surplus)
      usable == select_route("b2w")
      amount == constrain_withdrawal(requested, Head(usable))
  IN  IF requested = 0 THEN {NoAction}
      ELSE IF usable = <<>> THEN {}
      ELSE IF amount = 0 \/ amount > surplus THEN {NoAction}
      ELSE {[dir |-> "b2w", amount |-> amount, route |-> Head(usable).kind]}

plan_rebalance(reference, p) ==
  LET start == start_balance(reference)
      total == p.binance + p.wallet
      half == total \div 2
  IN  IF start = 0 \/ total < 2 * start THEN {}
      ELSE IF p.binance < start THEN plan_binance_refill(p, start, half)
      ELSE IF p.wallet < start THEN plan_wallet_refill(p, start, total - half)
      ELSE {NoAction}

----------------------------------------------------------------------------
VARIABLES
  bal,      \* what each venue really holds
  seen,     \* the last snapshots: the engine's, and inventory's observed
  ref,      \* the reference captured by the first evaluation
  plan,     \* last_plan's action
  trade,    \* the trade in flight and its reservation
  op,       \* the rebalance in flight and its reservation
  barrier,  \* the settlement barrier, and the snapshots it still waits for
  trades,   \* how many trades there were
  quiet,    \* history: no trade since the plan's snapshots
  last,     \* history: direction of the last completed transfer, if quiet
  stopped   \* dispatch returned an error the main loop does not catch

capVars == <<bal, seen, ref, plan, trade, op, barrier, trades, quiet, last, stopped>>

NoBarrier == [on |-> FALSE, wait |-> {}]
NoHold == [at |-> "none", amount |-> 0, st |-> "none", wait |-> {}]
Held(v) == (IF trade.at = v THEN trade.amount ELSE 0)
           + (IF op.at = v THEN op.amount ELSE 0)
available(v) == Less(seen[v], Held(v))

(* The first snapshots are planned from before the loop starts.             *)
Init ==
  /\ \E b \in 0..Total : bal = [binance |-> b, wallet |-> Total - b]
  /\ seen = bal /\ ref = Total
  /\ plan \in (IF plan_rebalance(Total, bal) = {} THEN {NoAction}
              ELSE plan_rebalance(Total, bal))
  /\ trade = NoHold /\ op = NoHold /\ barrier = NoBarrier /\ trades = 0
  /\ quiet = TRUE /\ last = "none" /\ stopped = FALSE

(* A reservation that is settling goes when both venues were seen again.    *)
Settled(h, v) ==
  IF h.st # "settling" THEN h
  ELSE IF h.wait \ {v} = {} THEN NoHold ELSE [h EXCEPT !.wait = @ \ {v}]

(* evaluate_rebalance: a barrier both venues have passed falls, and the     *)
(* engine plans.  The reference was captured once; an error keeps the plan  *)
(* of before.                                                               *)
evaluate(s) ==
  LET waits == barrier.wait \ {"wallet"}
      result == plan_rebalance(ref, s)
  IN  /\ barrier' = IF waits = {} THEN NoBarrier ELSE [barrier EXCEPT !.wait = waits]
      /\ IF op.st = "active" \/ waits # {} \/ result = {} THEN UNCHANGED <<plan, quiet>>
         ELSE /\ plan' \in result
              /\ quiet' = (s = bal /\ trade.st # "active")

(* on_shared_binance_balance_event: inventory and the snapshot, no plan.    *)
BinanceSnapshot ==
  /\ ~stopped
  /\ seen' = [seen EXCEPT !.binance = bal.binance]
  /\ barrier' = [barrier EXCEPT !.wait = @ \ {"binance"}]
  /\ trade' = Settled(trade, "binance") /\ op' = Settled(op, "binance")
  /\ UNCHANGED <<bal, ref, plan, trades, quiet, last, stopped>>

WalletSnapshot ==
  /\ ~stopped
  /\ seen' = [seen EXCEPT !.wallet = bal.wallet]
  /\ trade' = Settled(trade, "wallet") /\ op' = Settled(op, "wallet")
  /\ evaluate(seen')
  /\ UNCHANGED <<bal, ref, trades, last, stopped>>

----------------------------------------------------------------------------
(* dispatch_rebalance_execution: the caps, the authority, the allocator,    *)
(* then the reservation.                                                    *)
remaining_rebalance_authority(dir) ==
  IF DebitCap = 0 \/ (dir = "b2w" /\ FeeCap = 0) THEN 0 ELSE DebitCap

AuthorizedFee(dir, amount) == IF dir = "w2b" THEN 0 ELSE Smaller(FeeCap, amount - 1)

(* audit_snapshot: reservations beyond what is observed are transient.      *)
audit_snapshot == \A v \in Venues : Held(v) <= seen[v]

(* The live policy on one intent, and once more on the whole request.       *)
validate_live_proposal(amount, fee) == amount <= DebitCap /\ fee <= FeeCap
authorize_rebalance_request(dir, amount, fee) ==
  /\ remaining_rebalance_authority(dir) > 0
  /\ validate_live_proposal(amount, fee)

(* plan_snapshot's verdict on one intent of this amount.                    *)
plan_snapshot(dir, amount, fee) ==
  IF ~audit_snapshot THEN "transient"
  ELSE IF ~validate_live_proposal(amount, fee) THEN "refused"
  ELSE IF amount > available(Source(dir)) THEN "overspend" ELSE "ok"

Dispatch ==
  /\ ~stopped /\ op = NoHold /\ ~barrier.on /\ plan # NoAction
  /\ remaining_rebalance_authority(plan.dir) > 0
  /\ LET amount == Smaller(Smaller(plan.amount, RuntimeCap), DebitCap)
         src == Source(plan.dir)
         fee == AuthorizedFee(plan.dir, amount)
         verdict == IF plan.dir = "b2w" /\ fee = 0
                    THEN "refused" ELSE plan_snapshot(plan.dir, amount, fee)
     IN  /\ verdict # "transient"
         /\ IF verdict = "ok"
            THEN /\ op' = [at |-> src, amount |-> amount, st |-> "active", wait |-> {}]
                 /\ UNCHANGED stopped
            ELSE stopped' = TRUE /\ UNCHANGED op
  /\ UNCHANGED <<bal, seen, ref, plan, trade, barrier, trades, quiet, last>>

(* The executor authorises the request again and the saga completes: the    *)
(* venue keeps at most the authorised fee.                                  *)
Complete ==
  /\ op.st = "active" /\ op.amount <= bal[op.at]
  /\ LET dir == IF op.at = "binance" THEN "b2w" ELSE "w2b"
     IN  authorize_rebalance_request(dir, op.amount, AuthorizedFee(dir, op.amount))
  /\ \E fee \in 0..(IF op.at = "binance" THEN AuthorizedFee("b2w", op.amount) ELSE 0) :
       bal' = [bal EXCEPT ![op.at] = @ - op.amount,
                          ![Other(op.at)] = @ + (op.amount - fee)]
  /\ op' = [op EXCEPT !.st = "settling", !.wait = Venues]
  /\ barrier' = [on |-> TRUE, wait |-> Venues]
  /\ last' = IF quiet THEN (IF op.at = "binance" THEN "b2w" ELSE "w2b") ELSE "none"
  /\ UNCHANGED <<seen, ref, plan, trade, trades, quiet, stopped>>

(* The saga gives up before it moved anything: its reservation stays.       *)
Fail ==
  /\ op.st = "active" /\ op' = [op EXCEPT !.st = "kept"]
  /\ UNCHANGED <<bal, seen, ref, plan, trade, barrier, trades, quiet, last, stopped>>

(* A trade sells the token on one venue and buys it on the other: external  *)
(* to planning, admitted by the same shared inventory.                      *)
StartTrade ==
  /\ ~stopped /\ trades < MaxTrades /\ trade = NoHold
  /\ \E v \in Venues, n \in TradeSizes :
       /\ Held(v) + n <= seen[v] /\ n <= bal[v]
       /\ trade' = [at |-> v, amount |-> n, st |-> "active", wait |-> {}]
  /\ trades' = trades + 1 /\ quiet' = FALSE /\ last' = "none"
  /\ UNCHANGED <<bal, seen, ref, plan, op, barrier, stopped>>

EndTrade ==
  /\ trade.st = "active"
  /\ bal' = [bal EXCEPT ![trade.at] = @ - trade.amount,
                        ![Other(trade.at)] = @ + trade.amount]
  /\ trade' = [trade EXCEPT !.st = "settling", !.wait = Venues]
  /\ quiet' = FALSE /\ last' = "none"
  /\ UNCHANGED <<seen, ref, plan, op, barrier, trades, stopped>>

Next == BinanceSnapshot \/ WalletSnapshot \/ Dispatch \/ Complete \/ Fail
        \/ StartTrade \/ EndTrade

Spec == Init /\ [][Next]_capVars

----------------------------------------------------------------------------
(* A transfer made from a plan no trade has overtaken leaves its source at  *)
(* or above the start balance, whatever the withdrawal limits, the caps and *)
(* the fee make of it, and until a trade moves the token no plan takes it   *)
(* back (plan_wallet_refill, plan_binance_refill and their half-way         *)
(* targets).                                                                *)
TransferNotUndone ==
  last # "none" => /\ bal[Source(last)] >= start_balance(ref)
                   /\ plan # NoAction => plan.dir = last

(* docs/rebalancing.md: a rebalance failure serializes only subsequent      *)
(* rebalances.  dispatch_rebalance_execution's errors end the process.      *)
TradingGoesOn == ~stopped
=============================================================================
