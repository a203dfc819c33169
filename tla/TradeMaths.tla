------------------------------ MODULE TradeMaths ------------------------------
(***************************************************************************)
(* The arithmetic of one pair (opportunity.rs, engine.rs): the curves       *)
(* prepared for a pool, the evaluation of a quantity of token B in both     *)
(* directions, and the search for the largest quantity.  Amounts are base   *)
(* units; a price is an integer mantissa with PriceScale decimals; token A  *)
(* is token0 of the pool.  Errors that stop the process are Error.          *)
(***************************************************************************)
EXTENDS ClmmPool

CONSTANTS baseline_token_a, prepared_token_a_limit, token_b_step, max_trade_notional,
          opportunity_threshold_bps, min_slippage_bps, max_slippage_bps,
          slippage_profit_share_bps, PriceScale, MAX_ADAPTIVE_EXACT_EVALUATIONS

BPS == 10000
DexBuy == "BuyTokenBOnDexSellOnCex"
CexBuy == "BuyTokenBOnCexSellOnDex"
Directions == {DexBuy, CexBuy}
Unavailable == [error |-> FALSE, ok |-> FALSE]
Error == [error |-> TRUE, ok |-> FALSE]

token_a_to_token_b_floor(a, price) == (a * PriceScale) \div price
token_b_to_token_a(b, price, up) == Div(b * price, PriceScale, up)
round_down_to_step(amount) == (amount \div token_b_step) * token_b_step
subtract_bps_floor(amount, bps) == (amount * (BPS - bps)) \div BPS
(* Mutant: the threshold is met by the cost alone. *)
NotLosing(proceeds, cost) == proceeds >= cost
meets_threshold(proceeds, cost) == proceeds * BPS >= cost * (BPS + opportunity_threshold_bps)
signed_profit_bps_x100(proceeds, cost) ==
  IF proceeds >= cost THEN ((proceeds - cost) * 100 * BPS) \div cost
  ELSE -(((cost - proceeds) * 100 * BPS) \div cost)
slippage_bps(profit) ==
  Min({Max({(profit * slippage_profit_share_bps) \div BPS, min_slippage_bps}), max_slippage_bps})
cex_token_a_amount(top, direction, b) ==
  IF direction = DexBuy THEN token_b_to_token_a(b, top.bid, FALSE)
  ELSE token_b_to_token_a(b, top.ask, TRUE)

----------------------------------------------------------------------------
(* prepare_pool_quotes_from_pool.                                           *)
(* Mutant: the exact-output curve is bounded like the exact-input one. *)
OutputBoundIsInput(tokenA) == prepared_token_a_limit
OutputBound(tokenA) == ResultEnd(tokenA.segments)
prepare_pool_quotes(pool) ==
  LET Prepared(tokenA, input) ==
        IF ResultEnd(tokenA.segments) = 0 \/ SpecifiedEnd(input.segments) = 0 THEN Unavailable
        ELSE LET output == Curve(pool, TRUE, FALSE, OutputBound(tokenA)) IN
             [error |-> FALSE, ok |-> TRUE, tokenA |-> tokenA,
              by_direction |-> [d \in Directions |-> IF d = DexBuy THEN output ELSE input]]
  IN  Prepared(Curve(pool, TRUE, TRUE, prepared_token_a_limit),
               FusedCurve(pool, FALSE, prepared_token_a_limit))

evaluate_trade_with_dex_quote(direction, b, cex, dex) ==
  LET cost == IF direction = DexBuy THEN dex ELSE cex
      proceeds == IF direction = DexBuy THEN cex ELSE dex
      profit == signed_profit_bps_x100(proceeds, cost)
      slippage == slippage_bps(Max({profit, 0}) \div 100)
  IN  [error |-> FALSE, ok |-> TRUE, direction |-> direction, b |-> b,
       cost |-> cost, proceeds |-> proceeds, profit |-> profit, slippage |-> slippage,
       dex_in |-> IF direction = DexBuy THEN dex ELSE b,
       min_out |-> IF direction = DexBuy THEN b ELSE subtract_bps_floor(dex, slippage),
       meets |-> meets_threshold(proceeds, cost)]
apply_dex_execution_bounds(quotes, trade) ==
  LET expected == quote(quotes.tokenA, trade.dex_in)
      bounded == IF trade.direction = DexBuy
                 THEN [trade EXCEPT !.min_out = subtract_bps_floor(expected, trade.slippage)]
                 ELSE trade
  IN  IF \/ trade.direction = DexBuy /\ expected = Insufficient
         \/ bounded.dex_in = 0 \/ bounded.min_out = 0
         \/ trade.direction = DexBuy /\ trade.dex_in > prepared_token_a_limit
      THEN Error ELSE bounded
evaluate_trade(quotes, top, direction, b) ==
  LET Evaluated(dex, cex) ==
        IF dex = Insufficient THEN Unavailable
        ELSE IF (IF direction = DexBuy THEN dex ELSE cex) = 0 THEN Error
        ELSE apply_dex_execution_bounds(quotes,
               evaluate_trade_with_dex_quote(direction, b, cex, dex))
  IN  IF ~quotes.ok THEN Unavailable
      ELSE Evaluated(quote(quotes.by_direction[direction], b), cex_token_a_amount(top, direction, b))
baseline_token_b_amount(top) ==
  round_down_to_step(token_a_to_token_b_floor(baseline_token_a, top.ask))

----------------------------------------------------------------------------
(* The adaptive search over whole steps of one pool.                        *)
adaptive_trade_notional(trade) ==
  Max({IF trade.direction = DexBuy THEN trade.dex_in ELSE trade.cost, trade.proceeds})
Probe(quotes, top, direction, steps) == evaluate_trade(quotes, top, direction, steps * token_b_step)
Feasible(trade) == trade.ok /\ trade.meets /\ adaptive_trade_notional(trade) <= max_trade_notional

RECURSIVE Doubled(_, _, _, _, _)
Doubled(quotes, top, direction, low, n) ==
  IF n < MAX_ADAPTIVE_EXACT_EVALUATIONS /\ Feasible(Probe(quotes, top, direction, 2 * low))
  THEN Doubled(quotes, top, direction, 2 * low, n + 1)
  ELSE [low |-> low, n |-> n + 1]
(* Mutant: the bisection stops one step early. *)
EarlyWidth == 2
Width == 1
RECURSIVE Bisected(_, _, _, _, _, _)
Bisected(quotes, top, direction, low, high, n) ==
  IF high - low <= Width THEN [low |-> low, n |-> n]
  ELSE LET mid == low + (high - low) \div 2
           Halved(feasible) == Bisected(quotes, top, direction, IF feasible THEN mid ELSE low,
                                        IF feasible THEN high ELSE mid, n + 1)
       IN  Halved(/\ n < MAX_ADAPTIVE_EXACT_EVALUATIONS
                  /\ Feasible(Probe(quotes, top, direction, mid)))
(* The winning number of steps, 0 if there is none, and the probes made.    *)
search_adaptive_pool(quotes, top, direction, baseline) ==
  LET first == baseline \div token_b_step IN
  IF first = 0 \/ ~Feasible(Probe(quotes, top, direction, first)) THEN [steps |-> 0, n |-> 1]
  ELSE LET Winner(found) == [steps |-> found.low, n |-> found.n]
           From(up) == Bisected(quotes, top, direction, up.low, 2 * up.low, up.n)
       IN  Winner(From(Doubled(quotes, top, direction, first, 1)))
=============================================================================
