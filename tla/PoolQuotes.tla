------------------------------ MODULE PoolQuotes ------------------------------
(***************************************************************************)
(* One mirrored pool under the events of its chain, and the quotes and      *)
(* decisions taken from it.  `positions` is the chain's: the liquidity of   *)
(* every range.  The chain's swaps leave a price, its tick and the          *)
(* liquidity in range; a price on a tick belongs to the tick, or to the one *)
(* below when the swap came down to it.                                     *)
(***************************************************************************)
EXTENDS TradeMaths

CONSTANTS MaxPositions,   \* bound: ranges with liquidity
          Liquidity,      \* liquidity a mint may add
          SwapPrices, FeeSets, Tops,
          Amounts         \* amounts quoted besides the ends of segments

VARIABLES pool, positions, top
quoteVars == <<pool, positions, top>>

Ranges == {r \in Tick \X Tick : r[1] < r[2]}
Covers(r, tick) == r[1] <= tick /\ tick < r[2]
Total(rs) == SumFunctionOnSet(positions, rs)
ActiveAt(tick) == Total({r \in Ranges : Covers(r, tick)})
TickOf(price) == Max({t \in Tick : Ratio[t] <= price})
Full == <<MIN_TICK, MAX_TICK>>

Hydrated(l, fees) ==
  [price |-> Ratio[0], tick |-> 0, liquidity |-> l, fee |-> fees,
   ticks |-> (MIN_TICK :> [gross |-> l, net |-> l]) @@ (MAX_TICK :> [gross |-> l, net |-> -l])]
QuoteInit ==
  \E l \in Liquidity, fees \in FeeSets, t \in Tops :
    /\ positions = [r \in Ranges |-> IF r = Full THEN l ELSE 0]
    /\ pool = Hydrated(l, fees)
    /\ top = t

MintOrBurn(r, delta) ==
  /\ positions' = [positions EXCEPT ![r] = @ + delta]
  /\ pool' = apply_liquidity_delta(pool, r[1], r[2], delta)
  /\ UNCHANGED top
Mint ==
  \E r \in Ranges, l \in Liquidity :
    /\ positions[r] = 0
    /\ Cardinality({s \in Ranges : positions[s] > 0}) < MaxPositions
    /\ MintOrBurn(r, l)
Burn == \E r \in Ranges : positions[r] > 0 /\ MintOrBurn(r, -positions[r])

(* A swap with no liquidity in range ends the mirror (DexMirror).           *)
Swap ==
  \E price \in SwapPrices :
    \E tick \in {TickOf(price)} \cup
                (IF Ratio[TickOf(price)] = price THEN {TickOf(price) - 1} \cap Tick ELSE {}) :
      /\ ActiveAt(tick) > 0
      /\ pool' = apply_swap_head(pool, price, tick, ActiveAt(tick))
      /\ UNCHANGED <<positions, top>>
Fees ==
  \E fees \in FeeSets :
    pool' = set_algebra_directional_fees(pool, fees) /\ UNCHANGED <<positions, top>>
Book == top' \in Tops /\ UNCHANGED <<pool, positions>>

QuoteNext == Mint \/ Burn \/ Swap \/ Fees \/ Book
QuoteSpec == QuoteInit /\ [][QuoteNext]_quoteVars

----------------------------------------------------------------------------
(* The mirror's ticks, bitmap and active liquidity are the ones the chain's *)
(* positions define, after any order of mints, burns and swaps              *)
(* (apply_liquidity_delta, set_tick, apply_swap_head).                      *)
LiquidityIsExact ==
  LET Low(t) == Total({r \in Ranges : r[1] = t})
      High(t) == Total({r \in Ranges : r[2] = t})
  IN  /\ pool.liquidity = ActiveAt(pool.tick)
      /\ \A t \in Tick :
           /\ t \in DOMAIN pool.ticks <=> Low(t) + High(t) > 0
           /\ t \in DOMAIN pool.ticks =>
                pool.ticks[t] = [gross |-> Low(t) + High(t), net |-> Low(t) - High(t)]

(* Where a prepared curve answers, it answers what the swap loop of the     *)
(* pool answers; it refuses an amount within its bound only when the loop   *)
(* does, or when the loop crosses a range without liquidity.  The curve     *)
(* built in one pass under an output bound is the exact-input curve of the  *)
(* input that bound needs.                                                  *)
Ends(curve) == {s.spec : s \in Range(curve.segments)}
Probed(curve) == Amounts \cup {x \in UNION {{e - 1, e, e + 1} : e \in Ends(curve)} : x > 0}
Gap == \E t \in Tick \ {MAX_TICK} : ActiveAt(t) = 0
SameAnswers(curve, Loop(_), max) ==
  \A x \in Probed(curve) :
    IF quote(curve, x) # Insufficient THEN quote(curve, x) = Loop(x)
    ELSE x <= max => Loop(x) = Insufficient \/ Gap
PreparedQuotesExact ==
  \A zfo \in BOOLEAN, max \in {prepared_token_a_limit, baseline_token_a} :
    /\ LET In(x) == quote_exact_in(pool, zfo, x)
       IN  SameAnswers(Curve(pool, zfo, TRUE, max), In, max)
    /\ LET Out(x) == quote_exact_out(pool, zfo, x)
       IN  SameAnswers(Curve(pool, zfo, FALSE, max), Out, max)
    /\ FusedCurve(pool, zfo, max)
         = Curve(pool, zfo, TRUE, exact_output_result_capacity(pool, zfo, max))

(* Evaluating a quantity from the baseline up never fails: the input that the exact-output     *)
(* curve asks for lies on the exact-input curve and buys at least the       *)
(* quantity, so a DEX leg that pays what was quoted can always be hedged.   *)
Quantities ==
  LET first == baseline_token_b_amount(top) \div token_b_step
  IN  {n * token_b_step : n \in first .. 2 * first}
EvaluationNeverFails ==
  LET Hedgeable(quotes, trade, b) ==
        /\ ~trade.error
        /\ trade.ok /\ trade.direction = DexBuy => quote(quotes.tokenA, trade.dex_in) >= b
      All(quotes) == \A d \in Directions, b \in Quantities :
                       Hedgeable(quotes, evaluate_trade(quotes, top, d, b), b)
  IN  All(prepare_pool_quotes(pool))

(* The size chosen is worth trading in exact arithmetic at the prices of    *)
(* the book and by the pool's own swap loop, within the cap, never below    *)
(* the baseline, and one step more is not: the search stops at the edge of  *)
(* what is feasible, far from its limit of evaluations.                     *)
WorthTrading(d, b) ==
  LET dex == IF d = DexBuy THEN quote_exact_out(pool, TRUE, b) ELSE quote_exact_in(pool, FALSE, b)
      margin == BPS + opportunity_threshold_bps
  IN  /\ dex # Insufficient
      /\ IF d = DexBuy THEN b * top.bid * BPS >= dex * PriceScale * margin
         ELSE dex * PriceScale * BPS >= b * top.ask * margin
SizeAtTheEdge ==
  LET baseline == baseline_token_b_amount(top)
      Edge(quotes, d, found) ==
        found.steps > 0 =>
          /\ found.steps * token_b_step >= baseline
          /\ WorthTrading(d, found.steps * token_b_step)
          /\ adaptive_trade_notional(Probe(quotes, top, d, found.steps)) <= max_trade_notional
          /\ ~Feasible(Probe(quotes, top, d, found.steps + 1))
          /\ found.n < MAX_ADAPTIVE_EXACT_EVALUATIONS
      Both(quotes) == \A d \in Directions :
                        Edge(quotes, d, search_adaptive_pool(quotes, top, d, baseline))
  IN  Both(prepare_pool_quotes(pool))
=============================================================================
