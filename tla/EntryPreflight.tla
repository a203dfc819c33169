--------------------------- MODULE EntryPreflight ---------------------------
(***************************************************************************)
(* The last check before a live entry (EntryPreflightHandle of              *)
(* arbitrage.rs).  The engine publishes the Binance top, the liveness of    *)
(* its feed, the DEX head and the prepared curve of a pool behind a lock.   *)
(* The trade task checks an opportunity, planned earlier, against whatever  *)
(* is published when it comes to run, and later asks for a better price for *)
(* the Binance leg.  One symbol and one pool, with an adaptive fee or not.  *)
(*                                                                          *)
(* A pool's curve is what it pays for the plan's exact input (the curve of  *)
(* the plan's direction).  Prices are p / PriceScale of token A for one     *)
(* unit of token B.  MarketFeed has the events behind the published top,    *)
(* PreparedPools the building of curves.                                    *)
(***************************************************************************)
EXTENDS Integers

CONSTANTS
  Adaptive,         \* whether the pool's fee is an adaptive Algebra fee
  AmountIn,         \* the exact input of the DEX leg
  Outs,             \* what the pool may pay for it
  Tops,             \* prices of the Binance top
  Quantities,       \* quantities at the Binance top
  PriceScale,
  MaxSilence, MaxHeadAge,
  MaxTime,          \* bound: time steps
  MaxChanges        \* bound: pool changes, quotes and reconnections

(* What the proof asks of the constants: amounts, prices and times.   *)
PreflightAssumption ==
  /\ Adaptive \in BOOLEAN /\ AmountIn \in Nat /\ PriceScale \in Nat \ {0}
  /\ Outs \subseteq Nat /\ Tops \subseteq Nat /\ Quantities \subseteq Nat
  /\ MaxSilence \in Nat /\ MaxHeadAge \in Nat

VARIABLES
  now,
  quote,            \* quotes: the published top, with its generation
  transport,        \* transport: generation, connected, last activity
  head,             \* dex_head_received_at
  pool,             \* dex_pools: generation, fee generation and curve
  mirror,           \* the engine's mirrored pool, which pool is built from
  opportunity,      \* the plan in the trade task's hands, or NoOpportunity
  verdict,          \* the answer of the last check
  limit,            \* the price selected for the Binance leg
  changes

preflightVars == <<now, quote, transport, head, pool, mirror, opportunity,
                   verdict, limit, changes>>

Directions == {"dex_buy", "dex_sell"}   \* BuyTokenBOnDex..., ...SellOnDex
Threshold == 20                         \* opportunity_threshold_bps
BPS_DENOMINATOR == 10000
NoOpportunity == [dir |-> "none", price |-> 0, gen |-> 0, fee |-> 0, least |-> 0,
                  met |-> FALSE, deadline |-> 0]
NoLimit == [price |-> 0, fresh |-> FALSE, top |-> 0, quantity |-> 0, target |-> 0]

relevant_price(dir, q) == IF dir = "dex_buy" THEN q.bid ELSE q.ask

token_b_at_price_in_token_a_base_units(amount, price, round_up) ==
  LET n == amount * price IN
  n \div PriceScale + (IF round_up /\ n % PriceScale # 0 THEN 1 ELSE 0)
meets_spread_threshold(proceeds, cost) ==
  proceeds * BPS_DENOMINATOR >= cost * (BPS_DENOMINATOR + Threshold)

SpreadHolds(dir, out, q) ==
  IF dir = "dex_buy"
  THEN meets_spread_threshold(
         token_b_at_price_in_token_a_base_units(out, q.bid, FALSE), AmountIn)
  ELSE meets_spread_threshold(
         out, token_b_at_price_in_token_a_base_units(AmountIn, q.ask, TRUE))

----------------------------------------------------------------------------
(* Freshness of the published state.                                        *)
PriceFresh ==
  /\ transport.connected
  /\ transport.gen = quote.gen
  /\ now - transport.last <= MaxSilence
HeadFresh == now - head <= MaxHeadAge

(* `check`: the first reason to reject, or "pass".  With nothing changed    *)
(* since the plan was made the stored proof of the threshold is enough.     *)
\* Mutant: the price alone decides whether anything changed.
SamePrice(o) == o.met /\ relevant_price(o.dir, quote) = o.price
Unchanged(o) ==
  /\ o.met /\ relevant_price(o.dir, quote) = o.price
  /\ pool.gen = o.gen /\ pool.fee = o.fee
HorizonExpired(o) == Adaptive /\ now > o.deadline
Requoted(o) ==
  LET out == pool.out IN
  IF out = 0 THEN "preflight_spread_below_threshold"
  ELSE IF out < o.least THEN "preflight_dex_minimum_not_met"
  ELSE IF ~SpreadHolds(o.dir, out, quote) THEN "preflight_spread_below_threshold"
  ELSE IF Adaptive /\ pool.fee # o.fee THEN "preflight_fee_generation_changed"
  ELSE "pass"
check(o) ==
  IF quote.id = 0 \/ ~PriceFresh \/ ~HeadFresh \/ pool.gen = 0
  THEN "preflight_price_not_fresh"
  ELSE IF HorizonExpired(o) THEN "preflight_fee_horizon_expired"
  ELSE IF Unchanged(o) THEN "pass" ELSE Requoted(o)

(* fresh_binance_top and favorable_primary_limit_price: the sale at the     *)
(* larger of the admitted price and the bid, the purchase at the smaller of *)
(* it and the ask.                                                          *)
favorable_price(dir, admission) ==
  LET top == relevant_price(dir, quote)
  IN  IF (dir = "dex_buy" /\ top > admission) \/ (dir # "dex_buy" /\ top < admission)
      THEN top ELSE admission
\* Mutant: a better price is taken however little is offered at it.
AnyQuantity(dir, admission, target) ==
  IF ~PriceFresh THEN admission
  ELSE favorable_price(dir, admission)
favorable_primary_limit_price(dir, admission, target) ==
  IF quote.id # 0 /\ PriceFresh /\ quote.quantity >= target /\ target > 0
  THEN favorable_price(dir, admission) ELSE admission

----------------------------------------------------------------------------
(* The feed is connected; its first quote may still be missing (id 0).      *)
PreflightInit ==
  /\ now = 0
  /\ quote \in {[id |-> i, gen |-> i, bid |-> b, ask |-> b, quantity |-> 1] :
                  i \in {0, 1}, b \in Tops}
  /\ transport = [gen |-> 1, connected |-> TRUE, last |-> 0]
  /\ head = 0
  /\ \E o \in Outs :
       /\ pool = [gen |-> 1, fee |-> IF Adaptive THEN 1 ELSE 0,
                  out |-> o]
       /\ mirror = pool
  /\ opportunity = NoOpportunity /\ verdict = "none" /\ limit = NoLimit /\ changes = 0

Published == <<quote, transport, head, pool, mirror>>
Forget == verdict' = "none" /\ limit' = NoLimit
Change == changes < MaxChanges /\ changes' = changes + 1 /\ Forget

(* The engine's side of the lock.  Connections of one symbol follow each    *)
(* other, so events come in the order of their generations.                 *)
on_feed_connected ==
  /\ ~transport.connected /\ Change
  /\ transport' = [gen |-> transport.gen + 1, connected |-> TRUE, last |-> now]
  /\ UNCHANGED <<now, quote, head, pool, mirror, opportunity>>
on_feed_disconnected ==
  /\ transport.connected /\ Forget
  /\ transport' = [transport EXCEPT !.connected = FALSE]
  /\ UNCHANGED <<now, quote, head, pool, mirror, opportunity, changes>>
record_transport_activity ==
  /\ transport.connected /\ transport.last < now /\ Forget
  /\ transport' = [transport EXCEPT !.last = now]
  /\ UNCHANGED <<now, quote, head, pool, mirror, opportunity, changes>>
update_quote ==
  /\ transport.connected /\ Change
  /\ \E b \in Tops, a \in Tops, n \in Quantities :
       /\ a >= b
       /\ quote' = [id |-> quote.id + 1, gen |-> transport.gen, bid |-> b,
                    ask |-> a, quantity |-> n]
  /\ transport' = [transport EXCEPT !.last = now]
  /\ UNCHANGED <<now, head, pool, mirror, opportunity>>
update_dex_head ==
  /\ head < now /\ Forget
  /\ head' = now
  /\ UNCHANGED <<now, quote, transport, pool, mirror, opportunity, changes>>

(* A log changes the mirrored pool at once; the curve the check reads       *)
(* follows when it has been built (on_prepared_pool).                       *)
PoolChanges ==
  /\ Change
  /\ \E o \in Outs :
       mirror' = [mirror EXCEPT !.gen = @ + 1, !.out = o,
                                !.fee = IF Adaptive THEN @ + 1 ELSE @]
  /\ UNCHANGED <<now, quote, transport, head, pool, opportunity>>
update_dex_pool_with_fee_generation ==
  /\ pool # mirror /\ Forget
  /\ pool' = mirror
  /\ UNCHANGED <<now, quote, transport, head, mirror, opportunity, changes>>

(* The engine plans from the published top and a curve that is up to date   *)
(* with its mirror.  The plan's minimum output is at most what the curve    *)
(* pays; its deadline, for an adaptive fee, is the fee envelope's horizon.  *)
Plan ==
  /\ opportunity = NoOpportunity /\ pool = mirror /\ PriceFresh /\ quote.id > 0 /\ Forget
  /\ \E d \in Directions :
       \E least \in {pool.out - 1, pool.out} \ {0, -1} :
            opportunity' = [dir |-> d, price |-> relevant_price(d, quote),
                            gen |-> pool.gen, fee |-> pool.fee, least |-> least,
                            met |-> SpreadHolds(d, pool.out, quote),
                            deadline |-> now + 1]
  /\ UNCHANGED <<now, Published, changes>>

(* authorize_entry in the trade task.                                       *)
Check ==
  /\ opportunity # NoOpportunity /\ verdict = "none"
  /\ verdict' = check(opportunity)
  /\ UNCHANGED <<now, Published, opportunity, limit, changes>>

(* After the DEX leg: the price of the primary order.                       *)
SelectPrice ==
  /\ opportunity # NoOpportunity /\ limit = NoLimit
  /\ \E target \in Quantities :
       limit' = [price |-> favorable_primary_limit_price(
                             opportunity.dir, opportunity.price, target),
                 fresh |-> quote.id # 0 /\ PriceFresh,
                 top |-> relevant_price(opportunity.dir, quote),
                 quantity |-> quote.quantity, target |-> target]
  /\ UNCHANGED <<now, Published, opportunity, verdict, changes>>

TimePasses ==
  /\ now < MaxTime /\ now' = now + 1 /\ Forget
  /\ UNCHANGED <<Published, opportunity, changes>>

PreflightNext ==
  \/ on_feed_connected \/ on_feed_disconnected \/ record_transport_activity
  \/ update_quote \/ update_dex_head \/ PoolChanges
  \/ update_dex_pool_with_fee_generation \/ Plan \/ Check \/ SelectPrice \/ TimePasses
PreflightSpec == PreflightInit /\ [][PreflightNext]_preflightVars

----------------------------------------------------------------------------
(* The other way to say it: what executing the plan now would bring.        *)
StillPays(o) ==
  /\ pool.out >= o.least
  /\ SpreadHolds(o.dir, pool.out, quote)

(* An entry only passes the check while Binance is connected and both       *)
(* venues were heard of within their windows, and then the plan, executed   *)
(* at the published prices, still clears its threshold and pays its minimum *)
(* output, also when the check took the short way and requoted nothing; and *)
(* the price chosen for the Binance leg is never worse than the admitted    *)
(* one, and differs from it only for a fresh top that covers the whole      *)
(* quantity (check, favorable_primary_limit_price).                         *)
EntryStillPays ==
  /\ verdict = "pass" =>
       /\ transport.connected /\ transport.gen = quote.gen
       /\ now <= transport.last + MaxSilence /\ now <= head + MaxHeadAge
       /\ StillPays(opportunity)
       /\ Adaptive => pool.fee = opportunity.fee /\ now <= opportunity.deadline
  /\ limit # NoLimit =>
       /\ IF opportunity.dir = "dex_buy" THEN limit.price >= opportunity.price
          ELSE limit.price <= opportunity.price
       /\ limit.price # opportunity.price =>
            limit.fresh /\ limit.price = limit.top /\ limit.quantity >= limit.target

(* The documentation of the adaptive pools says that the check drains the   *)
(* queued pool events and requotes first, so an entry that passes was       *)
(* checked against every event the mirror has applied.                      *)
CheckedAgainstTheMirror == verdict = "pass" => pool = mirror
=============================================================================
