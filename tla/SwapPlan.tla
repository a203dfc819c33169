------------------------------- MODULE SwapPlan -------------------------------
(***************************************************************************)
(* One DEX leg from the engine's choice to its settlement: DexSwapPlan::build *)
(* (execution_plan.rs), the plan's request and its calldata (dex/execution.rs, *)
(* dex/calldata.rs), what the routers and pools of the chain make of that     *)
(* calldata, and the amounts and settlement logs taken from the receipt.      *)
(*                                                                           *)
(* Addresses are numbers, 0 the zero address, so the order of two tokens is   *)
(* theirs.  Calldata is a record of the words the call carries and nothing    *)
(* else: Uniswap V3's exactInput has no deadline, the Algebra routers no fee  *)
(* and no pool.  A pool is the one-element tuple of its address or, in V4,    *)
(* the words of the key its id is the hash of.  A log is the event            *)
(* and its words; its index is its place in the receipt, and the counts and   *)
(* lengths the decoders check are those of the contracts.                     *)
(***************************************************************************)
EXTENDS Integers, Sequences, FiniteSets, SequencesExt, FiniteSetsExt

CONSTANTS
  Pools,      \* the hydrated pools the engine may select
  Pair,       \* PairConfig: id, a, b, routers (0 if absent), v4 keys configured
  WALLET,     \* the bot's address
  Offers,     \* [pool, buy, in, min, generation, deadline]: engine inputs
  MaxOut,     \* bound: largest output of a swap
  MaxTime     \* bound: latest block time

VARIABLES
  offer,    \* the engine's choice
  plan,     \* DexSwapPlan, or Nil
  call,     \* the calldata signed, or Nil
  receipt,  \* the mined transaction, or Nil
  outcome,  \* what the executor makes of the receipt, or Nil
  stage     \* "offered", "planned", "sent", "mined", "accounted", "refused"
swapVars == <<offer, plan, call, receipt, outcome, stage>>

Nil == [kind |-> "nil"]
Algebra == {"CamelotV3", "LynexAlgebraV1_9"}

(* V4PoolKey::new: the currencies sorted.                                   *)
V4PoolKey(x, y, fee, spacing, hooks) ==
  [c0 |-> Min({x, y}), c1 |-> Max({x, y}), fee |-> fee, spacing |-> spacing,
   hooks |-> hooks]
pool_id(key) == <<key.c0, key.c1, key.fee, key.spacing, key.hooks>>

----------------------------------------------------------------------------
(* DexSwapPlan::build.                                                      *)
TokensOf(o) == IF o.buy THEN <<Pair.a, Pair.b>> ELSE <<Pair.b, Pair.a>>

configured_v4_key(pool) ==
  {k \in {V4PoolKey(pool.token0, pool.token1, c.fee, c.spacing, c.hooks) : c \in Pair.v4} :
     pool_id(k) = pool.id}

WithinHorizon(o) ==
  o.deadline >= o.pool.state.first /\ o.deadline <= o.pool.state.last
CamelotReady(o) ==
  o.generation > 0 /\ o.pool.state # Nil /\ WithinHorizon(o)
LynexReady(o) ==
  /\ o.generation > 0 /\ o.pool.state # Nil
  /\ o.pool.state.zto = o.pool.state.otz /\ o.pool.state.maxZto = o.pool.state.maxOtz
  /\ WithinHorizon(o)
V4Ready(o) ==
  \E k \in configured_v4_key(o.pool) : k.fee = o.pool.fee

RouteReady(o) ==
  /\ Pair.routers[o.pool.kind] # 0
  /\ o.pool.kind = "CamelotV3" => CamelotReady(o)
  /\ o.pool.kind = "LynexAlgebraV1_9" => LynexReady(o)
  /\ o.pool.kind = "UniswapV4" => V4Ready(o)

StaticRoute(o) ==
  [kind |-> o.pool.kind, router |-> Pair.routers[o.pool.kind],
   pool |-> o.pool.id, fee |-> o.pool.fee]
AdaptiveRoute(o) ==
  [kind |-> o.pool.kind, router |-> Pair.routers[o.pool.kind],
   pool |-> o.pool.id, generation |-> o.generation, state |-> o.pool.state]
V4Route(o) ==
  [kind |-> o.pool.kind, router |-> Pair.routers[o.pool.kind], pool |-> o.pool.id,
   key |-> CHOOSE k \in configured_v4_key(o.pool) : TRUE]
Route(o) == CASE o.pool.kind \in Algebra -> AdaptiveRoute(o)
              [] o.pool.kind = "UniswapV4" -> V4Route(o)
              [] OTHER -> StaticRoute(o)

PlanOf(o) == [route |-> Route(o), token_in |-> TokensOf(o)[1],
              token_out |-> TokensOf(o)[2], in |-> o.in, min |-> o.min,
              deadline |-> o.deadline, kind |-> "plan"]

BuildAllowed(o) ==
  /\ o.pool.pair = Pair.id /\ o.deadline > 0
  /\ {o.pool.token0, o.pool.token1} = {Pair.a, Pair.b}
  /\ RouteReady(o)

(* DexSwapPlan::validate, run when the plan is built, journaled and used.   *)
AdaptiveValid(p) ==
  LET s == p.route.state IN
  /\ p.route.generation > 0
  /\ s.maxZto >= s.zto /\ s.maxOtz >= s.otz
  /\ s.last >= s.first /\ p.deadline >= s.first /\ p.deadline <= s.last
V4Valid(p) ==
  /\ pool_id(p.route.key) = p.route.pool
  /\ {p.token_in, p.token_out} = {p.route.key.c0, p.route.key.c1}
PlanValid(p) ==
  /\ p.in > 0 /\ p.min > 0 /\ p.deadline > 0 /\ p.token_in # p.token_out
  /\ p.route.kind \in {"UniswapV3", "PancakeSwapV3"} => p.route.fee > 0
  /\ p.route.kind \in Algebra => AdaptiveValid(p)
  /\ p.route.kind = "UniswapV4" => V4Valid(p)

----------------------------------------------------------------------------
(* execution_request and ExactInputSwapRequest::validate: the route is      *)
(* typed again and the fee state left behind.                               *)
execution_request(p) ==
  [route |-> p.route, token_in |-> p.token_in, token_out |-> p.token_out,
   in |-> p.in, min |-> p.min, deadline |-> p.deadline]
RequestValid(r) ==
  /\ r.route.router # 0 /\ r.token_in # 0 /\ r.token_out # 0
  /\ r.token_in # r.token_out /\ r.in > 0 /\ r.min > 0
  /\ r.route.kind # "UniswapV4" => r.route.pool # <<0>>
  /\ r.route.kind \in {"UniswapV3", "PancakeSwapV3"} => r.route.fee > 0
  /\ r.route.kind = "UniswapV4" =>
       /\ r.route.key.c0 < r.route.key.c1
       /\ {r.token_in, r.token_out} = {r.route.key.c0, r.route.key.c1}

(* The encoders: the words of each call.                                    *)
v3_exact_input(r) ==
  [to |-> r.route.router, fn |-> "exactInput", path |-> <<r.token_in, r.route.fee, r.token_out>>,
   recipient |-> WALLET, in |-> r.in, min |-> r.min]
pancake_v3_exact_input_single(r) ==
  [to |-> r.route.router, fn |-> "exactInputSingle8", path |-> <<r.token_in, r.route.fee, r.token_out>>,
   recipient |-> WALLET, deadline |-> r.deadline, in |-> r.in, min |-> r.min]
camelot_v3_exact_input_single(r) ==
  [to |-> r.route.router, fn |-> "exactInputSingle7", path |-> <<r.token_in, r.token_out>>,
   recipient |-> WALLET, deadline |-> r.deadline, in |-> r.in, min |-> r.min]
lynex_algebra_v1_9_exact_input_single(r) == camelot_v3_exact_input_single(r)
\* Mutant: the direction of the pool's second currency.
OtherDirection(r) ==
  [to |-> r.route.router, fn |-> "execute", key |-> r.route.key,
   zeroForOne |-> r.token_in = r.route.key.c1, in |-> r.in, min |-> r.min,
   settle |-> <<r.token_in, r.in>>, take |-> <<r.token_out, r.min>>, deadline |-> r.deadline]

v4_exact_input_single(r) ==
  [to |-> r.route.router, fn |-> "execute", key |-> r.route.key,
   zeroForOne |-> r.token_in = r.route.key.c0, in |-> r.in, min |-> r.min,
   settle |-> <<r.token_in, r.in>>, take |-> <<r.token_out, r.min>>, deadline |-> r.deadline]

exact_input_calldata(r) ==
  CASE r.route.kind = "UniswapV3" -> v3_exact_input(r)
    [] r.route.kind = "PancakeSwapV3" -> pancake_v3_exact_input_single(r)
    [] r.route.kind = "CamelotV3" -> camelot_v3_exact_input_single(r)
    [] r.route.kind = "LynexAlgebraV1_9" -> lynex_algebra_v1_9_exact_input_single(r)
    [] OTHER -> v4_exact_input_single(r)

----------------------------------------------------------------------------
(* The chain: the pool a call reaches, and the logs of a swap in it.        *)
Transfer(token, from, to, amount) ==
  [at |-> <<token>>, topic |-> "Transfer", from |-> from, to |-> to, amount |-> amount]
Event(at, topic, id, words) == [at |-> at, topic |-> topic, id |-> id, words |-> words]
SwapTopic(kind) == CASE kind = "PancakeSwapV3" -> "pancake_v3_swap"
                     [] kind = "UniswapV4" -> "v4_swap"
                     [] OTHER -> "v3_swap"
FeeTopic(kind) == IF kind = "CamelotV3" THEN "camelot_fee" ELSE "lynex_fee"

Reached(c) ==
  {p \in Pools :
     /\ Pair.routers[p.kind] = c.to
     /\ CASE p.kind \in {"UniswapV3", "PancakeSwapV3"} ->
               /\ {c.path[1], c.path[3]} = {p.token0, p.token1} /\ c.path[2] = p.fee
          [] p.kind \in Algebra -> {c.path[1], c.path[2]} = {p.token0, p.token1}
          [] OTHER -> p.id = pool_id(c.key)}
TokenIn(c, p) == IF p.kind = "UniswapV4"
                 THEN (IF c.zeroForOne THEN p.token0 ELSE p.token1) ELSE c.path[1]
TokenOut(c, p) == IF TokenIn(c, p) = p.token0 THEN p.token1 ELSE p.token0
InTime(c, t) == "deadline" \notin DOMAIN c \/ t <= c.deadline

(* A pool whose fee did not move announces none; a V4 hook may swap in      *)
(* another pool first; strangers move the same tokens in the same receipt.  *)
SwapLogs(c, p, out, feeMoved, hooked) ==
  LET where == IF p.kind = "UniswapV4" THEN <<99>> ELSE p.id
      other == {q \in Pools : q.kind = "UniswapV4" /\ q.id # p.id}
  IN  (IF hooked /\ other # {}
       THEN <<Event(<<99>>, "v4_swap", (CHOOSE q \in other : TRUE).id, <<>>)>> ELSE <<>>)
      \o (IF p.kind \in Algebra /\ feeMoved
          THEN <<Event(where, FeeTopic(p.kind), <<0>>, <<p.state.zto, p.state.otz>>)>> ELSE <<>>)
      \o <<Transfer(TokenOut(c, p), where, WALLET, out),
           Transfer(TokenIn(c, p), WALLET, where, c.in),
           Transfer(TokenIn(c, p), where, <<98>>, 1),
           Event(where, SwapTopic(p.kind), IF p.kind = "UniswapV4" THEN p.id ELSE <<0>>, <<out>>)>>

Mined(c, p, t, out, logs) ==
  [kind |-> "receipt", status |-> 1, pool |-> p, token_in |-> TokenIn(c, p),
   in |-> c.in, out |-> out, time |-> t, logs |-> logs]
Reverted(t) == [kind |-> "receipt", status |-> 0, time |-> t, logs |-> <<>>]

----------------------------------------------------------------------------
(* wallet_transfer_totals: what the wallet received and sent of a token.    *)
Transfers(logs, token) ==
  {i \in DOMAIN logs : logs[i].topic = "Transfer" /\ logs[i].at = <<token>>}
Total(logs, is) == MapThenSumSet(LAMBDA i : logs[i].amount, is)
wallet_transfer_totals(logs, token) ==
  [received |-> Total(logs, {i \in Transfers(logs, token) : logs[i].to = WALLET}),
   sent |-> Total(logs, {i \in Transfers(logs, token) : logs[i].from = WALLET})]

(* receipt_settlement_kind: the topics of another provider at the routed    *)
(* pool are an error; a V4 swap counts only for the pool id of the route.   *)
ForeignTopics(kind) ==
  CASE kind = "UniswapV3" -> {"pancake_v3_swap", "camelot_fee", "lynex_fee"}
    [] kind = "PancakeSwapV3" -> {"v3_swap", "camelot_fee", "lynex_fee"}
    [] kind = "CamelotV3" -> {"pancake_v3_swap", "lynex_fee"}
    [] kind = "LynexAlgebraV1_9" -> {"pancake_v3_swap", "camelot_fee"}
    [] OTHER -> {}
\* Mutant: any V4 swap is taken for the route's.
AnyV4Swap(l, route) ==
  CASE l.topic = "Transfer" -> "none"
    [] l.topic = SwapTopic(route.kind) -> "swap"
    [] route.kind \in Algebra /\ l.topic = FeeTopic(route.kind) -> "fee"
    [] OTHER -> "none"

receipt_settlement_kind(l, route) ==
  CASE l.topic \in ForeignTopics(route.kind) -> "error"
    [] l.topic = SwapTopic(route.kind) ->
         IF route.kind = "UniswapV4" /\ l.id # route.pool THEN "none" ELSE "swap"
    [] route.kind \in Algebra /\ l.topic = FeeTopic(route.kind) -> "fee"
    [] OTHER -> "none"

(* settlement_logs_for_route: at most one Fee and one Swap of the route, in *)
(* that order; an adaptive route proves nothing without both.               *)
Routed(logs, route) ==
  {i \in DOMAIN logs : route.kind = "UniswapV4" \/ logs[i].at = route.pool}
OfKind(logs, route, k) ==
  {i \in Routed(logs, route) : receipt_settlement_kind(logs[i], route) = k}
NoLogs == [fee |-> 0, swap |-> 0]
settlement_logs_for_route(logs, route) ==
  LET fees == OfKind(logs, route, "fee")
      swaps == OfKind(logs, route, "swap")
      fee == IF fees = {} THEN 0 ELSE Min(fees)
      swap == IF swaps = {} THEN 0 ELSE Min(swaps)
  IN  IF \/ OfKind(logs, route, "error") # {}
         \/ Cardinality(fees) > 1 \/ Cardinality(swaps) > 1
         \/ route.kind \in Algebra /\ fee # 0 /\ swap # 0 /\ fee > swap
      THEN Nil
      ELSE IF route.kind \in Algebra /\ (fee = 0 \/ swap = 0) THEN NoLogs
      ELSE [fee |-> fee, swap |-> swap]

(* execute_exact_input after the receipt.                                   *)
Unknown == [kind |-> "error"]
Accounted(p, rc) ==
  LET in == wallet_transfer_totals(rc.logs, p.token_in)
      out == wallet_transfer_totals(rc.logs, p.token_out)
      proof == settlement_logs_for_route(rc.logs, p.route)
  IN  IF \/ rc.status # 1
         \/ in.sent - in.received # p.in
         \/ out.received < out.sent \/ out.received - out.sent < p.min
         \/ proof = Nil
      THEN Unknown
      ELSE [kind |-> "ok", spent |-> in.sent - in.received,
            received |-> out.received - out.sent, proof |-> proof]

----------------------------------------------------------------------------
SwapInit ==
  /\ offer \in Offers
  /\ plan = Nil /\ call = Nil /\ receipt = Nil /\ outcome = Nil
  /\ stage = "offered"

Build ==
  /\ stage = "offered"
  /\ IF BuildAllowed(offer) /\ PlanValid(PlanOf(offer))
     THEN plan' = PlanOf(offer) /\ stage' = "planned"
     ELSE plan' = Nil /\ stage' = "refused"
  /\ UNCHANGED <<offer, call, receipt, outcome>>

(* The request at time t: every route but Uniswap V3's must still be in     *)
(* time when it is signed.                                                  *)
Submit(t) ==
  LET r == execution_request(plan) IN
  /\ stage = "planned"
  /\ IF /\ PlanValid(plan) /\ RequestValid(r)
        /\ r.route.kind = "UniswapV3" \/ r.deadline > t
     THEN call' = exact_input_calldata(r) /\ stage' = "sent"
     ELSE call' = Nil /\ stage' = "refused"
  /\ UNCHANGED <<offer, plan, receipt, outcome>>

Mine(t, out, feeMoved, hooked) ==
  /\ stage = "sent"
  /\ receipt' \in {Reverted(t)} \cup
       {Mined(call, p, t, out, SwapLogs(call, p, out, feeMoved, hooked)) :
          p \in {q \in Reached(call) : InTime(call, t) /\ out >= call.min}}
  /\ stage' = "mined"
  /\ UNCHANGED <<offer, plan, call, outcome>>

Account ==
  /\ stage = "mined"
  /\ outcome' = Accounted(plan, receipt)
  /\ stage' = "accounted"
  /\ UNCHANGED <<offer, plan, call, receipt>>

SwapNext ==
  \/ Build \/ Account
  \/ \E t \in 1..MaxTime : Submit(t)
  \/ \E t \in 1..MaxTime, out \in 0..MaxOut, f, h \in BOOLEAN : Mine(t, out, f, h)

SwapSpec == SwapInit /\ [][SwapNext]_swapVars

----------------------------------------------------------------------------
(* A swap that is mined is the one the engine chose: its pool, its          *)
(* direction, its exact input, no less than its minimum output, in time on  *)
(* every route whose call carries a deadline; and the executor then accounts *)
(* exactly what the chain moved, with the routed pool's own Swap and, on an  *)
(* adaptive pool, the Fee event before it, never with an error that would    *)
(* make a finished swap unknown (execution_plan.rs build and                 *)
(* execution_request, dex/calldata.rs, settlement_logs_for_route).           *)
PlannedSwapAccounted ==
  /\ stage \in {"mined", "accounted"} /\ receipt.status = 1 =>
       /\ receipt.pool = offer.pool /\ receipt.token_in = TokensOf(offer)[1]
       /\ receipt.in = offer.in /\ receipt.out >= offer.min
       /\ offer.pool.kind # "UniswapV3" => receipt.time <= offer.deadline
  /\ stage = "accounted" =>
       IF receipt.status = 0 THEN outcome = Unknown
       ELSE /\ outcome.kind = "ok"
            /\ outcome.spent = receipt.in /\ outcome.received = receipt.out
            /\ LET swap == outcome.proof.swap  fee == outcome.proof.fee IN
               IF offer.pool.kind \in Algebra /\ swap = 0
               THEN \A l \in Range(receipt.logs) : l.topic # FeeTopic(offer.pool.kind)
               ELSE /\ receipt.logs[swap].words = <<receipt.out>>
                    /\ offer.pool.kind \in Algebra => fee \in 1..(swap - 1)
=============================================================================
