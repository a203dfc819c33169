------------------------------ MODULE PoolEvents ------------------------------
(***************************************************************************)
(* The logs a mirrored pool is followed by: which ones are subscribed to     *)
(* (build_log_filters), which pool a log is routed to (apply_log_inner of    *)
(* dex/mirror.rs), and how its words are decoded (dex/events.rs).  Five      *)
(* providers share topics and lay out their words differently, and every V4  *)
(* pool logs at one address.  The order, loss and duplication of logs is     *)
(* DexMirror's: here each log arrives once, in order.                        *)
(*                                                                           *)
(* A word has WORD bits and holds a signed value in two's complement; TICK,  *)
(* INT and FEE stand for the 24, 128 and 16 bits of the fields.  A log is    *)
(* its address, its signature (topic 0), its other topics and its words.     *)
(***************************************************************************)
EXTENDS Integers, Sequences, FiniteSetsExt

CONSTANTS
  Pools,        \* [kind, address, id]: id is a V4 pool's, 0 otherwise
  HydratedSets, \* the sets of them that may be hydrated
  PoolManager,  \* the address of V4's
  WORD, TICK, INT, FEE,
  Ticks, Prices, Amounts, Fees, Moved,  \* what the contracts may log
  MaxEvents     \* bound: events emitted

VARIABLES
  hydrated, \* the pools the mirror follows
  chain,    \* pool -> its state in its contract
  mirror,   \* pool -> the mirror's copy
  failed,   \* the mirror asked for rehydration
  expected, \* some adaptive pool changed what cannot be followed
  events    \* number emitted
eventVars == <<hydrated, chain, mirror, failed, expected, events>>

Algebra == {"CamelotV3", "LynexAlgebraV1_9"}
Ranges == {r \in Ticks \X Ticks : r[1] < r[2]}

----------------------------------------------------------------------------
(* The contracts.                                                           *)
Word(v) == v % 2^WORD
Held(pos, is) == MapThenSumSet(LAMBDA r : pos[r], is)
Active(pos, tick) == Held(pos, {r \in Ranges : r[1] <= tick /\ tick < r[2]})
Net(pos) == [t \in Ticks |-> Held(pos, {r \in Ranges : r[1] = t}) - Held(pos, {r \in Ranges : r[2] = t})]
Log(p, sig, topics, words) ==
  [address |-> p.address, sig |-> sig, words |-> words,
   topics |-> IF p.kind = "V4" THEN <<p.id>> \o topics ELSE topics]

SwapLog(p, price, liquidity, tick, a) ==
  LET head == <<Word(a), Word(-a), price, liquidity, Word(tick)>> IN
  CASE p.kind = "PancakeV3" -> Log(p, "pancake_v3_swap", <<1, 1>>, head \o <<1, 2>>)
    [] p.kind = "V4" -> Log(p, "v4_swap", <<1>>, head \o <<3>>)
    [] OTHER -> Log(p, "v3_swap", <<1, 1>>, head)
LiquidityLog(p, r, delta) ==
  IF p.kind = "V4"
  THEN Log(p, "v4_modify_liquidity", <<1>>, <<Word(r[1]), Word(r[2]), Word(delta), 0>>)
  ELSE IF delta > 0
  THEN Log(p, "v3_mint", <<1, Word(r[1]), Word(r[2])>>, <<1, delta, 1, 1>>)
  ELSE Log(p, "v3_burn", <<1, Word(r[1]), Word(r[2])>>, <<-delta, 1, 1>>)
FeeLog(p, fee) ==
  IF p.kind = "CamelotV3" THEN Log(p, "camelot_fee", <<>>, fee)
  ELSE Log(p, "lynex_algebra_v1_9_fee", <<>>, <<fee[1]>>)

----------------------------------------------------------------------------
(* build_log_filters: one filter for each provider, V4's by pool id.        *)
AddressesOf(kind) == {p.address : p \in {q \in hydrated : q.kind = kind}}
Filter(addresses, sigs, ids) == [addresses |-> addresses, sigs |-> sigs, ids |-> ids]
V3Filter == Filter(AddressesOf("V3"), {"v3_swap", "v3_mint", "v3_burn"}, {})
\* Mutant: Pancake's pools are followed by Uniswap's Swap topic.
PancakeAsUniswap == Filter(AddressesOf("PancakeV3"), {"v3_swap", "v3_mint", "v3_burn"}, {})
PancakeFilter == Filter(AddressesOf("PancakeV3"), {"pancake_v3_swap", "v3_mint", "v3_burn"}, {})
CamelotFilter ==
  Filter(AddressesOf("CamelotV3"), {"v3_swap", "v3_mint", "v3_burn", "camelot_fee",
                                    "camelot_tick_spacing", "camelot_incentive"}, {})
LynexFilter ==
  Filter(AddressesOf("LynexAlgebraV1_9"),
         {"v3_swap", "v3_mint", "v3_burn", "lynex_algebra_v1_9_fee",
          "camelot_tick_spacing", "camelot_incentive"}, {})
V4Filter ==
  LET ids == {p.id : p \in {q \in hydrated : q.kind = "V4"}} IN
  Filter(IF ids = {} THEN {} ELSE {PoolManager}, {"v4_swap", "v4_modify_liquidity"}, ids)
build_log_filters ==
  {f \in {V3Filter, PancakeFilter, CamelotFilter, LynexFilter, V4Filter} : f.addresses # {}}
Delivered(l) ==
  \E f \in build_log_filters :
    /\ l.address \in f.addresses /\ l.sig \in f.sigs
    /\ f.ids = {} \/ l.topics[1] \in f.ids

----------------------------------------------------------------------------
(* The words.                                                               *)
\* Mutant: the sign is not extended.
Unsigned(w) == w % 2^TICK
decode_i24_word(w) == LET raw == w % 2^TICK IN IF raw >= 2^(TICK - 1) THEN raw - 2^TICK ELSE raw
Fits(w, bits) == w < 2^bits
decode_i256_as_i128(w) ==
  LET low == w % 2^INT IN IF low >= 2^(INT - 1) THEN low - 2^INT ELSE low
FitsInt128(w) == Word(decode_i256_as_i128(w)) = w
Signed(w) == IF w >= 2^(WORD - 1) THEN w - 2^WORD ELSE w
decode_camelot_v3_swap_amounts(l) == <<Signed(l.words[1]), Signed(l.words[2])>>

(* decode_pool_event_with_locator: the pool and the update, or an error.    *)
NoHint == <<"none", 0>>
Err == [type |-> "error"]
Shaped(l, topics, words) == Len(l.topics) + 1 = topics /\ Len(l.words) = words
Event(locator, update) == [type |-> "event", locator |-> locator, update |-> update]
SwapHead(l) ==
  [type |-> "swap", price |-> l.words[3], liquidity |-> l.words[4], tick |-> decode_i24_word(l.words[5])]
Liquidity(lower, upper, delta) ==
  [type |-> "liquidity", range |-> <<decode_i24_word(lower), decode_i24_word(upper)>>, delta |-> delta]
Routed(hint, l) == hint[1] \in Algebra /\ hint[2] = l.address

decode_v3_swap(l, hint) ==
  IF ~Shaped(l, 3, 5) \/ ~Fits(l.words[4], INT) THEN Err
  ELSE IF Routed(hint, l) THEN Event(hint, SwapHead(l))
  ELSE IF hint \in {NoHint, <<"V3", l.address>>} THEN Event(<<"V3", l.address>>, SwapHead(l)) ELSE Err
decode_pancake_swap(l, hint) ==
  IF ~Shaped(l, 3, 7) \/ ~Fits(l.words[4], INT) \/ hint \notin {NoHint, <<"PancakeV3", l.address>>}
  THEN Err ELSE Event(<<"PancakeV3", l.address>>, SwapHead(l))
routed_v3_locator(l, hint) == IF hint = NoHint THEN <<"V3", l.address>> ELSE hint
decode_v3_mint(l, hint) ==
  IF ~Shaped(l, 4, 4) \/ ~Fits(l.words[2], INT - 1) \/ routed_v3_locator(l, hint)[2] # l.address
  THEN Err ELSE Event(routed_v3_locator(l, hint), Liquidity(l.topics[2], l.topics[3], l.words[2]))
decode_v3_burn(l, hint) ==
  IF ~Shaped(l, 4, 3) \/ ~Fits(l.words[1], INT - 1) \/ routed_v3_locator(l, hint)[2] # l.address
  THEN Err ELSE Event(routed_v3_locator(l, hint), Liquidity(l.topics[2], l.topics[3], -l.words[1]))
decode_v4_swap(l) ==
  IF ~Shaped(l, 3, 6) \/ ~Fits(l.words[4], INT) THEN Err
  ELSE Event(<<"V4", l.topics[1]>>, SwapHead(l))
decode_v4_modify_liquidity(l) ==
  IF ~Shaped(l, 3, 4) \/ ~FitsInt128(l.words[3]) THEN Err
  ELSE Event(<<"V4", l.topics[1]>>,
             Liquidity(l.words[1], l.words[2], decode_i256_as_i128(l.words[3])))
decode_camelot_fee(l, hint) ==
  IF hint # <<"CamelotV3", l.address>> \/ ~Shaped(l, 1, 2) \/ \E w \in {1, 2} : ~Fits(l.words[w], FEE)
  THEN Err ELSE Event(hint, [type |-> "fee", fee |-> <<l.words[1], l.words[2]>>])
decode_lynex_fee(l, hint) ==
  IF hint # <<"LynexAlgebraV1_9", l.address>> \/ ~Shaped(l, 1, 1) \/ ~Fits(l.words[1], FEE)
  THEN Err ELSE Event(hint, [type |-> "fee", fee |-> <<l.words[1], l.words[1]>>])
decode_tick_spacing(l, hint) ==
  IF ~Routed(hint, l) \/ ~Shaped(l, 1, 1) THEN Err ELSE Event(hint, [type |-> "tick_spacing"])
decode_incentive(l, hint) ==
  IF ~Routed(hint, l) \/ ~Shaped(l, 2, 0) THEN Err ELSE Event(hint, [type |-> "incentive"])
decode_pool_event_with_locator(l, hint) ==
  CASE l.sig = "v3_swap" -> decode_v3_swap(l, hint)
    [] l.sig = "pancake_v3_swap" -> decode_pancake_swap(l, hint)
    [] l.sig = "v3_mint" -> decode_v3_mint(l, hint)
    [] l.sig = "v3_burn" -> decode_v3_burn(l, hint)
    [] l.sig = "v4_swap" -> decode_v4_swap(l)
    [] l.sig = "v4_modify_liquidity" -> decode_v4_modify_liquidity(l)
    [] l.sig = "camelot_fee" -> decode_camelot_fee(l, hint)
    [] l.sig = "lynex_algebra_v1_9_fee" -> decode_lynex_fee(l, hint)
    [] l.sig = "camelot_tick_spacing" -> decode_tick_spacing(l, hint)
    [] OTHER -> decode_incentive(l, hint)

----------------------------------------------------------------------------
(* apply_log_inner: the hint by address, the pool by locator, the update.   *)
HintOf(l) ==
  LET here == {p \in hydrated : p.kind # "V4" /\ p.address = l.address}
  IN  IF here = {} THEN NoHint ELSE LET p == CHOOSE p \in here : TRUE IN <<p.kind, p.address>>
Located(locator) ==
  {p \in hydrated : p.kind = locator[1] /\ locator[2] = IF p.kind = "V4" THEN p.id ELSE p.address}
Updated(m, p, u, l) ==
  CASE u.type = "swap" ->
         [m EXCEPT !.price = u.price, !.tick = u.tick, !.liquidity = u.liquidity,
                   !.amounts = IF p.kind \in Algebra THEN decode_camelot_v3_swap_amounts(l) ELSE @]
    [] u.type = "liquidity" ->
         [m EXCEPT !.net = [@ EXCEPT ![u.range[1]] = @ + u.delta, ![u.range[2]] = @ - u.delta],
                   !.liquidity = IF u.range[1] <= m.tick /\ m.tick < u.range[2] THEN @ + u.delta ELSE @]
    [] OTHER -> [m EXCEPT !.fee = u.fee]
ApplyLog(l) ==
  LET e == decode_pool_event_with_locator(l, HintOf(l)) IN
  IF ~Delivered(l) \/ failed THEN UNCHANGED <<mirror, failed>>
  ELSE IF e.type = "error" THEN failed' = TRUE /\ UNCHANGED mirror
  ELSE IF e.update.type \in {"tick_spacing", "incentive"}
  THEN failed' = TRUE /\ UNCHANGED mirror
  ELSE /\ mirror' = [p \in Pools |-> IF p \in Located(e.locator)
                                     THEN Updated(mirror[p], p, e.update, l) ELSE mirror[p]]
       /\ UNCHANGED failed

----------------------------------------------------------------------------
Fresh(p) == [price |-> 1, tick |-> 0, pos |-> [r \in Ranges |-> 0], fee |-> <<1, 1>>, amounts |-> <<0, 0>>]
Copy(c) == [price |-> c.price, tick |-> c.tick, liquidity |-> Active(c.pos, c.tick),
            net |-> Net(c.pos), fee |-> c.fee, amounts |-> c.amounts]
EventInit ==
  /\ hydrated \in HydratedSets
  /\ chain = [p \in Pools |-> Fresh(p)] /\ mirror = [p \in Pools |-> Copy(Fresh(p))]
  /\ failed = FALSE /\ expected = FALSE /\ events = 0

Emit(l) == events < MaxEvents /\ events' = events + 1 /\ ApplyLog(l) /\ UNCHANGED hydrated
Swap(p, price, tick, a) ==
  /\ chain' = [chain EXCEPT ![p].price = price, ![p].tick = tick,
                            ![p].amounts = IF p.kind \in Algebra THEN <<a, -a>> ELSE @]
  /\ Emit(SwapLog(p, price, Active(chain[p].pos, tick), tick, a))
  /\ UNCHANGED expected
ChangeLiquidity(p, r, delta) ==
  /\ chain[p].pos[r] + delta \in 0..Max(Amounts)
  /\ chain' = [chain EXCEPT ![p].pos[r] = @ + delta]
  /\ Emit(LiquidityLog(p, r, delta))
  /\ UNCHANGED expected
ChangeFee(p, fee) ==
  /\ p.kind \in Algebra /\ (p.kind = "LynexAlgebraV1_9" => fee[1] = fee[2])
  /\ chain' = [chain EXCEPT ![p].fee = fee]
  /\ Emit(FeeLog(p, fee))
  /\ UNCHANGED expected
ChangeTickSpacing(p) ==
  /\ p.kind \in Algebra
  /\ Emit(Log(p, "camelot_tick_spacing", <<>>, <<1>>))
  /\ expected' = (expected \/ p \in hydrated) /\ UNCHANGED chain
ChangeIncentive(p) ==
  /\ p.kind \in Algebra
  /\ Emit(Log(p, "camelot_incentive", <<1>>, <<>>))
  /\ expected' = (expected \/ p \in hydrated) /\ UNCHANGED chain

EventNext ==
  \E p \in Pools :
    \/ \E price \in Prices, tick \in Ticks, a \in Moved : Swap(p, price, tick, a)
    \/ \E r \in Ranges, d \in Amounts : ChangeLiquidity(p, r, d) \/ ChangeLiquidity(p, r, -d)
    \/ \E fee \in Fees \X Fees : ChangeFee(p, fee)
    \/ ChangeTickSpacing(p)
    \/ ChangeIncentive(p)
EventSpec == EventInit /\ [][EventNext]_eventVars

----------------------------------------------------------------------------
(* The mirror of a hydrated pool stays what the contract is, for negative   *)
(* ticks and amounts as for positive ones and whatever other pools log at   *)
(* the same address or with the same topics, and it asks for rehydration    *)
(* exactly when a pool it follows changed its tick spacing or incentive:    *)
(* the filters miss no event that moves a pool, no log of one provider is   *)
(* read with the layout of another, and no well-formed log is an error      *)
(* (build_log_filters, decode_pool_event_with_locator).                     *)
EventsReachTheirPool ==
  /\ failed = expected
  /\ ~failed => \A p \in hydrated : mirror[p] = Copy(chain[p])
=============================================================================
