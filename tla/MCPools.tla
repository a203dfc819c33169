------------------------------- MODULE MCPools -------------------------------
(***************************************************************************)
(* Instances of the modules about pools.  They do not interact here: `part` *)
(* chooses one of them in the initial state, and v1, v2, ... are that       *)
(* module's variables, in the order of its declaration.  One run so checks  *)
(* them all.                                                                *)
(***************************************************************************)
EXTENDS Integers, Sequences, TLC

VARIABLES part, v1, v2, v3, v4, v5, v6, v7, v8, v9, v10, v11, v12, v13, v14,
          v15, v16, v17
V == <<v1, v2, v3, v4, v5, v6, v7, v8, v9, v10, v11, v12, v13, v14, v15, v16, v17>>

(* The variables a module leaves over.                                      *)
Off16 == v16 = 0 /\ v17 = 0
Off7 ==
  /\ v7 = 0 /\ v8 = 0 /\ v9 = 0 /\ v10 = 0 /\ v11 = 0 /\ v12 = 0 /\ v13 = 0
  /\ v14 = 0 /\ v15 = 0 /\ Off16
Off6 == v6 = 0 /\ Off7
Off5 == v5 = 0 /\ Off6
Off4 == v4 = 0 /\ Off5
From16 == <<v16, v17>>
From7 == <<v7, v8, v9, v10, v11, v12, v13, v14, v15, From16>>
From6 == <<v6, From7>>
From5 == <<v5, From6>>
From4 == <<v4, From5>>

----------------------------------------------------------------------------
(* DexMirror: pools and what their blocks carry.                            *)
External(kind) == [kind |-> kind, own |-> FALSE]
Own(kind) == [kind |-> kind, own |-> TRUE]
\* Static fee, swaps only, some of them the process's own.
Traded ==
  [adaptive |-> FALSE, reorgs |-> 0,
   bodies |-> {<<>>, <<Own("swap")>>, <<External("swap"), Own("swap")>>,
               <<Own("swap"), External("swap")>>}]
\* Static fee, nothing of the process's own, with a reorganisation.
Watched ==
  [adaptive |-> FALSE, reorgs |-> 1,
   bodies |-> {<<>>, <<External("liquidity"), External("swap")>>}]
\* Adaptive fee: the first action of a block writes a timepoint, and so is
\* preceded by a Fee.
TradedAdaptive ==
  [adaptive |-> TRUE, reorgs |-> 0,
   bodies |-> {<<>>, <<Own("fee"), Own("swap")>>,
               <<External("fee"), External("liquidity"), Own("swap")>>}]
AllPools == {Traded, Watched, TradedAdaptive}
Dex == INSTANCE DexMirror WITH
  Pools <- AllPools, MaxBlocks <- 3, HydrationReorg <- FALSE, Disconnects <- TRUE,
  Capacity <- 2, MaxRestarts <- 1,
  pool <- v1, chain <- v2, hashes <- v3, reorgs <- v4, restarts <- v5, logWire <- v6,
  headWire <- v7, stream <- v8, seen <- v9, held <- v10, channel <- v11, stage <- v12,
  capture <- v13, mirror <- v14, receipts <- v15

(* PoolEvents: a followed pool of each provider beside pools of the same    *)
(* providers that are not followed, two of them in V4's manager.            *)
Located(kind, address, id) == [kind |-> kind, address |-> address, id |-> id]
LocatedPools ==
  {Located("V3", 1, 0), Located("PancakeV3", 2, 0), Located("CamelotV3", 3, 0),
   Located("LynexAlgebraV1_9", 4, 0), Located("V4", 9, 1), Located("V4", 9, 2)}
Followed ==
  {{p \in LocatedPools : p.id # 2}, {p \in LocatedPools : p.address \in {3, 9}},
   {p \in LocatedPools : p.address \in {1, 2}}}
Events == INSTANCE PoolEvents WITH
  Pools <- LocatedPools, HydratedSets <- Followed, PoolManager <- 9,
  WORD <- 5, TICK <- 2, INT <- 3, FEE <- 2, Ticks <- -2..1, Prices <- {1, 2},
  Amounts <- {0, 2}, Fees <- {1, 3}, Moved <- {-3, 2}, MaxEvents <- 2,
  hydrated <- v1, chain <- v2, mirror <- v3, failed <- v4, expected <- v5, events <- v6

(* PoolHydration: ticks -9..9 with spacing 2 over words of 4 bits, pools    *)
(* that differ in one respect each.                                         *)
Good == [pool |-> "expected", ident |-> TRUE, code |-> TRUE, price |-> 1,
         liq |-> 1, slot3 |-> 1, fees |-> TRUE, periphery |-> TRUE,
         time |-> 1, ticks |-> (-8 :> 1) @@ (8 :> 1)]
OnChain ==
  {Good,
   [Good EXCEPT !.liq = 2, !.slot3 = 2, !.ticks = (-8 :> 1) @@ (-2 :> 1) @@ (8 :> 2)],
   [Good EXCEPT !.pool = "none", !.price = 0, !.liq = 0, !.ticks = <<>>],
   [Good EXCEPT !.pool = "other"], [Good EXCEPT !.ident = FALSE],
   [Good EXCEPT !.code = FALSE], [Good EXCEPT !.slot3 = 0],
   [Good EXCEPT !.fees = FALSE], [Good EXCEPT !.periphery = FALSE],
   [Good EXCEPT !.price = 0, !.liq = 0, !.slot3 = 0, !.ticks = <<>>],
   [Good EXCEPT !.liq = 0, !.slot3 = 0, !.ticks = (4 :> 1) @@ (8 :> 1)]}
Hydration == INSTANCE PoolHydration WITH
  MIN_TICK <- -9, MAX_TICK <- 9, Spacing <- 2, WordSize <- 4, ChunkSize <- 2,
  ALGEBRA_MULTICALL_CHUNK_SIZE <- 2, PoolStates <- OnChain,
  Pairs <- {{"UniswapV3"}, {"PancakeSwapV3"}, {"CamelotV3"}, {"LynexAlgebraV1_9"},
            {"UniswapV3", "UniswapV4"}},
  MaxBlock <- 2, canon <- v1, state <- v2, pair <- v3, task <- v4

(* AdaptiveFee: a ring that wraps.                                          *)
FeeConfig(a, b) ==
  [alpha1 |-> a, alpha2 |-> 30, beta1 |-> b, beta2 |-> 6, gamma1 |-> 1,
   gamma2 |-> 2, volume_beta |-> 2, volume_gamma |-> 1, base_fee |-> 5]
FeeConfigs == [d \in BOOLEAN |-> IF d THEN FeeConfig(40, 1) ELSE FeeConfig(60, 3)]
Fee == INSTANCE AdaptiveFee WITH
  WINDOW <- 4, Ring <- 7, Horizon <- 2, VolumeUnit <- 2, MaxTime <- 9, Ticks <- {0, 12},
  Volumes <- {4}, Configs <- FeeConfigs,
  now <- v1, chain <- v2, bot <- v3, hydratedAt <- v4, seen <- v5

(* PoolQuotes: five ticks in rows of two; square root prices grow by about  *)
(* a quarter per tick around Q, and the book's prices by the square of it.  *)
Quotes == INSTANCE PoolQuotes WITH
  MIN_TICK <- -2, MAX_TICK <- 2, Q <- 256, FeeUnit <- 100, Row <- 2,
  Ratio <- (-2 :> 164) @@ (-1 :> 205) @@ (0 :> 256) @@ (1 :> 320) @@ (2 :> 400),
  baseline_token_a <- 20, prepared_token_a_limit <- 45, token_b_step <- 4,
  max_trade_notional <- 40, opportunity_threshold_bps <- 500, min_slippage_bps <- 100,
  max_slippage_bps <- 1000, slippage_profit_share_bps <- 5000, PriceScale <- 100,
  MAX_ADAPTIVE_EXACT_EVALUATIONS <- 128, MaxPositions <- 2, Liquidity <- {200},
  SwapPrices <- {205, 232, 256, 285, 320},
  FeeSets <- {[zfo \in BOOLEAN |-> 0], [zfo \in BOOLEAN |-> IF zfo THEN 3 ELSE 7]},
  Tops <- {[bid |-> 100, ask |-> 101], [bid |-> 150, ask |-> 152], [bid |-> 60, ask |-> 61]},
  Amounts <- {1, 2, 10, 27}, pool <- v1, positions <- v2, top <- v3

(* PreparedPools: two pools, and more logs than a cache has entries.        *)
Prepared == INSTANCE PreparedPools WITH
  Pools <- {"p1", "p2"}, MaxLogs <- 3, MaxQuotes <- 2, MaxDrops <- 1, CacheSize <- 1,
  pushed <- v1, logs <- v2, mirror <- v3, gen <- v4, prepared <- v5, cache <- v6,
  batch <- v7, loop <- v8, built <- v9, book <- v10, feedReady <- v11, drops <- v12,
  adaptive <- v13, sizing <- v14, late <- v15, submitted <- v16, failed <- v17

----------------------------------------------------------------------------
Init ==
  \/ part = "dex" /\ Dex!Init /\ Off16
  \/ part = "events" /\ Events!EventInit /\ Off7
  \/ part = "hydration" /\ Hydration!HydInit /\ Off5
  \/ part = "fee" /\ Fee!FeeInit /\ Off6
  \/ part = "quotes" /\ Quotes!QuoteInit /\ Off4
  \/ part = "prepared" /\ Prepared!PoolInit
Next ==
  /\ UNCHANGED part
  /\ \/ part = "dex" /\ Dex!Next /\ UNCHANGED From16
     \/ part = "events" /\ Events!EventNext /\ UNCHANGED From7
     \/ part = "hydration" /\ Hydration!HydNext /\ UNCHANGED From5
     \/ part = "fee" /\ Fee!FeeNext /\ UNCHANGED From6
     \/ part = "quotes" /\ Quotes!QuoteNext /\ UNCHANGED From4
     \/ part = "prepared" /\ Prepared!PoolNext
Spec == Init /\ [][Next]_<<part, V>>

(* One part alone.                                                          *)
DexSpec ==
  /\ part = "dex" /\ Dex!Init /\ Off16
  /\ [][UNCHANGED part /\ Dex!Next /\ UNCHANGED From16]_<<part, V>>

----------------------------------------------------------------------------
(* A mirror in service equals the pool at the frontier it claims, and at    *)
(* the tip once everything published was applied; the second copy of an own *)
(* swap never takes a static-fee pool down (dex/mirror.rs, alchemy.rs).     *)
MirrorIsExact ==
  part = "dex" => Dex!PrefixExact /\ Dex!SettledExact /\ Dex!StaticCopiesHarmless

(* Every log that moves a followed pool reaches it, read with the layout of *)
(* its provider, and no other does (dex/events.rs).                         *)
EventsReachTheirPool == part = "events" => Events!EventsReachTheirPool

(* A hydration that succeeds is the state of one block, whatever is mined   *)
(* between its batches (dex/hydration.rs).                                  *)
SnapshotOfOneBlock == part = "hydration" => Hydration!SnapshotOfOneBlock

(* Within the horizon of its hydration the projection of an adaptive fee is *)
(* the contract's fee (dex/camelot_fee.rs).                                 *)
FreshProjectionExact == part = "fee" => Fee!FreshProjectionExact

(* Ticks and liquidity are those of the chain's positions, prepared curves  *)
(* answer as the swap loop does, a size can always be evaluated and hedged, *)
(* and the one chosen is the largest worth trading (dex/clmm.rs,            *)
(* opportunity.rs, engine.rs).                                              *)
QuotesAreExact ==
  part = "quotes" => /\ Quotes!LiquidityIsExact /\ Quotes!PreparedQuotesExact
                     /\ Quotes!EvaluationNeverFails /\ Quotes!SizeAtTheEdge

(* Curves and what is cached from them are the pool as the engine knows it, *)
(* no admission fails for want of one, and a plan is submitted only for the *)
(* newest book and pool state, however long its sizing took                 *)
(* (opportunity.rs, engine.rs).                                             *)
PlansAreCurrent ==
  /\ [](part = "prepared" => Prepared!CurvesAreCurrent /\ Prepared!AdmissionNeverFails)
  /\ [][part = "prepared" => Prepared!PlanIsCurrent]_<<part, V>>

(* dex/mirror.rs recognises every second copy of a log: see DexMirror.      *)
NoNeedlessFailure == Dex!NoNeedlessFailure
=============================================================================
