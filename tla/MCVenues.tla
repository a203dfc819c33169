------------------------------ MODULE MCVenues ------------------------------
(***************************************************************************)
(* Instances of the modules about the venues: the market feed, swaps and    *)
(* their allowances, bridges, the rebalancing lane and its planner, and the *)
(* operator's command.  They do not interact here: `part` chooses one of    *)
(* them in the initial state, and v1, v2, ... are that module's variables,  *)
(* in the order of its declaration.  One run so checks them all.            *)
(***************************************************************************)
EXTENDS Integers, Sequences

VARIABLES part, v1, v2, v3, v4, v5, v6, v7, v8, v9, v10, v11, v12, v13
V == <<v1, v2, v3, v4, v5, v6, v7, v8, v9, v10, v11, v12, v13>>

(* The variables a module leaves over.                                      *)
Off12 == v12 = 0 /\ v13 = 0
Off10 == v10 = 0 /\ v11 = 0 /\ Off12
Off7 == v7 = 0 /\ v8 = 0 /\ v9 = 0 /\ Off10
From12 == <<v12, v13>>
From10 == <<v10, v11, From12>>
From7 == <<v7, v8, v9, From10>>

----------------------------------------------------------------------------
(* MarketFeed: books whose sides change independently, so that a lost       *)
(* update leaves a level the next one does not touch; three updates on the  *)
(* symbol with a depth stream, one on the other.                            *)
Book(bids, asks) == [bids |-> bids, asks |-> asks]
Market == INSTANCE MarketFeed WITH
  Symbols <- {1, 2}, DepthSymbol <- 1,
  Books <- {Book({1}, {4}), Book({1, 2}, {4}), Book({1, 2}, {3, 4})},
  MaxUpdates <- <<3, 1>>, MaxWire <- 1, MaxGeneration <- 2, MaxSilence <- 0,
  FastPath <- FALSE,
  hist <- v1, last <- v2, sent <- v3, wire <- v4, sock <- v5, syncing <- v6,
  generation <- v7, depth <- v8, pending <- v9, runtime <- v10, matched <- v11,
  evaluated <- v12, preflight <- v13

(* SwapPlan: a pair with two pools on every provider that can have two, and *)
(* offers with every edge of the builder's checks.                          *)
V4Key(fee, spacing) == <<1, 2, fee, spacing, 7>>
FeeState(otz) ==
  [zto |-> 1, otz |-> otz, maxZto |-> 2, maxOtz |-> otz + 1, first |-> 2, last |-> 3]
Pool(kind, id, fee, state) ==
  [kind |-> kind, id |-> id, fee |-> fee, state |-> state, pair |-> "p",
   token0 |-> 1, token1 |-> 2]
NoFeeState == [kind |-> "nil"]
Routed ==
  {Pool("UniswapV3", <<11>>, 1, NoFeeState), Pool("UniswapV3", <<12>>, 2, NoFeeState),
   Pool("PancakeSwapV3", <<21>>, 1, NoFeeState), Pool("PancakeSwapV3", <<22>>, 2, NoFeeState),
   Pool("CamelotV3", <<31>>, 0, FeeState(2)), Pool("LynexAlgebraV1_9", <<41>>, 0, FeeState(1)),
   Pool("UniswapV4", V4Key(1, 1), 1, NoFeeState), Pool("UniswapV4", V4Key(1, 2), 1, NoFeeState)}
Unusable ==
  {Pool("UniswapV4", V4Key(2, 2), 2, NoFeeState),
   Pool("LynexAlgebraV1_9", <<41>>, 0, FeeState(2)),
   [Pool("UniswapV3", <<11>>, 1, NoFeeState) EXCEPT !.pair = "q"]}
Plan == INSTANCE SwapPlan WITH
  Pools <- Routed,
  Pair <- [id |-> "p", a |-> 2, b |-> 1,    \* token A is the larger address
           routers |-> [UniswapV3 |-> 101, PancakeSwapV3 |-> 102, CamelotV3 |-> 103,
                        LynexAlgebraV1_9 |-> 104, UniswapV4 |-> 105],
           v4 |-> {[fee |-> 1, spacing |-> s, hooks |-> 7] : s \in {1, 2}}],
  WALLET <- <<50>>,
  Offers <- [pool : Routed \cup Unusable, buy : BOOLEAN, in : {0, 2}, min : {0, 1, 2},
             generation : {0, 1}, deadline : {0, 1, 3}],
  MaxOut <- 3, MaxTime <- 4,
  offer <- v1, plan <- v2, call <- v3, receipt <- v4, outcome <- v5, stage <- v6

(* SwapService: a swap and a capital transfer, each asked for twice.        *)
Service == INSTANCE SwapService WITH
  Swaps <- {"s"}, Capital <- {"c"},
  Networks <- {"WorldChainV12", "ArbitrumOne", "LineaMainnet"},
  Retries <- 1, Capacity <- 1, GAS_PRICE_CACHE_TTL <- 2, RAILS_FALLBACK_GAS_PRICE_WEI <- 1,
  RAILS_PRIORITY_FEE_WEI <- 2, max_fee_headroom_bps <- 12000, Prices <- {0, 3},
  Estimates <- {0, 2, 5}, MAX_GAS_LIMIT <- 4, HISTORICAL_SWAP_GAS_LIMIT <- 3,
  CAMELOT_V3_SWAP_GAS_LIMIT <- 2, LYNEX_ALGEBRA_V1_9_SWAP_GAS_LIMIT <- 1,
  CAPITAL_TRANSFER_GAS_LIMIT <- 1, Additional <- {0, 2}, MaxAsks <- 2,
  network <- v1, gas <- v2, refresh <- v3, queue <- v4, capital <- v5, worker <- v6,
  journal <- v7, tx <- v8, last_terminal_receipt <- v9, signed <- v10, answer <- v11,
  asks <- v12

(* Allowances: two tokens, and a second start-up after approvals expired.   *)
Allow == INSTANCE Allowances WITH
  Tokens <- {"A", "B"}, Networks <- {"WorldChainV12", "ArbitrumOne", "LineaMainnet"},
  MaxBalance <- 2, PERMIT2_APPROVAL_VALIDITY <- 2, PERMIT2_MIN_REMAINING_VALIDITY <- 1,
  MaxClock <- 3, MaxStarts <- 2,
  network <- v1, balance <- v2, allowed <- v3, permit <- v4, approvals <- v5, phase <- v6,
  todo <- v7, starts <- v8, clock <- v9

(* AcrossBridge: quotes that expire.                                        *)
Across == INSTANCE AcrossBridge WITH
  Amount <- 2, MaxTime <- 2,
  stage <- v1, request <- v2, terms <- v3, now <- v4, allowance <- v5, approved <- v6,
  deposit <- v7, credit <- v8, received <- v9

(* OperatorRecovery: the code's three attempts, and runs to repeat them.    *)
Operator == INSTANCE OperatorRecovery WITH
  MAX_RECOVERY_ATTEMPTS <- 3, Target <- 2, MaxRuns <- 4,
  trade <- v1, journal <- v2, exchange <- v3, cmd <- v4, base_fee <- v5, runs <- v6

(* RebalanceLane: an engine with two tokens.                                *)
Lane == INSTANCE RebalanceLane WITH
  Engines <- <<"world">>, TokensOf <- [e \in {"world"} |-> <<"USDC", "WLD">>],
  PlanFails <- FALSE,
  eng <- v1, inv <- v2, lane <- v3, worker <- v4, result <- v5, quar <- v6,
  missing <- v7, stalePlan <- v8

(* CapitalPlanning: a direct network that takes no withdrawals, and Across  *)
(* behind it.                                                               *)
Network(kind, withdraw, minimum, multiple) ==
  [kind |-> kind, deposit |-> TRUE, withdraw |-> withdraw, minimum |-> minimum,
   maximum |-> 9, multiple |-> multiple]
Planner == INSTANCE CapitalPlanning WITH
  Total <- 12, StartBps <- 4000, Capital <- [depositAll |-> TRUE, withdrawAll |-> TRUE],
  Networks <- <<Network("direct", FALSE, 1, 1), Network("across", TRUE, 6, 3)>>,
  RuntimeCap <- 7, DebitCap <- 6, FeeCap <- 1, TradeSizes <- {2, 5}, MaxTrades <- 2,
  bal <- v1, seen <- v2, ref <- v3, plan <- v4, trade <- v5, op <- v6, barrier <- v7,
  trades <- v8, quiet <- v9, last <- v10, stopped <- v11

----------------------------------------------------------------------------
Init ==
  \/ part = "market" /\ Market!Init
  \/ part = "plan" /\ Plan!SwapInit /\ Off7
  \/ part = "service" /\ Service!ServiceInit /\ v13 = 0
  \/ part = "allowances" /\ Allow!AllowInit /\ Off10
  \/ part = "across" /\ Across!AcrossInit /\ Off10
  \/ part = "operator" /\ Operator!RecoveryInit /\ Off7
  \/ part = "lane" /\ Lane!Init /\ v9 = 0 /\ Off10
  \/ part = "planner" /\ Planner!Init /\ Off12
Next ==
  /\ UNCHANGED part
  /\ \/ part = "market" /\ Market!Next
     \/ part = "plan" /\ Plan!SwapNext /\ UNCHANGED From7
     \/ part = "service" /\ Service!ServiceNext /\ UNCHANGED v13
     \/ part = "allowances" /\ Allow!AllowNext /\ UNCHANGED From10
     \/ part = "across" /\ Across!AcrossNext /\ UNCHANGED From10
     \/ part = "operator" /\ Operator!RecoveryNext /\ UNCHANGED From7
     \/ part = "lane" /\ Lane!Next /\ UNCHANGED <<v9, From10>>
     \/ part = "planner" /\ Planner!Next /\ UNCHANGED From12
Spec == Init /\ [][Next]_<<part, V>>

----------------------------------------------------------------------------
(* The depth book is the exchange's, no engine waits on a dead connection,  *)
(* what the trade task trusts is what the engine holds, and no quote is     *)
(* skipped as already seen (market_data/binance.rs, binance/depth.rs,       *)
(* engine.rs, arbitrage.rs).                                                *)
FeedIsExact ==
  part = "market" => /\ Market!DepthIsExact /\ Market!NoOrphanedFeed
                     /\ Market!PreflightNeverAhead /\ Market!MarkNeverAhead

(* A mined swap is the one the engine chose, and is accounted as what it    *)
(* moved (execution_plan.rs, dex/calldata.rs, dex/execution.rs).            *)
PlannedSwapAccounted == part = "plan" => Plan!PlannedSwapAccounted

(* The swap service's answers are true of the chain, what it signs is       *)
(* within policy, and no allowance it relies on is short                    *)
(* (dex/execution.rs).                                                      *)
SwapAnswersTrue ==
  /\ part = "service" => Service!ServiceAnswersTrue /\ Service!SignedWithinPolicy
  /\ part = "allowances" => Allow!AllowancesOutliveTheLock

(* A bridge transfer pays the requested wallet within the terms quoted, or  *)
(* it is never sent (across.rs, rebalance/runtime.rs).                      *)
BridgeKeepsTheTerms == part = "across" => Across!BridgeKeepsTheTerms

(* The operator's recovery closes the exposure once, whatever the earlier   *)
(* attempts had come to (arbitrage.rs, binance/execution.rs, main.rs).      *)
RecoveredOnce == part = "operator" => Operator!RecoveredOnce

(* The lane is busy exactly while the worker is occupied, a transfer is not *)
(* planned back, and none is submitted from a balance of before the last    *)
(* one (main.rs, rebalance/tracker.rs, engine.rs).                          *)
RebalanceNotRepeated ==
  /\ [](part = "lane" => Lane!LaneMatchesWorker)
  /\ [](part = "planner" => Planner!TransferNotUndone)
  /\ [][part = "lane" => Lane!SubmitsFreshPlan]_<<part, V>>
=============================================================================
