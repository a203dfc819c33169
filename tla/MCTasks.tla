------------------------------ MODULE MCTasks ------------------------------
(***************************************************************************)
(* Instances of the modules about the process, its tasks and its sessions.  *)
(* They do not interact here: `part` chooses one of them in the initial     *)
(* state, and v1, v2, ... are that module's variables, in the order of its  *)
(* declaration.  One run so checks them all.                                *)
(***************************************************************************)
EXTENDS Integers, Sequences

VARIABLES part, v1, v2, v3, v4, v5, v6, v7, v8, v9, v10, v11, v12, v13, v14,
          v15, v16, v17
V == <<v1, v2, v3, v4, v5, v6, v7, v8, v9, v10, v11, v12, v13, v14, v15, v16, v17>>

(* The variables a module leaves over.                                      *)
Off15 == v15 = 0 /\ v16 = 0 /\ v17 = 0
Off14 == v14 = 0 /\ Off15
Off10 == v10 = 0 /\ v11 = 0 /\ v12 = 0 /\ v13 = 0 /\ Off14
Off8 == v8 = 0 /\ v9 = 0 /\ Off10
Off7 == v7 = 0 /\ Off8
Off5 == v5 = 0 /\ v6 = 0 /\ Off7
From15 == <<v15, v16, v17>>
From14 == <<v14, From15>>
From10 == <<v10, v11, v12, v13, From14>>
From8 == <<v8, v9, From10>>
From7 == <<v7, From8>>
From5 == <<v5, v6, From7>>

----------------------------------------------------------------------------
(* BinanceOrders: two client order ids and two restarts.                    *)
Lane == INSTANCE BinanceOrders WITH
  Orders <- {"o1", "o2"}, MaxQuantity <- 2, LateArrival <- FALSE, MaxCrashes <- 2,
  journal <- v1, disk <- v2, poisoned <- v3, worker <- v4, queue <- v5, exchange <- v6,
  placed <- v7, answer <- v8, crashes <- v9
ASSUME OrdersHold == Lane!OrdersAssumption

(* BinanceSession: more calls than the queue holds, a channel of one event. *)
Sess == INSTANCE BinanceSession WITH
  MaxCalls <- 3, MaxEvents <- 2, EventCapacity <- 1,
  phase <- v1, link <- v2, toVenue <- v3, wire <- v4, early <- v5, commands <- v6,
  pending <- v7, held <- v8, channel <- v9, seen <- v10, loop <- v11, calls <- v12,
  executed <- v13, issued <- v14

(* ReadLanes: three batches for a lane of one and a queue of one, and a     *)
(* caller outside the lane.                                                 *)
Reads == INSTANCE ReadLanes WITH
  Batchers <- {1, 2, 3}, Direct <- {4}, max_concurrency <- 1,
  max_queued <- 1, chunk_size <- 2, BatchLength <- 3, MAX_RATE_LIMIT_RETRIES <- 2,
  MAX_BLOCK_PROPAGATION_RETRIES <- 1,
  queued <- v1, free <- v2, line <- v3, caller <- v4

(* OpportunityMailbox: a restart that finds one plan executing.             *)
Mail == INSTANCE OpportunityMailbox WITH
  Strategies <- {"s1", "s2"}, Generations <- {1, 2, 3},
  Leftovers <- [p \in {<<"s1", 1>>} |-> "executing"], MaxHandles <- 2,
  pending_by_strategy <- v1, round_robin <- v2, lane <- v3, senders <- v4,
  receiver_open <- v5, permit <- v6, woken <- v7, task <- v8, current <- v9,
  resume <- v10, events <- v11, reservation <- v12, unresolved <- v13
ASSUME MailboxHolds == Mail!MailboxAssumption /\ Mail!OneLeftover

(* TradeCoordinator: three parents of two strategies.                       *)
Trade == INSTANCE TradeCoordinator WITH
  Plans <- 1..3, StrategyOf <- <<"s", "t", "s">>, Modes <- {"dex_first"},
  Directions <- {1}, Quantity <- 1, DexCredits <- {1}, LotStep <- 2, BuyFees <- {0},
  Prices <- {1}, Drift <- {}, MaxCrashes <- 1,
  op <- v1, unresolved <- v2, pc <- v3, plan <- v4, resuming <- v5, resumed <- v6,
  calls <- v7, backoff <- v8, stopped <- v9, event <- v10, child <- v11, asked <- v12,
  expired <- v13, crashes <- v14

(* BalanceSync: channels of one and three blocks.                           *)
Bal == INSTANCE BalanceSync WITH
  Horizon <- 3, ChannelCap <- 1,
  block <- v1, minedAt <- v2, filled <- v3, streamAt <- v4, headWatch <- v5,
  headChanged <- v6, walletTask <- v7, restTask <- v8, walletChan <- v9, restChan <- v10,
  userChan <- v11, walletGen <- v12, observed <- v13, snapshot <- v14, reservation <- v15

(* ProcessLifecycle: two pods that overlap, a venue as reviewed and one     *)
(* whose routes and limits have changed.                                    *)
Life == INSTANCE ProcessLifecycle WITH
  Pods <- {"p1", "p2"}, MaxStarts <- 2, MaxChanges <- 1,
  Venues <- {{"matrix", "notional", "rules", "wldRules", "routes"}, {"rules", "wldRules"}},
  stage <- v1, plan <- v2, marker <- v3, tasks <- v4, lock <- v5, account <- v6,
  events <- v7, view <- v8, espReady <- v9, venue <- v10, chain <- v11, mailbox <- v12,
  trading <- v13, unresolved <- v14, moving <- v15, starts <- v16, changes <- v17
ASSUME PodsHold == Life!PodsAssumption

(* ResourceBalances: two resources and a window of two steps.               *)
Resources == INSTANCE ResourceBalances WITH
  Evm <- {"bridge"}, Trusted <- {}, Window <- 2, MaxTime <- 3, MaxBalance <- 2,
  now <- v1, histories <- v2, validated <- v3, reported <- v4, observed <- v5

(* PretradeCost: one route with a history of its own and one without.       *)
Cost == INSTANCE PretradeCost WITH
  Routes <- {"r1", "r2"}, Depth <- 2, MAX_RECEIPT_ROUTES <- 1, IncludesL1Fee <- TRUE,
  Ttl <- 1, MaxTime <- 3, MaxPublished <- 3,
  clock <- v1, history <- v2, slots <- v3, published <- v4, values <- v5, candidate <- v6,
  payload <- v7

(* HotTelemetry: channels of one record.                                    *)
Telemetry == INSTANCE HotTelemetry WITH
  Capacity <- 1, BatchSize <- 2, MaxRecords <- 5,
  channel <- v1, senders <- v2, open <- v3, hot_dropped <- v4, sink_dropped <- v5,
  sink <- v6, batch <- v7, sink_open <- v8, writer <- v9, stored <- v10, lost <- v11,
  emitted <- v12

(* EntryPreflight: prices at which the plan pays, just pays and loses.      *)
Preflight == INSTANCE EntryPreflight WITH
  Adaptive <- TRUE, AmountIn <- 3, Outs <- {0, 3, 5}, Tops <- {2, 3}, Quantities <- {1, 2},
  PriceScale <- 2, MaxSilence <- 1, MaxHeadAge <- 1, MaxTime <- 2, MaxChanges <- 2,
  now <- v1, quote <- v2, transport <- v3, head <- v4, pool <- v5, mirror <- v6,
  opportunity <- v7, verdict <- v8, limit <- v9, changes <- v10
ASSUME PreflightHolds == Preflight!PreflightAssumption

----------------------------------------------------------------------------
Init ==
  \/ part = "orders" /\ Lane!Init /\ Off10
  \/ part = "session" /\ Sess!SessInit /\ Off15
  \/ part = "reads" /\ Reads!LaneInit /\ Off5
  \/ part = "mailbox" /\ Mail!Init /\ Off14
  \/ part = "trade" /\ Trade!Init /\ Off15
  \/ part = "preflight" /\ Preflight!PreflightInit /\ v11 = 0 /\ v12 = 0 /\ v13 = 0 /\ Off14
  \/ part = "balances" /\ Bal!BalInit /\ v16 = 0 /\ v17 = 0
  \/ part = "process" /\ Life!LifeInit
  \/ part = "resources" /\ Resources!ResInit /\ v6 = 0 /\ Off7
  \/ part = "cost" /\ Cost!CostInit /\ Off8
  \/ part = "telemetry" /\ Telemetry!TelemetryInit /\ v13 = 0 /\ Off14
Next ==
  /\ UNCHANGED part
  /\ \/ part = "orders" /\ Lane!Next /\ UNCHANGED From10
     \/ part = "session" /\ Sess!SessNext /\ UNCHANGED From15
     \/ part = "reads" /\ Reads!LaneNext /\ UNCHANGED From5
     \/ part = "mailbox" /\ Mail!Next /\ UNCHANGED From14
     \/ part = "trade" /\ Trade!Next /\ UNCHANGED From15
     \/ part = "preflight" /\ Preflight!PreflightNext /\ UNCHANGED <<v11, v12, v13, From14>>
     \/ part = "balances" /\ Bal!BalNext /\ UNCHANGED <<v16, v17>>
     \/ part = "process" /\ Life!LifeNext
     \/ part = "resources" /\ Resources!ResNext /\ UNCHANGED <<v6, From7>>
     \/ part = "cost" /\ Cost!CostNext /\ UNCHANGED From8
     \/ part = "telemetry" /\ Telemetry!TelemetryNext /\ UNCHANGED <<v13, From14>>
Spec == Init /\ [][Next]_<<part, V>>

----------------------------------------------------------------------------
(* The order lane's answers are true of the exchange, and no client order   *)
(* id is placed twice (binance/execution.rs).                               *)
AnswersAreTrue == part = "orders" => Lane!AnswersAreTrue /\ Lane!PlacedAtMostOnce

(* The order lane implements OneShotOrder (binance/execution.rs).           *)
KeepsPromise ==
  /\ part = "orders" => Lane!Promise!Init
  /\ [][part = "orders" => Lane!Promise!Next \/ UNCHANGED Lane!Promise!vars]_<<part, V>>

(* Callers of the Binance session and of the read lanes are told what       *)
(* became of their own request; events come in order, and nothing is sent   *)
(* after an unknown outcome (binance/user_data.rs, network_runtime.rs).     *)
CallsAreExact ==
  /\ [](part = "session" => Sess!AnswerIsOwn /\ Sess!EventsInOrder)
  /\ [](part = "reads" => Reads!BatchIsExact /\ Reads!LaneAccounted)
  /\ [][part = "session" => Sess!SendsWhenKnown]_<<part, V>>

(* Inventory is held for exactly the plans that need it, and a finished     *)
(* plan is settled before the next is taken, after a restart that left at   *)
(* most one plan (arbitrage.rs, engine.rs).                                 *)
ReservationsAccounted ==
  /\ [](part = "mailbox" => Mail!ReservationsAccounted)
  /\ [][part = "mailbox" => Mail!TakesWhenSettled]_<<part, V>>

(* However two processes overlap, one of them moves funds, its readiness    *)
(* marker is its own, and a pair that failed closed stays closed (main.rs). *)
OneMutator ==
  /\ [](part = "process" => Life!MarkerIsFresh /\ Life!OneMutator)
  /\ [][part = "process" => Life!EspStaysClosed]_<<part, V>>

(* What the process believes of its balances is what they are: no event is  *)
(* lost between snapshot and subscription, and inventory and engine show    *)
(* the same block (main.rs, balances.rs, inventory.rs).                     *)
ViewsCatchUp ==
  /\ part = "process" => Life!AccountCaughtUp
  /\ part = "balances" => Bal!OneWalletView

(* A strategy has one parent that is not terminal, and the index of         *)
(* unresolved parents is the one a restart would compute (arbitrage.rs).    *)
ParentsAccounted == part = "trade" => Trade!ParentsAccounted

(* An entry passes the check only while what is published still pays for it *)
(* (EntryPreflightHandle of arbitrage.rs).                                  *)
EntryStillPays == part = "preflight" => Preflight!EntryStillPays

(* What is reported is what happened: costs as of the decision, every       *)
(* record stored or counted as lost, consumption exactly of its window      *)
(* (hot_telemetry.rs, pretrade_cost.rs, resource_balances.rs).              *)
TelemetryIsTrue ==
  /\ [](part = "telemetry" => Telemetry!NoRecordVanishes)
  /\ [](part = "resources" => Resources!WindowExact)
  /\ [][part = "cost" => Cost!WorkedOutAsOf]_<<part, V>>
=============================================================================
