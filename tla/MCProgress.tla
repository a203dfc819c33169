----------------------------- MODULE MCProgress ------------------------------
(***************************************************************************)
(* Small instances of the modules that promise that something happens, with *)
(* the fairness each of them assumes.  They do not interact here: `part`    *)
(* chooses one of them in the initial state, and v1, v2, ... are that       *)
(* module's variables, in the order of its declaration.  MCTasks has their  *)
(* safety, on larger instances.                                             *)
(***************************************************************************)
EXTENDS Integers, Sequences

VARIABLES part, v1, v2, v3, v4, v5, v6, v7, v8, v9, v10, v11, v12, v13, v14,
          v15, v16, v17
V == <<v1, v2, v3, v4, v5, v6, v7, v8, v9, v10, v11, v12, v13, v14, v15, v16, v17>>

(* The variables a module leaves over.                                      *)
Off15 == v15 = 0 /\ v16 = 0 /\ v17 = 0
Off14 == v14 = 0 /\ Off15
Off10 == v10 = 0 /\ v11 = 0 /\ v12 = 0 /\ v13 = 0 /\ Off14
Off5 == v5 = 0 /\ v6 = 0 /\ v7 = 0 /\ v8 = 0 /\ v9 = 0 /\ Off10
From15 == <<v15, v16, v17>>
From14 == <<v14, From15>>
From10 == <<v10, v11, v12, v13, From14>>
From5 == <<v5, v6, v7, v8, v9, From10>>

(* A step of one part, and what it leaves alone.                            *)
Of(name, A, rest) == part = name /\ A /\ UNCHANGED <<part, rest>>

----------------------------------------------------------------------------
(* BinanceOrders: one client order id and a restart.                        *)
Lane == INSTANCE BinanceOrders WITH
  Orders <- {"o1"}, MaxQuantity <- 1, LateArrival <- FALSE, MaxCrashes <- 1,
  journal <- v1, disk <- v2, poisoned <- v3, worker <- v4, queue <- v5, exchange <- v6,
  placed <- v7, answer <- v8, crashes <- v9

(* BinanceSession: two calls, a channel of one event.                       *)
Sess == INSTANCE BinanceSession WITH
  MaxCalls <- 2, MaxEvents <- 2, EventCapacity <- 1,
  phase <- v1, link <- v2, toVenue <- v3, wire <- v4, early <- v5, commands <- v6,
  pending <- v7, held <- v8, channel <- v9, seen <- v10, loop <- v11, calls <- v12,
  executed <- v13, issued <- v14

(* ReadLanes: three batches for a lane of one and a queue of one, and a     *)
(* caller outside the lane.                                                 *)
Readers == 1..4
Reads == INSTANCE ReadLanes WITH
  Batchers <- {1, 2, 3}, Direct <- {4}, max_concurrency <- 1,
  max_queued <- 1, chunk_size <- 2, BatchLength <- 3, MAX_RATE_LIMIT_RETRIES <- 2,
  MAX_BLOCK_PROPAGATION_RETRIES <- 1,
  queued <- v1, free <- v2, line <- v3, caller <- v4

(* OpportunityMailbox: a restart that finds one plan executing.             *)
Pairs == <<"s1", "s2">>
Mail == INSTANCE OpportunityMailbox WITH
  Strategies <- {"s1", "s2"}, Generations <- {1, 2},
  Leftovers <- [p \in {<<"s1", 1>>} |-> "executing"], MaxHandles <- 2,
  pending_by_strategy <- v1, round_robin <- v2, lane <- v3, senders <- v4,
  receiver_open <- v5, permit <- v6, woken <- v7, task <- v8, current <- v9,
  resume <- v10, events <- v11, reservation <- v12, unresolved <- v13

(* SizingScheduler: more strategies than workers.                           *)
Sizing == INSTANCE SizingScheduler WITH
  Strategies <- 3, MaximumRunning <- 2, running <- v1, pending <- v2, next_index <- v3

(* TradeCoordinator: one parent in either mode, whose deadline does not     *)
(* pass.                                                                    *)
Trade == INSTANCE TradeCoordinator WITH
  Plans <- {1}, StrategyOf <- <<"s">>, Modes <- {"dex_first", "concurrent"},
  Directions <- {1}, Quantity <- 1, DexCredits <- {1}, LotStep <- 1, BuyFees <- {0},
  Prices <- {1}, Drift <- {}, MaxCrashes <- 1,
  op <- v1, unresolved <- v2, pc <- v3, plan <- v4, resuming <- v5, resumed <- v6,
  calls <- v7, backoff <- v8, stopped <- v9, event <- v10, child <- v11, asked <- v12,
  expired <- v13, crashes <- v14

(* BalanceSync: channels of one and three blocks.                           *)
Bal == INSTANCE BalanceSync WITH
  Horizon <- 3, ChannelCap <- 1,
  block <- v1, minedAt <- v2, filled <- v3, streamAt <- v4, headWatch <- v5,
  headChanged <- v6, walletTask <- v7, restTask <- v8, walletChan <- v9, restChan <- v10,
  userChan <- v11, walletGen <- v12, observed <- v13, snapshot <- v14, reservation <- v15

(* ProcessLifecycle: one pod.                                               *)
Life == INSTANCE ProcessLifecycle WITH
  Pods <- {"p1"}, MaxStarts <- 1, MaxChanges <- 1,
  Venues <- {{"matrix", "notional", "rules", "wldRules", "routes"}},
  stage <- v1, plan <- v2, marker <- v3, tasks <- v4, lock <- v5, account <- v6,
  events <- v7, view <- v8, espReady <- v9, venue <- v10, chain <- v11, mailbox <- v12,
  trading <- v13, unresolved <- v14, moving <- v15, starts <- v16, changes <- v17

----------------------------------------------------------------------------
Init ==
  \/ part = "orders" /\ Lane!Init /\ Off10
  \/ part = "session" /\ Sess!SessInit /\ Off15
  \/ part = "reads" /\ Reads!LaneInit /\ Off5
  \/ part = "mailbox" /\ Mail!Init /\ Off14
  \/ part = "sizing" /\ Sizing!SlotInit /\ v4 = 0 /\ Off5
  \/ part = "trade" /\ Trade!Init /\ Off15
  \/ part = "balances" /\ Bal!BalInit /\ v16 = 0 /\ v17 = 0
  \/ part = "process" /\ Life!LifeInit
Next ==
  \/ Of("orders", Lane!Next, From10)
  \/ Of("session", Sess!SessNext, From15)
  \/ Of("reads", Reads!LaneNext, From5)
  \/ Of("mailbox", Mail!Next, From14)
  \/ Of("sizing", Sizing!SlotNext, <<v4, From5>>)
  \/ Of("trade", Trade!Next, From15)
  \/ Of("balances", Bal!BalNext, <<v16, v17>>)
  \/ Of("process", Life!LifeNext, <<>>)

(* The fairness each module states of its own steps.  Only one part ever    *)
(* takes steps, so weak fairness of the k-th fair step of whichever part it *)
(* is says the same as weak fairness of each.                               *)
FairOrders(k) ==
  \/ k = 1 /\ Lane!Serve("o1")
  \/ k = 2 /\ Lane!ReconcileStartup
FairSession(k) ==
  \/ k = 1 /\ Sess!Session
  \/ k = 2 /\ Sess!next_event
FairReads(k) ==
  \E c \in Readers :
    \/ k = c /\ Reads!Step(c)
    \/ k = c + 4 /\ Reads!QueueTimeout(c)
FairMailbox(k) ==
  \/ k = 1 /\ Mail!Recv
  \/ k = 2 /\ Mail!FinishPlan
  \/ k = 3 /\ Mail!OnPaperTradeEvent
  \/ k = 4 /\ Mail!ResumeDone
  \/ k = 5 /\ Mail!ResumePlan(<<"s1", 1>>)
FairSizing(k) ==
  \/ k = 1 /\ \E i \in 0..2 : Sizing!TakeReady(i)
  \/ k \in 2..4 /\ Sizing!Complete(k - 2)
FairTrade(k) ==
  \/ k = 1 /\ Trade!Step
  \/ k = 2 /\ Trade!BackoffElapses(1)
FairBalances(k) ==
  \/ k = 1 /\ Bal!MineBlock
  \/ k = 2 /\ Bal!RestTick
  \/ k = 3 /\ Bal!StreamHead("esp")
  \/ k = 4 /\ Bal!StreamHead("arb")
  \/ k = 5 /\ Bal!WalletBorrow
  \/ k = 6 /\ \E ok \in BOOLEAN : Bal!WalletAnswer(ok)
  \/ k = 7 /\ (Bal!ClockSynchronized \/ Bal!RestError)
  \/ k = 8 /\ Bal!RestSend
  \/ k = 9 /\ Bal!OnWalletEvent
  \/ k = 10 /\ Bal!OnBinanceEvent
FairProcess(k) ==
  \/ k = 1 /\ Life!TradeStep("p1")
  \/ k = 2 /\ Life!ShutdownStep("p1")
Fair(k) ==
  \/ Of("orders", FairOrders(k), From10)
  \/ Of("session", FairSession(k), From15)
  \/ Of("reads", FairReads(k), From5)
  \/ Of("mailbox", FairMailbox(k), From14)
  \/ Of("sizing", FairSizing(k), <<v4, From5>>)
  \/ Of("trade", FairTrade(k), From15)
  \/ Of("balances", FairBalances(k), <<v16, v17>>)
  \/ Of("process", FairProcess(k), <<>>)
Spec ==
  /\ Init /\ [][Next]_<<part, V>>
  /\ \A k \in 1..10 : WF_<<part, V>>(Fair(k))
  /\ SF_<<part, V>>(Of("balances", Bal!RestAnswer, <<v16, v17>>))

----------------------------------------------------------------------------
(* What was begun ends: an order holds its lane (binance/execution.rs), a   *)
(* caller waits for the session (binance/user_data.rs) or for a read        *)
(* (network_runtime.rs), a plan or a strategy for its turn (arbitrage.rs,   *)
(* strategy_runtime.rs), a reservation for its settlement (balances.rs,     *)
(* inventory.rs), a parent blocks all admissions (arbitrage.rs), a          *)
(* process works on after SIGTERM (main.rs): none of it for ever.  As with  *)
(* fairness, k counts the things of one part; where more than two are alike *)
(* it takes the first and the last.                                         *)
Many == [orders |-> 1, session |-> 2, reads |-> 2, mailbox |-> 2, sizing |-> 2,
         trade |-> 1, balances |-> 1, process |-> 1]
Reader(k) == IF k = 1 THEN 1 ELSE 4
Slot(k) == IF k = 1 THEN 0 ELSE 2
Owed(k) ==
  /\ k <= Many[part]
  /\ \/ part = "orders" /\ Lane!Occupied
     \/ part = "session" /\ Sess!Asking(k)
     \/ part = "reads" /\ v4[Reader(k)].pc # "idle"
     \/ part = "mailbox" /\ v1[Pairs[k]] # Mail!NoPlan
     \/ part = "sizing" /\ Slot(k) \in v2
     \/ part = "trade" /\ Trade!Blocking(1)
     \/ part = "balances" /\ v15.st = "Pending"
     \/ part = "process" /\ Life!At("p1", "stopping")
Ended(k) ==
  k <= Many[part] =>
    \/ part = "orders" /\ ~Lane!Occupied
    \/ part = "session" /\ ~Sess!Asking(k)
    \/ part = "reads" /\ v4[Reader(k)].pc = "idle"
    \/ part = "mailbox" /\ Mail!Reached(Pairs[k])
    \/ part = "sizing" /\ Slot(k) \in v1
    \/ part = "trade" /\ ~Trade!Blocking(1)
    \/ part = "balances" /\ v15.st = "Released"
    \/ part = "process" /\ Life!Settled("p1")
Ends == \A k \in 1..2 : Owed(k) ~> Ended(k)
=============================================================================
