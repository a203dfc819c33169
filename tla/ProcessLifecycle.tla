--------------------------- MODULE ProcessLifecycle ---------------------------
(***************************************************************************)
(* The life of the `run` process (main.rs): what start-up does and in which *)
(* order, the main loop's handling of signals and of tasks that end, and    *)
(* the shutdown after SIGTERM.  Two pods may overlap (a rollout), each with *)
(* a readiness marker that survives its container's restarts; the journals  *)
(* live on a shared volume and are guarded by advisory locks.               *)
(*                                                                          *)
(* The trades themselves are TradeCoordinator's: here one plan waits in the *)
(* mailbox, is journalled and runs until its parent is resolved.  So are    *)
(* rebalances RebalanceSaga's.  The Binance account is the version of its   *)
(* last change; a User Data event carries the version it was sent at.       *)
(* Every start-up step may return an error, which ends the process, frees   *)
(* its locks and leaves marker and journals as they are (Exit).             *)
(***************************************************************************)
EXTENDS Naturals, Sequences, FiniteSets

CONSTANTS Pods,
          MaxStarts,   \* bound: starts of a process, over all pods
          MaxChanges,  \* bound: plans, and changes of the account or the chain
          Venues       \* what may be true of Binance: subsets of VenueFacts

(* A journal that nobody holds is not held by a pod.                         *)
PodsAssumption == "free" \notin Pods

VARIABLES
  stage,      \* where each pod's process is
  plan,       \* the compiled artifact: which symbols execute
  marker,     \* RUNTIME_READY_FILE exists
  tasks,      \* the spawned tasks that run
  lock,       \* the process that holds each journal file, or "free"
  account,    \* version of the Binance account
  events,     \* User Data events not yet taken by the loop (Off: no session)
  view,       \* the account version the process starts from, then its engine's
  espReady,   \* esp_execution_ready and esp_market_data_ready
  venue,      \* what holds of Binance's symbols and capital routes
  chain,      \* what holds of the Arbitrum wallet, its contracts and its RPC
  mailbox,    \* the plan that waits for the trade task, or Nobody
  trading,    \* the plan the trade task executes, or Nobody
  unresolved, \* durable: the trade journal has an unresolved parent
  moving,     \* the rebalance executor is inside an operation
  starts, changes

lifeVars == <<stage, plan, marker, tasks, lock, account, events, view, espReady,
              venue, chain, mailbox, trading, unresolved, moving,
              starts, changes>>

Symbols == {"WLD", "ESP", "ARB", "LINEA"}
Files == {"rebalance", "wallet", "espWallet", "orders", "trades"}
Off == <<0>>
Nobody == "nobody"
VenueFacts == {"matrix", "notional", "rules", "wldRules", "routes"}
ChainFacts == {"contracts", "code", "router", "tokenA", "tokenB", "gasPrice", "native"}
Closed == [exec |-> FALSE, data |-> FALSE]

StartUp == <<"networks", "account", "validate", "readiness",
             "rebalance", "wallet", "espWallet", "orders", "trades",
             "engines", "drain">>
Shutdown == <<"stopping", "aborting", "closing", "trade", "hot", "writer">>
Stages == {"down", "loop"} \cup {StartUp[i] : i \in DOMAIN StartUp}
                           \cup {Shutdown[i] : i \in DOMAIN Shutdown}
Starting(p) == stage[p] \in {StartUp[i] : i \in DOMAIN StartUp}
Stopping(p) == stage[p] \in {Shutdown[i] : i \in DOMAIN Shutdown}
Up(p) == stage[p] # "down"

(* Steps of start-up follow each other as StartUp lists them.               *)
At(p, s) == stage[p] = s
Advance(p) ==
  LET i == CHOOSE k \in 1 .. Len(StartUp) : StartUp[k] = stage[p]
  IN  stage' = [stage EXCEPT ![p] = IF i = Len(StartUp) THEN "loop" ELSE StartUp[i + 1]]
Spawn(p, new) == tasks' = [tasks EXCEPT ![p] = @ \cup new]

(* try_lock of a journal: a second process returns an error instead.        *)
(* Mutant: a journal that is already locked is opened all the same.         *)
LockIgnored(f) == TRUE
Free(f) == lock[f] = "free"
Take(p, f) == lock' = [lock EXCEPT ![f] = p]
Without(held, p, fs) == [f \in Files |-> IF f \in fs /\ held[f] = p THEN "free" ELSE held[f]]

account_unchanged == UNCHANGED <<account, events, view>>
trade_unchanged == UNCHANGED <<mailbox, trading, unresolved>>
world_unchanged == UNCHANGED <<plan, starts, changes, venue, chain>>

----------------------------------------------------------------------------
(* main: the process that owns the readiness probe removes a marker left by *)
(* an earlier container before it does anything else.                       *)
(* Mutant: the marker of the earlier container stays. *)
MarkerKept(p) == UNCHANGED marker
StartMarker(p) == marker' = [marker EXCEPT ![p] = FALSE]
Start(p) ==
  /\ At(p, "down") /\ starts < MaxStarts
  /\ stage' = [stage EXCEPT ![p] = StartUp[1]]
  /\ StartMarker(p)
  /\ starts' = starts + 1
  /\ account_unchanged /\ trade_unchanged
  /\ UNCHANGED <<plan, tasks, lock, espReady, venue, chain, moving, changes>>

(* The reviewed strategy set: WLD and ESP execute, ARB and Linea observe.   *)
ReviewedPlan(executing) == executing = {"WLD", "ESP"}
(* The telemetry channel is made first, and `run` keeps its sender;         *)
(* initialize_dex of the four strategies: their streams run from here on.   *)
StreamTasks == {"dex", "espDex"}
ConnectNetworks(p) ==
  /\ At(p, "networks") /\ ReviewedPlan(plan)
  /\ Advance(p) /\ Spawn(p, {"writer"} \cup StreamTasks)
  /\ account_unchanged /\ trade_unchanged /\ world_unchanged
  /\ UNCHANGED <<marker, lock, espReady, moving>>

(* The User Data session is subscribed before the account is read: a change *)
(* is in the snapshot or in the events, or in both.                         *)
SubscribeUserData(p) ==
  /\ At(p, "account") /\ events[p] = Off
  /\ events' = [events EXCEPT ![p] = <<>>]
  /\ Spawn(p, {"session"})
  /\ trade_unchanged /\ world_unchanged
  /\ UNCHANGED <<stage, marker, lock, account, view, espReady, moving>>
(* Mutant: the account was read before the subscription; the events that
   came in between are not seen. *)
HydrateFirst(p) ==
  /\ At(p, "account") /\ events[p] # Off
  /\ view' = [view EXCEPT ![p] = IF events[p] = <<>> THEN account
                                 ELSE Head(events[p]) - 1]
  /\ events' = [events EXCEPT ![p] = <<>>]
  /\ Advance(p)
  /\ trade_unchanged /\ world_unchanged
  /\ UNCHANGED <<marker, tasks, lock, account, espReady, moving>>
HydrateAfterSubscription(p) ==
  /\ At(p, "account") /\ events[p] # Off
  /\ view' = [view EXCEPT ![p] = account]
  /\ Advance(p)
  /\ trade_unchanged /\ world_unchanged
  /\ UNCHANGED <<marker, tasks, lock, account, events, espReady, moving>>

(* The detector's notional clears the exchange's filters.                   *)
DetectorNotional(v) == "notional" \in v
(* The four order requests of ESP can be built, its detector's included: an *)
(* incomplete matrix is reported, and no more.                              *)
OrderMatrix(v) == "matrix" \in v /\ DetectorNotional(v)
(* Assets, steps and fees of ESP, ARB and Linea; of WLD, with its own       *)
(* detector's notional.                                                     *)
SymbolRulesMatch(v) == "rules" \in v
WldRulesMatch(v) == "wldRules" \in v
(* The direct and fallback capital routes the trackers are built on.        *)
CapitalRoutesOpen(v) == "routes" \in v
ValidateVenues(p) ==
  /\ At(p, "validate") /\ Advance(p)
  /\ SymbolRulesMatch(venue) /\ WldRulesMatch(venue)
  /\ CapitalRoutesOpen(venue)
  /\ Spawn(p, {"resources"})
  /\ account_unchanged /\ trade_unchanged /\ world_unchanged
  /\ UNCHANGED <<marker, lock, espReady, moving>>

(* inspect_chain_readiness_at: native gas is reported, the rest is required. *)
ChainReady(facts) ==
  {"contracts", "code", "router", "tokenA", "tokenB", "gasPrice"} \subseteq facts
(* The wallets are read and the Arbitrum chain is probed; the answer is     *)
(* ESP's first permission to enter.                                         *)
ProbeReadiness(p) ==
  /\ At(p, "readiness") /\ Advance(p)
  /\ espReady' = [espReady EXCEPT ![p] = [exec |-> ChainReady(chain), data |-> TRUE]]
  /\ account_unchanged /\ trade_unchanged /\ world_unchanged
  /\ UNCHANGED <<marker, tasks, lock, moving>>

(* RebalanceExecutor::hydrate and its reconciliations.                      *)
HydrateRebalance(p) ==
  /\ At(p, "rebalance") /\ Free("rebalance") /\ Take(p, "rebalance")
  /\ Advance(p)
  /\ account_unchanged /\ trade_unchanged /\ world_unchanged
  /\ UNCHANGED <<marker, tasks, espReady, moving>>

(* The World Chain signer: ESP must be ready before any allowance is set.   *)
HydrateWallet(p) ==
  /\ At(p, "wallet") /\ espReady[p].exec
  /\ Free("wallet") /\ Take(p, "wallet")
  /\ Advance(p)
  /\ account_unchanged /\ trade_unchanged /\ world_unchanged
  /\ UNCHANGED <<marker, tasks, espReady, moving>>
HydrateEspWallet(p) ==
  /\ At(p, "espWallet") /\ Free("espWallet") /\ Take(p, "espWallet")
  /\ Advance(p)
  /\ account_unchanged /\ trade_unchanged /\ world_unchanged
  /\ UNCHANGED <<marker, tasks, espReady, moving>>
SpawnOrders(p) ==
  /\ At(p, "orders") /\ Free("orders") /\ Take(p, "orders")
  /\ Advance(p)
  /\ account_unchanged /\ trade_unchanged /\ world_unchanged
  /\ UNCHANGED <<marker, tasks, espReady, moving>>
(* live_trade_channel and the spawned trade task, which resumes the         *)
(* unresolved parent while start-up goes on.                                *)
SpawnTrades(p) ==
  /\ At(p, "trades") /\ Free("trades") /\ Take(p, "trades")
  /\ Advance(p) /\ Spawn(p, {"trade", "diagnostics"})
  /\ trading' = [trading EXCEPT ![p] = IF unresolved THEN "resumed" ELSE Nobody]
  /\ account_unchanged /\ world_unchanged
  /\ UNCHANGED <<marker, espReady, mailbox, unresolved, moving>>

(* Balance tasks, engines, allocator, telemetry tasks, the readiness        *)
(* refresh and the rebalance executor's task.                               *)
BalanceTasks == {"balances"}
EngineTasks == {"hot", "refresh", "clock", "rebalance"}
(* The engines take the quarantines, the recovery and the initial balances; *)
(* the recovery goes on or the first rebalance is dispatched, if there is   *)
(* one.                                                                     *)
SeedEngines(p, busy) == moving' = [moving EXCEPT ![p] = busy]
BuildEngines(p) ==
  /\ At(p, "engines") /\ Advance(p)
  /\ Spawn(p, BalanceTasks \cup EngineTasks)
  /\ \E busy \in BOOLEAN : SeedEngines(p, busy)
  /\ account_unchanged /\ trade_unchanged /\ world_unchanged
  /\ UNCHANGED <<marker, lock, espReady>>
(* The DEX backlogs are drained, then the marker is written.                *)
MarkReady(p) ==
  /\ At(p, "drain") /\ Advance(p)
  /\ marker' = [marker EXCEPT ![p] = TRUE]
  /\ account_unchanged /\ trade_unchanged /\ world_unchanged
  /\ UNCHANGED <<tasks, lock, espReady, moving>>

----------------------------------------------------------------------------
(* An error, a panic, SIGTERM before the loop polls its handler, SIGKILL:   *)
(* the process and its tasks are gone, the files stay.                      *)
Exit(p) ==
  /\ Up(p)
  /\ stage' = [stage EXCEPT ![p] = "down"]
  /\ tasks' = [tasks EXCEPT ![p] = {}]
  /\ lock' = Without(lock, p, Files)
  /\ events' = [events EXCEPT ![p] = Off]
  /\ mailbox' = [mailbox EXCEPT ![p] = Nobody]
  /\ trading' = [trading EXCEPT ![p] = Nobody]
  /\ moving' = [moving EXCEPT ![p] = FALSE]
  /\ espReady' = [espReady EXCEPT ![p] = Closed]
  /\ view' = [view EXCEPT ![p] = 0]
  /\ UNCHANGED <<plan, marker, account, venue, chain, unresolved, starts, changes>>

(* A change of the account, by a fill or from outside; every session of a   *)
(* process is told.                                                         *)
Changed == /\ account' = account + 1
           /\ events' = [q \in Pods |-> IF events[q] = Off THEN Off
                                        ELSE Append(events[q], account + 1)]
AccountChanges ==
  /\ changes < MaxChanges /\ changes' = changes + 1
  /\ Changed
  /\ trade_unchanged
  /\ UNCHANGED <<stage, plan, marker, tasks, lock, view, espReady, venue, chain,
                 moving, starts>>
ChainChanges ==
  /\ changes < MaxChanges /\ changes' = changes + 1
  /\ \E fact \in {"tokenB", "native"} :
       chain' = IF fact \in chain THEN chain \ {fact} ELSE chain \cup {fact}
  /\ account_unchanged /\ trade_unchanged
  /\ UNCHANGED <<stage, plan, marker, tasks, lock, espReady, venue, moving, starts>>

----------------------------------------------------------------------------
(* The loop. *)
OnUserData(p) ==
  /\ At(p, "loop") /\ events[p] \notin {Off, <<>>}
  /\ view' = [view EXCEPT ![p] = Head(events[p])]
  /\ events' = [events EXCEPT ![p] = Tail(@)]
  /\ trade_unchanged /\ world_unchanged
  /\ UNCHANGED <<stage, marker, tasks, lock, account, espReady, moving>>

(* An engine's plan reaches the mailbox; only executable pairs have one.    *)
(* A plan queued behind a running one is OpportunityMailbox's.              *)
Submit(p, s) ==
  /\ At(p, "loop") /\ s \in plan /\ ~unresolved
  /\ mailbox[p] = Nobody /\ trading[p] = Nobody
  /\ changes < MaxChanges /\ changes' = changes + 1
  /\ mailbox' = [mailbox EXCEPT ![p] = s]
  /\ account_unchanged /\ UNCHANGED <<plan, starts, venue, chain>>
  /\ UNCHANGED <<stage, marker, tasks, lock, espReady, trading, unresolved, moving>>

(* A connector ends.  ESP's closes its receiver: no ESP entry from then on, *)
(* whatever the chain readiness says.  The primary one ends the process     *)
(* (Exit).                                                                  *)
EspStreamEnds(p) ==
  /\ "espDex" \in tasks[p] /\ ~Stopping(p)
  /\ tasks' = [tasks EXCEPT ![p] = @ \ {"espDex"}]
  /\ account_unchanged /\ trade_unchanged /\ world_unchanged
  /\ UNCHANGED <<stage, marker, lock, espReady, moving>>
EspDexArm(p) ==
  /\ At(p, "loop") /\ "espDex" \notin tasks[p] /\ espReady[p].data
  /\ espReady' = [espReady EXCEPT ![p].data = FALSE]
  /\ account_unchanged /\ trade_unchanged /\ world_unchanged
  /\ UNCHANGED <<stage, marker, tasks, lock, moving>>

(* run_chain_readiness_refresh: each probe's answer replaces the flag.      *)
(* Mutant: the probe publishes a new readiness, with its stream usable.     *)
RefreshBoth(p) ==
  /\ "refresh" \in tasks[p] /\ espReady[p].exec # ChainReady(chain)
  /\ espReady' = [espReady EXCEPT ![p] = [exec |-> ChainReady(chain), data |-> TRUE]]
  /\ account_unchanged /\ trade_unchanged /\ world_unchanged
  /\ UNCHANGED <<stage, marker, tasks, lock, moving>>
run_chain_readiness_refresh(p) ==
  /\ "refresh" \in tasks[p] /\ espReady[p].exec # ChainReady(chain)
  /\ espReady' = [espReady EXCEPT ![p].exec = ChainReady(chain)]
  /\ account_unchanged /\ trade_unchanged /\ world_unchanged
  /\ UNCHANGED <<stage, marker, tasks, lock, moving>>

(* The trade task takes the plan, also after the engines are gone; ESP's    *)
(* preflight reads both flags.  A plan that passes is journalled first.     *)
MayEnter(p, s) == s = "ESP" => espReady[p].exec /\ espReady[p].data
TakePlan(p) ==
  /\ "trade" \in tasks[p] /\ trading[p] = Nobody /\ mailbox[p] # Nobody
  /\ mailbox' = [mailbox EXCEPT ![p] = Nobody]
  /\ IF MayEnter(p, mailbox[p])
     THEN trading' = [trading EXCEPT ![p] = mailbox[p]] /\ unresolved' = TRUE
     ELSE UNCHANGED <<trading, unresolved>>
  /\ account_unchanged /\ world_unchanged
  /\ UNCHANGED <<stage, marker, tasks, lock, espReady, moving>>
FinishTrade(p) ==
  /\ trading[p] # Nobody
  /\ trading' = [trading EXCEPT ![p] = Nobody]
  /\ unresolved' = FALSE
  /\ Changed
  /\ world_unchanged
  /\ UNCHANGED <<stage, marker, tasks, lock, view, espReady, mailbox, moving>>

RebalanceStarts(p) ==
  /\ At(p, "loop") /\ "rebalance" \in tasks[p] /\ ~moving[p]
  /\ moving' = [moving EXCEPT ![p] = TRUE]
  /\ account_unchanged /\ trade_unchanged /\ world_unchanged
  /\ UNCHANGED <<stage, marker, tasks, lock, espReady>>
RebalanceEnds(p) ==
  /\ moving[p] /\ moving' = [moving EXCEPT ![p] = FALSE]
  /\ account_unchanged /\ trade_unchanged /\ world_unchanged
  /\ UNCHANGED <<stage, marker, tasks, lock, espReady>>

----------------------------------------------------------------------------
(* SIGTERM in the loop breaks it.  Nothing is submitted any more.           *)
Signal(p) ==
  /\ At(p, "loop")
  /\ stage' = [stage EXCEPT ![p] = "stopping"]
  /\ account_unchanged /\ trade_unchanged /\ world_unchanged
  /\ UNCHANGED <<marker, tasks, lock, espReady, moving>>

(* The rebalance task is aborted in the middle of what it awaits, and its   *)
(* executor dropped.                                                        *)
AbortRebalance(p) ==
  /\ At(p, "stopping") /\ stage' = [stage EXCEPT ![p] = "aborting"]
  /\ tasks' = [tasks EXCEPT ![p] = @ \ {"rebalance"}]
  /\ lock' = Without(lock, p, {"rebalance"})
  /\ moving' = [moving EXCEPT ![p] = FALSE]
  /\ account_unchanged /\ trade_unchanged /\ world_unchanged
  /\ UNCHANGED <<marker, espReady>>
AbortTasks(p) ==
  /\ At(p, "aborting") /\ stage' = [stage EXCEPT ![p] = "closing"]
  /\ tasks' = [tasks EXCEPT ![p] =
                 @ \ {"balances", "clock", "resources", "dex", "espDex", "refresh"}]
  /\ account_unchanged /\ trade_unchanged /\ world_unchanged
  /\ UNCHANGED <<marker, lock, espReady, moving>>

(* Dropping the engines drops the trade handle, the hot telemetry's and the *)
(* allocator's senders.                                                     *)
(* Mutant: an engine, and with it a trade handle, outlives the wait.        *)
EngineKept(p) == stage[p] \in {"hot", "writer"}
EnginesDropped(p) == stage[p] \in {"trade", "hot", "writer"}
DropEngines(p) ==
  /\ At(p, "closing") /\ stage' = [stage EXCEPT ![p] = "trade"]
  /\ account_unchanged /\ trade_unchanged /\ world_unchanged
  /\ UNCHANGED <<marker, tasks, lock, espReady, moving>>

(* The trade task returns once its channel is closed and empty; its         *)
(* executors, and the signers and journals they own, go with it, and so do  *)
(* the senders of the revert diagnostics.                                   *)
TradeTaskEnds(p) ==
  /\ "trade" \in tasks[p] /\ EnginesDropped(p)
  /\ trading[p] = Nobody /\ mailbox[p] = Nobody
  /\ tasks' = [tasks EXCEPT ![p] = @ \ {"trade", "diagnostics"}]
  /\ lock' = Without(lock, p, Files)
  /\ account_unchanged /\ trade_unchanged /\ world_unchanged
  /\ UNCHANGED <<stage, marker, espReady, moving>>
AwaitTrade(p) ==
  /\ At(p, "trade") /\ {"trade", "diagnostics"} \cap tasks[p] = {}
  /\ stage' = [stage EXCEPT ![p] = "hot"]
  /\ account_unchanged /\ trade_unchanged /\ world_unchanged
  /\ UNCHANGED <<marker, tasks, lock, espReady, moving>>
AwaitHotTelemetry(p) ==
  /\ At(p, "hot") /\ stage' = [stage EXCEPT ![p] = "writer"]
  /\ tasks' = [tasks EXCEPT ![p] = @ \ {"hot"}]
  /\ account_unchanged /\ trade_unchanged /\ world_unchanged
  /\ UNCHANGED <<marker, lock, espReady, moving>>

(* TelemetryTask::run returns when every sender is dropped.  `run` keeps    *)
(* its own until it returns, and the network registry another one, so this  *)
(* wait, the last one before the marker is removed, does not end.           *)
TelemetrySenders(p) == IF Up(p) THEN {"run", "registry"} ELSE {}
AwaitWriter(p) ==
  /\ At(p, "writer") /\ TelemetrySenders(p) = {}
  /\ stage' = [stage EXCEPT ![p] = "down"]
  /\ marker' = [marker EXCEPT ![p] = FALSE]
  /\ tasks' = [tasks EXCEPT ![p] = {}]
  /\ events' = [events EXCEPT ![p] = Off]
  /\ trade_unchanged /\ world_unchanged
  /\ UNCHANGED <<lock, account, view, espReady, moving>>

----------------------------------------------------------------------------
LifeInit ==
  /\ plan \in {{"WLD", "ESP"}, {"WLD", "ESP", "ARB"}}
  /\ stage = [p \in Pods |-> "down"]
  /\ marker = [p \in Pods |-> FALSE]
  /\ tasks = [p \in Pods |-> {}]
  /\ lock = [f \in Files |-> "free"]
  /\ account = 0 /\ chain = ChainFacts /\ venue \in Venues
  /\ events = [p \in Pods |-> Off]
  /\ view = [p \in Pods |-> 0]
  /\ espReady = [p \in Pods |-> Closed]
  /\ mailbox = [p \in Pods |-> Nobody]
  /\ trading = [p \in Pods |-> Nobody]
  /\ moving = [p \in Pods |-> FALSE]
  /\ unresolved \in BOOLEAN
  /\ starts = 0 /\ changes = 0

StartUpStep(p) ==
  \/ ConnectNetworks(p) \/ SubscribeUserData(p)
  \/ HydrateAfterSubscription(p) \/ ValidateVenues(p) \/ ProbeReadiness(p)
  \/ HydrateRebalance(p) \/ HydrateWallet(p) \/ HydrateEspWallet(p)
  \/ SpawnOrders(p) \/ SpawnTrades(p) \/ BuildEngines(p)
  \/ MarkReady(p)
LoopStep(p) ==
  \/ OnUserData(p) \/ EspDexArm(p) \/ run_chain_readiness_refresh(p)
  \/ RebalanceStarts(p) \/ RebalanceEnds(p)
  \/ \E s \in Symbols : Submit(p, s)
TradeStep(p) == TakePlan(p) \/ FinishTrade(p) \/ TradeTaskEnds(p)
ShutdownStep(p) ==
  \/ AbortRebalance(p) \/ AbortTasks(p) \/ DropEngines(p) \/ AwaitTrade(p)
  \/ AwaitHotTelemetry(p)

LifeNext ==
  \/ AccountChanges \/ ChainChanges
  \/ \E p \in Pods :
       \/ Start(p) \/ StartUpStep(p) \/ LoopStep(p) \/ TradeStep(p)
       \/ ShutdownStep(p) \/ EspStreamEnds(p) \/ Signal(p) \/ Exit(p)

(* A started step of the process, of its tasks and of the trade in flight   *)
(* eventually happens: they are awaited, and nothing holds them back.       *)
LifeFairness ==
  \A p \in Pods : WF_lifeVars(TradeStep(p)) /\ WF_lifeVars(ShutdownStep(p))
LifeSpec == LifeInit /\ [][LifeNext]_lifeVars /\ LifeFairness

(* The same with the last wait of the shutdown, and no kill during it.      *)
StopNext ==
  \/ \E p \in Pods :
       \/ Start(p) \/ StartUpStep(p) \/ LoopStep(p) \/ TradeStep(p)
       \/ ShutdownStep(p) \/ Signal(p) \/ AwaitWriter(p)
StopSpec == /\ LifeInit /\ [][StopNext]_lifeVars /\ LifeFairness
            /\ \A p \in Pods : WF_lifeVars(AwaitWriter(p))

----------------------------------------------------------------------------
(* The readiness marker of a pod, which outlives its containers, is never   *)
(* there while its process starts up, and with it every journal was locked  *)
(* and every backlog drained.                                               *)
MarkerIsFresh ==
  \A p \in Pods : /\ Starting(p) => ~marker[p]
                  /\ At(p, "loop") => marker[p]

(* Two overlapping processes never both trade or move capital: whatever     *)
(* order they start and stop in, and although a shutdown gives up the       *)
(* rebalance journal before the trade in flight is finished.                *)
Mutates(p) == trading[p] # Nobody \/ moving[p]
OneMutator == \A p, q \in Pods : Mutates(p) /\ Mutates(q) => p = q

(* No change of the account is lost between the snapshot start-up takes and *)
(* the events it subscribed to: a loop that has taken its events shows the  *)
(* account as it is.                                                        *)
AccountCaughtUp ==
  \A p \in Pods : At(p, "loop") /\ events[p] = <<>> => view[p] = account

(* Once the loop has seen ESP's DEX stream end, ESP stays closed for the    *)
(* life of that process, whatever the chain probe reports later.            *)
EspStaysClosed ==
  \A p \in Pods : Up(p) /\ ~Starting(p) /\ ~espReady[p].data => ~espReady'[p].data
EspFailsClosed == [][EspStaysClosed]_lifeVars

(* After SIGTERM the accepted trade is finished and every journal released  *)
(* before the process goes, unless it is killed.                            *)
Settled(p) ==
  \/ At(p, "down")
  \/ /\ trading[p] = Nobody /\ mailbox[p] = Nobody
     /\ \A f \in Files : lock[f] # p
WorkSettledOnStop == \A p \in Pods : At(p, "stopping") ~> Settled(p)

(* A change of the exchange's filters that ESP's artifact was not reviewed  *)
(* for keeps ESP from entering.                                             *)
FilterChangeFailsClosed ==
  \A p \in Pods : trading[p] = "ESP" => DetectorNotional(venue)

(* After SIGTERM the process ends: the shutdown waits for no telemetry.     *)
ShutdownCompletes == \A p \in Pods : At(p, "stopping") ~> At(p, "down")
=============================================================================
