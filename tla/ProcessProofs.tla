--------------------------- MODULE ProcessProofs ----------------------------
(***************************************************************************)
(* One process and the inventory its engines share, for any set of pods,   *)
(* any bounds and venue facts (ProcessLifecycle), and for any sets of      *)
(* operations, locations and assets (InventoryReservations).               *)
(*                                                                         *)
(* The inductive invariant of the reservations adds to their three         *)
(* invariants that every live reservation names a settlement location,     *)
(* without which a reservation could become pending with nothing to wait   *)
(* for.                                                                    *)
(***************************************************************************)
EXTENDS ProcessLifecycle, InventoryReservations, TLAPS

Flags == [exec : BOOLEAN, data : BOOLEAN]
Traders == Symbols \cup {"resumed", Nobody}
TaskNames == {"writer", "dex", "espDex", "session", "resources", "trade", "diagnostics",
              "balances", "hot", "refresh", "clock", "rebalance"}
LifeTypeOK ==
  /\ stage \in [Pods -> Stages]
  /\ marker \in [Pods -> BOOLEAN]
  /\ tasks \in [Pods -> SUBSET TaskNames]
  /\ lock \in [Files -> Pods \cup {"free"}]
  /\ account \in Nat
  /\ events \in [Pods -> Seq(Nat)]
  /\ view \in [Pods -> Nat]
  /\ espReady \in [Pods -> Flags]
  /\ mailbox \in [Pods -> Traders]
  /\ trading \in [Pods -> Traders]
  /\ moving \in [Pods -> BOOLEAN]

\* Start-up goes from each stage to the one StartUp lists after it.
LEMMA AdvanceStage ==
  ASSUME NEW p \in Pods, Advance(p)
  PROVE  /\ At(p, "networks") => stage' = [stage EXCEPT ![p] = "account"]
         /\ At(p, "account") => stage' = [stage EXCEPT ![p] = "validate"]
         /\ At(p, "validate") => stage' = [stage EXCEPT ![p] = "readiness"]
         /\ At(p, "readiness") => stage' = [stage EXCEPT ![p] = "rebalance"]
         /\ At(p, "rebalance") => stage' = [stage EXCEPT ![p] = "wallet"]
         /\ At(p, "wallet") => stage' = [stage EXCEPT ![p] = "espWallet"]
         /\ At(p, "espWallet") => stage' = [stage EXCEPT ![p] = "orders"]
         /\ At(p, "orders") => stage' = [stage EXCEPT ![p] = "trades"]
         /\ At(p, "trades") => stage' = [stage EXCEPT ![p] = "engines"]
         /\ At(p, "engines") => stage' = [stage EXCEPT ![p] = "drain"]
         /\ At(p, "drain") => stage' = [stage EXCEPT ![p] = "loop"]
<1> DEFINE i == CHOOSE k \in 1 .. Len(StartUp) : StartUp[k] = stage[p]
<1>1. Len(StartUp) = 11
  BY Zenon DEF StartUp
<1>2. ASSUME NEW k \in 1 .. 11, stage[p] = StartUp[k]
      PROVE  stage' = [stage EXCEPT ![p] = IF k = 11 THEN "loop" ELSE StartUp[k + 1]]
  <2>1. i \in 1 .. 11 /\ StartUp[i] = stage[p]
    BY <1>1, <1>2, Zenon
  <2>2. i = k
    <3> HIDE DEF i
    <3> QED BY <1>2, <2>1 DEF StartUp
  <2>3. stage' = [stage EXCEPT ![p] = IF i = Len(StartUp) THEN "loop" ELSE StartUp[i + 1]]
    BY Zenon DEF Advance
  <2> HIDE DEF i
  <2> QED
    BY <1>1, <2>2, <2>3, Zenon
<1> QED
  BY <1>2 DEF At, StartUp

-----------------------------------------------------------------------------
(* The type invariant *)

\* The steps of a process, and the rest.
PodStep(p) ==
  \/ Start(p) \/ StartUpStep(p) \/ LoopStep(p) \/ TradeStep(p)
  \/ ShutdownStep(p) \/ EspStreamEnds(p) \/ Signal(p) \/ Exit(p)

\* The initial state has its types.
LEMMA InitType == ASSUME LifeInit PROVE LifeTypeOK
<1>1. Off \in Seq(Nat)
  BY DEF Off
<1>2. Closed \in Flags
  BY Zenon DEF Closed, Flags
<1>3. "down" \in Stages
  BY Zenon DEF Stages
<1> QED
  BY <1>1, <1>2, <1>3, Zenon DEF LifeInit, LifeTypeOK, Traders

\* Every step keeps the types.
LEMMA NextType == ASSUME LifeTypeOK, [LifeNext]_lifeVars PROVE LifeTypeOK'
<1> USE DEF LifeTypeOK
<1>s. /\ {"down", "loop", "networks", "account", "validate", "readiness", "rebalance", "wallet",
          "espWallet", "orders", "trades", "engines", "drain", "stopping", "aborting", "closing",
          "trade", "hot", "writer"} \subseteq Stages
      /\ StartUp[1] = "networks"
  <2>1. DOMAIN StartUp = 1 .. 11 /\ DOMAIN Shutdown = 1 .. 6
    BY DEF StartUp, Shutdown
  <2> QED BY <2>1 DEF Stages, StartUp, Shutdown
<1>f. \A p \in Pods : espReady[p] \in Flags /\ ChainReady(chain) \in BOOLEAN
  BY Zenon DEF ChainReady
<1>1. CASE AccountChanges
  BY <1>1 DEF AccountChanges, Changed, Off, trade_unchanged
<1>2. CASE ChainChanges
  BY <1>2, ZenonT(30) DEF ChainChanges, account_unchanged, trade_unchanged
<1>3. ASSUME NEW p \in Pods, PodStep(p) PROVE LifeTypeOK'
  <2>1. CASE Start(p)
    BY <1>s, <2>1, Zenon DEF Start, StartMarker, account_unchanged, trade_unchanged
  <2>2. CASE StartUpStep(p)
    <3>a. ASSUME Advance(p),
                 stage[p] \in {"networks", "account", "validate", "readiness", "rebalance", "wallet",
                               "espWallet", "orders", "trades", "engines", "drain"}
          PROVE  stage' \in [Pods -> Stages]
      <4>1. PICK s \in Stages : stage' = [stage EXCEPT ![p] = s]
        BY <1>s, <3>a, AdvanceStage DEF At
      <4> QED BY <4>1, Zenon
    <3>t. {"writer"} \cup StreamTasks \subseteq TaskNames /\ BalanceTasks \cup EngineTasks \subseteq TaskNames
          /\ {"session"} \subseteq TaskNames /\ {"resources"} \subseteq TaskNames /\ {"trade", "diagnostics"} \subseteq TaskNames
      BY Zenon DEF TaskNames, StreamTasks, BalanceTasks, EngineTasks
    <3> USE <3>t DEF account_unchanged, trade_unchanged, Spawn, Take, Traders, Files, At
    <3>1. CASE ConnectNetworks(p)
      BY <3>1, <3>a, Zenon DEF ConnectNetworks
    <3>2. CASE SubscribeUserData(p)
      BY <3>2, SMTT(30) DEF SubscribeUserData
    <3>3. CASE HydrateAfterSubscription(p)
      BY <3>3, <3>a, Zenon DEF HydrateAfterSubscription
    <3>4. CASE ValidateVenues(p)
      BY <3>4, <3>a, Zenon DEF ValidateVenues
    <3>5. CASE ProbeReadiness(p)
      <4>1. [exec |-> ChainReady(chain), data |-> TRUE] \in Flags
        BY <1>f, Zenon DEF Flags
      <4> QED BY <3>5, <3>a, <4>1, Zenon DEF ProbeReadiness
    <3>6. CASE HydrateRebalance(p)
      BY <3>6, <3>a, Zenon DEF HydrateRebalance
    <3>7. CASE HydrateWallet(p)
      BY <3>7, <3>a, Zenon DEF HydrateWallet
    <3>8. CASE HydrateEspWallet(p)
      BY <3>8, <3>a, Zenon DEF HydrateEspWallet
    <3>9. CASE SpawnOrders(p)
      BY <3>9, <3>a, Zenon DEF SpawnOrders
    <3>10. CASE SpawnTrades(p)
      BY <3>10, <3>a, Zenon DEF SpawnTrades
    <3>11. CASE BuildEngines(p)
      BY <3>11, <3>a, Zenon DEF BuildEngines, SeedEngines
    <3>12. CASE MarkReady(p)
      BY <3>12, <3>a, Zenon DEF MarkReady
    <3> QED
      BY <2>2, <3>1, <3>2, <3>3, <3>4, <3>5, <3>6, <3>7, <3>8, <3>9, <3>10, <3>11, <3>12, Zenon DEF StartUpStep
  <2>3. CASE LoopStep(p)
    <3> USE DEF account_unchanged, trade_unchanged
    <3>1. CASE OnUserData(p)
      BY <3>1 DEF OnUserData
    <3>2. CASE EspDexArm(p)
      <4>1. [espReady[p] EXCEPT !.data = FALSE] \in Flags
        BY <1>f, Zenon DEF Flags
      <4> QED BY <3>2, <4>1, Zenon DEF EspDexArm
    <3>3. CASE run_chain_readiness_refresh(p)
      <4>1. [espReady[p] EXCEPT !.exec = ChainReady(chain)] \in Flags
        BY <1>f, Zenon DEF Flags
      <4> QED BY <3>3, <4>1, Zenon DEF run_chain_readiness_refresh
    <3>4. CASE RebalanceStarts(p) \/ RebalanceEnds(p)
      BY <3>4, Zenon DEF RebalanceStarts, RebalanceEnds
    <3>5. ASSUME NEW s \in Symbols, Submit(p, s) PROVE LifeTypeOK'
      BY <3>5, Zenon DEF Submit, Traders
    <3> QED
      BY <2>3, <3>1, <3>2, <3>3, <3>4, <3>5, SMTT(30) DEF LoopStep
  <2>4. CASE TradeStep(p)
    <3> USE DEF account_unchanged, trade_unchanged
    <3>1. CASE TakePlan(p)
      BY <3>1, Zenon DEF TakePlan, Traders
    <3>2. CASE FinishTrade(p)
      BY <3>2 DEF FinishTrade, Changed, Off, Traders
    <3>3. CASE TradeTaskEnds(p)
      BY <3>3, Zenon DEF TradeTaskEnds, Without
    <3> QED
      BY <2>4, <3>1, <3>2, <3>3 DEF TradeStep
  <2>5. CASE ShutdownStep(p)
    <3> USE DEF account_unchanged, trade_unchanged
    <3>1. CASE AbortRebalance(p)
      BY <1>s, <3>1, Zenon DEF AbortRebalance, Without
    <3>2. CASE AbortTasks(p)
      BY <1>s, <3>2, Zenon DEF AbortTasks
    <3>3. CASE DropEngines(p)
      BY <1>s, <3>3, Zenon DEF DropEngines
    <3>5. CASE AwaitTrade(p)
      BY <1>s, <3>5, Zenon DEF AwaitTrade
    <3>4. CASE AwaitHotTelemetry(p)
      BY <1>s, <3>4, Zenon DEF AwaitHotTelemetry
    <3> QED
      BY <2>5, <3>1, <3>2, <3>3, <3>4, <3>5, Zenon DEF ShutdownStep
  <2>6. CASE EspStreamEnds(p) \/ Signal(p)
    <3> USE DEF account_unchanged, trade_unchanged
    <3>1. CASE EspStreamEnds(p)
      BY <3>1, Zenon DEF EspStreamEnds
    <3>2. CASE Signal(p)
      BY <1>s, <3>2, Zenon DEF Signal
    <3> QED BY <2>6, <3>1, <3>2, Zenon
  <2>7. CASE Exit(p)
    BY <1>s, <2>7 DEF Exit, Without, Off, Closed, Flags, Traders
  <2> QED
    BY <1>3, <2>1, <2>2, <2>3, <2>4, <2>5, <2>6, <2>7, SMTT(30) DEF PodStep
<1>4. CASE UNCHANGED lifeVars
  BY <1>4, Zenon DEF lifeVars
<1> QED
  BY <1>1, <1>2, <1>3, <1>4 DEF LifeNext, PodStep

-----------------------------------------------------------------------------
(* The inductive invariant *)

\* From here to here the process holds the signer's journal: from the start-up
\* step that locks it to the return of the trade task.
HasSigner == {"espWallet", "orders", "trades", "engines", "drain", "loop",
              "stopping", "aborting", "closing"}
HasTradeTask == {"engines", "drain", "loop", "stopping", "aborting", "closing",
                 "trade", "hot", "writer"}

\* Whoever trades or moves capital holds the World Chain signer's journal.
MutatorHoldsSigner(p) ==
  /\ stage[p] \in HasSigner \/ "trade" \in tasks[p] => lock["wallet"] = p
  /\ "trade" \in tasks[p] => stage[p] \in HasTradeTask
  /\ trading[p] # Nobody => "trade" \in tasks[p]
  /\ moving[p] => stage[p] \in {"drain", "loop", "stopping"}

\* The marker follows the stages.
MarkerFollows(p) ==
  /\ stage[p] \in {"networks", "account", "validate", "readiness", "rebalance", "wallet",
                   "espWallet", "orders", "trades", "engines", "drain"} => ~marker[p]
  /\ stage[p] = "loop" => marker[p]

\* A subscribed session holds the account's last change unless the process has
\* taken it, or has read the account since.
SeesAccount(p) ==
  /\ stage[p] \in {"down", "networks"} => events[p] = Off
  /\ events[p] = Off \/ \A i \in 1 .. Len(events[p]) : events[p][i] > 0
  /\ events[p] \notin {Off, <<>>} => events[p][Len(events[p])] = account
  /\ stage[p] \notin {"down", "networks", "account"} =>
        events[p] # Off /\ (events[p] = <<>> => view[p] = account)

LifeInv ==
  /\ LifeTypeOK
  /\ \A p \in Pods : MutatorHoldsSigner(p) /\ MarkerFollows(p) /\ SeesAccount(p)

\* A step of one process leaves the other processes and their locks alone.
LEMMA OthersKept ==
  ASSUME LifeTypeOK, "free" \notin Pods, NEW p \in Pods, PodStep(p), NEW q \in Pods, q # p
  PROVE  /\ stage'[q] = stage[q] /\ tasks'[q] = tasks[q] /\ trading'[q] = trading[q]
         /\ moving'[q] = moving[q] /\ marker'[q] = marker[q] /\ view'[q] = view[q]
         /\ lock["wallet"] = q => lock'["wallet"] = q
<1> USE DEF LifeTypeOK, At, Files, account_unchanged, trade_unchanged, world_unchanged
<1>1. CASE Start(p)
  BY <1>1, Zenon DEF Start, StartMarker, StartUp
<1>2. CASE ConnectNetworks(p)
  BY <1>2, AdvanceStage DEF ConnectNetworks, Spawn, StreamTasks
<1>3. CASE SubscribeUserData(p)
  BY <1>3, Zenon DEF SubscribeUserData, Spawn
<1>4. CASE HydrateAfterSubscription(p)
  BY <1>4, AdvanceStage DEF HydrateAfterSubscription
<1>5. CASE ValidateVenues(p)
  BY <1>5, AdvanceStage DEF ValidateVenues, Spawn
<1>6. CASE ProbeReadiness(p)
  BY <1>6, AdvanceStage DEF ProbeReadiness
<1>7. CASE HydrateRebalance(p)
  BY <1>7, AdvanceStage DEF HydrateRebalance, Take, Free
<1>8. CASE HydrateWallet(p)
  BY <1>8, AdvanceStage, SMTT(30) DEF HydrateWallet, Take, Free
<1>9. CASE HydrateEspWallet(p)
  BY <1>9, AdvanceStage, SMTT(30) DEF HydrateEspWallet, Take, Free
<1>10. CASE SpawnOrders(p)
  BY <1>10, AdvanceStage, SMTT(30) DEF SpawnOrders, Take, Free
<1>11. CASE SpawnTrades(p)
  BY <1>11, AdvanceStage, SMTT(30) DEF SpawnTrades, Take, Free, Spawn
<1>12. CASE BuildEngines(p)
  BY <1>12, AdvanceStage DEF BuildEngines, Spawn, SeedEngines, BalanceTasks, EngineTasks
<1>13. CASE MarkReady(p)
  BY <1>13, AdvanceStage DEF MarkReady
<1>14. CASE OnUserData(p)
  BY <1>14, Zenon DEF OnUserData
<1>15. CASE EspDexArm(p)
  BY <1>15, Zenon DEF EspDexArm
<1>16. CASE run_chain_readiness_refresh(p)
  BY <1>16, Zenon DEF run_chain_readiness_refresh
<1>17. CASE RebalanceStarts(p)
  BY <1>17, Zenon DEF RebalanceStarts
<1>18. CASE RebalanceEnds(p)
  BY <1>18, Zenon DEF RebalanceEnds
<1>19. CASE \E s \in Symbols : Submit(p, s)
  BY <1>19, Zenon DEF Submit
<1>20. CASE TakePlan(p)
  BY <1>20, Zenon DEF TakePlan
<1>21. CASE FinishTrade(p)
  BY <1>21, Zenon DEF FinishTrade
<1>22. CASE TradeTaskEnds(p)
  BY <1>22, Zenon DEF TradeTaskEnds, Without, EnginesDropped
<1>23. CASE AbortRebalance(p)
  BY <1>23, Zenon DEF AbortRebalance, Without
<1>24. CASE AbortTasks(p)
  BY <1>24, Zenon DEF AbortTasks
<1>25. CASE DropEngines(p)
  BY <1>25, Zenon DEF DropEngines
<1>26. CASE AwaitTrade(p)
  BY <1>26, Zenon DEF AwaitTrade
<1>27. CASE AwaitHotTelemetry(p)
  BY <1>27, Zenon DEF AwaitHotTelemetry
<1>28. CASE EspStreamEnds(p)
  BY <1>28, Zenon DEF EspStreamEnds
<1>29. CASE Signal(p)
  BY <1>29, Zenon DEF Signal
<1>30. CASE Exit(p)
  BY <1>30, ZenonT(30) DEF Exit, Without
<1> QED
  BY <1>1, <1>2, <1>3, <1>4, <1>5, <1>6, <1>7, <1>8, <1>9, <1>10, <1>11, <1>12, <1>13,
     <1>14, <1>15, <1>16, <1>17, <1>18, <1>19, <1>20, <1>21, <1>22, <1>23, <1>24, <1>25, <1>26,
     <1>27, <1>28, <1>29, <1>30, ZenonT(30) DEF PodStep, StartUpStep, LoopStep, TradeStep, ShutdownStep

\* A step of a process keeps its hold on the signer while it needs it.
LEMMA SignerStep ==
  ASSUME LifeTypeOK, "free" \notin Pods, NEW p \in Pods, PodStep(p), MutatorHoldsSigner(p)
  PROVE  MutatorHoldsSigner(p)'
<1> USE DEF LifeTypeOK, At, Files, account_unchanged, trade_unchanged, MutatorHoldsSigner,
            HasSigner, HasTradeTask
<1>1. CASE Start(p)
  BY <1>1, Zenon DEF Start, StartMarker, StartUp
<1>2. CASE ConnectNetworks(p)
  BY <1>2, AdvanceStage DEF ConnectNetworks, Spawn, StreamTasks
<1>3. CASE SubscribeUserData(p)
  BY <1>3, Zenon DEF SubscribeUserData, Spawn
<1>4. CASE HydrateAfterSubscription(p)
  BY <1>4, AdvanceStage, SMTT(30) DEF HydrateAfterSubscription
<1>5. CASE ValidateVenues(p)
  BY <1>5, AdvanceStage, SMTT(30) DEF ValidateVenues, Spawn
<1>6. CASE ProbeReadiness(p)
  BY <1>6, AdvanceStage, SMTT(30) DEF ProbeReadiness
<1>7. CASE HydrateRebalance(p)
  BY <1>7, AdvanceStage, SMTT(30) DEF HydrateRebalance, Take, Free
<1>8. CASE HydrateWallet(p)
  BY <1>8, AdvanceStage, Zenon DEF HydrateWallet, Take, Free
<1>9. CASE HydrateEspWallet(p)
  BY <1>9, AdvanceStage, Zenon DEF HydrateEspWallet, Take, Free
<1>10. CASE SpawnOrders(p)
  BY <1>10, AdvanceStage, Zenon DEF SpawnOrders, Take, Free
<1>11. CASE SpawnTrades(p)
  BY <1>11, AdvanceStage, SMTT(30) DEF SpawnTrades, Take, Free, Spawn
<1>12. CASE BuildEngines(p)
  BY <1>12, AdvanceStage DEF BuildEngines, Spawn, SeedEngines, BalanceTasks, EngineTasks
<1>13. CASE MarkReady(p)
  BY <1>13, AdvanceStage DEF MarkReady
<1>14. CASE OnUserData(p)
  BY <1>14, Zenon DEF OnUserData
<1>15. CASE EspDexArm(p)
  BY <1>15, Zenon DEF EspDexArm
<1>16. CASE run_chain_readiness_refresh(p)
  BY <1>16, Zenon DEF run_chain_readiness_refresh
<1>17. CASE RebalanceStarts(p)
  BY <1>17, Zenon DEF RebalanceStarts
<1>18. CASE RebalanceEnds(p)
  BY <1>18, Zenon DEF RebalanceEnds
<1>19. CASE \E s \in Symbols : Submit(p, s)
  BY <1>19, Zenon DEF Submit
<1>20. CASE TakePlan(p)
  BY <1>20, Zenon DEF TakePlan
<1>21. CASE FinishTrade(p)
  BY <1>21, Zenon DEF FinishTrade
<1>22. CASE TradeTaskEnds(p)
  BY <1>22, Zenon DEF TradeTaskEnds, Without, EnginesDropped
<1>23. CASE AbortRebalance(p)
  BY <1>23, Zenon DEF AbortRebalance, Without
<1>24. CASE AbortTasks(p)
  BY <1>24, Zenon DEF AbortTasks
<1>25. CASE DropEngines(p)
  BY <1>25, Zenon DEF DropEngines
<1>26. CASE AwaitTrade(p)
  BY <1>26, Zenon DEF AwaitTrade
<1>27. CASE AwaitHotTelemetry(p)
  BY <1>27, Zenon DEF AwaitHotTelemetry
<1>28. CASE EspStreamEnds(p)
  BY <1>28, Zenon DEF EspStreamEnds
<1>29. CASE Signal(p)
  BY <1>29, Zenon DEF Signal
<1>30. CASE Exit(p)
  BY <1>30, ZenonT(30) DEF Exit, Without
<1> QED
  BY <1>1, <1>2, <1>3, <1>4, <1>5, <1>6, <1>7, <1>8, <1>9, <1>10, <1>11, <1>12, <1>13,
     <1>14, <1>15, <1>16, <1>17, <1>18, <1>19, <1>20, <1>21, <1>22, <1>23, <1>24, <1>25, <1>26,
     <1>27, <1>28, <1>29, <1>30, ZenonT(30) DEF PodStep, StartUpStep, LoopStep, TradeStep, ShutdownStep

\* A step of a process keeps its marker with its stage.
LEMMA MarkerStep ==
  ASSUME LifeTypeOK, NEW p \in Pods, PodStep(p), MarkerFollows(p)
  PROVE  MarkerFollows(p)'
<1> USE DEF LifeTypeOK, At, MarkerFollows
<1>1. CASE Start(p)
  BY <1>1 DEF Start, StartMarker, StartUp
<1>2. CASE ConnectNetworks(p)
  BY <1>2, AdvanceStage, Zenon DEF ConnectNetworks, Spawn, StreamTasks
<1>3. CASE SubscribeUserData(p)
  BY <1>3, Zenon DEF SubscribeUserData, Spawn
<1>4. CASE HydrateAfterSubscription(p)
  BY <1>4, AdvanceStage, Zenon DEF HydrateAfterSubscription
<1>5. CASE ValidateVenues(p)
  BY <1>5, AdvanceStage, Zenon DEF ValidateVenues, Spawn
<1>6. CASE ProbeReadiness(p)
  BY <1>6, AdvanceStage, Zenon DEF ProbeReadiness
<1>7. CASE HydrateRebalance(p)
  BY <1>7, AdvanceStage, Zenon DEF HydrateRebalance, Take, Free
<1>8. CASE HydrateWallet(p)
  BY <1>8, AdvanceStage, ZenonT(30) DEF HydrateWallet, Take, Free
<1>9. CASE HydrateEspWallet(p)
  BY <1>9, AdvanceStage DEF HydrateEspWallet, Take, Free
<1>10. CASE SpawnOrders(p)
  BY <1>10, AdvanceStage DEF SpawnOrders, Take, Free
<1>11. CASE SpawnTrades(p)
  BY <1>11, AdvanceStage, ZenonT(30) DEF SpawnTrades, Take, Free, Spawn
<1>12. CASE BuildEngines(p)
  BY <1>12, AdvanceStage DEF BuildEngines, Spawn, SeedEngines, BalanceTasks, EngineTasks
<1>13. CASE MarkReady(p)
  BY <1>13, AdvanceStage DEF MarkReady
<1>14. CASE OnUserData(p)
  BY <1>14, Zenon DEF OnUserData
<1>15. CASE EspDexArm(p)
  BY <1>15, Zenon DEF EspDexArm
<1>16. CASE run_chain_readiness_refresh(p)
  BY <1>16, Zenon DEF run_chain_readiness_refresh
<1>17. CASE RebalanceStarts(p)
  BY <1>17, Zenon DEF RebalanceStarts
<1>18. CASE RebalanceEnds(p)
  BY <1>18, Zenon DEF RebalanceEnds
<1>19. CASE \E s \in Symbols : Submit(p, s)
  BY <1>19, Zenon DEF Submit
<1>20. CASE TakePlan(p)
  BY <1>20, Zenon DEF TakePlan
<1>21. CASE FinishTrade(p)
  BY <1>21, Zenon DEF FinishTrade
<1>22. CASE TradeTaskEnds(p)
  BY <1>22, Zenon DEF TradeTaskEnds, Without, EnginesDropped
<1>23. CASE AbortRebalance(p)
  BY <1>23, Zenon DEF AbortRebalance, Without
<1>24. CASE AbortTasks(p)
  BY <1>24, Zenon DEF AbortTasks
<1>25. CASE DropEngines(p)
  BY <1>25, Zenon DEF DropEngines
<1>26. CASE AwaitTrade(p)
  BY <1>26, Zenon DEF AwaitTrade
<1>27. CASE AwaitHotTelemetry(p)
  BY <1>27, Zenon DEF AwaitHotTelemetry
<1>28. CASE EspStreamEnds(p)
  BY <1>28, Zenon DEF EspStreamEnds
<1>29. CASE Signal(p)
  BY <1>29, Zenon DEF Signal
<1>30. CASE Exit(p)
  BY <1>30, Zenon DEF Exit, Without
<1> QED
  BY <1>1, <1>2, <1>3, <1>4, <1>5, <1>6, <1>7, <1>8, <1>9, <1>10, <1>11, <1>12, <1>13,
     <1>14, <1>15, <1>16, <1>17, <1>18, <1>19, <1>20, <1>21, <1>22, <1>23, <1>24, <1>25, <1>26,
     <1>27, <1>28, <1>29, <1>30, ZenonT(30) DEF PodStep, StartUpStep, LoopStep, TradeStep, ShutdownStep

\* A change of the account reaches every session.
LEMMA ChangeSeen ==
  ASSUME LifeTypeOK, Changed, NEW q \in Pods, SeesAccount(q),
         stage'[q] = stage[q], view'[q] = view[q]
  PROVE  SeesAccount(q)'
<1>1. account \in Nat /\ account' = account + 1 /\ events[q] \in Seq(Nat)
  BY Zenon DEF Changed, LifeTypeOK
<1>2. CASE events[q] = Off
  <2>1. events'[q] = Off
    BY <1>2, Zenon DEF Changed
  <2> QED
    BY <1>2, <2>1, Zenon DEF SeesAccount
<1>3. CASE events[q] # Off
  <2> DEFINE e == Append(events[q], account + 1)
  <2>1. events'[q] = e
    BY <1>3, Zenon DEF Changed
  <2>2. /\ e # <<>> /\ e \in Seq(Nat) /\ Len(e) = Len(events[q]) + 1 /\ e[Len(e)] = account'
        /\ \A i \in 1 .. Len(events[q]) : e[i] = events[q][i]
    BY <1>1, SMTT(30)
  <2>3. \A i \in 1 .. Len(e) : e[i] > 0
    BY <1>1, <1>3, <2>2 DEF SeesAccount
  <2>4. e # Off
    <3>1. e[Len(e)] > 0 /\ Off[Len(Off)] = 0
      BY <1>1, <2>2, SMTT(30) DEF Off
    <3> QED BY <3>1
  <2> HIDE DEF e
  <2> QED
    BY <1>3, <2>1, <2>2, <2>3, <2>4, SMTT(30) DEF SeesAccount
<1> QED
  BY <1>2, <1>3, Zenon

\* A step of a process that leaves the account as it is.
LEMMA AccountKept ==
  ASSUME LifeTypeOK, NEW p \in Pods, PodStep(p), ~FinishTrade(p)
  PROVE  account' = account /\ \A q \in Pods : q # p => events'[q] = events[q]
<1> USE DEF LifeTypeOK, account_unchanged
<1>1. CASE Start(p)
  BY <1>1, Zenon DEF Start, StartMarker, StartUp
<1>2. CASE ConnectNetworks(p)
  BY <1>2, AdvanceStage, Zenon DEF ConnectNetworks, Spawn, StreamTasks
<1>3. CASE SubscribeUserData(p)
  BY <1>3, Zenon DEF SubscribeUserData, Spawn
<1>4. CASE HydrateAfterSubscription(p)
  BY <1>4, AdvanceStage, Zenon DEF HydrateAfterSubscription
<1>5. CASE ValidateVenues(p)
  BY <1>5, AdvanceStage, Zenon DEF ValidateVenues, Spawn
<1>6. CASE ProbeReadiness(p)
  BY <1>6, AdvanceStage, Zenon DEF ProbeReadiness
<1>7. CASE HydrateRebalance(p)
  BY <1>7, AdvanceStage, Zenon DEF HydrateRebalance, Take, Free
<1>8. CASE HydrateWallet(p)
  BY <1>8, AdvanceStage, Zenon DEF HydrateWallet, Take, Free
<1>9. CASE HydrateEspWallet(p)
  BY <1>9, AdvanceStage, Zenon DEF HydrateEspWallet, Take, Free
<1>10. CASE SpawnOrders(p)
  BY <1>10, AdvanceStage, Zenon DEF SpawnOrders, Take, Free
<1>11. CASE SpawnTrades(p)
  BY <1>11, AdvanceStage, Zenon DEF SpawnTrades, Take, Free, Spawn
<1>12. CASE BuildEngines(p)
  BY <1>12, AdvanceStage, Zenon DEF BuildEngines, Spawn, SeedEngines, BalanceTasks, EngineTasks
<1>13. CASE MarkReady(p)
  BY <1>13, AdvanceStage, Zenon DEF MarkReady
<1>14. CASE OnUserData(p)
  BY <1>14, Zenon DEF OnUserData
<1>15. CASE EspDexArm(p)
  BY <1>15, Zenon DEF EspDexArm
<1>16. CASE run_chain_readiness_refresh(p)
  BY <1>16, Zenon DEF run_chain_readiness_refresh
<1>17. CASE RebalanceStarts(p)
  BY <1>17, Zenon DEF RebalanceStarts
<1>18. CASE RebalanceEnds(p)
  BY <1>18, Zenon DEF RebalanceEnds
<1>19. CASE \E s \in Symbols : Submit(p, s)
  BY <1>19, Zenon DEF Submit
<1>20. CASE TakePlan(p)
  BY <1>20, Zenon DEF TakePlan
<1>21. CASE FinishTrade(p)
  BY <1>21, Zenon
<1>22. CASE TradeTaskEnds(p)
  BY <1>22, Zenon DEF TradeTaskEnds, Without, EnginesDropped
<1>23. CASE AbortRebalance(p)
  BY <1>23, Zenon DEF AbortRebalance, Without
<1>24. CASE AbortTasks(p)
  BY <1>24, Zenon DEF AbortTasks
<1>25. CASE DropEngines(p)
  BY <1>25, Zenon DEF DropEngines
<1>26. CASE AwaitTrade(p)
  BY <1>26, Zenon DEF AwaitTrade
<1>27. CASE AwaitHotTelemetry(p)
  BY <1>27, Zenon DEF AwaitHotTelemetry
<1>28. CASE EspStreamEnds(p)
  BY <1>28, Zenon DEF EspStreamEnds
<1>29. CASE Signal(p)
  BY <1>29, Zenon DEF Signal
<1>30. CASE Exit(p)
  BY <1>30, Zenon DEF Exit, Without
<1> QED
  BY <1>1, <1>2, <1>3, <1>4, <1>5, <1>6, <1>7, <1>8, <1>9, <1>10, <1>11, <1>12, <1>13,
     <1>14, <1>15, <1>16, <1>17, <1>18, <1>19, <1>20, <1>21, <1>22, <1>23, <1>24, <1>25, <1>26,
     <1>27, <1>28, <1>29, <1>30, SMTT(30) DEF PodStep, StartUpStep, LoopStep, TradeStep, ShutdownStep

\* Taking the first event leaves the last change in the rest, or is it.
LEMMA TakeOne ==
  ASSUME NEW e \in Seq(Nat), e # <<>>, \A i \in 1 .. Len(e) : e[i] > 0
  PROVE  /\ Tail(e) # Off /\ \A i \in 1 .. Len(Tail(e)) : Tail(e)[i] > 0
         /\ Tail(e) = <<>> => Head(e) = e[Len(e)]
         /\ Tail(e) # <<>> => Tail(e)[Len(Tail(e))] = e[Len(e)]
<1>1. Len(e) \in Nat /\ Len(e) > 0 /\ Tail(e) \in Seq(Nat) /\ Len(Tail(e)) = Len(e) - 1
  OBVIOUS
<1>2. Head(e) = e[1] /\ \A i \in 1 .. Len(Tail(e)) : Tail(e)[i] = e[i + 1]
  OBVIOUS
<1>3. \A i \in 1 .. Len(Tail(e)) : Tail(e)[i] > 0
  BY <1>1, <1>2
<1>4. Tail(e) # Off
  <2>1. Off[1] = 0 /\ Len(Off) = 1
    BY Zenon DEF Off
  <2> QED BY <1>3, <2>1
<1>5. Tail(e) = <<>> => Len(e) = 1
  <2>1. Len(<<>>) = 0
    BY Zenon
  <2>2. ASSUME Tail(e) = <<>> PROVE Len(e) - 1 = 0
    BY <1>1, <2>1, <2>2, Zenon
  <2> QED BY <1>1, <2>2
<1>6. Tail(e) # <<>> => Len(Tail(e)) > 0
  BY <1>1, SMTT(30)
<1> QED
  BY <1>1, <1>2, <1>3, <1>4, <1>5, <1>6, SMTT(30)

\* What a process sees of the account after its own step.
LEMMA SeesStep ==
  ASSUME LifeTypeOK, NEW p \in Pods, PodStep(p), SeesAccount(p)
  PROVE  SeesAccount(p)'
<1> USE DEF LifeTypeOK, At, account_unchanged, SeesAccount
<1>o. Off \in Seq(Nat) /\ Off # <<>> /\ Len(Off) = 1 /\ Off[1] = 0
  BY DEF Off
<1>1. CASE Start(p)
  BY <1>o, <1>1, Zenon DEF Start, StartMarker, StartUp
<1>2. CASE ConnectNetworks(p)
  BY <1>o, <1>2, AdvanceStage, ZenonT(30) DEF ConnectNetworks, Spawn, StreamTasks
<1>3. CASE SubscribeUserData(p)
  BY <1>o, <1>3 DEF SubscribeUserData, Spawn
<1>4. CASE HydrateAfterSubscription(p)
  BY <1>o, <1>4, AdvanceStage DEF HydrateAfterSubscription
<1>5. CASE ValidateVenues(p)
  BY <1>o, <1>5, AdvanceStage, ZenonT(30) DEF ValidateVenues, Spawn
<1>6. CASE ProbeReadiness(p)
  BY <1>o, <1>6, AdvanceStage DEF ProbeReadiness
<1>7. CASE HydrateRebalance(p)
  BY <1>o, <1>7, AdvanceStage, SMTT(30) DEF HydrateRebalance, Take, Free
<1>8. CASE HydrateWallet(p)
  BY <1>o, <1>8, AdvanceStage, SMTT(30) DEF HydrateWallet, Take, Free
<1>9. CASE HydrateEspWallet(p)
  BY <1>o, <1>9, AdvanceStage, SMTT(30) DEF HydrateEspWallet, Take, Free
<1>10. CASE SpawnOrders(p)
  BY <1>o, <1>10, AdvanceStage, SMTT(30) DEF SpawnOrders, Take, Free
<1>11. CASE SpawnTrades(p)
  BY <1>o, <1>11, AdvanceStage, SMTT(30) DEF SpawnTrades, Take, Free, Spawn
<1>12. CASE BuildEngines(p)
  BY <1>o, <1>12, AdvanceStage, SMTT(30) DEF BuildEngines, Spawn, SeedEngines, BalanceTasks, EngineTasks
<1>13. CASE MarkReady(p)
  BY <1>o, <1>13, AdvanceStage DEF MarkReady
<1>14. CASE OnUserData(p)
  <2>1. /\ stage[p] = "loop" /\ events[p] \in Seq(Nat) /\ events[p] # <<>> /\ events[p] # Off
        /\ stage' = stage /\ account' = account
        /\ view'[p] = Head(events[p]) /\ events'[p] = Tail(events[p])
    BY <1>14, Zenon DEF OnUserData
  <2>2. /\ events[p][Len(events[p])] = account
        /\ \A i \in 1 .. Len(events[p]) : events[p][i] > 0
    BY <2>1, Zenon
  <2> QED BY <1>o, <2>1, <2>2, TakeOne, Zenon
<1>15. CASE EspDexArm(p)
  BY <1>o, <1>15, Zenon DEF EspDexArm
<1>16. CASE run_chain_readiness_refresh(p)
  BY <1>o, <1>16, Zenon DEF run_chain_readiness_refresh
<1>17. CASE RebalanceStarts(p)
  BY <1>o, <1>17, Zenon DEF RebalanceStarts
<1>18. CASE RebalanceEnds(p)
  BY <1>o, <1>18, Zenon DEF RebalanceEnds
<1>19. CASE \E s \in Symbols : Submit(p, s)
  BY <1>o, <1>19, Zenon DEF Submit
<1>20. CASE TakePlan(p)
  BY <1>o, <1>20, Zenon DEF TakePlan
<1>21. CASE FinishTrade(p)
  BY <1>21, ChangeSeen, Zenon DEF FinishTrade

<1>22. CASE TradeTaskEnds(p)
  BY <1>o, <1>22, Zenon DEF TradeTaskEnds, Without, EnginesDropped
<1>23. CASE AbortRebalance(p)
  BY <1>o, <1>23, Zenon DEF AbortRebalance, Without
<1>24. CASE AbortTasks(p)
  BY <1>o, <1>24, Zenon DEF AbortTasks
<1>25. CASE DropEngines(p)
  BY <1>o, <1>25, Zenon DEF DropEngines
<1>26. CASE AwaitTrade(p)
  BY <1>o, <1>26, Zenon DEF AwaitTrade
<1>27. CASE AwaitHotTelemetry(p)
  BY <1>o, <1>27, Zenon DEF AwaitHotTelemetry
<1>28. CASE EspStreamEnds(p)
  BY <1>o, <1>28, Zenon DEF EspStreamEnds
<1>29. CASE Signal(p)
  BY <1>o, <1>29, Zenon DEF Signal
<1>30. CASE Exit(p)
  BY <1>o, <1>30, Zenon DEF Exit, Without
<1> QED
  BY <1>1, <1>2, <1>3, <1>4, <1>5, <1>6, <1>7, <1>8, <1>9, <1>10, <1>11, <1>12, <1>13,
     <1>14, <1>15, <1>16, <1>17, <1>18, <1>19, <1>20, <1>21, <1>22, <1>23, <1>24, <1>25, <1>26,
     <1>27, <1>28, <1>29, <1>30, ZenonT(30) DEF PodStep, StartUpStep, LoopStep, TradeStep, ShutdownStep

-----------------------------------------------------------------------------
(* The theorems *)

\* Nothing runs, nothing is locked and nobody is subscribed.
LEMMA InitLifeInv == ASSUME LifeInit PROVE LifeInv
<1>1. LifeTypeOK
  BY InitType, Zenon
<1>2. \A p \in Pods : MutatorHoldsSigner(p) /\ MarkerFollows(p) /\ SeesAccount(p)
  BY Zenon DEF LifeInit, MutatorHoldsSigner, MarkerFollows, SeesAccount, HasSigner, HasTradeTask
<1> QED
  BY <1>1, <1>2, Zenon DEF LifeInv

\* Every step of a process, of the exchange and of the chain keeps the invariant.
LEMMA NextLifeInv ==
  ASSUME PodsAssumption, LifeInv, [LifeNext]_lifeVars
  PROVE  LifeInv'
<1> DEFINE PodOK(q) == MutatorHoldsSigner(q) /\ MarkerFollows(q) /\ SeesAccount(q)
<1>1. LifeTypeOK /\ LifeTypeOK' /\ \A q \in Pods : PodOK(q)
  BY NextType, Zenon DEF LifeInv
<1>2. CASE AccountChanges
  <2> SUFFICES ASSUME NEW q \in Pods PROVE PodOK(q)'
    BY <1>1, Zenon DEF LifeInv
  <2>1. MutatorHoldsSigner(q)' /\ MarkerFollows(q)'
    BY <1>1, <1>2, Zenon DEF AccountChanges, trade_unchanged, MutatorHoldsSigner, MarkerFollows
  <2>2. SeesAccount(q)'
    BY <1>1, <1>2, ChangeSeen, ZenonT(30) DEF AccountChanges
  <2> QED BY <2>1, <2>2, Zenon
<1>3. CASE ChainChanges \/ UNCHANGED lifeVars
  BY <1>1, <1>3 DEF LifeInv, ChainChanges, lifeVars, account_unchanged, trade_unchanged,
                    MutatorHoldsSigner, MarkerFollows, SeesAccount
<1>4. ASSUME NEW p \in Pods, PodStep(p) PROVE LifeInv'
  <2> SUFFICES ASSUME NEW q \in Pods PROVE PodOK(q)'
    BY <1>1, Zenon DEF LifeInv
  <2>f. "free" \notin Pods
    BY Zenon DEF PodsAssumption
  <2>1. CASE q = p
    BY <1>1, <1>4, <2>1, <2>f, SignerStep, MarkerStep, SeesStep
  <2>2. CASE q # p
    <3>1. MutatorHoldsSigner(q)' /\ MarkerFollows(q)'
      <4>1. /\ stage'[q] = stage[q] /\ tasks'[q] = tasks[q] /\ trading'[q] = trading[q]
            /\ moving'[q] = moving[q] /\ marker'[q] = marker[q]
            /\ lock["wallet"] = q => lock'["wallet"] = q
        BY <1>1, <1>4, <2>2, <2>f, OthersKept, Zenon
      <4>2. MutatorHoldsSigner(q)'
        BY <1>1, <4>1, Zenon DEF MutatorHoldsSigner
      <4>3. MarkerFollows(q)'
        BY <1>1, <4>1, Zenon DEF MarkerFollows
      <4> QED BY <4>2, <4>3, Zenon
    <3>2. CASE FinishTrade(p)
      BY <1>1, <1>4, <2>2, <2>f, <3>1, <3>2, OthersKept, ChangeSeen, Zenon DEF FinishTrade
    <3>3. CASE ~FinishTrade(p)
      <4>1. account' = account /\ events'[q] = events[q]
        BY <1>1, <1>4, <2>2, <3>3, AccountKept
      <4>2. stage'[q] = stage[q] /\ view'[q] = view[q]
        BY <1>1, <1>4, <2>2, <2>f, OthersKept, Zenon
      <4> QED
        BY <1>1, <3>1, <4>1, <4>2, ZenonT(30) DEF SeesAccount
    <3> QED BY <3>2, <3>3, ZenonT(30)
  <2> QED BY <2>1, <2>2, Zenon
<1> QED
  BY <1>2, <1>3, <1>4, Zenon DEF LifeNext, PodStep

\* LifeInv is an invariant of the process's life.
THEOREM SpecLifeInv == ASSUME PodsAssumption PROVE LifeSpec => []LifeInv
<1>1. LifeInit => LifeInv
  BY InitLifeInv, Zenon
<1>2. LifeInv /\ [LifeNext]_lifeVars => LifeInv'
  BY NextLifeInv, Zenon
<1> QED
  BY <1>1, <1>2, PTL DEF LifeSpec

\* However many processes overlap in a rollout, and however they start, stop,
\* fail or are killed, at most one of them trades or moves capital (main.rs):
\* the signer's journal, locked before either and released after both, has one
\* holder.
THEOREM OneMutatorAlways == ASSUME PodsAssumption PROVE LifeSpec => []OneMutator
<1>1. LifeInv => OneMutator
  <2> SUFFICES ASSUME LifeInv, NEW p \in Pods, NEW q \in Pods, Mutates(p), Mutates(q) PROVE p = q
    BY Zenon DEF OneMutator
  <2>1. lock["wallet"] = p /\ lock["wallet"] = q
    BY Zenon DEF LifeInv, Mutates, MutatorHoldsSigner, HasSigner
  <2> QED BY <2>1, Zenon
<1> QED
  BY <1>1, SpecLifeInv, PTL

\* A pod's readiness marker, which its restarts inherit, is there only when its
\* own process is up (main.rs).
THEOREM MarkerAlwaysFresh == ASSUME PodsAssumption PROVE LifeSpec => []MarkerIsFresh
<1>1. LifeInv => MarkerIsFresh
  <2>1. {StartUp[i] : i \in DOMAIN StartUp} =
          {"networks", "account", "validate", "readiness", "rebalance", "wallet",
           "espWallet", "orders", "trades", "engines", "drain"}
    <3>1. DOMAIN StartUp = 1 .. 11
      BY DEF StartUp
    <3> QED BY <3>1 DEF StartUp
  <2> QED
    BY <2>1, Zenon DEF LifeInv, MarkerFollows, MarkerIsFresh, Starting, At
<1> QED
  BY <1>1, SpecLifeInv, PTL

\* No change of the account falls between the snapshot start-up reads and the
\* events it has subscribed to (main.rs).
THEOREM NoChangeLost == ASSUME PodsAssumption PROVE LifeSpec => []AccountCaughtUp
<1>1. LifeInv => AccountCaughtUp
  BY Zenon DEF LifeInv, SeesAccount, AccountCaughtUp, At
<1> QED
  BY <1>1, SpecLifeInv, PTL

\* Once the loop has seen ESP's DEX stream end, no later probe of the chain
\* opens ESP again in that process (main.rs, run_chain_readiness_refresh).
THEOREM EspStaysClosedAlways == ASSUME PodsAssumption PROVE LifeSpec => EspFailsClosed
<1>1. ASSUME LifeInv, [LifeNext]_lifeVars PROVE EspStaysClosed \/ UNCHANGED lifeVars
  <2> SUFFICES ASSUME NEW q \in Pods, Up(q), ~Starting(q), ~espReady[q].data, LifeNext
               PROVE  ~espReady'[q].data
    BY <1>1, Zenon DEF EspStaysClosed
  <2>t. espReady \in [Pods -> Flags] /\ espReady[q] \in Flags
    BY <1>1, Zenon DEF LifeInv, LifeTypeOK
  <2>1. CASE \E p \in Pods : EspDexArm(p)
    BY <2>t, <2>1, Zenon DEF EspDexArm, Flags
  <2>2. CASE \E p \in Pods : run_chain_readiness_refresh(p)
    BY <2>t, <2>2 DEF run_chain_readiness_refresh, Flags
  <2>3. CASE \E p \in Pods : ProbeReadiness(p)
    <3>1. "readiness" \in {StartUp[i] : i \in DOMAIN StartUp}
      BY DEF StartUp
    <3> QED BY <2>t, <2>3, <3>1, Zenon DEF ProbeReadiness, Starting, At
  <2>4. CASE \E p \in Pods : Exit(p)
    BY <2>t, <2>4 DEF Exit, Closed
  <2>5. CASE UNCHANGED espReady
    BY <2>5, Zenon
  <2> QED
    <3>1. AccountChanges \/ ChainChanges => UNCHANGED espReady
      BY Zenon DEF AccountChanges, ChainChanges
    <3>2. ASSUME NEW p \in Pods, PodStep(p),
                 ~EspDexArm(p), ~run_chain_readiness_refresh(p), ~ProbeReadiness(p), ~Exit(p)
          PROVE  UNCHANGED espReady
      <4>1. StartUpStep(p) => UNCHANGED espReady
        BY <3>2, Zenon DEF StartUpStep, ConnectNetworks, SubscribeUserData, HydrateAfterSubscription,
                    ValidateVenues, HydrateRebalance, HydrateWallet, HydrateEspWallet,
                    SpawnOrders, SpawnTrades, BuildEngines, MarkReady
      <4>2. LoopStep(p) \/ TradeStep(p) => UNCHANGED espReady
        BY <3>2, Zenon DEF LoopStep, TradeStep, OnUserData, RebalanceStarts, RebalanceEnds, Submit,
                    TakePlan, FinishTrade, TradeTaskEnds
      <4>3. Start(p) \/ ShutdownStep(p) \/ EspStreamEnds(p) \/ Signal(p) => UNCHANGED espReady
        BY <3>2, Zenon DEF Start, ShutdownStep, AbortRebalance, AbortTasks, DropEngines, AwaitTrade,
                    AwaitHotTelemetry, EspStreamEnds, Signal
      <4> QED BY <3>2, <4>1, <4>2, <4>3 DEF PodStep
    <3> QED
      BY <2>1, <2>2, <2>3, <2>4, <2>5, <3>1, <3>2 DEF LifeNext, PodStep
<1>2. LifeInv /\ [LifeNext]_lifeVars => [EspStaysClosed]_lifeVars
  BY <1>1, Zenon
<1> QED
  BY <1>2, SpecLifeInv, PTL DEF LifeSpec, EspFailsClosed

-----------------------------------------------------------------------------
(* The reservations.                                                       *)
INSTANCE FiniteSetTheorems

LiveOps == {o \in Ops : Live(o)}

IInv ==
    /\ TypeOK
    /\ TotalsMatchClaims
    /\ NoReconciledReservationHeld
    /\ \A o \in Ops : Live(o) => reservations[o].settlement_locations # {}

USE OpsAssumption, BoundsAssumption, RequestsAssumption

-----------------------------------------------------------------------------
\* The units claimed by finitely many operations are finitely many.
LEMMA ClaimedUnitsFinite ==
    ASSUME NEW rs, NEW S \in SUBSET Ops, NEW k
    PROVE  /\ IsFiniteSet(ClaimedUnits(rs, S, k))
           /\ ClaimSum(rs, S, k) \in Nat
<1>1. IsFiniteSet(S)
  BY FS_Subset, Zenon
<1>2. IsFiniteSet(1 .. MaxAmount)
  BY FS_Interval
<1>3. IsFiniteSet(S \X (1 .. MaxAmount))
  BY <1>1, <1>2, FS_Product, Zenon
<1>4. IsFiniteSet(ClaimedUnits(rs, S, k))
  BY <1>3, FS_Subset, Zenon DEF ClaimedUnits
<1>5. QED
  BY <1>4, FS_CardinalityType, Zenon DEF ClaimSum

\* Claims of disjoint groups of operations add up.
LEMMA ClaimSumDisjoint ==
    ASSUME NEW rs, NEW S \in SUBSET Ops, NEW R \in SUBSET Ops, S \cap R = {}, NEW k
    PROVE  ClaimSum(rs, S \cup R, k) = ClaimSum(rs, S, k) + ClaimSum(rs, R, k)
<1> DEFINE A == ClaimedUnits(rs, S, k)
           B == ClaimedUnits(rs, R, k)
<1>1. ClaimedUnits(rs, S \cup R, k) = A \cup B
  BY Zenon DEF ClaimedUnits
<1>2. A \cap B = {}
  BY Zenon DEF ClaimedUnits
<1>3. IsFiniteSet(A) /\ IsFiniteSet(B) /\ Cardinality(A) \in Nat /\ Cardinality(B) \in Nat
  BY ClaimedUnitsFinite, Zenon DEF ClaimSum
<1>4. Cardinality(A \cup B) = Cardinality(A) + Cardinality(B) - Cardinality(A \cap B)
  BY <1>3, FS_Union, Zenon
<1>5. Cardinality(A \cap B) = 0
  BY <1>2, FS_EmptySet, Zenon
<1>6. /\ ClaimSum(rs, S, k) = Cardinality(A)
      /\ ClaimSum(rs, R, k) = Cardinality(B)
      /\ ClaimSum(rs, S \cup R, k) = Cardinality(A \cup B)
  BY <1>1, Zenon DEF ClaimSum
<1> HIDE DEF A, B
<1>7. QED
  BY <1>3, <1>4, <1>5, <1>6, SMTT(30)

\* One operation contributes its own claim.
LEMMA ClaimSumSingle ==
    ASSUME NEW rs, NEW o \in Ops, NEW k, rs[o].claims[k] \in 0 .. MaxAmount
    PROVE  ClaimSum(rs, {o}, k) = rs[o].claims[k]
<1> DEFINE n == rs[o].claims[k]
<1>1. ClaimedUnits(rs, {o}, k) = {o} \X (1 .. n)
  BY DEF ClaimedUnits
<1>2. IsFiniteSet({o}) /\ Cardinality({o}) = 1
  BY FS_Singleton, Zenon
<1>0. n \in Nat
  OBVIOUS
<1> HIDE DEF n
<1>3. IsFiniteSet(1 .. n) /\ Cardinality(1 .. n) = n
  <2>1. 1 \in Int /\ n \in Int
    BY <1>0
  <2>2. IsFiniteSet(1 .. n) /\ Cardinality(1 .. n) = IF 1 > n THEN 0 ELSE n - 1 + 1
    BY <2>1, FS_Interval, Zenon
  <2>3. QED
    BY <1>0, <2>2, SMTT(30)
<1>4. Cardinality({o} \X (1 .. n)) = Cardinality({o}) * Cardinality(1 .. n)
  BY <1>2, <1>3, FS_Product, Zenon
<1>5. Cardinality({o} \X (1 .. n)) = n
  BY <1>0, <1>2, <1>3, <1>4, SMTT(30)
<1>6. QED
  BY <1>1, <1>5, Zenon DEF ClaimSum, n

\* The sum depends only on the claims of the operations it ranges over.
LEMMA ClaimSumAgrees ==
    ASSUME NEW rs, NEW qs, NEW S \in SUBSET Ops, NEW k,
           \A o \in S : rs[o].claims[k] = qs[o].claims[k]
    PROVE  ClaimSum(rs, S, k) = ClaimSum(qs, S, k)
<1>1. ClaimedUnits(rs, S, k) = ClaimedUnits(qs, S, k)
  BY Zenon DEF ClaimedUnits
<1>2. QED
  BY <1>1, Zenon DEF ClaimSum

\* The sum over no operations is zero.
LEMMA ClaimSumEmpty ==
    ASSUME NEW rs, NEW k
    PROVE  ClaimSum(rs, {}, k) = 0
<1>1. ClaimedUnits(rs, {}, k) = {}
  BY Zenon DEF ClaimedUnits
<1>2. QED
  BY <1>1, FS_EmptySet, Zenon DEF ClaimSum

-----------------------------------------------------------------------------
\* Removing a set of live operations keeps the totals equal to what is left.
LEMMA RemovePreservesTotals ==
    ASSUME IInv, NEW S \in SUBSET LiveOps, Remove(S)
    PROVE  /\ TotalsMatchClaims'
           /\ reserved_totals' \in [Keys -> Nat]
           /\ reservations' \in [Ops -> Reservation]
<1>1. LiveOps' = LiveOps \ S
  BY Zenon DEF IInv, TypeOK, Remove, LiveOps, Live, NoReservation, Reservation
<1>2. reservations' \in [Ops -> Reservation]
  BY DEF IInv, TypeOK, Remove, NoReservation, NoClaims, Reservation
<1>3. ASSUME NEW k \in Keys
      PROVE  /\ reserved_totals'[k] = ClaimSum(reservations', LiveOps', k)
             /\ reserved_totals'[k] \in Nat
  <2> DEFINE R == LiveOps \ S
  <2>1. R \in SUBSET Ops /\ S \in SUBSET Ops /\ R \cap S = {} /\ R \cup S = LiveOps
    BY Zenon DEF LiveOps
  <2>2. ClaimSum(reservations, LiveOps, k) =
          ClaimSum(reservations, R, k) + ClaimSum(reservations, S, k)
    <3> HIDE DEF R
    <3>1. ClaimSum(reservations, R \cup S, k) =
            ClaimSum(reservations, R, k) + ClaimSum(reservations, S, k)
      BY <2>1, ClaimSumDisjoint
    <3>2. QED
      BY <2>1, <3>1, Zenon
  <2>3. reserved_totals[k] = ClaimSum(reservations, LiveOps, k)
    BY Zenon DEF IInv, TotalsMatchClaims, LiveOps
  <2>4. \A o \in R : reservations'[o].claims[k] = reservations[o].claims[k]
    BY <2>1, Zenon DEF Remove
  <2>5. ClaimSum(reservations', R, k) = ClaimSum(reservations, R, k)
    BY <2>1, <2>4, ClaimSumAgrees
  <2>6. ClaimSum(reservations, R, k) \in Nat /\ ClaimSum(reservations, S, k) \in Nat
    BY <2>1, ClaimedUnitsFinite, Zenon
  <2>7. reserved_totals'[k] = reserved_totals[k] - ClaimSum(reservations, S, k)
    BY Zenon DEF Remove
  <2> HIDE DEF R
  <2>8. reserved_totals'[k] = ClaimSum(reservations', R, k)
    BY <2>2, <2>3, <2>5, <2>6, <2>7, SMTT(30)
  <2>9. QED
    BY <1>1, <2>5, <2>6, <2>8, Zenon DEF R
<1>4. reserved_totals' \in [Keys -> Nat]
  BY <1>3, Zenon DEF Remove
<1>5. QED
  BY <1>2, <1>3, <1>4, Zenon DEF TotalsMatchClaims, LiveOps

\* A new reservation adds exactly its claims to the totals.
LEMMA ReservePreservesTotals ==
    ASSUME IInv, NEW o \in Ops, NEW request \in Requests, Reserve(o, request)
    PROVE  /\ TotalsMatchClaims'
           /\ reserved_totals' \in [Keys -> Nat]
           /\ reservations' \in [Ops -> Reservation]
<1>0. /\ request.claims \in [Keys -> 0 .. MaxAmount]
      /\ request.settlement_locations \in SUBSET Locations
  BY Zenon DEF Reserve
<1>1. LiveOps' = LiveOps \cup {o} /\ o \notin LiveOps
  BY DEF IInv, TypeOK, Reserve, LiveOps, Live, Reservation
<1>2. reservations' \in [Ops -> Reservation]
  BY <1>0, ZenonT(30) DEF IInv, TypeOK, Reserve, Reservation
<1>3. ASSUME NEW k \in Keys
      PROVE  /\ reserved_totals'[k] = ClaimSum(reservations', LiveOps', k)
             /\ reserved_totals'[k] \in Nat
  <2>1. LiveOps \in SUBSET Ops /\ {o} \in SUBSET Ops /\ LiveOps \cap {o} = {}
    BY <1>1, Zenon DEF LiveOps
  <2>2. ClaimSum(reservations', LiveOps \cup {o}, k) =
          ClaimSum(reservations', LiveOps, k) + ClaimSum(reservations', {o}, k)
    BY <2>1, ClaimSumDisjoint
  <2>3. \A p \in LiveOps : reservations'[p].claims[k] = reservations[p].claims[k]
    BY <1>1, <2>1, ZenonT(30) DEF Reserve, IInv, TypeOK
  <2>4. ClaimSum(reservations', LiveOps, k) = ClaimSum(reservations, LiveOps, k)
    BY <2>1, <2>3, ClaimSumAgrees
  <2>5. reservations'[o].claims[k] = request.claims[k]
    BY Zenon DEF Reserve, IInv, TypeOK
  <2>6. ClaimSum(reservations', {o}, k) = request.claims[k]
    BY <1>0, <2>5, ClaimSumSingle, ZenonT(30)
  <2>7. reserved_totals[k] = ClaimSum(reservations, LiveOps, k)
    BY Zenon DEF IInv, TotalsMatchClaims, LiveOps
  <2>8. reserved_totals'[k] = reserved_totals[k] + request.claims[k]
    BY Zenon DEF Reserve
  <2>9. reserved_totals[k] \in Nat /\ request.claims[k] \in Nat
    BY <1>0 DEF IInv, TypeOK
  <2>10. QED
    BY <1>1, <2>2, <2>4, <2>6, <2>7, <2>8, <2>9, SMTT(30)
<1>4. reserved_totals' \in [Keys -> Nat]
  BY <1>3, Zenon DEF Reserve
<1>5. QED
  BY <1>2, <1>3, <1>4, Zenon DEF TotalsMatchClaims, LiveOps

\* Accepting a snapshot removes exactly the reconciled reservations.
LEMMA SnapshotPreserves ==
    ASSUME IInv, NEW l \in Locations, NEW gen \in 1 .. MaxGeneration,
           NEW balances \in Balances, NEW kept \in [Keys -> Int],
           AcceptSnapshot(l, gen, balances, kept)
    PROVE  IInv'
<1> DEFINE S == Reconciled(location_generations')
<1>1. S \in SUBSET LiveOps /\ Remove(S)
  BY Zenon DEF AcceptSnapshot, Reconciled, LiveOps, Live, Pending
<1>2. /\ TotalsMatchClaims'
      /\ reserved_totals' \in [Keys -> Nat]
      /\ reservations' \in [Ops -> Reservation]
  BY <1>1, RemovePreservesTotals, ZenonT(30)
<1>3. /\ location_generations' \in [Locations -> Nat]
      /\ location_generations \in [Locations -> Nat]
      /\ reservations \in [Ops -> Reservation]
  BY DEF AcceptSnapshot, IInv, TypeOK
<1>4. observed' \in [Keys -> Int]
  <2>1. \A k \in Keys : k[2] \in Assets
    BY Zenon DEF Keys
  <2>2. balances \in [Assets -> Int]
    BY DEF Balances, NoBalance
  <2>3. QED
    BY <2>1, <2>2, Zenon DEF AcceptSnapshot, IInv, TypeOK
<1>5. \A o \in Ops : reservations'[o] = IF o \in S THEN NoReservation ELSE reservations[o]
  BY <1>1, ZenonT(30) DEF Remove
<1>6. ASSUME NEW o \in Ops, Live(o)'
      PROVE  /\ o \notin S
             /\ reservations'[o] = reservations[o]
             /\ Live(o)
  BY <1>5, <1>6, SMTT(30) DEF Live, NoReservation
<1>7. NoReconciledReservationHeld'
  <2> SUFFICES ASSUME NEW o \in Ops, Pending(o)'
               PROVE  \E m \in reservations'[o].settlement_locations :
                         location_generations'[m] <= reservations'[o].barrier[m]
    BY Zenon DEF NoReconciledReservationHeld
  <2>1. o \notin S /\ reservations'[o] = reservations[o] /\ Pending(o)
    BY <1>6, Zenon DEF Pending, Live
  <2>2. PICK m \in reservations[o].settlement_locations :
           ~(location_generations'[m] > reservations[o].barrier[m])
    BY <2>1, Zenon DEF Reconciled
  <2>3. m \in Locations /\ reservations[o].barrier[m] \in Nat
    BY <1>3 DEF Reservation
  <2>4. QED
    BY <1>3, <2>1, <2>2, <2>3, SMTT(30)
<1>8. QED
  BY <1>2, <1>3, <1>4, <1>6, <1>7, ZenonT(30) DEF IInv, TypeOK

-----------------------------------------------------------------------------
\* Before any snapshot and any reservation the invariant holds.
LEMMA InitIInv == Init => IInv
<1> SUFFICES ASSUME Init PROVE IInv
  BY ZenonT(30)
<1>1. TypeOK
  BY DEF Init, TypeOK, NoBalance, NoReservation, NoClaims, Reservation
<1>2. \A o \in Ops : ~Live(o) /\ ~Pending(o)
  BY Zenon DEF Init, Live, Pending, NoReservation
<1>3. LiveOps = {}
  BY <1>2, Zenon DEF LiveOps
<1>4. TotalsMatchClaims
  BY <1>3, ClaimSumEmpty, Zenon DEF Init, TotalsMatchClaims, LiveOps
<1>5. QED
  BY <1>1, <1>2, <1>4, Zenon DEF IInv, NoReconciledReservationHeld

\* Marking an operation pending keeps its claims and names locations whose
\* generation equals the barrier just taken.
LEMMA MarkPreserves ==
    ASSUME IInv, NEW o \in Ops, MarkPendingSettlement(o)
    PROVE  IInv'
<1>1. /\ reservations'[o].state = "pending"
      /\ reservations'[o].claims = reservations[o].claims
      /\ reservations'[o].settlement_locations = reservations[o].settlement_locations
      /\ \A l \in reservations[o].settlement_locations :
            reservations'[o].barrier[l] = location_generations[l]
      /\ \A p \in Ops \ {o} : reservations'[p] = reservations[p]
  BY ZenonT(30) DEF MarkPendingSettlement, IInv, TypeOK, Reservation
<1>2. reservations' \in [Ops -> Reservation]
  <2> DEFINE barrier == [l \in Locations |->
                 IF l \in reservations[o].settlement_locations
                 THEN location_generations[l] ELSE 0]
             marked == [reservations[o] EXCEPT !.state = "pending", !.barrier = barrier]
  <2>1. barrier \in [Locations -> Nat]
    BY Zenon DEF IInv, TypeOK
  <2>2. reservations[o] \in Reservation
    BY Zenon DEF IInv, TypeOK
  <2>3. reservations' = [reservations EXCEPT ![o] = marked]
    BY Zenon DEF MarkPendingSettlement, IInv, TypeOK
  <2> HIDE DEF barrier
  <2>4. marked \in Reservation
    BY <2>1, <2>2, Zenon DEF Reservation
  <2> HIDE DEF marked
  <2>5. QED
    BY <2>3, <2>4, Zenon DEF IInv, TypeOK
<1>3. /\ location_generations' = location_generations /\ observed' = observed
      /\ reserved_totals' = reserved_totals
  BY Zenon DEF MarkPendingSettlement
<1>4. TypeOK'
  BY <1>2, <1>3, Zenon DEF IInv, TypeOK
<1>5. LiveOps' = LiveOps /\ LiveOps \in SUBSET Ops
  BY <1>1, ZenonT(30) DEF LiveOps, Live, MarkPendingSettlement, Active
<1>6. TotalsMatchClaims'
  <2> SUFFICES ASSUME NEW k \in Keys
               PROVE  reserved_totals'[k] = ClaimSum(reservations', LiveOps', k)
    BY Zenon DEF TotalsMatchClaims, LiveOps
  <2>1. \A p \in LiveOps : reservations'[p].claims[k] = reservations[p].claims[k]
    BY <1>1, Zenon DEF LiveOps
  <2>2. ClaimSum(reservations', LiveOps, k) = ClaimSum(reservations, LiveOps, k)
    BY <1>5, <2>1, ClaimSumAgrees, SMTT(30)
  <2>3. QED
    BY <1>3, <1>5, <2>2, Zenon DEF IInv, TotalsMatchClaims, LiveOps
<1>7. reservations[o].settlement_locations # {}
  BY Zenon DEF IInv, Live, MarkPendingSettlement, Active
<1>8. NoReconciledReservationHeld'
  <2> SUFFICES ASSUME NEW p \in Ops, Pending(p)'
               PROVE  \E l \in reservations'[p].settlement_locations :
                         location_generations'[l] <= reservations'[p].barrier[l]
    BY Zenon DEF NoReconciledReservationHeld
  <2>1. CASE p = o
    <3>1. PICK l \in reservations[o].settlement_locations : TRUE
      BY <1>7, Zenon
    <3>2. l \in Locations /\ location_generations[l] \in Nat
      BY Zenon DEF IInv, TypeOK, Reservation
    <3>3. QED
      BY <1>1, <1>3, <2>1, <3>1, <3>2, SMTT(30)
  <2>2. CASE p # o
    BY <1>1, <1>3, <2>2, Zenon DEF IInv, NoReconciledReservationHeld, Pending
  <2>3. QED
    BY <2>1, <2>2, Zenon
<1>9. QED
  BY <1>1, <1>4, <1>6, <1>7, <1>8, Zenon DEF IInv, Live

\* Every operation of the component preserves the invariant.
LEMMA NextIInv == IInv /\ [Next]_vars => IInv'
<1> SUFFICES ASSUME IInv, [Next]_vars PROVE IInv'
  BY Zenon
<1>1. ASSUME NEW o \in Ops, NEW request \in Requests, Reserve(o, request)
      PROVE  IInv'
  <2>1. TotalsMatchClaims' /\ TypeOK'
    BY <1>1, ReservePreservesTotals, Zenon DEF IInv, TypeOK, Reserve
  <2>2. /\ reservations'[o].state = "active"
        /\ reservations'[o].settlement_locations # {}
        /\ \A p \in Ops \ {o} : reservations'[p] = reservations[p]
        /\ location_generations' = location_generations
    BY <1>1, Zenon DEF Reserve, ValidRequest, IInv, TypeOK
  <2>3. NoReconciledReservationHeld'
    BY <2>2, Zenon DEF IInv, NoReconciledReservationHeld, Pending
  <2>4. \A p \in Ops : Live(p)' => reservations'[p].settlement_locations # {}
    BY <2>2, Zenon DEF IInv, Live
  <2>5. QED
    BY <2>1, <2>3, <2>4, Zenon DEF IInv
<1>2. ASSUME NEW o \in Ops, ReleaseUnsubmitted(o)
      PROVE  IInv'
  <2>1. {o} \in SUBSET LiveOps /\ Remove({o})
    BY <1>2, Zenon DEF ReleaseUnsubmitted, LiveOps, Live, Active
  <2>2. TotalsMatchClaims' /\ TypeOK'
    BY <1>2, <2>1, RemovePreservesTotals, ZenonT(30) DEF IInv, TypeOK, ReleaseUnsubmitted
  <2>3. /\ reservations'[o].state = "absent"
        /\ \A p \in Ops \ {o} : reservations'[p] = reservations[p]
        /\ location_generations' = location_generations
    BY <1>2, <2>1 DEF Remove, NoReservation, ReleaseUnsubmitted
  <2>4. QED
    BY <2>2, <2>3, ZenonT(30) DEF IInv, NoReconciledReservationHeld, Pending, Live
<1>3. ASSUME NEW o \in Ops, MarkPendingSettlement(o)
      PROVE  IInv'
  BY <1>3, MarkPreserves, Zenon
<1>4. ASSUME NEW l \in Locations, NEW gen \in 1 .. MaxGeneration, NEW balances \in Balances,
             UpdateLocation(l, gen, balances)
      PROVE  IInv'
  <2>1. [k \in Keys |-> NoBalance] \in [Keys -> Int]
    BY DEF NoBalance
  <2>2. QED
    BY <1>4, <2>1, SnapshotPreserves, Zenon DEF UpdateLocation
<1>5. ASSUME NEW l \in Locations, NEW gen \in 1 .. MaxGeneration, NEW balances \in Balances,
             UpdateLocationAssets(l, gen, balances)
      PROVE  IInv'
  <2>1. observed \in [Keys -> Int]
    BY Zenon DEF IInv, TypeOK
  <2>2. QED
    BY <1>5, <2>1, SnapshotPreserves, Zenon DEF UpdateLocationAssets
<1>6. CASE UNCHANGED vars
  BY <1>6, Zenon DEF vars, IInv, TypeOK, TotalsMatchClaims, ClaimSum, ClaimedUnits,
              NoReconciledReservationHeld, Pending, Live
<1>7. QED
  BY <1>1, <1>2, <1>3, <1>4, <1>5, <1>6, ZenonT(30) DEF Next

-----------------------------------------------------------------------------
\* The inductive invariant holds in every reachable state.
THEOREM SpecIInv == Spec => []IInv
BY InitIInv, NextIInv, PTL DEF Spec

\* The maps of the inventory keep their types; in particular no aggregate ever
\* goes below zero, so the checked subtraction of remove_reservation never
\* panics.
THEOREM SpecTypeOK == Spec => []TypeOK
<1>1. IInv => TypeOK
  BY Zenon DEF IInv
<1>2. QED
  BY <1>1, SpecIInv, PTL

\* The aggregates always equal the sum of the live claims.
THEOREM SpecTotalsMatchClaims == Spec => []TotalsMatchClaims
<1>1. IInv => TotalsMatchClaims
  BY Zenon DEF IInv
<1>2. QED
  BY <1>1, SpecIInv, PTL

\* No update leaves a reservation behind whose settlement is complete.
THEOREM SpecNoReconciledReservationHeld == Spec => []NoReconciledReservationHeld
<1>1. IInv => NoReconciledReservationHeld
  BY Zenon DEF IInv
<1>2. QED
  BY <1>1, SpecIInv, PTL

\* A reservation leaves only as unsubmitted or past its settlement barrier.
THEOREM SpecSettlementBarrier == Spec => SettlementBarrier
<1>1. IInv /\ [Next]_vars => [SettlementBarrierStep]_vars
  <2> SUFFICES ASSUME IInv, [Next]_vars, NEW p \in Ops,
                      Live(p), reservations'[p].state = "absent"
               PROVE  \/ Active(p) /\ UNCHANGED <<observed, location_generations>>
                      \/ /\ Pending(p)
                         /\ \A l \in reservations[p].settlement_locations :
                               location_generations'[l] > reservations[p].barrier[l]
    BY Zenon DEF SettlementBarrierStep
  <2>1. ASSUME NEW o \in Ops, NEW request \in Requests, Reserve(o, request)
        PROVE  FALSE
    BY <2>1, Zenon DEF Reserve, Live, IInv, TypeOK
  <2>2. ASSUME NEW o \in Ops, ReleaseUnsubmitted(o)
        PROVE  Active(p) /\ UNCHANGED <<observed, location_generations>>
    BY <2>2, Zenon DEF ReleaseUnsubmitted, Remove, Live, Active
  <2>3. ASSUME NEW o \in Ops, MarkPendingSettlement(o)
        PROVE  FALSE
    BY <2>3, ZenonT(30) DEF MarkPendingSettlement, Live, IInv, TypeOK, Reservation
  <2>4. ASSUME NEW l \in Locations, NEW gen, NEW balances, NEW kept,
               AcceptSnapshot(l, gen, balances, kept)
        PROVE  /\ Pending(p)
               /\ \A m \in reservations[p].settlement_locations :
                     location_generations'[m] > reservations[p].barrier[m]
    BY <2>4, Zenon DEF AcceptSnapshot, Remove, Reconciled, Live
  <2>5. CASE UNCHANGED vars
    BY <2>5, Zenon DEF vars, Live
  <2>6. QED
    BY <2>1, <2>2, <2>3, <2>4, <2>5, ZenonT(30) DEF Next, UpdateLocation, UpdateLocationAssets
<1>2. QED
  BY <1>1, SpecIInv, PTL DEF Spec, SettlementBarrier

\* Admission keeps the live claims within the observed balance.
THEOREM SpecNoOverAdmission == Spec => NoOverAdmission
<1>1. IInv /\ [Next]_vars => [NoOverAdmissionStep]_vars
  <2> SUFFICES ASSUME IInv, [Next]_vars, NEW p \in Ops, NEW k \in Keys,
                      ~Live(p), reservations'[p].state = "active",
                      reservations'[p].claims[k] > 0
               PROVE  ClaimSum(reservations', LiveOps', k) <= observed'[k]
    BY Zenon DEF NoOverAdmissionStep, LiveOps, Live
  <2>1. ASSUME NEW o \in Ops, NEW request \in Requests, Reserve(o, request)
        PROVE  ClaimSum(reservations', LiveOps', k) <= observed'[k]
    <3>1. o = p
      BY <2>1, Zenon DEF Reserve, Live, IInv, TypeOK
    <3>2. reservations'[p].claims = request.claims
      BY <2>1, <3>1, ZenonT(30) DEF Reserve, IInv, TypeOK
    <3>3. /\ request.claims[k] \in Nat /\ reserved_totals[k] \in Nat
          /\ observed[k] \in Int
      BY <2>1 DEF IInv, TypeOK
    <3>4. Admits(k, request.claims[k])
      BY <2>1, <3>2, Zenon DEF Reserve
    <3>5. reserved_totals'[k] = reserved_totals[k] + request.claims[k] /\ observed' = observed
      BY <2>1, Zenon DEF Reserve
    <3>6. reserved_totals'[k] = ClaimSum(reservations', LiveOps', k)
      BY <2>1, ReservePreservesTotals, ZenonT(30) DEF TotalsMatchClaims, LiveOps
    <3>7. reserved_totals'[k] <= observed'[k]
      BY <3>3, <3>4, <3>5, SMTT(30) DEF Admits
    <3>8. QED
      BY <3>6, <3>7, Zenon
  <2>2. ASSUME NEW o \in Ops, ReleaseUnsubmitted(o)
        PROVE  FALSE
    BY <2>2, Zenon DEF ReleaseUnsubmitted, Remove, Live, NoReservation
  <2>3. ASSUME NEW o \in Ops, MarkPendingSettlement(o)
        PROVE  FALSE
    BY <2>3, Zenon DEF MarkPendingSettlement, Live, IInv, TypeOK, Reservation, Active
  <2>4. ASSUME NEW l \in Locations, NEW gen, NEW balances, NEW kept,
               AcceptSnapshot(l, gen, balances, kept)
        PROVE  FALSE
    BY <2>4, Zenon DEF AcceptSnapshot, Remove, Live, NoReservation
  <2>5. CASE UNCHANGED vars
    BY <2>5, Zenon DEF vars, Live
  <2>6. QED
    BY <2>1, <2>2, <2>3, <2>4, <2>5, Zenon DEF Next, UpdateLocation, UpdateLocationAssets
<1>2. QED
  BY <1>1, SpecIInv, PTL DEF Spec, NoOverAdmission

\* Generations and balances only move forward, at every location.
THEOREM SpecSnapshotsMoveForward == Spec => SnapshotsMoveForward
<1>1. IInv /\ [Next]_vars => [SnapshotsMoveForwardStep]_vars
  <2> SUFFICES ASSUME IInv, [Next]_vars
               PROVE  SnapshotsMoveForwardStep
    BY Zenon
  <2>1. CASE UNCHANGED <<observed, location_generations>>
    BY <2>1, SMTT(30) DEF SnapshotsMoveForwardStep, IInv, TypeOK
  <2>2. ASSUME NEW l \in Locations, NEW gen \in 1 .. MaxGeneration, NEW balances, NEW kept,
               AcceptSnapshot(l, gen, balances, kept)
        PROVE  SnapshotsMoveForwardStep
    <3>1. /\ location_generations' = [location_generations EXCEPT ![l] = gen]
          /\ location_generations \in [Locations -> Nat]
          /\ gen \in Nat /\ gen > location_generations[l]
      BY <2>2 DEF AcceptSnapshot, IInv, TypeOK
    <3>2. \A k \in Keys : LocationOf(k) # l => observed'[k] = observed[k]
      BY <2>2, Zenon DEF AcceptSnapshot
    <3>3. QED
      BY <3>1, <3>2, SMTT(30) DEF SnapshotsMoveForwardStep
  <2>3. QED
    BY <2>1, <2>2, Zenon DEF Next, vars, Reserve, ReleaseUnsubmitted, MarkPendingSettlement,
                      UpdateLocation, UpdateLocationAssets
<1>2. QED
  BY <1>1, SpecIInv, PTL DEF Spec, SnapshotsMoveForward
=============================================================================
