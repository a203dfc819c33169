---------------------------- MODULE BalanceSync -----------------------------
(***************************************************************************)
(* Balance synchronization (balances.rs) and what the engines make of it.   *)
(* A wallet task reads balances at the newest head of a watch; a Binance    *)
(* task polls the account over REST; the user data stream reports positions.*)
(* The owner loop applies whatever arrives and releases the inventory       *)
(* reservation of a finished trade once both locations have a later         *)
(* generation than when the trade ended.                                    *)
(*                                                                          *)
(* One trade of the ESP engine on Arbitrum: a swap mined in some block and  *)
(* an order filled on Binance.  A balance is only whether it includes the   *)
(* trade.  The wallet location's generation is the block of its snapshot;   *)
(* of Binance's, a counter, the model keeps whether it moved since the      *)
(* barrier was set.  Two streams feed the one Arbitrum head watch.          *)
(***************************************************************************)
EXTENDS Naturals, Sequences

CONSTANTS Horizon,      \* last block of the model
          ChannelCap    \* capacity of each balance channel

VARIABLES
  block, minedAt, filled,      \* outside: head of the chain, the trade's effects
  streamAt,                    \* last head each stream handed to the owner loop
  headWatch, headChanged,      \* esp_wallet_heads
  walletTask, restTask,        \* the two tasks of spawn_balance_sync
  walletChan, restChan, userChan,
  walletGen, observed,         \* the shared inventory
  snapshot,                    \* block of BalanceState.wallet of the ESP engine
  reservation                  \* the trade's inventory reservation

outside == <<block, minedAt, filled>>
balVars == <<block, minedAt, filled, streamAt, headWatch, headChanged,
             walletTask, restTask, walletChan, restChan, userChan,
             walletGen, observed, snapshot, reservation>>

Streams == {"esp", "arb"}   \* both engines' streams follow Arbitrum
Locations == {"wallet", "binance"}
Idle == [st |-> "idle", at |-> 0]
Failed == [kind |-> "failed", at |-> 0, sees |-> FALSE]
Full(chan) == Len(chan) >= ChannelCap

(* What a read at block b shows of the swap.                                *)
SwapVisible(b) == minedAt # 0 /\ minedAt <= b

BalInit ==
  /\ block = 1 /\ minedAt = 0 /\ filled = FALSE
  /\ streamAt = [s \in Streams |-> 1]
  /\ headWatch = 1 /\ headChanged = FALSE
  /\ walletTask = Idle /\ restTask = Idle
  /\ walletChan = <<>> /\ restChan = <<>> /\ userChan = <<>>
  /\ walletGen = 1 /\ observed = [l \in Locations |-> FALSE]
  /\ snapshot = 1
  /\ reservation = [st |-> "Active", wallet |-> 0, moved |-> FALSE]

----------------------------------------------------------------------------
(* The chain and the exchange.                                              *)
MineBlock ==
  /\ block < Horizon
  /\ block' = block + 1
  /\ \/ minedAt' = minedAt
     \/ minedAt = 0 /\ minedAt' = block + 1
  /\ UNCHANGED <<filled, streamAt, headWatch, headChanged, walletTask, restTask,
                 walletChan, restChan, userChan, walletGen, observed, snapshot,
                 reservation>>

FillOrder ==
  /\ ~filled /\ filled' = TRUE
  /\ userChan' = Append(userChan, "position")
  /\ UNCHANGED <<block, minedAt, streamAt, headWatch, headChanged, walletTask,
                 restTask, walletChan, restChan, walletGen, observed, snapshot,
                 reservation>>

----------------------------------------------------------------------------
(* The owner loop takes the next head of a stream; send_replace marks the   *)
(* watch changed even for an older head.                                    *)
StreamHead(s) ==
  /\ streamAt[s] < block
  /\ streamAt' = [streamAt EXCEPT ![s] = @ + 1]
  /\ headWatch' = streamAt[s] + 1 /\ headChanged' = TRUE
  /\ UNCHANGED <<outside, walletTask, restTask, walletChan, restChan, userChan,
                 walletGen, observed, snapshot, reservation>>

(* spawn_wallet_balance_sync: one read at a time, at the head borrowed.     *)
WalletBorrow ==
  /\ walletTask = Idle /\ headChanged
  /\ walletTask' = [st |-> "reading", at |-> headWatch]
  /\ headChanged' = FALSE
  /\ UNCHANGED <<outside, streamAt, headWatch, restTask, walletChan, restChan,
                 userChan, walletGen, observed, snapshot, reservation>>

(* fetch_wallet_snapshot: all balances of one pinned block, or a failure.   *)
(* The read of the last modelled head succeeds: beyond it others follow.    *)
WalletAnswer(ok) ==
  /\ walletTask.st = "reading" /\ ~Full(walletChan)
  /\ ~ok => walletTask.at < Horizon
  /\ walletChan' = Append(walletChan,
       IF ok THEN [kind |-> "wallet", at |-> walletTask.at,
                   sees |-> SwapVisible(walletTask.at)]
             ELSE Failed)
  /\ walletTask' = Idle
  /\ UNCHANGED <<outside, streamAt, headWatch, headChanged, restTask, restChan,
                 userChan, walletGen, observed, snapshot, reservation>>

(* The Binance task: a tick starts a read, the exchange answers it with the *)
(* account of that moment, and a first error is retried once after a clock  *)
(* resynchronization.                                                       *)
RestTick ==
  /\ restTask = Idle
  /\ restTask' = [st |-> "first", at |-> 0]
  /\ UNCHANGED <<outside, streamAt, headWatch, headChanged, walletTask,
                 walletChan, restChan, userChan, walletGen, observed, snapshot,
                 reservation>>

RestAnswer ==
  /\ restTask.st \in {"first", "retry"}
  /\ restTask' = [st |-> "answered", at |-> IF filled THEN 1 ELSE 0]
  /\ UNCHANGED <<outside, streamAt, headWatch, headChanged, walletTask,
                 walletChan, restChan, userChan, walletGen, observed, snapshot,
                 reservation>>

RestError ==
  /\ restTask.st \in {"first", "clock", "retry"}
  /\ restTask' = [st |-> IF restTask.st = "first" THEN "clock" ELSE "failed",
                  at |-> 0]
  /\ UNCHANGED <<outside, streamAt, headWatch, headChanged, walletTask,
                 walletChan, restChan, userChan, walletGen, observed, snapshot,
                 reservation>>

ClockSynchronized ==
  /\ restTask.st = "clock"
  /\ restTask' = [st |-> "retry", at |-> 0]
  /\ UNCHANGED <<outside, streamAt, headWatch, headChanged, walletTask,
                 walletChan, restChan, userChan, walletGen, observed, snapshot,
                 reservation>>

(* The balances and the open orders of one poll are two events.             *)
RestSend ==
  /\ ~Full(restChan)
  /\ \/ /\ restTask.st = "answered"
        /\ restChan' = Append(restChan, [kind |-> "binance", at |-> 0,
                                         sees |-> restTask.at = 1])
        /\ restTask' = [st |-> "orders", at |-> 0]
     \/ /\ restTask.st = "orders"
        /\ restChan' = Append(restChan, [kind |-> "orders", at |-> 0,
                                         sees |-> FALSE])
        /\ restTask' = Idle
     \/ /\ restTask.st = "failed"
        /\ restChan' = Append(restChan, Failed)
        /\ restTask' = Idle
  /\ UNCHANGED <<outside, streamAt, headWatch, headChanged, walletTask,
                 walletChan, userChan, walletGen, observed, snapshot,
                 reservation>>

----------------------------------------------------------------------------
(* release_reconciled: a pending reservation goes once every settlement     *)
(* location has passed the generation recorded when the trade ended.        *)
release_reconciled(res, gen) ==
  IF res.st = "Pending" /\ gen > res.wallet /\ res.moved
  THEN [res EXCEPT !.st = "Released"] ELSE res

(* InventoryReservations::update_location, for the wallet location.         *)
update_location(b, sees) ==
  IF b <= walletGen
  THEN UNCHANGED <<walletGen, observed, reservation>>
  ELSE /\ walletGen' = b
       /\ observed' = [observed EXCEPT !["wallet"] = sees]
       /\ reservation' = release_reconciled(reservation, b)

\* Mutant: the updates of Binance keep the generation they found.
UpdateBinanceSameGeneration(sees) ==
  /\ observed' = [observed EXCEPT !["binance"] = sees]
  /\ UNCHANGED <<walletGen, reservation>>

(* update_location and update_location_assets, for Binance: the primary     *)
(* engine numbers the updates as it handles them, so none is ever older.    *)
UpdateBinance(sees) ==
  /\ observed' = [observed EXCEPT !["binance"] = sees]
  /\ reservation' = release_reconciled(
                      [reservation EXCEPT !.moved = @ \/ reservation.st = "Pending"],
                      walletGen)
  /\ UNCHANGED walletGen

\* Mutant: an older snapshot replaces the newer one.
apply_wallet_any(b) == b

(* BalanceState::apply_wallet: an equal block replaces, an older does not.  *)
apply_wallet(b) == IF snapshot > b THEN snapshot ELSE b

(* on_balance_event, of an Arbitrum wallet event.                           *)
OnWalletEvent ==
  /\ walletChan # <<>> /\ walletChan' = Tail(walletChan)
  /\ LET e == Head(walletChan) IN
       \/ /\ e.kind = "wallet"
          /\ update_location(e.at, e.sees)
          /\ snapshot' = apply_wallet(e.at)
       \/ /\ e.kind = "failed"
          /\ UNCHANGED <<walletGen, observed, reservation, snapshot>>
  /\ UNCHANGED <<outside, streamAt, headWatch, headChanged, walletTask, restTask,
                 restChan, userChan>>

(* on_balance_event of the primary engine, of a Binance event.              *)
OnBinanceEvent ==
  /\ restChan # <<>> /\ restChan' = Tail(restChan)
  /\ LET e == Head(restChan) IN
       \/ e.kind = "binance" /\ UpdateBinance(e.sees)
       \/ /\ e.kind \in {"orders", "failed"}
          /\ UNCHANGED <<walletGen, observed, reservation>>
  /\ UNCHANGED <<outside, streamAt, headWatch, headChanged, walletTask, restTask,
                 walletChan, userChan, snapshot>>

(* on_user_data_event, of outboundAccountPosition.                          *)
OnAccountPosition ==
  /\ userChan # <<>> /\ userChan' = Tail(userChan)
  /\ UpdateBinance(TRUE)
  /\ UNCHANGED <<outside, streamAt, headWatch, headChanged, walletTask, restTask,
                 walletChan, restChan, snapshot>>

(* The trade's terminal event.  Its handler first drains the ESP stream:    *)
(* those heads reach the mirror but not the head watch.  Then it calls      *)
(* mark_pending_settlement.  The trade ends before the last modelled block. *)
TradeEnded ==
  /\ reservation.st = "Active" /\ minedAt # 0 /\ filled /\ block < Horizon
  /\ \E n \in streamAt["esp"] .. block : streamAt' = [streamAt EXCEPT !["esp"] = n]
  /\ reservation' = [st |-> "Pending", wallet |-> walletGen, moved |-> FALSE]
  /\ UNCHANGED <<outside, headWatch, headChanged, walletTask, restTask,
                 walletChan, restChan, userChan, walletGen, observed, snapshot>>

BalNext ==
  \/ MineBlock \/ FillOrder
  \/ (\E s \in Streams : StreamHead(s)) \/ TradeEnded
  \/ WalletBorrow \/ (\E ok \in BOOLEAN : WalletAnswer(ok))
  \/ RestTick \/ RestAnswer \/ RestError \/ ClockSynchronized \/ RestSend
  \/ OnWalletEvent \/ OnBinanceEvent \/ OnAccountPosition

(* Fairness: tokio polls every ready task and select arm again; infinitely  *)
(* many of the endless polls are answered.                                  *)
BalFairness ==
  /\ WF_balVars(MineBlock) /\ WF_balVars(RestTick) /\ SF_balVars(RestAnswer)
  /\ \A s \in Streams : WF_balVars(StreamHead(s))
  /\ WF_balVars(WalletBorrow) /\ WF_balVars(\E ok \in BOOLEAN : WalletAnswer(ok))
  /\ WF_balVars(ClockSynchronized \/ RestError) /\ WF_balVars(RestSend)
  /\ WF_balVars(OnWalletEvent) /\ WF_balVars(OnBinanceEvent)

BalSpec == BalInit /\ [][BalNext]_balVars /\ BalFairness

----------------------------------------------------------------------------
(* The inventory and the engine's own snapshot always describe the same     *)
(* block of the wallet, although two streams that overtake each other feed  *)
(* the head watch and each keeps its own rule for what is older.            *)
OneWalletView == snapshot = walletGen

(* A finished trade's reservation is released, although the handler of its  *)
(* end swallows heads, reads fail, and polls are retried.                   *)
SettlementReached ==
  (reservation.st = "Pending") ~> (reservation.st = "Released")

(* docs/multi-pair-multi-network-runtime.md: authoritative settlement       *)
(* observations advance the barrier, and only then are the settled claims   *)
(* released: at the release both observed balances include the trade.       *)
ReleasedAfterEffect ==
  [][reservation.st = "Pending" /\ reservation'.st = "Released"
       => \A l \in Locations : observed'[l]]_balVars
=============================================================================
