----------------------------- MODULE SwapService -----------------------------
(***************************************************************************)
(* The execution owner of one EVM network: DexExecutionService of            *)
(* dex/execution.rs.  One thread serves swaps and the rebalancer's capital   *)
(* calls from two queues and refreshes a gas price every second in between;  *)
(* each request is answered with a receipt, or with an error classified from *)
(* the transaction journal.                                                  *)
(*                                                                           *)
(* Nonces, signing and start-up reconciliation are WalletNonce's: here a     *)
(* call has a journal status and a transaction per child (the call itself    *)
(* and its retries after a definitive rejection).  A step of the clock is    *)
(* one second.  An idle worker acts within the second.                       *)
(***************************************************************************)
EXTENDS Integers, Sequences, FiniteSets, FiniteSetsExt, SequencesExt

CONSTANTS
  Swaps, Capital,        \* operation ids of the two queues
  Networks,              \* of "WorldChainV12", "ArbitrumOne", "LineaMainnet", "ReadOnly"
  Retries,               \* children after the first, 3 in the code
  Capacity,              \* of the trade queue
  GAS_PRICE_CACHE_TTL, RAILS_FALLBACK_GAS_PRICE_WEI, RAILS_PRIORITY_FEE_WEI,
  max_fee_headroom_bps,  \* of the network, in ten thousandths
  Prices,                \* answers of eth_gasPrice, 0 included
  Estimates,             \* answers of eth_estimateGas, 0 included
  MAX_GAS_LIMIT, HISTORICAL_SWAP_GAS_LIMIT, CAMELOT_V3_SWAP_GAS_LIMIT,
  LYNEX_ALGEBRA_V1_9_SWAP_GAS_LIMIT, CAPITAL_TRANSFER_GAS_LIMIT,
  Additional,            \* additional gas a request may carry
  MaxAsks                \* bound: times an operation is asked for

VARIABLES
  network, \* the gas policy
  gas,     \* the cached sample [wei, age, source], source "none" before the first
  refresh, \* [due, failed]: a tick is due; the last attempt failed
  queue,   \* trade queue
  capital, \* capital queue, of one
  worker,  \* [at, req]: where the thread is and what it serves
  journal, \* <<op, child>> -> status
  tx,      \* <<op, child>> -> the transaction on chain
  last_terminal_receipt, \* the child it is of, <<>> for None
  signed,  \* what the transaction being sent was signed with
  answer,  \* op -> "none", "waiting", "ok", "failed", "reverted", "unknown"
  asks     \* op -> times asked
serviceVars == <<network, gas, refresh, queue, capital, worker, journal, tx,
                last_terminal_receipt, signed, answer, asks>>

Ops == Swaps \cup Capital
Children == Ops \X (0..Retries)
Idle == [at |-> "idle", req |-> <<>>]
NoFee == [limit |-> 0, needed |-> 0, max |-> 0, priority |-> 0, price |-> 0]
Op == worker.req.op
Immediate == Op \in Swaps

----------------------------------------------------------------------------
(* GasLimitPolicy.  Plans carry no quoted gas; 0 stands for an error.       *)
Protocols == {"UniswapV3", "PancakeSwapV3", "CamelotV3", "LynexAlgebraV1_9", "UniswapV4"}
for_swap(protocol, additional) ==
  LET default == CASE protocol = "CamelotV3" -> CAMELOT_V3_SWAP_GAS_LIMIT
                   [] protocol = "LynexAlgebraV1_9" -> LYNEX_ALGEBRA_V1_9_SWAP_GAS_LIMIT
                   [] OTHER -> HISTORICAL_SWAP_GAS_LIMIT
  IN  [multiplier |-> IF protocol = "UniswapV4" THEN 4 ELSE 2, default |-> default,
       minimum |-> IF protocol = "UniswapV4" THEN default ELSE 0, additional |-> additional]
fixed(limit) == [multiplier |-> 1, minimum |-> limit, default |-> limit, additional |-> 0]
Capped(limit) == IF limit > MAX_GAS_LIMIT THEN 0 ELSE limit
resolve(p, estimate) ==
  IF estimate = 0 THEN 0
  ELSE Capped(Max({p.default, estimate * p.multiplier, p.minimum, estimate}) + p.additional)
resolve_without_estimate(p) == Capped(Max({p.default, p.minimum}) + p.additional)

(* transaction_fees_for_policy: <<maximum, priority>>.                      *)
Headroom(price) == ((price * max_fee_headroom_bps) + 9999) \div 10000
transaction_fees_for_policy(price) ==
  CASE network = "WorldChainV12" ->
         <<price + RAILS_PRIORITY_FEE_WEI, Min({RAILS_PRIORITY_FEE_WEI, price + RAILS_PRIORITY_FEE_WEI})>>
    [] network = "ArbitrumOne" -> <<Headroom(price), 0>>
    [] OTHER -> <<Headroom(price), price>>

is_fresh == gas.source # "none" /\ gas.age < GAS_PRICE_CACHE_TTL

(* refresh_gas_price, answered with price p; -1 is a failed request.        *)
NoPrice == -1
Refreshed(p) ==
  IF p > 0 THEN [wei |-> p, age |-> 0, source |-> "rpc"]
  ELSE IF network = "WorldChainV12"
       THEN [wei |-> RAILS_FALLBACK_GAS_PRICE_WEI, age |-> 0, source |-> "fallback"]
       ELSE gas

(* gas_price_for_submission of an immediate swap; 0 if it fails closed.     *)
gas_price_for_submission ==
  IF is_fresh THEN gas.wei
  ELSE IF network = "WorldChainV12" THEN RAILS_FALLBACK_GAS_PRICE_WEI ELSE 0

----------------------------------------------------------------------------
(* The journal: the child a call is at, Retries + 1 when all were rejected. *)
Existing(op) == {k \in 0..Retries : journal[<<op, k>>] # "none"}
CurrentChild(op) ==
  LET open == {k \in 0..Retries : journal[<<op, k>>] # "rejected"}
  IN  IF open = {} THEN Retries + 1 ELSE Min(open)
Status(op) ==
  IF CurrentChild(op) > Retries THEN "rejected" ELSE journal[<<op, CurrentChild(op)>>]

\* Mutant: only the call itself is looked up, not its retries.
ClassifiedByFirst(op) ==
  CASE journal[<<op, 0>>] \in {"none", "cancelled", "rejected"} -> "failed"
    [] journal[<<op, 0>>] = "mined_reverted" /\ last_terminal_receipt = <<op, 0>> -> "reverted"
    [] OTHER -> "unknown"

(* classify_execution_error: the status of the last child there is.         *)
classify_execution_error(op) ==
  LET last == <<op, IF Existing(op) = {} THEN 0 ELSE Max(Existing(op))>>
  IN  CASE journal[last] \in {"none", "cancelled", "rejected"} -> "failed"
        [] journal[last] = "mined_reverted" /\ last_terminal_receipt = last -> "reverted"
        [] OTHER -> "unknown"

Respond(a) ==
  /\ answer' = [answer EXCEPT ![Op] = a]
  /\ worker' = Idle
RespondError == Respond(classify_execution_error(Op))
SetStatus(c, s) == journal' = [journal EXCEPT ![c] = s]

----------------------------------------------------------------------------
ServiceInit ==
  /\ network \in Networks
  /\ gas = [wei |-> 0, age |-> 0, source |-> "none"]
  /\ refresh = [due |-> FALSE, failed |-> FALSE]
  /\ queue = <<>> /\ capital = <<>>
  /\ worker = [at |-> "starting", req |-> <<>>]
  /\ journal = [c \in Children |-> "none"] /\ tx = [c \in Children |-> "none"]
  /\ last_terminal_receipt = <<>> /\ signed = NoFee
  /\ answer = [o \in Ops |-> "none"] /\ asks = [o \in Ops |-> 0]

store == <<journal, tx, last_terminal_receipt>>

(* DexExecutionService::execute and EvmExecutionOwnerHandle::dispatch.      *)
Asked(o) ==
  /\ worker.at # "stopped" /\ answer[o] # "waiting" /\ asks[o] < MaxAsks
  /\ answer' = [answer EXCEPT ![o] = "waiting"] /\ asks' = [asks EXCEPT ![o] = @ + 1]
AskSwap(o, recon) ==
  /\ Asked(o) /\ Len(queue) < Capacity
  /\ queue' = Append(queue, [op |-> o, recon |-> recon])
  /\ UNCHANGED <<network, gas, refresh, capital, worker, store, signed>>
AskCapital(o, recon) ==
  /\ Asked(o) /\ capital = <<>>
  /\ capital' = <<[op |-> o, recon |-> recon]>>
  /\ UNCHANGED <<network, gas, refresh, queue, worker, store, signed>>

(* The biased select of the worker: a due tick, then swaps, then capital.   *)
\* Mutant: a waiting swap is taken before a due tick.
SwapFirst == refresh.due /\ queue = <<>>
TickFirst == refresh.due

StartRefresh ==
  /\ worker.at = "idle" /\ TickFirst
  /\ worker' = [Idle EXCEPT !.at = "refreshing"]
  /\ refresh' = [refresh EXCEPT !.due = FALSE]
  /\ UNCHANGED <<network, gas, queue, capital, store, signed, answer, asks>>
(* The refresh at start-up resets the interval when it is done.             *)
FinishRefresh(p) ==
  /\ worker.at \in {"starting", "refreshing"}
  /\ gas' = Refreshed(p)
  /\ refresh' = [due |-> refresh.due /\ worker.at = "refreshing", failed |-> p <= 0]
  /\ worker' = Idle
  /\ UNCHANGED <<network, queue, capital, store, signed, answer, asks>>
TakeSwap ==
  /\ worker.at = "idle" /\ ~TickFirst /\ queue # <<>>
  /\ queue' = Tail(queue) /\ worker' = [at |-> "checking", req |-> Head(queue)]
  /\ last_terminal_receipt' = <<>>
  /\ UNCHANGED <<network, gas, refresh, capital, journal, tx, signed, answer, asks>>
TakeCapital ==
  /\ worker.at = "idle" /\ ~TickFirst /\ queue = <<>> /\ capital # <<>>
  /\ capital' = <<>> /\ worker' = [at |-> "calling", req |-> Head(capital)]
  /\ UNCHANGED <<network, gas, refresh, queue, store, signed, answer, asks>>

(* execute_exact_input_instrumented before execute_call: the route's gate,  *)
(* the deadline and the lock may refuse a swap that is not a recovery.      *)
Check(passes) ==
  /\ worker.at = "checking"
  /\ IF passes \/ worker.req.recon
     THEN worker' = [worker EXCEPT !.at = "calling"] /\ UNCHANGED answer
     ELSE RespondError
  /\ UNCHANGED <<network, gas, refresh, queue, capital, store, signed, asks>>

(* A receipt is journaled and answers the request.  One of a swap whose     *)
(* totals do not add up is an error after a success.                        *)
Settle(c, sound) ==
  /\ SetStatus(c, IF tx[c] = "ok" THEN "mined_ok" ELSE "mined_reverted")
  /\ last_terminal_receipt' = c
  /\ Respond(IF tx[c] = "reverted" THEN "reverted"
             ELSE IF sound \/ ~Immediate THEN "ok" ELSE "unknown")
  /\ UNCHANGED tx

(* execute_call of a journaled call: its receipt, if the RPC has it.        *)
Replay(found, sound) ==
  LET c == <<Op, CurrentChild(Op)>> IN
  /\ worker.at = "calling" /\ Status(Op) # "none"
  /\ IF /\ Status(Op) \in {"broadcast", "mined_ok", "mined_reverted"}
        /\ found /\ tx[c] \in {"ok", "reverted"}
     THEN Settle(c, sound)
     ELSE RespondError /\ UNCHANGED store
  /\ UNCHANGED <<network, gas, refresh, queue, capital, signed, asks>>

(* nonce_lane.ready: no transaction of the wallet is unresolved.            *)
ready == \A c \in Children : journal[c] \notin {"signed", "broadcast", "unknown"}
New == worker.at = "calling" /\ Status(Op) = "none"
MaySign == New /\ ~worker.req.recon /\ ready

(* A new submission that stops before it is signed: a recovery finds        *)
(* nothing, or the lane is not ready.                                       *)
RefuseNew ==
  /\ New /\ ~MaySign
  /\ RespondError
  /\ UNCHANGED <<network, gas, refresh, queue, capital, store, signed, asks>>

Sign(limit, needed, price) ==
  LET fees == transaction_fees_for_policy(price) IN
  /\ SetStatus(<<Op, CurrentChild(Op)>>, "signed")
  /\ signed' = [limit |-> limit, needed |-> needed, max |-> fees[1],
                priority |-> fees[2], price |-> price]
  /\ worker' = [worker EXCEPT !.at = "sending"]
  /\ UNCHANGED <<tx, last_terminal_receipt, answer>>
(* The signer fails after the nonce was reserved: cancel_before_signing.    *)
SignFails ==
  /\ MaySign /\ (Immediate => gas_price_for_submission > 0)
  /\ SetStatus(<<Op, CurrentChild(Op)>>, "cancelled")
  /\ worker' = [worker EXCEPT !.at = "failing"]
  /\ UNCHANGED <<network, gas, refresh, queue, capital, tx, last_terminal_receipt,
                 signed, answer, asks>>
SignSwap(protocol, additional) ==
  LET limit == resolve_without_estimate(for_swap(protocol, additional)) IN
  /\ MaySign /\ Immediate
  /\ IF limit > 0 /\ gas_price_for_submission > 0
     THEN Sign(limit, additional, gas_price_for_submission)
     ELSE RespondError /\ UNCHANGED <<store, signed>>
  /\ UNCHANGED <<network, gas, refresh, queue, capital, asks>>
(* A capital call is simulated and estimated, and refreshes a stale price;  *)
(* an estimate of 0 stands for a simulation that reverts as well.           *)
SignCapital(estimate, p, funded) ==
  LET limit == resolve(fixed(CAPITAL_TRANSFER_GAS_LIMIT), estimate)
      sample == IF is_fresh THEN gas ELSE Refreshed(p)
      priced == is_fresh \/ p > 0 \/ network = "WorldChainV12"
  IN
  /\ MaySign /\ ~Immediate
  /\ gas' = IF limit > 0 THEN sample ELSE gas
  /\ IF limit > 0 /\ priced /\ funded
     THEN Sign(limit, estimate, sample.wei)
     ELSE RespondError /\ UNCHANGED <<store, signed>>
  /\ UNCHANGED <<network, refresh, queue, capital, asks>>

(* The broadcast: accepted, definitively rejected, or its answer lost.      *)
Sent(status, onChain, at) ==
  LET c == <<Op, CurrentChild(Op)>> IN
  /\ worker.at = "sending"
  /\ SetStatus(c, status) /\ tx' = [tx EXCEPT ![c] = onChain]
  /\ worker' = [worker EXCEPT !.at = at]
  /\ signed' = NoFee
  /\ UNCHANGED <<network, gas, refresh, queue, capital, last_terminal_receipt, answer, asks>>
Broadcast == Sent("broadcast", "sent", "confirming")
BroadcastRejected == Sent("rejected", "dead", "failing")
BroadcastUnknown(arrived) == Sent("unknown", IF arrived THEN "sent" ELSE "dead", "failing")
Fail ==
  /\ worker.at = "failing"
  /\ RespondError
  /\ UNCHANGED <<network, gas, refresh, queue, capital, store, signed, asks>>

(* wait_for_receipt: found and journaled, or the confirmation times out.    *)
Confirm(sound) ==
  LET c == <<Op, CurrentChild(Op)>> IN
  /\ worker.at = "confirming" /\ tx[c] \in {"ok", "reverted"}
  /\ Settle(c, sound)
  /\ UNCHANGED <<network, gas, refresh, queue, capital, signed, asks>>
ConfirmTimeout ==
  /\ worker.at = "confirming"
  /\ RespondError
  /\ UNCHANGED <<network, gas, refresh, queue, capital, store, signed, asks>>

Mine(c, result) ==
  /\ tx[c] = "sent" /\ tx' = [tx EXCEPT ![c] = result]
  /\ UNCHANGED <<network, gas, refresh, queue, capital, worker, journal,
                 last_terminal_receipt, signed, answer, asks>>

(* A second passes: not while an idle worker could act, nor between the     *)
(* taking and the signing of a swap, where the code awaits nothing.         *)
Busy == worker.at = "idle" /\ (refresh.due \/ queue # <<>> \/ capital # <<>>)
Second ==
  /\ ~Busy /\ worker.at \notin {"checking", "stopped"} /\ ~(New /\ Immediate)
  /\ gas' = [gas EXCEPT !.age = Min({@ + 1, GAS_PRICE_CACHE_TTL})]
  /\ refresh' = [refresh EXCEPT !.due = TRUE]
  /\ UNCHANGED <<network, queue, capital, worker, store, signed, answer, asks>>

(* Drop: the thread finishes its request and ends; what waits is unknown.   *)
Shutdown ==
  /\ worker.at = "idle"
  /\ worker' = [Idle EXCEPT !.at = "stopped"]
  /\ queue' = <<>> /\ capital' = <<>>
  /\ answer' = [o \in Ops |-> IF answer[o] = "waiting" THEN "unknown" ELSE answer[o]]
  /\ UNCHANGED <<network, gas, refresh, store, signed, asks>>

ServiceNext ==
  \/ StartRefresh \/ TakeSwap \/ TakeCapital \/ RefuseNew \/ SignFails \/ Broadcast
  \/ BroadcastRejected \/ Fail \/ ConfirmTimeout \/ Second \/ Shutdown
  \/ \E p \in Prices \cup {NoPrice} : FinishRefresh(p)
  \/ \E b \in BOOLEAN : Check(b) \/ Confirm(b) \/ BroadcastUnknown(b)
  \/ \E b, s \in BOOLEAN : Replay(b, s)
  \/ \E pr \in Protocols, a \in Additional : SignSwap(pr, a)
  \/ \E e \in Estimates, p \in Prices \cup {NoPrice}, f \in BOOLEAN : SignCapital(e, p, f)
  \/ \E o \in Swaps, r \in BOOLEAN : AskSwap(o, r)
  \/ \E o \in Capital, r \in BOOLEAN : AskCapital(o, r)
  \/ \E c \in Children, m \in {"ok", "reverted"} : Mine(c, m)

ServiceSpec == ServiceInit /\ [][ServiceNext]_serviceVars

----------------------------------------------------------------------------
(* An answer is true of the chain, for the call and every retry of it: a    *)
(* request that "failed before submission" has no transaction that could    *)
(* take effect, a reverted one has a reverted transaction and none other,   *)
(* a good one exactly one that succeeded (classify_execution_error, on      *)
(* which the trade coordinator's choice of a hedge rests).                  *)
MayTakeEffect(c) == tx[c] \in {"sent", "ok"}
ServiceAnswersTrue ==
  \A o \in Ops :
    LET live == {k \in 0..Retries : MayTakeEffect(<<o, k>>)}
        reverted == {k \in 0..Retries : tx[<<o, k>>] = "reverted"}
    IN  /\ answer[o] = "failed" => live \cup reverted = {}
        /\ answer[o] = "reverted" => live = {} /\ Cardinality(reverted) = 1
        /\ answer[o] = "ok" => /\ Cardinality(live) = 1 /\ reverted = {}
                               /\ \A k \in live : tx[<<o, k>>] = "ok"

(* What is signed is within policy: a limit under the cap that covers the   *)
(* estimate, a maximum fee no lower than the price it was built from and no *)
(* lower than the tip.  And the worker's serving order keeps the price      *)
(* fresh: a swap meets a stale price only when the last refresh failed,     *)
(* however long the requests before it took.                                *)
SignedWithinPolicy ==
  /\ signed.limit <= MAX_GAS_LIMIT /\ signed.limit >= signed.needed
  /\ signed.max >= signed.price /\ signed.max >= signed.priority
  /\ New /\ Immediate => is_fresh \/ refresh.failed
=============================================================================
