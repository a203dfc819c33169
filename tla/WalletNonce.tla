----------------------------- MODULE WalletNonce -----------------------------
(***************************************************************************)
(* The signed transactions of one wallet on one chain.                     *)
(*                                                                         *)
(* Each lane owns an append-only journal (wallet/journal.rs) and a nonce   *)
(* lane (wallet/nonce.rs); the trading executor (dex/execution.rs) and the *)
(* rebalancer (rebalance/runtime.rs) each have one and share the nonces of *)
(* the wallet through the process-wide nonce lock.  A call is a base       *)
(* operation; a submission rejected before broadcast is retried as a new   *)
(* child <<base, k>> with its own journal entry.  The chain, its mempool   *)
(* and the RPC transport are the environment: a request may be lost,       *)
(* delayed past a crash, refused, or accepted with its answer lost.        *)
(***************************************************************************)
EXTENDS Integers, FiniteSets

CONSTANTS
    Lanes,          \* owners of a journal for this wallet and chain
    DexLanes,       \* the lanes run by DexExecutor; the others by the rebalancer
    Bases,          \* base operations
    LaneOf,         \* base -> the lane that executes it
    Retries,        \* lane -> bound on pre-broadcast retries
    MaxNonce,       \* bound on assigned nonces
    MaxCalls,       \* bound on base operations that reach the journal
    MaxCrashes      \* bound on process restarts

None == "none"
Children == {c \in Bases \X (0 .. 3) : c[2] <= Retries[LaneOf[c[1]]]}

ASSUME LanesAssumption == DexLanes \subseteq Lanes /\ None \notin Lanes
ASSUME BasesAssumption ==
    IsFiniteSet(Bases) /\ LaneOf \in [Bases -> Lanes] /\ Retries \in [Lanes -> 0 .. 3]

VARIABLES
    journal,    \* child -> [status, nonce, reason], durable
    lane,       \* lane -> [state, next, op], the NonceLane in memory
    pc,         \* lane -> where its current call is
    alloc,      \* next_nonce of the process nonce lock, 0 before first use
    holder,     \* the lane holding the process nonce lock, or None
    tx,         \* child -> what the network did with its transaction
    latest,     \* latest nonce: the number of mined transactions
    crashes

vars == <<journal, lane, pc, alloc, holder, tx, latest, crashes>>

Statuses == {"none", "intent", "signed", "broadcast", "unknown",
             "mined_ok", "mined_revert", "rejected", "cancelled"}
Reasons == {"none", "transport", "rpc_rejected", "nonce_too_low"}
Mined == {"mined_ok", "mined_revert"}
Refusals == {"fee_cap", "underpriced", "nonce_too_low"}
TxStates == {"none", "inflight", "pool", "replaced", "lost"} \cup Mined \cup Refusals
LaneStates == {"down", "poisoned", "ready", "reserved", "signed", "recovery"}
Steps == {"idle", "locking", "reserved", "signed", "sending", "proving", "confirming"}

NoEntry == [status |-> "none", nonce |-> 0, reason |-> "none"]
NoChild == <<None, 0>>
DownLane == [state |-> "down", next |-> 0, op |-> NoChild]

Init ==
    /\ journal = [c \in Children |-> NoEntry]
    /\ lane = [l \in Lanes |-> DownLane]
    /\ pc = [l \in Lanes |-> "idle"]
    /\ alloc = 0
    /\ holder = None
    /\ tx = [c \in Children |-> "none"]
    /\ latest = 0
    /\ crashes = 0

Larger(m, n) == IF m >= n THEN m ELSE n
OpsOf(l) == {c \in Children : LaneOf[c[1]] = l}
NonceOf(c) == journal[c].nonce
Occupying(n) == {c \in Children : tx[c] = "pool" /\ NonceOf(c) = n}

\* eth_getTransactionCount(pending): the first nonce no known transaction uses.
PendingNonce ==
    CHOOSE n \in latest .. latest + Cardinality(Children) :
        /\ Occupying(n) = {}
        /\ \A m \in latest .. n - 1 : Occupying(m) # {}

-----------------------------------------------------------------------------
(* The journal *)

\* recovery_blocking_for: a Broadcast entry does not block a restart.
RecoveryBlocking(l) ==
    {c \in OpsOf(l) : journal[c].status \in {"intent", "signed", "unknown"}}

\* highest_consumed_nonce, -1 when nothing of this journal was mined.
HighestConsumedNonce(l) ==
    LET consumed == {NonceOf(c) : c \in {d \in OpsOf(l) : journal[d].status \in Mined}}
    IN IF consumed = {} THEN -1
       ELSE CHOOSE n \in consumed : \A m \in consumed : m <= n

\* The intent rule of apply_payload: a fresh id, and a nonce no other entry of
\* this journal owns.
IntentAllowed(c, n) ==
    /\ journal[c].status = "none"
    /\ \A d \in OpsOf(LaneOf[c[1]]) :
          journal[d].status \notin {"none", "cancelled", "rejected"} => NonceOf(d) # n

\* apply_transition: the statuses from which each event may follow.
TransitionAllowed(from, reason, to) ==
    CASE to = "signed" -> from = "intent"
      [] to = "cancelled" -> from = "intent"
      [] to = "broadcast" -> from = "signed"
      [] to = "unknown" -> from \in {"signed", "broadcast"}
      [] to \in Mined -> from \in {"signed", "broadcast", "unknown"}
      [] to = "rejected" -> \/ from = "signed"
                            \/ from = "unknown" /\ reason \in {"rpc_rejected", "nonce_too_low"}

\* append: the event is applied only when the transition table allows it.
Append(c, status, reason) ==
    /\ TransitionAllowed(journal[c].status, journal[c].reason, status)
    /\ journal' = [journal EXCEPT ![c].status = status, ![c].reason = reason]

SetLane(l, state, next, op) ==
    lane' = [lane EXCEPT ![l] = [state |-> state, next |-> next, op |-> op]]
GoTo(l, step) == pc' = [pc EXCEPT ![l] = step]
Release(l) == holder' = IF holder = l THEN None ELSE holder

-----------------------------------------------------------------------------
(* One call *)

CurrentChildPastTimeout(b) ==
    LET reached == {k \in 0 .. Retries[LaneOf[b]] :
                        \A j \in 0 .. k - 1 : journal[<<b, j>>].status \in {"rejected", "broadcast"}}
    IN <<b, CHOOSE k \in reached : \A j \in reached : j <= k>>
\* The replay loop of execute_call: past every rejected child, up to the bound.
CurrentChild(b) ==
    LET reached == {k \in 0 .. Retries[LaneOf[b]] :
                        \A j \in 0 .. k - 1 : journal[<<b, j>>].status = "rejected"}
    IN <<b, CHOOSE k \in reached : \A j \in reached : j <= k>>

\* A journaled call of DexExecutor that was broadcast asks for its receipt; a
\* lane in recovery refuses it, its own hash being another.
ReplayBroadcast(l, b) ==
    LET c == CurrentChild(b) IN
    /\ l \in DexLanes /\ LaneOf[b] = l
    /\ pc[l] = "idle" /\ lane[l].state = "ready"
    /\ journal[c].status = "broadcast"
    /\ tx[c] \in Mined
    /\ Append(c, tx[c], "none")
    /\ SetLane(l, "ready", Larger(lane[l].next, NonceOf(c) + 1), NoChild)
    /\ UNCHANGED <<pc, alloc, holder, tx, latest, crashes>>

\* A new submission needs a ready lane; preflight and fees succeeded.
StartSubmission(l, b) ==
    LET c == CurrentChild(b) IN
    /\ LaneOf[b] = l
    /\ pc[l] = "idle" /\ lane[l].state = "ready"
    /\ journal[c].status = "none"
    /\ GoTo(l, "locking")
    /\ lane' = [lane EXCEPT ![l].op = c]
    /\ UNCHANGED <<journal, alloc, holder, tx, latest, crashes>>

Journaled == {b \in Bases : \E c \in Children : c[1] = b /\ journal[c].status # "none"}

\* acquire_process_nonce_lock with the lane's next nonce as floor, then
\* reserve_with_nonce: the intent is durable before the nonce is used.
ReserveNonce(l) ==
    LET c == lane[l].op
        n == Larger(alloc, lane[l].next)
    IN /\ pc[l] = "locking" /\ holder = None
       /\ n <= MaxNonce /\ Cardinality(Journaled \cup {c[1]}) <= MaxCalls
       /\ alloc' = n
       /\ IntentAllowed(c, n)
       /\ journal' = [journal EXCEPT ![c] = [status |-> "intent", nonce |-> n, reason |-> "none"]]
       /\ SetLane(l, "reserved", 0, c)
       /\ holder' = l
       /\ GoTo(l, "reserved")
       /\ UNCHANGED <<tx, latest, crashes>>

\* The lock is not free within PROCESS_NONCE_LOCK_TTL, or the nonce is owned.
GiveUpLock(l) ==
    /\ pc[l] = "locking"
    /\ holder # None \/ ~IntentAllowed(lane[l].op, Larger(alloc, lane[l].next))
    /\ alloc' = IF holder = None THEN Larger(alloc, lane[l].next) ELSE alloc
    /\ GoTo(l, "idle")
    /\ lane' = [lane EXCEPT ![l].op = NoChild]
    /\ UNCHANGED <<journal, holder, tx, latest, crashes>>

Sign(l) ==
    LET c == lane[l].op IN
    /\ pc[l] = "reserved"
    /\ Append(c, "signed", "none")
    /\ SetLane(l, "signed", 0, c)
    /\ GoTo(l, "signed")
    /\ UNCHANGED <<alloc, holder, tx, latest, crashes>>

SignFailsStepsBack(l) ==
    LET c == lane[l].op IN
    /\ pc[l] = "reserved"
    /\ Append(c, "cancelled", "none")
    /\ SetLane(l, "ready", NonceOf(c) - 1, NoChild)
    /\ GoTo(l, "idle")
    /\ Release(l)
    /\ UNCHANGED <<alloc, tx, latest, crashes>>
SignFails(l) ==
    LET c == lane[l].op IN
    /\ pc[l] = "reserved"
    /\ Append(c, "cancelled", "none")
    /\ SetLane(l, "ready", NonceOf(c), NoChild)
    /\ GoTo(l, "idle")
    /\ Release(l)
    /\ UNCHANGED <<alloc, tx, latest, crashes>>

\* broadcast_signed_transaction hands the bytes to the transport.
Send(l) ==
    /\ pc[l] = "signed"
    /\ tx' = [tx EXCEPT ![lane[l].op] = "inflight"]
    /\ GoTo(l, "sending")
    /\ UNCHANGED <<journal, lane, alloc, holder, latest, crashes>>

BroadcastAcceptedSkipsNonce(l) ==
    LET c == lane[l].op IN
    /\ pc[l] = "sending" /\ tx[c] \in {"pool", "replaced"} \cup Mined
    /\ Append(c, "broadcast", "none")
    /\ SetLane(l, "ready", NonceOf(c) + 2, c)
    /\ alloc' = NonceOf(c) + 2
    /\ Release(l)
    /\ GoTo(l, "confirming")
    /\ UNCHANGED <<tx, latest, crashes>>
\* The RPC accepted the transaction (or already knew it).
BroadcastAccepted(l) ==
    LET c == lane[l].op IN
    /\ pc[l] = "sending" /\ tx[c] \in {"pool", "replaced"} \cup Mined
    /\ Append(c, "broadcast", "none")
    /\ SetLane(l, "ready", NonceOf(c) + 1, c)
    /\ alloc' = NonceOf(c) + 1
    /\ Release(l)
    /\ GoTo(l, "confirming")
    /\ UNCHANGED <<tx, latest, crashes>>

\* is_definitive_prebroadcast_rejection: the trading executor releases the nonce.
DexRejected(l) ==
    LET c == lane[l].op IN
    /\ l \in DexLanes
    /\ pc[l] = "sending" /\ tx[c] = "fee_cap"
    /\ Append(c, "rejected", "none")
    /\ SetLane(l, "ready", NonceOf(c), NoChild)
    /\ Release(l)
    /\ GoTo(l, "idle")
    /\ UNCHANGED <<alloc, tx, latest, crashes>>

\* A refusal that proves nothing to the executor.  The rebalancer tells a
\* nonce-too-low refusal apart and tries to prove it while holding the lock.
UnknownReason(l, refusal) ==
    IF l \in DexLanes THEN "transport"
    ELSE IF refusal = "nonce_too_low" THEN "nonce_too_low" ELSE "rpc_rejected"
BroadcastRefused(l) ==
    LET c == lane[l].op
        reason == UnknownReason(l, tx[c])
    IN /\ pc[l] = "sending" /\ tx[c] \in Refusals
       /\ ~(l \in DexLanes /\ tx[c] = "fee_cap")
       /\ Append(c, "unknown", reason)
       /\ SetLane(l, "recovery", 0, c)
       /\ IF reason = "nonce_too_low"
          THEN /\ GoTo(l, "proving")
               /\ alloc' \in {alloc, Larger(alloc, PendingNonce)}
               /\ UNCHANGED holder
          ELSE /\ GoTo(l, "idle")
               /\ Release(l)
               /\ UNCHANGED alloc
       /\ UNCHANGED <<tx, latest, crashes>>

AnswerLostHoldsLock(l) ==
    LET c == lane[l].op IN
    /\ pc[l] = "sending"
    /\ Append(c, "unknown", "transport")
    /\ SetLane(l, "recovery", 0, c)
    /\ GoTo(l, "idle")
    /\ UNCHANGED <<alloc, holder, tx, latest, crashes>>
\* A transport error or timeout, whatever the node did with the request.
AnswerLost(l) ==
    LET c == lane[l].op IN
    /\ pc[l] = "sending"
    /\ Append(c, "unknown", "transport")
    /\ SetLane(l, "recovery", 0, c)
    /\ GoTo(l, "idle")
    /\ Release(l)
    /\ UNCHANGED <<alloc, tx, latest, crashes>>

\* recover_proven_nonce_too_low: the account moved past the nonce and the hash
\* is unknown to the node.  Its two observations are one here.
ConsumedWithout(c) == latest > NonceOf(c) /\ tx[c] \notin {"pool"} \cup Mined
ProveNonceTooLow(l) ==
    LET c == lane[l].op IN
    /\ pc[l] = "proving"
    /\ IF ConsumedWithout(c)
       THEN /\ Append(c, "rejected", "none")
            /\ SetLane(l, "ready", PendingNonce, NoChild)
            /\ alloc' = Larger(alloc, PendingNonce)
       ELSE UNCHANGED <<journal, lane, alloc>>
    /\ Release(l)
    /\ GoTo(l, "idle")
    /\ UNCHANGED <<tx, latest, crashes>>

ConfirmAsSuccess(l) ==
    LET c == lane[l].op IN
    /\ pc[l] = "confirming" /\ tx[c] \in Mined
    /\ Append(c, "mined_ok", "none")
    /\ SetLane(l, "ready", Larger(lane[l].next, NonceOf(c) + 1), NoChild)
    /\ GoTo(l, "idle")
    /\ UNCHANGED <<alloc, holder, tx, latest, crashes>>
\* The receipt arrives: record_receipt.
Confirm(l) ==
    LET c == lane[l].op IN
    /\ pc[l] = "confirming" /\ tx[c] \in Mined
    /\ Append(c, tx[c], "none")
    /\ SetLane(l, "ready", Larger(lane[l].next, NonceOf(c) + 1), NoChild)
    /\ GoTo(l, "idle")
    /\ UNCHANGED <<alloc, holder, tx, latest, crashes>>

\* wait_for_receipt times out: nothing is journaled and the lane stays ready.
ConfirmTimeout(l) ==
    /\ pc[l] = "confirming"
    /\ lane' = [lane EXCEPT ![l].op = NoChild]
    /\ GoTo(l, "idle")
    /\ UNCHANGED <<journal, alloc, holder, tx, latest, crashes>>

\* A failed append poisons the journal: its lane can do nothing more.
PoisonJournal(l) ==
    /\ pc[l] # "idle"
    /\ SetLane(l, "poisoned", 0, NoChild)
    /\ GoTo(l, "idle")
    /\ Release(l)
    /\ UNCHANGED <<journal, alloc, tx, latest, crashes>>

-----------------------------------------------------------------------------
(* Startup *)

\* The conditions NonceLane::hydrate enforces before it looks at the entry.
Hydratable(l) ==
    /\ Cardinality(RecoveryBlocking(l)) <= 1
    /\ PendingNonce > HighestConsumedNonce(l)
    /\ \A c \in RecoveryBlocking(l) : NonceOf(c) <= PendingNonce

\* No blocking entry: the lane takes the pending nonce.
HydrateReady(l) ==
    /\ lane[l].state = "down"
    /\ Hydratable(l) /\ RecoveryBlocking(l) = {}
    /\ SetLane(l, "ready", PendingNonce, NoChild)
    /\ UNCHANGED <<journal, pc, alloc, holder, tx, latest, crashes>>

\* A receipt settles the blocking entry, at once or after waiting for a
\* transaction the node knows.  Any other observation fails the startup.
HydrateMined(l, c) ==
    /\ lane[l].state = "down"
    /\ Hydratable(l) /\ RecoveryBlocking(l) = {c}
    /\ tx[c] \in Mined
    /\ Append(c, tx[c], "none")
    /\ SetLane(l, "ready", NonceOf(c) + 1, NoChild)
    /\ UNCHANGED <<pc, alloc, holder, tx, latest, crashes>>

\* The rebalancer also settles a nonce-too-low entry it can prove.
HydrateNonceTooLow(l, c) ==
    /\ l \notin DexLanes
    /\ lane[l].state = "down"
    /\ Hydratable(l) /\ RecoveryBlocking(l) = {c}
    /\ journal[c].reason = "nonce_too_low" /\ ConsumedWithout(c)
    /\ Append(c, "rejected", "none")
    /\ SetLane(l, "ready", PendingNonce, NoChild)
    /\ UNCHANGED <<pc, alloc, holder, tx, latest, crashes>>

\* recover_exact_consumed_nonce_collision: an operator-reviewed refusal whose
\* nonce another canonical transaction consumed.
ReviewedCollision(l, c) ==
    /\ l \notin DexLanes
    /\ lane[l].state = "down"
    /\ c \in OpsOf(l)
    /\ journal[c].status = "unknown" /\ journal[c].reason = "rpc_rejected"
    /\ ConsumedWithout(c)
    /\ \E d \in Children : NonceOf(d) = NonceOf(c) /\ tx[d] = "mined_ok"
    /\ Append(c, "rejected", "none")
    /\ UNCHANGED <<lane, pc, alloc, holder, tx, latest, crashes>>

Crash ==
    /\ crashes < MaxCrashes
    /\ crashes' = crashes + 1
    /\ lane' = [l \in Lanes |-> DownLane]
    /\ pc' = [l \in Lanes |-> "idle"]
    /\ alloc' = 0
    /\ holder' = None
    /\ UNCHANGED <<journal, tx, latest>>

-----------------------------------------------------------------------------
(* The network *)

SetTx(c, state) ==
    /\ tx' = [tx EXCEPT ![c] = state]
    /\ UNCHANGED <<journal, lane, pc, alloc, holder, crashes>>

\* A request reaches the node: it is taken, replaces a transaction with the
\* same nonce, is refused, or never arrives.
NodeTakes(c) ==
    /\ tx[c] = "inflight" /\ NonceOf(c) >= latest
    /\ tx' = [d \in Children |-> IF d = c THEN "pool"
                                ELSE IF d \in Occupying(NonceOf(c)) THEN "replaced" ELSE tx[d]]
    /\ UNCHANGED <<journal, lane, pc, alloc, holder, latest, crashes>>
NodeRefuses(c) ==
    /\ tx[c] = "inflight"
    /\ \/ SetTx(c, "fee_cap")
       \/ NonceOf(c) < latest /\ SetTx(c, "nonce_too_low")
       \/ Occupying(NonceOf(c)) # {} /\ SetTx(c, "underpriced")
    /\ UNCHANGED latest
NetworkLoses(c) ==
    /\ tx[c] = "inflight"
    /\ SetTx(c, "lost")
    /\ UNCHANGED latest
Mine(c) ==
    /\ tx[c] = "pool" /\ NonceOf(c) = latest
    /\ \E outcome \in Mined : SetTx(c, outcome)
    /\ latest' = latest + 1

Submission(l) ==
    \/ \E b \in Bases : ReplayBroadcast(l, b)
    \/ \E b \in Bases : StartSubmission(l, b)
    \/ ReserveNonce(l) \/ GiveUpLock(l)
    \/ Sign(l) \/ SignFails(l) \/ Send(l)
    \/ BroadcastAccepted(l) \/ DexRejected(l) \/ BroadcastRefused(l) \/ AnswerLost(l)
    \/ ProveNonceTooLow(l)
    \/ Confirm(l) \/ ConfirmTimeout(l)
    \/ PoisonJournal(l)
Startup(l) ==
    \/ HydrateReady(l)
    \/ \E c \in Children :
          HydrateMined(l, c) \/ HydrateNonceTooLow(l, c) \/ ReviewedCollision(l, c)
Network ==
    \E c \in Children : NodeTakes(c) \/ NodeRefuses(c) \/ NetworkLoses(c) \/ Mine(c)

Next ==
    \/ \E l \in Lanes : Submission(l) \/ Startup(l)
    \/ Network
    \/ Crash

Spec == Init /\ [][Next]_vars

\* The executors run on threads of their own and every wait has a timeout.
FairSpec == Spec /\ \A l \in Lanes : WF_vars(Submission(l))

-----------------------------------------------------------------------------
(* Properties *)

\* Type invariant of the journals, lanes, lock and chain.
TypeOK ==
    /\ journal \in [Children -> [status : Statuses, nonce : Nat, reason : Reasons]]
    /\ lane \in [Lanes -> [state : LaneStates, next : Nat, op : Children \cup {NoChild}]]
    /\ pc \in [Lanes -> Steps]
    /\ alloc \in Nat /\ latest \in Nat /\ crashes \in Nat
    /\ holder \in Lanes \cup {None}
    /\ tx \in [Children -> TxStates]

\* A call takes effect at most once: whatever is lost, retried or restarted,
\* at most one child transaction of a base operation is ever on the chain or
\* can still get there.
MayTakeEffect(c) == tx[c] \in {"inflight", "pool"} \cup Mined
AtMostOneEffect ==
    \A c, d \in Children :
        c[1] = d[1] /\ MayTakeEffect(c) /\ MayTakeEffect(d) => c = d

\* A mined status in the journal is the receipt of the chain.
JournalMatchesChain ==
    \A c \in Children : journal[c].status \in Mined => tx[c] = journal[c].status

\* Whenever the process stops, the journal it leaves passes the checks of
\* hydrate: one blocking entry at most, at a nonce the chain has reached.
AlwaysHydratable == \A l \in Lanes : Hydratable(l)

\* The nonce lock is never held for ever: every wait under it is bounded.
LockReleased == \A l \in Lanes : (holder = l) ~> (holder # l)

\* "Unknown submitted outcomes retain their nonce": while a submission that
\* may have been broadcast is unresolved, no other operation of the wallet,
\* in whichever journal, is given its nonce.
UnknownOutcomeKeepsNonce ==
    \A c, d \in Children :
        (/\ c # d
         /\ journal[c].status = "unknown" /\ journal[c].reason = "transport"
         /\ journal[d].status \notin {"none", "cancelled", "rejected"})
        => NonceOf(c) # NonceOf(d)

-----------------------------------------------------------------------------
(* Values of the constants for TLC: two calls of the trading executor and  *)
(* one of the rebalancer, any two of which reach the journals.             *)
TwoOfDex == [b \in Bases |-> IF b = "b3" THEN "reb" ELSE "dex"]
OneRetry == [l \in Lanes |-> 1]
=============================================================================
