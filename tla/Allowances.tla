------------------------------ MODULE Allowances ------------------------------
(***************************************************************************)
(* Start-up preparation of router allowances, their lock, and the swaps that *)
(* rely on them (dex/execution.rs: prepare_and_lock_allowances,              *)
(* ensure_erc20_allowance, ensure_permit2_allowance; main.rs builds the      *)
(* requirements).  An approval is a journaled transaction under a stable     *)
(* operation id: a call whose id is in the journal is compared with the      *)
(* journaled call and replayed, never sent again.                            *)
(*                                                                           *)
(* The tokens are OpenZeppelin's: an allowance of MAX is not used up.        *)
(* Amounts and the clock are small numbers; the hour and the thirty days of  *)
(* Permit2 are PERMIT2_MIN_REMAINING_VALIDITY and PERMIT2_APPROVAL_VALIDITY  *)
(* of the clock.  Nonces, signing and the retries of rejected broadcasts are *)
(* WalletNonce's; here an approval is pending until it is mined.             *)
(***************************************************************************)
EXTENDS Integers, Sequences, FiniteSetsExt

CONSTANTS
  Tokens,
  Networks,     \* of "WorldChainV12", "ArbitrumOne", "LineaMainnet"
  MaxBalance,   \* bound: wallet balance of a token
  PERMIT2_APPROVAL_VALIDITY,
  PERMIT2_MIN_REMAINING_VALIDITY,
  MaxClock,     \* bound: time
  MaxStarts     \* bound: start-ups

VARIABLES
  network,    \* the gas policy of the lane
  balance,    \* token -> wallet balance
  allowed,    \* <<token, spender>> -> ERC-20 allowance on chain
  permit,     \* token -> [amount, expires]: Permit2's allowance to the router
  approvals,  \* operation id -> [call, status] in the journal
  phase,      \* "down", "preparing", "confirming", "serving", "failed"
  todo,       \* approvals still to be ensured
  starts,
  clock
allowVars == <<network, balance, allowed, permit, approvals, phase, todo, starts, clock>>

MAX == MaxBalance + 1
Routers == {"v3", "permit2"}
NoEntry == [call |-> <<>>, status |-> "none"]
Ids == Tokens \X {"router-approval", "permit2-erc20-approval", "permit2-router-approval"}

Erc20(t, spender, id, required) ==
  [kind |-> "erc20", token |-> t, spender |-> spender, id |-> <<t, id>>, required |-> required]
Permit2(t, required) ==
  [kind |-> "permit2", token |-> t, spender |-> "router",
   id |-> <<t, "permit2-router-approval">>, required |-> required]

(* The requirements main.rs builds: on World Chain the balance of each      *)
(* token at start-up, for a V3 and a V4 router; on Arbitrum and, by         *)
(* linea_lynex_allowance_requirements, on Linea the maximum.                *)
WorldRequirements(t) ==
  LET required == Max({balance[t], 1}) IN
  <<Erc20(t, "v3", "router-approval", required),
    Erc20(t, "permit2", "permit2-erc20-approval", required),
    Permit2(t, required)>>
ArbitrumRequirements(t) == <<Erc20(t, "v3", "router-approval", MAX)>>
linea_lynex_allowance_requirements(t) == <<Erc20(t, "v3", "router-approval", MAX)>>

RequirementsOf(t) == CASE network = "WorldChainV12" -> WorldRequirements(t)
                       [] network = "ArbitrumOne" -> ArbitrumRequirements(t)
                       [] OTHER -> linea_lynex_allowance_requirements(t)
Requirements ==
  LET order == CHOOSE s \in [1..Cardinality(Tokens) -> Tokens] :
                 \A i, j \in DOMAIN s : s[i] = s[j] => i = j
  IN  FoldSet(LAMBDA i, acc : RequirementsOf(order[i]) \o acc, <<>>, DOMAIN order)

\* Mutant: every network is granted just what is required.
GrantRequired(required) == required

allowance_grant_for_policy(required) ==
  IF network = "ArbitrumOne" THEN required ELSE MAX

(* The approval call; Permit2's carries the time it expires at.             *)
permit2_approve(token, expiration) == <<token, "router", MAX, expiration>>
ApprovalCall(r) ==
  IF r.kind = "erc20" THEN <<r.token, r.spender, allowance_grant_for_policy(r.required)>>
  ELSE permit2_approve(r.token, clock + PERMIT2_APPROVAL_VALIDITY)

decode_permit2_allowance(t) == <<permit[t].amount, permit[t].expires>>
Sufficient(r) ==
  IF r.kind = "erc20" THEN allowed[<<r.token, r.spender>>] >= r.required
  ELSE LET p == decode_permit2_allowance(r.token) IN
       /\ p[1] >= r.required
       /\ p[2] >= clock + PERMIT2_MIN_REMAINING_VALIDITY

----------------------------------------------------------------------------
AllowInit ==
  /\ network \in Networks
  /\ balance \in [Tokens -> 0..MaxBalance]
  /\ allowed = [p \in Tokens \X Routers |-> 0]
  /\ permit = [t \in Tokens |-> [amount |-> 0, expires |-> 0]]
  /\ approvals = [i \in Ids |-> NoEntry]
  /\ phase = "down" /\ todo = <<>> /\ starts = 0 /\ clock = 0

StartUp ==
  /\ phase = "down" /\ starts < MaxStarts
  /\ starts' = starts + 1
  /\ todo' = Requirements
  /\ phase' = "preparing"
  /\ UNCHANGED <<network, balance, allowed, permit, approvals, clock>>

(* ensure_erc20_allowance and ensure_permit2_allowance: enough already.     *)
AlreadyAllowed ==
  /\ phase = "preparing" /\ todo # <<>> /\ Sufficient(Head(todo))
  /\ todo' = Tail(todo)
  /\ UNCHANGED <<network, balance, allowed, permit, approvals, phase, starts, clock>>

(* execute_call of an approval whose id is journaled: the same call with a  *)
(* good receipt is taken as done, anything else stops the start-up.         *)
ReplayApproval ==
  LET r == Head(todo)  e == approvals[r.id] IN
  /\ phase = "preparing" /\ todo # <<>> /\ ~Sufficient(r) /\ e.status # "none"
  /\ IF e.call = ApprovalCall(r) /\ e.status = "mined"
     THEN todo' = Tail(todo) /\ UNCHANGED phase
     ELSE phase' = "failed" /\ UNCHANGED todo
  /\ UNCHANGED <<network, balance, allowed, permit, approvals, starts, clock>>

SubmitApproval ==
  LET r == Head(todo) IN
  /\ phase = "preparing" /\ todo # <<>> /\ ~Sufficient(r)
  /\ approvals[r.id].status = "none"
  /\ approvals' = [approvals EXCEPT ![r.id] = [call |-> ApprovalCall(r), status |-> "pending"]]
  /\ phase' = "confirming"
  /\ UNCHANGED <<network, balance, allowed, permit, todo, starts, clock>>

(* The chain mines a pending approval, whether or not anyone waits for it.  *)
MineApproval(i) ==
  LET c == approvals[i].call IN
  /\ approvals[i].status = "pending"
  /\ approvals' = [approvals EXCEPT ![i].status = "mined"]
  /\ IF i[2] = "permit2-router-approval"
     THEN /\ permit' = [permit EXCEPT ![c[1]] = [amount |-> c[3], expires |-> c[4]]]
          /\ UNCHANGED allowed
     ELSE allowed' = [allowed EXCEPT ![<<c[1], c[2]>>] = c[3]] /\ UNCHANGED permit
  /\ UNCHANGED <<network, balance, phase, todo, starts, clock>>

(* wait_for_receipt and the journaled receipt, or its time-out.             *)
ApprovalConfirmed ==
  /\ phase = "confirming" /\ approvals[Head(todo).id].status = "mined"
  /\ phase' = "preparing" /\ todo' = Tail(todo)
  /\ UNCHANGED <<network, balance, allowed, permit, approvals, starts, clock>>
ApprovalTimeout ==
  /\ phase = "confirming" /\ approvals[Head(todo).id].status = "pending"
  /\ phase' = "failed"
  /\ UNCHANGED <<network, balance, allowed, permit, approvals, todo, starts, clock>>

(* The last line of prepare_and_lock_allowances; the lane may serve.        *)
Lock ==
  /\ phase = "preparing" /\ todo = <<>>
  /\ phase' = "serving"
  /\ UNCHANGED <<network, balance, allowed, permit, approvals, todo, starts, clock>>

(* An immediate swap of x of token t through a router: no allowance is read *)
(* again.  An approval that is short, or expired, makes the router revert.  *)
Covered(t, router, x) ==
  IF router = "v3" THEN allowed[<<t, "v3">>] >= x
  ELSE /\ allowed[<<t, "permit2">>] >= x
       /\ permit[t].amount >= x /\ permit[t].expires >= clock
Swap(t, u, router, x) ==
  /\ phase = "serving" /\ t # u /\ x <= balance[t]
  /\ router = "permit2" => network = "WorldChainV12"
  /\ Covered(t, router, x)
  /\ balance' = [balance EXCEPT ![t] = @ - x, ![u] = Min({@ + x, MaxBalance})]
  /\ allowed' = [allowed EXCEPT ![<<t, router>>] = IF @ = MAX THEN @ ELSE @ - x]
  /\ UNCHANGED <<network, permit, approvals, phase, todo, starts, clock>>

(* The CEX leg and the rebalancer move the wallet's balance.                *)
Rebalance(t) ==
  /\ \E x \in 0..MaxBalance : balance' = [balance EXCEPT ![t] = x]
  /\ UNCHANGED <<network, allowed, permit, approvals, phase, todo, starts, clock>>

Stop ==
  /\ phase # "down"
  /\ phase' = "down" /\ todo' = <<>>
  /\ UNCHANGED <<network, balance, allowed, permit, approvals, starts, clock>>

Pass ==
  /\ clock < MaxClock
  /\ clock' = clock + 1
  /\ UNCHANGED <<network, balance, allowed, permit, approvals, phase, todo, starts>>

AllowNext ==
  \/ StartUp \/ AlreadyAllowed \/ ReplayApproval \/ SubmitApproval
  \/ ApprovalConfirmed \/ ApprovalTimeout \/ Lock \/ Stop \/ Pass
  \/ \E i \in Ids : MineApproval(i)
  \/ \E t, u \in Tokens, r \in Routers, x \in 1..MaxBalance : Swap(t, u, r, x)
  \/ \E t \in Tokens : Rebalance(t)

AllowSpec == AllowInit /\ [][AllowNext]_allowVars

----------------------------------------------------------------------------
(* A serving lane never meets a short ERC-20 allowance, however much it has *)
(* swapped, however the balances have moved since start-up and whatever an  *)
(* earlier start-up left in the journal: what was granted at start-up is    *)
(* enough for every immediate swap, which does not look again               *)
(* (prepare_and_lock_allowances, allowance_grant_for_policy).  Permit2's    *)
(* own allowance can only be missing by having expired.                     *)
AllowancesOutliveTheLock ==
  phase = "serving" =>
    \A t \in Tokens :
      /\ allowed[<<t, "v3">>] >= balance[t]
      /\ network = "WorldChainV12" =>
           allowed[<<t, "permit2">>] >= balance[t] /\ permit[t].amount >= balance[t]

(* A start-up that finds every earlier approval mined performs the approval *)
(* writes it needs and goes on to serve: the start of a lane fails only for *)
(* an approval the chain has not mined.                                     *)
RequiredApprovalsAreWritten ==
  [][phase = "preparing" /\ phase' = "failed"
       => \E i \in Ids : approvals[i].status = "pending"]_allowVars
=============================================================================
