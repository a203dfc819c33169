-------------------------- MODULE RebalanceJournal --------------------------
(***************************************************************************)
(* The rules of the durable rebalance journal (rebalance/executor.rs): what *)
(* an operation's progress may become, which quarantines may be reopened    *)
(* and how often, and what one append does to an operation.  No state here: *)
(* RebalanceSaga holds the journal.                                         *)
(*                                                                          *)
(* An operation is a record [route, dir, token, progress, before, reopens,  *)
(* owned, unindexed].  `before` is progress_before_quarantine and the last  *)
(* three are the reopen counters.  They are in memory in the code, and      *)
(* recomputed by `open` from the same transitions, so a restart leaves them *)
(* as they were.  A reason string is the class the code sorts it into.      *)
(***************************************************************************)
EXTENDS Naturals

MAX_CORRECTED_QUARANTINE_REOPENS == 4
MAX_PREMUTATION_CAPITAL_PREFLIGHT_REOPENS == 5
MAX_UNINDEXED_MASTER_TRANSFER_REOPENS == 2
MAX_TRAVEL_RULE_OWNERSHIP_REJECTION_REOPENS == 2

(* Bound of the model: the u8 counter only meets the limits above.          *)
ReopenCap == 6

Modes == {"standard", "required", "travel"}
Reasons == {"ownership_absent", "signature", "ownership_rejected",
            "capital_config", "precision", "header", "fill_timeout",
            "nonce_low", "consumed_retry_failed", "dex_unknown",
            "illegal_transition", "wallet_changed", "no_indexed_transfer",
            "staged_inventory", "other"}
States == {"Intent", "TransferSubmitted", "TransferCompleted",
           "SubmissionStarted", "RetryAuthorized", "ReturnStarted",
           "ReturnSubmitted", "WithdrawalSubmitted", "FundsOnBridge",
           "ApprovalMined", "BridgePrepared", "BridgeMined", "AcrossFilled",
           "DepositMined", "Questionnaire", "Credited", "Completed",
           "CancelledStale", "Failed", "Quarantined"}

(* RebalanceExecutionProgress: mode and q are api_mode and                  *)
(* reconciliation_queries, ev the evidence later steps compare (the         *)
(* authorised master balance, or the calldata of the prepared bridge).      *)
Progress == [st : States, mode : Modes \cup {"none"}, q : {0, 1},
             ev : Nat, why : Reasons \cup {"none"}]
P(st) == [st |-> st, mode |-> "none", q |-> 0, ev |-> 0, why |-> "none"]
Started(mode, q) == [P("SubmissionStarted") EXCEPT !.mode = mode, !.q = q]
RetryAuthorized(mode, free) ==
  [P("RetryAuthorized") EXCEPT !.mode = mode, !.ev = free]
ReturnStarted(q) == [P("ReturnStarted") EXCEPT !.q = q]
BridgePrepared(call) == [P("BridgePrepared") EXCEPT !.ev = call]
Failed(why) == [P("Failed") EXCEPT !.why = why]
Quarantined(why) == [P("Quarantined") EXCEPT !.why = why]
NoProgress == P("Intent")

terminal(p) == p.st \in {"Completed", "CancelledStale", "Failed", "Quarantined"}

----------------------------------------------------------------------------
(* Which quarantines and failures the code considers its own mistakes.      *)
corrected_guard_quarantine(why) ==
  why \in {"wallet_changed", "no_indexed_transfer", "staged_inventory",
           "ownership_absent", "signature"}
premutation_preflight(why, before) ==
  before.st = "Intent" /\ why \in {"capital_config", "precision"}
post_credit_settlement(why, before) ==
  before.st = "Credited" /\ why = "header"
consumed_nonce_deposit(why) ==
  why \in {"nonce_low", "consumed_retry_failed", "capital_config"}
corrected_across_deposit_chain(op, why, before) ==
  /\ op.route = "across" /\ op.dir = "w2b" /\ before.st = "DepositMined"
  /\ why = "illegal_transition"
retryable_ownership_failure(p) ==
  p.st = "Failed" /\ p.why = "ownership_rejected"

ApprovedTerminalRetry(prev, next) ==
  /\ retryable_ownership_failure(prev)
  /\ next.st = "SubmissionStarted" /\ next.mode = "travel"

ReconciledDirectDeposit(op, prev, next) ==
  /\ op.route = "direct" /\ op.dir = "w2b"
  /\ prev.why = "dex_unknown" /\ next.st = "DepositMined"
ReconciledAcrossFill(op, prev, next) ==
  op.route = "across" /\ prev.why = "fill_timeout" /\ next.st = "AcrossFilled"
ReconciledConsumedNonce(op, prev, next) ==
  /\ op.route = "across" /\ op.dir = "w2b"
  /\ consumed_nonce_deposit(prev.why) /\ next.st = "AcrossFilled"

ApprovedQuarantineRetry(op, prev, next) ==
  /\ prev.st = "Quarantined"
  /\ \/ /\ next.st = "SubmissionStarted"
        /\ \/ prev.why = "wallet_changed" /\ next.mode = "travel" /\ next.q = 1
           \/ /\ prev.why = "ownership_absent" /\ next.q = 0
              /\ next.mode \in {"required", "travel"}
           \/ prev.why = "signature" /\ next.mode = "travel" /\ next.q = 0
     \/ /\ next.st = "RetryAuthorized" /\ next.mode = "travel"
        /\ prev.why = "ownership_absent"
     \/ /\ next.st = "Intent"
        /\ prev.why \in {"no_indexed_transfer", "staged_inventory",
                         "capital_config", "precision"}
     \/ next.st = "Credited" /\ prev.why = "header"
     \/ corrected_across_deposit_chain(op, prev.why, next)
     \/ ReconciledDirectDeposit(op, prev, next)
     \/ ReconciledAcrossFill(op, prev, next)
     \/ ReconciledConsumedNonce(op, prev, next)

----------------------------------------------------------------------------
(* The transition table.  Edges are the pairs that need no more than their  *)
(* states; RetryEdge the pairs that also compare modes and query counts.    *)
WithdrawalEdges ==
  {<<"Intent", "TransferSubmitted">>, <<"TransferSubmitted", "TransferCompleted">>,
   <<"TransferCompleted", "SubmissionStarted">>,
   <<"TransferCompleted", "WithdrawalSubmitted">>,
   <<"SubmissionStarted", "WithdrawalSubmitted">>,
   <<"ReturnSubmitted", "CancelledStale">>}
DepositEdges ==
  {<<"DepositMined", "Questionnaire">>, <<"DepositMined", "Credited">>,
   <<"Questionnaire", "Credited">>, <<"Credited", "Completed">>}
BridgeEdges ==
  {<<"ApprovalMined", "BridgePrepared">>, <<"BridgePrepared", "BridgePrepared">>,
   <<"BridgePrepared", "BridgeMined">>, <<"BridgeMined", "AcrossFilled">>}

Edges(op) ==
  CASE op.route = "direct" /\ op.dir = "b2w" ->
         WithdrawalEdges \cup {<<"SubmissionStarted", "Completed">>,
                               <<"WithdrawalSubmitted", "Completed">>}
    [] op.route = "direct" /\ op.dir = "w2b" ->
         DepositEdges \cup {<<"Intent", "DepositMined">>}
    [] op.route = "across" /\ op.dir = "b2w" ->
         WithdrawalEdges \cup BridgeEdges \cup
           {<<"WithdrawalSubmitted", "FundsOnBridge">>,
            <<"FundsOnBridge", "ApprovalMined">>,
            <<"FundsOnBridge", "BridgePrepared">>,
            <<"AcrossFilled", "Completed">>}
    [] OTHER ->
         BridgeEdges \cup DepositEdges \cup
           {<<"Intent", "ApprovalMined">>, <<"Intent", "BridgePrepared">>,
            <<"AcrossFilled", "DepositMined">>}

RetryEdge(prev, next) ==
  \/ /\ prev.st = "SubmissionStarted" /\ next.st = "SubmissionStarted"
     /\ prev.q = 0
     /\ \/ prev.mode = next.mode /\ next.q = 1
        \/ prev.mode = "standard" /\ next.mode = "required" /\ next.q = 0
        \/ prev.mode = "required" /\ next.mode = "travel" /\ next.q = 0
  \/ /\ prev.st = "SubmissionStarted" /\ prev.q = 1
     /\ next.st = "RetryAuthorized" /\ prev.mode = next.mode
  \/ /\ prev.st = "RetryAuthorized" /\ prev.mode = next.mode
     /\ next.st = "SubmissionStarted" /\ next.q = 0
  \/ /\ \/ prev.st = "SubmissionStarted" /\ prev.q = 1
        \/ prev.st = "RetryAuthorized"
     /\ next = ReturnStarted(0)
  \/ prev = ReturnStarted(0) /\ next = ReturnStarted(1)
  \/ prev = ReturnStarted(1) /\ next.st = "ReturnSubmitted"

validate_transition(op, prev, next) ==
  \/ ApprovedQuarantineRetry(op, prev, next)
  \/ /\ ~terminal(prev)
     /\ \/ next.st \in {"Failed", "Quarantined"}
        \/ <<prev.st, next.st>> \in Edges(op)
        \/ op.dir = "b2w" /\ RetryEdge(prev, next)
  \/ /\ ApprovedTerminalRetry(prev, next)
     /\ op.route = "direct" /\ op.dir = "b2w"

(* `advance`: a quarantined operation may only return to exactly the        *)
(* progress it had; every other move is validate_transition's.              *)
CanAdvance(op, next) ==
  /\ op.progress.st = "Quarantined" => next = op.before
  /\ validate_transition(op, op.progress, next)

(* `append`: the operation after one durable record, counters included.     *)
Appended(op, next) ==
  LET prev == op.progress
      left == prev.st = "Quarantined" /\ next.st # "Quarantined"
  IN  [op EXCEPT
        !.progress = next,
        !.before = IF next.st = "Quarantined" THEN prev ELSE @,
        !.reopens = IF left /\ @ < ReopenCap THEN @ + 1 ELSE @,
        !.owned = IF /\ ApprovedTerminalRetry(prev, next) /\ next.q = 0
                  THEN @ + 1 ELSE @,
        !.unindexed = IF /\ left /\ next.st = "Intent"
                         /\ prev.why = "staged_inventory"
                      THEN @ + 1 ELSE @]

----------------------------------------------------------------------------
(* Candidates of the recoveries, each over one operation: the caller takes  *)
(* the first one, and takes none while an operation is active.              *)
OwnershipReopenable(op) ==
  /\ retryable_ownership_failure(op.progress)
  /\ op.owned < MAX_TRAVEL_RULE_OWNERSHIP_REJECTION_REOPENS

QuarantineReopenable(op) ==
  /\ op.progress.st = "Quarantined"
  /\ LET why == op.progress.why IN
       IF why = "staged_inventory"
       THEN op.unindexed < MAX_UNINDEXED_MASTER_TRANSFER_REOPENS
       ELSE IF premutation_preflight(why, op.before)
       THEN op.reopens < MAX_PREMUTATION_CAPITAL_PREFLIGHT_REOPENS
       ELSE /\ \/ corrected_guard_quarantine(why)
               \/ corrected_across_deposit_chain(op, why, op.before)
            /\ op.reopens < MAX_CORRECTED_QUARANTINE_REOPENS

DirectDepositReconcilable(op) ==
  /\ op.progress.st = "Quarantined" /\ op.progress.why = "dex_unknown"
  /\ op.route = "direct" /\ op.dir = "w2b" /\ op.before.st = "Intent"
AcrossFillReconcilable(op) ==
  /\ op.progress.st = "Quarantined" /\ op.progress.why = "fill_timeout"
  /\ op.route = "across" /\ op.before.st = "BridgeMined"
ConsumedNonceReconcilable(op) ==
  /\ op.progress.st = "Quarantined" /\ consumed_nonce_deposit(op.progress.why)
  /\ op.route = "across" /\ op.dir = "w2b" /\ op.before.st = "AcrossFilled"
PostCreditReconcilable(op) ==
  /\ op.progress.st = "Quarantined"
  /\ post_credit_settlement(op.progress.why, op.before)
=============================================================================
