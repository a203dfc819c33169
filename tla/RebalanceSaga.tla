---------------------------- MODULE RebalanceSaga ----------------------------
(***************************************************************************)
(* One rebalance worker: the executor of rebalance/runtime.rs, the durable  *)
(* journal it writes, and the task of main.rs that gives it commands,       *)
(* quarantines what fails and reopens what may be retried.  Around it, the  *)
(* venues as the code uses them: Binance's two accounts, its transfer and   *)
(* withdrawal histories (which may lag), the wallet's transactions, the     *)
(* Across fill and the Binance deposit.                                     *)
(*                                                                          *)
(* A step of the worker ends at an await the process can die at: between    *)
(* the durable record and the request it announces, and between the request *)
(* and its answer.  Every amount is one unit: what matters is how many      *)
(* units move, not how large they are.  Locked master inventory is always   *)
(* zero (a lock is one more reason for an observation to fail).             *)
(***************************************************************************)
EXTENDS RebalanceJournal, FiniteSets, Sequences

CONSTANTS Tokens,          \* assets
          Routes, Dirs,    \* what a request may ask for
          MaxOps,          \* operations the engines ever ask for
          MaxCrashes,      \* process deaths
          MaxQuoteFails,   \* retryable Across quote failures
          Spare,           \* master inventory that belongs to nobody's operation
          Calls,           \* calldata a fresh Across quote may carry
          MaxTries,        \* MAX_PREBROADCAST_ATTEMPTS
          DelayCoversLag   \* the 5 s confirmation delay outlasts the venue's lag

ASSUME SagaAssumption ==
  /\ MaxOps \in Nat /\ MaxCrashes \in Nat /\ MaxQuoteFails \in Nat
  /\ Spare \in Nat /\ MaxTries \in Nat \ {0} /\ DelayCoversLag \in BOOLEAN
  /\ Calls \subseteq Nat /\ Routes \subseteq {"direct", "across"} /\ Dirs \subseteq {"b2w", "w2b"}

VARIABLES
  journal,   \* sequence of operations, in operation-id order
  w,         \* the worker's volatile state
  trading, master,   \* per token: free units of the two Binance accounts
  xfer, back, wd,    \* per operation: transfer to master, return, withdrawals
  hidden,    \* accepted records the histories do not list yet
  wire,      \* requests whose answer is lost and which may still arrive
  child,     \* per operation: wallet transactions, by purpose
  fill, dep, \* per operation: the Across fill and the Binance deposit
  crashes, quoteFails

venue == <<trading, master, xfer, back, wd, hidden, wire>>
chain == <<child, fill, dep>>
vars == <<journal, w, venue, chain, crashes, quoteFails>>

OpIds == 1..MaxOps
Children == {"approval", "bridge", "deposit"}
NoChild == [st |-> "none", call |-> 0, tries |-> 0, mined |-> 0]
Down == [pc |-> "down", op |-> 0, fresh |-> FALSE, safe |-> FALSE,
         retry |-> FALSE, starting |-> FALSE, again |-> FALSE, free |-> 0,
         stale |-> FALSE, ans |-> "none", why |-> "none", c |-> "none"]

Init ==
  /\ journal = <<>>
  /\ w = [Down EXCEPT !.pc = "idle"]
  /\ trading = [t \in Tokens |-> MaxOps]
  /\ master = [t \in Tokens |-> Spare]
  /\ xfer = [o \in OpIds |-> "none"] /\ back = [o \in OpIds |-> "none"]
  /\ wd = [o \in OpIds |-> <<>>]
  /\ hidden = {} /\ wire = {}
  /\ child = [o \in OpIds |-> [c \in Children |-> NoChild]]
  /\ fill = [o \in OpIds |-> "none"] /\ dep = [o \in OpIds |-> "none"]
  /\ crashes = 0 /\ quoteFails = 0

----------------------------------------------------------------------------
(* Views of the journal.                                                    *)
Op == journal[w.op]
Now == Op.progress
ActiveOps == {o \in DOMAIN journal : ~terminal(journal[o].progress)}
FirstOp(S) == CHOOSE o \in S : \A q \in S : o <= q
Candidates(S) == IF ActiveOps = {} THEN S ELSE {}

(* What the Binance histories answer.  The record of a refused Travel Rule  *)
(* request ("dead") only ever comes first, before any withdrawal.           *)
TransferListed(o) == xfer[o] # "none" /\ <<o, "x">> \notin hidden
ReturnListed(o) == back[o] # "none" /\ <<o, "r">> \notin hidden
Live(o) == IF wd[o] # <<>> /\ wd[o][1] = "dead" THEN Tail(wd[o]) ELSE wd[o]
WithdrawalListed(o) == Live(o) # <<>> /\ <<o, "w">> \notin hidden

(* Moving on forgets what only the step just left had read.                 *)
Step(pc) == [w EXCEPT !.pc = pc, !.free = 0, !.stale = FALSE, !.ans = "none",
                     !.retry = FALSE,
                     !.c = IF pc \in {"tx_wait", "tx_done"} THEN @ ELSE "none"]
Goto(pc) == w' = Step(pc)
Fail(why) == w' = [Step("failed") EXCEPT !.why = why]

(* execution_journal.advance(...)? : the durable record and the next place,  *)
(* or the error the caller propagates.                                      *)
Advance(next, pc) ==
  IF CanAdvance(Op, next)
  THEN /\ journal' = [journal EXCEPT ![w.op] = Appended(@, next)]
       /\ Goto(pc)
  ELSE Fail("illegal_transition") /\ UNCHANGED journal

(* The terminal record a step writes before it returns an error.            *)
AdvanceFailed(why) ==
  /\ journal' = [journal EXCEPT ![w.op] = Appended(@, Failed(why))]
  /\ Fail(why)

(* A process call on operation o: what direct_/across_binance_to_wallet     *)
(* compute on entry, before any step.                                       *)
Enter(o, fresh, progress) ==
  [w EXCEPT !.pc = "run", !.op = o, !.fresh = fresh, !.why = "none",
            !.safe = fresh \/ progress.st \in {"Intent", "TransferSubmitted"}]

At(pc, states) == w.pc = pc /\ Now.st \in states
B2W(states) == At("run", states) /\ Op.dir = "b2w"
LeavesVenues == UNCHANGED <<venue, chain, crashes, quoteFails>>
LeavesRest == UNCHANGED <<chain, crashes, quoteFails>>

----------------------------------------------------------------------------
(* Commands of the worker task.                                             *)

(* Execute: a fresh operation for a token no quarantine blocks; `reserve`   *)
(* refuses it while another one is active.                                  *)
Execute(t, plan) ==
  /\ w.pc = "idle" /\ ActiveOps = {} /\ Len(journal) < MaxOps
  /\ \A o \in DOMAIN journal :
       journal[o].token = t => journal[o].progress.st # "Quarantined"
  /\ journal' = Append(journal,
       [route |-> plan.route, dir |-> plan.dir, token |-> t,
        progress |-> P("Intent"), before |-> NoProgress,
        reopens |-> 0, owned |-> 0, unindexed |-> 0])
  /\ w' = Enter(Len(journal) + 1, TRUE, P("Intent"))
  /\ LeavesVenues

(* ReconcileAcross: the periodic command; without a candidate it does       *)
(* nothing.                                                                 *)
ReconcileAcross ==
  /\ w.pc = "idle"
  /\ Candidates({o \in DOMAIN journal : \/ PostCreditReconcilable(journal[o])
                                        \/ ConsumedNonceReconcilable(journal[o])
                                        \/ AcrossFillReconcilable(journal[o])}) # {}
  /\ Goto("reconcile_credit")
  /\ UNCHANGED journal /\ LeavesVenues

(* The error a process call returned: an ownership rejection and a          *)
(* retryable quote failure are retried, everything else quarantines the     *)
(* active operation (none is active after a Failed record).                 *)
OwnershipRetry ==
  /\ w.pc = "failed" /\ w.why = "ownership_rejected"
  /\ IF ActiveOps = {} /\ OwnershipReopenable(Op)
     THEN IF CanAdvance(Op, Started("travel", 0))
          THEN /\ journal' = [journal EXCEPT ![w.op] =
                                Appended(@, Started("travel", 0))]
               /\ w' = Enter(w.op, FALSE, Started("travel", 0))
          ELSE Fail("illegal_transition") /\ UNCHANGED journal
     ELSE Fail("other") /\ UNCHANGED journal
  /\ LeavesVenues

QuoteRetry ==
  /\ w.pc = "failed" /\ w.why = "quote"
  /\ w' = Enter(w.op, FALSE, Now)
  /\ UNCHANGED journal /\ LeavesVenues

quarantine_active_operation ==
  /\ w.pc = "failed" /\ w.why \notin {"ownership_rejected", "quote"}
  /\ LET why == IF w.again THEN "consumed_retry_failed" ELSE w.why IN
       journal' = [o \in DOMAIN journal |->
                     IF o \in ActiveOps
                     THEN Appended(journal[o], Quarantined(why))
                     ELSE journal[o]]
  /\ Goto("report")
  /\ LeavesVenues

(* reopen_next_retryable_quarantine: a Failed ownership rejection first,    *)
(* then a quarantine; the first that is not permitted is an error, and the  *)
(* error ends the worker task and with it the process.                      *)
ReopenNext(none) ==
  LET failures == Candidates({o \in DOMAIN journal : OwnershipReopenable(journal[o])})
      stuck == Candidates({o \in DOMAIN journal : QuarantineReopenable(journal[o])})
      o == FirstOp(IF failures # {} THEN failures ELSE stuck)
      next == IF failures # {} THEN Started("travel", 0) ELSE journal[o].before
  IN  IF failures \cup stuck = {}
      THEN w' = none /\ UNCHANGED journal
      ELSE IF CanAdvance(journal[o], next)
      THEN /\ journal' = [journal EXCEPT ![o] = Appended(@, next)]
           /\ w' = Enter(o, FALSE, next)
      ELSE /\ w' = [Down EXCEPT !.why = "illegal_transition"]
           /\ UNCHANGED journal

Report ==
  /\ w.pc = "report"
  /\ IF w.starting
     THEN ReopenNext([Down EXCEPT !.pc = "idle"])
     ELSE w' = [Down EXCEPT !.pc = "idle"] /\ UNCHANGED journal
  /\ LeavesVenues

(* An operation that ended well (or is found ended): the process call       *)
(* returns it and the task reports.                                         *)
Returned ==
  /\ w.pc = "run" /\ Now.st \in {"Completed", "CancelledStale"}
  /\ Goto("report")
  /\ UNCHANGED journal /\ LeavesVenues

----------------------------------------------------------------------------
(* Start-up: hydrate waits until no wallet transaction is outstanding, then *)
(* the reconciliations in main's order, then recovery of what is active.    *)
Crash ==
  /\ w.pc # "down" /\ crashes < MaxCrashes
  /\ crashes' = crashes + 1
  /\ w' = Down
  /\ UNCHANGED <<journal, venue, chain, quoteFails>>

Hydrate ==
  /\ w.pc = "down"
  /\ \A o \in OpIds, c \in Children : child[o][c].st # "sent"
  /\ w' = [Down EXCEPT !.pc = "start_fill", !.starting = TRUE]
  /\ UNCHANGED journal /\ LeavesVenues

(* A reconciliation records progress when its evidence is there, and leaves *)
(* the quarantine when it is not or a read fails.  At run time the worker   *)
(* resumes the operation it reopened (`resume`); start-up only goes on.     *)
Reconciled(o, next, done) ==
  /\ journal' = [journal EXCEPT ![o] = Appended(@, next)]
  /\ w' = done
Unreconciled(pc) == Goto(pc) /\ UNCHANGED journal

reconcile_across_fill(from, resume, pc) ==
  /\ w.pc = from
  /\ LET S == Candidates({o \in DOMAIN journal : AcrossFillReconcilable(journal[o])}) IN
       \/ /\ S # {} /\ fill[FirstOp(S)] = "filled"
          /\ Reconciled(FirstOp(S), P("AcrossFilled"),
                        IF resume THEN Enter(FirstOp(S), FALSE, P("AcrossFilled"))
                        ELSE [w EXCEPT !.pc = pc])
       \/ Unreconciled(pc)
  /\ LeavesVenues

reconcile_consumed_nonce(from, resume, pc) ==
  /\ w.pc = from
  /\ LET S == Candidates({o \in DOMAIN journal : ConsumedNonceReconcilable(journal[o])})
         tx == child[FirstOp(S)]["deposit"] IN
       \/ /\ S # {} /\ tx.st = "rejected" /\ tx.tries < MaxTries
          /\ Reconciled(FirstOp(S), P("AcrossFilled"),
                        IF resume
                        THEN [Enter(FirstOp(S), FALSE, P("AcrossFilled"))
                                EXCEPT !.again = TRUE]
                        ELSE [w EXCEPT !.pc = pc])
       \/ Unreconciled(pc)
  /\ LeavesVenues

(* The two records of a completed post-credit settlement: reopened, ended.  *)
reconcile_post_credit(from, done, pc) ==
  /\ w.pc = from
  /\ LET S == Candidates({o \in DOMAIN journal : PostCreditReconcilable(journal[o])})
         o == FirstOp(S) IN
       \/ /\ S # {}
          /\ journal' = [journal EXCEPT ![o] =
               Appended(Appended(@, @.before), P("Completed"))]
          /\ Goto(done)
       \/ Unreconciled(pc)
  /\ LeavesVenues

reconcile_direct_deposit(from, pc) ==
  /\ w.pc = from
  /\ LET S == Candidates({o \in DOMAIN journal : DirectDepositReconcilable(journal[o])}) IN
       \/ /\ S # {} /\ child[FirstOp(S)]["deposit"].st = "mined"
          /\ Reconciled(FirstOp(S), P("DepositMined"),
                        [w EXCEPT !.pc = pc])
       \/ Unreconciled(pc)
  /\ LeavesVenues

StartRecovery ==
  /\ w.pc = "start_done"
  /\ w' = IF ActiveOps = {} THEN [Down EXCEPT !.pc = "idle"]
          ELSE LET o == FirstOp(ActiveOps) IN
                 Enter(o, FALSE, journal[o].progress)
  /\ UNCHANGED journal /\ LeavesVenues

StartUp ==
  \/ reconcile_across_fill("start_fill", FALSE, "start_nonce")
  \/ reconcile_consumed_nonce("start_nonce", FALSE, "start_reopen")
  \/ /\ w.pc = "start_reopen"
     /\ ReopenNext([w EXCEPT !.pc = "start_deposit"]) /\ LeavesVenues
  \/ reconcile_direct_deposit("start_deposit", "start_credit")
  \/ reconcile_post_credit("start_credit", "start_done", "start_done")
  \/ StartRecovery

RunTimeReconciliation ==
  \/ reconcile_post_credit("reconcile_credit", "report", "reconcile_nonce")
  \/ reconcile_consumed_nonce("reconcile_nonce", TRUE, "reconcile_fill")
  \/ reconcile_across_fill("reconcile_fill", TRUE, "report")

----------------------------------------------------------------------------
(* Requests.  A request is accepted, refused, or its answer is lost: then   *)
(* it was accepted, never arrives, or is still on the wire.                 *)
Debit(acc, t) == [acc EXCEPT ![t] = @ - 1]
Credit(acc, t) == [acc EXCEPT ![t] = @ + 1]
TokenOf(o) == journal[o].token

(* Universal transfers carry a deterministic client id, which Binance does  *)
(* not accept twice; a withdrawal order id is not protected that way.       *)
AcceptTransfer(o) ==
  /\ xfer[o] = "none" /\ trading[TokenOf(o)] > 0
  /\ xfer' = [xfer EXCEPT ![o] = "process"]
  /\ trading' = Debit(trading, TokenOf(o))
  /\ UNCHANGED <<master, back, wd>>
AcceptReturn(o) ==
  /\ back[o] = "none" /\ master[TokenOf(o)] > 0
  /\ back' = [back EXCEPT ![o] = "process"]
  /\ master' = Debit(master, TokenOf(o))
  /\ UNCHANGED <<trading, xfer, wd>>
AcceptWithdrawal(o) ==
  /\ master[TokenOf(o)] > 0 /\ Len(wd[o]) < 3
  /\ wd' = [wd EXCEPT ![o] = Append(@, "processing")]
  /\ master' = Debit(master, TokenOf(o))
  /\ UNCHANGED <<trading, xfer, back>>
Accept(kind, o) ==
  CASE kind = "x" -> AcceptTransfer(o)
    [] kind = "r" -> AcceptReturn(o)
    [] OTHER -> AcceptWithdrawal(o)
NotAccepted == UNCHANGED <<trading, master, xfer, back, wd>>

Send(kind) ==
  \E ans \in {"ok", "refused", "lost"}, lag \in BOOLEAN :
    /\ w' = [w EXCEPT !.pc = "answer", !.ans = ans]
    /\ \/ /\ ans \in {"ok", "lost"}
          /\ Accept(kind, w.op)
          /\ hidden' = IF lag THEN hidden \cup {<<w.op, kind>>} ELSE hidden
          /\ UNCHANGED wire
       \/ /\ ans = "lost" /\ NotAccepted
          /\ wire' = IF lag THEN wire \cup {<<w.op, kind>>} ELSE wire
          /\ UNCHANGED hidden
       \/ ans = "refused" /\ ~lag /\ NotAccepted /\ UNCHANGED <<hidden, wire>>

\* Mutant: the second observation follows the first at once.
NoDelay == TRUE

(* The confirmation delay: five seconds in which a lagging venue catches up *)
(* when DelayCoversLag.                                                     *)
Slept == DelayCoversLag => wire = {} /\ hidden = {}

----------------------------------------------------------------------------
(* Binance to wallet: the staged transfer to the master account.            *)
begin_master_transfer ==
  /\ B2W({"Intent"})
  /\ \/ TransferListed(w.op) /\ Advance(P("TransferSubmitted"), "run")
     \/ ~TransferListed(w.op) /\ w.fresh /\ Goto("send_x") /\ UNCHANGED journal
     \/ /\ ~TransferListed(w.op) /\ ~w.fresh
        /\ w' = [w EXCEPT !.pc = "absent_x", !.free = master[Op.token],
                          !.stale = trading[Op.token] = 0]
        /\ UNCHANGED journal
  /\ LeavesVenues

confirm_unindexed_master_transfer_absent ==
  /\ w.pc = "absent_x" /\ Slept
  /\ IF /\ ~TransferListed(w.op) /\ master[Op.token] = w.free
        /\ ~w.stale /\ trading[Op.token] > 0
     THEN Goto("send_x") ELSE Fail("other")
  /\ UNCHANGED journal /\ LeavesVenues

SendTransfer ==
  /\ w.pc = "send_x" /\ Send("x")
  /\ UNCHANGED journal /\ LeavesRest

TransferAnswer ==
  /\ At("answer", {"Intent"})
  /\ IF w.ans = "ok" \/ (~w.fresh /\ TransferListed(w.op))
     THEN Advance(P("TransferSubmitted"), "run")
     ELSE Fail("other") /\ UNCHANGED journal
  /\ LeavesVenues

finish_master_transfer ==
  /\ B2W({"TransferSubmitted"}) /\ TransferListed(w.op)
  /\ \/ xfer[w.op] = "success" /\ Advance(P("TransferCompleted"), "run")
     \/ xfer[w.op] = "failed" /\ AdvanceFailed("other")
  /\ LeavesVenues

----------------------------------------------------------------------------
(* The withdrawal.                                                          *)
\* Mutant: the withdrawal is requested first and journaled when answered.
RequestBeforeRecord ==
  /\ B2W({"TransferCompleted"})
  /\ IF WithdrawalListed(w.op) THEN Advance(P("WithdrawalSubmitted"), "run")
     ELSE Goto("send_w") /\ UNCHANGED journal
  /\ LeavesVenues

begin_binance_withdrawal ==
  /\ B2W({"TransferCompleted"})
  /\ IF WithdrawalListed(w.op) THEN Advance(P("WithdrawalSubmitted"), "run")
     ELSE IF w.safe THEN Advance(Started("standard", 0), "send_w")
     ELSE Fail("other") /\ UNCHANGED journal
  /\ LeavesVenues

(* A journaled submission whose outcome this process does not know: found   *)
(* in the history, submitted for the first time in the mode Binance asked   *)
(* for, or reconciled.                                                      *)
ResumeSubmission ==
  /\ B2W({"SubmissionStarted"})
  /\ \/ /\ Now.mode = "required" /\ Now.q = 0
        /\ Advance(Started("travel", 0), "send_w")
     \/ /\ Now.mode # "required" /\ WithdrawalListed(w.op)
        /\ IF Now.mode = "travel" /\ Len(Live(w.op)) > 1
           THEN Fail("other") /\ UNCHANGED journal
           ELSE Advance(P("WithdrawalSubmitted"), "run")
     \/ /\ Now.mode # "required" /\ ~WithdrawalListed(w.op)
        /\ IF Now.q = 0 THEN Advance(Started(Now.mode, 1), "absent_w1")
           ELSE Goto("absent_w1") /\ UNCHANGED journal
  /\ LeavesVenues

ResumeAuthorizedRetry ==
  /\ B2W({"RetryAuthorized"})
  /\ Goto("absent_w1")
  /\ UNCHANGED journal /\ LeavesVenues

(* observe_unknown_withdrawal_absence, which also re-reads whether the      *)
(* withdrawal is still wanted (trading moves the balances under it: either  *)
(* answer, each time): no record, the staged transfer       *)
(* complete, the staged unit still free on the master account.              *)
AbsenceHolds ==
  /\ ~WithdrawalListed(w.op)
  /\ TransferListed(w.op) /\ xfer[w.op] = "success"
  /\ master[Op.token] > 0

\* Mutant: a withdrawal that looks absent and is no longer wanted is
\* returned without a second look.
ReturnAtFirstSight ==
  /\ w.pc = "absent_w1"
  /\ IF AbsenceHolds /\ Now # Started(Now.mode, 0)
     THEN Advance(ReturnStarted(0), "run")
     ELSE Fail("other") /\ UNCHANGED journal
  /\ LeavesVenues

FirstObservation ==
  /\ w.pc = "absent_w1"
  /\ IF AbsenceHolds
     THEN \E stale \in BOOLEAN :
            w' = [w EXCEPT !.pc = "absent_w2", !.free = master[Op.token],
                           !.stale = stale]
     ELSE Fail("other")
  /\ UNCHANGED journal /\ LeavesVenues

confirm_unknown_withdrawal_absence ==
  /\ w.pc = "absent_w2" /\ Slept
  /\ IF ~AbsenceHolds \/ master[Op.token] # w.free
     THEN Fail("other") /\ UNCHANGED journal
     ELSE \/ w.stale /\ Advance(ReturnStarted(0), "run")
          \/ IF Now.st = "SubmissionStarted"
             THEN Advance(RetryAuthorized(Now.mode, w.free), "retry")
             ELSE /\ IF Now.ev = w.free THEN Goto("retry") ELSE Fail("other")
                  /\ UNCHANGED journal
  /\ LeavesVenues

(* verify_route and, in Travel Rule mode, the ownership proof, then the     *)
(* durable record of the retry.                                             *)
resume_authorized_withdrawal_retry ==
  /\ At("retry", {"RetryAuthorized"})
  /\ IF CanAdvance(Op, Started(Now.mode, 0))
     THEN /\ journal' = [journal EXCEPT ![w.op] =
                           Appended(@, Started(Now.mode, 0))]
          /\ w' = [Step("send_w") EXCEPT !.retry = TRUE]
     ELSE Fail("illegal_transition") /\ UNCHANGED journal
  /\ LeavesVenues

SendWithdrawal ==
  /\ w.pc = "send_w" /\ Send("w")
  /\ UNCHANGED journal /\ LeavesRest

\* Mutant: an answer that was lost is taken for a refusal.
LostIsRefused ==
  /\ At("answer", {"SubmissionStarted"})
  /\ IF w.ans = "ok" THEN Advance(P("WithdrawalSubmitted"), "run")
     ELSE AdvanceFailed("other")
  /\ LeavesVenues

(* A refusal names its code: -4104 (use the Travel Rule form), -4024 (the   *)
(* address is not yours), a terminal one, a bad signature, or another.  A   *)
(* refused Travel Rule request may leave a record that withdrew nothing.    *)
WithdrawalAnswer ==
  /\ At("answer", {"SubmissionStarted"})
  /\ \/ w.ans = "ok" /\ Advance(P("WithdrawalSubmitted"), "run")
     \/ /\ w.ans = "refused" /\ Now.mode = "standard"
        /\ Advance(Started("required", 0), "run")
     \/ /\ w.ans = "refused" /\ Now.mode = "travel" /\ ~w.retry
        /\ Advance(Started("travel", 1), "absent_w1")
     \/ /\ w.ans = "refused" /\ Now.mode = "travel" /\ w.retry
        /\ AdvanceFailed("ownership_rejected")
     \/ w.ans = "refused" /\ AdvanceFailed("other")
     \/ /\ w.ans = "refused" /\ Now.mode = "travel"
        /\ Fail("signature") /\ UNCHANGED journal
     \/ w.ans \in {"refused", "lost"} /\ Fail("other") /\ UNCHANGED journal
  /\ \/ UNCHANGED wd
     \/ /\ w.ans = "refused" /\ Now.mode = "travel" /\ wd[w.op] = <<>>
        /\ wd' = [wd EXCEPT ![w.op] = Append(@, "dead")]
  /\ UNCHANGED <<trading, master, xfer, back, hidden, wire>> /\ LeavesRest

wait_withdrawal ==
  /\ B2W({"WithdrawalSubmitted"}) /\ WithdrawalListed(w.op)
  /\ \/ /\ Head(Live(w.op)) = "done"
        /\ Advance(P(IF Op.route = "direct" THEN "Completed"
                     ELSE "FundsOnBridge"), "run")
     \/ Head(Live(w.op)) = "failed" /\ AdvanceFailed("other")
  /\ LeavesVenues

----------------------------------------------------------------------------
(* The stale withdrawal: the staged unit goes back to the sub-account.      *)
resume_stale_withdrawal_cancellation ==
  /\ B2W({"ReturnStarted"})
  /\ IF Now.q = 0
     THEN Advance(ReturnStarted(1),
                  IF ReturnListed(w.op) THEN "returned" ELSE "absent_r")
     ELSE /\ Goto(IF ReturnListed(w.op) THEN "returned" ELSE "send_r")
          /\ UNCHANGED journal
  /\ LeavesVenues

ConfirmReturnAbsent ==
  /\ w.pc = "absent_r" /\ Slept
  /\ Goto(IF ReturnListed(w.op) THEN "returned" ELSE "send_r")
  /\ UNCHANGED journal /\ LeavesVenues

SendReturn ==
  /\ w.pc = "send_r"
  /\ IF master[Op.token] > 0 THEN Send("r")
     ELSE Fail("other") /\ UNCHANGED venue
  /\ UNCHANGED journal /\ LeavesRest

ReturnAnswer ==
  /\ \/ w.pc = "returned"
     \/ At("answer", {"ReturnStarted"})
  /\ IF w.pc = "returned" \/ w.ans = "ok"
     THEN Advance(P("ReturnSubmitted"), "run")
     ELSE Fail("other") /\ UNCHANGED journal
  /\ LeavesVenues

wait_master_return ==
  /\ B2W({"ReturnSubmitted"}) /\ ReturnListed(w.op)
  /\ \/ back[w.op] = "success" /\ Advance(P("CancelledStale"), "run")
     \/ back[w.op] = "failed" /\ Fail("other") /\ UNCHANGED journal
  /\ LeavesVenues

----------------------------------------------------------------------------
(* Wallet transactions.  execute_wallet_call returns what its journal       *)
(* already has for the same call, retries what was provably rejected before *)
(* broadcast under the next attempt id, and refuses anything else.          *)
Tx == child[w.op][w.c]
CallOf(c) == IF c = "bridge" THEN Now.ev ELSE 0
SetTx(tx) == child' = [child EXCEPT ![w.op][w.c] = tx]
StartTx(c, next) ==
  IF next = Now THEN w' = [w EXCEPT !.pc = "tx", !.c = c] /\ UNCHANGED journal
  ELSE IF CanAdvance(Op, next)
  THEN /\ journal' = [journal EXCEPT ![w.op] = Appended(@, next)]
       /\ w' = [w EXCEPT !.pc = "tx", !.c = c]
  ELSE Fail("illegal_transition") /\ UNCHANGED journal

execute_wallet_call ==
  /\ w.pc = "tx"
  /\ \/ /\ Tx.st = "mined" /\ Tx.call = CallOf(w.c)
        /\ Goto("tx_done") /\ UNCHANGED child
     \/ /\ \/ Tx.st = "none"
           \/ Tx.st = "rejected" /\ Tx.call = CallOf(w.c) /\ Tx.tries < MaxTries
        /\ \/ /\ SetTx([Tx EXCEPT !.st = "sent", !.call = CallOf(w.c)])
              /\ Goto("tx_wait")
           \/ /\ Op.route = "across"
              /\ SetTx([Tx EXCEPT !.st = "rejected", !.call = CallOf(w.c),
                                  !.tries = @ + 1])
              /\ Fail("nonce_low")
     \/ /\ \/ Tx.st \in {"sent", "reverted"}
           \/ Tx.st = "rejected" /\ Tx.tries >= MaxTries
           \/ Tx.st # "none" /\ Tx.call # CallOf(w.c)
        /\ Fail("other") /\ UNCHANGED child
  /\ UNCHANGED <<journal, venue, fill, dep, crashes, quoteFails>>

(* The receipt, or no receipt within the timeout: the shared owner of the   *)
(* direct networks then reports an unknown outcome.                         *)
TxReceipt ==
  /\ w.pc = "tx_wait"
  /\ \/ Tx.st = "mined" /\ Goto("tx_done")
     \/ Tx.st = "reverted" /\ Fail("other")
     \/ Tx.st = "sent" /\ Fail(IF Op.route = "direct" THEN "dex_unknown" ELSE "other")
  /\ UNCHANGED journal /\ LeavesVenues

TxDone ==
  /\ w.pc = "tx_done"
  /\ \/ /\ w.c = "approval"
        /\ IF Now.st = "ApprovalMined" THEN Goto("run") /\ UNCHANGED journal
           ELSE Advance(P("ApprovalMined"), "run")
     \/ w.c = "bridge" /\ Advance(P("BridgeMined"), "run")
     \/ w.c = "deposit" /\ Advance(P("DepositMined"), "run")
  /\ LeavesVenues

----------------------------------------------------------------------------
(* The Across bridge.  A journaled BridgePrepared is quoted again, and the   *)
(* fresh calldata replaces the journaled one before the transaction.        *)
bridge_across ==
  /\ w.pc = "run" /\ Op.route = "across"
  /\ \/ Now.st \in {"FundsOnBridge", "ApprovalMined", "BridgePrepared"}
     \/ Now.st = "Intent" /\ Op.dir = "w2b"
  /\ \/ /\ \E call \in Calls : StartTx("bridge", BridgePrepared(call))
        /\ UNCHANGED quoteFails
     \/ /\ child[w.op]["approval"].st # "mined"
        /\ IF Now.st = "BridgePrepared" THEN Fail("other") /\ UNCHANGED journal
           ELSE StartTx("approval", Now)
        /\ UNCHANGED quoteFails
     \/ /\ quoteFails < MaxQuoteFails /\ quoteFails' = quoteFails + 1
        /\ Fail("quote") /\ UNCHANGED journal
  /\ UNCHANGED <<venue, chain, crashes>>

\* Mutant: the fill is awaited without a limit.
WaitForever ==
  /\ At("run", {"BridgeMined"})
  /\ \/ fill[w.op] = "filled" /\ Advance(P("AcrossFilled"), "run")
     \/ fill[w.op] = "refunded" /\ Fail("other") /\ UNCHANGED journal
  /\ LeavesVenues

wait_across_fill ==
  /\ At("run", {"BridgeMined"})
  /\ \/ fill[w.op] = "filled" /\ Advance(P("AcrossFilled"), "run")
     \/ fill[w.op] = "refunded" /\ Fail("other") /\ UNCHANGED journal
     \/ Fail("fill_timeout") /\ UNCHANGED journal
  /\ LeavesVenues

complete_across_to_wallet ==
  /\ B2W({"AcrossFilled"})
  /\ Advance(P("Completed"), "run")
  /\ LeavesVenues

(* Wallet to Binance: the deposit transaction, on the source chain of a     *)
(* direct route or on the bridge chain once Across has filled.              *)
StartDeposit ==
  /\ w.pc = "run" /\ Op.dir = "w2b"
  /\ Now.st = IF Op.route = "direct" THEN "Intent" ELSE "AcrossFilled"
  /\ StartTx("deposit", Now)
  /\ LeavesVenues

(* The deposit record: the questionnaire is journaled before it is          *)
(* submitted, and submitted once.                                           *)
wait_binance_deposit ==
  /\ At("run", {"DepositMined", "Questionnaire"})
  /\ \/ /\ dep[w.op] \in {"asked", "asked_credited"} /\ Now.st = "DepositMined"
        /\ Advance(P("Questionnaire"), "run")
     \/ /\ \/ dep[w.op] = "credited"
           \/ dep[w.op] = "asked_credited" /\ Now.st = "Questionnaire"
        /\ Advance(P("Credited"), "run")
  /\ LeavesVenues

finish_binance_deposit ==
  /\ At("run", {"Credited"})
  /\ Advance(P("Completed"), "run")
  /\ LeavesVenues

----------------------------------------------------------------------------
(* The other polling loops end at their deadline.                           *)
WaitRunsOut ==
  /\ At("run", {"TransferSubmitted", "WithdrawalSubmitted", "ReturnSubmitted",
                "DepositMined", "Questionnaire"})
  /\ Fail("other")
  /\ UNCHANGED journal /\ LeavesVenues

(* A read that fails or a check that refuses: the reasons the journal tells *)
(* apart, by the step they can come from.                                   *)
FailureReasons ==
  {"other"}
    \cup (IF w.pc = "run" /\ Now.st \in {"Intent", "AcrossFilled"}
          THEN {"capital_config"} ELSE {})
    \cup (IF w.pc = "run" /\ Now.st = "Credited" THEN {"header"} ELSE {})
    \cup (IF \/ w.pc = "run" /\ Now.st = "SubmissionStarted" /\ Now.mode = "required"
             \/ w.pc = "retry" /\ Now.mode = "travel"
          THEN {"ownership_absent"} ELSE {})
StepFails ==
  /\ w.pc \in {"run", "absent_x", "absent_w1", "absent_w2", "retry", "absent_r",
               "send_r"}
  /\ Now.st \notin {"Completed", "CancelledStale"}
  /\ \E why \in FailureReasons : Fail(why)
  /\ UNCHANGED journal /\ LeavesVenues

----------------------------------------------------------------------------
(* The venues move on their own.                                            *)
Index ==
  /\ \E r \in hidden : hidden' = hidden \ {r}
  /\ UNCHANGED <<journal, w, trading, master, xfer, back, wd, wire>> /\ LeavesRest
Arrive ==
  /\ \E r \in wire :
       /\ wire' = wire \ {r}
       /\ \/ Accept(r[2], r[1]) /\ hidden' = hidden \cup {r}
          \/ NotAccepted /\ UNCHANGED hidden
  /\ UNCHANGED <<journal, w>> /\ LeavesRest

SettleTransfer(o) ==
  /\ xfer[o] = "process"
  /\ \/ /\ xfer' = [xfer EXCEPT ![o] = "success"]
        /\ master' = Credit(master, TokenOf(o)) /\ UNCHANGED trading
     \/ /\ xfer' = [xfer EXCEPT ![o] = "failed"]
        /\ trading' = Credit(trading, TokenOf(o)) /\ UNCHANGED master
  /\ UNCHANGED <<back, wd>>
SettleReturn(o) ==
  /\ back[o] = "process"
  /\ \/ /\ back' = [back EXCEPT ![o] = "success"]
        /\ trading' = Credit(trading, TokenOf(o)) /\ UNCHANGED master
     \/ /\ back' = [back EXCEPT ![o] = "failed"]
        /\ master' = Credit(master, TokenOf(o)) /\ UNCHANGED trading
  /\ UNCHANGED <<xfer, wd>>
SettleWithdrawal(o) ==
  /\ \E i \in DOMAIN wd[o] :
       /\ wd[o][i] = "processing"
       /\ \/ wd' = [wd EXCEPT ![o][i] = "done"] /\ UNCHANGED master
          \/ /\ wd' = [wd EXCEPT ![o][i] = "failed"]
             /\ master' = Credit(master, TokenOf(o))
  /\ UNCHANGED <<trading, xfer, back>>
Settle ==
  /\ \E o \in OpIds : SettleTransfer(o) \/ SettleReturn(o) \/ SettleWithdrawal(o)
  /\ UNCHANGED <<journal, w, hidden, wire>> /\ LeavesRest

Mine ==
  /\ \E o \in OpIds, c \in Children :
       /\ child[o][c].st = "sent"
       /\ \/ /\ child' = [child EXCEPT ![o][c].st = "mined", ![o][c].mined = @ + 1]
             /\ fill' = IF c = "bridge" THEN [fill EXCEPT ![o] = "pending"] ELSE fill
             /\ dep' = IF c = "deposit" THEN [dep EXCEPT ![o] = "pending"] ELSE dep
          \/ /\ child' = [child EXCEPT ![o][c].st = "reverted"]
             /\ UNCHANGED <<fill, dep>>
  /\ UNCHANGED <<journal, w, venue, crashes, quoteFails>>
FillMoves ==
  /\ \E o \in OpIds, st \in {"filled", "refunded"} :
       fill[o] = "pending" /\ fill' = [fill EXCEPT ![o] = st]
  /\ UNCHANGED <<journal, w, venue, child, dep, crashes, quoteFails>>
DepositMoves ==
  /\ \E o \in OpIds :
       \/ dep[o] = "pending" /\ \E st \in {"credited", "asked", "asked_credited"} :
            dep' = [dep EXCEPT ![o] = st]
       \/ dep[o] = "asked" /\ dep' = [dep EXCEPT ![o] = "asked_credited"]
  /\ UNCHANGED <<journal, w, venue, child, fill, crashes, quoteFails>>

----------------------------------------------------------------------------
Withdraw ==
  \/ begin_master_transfer \/ confirm_unindexed_master_transfer_absent
  \/ SendTransfer \/ TransferAnswer \/ finish_master_transfer
  \/ begin_binance_withdrawal \/ ResumeSubmission \/ ResumeAuthorizedRetry
  \/ FirstObservation \/ confirm_unknown_withdrawal_absence
  \/ resume_authorized_withdrawal_retry \/ SendWithdrawal \/ WithdrawalAnswer
  \/ wait_withdrawal
Cancel ==
  \/ resume_stale_withdrawal_cancellation \/ ConfirmReturnAbsent \/ SendReturn
  \/ ReturnAnswer \/ wait_master_return
Bridge ==
  \/ execute_wallet_call \/ TxReceipt \/ TxDone \/ bridge_across
  \/ wait_across_fill \/ complete_across_to_wallet
DepositToBinance == StartDeposit \/ wait_binance_deposit \/ finish_binance_deposit
Worker ==
  \/ Withdraw \/ Cancel \/ Bridge \/ DepositToBinance \/ WaitRunsOut
  \/ OwnershipRetry \/ QuoteRetry \/ quarantine_active_operation
  \/ Report \/ Returned \/ Hydrate \/ StartUp \/ RunTimeReconciliation
Venues ==
  Index \/ Arrive \/ Settle \/ Mine \/ FillMoves \/ DepositMoves

Next ==
  \/ Worker \/ StepFails \/ Venues \/ Crash \/ ReconcileAcross
  \/ \E t \in Tokens, plan \in [route : Routes, dir : Dirs] : Execute(t, plan)

(* The worker task runs whenever it can, and its waits run out; no read     *)
(* need fail and no fill or deposit need come.  But a transaction is mined  *)
(* or dropped, and a venue's lag ends, so that a restart and a sleep do.    *)
Spec ==
  /\ Init /\ [][Next]_vars
  /\ WF_vars(Worker) /\ WF_vars(Mine) /\ WF_vars(Index) /\ WF_vars(Arrive)

----------------------------------------------------------------------------
TypeOK ==
  /\ \A o \in DOMAIN journal :
       /\ journal[o].progress \in Progress /\ journal[o].before \in Progress
       /\ journal[o].reopens \in Nat /\ journal[o].owned \in Nat
       /\ journal[o].token \in Tokens
  /\ w.op \in 0..Len(journal)
  /\ \A t \in Tokens : trading[t] \in Nat /\ master[t] \in Nat

(* What an operation durably claims, a quarantine counting as what it had.  *)
Claim(op) == IF op.progress.st = "Quarantined" THEN op.before ELSE op.progress

(* Whatever crashes, lags and retries happen, an operation moves its unit   *)
(* once: one withdrawal, one bridge transaction, one deposit transaction.   *)
(* And inventory on the master account that no operation staged is never    *)
(* spent by one, by a second withdrawal or by a second return.              *)
MovesOnce ==
  /\ \A o \in OpIds :
       /\ Len(Live(o)) <= 1
       /\ \A c \in {"bridge", "deposit"} : child[o][c].mined <= 1
  /\ \A t \in Tokens : master[t] >= Spare

(* An ended operation tells the truth about the venues: completed means its *)
(* unit arrived, cancelled that it went back and nothing was withdrawn,     *)
(* failed that nothing is withdrawn or still on its way.                    *)
EndsTruthfully ==
  \A o \in DOMAIN journal :
    LET op == journal[o] IN
      /\ op.progress.st = "Completed" =>
           /\ op.dir = "b2w" => Live(o) = <<"done">>
           /\ op.dir = "w2b" =>
                child[o]["deposit"].mined = 1 /\ dep[o] \in {"credited", "asked_credited"}
           /\ op.route = "across" => fill[o] = "filled"
      /\ op.progress.st = "CancelledStale" => Live(o) = <<>> /\ back[o] = "success"
      /\ op.progress.st \in {"CancelledStale", "Failed"} =>
           /\ \A i \in DOMAIN wd[o] : wd[o][i] \in {"dead", "failed"}
           /\ <<o, "w">> \notin wire

(* The journal is ahead of the venues: nothing is withdrawn, bridged or     *)
(* returned before the record that announces it is durable.                 *)
WriteAhead ==
  \A o \in DOMAIN journal :
    LET st == Claim(journal[o]).st IN
      /\ Live(o) # <<>> => st \notin {"Intent", "TransferSubmitted", "TransferCompleted"}
      /\ child[o]["bridge"].mined > 0 =>
           st \notin {"Intent", "FundsOnBridge", "ApprovalMined"}
      /\ back[o] # "none" => st \in {"ReturnStarted", "ReturnSubmitted", "CancelledStale"}

(* Every operation ends, or is quarantined, whatever the venues do.         *)
OperationEnds ==
  \A o \in OpIds : (o \in ActiveOps) ~> (o \notin ActiveOps)

(* A journal this executor wrote never stops a start-up.                    *)
StartUpAccepted == ~(w.pc = "down" /\ w.why = "illegal_transition")
=============================================================================
