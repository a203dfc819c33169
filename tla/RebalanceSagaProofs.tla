------------------------ MODULE RebalanceSagaProofs -------------------------
(***************************************************************************)
(* Proofs about RebalanceSaga, for any number of operations, crashes, quote *)
(* failures and attempts, any tokens and any spare inventory: MovesOnce,    *)
(* EndsTruthfully and WriteAhead hold in every state, provided that the     *)
(* confirmation delay outlasts the lag of the venue (DelayCoversLag).       *)
(*                                                                          *)
(* SagaInv, the inductive invariant, has two parts.  Facts relates what an  *)
(* operation durably claims (a quarantine counts as what it had before) to  *)
(* what the venues did with it (its View): that is what a restart, a        *)
(* reopening or a reconciliation relies on.  It also accounts for the       *)
(* master account: the spare inventory, and one unit for each operation     *)
(* that staged it and has neither withdrawn nor returned it.  WorkerOK says *)
(* which operation is active, and what the place the worker has reached has *)
(* made sure of.                                                            *)
(***************************************************************************)
EXTENDS RebalanceSaga, TLAPS

-----------------------------------------------------------------------------
(* What the venues did with one operation.                                  *)
Kinds == {"x", "r", "w"}
TransferStates == {"none", "process", "success", "failed"}
LiveStates == {"processing", "done", "failed"}
TxStates == {"none", "sent", "rejected", "mined", "reverted"}
FillStates == {"none", "pending", "filled", "refunded"}
DepStates == {"none", "pending", "credited", "asked", "asked_credited"}

LiveOf(s) == IF s # <<>> /\ s[1] = "dead" THEN Tail(s) ELSE s

View(o) ==
  [x |-> xfer[o], b |-> back[o], live |-> LiveOf(wd[o]),
   wire |-> {k \in Kinds : <<o, k>> \in wire},
   bridge |-> child[o]["bridge"].st, deposit |-> child[o]["deposit"].st,
   fill |-> fill[o], dep |-> dep[o]]

\* No withdrawal was accepted, and none can still be.
Unsent(v) == v.live = <<>> /\ "w" \notin v.wire
\* The unit is on the master account.
OnMaster(v) ==
  /\ v.x = "success"
  /\ v.live \in {<<>>, <<"failed">>}
  /\ v.b \notin {"process", "success"}

(* What a claim p of an operation says of it.                               *)
Returning == {"ReturnStarted", "ReturnSubmitted", "CancelledStale"}
Staged == {"TransferCompleted", "SubmissionStarted", "RetryAuthorized",
           "WithdrawalSubmitted"} \cup Returning
Bridging == {"FundsOnBridge", "ApprovalMined", "BridgePrepared", "BridgeMined", "AcrossFilled"}
Depositing == {"DepositMined", "Questionnaire", "Credited"}

Lawful(op, p) ==
  /\ p.st # "Quarantined"
  /\ p.st \in Staged \cup {"TransferSubmitted"} => op.dir = "b2w"
  /\ p.st \in Bridging => op.route = "across"
  /\ p.st \in Depositing => op.dir = "w2b"
  /\ p.st = "RetryAuthorized" => p.mode # "required"

WithdrawalTrue(op, p, v) ==
  /\ op.dir = "b2w" /\ p.st \in Staged \cup Bridging \cup {"Completed"} => v.x = "success"
  /\ p.st = "Failed" /\ p.why = "ownership_rejected" =>
       op.dir = "b2w" /\ v.x = "success" /\ Unsent(v)
  /\ ~Unsent(v) =>
       /\ op.dir = "b2w"
       /\ p.st \in {"SubmissionStarted", "WithdrawalSubmitted", "Completed", "Failed"} \cup Bridging
       /\ p.st = "SubmissionStarted" => p.mode # "required"
  /\ p.st = "WithdrawalSubmitted" => v.live # <<>>
  /\ op.dir = "b2w" /\ p.st \in Bridging \cup {"Completed"} => v.live = <<"done">>
  /\ p.st = "Failed" => "w" \notin v.wire /\ v.live \in {<<>>, <<"failed">>}
  /\ v.b # "none" \/ "r" \in v.wire => p.st \in Returning
  /\ p.st = "CancelledStale" => v.b = "success"

ChainTrue(op, p, v) ==
  /\ v.bridge # "none" =>
       p.st \in {"BridgePrepared", "BridgeMined", "AcrossFilled", "Completed"} \cup Depositing
  /\ op.route = "across" /\ p.st \in {"AcrossFilled", "Completed"} \cup Depositing
       => v.fill = "filled"
  /\ op.dir = "w2b" /\ p.st \in Depositing \cup {"Completed"} => v.deposit = "mined"
  /\ op.dir = "w2b" /\ p.st \in {"Credited", "Completed"} =>
       v.dep \in {"credited", "asked_credited"}

Holds(op, p, v) == Lawful(op, p) /\ WithdrawalTrue(op, p, v) /\ ChainTrue(op, p, v)

-----------------------------------------------------------------------------
(* The journal and the venues.                                              *)
OpType == [route : {"direct", "across"}, dir : {"b2w", "w2b"}, token : Tokens,
           progress : Progress, before : Progress, reopens : Nat, owned : Nat, unindexed : Nat]
JournalType == journal \in Seq(OpType) /\ Len(journal) <= MaxOps

Withdrawals ==
  {<<>>, <<"dead">>} \cup {<<s>> : s \in LiveStates} \cup {<<"dead", s>> : s \in LiveStates}
TxType == [st : TxStates, call : Nat, tries : Nat, mined : {0, 1}]

VenueType ==
  /\ trading \in [Tokens -> Nat] /\ master \in [Tokens -> Nat]
  /\ xfer \in [OpIds -> TransferStates] /\ back \in [OpIds -> TransferStates]
  /\ wd \in [OpIds -> Withdrawals]
  /\ hidden \subseteq OpIds \X Kinds /\ wire \subseteq OpIds \X Kinds
  /\ \A o \in OpIds : LiveOf(wd[o]) # <<>> => <<o, "w">> \notin wire

ChainType ==
  /\ child \in [OpIds -> [Children -> TxType]]
  /\ \A o \in OpIds, c \in Children : child[o][c].mined = 1 <=> child[o][c].st = "mined"
  /\ fill \in [OpIds -> FillStates] /\ dep \in [OpIds -> DepStates]
  /\ \A o \in OpIds : fill[o] # "none" => child[o]["bridge"].st = "mined"
  /\ \A o \in OpIds : dep[o] # "none" => child[o]["deposit"].st = "mined"

\* Nothing happened for an operation that was never asked for.
Untouched ==
  \A o \in OpIds \ DOMAIN journal :
    /\ View(o).x = "none" /\ View(o).b = "none" /\ View(o).live = <<>> /\ View(o).wire = {}
    /\ \A c \in Children : child[o][c].st = "none"

Truthful == \A o \in DOMAIN journal : Holds(journal[o], Claim(journal[o]), View(o))

StagedFor(t) == {o \in DOMAIN journal : journal[o].token = t /\ OnMaster(View(o))}
Accounted == \A t \in Tokens : master[t] = Spare + Cardinality(StagedFor(t))

\* What counting operations and taking the first one rest on.
OpSets ==
  \A S \in SUBSET OpIds :
    /\ Cardinality(S) \in Nat
    /\ \A o \in OpIds \ S : Cardinality(S \cup {o}) = Cardinality(S) + 1
    /\ S # {} => \E o \in S : \A q \in S : o <= q

Facts ==
  /\ JournalType /\ VenueType /\ ChainType /\ Untouched /\ Truthful /\ Accounted /\ OpSets

-----------------------------------------------------------------------------
(* The worker.                                                              *)
Resting == {"idle", "report", "reconcile_credit", "reconcile_nonce", "reconcile_fill"}
Starting == {"down", "start_fill", "start_nonce", "start_reopen", "start_deposit",
             "start_credit", "start_done"}
Sending == {"send_x", "absent_x", "absent_w1", "absent_w2", "retry", "send_w", "absent_r",
            "returned", "send_r", "answer"}
Calling == {"tx", "tx_wait", "tx_done"}
Busy == {"run", "failed"} \cup Sending \cup Calling
Places == Resting \cup Starting \cup Busy
Worker0 ==
  [pc : Places, op : Nat, fresh : BOOLEAN, safe : BOOLEAN, retry : BOOLEAN,
   starting : BOOLEAN, again : BOOLEAN, free : Nat, stale : BOOLEAN,
   ans : {"none", "ok", "refused", "lost"}, why : Reasons \cup {"none", "quote"},
   c : Children \cup {"none"}]
WorkerType == w \in Worker0 /\ w.op <= Len(journal)

\* One operation at a time.
OneActive ==
  /\ \A o, q \in ActiveOps : o = q
  /\ w.pc \in Resting => ActiveOps = {}
  /\ w.pc \in Busy => w.op \in DOMAIN journal /\ ActiveOps \subseteq {w.op}

\* What worker u has made sure of on its way to a request for operation op,
\* of which the venues show v.
Ready(u, op, v) ==
  LET p == op.progress IN
    /\ u.pc \in {"send_x", "absent_x"} => p.st = "Intent" /\ op.dir = "b2w"
    /\ u.pc \in {"absent_w1", "absent_w2"} =>
         \/ p.st = "SubmissionStarted" /\ p.mode # "required"
         \/ p.st = "RetryAuthorized"
    /\ u.pc = "retry" => p.st = "RetryAuthorized"
    /\ u.pc = "send_w" => p.st = "SubmissionStarted" /\ p.mode # "required" /\ Unsent(v)
    /\ u.pc \in {"absent_r", "returned", "send_r"} => p.st = "ReturnStarted"
    /\ u.pc = "answer" =>
         \/ p.st = "Intent" /\ op.dir = "b2w"
         \/ p.st = "ReturnStarted"
         \/ /\ p.st = "SubmissionStarted" /\ p.mode # "required"
            /\ u.ans = "ok" => v.live # <<>>
            /\ u.ans = "refused" => Unsent(v)
SendingOK == Ready(w, Op, View(w.op))

\* And what a wallet transaction in state st is for.
CallFor(u, op, st) ==
  LET p == op.progress IN
    u.pc \in Calling =>
      /\ \/ /\ u.c = "approval" /\ op.route = "across"
            /\ \/ p.st \in {"FundsOnBridge", "ApprovalMined"}
               \/ p.st = "Intent" /\ op.dir = "w2b"
         \/ u.c = "bridge" /\ op.route = "across" /\ p.st = "BridgePrepared"
         \/ /\ u.c = "deposit" /\ op.dir = "w2b"
            /\ p.st = IF op.route = "direct" THEN "Intent" ELSE "AcrossFilled"
      /\ u.pc = "tx_done" => st = "mined"
CallingOK == CallFor(w, Op, Tx.st)

WorkerOK == WorkerType /\ OneActive /\ SendingOK /\ CallingOK
SagaInv == Facts /\ WorkerOK

-----------------------------------------------------------------------------
(* Withdrawals.                                                             *)

\* Before a "dead" record is set aside there is at most one withdrawal; a
\* further one may follow only when there is none.
LEMMA LiveOfIs ==
  \A s \in Withdrawals :
    /\ LiveOf(s) \in {<<>>, <<"processing">>, <<"done">>, <<"failed">>}
    /\ LiveOf(s) = <<>> => /\ Append(s, "processing") \in Withdrawals
                           /\ LiveOf(Append(s, "processing")) = <<"processing">>
    /\ LiveOf(s) \in {<<>>, <<"failed">>} => \A i \in DOMAIN s : s[i] \in {"dead", "failed"}
<1>0. ASSUME NEW r \in LiveStates, NEW s, s = <<"dead", r>> PROVE LiveOf(s) = <<r>>
    BY <1>0 DEF LiveOf
<1> TAKE s \in Withdrawals
<1>1. CASE s = <<>>
    BY <1>1 DEF LiveOf, Withdrawals, LiveStates
<1>2. CASE s = <<"dead">>
    <2>1. LiveOf(s) = <<>>
        <3>1. <<"dead">> \in Seq({"dead"}) /\ Len(<<"dead">>) = 1 /\ <<"dead">> # <<>>
            OBVIOUS
        <3>2. \A t \in Seq({"dead"}) : Len(t) = 1 => Tail(t) \in Seq({"dead"}) /\ Len(Tail(t)) = 0
            OBVIOUS
        <3>3. \A t \in Seq({"dead"}) : Len(t) = 0 => t = <<>>
            OBVIOUS
        <3>4. Tail(<<"dead">>) = <<>>
            BY <3>1, <3>2, <3>3, Zenon
        <3> QED BY <1>2, <3>1, <3>4, Zenon DEF LiveOf
    <2>2. Append(s, "processing") = <<"dead", "processing">>
        <3>1. \A S : \A t \in Seq(S) : \A e \in S :
                /\ Append(t, e) \in Seq(S) /\ Len(Append(t, e)) = Len(t) + 1
                /\ \A i \in 1..Len(t) : Append(t, e)[i] = t[i]
                /\ Append(t, e)[Len(t) + 1] = e
            OBVIOUS
        <3>2. \A u \in Seq({"dead", "processing"}) :
                Len(u) = 2 /\ u[1] = "dead" /\ u[2] = "processing" => u = <<"dead", "processing">>
            OBVIOUS
        <3>3. s \in Seq({"dead", "processing"}) /\ Len(s) = 1 /\ s[1] = "dead"
            BY <1>2
        <3> DEFINE A == {"dead", "processing"}
                   u == Append(s, "processing")
        <3>a. "processing" \in A /\ s \in Seq(A)
            BY <3>3, Zenon
        <3> HIDE DEF A
        <3>4. /\ u \in Seq(A) /\ Len(u) = Len(s) + 1
              /\ \A i \in 1..Len(s) : u[i] = s[i]
              /\ u[Len(s) + 1] = "processing"
            BY <3>1, <3>a, ZenonT(30)
        <3> HIDE DEF u
        <3>5. Len(u) = 2 /\ u[1] = "dead" /\ u[2] = "processing"
            BY <3>3, <3>4
        <3>6. u = <<"dead", "processing">>
            BY <3>2, <3>4, <3>5, Zenon DEF A
        <3> QED BY <3>6, Zenon DEF u
    <2>3. LiveOf(<<"dead", "processing">>) = <<"processing">>
        <3>1. "processing" \in LiveStates
            BY Zenon DEF LiveStates
        <3> QED BY <1>0, <3>1, Zenon
    <2>4. \A i \in DOMAIN s : s[i] \in {"dead", "failed"}
        BY <1>2
    <2>5. <<"dead", "processing">> \in Withdrawals
        BY Zenon DEF Withdrawals, LiveStates
    <2> QED BY <2>1, <2>2, <2>3, <2>4, <2>5, Zenon
<1>3. CASE \E r \in LiveStates : s = <<r>>
    BY <1>3 DEF LiveOf, LiveStates
<1>4. CASE \E r \in LiveStates : s = <<"dead", r>>
    <2> PICK r \in LiveStates : s = <<"dead", r>>
        BY <1>4, Zenon
    <2>1. LiveOf(s) = <<r>>
        BY <1>0, Zenon
    <2>2. r = "failed" => \A i \in DOMAIN s : s[i] \in {"dead", "failed"}
        OBVIOUS
    <2>3. <<r>> # <<>> /\ (<<r>> = <<"failed">> => r = "failed")
        BY Zenon
    <2> QED BY <2>1, <2>2, <2>3, Zenon DEF LiveStates
<1> QED BY <1>1, <1>2, <1>3, <1>4, Zenon DEF Withdrawals

\* The record of a refused Travel Rule request withdrew nothing.
LEMMA LiveOfDead ==
  /\ <<>> \in Withdrawals /\ LiveOf(<<>>) = <<>>
  /\ Append(<<>>, "dead") \in Withdrawals /\ LiveOf(Append(<<>>, "dead")) = <<>>
BY DEF LiveOf, Withdrawals

-----------------------------------------------------------------------------
(* The journal.                                                             *)

\* An append keeps the identity of the operation; a quarantine keeps what
\* the operation claimed, any other record replaces it.
LEMMA AppendedIs ==
  \A op \in OpType : \A next \in Progress :
    /\ Appended(op, next) \in OpType
    /\ Appended(op, next).route = op.route
    /\ Appended(op, next).dir = op.dir
    /\ Appended(op, next).token = op.token
    /\ Appended(op, next).progress = next
    /\ Appended(op, next).before = IF next.st = "Quarantined" THEN op.progress ELSE op.before
<1> TAKE op \in OpType
<1> TAKE next \in Progress
<1> DEFINE left == op.progress.st = "Quarantined" /\ next.st # "Quarantined"
           b == IF next.st = "Quarantined" THEN op.progress ELSE op.before
           r == IF left /\ op.reopens < ReopenCap THEN op.reopens + 1 ELSE op.reopens
           n == IF ApprovedTerminalRetry(op.progress, next) /\ next.q = 0
                THEN op.owned + 1 ELSE op.owned
           u == IF left /\ next.st = "Intent" /\ op.progress.why = "staged_inventory"
                THEN op.unindexed + 1 ELSE op.unindexed
<1>1. b \in Progress
    BY Zenon DEF OpType
<1>2. r \in Nat
    BY DEF OpType
<1>3. n \in Nat
    BY DEF OpType
<1>4. u \in Nat
    BY DEF OpType
<1>5. Appended(op, next) = [op EXCEPT !.progress = next, !.before = b, !.reopens = r,
                                      !.owned = n, !.unindexed = u]
    BY Zenon DEF Appended, OpType
<1> HIDE DEF b, r, n, u, left
<1>6. Appended(op, next) = [route |-> op.route, dir |-> op.dir, token |-> op.token,
                            progress |-> next, before |-> b, reopens |-> r,
                            owned |-> n, unindexed |-> u]
    BY <1>5, Zenon DEF OpType
<1>7. Appended(op, next) \in OpType
    BY <1>1, <1>2, <1>3, <1>4, <1>6 DEF OpType
<1>8. Appended(op, next).before = b
    BY <1>6
<1> QED BY <1>6, <1>7, <1>8 DEF b

\* Progress records are progress records.
LEMMA ProgressIs ==
  /\ \A st \in States : P(st) \in Progress /\ P(st).st = st /\ P(st).why = "none"
  /\ \A mode \in Modes : \A q \in {0, 1} :
       /\ Started(mode, q) \in Progress /\ Started(mode, q).st = "SubmissionStarted"
       /\ Started(mode, q).mode = mode /\ Started(mode, q).q = q
  /\ \A mode \in Modes : \A n \in Nat :
       /\ RetryAuthorized(mode, n) \in Progress
       /\ RetryAuthorized(mode, n).st = "RetryAuthorized"
       /\ RetryAuthorized(mode, n).mode = mode
  /\ \A q \in {0, 1} : ReturnStarted(q) \in Progress /\ ReturnStarted(q).st = "ReturnStarted"
  /\ \A n \in Nat : BridgePrepared(n) \in Progress /\ BridgePrepared(n).st = "BridgePrepared"
  /\ \A why \in Reasons : /\ Failed(why) \in Progress /\ Failed(why).st = "Failed"
                          /\ Failed(why).why = why
  /\ \A why \in Reasons : Quarantined(why) \in Progress /\ Quarantined(why).st = "Quarantined"
<1>1. \A st \in States : P(st) \in Progress /\ P(st).st = st /\ P(st).why = "none"
    BY Zenon DEF P, Progress
<1>2. "SubmissionStarted" \in States /\ "RetryAuthorized" \in States /\ "Failed" \in States
      /\ "ReturnStarted" \in States /\ "BridgePrepared" \in States /\ "Quarantined" \in States
    BY Zenon DEF States
<1>3. \A mode \in Modes : \A q \in {0, 1} :
       /\ Started(mode, q) \in Progress /\ Started(mode, q).st = "SubmissionStarted"
       /\ Started(mode, q).mode = mode /\ Started(mode, q).q = q
    BY <1>2, Zenon DEF Started, P, Progress
<1>4. \A mode \in Modes : \A n \in Nat :
       /\ RetryAuthorized(mode, n) \in Progress
       /\ RetryAuthorized(mode, n).st = "RetryAuthorized"
       /\ RetryAuthorized(mode, n).mode = mode
    BY <1>2, Zenon DEF RetryAuthorized, P, Progress
<1>5. \A q \in {0, 1} : ReturnStarted(q) \in Progress /\ ReturnStarted(q).st = "ReturnStarted"
    BY <1>2, Zenon DEF ReturnStarted, P, Progress
<1>6. \A n \in Nat : BridgePrepared(n) \in Progress /\ BridgePrepared(n).st = "BridgePrepared"
    BY <1>2, Zenon DEF BridgePrepared, P, Progress
<1>7. \A why \in Reasons : /\ Failed(why) \in Progress /\ Failed(why).st = "Failed"
                           /\ Failed(why).why = why
    BY <1>2, Zenon DEF Failed, P, Progress
<1>8. \A why \in Reasons : Quarantined(why) \in Progress /\ Quarantined(why).st = "Quarantined"
    BY <1>2, Zenon DEF Quarantined, P, Progress
<1> QED BY <1>1, <1>3, <1>4, <1>5, <1>6, <1>7, <1>8, Zenon

-----------------------------------------------------------------------------
(* Steps of the journal.                                                    *)

\* A step that leaves what the venues did with every operation.
Still ==
  /\ VenueType' /\ ChainType' /\ master' = master
  /\ \A q \in OpIds : View(q)' = View(q) /\ child'[q] = child[q]

\* The other operations are the same.
SameOps(o) ==
  /\ journal' \in Seq(OpType) /\ Len(journal') = Len(journal)
  /\ DOMAIN journal' = DOMAIN journal
  /\ \A q \in DOMAIN journal : q # o => journal'[q] = journal[q]

Became(o, next) ==
  /\ journal'[o].progress = next
  /\ journal'[o].route = journal[o].route
  /\ journal'[o].dir = journal[o].dir
  /\ journal'[o].token = journal[o].token

\* The operations of the journal are among those the model counts.
LEMMA OpsAre ==
  JournalType => /\ DOMAIN journal = 1..Len(journal) /\ Len(journal) \in Nat
                 /\ DOMAIN journal \subseteq OpIds
                 /\ \A o \in DOMAIN journal : journal[o] \in OpType
<1> HAVE JournalType
<1>1. DOMAIN journal = 1..Len(journal) /\ Len(journal) \in Nat
    BY DEF JournalType
<1>2. DOMAIN journal \subseteq OpIds
    BY <1>1, SagaAssumption DEF JournalType, OpIds
<1>3. \A o \in DOMAIN journal : journal[o] \in OpType
    BY <1>1 DEF JournalType
<1> QED BY <1>1, <1>2, <1>3, Zenon

\* The fields of a view.
LEMMA ViewIs ==
  \A o : /\ View(o).x = xfer[o] /\ View(o).b = back[o] /\ View(o).live = LiveOf(wd[o])
         /\ View(o).bridge = child[o]["bridge"].st /\ View(o).deposit = child[o]["deposit"].st
         /\ View(o).fill = fill[o] /\ View(o).dep = dep[o]
         /\ \A k \in Kinds : k \in View(o).wire <=> <<o, k>> \in wire
BY Zenon DEF View

\* The types of a view's fields; a withdrawal that was accepted is not on
\* the wire as well.
LEMMA ViewType ==
  VenueType /\ ChainType =>
    \A o \in OpIds :
      /\ View(o).x \in TransferStates /\ View(o).b \in TransferStates
      /\ View(o).live \in {<<>>, <<"processing">>, <<"done">>, <<"failed">>}
      /\ View(o).bridge \in TxStates /\ View(o).deposit \in TxStates
      /\ View(o).fill \in FillStates /\ View(o).dep \in DepStates
      /\ View(o).live # <<>> => "w" \notin View(o).wire
<1> HAVE VenueType /\ ChainType
<1> TAKE o \in OpIds
<1>1. wd[o] \in Withdrawals
    BY Zenon DEF VenueType
<1>2. View(o).live \in {<<>>, <<"processing">>, <<"done">>, <<"failed">>}
    BY <1>1, LiveOfIs, ViewIs, Zenon
<1>3. View(o).live # <<>> => "w" \notin View(o).wire
    <2>1. LiveOf(wd[o]) # <<>> => <<o, "w">> \notin wire
        BY Zenon DEF VenueType
    <2>2. "w" \in Kinds
        BY Zenon DEF Kinds
    <2> QED BY <2>1, <2>2, ViewIs, Zenon
<1>4. View(o).x \in TransferStates /\ View(o).b \in TransferStates
    BY ViewIs DEF VenueType
<1>5. View(o).fill \in FillStates /\ View(o).dep \in DepStates
    BY ViewIs, Zenon DEF ChainType
<1>6. View(o).bridge \in TxStates /\ View(o).deposit \in TxStates
    <2>1. child[o]["bridge"] \in TxType /\ child[o]["deposit"] \in TxType
        BY Zenon DEF ChainType, Children
    <2> QED BY <2>1, ViewIs, Zenon DEF TxType
<1> QED BY <1>2, <1>3, <1>4, <1>5, <1>6, Zenon

\* A step of the worker that does not touch the venues leaves the views.
LEMMA StillStep == Facts /\ UNCHANGED <<venue, chain>> => Still
<1> HAVE Facts /\ UNCHANGED <<venue, chain>>
<1>1. /\ trading' = trading /\ master' = master /\ xfer' = xfer /\ back' = back
      /\ wd' = wd /\ hidden' = hidden /\ wire' = wire
      /\ child' = child /\ fill' = fill /\ dep' = dep
    BY Zenon DEF venue, chain
<1>2. VenueType'
    BY <1>1, Zenon DEF Facts, VenueType
<1>3. ChainType'
    BY <1>1, Zenon DEF Facts, ChainType
<1>4. \A q \in OpIds : View(q)' = View(q)
    BY <1>1, Zenon DEF View
<1> QED BY <1>1, <1>2, <1>3, <1>4, Zenon DEF Still

\* Records that tell the truth about the venues keep the facts.
LEMMA FactsMove ==
  /\ Facts /\ Still
  /\ journal' \in Seq(OpType) /\ Len(journal') = Len(journal)
  /\ \A q \in DOMAIN journal : /\ journal'[q].token = journal[q].token
                               /\ Holds(journal'[q], Claim(journal'[q]), View(q))
  => Facts'
<1> SUFFICES ASSUME Facts, Still, journal' \in Seq(OpType), Len(journal') = Len(journal),
                    \A q \in DOMAIN journal :
                       /\ journal'[q].token = journal[q].token
                       /\ Holds(journal'[q], Claim(journal'[q]), View(q))
             PROVE  Facts'
    BY Zenon
<1>1. DOMAIN journal' = DOMAIN journal
    BY DEF Facts, JournalType
<1>2. DOMAIN journal \subseteq OpIds
    BY OpsAre, Zenon DEF Facts
<1>3. \A q \in OpIds : View(q)' = View(q) /\ child'[q] = child[q]
    BY Zenon DEF Still
<1>4. JournalType'
    BY Zenon DEF Facts, JournalType
<1>5. Untouched'
    BY <1>1, <1>3 DEF Facts, Untouched
<1>6. Truthful'
    <2> SUFFICES ASSUME NEW q \in DOMAIN journal
                 PROVE  Holds(journal'[q], Claim(journal'[q]), View(q)')
        BY <1>1, Zenon DEF Truthful
    <2> QED BY <1>2, <1>3, Zenon
<1>7. Accounted'
    <2>1. \A t : StagedFor(t)' = StagedFor(t)
        <3> TAKE t
        <3>1. \A q \in DOMAIN journal :
                (journal'[q].token = t /\ OnMaster(View(q)')) <=>
                (journal[q].token = t /\ OnMaster(View(q)))
            BY <1>2, <1>3, Zenon
        <3> QED BY <1>1, <3>1, Zenon DEF StagedFor
    <2>2. master' = master
        BY Zenon DEF Still
    <2> QED BY <2>1, <2>2, Zenon DEF Facts, Accounted
<1>8. OpSets'
    BY Zenon DEF Facts, OpSets, OpIds
<1> QED BY <1>4, <1>5, <1>6, <1>7, <1>8, Zenon DEF Facts, Still

\* What a claim says depends on the route and the direction only.
LEMMA HoldsCarries ==
  \A op, op2, p, v :
    op2.route = op.route /\ op2.dir = op.dir /\ Holds(op, p, v) => Holds(op2, p, v)
BY DEF Holds, Lawful, WithdrawalTrue, ChainTrue

\* An appended record that tells the truth keeps the facts.
LEMMA AppendStep ==
  \A o \in DOMAIN journal : \A next \in Progress :
    /\ Facts /\ Still
    /\ journal' = [journal EXCEPT ![o] = Appended(@, next)]
    /\ next.st # "Quarantined" /\ Holds(journal[o], next, View(o))
    => Facts' /\ SameOps(o) /\ Became(o, next)
<1> SUFFICES ASSUME NEW o \in DOMAIN journal, NEW next \in Progress, Facts, Still,
                    journal' = [journal EXCEPT ![o] = Appended(@, next)],
                    next.st # "Quarantined", Holds(journal[o], next, View(o))
             PROVE  Facts' /\ SameOps(o) /\ Became(o, next)
    BY Zenon
<1> DEFINE op2 == Appended(journal[o], next)
<1>1. JournalType /\ journal \in Seq(OpType)
    BY Zenon DEF Facts, JournalType
<1>2. journal[o] \in OpType
    BY <1>1, OpsAre, Zenon
<1>3. /\ op2 \in OpType /\ op2.route = journal[o].route /\ op2.dir = journal[o].dir
      /\ op2.token = journal[o].token /\ op2.progress = next
    BY <1>2, AppendedIs, Zenon
<1>4. journal' = [journal EXCEPT ![o] = op2]
    BY Zenon
<1> HIDE DEF op2
<1>5. journal' \in Seq(OpType) /\ Len(journal') = Len(journal) /\ DOMAIN journal' = DOMAIN journal
    BY <1>1, <1>3, <1>4
<1>6. journal'[o] = op2 /\ \A q \in DOMAIN journal : q # o => journal'[q] = journal[q]
    BY <1>1, <1>4, Zenon
<1>7. Claim(op2) = next
    BY <1>3, Zenon DEF Claim
<1>8. Holds(op2, next, View(o))
    BY <1>3, HoldsCarries, Zenon
<1>9. ASSUME NEW q \in DOMAIN journal
      PROVE  /\ journal'[q].token = journal[q].token
             /\ Holds(journal'[q], Claim(journal'[q]), View(q))
    <2>1. CASE q = o
        BY <1>3, <1>6, <1>7, <1>8, <2>1, Zenon
    <2>2. CASE q # o
        <3>1. Holds(journal[q], Claim(journal[q]), View(q))
            BY Zenon DEF Facts, Truthful
        <3> QED BY <1>6, <2>2, <3>1, Zenon
    <2> QED BY <2>1, <2>2, Zenon
<1>10. Facts'
    BY <1>5, <1>9, FactsMove, Zenon
<1>11. SameOps(o)
    BY <1>5, <1>6, Zenon DEF SameOps
<1>12. Became(o, next)
    BY <1>3, <1>6, Zenon DEF Became
<1> QED BY <1>10, <1>11, <1>12, Zenon

-----------------------------------------------------------------------------
(* Steps of the worker.                                                     *)

\* Moving on, failing and entering an operation are worker states.
LEMMA StepIs ==
  w \in Worker0 =>
    /\ \A pc \in Places :
         /\ Step(pc) \in Worker0
         /\ Step(pc).pc = pc /\ Step(pc).op = w.op /\ Step(pc).ans = "none"
         /\ Step(pc).c = IF pc \in {"tx_wait", "tx_done"} THEN w.c ELSE "none"
    /\ \A why \in Reasons \cup {"quote"} :
         LET f == [Step("failed") EXCEPT !.why = why] IN
           f \in Worker0 /\ f.pc = "failed" /\ f.op = w.op
    /\ \A o \in Nat, fresh \in BOOLEAN, p \in Progress :
         LET e == Enter(o, fresh, p) IN e \in Worker0 /\ e.pc = "run" /\ e.op = o
<1> HAVE w \in Worker0
<1>1. ASSUME NEW pc \in Places
      PROVE  /\ Step(pc) \in Worker0
             /\ Step(pc).pc = pc /\ Step(pc).op = w.op /\ Step(pc).ans = "none"
             /\ Step(pc).c = IF pc \in {"tx_wait", "tx_done"} THEN w.c ELSE "none"
    <2> DEFINE c == IF pc \in {"tx_wait", "tx_done"} THEN w.c ELSE "none"
    <2>1. c \in Children \cup {"none"}
        BY Zenon DEF Worker0
    <2>2. Step(pc) = [pc |-> pc, op |-> w.op, fresh |-> w.fresh, safe |-> w.safe,
                      retry |-> FALSE, starting |-> w.starting, again |-> w.again, free |-> 0,
                      stale |-> FALSE, ans |-> "none", why |-> w.why, c |-> c]
        <3>1. Step(pc) = [w EXCEPT !.pc = pc, !.free = 0, !.stale = FALSE, !.ans = "none",
                                   !.retry = FALSE, !.c = c]
            BY Zenon DEF Step, Worker0
        <3> HIDE DEF c
        <3> QED BY <3>1, Zenon DEF Worker0
    <2> HIDE DEF c
    <2>3. Step(pc) \in Worker0
        BY <2>1, <2>2 DEF Worker0
    <2>4. Step(pc).pc = pc /\ Step(pc).op = w.op /\ Step(pc).ans = "none" /\ Step(pc).c = c
        BY <2>2
    <2> QED BY <2>3, <2>4, Zenon DEF c
<1>2. ASSUME NEW why \in Reasons \cup {"quote"}
      PROVE  LET f == [Step("failed") EXCEPT !.why = why] IN
               f \in Worker0 /\ f.pc = "failed" /\ f.op = w.op
    <2> DEFINE s == Step("failed")
    <2>1. s \in Worker0 /\ s.pc = "failed" /\ s.op = w.op
        <3>1. "failed" \in Places
            BY Zenon DEF Places, Busy
        <3> QED BY <1>1, <3>1, Zenon
    <2> HIDE DEF s
    <2> DEFINE f == [s EXCEPT !.why = why]
    <2>2. f \in Worker0 /\ f.pc = "failed" /\ f.op = w.op
        BY <2>1, Zenon DEF Worker0
    <2> QED BY <2>2, Zenon DEF s
<1>3. ASSUME NEW o \in Nat, NEW fresh \in BOOLEAN, NEW p \in Progress
      PROVE  LET e == Enter(o, fresh, p) IN e \in Worker0 /\ e.pc = "run" /\ e.op = o
    <2> DEFINE safe == fresh \/ p.st \in {"Intent", "TransferSubmitted"}
    <2>1. safe \in BOOLEAN
        BY Zenon
    <2>2. Enter(o, fresh, p) = [w EXCEPT !.pc = "run", !.op = o, !.fresh = fresh,
                                         !.why = "none", !.safe = safe]
        BY Zenon DEF Enter
    <2> HIDE DEF safe
    <2>3. Enter(o, fresh, p) = [pc |-> "run", op |-> o, fresh |-> fresh, safe |-> safe,
             retry |-> w.retry, starting |-> w.starting, again |-> w.again, free |-> w.free,
             stale |-> w.stale, ans |-> w.ans, why |-> "none", c |-> w.c]
        BY <2>2, Zenon DEF Worker0
    <2>4. Enter(o, fresh, p) \in Worker0
        BY <2>1, <2>3 DEF Worker0, Places, Busy
    <2> QED BY <2>3, <2>4
<1> QED BY <1>1, <1>2, <1>3, Zenon

\* A step of a busy worker on its own operation.
LEMMA BusyStep ==
  /\ SagaInv /\ w.pc \in Busy /\ SameOps(w.op)
  /\ w' \in Worker0 /\ w'.op = w.op /\ w'.pc \in Busy
  => WorkerType' /\ OneActive'
<1> SUFFICES ASSUME SagaInv, w.pc \in Busy, SameOps(w.op),
                    w' \in Worker0, w'.op = w.op, w'.pc \in Busy
             PROVE  WorkerType' /\ OneActive'
    BY Zenon
<1>1. WorkerType'
    BY Zenon DEF SagaInv, WorkerOK, WorkerType, SameOps
<1>2. ActiveOps \subseteq {w.op} /\ w.op \in DOMAIN journal
    BY Zenon DEF SagaInv, WorkerOK, OneActive
<1>3. ActiveOps' \subseteq {w.op} /\ w'.op \in DOMAIN journal'
    BY <1>2, Zenon DEF SameOps, ActiveOps
<1>4. w'.pc \notin Resting
    BY Zenon DEF Busy, Resting, Sending, Calling
<1> QED BY <1>1, <1>3, <1>4, Zenon DEF OneActive

\* Where nothing is asked of the worker but its operation.
LEMMA QuietPlaces ==
  w'.pc \notin Sending \cup Calling => SendingOK' /\ CallingOK'
<1> HAVE w'.pc \notin Sending \cup Calling
<1>1. SendingOK'
    BY Zenon DEF SendingOK, Ready, Sending
<1>2. CallingOK'
    BY Zenon DEF CallingOK, CallFor
<1> QED BY <1>1, <1>2, Zenon

\* A step that fails without a record.
LEMMA FailStep ==
  \A why \in Reasons \cup {"quote"} :
    /\ SagaInv /\ w.pc \in Busy /\ Still /\ Fail(why) /\ UNCHANGED journal
    => SagaInv'
<1> SUFFICES ASSUME NEW why \in Reasons \cup {"quote"}, SagaInv, w.pc \in Busy, Still,
                    Fail(why), UNCHANGED journal
             PROVE  SagaInv'
    BY Zenon
<1>1. Facts /\ w \in Worker0 /\ JournalType
    BY Zenon DEF SagaInv, Facts, WorkerOK, WorkerType
<1>2. w' \in Worker0 /\ w'.pc = "failed" /\ w'.op = w.op
    BY <1>1, StepIs, Zenon DEF Fail
<1>3. Facts'
    <2>1. journal' \in Seq(OpType) /\ Len(journal') = Len(journal)
        BY <1>1, Zenon DEF JournalType
    <2>2. \A q \in DOMAIN journal : /\ journal'[q].token = journal[q].token
                                    /\ Holds(journal'[q], Claim(journal'[q]), View(q))
        BY <1>1, Zenon DEF Facts, Truthful
    <2> QED BY <1>1, <2>1, <2>2, FactsMove, Zenon
<1>4. SameOps(w.op)
    BY <1>1, Zenon DEF SameOps, JournalType
<1>5. w'.pc \in Busy /\ w'.pc \notin Sending \cup Calling
    BY <1>2, Zenon DEF Busy, Sending, Calling
<1>6. WorkerType' /\ OneActive'
    BY <1>2, <1>4, <1>5, BusyStep, Zenon
<1> QED BY <1>3, <1>5, <1>6, QuietPlaces, Zenon DEF SagaInv, WorkerOK

\* A step that moves on without a record, to a place of its operation.
LEMMA GotoStep ==
  /\ SagaInv /\ w.pc \in Busy /\ Still /\ UNCHANGED journal
  /\ w' \in Worker0 /\ w'.op = w.op /\ w'.pc \in Busy
  => Facts' /\ WorkerType' /\ OneActive'
<1> SUFFICES ASSUME SagaInv, w.pc \in Busy, Still, UNCHANGED journal,
                    w' \in Worker0, w'.op = w.op, w'.pc \in Busy
             PROVE  Facts' /\ WorkerType' /\ OneActive'
    BY Zenon
<1>1. Facts /\ JournalType
    BY Zenon DEF SagaInv, Facts
<1>2. Facts'
    <2>1. journal' \in Seq(OpType) /\ Len(journal') = Len(journal)
        BY <1>1, Zenon DEF JournalType
    <2>2. \A q \in DOMAIN journal : /\ journal'[q].token = journal[q].token
                                    /\ Holds(journal'[q], Claim(journal'[q]), View(q))
        BY <1>1, Zenon DEF Facts, Truthful
    <2> QED BY <1>1, <2>1, <2>2, FactsMove, Zenon
<1>3. SameOps(w.op)
    BY <1>1, Zenon DEF SameOps, JournalType
<1> QED BY <1>2, <1>3, BusyStep, Zenon

\* A record and a place, or the error of a record the journal refuses.
LEMMA AdvanceStep ==
  \A next \in Progress : \A pc \in Busy :
    /\ SagaInv /\ w.pc \in Busy /\ Still /\ Advance(next, pc)
    /\ next.st # "Quarantined" /\ Holds(Op, next, View(w.op))
    => /\ Facts' /\ WorkerType' /\ OneActive'
       /\ w'.op = w.op
       /\ \/ w'.pc = "failed"
          \/ w'.pc = pc /\ w'.ans = "none" /\ Became(w.op, next)
<1> SUFFICES ASSUME NEW next \in Progress, NEW pc \in Busy, SagaInv, w.pc \in Busy, Still,
                    Advance(next, pc), next.st # "Quarantined", Holds(Op, next, View(w.op))
             PROVE  /\ Facts' /\ WorkerType' /\ OneActive'
                    /\ w'.op = w.op
                    /\ \/ w'.pc = "failed"
                       \/ w'.pc = pc /\ w'.ans = "none" /\ Became(w.op, next)
    BY Zenon
<1>1. Facts /\ w \in Worker0 /\ w.op \in DOMAIN journal /\ pc \in Places
    BY Zenon DEF SagaInv, WorkerOK, WorkerType, OneActive, Places
<1>2. CASE CanAdvance(Op, next)
    <2>1. journal' = [journal EXCEPT ![w.op] = Appended(@, next)] /\ w' = Step(pc)
        BY <1>2, Zenon DEF Advance, Goto
    <2>2. w' \in Worker0 /\ w'.pc = pc /\ w'.op = w.op /\ w'.ans = "none"
        BY <1>1, <2>1, StepIs, Zenon
    <2>3. Facts' /\ SameOps(w.op) /\ Became(w.op, next)
        BY <1>1, <2>1, AppendStep, Zenon DEF Op
    <2> QED BY <2>2, <2>3, BusyStep, Zenon
<1>3. CASE ~CanAdvance(Op, next)
    <2>1. Fail("illegal_transition") /\ UNCHANGED journal
        BY <1>3, Zenon DEF Advance
    <2>2. "illegal_transition" \in Reasons \cup {"quote"}
        BY Zenon DEF Reasons
    <2>3. SagaInv'
        BY <2>1, <2>2, FailStep, Zenon
    <2>4. w'.pc = "failed" /\ w'.op = w.op
        BY <1>1, <2>1, <2>2, StepIs, Zenon DEF Fail
    <2> QED BY <2>3, <2>4, Zenon DEF SagaInv, WorkerOK
<1> QED BY <1>2, <1>3, Zenon

\* The same, when the step leads back to the top of the operation.
LEMMA AdvanceRun ==
  \A next \in Progress :
    /\ SagaInv /\ w.pc \in Busy /\ Still /\ Advance(next, "run")
    /\ next.st # "Quarantined" /\ Holds(Op, next, View(w.op))
    => SagaInv'
<1> SUFFICES ASSUME NEW next \in Progress, SagaInv, w.pc \in Busy, Still,
                    Advance(next, "run"), next.st # "Quarantined", Holds(Op, next, View(w.op))
             PROVE  SagaInv'
    BY Zenon
<1>1. "run" \in Busy
    BY Zenon DEF Busy
<1>2. Facts' /\ WorkerType' /\ OneActive' /\ (w'.pc = "failed" \/ w'.pc = "run")
    BY <1>1, AdvanceStep, Zenon
<1>3. w'.pc \notin Sending \cup Calling
    BY <1>2, Zenon DEF Sending, Calling
<1> QED BY <1>2, <1>3, QuietPlaces, Zenon DEF SagaInv, WorkerOK

\* A failure that is recorded.
LEMMA AdvanceFailedStep ==
  \A why \in Reasons :
    /\ SagaInv /\ w.pc \in Busy /\ Still /\ AdvanceFailed(why)
    /\ Holds(Op, Failed(why), View(w.op))
    => SagaInv'
<1> SUFFICES ASSUME NEW why \in Reasons, SagaInv, w.pc \in Busy, Still, AdvanceFailed(why),
                    Holds(Op, Failed(why), View(w.op))
             PROVE  SagaInv'
    BY Zenon
<1>1. Facts /\ w \in Worker0 /\ w.op \in DOMAIN journal
    BY Zenon DEF SagaInv, WorkerOK, WorkerType, OneActive
<1>2. Failed(why) \in Progress /\ Failed(why).st # "Quarantined"
    BY ProgressIs, Zenon
<1>3. journal' = [journal EXCEPT ![w.op] = Appended(@, Failed(why))]
    BY Zenon DEF AdvanceFailed
<1>4. Facts' /\ SameOps(w.op)
    BY <1>1, <1>2, <1>3, AppendStep, Zenon DEF Op
<1>5. w' \in Worker0 /\ w'.pc = "failed" /\ w'.op = w.op
    BY <1>1, StepIs, Zenon DEF AdvanceFailed, Fail
<1>6. w'.pc \in Busy /\ w'.pc \notin Sending \cup Calling
    BY <1>5, Zenon DEF Busy, Sending, Calling
<1> QED BY <1>4, <1>5, <1>6, BusyStep, QuietPlaces, Zenon DEF SagaInv, WorkerOK

\* The operation of a busy worker.
LEMMA OpIs ==
  SagaInv /\ w.pc \in Busy =>
    /\ w.op \in DOMAIN journal /\ w.op \in OpIds /\ w \in Worker0
    /\ Op \in OpType /\ Now \in Progress /\ Op.token \in Tokens
    /\ Now.st # "Quarantined" => Holds(Op, Now, View(w.op))
    /\ View(w.op).x \in TransferStates /\ View(w.op).b \in TransferStates
    /\ View(w.op).live \in {<<>>, <<"processing">>, <<"done">>, <<"failed">>}
    /\ View(w.op).live # <<>> => "w" \notin View(w.op).wire
<1> HAVE SagaInv /\ w.pc \in Busy
<1>1. w.op \in DOMAIN journal /\ w \in Worker0
    BY Zenon DEF SagaInv, WorkerOK, WorkerType, OneActive
<1>2. JournalType /\ VenueType /\ ChainType /\ Truthful
    BY Zenon DEF SagaInv, Facts
<1>3. w.op \in OpIds /\ Op \in OpType
    BY <1>1, <1>2, OpsAre, Zenon DEF Op
<1>4. Now \in Progress /\ Op.token \in Tokens
    BY <1>3, Zenon DEF Now, OpType
<1>5. Now.st # "Quarantined" => Holds(Op, Now, View(w.op))
    BY <1>1, <1>2, Zenon DEF Truthful, Claim, Op, Now
<1> QED BY <1>1, <1>2, <1>3, <1>4, <1>5, ViewType, Zenon

\* The worker's operation looks the same while the venues stand still.
LEMMA ViewStays ==
  Still /\ w.op \in OpIds /\ w'.op = w.op => View(w.op)' = View(w.op)
BY Zenon DEF Still, View

\* A worker that moves on without a record, to a place that needs no more
\* than it has made sure of.
LEMMA GotoReady ==
  /\ SagaInv /\ w.pc \in Busy /\ Still /\ UNCHANGED journal
  /\ w' \in Worker0 /\ w'.op = w.op /\ w'.pc \in Busy \ Calling
  /\ Ready(w', Op, View(w.op))
  => SagaInv'
<1> SUFFICES ASSUME SagaInv, w.pc \in Busy, Still, UNCHANGED journal,
                    w' \in Worker0, w'.op = w.op, w'.pc \in Busy \ Calling,
                    Ready(w', Op, View(w.op))
             PROVE  SagaInv'
    BY Zenon
<1>1. Facts' /\ WorkerType' /\ OneActive'
    BY GotoStep, Zenon
<1>2. View(w.op)' = View(w.op)
    BY OpIs, ViewStays, Zenon
<1>3. Op' = Op
    BY Zenon DEF Op
<1>4. SendingOK'
    BY <1>2, <1>3, Zenon DEF SendingOK
<1>5. CallingOK'
    BY Zenon DEF CallingOK, CallFor
<1> QED BY <1>1, <1>4, <1>5, Zenon DEF SagaInv, WorkerOK

\* A worker that records its progress and moves on.
LEMMA AdvanceReady ==
  \A next \in Progress : \A pc \in Busy \ Calling :
    /\ SagaInv /\ w.pc \in Busy /\ Still /\ Advance(next, pc)
    /\ next.st # "Quarantined" /\ Holds(Op, next, View(w.op))
    /\ \A u, op2 : /\ u.pc = pc /\ u.ans = "none"
                   /\ op2.progress = next /\ op2.dir = Op.dir
                   => Ready(u, op2, View(w.op))
    => SagaInv'
<1> SUFFICES ASSUME NEW next \in Progress, NEW pc \in Busy \ Calling, SagaInv, w.pc \in Busy,
                    Still, Advance(next, pc), next.st # "Quarantined",
                    Holds(Op, next, View(w.op)),
                    \A u, op2 : /\ u.pc = pc /\ u.ans = "none"
                                /\ op2.progress = next /\ op2.dir = Op.dir
                                => Ready(u, op2, View(w.op))
             PROVE  SagaInv'
    BY Zenon
<1>0. pc \in Busy /\ pc \notin Calling
    BY Zenon
<1>1. /\ Facts' /\ WorkerType' /\ OneActive'
      /\ w'.op = w.op
      /\ \/ w'.pc = "failed"
         \/ w'.pc = pc /\ w'.ans = "none" /\ Became(w.op, next)
    BY <1>0, AdvanceStep, Zenon
<1>2. CASE w'.pc = "failed"
    <2>1. w'.pc \notin Sending \cup Calling
        BY <1>2, Zenon DEF Sending, Calling
    <2> QED BY <1>1, <2>1, QuietPlaces, Zenon DEF SagaInv, WorkerOK
<1>3. CASE w'.pc = pc /\ w'.ans = "none" /\ Became(w.op, next)
    <2>1. View(w.op)' = View(w.op)
        BY <1>1, OpIs, ViewStays, Zenon
    <2>2. Op'.progress = next /\ Op'.dir = Op.dir
        BY <1>1, <1>3, Zenon DEF Became, Op
    <2>3. SendingOK'
        BY <1>3, <2>1, <2>2, Zenon DEF SendingOK
    <2>4. CallingOK'
        BY <1>0, <1>3, Zenon DEF CallingOK, CallFor
    <2> QED BY <1>1, <2>3, <2>4, Zenon DEF SagaInv, WorkerOK
<1> QED BY <1>1, <1>2, <1>3, Zenon

-----------------------------------------------------------------------------
(* The staged transfer to the master account.                               *)

\* A withdrawal starts with the transfer to the master account, unless a
\* record of it is found.
LEMMA BeginMasterTransfer == SagaInv /\ begin_master_transfer => SagaInv'
<1> SUFFICES ASSUME SagaInv, begin_master_transfer PROVE SagaInv'
    BY Zenon
<1>1. /\ w.pc = "run" /\ Now.st = "Intent" /\ Op.dir = "b2w" /\ UNCHANGED <<venue, chain>>
      /\ \/ Advance(P("TransferSubmitted"), "run")
         \/ Goto("send_x") /\ UNCHANGED journal
         \/ /\ w' = [w EXCEPT !.pc = "absent_x", !.free = master[Op.token],
                              !.stale = trading[Op.token] = 0]
            /\ UNCHANGED journal
    BY Zenon DEF begin_master_transfer, B2W, At, LeavesVenues
<1>2. w.pc \in Busy /\ Still
    BY <1>1, StillStep, Zenon DEF Busy, SagaInv
<1>3. w \in Worker0 /\ Op.token \in Tokens /\ Holds(Op, Now, View(w.op))
    BY <1>1, <1>2, OpIs, Zenon
<1>4. CASE Advance(P("TransferSubmitted"), "run")
    <2>1. /\ P("TransferSubmitted") \in Progress /\ P("TransferSubmitted").st = "TransferSubmitted"
        BY ProgressIs, ZenonT(30) DEF States
    <2>2. Holds(Op, P("TransferSubmitted"), View(w.op))
        BY <1>1, <1>3, <2>1, Zenon DEF Holds, Lawful, WithdrawalTrue, ChainTrue, Staged, Returning, Bridging, Depositing
    <2> QED BY <1>2, <1>4, <2>1, <2>2, AdvanceRun, Zenon
<1>5. CASE Goto("send_x") /\ UNCHANGED journal
    <2>1. "send_x" \in Places /\ "send_x" \in Busy \ Calling
        BY Zenon DEF Places, Busy, Sending, Calling
    <2>2. w' \in Worker0 /\ w'.pc = "send_x" /\ w'.op = w.op
        BY <1>3, <1>5, <2>1, StepIs, Zenon DEF Goto
    <2>3. Ready(w', Op, View(w.op))
        BY <1>1, <2>2, Zenon DEF Ready, Now
    <2> QED BY <1>2, <1>5, <2>1, <2>2, <2>3, GotoReady, Zenon
<1>6. CASE /\ w' = [w EXCEPT !.pc = "absent_x", !.free = master[Op.token],
                             !.stale = trading[Op.token] = 0]
           /\ UNCHANGED journal
    <2>1. "absent_x" \in Places /\ "absent_x" \in Busy \ Calling
        BY Zenon DEF Places, Busy, Sending, Calling
    <2>2. master[Op.token] \in Nat /\ (trading[Op.token] = 0) \in BOOLEAN
        BY <1>3, Zenon DEF SagaInv, Facts, VenueType
    <2>3. w' \in Worker0 /\ w'.pc = "absent_x" /\ w'.op = w.op
        BY <1>3, <1>6, <2>1, <2>2, ZenonT(30) DEF Worker0
    <2>4. Ready(w', Op, View(w.op))
        BY <1>1, <2>3, Zenon DEF Ready, Now
    <2> QED BY <1>2, <1>6, <2>1, <2>3, <2>4, GotoReady, Zenon
<1> QED BY <1>1, <1>4, <1>5, <1>6, Zenon

\* A transfer no history lists is looked for once more before it is sent.
LEMMA ConfirmTransferAbsent ==
  SagaInv /\ confirm_unindexed_master_transfer_absent => SagaInv'
<1> SUFFICES ASSUME SagaInv, confirm_unindexed_master_transfer_absent PROVE SagaInv'
    BY Zenon
<1>1. /\ w.pc = "absent_x" /\ UNCHANGED <<venue, chain>> /\ UNCHANGED journal
      /\ Goto("send_x") \/ Fail("other")
    BY Zenon DEF confirm_unindexed_master_transfer_absent, LeavesVenues
<1>2. w.pc \in Busy /\ Still
    BY <1>1, StillStep, Zenon DEF Busy, Sending, SagaInv
<1>3. w \in Worker0
    BY <1>2, OpIs, Zenon
<1>4. CASE Goto("send_x")
    <2>1. "send_x" \in Places /\ "send_x" \in Busy \ Calling
        BY Zenon DEF Places, Busy, Sending, Calling
    <2>2. w' \in Worker0 /\ w'.pc = "send_x" /\ w'.op = w.op
        BY <1>3, <1>4, <2>1, StepIs, Zenon DEF Goto
    <2>3. Ready(w', Op, View(w.op))
        BY <1>1, <2>2, Zenon DEF Ready, SagaInv, WorkerOK, SendingOK
    <2> QED BY <1>1, <1>2, <2>1, <2>2, <2>3, GotoReady, Zenon
<1>5. CASE Fail("other")
    <2>1. "other" \in Reasons \cup {"quote"}
        BY Zenon DEF Reasons
    <2> QED BY <1>1, <1>2, <1>5, <2>1, FailStep, Zenon
<1> QED BY <1>1, <1>4, <1>5, Zenon

\* Moving on to a place of the operation.
LEMMA GotoPlace ==
  \A pc \in Busy \ Calling :
    /\ SagaInv /\ w.pc \in Busy /\ Still /\ UNCHANGED journal /\ Goto(pc)
    /\ \A u : u.pc = pc => Ready(u, Op, View(w.op))
    => SagaInv'
<1> SUFFICES ASSUME NEW pc \in Busy \ Calling, SagaInv, w.pc \in Busy, Still, UNCHANGED journal,
                    Goto(pc), \A u : u.pc = pc => Ready(u, Op, View(w.op))
             PROVE  SagaInv'
    BY Zenon
<1>1. w \in Worker0 /\ pc \in Places
    BY OpIs, Zenon DEF Places
<1>2. w' \in Worker0 /\ w'.pc = pc /\ w'.op = w.op
    BY <1>1, StepIs, Zenon DEF Goto
<1> QED BY <1>2, GotoReady, Zenon

\* An error without a name of its own.
LEMMA FailOther ==
  SagaInv /\ w.pc \in Busy /\ Still /\ Fail("other") /\ UNCHANGED journal => SagaInv'
<1>1. "other" \in Reasons \cup {"quote"}
    BY Zenon DEF Reasons
<1> QED BY <1>1, FailStep, Zenon

\* A listed withdrawal exists.
LEMMA ListedIs == \A o : /\ Live(o) = View(o).live
                         /\ WithdrawalListed(o) => View(o).live # <<>>
BY Zenon DEF Live, LiveOf, View, WithdrawalListed

\* The answer to the transfer request.
LEMMA TransferAnswered == SagaInv /\ TransferAnswer => SagaInv'
<1> SUFFICES ASSUME SagaInv, TransferAnswer PROVE SagaInv'
    BY Zenon
<1>1. /\ w.pc = "answer" /\ Now.st = "Intent" /\ UNCHANGED <<venue, chain>>
      /\ \/ Advance(P("TransferSubmitted"), "run")
         \/ Fail("other") /\ UNCHANGED journal
    BY Zenon DEF TransferAnswer, At, LeavesVenues
<1>2. w.pc \in Busy /\ Still
    BY <1>1, StillStep, Zenon DEF Busy, Sending, SagaInv
<1>3. Holds(Op, Now, View(w.op))
    BY <1>1, <1>2, OpIs, Zenon
<1>4. Op.dir = "b2w"
    BY <1>1, Zenon DEF SagaInv, WorkerOK, SendingOK, Ready, Now
<1>5. CASE Advance(P("TransferSubmitted"), "run")
    <2>1. P("TransferSubmitted") \in Progress /\ P("TransferSubmitted").st = "TransferSubmitted"
        BY ProgressIs, Zenon DEF States
    <2>2. Holds(Op, P("TransferSubmitted"), View(w.op))
        BY <1>1, <1>3, <1>4, <2>1, Zenon
           DEF Holds, Lawful, WithdrawalTrue, ChainTrue, Staged, Returning, Bridging, Depositing
    <2> QED BY <1>2, <1>5, <2>1, <2>2, AdvanceRun, Zenon
<1> QED BY <1>1, <1>2, <1>5, FailOther, Zenon

\* The staged transfer is complete, or has failed.
LEMMA FinishMasterTransfer == SagaInv /\ finish_master_transfer => SagaInv'
<1> SUFFICES ASSUME SagaInv, finish_master_transfer PROVE SagaInv'
    BY Zenon
<1>1. /\ w.pc = "run" /\ Now.st = "TransferSubmitted" /\ Op.dir = "b2w"
      /\ UNCHANGED <<venue, chain>>
      /\ \/ xfer[w.op] = "success" /\ Advance(P("TransferCompleted"), "run")
         \/ AdvanceFailed("other")
    BY Zenon DEF finish_master_transfer, B2W, At, LeavesVenues
<1>2. w.pc \in Busy /\ Still
    BY <1>1, StillStep, Zenon DEF Busy, SagaInv
<1>3. Holds(Op, Now, View(w.op))
    BY <1>1, <1>2, OpIs, Zenon
<1>4. CASE xfer[w.op] = "success" /\ Advance(P("TransferCompleted"), "run")
    <2>1. P("TransferCompleted") \in Progress /\ P("TransferCompleted").st = "TransferCompleted"
        BY ProgressIs, ZenonT(30) DEF States
    <2>2. View(w.op).x = "success"
        BY <1>4, ViewIs, Zenon
    <2>3. Holds(Op, P("TransferCompleted"), View(w.op))
        BY <1>1, <1>3, <2>1, <2>2, Zenon
           DEF Holds, Lawful, WithdrawalTrue, ChainTrue, Staged, Returning, Bridging, Depositing
    <2> QED BY <1>2, <1>4, <2>1, <2>3, AdvanceRun, Zenon
<1>5. CASE AdvanceFailed("other")
    <2>1. "other" \in Reasons /\ Failed("other").st = "Failed" /\ Failed("other").why = "other"
        BY ProgressIs, Zenon DEF Reasons
    <2>2. Holds(Op, Failed("other"), View(w.op))
        BY <1>1, <1>3, <2>1, Zenon
           DEF Holds, Lawful, WithdrawalTrue, ChainTrue, Staged, Returning, Bridging, Depositing, Unsent
    <2> QED BY <1>2, <1>5, <2>1, <2>2, AdvanceFailedStep, Zenon
<1> QED BY <1>1, <1>4, <1>5, Zenon

-----------------------------------------------------------------------------
(* The withdrawal.                                                          *)

\* The first submission is recorded before it is sent.
LEMMA BeginWithdrawal == SagaInv /\ begin_binance_withdrawal => SagaInv'
<1> SUFFICES ASSUME SagaInv, begin_binance_withdrawal PROVE SagaInv'
    BY Zenon
<1>1. /\ w.pc = "run" /\ Now.st = "TransferCompleted" /\ Op.dir = "b2w"
      /\ UNCHANGED <<venue, chain>>
      /\ \/ WithdrawalListed(w.op)
         \/ Advance(Started("standard", 0), "send_w")
         \/ Fail("other") /\ UNCHANGED journal
    BY Zenon DEF begin_binance_withdrawal, B2W, At, LeavesVenues
<1>2. w.pc \in Busy /\ Still
    BY <1>1, StillStep, Zenon DEF Busy, SagaInv
<1>3. Holds(Op, Now, View(w.op))
    BY <1>1, <1>2, OpIs, Zenon
<1>4. Unsent(View(w.op))
    BY <1>1, <1>3, Zenon DEF Holds, WithdrawalTrue, Bridging
<1>5. ~WithdrawalListed(w.op)
    BY <1>4, ListedIs, Zenon DEF Unsent
<1>6. CASE Advance(Started("standard", 0), "send_w")
    <2> DEFINE next == Started("standard", 0)
    <2>1. next \in Progress /\ next.st = "SubmissionStarted" /\ next.mode = "standard"
        BY ProgressIs, Zenon DEF Modes
    <2> HIDE DEF next
    <2>2. Holds(Op, next, View(w.op))
        BY <1>1, <1>3, <1>4, <2>1, Zenon
           DEF Holds, Lawful, WithdrawalTrue, ChainTrue, Staged, Returning, Bridging, Depositing
    <2>3. "send_w" \in Busy \ Calling
        BY Zenon DEF Busy, Sending, Calling
    <2>4. \A u, op2 : /\ u.pc = "send_w" /\ u.ans = "none"
                      /\ op2.progress = next /\ op2.dir = Op.dir
                      => Ready(u, op2, View(w.op))
        BY <1>4, <2>1, Zenon DEF Ready
    <2>5. Advance(next, "send_w")
        BY <1>6, Zenon DEF next
    <2>6. next.st # "Quarantined"
        BY <2>1, Zenon
    <2> QED BY <1>2, <2>1, <2>2, <2>3, <2>4, <2>5, <2>6, AdvanceReady, Zenon
<1> QED BY <1>1, <1>2, <1>5, <1>6, FailOther, Zenon

\* A journaled submission whose outcome is not known: found, submitted in the
\* mode asked for, or about to be reconciled.
LEMMA SubmissionResumed == SagaInv /\ ResumeSubmission => SagaInv'
<1> SUFFICES ASSUME SagaInv, ResumeSubmission PROVE SagaInv'
    BY Zenon
<1>1. /\ w.pc = "run" /\ Now.st = "SubmissionStarted" /\ Op.dir = "b2w"
      /\ UNCHANGED <<venue, chain>>
    BY Zenon DEF ResumeSubmission, B2W, At, LeavesVenues
<1>a. \/ Now.mode = "required" /\ Advance(Started("travel", 0), "send_w")
      \/ /\ WithdrawalListed(w.op)
         /\ \/ Fail("other") /\ UNCHANGED journal
            \/ Advance(P("WithdrawalSubmitted"), "run")
      \/ /\ Now.mode # "required"
         /\ \/ Advance(Started(Now.mode, 1), "absent_w1")
            \/ Goto("absent_w1") /\ UNCHANGED journal
    BY Zenon DEF ResumeSubmission
<1>2. w.pc \in Busy /\ Still
    BY <1>1, StillStep, Zenon DEF Busy, SagaInv
<1>3. Holds(Op, Now, View(w.op)) /\ Now \in Progress
    BY <1>1, <1>2, OpIs, Zenon
<1>4. CASE Now.mode = "required" /\ Advance(Started("travel", 0), "send_w")
    <2> DEFINE next == Started("travel", 0)
    <2>1. next \in Progress /\ next.st = "SubmissionStarted" /\ next.mode = "travel"
        BY ProgressIs, Zenon DEF Modes
    <2> HIDE DEF next
    <2>2. Unsent(View(w.op))
        BY <1>1, <1>3, <1>4, Zenon DEF Holds, WithdrawalTrue
    <2>3. Holds(Op, next, View(w.op))
        BY <1>1, <1>3, <2>1, <2>2, Zenon
           DEF Holds, Lawful, WithdrawalTrue, ChainTrue, Staged, Returning, Bridging, Depositing
    <2>4. "send_w" \in Busy \ Calling
        BY Zenon DEF Busy, Sending, Calling
    <2>5. \A u, op2 : /\ u.pc = "send_w" /\ u.ans = "none"
                      /\ op2.progress = next /\ op2.dir = Op.dir
                      => Ready(u, op2, View(w.op))
        BY <2>1, <2>2, Zenon DEF Ready
    <2>6. Advance(next, "send_w") /\ next.st # "Quarantined"
        BY <1>4, <2>1, Zenon DEF next
    <2> QED BY <1>2, <2>1, <2>3, <2>4, <2>5, <2>6, AdvanceReady, Zenon
<1>5. CASE WithdrawalListed(w.op) /\ Advance(P("WithdrawalSubmitted"), "run")
    <2>1. P("WithdrawalSubmitted") \in Progress /\ P("WithdrawalSubmitted").st = "WithdrawalSubmitted"
        BY ProgressIs, Zenon DEF States
    <2>2. View(w.op).live # <<>>
        BY <1>5, ListedIs, Zenon
    <2>3. Holds(Op, P("WithdrawalSubmitted"), View(w.op))
        BY <1>1, <1>3, <2>1, <2>2, Zenon
           DEF Holds, Lawful, WithdrawalTrue, ChainTrue, Staged, Returning, Bridging, Depositing
    <2> QED BY <1>2, <1>5, <2>1, <2>3, AdvanceRun, Zenon
<1>6. CASE Now.mode # "required" /\ Advance(Started(Now.mode, 1), "absent_w1")
    <2>0. Now.mode \in Modes \/ Now.mode = "none"
        BY <1>3, Zenon DEF Progress
    <2> DEFINE next == Started(Now.mode, 1)
    <2>1. next \in Progress /\ next.st = "SubmissionStarted" /\ next.mode = Now.mode
        BY <2>0, Zenon DEF Started, P, Progress, States
    <2> HIDE DEF next
    <2>2. Holds(Op, next, View(w.op))
        BY <1>1, <1>3, <1>6, <2>1, Zenon
           DEF Holds, Lawful, WithdrawalTrue, ChainTrue, Staged, Returning, Bridging, Depositing
    <2>3. "absent_w1" \in Busy \ Calling
        BY Zenon DEF Busy, Sending, Calling
    <2>4. \A u, op2 : /\ u.pc = "absent_w1" /\ u.ans = "none"
                      /\ op2.progress = next /\ op2.dir = Op.dir
                      => Ready(u, op2, View(w.op))
        BY <1>6, <2>1, Zenon DEF Ready
    <2>5. Advance(next, "absent_w1") /\ next.st # "Quarantined"
        BY <1>6, <2>1, Zenon DEF next
    <2> QED BY <1>2, <2>1, <2>2, <2>3, <2>4, <2>5, AdvanceReady, Zenon
<1>7. CASE Now.mode # "required" /\ Goto("absent_w1") /\ UNCHANGED journal
    <2>1. "absent_w1" \in Busy \ Calling
        BY Zenon DEF Busy, Sending, Calling
    <2>2. \A u : u.pc = "absent_w1" => Ready(u, Op, View(w.op))
        BY <1>1, <1>7, Zenon DEF Ready, Now
    <2> QED BY <1>2, <1>7, <2>1, <2>2, GotoPlace, Zenon
<1> QED BY <1>a, <1>2, <1>4, <1>5, <1>6, <1>7, FailOther, Zenon

\* An authorised retry is confirmed again.
LEMMA AuthorizedRetryResumed == SagaInv /\ ResumeAuthorizedRetry => SagaInv'
<1> SUFFICES ASSUME SagaInv, ResumeAuthorizedRetry PROVE SagaInv'
    BY Zenon
<1>1. /\ w.pc = "run" /\ Now.st = "RetryAuthorized" /\ UNCHANGED <<venue, chain>>
      /\ Goto("absent_w1") /\ UNCHANGED journal
    BY Zenon DEF ResumeAuthorizedRetry, B2W, At, LeavesVenues
<1>2. w.pc \in Busy /\ Still
    BY <1>1, StillStep, Zenon DEF Busy, SagaInv
<1>3. "absent_w1" \in Busy \ Calling
    BY Zenon DEF Busy, Sending, Calling
<1>4. \A u : u.pc = "absent_w1" => Ready(u, Op, View(w.op))
    BY <1>1, Zenon DEF Ready, Now
<1> QED BY <1>1, <1>2, <1>3, <1>4, GotoPlace, Zenon

\* The first of the two observations of an absent withdrawal.
LEMMA FirstObserved == SagaInv /\ FirstObservation => SagaInv'
<1> SUFFICES ASSUME SagaInv, FirstObservation PROVE SagaInv'
    BY Zenon
<1>1. /\ w.pc = "absent_w1" /\ UNCHANGED journal /\ UNCHANGED <<venue, chain>>
      /\ \/ \E stale \in BOOLEAN :
              w' = [w EXCEPT !.pc = "absent_w2", !.free = master[Op.token], !.stale = stale]
         \/ Fail("other")
    BY Zenon DEF FirstObservation, LeavesVenues
<1>2. w.pc \in Busy /\ Still
    BY <1>1, StillStep, Zenon DEF Busy, Sending, SagaInv
<1>3. w \in Worker0 /\ Op.token \in Tokens
    BY <1>1, <1>2, OpIs, Zenon
<1>4. CASE \E stale \in BOOLEAN :
              w' = [w EXCEPT !.pc = "absent_w2", !.free = master[Op.token], !.stale = stale]
    <2>1. "absent_w2" \in Places /\ "absent_w2" \in Busy \ Calling
        BY Zenon DEF Places, Busy, Sending, Calling
    <2>2. master[Op.token] \in Nat
        BY <1>3, Zenon DEF SagaInv, Facts, VenueType
    <2>3. w' \in Worker0 /\ w'.pc = "absent_w2" /\ w'.op = w.op
        BY <1>3, <1>4, <2>1, <2>2, ZenonT(30) DEF Worker0
    <2>4. Ready(w', Op, View(w.op))
        BY <1>1, <2>3, Zenon DEF Ready, SagaInv, WorkerOK, SendingOK
    <2> QED BY <1>1, <1>2, <2>1, <2>3, <2>4, GotoReady, Zenon
<1> QED BY <1>1, <1>2, <1>4, FailOther, Zenon

\* The second one, after the delay: what is then absent was never accepted
\* and cannot be any more, so that it may be retried or returned.
LEMMA AbsenceConfirmed ==
  DelayCoversLag /\ SagaInv /\ confirm_unknown_withdrawal_absence => SagaInv'
<1> SUFFICES ASSUME DelayCoversLag, SagaInv, confirm_unknown_withdrawal_absence PROVE SagaInv'
    BY Zenon
<1>1. w.pc = "absent_w2" /\ wire = {} /\ hidden = {} /\ UNCHANGED <<venue, chain>>
    BY Zenon DEF confirm_unknown_withdrawal_absence, LeavesVenues, Slept
<1>2. \/ Fail("other") /\ UNCHANGED journal
      \/ AbsenceHolds /\ Advance(ReturnStarted(0), "run")
      \/ /\ AbsenceHolds /\ Now.st = "SubmissionStarted"
         /\ Advance(RetryAuthorized(Now.mode, w.free), "retry")
      \/ Now.st # "SubmissionStarted" /\ Goto("retry") /\ UNCHANGED journal
    BY Zenon DEF confirm_unknown_withdrawal_absence
<1>3. w.pc \in Busy /\ Still
    BY <1>1, StillStep, Zenon DEF Busy, Sending, SagaInv
<1>4. \/ Now.st = "SubmissionStarted" /\ Now.mode # "required"
      \/ Now.st = "RetryAuthorized"
    BY <1>1, Zenon DEF SagaInv, WorkerOK, SendingOK, Ready, Now
<1>5. Holds(Op, Now, View(w.op)) /\ Now \in Progress /\ w \in Worker0
    BY <1>3, <1>4, OpIs, Zenon
<1>6. AbsenceHolds => Unsent(View(w.op))
    <2>1. AbsenceHolds => View(w.op).live = <<>>
        BY <1>1, ListedIs, Zenon DEF AbsenceHolds, WithdrawalListed
    <2>2. "w" \notin View(w.op).wire
        BY <1>1, ViewIs, Zenon DEF Kinds
    <2> QED BY <2>1, <2>2, Zenon DEF Unsent
<1>7. Op.dir = "b2w"
    BY <1>4, <1>5, Zenon DEF Holds, Lawful, Staged
<1>8. CASE AbsenceHolds /\ Advance(ReturnStarted(0), "run")
    <2>1. ReturnStarted(0) \in Progress /\ ReturnStarted(0).st = "ReturnStarted"
        BY ProgressIs, Zenon
    <2>2. Holds(Op, ReturnStarted(0), View(w.op))
        BY <1>4, <1>5, <1>6, <1>7, <1>8, <2>1, Zenon
           DEF Holds, Lawful, WithdrawalTrue, ChainTrue, Staged, Returning, Bridging, Depositing
    <2> QED BY <1>3, <1>8, <2>1, <2>2, AdvanceRun, Zenon
<1>9. CASE /\ AbsenceHolds /\ Now.st = "SubmissionStarted"
           /\ Advance(RetryAuthorized(Now.mode, w.free), "retry")
    <2>0. (Now.mode \in Modes \/ Now.mode = "none") /\ w.free \in Nat
        BY <1>5, Zenon DEF Progress, Worker0
    <2> DEFINE next == RetryAuthorized(Now.mode, w.free)
    <2>1. next \in Progress /\ next.st = "RetryAuthorized" /\ next.mode = Now.mode
        BY <2>0, Zenon DEF RetryAuthorized, P, Progress, States
    <2> HIDE DEF next
    <2>2. Holds(Op, next, View(w.op))
        BY <1>4, <1>5, <1>6, <1>7, <1>9, <2>1, Zenon
           DEF Holds, Lawful, WithdrawalTrue, ChainTrue, Staged, Returning, Bridging, Depositing
    <2>3. "retry" \in Busy \ Calling
        BY Zenon DEF Busy, Sending, Calling
    <2>4. \A u, op2 : /\ u.pc = "retry" /\ u.ans = "none"
                      /\ op2.progress = next /\ op2.dir = Op.dir
                      => Ready(u, op2, View(w.op))
        BY <2>1, Zenon DEF Ready
    <2>5. Advance(next, "retry") /\ next.st # "Quarantined"
        BY <1>9, <2>1, Zenon DEF next
    <2> QED BY <1>3, <2>1, <2>2, <2>3, <2>4, <2>5, AdvanceReady, Zenon
<1>10. CASE Now.st # "SubmissionStarted" /\ Goto("retry") /\ UNCHANGED journal
    <2>1. "retry" \in Busy \ Calling
        BY Zenon DEF Busy, Sending, Calling
    <2>2. \A u : u.pc = "retry" => Ready(u, Op, View(w.op))
        BY <1>4, <1>10, Zenon DEF Ready, Now
    <2> QED BY <1>3, <1>10, <2>1, <2>2, GotoPlace, Zenon
<1> QED BY <1>2, <1>3, <1>8, <1>9, <1>10, FailOther, Zenon

\* The record of the retry, before it is sent.
LEMMA RetryRecorded == SagaInv /\ resume_authorized_withdrawal_retry => SagaInv'
<1> SUFFICES ASSUME SagaInv, resume_authorized_withdrawal_retry PROVE SagaInv'
    BY Zenon
<1> DEFINE next == Started(Now.mode, 0)
           u == [Step("send_w") EXCEPT !.retry = TRUE]
<1>1. /\ w.pc = "retry" /\ Now.st = "RetryAuthorized" /\ UNCHANGED <<venue, chain>>
      /\ \/ journal' = [journal EXCEPT ![w.op] = Appended(@, next)] /\ w' = u
         \/ Fail("illegal_transition") /\ UNCHANGED journal
    BY Zenon DEF resume_authorized_withdrawal_retry, At, LeavesVenues
<1>2. w.pc \in Busy /\ Still
    BY <1>1, StillStep, Zenon DEF Busy, Sending, SagaInv
<1>3. /\ Holds(Op, Now, View(w.op)) /\ Now \in Progress /\ w \in Worker0
      /\ w.op \in DOMAIN journal /\ w.op \in OpIds
    BY <1>1, <1>2, OpIs, Zenon
<1>4. CASE journal' = [journal EXCEPT ![w.op] = Appended(@, next)] /\ w' = u
    <2>0. Now.mode \in Modes \/ Now.mode = "none"
        BY <1>3, Zenon DEF Progress
    <2>1. next \in Progress /\ next.st = "SubmissionStarted" /\ next.mode = Now.mode
        BY <2>0, Zenon DEF Started, P, Progress, States
    <2>2. Step("send_w") \in Worker0 /\ Step("send_w").pc = "send_w" /\ Step("send_w").op = w.op
        <3>1. "send_w" \in Places
            BY Zenon DEF Places, Busy, Sending
        <3> QED BY <1>3, <3>1, StepIs, Zenon
    <2>3. u \in Worker0 /\ u.pc = "send_w" /\ u.op = w.op
        BY <2>2, Zenon DEF Worker0
    <2> HIDE DEF next, u
    <2>4. Unsent(View(w.op)) /\ Now.mode # "required"
        BY <1>1, <1>3, Zenon DEF Holds, Lawful, WithdrawalTrue, Bridging
    <2>5. Holds(Op, next, View(w.op)) /\ next.st # "Quarantined"
        BY <1>1, <1>3, <2>1, <2>4, Zenon
           DEF Holds, Lawful, WithdrawalTrue, ChainTrue, Staged, Returning, Bridging, Depositing
    <2>6. Facts' /\ SameOps(w.op) /\ Became(w.op, next)
        BY <1>2, <1>3, <1>4, <2>1, <2>5, AppendStep, Zenon DEF Op, SagaInv
    <2>7. w'.pc \in Busy \ Calling /\ w' \in Worker0 /\ w'.op = w.op
        BY <1>4, <2>3, Zenon DEF Busy, Sending, Calling
    <2>8. WorkerType' /\ OneActive'
        BY <1>2, <2>6, <2>7, BusyStep, Zenon
    <2>9. View(w.op)' = View(w.op)
        BY <1>2, <1>3, <2>7, ViewStays, Zenon
    <2>10. Op'.progress = next
        BY <2>6, <2>7, Zenon DEF Became, Op
    <2>11. Ready(w', Op', View(w.op))
        BY <1>4, <2>1, <2>3, <2>4, <2>10, Zenon DEF Ready
    <2>12. SendingOK'
        BY <2>9, <2>11, Zenon DEF SendingOK
    <2>13. CallingOK'
        BY <2>7, Zenon DEF CallingOK, CallFor
    <2> QED BY <2>6, <2>8, <2>12, <2>13, Zenon DEF SagaInv, WorkerOK
<1>5. CASE Fail("illegal_transition") /\ UNCHANGED journal
    <2>1. "illegal_transition" \in Reasons \cup {"quote"}
        BY Zenon DEF Reasons
    <2> QED BY <1>2, <1>5, <2>1, FailStep, Zenon
<1> QED BY <1>1, <1>4, <1>5, Zenon

\* The answer to a withdrawal request: accepted, refused in one of the ways
\* the code tells apart, or lost.
LEMMA WithdrawalAnswered == SagaInv /\ WithdrawalAnswer => SagaInv'
\* A refused Travel Rule request may leave a record; it withdrew nothing.
<1>DeadRecord.
  /\ SagaInv /\ w.op \in OpIds
  /\ wd' = wd \/ (wd[w.op] = <<>> /\ wd' = [wd EXCEPT ![w.op] = Append(@, "dead")])
  /\ UNCHANGED <<trading, master, xfer, back, hidden, wire, chain>>
  => Still
    <2> SUFFICES ASSUME SagaInv, w.op \in OpIds,
                        wd' = wd \/ (wd[w.op] = <<>> /\ wd' = [wd EXCEPT ![w.op] = Append(@, "dead")]),
                        UNCHANGED <<trading, master, xfer, back, hidden, wire, chain>>
                 PROVE  Still
        BY Zenon
    <2>1. VenueType /\ ChainType /\ Facts
        BY Zenon DEF SagaInv, Facts
    <2>2. /\ trading' = trading /\ master' = master /\ xfer' = xfer /\ back' = back
          /\ hidden' = hidden /\ wire' = wire /\ child' = child /\ fill' = fill /\ dep' = dep
        BY Zenon DEF chain
    <2>3. CASE wd' = wd
        BY <2>1, <2>2, <2>3, StillStep, Zenon DEF venue, chain
    <2>4. CASE wd[w.op] = <<>> /\ wd' = [wd EXCEPT ![w.op] = Append(@, "dead")]
        <3> DEFINE s == Append(wd[w.op], "dead")
        <3>1. s \in Withdrawals /\ LiveOf(s) = <<>> /\ LiveOf(wd[w.op]) = <<>>
            BY <2>4, LiveOfDead, Zenon
        <3>2. wd' = [wd EXCEPT ![w.op] = s]
            BY <2>4, Zenon
        <3> HIDE DEF s
        <3>3. \A q \in OpIds : wd'[q] \in Withdrawals /\ LiveOf(wd'[q]) = LiveOf(wd[q])
            BY <2>1, <3>1, <3>2, Zenon DEF VenueType
        <3>4. wd' \in [OpIds -> Withdrawals]
            BY <2>1, <3>1, <3>2, Zenon DEF VenueType
        <3>5. VenueType'
            BY <2>1, <2>2, <3>3, <3>4, Zenon DEF VenueType
        <3>6. ChainType'
            BY <2>1, <2>2, Zenon DEF ChainType
        <3>7. \A q \in OpIds : View(q)' = View(q)
            BY <2>2, <3>3, Zenon DEF View
        <3> QED BY <2>2, <3>5, <3>6, <3>7, Zenon DEF Still
    <2> QED BY <2>3, <2>4, Zenon
<1> SUFFICES ASSUME SagaInv, WithdrawalAnswer PROVE SagaInv'
    BY Zenon
<1>1. w.pc = "answer" /\ Now.st = "SubmissionStarted"
    BY Zenon DEF WithdrawalAnswer, At
<1>2. \/ w.ans = "ok" /\ Advance(P("WithdrawalSubmitted"), "run")
      \/ w.ans = "refused" /\ Advance(Started("required", 0), "run")
      \/ w.ans = "refused" /\ Advance(Started("travel", 1), "absent_w1")
      \/ w.ans = "refused" /\ AdvanceFailed("ownership_rejected")
      \/ w.ans = "refused" /\ AdvanceFailed("other")
      \/ Fail("signature") /\ UNCHANGED journal
      \/ Fail("other") /\ UNCHANGED journal
    BY Zenon DEF WithdrawalAnswer
<1>3. w.pc \in Busy
    BY <1>1, Zenon DEF Busy, Sending
<1>4. Holds(Op, Now, View(w.op)) /\ w.op \in OpIds
    BY <1>1, <1>3, OpIs, Zenon
<1>5. Still
    <2>1. wd' = wd \/ (wd[w.op] = <<>> /\ wd' = [wd EXCEPT ![w.op] = Append(@, "dead")])
        BY Zenon DEF WithdrawalAnswer
    <2>2. UNCHANGED <<trading, master, xfer, back, hidden, wire, chain>>
        BY Zenon DEF WithdrawalAnswer, LeavesRest
    <2> QED BY <1>4, <2>1, <2>2, <1>DeadRecord, Zenon
<1>6. /\ w.ans = "ok" => View(w.op).live # <<>>
      /\ w.ans = "refused" => Unsent(View(w.op))
    BY <1>1, Zenon DEF SagaInv, WorkerOK, SendingOK, Ready, Now
<1>7. Op.dir = "b2w"
    BY <1>1, <1>4, Zenon DEF Holds, Lawful, Staged
<1>8. CASE w.ans = "ok" /\ Advance(P("WithdrawalSubmitted"), "run")
    <2>1. P("WithdrawalSubmitted") \in Progress /\ P("WithdrawalSubmitted").st = "WithdrawalSubmitted"
        BY ProgressIs, Zenon DEF States
    <2>2. Holds(Op, P("WithdrawalSubmitted"), View(w.op))
        BY <1>1, <1>4, <1>6, <1>7, <1>8, <2>1, Zenon
           DEF Holds, Lawful, WithdrawalTrue, ChainTrue, Staged, Returning, Bridging, Depositing
    <2> QED BY <1>3, <1>5, <1>8, <2>1, <2>2, AdvanceRun, Zenon
<1>9. CASE w.ans = "refused" /\ Advance(Started("required", 0), "run")
    <2> DEFINE next == Started("required", 0)
    <2>1. next \in Progress /\ next.st = "SubmissionStarted"
        BY ProgressIs, Zenon DEF Modes
    <2> HIDE DEF next
    <2>2. Holds(Op, next, View(w.op))
        BY <1>1, <1>4, <1>6, <1>7, <1>9, <2>1, Zenon
           DEF Holds, Lawful, WithdrawalTrue, ChainTrue, Staged, Returning, Bridging, Depositing
    <2>3. Advance(next, "run") /\ next.st # "Quarantined"
        BY <1>9, <2>1, Zenon DEF next
    <2> QED BY <1>3, <1>5, <2>1, <2>2, <2>3, AdvanceRun, Zenon
<1>10. CASE w.ans = "refused" /\ Advance(Started("travel", 1), "absent_w1")
    <2> DEFINE next == Started("travel", 1)
    <2>1. next \in Progress /\ next.st = "SubmissionStarted" /\ next.mode = "travel"
        BY ProgressIs, Zenon DEF Modes
    <2> HIDE DEF next
    <2>2. Holds(Op, next, View(w.op))
        BY <1>1, <1>4, <1>6, <1>7, <1>10, <2>1, Zenon
           DEF Holds, Lawful, WithdrawalTrue, ChainTrue, Staged, Returning, Bridging, Depositing
    <2>3. "absent_w1" \in Busy \ Calling
        BY Zenon DEF Busy, Sending, Calling
    <2>4. \A u, op2 : /\ u.pc = "absent_w1" /\ u.ans = "none"
                      /\ op2.progress = next /\ op2.dir = Op.dir
                      => Ready(u, op2, View(w.op))
        BY <2>1, ZenonT(30) DEF Ready
    <2>5. Advance(next, "absent_w1") /\ next.st # "Quarantined"
        BY <1>10, <2>1, Zenon DEF next
    <2> QED BY <1>3, <1>5, <2>1, <2>2, <2>3, <2>4, <2>5, AdvanceReady, Zenon
<1>11. ASSUME NEW why \in {"ownership_rejected", "other"}, w.ans = "refused", AdvanceFailed(why)
       PROVE  SagaInv'
    <2>1. why \in Reasons /\ Failed(why).st = "Failed" /\ Failed(why).why = why
        BY ProgressIs DEF Reasons
    <2>2. View(w.op).x = "success"
        BY <1>1, <1>4, <1>7, Zenon DEF Holds, WithdrawalTrue, Staged
    <2>3. Holds(Op, Failed(why), View(w.op))
        BY <1>1, <1>4, <1>6, <1>7, <1>11, <2>1, <2>2, Zenon
           DEF Holds, Lawful, WithdrawalTrue, ChainTrue, Staged, Returning, Bridging, Depositing, Unsent
    <2> QED BY <1>3, <1>5, <1>11, <2>1, <2>3, AdvanceFailedStep, Zenon
<1>12. CASE Fail("signature") /\ UNCHANGED journal
    <2>1. "signature" \in Reasons \cup {"quote"}
        BY Zenon DEF Reasons
    <2> QED BY <1>3, <1>5, <1>12, <2>1, FailStep, Zenon
<1> QED BY <1>2, <1>3, <1>5, <1>8, <1>9, <1>10, <1>11, <1>12, FailOther, Zenon

\* The withdrawal arrived, or Binance gave it up.
LEMMA WithdrawalAwaited == SagaInv /\ wait_withdrawal => SagaInv'
<1> SUFFICES ASSUME SagaInv, wait_withdrawal PROVE SagaInv'
    BY Zenon
<1> DEFINE st == IF Op.route = "direct" THEN "Completed" ELSE "FundsOnBridge"
<1>1. /\ w.pc = "run" /\ Now.st = "WithdrawalSubmitted" /\ Op.dir = "b2w"
      /\ UNCHANGED <<venue, chain>> /\ WithdrawalListed(w.op)
      /\ \/ Head(Live(w.op)) = "done" /\ Advance(P(st), "run")
         \/ Head(Live(w.op)) = "failed" /\ AdvanceFailed("other")
    BY Zenon DEF wait_withdrawal, B2W, At, LeavesVenues
<1>2. w.pc \in Busy /\ Still
    BY <1>1, StillStep, Zenon DEF Busy, SagaInv
<1>3. /\ Holds(Op, Now, View(w.op)) /\ Op \in OpType
      /\ View(w.op).live \in {<<>>, <<"processing">>, <<"done">>, <<"failed">>}
      /\ View(w.op).live # <<>> => "w" \notin View(w.op).wire
    BY <1>1, <1>2, OpIs, Zenon
<1>4. Live(w.op) = View(w.op).live /\ View(w.op).live # <<>>
    BY <1>1, ListedIs, Zenon
<1>5. \A s \in {<<"processing">>, <<"done">>, <<"failed">>} :
        /\ Head(s) = "done" => s = <<"done">>
        /\ Head(s) = "failed" => s = <<"failed">>
    OBVIOUS
<1>6. CASE Head(Live(w.op)) = "done" /\ Advance(P(st), "run")
    <2>1. st \in States /\ (st = "Completed" \/ (st = "FundsOnBridge" /\ Op.route = "across"))
          /\ (Op.route = "across" => st = "FundsOnBridge")
        BY <1>3, Zenon DEF OpType, States
    <2> HIDE DEF st
    <2>2. P(st) \in Progress /\ P(st).st = st /\ st # "Quarantined"
        BY <2>1, ProgressIs, Zenon
    <2>3. View(w.op).live = <<"done">>
        BY <1>3, <1>4, <1>5, <1>6, Zenon
    <2>4. View(w.op).x = "success" /\ <<"done">> # <<>>
        BY <1>1, <1>3, Zenon DEF Holds, WithdrawalTrue, Staged
    <2>5. Holds(Op, P(st), View(w.op))
        BY <1>1, <1>3, <2>1, <2>2, <2>3, <2>4, Zenon
           DEF Holds, Lawful, WithdrawalTrue, ChainTrue, Staged, Returning, Bridging, Depositing
    <2> QED BY <1>2, <1>6, <2>2, <2>5, AdvanceRun, Zenon
<1>7. CASE Head(Live(w.op)) = "failed" /\ AdvanceFailed("other")
    <2>1. "other" \in Reasons /\ Failed("other").st = "Failed" /\ Failed("other").why = "other"
        BY ProgressIs, Zenon DEF Reasons
    <2>2. View(w.op).live = <<"failed">>
        BY <1>3, <1>4, <1>5, <1>7, Zenon
    <2>3. Holds(Op, Failed("other"), View(w.op))
        BY <1>1, <1>3, <1>4, <2>1, <2>2, Zenon
           DEF Holds, Lawful, WithdrawalTrue, ChainTrue, Staged, Returning, Bridging, Depositing, Unsent
    <2> QED BY <1>2, <1>7, <2>1, <2>3, AdvanceFailedStep, Zenon
<1> QED BY <1>1, <1>6, <1>7, Zenon

-----------------------------------------------------------------------------
(* The return of a stale withdrawal.                                        *)

\* The return is recorded as started, and looked for before it is sent.
LEMMA CancellationResumed == SagaInv /\ resume_stale_withdrawal_cancellation => SagaInv'
<1> SUFFICES ASSUME SagaInv, resume_stale_withdrawal_cancellation PROVE SagaInv'
    BY Zenon
<1>1. /\ w.pc = "run" /\ Now.st = "ReturnStarted" /\ UNCHANGED <<venue, chain>>
      /\ \/ \E pc \in {"returned", "absent_r"} : Advance(ReturnStarted(1), pc)
         \/ \E pc \in {"returned", "send_r"} : Goto(pc) /\ UNCHANGED journal
    BY Zenon DEF resume_stale_withdrawal_cancellation, B2W, At, LeavesVenues
<1>2. w.pc \in Busy /\ Still
    BY <1>1, StillStep, Zenon DEF Busy, SagaInv
<1>3. Holds(Op, Now, View(w.op))
    BY <1>1, <1>2, OpIs, Zenon
<1>4. ASSUME NEW pc \in {"returned", "absent_r"}, Advance(ReturnStarted(1), pc) PROVE SagaInv'
    <2> DEFINE next == ReturnStarted(1)
    <2>1. next \in Progress /\ next.st = "ReturnStarted"
        BY ProgressIs, Zenon
    <2> HIDE DEF next
    <2>2. Holds(Op, next, View(w.op))
        BY <1>1, <1>3, <2>1, Zenon
           DEF Holds, Lawful, WithdrawalTrue, ChainTrue, Staged, Returning, Bridging, Depositing
    <2>3. pc \in Busy \ Calling
        BY Zenon DEF Busy, Sending, Calling
    <2>4. \A u, op2 : /\ u.pc = pc /\ u.ans = "none"
                      /\ op2.progress = next /\ op2.dir = Op.dir
                      => Ready(u, op2, View(w.op))
        BY <2>1, Zenon DEF Ready
    <2>5. Advance(next, pc) /\ next.st # "Quarantined"
        BY <1>4, <2>1, Zenon DEF next
    <2> QED BY <1>2, <2>1, <2>2, <2>3, <2>4, <2>5, AdvanceReady, Zenon
<1>5. ASSUME NEW pc \in {"returned", "send_r"}, Goto(pc), UNCHANGED journal PROVE SagaInv'
    <2>1. pc \in Busy \ Calling
        BY Zenon DEF Busy, Sending, Calling
    <2>2. \A u : u.pc = pc => Ready(u, Op, View(w.op))
        BY <1>1, Zenon DEF Ready, Now
    <2> QED BY <1>2, <1>5, <2>1, <2>2, GotoPlace, Zenon
<1> QED BY <1>1, <1>4, <1>5, Zenon

\* It is looked for again after the delay.
LEMMA ReturnAbsent == SagaInv /\ ConfirmReturnAbsent => SagaInv'
<1> SUFFICES ASSUME SagaInv, ConfirmReturnAbsent PROVE SagaInv'
    BY Zenon
<1>1. /\ w.pc = "absent_r" /\ UNCHANGED <<venue, chain>> /\ UNCHANGED journal
      /\ \E pc \in {"returned", "send_r"} : Goto(pc)
    BY Zenon DEF ConfirmReturnAbsent, LeavesVenues
<1>2. w.pc \in Busy /\ Still
    BY <1>1, StillStep, Zenon DEF Busy, Sending, SagaInv
<1>3. Now.st = "ReturnStarted"
    BY <1>1, Zenon DEF SagaInv, WorkerOK, SendingOK, Ready, Now
<1>4. ASSUME NEW pc \in {"returned", "send_r"}, Goto(pc) PROVE SagaInv'
    <2>1. pc \in Busy \ Calling
        BY Zenon DEF Busy, Sending, Calling
    <2>2. \A u : u.pc = pc => Ready(u, Op, View(w.op))
        BY <1>3, Zenon DEF Ready, Now
    <2> QED BY <1>1, <1>2, <1>4, <2>1, <2>2, GotoPlace, Zenon
<1> QED BY <1>1, <1>4, Zenon

\* The answer to the return request, or its record.
LEMMA ReturnAnswered == SagaInv /\ ReturnAnswer => SagaInv'
<1> SUFFICES ASSUME SagaInv, ReturnAnswer PROVE SagaInv'
    BY Zenon
<1>1. /\ w.pc = "returned" \/ (w.pc = "answer" /\ Now.st = "ReturnStarted")
      /\ UNCHANGED <<venue, chain>>
      /\ \/ Advance(P("ReturnSubmitted"), "run")
         \/ Fail("other") /\ UNCHANGED journal
    BY Zenon DEF ReturnAnswer, At, LeavesVenues
<1>2. w.pc \in Busy /\ Still
    BY <1>1, StillStep, Zenon DEF Busy, Sending, SagaInv
<1>3. Now.st = "ReturnStarted"
    BY <1>1, Zenon DEF SagaInv, WorkerOK, SendingOK, Ready, Now
<1>4. Holds(Op, Now, View(w.op))
    BY <1>2, <1>3, OpIs, Zenon
<1>5. CASE Advance(P("ReturnSubmitted"), "run")
    <2>1. P("ReturnSubmitted") \in Progress /\ P("ReturnSubmitted").st = "ReturnSubmitted"
        BY ProgressIs, Zenon DEF States
    <2>2. Holds(Op, P("ReturnSubmitted"), View(w.op))
        BY <1>3, <1>4, <2>1, Zenon
           DEF Holds, Lawful, WithdrawalTrue, ChainTrue, Staged, Returning, Bridging, Depositing
    <2> QED BY <1>2, <1>5, <2>1, <2>2, AdvanceRun, Zenon
<1> QED BY <1>1, <1>2, <1>5, FailOther, Zenon

\* The unit went back, or the return failed.
LEMMA ReturnAwaited == SagaInv /\ wait_master_return => SagaInv'
<1> SUFFICES ASSUME SagaInv, wait_master_return PROVE SagaInv'
    BY Zenon
<1>1. /\ w.pc = "run" /\ Now.st = "ReturnSubmitted" /\ UNCHANGED <<venue, chain>>
      /\ \/ back[w.op] = "success" /\ Advance(P("CancelledStale"), "run")
         \/ Fail("other") /\ UNCHANGED journal
    BY Zenon DEF wait_master_return, B2W, At, LeavesVenues
<1>2. w.pc \in Busy /\ Still
    BY <1>1, StillStep, Zenon DEF Busy, SagaInv
<1>3. Holds(Op, Now, View(w.op))
    BY <1>1, <1>2, OpIs, Zenon
<1>4. CASE back[w.op] = "success" /\ Advance(P("CancelledStale"), "run")
    <2>1. P("CancelledStale") \in Progress /\ P("CancelledStale").st = "CancelledStale"
        BY ProgressIs, Zenon DEF States
    <2>2. View(w.op).b = "success"
        BY <1>4, ViewIs, Zenon
    <2>3. Holds(Op, P("CancelledStale"), View(w.op))
        BY <1>1, <1>3, <2>1, <2>2, Zenon
           DEF Holds, Lawful, WithdrawalTrue, ChainTrue, Staged, Returning, Bridging, Depositing
    <2> QED BY <1>2, <1>4, <2>1, <2>3, AdvanceRun, Zenon
<1> QED BY <1>1, <1>2, <1>4, FailOther, Zenon

-----------------------------------------------------------------------------
(* Steps of the venues.                                                     *)

Others(o) == \A q \in OpIds : q # o => View(q)' = View(q) /\ child'[q] = child[q]

\* A unit leaves the master account or comes back, and which one it is.
MasterMoves(o) ==
  LET t == journal[o].token IN
    \/ master' = master /\ (OnMaster(View(o)') <=> OnMaster(View(o)))
    \/ master' = [master EXCEPT ![t] = @ - 1] /\ OnMaster(View(o)) /\ ~OnMaster(View(o)')
    \/ master' = [master EXCEPT ![t] = @ + 1] /\ ~OnMaster(View(o)) /\ OnMaster(View(o)')

\* What a venue did with one operation, and its claim is still true.
LEMMA VenueFacts ==
  \A o \in DOMAIN journal :
    /\ Facts /\ UNCHANGED journal /\ VenueType' /\ ChainType'
    /\ Others(o) /\ MasterMoves(o)
    /\ Holds(journal[o], Claim(journal[o]), View(o)')
    => Facts'
<1> SUFFICES ASSUME NEW o \in DOMAIN journal, Facts, UNCHANGED journal, VenueType', ChainType',
                    Others(o), MasterMoves(o), Holds(journal[o], Claim(journal[o]), View(o)')
             PROVE  Facts'
    BY Zenon
<1>1. DOMAIN journal \subseteq OpIds /\ journal[o] \in OpType
    BY OpsAre, Zenon DEF Facts
<1>2. JournalType'
    BY Zenon DEF Facts, JournalType
<1>3. Untouched'
    <2> SUFFICES ASSUME NEW q \in OpIds \ DOMAIN journal
                 PROVE  /\ (View(q)').x = "none" /\ (View(q)').b = "none"
                        /\ (View(q)').live = <<>> /\ (View(q)').wire = {}
                        /\ \A c \in Children : child'[q][c].st = "none"
        BY Zenon DEF Untouched
    <2>1. View(q)' = View(q) /\ child'[q] = child[q]
        BY Zenon DEF Others
    <2> QED BY <2>1, Zenon DEF Facts, Untouched
<1>4. Truthful'
    <2> SUFFICES ASSUME NEW q \in DOMAIN journal
                 PROVE  Holds(journal[q], Claim(journal[q]), View(q)')
        BY Zenon DEF Truthful
    <2>1. CASE q # o
        BY <1>1, <2>1, Zenon DEF Others, Facts, Truthful
    <2> QED BY <2>1, Zenon
<1>5. Accounted'
    <2> SUFFICES ASSUME NEW t \in Tokens
                 PROVE  master'[t] = Spare + Cardinality(StagedFor(t)')
        BY Zenon DEF Accounted
    <2> DEFINE S == StagedFor(t)
               T == StagedFor(t)'
    <2>1. S \subseteq OpIds /\ T \subseteq OpIds
        BY <1>1, Zenon DEF StagedFor
    <2>2. o \in S <=> journal[o].token = t /\ OnMaster(View(o))
        BY Zenon DEF StagedFor
    <2>3. o \in T <=> journal[o].token = t /\ OnMaster(View(o)')
        BY Zenon DEF StagedFor
    <2>4. \A q \in OpIds : q # o => (q \in S <=> q \in T)
        BY <1>1, Zenon DEF StagedFor, Others
    <2>5. master[t] = Spare + Cardinality(S) /\ master \in [Tokens -> Nat]
        BY Zenon DEF Facts, Accounted, VenueType
    <2>6. /\ Cardinality(S) \in Nat /\ Cardinality(T) \in Nat
          /\ o \notin S => Cardinality(S \cup {o}) = Cardinality(S) + 1
          /\ o \notin T => Cardinality(T \cup {o}) = Cardinality(T) + 1
        BY <1>1, <2>1, Zenon DEF Facts, OpSets
    <2> HIDE DEF S, T
    <2>7. CASE o \in S <=> o \in T
        <3>1. T = S
            BY <2>1, <2>4, <2>7
        <3>2. master'[t] = master[t]
            BY <2>2, <2>3, <2>5, <2>7, Zenon DEF MasterMoves
        <3> QED BY <2>5, <3>1, <3>2, Zenon DEF T
    <2>8. CASE o \in S /\ o \notin T
        <3>1. S = T \cup {o}
            BY <2>1, <2>4, <2>8, Zenon
        <3>2. master'[t] = master[t] - 1
            BY <2>2, <2>3, <2>5, <2>8, Zenon DEF MasterMoves
        <3>3. Cardinality(S) = Cardinality(T) + 1
            BY <2>6, <2>8, <3>1, Zenon
        <3> QED BY <2>5, <2>6, <3>2, <3>3, SagaAssumption DEF T
    <2>9. CASE o \notin S /\ o \in T
        <3>1. T = S \cup {o}
            BY <2>1, <2>4, <2>9, Zenon
        <3>2. master'[t] = master[t] + 1
            BY <2>2, <2>3, <2>5, <2>9, Zenon DEF MasterMoves
        <3>3. Cardinality(T) = Cardinality(S) + 1
            BY <2>6, <2>9, <3>1, Zenon
        <3> QED BY <2>5, <2>6, <3>2, <3>3, SagaAssumption DEF T
    <2> QED BY <2>7, <2>8, <2>9, Zenon
<1>6. OpSets'
    BY Zenon DEF Facts, OpSets, OpIds
<1> QED BY <1>2, <1>3, <1>4, <1>5, <1>6, Zenon DEF Facts

\* What the claim of an operation says while a request for it may arrive.
Allowed(k, p, v) ==
  /\ k = "w" => p.st = "SubmissionStarted" /\ p.mode # "required" /\ v.live = <<>>
  /\ k = "r" => p.st \in Returning

\* A view whose parts are the same is the same.
LEMMA SameView ==
  \A q : /\ xfer'[q] = xfer[q] /\ back'[q] = back[q] /\ LiveOf(wd'[q]) = LiveOf(wd[q])
         /\ \A k \in Kinds : <<q, k>> \in wire' <=> <<q, k>> \in wire
         /\ child'[q] = child[q] /\ fill'[q] = fill[q] /\ dep'[q] = dep[q]
         => View(q)' = View(q)
BY Zenon DEF View

\* The fields of the next view.
LEMMA NextViewIs ==
  \A o : /\ (View(o)').x = xfer'[o] /\ (View(o)').b = back'[o]
         /\ (View(o)').live = LiveOf(wd'[o])
         /\ (View(o)').bridge = child'[o]["bridge"].st
         /\ (View(o)').deposit = child'[o]["deposit"].st
         /\ (View(o)').fill = fill'[o] /\ (View(o)').dep = dep'[o]
         /\ \A k \in Kinds : k \in (View(o)').wire <=> <<o, k>> \in wire'
BY Zenon DEF View

\* A view of which only the transfers, the withdrawals and the wire may differ.
SameChain(v, u) ==
  u.bridge = v.bridge /\ u.deposit = v.deposit /\ u.fill = v.fill /\ u.dep = v.dep

\* The wire after a request of kind k for operation o arrived or was given up.
WireAfter(o, k) == wire' = wire \/ wire' = wire \ {<<o, k>>}
HiddenAfter(o, k) == hidden' = hidden \/ hidden' = hidden \cup {<<o, k>>}

\* Binance accepts the transfer to the master account.
LEMMA TransferAccepted ==
  \A o \in DOMAIN journal :
    /\ Facts /\ UNCHANGED <<journal, chain>> /\ AcceptTransfer(o)
    /\ WireAfter(o, "x") /\ HiddenAfter(o, "x")
    => /\ Facts' /\ Others(o) /\ (View(o)').live = View(o).live
       /\ "w" \in (View(o)').wire <=> "w" \in View(o).wire
\* An accepted transfer: nothing claimed that it was complete.
<1>TransferTrue.
  \A op, p, v, u :
    /\ Holds(op, p, v) /\ SameChain(v, u)
    /\ v.x = "none" /\ u.x = "process" /\ u.b = v.b /\ u.live = v.live /\ u.wire \subseteq v.wire
    => Holds(op, p, u) /\ ~OnMaster(v) /\ ~OnMaster(u)
    BY DEF Holds, WithdrawalTrue, ChainTrue, SameChain, OnMaster, Unsent
<1> SUFFICES ASSUME NEW o \in DOMAIN journal, Facts, UNCHANGED <<journal, chain>>,
                    AcceptTransfer(o), WireAfter(o, "x"), HiddenAfter(o, "x")
             PROVE  /\ Facts' /\ Others(o) /\ (View(o)').live = View(o).live
                    /\ "w" \in (View(o)').wire <=> "w" \in View(o).wire
    BY Zenon
<1>1. /\ VenueType /\ ChainType /\ o \in OpIds /\ journal[o] \in OpType
      /\ child' = child /\ fill' = fill /\ dep' = dep /\ journal' = journal
    BY OpsAre, Zenon DEF Facts, chain
<1>2. journal[o].token \in Tokens
    BY <1>1, Zenon DEF OpType
<1>3. /\ xfer[o] = "none" /\ xfer' = [xfer EXCEPT ![o] = "process"]
      /\ trading[journal[o].token] > 0
      /\ trading' = [trading EXCEPT ![journal[o].token] = @ - 1]
      /\ master' = master /\ back' = back /\ wd' = wd
    BY Zenon DEF AcceptTransfer, Debit, TokenOf
<1>4. \A q \in OpIds : \A k \in Kinds : q # o \/ k # "x" => (<<q, k>> \in wire' <=> <<q, k>> \in wire)
    BY Zenon DEF WireAfter
<1>5. wire' \subseteq wire
    BY Zenon DEF WireAfter
<1>6. hidden' \subseteq OpIds \X Kinds
    BY <1>1 DEF HiddenAfter, VenueType, Kinds
<1>7. VenueType'
    <2>1. trading' \in [Tokens -> Nat]
        BY <1>1, <1>2, <1>3 DEF VenueType
    <2>2. xfer' \in [OpIds -> TransferStates]
        BY <1>1, <1>3, Zenon DEF VenueType, TransferStates
    <2>3. wire' \subseteq OpIds \X Kinds
        BY <1>1, <1>5, Zenon DEF VenueType
    <2>4. \A q \in OpIds : LiveOf(wd'[q]) # <<>> => <<q, "w">> \notin wire'
        BY <1>1, <1>3, <1>5, Zenon DEF VenueType
    <2> QED BY <1>1, <1>3, <1>6, <2>1, <2>2, <2>3, <2>4, Zenon DEF VenueType
<1>8. ChainType'
    BY <1>1, Zenon DEF ChainType
<1>9. Others(o)
    <2> SUFFICES ASSUME NEW q \in OpIds, q # o PROVE View(q)' = View(q) /\ child'[q] = child[q]
        BY Zenon DEF Others
    <2>1. xfer'[q] = xfer[q]
        BY <1>1, <1>3, Zenon DEF VenueType
    <2> QED BY <1>1, <1>3, <1>4, <2>1, SameView, Zenon
<1>10. /\ View(o).x = "none" /\ (View(o)').x = "process" /\ (View(o)').b = View(o).b
       /\ (View(o)').live = View(o).live /\ SameChain(View(o), View(o)')
    <2>1. xfer'[o] = "process"
        BY <1>1, <1>3, Zenon DEF VenueType
    <2> QED BY <1>1, <1>3, <2>1, ViewIs, NextViewIs DEF SameChain
<1>11. (View(o)').wire \subseteq View(o).wire
    BY <1>5, Zenon DEF View
<1>12. "w" \in (View(o)').wire <=> "w" \in View(o).wire
    <2>1. <<o, "w">> \in wire' <=> <<o, "w">> \in wire
        BY <1>1, <1>4, Zenon DEF Kinds
    <2> QED BY <2>1, ViewIs, NextViewIs, Zenon DEF Kinds
<1>13. Holds(journal[o], Claim(journal[o]), View(o))
    BY Zenon DEF Facts, Truthful
<1>14. /\ Holds(journal[o], Claim(journal[o]), View(o)')
       /\ ~OnMaster(View(o)) /\ ~OnMaster(View(o)')
    BY <1>10, <1>11, <1>13, <1>TransferTrue, Zenon
<1>15. MasterMoves(o)
    BY <1>3, <1>14, Zenon DEF MasterMoves
<1>16. Facts'
    BY <1>1, <1>7, <1>8, <1>9, <1>14, <1>15, VenueFacts, Zenon
<1> QED BY <1>9, <1>10, <1>12, <1>16, Zenon

\* Binance accepts the return.
LEMMA ReturnAccepted ==
  \A o \in DOMAIN journal :
    /\ Facts /\ UNCHANGED <<journal, chain>> /\ AcceptReturn(o)
    /\ Allowed("r", Claim(journal[o]), View(o))
    /\ WireAfter(o, "r") /\ HiddenAfter(o, "r")
    => /\ Facts' /\ Others(o) /\ (View(o)').live = View(o).live
       /\ "w" \in (View(o)').wire <=> "w" \in View(o).wire
\* An accepted return: the unit was on the master account.
<1>ReturnTrue.
  \A op, p, v, u :
    /\ Holds(op, p, v) /\ SameChain(v, u) /\ p.st \in Returning
    /\ v.b = "none" /\ u.b = "process" /\ u.x = v.x /\ u.live = v.live /\ u.wire \subseteq v.wire
    => Holds(op, p, u) /\ OnMaster(v) /\ ~OnMaster(u)
    <2> SUFFICES ASSUME NEW op, NEW p, NEW v, NEW u,
                        Holds(op, p, v), SameChain(v, u), p.st \in Returning,
                        v.b = "none", u.b = "process", u.x = v.x, u.live = v.live,
                        u.wire \subseteq v.wire
                 PROVE  Holds(op, p, u) /\ OnMaster(v) /\ ~OnMaster(u)
        BY Zenon
    <2>1. Unsent(v) /\ op.dir = "b2w" /\ v.x = "success"
        BY Zenon DEF Holds, Lawful, WithdrawalTrue, Staged, Returning, Bridging
    <2>2. p.st \in {"ReturnStarted", "ReturnSubmitted"}
        BY Zenon DEF Holds, WithdrawalTrue, Returning
    <2>3. OnMaster(v) /\ ~OnMaster(u)
        BY <2>1, Zenon DEF OnMaster, Unsent
    <2>4. Unsent(u)
        BY <2>1, Zenon DEF Unsent
    <2>5. ChainTrue(op, p, u) /\ Lawful(op, p)
        BY Zenon DEF Holds, ChainTrue, SameChain
    <2>6. WithdrawalTrue(op, p, u)
        BY <2>1, <2>2, <2>4, Zenon DEF WithdrawalTrue, Returning, Bridging, Staged
    <2> QED BY <2>3, <2>5, <2>6, Zenon DEF Holds
<1> SUFFICES ASSUME NEW o \in DOMAIN journal, Facts, UNCHANGED <<journal, chain>>,
                    AcceptReturn(o), Allowed("r", Claim(journal[o]), View(o)),
                    WireAfter(o, "r"), HiddenAfter(o, "r")
             PROVE  /\ Facts' /\ Others(o) /\ (View(o)').live = View(o).live
                    /\ "w" \in (View(o)').wire <=> "w" \in View(o).wire
    BY Zenon
<1>1. /\ VenueType /\ ChainType /\ o \in OpIds /\ journal[o] \in OpType
      /\ child' = child /\ fill' = fill /\ dep' = dep /\ journal' = journal
    BY OpsAre, Zenon DEF Facts, chain
<1>2. journal[o].token \in Tokens
    BY <1>1, Zenon DEF OpType
<1>3. /\ back[o] = "none" /\ back' = [back EXCEPT ![o] = "process"]
      /\ master[journal[o].token] > 0
      /\ master' = [master EXCEPT ![journal[o].token] = @ - 1]
      /\ trading' = trading /\ xfer' = xfer /\ wd' = wd
    BY Zenon DEF AcceptReturn, Debit, TokenOf
<1>4. \A q \in OpIds : \A k \in Kinds : q # o \/ k # "r" => (<<q, k>> \in wire' <=> <<q, k>> \in wire)
    BY Zenon DEF WireAfter
<1>5. wire' \subseteq wire
    BY Zenon DEF WireAfter
<1>6. hidden' \subseteq OpIds \X Kinds
    BY <1>1 DEF HiddenAfter, VenueType, Kinds
<1>7. VenueType'
    <2>1. master' \in [Tokens -> Nat]
        BY <1>1, <1>2, <1>3 DEF VenueType
    <2>2. back' \in [OpIds -> TransferStates]
        BY <1>1, <1>3, Zenon DEF VenueType, TransferStates
    <2>3. wire' \subseteq OpIds \X Kinds
        BY <1>1, <1>5, Zenon DEF VenueType
    <2>4. \A q \in OpIds : LiveOf(wd'[q]) # <<>> => <<q, "w">> \notin wire'
        BY <1>1, <1>3, <1>5, Zenon DEF VenueType
    <2> QED BY <1>1, <1>3, <1>6, <2>1, <2>2, <2>3, <2>4, Zenon DEF VenueType
<1>8. ChainType'
    BY <1>1, Zenon DEF ChainType
<1>9. Others(o)
    <2> SUFFICES ASSUME NEW q \in OpIds, q # o PROVE View(q)' = View(q) /\ child'[q] = child[q]
        BY Zenon DEF Others
    <2>1. back'[q] = back[q]
        BY <1>1, <1>3, ZenonT(30) DEF VenueType
    <2> QED BY <1>1, <1>3, <1>4, <2>1, SameView, Zenon
<1>10. /\ View(o).b = "none" /\ (View(o)').b = "process" /\ (View(o)').x = View(o).x
       /\ (View(o)').live = View(o).live /\ SameChain(View(o), View(o)')
    <2>1. back'[o] = "process"
        BY <1>1, <1>3, Zenon DEF VenueType
    <2> QED BY <1>1, <1>3, <2>1, ViewIs, NextViewIs DEF SameChain
<1>11. (View(o)').wire \subseteq View(o).wire
    BY <1>5, Zenon DEF View
<1>12. "w" \in (View(o)').wire <=> "w" \in View(o).wire
    <2>1. <<o, "w">> \in wire' <=> <<o, "w">> \in wire
        BY <1>1, <1>4, Zenon DEF Kinds
    <2> QED BY <2>1, ViewIs, NextViewIs, Zenon DEF Kinds
<1>13. Holds(journal[o], Claim(journal[o]), View(o)) /\ Claim(journal[o]).st \in Returning
    BY Zenon DEF Facts, Truthful, Allowed
<1>14. /\ Holds(journal[o], Claim(journal[o]), View(o)')
       /\ OnMaster(View(o)) /\ ~OnMaster(View(o)')
    BY <1>10, <1>11, <1>13, <1>ReturnTrue, Zenon
<1>15. MasterMoves(o)
    BY <1>3, <1>14, Zenon DEF MasterMoves
<1>16. Facts'
    BY <1>1, <1>7, <1>8, <1>9, <1>14, <1>15, VenueFacts, Zenon
<1> QED BY <1>9, <1>10, <1>12, <1>16, Zenon

\* Binance accepts the withdrawal, which no other one precedes.
LEMMA WithdrawalAccepted ==
  \A o \in DOMAIN journal :
    /\ Facts /\ UNCHANGED <<journal, chain>> /\ AcceptWithdrawal(o)
    /\ Allowed("w", Claim(journal[o]), View(o))
    /\ WireAfter(o, "w") /\ HiddenAfter(o, "w") /\ <<o, "w">> \notin wire'
    => Facts' /\ Others(o) /\ (View(o)').live # <<>>
\* An accepted withdrawal: it was announced, and the unit was on the master
\* account.
<1>WithdrawalIsTrue.
  \A op, p, v, u :
    /\ Holds(op, p, v) /\ SameChain(v, u) /\ Allowed("w", p, v)
    /\ u.live = <<"processing">> /\ u.b = v.b /\ u.x = v.x /\ u.wire \subseteq v.wire
    => Holds(op, p, u) /\ OnMaster(v) /\ ~OnMaster(u)
    <2> SUFFICES ASSUME NEW op, NEW p, NEW v, NEW u,
                        Holds(op, p, v), SameChain(v, u), Allowed("w", p, v),
                        u.live = <<"processing">>, u.b = v.b, u.x = v.x, u.wire \subseteq v.wire
                 PROVE  Holds(op, p, u) /\ OnMaster(v) /\ ~OnMaster(u)
        BY Zenon
    <2>1. p.st = "SubmissionStarted" /\ p.mode # "required" /\ v.live = <<>>
        BY Zenon DEF Allowed
    <2>2. op.dir = "b2w" /\ v.x = "success" /\ v.b = "none" /\ "r" \notin v.wire
        BY <2>1, Zenon DEF Holds, Lawful, WithdrawalTrue, Staged, Returning
    <2>3. OnMaster(v) /\ ~OnMaster(u)
        <3>1. <<"processing">> # <<>> /\ <<"processing">> # <<"failed">>
            BY Zenon
        <3> QED BY <2>1, <2>2, <3>1, Zenon DEF OnMaster
    <2>4. ChainTrue(op, p, u) /\ Lawful(op, p)
        BY Zenon DEF Holds, ChainTrue, SameChain
    <2>5. WithdrawalTrue(op, p, u)
        BY <2>1, <2>2, Zenon DEF WithdrawalTrue, Returning, Bridging, Staged
    <2> QED BY <2>3, <2>4, <2>5, Zenon DEF Holds
<1> SUFFICES ASSUME NEW o \in DOMAIN journal, Facts, UNCHANGED <<journal, chain>>,
                    AcceptWithdrawal(o), Allowed("w", Claim(journal[o]), View(o)),
                    WireAfter(o, "w"), HiddenAfter(o, "w"), <<o, "w">> \notin wire'
             PROVE  Facts' /\ Others(o) /\ (View(o)').live # <<>>
    BY Zenon
<1>1. /\ VenueType /\ ChainType /\ o \in OpIds /\ journal[o] \in OpType
      /\ child' = child /\ fill' = fill /\ dep' = dep /\ journal' = journal
    BY OpsAre, Zenon DEF Facts, chain
<1>2. journal[o].token \in Tokens
    BY <1>1, Zenon DEF OpType
<1> DEFINE s == Append(wd[o], "processing")
<1>3. /\ wd' = [wd EXCEPT ![o] = s]
      /\ master[journal[o].token] > 0
      /\ master' = [master EXCEPT ![journal[o].token] = @ - 1]
      /\ trading' = trading /\ xfer' = xfer /\ back' = back
    BY Zenon DEF AcceptWithdrawal, Debit, TokenOf
<1>a. LiveOf(wd[o]) = <<>> /\ wd[o] \in Withdrawals
    BY <1>1, ViewIs, Zenon DEF Allowed, VenueType
<1>b. s \in Withdrawals /\ LiveOf(s) = <<"processing">>
    BY <1>a, LiveOfIs, Zenon
<1> HIDE DEF s
<1>4. \A q \in OpIds : \A k \in Kinds : q # o \/ k # "w" => (<<q, k>> \in wire' <=> <<q, k>> \in wire)
    BY Zenon DEF WireAfter
<1>5. wire' \subseteq wire
    BY Zenon DEF WireAfter
<1>6. hidden' \subseteq OpIds \X Kinds
    BY <1>1 DEF HiddenAfter, VenueType, Kinds
<1>c. wd' \in [OpIds -> Withdrawals] /\ wd'[o] = s /\ \A q \in OpIds : q # o => wd'[q] = wd[q]
    BY <1>1, <1>3, <1>b, Zenon DEF VenueType
<1>7. VenueType'
    <2>1. master' \in [Tokens -> Nat]
        BY <1>1, <1>2, <1>3 DEF VenueType
    <2>3. wire' \subseteq OpIds \X Kinds
        BY <1>1, <1>5, Zenon DEF VenueType
    <2>4. ASSUME NEW q \in OpIds, LiveOf(wd'[q]) # <<>> PROVE <<q, "w">> \notin wire'
        <3>1. CASE q # o
            <4>1. <<q, "w">> \notin wire
                BY <1>1, <1>c, <2>4, <3>1, Zenon DEF VenueType
            <4> QED BY <1>5, <4>1, Zenon
        <3> QED BY <3>1, Zenon
    <2> QED BY <1>1, <1>3, <1>6, <1>c, <2>1, <2>3, <2>4, ZenonT(30) DEF VenueType
<1>8. ChainType'
    BY <1>1, Zenon DEF ChainType
<1>9. Others(o)
    <2> SUFFICES ASSUME NEW q \in OpIds, q # o PROVE View(q)' = View(q) /\ child'[q] = child[q]
        BY Zenon DEF Others
    <2>1. wd'[q] = wd[q]
        BY <1>c, ZenonT(30)
    <2> QED BY <1>1, <1>3, <1>4, <2>1, SameView, Zenon
<1>10. /\ (View(o)').live = <<"processing">> /\ (View(o)').b = View(o).b
       /\ (View(o)').x = View(o).x /\ SameChain(View(o), View(o)')
    BY <1>1, <1>3, <1>b, <1>c, ViewIs, NextViewIs, SMTT(30) DEF SameChain
<1>11. (View(o)').wire \subseteq View(o).wire
    BY <1>5, Zenon DEF View
<1>13. Holds(journal[o], Claim(journal[o]), View(o))
    BY Zenon DEF Facts, Truthful
<1>14. /\ Holds(journal[o], Claim(journal[o]), View(o)')
       /\ OnMaster(View(o)) /\ ~OnMaster(View(o)')
    BY <1>10, <1>11, <1>13, <1>WithdrawalIsTrue, Zenon
<1>15. MasterMoves(o)
    BY <1>3, <1>14, Zenon DEF MasterMoves
<1>16. Facts'
    BY <1>1, <1>7, <1>8, <1>9, <1>14, <1>15, VenueFacts, Zenon
<1>17. <<"processing">> # <<>>
    BY Zenon
<1> QED BY <1>9, <1>10, <1>16, <1>17, Zenon

\* A request that was not accepted, and may or may not still arrive.
LEMMA NothingAccepted ==
  \A o \in DOMAIN journal : \A k \in Kinds :
    /\ Facts /\ UNCHANGED <<journal, chain>> /\ NotAccepted /\ UNCHANGED hidden
    /\ Allowed(k, Claim(journal[o]), View(o))
    /\ WireAfter(o, k) \/ wire' = wire \cup {<<o, k>>}
    => /\ Facts' /\ Others(o) /\ (View(o)').live = View(o).live
       /\ "w" \in (View(o)').wire => k = "w" \/ "w" \in View(o).wire
\* A request that is lost, or will not arrive any more, when it was announced.
<1>WireTrue.
  \A k \in Kinds : \A op, p, v, u :
    /\ Holds(op, p, v) /\ SameChain(v, u) /\ Allowed(k, p, v)
    /\ u.x = v.x /\ u.b = v.b /\ u.live = v.live /\ u.wire \subseteq v.wire \cup {k}
    => Holds(op, p, u) /\ (OnMaster(u) <=> OnMaster(v))
    <2> SUFFICES ASSUME NEW k \in Kinds, NEW op, NEW p, NEW v, NEW u,
                        Holds(op, p, v), SameChain(v, u), Allowed(k, p, v),
                        u.x = v.x, u.b = v.b, u.live = v.live, u.wire \subseteq v.wire \cup {k}
                 PROVE  Holds(op, p, u) /\ (OnMaster(u) <=> OnMaster(v))
        BY ZenonT(30)
    <2>1. OnMaster(u) <=> OnMaster(v)
        BY Zenon DEF OnMaster
    <2>2. ChainTrue(op, p, u) /\ Lawful(op, p)
        BY Zenon DEF Holds, ChainTrue, SameChain
    <2>3. CASE k = "w"
        <3>1. p.st = "SubmissionStarted" /\ p.mode # "required" /\ v.live = <<>>
            BY <2>3, Zenon DEF Allowed
        <3>2. op.dir = "b2w" /\ v.x = "success" /\ v.b = "none" /\ "r" \notin v.wire
            BY <3>1, Zenon DEF Holds, Lawful, WithdrawalTrue, Staged, Returning
        <3> QED BY <2>1, <2>2, <2>3, <3>1, <3>2, Zenon DEF Holds, WithdrawalTrue, Returning, Bridging, Staged
    <2>4. CASE k # "w"
        <3>1. "w" \in u.wire => "w" \in v.wire
            BY <2>4, Zenon
        <3>2. "r" \in u.wire => "r" \in v.wire \/ p.st \in Returning
            BY <2>4, Zenon DEF Allowed
        <3>3. Unsent(v) => Unsent(u)
            BY <3>1, Zenon DEF Unsent
        <3> QED BY <2>1, <2>2, <3>1, <3>2, <3>3, Zenon DEF Holds, WithdrawalTrue
    <2> QED BY <2>3, <2>4, Zenon
<1> SUFFICES ASSUME NEW o \in DOMAIN journal, NEW k \in Kinds, Facts,
                    UNCHANGED <<journal, chain>>, NotAccepted, UNCHANGED hidden,
                    Allowed(k, Claim(journal[o]), View(o)),
                    WireAfter(o, k) \/ wire' = wire \cup {<<o, k>>}
             PROVE  /\ Facts' /\ Others(o) /\ (View(o)').live = View(o).live
                    /\ "w" \in (View(o)').wire => k = "w" \/ "w" \in View(o).wire
    BY Zenon
<1>1. /\ VenueType /\ ChainType /\ o \in OpIds /\ hidden' = hidden
      /\ child' = child /\ fill' = fill /\ dep' = dep /\ journal' = journal
    BY OpsAre, Zenon DEF Facts, chain
<1>2. trading' = trading /\ master' = master /\ xfer' = xfer /\ back' = back /\ wd' = wd
    BY Zenon DEF NotAccepted
<1>3. wire' \subseteq wire \cup {<<o, k>>}
    BY Zenon DEF WireAfter
<1>4. \A q \in OpIds : \A j \in Kinds : q # o \/ j # k => (<<q, j>> \in wire' <=> <<q, j>> \in wire)
    BY DEF WireAfter
<1>5. VenueType'
    <2>1. wire' \subseteq OpIds \X Kinds
        BY <1>1, <1>3 DEF VenueType
    <2>2. ASSUME NEW q \in OpIds, LiveOf(wd'[q]) # <<>> PROVE <<q, "w">> \notin wire'
        <3>1. LiveOf(wd[q]) # <<>> /\ <<q, "w">> \notin wire
            BY <1>1, <1>2, <2>2, Zenon DEF VenueType
        <3>2. q = o => k # "w"
            BY <3>1, ViewIs, Zenon DEF Allowed
        <3> QED BY <1>4, <3>1, <3>2, Zenon DEF Kinds
    <2> QED BY <1>1, <1>2, <2>1, <2>2, Zenon DEF VenueType
<1>6. ChainType'
    BY <1>1, Zenon DEF ChainType
<1>7. Others(o)
    <2> SUFFICES ASSUME NEW q \in OpIds, q # o PROVE View(q)' = View(q) /\ child'[q] = child[q]
        BY Zenon DEF Others
    <2> QED BY <1>1, <1>2, <1>4, SameView, Zenon
<1>8. /\ (View(o)').b = View(o).b /\ (View(o)').x = View(o).x
      /\ (View(o)').live = View(o).live /\ SameChain(View(o), View(o)')
    BY <1>1, <1>2, ViewIs, NextViewIs DEF SameChain
<1>9. (View(o)').wire \subseteq View(o).wire \cup {k}
    BY <1>3, Zenon DEF View
<1>10. Holds(journal[o], Claim(journal[o]), View(o))
    BY Zenon DEF Facts, Truthful
<1>11. Holds(journal[o], Claim(journal[o]), View(o)') /\ (OnMaster(View(o)') <=> OnMaster(View(o)))
    BY <1>8, <1>9, <1>10, <1>WireTrue, Zenon
<1>12. MasterMoves(o)
    BY <1>2, <1>11, Zenon DEF MasterMoves
<1>13. Facts'
    BY <1>1, <1>5, <1>6, <1>7, <1>11, <1>12, VenueFacts, Zenon
<1> QED BY <1>7, <1>8, <1>9, <1>13, Zenon

\* A request: accepted, refused, or its answer is lost.
LEMMA SendStep ==
  \A k \in Kinds :
    /\ SagaInv /\ w.pc \in Busy /\ Send(k) /\ UNCHANGED <<journal, chain>>
    /\ k = "x" => Now.st = "Intent" /\ Op.dir = "b2w"
    /\ k = "r" => Now.st = "ReturnStarted"
    /\ k = "w" => Now.st = "SubmissionStarted" /\ Now.mode # "required" /\ Unsent(View(w.op))
    => SagaInv'
<1> SUFFICES ASSUME NEW k \in Kinds, SagaInv, w.pc \in Busy, Send(k), UNCHANGED <<journal, chain>>,
                    k = "x" => Now.st = "Intent" /\ Op.dir = "b2w",
                    k = "r" => Now.st = "ReturnStarted",
                    k = "w" => Now.st = "SubmissionStarted" /\ Now.mode # "required" /\ Unsent(View(w.op))
             PROVE  SagaInv'
    BY Zenon
<1>1. /\ w.op \in DOMAIN journal /\ w.op \in OpIds /\ w \in Worker0 /\ Facts
      /\ w.op <= Len(journal) /\ JournalType
    BY OpIs, Zenon DEF SagaInv, WorkerOK, WorkerType, Facts
<1>2. PICK o \in DOMAIN journal : o = w.op
    BY <1>1, Zenon
<1>3. PICK ans \in {"ok", "refused", "lost"}, lag \in BOOLEAN :
        /\ w' = [w EXCEPT !.pc = "answer", !.ans = ans]
        /\ \/ /\ ans \in {"ok", "lost"} /\ Accept(k, w.op)
              /\ hidden' = IF lag THEN hidden \cup {<<w.op, k>>} ELSE hidden
              /\ UNCHANGED wire
           \/ /\ ans = "lost" /\ NotAccepted
              /\ wire' = IF lag THEN wire \cup {<<w.op, k>>} ELSE wire
              /\ UNCHANGED hidden
           \/ ans = "refused" /\ ~lag /\ NotAccepted /\ UNCHANGED <<hidden, wire>>
    BY Zenon DEF Send
<1>4. w' \in Worker0 /\ w'.pc = "answer" /\ w'.op = w.op /\ w'.ans = ans
    <2>1. "answer" \in Places
        BY Zenon DEF Places, Busy, Sending
    <2> QED BY <1>1, <1>3, <2>1, Zenon DEF Worker0
<1>5. Now.st # "Quarantined" /\ Now = journal[o].progress /\ Op = journal[o]
    BY <1>2, Zenon DEF Now, Op, Kinds
<1>6. Claim(journal[o]) = Now
    BY <1>5, Zenon DEF Claim
<1>7. Allowed(k, Claim(journal[o]), View(o)) /\ (k = "w" => <<o, "w">> \notin wire)
    BY <1>2, <1>6, ViewIs, Zenon DEF Allowed, Unsent, Returning, Kinds
<1>8. ASSUME ans \in {"ok", "lost"}, Accept(k, o), HiddenAfter(o, k), wire' = wire
      PROVE  Facts' /\ (k = "w" => (View(o)').live # <<>>)
    <2>1. WireAfter(o, k)
        BY <1>8, Zenon DEF WireAfter
    <2>2. CASE k = "x"
        <3>1. AcceptTransfer(o)
            BY <1>8, <2>2, Zenon DEF Accept
        <3> QED BY <1>1, <1>8, <2>1, <2>2, <3>1, TransferAccepted, Zenon
    <2>3. CASE k = "r"
        <3>1. AcceptReturn(o)
            BY <1>8, <2>3, Zenon DEF Accept
        <3> QED BY <1>1, <1>7, <1>8, <2>1, <2>3, <3>1, ReturnAccepted, Zenon
    <2>4. CASE k = "w"
        <3>1. AcceptWithdrawal(o) /\ <<o, "w">> \notin wire'
            BY <1>7, <1>8, <2>4, Zenon DEF Accept
        <3> QED BY <1>1, <1>7, <1>8, <2>1, <2>4, <3>1, WithdrawalAccepted, Zenon
    <2> QED BY <2>2, <2>3, <2>4, Zenon DEF Kinds
<1>9. ASSUME NotAccepted, UNCHANGED hidden, wire' = wire \/ wire' = wire \cup {<<o, k>>}
      PROVE  Facts'
    BY <1>1, <1>7, <1>9, NothingAccepted, Zenon DEF WireAfter
<1>10. ASSUME NotAccepted, UNCHANGED <<hidden, wire>>
       PROVE  View(o)' = View(o)
    <2>1. UNCHANGED <<venue, chain>>
        BY <1>10, Zenon DEF NotAccepted, venue
    <2> QED BY <1>1, <1>2, <2>1, StillStep, Zenon DEF Still
<1>11. /\ Facts'
       /\ k = "w" /\ ans = "ok" => (View(o)').live # <<>>
       /\ ans = "refused" => View(o)' = View(o)
    <2>1. CASE /\ ans \in {"ok", "lost"} /\ Accept(k, w.op)
               /\ hidden' = IF lag THEN hidden \cup {<<w.op, k>>} ELSE hidden
               /\ UNCHANGED wire
        <3>1. Accept(k, o) /\ HiddenAfter(o, k) /\ wire' = wire
            BY <1>2, <2>1, Zenon DEF HiddenAfter
        <3> QED BY <1>8, <2>1, <3>1, Zenon
    <2>2. CASE /\ ans = "lost" /\ NotAccepted
               /\ wire' = IF lag THEN wire \cup {<<w.op, k>>} ELSE wire
               /\ UNCHANGED hidden
        <3>1. wire' = wire \/ wire' = wire \cup {<<o, k>>}
            BY <1>2, <2>2, Zenon
        <3> QED BY <1>9, <2>2, <3>1, Zenon
    <2>3. CASE ans = "refused" /\ ~lag /\ NotAccepted /\ UNCHANGED <<hidden, wire>>
        <3>1. wire' = wire /\ hidden' = hidden
            BY <2>3, Zenon
        <3> QED BY <1>9, <1>10, <2>3, <3>1, Zenon
    <2> QED BY <1>3, <2>1, <2>2, <2>3, Zenon
<1>12. SameOps(w.op)
    BY <1>1, Zenon DEF SameOps, JournalType
<1>13. WorkerType' /\ OneActive'
    <2>1. "answer" \in Busy
        BY Zenon DEF Busy, Sending
    <2> QED BY <1>4, <1>12, <2>1, BusyStep, Zenon
<1>14. Op' = Op /\ View(w.op)' = View(o)'
    BY <1>2, <1>4, Zenon DEF Op, View
<1>15. Ready(w', Op, View(o)')
    BY <1>2, <1>4, <1>5, <1>11, Zenon DEF Ready, Kinds, Now
<1>16. SendingOK'
    BY <1>14, <1>15, Zenon DEF SendingOK
<1>17. CallingOK'
    BY <1>4, Zenon DEF CallingOK, CallFor, Calling
<1> QED BY <1>11, <1>13, <1>16, <1>17, Zenon DEF SagaInv, WorkerOK

\* The transfer request.
LEMMA TransferSent == SagaInv /\ SendTransfer => SagaInv'
<1> SUFFICES ASSUME SagaInv, SendTransfer PROVE SagaInv'
    BY Zenon
<1>1. w.pc = "send_x" /\ Send("x") /\ UNCHANGED <<journal, chain>>
    BY Zenon DEF SendTransfer, LeavesRest
<1>2. w.pc \in Busy /\ Now.st = "Intent" /\ Op.dir = "b2w" /\ "x" \in Kinds
    BY <1>1, Zenon DEF SagaInv, WorkerOK, SendingOK, Ready, Now, Busy, Sending, Kinds
<1>3. "x" # "r" /\ "x" # "w"
    BY Zenon
<1> QED BY <1>1, <1>2, <1>3, SendStep, Zenon

\* The withdrawal request.
LEMMA WithdrawalSent == SagaInv /\ SendWithdrawal => SagaInv'
<1> SUFFICES ASSUME SagaInv, SendWithdrawal PROVE SagaInv'
    BY Zenon
<1>1. w.pc = "send_w" /\ Send("w") /\ UNCHANGED <<journal, chain>>
    BY Zenon DEF SendWithdrawal, LeavesRest
<1>2. /\ w.pc \in Busy /\ Now.st = "SubmissionStarted" /\ Now.mode # "required"
      /\ Unsent(View(w.op)) /\ "w" \in Kinds
    BY <1>1, Zenon DEF SagaInv, WorkerOK, SendingOK, Ready, Now, Busy, Sending, Kinds
<1>3. "w" # "r" /\ "w" # "x"
    BY Zenon
<1> QED BY <1>1, <1>2, <1>3, SendStep, Zenon

\* The return request, when the master account can pay for it.
LEMMA ReturnSent == SagaInv /\ SendReturn => SagaInv'
<1> SUFFICES ASSUME SagaInv, SendReturn PROVE SagaInv'
    BY Zenon
<1>1. /\ w.pc = "send_r" /\ UNCHANGED <<journal, chain>>
      /\ \/ Send("r")
         \/ Fail("other") /\ UNCHANGED venue
    BY Zenon DEF SendReturn, LeavesRest
<1>2. w.pc \in Busy /\ Now.st = "ReturnStarted" /\ "r" \in Kinds
    BY <1>1, Zenon DEF SagaInv, WorkerOK, SendingOK, Ready, Now, Busy, Sending, Kinds
<1>3. "r" # "x" /\ "r" # "w"
    BY Zenon
<1>4. CASE Send("r")
    BY <1>1, <1>2, <1>3, <1>4, SendStep, Zenon
<1>5. CASE Fail("other") /\ UNCHANGED venue
    <2>1. Still
        BY <1>1, <1>5, StillStep, Zenon DEF SagaInv
    <2> QED BY <1>1, <1>2, <1>5, <2>1, FailOther, Zenon
<1> QED BY <1>1, <1>4, <1>5, Zenon

-----------------------------------------------------------------------------
(* The venues move on their own, while the worker is anywhere.              *)

\* What the worker has made sure of stays so.
Onward(q) ==
  /\ View(q).live # <<>> => (View(q)').live # <<>>
  /\ Unsent(View(q)) => Unsent(View(q)')
  /\ \A c \in Children : child[q][c].st = "mined" => child'[q][c].st = "mined"

\* So a step of the venues that keeps the facts keeps the invariant.
LEMMA WorkerWaits ==
  SagaInv /\ Facts' /\ UNCHANGED <<journal, w>> /\ (\A q \in OpIds : Onward(q)) => SagaInv'
<1> SUFFICES ASSUME SagaInv, Facts', UNCHANGED <<journal, w>>, \A q \in OpIds : Onward(q)
             PROVE  SagaInv'
    BY Zenon
<1>1. journal' = journal /\ w' = w
    BY Zenon
<1>2. WorkerType' /\ OneActive'
    BY <1>1, Zenon DEF SagaInv, WorkerOK, WorkerType, OneActive, ActiveOps
<1>3. Op' = Op
    BY <1>1, Zenon DEF Op
<1>4. CASE w.pc \notin Sending \cup Calling
    BY <1>1, <1>2, <1>4, QuietPlaces, Zenon DEF SagaInv, WorkerOK
<1>5. CASE w.pc \in Sending \cup Calling
    <2>1. w.op \in OpIds
        BY <1>5, OpIs, Zenon DEF Busy
    <2>2. PICK q \in OpIds : q = w.op
        BY <2>1, Zenon
    <2>3. View(w.op)' = View(q)' /\ View(w.op) = View(q)
        BY <1>1, <2>2, Zenon DEF View
    <2>4. Ready(w, Op, View(q))
        BY <2>3, Zenon DEF SagaInv, WorkerOK, SendingOK
    <2>5. Ready(w, Op, View(q)')
        BY <2>4, Zenon DEF Ready, Onward
    <2>6. SendingOK'
        BY <1>1, <1>3, <2>3, <2>5, Zenon DEF SendingOK
    <2>7. CallFor(w, Op, child[q][w.c].st)
        BY <2>2, Zenon DEF SagaInv, WorkerOK, CallingOK, Tx
    <2>8. CallFor(w, Op, child'[q][w.c].st)
        BY <2>7, Zenon DEF CallFor, Onward, Children
    <2>9. CallingOK'
        BY <1>1, <1>3, <2>2, <2>8, Zenon DEF CallingOK, Tx
    <2> QED BY <1>2, <2>6, <2>9, Zenon DEF SagaInv, WorkerOK
<1> QED BY <1>4, <1>5, Zenon

\* A history catches up.
LEMMA Indexed == SagaInv /\ Index => SagaInv'
<1> SUFFICES ASSUME SagaInv, Index PROVE SagaInv'
    BY Zenon
<1>1. /\ journal' = journal /\ w' = w /\ trading' = trading /\ master' = master /\ xfer' = xfer
      /\ back' = back /\ wd' = wd /\ wire' = wire /\ child' = child /\ fill' = fill /\ dep' = dep
      /\ hidden' \subseteq hidden
    BY Zenon DEF Index, LeavesRest, chain
<1>2. VenueType /\ ChainType /\ Facts /\ JournalType
    BY Zenon DEF SagaInv, Facts
<1>3. VenueType' /\ ChainType'
    BY <1>1, <1>2, Zenon DEF VenueType, ChainType
<1>4. \A q \in OpIds : View(q)' = View(q)
    BY <1>1, Zenon DEF View
<1>5. Still
    BY <1>1, <1>3, <1>4, Zenon DEF Still
<1>6. Facts'
    <2>1. journal' \in Seq(OpType) /\ Len(journal') = Len(journal)
        BY <1>1, <1>2, Zenon DEF JournalType
    <2>2. \A q \in DOMAIN journal : /\ journal'[q].token = journal[q].token
                                    /\ Holds(journal'[q], Claim(journal'[q]), View(q))
        BY <1>1, <1>2, Zenon DEF Facts, Truthful
    <2> QED BY <1>2, <1>5, <2>1, <2>2, FactsMove, Zenon
<1>7. \A q \in OpIds : Onward(q)
    BY <1>1, <1>4, Zenon DEF Onward
<1> QED BY <1>1, <1>6, <1>7, WorkerWaits, Zenon

\* A request arrives late, or never.
LEMMA Arrived == SagaInv /\ Arrive => SagaInv'
\* What is on the wire was announced.
<1>OnWire.
  \A o \in OpIds : \A k \in Kinds :
    Facts /\ <<o, k>> \in wire =>
      o \in DOMAIN journal /\ Allowed(k, Claim(journal[o]), View(o))
    <2> SUFFICES ASSUME NEW o \in OpIds, NEW k \in Kinds, Facts, <<o, k>> \in wire
                 PROVE  o \in DOMAIN journal /\ Allowed(k, Claim(journal[o]), View(o))
        BY Zenon
    <2>1. k \in View(o).wire
        BY ViewIs, Zenon
    <2>2. o \in DOMAIN journal
        BY <2>1, Zenon DEF Facts, Untouched
    <2>3. Holds(journal[o], Claim(journal[o]), View(o))
        BY <2>2, Zenon DEF Facts, Truthful
    <2>4. View(o).live # <<>> => "w" \notin View(o).wire
        BY ViewType, Zenon DEF Facts
    <2>5. <<"done">> # <<>>
        BY Zenon
    <2> QED BY <2>1, <2>2, <2>3, <2>4, <2>5, Zenon
            DEF Allowed, Holds, WithdrawalTrue, Unsent, Bridging, Returning
<1> SUFFICES ASSUME SagaInv, Arrive PROVE SagaInv'
    BY Zenon
<1>1. UNCHANGED <<journal, chain>> /\ UNCHANGED <<journal, w>> /\ Facts /\ child' = child
    BY Zenon DEF Arrive, LeavesRest, chain, SagaInv
<1>2. PICK r \in wire :
        /\ wire' = wire \ {r}
        /\ \/ Accept(r[2], r[1]) /\ hidden' = hidden \cup {r}
           \/ NotAccepted /\ UNCHANGED hidden
    BY Zenon DEF Arrive
<1>3. PICK o \in OpIds, k \in Kinds : r = <<o, k>>
    BY <1>1 DEF Facts, VenueType
<1>4. /\ <<o, k>> \in wire /\ wire' = wire \ {<<o, k>>}
      /\ \/ Accept(k, o) /\ hidden' = hidden \cup {<<o, k>>}
         \/ NotAccepted /\ UNCHANGED hidden
    BY <1>2, <1>3, Zenon
<1>5. o \in DOMAIN journal /\ Allowed(k, Claim(journal[o]), View(o))
    BY <1>1, <1>4, <1>OnWire, Zenon
<1>6. WireAfter(o, k) /\ <<o, k>> \notin wire'
    BY <1>4, Zenon DEF WireAfter
<1>7. /\ Facts' /\ Others(o)
      /\ View(o).live # <<>> => (View(o)').live # <<>>
      /\ Unsent(View(o)) => Unsent(View(o)')
    <2>1. CASE Accept(k, o) /\ hidden' = hidden \cup {<<o, k>>}
        <3>0. HiddenAfter(o, k)
            BY <2>1, Zenon DEF HiddenAfter
        <3>1. CASE k = "x"
            <4>1. AcceptTransfer(o)
                BY <2>1, <3>1, Zenon DEF Accept
            <4>2. /\ Facts' /\ Others(o) /\ (View(o)').live = View(o).live
                  /\ "w" \in (View(o)').wire <=> "w" \in View(o).wire
                BY <1>1, <1>5, <1>6, <3>0, <3>1, <4>1, TransferAccepted, Zenon
            <4> QED BY <4>2, Zenon DEF Unsent
        <3>2. CASE k = "r"
            <4>1. AcceptReturn(o)
                BY <2>1, <3>2, Zenon DEF Accept
            <4>2. /\ Facts' /\ Others(o) /\ (View(o)').live = View(o).live
                  /\ "w" \in (View(o)').wire <=> "w" \in View(o).wire
                BY <1>1, <1>5, <1>6, <3>0, <3>2, <4>1, ReturnAccepted, Zenon
            <4> QED BY <4>2, Zenon DEF Unsent
        <3>3. CASE k = "w"
            <4>1. AcceptWithdrawal(o)
                BY <2>1, <3>3, Zenon DEF Accept
            <4>2. Facts' /\ Others(o) /\ (View(o)').live # <<>>
                BY <1>1, <1>5, <1>6, <3>0, <3>3, <4>1, WithdrawalAccepted, Zenon
            <4>3. ~Unsent(View(o))
                BY <1>4, <3>3, ViewIs, Zenon DEF Unsent, Kinds
            <4> QED BY <4>2, <4>3, Zenon
        <3> QED BY <3>1, <3>2, <3>3, Zenon DEF Kinds
    <2>2. CASE NotAccepted /\ UNCHANGED hidden
        <3>1. /\ Facts' /\ Others(o) /\ (View(o)').live = View(o).live
              /\ "w" \in (View(o)').wire => k = "w" \/ "w" \in View(o).wire
            BY <1>1, <1>5, <1>6, <2>2, NothingAccepted, Zenon
        <3>2. k = "w" => "w" \notin (View(o)').wire
            BY <1>6, NextViewIs, Zenon DEF Kinds
        <3> QED BY <3>1, <3>2, Zenon DEF Unsent
    <2> QED BY <1>4, <2>1, <2>2, Zenon
<1>8. \A q \in OpIds : Onward(q)
    BY <1>1, <1>7, Zenon DEF Onward, Others
<1> QED BY <1>1, <1>7, <1>8, WorkerWaits, Zenon

\* Binance settles a transfer, a return or a withdrawal.
LEMMA Settled == SagaInv /\ Settle => SagaInv'
\* A withdrawal that settles is the one there is.
\* A transfer that is still in process was not relied on.
\* A return that is still in process was not relied on; when it fails, the
\* unit is on the master account again.
\* A withdrawal that is still in process was announced, and not relied on.
<1>WithdrawalSettlesTrue.
  \A op, p, v, u : \A r \in {"done", "failed"} :
    /\ Holds(op, p, v) /\ SameChain(v, u) /\ v.live = <<"processing">> /\ u.live = <<r>>
    /\ u.x = v.x /\ u.b = v.b /\ u.wire = v.wire
    => Holds(op, p, u) /\ ~OnMaster(v) /\ (OnMaster(u) <=> r = "failed")
    <2> SUFFICES ASSUME NEW op, NEW p, NEW v, NEW u, NEW r \in {"done", "failed"},
                        Holds(op, p, v), SameChain(v, u), v.live = <<"processing">>, u.live = <<r>>,
                        u.x = v.x, u.b = v.b, u.wire = v.wire
                 PROVE  Holds(op, p, u) /\ ~OnMaster(v) /\ (OnMaster(u) <=> r = "failed")
        OBVIOUS
    <2>1. /\ <<"processing">> # <<>> /\ <<"processing">> # <<"failed">> /\ <<"processing">> # <<"done">>
          /\ <<r>> # <<>> /\ (<<r>> = <<"failed">> <=> r = "failed")
        <3>1. <<"processing">> # <<>> /\ <<"processing">> # <<"failed">> /\ <<"processing">> # <<"done">>
            BY Zenon
        <3>2. \A e : <<e>> # <<>> /\ <<e>>[1] = e
            BY Zenon
        <3>3. <<r>> = <<"failed">> <=> r = "failed"
            BY <3>2, Zenon
        <3> QED BY <3>1, <3>2, <3>3, Zenon
    <2>2. ~Unsent(v) /\ ~Unsent(u)
        BY <2>1, Zenon DEF Unsent
    <2>3. op.dir = "b2w" /\ p.st \in {"SubmissionStarted", "WithdrawalSubmitted"}
        BY <2>1, <2>2, Zenon DEF Holds, WithdrawalTrue
    <2>4. v.x = "success" /\ v.b = "none"
        BY <2>3, Zenon DEF Holds, WithdrawalTrue, Staged, Returning
    <2>5. ~OnMaster(v) /\ (OnMaster(u) <=> r = "failed")
        BY <2>1, <2>4, Zenon DEF OnMaster
    <2>6. ChainTrue(op, p, u) /\ Lawful(op, p)
        BY Zenon DEF Holds, ChainTrue, SameChain
    <2>7. WithdrawalTrue(op, p, u)
        BY <2>1, <2>2, <2>3, Zenon DEF Holds, WithdrawalTrue, Bridging
    <2> QED BY <2>5, <2>6, <2>7, Zenon DEF Holds
<1>ReturnSettlesTrue.
  \A op, p, v, u :
    /\ Holds(op, p, v) /\ SameChain(v, u) /\ v.b = "process"
    /\ u.b \in {"success", "failed"} /\ u.x = v.x /\ u.live = v.live /\ u.wire = v.wire
    => Holds(op, p, u) /\ ~OnMaster(v) /\ (OnMaster(u) <=> u.b = "failed")
    <2> SUFFICES ASSUME NEW op, NEW p, NEW v, NEW u,
                        Holds(op, p, v), SameChain(v, u), v.b = "process",
                        u.b \in {"success", "failed"}, u.x = v.x, u.live = v.live, u.wire = v.wire
                 PROVE  Holds(op, p, u) /\ ~OnMaster(v) /\ (OnMaster(u) <=> u.b = "failed")
        BY Zenon
    <2>1. p.st \in Returning /\ p.st # "CancelledStale"
        BY Zenon DEF Holds, WithdrawalTrue
    <2>2. v.x = "success" /\ Unsent(v)
        BY <2>1, Zenon DEF Holds, Lawful, WithdrawalTrue, Staged, Returning, Bridging
    <2>3. ~OnMaster(v) /\ (OnMaster(u) <=> u.b = "failed")
        BY <2>2, Zenon DEF OnMaster, Unsent
    <2>4. ChainTrue(op, p, u) /\ Lawful(op, p)
        BY Zenon DEF Holds, ChainTrue, SameChain
    <2>5. Unsent(u) <=> Unsent(v)
        BY Zenon DEF Unsent
    <2>6. WithdrawalTrue(op, p, u)
        BY <2>1, <2>5, Zenon DEF Holds, WithdrawalTrue
    <2> QED BY <2>3, <2>4, <2>6, Zenon DEF Holds
<1>TransferSettlesTrue.
  \A op, p, v, u :
    /\ Holds(op, p, v) /\ SameChain(v, u) /\ v.x = "process"
    /\ u.x \in {"success", "failed"} /\ u.b = v.b /\ u.live = v.live /\ u.wire = v.wire
    => Holds(op, p, u) /\ ~OnMaster(v) /\ (OnMaster(u) <=> u.x = "success")
    <2> SUFFICES ASSUME NEW op, NEW p, NEW v, NEW u,
                        Holds(op, p, v), SameChain(v, u), v.x = "process",
                        u.x \in {"success", "failed"}, u.b = v.b, u.live = v.live, u.wire = v.wire
                 PROVE  Holds(op, p, u) /\ ~OnMaster(v) /\ (OnMaster(u) <=> u.x = "success")
        BY Zenon
    <2>1. v.b = "none"
        BY Zenon DEF Holds, Lawful, WithdrawalTrue, Staged, Returning
    <2>2. v.live \in {<<>>, <<"failed">>}
        BY Zenon DEF Holds, Lawful, WithdrawalTrue, Staged, Returning, Bridging, Unsent
    <2>3. ~OnMaster(v) /\ (OnMaster(u) <=> u.x = "success")
        BY <2>1, <2>2, Zenon DEF OnMaster
    <2>4. ChainTrue(op, p, u) /\ Lawful(op, p)
        BY Zenon DEF Holds, ChainTrue, SameChain
    <2>5. Unsent(u) <=> Unsent(v)
        BY Zenon DEF Unsent
    <2>6. WithdrawalTrue(op, p, u)
        BY <2>5, Zenon DEF Holds, WithdrawalTrue
    <2> QED BY <2>3, <2>4, <2>6, Zenon DEF Holds
<1>LiveOfSettles.
  \A s \in Withdrawals : \A i \in DOMAIN s : \A r \in {"done", "failed"} :
    s[i] = "processing" =>
      /\ LiveOf(s) = <<"processing">>
      /\ [s EXCEPT ![i] = r] \in Withdrawals
      /\ LiveOf([s EXCEPT ![i] = r]) = <<r>>
    <2> SUFFICES ASSUME NEW s \in Withdrawals, NEW i \in DOMAIN s, NEW r \in {"done", "failed"},
                        s[i] = "processing"
                 PROVE  /\ LiveOf(s) = <<"processing">>
                        /\ [s EXCEPT ![i] = r] \in Withdrawals
                        /\ LiveOf([s EXCEPT ![i] = r]) = <<r>>
        BY Zenon
    <2>1. s # <<>> /\ s # <<"dead">>
        OBVIOUS
    <2>2. CASE \E l \in LiveStates : s = <<l>>
        <3>1. s = <<"processing">> /\ i = 1
            BY <2>2
        <3>2. [s EXCEPT ![i] = r] = <<r>>
            BY <3>1
        <3> QED BY <3>1, <3>2, Zenon DEF LiveOf, Withdrawals, LiveStates
    <2>3. CASE \E l \in LiveStates : s = <<"dead", l>>
        <3>1. s = <<"dead", "processing">> /\ i = 2
            BY <2>3
        <3>2. [s EXCEPT ![i] = r] = <<"dead", r>>
            BY <3>1
        <3>3. LiveOf(<<"dead", r>>) = <<r>> /\ LiveOf(s) = <<"processing">>
            BY <3>1 DEF LiveOf
        <3> QED BY <3>2, <3>3, Zenon DEF Withdrawals, LiveStates
    <2> QED BY <2>1, <2>2, <2>3, Zenon DEF Withdrawals
<1> SUFFICES ASSUME SagaInv, Settle PROVE SagaInv'
    BY Zenon
<1>1. /\ journal' = journal /\ w' = w /\ hidden' = hidden /\ wire' = wire
      /\ child' = child /\ fill' = fill /\ dep' = dep
    BY Zenon DEF Settle, LeavesRest, chain
<1>2. VenueType /\ ChainType /\ Facts /\ JournalType
    BY Zenon DEF SagaInv, Facts
<1>3. PICK o \in OpIds : SettleTransfer(o) \/ SettleReturn(o) \/ SettleWithdrawal(o)
    BY Zenon DEF Settle
<1>4. xfer[o] # "none" \/ back[o] # "none" \/ LiveOf(wd[o]) # <<>> => o \in DOMAIN journal
    BY <1>2, ViewIs, Zenon DEF Facts, Untouched
<1>5. ChainType'
    BY <1>1, <1>2, Zenon DEF ChainType
<1>6. o \in DOMAIN journal =>
        journal[o] \in OpType /\ journal[o].token \in Tokens
        /\ Holds(journal[o], Claim(journal[o]), View(o))
    <2>1. o \in DOMAIN journal => journal[o] \in OpType
        BY <1>2, OpsAre, Zenon
    <2> QED BY <1>2, <2>1, Zenon DEF OpType, Facts, Truthful
<1>7. \A q \in OpIds : (View(q)').wire = View(q).wire
    BY <1>1, Zenon DEF View
<1>8. ASSUME o \in DOMAIN journal, VenueType', Others(o), MasterMoves(o),
             Holds(journal[o], Claim(journal[o]), View(o)'),
             View(o).live # <<>> => (View(o)').live # <<>>,
             View(o).live = <<>> => (View(o)').live = <<>>
      PROVE  SagaInv'
    <2>1. Facts'
        BY <1>1, <1>2, <1>5, <1>8, VenueFacts, Zenon
    <2>2. \A q \in OpIds : Onward(q)
        BY <1>1, <1>7, <1>8 DEF Onward, Others, Unsent
    <2> QED BY <1>1, <2>1, <2>2, WorkerWaits, Zenon
<1>9. CASE SettleTransfer(o)
    <2>1. PICK st \in {"success", "failed"} :
            /\ xfer' = [xfer EXCEPT ![o] = st]
            /\ \/ /\ st = "success" /\ trading' = trading
                  /\ master' = [master EXCEPT ![journal[o].token] = @ + 1]
               \/ /\ st = "failed" /\ master' = master
                  /\ trading' = [trading EXCEPT ![journal[o].token] = @ + 1]
        BY <1>9, Zenon DEF SettleTransfer, Credit, TokenOf
    <2>2. xfer[o] = "process" /\ back' = back /\ wd' = wd
        BY <1>9, Zenon DEF SettleTransfer
    <2>3. o \in DOMAIN journal
        BY <1>4, <2>2, Zenon
    <2>4. xfer' \in [OpIds -> TransferStates] /\ xfer'[o] = st
        BY <1>2, <2>1, Zenon DEF VenueType, TransferStates
    <2>5. trading' \in [Tokens -> Nat] /\ master' \in [Tokens -> Nat]
        <3>1. journal[o].token \in Tokens /\ trading \in [Tokens -> Nat] /\ master \in [Tokens -> Nat]
            BY <1>2, <1>6, <2>3, Zenon DEF VenueType
        <3>2. CASE trading' = trading
            BY <2>1, <3>1, <3>2, SMTT(30)
        <3>3. CASE master' = master
            BY <2>1, <3>1, <3>3
        <3> QED BY <2>1, <3>2, <3>3, Zenon
    <2>6. VenueType'
        BY <1>1, <1>2, <2>2, <2>4, <2>5, Zenon DEF VenueType
    <2>7. Others(o)
        <3> SUFFICES ASSUME NEW q \in OpIds, q # o PROVE View(q)' = View(q) /\ child'[q] = child[q]
            BY Zenon DEF Others
        <3>1. xfer'[q] = xfer[q]
            BY <1>2, <2>1, ZenonT(30) DEF VenueType
        <3> QED BY <1>1, <2>2, <3>1, SameView, Zenon
    <2>8. /\ View(o).x = "process" /\ (View(o)').x = st /\ (View(o)').b = View(o).b
          /\ (View(o)').live = View(o).live /\ (View(o)').wire = View(o).wire
          /\ SameChain(View(o), View(o)')
        BY <1>1, <1>7, <2>2, <2>4, ViewIs, NextViewIs, SMTT(30) DEF SameChain
    <2>9. /\ Holds(journal[o], Claim(journal[o]), View(o)')
          /\ ~OnMaster(View(o)) /\ (OnMaster(View(o)') <=> st = "success")
        BY <1>6, <2>3, <2>8, <1>TransferSettlesTrue, Zenon
    <2>10. MasterMoves(o)
        BY <2>1, <2>9, Zenon DEF MasterMoves
    <2> QED BY <1>8, <2>3, <2>6, <2>7, <2>8, <2>9, <2>10, Zenon
<1>10. CASE SettleReturn(o)
    <2>1. PICK st \in {"success", "failed"} :
            /\ back' = [back EXCEPT ![o] = st]
            /\ \/ /\ st = "failed" /\ trading' = trading
                  /\ master' = [master EXCEPT ![journal[o].token] = @ + 1]
               \/ /\ st = "success" /\ master' = master
                  /\ trading' = [trading EXCEPT ![journal[o].token] = @ + 1]
        BY <1>10, Zenon DEF SettleReturn, Credit, TokenOf
    <2>2. back[o] = "process" /\ xfer' = xfer /\ wd' = wd
        BY <1>10, Zenon DEF SettleReturn
    <2>3. o \in DOMAIN journal
        BY <1>4, <2>2, Zenon
    <2>4. back' \in [OpIds -> TransferStates] /\ back'[o] = st
        BY <1>2, <2>1, Zenon DEF VenueType, TransferStates
    <2>5. trading' \in [Tokens -> Nat] /\ master' \in [Tokens -> Nat]
        <3>1. journal[o].token \in Tokens /\ trading \in [Tokens -> Nat] /\ master \in [Tokens -> Nat]
            BY <1>2, <1>6, <2>3, Zenon DEF VenueType
        <3>2. CASE trading' = trading
            BY <2>1, <3>1, <3>2, SMTT(30)
        <3>3. CASE master' = master
            BY <2>1, <3>1, <3>3
        <3> QED BY <2>1, <3>2, <3>3, ZenonT(30)
    <2>6. VenueType'
        BY <1>1, <1>2, <2>2, <2>4, <2>5, Zenon DEF VenueType
    <2>7. Others(o)
        <3> SUFFICES ASSUME NEW q \in OpIds, q # o PROVE View(q)' = View(q) /\ child'[q] = child[q]
            BY Zenon DEF Others
        <3>1. back'[q] = back[q]
            BY <1>2, <2>1, Zenon DEF VenueType
        <3> QED BY <1>1, <2>2, <3>1, SameView, Zenon
    <2>8. /\ View(o).b = "process" /\ (View(o)').b = st /\ (View(o)').x = View(o).x
          /\ (View(o)').live = View(o).live /\ (View(o)').wire = View(o).wire
          /\ SameChain(View(o), View(o)')
        BY <1>1, <1>7, <2>2, <2>4, ViewIs, NextViewIs, SMTT(30) DEF SameChain
    <2>9. /\ Holds(journal[o], Claim(journal[o]), View(o)')
          /\ ~OnMaster(View(o)) /\ (OnMaster(View(o)') <=> st = "failed")
        BY <1>6, <2>3, <2>8, <1>ReturnSettlesTrue, Zenon
    <2>10. MasterMoves(o)
        BY <2>1, <2>9, Zenon DEF MasterMoves
    <2> QED BY <1>8, <2>3, <2>6, <2>7, <2>8, <2>9, <2>10, ZenonT(30)
<1>11. CASE SettleWithdrawal(o)
    <2>1. trading' = trading /\ xfer' = xfer /\ back' = back
        BY <1>11, Zenon DEF SettleWithdrawal
    <2>2. PICK i \in DOMAIN wd[o], r \in {"done", "failed"} :
            /\ wd[o][i] = "processing"
            /\ wd' = [wd EXCEPT ![o][i] = r]
            /\ \/ r = "done" /\ master' = master
               \/ r = "failed" /\ master' = [master EXCEPT ![journal[o].token] = @ + 1]
        BY <1>11, Zenon DEF SettleWithdrawal, Credit, TokenOf
    <2> DEFINE s == [wd[o] EXCEPT ![i] = r]
    <2>3. wd[o] \in Withdrawals /\ wd' = [wd EXCEPT ![o] = s]
        BY <1>2, <2>2, Zenon DEF VenueType
    <2>4. /\ LiveOf(wd[o]) = <<"processing">> /\ s \in Withdrawals /\ LiveOf(s) = <<r>>
        BY <2>2, <2>3, <1>LiveOfSettles, Zenon
    <2>a. <<"processing">> # <<>> /\ <<r>> # <<>>
        BY Zenon
    <2> HIDE DEF s
    <2>5. o \in DOMAIN journal
        BY <1>4, <2>4, <2>a, Zenon
    <2>6. wd' \in [OpIds -> Withdrawals] /\ wd'[o] = s /\ \A q \in OpIds : q # o => wd'[q] = wd[q]
        BY <1>2, <2>3, <2>4, Zenon DEF VenueType
    <2>7. VenueType'
        <3>1. master' \in [Tokens -> Nat]
            BY <1>2, <1>6, <2>2, <2>5, SMTT(30) DEF VenueType
        <3>2. \A q \in OpIds : LiveOf(wd'[q]) # <<>> => <<q, "w">> \notin wire'
            BY <1>1, <1>2, <2>4, <2>6, <2>a, Zenon DEF VenueType
        <3> QED BY <1>1, <1>2, <2>1, <2>6, <3>1, <3>2, Zenon DEF VenueType
    <2>8. Others(o)
        <3> SUFFICES ASSUME NEW q \in OpIds, q # o PROVE View(q)' = View(q) /\ child'[q] = child[q]
            BY Zenon DEF Others
        <3>1. wd'[q] = wd[q]
            BY <2>6, ZenonT(30)
        <3> QED BY <1>1, <2>1, <3>1, SameView, Zenon
    <2>9. /\ View(o).live = <<"processing">> /\ (View(o)').live = <<r>>
          /\ (View(o)').x = View(o).x /\ (View(o)').b = View(o).b
          /\ (View(o)').wire = View(o).wire /\ SameChain(View(o), View(o)')
        BY <1>1, <1>7, <2>1, <2>4, <2>6, ViewIs, NextViewIs, SMTT(30) DEF SameChain
    <2>10. /\ Holds(journal[o], Claim(journal[o]), View(o)')
           /\ ~OnMaster(View(o)) /\ (OnMaster(View(o)') <=> r = "failed")
        BY <1>6, <2>5, <2>9, <1>WithdrawalSettlesTrue, Zenon
    <2>11. MasterMoves(o)
        BY <2>2, <2>10, Zenon DEF MasterMoves
    <2> QED BY <1>8, <2>5, <2>7, <2>8, <2>9, <2>10, <2>11, <2>a, Zenon
<1> QED BY <1>3, <1>9, <1>10, <1>11, Zenon

\* What moves on the chain: a transaction that was not sent stays so, what was
\* mined, filled or credited stays so.
ChainOnward(v, u) ==
  /\ u.x = v.x /\ u.b = v.b /\ u.live = v.live /\ u.wire = v.wire
  /\ u.bridge # "none" => v.bridge # "none"
  /\ v.fill = "filled" => u.fill = "filled"
  /\ v.deposit = "mined" => u.deposit = "mined"
  /\ v.dep \in {"credited", "asked_credited"} => u.dep \in {"credited", "asked_credited"}

\* The venues' part of the state is left alone.
LEMMA VenueStays ==
  UNCHANGED venue /\ VenueType =>
    /\ VenueType' /\ master' = master /\ xfer' = xfer /\ back' = back /\ wd' = wd /\ wire' = wire
BY Zenon DEF venue, VenueType

\* A step of the chain for one operation.
LEMMA ChainStep ==
  \A o \in DOMAIN journal :
    /\ SagaInv /\ UNCHANGED <<journal, w, venue>> /\ ChainType'
    /\ \A q \in OpIds : q # o => child'[q] = child[q] /\ fill'[q] = fill[q] /\ dep'[q] = dep[q]
    /\ \A c \in Children : child[o][c].st = "mined" => child'[o][c].st = "mined"
    /\ ChainOnward(View(o), View(o)')
    => SagaInv'
\* Every claim stays true when the chain moves on.
<1>ChainMovesTrue.
  \A op, p, v, u : Holds(op, p, v) /\ ChainOnward(v, u) =>
                     Holds(op, p, u) /\ (OnMaster(u) <=> OnMaster(v))
    BY DEF Holds, WithdrawalTrue, ChainTrue, ChainOnward, OnMaster, Unsent
<1> SUFFICES ASSUME NEW o \in DOMAIN journal,
                    SagaInv, UNCHANGED <<journal, w, venue>>, ChainType',
                    \A q \in OpIds : q # o => /\ child'[q] = child[q] /\ fill'[q] = fill[q]
                                              /\ dep'[q] = dep[q],
                    \A c \in Children : child[o][c].st = "mined" => child'[o][c].st = "mined",
                    ChainOnward(View(o), View(o)')
             PROVE  SagaInv'
    BY Zenon
<1>1. /\ UNCHANGED <<journal, w>> /\ UNCHANGED journal
      /\ Facts /\ JournalType /\ VenueType /\ VenueType' /\ master' = master /\ xfer' = xfer
      /\ back' = back /\ wd' = wd /\ wire' = wire
    BY VenueStays, Zenon DEF SagaInv, Facts
<1>2. Others(o)
    BY <1>1, SameView, Zenon DEF Others
<1>3. /\ Holds(journal[o], Claim(journal[o]), View(o)')
      /\ OnMaster(View(o)') <=> OnMaster(View(o))
    BY <1>1, <1>ChainMovesTrue, Zenon DEF Facts, Truthful
<1>4. MasterMoves(o)
    BY <1>1, <1>3, Zenon DEF MasterMoves
<1>5. Facts'
    BY <1>1, <1>2, <1>3, <1>4, VenueFacts, Zenon
<1>6. \A q \in OpIds : Onward(q)
    BY <1>2, Zenon DEF Onward, Others, ChainOnward, Unsent
<1> QED BY <1>1, <1>5, <1>6, WorkerWaits, Zenon

TxBecomes(o, c, tx) == child' = [child EXCEPT ![o] = [child[o] EXCEPT ![c] = tx]]

\* The chain's types when one transaction moves, and the fill and the deposit
\* with it.
LEMMA OneTxType ==
  \A o \in OpIds : \A c \in Children : \A tx \in TxType :
    /\ ChainType
    /\ TxBecomes(o, c, tx)
    /\ tx.mined = 1 <=> tx.st = "mined"
    /\ child[o][c].st # "mined"
    /\ fill' = fill \/ (c = "bridge" /\ tx.st = "mined" /\ fill' = [fill EXCEPT ![o] = "pending"])
    /\ dep' = dep \/ (c = "deposit" /\ tx.st = "mined" /\ dep' = [dep EXCEPT ![o] = "pending"])
    => /\ ChainType'
       /\ \A q \in OpIds : q # o => child'[q] = child[q] /\ fill'[q] = fill[q] /\ dep'[q] = dep[q]
       /\ child'[o][c] = tx /\ \A d \in Children : d # c => child'[o][d] = child[o][d]
       /\ fill[o] = "filled" => fill'[o] = "filled"
       /\ dep[o] \in {"credited", "asked_credited"} => dep'[o] = dep[o]
\* One wallet transaction of one operation moves.
<1>OneTx.
  \A o \in OpIds : \A c \in Children : \A tx \in TxType :
    /\ child \in [OpIds -> [Children -> TxType]]
    /\ TxBecomes(o, c, tx)
    => /\ child' \in [OpIds -> [Children -> TxType]] /\ child'[o][c] = tx
       /\ \A q \in OpIds : q # o => child'[q] = child[q]
       /\ \A d \in Children : d # c => child'[o][d] = child[o][d]
    <2> SUFFICES ASSUME NEW o \in OpIds, NEW c \in Children, NEW tx \in TxType,
                        child \in [OpIds -> [Children -> TxType]],
                        TxBecomes(o, c, tx)
                 PROVE  /\ child' \in [OpIds -> [Children -> TxType]] /\ child'[o][c] = tx
                        /\ \A q \in OpIds : q # o => child'[q] = child[q]
                        /\ \A d \in Children : d # c => child'[o][d] = child[o][d]
        BY Zenon
    <2> DEFINE f == [child[o] EXCEPT ![c] = tx]
    <2>1. f \in [Children -> TxType] /\ f[c] = tx /\ \A d \in Children : d # c => f[d] = child[o][d]
        BY Zenon
    <2>2. child' = [child EXCEPT ![o] = f]
        BY Zenon DEF TxBecomes
    <2> HIDE DEF f
    <2>3. child'[o] = f /\ \A q \in OpIds : q # o => child'[q] = child[q]
        BY <2>2, Zenon
    <2>4. child' \in [OpIds -> [Children -> TxType]]
        BY <2>1, <2>2, Zenon
    <2> QED BY <2>1, <2>3, <2>4, Zenon
<1> SUFFICES ASSUME NEW o \in OpIds, NEW c \in Children, NEW tx \in TxType,
                    ChainType,
                    TxBecomes(o, c, tx),
                    tx.mined = 1 <=> tx.st = "mined",
                    child[o][c].st # "mined",
                    \/ fill' = fill
                    \/ c = "bridge" /\ tx.st = "mined" /\ fill' = [fill EXCEPT ![o] = "pending"],
                    \/ dep' = dep
                    \/ c = "deposit" /\ tx.st = "mined" /\ dep' = [dep EXCEPT ![o] = "pending"]
             PROVE  /\ ChainType'
                    /\ \A q \in OpIds : q # o => /\ child'[q] = child[q] /\ fill'[q] = fill[q]
                                                 /\ dep'[q] = dep[q]
                    /\ child'[o][c] = tx /\ \A d \in Children : d # c => child'[o][d] = child[o][d]
                    /\ fill[o] = "filled" => fill'[o] = "filled"
                    /\ dep[o] \in {"credited", "asked_credited"} => dep'[o] = dep[o]
    BY ZenonT(30)
<1>1. /\ child \in [OpIds -> [Children -> TxType]]
      /\ fill \in [OpIds -> FillStates] /\ dep \in [OpIds -> DepStates]
      /\ \A q \in OpIds, d \in Children : child[q][d].mined = 1 <=> child[q][d].st = "mined"
      /\ \A q \in OpIds : fill[q] # "none" => child[q]["bridge"].st = "mined"
      /\ \A q \in OpIds : dep[q] # "none" => child[q]["deposit"].st = "mined"
    BY Zenon DEF ChainType
<1>2. /\ child' \in [OpIds -> [Children -> TxType]] /\ child'[o][c] = tx
      /\ \A q \in OpIds : q # o => child'[q] = child[q]
      /\ \A d \in Children : d # c => child'[o][d] = child[o][d]
    BY <1>1, <1>OneTx, ZenonT(30)
<1>3. /\ fill' \in [OpIds -> FillStates] /\ \A q \in OpIds : q # o => fill'[q] = fill[q]
      /\ fill'[o] = fill[o] \/ (c = "bridge" /\ tx.st = "mined" /\ fill'[o] = "pending")
    BY <1>1, Zenon DEF FillStates
<1>4. /\ dep' \in [OpIds -> DepStates] /\ \A q \in OpIds : q # o => dep'[q] = dep[q]
      /\ dep'[o] = dep[o] \/ (c = "deposit" /\ tx.st = "mined" /\ dep'[o] = "pending")
    BY <1>1, Zenon DEF DepStates
<1>5. \A q \in OpIds, d \in Children : child'[q][d].mined = 1 <=> child'[q][d].st = "mined"
    <2> SUFFICES ASSUME NEW q \in OpIds, NEW d \in Children
                 PROVE  child'[q][d].mined = 1 <=> child'[q][d].st = "mined"
        BY Zenon
    <2>1. child[q][d].mined = 1 <=> child[q][d].st = "mined"
        BY <1>1, Zenon
    <2>2. CASE q = o /\ d = c
        BY <1>2, <2>2, Zenon
    <2>3. CASE q # o \/ d # c
        <3>1. child'[q][d] = child[q][d]
            BY <1>2, <2>3, Zenon
        <3> QED BY <2>1, <3>1, Zenon
    <2> QED BY <2>2, <2>3, Zenon
<1>6. "bridge" \in Children /\ "deposit" \in Children
    BY Zenon DEF Children
<1>7. \A q \in OpIds : fill'[q] # "none" => child'[q]["bridge"].st = "mined"
    BY <1>1, <1>2, <1>3, <1>6, SMTT(30)
<1>8. \A q \in OpIds : dep'[q] # "none" => child'[q]["deposit"].st = "mined"
    BY <1>1, <1>2, <1>4, <1>6, SMTT(30)
<1>9. ChainType'
    BY <1>2, <1>3, <1>4, <1>5, <1>7, <1>8, Zenon DEF ChainType
<1>10. fill[o] = "filled" => fill'[o] = "filled"
    BY <1>1, <1>3, Zenon
<1>11. dep[o] \in {"credited", "asked_credited"} => dep'[o] = dep[o]
    BY <1>1, <1>4, Zenon
<1> QED BY <1>2, <1>3, <1>4, <1>9, <1>10, <1>11, Zenon

\* A transaction is mined, or reverts.
LEMMA Mined == SagaInv /\ Mine => SagaInv'
<1> SUFFICES ASSUME SagaInv, Mine PROVE SagaInv'
    BY Zenon
<1>1. Facts /\ ChainType /\ VenueType /\ JournalType /\ UNCHANGED <<journal, w, venue>>
    BY Zenon DEF SagaInv, Facts, Mine
<1>2. PICK o \in OpIds, c \in Children :
        /\ child[o][c].st = "sent"
        /\ \/ /\ child' = [child EXCEPT ![o][c].st = "mined", ![o][c].mined = @ + 1]
              /\ fill' = IF c = "bridge" THEN [fill EXCEPT ![o] = "pending"] ELSE fill
              /\ dep' = IF c = "deposit" THEN [dep EXCEPT ![o] = "pending"] ELSE dep
           \/ /\ child' = [child EXCEPT ![o][c].st = "reverted"]
              /\ UNCHANGED <<fill, dep>>
    BY Zenon DEF Mine
<1>3. o \in DOMAIN journal
    BY <1>1, <1>2, Zenon DEF Facts, Untouched
<1>4. child[o][c] \in TxType /\ child \in [OpIds -> [Children -> TxType]]
    BY <1>1, Zenon DEF ChainType
<1>5. child[o][c].mined = 0
    BY <1>1, <1>2, <1>4, Zenon DEF ChainType, TxType
<1> DEFINE m(st, n) == [st |-> st, call |-> child[o][c].call, tries |-> child[o][c].tries, mined |-> n]
<1>6. PICK tx \in TxType :
        /\ TxBecomes(o, c, tx)
        /\ tx.mined = 1 <=> tx.st = "mined"
        /\ tx.st \in {"mined", "reverted"}
        /\ fill' = fill \/ (c = "bridge" /\ tx.st = "mined" /\ fill' = [fill EXCEPT ![o] = "pending"])
        /\ dep' = dep \/ (c = "deposit" /\ tx.st = "mined" /\ dep' = [dep EXCEPT ![o] = "pending"])
    <2>1. CASE child' = [child EXCEPT ![o][c].st = "mined", ![o][c].mined = @ + 1]
        <3>1. m("mined", 1) \in TxType /\ m("mined", 1).st = "mined" /\ m("mined", 1).mined = 1
            BY <1>4, Zenon DEF TxType, TxStates
        <3>2. child' = [child EXCEPT ![o] = [child[o] EXCEPT ![c] = [child[o][c] EXCEPT !.st = "mined", !.mined = @ + 1]]]
            BY <1>4, <2>1, Zenon
        <3>3. [child[o][c] EXCEPT !.st = "mined", !.mined = @ + 1] = m("mined", 1)
            <4> DEFINE s == [child[o][c] EXCEPT !.st = "mined"]
            <4>1. s = m("mined", 0)
                BY <1>4, <1>5 DEF TxType
            <4>2. [child[o][c] EXCEPT !.st = "mined", !.mined = @ + 1] = [s EXCEPT !.mined = s.mined + 1]
                BY <1>4, Zenon DEF TxType
            <4> HIDE DEF s
            <4>3. [s EXCEPT !.mined = s.mined + 1] = m("mined", 1)
                BY <4>1
            <4> QED BY <4>1, <4>2, <4>3, Zenon
        <3>4. TxBecomes(o, c, m("mined", 1))
            BY <3>2, <3>3, Zenon DEF TxBecomes
        <3>5. /\ \/ fill' = fill
                 \/ c = "bridge" /\ fill' = [fill EXCEPT ![o] = "pending"]
              /\ \/ dep' = dep
                 \/ c = "deposit" /\ dep' = [dep EXCEPT ![o] = "pending"]
            BY <1>2, Zenon
        <3> HIDE DEF m
        <3> QED BY <3>1, <3>4, <3>5, Zenon
    <2>2. CASE child' = [child EXCEPT ![o][c].st = "reverted"] /\ UNCHANGED <<fill, dep>>
        <3>1. /\ m("reverted", 0) \in TxType /\ m("reverted", 0).st = "reverted"
              /\ m("reverted", 0).mined = 0
            BY <1>4, Zenon DEF TxType, TxStates
        <3>2. child' = [child EXCEPT ![o] = [child[o] EXCEPT ![c] = [child[o][c] EXCEPT !.st = "reverted"]]]
            BY <1>4, <2>2, Zenon
        <3>3. [child[o][c] EXCEPT !.st = "reverted"] = m("reverted", 0)
            BY <1>4, <1>5 DEF TxType
        <3>4. TxBecomes(o, c, m("reverted", 0))
            BY <3>2, <3>3, Zenon DEF TxBecomes
        <3> HIDE DEF m
        <3>5. fill' = fill /\ dep' = dep
            BY <2>2, Zenon
        <3> QED BY <3>1, <3>4, <3>5
    <2> QED BY <1>2, <2>1, <2>2, Zenon
<1>7. child[o][c].st # "mined"
    BY <1>2, Zenon
<1>8. /\ ChainType'
      /\ \A q \in OpIds : q # o => child'[q] = child[q] /\ fill'[q] = fill[q] /\ dep'[q] = dep[q]
      /\ child'[o][c] = tx /\ \A d \in Children : d # c => child'[o][d] = child[o][d]
      /\ fill[o] = "filled" => fill'[o] = "filled"
      /\ dep[o] \in {"credited", "asked_credited"} => dep'[o] = dep[o]
    BY <1>1, <1>6, <1>7, OneTxType, Zenon
<1>9. \A d \in Children : child[o][d].st = "mined" => child'[o][d].st = "mined"
    BY <1>7, <1>8, Zenon
<1>10. child'[o]["bridge"].st # "none" => child[o]["bridge"].st # "none"
    BY <1>2, <1>8, Zenon DEF Children
<1>11. child[o]["deposit"].st = "mined" => child'[o]["deposit"].st = "mined"
    BY <1>9, Zenon DEF Children
<1>12. /\ xfer' = xfer /\ back' = back /\ wd' = wd /\ wire' = wire
    BY <1>1, VenueStays, ZenonT(30) DEF Facts
<1>13. ChainOnward(View(o), View(o)')
    <2>1. (View(o)').wire = View(o).wire
        BY <1>12, Zenon DEF View
    <2> QED BY <1>8, <1>10, <1>11, <1>12, <2>1, ViewIs, NextViewIs, SMTT(30) DEF ChainOnward
<1> QED BY <1>1, <1>3, <1>8, <1>9, <1>13, ChainStep, Zenon

\* A fill is filled or refunded.
LEMMA FillMoved == SagaInv /\ FillMoves => SagaInv'
<1> SUFFICES ASSUME SagaInv, FillMoves PROVE SagaInv'
    BY Zenon
<1>1. /\ Facts /\ ChainType /\ VenueType /\ JournalType /\ UNCHANGED <<journal, w, venue>>
      /\ child' = child /\ dep' = dep
    BY Zenon DEF SagaInv, Facts, FillMoves
<1>2. PICK o \in OpIds, st \in {"filled", "refunded"} :
        fill[o] = "pending" /\ fill' = [fill EXCEPT ![o] = st]
    BY Zenon DEF FillMoves
<1>3. child[o]["bridge"].st = "mined"
    BY <1>1, <1>2, Zenon DEF ChainType
<1>4. o \in DOMAIN journal
    BY <1>1, <1>3, Zenon DEF Facts, Untouched, Children
<1>5. fill' \in [OpIds -> FillStates] /\ \A q \in OpIds : q # o => fill'[q] = fill[q]
    BY <1>1, <1>2, Zenon DEF ChainType, FillStates
<1>6. \A q \in OpIds : fill'[q] # "none" => child'[q]["bridge"].st = "mined"
    BY <1>1, <1>3, <1>5, Zenon DEF ChainType
<1>7. ChainType'
    BY <1>1, <1>5, <1>6, Zenon DEF ChainType
<1>8. xfer' = xfer /\ back' = back /\ wd' = wd /\ wire' = wire
    BY <1>1, VenueStays, ZenonT(30) DEF Facts
<1>9. ChainOnward(View(o), View(o)')
    <2>1. (View(o)').wire = View(o).wire
        BY <1>8, Zenon DEF View
    <2>2. View(o).fill # "filled"
        BY <1>2, ViewIs, Zenon
    <2> QED BY <1>1, <1>8, <2>1, <2>2, ViewIs, NextViewIs, SMTT(30) DEF ChainOnward
<1> QED BY <1>1, <1>4, <1>5, <1>7, <1>9, ChainStep, Zenon

\* A deposit is seen, asked about or credited.
LEMMA DepositMoved == SagaInv /\ DepositMoves => SagaInv'
<1> SUFFICES ASSUME SagaInv, DepositMoves PROVE SagaInv'
    BY Zenon
<1>1. /\ Facts /\ ChainType /\ VenueType /\ JournalType /\ UNCHANGED <<journal, w, venue>>
      /\ child' = child /\ fill' = fill
    BY Zenon DEF SagaInv, Facts, DepositMoves
<1>2. PICK o \in OpIds :
        \/ dep[o] = "pending" /\ \E st \in {"credited", "asked", "asked_credited"} :
             dep' = [dep EXCEPT ![o] = st]
        \/ dep[o] = "asked" /\ dep' = [dep EXCEPT ![o] = "asked_credited"]
    BY Zenon DEF DepositMoves
<1>3. child[o]["deposit"].st = "mined" /\ dep[o] \notin {"credited", "asked_credited"}
    BY <1>1, <1>2, Zenon DEF ChainType
<1>4. o \in DOMAIN journal
    BY <1>1, <1>3, Zenon DEF Facts, Untouched, Children
<1>5. dep' \in [OpIds -> DepStates] /\ \A q \in OpIds : q # o => dep'[q] = dep[q]
    BY <1>1, <1>2, ZenonT(30) DEF ChainType, DepStates
<1>6. \A q \in OpIds : dep'[q] # "none" => child'[q]["deposit"].st = "mined"
    BY <1>1, <1>3, <1>5, Zenon DEF ChainType
<1>7. ChainType'
    BY <1>1, <1>5, <1>6, Zenon DEF ChainType
<1>8. xfer' = xfer /\ back' = back /\ wd' = wd /\ wire' = wire
    BY <1>1, VenueStays, ZenonT(30) DEF Facts
<1>9. ChainOnward(View(o), View(o)')
    <2>1. (View(o)').wire = View(o).wire
        BY <1>8, Zenon DEF View
    <2> QED BY <1>1, <1>3, <1>8, <2>1, ViewIs, NextViewIs, SMTT(30) DEF ChainOnward
<1> QED BY <1>1, <1>4, <1>5, <1>7, <1>9, ChainStep, ZenonT(30)

-----------------------------------------------------------------------------
(* Wallet transactions.                                                     *)

\* What the worker asks the wallet for, it asks for its operation.
LEMMA CallIs ==
  SagaInv /\ w.pc \in Calling =>
    /\ w.pc \in Busy /\ w.c \in Children /\ CallFor(w, Op, Tx.st)
    /\ Tx \in TxType /\ (Tx.mined = 1 <=> Tx.st = "mined")
    /\ Now.st # "Quarantined" /\ Claim(Op) = Now
<1> SUFFICES ASSUME SagaInv, w.pc \in Calling
             PROVE  /\ w.pc \in Busy /\ w.c \in Children /\ CallFor(w, Op, Tx.st)
                    /\ Tx \in TxType /\ (Tx.mined = 1 <=> Tx.st = "mined")
                    /\ Now.st # "Quarantined" /\ Claim(Op) = Now
    BY Zenon
<1>1. w.pc \in Busy /\ CallFor(w, Op, Tx.st) /\ ChainType
    BY Zenon DEF Busy, SagaInv, WorkerOK, CallingOK, Facts
<1>2. w.op \in OpIds
    BY <1>1, OpIs, Zenon
<1>3. w.c \in Children /\ Now.st # "Quarantined"
    BY <1>1, Zenon DEF CallFor, Children, Now
<1>4. Tx \in TxType /\ (Tx.mined = 1 <=> Tx.st = "mined")
    BY <1>1, <1>2, <1>3, Zenon DEF ChainType, Tx
<1> QED BY <1>1, <1>3, <1>4, Zenon DEF Claim, Now

\* A worker that waits for its transaction.
LEMMA CallStep ==
  /\ SagaInv /\ w.pc \in Busy /\ Facts' /\ UNCHANGED journal
  /\ w' \in Worker0 /\ w'.op = w.op /\ w'.pc \in Calling
  /\ CallFor(w', Op, child'[w.op][w'.c].st)
  => SagaInv'
<1> SUFFICES ASSUME SagaInv, w.pc \in Busy, Facts', UNCHANGED journal,
                    w' \in Worker0, w'.op = w.op, w'.pc \in Calling,
                    CallFor(w', Op, child'[w.op][w'.c].st)
             PROVE  SagaInv'
    BY Zenon
<1>1. SameOps(w.op) /\ w'.pc \in Busy
    BY Zenon DEF SameOps, SagaInv, Facts, JournalType, Busy
<1>2. WorkerType' /\ OneActive'
    BY <1>1, BusyStep, Zenon
<1>3. Op' = Op /\ Tx' = child'[w.op][w'.c]
    BY Zenon DEF Op, Tx
<1>4. CallingOK'
    BY <1>3, Zenon DEF CallingOK
<1>5. SendingOK'
    BY Zenon DEF SendingOK, Ready, Calling
<1> QED BY <1>2, <1>4, <1>5, Zenon DEF SagaInv, WorkerOK

\* The wallet call: already mined, sent again or for the first time, or refused.
LEMMA WalletCalled == SagaInv /\ execute_wallet_call => SagaInv'
\* A worker that fails when the venues have moved.
\* A transaction is sent, or rejected before it is: a bridge transaction
\* only once its calldata is journaled.
<1>TxMoves.
  \A o \in DOMAIN journal : \A c \in Children : \A tx \in TxType :
    /\ Facts /\ UNCHANGED <<journal, venue, fill, dep>> /\ TxBecomes(o, c, tx)
    /\ tx.st \in {"sent", "rejected"} /\ tx.mined = 0 /\ child[o][c].st # "mined"
    /\ c = "bridge" => Claim(journal[o]).st = "BridgePrepared"
    => Facts' /\ child'[o][c] = tx
    <2> SUFFICES ASSUME NEW o \in DOMAIN journal, NEW c \in Children, NEW tx \in TxType,
                        Facts, UNCHANGED <<journal, venue, fill, dep>>, TxBecomes(o, c, tx),
                        tx.st \in {"sent", "rejected"}, tx.mined = 0, child[o][c].st # "mined",
                        c = "bridge" => Claim(journal[o]).st = "BridgePrepared"
                 PROVE  Facts' /\ child'[o][c] = tx
        BY Zenon
    <2>1. /\ UNCHANGED journal /\ UNCHANGED venue /\ fill' = fill /\ dep' = dep
          /\ JournalType /\ VenueType /\ ChainType
        BY Zenon DEF Facts
    <2>2. o \in OpIds
        BY <2>1, OpsAre, Zenon
    <2>3. /\ tx.mined = 1 <=> tx.st = "mined"
          /\ fill' = fill \/ (c = "bridge" /\ tx.st = "mined" /\ fill' = [fill EXCEPT ![o] = "pending"])
          /\ dep' = dep \/ (c = "deposit" /\ tx.st = "mined" /\ dep' = [dep EXCEPT ![o] = "pending"])
        BY <2>1, SMTT(30)
    <2>4. /\ ChainType'
          /\ \A q \in OpIds : q # o => child'[q] = child[q] /\ fill'[q] = fill[q] /\ dep'[q] = dep[q]
          /\ child'[o][c] = tx /\ \A d \in Children : d # c => child'[o][d] = child[o][d]
        BY <2>1, <2>2, <2>3, OneTxType
    <2>5. /\ VenueType' /\ master' = master /\ xfer' = xfer /\ back' = back /\ wd' = wd /\ wire' = wire
        BY <2>1, VenueStays, Zenon
    <2>6. Others(o)
        BY <2>4, <2>5, SameView, Zenon DEF Others
    <2>7. Holds(journal[o], Claim(journal[o]), View(o))
        BY ZenonT(30) DEF Facts, Truthful
    <2>8. /\ (View(o)').x = View(o).x /\ (View(o)').b = View(o).b /\ (View(o)').live = View(o).live
          /\ (View(o)').fill = View(o).fill /\ (View(o)').dep = View(o).dep
          /\ c # "bridge" => (View(o)').bridge = View(o).bridge
          /\ View(o).deposit = "mined" => (View(o)').deposit = "mined"
        BY <2>1, <2>4, <2>5, ViewIs, NextViewIs, SMTT(30) DEF Children
    <2>9. (View(o)').wire = View(o).wire
        BY <2>5, Zenon DEF View
    <2>10. /\ Holds(journal[o], Claim(journal[o]), View(o)')
           /\ OnMaster(View(o)') <=> OnMaster(View(o))
        <3> DEFINE r == journal[o]
                   p == Claim(journal[o])
        <3>1. Lawful(r, p) /\ WithdrawalTrue(r, p, View(o)')
            <4>1. Lawful(r, p) /\ WithdrawalTrue(r, p, View(o))
                BY <2>7, Zenon DEF Holds
            <4> QED BY <2>8, <2>9, <4>1, Zenon DEF WithdrawalTrue, Unsent
        <3>2. ChainTrue(r, p, View(o)')
            <4>1. ChainTrue(r, p, View(o))
                BY <2>7, Zenon DEF Holds
            <4>2. (View(o)').bridge = View(o).bridge \/ p.st = "BridgePrepared"
                BY <2>8, Zenon
            <4> HIDE DEF r, p
            <4>3. (View(o)').bridge # "none" =>
                    p.st \in {"BridgePrepared", "BridgeMined", "AcrossFilled", "Completed"} \cup Depositing
                BY <4>1, <4>2, Zenon DEF ChainTrue
            <4> QED BY <2>8, <4>1, <4>3, Zenon DEF ChainTrue
        <3>3. OnMaster(View(o)') <=> OnMaster(View(o))
            BY <2>8, Zenon DEF OnMaster
        <3> QED BY <3>1, <3>2, <3>3, Zenon DEF Holds
    <2>11. MasterMoves(o)
        BY <2>5, <2>10, Zenon DEF MasterMoves
    <2>12. Facts'
        BY <2>1, <2>4, <2>5, <2>6, <2>10, <2>11, VenueFacts, Zenon
    <2> QED BY <2>4, <2>12, Zenon
<1>FailMoved.
  \A why \in Reasons \cup {"quote"} :
    SagaInv /\ w.pc \in Busy /\ Facts' /\ Fail(why) /\ UNCHANGED journal => SagaInv'
    <2> SUFFICES ASSUME NEW why \in Reasons \cup {"quote"}, SagaInv, w.pc \in Busy, Facts',
                        Fail(why), UNCHANGED journal
                 PROVE  SagaInv'
        BY Zenon
    <2>1. w \in Worker0 /\ JournalType
        BY Zenon DEF SagaInv, Facts, WorkerOK, WorkerType
    <2>2. w' \in Worker0 /\ w'.pc = "failed" /\ w'.op = w.op
        BY <2>1, StepIs, Zenon DEF Fail
    <2>3. SameOps(w.op)
        BY <2>1, Zenon DEF SameOps, JournalType
    <2>4. w'.pc \in Busy /\ w'.pc \notin Sending \cup Calling
        BY <2>2, Zenon DEF Busy, Sending, Calling
    <2>5. WorkerType' /\ OneActive'
        BY <2>2, <2>3, <2>4, BusyStep, Zenon
    <2> QED BY <2>4, <2>5, QuietPlaces, Zenon DEF SagaInv, WorkerOK
<1> SUFFICES ASSUME SagaInv, execute_wallet_call PROVE SagaInv'
    BY Zenon
<1>1. w.pc = "tx" /\ UNCHANGED journal /\ UNCHANGED <<journal, venue, fill, dep>>
    BY Zenon DEF execute_wallet_call
<1>2. w.pc \in Calling /\ Facts
    BY <1>1, Zenon DEF Calling, SagaInv
<1>3. /\ w.pc \in Busy /\ w.c \in Children /\ CallFor(w, Op, Tx.st)
      /\ Tx \in TxType /\ (Tx.mined = 1 <=> Tx.st = "mined")
      /\ Now.st # "Quarantined" /\ Claim(Op) = Now
    BY <1>2, CallIs, Zenon
<1>4. w.op \in DOMAIN journal /\ w.op \in OpIds /\ w \in Worker0 /\ Now \in Progress
    BY <1>3, OpIs, Zenon
<1>5. \A pc \in {"tx_wait", "tx_done"} :
        Goto(pc) => w' \in Worker0 /\ w'.pc = pc /\ w'.op = w.op /\ w'.c = w.c /\ w'.pc \in Calling
    BY <1>4, StepIs DEF Goto, Places, Busy, Calling
<1>6. "nonce_low" \in Reasons /\ "other" \in Reasons
    BY Zenon DEF Reasons
<1>7. CASE UNCHANGED child
    <2>1. Still
        BY <1>1, <1>2, <1>7, StillStep, Zenon DEF chain
    <2>2. CASE Fail("other")
        BY <1>1, <1>3, <2>1, <2>2, FailOther, Zenon
    <2>3. CASE Tx.st = "mined" /\ Goto("tx_done")
        <3>1. w' \in Worker0 /\ w'.pc = "tx_done" /\ w'.op = w.op /\ w'.c = w.c /\ w'.pc \in Calling
            BY <1>5, <2>3, Zenon
        <3>2. Facts'
            BY <1>1, <1>3, <2>1, <3>1, GotoStep, Zenon DEF Busy
        <3>3. child'[w.op][w'.c].st = "mined"
            BY <1>7, <2>3, <3>1, Zenon DEF Tx
        <3>4. CallFor(w', Op, child'[w.op][w'.c].st)
            BY <1>2, <1>3, <3>1, <3>3, Zenon DEF CallFor
        <3> QED BY <1>1, <1>3, <3>1, <3>2, <3>4, CallStep, Zenon
    <2>4. CASE Tx.st \in {"none", "rejected"} /\ SetTx([Tx EXCEPT !.st = "sent", !.call = CallOf(w.c)])
        <3>1. child'[w.op][w.c].st = "sent"
            BY <1>2, <1>3, <1>4, <2>4, Zenon DEF SetTx, Facts, ChainType, TxType
        <3> QED BY <1>7, <2>4, <3>1, Zenon DEF Tx
    <2>5. CASE /\ Tx.st \in {"none", "rejected"} /\ Fail("nonce_low")
               /\ SetTx([Tx EXCEPT !.st = "rejected", !.call = CallOf(w.c), !.tries = @ + 1])
        BY <1>1, <1>3, <1>6, <2>1, <2>5, FailStep, Zenon
    <2> QED BY <1>1, <2>2, <2>3, <2>4, <2>5, Zenon DEF execute_wallet_call
<1>8. CASE ~UNCHANGED child
    <2>1. /\ Tx.st \in {"none", "rejected"}
          /\ \/ /\ SetTx([Tx EXCEPT !.st = "sent", !.call = CallOf(w.c)])
                /\ Goto("tx_wait")
             \/ /\ SetTx([Tx EXCEPT !.st = "rejected", !.call = CallOf(w.c), !.tries = @ + 1])
                /\ Fail("nonce_low")
        BY <1>8, Zenon DEF execute_wallet_call
    <2>2. CallOf(w.c) \in Nat /\ Tx.call \in Nat /\ Tx.tries \in Nat /\ Tx.mined = 0
        BY <1>3, <1>4, <2>1, Zenon DEF CallOf, TxType, Progress
    <2> DEFINE s == [st |-> "sent", call |-> CallOf(w.c), tries |-> Tx.tries, mined |-> 0]
               r == [st |-> "rejected", call |-> CallOf(w.c), tries |-> Tx.tries + 1, mined |-> 0]
    <2>3. /\ s \in TxType /\ s.st = "sent" /\ s.mined = 0
          /\ r \in TxType /\ r.st = "rejected" /\ r.mined = 0
        BY <2>2 DEF TxType, TxStates
    <2>a. \A st, k : [Tx EXCEPT !.st = st, !.call = k] =
                        [st |-> st, call |-> k, tries |-> Tx.tries, mined |-> 0]
        <3> SUFFICES ASSUME NEW st, NEW k
                     PROVE  [Tx EXCEPT !.st = st, !.call = k] =
                              [st |-> st, call |-> k, tries |-> Tx.tries, mined |-> 0]
            BY Zenon
        <3> PICK x \in TxType : x = Tx /\ x.mined = 0
            BY <1>3, <2>2, Zenon
        <3> DEFINE a == [x EXCEPT !.st = st]
        <3>1. a = [st |-> st, call |-> x.call, tries |-> x.tries, mined |-> 0]
            BY DEF TxType
        <3>2. [x EXCEPT !.st = st, !.call = k] = [a EXCEPT !.call = k]
            BY Zenon DEF TxType
        <3> HIDE DEF a
        <3>3. [a EXCEPT !.call = k] = [st |-> st, call |-> k, tries |-> x.tries, mined |-> 0]
            BY <3>1
        <3> QED BY <3>2, <3>3, Zenon
    <2>4. [Tx EXCEPT !.st = "sent", !.call = CallOf(w.c)] = s
        BY <1>3, <2>2, <2>a, Zenon
    <2>5. [Tx EXCEPT !.st = "rejected", !.call = CallOf(w.c), !.tries = @ + 1] = r
        <3> DEFINE a == [Tx EXCEPT !.st = "rejected", !.call = CallOf(w.c)]
        <3>1. a = [st |-> "rejected", call |-> CallOf(w.c), tries |-> Tx.tries, mined |-> 0]
            BY <1>3, <2>2, <2>a, Zenon
        <3>2. [Tx EXCEPT !.st = "rejected", !.call = CallOf(w.c), !.tries = @ + 1]
                = [a EXCEPT !.tries = a.tries + 1]
            BY <1>3, Zenon DEF TxType
        <3> HIDE DEF a
        <3>3. [a EXCEPT !.tries = a.tries + 1] = r
            BY <2>2, <3>1
        <3> QED BY <3>2, <3>3, Zenon
    <2> HIDE DEF s, r
    <2>6. /\ \/ SetTx(s) /\ Goto("tx_wait")
             \/ SetTx(r) /\ Fail("nonce_low")
        BY <2>1, <2>4, <2>5, Zenon
    <2>7. \A tx : SetTx(tx) => TxBecomes(w.op, w.c, tx)
        BY Zenon DEF SetTx, TxBecomes
    <2>8. child[w.op][w.c].st # "mined"
        BY <2>1, Zenon DEF Tx
    <2>9. w.c = "bridge" => Claim(journal[w.op]).st = "BridgePrepared"
        BY <1>2, <1>3, Zenon DEF CallFor, Op, Now
    <2>10. CASE SetTx(s) /\ Goto("tx_wait")
        <3>1. Facts' /\ child'[w.op][w.c] = s
            BY <1>1, <1>2, <1>3, <1>4, <2>3, <2>7, <2>8, <2>9, <2>10, <1>TxMoves, ZenonT(30)
        <3>2. w' \in Worker0 /\ w'.pc = "tx_wait" /\ w'.op = w.op /\ w'.c = w.c /\ w'.pc \in Calling
            BY <1>5, <2>10, Zenon
        <3>3. CallFor(w', Op, child'[w.op][w'.c].st)
            BY <1>2, <1>3, <3>2, Zenon DEF CallFor
        <3> QED BY <1>1, <1>3, <3>1, <3>2, <3>3, CallStep, Zenon
    <2>11. CASE SetTx(r) /\ Fail("nonce_low")
        <3>1. Facts'
            BY <1>1, <1>2, <1>3, <1>4, <2>3, <2>7, <2>8, <2>9, <2>11, <1>TxMoves, ZenonT(30)
        <3> QED BY <1>1, <1>3, <1>6, <2>11, <3>1, <1>FailMoved, Zenon
    <2> QED BY <2>6, <2>10, <2>11, Zenon
<1> QED BY <1>7, <1>8, Zenon

\* The receipt, or no receipt in time.
LEMMA TxAnswered == SagaInv /\ TxReceipt => SagaInv'
<1> SUFFICES ASSUME SagaInv, TxReceipt PROVE SagaInv'
    BY Zenon
<1>1. /\ w.pc = "tx_wait" /\ UNCHANGED journal /\ UNCHANGED <<venue, chain>> /\ Facts
      /\ \/ Tx.st = "mined" /\ Goto("tx_done")
         \/ Fail("other")
         \/ Fail("dex_unknown")
    BY Zenon DEF TxReceipt, LeavesVenues, SagaInv
<1>2. w.pc \in Calling /\ Still
    BY <1>1, StillStep, Zenon DEF Calling
<1>3. w.pc \in Busy /\ w.c \in Children /\ CallFor(w, Op, Tx.st)
    BY <1>2, CallIs, Zenon
<1>4. w \in Worker0
    BY <1>3, OpIs, Zenon
<1>5. CASE Tx.st = "mined" /\ Goto("tx_done")
    <2>1. w' \in Worker0 /\ w'.pc = "tx_done" /\ w'.op = w.op /\ w'.c = w.c /\ w'.pc \in Calling
        BY <1>4, <1>5, StepIs, Zenon DEF Goto, Places, Busy, Calling
    <2>2. Facts'
        BY <1>1, <1>2, <1>3, <2>1, GotoStep, Zenon DEF Busy
    <2>3. child'[w.op][w'.c].st = "mined"
        BY <1>1, <1>5, <2>1, Zenon DEF Tx, chain
    <2>4. CallFor(w', Op, child'[w.op][w'.c].st)
        BY <1>2, <1>3, <2>1, <2>3, Zenon DEF CallFor
    <2> QED BY <1>1, <1>3, <2>1, <2>2, <2>4, CallStep, Zenon
<1>6. "dex_unknown" \in Reasons
    BY Zenon DEF Reasons
<1>7. CASE Fail("dex_unknown")
    BY <1>1, <1>2, <1>3, <1>6, <1>7, FailStep, Zenon
<1> QED BY <1>1, <1>2, <1>3, <1>5, <1>7, FailOther, Zenon

\* A mined transaction is recorded.
LEMMA TxRecorded == SagaInv /\ TxDone => SagaInv'
<1> SUFFICES ASSUME SagaInv, TxDone PROVE SagaInv'
    BY Zenon
<1>1. /\ w.pc = "tx_done" /\ UNCHANGED <<venue, chain>> /\ Facts
      /\ \/ w.c = "approval" /\ Goto("run") /\ UNCHANGED journal
         \/ w.c = "approval" /\ Now.st # "ApprovalMined" /\ Advance(P("ApprovalMined"), "run")
         \/ w.c = "bridge" /\ Advance(P("BridgeMined"), "run")
         \/ w.c = "deposit" /\ Advance(P("DepositMined"), "run")
    BY Zenon DEF TxDone, LeavesVenues, SagaInv
<1>2. w.pc \in Calling /\ Still
    BY <1>1, StillStep, Zenon DEF Calling
<1>3. /\ w.pc \in Busy /\ w.c \in Children /\ CallFor(w, Op, Tx.st) /\ Now.st # "Quarantined"
    BY <1>2, CallIs, Zenon
<1>4. Holds(Op, Now, View(w.op)) /\ w \in Worker0
    BY <1>3, OpIs, Zenon
<1>5. CASE Goto("run") /\ UNCHANGED journal
    <2>1. "run" \in Busy \ Calling /\ \A u : u.pc = "run" => Ready(u, Op, View(w.op))
        BY Zenon DEF Busy, Calling, Ready
    <2> QED BY <1>2, <1>3, <1>5, <2>1, GotoPlace, Zenon
<1>6. CASE w.c = "approval" /\ Now.st # "ApprovalMined" /\ Advance(P("ApprovalMined"), "run")
    <2>1. P("ApprovalMined") \in Progress /\ P("ApprovalMined").st = "ApprovalMined"
          /\ P("ApprovalMined").why = "none"
        BY ProgressIs, Zenon DEF States
    <2>2. Op.route = "across" /\ (Now.st = "FundsOnBridge" \/ (Now.st = "Intent" /\ Op.dir = "w2b"))
        BY <1>2, <1>3, <1>6, Zenon DEF CallFor, Now
    <2>3. Holds(Op, P("ApprovalMined"), View(w.op))
        BY <1>4, <2>1, <2>2, Zenon
           DEF Holds, Lawful, WithdrawalTrue, ChainTrue, Staged, Returning, Bridging, Depositing
    <2> QED BY <1>2, <1>3, <1>6, <2>1, <2>3, AdvanceRun, Zenon
<1>7. CASE w.c = "bridge" /\ Advance(P("BridgeMined"), "run")
    <2>1. P("BridgeMined") \in Progress /\ P("BridgeMined").st = "BridgeMined"
          /\ P("BridgeMined").why = "none"
        BY ProgressIs, Zenon DEF States
    <2>2. Op.route = "across" /\ Now.st = "BridgePrepared"
        BY <1>2, <1>3, <1>7, Zenon DEF CallFor, Now
    <2>3. Holds(Op, P("BridgeMined"), View(w.op))
        BY <1>4, <2>1, <2>2, Zenon
           DEF Holds, Lawful, WithdrawalTrue, ChainTrue, Staged, Returning, Bridging, Depositing
    <2> QED BY <1>2, <1>3, <1>7, <2>1, <2>3, AdvanceRun, Zenon
<1>8. CASE w.c = "deposit" /\ Advance(P("DepositMined"), "run")
    <2>1. P("DepositMined") \in Progress /\ P("DepositMined").st = "DepositMined"
          /\ P("DepositMined").why = "none"
        BY ProgressIs, Zenon DEF States
    <2>2. /\ Op.dir = "w2b" /\ Now.st \in {"Intent", "AcrossFilled"}
          /\ Op.route = "across" => Now.st = "AcrossFilled"
        BY <1>2, <1>3, <1>8, Zenon DEF CallFor, Now
    <2>3. View(w.op).deposit = "mined"
        BY <1>1, <1>2, <1>3, <1>8, ViewIs, ZenonT(30) DEF CallFor, Tx
    <2>4. Holds(Op, P("DepositMined"), View(w.op))
        BY <1>4, <2>1, <2>2, <2>3, Zenon
           DEF Holds, Lawful, WithdrawalTrue, ChainTrue, Staged, Returning, Bridging, Depositing
    <2> QED BY <1>2, <1>3, <1>8, <2>1, <2>4, AdvanceRun, Zenon
<1> QED BY <1>1, <1>5, <1>6, <1>7, <1>8, Zenon

\* A wallet transaction is asked for, when its record is durable.
LEMMA StartTxStep ==
  \A c \in Children : \A next \in Progress :
    /\ SagaInv /\ w.pc \in Busy /\ Still /\ StartTx(c, next)
    /\ next.st # "Quarantined" /\ Holds(Op, next, View(w.op))
    /\ \A u, op2, st : /\ u.pc = "tx" /\ u.c = c
                       /\ op2.progress = next /\ op2.route = Op.route /\ op2.dir = Op.dir
                       => CallFor(u, op2, st)
    => SagaInv'
<1> SUFFICES ASSUME NEW c \in Children, NEW next \in Progress,
                    SagaInv, w.pc \in Busy, Still, StartTx(c, next),
                    next.st # "Quarantined", Holds(Op, next, View(w.op)),
                    \A u, op2, st :
                      /\ u.pc = "tx" /\ u.c = c
                      /\ op2.progress = next /\ op2.route = Op.route /\ op2.dir = Op.dir
                      => CallFor(u, op2, st)
             PROVE  SagaInv'
    BY Zenon
<1>1. w \in Worker0 /\ Facts /\ w.op \in DOMAIN journal
    BY OpIs, Zenon DEF SagaInv
<1> DEFINE v == [w EXCEPT !.pc = "tx", !.c = c]
<1>2. v \in Worker0 /\ v.pc = "tx" /\ v.op = w.op /\ v.c = c
    BY <1>1, Zenon DEF Worker0, Places, Busy, Calling
<1>3. "tx" \in Busy /\ "tx" \in Calling
    BY Zenon DEF Busy, Calling
<1>a. StartTx(c, next) <=>
        IF next = Now THEN w' = v /\ UNCHANGED journal
        ELSE IF CanAdvance(Op, next)
        THEN /\ journal' = [journal EXCEPT ![w.op] = Appended(@, next)]
             /\ w' = v
        ELSE Fail("illegal_transition") /\ UNCHANGED journal
    BY Zenon DEF StartTx
<1> HIDE DEF v
<1>4. CASE next = Now /\ w' = v /\ UNCHANGED journal
    <2>1. Facts'
        BY <1>2, <1>3, <1>4, GotoStep, Zenon
    <2>2. CallFor(w', Op, child'[w.op][w'.c].st)
        BY <1>2, <1>4, Zenon DEF Now
    <2> QED BY <1>2, <1>3, <1>4, <2>1, <2>2, CallStep, Zenon
<1>5. CASE journal' = [journal EXCEPT ![w.op] = Appended(@, next)] /\ w' = v
    <2>1. Facts' /\ SameOps(w.op) /\ Became(w.op, next)
        BY <1>1, <1>5, AppendStep, Zenon DEF Op
    <2>2. WorkerType' /\ OneActive'
        BY <1>2, <1>3, <1>5, <2>1, BusyStep, Zenon
    <2>3. Op'.progress = next /\ Op'.route = Op.route /\ Op'.dir = Op.dir
        BY <1>2, <1>5, <2>1, Zenon DEF Op, Became
    <2>4. CallingOK'
        BY <1>2, <1>5, <2>3, Zenon DEF CallingOK
    <2>5. SendingOK'
        BY <1>2, <1>5, Zenon DEF SendingOK, Ready
    <2> QED BY <2>1, <2>2, <2>4, <2>5, Zenon DEF SagaInv, WorkerOK
<1>6. CASE Fail("illegal_transition") /\ UNCHANGED journal
    <2>1. "illegal_transition" \in Reasons
        BY Zenon DEF Reasons
    <2> QED BY <1>6, <2>1, FailStep, Zenon
<1> QED BY <1>a, <1>4, <1>5, <1>6, Zenon

\* The Across bridge: a fresh quote, an approval, or a quote that fails.
LEMMA Bridged == SagaInv /\ bridge_across => SagaInv'
<1> SUFFICES ASSUME SagaInv, bridge_across PROVE SagaInv'
    BY Zenon
<1>1. /\ w.pc = "run" /\ Op.route = "across" /\ UNCHANGED <<venue, chain>> /\ Facts
      /\ \/ Now.st \in {"FundsOnBridge", "ApprovalMined", "BridgePrepared"}
         \/ Now.st = "Intent" /\ Op.dir = "w2b"
    BY Zenon DEF bridge_across, SagaInv
<1>2. w.pc \in Busy /\ Still
    BY <1>1, StillStep, Zenon DEF Busy
<1>3. Holds(Op, Now, View(w.op)) /\ Now \in Progress /\ Now.st # "Quarantined"
    BY <1>1, <1>2, OpIs, Zenon
<1>4. "bridge" \in Children /\ "approval" \in Children
    BY Zenon DEF Children
<1>5. CASE \E call \in Calls : StartTx("bridge", BridgePrepared(call))
    <2> PICK call \in Calls : StartTx("bridge", BridgePrepared(call))
        BY <1>5, Zenon
    <2> DEFINE next == BridgePrepared(call)
    <2>1. next \in Progress /\ next.st = "BridgePrepared"
        BY ProgressIs, SagaAssumption, Zenon
    <2>2. StartTx("bridge", next)
        BY Zenon
    <2> HIDE DEF next
    <2>3. Holds(Op, next, View(w.op))
        BY <1>1, <1>3, <2>1, Zenon
           DEF Holds, Lawful, WithdrawalTrue, ChainTrue, Staged, Returning, Bridging, Depositing
    <2>4. \A u, op2, st : /\ u.pc = "tx" /\ u.c = "bridge"
                          /\ op2.progress = next /\ op2.route = Op.route /\ op2.dir = Op.dir
                          => CallFor(u, op2, st)
        BY <1>1, <2>1, Zenon DEF CallFor
    <2> QED BY <1>2, <1>4, <2>1, <2>2, <2>3, <2>4, StartTxStep, Zenon
<1>6. CASE Now.st # "BridgePrepared" /\ StartTx("approval", Now)
    <2>1. \A u, op2, st : /\ u.pc = "tx" /\ u.c = "approval"
                          /\ op2.progress = Now /\ op2.route = Op.route /\ op2.dir = Op.dir
                          => CallFor(u, op2, st)
        BY <1>1, <1>6, Zenon DEF CallFor
    <2> QED BY <1>2, <1>3, <1>4, <1>6, <2>1, StartTxStep, Zenon
<1>7. CASE Fail("other") /\ UNCHANGED journal
    BY <1>2, <1>7, FailOther, Zenon
<1>8. CASE Fail("quote") /\ UNCHANGED journal
    BY <1>2, <1>8, FailStep, Zenon
<1> QED BY <1>5, <1>6, <1>7, <1>8, Zenon DEF bridge_across

\* A durable record after which the worker goes on with its operation.
LEMMA RunRecord ==
  \A st \in States \ {"Quarantined"} :
    /\ SagaInv /\ w.pc = "run" /\ UNCHANGED <<venue, chain>> /\ Advance(P(st), "run")
    /\ \A p : p.st = st /\ p.why = "none" /\ p.mode = "none" => Holds(Op, p, View(w.op))
    => SagaInv'
<1> SUFFICES ASSUME NEW st \in States \ {"Quarantined"},
                    SagaInv, w.pc = "run", UNCHANGED <<venue, chain>>, Advance(P(st), "run"),
                    \A p : p.st = st /\ p.why = "none" /\ p.mode = "none" => Holds(Op, p, View(w.op))
             PROVE  SagaInv'
    BY Zenon
<1>1. P(st) \in Progress /\ P(st).st = st /\ P(st).why = "none" /\ P(st).mode = "none"
    BY ProgressIs, Zenon DEF P
<1>2. w.pc \in Busy /\ Still
    BY StillStep, Zenon DEF Busy, SagaInv
<1> QED BY <1>1, <1>2, AdvanceRun, Zenon

\* The fill arrives, is refunded, or does not come in time.
LEMMA FillAwaited == SagaInv /\ wait_across_fill => SagaInv'
<1> SUFFICES ASSUME SagaInv, wait_across_fill PROVE SagaInv'
    BY Zenon
<1>1. w.pc = "run" /\ Now.st = "BridgeMined" /\ UNCHANGED <<venue, chain>> /\ Facts
    BY Zenon DEF wait_across_fill, At, LeavesVenues, SagaInv
<1>2. w.pc \in Busy /\ Still
    BY <1>1, StillStep, Zenon DEF Busy
<1>3. Holds(Op, Now, View(w.op))
    BY <1>1, <1>2, OpIs, Zenon
<1>4. CASE fill[w.op] = "filled" /\ Advance(P("AcrossFilled"), "run")
    <2>1. View(w.op).fill = "filled" /\ "AcrossFilled" \in States \ {"Quarantined"}
        BY <1>4, ViewIs, Zenon DEF States
    <2>2. \A p : p.st = "AcrossFilled" /\ p.why = "none" /\ p.mode = "none" => Holds(Op, p, View(w.op))
        BY <1>1, <1>3, <2>1, Zenon
           DEF Holds, Lawful, WithdrawalTrue, ChainTrue, Staged, Returning, Bridging, Depositing
    <2> QED BY <1>1, <1>4, <2>1, <2>2, RunRecord, Zenon
<1>5. CASE Fail("fill_timeout") /\ UNCHANGED journal
    <2>1. "fill_timeout" \in Reasons
        BY Zenon DEF Reasons
    <2> QED BY <1>2, <1>5, <2>1, FailStep, Zenon
<1>6. CASE Fail("other") /\ UNCHANGED journal
    BY <1>2, <1>6, FailOther, Zenon
<1> QED BY <1>4, <1>5, <1>6, Zenon DEF wait_across_fill

\* The bridged withdrawal is complete.
LEMMA AcrossCompleted == SagaInv /\ complete_across_to_wallet => SagaInv'
<1> SUFFICES ASSUME SagaInv, complete_across_to_wallet PROVE SagaInv'
    BY Zenon
<1>1. /\ w.pc = "run" /\ Now.st = "AcrossFilled" /\ Op.dir = "b2w" /\ UNCHANGED <<venue, chain>>
      /\ Advance(P("Completed"), "run")
    BY Zenon DEF complete_across_to_wallet, B2W, At, LeavesVenues
<1>2. Holds(Op, Now, View(w.op)) /\ "Completed" \in States \ {"Quarantined"}
    BY <1>1, OpIs, Zenon DEF Busy, States
<1>3. \A p : p.st = "Completed" /\ p.why = "none" /\ p.mode = "none" => Holds(Op, p, View(w.op))
    BY <1>1, <1>2, Zenon
       DEF Holds, Lawful, WithdrawalTrue, ChainTrue, Staged, Returning, Bridging, Depositing
<1> QED BY <1>1, <1>2, <1>3, RunRecord, Zenon

\* The deposit transaction is asked for.
LEMMA DepositStarted == SagaInv /\ StartDeposit => SagaInv'
<1> SUFFICES ASSUME SagaInv, StartDeposit PROVE SagaInv'
    BY Zenon
<1>1. /\ w.pc = "run" /\ Op.dir = "w2b" /\ StartTx("deposit", Now) /\ UNCHANGED <<venue, chain>>
      /\ Now.st = IF Op.route = "direct" THEN "Intent" ELSE "AcrossFilled"
      /\ Facts
    BY Zenon DEF StartDeposit, LeavesVenues, SagaInv
<1>2. w.pc \in Busy /\ Still /\ "deposit" \in Children
    BY <1>1, StillStep, Zenon DEF Busy, Children
<1>3. Holds(Op, Now, View(w.op)) /\ Now \in Progress /\ Now.st # "Quarantined"
    BY <1>1, <1>2, OpIs, Zenon
<1>4. \A u, op2, st : /\ u.pc = "tx" /\ u.c = "deposit"
                      /\ op2.progress = Now /\ op2.route = Op.route /\ op2.dir = Op.dir
                      => CallFor(u, op2, st)
    BY <1>1, Zenon DEF CallFor
<1> QED BY <1>1, <1>2, <1>3, <1>4, StartTxStep, Zenon

\* The deposit record: the questionnaire is journaled, or the credit.
LEMMA DepositAwaited == SagaInv /\ wait_binance_deposit => SagaInv'
<1> SUFFICES ASSUME SagaInv, wait_binance_deposit PROVE SagaInv'
    BY Zenon
<1>1. /\ w.pc = "run" /\ Now.st \in {"DepositMined", "Questionnaire"} /\ UNCHANGED <<venue, chain>>
    BY Zenon DEF wait_binance_deposit, At, LeavesVenues
<1>2. Holds(Op, Now, View(w.op)) /\ {"Questionnaire", "Credited"} \subseteq States \ {"Quarantined"}
    BY <1>1, OpIs, Zenon DEF Busy, States
<1>3. CASE Advance(P("Questionnaire"), "run")
    <2>1. \A p : p.st = "Questionnaire" /\ p.why = "none" /\ p.mode = "none" => Holds(Op, p, View(w.op))
        BY <1>1, <1>2, Zenon
           DEF Holds, Lawful, WithdrawalTrue, ChainTrue, Staged, Returning, Bridging, Depositing
    <2> QED BY <1>1, <1>2, <1>3, <2>1, RunRecord, ZenonT(30)
<1>4. CASE dep[w.op] \in {"credited", "asked_credited"} /\ Advance(P("Credited"), "run")
    <2>1. View(w.op).dep \in {"credited", "asked_credited"}
        BY <1>4, ViewIs, Zenon
    <2>2. \A p : p.st = "Credited" /\ p.why = "none" /\ p.mode = "none" => Holds(Op, p, View(w.op))
        BY <1>1, <1>2, <2>1, Zenon
           DEF Holds, Lawful, WithdrawalTrue, ChainTrue, Staged, Returning, Bridging, Depositing
    <2> QED BY <1>1, <1>2, <1>4, <2>2, RunRecord, Zenon
<1> QED BY <1>3, <1>4, Zenon DEF wait_binance_deposit

\* The credited deposit is complete.
LEMMA DepositFinished == SagaInv /\ finish_binance_deposit => SagaInv'
<1> SUFFICES ASSUME SagaInv, finish_binance_deposit PROVE SagaInv'
    BY Zenon
<1>1. /\ w.pc = "run" /\ Now.st = "Credited" /\ UNCHANGED <<venue, chain>>
      /\ Advance(P("Completed"), "run")
    BY Zenon DEF finish_binance_deposit, At, LeavesVenues
<1>2. Holds(Op, Now, View(w.op)) /\ "Completed" \in States \ {"Quarantined"}
    BY <1>1, OpIs, Zenon DEF Busy, States
<1>3. \A p : p.st = "Completed" /\ p.why = "none" /\ p.mode = "none" => Holds(Op, p, View(w.op))
    BY <1>1, <1>2, Zenon
       DEF Holds, Lawful, WithdrawalTrue, ChainTrue, Staged, Returning, Bridging, Depositing
<1> QED BY <1>1, <1>2, <1>3, RunRecord, Zenon

\* A wait runs out, or a step fails.
LEMMA WaitFails == SagaInv /\ (WaitRunsOut \/ StepFails) => SagaInv'
<1> SUFFICES ASSUME SagaInv, WaitRunsOut \/ StepFails PROVE SagaInv'
    BY Zenon
<1>1. UNCHANGED journal /\ UNCHANGED <<venue, chain>> /\ Facts
    BY Zenon DEF WaitRunsOut, StepFails, LeavesVenues, SagaInv
<1>2. w.pc \in Busy /\ Still
    BY <1>1, StillStep, Zenon DEF WaitRunsOut, StepFails, At, Busy, Sending
<1>3. CASE WaitRunsOut
    BY <1>1, <1>2, <1>3, FailOther, Zenon DEF WaitRunsOut
<1>4. CASE StepFails
    <2>1. PICK why \in FailureReasons : Fail(why)
        BY <1>4, Zenon DEF StepFails
    <2>2. why \in {"other", "capital_config", "header", "ownership_absent"}
        BY <2>1, Zenon DEF FailureReasons
    <2>3. why \in Reasons
        BY <2>2, Zenon DEF Reasons
    <2> QED BY <1>1, <1>2, <2>1, <2>3, FailStep, Zenon
<1> QED BY <1>3, <1>4, Zenon

-----------------------------------------------------------------------------
(* Between operations: the task's commands, start-up and recovery.          *)

\* A record for an operation beside which no other is active, after which the
\* worker runs it or is at a place that asks for nothing.
LEMMA AppendAt ==
  \A o \in DOMAIN journal : \A next \in Progress :
    /\ SagaInv /\ Still /\ ActiveOps \subseteq {o}
    /\ journal' = [journal EXCEPT ![o] = Appended(@, next)]
    /\ next.st # "Quarantined" /\ Holds(journal[o], next, View(o))
    /\ w' \in Worker0 /\ w'.op <= Len(journal) /\ w'.pc \notin Sending \cup Calling
    /\ w'.pc \in Busy => w'.op = o
    /\ w'.pc \notin Resting
    => SagaInv'
<1> SUFFICES ASSUME NEW o \in DOMAIN journal, NEW next \in Progress,
                    SagaInv, Still, ActiveOps \subseteq {o},
                    journal' = [journal EXCEPT ![o] = Appended(@, next)],
                    next.st # "Quarantined", Holds(journal[o], next, View(o)),
                    w' \in Worker0, w'.op <= Len(journal), w'.pc \notin Sending \cup Calling,
                    w'.pc \in Busy => w'.op = o,
                    w'.pc \notin Resting
             PROVE  SagaInv'
    BY Zenon
<1>1. Facts
    BY Zenon DEF SagaInv
<1>2. Facts' /\ SameOps(o) /\ Became(o, next)
    BY <1>1, AppendStep, Zenon
<1>3. ActiveOps' \subseteq {o}
    BY <1>2, Zenon DEF ActiveOps, SameOps
<1>4. OneActive'
    BY <1>2, <1>3, Zenon DEF OneActive, SameOps
<1>5. WorkerType'
    BY <1>2, Zenon DEF WorkerType, SameOps
<1> QED BY <1>2, <1>4, <1>5, QuietPlaces, Zenon DEF SagaInv, WorkerOK

\* No record, and a place that asks for nothing.
LEMMA StayAt ==
  /\ SagaInv /\ Still /\ UNCHANGED journal
  /\ w' \in Worker0 /\ w'.op <= Len(journal) /\ w'.pc \notin Sending \cup Calling
  /\ w'.pc \in Busy => w'.op \in DOMAIN journal /\ ActiveOps \subseteq {w'.op}
  /\ w'.pc \in Resting => ActiveOps = {}
  => SagaInv'
<1> SUFFICES ASSUME SagaInv, Still, UNCHANGED journal,
                    w' \in Worker0, w'.op <= Len(journal), w'.pc \notin Sending \cup Calling,
                    w'.pc \in Busy => w'.op \in DOMAIN journal /\ ActiveOps \subseteq {w'.op},
                    w'.pc \in Resting => ActiveOps = {}
             PROVE  SagaInv'
    BY Zenon
<1>1. Facts /\ JournalType /\ OneActive
    BY Zenon DEF SagaInv, Facts, WorkerOK
<1>2. Facts'
    <2>1. journal' \in Seq(OpType) /\ Len(journal') = Len(journal)
        BY <1>1, Zenon DEF JournalType
    <2>2. \A q \in DOMAIN journal : /\ journal'[q].token = journal[q].token
                                    /\ Holds(journal'[q], Claim(journal'[q]), View(q))
        BY <1>1, Zenon DEF Facts, Truthful
    <2> QED BY <1>1, <2>1, <2>2, FactsMove, Zenon
<1>3. ActiveOps' = ActiveOps
    BY Zenon DEF ActiveOps
<1>4. OneActive'
    BY <1>1, <1>3, Zenon DEF OneActive
<1>5. WorkerType'
    BY Zenon DEF WorkerType
<1> QED BY <1>2, <1>4, <1>5, QuietPlaces, Zenon DEF SagaInv, WorkerOK

\* A worker that is down, or starts, or is idle.
LEMMA DownIs ==
  /\ Down \in Worker0 /\ Down.op = 0 /\ Down.pc = "down"
  /\ LET d == [Down EXCEPT !.pc = "idle"] IN d \in Worker0 /\ d.op = 0 /\ d.pc = "idle"
  /\ LET d == [Down EXCEPT !.pc = "start_fill", !.starting = TRUE] IN
       d \in Worker0 /\ d.op = 0 /\ d.pc = "start_fill"
  /\ LET d == [Down EXCEPT !.why = "illegal_transition"] IN
       d \in Worker0 /\ d.op = 0 /\ d.pc = "down"
BY ZenonT(30) DEF Down, Worker0, Places, Resting, Starting, Busy, Reasons

\* The process dies, and starts again once no transaction is outstanding.
LEMMA Restarted == SagaInv /\ (Crash \/ Hydrate) => SagaInv'
<1> SUFFICES ASSUME SagaInv, Crash \/ Hydrate PROVE SagaInv'
    BY Zenon
<1>1. UNCHANGED journal /\ UNCHANGED <<venue, chain>> /\ Facts /\ JournalType
    BY Zenon DEF Crash, Hydrate, LeavesVenues, SagaInv, Facts
<1>2. Still
    BY <1>1, StillStep, Zenon
<1>3. w' \in Worker0 /\ w'.op = 0 /\ w'.pc \in {"down", "start_fill"}
    BY DownIs, Zenon DEF Crash, Hydrate
<1>4. w'.op <= Len(journal)
    BY <1>1, <1>3, OpsAre, SMTT(30)
<1>5. w'.pc \notin Sending \cup Calling /\ w'.pc \notin Busy /\ w'.pc \notin Resting
    BY <1>3, Zenon DEF Sending, Calling, Busy, Resting
<1> QED BY <1>1, <1>2, <1>3, <1>4, <1>5, StayAt, Zenon

\* The operation ended, and the task reports.
LEMMA ReturnedStep == SagaInv /\ Returned => SagaInv'
<1> SUFFICES ASSUME SagaInv, Returned PROVE SagaInv'
    BY Zenon
<1>1. /\ w.pc = "run" /\ Now.st \in {"Completed", "CancelledStale"} /\ Goto("report")
      /\ UNCHANGED journal /\ UNCHANGED <<venue, chain>> /\ Facts
    BY Zenon DEF Returned, LeavesVenues, SagaInv
<1>2. w.pc \in Busy /\ Still
    BY <1>1, StillStep, Zenon DEF Busy
<1>3. w \in Worker0 /\ ActiveOps \subseteq {w.op} /\ w.op <= Len(journal)
    BY <1>2, Zenon DEF SagaInv, WorkerOK, WorkerType, OneActive
<1>4. ActiveOps = {}
    BY <1>1, <1>3, Zenon DEF ActiveOps, terminal, Now, Op
<1>5. w' \in Worker0 /\ w'.pc = "report" /\ w'.op = w.op
    BY <1>1, <1>3, StepIs, Zenon DEF Goto, Places, Resting
<1>6. w'.pc \notin Sending \cup Calling /\ w'.pc \notin Busy
    BY <1>5, Zenon DEF Sending, Calling, Busy
<1> QED BY <1>1, <1>2, <1>3, <1>4, <1>5, <1>6, StayAt, ZenonT(30)

\* The periodic command.
LEMMA ReconcileStarted == SagaInv /\ ReconcileAcross => SagaInv'
<1> SUFFICES ASSUME SagaInv, ReconcileAcross PROVE SagaInv'
    BY Zenon
<1>1. /\ w.pc = "idle" /\ Goto("reconcile_credit")
      /\ UNCHANGED journal /\ UNCHANGED <<venue, chain>> /\ Facts
    BY Zenon DEF ReconcileAcross, LeavesVenues, SagaInv
<1>2. Still
    BY <1>1, StillStep, Zenon
<1>3. w \in Worker0 /\ ActiveOps = {} /\ w.op <= Len(journal)
    BY <1>1, Zenon DEF SagaInv, WorkerOK, WorkerType, OneActive, Resting
<1>4. w' \in Worker0 /\ w'.pc = "reconcile_credit" /\ w'.op = w.op
    BY <1>1, <1>3, StepIs, Zenon DEF Goto, Places, Resting
<1>5. w'.pc \notin Sending \cup Calling /\ w'.pc \notin Busy
    BY <1>4, Zenon DEF Sending, Calling, Busy
<1> QED BY <1>1, <1>2, <1>3, <1>4, <1>5, StayAt, Zenon

Resumes(o, p) == w' = Enter(o, FALSE, p)

\* A worker that resumes an operation runs it.
LEMMA ResumesIs ==
  \A o \in Nat : \A p \in Progress :
    w \in Worker0 /\ Resumes(o, p) => w' \in Worker0 /\ w'.pc = "run" /\ w'.op = o
<1> SUFFICES ASSUME NEW o \in Nat, NEW p \in Progress, w \in Worker0, Resumes(o, p)
             PROVE  w' \in Worker0 /\ w'.pc = "run" /\ w'.op = o
    BY Zenon
<1>1. PICK fresh \in BOOLEAN : w' = Enter(o, fresh, p)
    BY Zenon DEF Resumes
<1>2. LET e == Enter(o, fresh, p) IN e \in Worker0 /\ e.pc = "run" /\ e.op = o
    BY StepIs
<1> QED BY <1>1, <1>2, Zenon

\* A failed quote is asked for again.
LEMMA QuoteRetried == SagaInv /\ QuoteRetry => SagaInv'
<1> SUFFICES ASSUME SagaInv, QuoteRetry PROVE SagaInv'
    BY Zenon
<1>1. /\ w.pc = "failed" /\ w' = Enter(w.op, FALSE, Now)
      /\ UNCHANGED journal /\ UNCHANGED <<venue, chain>> /\ Facts
    BY Zenon DEF QuoteRetry, LeavesVenues, SagaInv
<1>2. w.pc \in Busy /\ Still
    BY <1>1, StillStep, Zenon DEF Busy
<1>3. w \in Worker0 /\ Now \in Progress /\ w.op \in Nat
    BY <1>2, OpIs, Zenon DEF Worker0
<1>a. Resumes(w.op, Now)
    BY <1>1, Zenon DEF Resumes
<1>4. w' \in Worker0 /\ w'.pc = "run" /\ w'.op = w.op
    BY <1>a, <1>3, ResumesIs, Zenon
<1>5. w'.pc \in Busy \ Calling /\ Ready(w', Op, View(w.op))
    BY <1>4, Zenon DEF Busy, Calling, Ready
<1> QED BY <1>1, <1>2, <1>4, <1>5, GotoReady, Zenon

\* A failed ownership proof withdrew nothing: its withdrawal may start again.
LEMMA OwnershipTrue ==
  \A op, v : \A p :
    /\ op.progress.st = "Failed" /\ op.progress.why = "ownership_rejected"
    /\ Holds(op, op.progress, v) /\ p.st = "SubmissionStarted" /\ p.mode = "travel"
    => Holds(op, p, v)
BY DEF Holds, Lawful, WithdrawalTrue, ChainTrue, Staged, Returning, Bridging, Depositing

\* An ownership rejection is retried.
LEMMA OwnershipRetried == SagaInv /\ OwnershipRetry => SagaInv'
<1> SUFFICES ASSUME SagaInv, OwnershipRetry PROVE SagaInv'
    BY Zenon
<1>1. w.pc = "failed" /\ UNCHANGED <<venue, chain>> /\ Facts
    BY Zenon DEF OwnershipRetry, LeavesVenues, SagaInv
<1>2. w.pc \in Busy /\ Still
    BY <1>1, StillStep, Zenon DEF Busy
<1>3. /\ w \in Worker0 /\ Now \in Progress /\ w.op \in Nat /\ w.op \in DOMAIN journal
      /\ w.op <= Len(journal)
      /\ Now.st # "Quarantined" => Holds(Op, Now, View(w.op))
    BY <1>2, OpIs, Zenon DEF Worker0, SagaInv, WorkerOK, WorkerType
<1>4. CASE /\ ActiveOps = {} /\ OwnershipReopenable(Op)
           /\ journal' = [journal EXCEPT ![w.op] = Appended(@, Started("travel", 0))]
           /\ w' = Enter(w.op, FALSE, Started("travel", 0))
    <2> DEFINE next == Started("travel", 0)
    <2>1. next \in Progress /\ next.st = "SubmissionStarted" /\ next.mode = "travel"
        BY ProgressIs, Zenon DEF Modes
    <2>2. journal' = [journal EXCEPT ![w.op] = Appended(@, next)] /\ Resumes(w.op, next)
        BY <1>4, Zenon DEF Resumes
    <2> HIDE DEF next
    <2>3. Now.st = "Failed" /\ Now.why = "ownership_rejected"
        BY <1>4, Zenon DEF OwnershipReopenable, retryable_ownership_failure, Now
    <2>4. Holds(journal[w.op], next, View(w.op))
        BY <1>3, <2>1, <2>3, OwnershipTrue, Zenon DEF Now, Op
    <2>5. w' \in Worker0 /\ w'.pc = "run" /\ w'.op = w.op
        BY <1>3, <2>1, <2>2, ResumesIs, Zenon
    <2>6. w'.pc \notin Sending \cup Calling /\ w'.pc \notin Resting
        BY <2>5, Zenon DEF Sending, Calling, Resting
    <2>7. ActiveOps \subseteq {w.op}
        BY <1>4, Zenon
    <2> QED BY <1>2, <1>3, <2>1, <2>2, <2>4, <2>5, <2>6, <2>7, AppendAt, ZenonT(30)
<1>5. CASE Fail("illegal_transition") /\ UNCHANGED journal
    <2>1. "illegal_transition" \in Reasons
        BY Zenon DEF Reasons
    <2> QED BY <1>2, <1>5, <2>1, FailStep, Zenon
<1>6. CASE Fail("other") /\ UNCHANGED journal
    BY <1>2, <1>6, FailOther, Zenon
<1> QED BY <1>4, <1>5, <1>6, Zenon DEF OwnershipRetry

\* A quarantine keeps what every operation claims, and leaves none active.
LEMMA QuarantineStep == SagaInv /\ quarantine_active_operation => SagaInv'
<1> SUFFICES ASSUME SagaInv, quarantine_active_operation PROVE SagaInv'
    BY Zenon
<1> DEFINE why == IF w.again THEN "consumed_retry_failed" ELSE w.why
           next == Quarantined(why)
<1>1. /\ w.pc = "failed" /\ w.why \notin {"ownership_rejected", "quote"} /\ Goto("report")
      /\ UNCHANGED <<venue, chain>> /\ Facts /\ JournalType
      /\ journal' = [o \in DOMAIN journal |->
                       IF o \in ActiveOps THEN Appended(journal[o], next) ELSE journal[o]]
    BY Zenon DEF quarantine_active_operation, LeavesVenues, SagaInv, Facts
<1>2. w.pc \in Busy /\ Still
    BY <1>1, StillStep, Zenon DEF Busy
<1>3. w \in Worker0 /\ w.op <= Len(journal)
    BY Zenon DEF SagaInv, WorkerOK, WorkerType
<1>4. why \in Reasons \cup {"none"}
    <2>1. w.why \in Reasons \cup {"none"}
        BY <1>1, <1>3, Zenon DEF Worker0
    <2>2. "consumed_retry_failed" \in Reasons
        BY Zenon DEF Reasons
    <2> QED BY <2>1, <2>2, Zenon
<1>5. next \in Progress /\ next.st = "Quarantined"
    BY <1>4, Zenon DEF Quarantined, P, Progress, States
<1> HIDE DEF next
<1>6. /\ DOMAIN journal = 1..Len(journal) /\ Len(journal) \in Nat /\ DOMAIN journal \subseteq OpIds
      /\ \A o \in DOMAIN journal : journal[o] \in OpType
    BY <1>1, OpsAre, Zenon
<1>7. \A o \in DOMAIN journal :
        /\ journal'[o] \in OpType /\ journal'[o].token = journal[o].token
        /\ terminal(journal'[o].progress)
        /\ Holds(journal'[o], Claim(journal'[o]), View(o))
    <2> SUFFICES ASSUME NEW o \in DOMAIN journal
                 PROVE  /\ journal'[o] \in OpType /\ journal'[o].token = journal[o].token
                        /\ terminal(journal'[o].progress)
                        /\ Holds(journal'[o], Claim(journal'[o]), View(o))
        BY Zenon
    <2>1. Holds(journal[o], Claim(journal[o]), View(o)) /\ journal[o] \in OpType
        BY <1>1, <1>6, Zenon DEF Facts, Truthful
    <2>2. CASE o \in ActiveOps
        <3> DEFINE op == Appended(journal[o], next)
        <3>1. journal'[o] = op
            BY <1>1, <2>2, Zenon
        <3>2. /\ op \in OpType /\ op.route = journal[o].route /\ op.dir = journal[o].dir
              /\ op.token = journal[o].token /\ op.progress = next
              /\ op.before = journal[o].progress
            BY <1>5, <2>1, AppendedIs, Zenon
        <3> HIDE DEF op
        <3>3. journal[o].progress.st # "Quarantined"
            BY <2>2, Zenon DEF ActiveOps, terminal
        <3>4. Claim(op) = Claim(journal[o])
            BY <1>5, <3>2, <3>3, Zenon DEF Claim
        <3>5. Holds(op, Claim(op), View(o))
            BY <2>1, <3>2, <3>4, HoldsCarries, Zenon
        <3>6. terminal(op.progress)
            BY <1>5, <3>2, Zenon DEF terminal
        <3> QED BY <3>1, <3>2, <3>5, <3>6, Zenon
    <2>3. CASE o \notin ActiveOps
        <3>1. journal'[o] = journal[o]
            BY <1>1, <2>3, Zenon
        <3>2. terminal(journal[o].progress)
            BY <2>3, Zenon DEF ActiveOps
        <3> QED BY <2>1, <3>1, <3>2, Zenon
    <2> QED BY <2>2, <2>3, Zenon
<1>8. /\ journal' \in Seq(OpType) /\ Len(journal') = Len(journal) /\ DOMAIN journal' = DOMAIN journal
    <2>1. journal' \in [1..Len(journal) -> OpType]
        BY <1>1, <1>6, <1>7, Zenon
    <2> QED BY <1>6, <2>1
<1>9. Facts'
    BY <1>1, <1>2, <1>7, <1>8, FactsMove, Zenon
<1>10. ActiveOps' = {}
    BY <1>7, <1>8, Zenon DEF ActiveOps
<1>11. w' \in Worker0 /\ w'.pc = "report" /\ w'.op = w.op
    BY <1>1, <1>3, StepIs, ZenonT(30) DEF Goto, Places, Resting
<1>12. w'.pc \notin Sending \cup Calling /\ w'.pc \notin Busy
    BY <1>11, Zenon DEF Sending, Calling, Busy
<1>13. WorkerType' /\ OneActive'
    BY <1>3, <1>8, <1>10, <1>11, <1>12, Zenon DEF WorkerType, OneActive
<1> QED BY <1>9, <1>12, <1>13, QuietPlaces, ZenonT(30) DEF SagaInv, WorkerOK

\* The first of some operations is one of them.
LEMMA FirstIs ==
  Facts => \A S \in SUBSET DOMAIN journal : S # {} => FirstOp(S) \in S
<1> SUFFICES ASSUME Facts, NEW S \in SUBSET DOMAIN journal, S # {} PROVE FirstOp(S) \in S
    BY Zenon
<1>1. S \in SUBSET OpIds
    BY OpsAre, Zenon DEF Facts
<1>2. \E o \in S : \A q \in S : o <= q
    BY <1>1, Zenon DEF Facts, OpSets
<1> QED BY <1>2, Zenon DEF FirstOp

\* Start-up ends with the recovery of what is active.
LEMMA Recovered == SagaInv /\ StartRecovery => SagaInv'
<1> SUFFICES ASSUME SagaInv, StartRecovery PROVE SagaInv'
    BY Zenon
<1>1. UNCHANGED journal /\ UNCHANGED <<venue, chain>> /\ Facts /\ JournalType
    BY Zenon DEF StartRecovery, LeavesVenues, SagaInv, Facts
<1>2. Still
    BY <1>1, StillStep, Zenon
<1>3. /\ DOMAIN journal = 1..Len(journal) /\ Len(journal) \in Nat /\ w \in Worker0
      /\ \A o \in DOMAIN journal : journal[o] \in OpType
    BY <1>1, OpsAre, Zenon DEF SagaInv, WorkerOK, WorkerType
<1>4. CASE ActiveOps = {}
    <2>1. w' = [Down EXCEPT !.pc = "idle"]
        BY <1>4, Zenon DEF StartRecovery
    <2>2. w' \in Worker0 /\ w'.op = 0 /\ w'.pc = "idle"
        BY <2>1, DownIs, Zenon
    <2>3. w'.pc \notin Sending \cup Calling /\ w'.pc \notin Busy /\ w'.op <= Len(journal)
        BY <1>3, <2>2, SMTT(30) DEF Sending, Calling, Busy
    <2> QED BY <1>1, <1>2, <1>4, <2>2, <2>3, StayAt, ZenonT(30)
<1>5. CASE ActiveOps # {}
    <2> DEFINE o == FirstOp(ActiveOps)
    <2>1. Resumes(o, journal[o].progress)
        BY <1>5, Zenon DEF StartRecovery, Resumes
    <2>2. ActiveOps \in SUBSET DOMAIN journal
        BY Zenon DEF ActiveOps
    <2>3. o \in ActiveOps
        BY <1>1, <1>5, <2>2, FirstIs, ZenonT(30)
    <2> HIDE DEF o
    <2>4. o \in DOMAIN journal /\ o \in Nat /\ o <= Len(journal) /\ journal[o].progress \in Progress
        BY <1>3, <2>2, <2>3, SMTT(30) DEF OpType
    <2>5. ActiveOps \subseteq {o}
        BY <2>3, Zenon DEF SagaInv, WorkerOK, OneActive
    <2>6. w' \in Worker0 /\ w'.pc = "run" /\ w'.op = o
        BY <1>3, <2>1, <2>4, ResumesIs, ZenonT(30)
    <2>7. w'.pc \notin Sending \cup Calling /\ w'.pc \notin Resting
        BY <2>6, Zenon DEF Sending, Calling, Resting
    <2> QED BY <1>1, <1>2, <2>4, <2>5, <2>6, <2>7, StayAt, ZenonT(30)
<1> QED BY <1>4, <1>5, Zenon

\* A quarantine or an ownership rejection is reopened, or the task goes on.
LEMMA Reopened ==
  \A none \in Worker0 :
    /\ SagaInv /\ UNCHANGED <<venue, chain>> /\ ReopenNext(none)
    /\ none.op <= Len(journal) /\ none.pc \in {"idle", "start_deposit"}
    /\ none.pc = "idle" => ActiveOps = {}
    => SagaInv'
<1> SUFFICES ASSUME NEW none \in Worker0,
                    SagaInv, UNCHANGED <<venue, chain>>, ReopenNext(none),
                    none.op <= Len(journal), none.pc \in {"idle", "start_deposit"},
                    none.pc = "idle" => ActiveOps = {}
             PROVE  SagaInv'
    BY Zenon
<1> DEFINE failures == Candidates({o \in DOMAIN journal : OwnershipReopenable(journal[o])})
           stuck == Candidates({o \in DOMAIN journal : QuarantineReopenable(journal[o])})
           S == IF failures # {} THEN failures ELSE stuck
           o == FirstOp(S)
           next == IF failures # {} THEN Started("travel", 0) ELSE journal[o].before
<1>1. /\ \/ w' = none /\ UNCHANGED journal
         \/ /\ failures \cup stuck # {}
            /\ journal' = [journal EXCEPT ![o] = Appended(@, next)]
            /\ Resumes(o, next)
         \/ w' = [Down EXCEPT !.why = "illegal_transition"] /\ UNCHANGED journal
    BY Zenon DEF ReopenNext, Resumes
<1>2. Facts /\ JournalType /\ Still /\ w \in Worker0
    BY StillStep, Zenon DEF SagaInv, Facts, WorkerOK, WorkerType
<1>3. /\ DOMAIN journal = 1..Len(journal) /\ Len(journal) \in Nat
      /\ \A q \in DOMAIN journal : journal[q] \in OpType
    BY <1>2, OpsAre, Zenon
<1>4. CASE w' = none /\ UNCHANGED journal
    <2>1. w'.pc \notin Sending \cup Calling /\ w'.pc \notin Busy
        BY <1>4, Zenon DEF Sending, Calling, Busy
    <2>2. w'.pc \in Resting => ActiveOps = {}
        BY <1>4, Zenon DEF Resting
    <2> QED BY <1>2, <1>4, <2>1, <2>2, StayAt, ZenonT(30)
<1>5. CASE w' = [Down EXCEPT !.why = "illegal_transition"] /\ UNCHANGED journal
    <2>1. w' \in Worker0 /\ w'.op = 0 /\ w'.pc = "down"
        BY <1>5, DownIs, Zenon
    <2>2. w'.pc \notin Sending \cup Calling /\ w'.pc \notin Busy /\ w'.pc \notin Resting
        BY <2>1, Zenon DEF Sending, Calling, Busy, Resting
    <2> QED BY <1>2, <1>3, <1>5, <2>1, <2>2, StayAt, SMTT(30)
<1>6. CASE /\ failures \cup stuck # {}
           /\ journal' = [journal EXCEPT ![o] = Appended(@, next)]
           /\ Resumes(o, next)
    <2>1. S # {} /\ S \in SUBSET DOMAIN journal /\ ActiveOps = {}
        BY <1>6, Zenon DEF Candidates
    <2>2. o \in S /\ o \in DOMAIN journal
        BY <1>2, <2>1, FirstIs, Zenon
    <2>3. \/ failures # {} /\ OwnershipReopenable(journal[o])
          \/ failures = {} /\ journal[o].progress.st = "Quarantined"
        BY <2>1, <2>2, Zenon DEF Candidates, QuarantineReopenable
    <2>4. Holds(journal[o], Claim(journal[o]), View(o)) /\ journal[o] \in OpType
        BY <1>2, <1>3, <2>2, Zenon DEF Facts, Truthful
    <2>5. next \in Progress /\ next.st # "Quarantined" /\ Holds(journal[o], next, View(o))
        <3>1. CASE failures # {} /\ OwnershipReopenable(journal[o])
            <4>1. next = Started("travel", 0)
                BY <3>1, Zenon
            <4> HIDE DEF next, o
            <4>2. next \in Progress /\ next.st = "SubmissionStarted" /\ next.mode = "travel"
                BY <4>1, ProgressIs, Zenon DEF Modes
            <4>3. /\ journal[o].progress.st = "Failed" /\ journal[o].progress.why = "ownership_rejected"
                  /\ Claim(journal[o]) = journal[o].progress
                BY <3>1, Zenon DEF OwnershipReopenable, retryable_ownership_failure, Claim
            <4> QED BY <2>4, <4>2, <4>3, OwnershipTrue, ZenonT(30)
        <3>2. CASE failures = {} /\ journal[o].progress.st = "Quarantined"
            <4>1. next = journal[o].before /\ Claim(journal[o]) = journal[o].before
                BY <3>2, Zenon DEF Claim
            <4> HIDE DEF next, o
            <4> QED BY <2>4, <4>1, Zenon DEF Holds, Lawful, OpType
        <3> QED BY <2>3, <3>1, <3>2, Zenon
    <2> HIDE DEF next, o
    <2>6. o \in Nat /\ o <= Len(journal)
        BY <1>3, <2>2
    <2>7. w' \in Worker0 /\ w'.pc = "run" /\ w'.op = o
        BY <1>2, <1>6, <2>5, <2>6, ResumesIs, ZenonT(30)
    <2>8. w'.pc \notin Sending \cup Calling /\ w'.pc \notin Resting /\ ActiveOps \subseteq {o}
        BY <2>1, <2>7, Zenon DEF Sending, Calling, Resting
    <2> QED BY <1>2, <1>6, <2>2, <2>5, <2>6, <2>7, <2>8, AppendAt, ZenonT(30)
<1> QED BY <1>1, <1>4, <1>5, <1>6, Zenon

\* The task reports, and at start-up reopens what may be retried.
LEMMA Reported == SagaInv /\ Report => SagaInv'
<1> SUFFICES ASSUME SagaInv, Report PROVE SagaInv'
    BY Zenon
<1>1. w.pc = "report" /\ UNCHANGED <<venue, chain>> /\ Facts /\ JournalType
    BY Zenon DEF Report, LeavesVenues, SagaInv, Facts
<1>2. ActiveOps = {}
    BY <1>1, Zenon DEF SagaInv, WorkerOK, OneActive, Resting
<1> DEFINE d == [Down EXCEPT !.pc = "idle"]
<1>3. d \in Worker0 /\ d.op = 0 /\ d.pc = "idle"
    BY DownIs, Zenon
<1>4. ReopenNext(d) \/ (w' = d /\ UNCHANGED journal)
    BY Zenon DEF Report
<1> HIDE DEF d
<1>5. d.op <= Len(journal)
    BY <1>1, <1>3, OpsAre, SMTT(30)
<1>6. CASE ReopenNext(d)
    BY <1>1, <1>2, <1>3, <1>5, <1>6, Reopened, ZenonT(30)
<1>7. CASE w' = d /\ UNCHANGED journal
    <2>1. Still
        BY <1>1, StillStep, Zenon
    <2>2. w'.pc \notin Sending \cup Calling /\ w'.pc \notin Busy
        BY <1>3, <1>7, Zenon DEF Sending, Calling, Busy
    <2> QED BY <1>2, <1>3, <1>5, <1>7, <2>1, <2>2, StayAt, ZenonT(30)
<1> QED BY <1>4, <1>6, <1>7, Zenon

\* Start-up reopens what may be retried.
LEMMA StartReopened ==
  /\ SagaInv /\ w.pc = "start_reopen"
  /\ ReopenNext([w EXCEPT !.pc = "start_deposit"]) /\ LeavesVenues
  => SagaInv'
<1> SUFFICES ASSUME SagaInv, w.pc = "start_reopen",
                    ReopenNext([w EXCEPT !.pc = "start_deposit"]), LeavesVenues
             PROVE  SagaInv'
    BY Zenon
<1> DEFINE d == [w EXCEPT !.pc = "start_deposit"]
<1>1. w \in Worker0 /\ w.op <= Len(journal) /\ UNCHANGED <<venue, chain>>
    BY Zenon DEF SagaInv, WorkerOK, WorkerType, LeavesVenues
<1>2. d \in Worker0 /\ d.op = w.op /\ d.pc = "start_deposit"
    BY <1>1, Zenon DEF Worker0, Places, Starting
<1>3. ReopenNext(d)
    BY Zenon
<1> HIDE DEF d
<1> QED BY <1>1, <1>2, <1>3, Reopened, Zenon

\* Where a reconciliation that recorded progress leaves the worker.
Goes(o, next) ==
  \/ Resumes(o, next)
  \/ w' = [Enter(o, FALSE, next) EXCEPT !.again = TRUE]
  \/ \E pc \in Starting : w' = [w EXCEPT !.pc = pc]

\* A reconciliation with evidence.
LEMMA ReconciledStep ==
  \A o \in DOMAIN journal : \A next \in Progress :
    /\ SagaInv /\ UNCHANGED <<venue, chain>> /\ ActiveOps = {}
    /\ journal' = [journal EXCEPT ![o] = Appended(@, next)] /\ Goes(o, next)
    /\ next.st # "Quarantined" /\ Holds(journal[o], next, View(o))
    => SagaInv'
\* It runs the operation, or start-up goes on.
<1>GoesIs.
  \A o \in Nat : \A next \in Progress :
    w \in Worker0 /\ Goes(o, next) =>
      /\ w' \in Worker0 /\ w'.pc \in Starting \cup {"run"}
      /\ w'.op = IF w'.pc = "run" THEN o ELSE w.op
    <2> SUFFICES ASSUME NEW o \in Nat, NEW next \in Progress, w \in Worker0, Goes(o, next)
                 PROVE  /\ w' \in Worker0 /\ w'.pc \in Starting \cup {"run"}
                        /\ w'.op = IF w'.pc = "run" THEN o ELSE w.op
        BY Zenon
    <2>1. CASE Resumes(o, next)
        BY <2>1, ResumesIs, Zenon
    <2>2. CASE w' = [Enter(o, FALSE, next) EXCEPT !.again = TRUE]
        <3>1. PICK fresh \in BOOLEAN : w' = [Enter(o, fresh, next) EXCEPT !.again = TRUE]
            BY <2>2, Zenon
        <3>2. LET e == Enter(o, fresh, next) IN e \in Worker0 /\ e.pc = "run" /\ e.op = o
            BY StepIs
        <3> DEFINE e == Enter(o, fresh, next)
        <3>3. e \in Worker0 /\ e.pc = "run" /\ e.op = o /\ w' = [e EXCEPT !.again = TRUE]
            BY <3>1, <3>2, Zenon
        <3> HIDE DEF e
        <3>4. w' \in Worker0 /\ w'.pc = "run" /\ w'.op = o
            BY <3>3, Zenon DEF Worker0
        <3> QED BY <3>4, Zenon
    <2>3. CASE \E pc \in Starting : w' = [w EXCEPT !.pc = pc]
        <3> PICK pc \in Starting : w' = [w EXCEPT !.pc = pc]
            BY <2>3, Zenon
        <3>1. pc \in Places /\ pc # "run"
            BY Zenon DEF Places, Starting
        <3>2. w' \in Worker0 /\ w'.pc = pc /\ w'.op = w.op
            BY <3>1, Zenon DEF Worker0
        <3> QED BY <3>1, <3>2, Zenon
    <2> QED BY <2>1, <2>2, <2>3, Zenon DEF Goes
<1> SUFFICES ASSUME NEW o \in DOMAIN journal, NEW next \in Progress,
                    SagaInv, UNCHANGED <<venue, chain>>, ActiveOps = {},
                    journal' = [journal EXCEPT ![o] = Appended(@, next)], Goes(o, next),
                    next.st # "Quarantined", Holds(journal[o], next, View(o))
             PROVE  SagaInv'
    BY Zenon
<1>1. Still /\ JournalType /\ w \in Worker0 /\ w.op <= Len(journal)
    BY StillStep, Zenon DEF SagaInv, WorkerOK, WorkerType, Facts
<1>2. o \in Nat /\ o <= Len(journal)
    BY <1>1, OpsAre
<1>3. /\ w' \in Worker0 /\ w'.pc \in Starting \cup {"run"}
      /\ w'.op = IF w'.pc = "run" THEN o ELSE w.op
    BY <1>1, <1>2, <1>GoesIs, Zenon
<1>4. w'.op <= Len(journal)
    BY <1>1, <1>2, <1>3, Zenon
<1>5. /\ w'.pc \notin Sending \cup Calling /\ w'.pc \notin Resting
      /\ w'.pc \in Busy => w'.pc = "run"
    BY <1>3, Zenon DEF Sending, Calling, Resting, Starting, Busy
<1>6. w'.pc \in Busy => w'.op = o
    BY <1>3, <1>5, Zenon
<1> QED BY <1>1, <1>3, <1>4, <1>5, <1>6, AppendAt, ZenonT(30)

\* A reconciliation without.
LEMMA UnreconciledStep ==
  \A pc \in Starting \cup Resting :
    /\ SagaInv /\ UNCHANGED <<venue, chain>> /\ Unreconciled(pc)
    /\ pc \in Resting => ActiveOps = {}
    => SagaInv'
<1> SUFFICES ASSUME NEW pc \in Starting \cup Resting,
                    SagaInv, UNCHANGED <<venue, chain>>, Unreconciled(pc),
                    pc \in Resting => ActiveOps = {}
             PROVE  SagaInv'
    BY Zenon
<1>1. Still /\ w \in Worker0 /\ w.op <= Len(journal) /\ UNCHANGED journal /\ w' = Step(pc)
    BY StillStep, Zenon DEF SagaInv, WorkerOK, WorkerType, Unreconciled, Goto
<1>2. pc \in Places
    BY Zenon DEF Places
<1>3. w' \in Worker0 /\ w'.pc = pc /\ w'.op = w.op
    BY <1>1, <1>2, StepIs, Zenon
<1>4. w'.pc \notin Sending \cup Calling /\ w'.pc \notin Busy
    BY <1>3, Zenon DEF Sending, Calling, Busy, Starting, Resting
<1> QED BY <1>1, <1>3, <1>4, StayAt, Zenon

\* A candidate is a quarantined operation, and none is active.
LEMMA CandidateIs ==
  \A S : /\ Facts /\ S \subseteq {o \in DOMAIN journal : journal[o].progress.st = "Quarantined"}
         /\ Candidates(S) # {}
         => LET o == FirstOp(Candidates(S)) IN
              /\ o \in S /\ o \in DOMAIN journal /\ ActiveOps = {} /\ journal[o] \in OpType
              /\ Claim(journal[o]) = journal[o].before
              /\ Holds(journal[o], journal[o].before, View(o))
<1> SUFFICES ASSUME NEW S, Facts,
                    S \subseteq {o \in DOMAIN journal : journal[o].progress.st = "Quarantined"},
                    Candidates(S) # {}
             PROVE  LET o == FirstOp(Candidates(S)) IN
                      /\ o \in S /\ o \in DOMAIN journal /\ ActiveOps = {} /\ journal[o] \in OpType
                      /\ Claim(journal[o]) = journal[o].before
                      /\ Holds(journal[o], journal[o].before, View(o))
    BY Zenon
<1> DEFINE o == FirstOp(Candidates(S))
<1>1. Candidates(S) = S /\ ActiveOps = {}
    BY Zenon DEF Candidates
<1>2. o \in S
    BY <1>1, FirstIs, Zenon
<1> HIDE DEF o
<1>3. o \in DOMAIN journal /\ journal[o].progress.st = "Quarantined"
    BY <1>2, Zenon
<1>4. journal[o] \in OpType
    BY <1>3, OpsAre, Zenon DEF Facts
<1>5. Claim(journal[o]) = journal[o].before /\ Holds(journal[o], journal[o].before, View(o))
    BY <1>3, Zenon DEF Claim, Facts, Truthful
<1> QED BY <1>1, <1>2, <1>3, <1>4, <1>5, Zenon DEF o

\* The fill arrived after all.
LEMMA FillReconciled ==
  /\ SagaInv
  /\ \/ reconcile_across_fill("start_fill", FALSE, "start_nonce")
     \/ reconcile_across_fill("reconcile_fill", TRUE, "report")
  => SagaInv'
<1> SUFFICES ASSUME SagaInv,
                    \/ reconcile_across_fill("start_fill", FALSE, "start_nonce")
                    \/ reconcile_across_fill("reconcile_fill", TRUE, "report")
             PROVE  SagaInv'
    BY Zenon
<1> DEFINE R == {o \in DOMAIN journal : AcrossFillReconcilable(journal[o])}
           o == FirstOp(Candidates(R))
<1>0. "start_nonce" \in Starting /\ "report" \in Resting
    BY Zenon DEF Starting, Resting
<1>1. /\ UNCHANGED <<venue, chain>> /\ Facts
      /\ \/ /\ Candidates(R) # {} /\ fill[o] = "filled" /\ Goes(o, P("AcrossFilled"))
            /\ journal' = [journal EXCEPT ![o] = Appended(@, P("AcrossFilled"))]
         \/ Unreconciled("start_nonce")
         \/ w.pc = "reconcile_fill" /\ Unreconciled("report")
    BY <1>0, Zenon DEF reconcile_across_fill, Reconciled, Goes, Resumes, LeavesVenues, SagaInv
<1>2. CASE Unreconciled("start_nonce")
    BY <1>0, <1>1, <1>2, UnreconciledStep, Zenon DEF Starting, Resting
<1>3. CASE w.pc = "reconcile_fill" /\ Unreconciled("report")
    <2>1. ActiveOps = {}
        BY <1>3, Zenon DEF SagaInv, WorkerOK, OneActive, Resting
    <2> QED BY <1>0, <1>1, <1>3, <2>1, UnreconciledStep, Zenon
<1>4. CASE /\ Candidates(R) # {} /\ fill[o] = "filled" /\ Goes(o, P("AcrossFilled"))
           /\ journal' = [journal EXCEPT ![o] = Appended(@, P("AcrossFilled"))]
    <2>1. R \subseteq {q \in DOMAIN journal : journal[q].progress.st = "Quarantined"}
        BY Zenon DEF AcrossFillReconcilable
    <2>2. /\ o \in R /\ o \in DOMAIN journal /\ ActiveOps = {}
          /\ Holds(journal[o], journal[o].before, View(o))
        BY <1>1, <1>4, <2>1, CandidateIs, Zenon
    <2>3. journal[o].route = "across" /\ journal[o].before.st = "BridgeMined"
        BY <2>2, Zenon DEF AcrossFillReconcilable
    <2> DEFINE next == P("AcrossFilled")
    <2>4. next \in Progress /\ next.st = "AcrossFilled" /\ next.why = "none"
        BY ProgressIs, Zenon DEF States
    <2>5. journal' = [journal EXCEPT ![o] = Appended(@, next)] /\ Goes(o, next) /\ fill[o] = "filled"
        BY <1>4, Zenon
    <2> HIDE DEF o, R, next
    <2>6. View(o).fill = "filled"
        BY <2>5, ViewIs, Zenon
    <2>7. Holds(journal[o], next, View(o))
        BY <2>2, <2>3, <2>4, <2>6, ZenonT(30)
           DEF Holds, Lawful, WithdrawalTrue, ChainTrue, Staged, Returning, Bridging, Depositing
    <2> QED BY <1>1, <2>2, <2>4, <2>5, <2>7, ReconciledStep, Zenon
<1> QED BY <1>1, <1>2, <1>3, <1>4, Zenon

\* A deposit whose nonce was consumed is retried.
LEMMA NonceReconciled ==
  /\ SagaInv
  /\ \/ reconcile_consumed_nonce("start_nonce", FALSE, "start_reopen")
     \/ reconcile_consumed_nonce("reconcile_nonce", TRUE, "reconcile_fill")
  => SagaInv'
<1> SUFFICES ASSUME SagaInv,
                    \/ reconcile_consumed_nonce("start_nonce", FALSE, "start_reopen")
                    \/ reconcile_consumed_nonce("reconcile_nonce", TRUE, "reconcile_fill")
             PROVE  SagaInv'
    BY Zenon
<1> DEFINE R == {o \in DOMAIN journal : ConsumedNonceReconcilable(journal[o])}
           o == FirstOp(Candidates(R))
<1>0. "start_reopen" \in Starting /\ "reconcile_fill" \in Resting
    BY Zenon DEF Starting, Resting
<1>1. /\ UNCHANGED <<venue, chain>> /\ Facts
      /\ \/ /\ Candidates(R) # {} /\ Goes(o, P("AcrossFilled"))
            /\ journal' = [journal EXCEPT ![o] = Appended(@, P("AcrossFilled"))]
         \/ Unreconciled("start_reopen")
         \/ w.pc = "reconcile_nonce" /\ Unreconciled("reconcile_fill")
    BY <1>0, Zenon DEF reconcile_consumed_nonce, Reconciled, Goes, LeavesVenues, SagaInv
<1>2. CASE Unreconciled("start_reopen")
    BY <1>0, <1>1, <1>2, UnreconciledStep, Zenon DEF Starting, Resting
<1>3. CASE w.pc = "reconcile_nonce" /\ Unreconciled("reconcile_fill")
    <2>1. ActiveOps = {}
        BY <1>3, Zenon DEF SagaInv, WorkerOK, OneActive, Resting
    <2> QED BY <1>0, <1>1, <1>3, <2>1, UnreconciledStep, Zenon
<1>4. CASE /\ Candidates(R) # {} /\ Goes(o, P("AcrossFilled"))
           /\ journal' = [journal EXCEPT ![o] = Appended(@, P("AcrossFilled"))]
    <2>1. R \subseteq {q \in DOMAIN journal : journal[q].progress.st = "Quarantined"}
        BY Zenon DEF ConsumedNonceReconcilable
    <2>2. /\ o \in R /\ o \in DOMAIN journal /\ ActiveOps = {}
          /\ Holds(journal[o], journal[o].before, View(o))
        BY <1>1, <1>4, <2>1, CandidateIs, Zenon
    <2>3. journal[o].before.st = "AcrossFilled"
        BY <2>2, Zenon DEF ConsumedNonceReconcilable
    <2> DEFINE next == P("AcrossFilled")
    <2>4. next \in Progress /\ next.st = "AcrossFilled" /\ next.why = "none"
        BY ProgressIs, Zenon DEF States
    <2>5. journal' = [journal EXCEPT ![o] = Appended(@, next)] /\ Goes(o, next)
        BY <1>4, Zenon
    <2> HIDE DEF o, R, next
    <2>6. Holds(journal[o], next, View(o))
        BY <2>2, <2>3, <2>4, ZenonT(30)
           DEF Holds, Lawful, WithdrawalTrue, ChainTrue, Staged, Returning, Bridging, Depositing
    <2> QED BY <1>1, <2>2, <2>4, <2>5, <2>6, ReconciledStep, ZenonT(30)
<1> QED BY <1>1, <1>2, <1>3, <1>4, Zenon

\* A direct deposit whose outcome was unknown was mined.
LEMMA DirectReconciled ==
  SagaInv /\ reconcile_direct_deposit("start_deposit", "start_credit") => SagaInv'
<1> SUFFICES ASSUME SagaInv, reconcile_direct_deposit("start_deposit", "start_credit")
             PROVE  SagaInv'
    BY Zenon
<1> DEFINE R == {o \in DOMAIN journal : DirectDepositReconcilable(journal[o])}
           o == FirstOp(Candidates(R))
<1>0. "start_credit" \in Starting
    BY Zenon DEF Starting
<1>1. /\ UNCHANGED <<venue, chain>> /\ Facts
      /\ \/ /\ Candidates(R) # {} /\ child[o]["deposit"].st = "mined" /\ Goes(o, P("DepositMined"))
            /\ journal' = [journal EXCEPT ![o] = Appended(@, P("DepositMined"))]
         \/ Unreconciled("start_credit")
    BY <1>0, Zenon DEF reconcile_direct_deposit, Reconciled, Goes, LeavesVenues, SagaInv
<1>2. CASE Unreconciled("start_credit")
    BY <1>0, <1>1, <1>2, UnreconciledStep, Zenon DEF Starting, Resting
<1>3. CASE /\ Candidates(R) # {} /\ child[o]["deposit"].st = "mined" /\ Goes(o, P("DepositMined"))
           /\ journal' = [journal EXCEPT ![o] = Appended(@, P("DepositMined"))]
    <2>1. R \subseteq {q \in DOMAIN journal : journal[q].progress.st = "Quarantined"}
        BY Zenon DEF DirectDepositReconcilable
    <2>2. /\ o \in R /\ o \in DOMAIN journal /\ ActiveOps = {}
          /\ Holds(journal[o], journal[o].before, View(o))
        BY <1>1, <1>3, <2>1, CandidateIs, Zenon
    <2>3. journal[o].route = "direct" /\ journal[o].dir = "w2b" /\ journal[o].before.st = "Intent"
        BY <2>2, Zenon DEF DirectDepositReconcilable
    <2> DEFINE next == P("DepositMined")
    <2>4. next \in Progress /\ next.st = "DepositMined" /\ next.why = "none"
        BY ProgressIs, Zenon DEF States
    <2>5. /\ journal' = [journal EXCEPT ![o] = Appended(@, next)] /\ Goes(o, next)
          /\ child[o]["deposit"].st = "mined"
        BY <1>3, Zenon
    <2> HIDE DEF o, R, next
    <2>6. View(o).deposit = "mined"
        BY <2>5, ViewIs, Zenon
    <2>7. Holds(journal[o], next, View(o))
        BY <2>2, <2>3, <2>4, <2>6, ZenonT(30)
           DEF Holds, Lawful, WithdrawalTrue, ChainTrue, Staged, Returning, Bridging, Depositing
    <2> QED BY <1>1, <2>2, <2>4, <2>5, <2>7, ReconciledStep, Zenon
<1> QED BY <1>1, <1>2, <1>3, Zenon

\* The two records of a settled post-credit quarantine.
LEMMA CreditReconciled ==
  /\ SagaInv
  /\ \/ reconcile_post_credit("start_credit", "start_done", "start_done")
     \/ reconcile_post_credit("reconcile_credit", "report", "reconcile_nonce")
  => SagaInv'
<1> SUFFICES ASSUME SagaInv,
                    \/ reconcile_post_credit("start_credit", "start_done", "start_done")
                    \/ reconcile_post_credit("reconcile_credit", "report", "reconcile_nonce")
             PROVE  SagaInv'
    BY Zenon
<1> DEFINE R == {o \in DOMAIN journal : PostCreditReconcilable(journal[o])}
           o == FirstOp(Candidates(R))
           op2 == Appended(Appended(journal[o], journal[o].before), P("Completed"))
<1>0. "start_done" \in Starting /\ "reconcile_nonce" \in Resting
    BY Zenon DEF Starting, Resting
<1>1. /\ UNCHANGED <<venue, chain>> /\ Facts
      /\ \/ /\ Candidates(R) # {} /\ (Goto("start_done") \/ Goto("report"))
            /\ journal' = [journal EXCEPT ![o] = op2]
         \/ Unreconciled("start_done")
         \/ w.pc = "reconcile_credit" /\ Unreconciled("reconcile_nonce")
    BY Zenon DEF reconcile_post_credit, LeavesVenues, SagaInv
<1>2. CASE Unreconciled("start_done")
    BY <1>0, <1>1, <1>2, UnreconciledStep, Zenon DEF Starting, Resting
<1>3. CASE w.pc = "reconcile_credit" /\ Unreconciled("reconcile_nonce")
    <2>1. ActiveOps = {}
        BY <1>3, Zenon DEF SagaInv, WorkerOK, OneActive, Resting
    <2> QED BY <1>0, <1>1, <1>3, <2>1, UnreconciledStep, Zenon
<1>4. CASE /\ Candidates(R) # {} /\ (Goto("start_done") \/ Goto("report"))
           /\ journal' = [journal EXCEPT ![o] = op2]
    <2>1. R \subseteq {q \in DOMAIN journal : journal[q].progress.st = "Quarantined"}
        BY Zenon DEF PostCreditReconcilable
    <2>2. /\ o \in R /\ o \in DOMAIN journal /\ ActiveOps = {} /\ journal[o] \in OpType
          /\ Holds(journal[o], journal[o].before, View(o))
        BY <1>1, <1>4, <2>1, CandidateIs, Zenon
    <2>3. journal[o].before.st = "Credited" /\ journal[o].before \in Progress
        BY <2>2, Zenon DEF PostCreditReconcilable, post_credit_settlement, OpType
    <2> HIDE DEF o, R
    <2>4. P("Completed") \in Progress /\ P("Completed").st = "Completed" /\ P("Completed").why = "none"
        BY ProgressIs, Zenon DEF States
    <2>5. /\ op2 \in OpType /\ op2.route = journal[o].route /\ op2.dir = journal[o].dir
          /\ op2.token = journal[o].token /\ op2.progress = P("Completed")
        <3> DEFINE op1 == Appended(journal[o], journal[o].before)
        <3>1. /\ op1 \in OpType /\ op1.route = journal[o].route /\ op1.dir = journal[o].dir
              /\ op1.token = journal[o].token
            BY <2>2, <2>3, AppendedIs, Zenon
        <3>2. op2 = Appended(op1, P("Completed"))
            BY Zenon
        <3> HIDE DEF op1, op2
        <3> QED BY <2>4, <3>1, <3>2, AppendedIs, Zenon
    <2>6. journal' = [journal EXCEPT ![o] = op2] /\ (Goto("start_done") \/ Goto("report"))
        BY <1>4, Zenon
    <2> HIDE DEF op2
    <2>7. Claim(op2) = P("Completed")
        BY <2>4, <2>5, Zenon DEF Claim
    <2>8. Holds(op2, Claim(op2), View(o))
        BY <2>2, <2>3, <2>4, <2>5, <2>7, ZenonT(30)
           DEF Holds, Lawful, WithdrawalTrue, ChainTrue, Staged, Returning, Bridging, Depositing
    <2>9. Still /\ JournalType /\ w \in Worker0 /\ w.op <= Len(journal) /\ journal \in Seq(OpType)
        BY <1>1, StillStep, ZenonT(30) DEF SagaInv, WorkerOK, WorkerType, Facts, JournalType
    <2>10. journal' \in Seq(OpType) /\ Len(journal') = Len(journal) /\ DOMAIN journal' = DOMAIN journal
        BY <2>2, <2>5, <2>6, <2>9, SMTT(30)
    <2>11. journal'[o] = op2 /\ \A q \in DOMAIN journal : q # o => journal'[q] = journal[q]
        BY <2>2, <2>6, <2>9, Zenon
    <2>12. \A q \in DOMAIN journal : /\ journal'[q].token = journal[q].token
                                     /\ Holds(journal'[q], Claim(journal'[q]), View(q))
        <3> SUFFICES ASSUME NEW q \in DOMAIN journal
                     PROVE  /\ journal'[q].token = journal[q].token
                            /\ Holds(journal'[q], Claim(journal'[q]), View(q))
            BY Zenon
        <3>1. CASE q = o
            BY <2>5, <2>8, <2>11, <3>1, Zenon
        <3>2. CASE q # o
            <4>1. Holds(journal[q], Claim(journal[q]), View(q))
                BY <1>1, Zenon DEF Facts, Truthful
            <4> QED BY <2>11, <3>2, <4>1, Zenon
        <3> QED BY <3>1, <3>2, Zenon
    <2>13. Facts'
        BY <1>1, <2>9, <2>10, <2>12, FactsMove, ZenonT(30)
    <2>14. ActiveOps' = {}
        BY <2>2, <2>4, <2>5, <2>10, <2>11, ZenonT(30) DEF ActiveOps, terminal
    <2>15. w' \in Worker0 /\ w'.pc \in {"start_done", "report"} /\ w'.op = w.op
        BY <2>6, <2>9, StepIs, SMTT(30) DEF Goto, Places, Resting, Starting
    <2>16. w'.pc \notin Sending \cup Calling /\ w'.pc \notin Busy
        BY <2>15, Zenon DEF Sending, Calling, Busy
    <2>17. WorkerType' /\ OneActive'
        BY <2>9, <2>10, <2>14, <2>15, <2>16, ZenonT(30) DEF WorkerType, OneActive
    <2> QED BY <2>13, <2>16, <2>17, QuietPlaces, Zenon DEF SagaInv, WorkerOK
<1> QED BY <1>1, <1>2, <1>3, <1>4, Zenon

\* A fresh operation: the venues did nothing for it yet.
LEMMA Executed ==
  \A t \in Tokens : \A plan \in [route : Routes, dir : Dirs] :
    SagaInv /\ Execute(t, plan) => SagaInv'
<1> SUFFICES ASSUME NEW t \in Tokens, NEW plan \in [route : Routes, dir : Dirs],
                    SagaInv, Execute(t, plan)
             PROVE  SagaInv'
    BY Zenon
<1> DEFINE op == [route |-> plan.route, dir |-> plan.dir, token |-> t,
                  progress |-> P("Intent"), before |-> NoProgress,
                  reopens |-> 0, owned |-> 0, unindexed |-> 0]
           n == Len(journal) + 1
<1>1. /\ w.pc = "idle" /\ ActiveOps = {} /\ Len(journal) < MaxOps
      /\ journal' = Append(journal, op) /\ w' = Enter(n, TRUE, P("Intent"))
      /\ UNCHANGED <<venue, chain>> /\ Facts /\ JournalType /\ journal \in Seq(OpType)
    BY Zenon DEF Execute, LeavesVenues, SagaInv, Facts, JournalType
<1>2. /\ P("Intent") \in Progress /\ P("Intent").st = "Intent" /\ P("Intent").why = "none"
      /\ NoProgress = P("Intent")
    BY ProgressIs, ZenonT(30) DEF States, NoProgress
<1>3. op \in OpType /\ op.progress = P("Intent") /\ op.token = t
    <2>1. plan.route \in {"direct", "across"} /\ plan.dir \in {"b2w", "w2b"}
        BY SagaAssumption, Zenon
    <2> QED BY <1>2, <2>1, Zenon DEF OpType
<1> HIDE DEF op
<1>4. /\ DOMAIN journal = 1..Len(journal) /\ Len(journal) \in Nat /\ DOMAIN journal \subseteq OpIds
    BY <1>1, OpsAre, Zenon
<1>5. n \in Nat /\ n \in OpIds \ DOMAIN journal /\ MaxOps \in Nat
    BY <1>1, <1>4, SagaAssumption, SMTT(30) DEF OpIds
<1>6. /\ journal' \in Seq(OpType) /\ Len(journal') = n /\ DOMAIN journal' = DOMAIN journal \cup {n}
      /\ journal'[n] = op /\ \A q \in DOMAIN journal : journal'[q] = journal[q]
    BY <1>1, <1>3, <1>4
<1>7. /\ Still /\ VenueType' /\ ChainType' /\ master' = master
      /\ \A q \in OpIds : View(q)' = View(q) /\ child'[q] = child[q]
    BY <1>1, StillStep, Zenon DEF Still
<1>8. /\ View(n).x = "none" /\ View(n).b = "none" /\ View(n).live = <<>> /\ View(n).wire = {}
      /\ \A c \in Children : child[n][c].st = "none"
    BY <1>1, <1>5, Zenon DEF Facts, Untouched
<1>9. Holds(op, Claim(op), View(n))
    <2>1. View(n).bridge = "none"
        BY <1>8, ViewIs, Zenon DEF Children
    <2>2. Claim(op) = P("Intent")
        BY <1>2, <1>3, Zenon DEF Claim
    <2> HIDE DEF n
    <2> QED BY <1>2, <1>8, <2>1, <2>2, Zenon
            DEF Holds, Lawful, WithdrawalTrue, ChainTrue, Staged, Returning, Bridging, Depositing, Unsent
<1> HIDE DEF n
<1>10. JournalType'
    <2>1. n <= MaxOps
        BY <1>5, SagaAssumption, SMTT(30) DEF OpIds
    <2> QED BY <1>6, <2>1, Zenon DEF JournalType
<1>11. Untouched'
    BY <1>1, <1>6, <1>7 DEF Facts, Untouched
<1>12. Truthful'
    <2> SUFFICES ASSUME NEW q \in DOMAIN journal'
                 PROVE  Holds(journal'[q], Claim(journal'[q]), View(q)')
        BY Zenon DEF Truthful
    <2>1. CASE q = n
        BY <1>5, <1>6, <1>7, <1>9, <2>1, Zenon
    <2>2. CASE q \in DOMAIN journal
        <3>1. Holds(journal[q], Claim(journal[q]), View(q)) /\ q \in OpIds
            BY <1>1, <1>4, <2>2, Zenon DEF Facts, Truthful
        <3> QED BY <1>6, <1>7, <2>2, <3>1, Zenon
    <2> QED BY <1>6, <2>1, <2>2, Zenon
<1>13. Accounted'
    <2> SUFFICES ASSUME NEW u \in Tokens PROVE master'[u] = Spare + Cardinality(StagedFor(u)')
        BY Zenon DEF Accounted
    <2>1. ~OnMaster(View(n))
        BY <1>8, Zenon DEF OnMaster
    <2>2. StagedFor(u)' = StagedFor(u)
        BY <1>4, <1>5, <1>6, <1>7, <2>1, Zenon DEF StagedFor
    <2> QED BY <1>1, <1>7, <2>2, Zenon DEF Facts, Accounted
<1>14. Facts'
    BY <1>1, <1>7, <1>10, <1>11, <1>12, <1>13, Zenon DEF Facts, OpSets
<1>15. ActiveOps' \subseteq {n}
    BY <1>1, <1>6, Zenon DEF ActiveOps
<1>16. w' \in Worker0 /\ w'.pc = "run" /\ w'.op = n
    <2>1. PICK fresh \in BOOLEAN : w' = Enter(n, fresh, P("Intent"))
        BY <1>1, Zenon
    <2>2. w \in Worker0
        BY Zenon DEF SagaInv, WorkerOK, WorkerType
    <2>3. LET e == Enter(n, fresh, P("Intent")) IN e \in Worker0 /\ e.pc = "run" /\ e.op = n
        BY <1>2, <1>5, <2>2, StepIs, SMTT(30)
    <2> QED BY <2>1, <2>3, Zenon
<1>17. w'.pc \notin Sending \cup Calling /\ w'.pc \notin Resting
    BY <1>16, Zenon DEF Sending, Calling, Resting
<1>18. WorkerType' /\ OneActive'
    BY <1>5, <1>6, <1>15, <1>16, <1>17, SMTT(30) DEF WorkerType, OneActive
<1> QED BY <1>14, <1>17, <1>18, QuietPlaces, Zenon DEF SagaInv, WorkerOK

-----------------------------------------------------------------------------
(* Every step.                                                              *)

\* One step of the saga, of any of its tasks.
LEMMA NextSagaInv == DelayCoversLag /\ SagaInv /\ [Next]_vars => SagaInv'
<1> SUFFICES ASSUME DelayCoversLag, SagaInv, [Next]_vars PROVE SagaInv'
    BY Zenon
<1>1. CASE Withdraw
    BY <1>1, BeginMasterTransfer, ConfirmTransferAbsent, TransferSent, TransferAnswered,
       FinishMasterTransfer, BeginWithdrawal, SubmissionResumed, AuthorizedRetryResumed,
       FirstObserved, AbsenceConfirmed, RetryRecorded, WithdrawalSent, WithdrawalAnswered,
       WithdrawalAwaited, ZenonT(30) DEF Withdraw
<1>2. CASE Cancel
    BY <1>2, CancellationResumed, ReturnAbsent, ReturnSent, ReturnAnswered, ReturnAwaited, Zenon
       DEF Cancel
<1>3. CASE Bridge
    BY <1>3, WalletCalled, TxAnswered, TxRecorded, Bridged, FillAwaited, AcrossCompleted, Zenon
       DEF Bridge
<1>4. CASE DepositToBinance
    BY <1>4, DepositStarted, DepositAwaited, DepositFinished, Zenon DEF DepositToBinance
<1>5. CASE WaitRunsOut \/ StepFails
    BY <1>5, WaitFails, Zenon
<1>6. CASE OwnershipRetry \/ QuoteRetry \/ quarantine_active_operation \/ Report \/ Returned
    BY <1>6, OwnershipRetried, QuoteRetried, QuarantineStep, Reported, ReturnedStep, Zenon
<1>7. CASE Crash \/ Hydrate \/ ReconcileAcross
    BY <1>7, Restarted, ReconcileStarted, Zenon
<1>8. CASE StartUp
    BY <1>8, FillReconciled, NonceReconciled, StartReopened, DirectReconciled, CreditReconciled,
       Recovered, Zenon DEF StartUp
<1>9. CASE RunTimeReconciliation
    BY <1>9, FillReconciled, NonceReconciled, CreditReconciled, Zenon DEF RunTimeReconciliation
<1>10. CASE Venues
    BY <1>10, Indexed, Arrived, Settled, Mined, FillMoved, DepositMoved, Zenon DEF Venues
<1>11. CASE \E t \in Tokens, plan \in [route : Routes, dir : Dirs] : Execute(t, plan)
    BY <1>11, Executed, Zenon
<1>12. CASE UNCHANGED vars
    <2>1. UNCHANGED <<journal, w>> /\ UNCHANGED <<venue, chain>> /\ Facts
        BY <1>12, Zenon DEF vars, SagaInv
    <2>2. Still
        BY <2>1, StillStep, Zenon
    <2>3. Facts'
        <3>1. journal' \in Seq(OpType) /\ Len(journal') = Len(journal)
            BY <2>1, Zenon DEF Facts, JournalType
        <3>2. \A q \in DOMAIN journal : /\ journal'[q].token = journal[q].token
                                        /\ Holds(journal'[q], Claim(journal'[q]), View(q))
            BY <2>1, Zenon DEF Facts, Truthful
        <3> QED BY <2>1, <2>2, <3>1, <3>2, FactsMove, Zenon
    <2>4. \A q \in OpIds : Onward(q)
        BY <2>2, Zenon DEF Still, Onward
    <2> QED BY <2>1, <2>3, <2>4, WorkerWaits, Zenon
<1>13. Worker => \/ Withdraw \/ Cancel \/ Bridge \/ DepositToBinance \/ WaitRunsOut
                 \/ OwnershipRetry \/ QuoteRetry \/ quarantine_active_operation
                 \/ Report \/ Returned \/ Hydrate \/ StartUp \/ RunTimeReconciliation
    BY Zenon DEF Worker
<1> QED BY <1>1, <1>2, <1>3, <1>4, <1>5, <1>6, <1>7, <1>8, <1>9, <1>10, <1>11, <1>12, <1>13, ZenonT(30)
        DEF Next

-----------------------------------------------------------------------------
(* What the invariant says.                                                 *)

\* What an operation moved, and what is left on the master account.
LEMMA MovedOnce == Facts => MovesOnce
<1> SUFFICES ASSUME Facts PROVE MovesOnce
    BY Zenon
<1>1. ASSUME NEW o \in OpIds PROVE Len(Live(o)) <= 1
    <2>1. Live(o) \in {<<>>, <<"processing">>, <<"done">>, <<"failed">>}
        BY ViewType, ListedIs, Zenon DEF Facts
    <2>2. \A s \in {<<>>, <<"processing">>, <<"done">>, <<"failed">>} : Len(s) <= 1
        OBVIOUS
    <2> QED BY <2>1, <2>2, Zenon
<1>2. ASSUME NEW o \in OpIds, NEW c \in {"bridge", "deposit"} PROVE child[o][c].mined <= 1
    <2>1. child[o][c] \in TxType
        BY Zenon DEF Facts, ChainType, Children
    <2> QED BY <2>1 DEF TxType
<1>3. ASSUME NEW t \in Tokens PROVE master[t] >= Spare
    <2>1. StagedFor(t) \in SUBSET OpIds
        BY OpsAre, Zenon DEF Facts, StagedFor
    <2>2. Cardinality(StagedFor(t)) \in Nat
        BY <2>1, Zenon DEF Facts, OpSets
    <2> QED BY <2>2, SagaAssumption DEF Facts, Accounted
<1> QED BY <1>1, <1>2, <1>3, Zenon DEF MovesOnce

\* What an ended operation says of the venues.
LEMMA EndedTrue ==
  \A op, p, v :
    Holds(op, p, v) /\ op.dir \in {"b2w", "w2b"}
    /\ v.live \in {<<>>, <<"processing">>, <<"done">>, <<"failed">>} =>
      /\ p.st = "Completed" =>
           /\ op.dir = "b2w" => v.live = <<"done">>
           /\ op.dir = "w2b" => v.deposit = "mined" /\ v.dep \in {"credited", "asked_credited"}
           /\ op.route = "across" => v.fill = "filled"
      /\ p.st = "CancelledStale" => v.live = <<>> /\ v.b = "success"
      /\ p.st \in {"CancelledStale", "Failed"} =>
           v.live \in {<<>>, <<"failed">>} /\ "w" \notin v.wire
BY SMTT(30) DEF Holds, WithdrawalTrue, ChainTrue, Staged, Returning, Bridging, Depositing, Unsent

\* What the journal announced of what the venues did.
LEMMA AnnouncedTrue ==
  \A op, p, v :
    Holds(op, p, v) =>
      /\ v.live # <<>> => p.st \notin {"Intent", "TransferSubmitted", "TransferCompleted"}
      /\ v.bridge # "none" => p.st \notin {"Intent", "FundsOnBridge", "ApprovalMined"}
      /\ v.b # "none" => p.st \in {"ReturnStarted", "ReturnSubmitted", "CancelledStale"}
BY DEF Holds, WithdrawalTrue, ChainTrue, Staged, Returning, Bridging, Depositing, Unsent

\* An operation that ended is not quarantined: its claim is its progress.
LEMMA EndedTruthfully == Facts => EndsTruthfully
<1> SUFFICES ASSUME Facts, NEW o \in DOMAIN journal
             PROVE  LET op == journal[o] IN
                      /\ op.progress.st = "Completed" =>
                           /\ op.dir = "b2w" => Live(o) = <<"done">>
                           /\ op.dir = "w2b" =>
                                child[o]["deposit"].mined = 1 /\ dep[o] \in {"credited", "asked_credited"}
                           /\ op.route = "across" => fill[o] = "filled"
                      /\ op.progress.st = "CancelledStale" => Live(o) = <<>> /\ back[o] = "success"
                      /\ op.progress.st \in {"CancelledStale", "Failed"} =>
                           /\ \A i \in DOMAIN wd[o] : wd[o][i] \in {"dead", "failed"}
                           /\ <<o, "w">> \notin wire
    BY Zenon DEF EndsTruthfully
<1> DEFINE op == journal[o]
           v == View(o)
<1>1. o \in OpIds /\ op \in OpType
    BY OpsAre, Zenon DEF Facts
<1>2. Holds(op, Claim(op), v)
    BY Zenon DEF Facts, Truthful
<1>3. v.live \in {<<>>, <<"processing">>, <<"done">>, <<"failed">>}
    BY <1>1, ViewType, Zenon DEF Facts
<1>4. /\ v.b = back[o] /\ v.live = LiveOf(wd[o]) /\ v.live = Live(o)
      /\ v.deposit = child[o]["deposit"].st
      /\ v.fill = fill[o] /\ v.dep = dep[o] /\ ("w" \in v.wire <=> <<o, "w">> \in wire)
    BY ViewIs, ListedIs, Zenon DEF Kinds
<1>5. child[o]["deposit"].st = "mined" => child[o]["deposit"].mined = 1
    BY <1>1, Zenon DEF Facts, ChainType, Children
<1>6. LiveOf(wd[o]) \in {<<>>, <<"failed">>} => \A i \in DOMAIN wd[o] : wd[o][i] \in {"dead", "failed"}
    <2>1. wd[o] \in Withdrawals
        BY <1>1, Zenon DEF Facts, VenueType
    <2> QED BY <2>1, LiveOfIs, Zenon
<1>7. op.dir \in {"b2w", "w2b"}
    BY <1>1, Zenon DEF OpType
<1>8. op.progress.st # "Quarantined" => Claim(op) = op.progress
    BY Zenon DEF Claim
<1> HIDE DEF op, v
<1>9. op.progress.st \in {"Completed", "CancelledStale", "Failed"} => Holds(op, op.progress, v)
    BY <1>2, <1>8, Zenon
<1>10. op.progress.st \in {"Completed", "CancelledStale", "Failed"} =>
      /\ op.progress.st = "Completed" =>
           /\ op.dir = "b2w" => v.live = <<"done">>
           /\ op.dir = "w2b" => v.deposit = "mined" /\ v.dep \in {"credited", "asked_credited"}
           /\ op.route = "across" => v.fill = "filled"
      /\ op.progress.st = "CancelledStale" => v.live = <<>> /\ v.b = "success"
      /\ op.progress.st \in {"CancelledStale", "Failed"} =>
           v.live \in {<<>>, <<"failed">>} /\ "w" \notin v.wire
    BY <1>3, <1>7, <1>9, EndedTrue, Zenon
<1>11. LET o0 == op IN
      /\ op.progress.st = "Completed" =>
           /\ op.dir = "b2w" => Live(o) = <<"done">>
           /\ op.dir = "w2b" =>
                child[o]["deposit"].mined = 1 /\ dep[o] \in {"credited", "asked_credited"}
           /\ op.route = "across" => fill[o] = "filled"
      /\ op.progress.st = "CancelledStale" => Live(o) = <<>> /\ back[o] = "success"
      /\ op.progress.st \in {"CancelledStale", "Failed"} =>
           /\ \A i \in DOMAIN wd[o] : wd[o][i] \in {"dead", "failed"}
           /\ <<o, "w">> \notin wire
    BY <1>4, <1>5, <1>6, <1>10, Zenon
<1> QED BY <1>11, Zenon DEF op

\* What was announced, quarantined or not.
LEMMA AnnouncedBefore == Facts => WriteAhead
<1> SUFFICES ASSUME Facts, NEW o \in DOMAIN journal
             PROVE  LET st == Claim(journal[o]).st IN
                      /\ Live(o) # <<>> => st \notin {"Intent", "TransferSubmitted", "TransferCompleted"}
                      /\ child[o]["bridge"].mined > 0 =>
                           st \notin {"Intent", "FundsOnBridge", "ApprovalMined"}
                      /\ back[o] # "none" => st \in {"ReturnStarted", "ReturnSubmitted", "CancelledStale"}
    BY Zenon DEF WriteAhead
<1>1. o \in OpIds
    BY OpsAre, Zenon DEF Facts
<1>2. Holds(journal[o], Claim(journal[o]), View(o))
    BY Zenon DEF Facts, Truthful
<1>3. View(o).live = Live(o) /\ View(o).bridge = child[o]["bridge"].st /\ View(o).b = back[o]
    BY ViewIs, ListedIs, Zenon
<1>4. child[o]["bridge"].mined > 0 => child[o]["bridge"].st # "none"
    <2>1. /\ child[o]["bridge"] \in TxType
          /\ child[o]["bridge"].mined = 1 <=> child[o]["bridge"].st = "mined"
        BY <1>1, Zenon DEF Facts, ChainType, Children
    <2> QED BY <2>1 DEF TxType
<1> DEFINE p == Claim(journal[o])
           v == View(o)
<1>5. /\ v.live # <<>> => p.st \notin {"Intent", "TransferSubmitted", "TransferCompleted"}
      /\ v.bridge # "none" => p.st \notin {"Intent", "FundsOnBridge", "ApprovalMined"}
      /\ v.b # "none" => p.st \in {"ReturnStarted", "ReturnSubmitted", "CancelledStale"}
    BY <1>2, AnnouncedTrue, Zenon
<1> QED BY <1>3, <1>4, <1>5, Zenon

-----------------------------------------------------------------------------
(* The theorems.                                                            *)
INSTANCE FiniteSetTheorems

\* The operations are finitely many numbers.
LEMMA OpSetsHold == OpSets
<1>1. IsFiniteSet(OpIds) /\ OpIds \subseteq Nat
    <2>1. MaxOps \in Int /\ 1 \in Int
        BY SagaAssumption
    <2> QED BY <2>1, FS_Interval, SMTT(30) DEF OpIds
<1>2. \A S \in SUBSET OpIds : IsFiniteSet(S) /\ Cardinality(S) \in Nat
    BY <1>1, FS_Subset, FS_CardinalityType, ZenonT(30)
<1>3. \A S \in SUBSET OpIds : \A o \in OpIds \ S : Cardinality(S \cup {o}) = Cardinality(S) + 1
    BY <1>2, FS_AddElement, Zenon
<1>4. ASSUME NEW S \in SUBSET OpIds, S # {} PROVE \E o \in S : \A q \in S : o <= q
    <2>1. S \subseteq Nat
        BY <1>1, Zenon
    <2>2. \E o \in S : \A q \in S : ~(<<q, o>> \in OpToRel(<, Nat))
        <3>1. IsWellFoundedOn(OpToRel(<, Nat), Nat)
            BY NatLessThanWellFounded, Zenon
        <3> QED BY <1>4, <2>1, <3>1, WFMin, ZenonT(30)
    <2>3. PICK o \in S : \A q \in S : ~(<<q, o>> \in OpToRel(<, Nat))
        BY <2>2, Zenon
    <2>4. \A q \in Nat : ~(<<q, o>> \in OpToRel(<, Nat)) /\ o \in Nat => o <= q
        BY DEF OpToRel
    <2> QED BY <2>1, <2>3, <2>4, ZenonT(30)
<1> QED BY <1>2, <1>3, <1>4, ZenonT(30) DEF OpSets

\* The first process starts on an empty journal, with nothing on its way.
LEMMA InitSagaInv == Init => SagaInv
<1> SUFFICES ASSUME Init PROVE SagaInv
    BY Zenon
<1>1. /\ journal = <<>> /\ w = [Down EXCEPT !.pc = "idle"] /\ master = [t \in Tokens |-> Spare]
      /\ xfer = [o \in OpIds |-> "none"] /\ back = [o \in OpIds |-> "none"]
      /\ wd = [o \in OpIds |-> <<>>] /\ hidden = {} /\ wire = {}
      /\ child = [o \in OpIds |-> [c \in Children |-> NoChild]]
      /\ fill = [o \in OpIds |-> "none"] /\ dep = [o \in OpIds |-> "none"]
      /\ trading = [t \in Tokens |-> MaxOps]
    BY Zenon DEF Init
<1>2. JournalType /\ DOMAIN journal = {} /\ Len(journal) = 0
    BY <1>1, SagaAssumption, SMTT(30) DEF JournalType
<1>3. VenueType
    <2>1. <<>> \in Withdrawals /\ LiveOf(<<>>) = <<>>
        BY LiveOfDead, Zenon
    <2> QED BY <1>1, <2>1, SagaAssumption, ZenonT(30) DEF VenueType, TransferStates
<1>4. ChainType
    <2>1. NoChild \in TxType /\ NoChild.mined = 0 /\ NoChild.st = "none"
        BY Zenon DEF NoChild, TxType, TxStates
    <2> HIDE DEF NoChild
    <2> QED BY <1>1, <2>1, SMTT(30) DEF ChainType, FillStates, DepStates
<1>5. Untouched
    <2>1. LiveOf(<<>>) = <<>>
        BY LiveOfDead, Zenon
    <2>2. ASSUME NEW o \in OpIds
          PROVE  /\ View(o).x = "none" /\ View(o).b = "none" /\ View(o).live = <<>>
                 /\ View(o).wire = {}
        BY <1>1, <2>1, ZenonT(30) DEF View
    <2>3. \A o \in OpIds : \A c \in Children : child[o][c].st = "none"
        BY <1>1, Zenon DEF NoChild
    <2> QED BY <2>2, <2>3, ZenonT(30) DEF Untouched
<1>6. Truthful
    BY <1>2, Zenon DEF Truthful
<1>7. Accounted
    <2>1. \A t : StagedFor(t) = {}
        BY <1>2, Zenon DEF StagedFor
    <2>2. Cardinality({}) = 0
        BY FS_EmptySet, Zenon
    <2>3. \A t \in Tokens : master[t] = Spare /\ Spare + 0 = Spare
        BY <1>1, SagaAssumption, SMTT(30)
    <2>4. \A t : Cardinality(StagedFor(t)) = 0
        BY <2>1, <2>2, Zenon
    <2> QED BY <2>3, <2>4, Zenon DEF Accounted
<1>8. w \in Worker0 /\ w.op = 0 /\ w.pc = "idle"
    BY <1>1, DownIs, Zenon
<1>9. ActiveOps = {}
    BY <1>2, Zenon DEF ActiveOps
<1>10. WorkerType /\ OneActive
    BY <1>2, <1>8, <1>9, SMTT(30) DEF WorkerType, OneActive, Busy, Sending, Calling
<1>11. SendingOK /\ CallingOK
    BY <1>8, Zenon DEF SendingOK, CallingOK, Ready, CallFor, Calling
<1> QED BY <1>2, <1>3, <1>4, <1>5, <1>6, <1>7, <1>10, <1>11, OpSetsHold, ZenonT(30) DEF SagaInv, Facts, WorkerOK

(* The journal, the venues and the worker agree in every state: what an     *)
(* operation durably claims is what the venues did with it.                 *)
THEOREM JournalAgrees == ASSUME DelayCoversLag PROVE Spec => []SagaInv
<1>1. Init => SagaInv
    BY InitSagaInv, Zenon
<1>2. SagaInv /\ [Next]_vars => SagaInv'
    BY NextSagaInv, Zenon
<1> QED BY <1>1, <1>2, PTL DEF Spec

(* Type correctness of the journal, of the worker's operation and of the    *)
(* account balances.                                                        *)
THEOREM SagaTypes == ASSUME DelayCoversLag PROVE Spec => []TypeOK
<1>1. SagaInv => TypeOK
    <2> SUFFICES ASSUME SagaInv PROVE TypeOK
        BY Zenon
    <2>1. \A o \in DOMAIN journal : journal[o] \in OpType
        BY OpsAre, Zenon DEF SagaInv, Facts
    <2>2. w.op \in Nat /\ w.op <= Len(journal) /\ Len(journal) \in Nat
        BY OpsAre, Zenon DEF SagaInv, Facts, WorkerOK, WorkerType, Worker0
    <2>3. \A t \in Tokens : trading[t] \in Nat /\ master[t] \in Nat
        BY ZenonT(30) DEF SagaInv, Facts, VenueType
    <2> QED BY <2>1, <2>2, <2>3, SMTT(30) DEF TypeOK, OpType
<1> QED BY <1>1, JournalAgrees, PTL

(* Whatever crashes, lags, lost answers and retries happen, an operation    *)
(* withdraws, bridges and deposits its unit at most once, and no operation  *)
(* spends inventory of the master account that it did not stage: the        *)
(* absence checks of confirm_unknown_withdrawal_absence and the write-ahead *)
(* records of `advance`, for any number of operations.                      *)
THEOREM OperationsMoveOnce == ASSUME DelayCoversLag PROVE Spec => []MovesOnce
<1>1. SagaInv => MovesOnce
    BY MovedOnce, ZenonT(30) DEF SagaInv
<1> QED BY <1>1, JournalAgrees, PTL

(* Completed, CancelledStale and Failed are true of the venues, for good:   *)
(* nothing is withdrawn, or still on its way, for an operation that was     *)
(* given up.                                                                *)
THEOREM OperationsEndTruthfully == ASSUME DelayCoversLag PROVE Spec => []EndsTruthfully
<1>1. SagaInv => EndsTruthfully
    BY EndedTruthfully, ZenonT(30) DEF SagaInv
<1> QED BY <1>1, JournalAgrees, PTL

(* The durable record of a withdrawal, a bridge transaction or a return     *)
(* comes before the venue's.                                                *)
THEOREM JournalWritesAhead == ASSUME DelayCoversLag PROVE Spec => []WriteAhead
<1>1. SagaInv => WriteAhead
    BY AnnouncedBefore, Zenon DEF SagaInv
<1> QED BY <1>1, JournalAgrees, PTL

=============================================================================
