-------------------------- MODULE TradeParentProofs ---------------------------
(***************************************************************************)
(* TradeCoordinator for every set of plans and strategies, every quantity, *)
(* lot step and commission, and any number of crashes: its inductive       *)
(* invariant, every snapshot the task appends of a parent, and what the    *)
(* invariant says of its exposure.                                         *)
(***************************************************************************)
EXTENDS TradeCoordinator, TLAPS

(* What a parent has handed out: its journal owns the command.             *)
Owned(o) == Len(o.recovery) + (IF o.inflight THEN 1 ELSE 0)
Dispatched(o, k) ==
    IF k = Dex THEN o.dex_dispatched ELSE IF k = Cex THEN o.cex_dispatched
    ELSE k - 1 <= Owned(o)
Target(o, k) ==
    IF k = Dex THEN o.dir * Quantity ELSE IF k = Cex THEN CexTarget(o) ELSE o.target
LimitPrice(o, k) == IF k = Cex THEN o.price ELSE 0
Command(o, k) == <<Target(o, k), LimitPrice(o, k)>>

Known(r) == r.status \in {"filled", "failed"}

(* The parent by itself: what the order of take_commands leaves possible.  *)
DexOK(o) ==
    /\ o.stage = "none" => o = NoOp
    /\ IF o.dex_dispatched THEN o.stage \notin {"none", "prepared"}
       ELSE /\ o.stage \in {"none", "prepared"}
            /\ o.dex = NoResult /\ ~o.cex_dispatched /\ o.price = 0
CexOK(o) ==
    /\ ~o.cex_dispatched => o.cex = NoResult
    /\ IF o.mode = "dex_first"
       THEN o.cex_dispatched => o.dex.status = "filled" /\ o.dex.delta # 0 /\ o.price # 0
       ELSE (o.cex_dispatched <=> o.dex_dispatched) /\ o.price = 0
RecoveryOK(o) ==
    /\ Owned(o) = 0 => o.target = 0
    /\ Owned(o) > 0 =>
          /\ Known(o.dex) /\ Known(o.cex)
          /\ o.target = -o.dex.delta - o.cex.executed
          /\ Abs(o.target) >= LotStep
          /\ o.mode = "dex_first" => Sign(o.target) = -o.dir
    /\ Owned(o) <= MaxRecoveryAttempts
    /\ \A i \in 1 .. Len(o.recovery) : HasResult(o.recovery[i])
    /\ \A i \in 1 .. Owned(o) - 1 : Retryable(o.recovery[i])
StageOK(o) ==
    /\ o.stage = "unknown_exposure" => HasUnknownLeg(o)
    /\ o.stage = "halted" =>
          Known(o.dex) /\ Known(o.cex) /\ o.recovery = <<>> /\ ~o.inflight
    /\ o.stage = "balanced" => MayFinalize(o) /\ o.residual = Residual(o)
ParentOK(o) == DexOK(o) /\ CexOK(o) /\ RecoveryOK(o) /\ StageOK(o)

(* What a result says of its child is what the venue did.                  *)
TrueOf(o, k, r, v) ==
    /\ ~HasResult(r) => r = NoResult
    /\ r.status # "filled" => r.delta = 0 /\ r.executed = 0
    /\ r.status = "failed" =>
          \/ r.ref = "expired" /\ k = Dex
          \/ r.ref = "filtered" /\ k # Dex /\ "filters_move" \in Drift
          \/ r.ref \in {"unsubmitted", "filtered"} /\ v = Unsent
          \/ r.ref \in {"reverted", "rejected"} /\ v = Void
          \/ r.ref = "zero_fill" /\ v = Child("done", 0, 0)
    /\ r.status = "filled" =>
          /\ v.kind = "done"
          /\ IF k = Dex THEN r.delta = DexDelta(o, v.fill) /\ r.executed = 0
             ELSE v.fill # 0 /\ r.delta = v.fill - v.fee /\ r.executed = v.fill

(* What a venue may have done with a command it was given.                 *)
FillOK(o, k, v) ==
    LET t == Target(o, k) IN
    IF k = Dex
    THEN /\ v.fee = 0 /\ v.fill > 0
         /\ o.dir = -1 => v.fill = Quantity
    ELSE \/ v.fill = 0 /\ v.fee = 0
         \/ t > 0 /\ LotStep <= v.fill /\ v.fill <= t /\ v.fee < LotStep
         \/ t < 0 /\ t <= v.fill /\ v.fill < 0 /\ v.fee = 0
VenueOK(o, k, v) ==
    /\ v.kind = "none" => v = Unsent
    /\ v.kind = "void" => v = Void
    /\ v.kind = "live" => v.fill = Sign(Target(o, k))
    /\ v.kind = "done" => FillOK(o, k, v)

(* A parent and its child k: v is the child, a the commands it was given.  *)
LinkOK(o, k, v, a) ==
    /\ ~Dispatched(o, k) => v = Unsent /\ a = {}
    /\ a \subseteq {Command(o, k)}
    /\ v # Unsent => a # {}
    /\ VenueOK(o, k, v)
    /\ TrueOf(o, k, ResultOf(o, k), v)
LinksOK(p) == \A k \in Children : LinkOK(op[p], k, child[p][k], asked[p][k])

(* The calls in flight belong to the parent the task drives.               *)
Busy == {"exec", "await_dex", "await_cex"}
AtPlan == Busy \cup {"resume", "drive", "reconcile_dex", "reconcile_cex",
                     "backoff", "sleeping"}
Open(o) == o.stage \notin {"none", "balanced"}
CallOK(at, c, o, v, a) ==
    /\ Dispatched(o, c.child)
    /\ <<c.target, c.price>> = Command(o, c.child)
    /\ c.at = "asked" => a # {}
    /\ c.recon => c.child = Dex /\ c.result.ref # "expired"
    /\ TrueOf(o, c.child, c.result, v)
    /\ IF at = "exec" THEN ~HasResult(ResultOf(o, c.child))
       ELSE ResultOf(o, c.child).status = "unknown"
    /\ at = "await_dex" => c.child = Dex /\ c.recon
    /\ at = "await_cex" => c.child # Dex
CallsOK ==
    /\ pc \notin Busy => calls = <<>>
    /\ pc \in Busy => Len(calls) \in 1 .. 2
    /\ Len(calls) = 2 => pc = "exec" /\ calls[1].child = Dex /\ calls[2].child = Cex
    /\ pc \in {"await_dex", "await_cex"} => O.stage = "unknown_exposure"
    /\ \A i \in 1 .. Len(calls) :
          CallOK(pc, calls[i], O, child[plan][calls[i].child], asked[plan][calls[i].child])
TaskOK ==
    /\ pc \in AtPlan => plan \in Plans \ resuming /\ Open(O)
    /\ \A p \in resuming : Open(op[p])
    /\ CallsOK

Index == \A s \in {StrategyOf[p] : p \in Plans} :
    unresolved[s] = Cardinality({p \in Plans : StrategyOf[p] = s /\ Unresolved(op[p])})

ParentsOK == \A p \in Plans : ParentOK(op[p]) /\ LinksOK(p)

(* The inductive invariant: the journal and the venues, the task that      *)
(* drives one parent, and the index that append keeps.                     *)
JournalType ==
    /\ op \in [Plans -> OpType]
    /\ unresolved \in [{StrategyOf[p] : p \in Plans} -> Nat]
    /\ child \in [Plans -> [Children -> ChildType]]
    /\ asked \in [Plans -> [Children -> SUBSET (Int \X Nat)]]
TaskType ==
    /\ pc \in Places /\ plan \in Plans \cup {0} /\ resuming \subseteq Plans
    /\ resumed \in BOOLEAN /\ calls \in Seq(CallType)
    /\ expired \in [Plans -> BOOLEAN] /\ backoff \in [Plans -> BOOLEAN]

(* What the steps use of sets of plans, which are finite sets of numbers.  *)
PlanSets ==
    /\ Cardinality({}) = 0
    /\ \A S \in SUBSET Plans :
          /\ Cardinality(S) \in Nat
          /\ Cardinality(S) = 0 => S = {}
          /\ \A p \in Plans \ S : Cardinality(S \cup {p}) = Cardinality(S) + 1
          /\ S # {} => \E q \in S : \A r \in S : q <= r

JournalOK == JournalType /\ ParentsOK /\ OneParentPerStrategy /\ PlanSets
IndexOK == pc # "down" => Index
TradeInv == JournalOK /\ TaskType /\ TaskOK /\ IndexOK

(* What an append leaves of the parent: it is a parent the task could have *)
(* reached, the commands it owned it still owns unchanged, and the journal *)
(* accepts the snapshot.                                                   *)
Keeps(o, n) ==
    /\ n \in OpType /\ ParentOK(n)
    /\ \A k \in Children : Dispatched(o, k) => Dispatched(n, k) /\ Command(n, k) = Command(o, k)
    /\ SnapshotAllowed(o, n)
SameResults(o, n) == n.dir = o.dir /\ \A k \in Children : ResultOf(n, k) = ResultOf(o, k)
NewResult(o, n, K, r) ==
    /\ n.dir = o.dir
    /\ ResultOf(n, K) = r
    /\ \A k \in Children \ {K} : ResultOf(n, k) = ResultOf(o, k)

(* The results an append brings are true of the venues; one that was there *)
(* is replaced only if it was unknown, and by a proof.                     *)
Proves(r) == Known(r) /\ (r.status = "failed" => r.ref # "expired")
Proven(o, n, v) == \A k \in Children :
    \/ ResultOf(n, k) = ResultOf(o, k)
    \/ /\ TrueOf(o, k, ResultOf(n, k), v[k])
       /\ ResultOf(o, k) = NoResult \/ Proves(ResultOf(n, k))
Appends ==
    \/ op' = op
    \/ \E p \in Plans :
          /\ \A q \in Plans \ {p} : op'[q] = op[q]
          /\ Keeps(op[p], op'[p]) /\ Proven(op[p], op'[p], child[p]) /\ child' = child

-----------------------------------------------------------------------------
(* Parents and their results.                                              *)

\* The constants of the children.
LEMMA ChildrenAre == Children = {0, 1, 2, 3, 4} /\ Children = 0 .. 4
BY DEF Children, Recovery, MaxRecoveryAttempts

\* HasUnknownLeg looks at the two legs and at every recovery result.
LEMMA UnknownLeg ==
    \A o \in OpType :
        HasUnknownLeg(o) <=>
          \/ o.dex.status = "unknown" \/ o.cex.status = "unknown"
          \/ \E i \in 1 .. Len(o.recovery) : o.recovery[i].status = "unknown"
<1> TAKE o \in OpType
<1>1. o.recovery \in Seq(ResultType)
    BY Zenon DEF OpType
<1>2. DOMAIN o.recovery = 1 .. Len(o.recovery)
    BY <1>1
<1> QED BY <1>2, Zenon DEF HasUnknownLeg, Results

\* The state of a plan nobody admitted.
LEMMA NoOpOK ==
    /\ NoOp \in OpType /\ ParentOK(NoOp)
    /\ \A k \in Children : ~Dispatched(NoOp, k) /\ ResultOf(NoOp, k) = NoResult
<1>1. NoResult \in ResultType
    BY DEF NoResult, Result, ResultType, Statuses, References
<1>2. <<>> \in Seq(ResultType) /\ Len(<<>>) = 0
    OBVIOUS
<1>3. NoOp \in OpType
    BY <1>1, <1>2 DEF NoOp, OpType, Stages
<1>4. Owned(NoOp) = 0
    BY <1>2 DEF NoOp, Owned
<1>5. DexOK(NoOp) /\ CexOK(NoOp)
    BY Zenon DEF DexOK, CexOK, NoOp
<1>6. RecoveryOK(NoOp)
    <2>1. NoOp.recovery = <<>> /\ NoOp.target = 0
        BY Zenon DEF NoOp
    <2> QED BY <1>2, <1>4, <2>1 DEF RecoveryOK, MaxRecoveryAttempts
<1>7. StageOK(NoOp)
    BY Zenon DEF StageOK, NoOp
<1>8. \A k \in Children : ~Dispatched(NoOp, k)
    BY <1>4, ChildrenAre DEF Dispatched, Dex, Cex, NoOp
<1>9. \A k \in Children : ResultOf(NoOp, k) = NoResult
    BY DEF ResultOf, NoOp
<1> QED BY <1>3, <1>5, <1>6, <1>7, <1>8, <1>9, Zenon DEF ParentOK

\* Absolute values.
LEMMA AbsIs == \A x \in Int : Abs(x) \in Nat /\ Abs(x) >= x /\ Abs(x) >= -x /\ (Abs(x) = x \/ Abs(x) = -x)
BY DEF Abs

\* How many recoveries a parent owns.
LEMMA OwnedIs ==
    \A o \in OpType :
        /\ o.recovery \in Seq(ResultType) /\ Len(o.recovery) \in Nat
        /\ Owned(o) \in Nat
        /\ o.inflight => Owned(o) = Len(o.recovery) + 1
        /\ ~o.inflight => Owned(o) = Len(o.recovery)
        /\ o.recovery = <<>> => Len(o.recovery) = 0
        /\ o.recovery # <<>> => Len(o.recovery) > 0
        /\ DOMAIN o.recovery = 1 .. Len(o.recovery)
\* A sequence of results with an element has a positive length.
<1>NonEmpty.
    \A s \in Seq(ResultType) :
        s # <<>>
        => Len(s) \in Nat \ {0}
    OBVIOUS
<1> TAKE o \in OpType
<1>1. o.recovery \in Seq(ResultType) /\ o.inflight \in BOOLEAN
    BY Zenon DEF OpType
<1>2. Len(o.recovery) \in Nat /\ DOMAIN o.recovery = 1 .. Len(o.recovery)
    BY <1>1
<1>3. o.recovery = <<>> => Len(o.recovery) = 0
    OBVIOUS
<1>4. o.recovery # <<>> => Len(o.recovery) > 0
    <2>1. o.recovery # <<>> => Len(o.recovery) \in Nat \ {0}
        BY <1>1, <1>NonEmpty, Zenon
    <2> QED BY <2>1
<1>5. /\ o.inflight => Owned(o) = Len(o.recovery) + 1
      /\ ~o.inflight => Owned(o) = Len(o.recovery)
    <2>1. CASE o.inflight
        BY <1>2, <2>1, Zenon DEF Owned
    <2>2. CASE ~o.inflight
        BY <1>2, <2>2 DEF Owned
    <2> QED BY <2>1, <2>2, Zenon
<1> QED BY <1>1, <1>2, <1>3, <1>4, <1>5, SMTT(30)

\* A command has a signed quantity and a price.
LEMMA CommandType ==
    \A o \in OpType, k \in Children :
        Target(o, k) \in Int /\ LimitPrice(o, k) \in Nat /\ Command(o, k) \in Int \X Nat
<1> TAKE o \in OpType, k \in Children
<1>1. o.dir \in {-1, 1} /\ o.dex.delta \in Int /\ o.target \in Int /\ o.price \in Nat
    BY Zenon DEF OpType, ResultType
<1>2. o.dir * Quantity \in Int /\ -o.dir * Quantity \in Int
    BY <1>1, QuantityAssumption
<1>3. Target(o, k) \in Int
    BY <1>1, <1>2 DEF Target, CexTarget
<1>4. LimitPrice(o, k) \in Nat
    BY <1>1, Zenon DEF LimitPrice
<1> QED BY <1>3, <1>4, Zenon DEF Command

\* A child nobody asked for.
LEMMA Unlinked ==
    \A o \in OpType, k \in Children :
        ResultOf(o, k) = NoResult
        => LinkOK(o, k, Unsent, {})
<1> TAKE o \in OpType, k \in Children
<1> HAVE ResultOf(o, k) = NoResult
<1>1. VenueOK(o, k, Unsent)
    BY Zenon DEF VenueOK, Unsent, Child
<1>2. TrueOf(o, k, NoResult, Unsent)
    BY Zenon DEF TrueOf, NoResult, Result
<1> QED BY <1>1, <1>2, Zenon DEF LinkOK

\* What a venue does with a live order.
LEMMA FillsOK ==
    \A p \in Plans, k \in Children :
    \A w \in {Void} \cup {f \in Fills(p, k) : f.fill = 0 => f.fee = 0} :
        JournalOK /\ child[p][k].kind = "live"
        => /\ w \in ChildType /\ VenueOK(op[p], k, w) /\ w.kind \in {"void", "done"}
           /\ w.kind = "done" => w \in Fills(p, k)
\* Lots add up to no more than the quantity they were taken from.
<1>Product.
    \A a, b, c \in Nat :
        a <= b
        => a * c \in Nat /\ b * c \in Nat /\ a * c <= b * c
    <2> TAKE a, b, c \in Nat
    <2> HAVE a <= b
    <2>1. (b - a) \in Nat /\ (b - a) * c \in Nat
        OBVIOUS
    <2>2. (b - a) * c = b * c - a * c
        OBVIOUS
    <2>3. a * c \in Nat /\ b * c \in Nat
        OBVIOUS
    <2> QED BY <2>1, <2>2, <2>3, SMTT(30)
\* Flooring to lots never rounds a quantity up.
<1>Quotient.
    \A m \in Nat :
        m \div LotStep \in Nat /\ (m \div LotStep) * LotStep <= m
    <2> TAKE m \in Nat
    <2>1. LotStep \in Nat /\ LotStep > 0
        BY QuantityAssumption
    <2>2. m \div LotStep \in Nat
        BY <2>1
    <2>3. (m \div LotStep) * LotStep <= m
        BY <2>1
    <2> QED BY <2>2, <2>3, Zenon
\* What an order for t can fill: whole lots, no more than was ordered.
<1>Lots.
    \A t \in Int :
    \A lots \in 0 .. Submitted(t) \div LotStep :
        /\ lots \in Nat /\ lots * LotStep \in Nat /\ lots * LotStep <= Abs(t)
        /\ lots # 0 => LotStep <= lots * LotStep
    <2> TAKE t \in Int
    <2> TAKE lots \in 0 .. Submitted(t) \div LotStep
    <2>1. LotStep \in Nat /\ LotStep > 0
        BY QuantityAssumption
    <2>2. Abs(t) \in Nat
        BY AbsIs, Zenon
    <2> DEFINE q == Abs(t) \div LotStep
               s == Submitted(t)
    <2>3. q \in Nat /\ s = q * LotStep /\ s <= Abs(t)
        BY <2>2, <1>Quotient, Zenon DEF Submitted
    <2> HIDE DEF q, s
    <2>4. s \in Nat
        BY <2>1, <2>3
    <2>5. s \div LotStep \in Nat /\ (s \div LotStep) * LotStep <= s
        BY <2>4, <1>Quotient, Zenon
    <2>6. lots \in Nat /\ lots <= s \div LotStep
        BY <2>5 DEF s
    <2>7. lots * LotStep \in Nat /\ lots * LotStep <= (s \div LotStep) * LotStep
          /\ (s \div LotStep) * LotStep \in Nat
        BY <2>1, <2>5, <2>6, <1>Product, Zenon
    <2>8. lots * LotStep <= Abs(t)
        BY <2>2, <2>3, <2>4, <2>5, <2>7, SMTT(30)
    <2>9. ASSUME lots # 0 PROVE LotStep <= lots * LotStep
        <3>1. 1 \in Nat /\ 1 <= lots
            BY <2>6, <2>9
        <3>2. 1 * LotStep <= lots * LotStep
            BY <2>1, <2>6, <3>1, <1>Product, Zenon
        <3> QED BY <2>1, <3>2
    <2> QED BY <2>6, <2>7, <2>8, <2>9, Zenon
<1>0. SUFFICES ASSUME NEW p \in Plans, NEW k \in Children, JournalOK, child[p][k].kind = "live",
                      NEW w, w \in {Void} \cup {f \in Fills(p, k) : f.fill = 0 => f.fee = 0}
               PROVE  /\ w \in ChildType /\ VenueOK(op[p], k, w) /\ w.kind \in {"void", "done"}
                      /\ w.kind = "done" => w \in Fills(p, k)
    BY Zenon
<1>1. op[p] \in OpType /\ child[p][k] \in ChildType /\ LinkOK(op[p], k, child[p][k], asked[p][k])
    BY <1>0, Zenon DEF JournalOK, JournalType, ParentsOK, LinksOK
<1>2. CASE w = Void
    <2>1. w \in ChildType /\ w.kind = "void"
        BY <1>2 DEF Void, Child, ChildType
    <2> QED BY <1>2, <2>1, Zenon DEF VenueOK
<1>3. CASE w # Void
    <2>1. w \in Fills(p, k) /\ (w.fill = 0 => w.fee = 0)
        BY <1>0, <1>3, Zenon
    <2>2. CASE k = Dex
        <3>1. PICK credit \in IF op[p].dir = 1 THEN DexCredits ELSE {Quantity} :
                 w = Child("done", credit, 0)
            BY <2>1, <2>2 DEF Fills
        <3>2. op[p].dir \in {-1, 1}
            BY <1>1, Zenon DEF OpType
        <3>3. credit \in Nat \ {0} /\ (op[p].dir = -1 => credit = Quantity)
            <4>1. CASE op[p].dir = 1
                <5>1. credit \in DexCredits
                    BY <4>1, Zenon
                <5>2. op[p].dir # -1
                    BY <4>1
                <5> QED BY <5>1, <5>2, QuantityAssumption, Zenon
            <4>2. CASE op[p].dir # 1
                <5>1. credit = Quantity
                    BY <4>2, Zenon
                <5> QED BY <5>1, QuantityAssumption, Zenon
            <4> QED BY <4>1, <4>2, Zenon
        <3>4. w \in ChildType /\ w.kind = "done" /\ w.fill = credit /\ w.fee = 0
            BY <3>1, <3>3, SMTT(30) DEF Child, ChildType
        <3>5. FillOK(op[p], k, w)
            BY <2>2, <3>3, <3>4 DEF FillOK
        <3> QED BY <2>1, <3>4, <3>5, Zenon DEF VenueOK
    <2>3. CASE k # Dex
        <3> DEFINE side == child[p][k].fill
                   t == Target(op[p], k)
        <3>1. asked[p][k] = {Command(op[p], k)}
            <4>1. child[p][k] # Unsent
                BY <1>0, SMTT(30) DEF Unsent, Child
            <4> QED BY <1>1, <4>1, Zenon DEF LinkOK
        <3>2. {a[1] : a \in asked[p][k]} = {t}
            BY <3>1 DEF Command
        <3>3. (CHOOSE x \in {a[1] : a \in asked[p][k]} : TRUE) = t
            BY <3>2, Zenon
        <3>4. side = Sign(t) /\ t \in Int
            BY <1>0, <1>1, CommandType, Zenon DEF LinkOK, VenueOK
        <3>5. PICK lots \in 0 .. Submitted(t) \div LotStep,
                   fee \in IF side = 1 THEN BuyFees ELSE {0} :
                 w = Child("done", side * lots * LotStep, fee)
            <4> DEFINE c == CHOOSE x \in {a[1] : a \in asked[p][k]} : TRUE
                       F(y) == {Child("done", side * l * LotStep, f) :
                                  l \in 0 .. Submitted(y) \div LotStep,
                                  f \in IF side = 1 THEN BuyFees ELSE {0}}
            <4>1. Fills(p, k) = F(c)
                BY <2>3 DEF Fills
            <4>2. c = t
                BY <3>3, Zenon
            <4> HIDE DEF c, t
            <4>3. w \in F(t)
                BY <2>1, <4>1, <4>2, SMTT(30)
            <4> QED BY <4>3, SMTT(30)
        <3> HIDE DEF side, t
        <3>6. fee \in Nat /\ fee < LotStep /\ (side # 1 => fee = 0)
            BY <3>5, QuantityAssumption, SMTT(30)
        <3> DEFINE x == lots * LotStep
        <3>7. /\ lots \in Nat /\ x \in Nat /\ x <= Abs(t)
              /\ lots # 0 => LotStep <= x
            BY <3>4, <1>Lots, Zenon
        <3>8. side * lots * LotStep = side * x /\ (lots = 0 => x = 0)
            BY <3>4, <3>7, QuantityAssumption, SMTT(30) DEF Sign
        <3> HIDE DEF x
        <3>9. side * x \in Int
            BY <3>4, <3>7 DEF Sign
        <3>10. w \in ChildType /\ w.kind = "done" /\ w.fill = side * x /\ w.fee = fee
            BY <3>5, <3>6, <3>8, <3>9, Zenon DEF Child, ChildType
        <3>11. FillOK(op[p], k, w)
            <4>1. CASE lots = 0
                <5>1. w.fill = 0
                    BY <3>4, <3>8, <3>10, <4>1, SMTT(30) DEF Sign
                <5> QED BY <2>1, <2>3, <5>1, Zenon DEF FillOK
            <4>2. CASE lots # 0 /\ t > 0
                <5>1. side = 1 /\ Abs(t) = t
                    BY <3>4, <4>2, SMTT(30) DEF Sign, Abs
                <5>2. w.fill = x
                    BY <3>7, <3>10, <5>1, SMTT(30)
                <5> QED BY <2>3, <3>6, <3>7, <3>10, <4>2, <5>1, <5>2, ZenonT(30) DEF FillOK, t
            <4>3. CASE lots # 0 /\ t < 0
                <5>1. side = -1 /\ Abs(t) = -t
                    BY <3>4, <4>3, Zenon DEF Sign, Abs
                <5>2. w.fill = -x /\ x > 0 /\ w.fee = 0
                    BY <3>6, <3>7, <3>10, <4>3, <5>1, QuantityAssumption, SMTT(30)
                <5>3. t <= w.fill /\ w.fill < 0
                    BY <3>4, <3>7, <5>1, <5>2, SMTT(30)
                <5> QED BY <2>3, <4>3, <5>2, <5>3, Zenon DEF FillOK, t
            <4>4. CASE lots # 0 /\ t = 0
                BY <3>7, <4>4, QuantityAssumption, SMTT(30) DEF Abs
            <4> QED BY <3>4, <4>1, <4>2, <4>3, <4>4, SMTT(30)
        <3> QED BY <2>1, <3>10, <3>11, Zenon DEF VenueOK
    <2> QED BY <2>2, <2>3, Zenon
<1> QED BY <1>2, <1>3, Zenon

-----------------------------------------------------------------------------
(* What the venues moved.  The order filters are taken to let through later *)
(* what they let through once: otherwise a replayed order is refused before *)
(* its executor is asked, and its fill is lost (execute_cex_market plans   *)
(* the order anew on every call).                                          *)
FiltersStay == "filters_move" \notin Drift

(* What a child moved, as a function of its parent and of the venue.       *)
Done(v) == v.kind = "done"
Executed(v) == IF Done(v) THEN v.fill ELSE 0
Charged(v) == IF Done(v) THEN v.fee ELSE 0
Effect(o, k, v) ==
    IF ~Done(v) THEN 0 ELSE IF k = Dex THEN DexDelta(o, v.fill) ELSE v.fill - v.fee

\* A result that is neither unknown nor written off says what the venue did.
LEMMA KnownEffect ==
    \A o \in OpType, k \in Children, v \in ChildType, r \in ResultType :
        FiltersStay /\ TrueOf(o, k, r, v) /\ Proves(r)
        => /\ v.kind # "live" /\ r.delta = Effect(o, k, v)
           /\ k # Dex => r.executed = Executed(v)
<1> TAKE o \in OpType, k \in Children, v \in ChildType, r \in ResultType
<1> HAVE FiltersStay /\ TrueOf(o, k, r, v) /\ Proves(r)
<1>1. o.dir \in {-1, 1} /\ Quantity \in Nat \ {0}
    BY QuantityAssumption, Zenon DEF OpType
<1>2. CASE r.status = "failed"
    <2>1. r.delta = 0 /\ r.executed = 0
        BY <1>2, Zenon DEF TrueOf
    <2>2. v = Unsent \/ v = Void \/ v = Child("done", 0, 0)
        BY <1>2, Zenon DEF TrueOf, Proves, FiltersStay
    <2>3. CASE v = Unsent \/ v = Void
        <3>1. v.kind # "live" /\ ~Done(v)
            BY <2>3 DEF Unsent, Void, Child, Done
        <3> QED BY <2>1, <3>1, Zenon DEF Effect, Executed
    <2>4. CASE v = Child("done", 0, 0)
        <3>1. v.kind # "live" /\ Done(v) /\ v.fill = 0 /\ v.fee = 0
            BY <2>4, Zenon DEF Child, Done
        <3>2. DexDelta(o, 0) = 0
            BY <1>1 DEF DexDelta, AtMost
        <3> QED BY <2>1, <3>1, <3>2 DEF Effect, Executed
    <2> QED BY <2>2, <2>3, <2>4, Zenon
<1>3. CASE r.status = "filled"
    <2>1. v.kind = "done" /\ Done(v)
        BY <1>3, Zenon DEF TrueOf, Done
    <2>2. CASE k = Dex
        BY <1>3, <2>1, <2>2, Zenon DEF TrueOf, Effect
    <2>3. CASE k # Dex
        BY <1>3, <2>1, <2>3, Zenon DEF TrueOf, Effect, Executed
    <2> QED BY <2>1, <2>2, <2>3, Zenon
<1> QED BY <1>2, <1>3, Zenon DEF Proves, Known

\* Only a swap is written off.
LEMMA OnlySwapExpires ==
    \A o, k, v, r :
        /\ TrueOf(o, k, r, v) /\ Known(r)
        /\ k = Dex /\ r.status = "failed" => r.ref # "expired"
        => Proves(r)
BY DEF TrueOf, Proves, Known

\* The results of a parent, one per child.
LEMMA ResultsAre ==
    \A o \in OpType :
        /\ \A k \in Children : ResultOf(o, k) \in ResultType
        /\ \A i \in 1 .. 3 : RecoveryDelta(o, i) = ResultOf(o, i + 1).delta
        /\ ResultOf(o, 0) = o.dex /\ ResultOf(o, 1) = o.cex
        /\ Residual(o) = ResultOf(o, 0).delta + ResultOf(o, 1).delta + ResultOf(o, 2).delta
                           + ResultOf(o, 3).delta + ResultOf(o, 4).delta
<1> TAKE o \in OpType
<1>1. o.dex \in ResultType /\ o.cex \in ResultType /\ o.recovery \in Seq(ResultType)
    BY Zenon DEF OpType
<1>2. DOMAIN o.recovery = 1 .. Len(o.recovery)
    BY <1>1
<1>3. NoResult \in ResultType /\ NoResult.delta = 0
    BY NoOpOK DEF NoResult, Result, ResultType, Statuses, References
<1>4. ASSUME NEW k \in Children PROVE ResultOf(o, k) \in ResultType
    BY <1>1, <1>2, <1>3 DEF ResultOf
<1>5. ASSUME NEW i \in 1 .. 3 PROVE RecoveryDelta(o, i) = ResultOf(o, i + 1).delta
    <2>1. i + 1 # 0 /\ i + 1 # 1 /\ (i + 1) - 1 = i
        OBVIOUS
    <2> QED BY <1>3, <2>1, Zenon DEF RecoveryDelta, ResultOf, Dex, Cex
<1>6. ResultOf(o, 0) = o.dex /\ ResultOf(o, 1) = o.cex
    BY DEF ResultOf, Dex, Cex
<1>7. /\ RecoveryDelta(o, 1) = ResultOf(o, 2).delta /\ RecoveryDelta(o, 2) = ResultOf(o, 3).delta
      /\ RecoveryDelta(o, 3) = ResultOf(o, 4).delta
    <2>1. 1 \in 1 .. 3 /\ 2 \in 1 .. 3 /\ 3 \in 1 .. 3 /\ 1 + 1 = 2 /\ 2 + 1 = 3 /\ 3 + 1 = 4
        OBVIOUS
    <2> QED BY <1>5, <2>1, Zenon
<1> QED BY <1>4, <1>5, <1>6, <1>7, Zenon DEF Residual

\* Exposure is the sum of what the children moved.
LEMMA ExposureIs ==
    \A p \in Plans :
        /\ \A k \in Children : Moved(p, k) = Effect(op[p], k, child[p][k])
        /\ Exposure(p) = Effect(op[p], 0, child[p][0]) + Effect(op[p], 1, child[p][1])
             + Effect(op[p], 2, child[p][2]) + Effect(op[p], 3, child[p][3])
             + Effect(op[p], 4, child[p][4])
<1> TAKE p \in Plans
<1>1. \A k : Moved(p, k) = Effect(op[p], k, child[p][k])
    BY Zenon DEF Moved, Effect, Done
<1>2. Dex = 0 /\ Cex = 1 /\ Recovery(1) = 2 /\ Recovery(2) = 3 /\ Recovery(3) = 4
    BY DEF Dex, Cex, Recovery
<1> QED BY <1>1, <1>2, SMTT(30) DEF Exposure

\* The state of one parent, as TradeInv has it.
LEMMA ParentIs ==
    \A p \in Plans :
        TradeInv
        => /\ op[p] \in OpType /\ ParentOK(op[p])
           /\ \A k \in Children : child[p][k] \in ChildType /\ LinkOK(op[p], k, child[p][k], asked[p][k])
BY Zenon DEF TradeInv, JournalOK, JournalType, ParentsOK, LinksOK

\* An append replaces an unknown result only by what the venue did.
LEMMA UnknownProved ==
    FiltersStay /\ TradeInv /\ Appends =>
        \A p \in Plans, k \in Children :
          (ResultOf(op[p], k).status = "unknown" /\ ResultOf(op'[p], k).status # "unknown")
          => /\ child[p][k].kind # "live"
             /\ ResultOf(op'[p], k).delta = Moved(p, k)
<1> SUFFICES ASSUME FiltersStay, TradeInv, Appends, NEW p \in Plans, NEW k \in Children,
                    ResultOf(op[p], k).status = "unknown", ResultOf(op'[p], k).status # "unknown"
             PROVE  child[p][k].kind # "live" /\ ResultOf(op'[p], k).delta = Moved(p, k)
    BY Zenon
<1>1. Keeps(op[p], op'[p]) /\ Proven(op[p], op'[p], child[p])
    BY ZenonT(30) DEF Appends
<1>2. TrueOf(op[p], k, ResultOf(op'[p], k), child[p][k]) /\ Proves(ResultOf(op'[p], k))
    <2>1. ResultOf(op[p], k) # NoResult
        BY DEF NoResult, Result
    <2> QED BY <1>1, <2>1, ZenonT(30) DEF Proven
<1>3. op[p] \in OpType /\ child[p][k] \in ChildType /\ op'[p] \in OpType
    BY <1>1, ParentIs, ZenonT(30) DEF Keeps
<1>4. ResultOf(op'[p], k) \in ResultType
    BY <1>3, ResultsAre, ZenonT(30)
<1>5. Moved(p, k) = Effect(op[p], k, child[p][k])
    BY ExposureIs, Zenon
<1> QED BY <1>2, <1>3, <1>4, <1>5, KnownEffect, ZenonT(30)

\* A parent closed as balanced: what the venues moved is what it states.
LEMMA SettledParents ==
    FiltersStay
    => (TradeInv => SettledMatchesVenues)
\* A child that was never handed out has no result.
<1>NeverHandedOut.
    \A o \in OpType, k \in Children :
        ParentOK(o) /\ ~Dispatched(o, k)
        => ResultOf(o, k) = NoResult
    <2> TAKE o \in OpType, k \in Children
    <2> HAVE ParentOK(o) /\ ~Dispatched(o, k)
    <2>1. CASE k = Dex
        BY <2>1, Zenon DEF Dispatched, ResultOf, ParentOK, DexOK
    <2>2. CASE k = Cex
        <3>1. Dex # Cex
            BY DEF Dex, Cex
        <3> QED BY <2>2, <3>1, Zenon DEF Dispatched, ResultOf, ParentOK, CexOK
    <2>3. CASE k # Dex /\ k # Cex
        <3>1. k - 1 > Owned(o) /\ k - 1 \in Int
            BY <2>3, ChildrenAre, OwnedIs, SMTT(30) DEF Dispatched
        <3>2. DOMAIN o.recovery = 1 .. Len(o.recovery) /\ Len(o.recovery) <= Owned(o)
            BY OwnedIs, SMTT(30)
        <3>3. k - 1 \notin DOMAIN o.recovery
            BY <3>1, <3>2, OwnedIs
        <3> QED BY <2>3, <3>3, Zenon DEF ResultOf
    <2> QED BY <2>1, <2>2, <2>3, Zenon
\* A leg that was never handed out, or whose result is final.
<1>SettledLeg.
    \A o \in OpType, k \in Children, v \in ChildType :
    \A a :
        /\ FiltersStay /\ ParentOK(o) /\ LinkOK(o, k, v, a)
        /\ ResultOf(o, k) \in ResultType
        /\ ~Dispatched(o, k) \/ Proves(ResultOf(o, k))
        => /\ v.kind # "live" /\ ResultOf(o, k).delta = Effect(o, k, v)
           /\ k # Dex => ResultOf(o, k).executed = Executed(v)
    <2> TAKE o \in OpType, k \in Children, v \in ChildType
    <2> TAKE a
    <2> HAVE /\ FiltersStay /\ ParentOK(o) /\ LinkOK(o, k, v, a)
             /\ ResultOf(o, k) \in ResultType
             /\ ~Dispatched(o, k) \/ Proves(ResultOf(o, k))
    <2>1. CASE ~Dispatched(o, k)
        <3>1. ResultOf(o, k) = NoResult
            BY <2>1, <1>NeverHandedOut, Zenon
        <3>2. v = Unsent
            BY <2>1, Zenon DEF LinkOK
        <3>3. v.kind # "live" /\ ~Done(v)
            BY <3>2, Zenon DEF Unsent, Child, Done
        <3> QED BY <3>1, <3>3 DEF NoResult, Result, Effect, Executed
    <2>2. CASE Dispatched(o, k)
        <3>1. Proves(ResultOf(o, k)) /\ TrueOf(o, k, ResultOf(o, k), v)
            BY <2>2, Zenon DEF LinkOK
        <3> QED BY <3>1, KnownEffect, Zenon
    <2> QED BY <2>1, <2>2, Zenon
\* finalize_balanced accepts a parent only when every leg it handed out has a
\* final result.
<1>FinalResults.
    \A o \in OpType, k \in Children :
    \A v :
        /\ ParentOK(o) /\ MayFinalize(o) /\ Dispatched(o, k)
        /\ TrueOf(o, k, ResultOf(o, k), v)
        => Proves(ResultOf(o, k))
    <2> TAKE o \in OpType, k \in Children
    <2> TAKE v
    <2> HAVE /\ ParentOK(o) /\ MayFinalize(o) /\ Dispatched(o, k)
             /\ TrueOf(o, k, ResultOf(o, k), v)
    <2> DEFINE r == ResultOf(o, k)
    <2>1. r \in ResultType
        BY ResultsAre, Zenon
    <2>2. r.status # "unknown" /\ HasResult(r) /\ (k = Dex /\ r.status = "failed" => r.ref # "expired")
        <3>1. CASE k = Dex
            <4>1. r = o.dex /\ o.dex_dispatched
                BY <3>1, Zenon DEF ResultOf, Dispatched
            <4> QED BY <4>1, UnknownLeg, Zenon DEF MayFinalize, ProvesZeroExposure
        <3>2. CASE k = Cex
            <4>1. r = o.cex /\ o.cex_dispatched /\ k # Dex
                BY <3>2 DEF ResultOf, Dispatched, Dex, Cex
            <4> QED BY <4>1, UnknownLeg, Zenon DEF MayFinalize
        <3>3. CASE k # Dex /\ k # Cex
            <4>1. k - 1 <= Owned(o) /\ k - 1 \in 1 .. 3
                BY <3>3, ChildrenAre DEF Dispatched, Dex, Cex
            <4>2. ~o.inflight
                BY Zenon DEF MayFinalize
            <4>3. DOMAIN o.recovery = 1 .. Len(o.recovery) /\ k - 1 \in 1 .. Len(o.recovery)
                BY <4>1, <4>2, OwnedIs
            <4>4. r = o.recovery[k - 1]
                BY <3>3, <4>3, Zenon DEF ResultOf
            <4>5. HasResult(o.recovery[k - 1])
                BY <4>3, Zenon DEF ParentOK, RecoveryOK
            <4>6. o.recovery[k - 1].status # "unknown"
                BY <4>3, UnknownLeg, Zenon DEF MayFinalize
            <4> QED BY <3>3, <4>4, <4>5, <4>6, Zenon
        <3> QED BY <3>1, <3>2, <3>3, Zenon
    <2>3. Known(r)
        BY <2>1, <2>2, Zenon DEF Known, HasResult, ResultType, Statuses
    <2>4. TrueOf(o, k, r, v)
        BY Zenon
    <2> HIDE DEF r
    <2>5. Proves(r)
        BY <2>2, <2>3, <2>4, Zenon DEF Proves, Known, TrueOf
    <2> QED BY <2>5, Zenon DEF r
<1> HAVE FiltersStay
<1> SUFFICES ASSUME TradeInv, NEW p \in Plans, Terminal(op[p])
             PROVE  /\ op[p].residual = Exposure(p)
                    /\ \A k \in Children : child[p][k].kind # "live"
    BY Zenon DEF SettledMatchesVenues
<1> DEFINE o == op[p]
           v(k) == child[p][k]
<1>1. /\ o \in OpType /\ ParentOK(o)
      /\ \A k \in Children : v(k) \in ChildType /\ LinkOK(o, k, v(k), asked[p][k])
    BY ParentIs, Zenon
<1>2. MayFinalize(o) /\ o.residual = Residual(o)
    BY <1>1, Zenon DEF Terminal, ParentOK, StageOK
<1>3. Exposure(p) = Effect(o, 0, v(0)) + Effect(o, 1, v(1)) + Effect(o, 2, v(2))
                      + Effect(o, 3, v(3)) + Effect(o, 4, v(4))
    BY ExposureIs, Zenon
<1> HIDE DEF o
<1>4. ASSUME NEW k \in Children
      PROVE  v(k).kind # "live" /\ ResultOf(o, k).delta = Effect(o, k, v(k))
    <2>1. v(k) \in ChildType /\ LinkOK(o, k, v(k), asked[p][k]) /\ ResultOf(o, k) \in ResultType
        BY <1>1, ResultsAre, Zenon
    <2> HIDE DEF v
    <2>2. ~Dispatched(o, k) \/ Proves(ResultOf(o, k))
        BY <1>1, <1>2, <2>1, <1>FinalResults, Zenon DEF LinkOK
    <2> QED BY <1>1, <2>1, <2>2, <1>SettledLeg, Zenon
<1>5. 0 \in Children /\ 1 \in Children /\ 2 \in Children /\ 3 \in Children /\ 4 \in Children
    BY ChildrenAre, Zenon
<1>6. Residual(o) = ResultOf(o, 0).delta + ResultOf(o, 1).delta + ResultOf(o, 2).delta
                              + ResultOf(o, 3).delta + ResultOf(o, 4).delta
    BY <1>1, ResultsAre, Zenon
<1>7. Residual(o) = Exposure(p)
    BY <1>3, <1>4, <1>5, <1>6, Zenon
<1> QED BY <1>2, <1>4, <1>7, Zenon DEF o

-----------------------------------------------------------------------------
(* Exposure.                                                               *)

(* An order for t that executed x and was charged f.                       *)
Order(t, x, f) ==
    \/ x = 0 /\ f = 0
    \/ t > 0 /\ LotStep <= x /\ x <= t /\ 0 <= f /\ f < LotStep
    \/ t < 0 /\ t <= x /\ x < 0 /\ f = 0

\* What the swap moved: at most the planned quantity, in its direction
\* (cap_dex_credit_to_execution_envelope).
LEMMA SwapEffect ==
    \A o \in OpType, v \in ChildType :
        VenueOK(o, Dex, v)
        => /\ Effect(o, Dex, v) \in Int
           /\ o.dir = 1 => 0 <= Effect(o, Dex, v) /\ Effect(o, Dex, v) <= Quantity
           /\ o.dir = -1 => -Quantity <= Effect(o, Dex, v) /\ Effect(o, Dex, v) <= 0
<1> TAKE o \in OpType, v \in ChildType
<1> HAVE VenueOK(o, Dex, v)
<1>1. Quantity \in Nat \ {0} /\ o.dir \in {-1, 1} /\ v.fill \in Int
    BY QuantityAssumption, Zenon DEF OpType, ChildType
<1>2. CASE ~Done(v)
    BY <1>1, <1>2 DEF Effect
<1>3. CASE Done(v)
    <2>1. v.fill > 0 /\ (o.dir = -1 => v.fill = Quantity)
        BY <1>3, Zenon DEF VenueOK, FillOK, Done
    <2>2. Effect(o, Dex, v) = DexDelta(o, v.fill)
        BY <1>3, Zenon DEF Effect
    <2>3. CASE o.dir = 1
        <3>1. DexDelta(o, v.fill) = AtMost(v.fill, Quantity)
            BY <1>1, <2>3, SMTT(30) DEF DexDelta, AtMost
        <3> QED BY <1>1, <2>1, <2>2, <2>3, <3>1, SMTT(30) DEF AtMost
    <2>4. CASE o.dir = -1
        <3>1. DexDelta(o, v.fill) = -Quantity
            BY <1>1, <2>1, <2>4 DEF DexDelta
        <3> QED BY <1>1, <2>2, <2>4, <3>1, SMTT(30)
    <2> QED BY <1>1, <2>3, <2>4, Zenon
<1> QED BY <1>2, <1>3, Zenon

\* What an order moved: no more than its target, and after the commission
\* still something.
LEMMA OrderEffect ==
    \A o \in OpType, k \in Children, v \in ChildType :
        k # Dex /\ VenueOK(o, k, v)
        => /\ Executed(v) \in Int /\ Charged(v) \in Nat
           /\ Effect(o, k, v) = Executed(v) - Charged(v)
           /\ Order(Target(o, k), Executed(v), Charged(v))
<1> TAKE o \in OpType, k \in Children, v \in ChildType
<1> HAVE k # Dex /\ VenueOK(o, k, v)
<1>1. v.fill \in Int /\ v.fee \in Nat
    BY Zenon DEF ChildType
<1>2. CASE ~Done(v)
    BY <1>2 DEF Effect, Executed, Charged, Order
<1>3. CASE Done(v)
    <2>1. Executed(v) = v.fill /\ Charged(v) = v.fee /\ Effect(o, k, v) = v.fill - v.fee
        BY <1>3, Zenon DEF Effect, Executed, Charged
    <2>2. FillOK(o, k, v)
        BY <1>3, Zenon DEF VenueOK, Done
    <2>3. Order(Target(o, k), v.fill, v.fee)
        BY <1>1, <2>2, SMTT(30) DEF FillOK, Order
    <2> QED BY <1>1, <2>1, <2>3, Zenon
<1> QED BY <1>2, <1>3, Zenon

\* Of the recoveries only the last one handed out can have moved anything:
\* an earlier one was retried because it did nothing.
LEMMA OneRecoveryMoves ==
    \A o \in OpType, k \in {2, 3, 4}, v \in ChildType :
    \A a :
        FiltersStay /\ ParentOK(o) /\ k - 1 # Owned(o) /\ LinkOK(o, k, v, a)
        => v.kind # "live" /\ Effect(o, k, v) = 0
<1> TAKE o \in OpType, k \in {2, 3, 4}, v \in ChildType
<1> TAKE a
<1> HAVE FiltersStay /\ ParentOK(o) /\ k - 1 # Owned(o) /\ LinkOK(o, k, v, a)
<1>1. k \in Children /\ k # Dex /\ k # Cex
    BY ChildrenAre DEF Dex, Cex
<1>2. CASE k - 1 > Owned(o)
    <2>1. ~Dispatched(o, k)
        BY <1>1, <1>2, OwnedIs, SMTT(30) DEF Dispatched
    <2>2. v = Unsent
        BY <2>1, Zenon DEF LinkOK
    <2> QED BY <2>2, Zenon DEF Unsent, Child, Effect, Done
<1>3. CASE k - 1 < Owned(o)
    <2>1. k - 1 \in 1 .. Owned(o) - 1
        BY <1>3, OwnedIs, SMTT(30)
    <2>2. Retryable(o.recovery[k - 1])
        BY <2>1, Zenon DEF ParentOK, RecoveryOK
    <2>3. k - 1 \in DOMAIN o.recovery
        BY <2>1, OwnedIs, SMTT(30)
    <2>4. ResultOf(o, k) = o.recovery[k - 1]
        BY <1>1, <2>3, Zenon DEF ResultOf
    <2> DEFINE r == ResultOf(o, k)
    <2>5. r.status = "failed" /\ r.ref # "expired"
        BY <2>2, <2>4, Zenon DEF Retryable
    <2>6. Proves(r) /\ TrueOf(o, k, r, v) /\ r \in ResultType
        BY <1>1, <2>5, ResultsAre, Zenon DEF Proves, Known, LinkOK
    <2>7. r.delta = 0
        BY <2>5, <2>6, Zenon DEF TrueOf
    <2> HIDE DEF r
    <2> QED BY <1>1, <2>6, <2>7, KnownEffect, ZenonT(30)
<1> QED BY <1>2, <1>3, OwnedIs, SMTT(30)

\* So an exposure has at most three parts: the swap, the primary order and
\* the last recovery.
LEMMA ExposureParts ==
    \A p \in Plans :
        FiltersStay /\ TradeInv
        => /\ Owned(op[p]) \in 0 .. 3
           /\ Owned(op[p]) = 0 => Exposure(p) = Effect(op[p], 0, child[p][0]) + Effect(op[p], 1, child[p][1])
           /\ \A k \in {2, 3, 4} : k - 1 = Owned(op[p]) =>
                Exposure(p) = Effect(op[p], 0, child[p][0]) + Effect(op[p], 1, child[p][1])
                                + Effect(op[p], k, child[p][k])
<1> TAKE p \in Plans
<1> HAVE FiltersStay /\ TradeInv
<1> DEFINE o == op[p]
           e(k) == Effect(o, k, child[p][k])
<1>1. /\ o \in OpType /\ ParentOK(o)
      /\ \A k \in Children : child[p][k] \in ChildType /\ LinkOK(o, k, child[p][k], asked[p][k])
    BY ParentIs, Zenon
<1>2. Exposure(p) = e(0) + e(1) + e(2) + e(3) + e(4)
    BY ExposureIs, Zenon
<1> HIDE DEF o
<1>3. Owned(o) \in 0 .. 3
    <2>1. Owned(o) \in Nat
        BY <1>1, OwnedIs, Zenon
    <2>2. Owned(o) <= MaxRecoveryAttempts
        BY <1>1, Zenon DEF ParentOK, RecoveryOK
    <2> QED BY <2>1, <2>2, SMTT(30) DEF MaxRecoveryAttempts
<1>4. \A k \in {2, 3, 4} : k \in Children
    BY ChildrenAre, Zenon
<1>5. \A k \in {2, 3, 4} : k - 1 # Owned(o) => e(k) = 0
    BY <1>1, <1>4, OneRecoveryMoves, Zenon
<1>6. \A k \in {1, 2, 3, 4} : e(k) \in Int
    <2> SUFFICES ASSUME NEW k \in {1, 2, 3, 4} PROVE e(k) \in Int
        BY Zenon
    <2>1. k \in Children /\ k # Dex
        BY ChildrenAre DEF Dex
    <2> DEFINE v == child[p][k]
    <2>2. v \in ChildType /\ VenueOK(o, k, v)
        BY <1>1, <2>1, Zenon DEF LinkOK
    <2> HIDE DEF v
    <2>3. Effect(o, k, v) \in Int
        BY <1>1, <2>1, <2>2, OrderEffect, SMTT(30)
    <2> QED BY <2>3, Zenon DEF v
<1>7. e(0) \in Int
    <2> DEFINE v == child[p][0]
    <2>1. v \in ChildType /\ VenueOK(o, Dex, v)
        BY <1>1, ChildrenAre, Zenon DEF LinkOK, Dex
    <2> HIDE DEF v
    <2>2. Effect(o, Dex, v) \in Int
        BY <1>1, <2>1, SwapEffect, Zenon
    <2> QED BY <2>2, Zenon DEF v, Dex
<1> HIDE DEF e
<1>8. Owned(o) = 0 => Exposure(p) = e(0) + e(1)
    BY <1>2, <1>5, <1>6, <1>7, SMTT(30)
<1>9. ASSUME NEW k \in {2, 3, 4}, k - 1 = Owned(o) PROVE Exposure(p) = e(0) + e(1) + e(k)
    <2>1. CASE k = 2
        BY <1>2, <1>5, <1>6, <1>7, <1>9, <2>1, SMTT(30)
    <2>2. CASE k = 3
        BY <1>2, <1>5, <1>6, <1>7, <1>9, <2>2, SMTT(30)
    <2>3. CASE k = 4
        BY <1>2, <1>5, <1>6, <1>7, <1>9, <2>3, SMTT(30)
    <2> QED BY <2>1, <2>2, <2>3, Zenon
<1> QED BY <1>3, <1>8, <1>9, ZenonT(30) DEF o, e

\* What the swap and the primary order of a parent moved.
LEMMA PrimaryParts ==
    \A p \in Plans :
        TradeInv
        => LET o == op[p]
               e == Effect(o, 0, child[p][0])
               x == Executed(child[p][1])
               f == Charged(child[p][1])
               t == Target(o, Cex)
           IN /\ e \in Int /\ x \in Int /\ f \in Nat /\ t \in Int
              /\ Effect(o, 1, child[p][1]) = x - f /\ Order(t, x, f)
              /\ \/ o.dir = 1 /\ 0 <= e /\ e <= Quantity /\ -Quantity <= t /\ t <= 0
                 \/ o.dir = -1 /\ -Quantity <= e /\ e <= 0 /\ 0 <= t /\ t <= Quantity
\* The primary order is against the swap, and no larger than the plan.
<1>PrimaryTarget.
    \A o \in OpType, v \in ChildType :
        VenueOK(o, Dex, v) /\ TrueOf(o, Dex, o.dex, v)
        => /\ o.dex.delta \in {0, Effect(o, Dex, v)}
           /\ Target(o, Cex) \in Int
           /\ o.dir = 1 => -Quantity <= Target(o, Cex) /\ Target(o, Cex) <= 0
           /\ o.dir = -1 => 0 <= Target(o, Cex) /\ Target(o, Cex) <= Quantity
    <2> TAKE o \in OpType, v \in ChildType
    <2> HAVE VenueOK(o, Dex, v) /\ TrueOf(o, Dex, o.dex, v)
    <2>1. Quantity \in Nat \ {0} /\ o.dir \in {-1, 1} /\ o.dex \in ResultType
        BY QuantityAssumption, Zenon DEF OpType
    <2> DEFINE e == Effect(o, Dex, v)
    <2>2. /\ e \in Int
          /\ o.dir = 1 => 0 <= e /\ e <= Quantity
          /\ o.dir = -1 => -Quantity <= e /\ e <= 0
        BY SwapEffect, Zenon
    <2>3. o.dex.delta \in {0, e}
        <3>1. CASE o.dex.status = "filled"
            BY <3>1, ZenonT(30) DEF TrueOf, Effect, Done
        <3>2. CASE o.dex.status # "filled"
            BY <3>2, Zenon DEF TrueOf
        <3> QED BY <3>1, <3>2, Zenon
    <2>4. Target(o, Cex) = CexTarget(o)
        BY DEF Target, Dex, Cex
    <2> HIDE DEF e
    <2>5. CASE o.mode = "dex_first"
        <3>1. Target(o, Cex) = -o.dex.delta
            BY <2>4, <2>5, Zenon DEF CexTarget
        <3>2. \A d \in {0, e} : /\ -d \in Int
                                /\ o.dir = 1 => -Quantity <= -d /\ -d <= 0
                                /\ o.dir = -1 => 0 <= -d /\ -d <= Quantity
            BY <2>1, <2>2, SMTT(30)
        <3> QED BY <2>3, <3>1, <3>2, Zenon DEF e
    <2>6. CASE o.mode # "dex_first"
        <3>1. Target(o, Cex) = -o.dir * Quantity
            BY <2>4, <2>6, Zenon DEF CexTarget
        <3>2. CASE o.dir = 1
            <4>1. Target(o, Cex) = -Quantity
                BY <2>1, <3>1, <3>2, SMTT(30)
            <4> QED BY <2>1, <2>3, <3>2, <4>1, SMTT(30) DEF e
        <3>3. CASE o.dir = -1
            <4>1. Target(o, Cex) = Quantity
                BY <2>1, <3>1, <3>3, SMTT(30)
            <4> QED BY <2>1, <2>3, <3>3, <4>1, SMTT(30) DEF e
        <3> QED BY <2>1, <3>2, <3>3, Zenon
    <2> QED BY <2>5, <2>6, ZenonT(30)
<1> TAKE p \in Plans
<1> HAVE TradeInv
<1> DEFINE o == op[p]
           v == child[p][0]
           w == child[p][1]
           e == Effect(o, Dex, v)
           t == Target(o, Cex)
<1>1. /\ o \in OpType /\ v \in ChildType /\ w \in ChildType
      /\ LinkOK(o, 0, v, asked[p][0]) /\ LinkOK(o, 1, w, asked[p][1])
    BY ParentIs, ChildrenAre, ZenonT(30)
<1> HIDE DEF o, v, w
<1>2. VenueOK(o, Dex, v) /\ TrueOf(o, Dex, o.dex, v) /\ VenueOK(o, Cex, w)
    BY <1>1, Zenon DEF LinkOK, ResultOf, Dex, Cex
<1>3. Cex \in Children /\ Cex # Dex
    BY ChildrenAre DEF Cex, Dex
<1>4. /\ e \in Int
      /\ o.dir = 1 => 0 <= e /\ e <= Quantity
      /\ o.dir = -1 => -Quantity <= e /\ e <= 0
    BY <1>1, <1>2, SwapEffect, Zenon
<1>5. /\ t \in Int
      /\ o.dir = 1 => -Quantity <= t /\ t <= 0
      /\ o.dir = -1 => 0 <= t /\ t <= Quantity
    BY <1>1, <1>2, <1>PrimaryTarget, Zenon
<1>6. /\ Executed(w) \in Int /\ Charged(w) \in Nat
      /\ Effect(o, Cex, w) = Executed(w) - Charged(w)
      /\ Order(t, Executed(w), Charged(w))
    BY <1>1, <1>2, <1>3, OrderEffect, Zenon
<1>7. o.dir \in {-1, 1}
    BY <1>1, Zenon DEF OpType
<1> HIDE DEF e, t
<1>8. \/ o.dir = 1 /\ 0 <= e /\ e <= Quantity /\ -Quantity <= t /\ t <= 0
      \/ o.dir = -1 /\ -Quantity <= e /\ e <= 0 /\ 0 <= t /\ t <= Quantity
    BY <1>4, <1>5, <1>7, Zenon
<1>9. /\ e = Effect(op[p], 0, child[p][0]) /\ t = Target(op[p], Cex) /\ o.dir = op[p].dir
      /\ Effect(o, Cex, w) = Effect(op[p], 1, child[p][1])
      /\ Executed(w) = Executed(child[p][1]) /\ Charged(w) = Charged(child[p][1])
    BY Zenon DEF o, v, w, e, t, Dex, Cex
<1> QED BY <1>4, <1>5, <1>6, <1>8, <1>9, Zenon

\* A recovery in hand: the target is what the swap and the primary order
\* really left open.
LEMMA RecoveryParts ==
    \A p \in Plans, k \in {2, 3, 4} :
        /\ FiltersStay /\ TradeInv /\ k - 1 = Owned(op[p])
        /\ op[p].dex.status = "failed" => op[p].dex.ref # "expired"
        => LET o == op[p]
               e == Effect(o, 0, child[p][0])
               x == Executed(child[p][1])
               y == Executed(child[p][k])
               g == Charged(child[p][k])
           IN /\ y \in Int /\ g \in Nat /\ Effect(o, k, child[p][k]) = y - g
              /\ o.target = -e - x /\ Order(o.target, y, g)
<1> TAKE p \in Plans, k \in {2, 3, 4}
<1> HAVE /\ FiltersStay /\ TradeInv /\ k - 1 = Owned(op[p])
         /\ op[p].dex.status = "failed" => op[p].dex.ref # "expired"
<1> DEFINE o == op[p]
           v == child[p][0]
           w == child[p][1]
           u == child[p][k]
<1>1. k \in Children /\ 0 \in Children /\ 1 \in Children /\ k # Dex /\ k # Cex
    BY ChildrenAre, SMTT(30) DEF Dex, Cex
<1>2. o \in OpType /\ ParentOK(o) /\ (o.dex.status = "failed" => o.dex.ref # "expired") /\ Owned(o) > 0
    BY ParentIs
<1>3. /\ v \in ChildType /\ w \in ChildType /\ u \in ChildType
      /\ LinkOK(o, 0, v, asked[p][0]) /\ LinkOK(o, 1, w, asked[p][1])
      /\ LinkOK(o, k, u, asked[p][k])
    BY <1>1, ParentIs, Zenon
<1> HIDE DEF o, v, w, u
<1>4. Known(o.dex) /\ Known(o.cex) /\ o.target = -o.dex.delta - o.cex.executed
    BY <1>2, Zenon DEF ParentOK, RecoveryOK
<1>5. TrueOf(o, Dex, o.dex, v) /\ TrueOf(o, Cex, o.cex, w) /\ VenueOK(o, k, u)
    <2>1. ResultOf(o, 0) = o.dex /\ ResultOf(o, 1) = o.cex
        BY DEF ResultOf, Dex, Cex
    <2> QED BY <1>3, <2>1, Zenon DEF LinkOK, Dex, Cex
<1>6. Dex \in Children /\ Cex \in Children /\ Cex # Dex
    BY ChildrenAre DEF Dex, Cex
<1>7. Proves(o.dex) /\ Proves(o.cex)
    BY <1>2, <1>4, <1>5, <1>6, OnlySwapExpires, ZenonT(30)
<1>8. o.dex \in ResultType /\ o.cex \in ResultType
    BY <1>2, Zenon DEF OpType
<1>9. o.dex.delta = Effect(o, Dex, v)
    BY <1>2, <1>3, <1>5, <1>6, <1>7, <1>8, KnownEffect, ZenonT(30)
<1>10. o.cex.executed = Executed(w)
    BY <1>2, <1>3, <1>5, <1>6, <1>7, <1>8, KnownEffect, ZenonT(30)
<1>11. Target(o, k) = o.target
    BY <1>1, Zenon DEF Target
<1>12. /\ Executed(u) \in Int /\ Charged(u) \in Nat
       /\ Effect(o, k, u) = Executed(u) - Charged(u)
       /\ Order(o.target, Executed(u), Charged(u))
    BY <1>1, <1>2, <1>3, <1>5, <1>11, OrderEffect, ZenonT(30)
<1>13. o.target = -Effect(o, 0, v) - Executed(w)
    BY <1>4, <1>9, <1>10, Zenon DEF Dex
<1> QED BY <1>12, <1>13, ZenonT(30) DEF o, v, w, u

\* The exposure of a parent stays within its planned quantity.
LEMMA ExposureFits == FiltersStay /\ TradeInv => ExposureBounded
\* The arithmetic: a swap of e, an order against it and a recovery of what the
\* two left.
<1>Bounded.
    \A e, t, x \in Int, f \in Nat, y \in Int, g \in Nat :
        /\ \/ 0 <= e /\ e <= Quantity /\ -Quantity <= t /\ t <= 0
           \/ -Quantity <= e /\ e <= 0 /\ 0 <= t /\ t <= Quantity
        /\ Order(t, x, f) /\ Order(-e - x, y, g)
        => Abs(e + (x - f) + (y - g)) <= Quantity
    <2> TAKE e, t, x \in Int, f \in Nat, y \in Int, g \in Nat
    <2> HAVE /\ \/ 0 <= e /\ e <= Quantity /\ -Quantity <= t /\ t <= 0
                \/ -Quantity <= e /\ e <= 0 /\ 0 <= t /\ t <= Quantity
             /\ Order(t, x, f) /\ Order(-e - x, y, g)
    <2>1. Quantity \in Nat /\ LotStep \in Nat /\ LotStep > 0
        BY QuantityAssumption
    <2>2. /\ -Quantity <= e + (x - f) + (y - g)
          /\ e + (x - f) + (y - g) <= Quantity
        BY <2>1 DEF Order
    <2> QED BY <2>1, <2>2, SMTT(30) DEF Abs
<1> SUFFICES ASSUME FiltersStay, TradeInv, NEW p \in Plans, op[p].dex.ref # "expired"
             PROVE  Abs(Exposure(p)) <= Quantity
    BY Zenon DEF ExposureBounded
<1> DEFINE e == Effect(op[p], 0, child[p][0])
           x == Executed(child[p][1])
           f == Charged(child[p][1])
           t == Target(op[p], Cex)
<1>1. /\ e \in Int /\ x \in Int /\ f \in Nat /\ t \in Int
      /\ Effect(op[p], 1, child[p][1]) = x - f /\ Order(t, x, f)
      /\ \/ 0 <= e /\ e <= Quantity /\ -Quantity <= t /\ t <= 0
         \/ -Quantity <= e /\ e <= 0 /\ 0 <= t /\ t <= Quantity
    BY PrimaryParts, ZenonT(30)
<1>2. CASE Owned(op[p]) = 0
    <2>1. Exposure(p) = e + (x - f)
        BY <1>1, <1>2, ExposureParts, ZenonT(30)
    <2> HIDE DEF e, x, f, t
    <2>2. Order(-e - x, 0, 0) /\ 0 \in Int /\ 0 \in Nat
        BY DEF Order
    <2>3. Abs(e + (x - f) + (0 - 0)) <= Quantity
        BY <1>1, <2>2, <1>Bounded, ZenonT(30)
    <2>4. e + (x - f) + (0 - 0) = e + (x - f)
        BY <1>1, SMTT(30)
    <2> QED BY <2>1, <2>3, <2>4, ZenonT(30)
<1>3. ASSUME NEW k \in {2, 3, 4}, k - 1 = Owned(op[p]) PROVE Abs(Exposure(p)) <= Quantity
    <2> DEFINE y == Executed(child[p][k])
               g == Charged(child[p][k])
    <2>1. /\ y \in Int /\ g \in Nat /\ Effect(op[p], k, child[p][k]) = y - g
          /\ op[p].target = -e - x /\ Order(op[p].target, y, g)
        BY <1>3, RecoveryParts, ZenonT(30)
    <2>2. Exposure(p) = e + (x - f) + (y - g)
        BY <1>1, <1>3, <2>1, ExposureParts, ZenonT(30)
    <2> HIDE DEF e, x, f, t, y, g
    <2>3. Order(-e - x, y, g)
        BY <2>1, Zenon
    <2>4. Abs(e + (x - f) + (y - g)) <= Quantity
        BY <1>1, <2>1, <2>3, <1>Bounded, ZenonT(30)
    <2> QED BY <2>2, <2>4, ZenonT(30)
<1>4. Owned(op[p]) \in 0 .. 3
    BY ExposureParts, ZenonT(30)
<1>5. Owned(op[p]) = 0 \/ \E k \in {2, 3, 4} : k - 1 = Owned(op[p])
    BY <1>4, SMTT(30)
<1> QED BY <1>2, <1>3, <1>5, ZenonT(30)

-----------------------------------------------------------------------------
(* TradeCoordinator implements HedgedTrade.                                *)

\* Every step is a step of HedgedTrade or leaves its trades alone.
LEMMA HedgeSteps ==
    FiltersStay /\ TradeInv /\ [Next]_vars /\ Appends => [Hedged!Next]_Hedged!vars
\* A step that touches one trade, read as a step of HedgedTrade.
<1>HedgeMoves.
    \A p \in Plans :
        /\ \A q \in Plans \ {p} : UNCHANGED <<HedgePhase(q), HedgeSwapped(q), HedgeExposure(q)>>
        /\ \/ UNCHANGED <<HedgePhase(p), HedgeSwapped(p), HedgeExposure(p)>>
           \/ /\ UNCHANGED <<HedgeSwapped(p), HedgeExposure(p)>>
              /\ \/ HedgePhase(p) = "none" /\ HedgePhase(p)' = "open"
                 \/ HedgePhase(p) = "open" /\ HedgePhase(p)' = "closed"
           \/ /\ HedgePhase(p) = "open" /\ HedgePhase(p)' = "open"
              /\ \/ ~HedgeSwapped(p) /\ HedgeSwapped(p)' = TRUE /\ HedgeExposure(p)' \in -Quantity .. Quantity
                 \/ /\ HedgeSwapped(p) /\ HedgeSwapped(p)' = HedgeSwapped(p)
                    /\ HedgeExposure(p)' \in Hedged!Closer(HedgeExposure(p))
        => [Hedged!Next]_Hedged!vars
    <2> TAKE p \in Plans
    <2> HAVE /\ \A q \in Plans \ {p} : UNCHANGED <<HedgePhase(q), HedgeSwapped(q), HedgeExposure(q)>>
             /\ \/ UNCHANGED <<HedgePhase(p), HedgeSwapped(p), HedgeExposure(p)>>
                \/ /\ UNCHANGED <<HedgeSwapped(p), HedgeExposure(p)>>
                   /\ \/ HedgePhase(p) = "none" /\ HedgePhase(p)' = "open"
                      \/ HedgePhase(p) = "open" /\ HedgePhase(p)' = "closed"
                \/ /\ HedgePhase(p) = "open" /\ HedgePhase(p)' = "open"
                   /\ \/ ~HedgeSwapped(p) /\ HedgeSwapped(p)' = TRUE /\ HedgeExposure(p)' \in -Quantity .. Quantity
                      \/ /\ HedgeSwapped(p) /\ HedgeSwapped(p)' = HedgeSwapped(p)
                         /\ HedgeExposure(p)' \in Hedged!Closer(HedgeExposure(p))
    <2> DEFINE ph == [q \in Plans |-> HedgePhase(q)]
               sw == [q \in Plans |-> HedgeSwapped(q)]
               ex == [q \in Plans |-> HedgeExposure(q)]
    <2>1. HedgePhase(p)' = HedgePhase(p) => ph' = ph
        BY Zenon
    <2>2. HedgeSwapped(p)' = HedgeSwapped(p) => sw' = sw
        BY Zenon
    <2>3. HedgeExposure(p)' = HedgeExposure(p) => ex' = ex
        BY Zenon
    <2>4. ph' = [ph EXCEPT ![p] = HedgePhase(p)']
        BY Zenon
    <2>5. sw' = [sw EXCEPT ![p] = HedgeSwapped(p)']
        BY Zenon
    <2>6. ex' = [ex EXCEPT ![p] = HedgeExposure(p)']
        BY Zenon
    <2>7. ph[p] = HedgePhase(p) /\ sw[p] = HedgeSwapped(p) /\ ex[p] = HedgeExposure(p)
        BY Zenon
    <2>8. CASE UNCHANGED <<HedgePhase(p), HedgeSwapped(p), HedgeExposure(p)>>
        BY <2>1, <2>2, <2>3, <2>8, ZenonT(30) DEF Hedged!vars
    <2>9. CASE UNCHANGED <<HedgeSwapped(p), HedgeExposure(p)>> /\ HedgePhase(p) = "none" /\ HedgePhase(p)' = "open"
        <3>1. Hedged!Open(p)
            BY <2>2, <2>3, <2>4, <2>7, <2>9, ZenonT(30) DEF Hedged!Open
        <3> QED BY <3>1, Zenon DEF Hedged!Next
    <2>10. CASE UNCHANGED <<HedgeSwapped(p), HedgeExposure(p)>> /\ HedgePhase(p) = "open" /\ HedgePhase(p)' = "closed"
        <3>1. Hedged!Close(p)
            BY <2>2, <2>3, <2>4, <2>7, <2>10, ZenonT(30) DEF Hedged!Close
        <3> QED BY <3>1, Zenon DEF Hedged!Next
    <2>11. CASE /\ HedgePhase(p) = "open" /\ HedgePhase(p)' = "open" /\ ~HedgeSwapped(p)
                /\ HedgeSwapped(p)' = TRUE /\ HedgeExposure(p)' \in -Quantity .. Quantity
        <3>1. Hedged!Swap(p)
            BY <2>1, <2>5, <2>6, <2>7, <2>11, ZenonT(30) DEF Hedged!Swap
        <3> QED BY <3>1, Zenon DEF Hedged!Next
    <2>12. CASE /\ HedgePhase(p) = "open" /\ HedgePhase(p)' = "open" /\ HedgeSwapped(p)
                /\ HedgeSwapped(p)' = HedgeSwapped(p)
                /\ HedgeExposure(p)' \in Hedged!Closer(HedgeExposure(p))
        <3>1. Hedged!Hedge(p)
            BY <2>1, <2>2, <2>6, <2>7, <2>12, ZenonT(30) DEF Hedged!Hedge
        <3> QED BY <3>1, Zenon DEF Hedged!Next
    <2> QED BY <2>8, <2>9, <2>10, <2>11, <2>12, ZenonT(30)
\* The venues act only in Submit and Decide, and no append is part of either.
<1>ChildMoves.
    [Next]_vars /\ child' # child
    => op' = op /\ (\/ \E i \in 1 .. 2 : Submit(i)
                    \/ \E p \in Plans, k \in Children : Decide(p, k))
    <2> HAVE [Next]_vars /\ child' # child
    <2>1. (\E p \in Plans : Admit(p)) => child' = child
        BY Zenon DEF Admit, venues
    <2>2. TakeCommands => child' = child
        BY Zenon DEF TakeCommands, SelectPrice, MarkUnknown, DispatchEntry, DispatchHedge, StartRecovery,
               RetryRecovery, AwaitBackoff, Finish, FinishRefused, Dispatch, venues
    <2>3. ExecuteLeg => child' = child \/ \E i \in 1 .. 2 : Submit(i)
        BY Zenon DEF ExecuteLeg, StartDex, StartCex, Reply, ExecutorStopped, venues
    <2>4. RecordResult => child' = child
        BY Zenon DEF RecordResult, venues
    <2>5. Reconcile \/ Wait => child' = child
        BY Zenon DEF Reconcile, Wait, ReconcileDex, SkipDex, ReconcileCex, Blocked, StillUnknown, ReconcileUnknown,
               SleepBackoff, WakeUp, MissBackoff, Replay, venues
    <2>6. Resume => child' = child
        BY Zenon DEF Resume, Start, ResumeNext, ResumeCommand, ResumeDrive, Replay, venues
    <2>7. JournalFails \/ Crash => child' = child
        BY Zenon DEF JournalFails, Crash, venues
    <2>8. Environment => child' = child \/ \E p \in Plans, k \in Children : Decide(p, k)
        BY Zenon DEF Environment, Expire, BackoffElapses, venues
    <2>9. UNCHANGED vars => child' = child
        BY Zenon DEF vars, venues
    <2>10. (\E i \in 1 .. 2 : Submit(i)) \/ \E p \in Plans, k \in Children : Decide(p, k)
        BY <2>1, <2>2, <2>3, <2>4, <2>5, <2>6, <2>7, <2>8, <2>9, ZenonT(30) DEF Next, Step
    <2>11. op' = op
        BY <2>10, Zenon DEF Submit, Decide, KeepLegs, journal
    <2> QED BY <2>10, <2>11, Zenon
\* The exposure of a parent whose children did nothing.
<1>SameExposure.
    \A p \in Plans :
        /\ child'[p] = child[p]
        /\ op'[p].dir = op[p].dir \/ \A k \in Children : child[p][k].kind # "done"
        => Exposure(p)' = Exposure(p)
    <2> TAKE p \in Plans
    <2> HAVE /\ child'[p] = child[p]
             /\ op'[p].dir = op[p].dir \/ \A k \in Children : child[p][k].kind # "done"
    <2>1. ASSUME NEW k \in Children PROVE Moved(p, k)' = Moved(p, k)
        BY Zenon DEF Moved, DexDelta
    <2>2. /\ Dex \in Children /\ Cex \in Children /\ Recovery(1) \in Children /\ Recovery(2) \in Children
          /\ Recovery(3) \in Children
        BY ChildrenAre DEF Dex, Cex, Recovery
    <2> QED BY <2>1, <2>2, Zenon DEF Exposure
\* The children of a plan nobody admitted.
<1>NoneSent.
    \A p \in Plans :
        TradeInv /\ op[p].stage = "none"
        => op[p] = NoOp /\ \A k \in Children : child[p][k] = Unsent
    <2> TAKE p \in Plans
    <2> HAVE TradeInv /\ op[p].stage = "none"
    <2>1. op[p] = NoOp
        BY ParentIs, Zenon DEF ParentOK, DexOK
    <2>2. \A k \in Children : ~Dispatched(op[p], k)
        BY <2>1, NoOpOK, Zenon
    <2> QED BY <2>1, <2>2, ParentIs, Zenon DEF LinkOK
\* An append opens the trade, closes it, or leaves it as it is.
<1>AppendHedges.
    TradeInv /\ Appends /\ child' = child
    => [Hedged!Next]_Hedged!vars
    <2> HAVE TradeInv /\ Appends /\ child' = child
    <2>1. CASE op' = op
        <3>1. \A q \in Plans : UNCHANGED <<HedgePhase(q), HedgeSwapped(q), HedgeExposure(q)>>
            BY <2>1, <1>SameExposure, Zenon DEF HedgePhase, HedgeSwapped, HedgeExposure, DexFirst
        <3> DEFINE ph == [q \in Plans |-> HedgePhase(q)]
                   sw == [q \in Plans |-> HedgeSwapped(q)]
                   ex == [q \in Plans |-> HedgeExposure(q)]
        <3>2. ph' = ph /\ sw' = sw /\ ex' = ex
            BY <3>1, Zenon
        <3> QED BY <3>2, Zenon DEF Hedged!vars
    <2>2. ASSUME NEW p \in Plans, \A q \in Plans \ {p} : op'[q] = op[q], Keeps(op[p], op'[p])
          PROVE  [Hedged!Next]_Hedged!vars
        <3>1. \A q \in Plans \ {p} : UNCHANGED <<HedgePhase(q), HedgeSwapped(q), HedgeExposure(q)>>
            BY <2>2, <1>SameExposure, Zenon DEF HedgePhase, HedgeSwapped, HedgeExposure, DexFirst
        <3>2. SnapshotAllowed(op[p], op'[p]) /\ op'[p] \in OpType /\ ParentOK(op'[p])
            BY <2>2, Zenon DEF Keeps
        <3>3. CASE op[p].stage = "none"
            <4>1. op[p] = NoOp /\ \A k \in Children : child[p][k] = Unsent
                BY <3>3, <1>NoneSent, Zenon
            <4>2. \A k \in Children : child[p][k].kind # "done"
                BY <4>1 DEF Unsent, Child
            <4>3. Exposure(p)' = Exposure(p)
                BY <4>2, <1>SameExposure, Zenon
            <4>4. Exposure(p) = 0
                <5>1. \A k \in Children : Moved(p, k) = 0
                    BY <4>2, Zenon DEF Moved
                <5>2. /\ Dex \in Children /\ Cex \in Children /\ Recovery(1) \in Children
                      /\ Recovery(2) \in Children /\ Recovery(3) \in Children
                    BY ChildrenAre DEF Dex, Cex, Recovery
                <5> QED BY <5>1, <5>2, SMTT(30) DEF Exposure
            <4>5. UNCHANGED HedgeExposure(p)
                BY <4>3, <4>4, Zenon DEF HedgeExposure
            <4>6. HedgeSwapped(p)' = HedgeSwapped(p)
                BY <4>2, ChildrenAre, Zenon DEF HedgeSwapped, Dex
            <4>7. HedgePhase(p) = "none" /\ HedgePhase(p)' \in {"none", "open"}
                <5>1. op'[p].stage \in {"none", "prepared"}
                    BY <3>2, <3>3, Zenon DEF SnapshotAllowed, StageTransitionAllowed
                <5> QED BY <3>3, <5>1, Zenon DEF HedgePhase
            <4> QED BY <3>1, <4>5, <4>6, <4>7, <1>HedgeMoves, ZenonT(30)
        <3>4. CASE op[p].stage # "none"
            <4>1. op'[p].mode = op[p].mode /\ op'[p].dir = op[p].dir /\ op[p].stage # "balanced"
                BY <3>2, <3>4, Zenon DEF SnapshotAllowed, Terminal
            <4>2. op'[p].stage # "none"
                BY <3>2, <3>4, Zenon DEF SnapshotAllowed, StageTransitionAllowed
            <4>3. UNCHANGED <<HedgeSwapped(p), HedgeExposure(p)>>
                BY <4>1, <1>SameExposure, Zenon DEF HedgeSwapped, HedgeExposure, DexFirst
            <4>4. HedgePhase(p)' = HedgePhase(p) \/ (HedgePhase(p) = "open" /\ HedgePhase(p)' = "closed")
                BY <3>4, <4>1, <4>2, Zenon DEF HedgePhase, DexFirst
            <4> QED BY <3>1, <4>3, <4>4, <1>HedgeMoves, Zenon
        <3> QED BY <3>3, <3>4, Zenon
    <2> QED BY <2>1, <2>2, Zenon DEF Appends
\* The arithmetic of a hedge: the primary order against the swap, and a
\* recovery against what the two left.
<1>PrimaryCloser.
    \A e, x \in Int, f \in Nat :
        Order(-e, x, f)
        => e + (x - f) \in Hedged!Closer(e)
    <2> TAKE e, x \in Int, f \in Nat
    <2> HAVE Order(-e, x, f)
    <2>1. LotStep \in Nat /\ LotStep > 0
        BY QuantityAssumption, SMTT(30)
    <2> QED BY <2>1, SMTT(30) DEF Order, Hedged!Closer
\* A recovery order brings what two legs left closer to zero, never past it.
<1>RecoveryCloser.
    \A e, t, x \in Int, f \in Nat, y \in Int, g \in Nat :
        /\ \/ 0 <= e /\ t <= 0 /\ -e - x < 0
           \/ e <= 0 /\ 0 <= t /\ -e - x > 0
        /\ Order(t, x, f) /\ Order(-e - x, y, g)
        => e + (x - f) + (y - g) \in Hedged!Closer(e + (x - f))
    <2> TAKE e, t, x \in Int, f \in Nat, y \in Int, g \in Nat
    <2> HAVE /\ \/ 0 <= e /\ t <= 0 /\ -e - x < 0
                \/ e <= 0 /\ 0 <= t /\ -e - x > 0
             /\ Order(t, x, f) /\ Order(-e - x, y, g)
    <2>1. LotStep \in Nat /\ LotStep > 0
        BY QuantityAssumption
    <2>2. \/ 0 <= e + (x - f) /\ 0 <= e + (x - f) + (y - g) /\ e + (x - f) + (y - g) <= e + (x - f)
          \/ e + (x - f) < 0 /\ e + (x - f) + (y - g) <= 0 /\ e + (x - f) <= e + (x - f) + (y - g)
        BY <2>1 DEF Order
    <2> QED BY <2>2, SMTT(30) DEF Hedged!Closer
\* What one child does shows in the exposure as it is.
<1>ExposureGrows.
    \A p \in Plans, k \in Children, w \in ChildType :
        /\ TradeInv /\ op' = op /\ child[p][k].kind # "done" /\ child'[p][k] = w
        /\ VenueOK(op[p], k, w)
        /\ \A j \in Children \ {k} : child'[p][j] = child[p][j]
        => /\ Exposure(p) \in Int /\ Effect(op[p], k, w) \in Int
           /\ Exposure(p)' = Exposure(p) + Effect(op[p], k, w)
    <2> TAKE p \in Plans, k \in Children, w \in ChildType
    <2> HAVE /\ TradeInv /\ op' = op /\ child[p][k].kind # "done" /\ child'[p][k] = w
             /\ VenueOK(op[p], k, w)
             /\ \A j \in Children \ {k} : child'[p][j] = child[p][j]
    <2> DEFINE e(j) == Effect(op[p], j, child[p][j])
               n(j) == Effect(op[p], j, child'[p][j])
    <2>1. Exposure(p) = e(0) + e(1) + e(2) + e(3) + e(4)
        BY ExposureIs, Zenon
    <2>2. \A j \in Children : Moved(p, j)' = n(j)
        BY Zenon DEF Moved, Effect, Done, DexDelta
    <2>3. Exposure(p)' = n(0) + n(1) + n(2) + n(3) + n(4)
        <3>1. Dex = 0 /\ Cex = 1 /\ Recovery(1) = 2 /\ Recovery(2) = 3 /\ Recovery(3) = 4
            BY DEF Dex, Cex, Recovery
        <3>2. Exposure(p)' = Moved(p, 0)' + Moved(p, 1)' + Moved(p, 2)' + Moved(p, 3)' + Moved(p, 4)'
            BY <3>1, Zenon DEF Exposure
        <3> QED BY <2>2, <3>2, ChildrenAre, SMTT(30)
    <2>4. \A j \in Children \ {k} : n(j) = e(j)
        BY Zenon
    <2>5. e(k) = 0 /\ n(k) = Effect(op[p], k, w)
        BY Zenon DEF Effect, Done
    <2>6. ASSUME NEW j \in Children, NEW v \in ChildType, VenueOK(op[p], j, v) PROVE Effect(op[p], j, v) \in Int
        <3>1. op[p] \in OpType
            BY ParentIs, Zenon
        <3>2. CASE j = Dex
            BY <2>6, <3>1, <3>2, SwapEffect, ZenonT(30)
        <3>3. CASE j # Dex
            <4>1. Executed(v) \in Int /\ Charged(v) \in Nat /\ Effect(op[p], j, v) = Executed(v) - Charged(v)
                BY <2>6, <3>1, <3>3, OrderEffect, Zenon
            <4> QED BY <4>1
        <3> QED BY <3>2, <3>3, Zenon
    <2>7. \A j \in Children : e(j) \in Int
        BY <2>6, ParentIs, Zenon DEF LinkOK
    <2>8. Effect(op[p], k, w) \in Int
        BY <2>6, Zenon
    <2> HIDE DEF e, n
    <2>9. Exposure(p) \in Int
        BY <2>1, <2>7, ChildrenAre, SMTT(30)
    <2>10. Exposure(p)' = Exposure(p) + n(k)
        <3>1. CASE k = 0
            BY <2>1, <2>3, <2>4, <2>5, <2>7, <2>8, <3>1, ChildrenAre, SMTT(30)
        <3>2. CASE k = 1
            BY <2>1, <2>3, <2>4, <2>5, <2>7, <2>8, <3>2, ChildrenAre, SMTT(30)
        <3>3. CASE k = 2
            BY <2>1, <2>3, <2>4, <2>5, <2>7, <2>8, <3>3, ChildrenAre, SMTT(30)
        <3>4. CASE k = 3
            BY <2>1, <2>3, <2>4, <2>5, <2>7, <2>8, <3>4, ChildrenAre, SMTT(30)
        <3>5. CASE k = 4
            BY <2>1, <2>3, <2>4, <2>5, <2>7, <2>8, <3>5, ChildrenAre, SMTT(30)
        <3> QED BY <3>1, <3>2, <3>3, <3>4, <3>5, ChildrenAre, ZenonT(30)
    <2> QED BY <2>5, <2>8, <2>9, <2>10, Zenon
\* While a child of a DEX-first parent is live the trade is open, and what
\* its earlier children did is known.
<1>LiveSwap.
    \A p \in Plans :
        TradeInv /\ DexFirst(p) /\ child[p][Dex].kind = "live"
        => \A k \in Children \ {Dex} : child[p][k] = Unsent
    <2> TAKE p \in Plans
    <2> HAVE TradeInv /\ DexFirst(p) /\ child[p][Dex].kind = "live"
    <2> DEFINE o == op[p]
    <2>1. /\ o \in OpType /\ ParentOK(o) /\ o.mode = "dex_first"
          /\ \A k \in Children : LinkOK(o, k, child[p][k], asked[p][k])
        BY ParentIs, Zenon DEF DexFirst
    <2>2. Dex \in Children /\ Dex # Cex
        BY ChildrenAre DEF Dex, Cex
    <2> HIDE DEF o
    <2>3. o.dex.status # "filled"
        BY <2>1, <2>2, Zenon DEF LinkOK, TrueOf, ResultOf
    <2>4. ~o.cex_dispatched /\ o.cex = NoResult
        BY <2>1, <2>3, Zenon DEF ParentOK, CexOK
    <2>5. ~Known(o.cex)
        BY <2>4, SMTT(30) DEF Known, NoResult, Result
    <2>6. Owned(o) = 0
        <3>1. Owned(o) \in Nat
            BY <2>1, OwnedIs, Zenon
        <3>2. ~(Owned(o) > 0)
            BY <2>1, <2>5, Zenon DEF ParentOK, RecoveryOK
        <3> QED BY <3>1, <3>2
    <2>7. ASSUME NEW k \in Children \ {Dex} PROVE ~Dispatched(o, k)
        BY <2>4, <2>6, ChildrenAre, SMTT(30) DEF Dispatched, Dex, Cex
    <2> QED BY <2>1, <2>7, Zenon DEF LinkOK
\* While an order of a DEX-first parent is live, the swap is done and recorded,
\* and no other order of the parent is live.
<1>LiveOrder.
    \A p \in Plans, k \in Children :
        /\ FiltersStay /\ TradeInv /\ DexFirst(p) /\ k # Dex
        /\ child[p][k].kind = "live"
        => /\ child[p][Dex].kind = "done" /\ op[p].dex.status = "filled"
           /\ op[p].dex.delta = Effect(op[p], Dex, child[p][Dex])
           /\ k = Cex => Owned(op[p]) = 0
           /\ k # Cex => k \in {2, 3, 4} /\ k - 1 = Owned(op[p])
    <2> TAKE p \in Plans, k \in Children
    <2> HAVE /\ FiltersStay /\ TradeInv /\ DexFirst(p) /\ k # Dex
             /\ child[p][k].kind = "live"
    <2> DEFINE o == op[p]
               v == child[p][Dex]
    <2>1. Dex \in Children /\ Cex \in Children /\ Dex # Cex
        BY ChildrenAre, Zenon DEF Dex, Cex
    <2>2. /\ o \in OpType /\ ParentOK(o) /\ o.mode = "dex_first"
          /\ \A j \in Children : child[p][j] \in ChildType /\ LinkOK(o, j, child[p][j], asked[p][j])
        BY ParentIs, ZenonT(30) DEF DexFirst
    <2> HIDE DEF o, v
    <2>3. Dispatched(o, k)
        BY <2>2 DEF LinkOK, Unsent, Child
    <2>4. k = Cex => Owned(o) = 0
        <3> SUFFICES ASSUME k = Cex, Owned(o) # 0 PROVE FALSE
            BY Zenon
        <3>1. Owned(o) > 0
            BY <2>2, OwnedIs, SMTT(30)
        <3>2. Known(o.cex)
            BY <2>2, <3>1, Zenon DEF ParentOK, RecoveryOK
        <3>3. ResultOf(o, Cex) = o.cex
            BY <2>1, Zenon DEF ResultOf
        <3>4. TrueOf(o, Cex, o.cex, child[p][Cex])
            BY <2>1, <2>2, <3>3, Zenon DEF LinkOK
        <3>5. Proves(o.cex)
            BY <2>1, <3>2, <3>4, OnlySwapExpires, ZenonT(30)
        <3>6. o.cex \in ResultType
            BY <2>2, Zenon DEF OpType
        <3> QED BY <2>1, <2>2, <3>4, <3>5, <3>6, KnownEffect, ZenonT(30)
    <2>5. k # Cex => k \in {2, 3, 4} /\ k - 1 = Owned(o)
        <3> SUFFICES ASSUME k # Cex PROVE k \in {2, 3, 4} /\ k - 1 = Owned(o)
            BY Zenon
        <3>1. k \in {2, 3, 4}
            BY ChildrenAre, Zenon DEF Dex, Cex
        <3> QED BY <2>2, <3>1, OneRecoveryMoves, Zenon
    <2>6. o.cex_dispatched
        <3>1. CASE k = Cex
            BY <2>1, <2>3, <3>1, Zenon DEF Dispatched
        <3>2. CASE k # Cex
            <4>1. Owned(o) > 0
                BY <2>5, <3>2, SMTT(30)
            <4>2. Known(o.cex)
                BY <2>2, <4>1, Zenon DEF ParentOK, RecoveryOK
            <4>3. o.cex # NoResult
                BY <4>2 DEF Known, NoResult, Result
            <4> QED BY <2>2, <4>3, ZenonT(30) DEF ParentOK, CexOK
        <3> QED BY <3>1, <3>2, Zenon
    <2>7. o.dex.status = "filled"
        BY <2>2, <2>6, Zenon DEF ParentOK, CexOK
    <2>8. TrueOf(o, Dex, o.dex, v)
        BY <2>1, <2>2, Zenon DEF LinkOK, ResultOf, v
    <2>9. v.kind = "done" /\ o.dex.delta = DexDelta(o, v.fill)
        BY <2>7, <2>8, Zenon DEF TrueOf
    <2>10. Effect(o, Dex, v) = DexDelta(o, v.fill)
        BY <2>9, Zenon DEF Effect, Done
    <2> QED BY <2>4, <2>5, <2>7, <2>9, <2>10, ZenonT(30) DEF o, v
\* A parent with a live child is open.
<1>LiveIsOpen.
    \A p \in Plans, k \in Children :
        FiltersStay /\ TradeInv /\ DexFirst(p) /\ child[p][k].kind = "live"
        => HedgePhase(p) = "open"
    <2> TAKE p \in Plans, k \in Children
    <2> HAVE FiltersStay /\ TradeInv /\ DexFirst(p) /\ child[p][k].kind = "live"
    <2>1. op[p].stage # "none"
        BY <1>NoneSent DEF Unsent, Child
    <2>2. op[p].stage # "balanced"
        BY SettledParents, Zenon DEF SettledMatchesVenues, Terminal
    <2> QED BY <2>1, <2>2, Zenon DEF HedgePhase
\* A venue that ends an order swaps or hedges.
<1>DecideHedges.
    \A p \in Plans, k \in Children :
        FiltersStay /\ TradeInv /\ Decide(p, k)
        => [Hedged!Next]_Hedged!vars
    <2> TAKE p \in Plans, k \in Children
    <2> HAVE FiltersStay /\ TradeInv /\ Decide(p, k)
    <2>1. child[p][k].kind = "live" /\ op' = op
        BY Zenon DEF Decide, journal
    <2>2. PICK w \in {Void} \cup {f \in Fills(p, k) : f.fill = 0 => f.fee = 0} : SetChild(p, k, w)
        BY Zenon DEF Decide
    <2>3. JournalOK
        BY Zenon DEF TradeInv
    <2>4. w \in ChildType /\ VenueOK(op[p], k, w)
        BY <2>1, <2>2, <2>3, FillsOK, ZenonT(30)
    <2>5. child \in [Plans -> [Children -> ChildType]]
        BY Zenon DEF TradeInv, JournalOK, JournalType
    <2>6. /\ child'[p][k] = w
          /\ \A j \in Children \ {k} : child'[p][j] = child[p][j]
          /\ \A q \in Plans \ {p} : child'[q] = child[q]
        BY <2>2, <2>5, Zenon DEF SetChild
    <2>7. \A q \in Plans \ {p} : UNCHANGED <<HedgePhase(q), HedgeSwapped(q), HedgeExposure(q)>>
        BY <2>1, <2>6, <1>SameExposure, ZenonT(30) DEF HedgePhase, HedgeSwapped, HedgeExposure, DexFirst
    <2>8. HedgePhase(p)' = HedgePhase(p) /\ DexFirst(p)' = DexFirst(p)
        BY <2>1, Zenon DEF HedgePhase, DexFirst
    <2>9. CASE ~DexFirst(p)
        <3>1. UNCHANGED <<HedgePhase(p), HedgeSwapped(p), HedgeExposure(p)>>
            BY <2>8, <2>9, Zenon DEF HedgeSwapped, HedgeExposure
        <3> QED BY <2>7, <3>1, <1>HedgeMoves, Zenon
    <2>10. CASE DexFirst(p)
        <3> DEFINE o == op[p]
        <3>1. HedgePhase(p) = "open" /\ HedgePhase(p)' = "open"
            BY <2>1, <2>8, <2>10, <1>LiveIsOpen, ZenonT(30)
        <3>2. HedgeExposure(p) = Exposure(p) /\ HedgeExposure(p)' = Exposure(p)'
            BY <2>8, <2>10, Zenon DEF HedgeExposure
        <3>3. /\ Exposure(p) \in Int /\ Effect(o, k, w) \in Int
              /\ Exposure(p)' = Exposure(p) + Effect(o, k, w)
            BY <2>1, <2>4, <2>6, <1>ExposureGrows, Zenon
        <3>4. o \in OpType
            BY ParentIs, Zenon
        <3> HIDE DEF o
        <3>5. CASE k = Dex
            <4>1. ~HedgeSwapped(p) /\ (HedgeSwapped(p)' <=> w.kind = "done")
                BY <2>1, <2>6, <2>8, <2>10, <3>5, ZenonT(30) DEF HedgeSwapped
            <4>2. Exposure(p) = 0
                <5>1. \A j \in Children : child[p][j].kind # "done"
                    <6>1. child[p][Dex].kind = "live" /\ \A j \in Children \ {Dex} : child[p][j] = Unsent
                        BY <2>1, <2>10, <3>5, <1>LiveSwap, ZenonT(30)
                    <6>2. Unsent.kind = "none"
                        BY DEF Unsent, Child
                    <6> QED BY <6>1, <6>2, Zenon
                <5>2. \A j \in Children : Moved(p, j) = 0
                    BY <5>1, Zenon DEF Moved
                <5>3. /\ Dex \in Children /\ Cex \in Children /\ Recovery(1) \in Children
                      /\ Recovery(2) \in Children /\ Recovery(3) \in Children
                    BY ChildrenAre, SMTT(30) DEF Dex, Cex, Recovery
                <5> QED BY <5>2, <5>3, SMTT(30) DEF Exposure
            <4>3. Exposure(p)' = Effect(o, Dex, w)
                BY <3>3, <3>5, <4>2, SMTT(30)
            <4>4. CASE w.kind = "done"
                <5>1. VenueOK(o, Dex, w)
                    BY <2>4, <3>5, Zenon DEF o
                <5>2. Effect(o, Dex, w) \in -Quantity .. Quantity
                    <6>1. o.dir \in {-1, 1} /\ Quantity \in Nat
                        BY <3>4, QuantityAssumption, Zenon DEF OpType
                    <6>2. /\ Effect(o, Dex, w) \in Int
                          /\ o.dir = 1 => 0 <= Effect(o, Dex, w) /\ Effect(o, Dex, w) <= Quantity
                          /\ o.dir = -1 => -Quantity <= Effect(o, Dex, w) /\ Effect(o, Dex, w) <= 0
                        BY <2>4, <3>4, <5>1, SwapEffect, ZenonT(30)
                    <6> QED BY <6>1, <6>2
                <5>3. HedgeSwapped(p)' = TRUE /\ HedgeExposure(p)' \in -Quantity .. Quantity
                    BY <3>2, <4>1, <4>3, <4>4, <5>2, ZenonT(30) DEF HedgeSwapped
                <5> QED BY <2>7, <3>1, <4>1, <5>3, <1>HedgeMoves, ZenonT(30)
            <4>5. CASE w.kind # "done"
                <5>1. Effect(o, Dex, w) = 0
                    BY <4>5, Zenon DEF Effect, Done
                <5>2. HedgeSwapped(p)' = HedgeSwapped(p)
                    BY <4>1, <4>5, Zenon DEF HedgeSwapped
                <5>3. UNCHANGED <<HedgePhase(p), HedgeSwapped(p), HedgeExposure(p)>>
                    BY <2>8, <3>2, <4>2, <4>3, <5>1, <5>2, ZenonT(30)
                <5> QED BY <2>7, <5>3, <1>HedgeMoves, Zenon
            <4> QED BY <4>4, <4>5, Zenon
        <3>6. CASE k # Dex
            <4> DEFINE e == Effect(o, 0, child[p][0])
                       y == Executed(w)
                       g == Charged(w)
            <4>1. /\ child[p][Dex].kind = "done" /\ o.dex.status = "filled"
                  /\ o.dex.delta = Effect(o, Dex, child[p][Dex])
                  /\ k = Cex => Owned(o) = 0
                  /\ k # Cex => k \in {2, 3, 4} /\ k - 1 = Owned(o)
                BY <2>1, <2>10, <3>6, <1>LiveOrder, ZenonT(30) DEF o
            <4>2. HedgeSwapped(p) /\ HedgeSwapped(p)' = HedgeSwapped(p)
                BY <2>6, <2>8, <2>10, <3>6, <4>1, ChildrenAre, ZenonT(30) DEF HedgeSwapped, Dex
            <4>3. /\ y \in Int /\ g \in Nat /\ Effect(o, k, w) = y - g
                  /\ Order(Target(o, k), y, g)
                <5>1. VenueOK(o, k, w)
                    BY <2>4, Zenon DEF o
                <5> QED BY <2>4, <3>4, <3>6, <5>1, OrderEffect, ZenonT(30)
            <4>4. Executed(child[p][k]) = 0 /\ Effect(o, k, child[p][k]) = 0
                BY <2>1, Zenon DEF Executed, Effect, Done
            <4>5. Exposure(p)' \in Hedged!Closer(Exposure(p))
                <5>1. CASE k = Cex
                    <6>1. Exposure(p) = e + Effect(o, 1, child[p][1])
                        BY <4>1, <5>1, ExposureParts, Zenon DEF o
                    <6>2. Exposure(p) = e + 0
                        BY <4>4, <5>1, <6>1, Zenon DEF Cex
                    <6>3. e \in Int
                        BY PrimaryParts, Zenon DEF o
                    <6>4. Target(o, k) = -e
                        <7>1. o.mode = "dex_first"
                            BY <2>10, Zenon DEF DexFirst, o
                        <7> QED BY <3>6, <4>1, <5>1, <7>1, Zenon DEF Target, CexTarget, Dex
                    <6> HIDE DEF e, y, g
                    <6>5. Exposure(p) = e
                        BY <6>2, <6>3
                    <6>6. e + (y - g) \in Hedged!Closer(e)
                        BY <4>3, <6>3, <6>4, <1>PrimaryCloser, ZenonT(30)
                    <6> QED BY <3>3, <4>3, <6>5, <6>6, ZenonT(30)
                <5>2. CASE k # Cex
                    <6> DEFINE x == Executed(child[p][1])
                               f == Charged(child[p][1])
                               t == Target(o, Cex)
                    <6>1. /\ e \in Int /\ x \in Int /\ f \in Nat /\ t \in Int
                          /\ Effect(o, 1, child[p][1]) = x - f /\ Order(t, x, f)
                          /\ \/ o.dir = 1 /\ 0 <= e /\ t <= 0
                             \/ o.dir = -1 /\ e <= 0 /\ 0 <= t
                        BY PrimaryParts, Zenon DEF o
                    <6>2. k \in {2, 3, 4} /\ k - 1 = Owned(op[p]) /\ op[p].dex.status # "failed"
                        BY <4>1, <5>2, Zenon DEF o
                    <6>3. o.target = -e - x
                        BY <6>2, RecoveryParts, Zenon DEF o
                    <6>4. Exposure(p) = e + (x - f) + 0
                        BY <4>4, <6>1, <6>2, ExposureParts, ZenonT(30) DEF o
                    <6>5. Target(o, k) = o.target
                        BY <3>6, <5>2, Zenon DEF Target
                    <6>6. Sign(o.target) = -o.dir
                        <7>1. ParentOK(o) /\ o.mode = "dex_first" /\ Owned(o) > 0
                            BY <2>10, <6>2, ParentIs, SMTT(30) DEF DexFirst, o
                        <7> QED BY <7>1, ZenonT(30) DEF ParentOK, RecoveryOK
                    <6> HIDE DEF e, y, g, x, f, t
                    <6>7. \/ 0 <= e /\ t <= 0 /\ -e - x < 0
                          \/ e <= 0 /\ 0 <= t /\ -e - x > 0
                        BY <6>1, <6>3, <6>6, SMTT(30) DEF Sign
                    <6>8. Order(-e - x, y, g)
                        BY <4>3, <6>3, <6>5, ZenonT(30)
                    <6>9. e + (x - f) + (y - g) \in Hedged!Closer(e + (x - f))
                        BY <4>3, <6>1, <6>7, <6>8, <1>RecoveryCloser, ZenonT(30)
                    <6>10. Exposure(p) = e + (x - f)
                        BY <6>1, <6>4, SMTT(30)
                    <6> QED BY <3>3, <4>3, <6>9, <6>10, ZenonT(30)
                <5> QED BY <5>1, <5>2, Zenon
            <4>6. HedgeExposure(p)' \in Hedged!Closer(HedgeExposure(p))
                BY <3>2, <4>5, Zenon
            <4> QED BY <2>7, <3>1, <4>2, <4>6, <1>HedgeMoves, ZenonT(30)
        <3> QED BY <3>5, <3>6, Zenon
    <2> QED BY <2>9, <2>10, Zenon
\* An order that is sent moves nothing yet.
<1>SubmitHedges.
    \A i \in 1 .. 2 :
        TradeInv /\ Submit(i)
        => [Hedged!Next]_Hedged!vars
    <2> TAKE i \in 1 .. 2
    <2> HAVE TradeInv /\ Submit(i)
    <2>1. op' = op /\ Venue(i) = Unsent /\ child' = [child EXCEPT ![plan][calls[i].child] = Live(Sign(calls[i].target))]
        BY Zenon DEF Submit, SetChild, KeepLegs, journal
    <2>2. child \in [Plans -> [Children -> ChildType]]
        BY Zenon DEF TradeInv, JournalOK, JournalType
    <2>3. ASSUME NEW q \in Plans, NEW k \in Children
          PROVE  \/ child'[q][k] = child[q][k]
                 \/ child'[q][k].kind # "done" /\ child[q][k].kind # "done"
        <3>1. CASE q = plan /\ k = calls[i].child
            <4>1. child'[q][k] = Live(Sign(calls[i].target)) /\ child[q][k] = Unsent
                BY <2>1, <2>2, <3>1, Zenon DEF Venue
            <4> QED BY <4>1 DEF Unsent, Live, Child
        <3>2. CASE q # plan \/ k # calls[i].child
            BY <2>1, <2>2, <3>2, ZenonT(30)
        <3> QED BY <3>1, <3>2, Zenon
    <2>4. ASSUME NEW q \in Plans, NEW k \in Children PROVE Moved(q, k)' = Moved(q, k)
        BY <2>1, <2>3, SMTT(30) DEF Moved, DexDelta
    <2>5. ASSUME NEW q \in Plans PROVE UNCHANGED <<HedgePhase(q), HedgeSwapped(q), HedgeExposure(q)>>
        <3>1. /\ Dex \in Children /\ Cex \in Children /\ Recovery(1) \in Children
              /\ Recovery(2) \in Children /\ Recovery(3) \in Children
            BY ChildrenAre DEF Dex, Cex, Recovery
        <3>2. Exposure(q)' = Exposure(q)
            BY <2>4, <3>1, Zenon DEF Exposure
        <3>3. DexFirst(q)' = DexFirst(q) /\ HedgePhase(q)' = HedgePhase(q)
            BY <2>1, Zenon DEF DexFirst, HedgePhase
        <3>4. (child'[q][Dex].kind = "done") = (child[q][Dex].kind = "done")
            BY <2>3, <3>1, Zenon
        <3> QED BY <3>2, <3>3, <3>4, ZenonT(30) DEF HedgeExposure, HedgeSwapped
    <2> DEFINE ph == [q \in Plans |-> HedgePhase(q)]
               sw == [q \in Plans |-> HedgeSwapped(q)]
               ex == [q \in Plans |-> HedgeExposure(q)]
    <2>6. ph' = ph /\ sw' = sw /\ ex' = ex
        BY <2>5, Zenon
    <2> QED BY <2>6, Zenon DEF Hedged!vars
<1> SUFFICES ASSUME FiltersStay, TradeInv, [Next]_vars, Appends PROVE [Hedged!Next]_Hedged!vars
    BY Zenon
<1>1. CASE child' = child
    BY <1>1, <1>AppendHedges, ZenonT(30)
<1>2. CASE child' # child
    BY <1>2, <1>ChildMoves, <1>SubmitHedges, <1>DecideHedges, ZenonT(30)
<1> QED BY <1>1, <1>2, Zenon

\* No trade is open at first.
LEMMA InitHedges == Init => Hedged!Init
<1> SUFFICES ASSUME Init PROVE Hedged!Init
    BY Zenon
<1>1. \A p \in Plans : op[p] = NoOp /\ \A k \in Children : child[p][k] = Unsent
    BY ZenonT(30) DEF Init
<1>2. ASSUME NEW p \in Plans
      PROVE  HedgePhase(p) = "none" /\ HedgeSwapped(p) = FALSE /\ HedgeExposure(p) = 0
    <2>1. /\ Dex \in Children /\ Cex \in Children /\ Recovery(1) \in Children
          /\ Recovery(2) \in Children /\ Recovery(3) \in Children
        BY ChildrenAre, SMTT(30) DEF Dex, Cex, Recovery
    <2>2. \A k \in Children : Moved(p, k) = 0 /\ child[p][k].kind # "done"
        BY <1>1, SMTT(30) DEF Moved, Unsent, Child
    <2>3. Exposure(p) = 0
        BY <2>1, <2>2, SMTT(30) DEF Exposure
    <2> QED BY <1>1, <2>1, <2>2, <2>3, SMTT(30) DEF HedgePhase, HedgeSwapped, HedgeExposure, NoOp
<1> QED BY <1>2, ZenonT(30) DEF Hedged!Init

-----------------------------------------------------------------------------
(* Every snapshot the task appends.                                        *)

\* One more recovery result: the earlier ones stay where they were.
LEMMA Grown ==
    \A s \in Seq(ResultType), r \in ResultType :
        /\ Append(s, r) \in Seq(ResultType)
        /\ Len(s) \in Nat /\ Len(Append(s, r)) = Len(s) + 1
        /\ \A i \in 1 .. Len(s) : Append(s, r)[i] = s[i]
        /\ Append(s, r)[Len(s) + 1] = r
        /\ IsPrefix(s, Append(s, r))
<1> TAKE s \in Seq(ResultType), r \in ResultType
<1>1. /\ Append(s, r) \in Seq(ResultType) /\ Len(s) \in Nat
      /\ Len(Append(s, r)) = Len(s) + 1
      /\ \A i \in 1 .. Len(s) : Append(s, r)[i] = s[i]
      /\ Append(s, r)[Len(s) + 1] = r
    OBVIOUS
<1>2. SubSeq(s, 1, Len(s)) = s /\ SubSeq(Append(s, r), 1, Len(s)) = s
    OBVIOUS
<1> QED BY <1>1, <1>2 DEF IsPrefix

\* The journal accepts a snapshot in which only a leg's result is new.
LEMMA Unchanged ==
    \A s \in Seq(ResultType) :
        AppendOnlyOrReconciled(s, s)
BY DEF AppendOnlyOrReconciled, IsPrefix

\* A parent as admit journals it.
LEMMA AdmitKeeps ==
    \A mode \in Modes, dir \in Directions :
    \A n :
        n = [NoOp EXCEPT !.stage = "prepared", !.mode = mode, !.dir = dir]
        => /\ Keeps(NoOp, n) /\ n.stage = "prepared"
           /\ \A k \in Children : ~Dispatched(n, k) /\ ResultOf(n, k) = NoResult
<1> TAKE mode \in Modes, dir \in Directions
<1> TAKE n
<1> HAVE n = [NoOp EXCEPT !.stage = "prepared", !.mode = mode, !.dir = dir]
<1>1. mode \in {"dex_first", "concurrent"} /\ dir \in {-1, 1}
    BY InputsAssumption, Zenon
<1>2. n \in OpType
    BY <1>1, NoOpOK, Zenon DEF OpType, Stages
<1>3. <<>> \in Seq(ResultType) /\ Len(<<>>) = 0
    OBVIOUS
<1>4. /\ n.stage = "prepared" /\ ~n.dex_dispatched /\ ~n.cex_dispatched /\ n.price = 0
      /\ n.dex = NoResult /\ n.cex = NoResult /\ n.recovery = <<>> /\ ~n.inflight
      /\ n.target = 0 /\ n.mode = mode
    BY Zenon DEF NoOp
<1>5. Owned(n) = 0
    BY <1>3, <1>4 DEF Owned
<1>6. DexOK(n) /\ CexOK(n) /\ StageOK(n)
    <2>1. DexOK(n)
        BY <1>4, Zenon DEF DexOK
    <2>2. CexOK(n)
        BY <1>1, <1>4, Zenon DEF CexOK
    <2>3. StageOK(n)
        BY <1>4, ZenonT(30) DEF StageOK
    <2> QED BY <2>1, <2>2, <2>3, Zenon
<1>7. RecoveryOK(n)
    BY <1>3, <1>4, <1>5 DEF RecoveryOK, MaxRecoveryAttempts
<1>8. \A k \in Children : ~Dispatched(n, k)
    BY <1>4, <1>5, ChildrenAre DEF Dispatched, Dex, Cex
<1>9. \A k \in Children : ResultOf(n, k) = NoResult
    BY <1>4 DEF ResultOf
<1>10. SnapshotAllowed(NoOp, n)
    <2>1. AppendOnlyOrReconciled(NoOp.recovery, n.recovery)
        BY <1>3, <1>4, Unchanged, Zenon DEF NoOp
    <2> QED BY <1>3, <1>4, <2>1 DEF SnapshotAllowed, NoOp, Terminal, StageTransitionAllowed,
                       UnchangedOrReconciled, MaxRecoveryAttempts
<1> QED BY <1>2, <1>4, <1>6, <1>7, <1>8, <1>9, <1>10, NoOpOK, ZenonT(30) DEF Keeps, ParentOK

\* An append that records no result.
LEMMA SameLegs ==
    \A o, n \in OpType :
        n.dir = o.dir /\ n.dex = o.dex /\ n.cex = o.cex /\ n.recovery = o.recovery
        => /\ SameResults(o, n) /\ (HasUnknownLeg(n) <=> HasUnknownLeg(o))
           /\ Residual(n) = Residual(o) /\ RetryPending(n) = RetryPending(o)
           /\ AppendOnlyOrReconciled(o.recovery, n.recovery)
           /\ UnchangedOrReconciled(o.dex, n.dex) /\ UnchangedOrReconciled(o.cex, n.cex)
<1> TAKE o, n \in OpType
<1> HAVE n.dir = o.dir /\ n.dex = o.dex /\ n.cex = o.cex /\ n.recovery = o.recovery
<1>1. SameResults(o, n)
    BY Zenon DEF SameResults, ResultOf
<1>2. HasUnknownLeg(n) <=> HasUnknownLeg(o)
    BY UnknownLeg, Zenon
<1>3. Residual(n) = Residual(o) /\ RetryPending(n) = RetryPending(o)
    BY Zenon DEF Residual, RecoveryDelta, RetryPending
<1>4. o.recovery \in Seq(ResultType)
    BY Zenon DEF OpType
<1>5. AppendOnlyOrReconciled(o.recovery, n.recovery)
    BY <1>4, Unchanged, Zenon
<1> QED BY <1>1, <1>2, <1>3, <1>5, ZenonT(30) DEF UnchangedOrReconciled

\* The commands a parent owns, one by one.
LEMMA CommandsStay ==
    \A o, n \in OpType :
        /\ n.dir = o.dir /\ n.mode = o.mode
        /\ o.dex_dispatched => n.dex_dispatched
        /\ o.cex_dispatched => /\ n.cex_dispatched /\ n.price = o.price
                               /\ o.mode = "dex_first" => n.dex.delta = o.dex.delta
        /\ Owned(o) <= Owned(n)
        /\ Owned(o) > 0 => n.target = o.target
        => (\A k \in Children : Dispatched(o, k) => Dispatched(n, k) /\ Command(n, k) = Command(o, k))
<1> TAKE o, n \in OpType
<1> HAVE /\ n.dir = o.dir /\ n.mode = o.mode
         /\ o.dex_dispatched => n.dex_dispatched
         /\ o.cex_dispatched => /\ n.cex_dispatched /\ n.price = o.price
                                /\ o.mode = "dex_first" => n.dex.delta = o.dex.delta
         /\ Owned(o) <= Owned(n)
         /\ Owned(o) > 0 => n.target = o.target
<1> SUFFICES ASSUME NEW k \in Children, Dispatched(o, k)
             PROVE  Dispatched(n, k) /\ Command(n, k) = Command(o, k)
    BY Zenon
<1>1. CASE k = Dex
    BY <1>1 DEF Dispatched, Command, Target, LimitPrice, Dex, Cex
<1>2. CASE k = Cex
    <2>1. CexTarget(n) = CexTarget(o)
        BY <1>2 DEF Dispatched, CexTarget, Dex, Cex
    <2> QED BY <1>2, <2>1, SMTT(30) DEF Dispatched, Command, Target, LimitPrice, Dex, Cex
<1>3. CASE k # Dex /\ k # Cex
    <2>1. k \in 2 .. 4 /\ Owned(o) \in Nat /\ Owned(n) \in Nat
        BY <1>3, ChildrenAre, OwnedIs, SMTT(30) DEF Dex, Cex
    <2>2. k - 1 <= Owned(o)
        BY <1>3, Zenon DEF Dispatched
    <2>3. Dispatched(n, k) /\ n.target = o.target
        BY <1>3, <2>1, <2>2, SMTT(30) DEF Dispatched
    <2> QED BY <1>3, <2>3, Zenon DEF Command, Target, LimitPrice
<1> QED BY <1>1, <1>2, <1>3, Zenon

\* What apply_snapshot asks of a parent that keeps its identity.
LEMMA Accepted ==
    \A o, n \in OpType :
        /\ n.dir = o.dir /\ n.mode = o.mode /\ Open(o)
        /\ StageTransitionAllowed(o.stage, n.stage)
        /\ o.dex_dispatched => n.dex_dispatched
        /\ o.cex_dispatched => n.cex_dispatched
        /\ o.price = 0 \/ o.price = n.price
        /\ o.target = 0 \/ o.target = n.target
        /\ UnchangedOrReconciled(o.dex, n.dex) /\ UnchangedOrReconciled(o.cex, n.cex)
        /\ AppendOnlyOrReconciled(o.recovery, n.recovery) /\ RecoveryOK(n)
        => SnapshotAllowed(o, n)
<1> TAKE o, n \in OpType
<1> HAVE /\ n.dir = o.dir /\ n.mode = o.mode /\ Open(o)
         /\ StageTransitionAllowed(o.stage, n.stage)
         /\ o.dex_dispatched => n.dex_dispatched
         /\ o.cex_dispatched => n.cex_dispatched
         /\ o.price = 0 \/ o.price = n.price
         /\ o.target = 0 \/ o.target = n.target
         /\ UnchangedOrReconciled(o.dex, n.dex) /\ UnchangedOrReconciled(o.cex, n.cex)
         /\ AppendOnlyOrReconciled(o.recovery, n.recovery) /\ RecoveryOK(n)
<1>1. Len(n.recovery) <= MaxRecoveryAttempts
    BY OwnedIs, SMTT(30) DEF RecoveryOK, MaxRecoveryAttempts, OpType
<1>2. ~Terminal(o)
    BY Zenon DEF Terminal, Open
<1>3. <<o.mode, o.dir>> = <<n.mode, n.dir>>
    BY Zenon
<1> QED BY <1>1, <1>2, <1>3, Zenon DEF SnapshotAllowed

\* The limit price of the primary order, once the swap has filled.
LEMMA PriceKeeps ==
    \A o \in OpType, price \in Prices :
    \A n :
        /\ ParentOK(o) /\ Open(o) /\ o.mode = "dex_first" /\ ~o.cex_dispatched
        /\ o.price = 0 /\ o.dex.status = "filled" /\ o.dex.delta # 0
        /\ n = [o EXCEPT !.price = price]
        => Keeps(o, n) /\ SameResults(o, n) /\ Open(n)
<1> TAKE o \in OpType, price \in Prices
<1> TAKE n
<1> HAVE /\ ParentOK(o) /\ Open(o) /\ o.mode = "dex_first" /\ ~o.cex_dispatched
         /\ o.price = 0 /\ o.dex.status = "filled" /\ o.dex.delta # 0
         /\ n = [o EXCEPT !.price = price]
<1>1. price \in Nat /\ price # 0
    BY InputsAssumption, Zenon
<1>2. n \in OpType
    BY <1>1, Zenon DEF OpType
<1>3. /\ n.stage = o.stage /\ n.mode = o.mode /\ n.dir = o.dir
      /\ n.dex_dispatched = o.dex_dispatched /\ n.cex_dispatched = o.cex_dispatched
      /\ n.price = price /\ n.dex = o.dex /\ n.cex = o.cex /\ n.recovery = o.recovery
      /\ n.inflight = o.inflight /\ n.target = o.target /\ n.residual = o.residual
    BY Zenon DEF OpType
<1>4. Owned(n) = Owned(o)
    BY <1>3, Zenon DEF Owned
<1>5. o.dex_dispatched
    BY DEF ParentOK, DexOK, NoResult, Result
<1>6. DexOK(n)
    BY <1>3, <1>5, Zenon DEF ParentOK, DexOK, Open
<1>7. CexOK(n)
    BY <1>3, Zenon DEF ParentOK, CexOK
<1>8. RecoveryOK(n)
    BY <1>3, <1>4, Zenon DEF ParentOK, RecoveryOK
<1>9. StageOK(n)
    BY <1>2, <1>3, SameLegs, Zenon DEF ParentOK, StageOK, Open
<1>10. SnapshotAllowed(o, n)
    <2>1. StageTransitionAllowed(o.stage, n.stage)
        BY <1>3, Zenon DEF StageTransitionAllowed
    <2> QED BY <1>2, <1>3, <1>8, <2>1, SameLegs, Accepted, Zenon
<1>11. \A k \in Children : Dispatched(o, k) => Dispatched(n, k) /\ Command(n, k) = Command(o, k)
    <2>1. Owned(o) <= Owned(n)
        BY <1>4, OwnedIs
    <2>2. o.dex_dispatched => n.dex_dispatched
        BY <1>3, Zenon
    <2> QED BY <1>2, <1>3, <2>1, <2>2, CommandsStay, Zenon
<1> QED BY <1>2, <1>3, <1>6, <1>7, <1>8, <1>9, <1>10, <1>11, SameLegs, Zenon DEF Keeps, ParentOK, Open

\* An unknown leg makes the exposure unknown.
LEMMA MarkKeeps ==
    \A o \in OpType :
    \A n :
        /\ ParentOK(o) /\ Open(o) /\ HasUnknownLeg(o)
        /\ n = [o EXCEPT !.stage = "unknown_exposure"]
        => Keeps(o, n) /\ SameResults(o, n) /\ Open(n)
<1> TAKE o \in OpType
<1> TAKE n
<1> HAVE /\ ParentOK(o) /\ Open(o) /\ HasUnknownLeg(o)
         /\ n = [o EXCEPT !.stage = "unknown_exposure"]
<1>1. o.dex_dispatched
    <2>1. SUFFICES ASSUME ~o.dex_dispatched PROVE FALSE
        BY Zenon DEF OpType
    <2>2. o.dex = NoResult /\ o.cex = NoResult
        BY <2>1, Zenon DEF ParentOK, DexOK, CexOK
    <2>3. ~Known(o.dex)
        BY <2>2 DEF Known, NoResult, Result
    <2>4. Len(o.recovery) = 0
        BY <2>3, OwnedIs DEF ParentOK, RecoveryOK
    <2> QED BY <2>2, <2>4, UnknownLeg DEF NoResult, Result
<1>2. o.stage # "halted"
    <2>1. SUFFICES ASSUME o.stage = "halted" PROVE FALSE
        BY Zenon
    <2>2. Known(o.dex) /\ Known(o.cex) /\ Len(o.recovery) = 0
        BY <2>1, OwnedIs, Zenon DEF ParentOK, StageOK
    <2> QED BY <2>2, UnknownLeg DEF Known
<1>3. n \in OpType
    BY Zenon DEF OpType, Stages
<1>4. /\ n.mode = o.mode /\ n.dir = o.dir /\ n.dex_dispatched = o.dex_dispatched
      /\ n.cex_dispatched = o.cex_dispatched /\ n.price = o.price /\ n.dex = o.dex
      /\ n.cex = o.cex /\ n.recovery = o.recovery /\ n.inflight = o.inflight
      /\ n.target = o.target /\ n.residual = o.residual /\ n.stage = "unknown_exposure"
    BY Zenon DEF OpType
<1>5. Owned(n) = Owned(o)
    BY <1>4, Zenon DEF Owned
<1>6. DexOK(n)
    BY <1>1, <1>2, <1>4, Zenon DEF ParentOK, DexOK
<1>7. CexOK(n)
    BY <1>4, ZenonT(30) DEF ParentOK, CexOK
<1>8. RecoveryOK(n)
    BY <1>4, <1>5, Zenon DEF ParentOK, RecoveryOK
<1>9. StageOK(n)
    BY <1>3, <1>4, SameLegs, Zenon DEF StageOK
<1>10. SnapshotAllowed(o, n)
    <2>1. StageTransitionAllowed(o.stage, n.stage)
        BY <1>1, <1>2, <1>4, Zenon DEF StageTransitionAllowed, ParentOK, DexOK, Open, OpType, Stages
    <2>2. o.target = 0 \/ o.target = n.target
        BY <1>1, <1>2, <1>4, OwnedIs, Zenon DEF ParentOK, RecoveryOK
    <2>3. (o.dex_dispatched => n.dex_dispatched) /\ (o.cex_dispatched => n.cex_dispatched)
        BY <1>4, Zenon
    <2> QED BY <1>3, <1>4, <1>8, <2>1, <2>2, <2>3, SameLegs, Accepted, Zenon
<1>11. \A k \in Children : Dispatched(o, k) => Dispatched(n, k) /\ Command(n, k) = Command(o, k)
    <2>1. Owned(o) <= Owned(n)
        BY <1>1, <1>2, <1>5, OwnedIs
    <2>2. o.dex_dispatched => n.dex_dispatched
        BY <1>4, Zenon
    <2>3. o.cex_dispatched => n.cex_dispatched
        BY <1>4, Zenon
    <2>4. Owned(o) > 0 => n.target = o.target
        BY <1>1, <1>2, <1>4, OwnedIs, Zenon
    <2> QED BY <1>3, <1>4, <2>1, <2>2, <2>3, <2>4, CommandsStay, Zenon
<1> QED BY <1>3, <1>4, <1>6, <1>7, <1>8, <1>9, <1>10, <1>11, SameLegs, Zenon DEF Keeps, ParentOK, Open

\* The first commands: the swap, and in concurrent mode the primary order.
LEMMA EntryKeeps ==
    \A o \in OpType :
    \A n :
        /\ ParentOK(o) /\ Open(o) /\ ~o.dex_dispatched
        /\ n = [o EXCEPT !.dex_dispatched = TRUE, !.stage = "executing", !.cex_dispatched = (o.mode = "concurrent")]
        => Keeps(o, n) /\ SameResults(o, n) /\ Open(n)
<1> TAKE o \in OpType
<1> TAKE n
<1> HAVE /\ ParentOK(o) /\ Open(o) /\ ~o.dex_dispatched
         /\ n = [o EXCEPT !.dex_dispatched = TRUE, !.stage = "executing", !.cex_dispatched = (o.mode = "concurrent")]
<1>1. o.stage = "prepared" /\ o.dex = NoResult /\ ~o.cex_dispatched /\ o.cex = NoResult /\ o.price = 0
    BY Zenon DEF ParentOK, DexOK, CexOK, Open
<1>2. ~Known(o.dex)
    BY <1>1 DEF Known, NoResult, Result
<1>3. Owned(o) = 0 /\ o.recovery = <<>> /\ ~o.inflight
    BY <1>2, OwnedIs DEF ParentOK, RecoveryOK, OpType
<1>4. n \in OpType
    BY Zenon DEF OpType, Stages
<1>5. /\ n.mode = o.mode /\ n.dir = o.dir /\ n.price = o.price
      /\ n.dex = o.dex /\ n.cex = o.cex /\ n.recovery = o.recovery
      /\ n.inflight = o.inflight /\ n.target = o.target /\ n.residual = o.residual
      /\ n.dex_dispatched = TRUE /\ n.stage = "executing" /\ n.cex_dispatched = (o.mode = "concurrent")
    BY Zenon DEF OpType
<1>6. Owned(n) = Owned(o)
    BY <1>5, Zenon DEF Owned
<1>7. DexOK(n)
    BY <1>1, <1>2, <1>3, <1>5, Zenon DEF DexOK
<1>8. CexOK(n)
    <2>1. o.mode \in {"dex_first", "concurrent"}
        BY Zenon DEF OpType
    <2>2. CASE o.mode = "dex_first"
        BY <1>1, <1>2, <1>3, <1>5, <2>2, Zenon DEF CexOK
    <2>3. CASE o.mode = "concurrent"
        BY <1>1, <1>2, <1>3, <1>5, <2>3, Zenon DEF CexOK
    <2> QED BY <2>1, <2>2, <2>3, Zenon
<1>9. RecoveryOK(n)
    BY <1>5, <1>6, Zenon DEF ParentOK, RecoveryOK
<1>10. StageOK(n)
    BY <1>5, Zenon DEF StageOK
<1>11. SnapshotAllowed(o, n)
    <2>1. StageTransitionAllowed(o.stage, n.stage)
        BY <1>1, <1>2, <1>3, <1>5, Zenon DEF StageTransitionAllowed
    <2>2. o.target = 0 \/ o.target = n.target
        BY <1>1, <1>2, <1>3, <1>5, OwnedIs, Zenon DEF ParentOK, RecoveryOK
    <2>3. (o.dex_dispatched => n.dex_dispatched) /\ (o.cex_dispatched => n.cex_dispatched)
        BY <1>1, <1>2, <1>3, <1>5, Zenon
    <2> QED BY <1>4, <1>5, <1>9, <2>1, <2>2, <2>3, SameLegs, Accepted, Zenon
<1>12. \A k \in Children : Dispatched(o, k) => Dispatched(n, k) /\ Command(n, k) = Command(o, k)
    <2>1. Owned(o) <= Owned(n)
        BY <1>1, <1>2, <1>3, <1>6, OwnedIs
    <2>2. o.dex_dispatched => n.dex_dispatched
        BY <1>1, <1>2, <1>3, <1>5, Zenon
    <2>3. o.cex_dispatched => n.cex_dispatched
        BY <1>1, <1>2, <1>3, <1>5, Zenon
    <2>4. Owned(o) > 0 => n.target = o.target
        BY <1>1, <1>2, <1>3, <1>5, OwnedIs, Zenon
    <2> QED BY <1>4, <1>5, <2>1, <2>2, <2>3, <2>4, CommandsStay, Zenon
<1> QED BY <1>4, <1>5, <1>7, <1>8, <1>9, <1>10, <1>11, <1>12, SameLegs, ZenonT(30) DEF Keeps, ParentOK, Open

\* The primary order of a DEX-first parent.
LEMMA HedgeKeeps ==
    \A o \in OpType :
    \A n :
        /\ ParentOK(o) /\ Open(o) /\ o.mode = "dex_first" /\ o.dex_dispatched
        /\ ~o.cex_dispatched /\ o.price # 0 /\ o.dex.status = "filled"
        /\ o.dex.delta # 0 /\ n = [o EXCEPT !.cex_dispatched = TRUE]
        => Keeps(o, n) /\ SameResults(o, n) /\ Open(n)
<1> TAKE o \in OpType
<1> TAKE n
<1> HAVE /\ ParentOK(o) /\ Open(o) /\ o.mode = "dex_first" /\ o.dex_dispatched
         /\ ~o.cex_dispatched /\ o.price # 0 /\ o.dex.status = "filled"
         /\ o.dex.delta # 0 /\ n = [o EXCEPT !.cex_dispatched = TRUE]
<1>1. n \in OpType
    BY Zenon DEF OpType
<1>2. /\ n.stage = o.stage /\ n.mode = o.mode /\ n.dir = o.dir
      /\ n.dex_dispatched = o.dex_dispatched /\ n.price = o.price /\ n.dex = o.dex
      /\ n.cex = o.cex /\ n.recovery = o.recovery /\ n.inflight = o.inflight
      /\ n.target = o.target /\ n.residual = o.residual /\ n.cex_dispatched = TRUE
    BY Zenon DEF OpType
<1>3. Owned(n) = Owned(o)
    BY <1>2, Zenon DEF Owned
<1>4. DexOK(n)
    BY <1>2, Zenon DEF ParentOK, DexOK
<1>5. CexOK(n)
    BY <1>2, Zenon DEF CexOK
<1>6. RecoveryOK(n)
    BY <1>2, <1>3, Zenon DEF ParentOK, RecoveryOK
<1>7. StageOK(n)
    BY <1>1, <1>2, SameLegs, Zenon DEF ParentOK, StageOK, Open
<1>8. SnapshotAllowed(o, n)
    <2>1. StageTransitionAllowed(o.stage, n.stage)
        BY <1>2, Zenon DEF StageTransitionAllowed
    <2>2. o.target = 0 \/ o.target = n.target
        BY <1>2, OwnedIs, Zenon DEF ParentOK, RecoveryOK
    <2>3. (o.dex_dispatched => n.dex_dispatched) /\ (o.cex_dispatched => n.cex_dispatched)
        BY <1>2, Zenon
    <2> QED BY <1>1, <1>2, <1>6, <2>1, <2>2, <2>3, SameLegs, Accepted, Zenon
<1>9. \A k \in Children : Dispatched(o, k) => Dispatched(n, k) /\ Command(n, k) = Command(o, k)
    <2>1. Owned(o) <= Owned(n)
        BY <1>3, OwnedIs
    <2>2. o.dex_dispatched => n.dex_dispatched
        BY <1>2, Zenon
    <2>3. o.cex_dispatched => n.cex_dispatched
        BY <1>2, Zenon
    <2>4. Owned(o) > 0 => n.target = o.target
        BY <1>2, OwnedIs, Zenon
    <2> QED BY <1>1, <1>2, <2>1, <2>2, <2>3, <2>4, CommandsStay, Zenon
<1> QED BY <1>1, <1>2, <1>4, <1>5, <1>6, <1>7, <1>8, <1>9, SameLegs, Zenon DEF Keeps, ParentOK, Open

\* A recovery in a direction the swap does not explain halts the parent.
LEMMA HaltKeeps ==
    \A o \in OpType :
    \A n :
        /\ ParentOK(o) /\ Open(o) /\ o.dex_dispatched /\ HasResult(o.dex)
        /\ HasResult(o.cex) /\ ~HasUnknownLeg(o) /\ ~o.inflight /\ o.recovery = <<>>
        /\ n = [o EXCEPT !.stage = "halted"]
        => Keeps(o, n) /\ SameResults(o, n) /\ Open(n)
<1> TAKE o \in OpType
<1> TAKE n
<1> HAVE /\ ParentOK(o) /\ Open(o) /\ o.dex_dispatched /\ HasResult(o.dex)
         /\ HasResult(o.cex) /\ ~HasUnknownLeg(o) /\ ~o.inflight /\ o.recovery = <<>>
         /\ n = [o EXCEPT !.stage = "halted"]
<1>1. Known(o.dex) /\ Known(o.cex)
    <2>1. o.dex.status \in Statuses /\ o.cex.status \in Statuses
        BY Zenon DEF OpType, ResultType
    <2> QED BY <2>1, UnknownLeg, Zenon DEF Known, HasResult, Statuses
<1>2. o.stage \notin {"none", "prepared"}
    BY Zenon DEF ParentOK, DexOK
<1>3. n \in OpType
    BY Zenon DEF OpType, Stages
<1>4. /\ n.mode = o.mode /\ n.dir = o.dir /\ n.dex_dispatched = o.dex_dispatched
      /\ n.cex_dispatched = o.cex_dispatched /\ n.price = o.price /\ n.dex = o.dex
      /\ n.cex = o.cex /\ n.recovery = o.recovery /\ n.inflight = o.inflight
      /\ n.target = o.target /\ n.residual = o.residual /\ n.stage = "halted"
    BY Zenon DEF OpType
<1>5. Owned(n) = Owned(o)
    BY <1>4, Zenon DEF Owned
<1>6. DexOK(n)
    BY <1>4, Zenon DEF ParentOK, DexOK
<1>7. CexOK(n)
    BY <1>4, Zenon DEF ParentOK, CexOK
<1>8. RecoveryOK(n)
    BY <1>4, <1>5, ZenonT(30) DEF ParentOK, RecoveryOK
<1>9. StageOK(n)
    BY <1>1, <1>2, <1>4, Zenon DEF StageOK
<1>10. SnapshotAllowed(o, n)
    <2>1. StageTransitionAllowed(o.stage, n.stage)
        BY <1>1, <1>2, <1>4, Zenon DEF StageTransitionAllowed, Open, OpType, Stages
    <2>2. o.target = 0 \/ o.target = n.target
        BY <1>1, <1>2, <1>4, OwnedIs, Zenon DEF ParentOK, RecoveryOK
    <2>3. (o.dex_dispatched => n.dex_dispatched) /\ (o.cex_dispatched => n.cex_dispatched)
        BY <1>4, Zenon
    <2> QED BY <1>3, <1>4, <1>8, <2>1, <2>2, <2>3, SameLegs, Accepted, Zenon
<1>11. \A k \in Children : Dispatched(o, k) => Dispatched(n, k) /\ Command(n, k) = Command(o, k)
    <2>1. Owned(o) <= Owned(n)
        BY <1>1, <1>2, <1>5, OwnedIs
    <2>2. o.dex_dispatched => n.dex_dispatched
        BY <1>4, Zenon
    <2>3. o.cex_dispatched => n.cex_dispatched
        BY <1>4, Zenon
    <2>4. Owned(o) > 0 => n.target = o.target
        BY <1>1, <1>2, <1>4, OwnedIs, Zenon
    <2> QED BY <1>3, <1>4, <2>1, <2>2, <2>3, <2>4, CommandsStay, ZenonT(30)
<1> QED BY <1>3, <1>4, <1>6, <1>7, <1>8, <1>9, <1>10, <1>11, SameLegs, ZenonT(30) DEF Keeps, ParentOK, Open

\* The first recovery, which fixes the target of all.
LEMMA RecoverKeeps ==
    \A o \in OpType :
    \A n :
        /\ ParentOK(o) /\ Open(o) /\ o.dex_dispatched /\ HasResult(o.dex)
        /\ HasResult(o.cex) /\ ~HasUnknownLeg(o) /\ ~o.inflight /\ o.recovery = <<>>
        /\ RecoveryTarget(o) # 0
        /\ o.mode = "dex_first" => DirectionIsValid(o, RecoveryTarget(o))
        /\ n = [o EXCEPT !.stage = "recovering", !.inflight = TRUE, !.target = RecoveryTarget(o)]
        => Keeps(o, n) /\ SameResults(o, n) /\ Open(n)
<1> TAKE o \in OpType
<1> TAKE n
<1> HAVE /\ ParentOK(o) /\ Open(o) /\ o.dex_dispatched /\ HasResult(o.dex)
         /\ HasResult(o.cex) /\ ~HasUnknownLeg(o) /\ ~o.inflight /\ o.recovery = <<>>
         /\ RecoveryTarget(o) # 0
         /\ o.mode = "dex_first" => DirectionIsValid(o, RecoveryTarget(o))
         /\ n = [o EXCEPT !.stage = "recovering", !.inflight = TRUE, !.target = RecoveryTarget(o)]
<1>1. Known(o.dex) /\ Known(o.cex)
    <2>1. o.dex.status \in Statuses /\ o.cex.status \in Statuses
        BY Zenon DEF OpType, ResultType
    <2> QED BY <2>1, UnknownLeg, Zenon DEF Known, HasResult, Statuses
<1>2. o.stage \notin {"none", "prepared"}
    BY Zenon DEF ParentOK, DexOK
<1>3. Owned(o) = 0 /\ o.target = 0
    BY OwnedIs, Zenon DEF ParentOK, RecoveryOK
<1>4. o.dex.delta \in Int /\ o.cex.executed \in Int
    BY Zenon DEF OpType, ResultType
<1>5. /\ RecoveryTarget(o) = -o.dex.delta - o.cex.executed /\ RecoveryTarget(o) \in Int
      /\ Abs(RecoveryTarget(o)) >= LotStep
    <2>1. ~(~HasResult(o.cex) \/ Abs(-o.dex.delta - o.cex.executed) < LotStep)
        BY Zenon DEF RecoveryTarget
    <2>2. RecoveryTarget(o) = -o.dex.delta - o.cex.executed
        BY <2>1, Zenon DEF RecoveryTarget
    <2>3. Abs(-o.dex.delta - o.cex.executed) \in Int /\ LotStep \in Int
        BY <1>4, QuantityAssumption, AbsIs, SMTT(30)
    <2> QED BY <1>4, <2>1, <2>2, <2>3, SMTT(30)
<1>6. n \in OpType
    BY <1>1, <1>2, <1>3, <1>4, <1>5, Zenon DEF OpType, Stages
<1>7. /\ n.mode = o.mode /\ n.dir = o.dir /\ n.dex_dispatched = o.dex_dispatched
      /\ n.cex_dispatched = o.cex_dispatched /\ n.price = o.price /\ n.dex = o.dex
      /\ n.cex = o.cex /\ n.recovery = o.recovery /\ n.residual = o.residual
      /\ n.stage = "recovering" /\ n.inflight = TRUE /\ n.target = RecoveryTarget(o)
    BY Zenon DEF OpType
<1>8. Owned(n) = 1
    <2>1. n.inflight /\ Len(n.recovery) = 0
        BY <1>7, OwnedIs, Zenon
    <2>2. Owned(n) = Len(n.recovery) + 1
        BY <1>6, <2>1, OwnedIs, Zenon
    <2> QED BY <2>1, <2>2
<1>9. DexOK(n)
    BY <1>7, Zenon DEF ParentOK, DexOK
<1>10. CexOK(n)
    BY <1>7, ZenonT(30) DEF ParentOK, CexOK
<1>11. RecoveryOK(n)
    <2>1. Len(n.recovery) = 0
        BY <1>6, <1>7, OwnedIs, Zenon
    <2> QED BY <1>1, <1>2, <1>3, <1>4, <1>5, <1>7, <1>8, <2>1, SMTT(30) DEF RecoveryOK, MaxRecoveryAttempts, DirectionIsValid
<1>12. StageOK(n)
    BY <1>7, Zenon DEF StageOK
<1>13. SnapshotAllowed(o, n)
    <2>1. StageTransitionAllowed(o.stage, n.stage)
        BY <1>1, <1>2, <1>3, <1>4, <1>5, <1>7, Zenon DEF StageTransitionAllowed, Open, OpType, Stages
    <2>2. o.target = 0 \/ o.target = n.target
        BY <1>3, Zenon
    <2>3. (o.dex_dispatched => n.dex_dispatched) /\ (o.cex_dispatched => n.cex_dispatched)
        BY <1>7, Zenon
    <2> QED BY <1>6, <1>7, <1>11, <2>1, <2>2, <2>3, SameLegs, Accepted, ZenonT(30)
<1>14. \A k \in Children : Dispatched(o, k) => Dispatched(n, k) /\ Command(n, k) = Command(o, k)
    <2>1. Owned(o) <= Owned(n)
        BY <1>1, <1>2, <1>3, <1>4, <1>5, <1>8, OwnedIs
    <2>2. o.dex_dispatched => n.dex_dispatched
        BY <1>7, Zenon
    <2>3. o.cex_dispatched => n.cex_dispatched
        BY <1>7, Zenon
    <2>4. Owned(o) > 0 => n.target = o.target
        BY <1>1, <1>2, <1>3, <1>4, <1>5, <1>7, OwnedIs, SMTT(30)
    <2> QED BY <1>6, <1>7, <2>1, <2>2, <2>3, <2>4, CommandsStay, Zenon
<1> QED BY <1>6, <1>7, <1>9, <1>10, <1>11, <1>12, <1>13, <1>14, SameLegs, ZenonT(30) DEF Keeps, ParentOK, Open

\* The next recovery, after one that is proved to have moved nothing.
LEMMA RetryKeeps ==
    \A o \in OpType :
    \A n :
        /\ ParentOK(o) /\ Open(o) /\ RetryPending(o) /\ ~o.inflight
        /\ n = [o EXCEPT !.inflight = TRUE]
        => Keeps(o, n) /\ SameResults(o, n) /\ Open(n)
<1> TAKE o \in OpType
<1> TAKE n
<1> HAVE /\ ParentOK(o) /\ Open(o) /\ RetryPending(o) /\ ~o.inflight
         /\ n = [o EXCEPT !.inflight = TRUE]
<1>1. Len(o.recovery) \in 1 .. 2 /\ Owned(o) = Len(o.recovery) /\ Retryable(o.recovery[Len(o.recovery)])
    <2>1. Len(o.recovery) \in Nat /\ Len(o.recovery) > 0 /\ Owned(o) = Len(o.recovery)
        BY OwnedIs, Zenon DEF RetryPending
    <2>2. Len(o.recovery) < 3
        BY Zenon DEF RetryPending, MaxRecoveryAttempts
    <2>3. Retryable(o.recovery[Len(o.recovery)])
        BY Zenon DEF RetryPending, Last
    <2>4. \A m \in Nat : m > 0 /\ m < 3 => m \in 1 .. 2
        OBVIOUS
    <2> QED BY <2>1, <2>2, <2>3, <2>4, Zenon
<1>2. o.stage # "halted"
    BY Zenon DEF ParentOK, StageOK, RetryPending
<1>3. n \in OpType
    BY Zenon DEF OpType
<1>4. /\ n.stage = o.stage /\ n.mode = o.mode /\ n.dir = o.dir
      /\ n.dex_dispatched = o.dex_dispatched /\ n.cex_dispatched = o.cex_dispatched /\ n.price = o.price
      /\ n.dex = o.dex /\ n.cex = o.cex /\ n.recovery = o.recovery
      /\ n.target = o.target /\ n.residual = o.residual /\ n.inflight = TRUE
    BY Zenon DEF OpType
<1>5. Owned(n) = Len(o.recovery) + 1
    BY <1>3, <1>4, OwnedIs, Zenon
<1>6. DexOK(n)
    BY <1>4, Zenon DEF ParentOK, DexOK, Open
<1>7. CexOK(n)
    BY <1>4, ZenonT(30) DEF ParentOK, CexOK
<1>8. RecoveryOK(n)
    <2>1. \A i \in 1 .. Owned(n) - 1 : Retryable(o.recovery[i])
        BY <1>1, <1>2, <1>5 DEF ParentOK, RecoveryOK
    <2>2. Owned(n) > 0 /\ Owned(n) <= MaxRecoveryAttempts /\ Owned(o) > 0
        <3>1. \A m \in 1 .. 2 : m + 1 > 0 /\ m + 1 <= 3 /\ m > 0
            OBVIOUS
        <3> QED BY <1>1, <1>2, <1>5, <3>1, Zenon DEF MaxRecoveryAttempts
    <2>3. /\ Known(o.dex) /\ Known(o.cex) /\ o.target = -o.dex.delta - o.cex.executed
          /\ Abs(o.target) >= LotStep /\ (o.mode = "dex_first" => Sign(o.target) = -o.dir)
          /\ \A i \in 1 .. Len(o.recovery) : HasResult(o.recovery[i])
        BY <2>2, Zenon DEF ParentOK, RecoveryOK
    <2>4. Owned(n) # 0
        BY <1>1, <1>2, <1>5
    <2> QED BY <1>4, <2>1, <2>2, <2>3, <2>4, Zenon DEF RecoveryOK
<1>9. StageOK(n)
    BY <1>1, <1>2, <1>3, <1>4, SameLegs, Zenon DEF ParentOK, StageOK, Open
<1>10. SnapshotAllowed(o, n)
    <2>1. StageTransitionAllowed(o.stage, n.stage)
        BY <1>4, Zenon DEF StageTransitionAllowed
    <2>2. o.target = 0 \/ o.target = n.target
        BY <1>1, <1>2, <1>4, OwnedIs, Zenon DEF ParentOK, RecoveryOK
    <2>3. (o.dex_dispatched => n.dex_dispatched) /\ (o.cex_dispatched => n.cex_dispatched)
        BY <1>4, Zenon
    <2> QED BY <1>3, <1>4, <1>8, <2>1, <2>2, <2>3, SameLegs, Accepted, ZenonT(30)
<1>11. \A k \in Children : Dispatched(o, k) => Dispatched(n, k) /\ Command(n, k) = Command(o, k)
    <2>1. Owned(o) <= Owned(n)
        BY <1>1, <1>2, <1>5, OwnedIs, SMTT(30)
    <2>2. o.dex_dispatched => n.dex_dispatched
        BY <1>4, Zenon
    <2>3. o.cex_dispatched => n.cex_dispatched
        BY <1>4, Zenon
    <2>4. Owned(o) > 0 => n.target = o.target
        BY <1>1, <1>2, <1>4, OwnedIs, Zenon
    <2> QED BY <1>3, <1>4, <2>1, <2>2, <2>3, <2>4, CommandsStay, Zenon
<1> QED BY <1>3, <1>4, <1>6, <1>7, <1>8, <1>9, <1>10, <1>11, SameLegs, ZenonT(30) DEF Keeps, ParentOK, Open

\* finalize_balanced closes the parent with its residual.
LEMMA FinishKeeps ==
    \A o \in OpType :
    \A n :
        /\ ParentOK(o) /\ Open(o) /\ o.dex_dispatched /\ MayFinalize(o)
        /\ n = [o EXCEPT !.stage = "balanced", !.residual = Residual(o)]
        => Keeps(o, n) /\ SameResults(o, n)
<1> TAKE o \in OpType
<1> TAKE n
<1> HAVE /\ ParentOK(o) /\ Open(o) /\ o.dex_dispatched /\ MayFinalize(o)
         /\ n = [o EXCEPT !.stage = "balanced", !.residual = Residual(o)]
<1>1. o.stage \notin {"none", "prepared"}
    BY Zenon DEF ParentOK, DexOK
<1>2. o.stage # "unknown_exposure"
    BY Zenon DEF ParentOK, StageOK, MayFinalize
<1>3. Residual(o) \in Int
    <2>1. o.dex.delta \in Int /\ o.cex.delta \in Int
        BY Zenon DEF OpType, ResultType
    <2>2. \A i \in 1 .. 3 : RecoveryDelta(o, i) \in Int
        <3>1. \A i \in DOMAIN o.recovery : o.recovery[i] \in ResultType
            BY OwnedIs
        <3>2. \A i \in DOMAIN o.recovery : o.recovery[i].delta \in Int
            BY <3>1, Zenon DEF ResultType
        <3> QED BY <3>2 DEF RecoveryDelta
    <2> QED BY <2>1, <2>2 DEF Residual
<1>4. n \in OpType
    BY <1>1, <1>2, <1>3, Zenon DEF OpType, Stages
<1>5. /\ n.mode = o.mode /\ n.dir = o.dir /\ n.dex_dispatched = o.dex_dispatched
      /\ n.cex_dispatched = o.cex_dispatched /\ n.price = o.price /\ n.dex = o.dex
      /\ n.cex = o.cex /\ n.recovery = o.recovery /\ n.inflight = o.inflight
      /\ n.target = o.target /\ n.stage = "balanced" /\ n.residual = Residual(o)
    BY Zenon DEF OpType
<1>6. Owned(n) = Owned(o)
    BY <1>5, Zenon DEF Owned
<1>7. DexOK(n)
    BY <1>5, Zenon DEF ParentOK, DexOK
<1>8. CexOK(n)
    BY <1>5, Zenon DEF ParentOK, CexOK
<1>9. RecoveryOK(n)
    BY <1>5, <1>6, Zenon DEF ParentOK, RecoveryOK
<1>10. StageOK(n)
    <2>1. MayFinalize(n)
        BY <1>4, <1>5, SameLegs, Zenon DEF MayFinalize
    <2> QED BY <1>4, <1>5, <2>1, SameLegs, Zenon DEF StageOK
<1>11. SnapshotAllowed(o, n)
    <2>1. StageTransitionAllowed(o.stage, n.stage)
        BY <1>1, <1>2, <1>3, <1>5, Zenon DEF StageTransitionAllowed, Open, OpType, Stages
    <2>2. o.target = 0 \/ o.target = n.target
        BY <1>1, <1>2, <1>3, <1>5, OwnedIs, Zenon DEF ParentOK, RecoveryOK
    <2>3. (o.dex_dispatched => n.dex_dispatched) /\ (o.cex_dispatched => n.cex_dispatched)
        BY <1>5, Zenon
    <2> QED BY <1>4, <1>5, <1>9, <2>1, <2>2, <2>3, SameLegs, Accepted, Zenon
<1>12. \A k \in Children : Dispatched(o, k) => Dispatched(n, k) /\ Command(n, k) = Command(o, k)
    <2>1. Owned(o) <= Owned(n)
        BY <1>1, <1>2, <1>3, <1>6, OwnedIs
    <2>2. o.dex_dispatched => n.dex_dispatched
        BY <1>5, Zenon
    <2>3. o.cex_dispatched => n.cex_dispatched
        BY <1>5, Zenon
    <2>4. Owned(o) > 0 => n.target = o.target
        BY <1>1, <1>2, <1>3, <1>5, OwnedIs, Zenon
    <2> QED BY <1>4, <1>5, <2>1, <2>2, <2>3, <2>4, CommandsStay, Zenon
<1> QED BY <1>4, <1>5, <1>7, <1>8, <1>9, <1>10, <1>11, <1>12, SameLegs, ZenonT(30) DEF Keeps, ParentOK, Open

=============================================================================
