------------------------ MODULE TradeCoordinatorProofs ------------------------
(***************************************************************************)
(* Every step of TradeCoordinator keeps its invariant: the legs in flight, *)
(* the results that are recorded, restarts, venues and time.  The theorems *)
(* about the coordinator follow from it.                                   *)
(***************************************************************************)
EXTENDS TradeStepProofs

-----------------------------------------------------------------------------
(* Legs in flight.                                                         *)

\* The steps of the legs in flight keep the invariant.
LEMMA LegSteps ==
    TradeInv /\ ExecuteLeg => TradeInv'
\* What holds of a leg that has no answer yet.
<1>LegIs.
    \A i, c :
        TradeInv /\ Leg(i) /\ c = calls[i]
        => /\ pc \in Busy /\ pc \in AtPlan /\ i \in 1 .. Len(calls) /\ c \in CallType
           /\ c.child \in Children /\ c.result = NoResult
           /\ CallOK(pc, c, O, child[plan][c.child], asked[plan][c.child])
    <2> TAKE i, c
    <2> HAVE TradeInv /\ Leg(i) /\ c = calls[i]
    <2>1. pc \in Busy /\ pc \in AtPlan
        BY Zenon DEF Leg, Busy, AtPlan
    <2>2. calls \in Seq(CallType) /\ i \in DOMAIN calls /\ c.result = NoResult
        BY Zenon DEF Leg, TradeInv, TaskType
    <2>3. i \in 1 .. Len(calls) /\ c \in CallType
        BY <2>2
    <2>4. c.child \in Children
        BY <2>3, Zenon DEF CallType
    <2>5. CallOK(pc, c, O, child[plan][c.child], asked[plan][c.child])
        BY <2>3, Zenon DEF TradeInv, TaskOK, CallsOK
    <2> QED BY <2>1, <2>2, <2>3, <2>4, <2>5, Zenon
\* A leg moves and the task keeps waiting.
<1>KeepsWaiting.
    /\ TradeInv /\ pc \in Busy /\ pc \in AtPlan /\ JournalOK' /\ Index'
    /\ CallsOK' /\ calls' \in Seq(CallType)
    /\ UNCHANGED <<op, pc, plan, resuming, resumed, expired, backoff>>
    => TradeInv'
    <2> HAVE /\ TradeInv /\ pc \in Busy /\ pc \in AtPlan /\ JournalOK' /\ Index'
             /\ CallsOK' /\ calls' \in Seq(CallType)
             /\ UNCHANGED <<op, pc, plan, resuming, resumed, expired, backoff>>
    <2>1. plan' \in Plans \ resuming' /\ resuming' \subseteq Plans /\ Open(O') /\ resumed' \in BOOLEAN
        BY Driven, Zenon DEF TradeInv, TaskType, O
    <2>2. (\A p \in resuming' : Open(op'[p])) /\ backoff' \in [Plans -> BOOLEAN]
        BY Zenon DEF TradeInv, TaskOK, TaskType
    <2> QED BY <2>1, <2>2, Waits, Zenon
\* A leg is answered with what is true of its venue.
<1>AnswerStep.
    \A i :
    \A r \in ResultType :
        /\ TradeInv /\ Leg(i) /\ Answer(i, r)
        /\ UNCHANGED <<op, unresolved, child, asked, pc, plan, resuming, resumed, expired, backoff>>
        /\ TrueOf(O, calls[i].child, r, Venue(i))
        /\ calls[i].recon => r.ref # "expired"
        => TradeInv'
    <2> TAKE i
    <2> TAKE r \in ResultType
    <2> HAVE /\ TradeInv /\ Leg(i) /\ Answer(i, r)
             /\ UNCHANGED <<op, unresolved, child, asked, pc, plan, resuming, resumed, expired, backoff>>
             /\ TrueOf(O, calls[i].child, r, Venue(i))
             /\ calls[i].recon => r.ref # "expired"
    <2> DEFINE b == calls[i]
               c == [b EXCEPT !.result = r]
    <2>1. /\ pc \in Busy /\ pc \in AtPlan /\ i \in 1 .. Len(calls) /\ b \in CallType
          /\ CallOK(pc, b, O, child[plan][b.child], asked[plan][b.child])
        BY <1>LegIs, Zenon
    <2>2. calls' = [calls EXCEPT ![i] = c]
        BY Zenon DEF Answer, SetCall
    <2>3. TrueOf(O, b.child, r, child[plan][b.child]) /\ (b.recon => r.ref # "expired")
        BY Zenon DEF Venue
    <2> HIDE DEF b
    <2>4. /\ c \in CallType /\ c.child = b.child /\ c.target = b.target /\ c.price = b.price
          /\ (c.recon <=> b.recon) /\ c.at = b.at /\ c.result = r
        BY <2>1, Zenon DEF CallType
    <2> HIDE DEF c
    <2>5. CallOK(pc, c, O, child[plan][c.child], asked[plan][c.child])
        BY <2>1, <2>3, <2>4, ZenonT(30) DEF CallOK
    <2>6. CallOK(pc, c, O, child'[plan][c.child], asked'[plan][c.child])
        BY <2>5, Zenon
    <2>7. TaskType /\ CallsOK /\ JournalOK /\ Index
        BY <2>1, Driven, Zenon DEF TradeInv, TaskOK
    <2>8. c.child = calls[i].child
        BY <2>4, Zenon DEF b
    <2>9. CallsOK' /\ calls' \in Seq(CallType)
        BY <2>1, <2>2, <2>4, <2>6, <2>7, <2>8, LegStep, ZenonT(30)
    <2>10. JournalOK' /\ Index'
        BY <2>7, StayStep, Zenon
    <2> QED BY <2>1, <2>9, <2>10, <1>KeepsWaiting, Zenon
\* A leg is handed to its executor.
<1>HandStep.
    \A i :
        /\ TradeInv /\ Leg(i) /\ Hand(i)
        /\ UNCHANGED <<op, unresolved, child, pc, plan, resuming, resumed, expired, backoff>>
        => TradeInv'
    \* A command handed to its executor.
    <2>AskStep.
        \A p \in Plans, k \in Children :
            /\ JournalOK /\ Dispatched(op[p], k)
            /\ asked' = [asked EXCEPT ![p][k] = @ \cup {Command(op[p], k)}]
            /\ Command(op[p], k) \in Int \X Nat /\ op' = op /\ unresolved' = unresolved
            /\ child' = child
            => (JournalOK' /\ (Index => Index'))
        <3> TAKE p \in Plans, k \in Children
        <3> HAVE /\ JournalOK /\ Dispatched(op[p], k)
                 /\ asked' = [asked EXCEPT ![p][k] = @ \cup {Command(op[p], k)}]
                 /\ Command(op[p], k) \in Int \X Nat /\ op' = op /\ unresolved' = unresolved
                 /\ child' = child
        <3>1. asked \in [Plans -> [Children -> SUBSET (Int \X Nat)]]
            BY Zenon DEF JournalOK, JournalType
        <3>2. /\ asked' \in [Plans -> [Children -> SUBSET (Int \X Nat)]]
              /\ asked'[p][k] = asked[p][k] \cup {Command(op[p], k)}
              /\ \A q \in Plans, j \in Children : (q # p \/ j # k) => asked'[q][j] = asked[q][j]
            BY <3>1, ZenonT(30)
        <3>3. JournalType' /\ OneParentPerStrategy' /\ (Index => Index')
            <4>1. JournalType'
                BY <3>2, Zenon DEF JournalOK, JournalType
            <4>2. OneParentPerStrategy'
                BY Zenon DEF JournalOK, OneParentPerStrategy
            <4>3. Index => Index'
                BY Zenon DEF Index
            <4> QED BY <4>1, <4>2, <4>3, Zenon
        <3>4. \A q \in Plans, j \in Children : LinkOK(op[q], j, child[q][j], asked[q][j])
            BY Zenon DEF JournalOK, ParentsOK, LinksOK
        <3>5. LinkOK(op[p], k, child[p][k], asked'[p][k])
            BY <3>2, <3>4, Zenon DEF LinkOK
        <3>6. \A q \in Plans, j \in Children : LinkOK(op[q], j, child[q][j], asked'[q][j])
            BY <3>2, <3>4, <3>5, Zenon
        <3>7. ParentsOK'
            BY <3>6, Zenon DEF JournalOK, ParentsOK, LinksOK
        <3> QED BY <3>3, <3>7, Zenon DEF JournalOK
    <2> TAKE i
    <2> HAVE /\ TradeInv /\ Leg(i) /\ Hand(i)
             /\ UNCHANGED <<op, unresolved, child, pc, plan, resuming, resumed, expired, backoff>>
    <2> DEFINE b == calls[i]
               c == [b EXCEPT !.at = "asked"]
               k == b.child
    <2>1. /\ pc \in Busy /\ pc \in AtPlan /\ i \in 1 .. Len(calls) /\ b \in CallType /\ k \in Children
          /\ CallOK(pc, b, O, child[plan][k], asked[plan][k])
        BY <1>LegIs, Zenon
    <2>2. calls' = [calls EXCEPT ![i] = c]
        BY Zenon DEF Hand, SetCall
    <2>3. asked' = [asked EXCEPT ![plan][k] = @ \cup {<<b.target, b.price>>}]
        BY Zenon DEF Hand
    <2> HIDE DEF b, k
    <2>4. /\ c \in CallType /\ c.child = k /\ c.target = b.target /\ c.price = b.price
          /\ (c.recon <=> b.recon) /\ c.at = "asked" /\ c.result = b.result
        BY <2>1, Zenon DEF CallType, k
    <2> HIDE DEF c
    <2>5. <<b.target, b.price>> = Command(O, k) /\ Dispatched(O, k)
        BY <2>1, Zenon DEF CallOK, k
    <2>6. /\ plan \in Plans /\ O \in OpType /\ O = op[plan]
          /\ TaskType /\ CallsOK /\ JournalOK /\ Index
        BY <2>1, Driven, Zenon DEF TradeInv, TaskOK
    <2>7. asked' = [asked EXCEPT ![plan][k] = @ \cup {Command(op[plan], k)}]
        BY <2>3, <2>5, <2>6, Zenon
    <2>8. Command(op[plan], k) \in Int \X Nat
        BY <2>1, <2>6, CommandType, Zenon
    <2>9. JournalOK' /\ Index'
        BY <2>1, <2>5, <2>6, <2>7, <2>8, <2>AskStep, ZenonT(30)
    <2>10. asked \in [Plans -> [Children -> SUBSET (Int \X Nat)]]
        BY <2>6, Zenon DEF JournalOK, JournalType
    <2>11. /\ asked'[plan][k] # {}
           /\ \A j \in Children : j # k => asked'[plan][j] = asked[plan][j]
        BY <2>1, <2>3, <2>6, <2>10, Zenon
    <2>12. CallOK(pc, c, O, child'[plan][c.child], asked'[plan][c.child])
        <3>1. b.child = k
            BY Zenon DEF k
        <3>2. CallOK(pc, c, O, child[plan][k], asked'[plan][k])
            BY <2>1, <2>4, <2>11, <3>1, ZenonT(30) DEF CallOK
        <3> QED BY <2>4, <3>2, Zenon
    <2>13. \A j \in 1 .. Len(calls) : calls[j].child \in Children
        <3>1. \A j \in 1 .. Len(calls) : calls[j] \in CallType
            BY <2>6, SMTT(30) DEF TaskType
        <3> QED BY <3>1, Zenon DEF CallType
    <2>14. c.child = calls[i].child
        BY <2>4, Zenon DEF k, b
    <2>15. \A j \in 1 .. Len(calls) : calls[j].child # c.child =>
               /\ child'[plan][calls[j].child] = child[plan][calls[j].child]
               /\ asked'[plan][calls[j].child] = asked[plan][calls[j].child]
        BY <2>4, <2>11, <2>13, Zenon
    <2>16. CallsOK' /\ calls' \in Seq(CallType)
        BY <2>1, <2>2, <2>4, <2>6, <2>12, <2>14, <2>15, LegStep, ZenonT(30)
    <2> QED BY <2>1, <2>9, <2>16, <1>KeepsWaiting, Zenon
\* StartDex keeps the invariant.
<1>StartDexStep. \A i \in 1 .. 2 : TradeInv /\ StartDex(i) => TradeInv'
    <2> SUFFICES ASSUME NEW i \in 1 .. 2, TradeInv, StartDex(i) PROVE TradeInv'
        BY Zenon
    <2>1. Leg(i) /\ calls[i].child = Dex
        BY Zenon DEF StartDex
    <2>2. UNCHANGED <<op, unresolved, child, pc, plan, resuming, resumed, expired, backoff>>
        BY Zenon DEF StartDex, KeepLegs, KeepTask, journal, clock
    <2>3. CASE ~calls[i].recon /\ expired[plan]
        <3> DEFINE r == Failed("expired")
        <3>1. Answer(i, r) /\ asked' = asked
            BY <2>3, Zenon DEF StartDex
        <3>2. r \in ResultType /\ r.status = "failed" /\ r.delta = 0 /\ r.executed = 0 /\ r.ref = "expired"
            BY DEF Failed, Result, ResultType, Statuses, References
        <3> HIDE DEF r
        <3>3. TrueOf(O, calls[i].child, r, Venue(i))
            BY <2>1, <3>2, Zenon DEF TrueOf, HasResult
        <3> QED BY <2>1, <2>2, <2>3, <3>1, <3>2, <3>3, <1>AnswerStep, ZenonT(30)
    <2>4. CASE ~(~calls[i].recon /\ expired[plan])
        <3>1. Hand(i)
            BY <2>4, Zenon DEF StartDex
        <3> QED BY <2>1, <2>2, <3>1, <1>HandStep, ZenonT(30)
    <2> QED BY <2>3, <2>4, Zenon
\* StartCex keeps the invariant.
<1>StartCexStep. \A i \in 1 .. 2 : TradeInv /\ StartCex(i) => TradeInv'
    <2> SUFFICES ASSUME NEW i \in 1 .. 2, TradeInv, StartCex(i) PROVE TradeInv'
        BY Zenon
    <2>1. Leg(i) /\ calls[i].child # Dex
        BY Zenon DEF StartCex
    <2>2. UNCHANGED <<op, unresolved, child, pc, plan, resuming, resumed, expired, backoff>>
        BY Zenon DEF StartCex, KeepLegs, KeepTask, journal, clock
    <2>3. CASE Hand(i)
        BY <2>1, <2>2, <2>3, <1>HandStep, ZenonT(30)
    <2>4. CASE /\ Venue(i) = Unsent \/ "filters_move" \in Drift
               /\ Answer(i, Failed("filtered")) /\ UNCHANGED asked
        <3> DEFINE r == Failed("filtered")
        <3>1. Answer(i, r) /\ asked' = asked
            BY <2>4, Zenon
        <3>2. r \in ResultType /\ r.status = "failed" /\ r.delta = 0 /\ r.executed = 0 /\ r.ref = "filtered"
            BY DEF Failed, Result, ResultType, Statuses, References
        <3> HIDE DEF r
        <3>3. TrueOf(O, calls[i].child, r, Venue(i))
            BY <2>1, <2>4, <3>2, Zenon DEF TrueOf, HasResult
        <3>4. r.ref # "expired"
            BY <3>2, Zenon
        <3> QED BY <2>1, <2>2, <3>1, <3>2, <3>3, <3>4, <1>AnswerStep, ZenonT(30)
    <2> QED BY <2>3, <2>4, Zenon DEF StartCex
\* Submit keeps the invariant: the order is new, and nothing was recorded.
<1>SubmitStep. \A i \in 1 .. 2 : TradeInv /\ Submit(i) => TradeInv'
    <2> SUFFICES ASSUME NEW i \in 1 .. 2, TradeInv, Submit(i) PROVE TradeInv'
        BY Zenon
    <2> DEFINE c == calls[i]
               k == c.child
               w == Live(Sign(c.target))
    <2>1. Leg(i) /\ c.at = "asked"
        BY Zenon DEF Submit, Asked
    <2>2. UNCHANGED <<op, unresolved, calls, asked, pc, plan, resuming, resumed, expired, backoff>>
        BY Zenon DEF Submit, KeepLegs, KeepTask, journal, clock
    <2>3. child' = [child EXCEPT ![plan][k] = w]
        BY Zenon DEF Submit, SetChild
    <2>4. /\ pc \in Busy /\ pc \in AtPlan /\ i \in 1 .. Len(calls) /\ c \in CallType /\ k \in Children
          /\ CallOK(pc, c, O, child[plan][k], asked[plan][k]) /\ c.result = NoResult
        BY <2>1, <1>LegIs, Zenon
    <2>5. calls' = [calls EXCEPT ![i] = c]
        BY <2>2, <2>4, SMTT(30) DEF TradeInv, TaskType
    <2> HIDE DEF c
    <2>6. c.target \in Int /\ c.target = Target(O, k) /\ asked[plan][k] # {}
        BY <2>1, <2>4, Zenon DEF CallOK, CallType, Command
    <2>7. Sign(c.target) \in Int
        BY <2>6 DEF Sign
    <2>8. w \in ChildType /\ w.kind = "live" /\ w.fill = Sign(Target(O, k))
        BY <2>6, <2>7, Zenon DEF Live, Child, ChildType
    <2> HIDE DEF w
    <2>9. VenueOK(O, k, w)
        BY <2>8, Zenon DEF VenueOK
    <2>10. /\ plan \in Plans /\ O \in OpType /\ O = op[plan]
           /\ TaskType /\ CallsOK /\ JournalOK /\ Index
           /\ LinkOK(O, k, child[plan][k], asked[plan][k])
        BY <2>4, Driven, Zenon DEF TradeInv, TaskOK
    <2>11. ResultOf(O, k) = NoResult \/ ResultOf(O, k).status = "unknown"
        BY <2>4, <2>10, Zenon DEF CallOK, LinkOK, TrueOf
    <2>12. TrueOf(O, k, NoResult, w)
        BY Zenon DEF TrueOf, NoResult, Result
    <2>13. TrueOf(O, k, ResultOf(O, k), w)
        <3>1. CASE ResultOf(O, k) = NoResult
            BY <2>12, <3>1, Zenon
        <3>2. CASE ResultOf(O, k).status = "unknown"
            <4>1. TrueOf(O, k, ResultOf(O, k), child[plan][k])
                BY <2>10, Zenon DEF LinkOK
            <4> QED BY <3>2, <4>1, Zenon DEF TrueOf, HasResult
        <3> QED BY <2>11, <3>1, <3>2, Zenon
    <2>14. /\ JournalOK' /\ Index' /\ child'[plan][k] = w
           /\ \A j \in Children : j # k => child'[plan][j] = child[plan][j]
        <3> HIDE DEF k
        <3>1. /\ JournalOK' /\ Index' /\ child'[plan][k] = w
              /\ \A q \in Plans, j \in Children : (q # plan \/ j # k) => child'[q][j] = child[q][j]
            BY <2>2, <2>3, <2>4, <2>6, <2>8, <2>9, <2>10, <2>13, VenueStep, ZenonT(30)
        <3> QED BY <2>10, <3>1, Zenon
    <2>15. CallOK(pc, c, O, child'[plan][c.child], asked'[plan][c.child])
        BY <2>2, <2>4, <2>12, <2>14, Zenon DEF CallOK
    <2>16. \A j \in 1 .. Len(calls) : calls[j].child \in Children
        <3>1. \A j \in 1 .. Len(calls) : calls[j] \in CallType
            BY <2>10 DEF TaskType
        <3> QED BY <3>1, Zenon DEF CallType
    <2>17. c.child = calls[i].child
        BY Zenon DEF c
    <2>18. \A j \in 1 .. Len(calls) : calls[j].child # c.child =>
               /\ child'[plan][calls[j].child] = child[plan][calls[j].child]
               /\ asked'[plan][calls[j].child] = asked[plan][calls[j].child]
        BY <2>2, <2>14, <2>16, Zenon
    <2>19. CallsOK' /\ calls' \in Seq(CallType)
        BY <2>2, <2>4, <2>5, <2>10, <2>15, <2>17, <2>18, LegStep, ZenonT(30)
    <2> QED BY <2>2, <2>4, <2>14, <2>19, <1>KeepsWaiting, Zenon
\* Reply and ExecutorStopped keep the invariant.
<1>ReplyStep.
                   \A i \in 1 .. 2 : TradeInv /\ (Reply(i) \/ ExecutorStopped(i)) => TradeInv'
    \* What the executor answers is true of the venue.
    <2>AnswersTrue.
        \A i :
        \A r \in Answers(i) :
            TradeInv /\ Leg(i)
            => r \in ResultType /\ TrueOf(O, calls[i].child, r, Venue(i)) /\ r.ref # "expired"
        <3> TAKE i
        <3> TAKE r \in Answers(i)
        <3> HAVE TradeInv /\ Leg(i)
        <3> DEFINE k == calls[i].child
                   v == Venue(i)
        <3>1. k \in Children /\ pc \in AtPlan
            BY <1>LegIs, Zenon
        <3>2. O \in OpType /\ v \in ChildType /\ VenueOK(O, k, v)
            BY <3>1, Driven, Zenon DEF LinkOK, Venue
        <3>3. v.kind \in {"none", "live", "void", "done"} /\ v.fill \in Int /\ v.fee \in Nat
            BY <3>2, Zenon DEF ChildType
        <3>4. Answers(i) =
                CASE v.kind = "none" -> {Failed("unsubmitted")}
                  [] v.kind = "live" -> {UnknownResult}
                  [] v.kind = "void" -> {UnknownResult, Failed(IF k = Dex THEN "reverted" ELSE "rejected")}
                  [] v.kind = "done" -> {UnknownResult, DoneResult(k, v)}
            BY Zenon DEF Answers
        <3> HIDE DEF v, k
        <3>5. \A ref \in References \ {"expired"} :
                /\ Failed(ref) \in ResultType /\ Failed(ref).ref = ref /\ Failed(ref).ref # "expired"
                /\ Failed(ref).status = "failed" /\ Failed(ref).delta = 0 /\ Failed(ref).executed = 0
            BY DEF Failed, Result, ResultType, Statuses
        <3>6. UnknownResult \in ResultType /\ TrueOf(O, k, UnknownResult, v) /\ UnknownResult.ref # "expired"
            BY DEF UnknownResult, Result, ResultType, Statuses, References, TrueOf, HasResult
        <3>7. CASE r = UnknownResult
            BY <3>6, <3>7, Zenon DEF k, v
        <3>8. CASE r # UnknownResult /\ v.kind = "none"
            <4>1. r = Failed("unsubmitted") /\ v = Unsent
                BY <3>2, <3>4, <3>8, Zenon DEF VenueOK
            <4>2. /\ r \in ResultType /\ r.ref = "unsubmitted"
                  /\ r.status = "failed" /\ r.delta = 0 /\ r.executed = 0
                BY <3>5, <4>1, Zenon DEF References
            <4>3. TrueOf(O, k, r, v)
                BY <4>1, <4>2, Zenon DEF TrueOf, HasResult
            <4> QED BY <4>2, <4>3, Zenon DEF k, v
        <3>9. CASE r # UnknownResult /\ v.kind = "void"
            <4>1. r = Failed(IF k = Dex THEN "reverted" ELSE "rejected") /\ v = Void
                BY <3>2, <3>4, <3>9, Zenon DEF VenueOK
            <4>2. /\ r \in ResultType /\ r.ref \in {"reverted", "rejected"}
                  /\ r.status = "failed" /\ r.delta = 0 /\ r.executed = 0
                BY <3>5, <4>1, Zenon DEF References
            <4>3. TrueOf(O, k, r, v)
                BY <4>1, <4>2, Zenon DEF TrueOf, HasResult
            <4> QED BY <4>2, <4>3, Zenon DEF k, v
        <3>10. CASE r # UnknownResult /\ v.kind = "done"
            <4>1. r = DoneResult(k, v) /\ FillOK(O, k, v)
                BY <3>2, <3>4, <3>10, Zenon DEF VenueOK
            <4>2. CASE k = Dex
                <5>1. r = Result("filled", DexDelta(O, v.fill), 0, "fill")
                    BY <4>1, <4>2, Zenon DEF DoneResult
                <5>2. DexDelta(O, v.fill) \in Int
                    BY <3>2, <3>3, QuantityAssumption, SMTT(30) DEF DexDelta, AtMost, OpType
                <5>3. r \in ResultType /\ r.status = "filled" /\ r.delta = DexDelta(O, v.fill)
                      /\ r.executed = 0 /\ r.ref = "fill"
                    BY <5>1, <5>2 DEF Result, ResultType, Statuses, References
                <5>4. TrueOf(O, k, r, v)
                    BY <3>10, <4>2, <5>3, Zenon DEF TrueOf, HasResult
                <5> QED BY <5>3, <5>4, Zenon DEF k, v
            <4>3. CASE k # Dex /\ v.fill = 0
                <5>1. r = Failed("zero_fill")
                    BY <4>1, <4>3, Zenon DEF DoneResult
                <5>2. v.fee = 0
                    BY <3>3, <4>1, <4>3, QuantityAssumption, SMTT(30) DEF FillOK
                <5>3. v = Child("done", 0, 0)
                    BY <3>2, <3>10, <4>3, <5>2, Zenon DEF Child, ChildType
                <5>4. /\ r \in ResultType /\ r.ref = "zero_fill"
                      /\ r.status = "failed" /\ r.delta = 0 /\ r.executed = 0
                    BY <3>5, <5>1, Zenon DEF References
                <5>5. TrueOf(O, k, r, v)
                    BY <5>3, <5>4, Zenon DEF TrueOf, HasResult
                <5> QED BY <5>4, <5>5, Zenon DEF k, v
            <4>4. CASE k # Dex /\ v.fill # 0
                <5>1. r = Result("filled", v.fill - v.fee, v.fill, "fill") /\ v.fill - v.fee \in Int
                    BY <3>3, <4>1, <4>4, SMTT(30) DEF DoneResult
                <5>2. r \in ResultType /\ r.status = "filled" /\ r.delta = v.fill - v.fee
                      /\ r.executed = v.fill /\ r.ref = "fill"
                    BY <3>3, <5>1, Zenon DEF Result, ResultType, Statuses, References
                <5>3. TrueOf(O, k, r, v)
                    BY <3>10, <4>4, <5>2, Zenon DEF TrueOf, HasResult
                <5> QED BY <5>2, <5>3, Zenon DEF k, v
            <4> QED BY <4>2, <4>3, <4>4, Zenon
        <3>11. CASE r # UnknownResult /\ v.kind = "live"
            BY <3>4, <3>11, Zenon
        <3> QED BY <3>3, <3>7, <3>8, <3>9, <3>10, <3>11, Zenon
    <2> SUFFICES ASSUME NEW i \in 1 .. 2, TradeInv, Reply(i) \/ ExecutorStopped(i) PROVE TradeInv'
        BY Zenon
    <2>1. Leg(i)
        BY Zenon DEF Reply, Asked, ExecutorStopped
    <2>2. UNCHANGED <<op, unresolved, child, asked, pc, plan, resuming, resumed, expired, backoff>>
        BY Zenon DEF Reply, ExecutorStopped, KeepLegs, KeepTask, journal, venues, clock
    <2>3. CASE Reply(i)
        <3>1. PICK r \in Answers(i) : Answer(i, r)
            BY <2>3, Zenon DEF Reply
        <3>2. r \in ResultType /\ TrueOf(O, calls[i].child, r, Venue(i)) /\ r.ref # "expired"
            BY <2>1, <2>AnswersTrue, Zenon
        <3> QED BY <2>1, <2>2, <3>1, <3>2, <1>AnswerStep, Zenon
    <2>4. CASE ExecutorStopped(i)
        <3>1. Answer(i, UnknownResult)
            BY <2>4, Zenon DEF ExecutorStopped
        <3>2. UnknownResult \in ResultType /\ TrueOf(O, calls[i].child, UnknownResult, Venue(i))
              /\ UnknownResult.ref # "expired"
            BY DEF UnknownResult, Result, ResultType, Statuses, References, TrueOf, HasResult
        <3> QED BY <2>1, <2>2, <3>1, <3>2, <1>AnswerStep, Zenon
    <2> QED BY <2>3, <2>4, Zenon
<1> QED BY <1>StartDexStep, <1>StartCexStep, <1>SubmitStep, <1>ReplyStep, Zenon DEF ExecuteLeg

-----------------------------------------------------------------------------
(* Results that are recorded.                                              *)

\* The steps that record a result, or find it still unknown, keep the invariant.
LEMMA RecordSteps ==
    /\ TradeInv /\ (RecordResult \/ ReconcileUnknown) => TradeInv' /\ Appends
    /\ TradeInv /\ StillUnknown => TradeInv'
\* The deadline of a retry is set or it is not.
<1>DeadlineType.
    \A k, o :
        TaskType /\ RefreshDeadline(k, o) /\ plan \in Plans
        => backoff' \in [Plans -> BOOLEAN]
    <2> TAKE k, o
    <2> HAVE TaskType /\ RefreshDeadline(k, o) /\ plan \in Plans
    <2>1. RetryPending(o) \in BOOLEAN
        BY Zenon DEF RetryPending
    <2>2. backoff \in [Plans -> BOOLEAN]
        BY Zenon DEF TaskType
    <2> QED BY <2>1, <2>2, Zenon DEF RefreshDeadline
\* A call that is answered carries a result that is true of its venue.
<1>AnsweredCall.
    \A i \in 1 .. Len(calls) :
    \A c :
        TradeInv /\ pc \in Busy /\ Answered /\ c = calls[i]
        => /\ c \in CallType /\ c.child \in Children /\ c.result \in ResultType
           /\ HasResult(c.result) /\ CallOK(pc, c, O, child[plan][c.child], asked[plan][c.child])
           /\ TrueOf(O, c.child, c.result, child[plan][c.child]) /\ Dispatched(O, c.child)
    <2> TAKE i \in 1 .. Len(calls)
    <2> TAKE c
    <2> HAVE TradeInv /\ pc \in Busy /\ Answered /\ c = calls[i]
    <2>1. calls \in Seq(CallType)
        BY Zenon DEF TradeInv, TaskType
    <2>2. c \in CallType /\ c.result # NoResult
        BY <2>1 DEF Answered
    <2>3. c.child \in Children /\ c.result \in ResultType
        BY <2>2, Zenon DEF CallType
    <2>4. CallOK(pc, c, O, child[plan][c.child], asked[plan][c.child])
        BY Zenon DEF TradeInv, TaskOK, CallsOK
    <2>5. TrueOf(O, c.child, c.result, child[plan][c.child]) /\ Dispatched(O, c.child)
        BY <2>4, Zenon DEF CallOK
    <2>6. HasResult(c.result)
        BY <2>2, <2>5, Zenon DEF TrueOf
    <2> QED BY <2>2, <2>3, <2>4, <2>5, <2>6, ZenonT(30)
\* The result of a leg is appended: a true one, and no unknown one is lost.
<1>NewIsTrue.
    \A o \in OpType :
    \A n :
    \A K \in Children :
    \A r, v :
        /\ NewResult(o, n, K, r) /\ TrueOf(o, K, r, v[K])
        /\ ResultOf(o, K) = NoResult \/ Proves(r)
        => n.dir = o.dir /\ Proven(o, n, v)
    BY DEF NewResult, Proven
\* The leg after the first of two.
<1>SecondLeg.
    TradeInv /\ pc = "exec" /\ Len(calls) > 1
    => /\ Tail(calls) = <<calls[2]>> /\ calls[1].child = Dex /\ calls[2].child = Cex
       /\ calls[2] \in CallType /\ 2 \in 1 .. Len(calls)
       /\ CallOK("exec", calls[2], O, child[plan][Cex], asked[plan][Cex])
    \* A sequence of two.
    <2>Pair.
        \A S :
        \A s \in Seq(S) :
            Len(s) > 1 /\ Len(s) \in 1 .. 2
            => Len(s) = 2 /\ 2 \in 1 .. Len(s) /\ s[2] \in S /\ Tail(s) = <<s[2]>>
        <3> TAKE S
        <3> TAKE s \in Seq(S)
        <3> HAVE Len(s) > 1 /\ Len(s) \in 1 .. 2
        <3>1. \A m \in Nat : m > 1 /\ m \in 1 .. 2 => m = 2
            OBVIOUS
        <3>2. Len(s) \in Nat
            OBVIOUS
        <3>3. Len(s) = 2
            BY <3>1, <3>2, Zenon
        <3>4. s[2] \in S
            BY <3>3
        <3>5. s # <<>>
            BY <3>3
        <3>6. Tail(s) \in Seq(S) /\ Len(Tail(s)) = 1 /\ Tail(s)[1] = s[2]
            BY <3>3, <3>5
        <3>7. <<s[2]>> \in Seq(S) /\ Len(<<s[2]>>) = 1 /\ <<s[2]>>[1] = s[2]
            BY <3>4
        <3> DEFINE t == <<s[2]>>
        <3> HIDE DEF t
        <3>8. t \in Seq(S) /\ Len(Tail(s)) = Len(t) /\ \A i \in 1 .. Len(Tail(s)) : Tail(s)[i] = t[i]
            <4>1. t \in Seq(S) /\ Len(t) = 1 /\ t[1] = s[2]
                BY <3>7, Zenon DEF t
            <4>2. \A i \in 1 .. 1 : i = 1
                OBVIOUS
            <4>3. \A i \in 1 .. Len(Tail(s)) : Tail(s)[i] = t[i]
                BY <3>6, <4>1, <4>2, Zenon
            <4> QED BY <3>6, <4>1, <4>3, Zenon
        <3>9. \A x, y \in Seq(S) : Len(x) = Len(y) /\ (\A i \in 1 .. Len(x) : x[i] = y[i]) => x = y
            OBVIOUS
        <3>10. Tail(s) = t
            BY <3>6, <3>8, <3>9, Zenon
        <3> QED BY <3>3, <3>4, <3>10, Zenon DEF t
    <2> HAVE TradeInv /\ pc = "exec" /\ Len(calls) > 1
    <2>1. calls \in Seq(CallType) /\ Len(calls) \in 1 .. 2
        BY Zenon DEF TradeInv, TaskType, TaskOK, CallsOK, Busy
    <2>2. Len(calls) = 2 /\ 2 \in 1 .. Len(calls) /\ calls[2] \in CallType
        BY <2>1, <2>Pair, Zenon
    <2>3. Tail(calls) = <<calls[2]>>
        BY <2>1, <2>Pair, Zenon
    <2>4. calls[1].child = Dex /\ calls[2].child = Cex
        BY <2>2, Zenon DEF TradeInv, TaskOK, CallsOK
    <2>5. CallOK(pc, calls[2], O, child[plan][calls[2].child], asked[plan][calls[2].child])
        BY <2>2, Zenon DEF TradeInv, TaskOK, CallsOK
    <2> QED BY <2>2, <2>3, <2>4, <2>5, Zenon
\* RecordResult keeps the invariant.
<1>RecordResultStep. TradeInv /\ RecordResult => TradeInv' /\ Appends
    <2> SUFFICES ASSUME TradeInv, RecordResult PROVE TradeInv' /\ Appends
        BY Zenon
    <2> DEFINE c == calls[1]
               k == c.child
               r == c.result
               n == Recorded(O, k, r)
    <2>1. pc = "exec" /\ Answered
        BY Zenon DEF RecordResult
    <2>2. pc \in Busy /\ pc \in AtPlan
        BY <2>1, Zenon DEF Busy, AtPlan
    <2>3. calls \in Seq(CallType) /\ Len(calls) \in 1 .. 2 /\ 1 \in 1 .. Len(calls)
        <3>1. calls \in Seq(CallType) /\ Len(calls) \in 1 .. 2
            BY <2>2, Zenon DEF TradeInv, TaskType, TaskOK, CallsOK
        <3>2. \A m \in 1 .. 2 : 1 \in 1 .. m
            OBVIOUS
        <3> QED BY <3>1, <3>2, Zenon
    <2>4. Head(calls) = c
        BY <2>3
    <2>5. /\ Persist(plan, n) /\ RefreshDeadline(k, n) /\ calls' = Tail(calls)
          /\ pc' = IF Len(calls) > 1 THEN "exec" ELSE IF resumed THEN "resume" ELSE "drive"
          /\ UNCHANGED <<child, asked, plan, resuming, resumed, expired>>
        BY <2>4, Zenon DEF RecordResult, GoTo, KeepTask, venues
    <2>6. /\ k \in Children /\ r \in ResultType /\ HasResult(r) /\ Dispatched(O, k)
          /\ CallOK(pc, c, O, child[plan][k], asked[plan][k]) /\ TrueOf(O, k, r, child[plan][k])
        BY <2>1, <2>2, <2>3, <1>AnsweredCall, Zenon
    <2> HIDE DEF c, k, r
    <2>7. /\ plan \in Plans /\ O \in OpType /\ ParentOK(O) /\ Open(O)
          /\ LinkOK(O, k, child[plan][k], asked[plan][k])
        BY <2>2, <2>6, Driven, Zenon
    <2>8. ResultOf(O, k) = NoResult
        <3>1. ~HasResult(ResultOf(O, k))
            BY <2>1, <2>6, Zenon DEF CallOK, k
        <3> QED BY <2>7, <3>1, Zenon DEF LinkOK, TrueOf
    <2> HIDE DEF n
    <2>9. Keeps(O, n) /\ NewResult(O, n, k, r) /\ Open(n)
        BY <2>6, <2>7, <2>8, RecordedKeeps, Zenon DEF n
    <2>10. n.dir = O.dir /\ Proven(O, n, child[plan])
        BY <2>6, <2>7, <2>8, <2>9, <1>NewIsTrue, Zenon
    <2>11. backoff' \in [Plans -> BOOLEAN]
        BY <2>5, <2>7, <1>DeadlineType, Zenon DEF TradeInv
    <2>12. CASE Len(calls) > 1
        <3> DEFINE d == calls[2]
        <3>1. /\ Tail(calls) = <<d>> /\ d.child = Cex /\ d \in CallType /\ k = Dex
              /\ CallOK("exec", d, O, child[plan][Cex], asked[plan][Cex])
            BY <2>1, <2>12, <1>SecondLeg, Zenon DEF k, c
        <3> HIDE DEF d
        <3>2. pc' = "exec" /\ calls' = <<d>>
            BY <2>5, <2>12, <3>1, Zenon
        <3>3. n \in OpType /\ Cex \in Children /\ Cex # Dex
            BY <2>9, ChildrenAre DEF Keeps, Dex, Cex
        <3>4. /\ Dispatched(O, Cex) /\ <<d.target, d.price>> = Command(O, Cex) /\ ~d.recon
              /\ TrueOf(O, Cex, d.result, child[plan][Cex]) /\ ~HasResult(ResultOf(O, Cex))
              /\ d.at = "asked" => asked[plan][Cex] # {}
            BY <3>1, <3>3, Zenon DEF CallOK
        <3>5. Dispatched(n, Cex) /\ <<d.target, d.price>> = Command(n, Cex)
            BY <2>9, <3>3, <3>4, Zenon DEF Keeps
        <3>6. ResultOf(n, Cex) = ResultOf(O, Cex)
            BY <2>9, <3>1, <3>3, Zenon DEF NewResult
        <3>7. TrueOf(n, Cex, d.result, child[plan][Cex])
            BY <2>7, <2>10, <3>3, <3>4, SameTruth, Zenon
        <3>8. CallOK("exec", d, n, child[plan][Cex], asked[plan][Cex])
            BY <3>1, <3>4, <3>5, <3>6, <3>7, Zenon DEF CallOK
        <3>9. /\ JournalOK' /\ Index' /\ Appends /\ O' = n
              /\ plan' \in Plans \ resuming' /\ Open(O') /\ \A p \in resuming' : Open(op'[p])
            BY <2>2, <2>5, <2>9, <2>10, DriveAppends, Zenon
        <3>10. pc' \in Busy /\ CallOK(pc', d, O', child'[plan'][d.child], asked'[plan'][d.child])
            BY <2>5, <3>1, <3>2, <3>8, <3>9, Zenon DEF Busy
        <3>11. CallsOK' /\ calls' \in Seq(CallType)
            BY <3>1, <3>2, <3>10, OneCall, Zenon
        <3>12. resuming' \subseteq Plans /\ resumed' \in BOOLEAN
            BY <2>5, Zenon DEF TradeInv, TaskType
        <3> QED BY <2>5, <2>11, <3>9, <3>10, <3>11, <3>12, Waits, ZenonT(30)
    <2>13. CASE ~(Len(calls) > 1)
        <3>1. calls' = <<>> /\ pc' \in {"resume", "drive"}
            BY <2>3, <2>5, <2>13
        <3> QED BY <2>2, <2>5, <2>9, <2>10, <2>11, <3>1, AppendsOn, ZenonT(30)
    <2> QED BY <2>12, <2>13, Zenon
\* ReconcileUnknown keeps the invariant.
<1>ReconcileUnknownStep. TradeInv /\ ReconcileUnknown => TradeInv' /\ Appends
    <2> SUFFICES ASSUME TradeInv, ReconcileUnknown PROVE TradeInv' /\ Appends
        BY Zenon
    <2> DEFINE c == calls[1]
               k == c.child
               r == c.result
               n == Reconciled(O, k, r)
    <2>1. pc \in {"await_dex", "await_cex"} /\ Answered /\ r.status # "unknown"
        BY Zenon DEF ReconcileUnknown
    <2>2. pc \in Busy /\ pc \in AtPlan /\ pc # "exec"
        BY <2>1, Zenon DEF Busy, AtPlan
    <2>3. Len(calls) \in 1 .. 2 /\ 1 \in 1 .. Len(calls) /\ O.stage = "unknown_exposure"
        BY <2>1, <2>2, SMTT(30) DEF TradeInv, TaskOK, CallsOK
    <2>4. /\ Persist(plan, n) /\ RefreshDeadline(k, n) /\ calls' = <<>> /\ pc' = "drive"
          /\ UNCHANGED <<child, asked, plan, resuming, resumed, expired>>
        BY Zenon DEF ReconcileUnknown, GoTo, KeepTask, venues
    <2>5. /\ k \in Children /\ r \in ResultType /\ HasResult(r)
          /\ CallOK(pc, c, O, child[plan][k], asked[plan][k]) /\ TrueOf(O, k, r, child[plan][k])
        BY <2>1, <2>2, <2>3, <1>AnsweredCall, Zenon
    <2>6. ResultOf(O, k).status = "unknown"
        BY <2>2, <2>5, Zenon DEF CallOK
    <2> HIDE DEF c, k, r, n
    <2>7. Known(r)
        BY <2>1, <2>5, Zenon DEF HasResult, Known, ResultType, Statuses
    <2>8. plan \in Plans /\ O \in OpType /\ ParentOK(O) /\ Open(O)
        BY <2>2, Driven, Zenon
    <2>9. Keeps(O, n) /\ NewResult(O, n, k, r) /\ Open(n)
        BY <2>3, <2>5, <2>6, <2>7, <2>8, ReconciledKeeps, Zenon DEF n
    <2>10. n.dir = O.dir /\ Proven(O, n, child[plan])
        <3>1. r.ref = "expired" => k # Dex
            BY <2>2, <2>5, Zenon DEF CallOK, k, r, Busy
        <3>2. r.status = "failed" => r.ref # "expired"
            BY <2>5, <3>1, Zenon DEF TrueOf
        <3> QED BY <2>5, <2>7, <2>8, <2>9, <3>2, <1>NewIsTrue, Zenon DEF Proves
    <2>11. backoff' \in [Plans -> BOOLEAN]
        BY <2>4, <2>8, <1>DeadlineType, Zenon DEF TradeInv
    <2> QED BY <2>2, <2>4, <2>9, <2>10, <2>11, AppendsOn, ZenonT(30)
\* StillUnknown keeps the invariant.
<1>StillUnknownStep. TradeInv /\ StillUnknown => TradeInv'
    <2> SUFFICES ASSUME TradeInv, StillUnknown PROVE TradeInv'
        BY Zenon
    <2>1. pc \in AtPlan /\ calls' = <<>>
        BY Zenon DEF StillUnknown, AtPlan, Busy
    <2>2. UNCHANGED <<op, unresolved, child, asked, resuming, resumed, expired, backoff>>
        BY Zenon DEF StillUnknown, KeepTask, journal, venues, clock
    <2>3. CASE pc = "await_dex"
        <3>1. plan' = plan /\ pc' = "reconcile_cex"
            BY <2>3, Zenon DEF StillUnknown, KeepTask, GoTo
        <3> QED BY <2>1, <2>2, <3>1, MovesOn, Zenon
    <2>4. CASE pc # "await_dex"
        <3>1. plan' = 0 /\ pc' \in {"next", "idle"}
            BY <2>4, Zenon DEF StillUnknown, GoTo
        <3> QED BY <2>1, <2>2, <3>1, LeavesAlone, Zenon
    <2> QED BY <2>3, <2>4, Zenon
<1> QED BY <1>RecordResultStep, <1>ReconcileUnknownStep, <1>StillUnknownStep, Zenon

-----------------------------------------------------------------------------
(* Restarts, venues and time.                                              *)

\* Start keeps the invariant: the index is recomputed.
LEMMA StartStep == TradeInv /\ Start => TradeInv'
<1> SUFFICES ASSUME TradeInv, Start PROVE TradeInv'
    BY Zenon
<1> DEFINE S == {StrategyOf[p] : p \in Plans}
           N(s) == Cardinality({p \in Plans : StrategyOf[p] = s /\ Unresolved(op[p])})
<1>1. pc = "down" /\ pc' = "next" /\ UNCHANGED <<op, plan, resumed, calls, child, asked, expired, backoff>>
    BY Zenon DEF Start, GoTo, venues, clock
<1>2. resuming' = {p \in Plans : op[p].stage \notin {"none", "balanced"}}
    BY Zenon DEF Start
<1>3. DOMAIN unresolved = S
    BY Zenon DEF TradeInv, JournalOK, JournalType
<1>4. unresolved' = [s \in S |-> N(s)]
    BY <1>3, Zenon DEF Start
<1>5. \A s \in S : N(s) \in Nat
    BY Zenon DEF TradeInv, JournalOK, PlanSets
<1>6. Index'
    BY <1>1, <1>4, Zenon DEF Index
<1>7. JournalType'
    BY <1>1, <1>4, <1>5, Zenon DEF TradeInv, JournalOK, JournalType
<1>8. ParentsOK' /\ OneParentPerStrategy'
    BY <1>1, Zenon DEF TradeInv, JournalOK, ParentsOK, LinksOK, OneParentPerStrategy
<1>9. calls' = <<>>
    BY <1>1, Quiet, Zenon DEF Busy
<1>10. resuming' \subseteq Plans /\ \A p \in resuming' : Open(op'[p])
    BY <1>1, <1>2, Zenon DEF Open
<1>11. plan' \in Plans \cup {0} /\ resumed' \in BOOLEAN
    BY <1>1, Zenon DEF TradeInv, TaskType
<1>12. JournalOK'
    BY <1>7, <1>8, Zenon DEF TradeInv, JournalOK
<1> QED BY <1>1, <1>6, <1>9, <1>10, <1>11, <1>12, Leaves, Zenon

\* ResumeNext keeps the invariant.
LEMMA ResumeNextStep == TradeInv /\ ResumeNext => TradeInv'
<1> SUFFICES ASSUME TradeInv, ResumeNext PROVE TradeInv'
    BY Zenon
<1>1. pc = "next" /\ UNCHANGED <<op, unresolved, calls, child, asked, expired, backoff>>
    BY Zenon DEF ResumeNext, journal, venues, clock
<1>2. JournalOK' /\ Index' /\ calls' = <<>>
    BY <1>1, StayStep, Quiet, Zenon DEF TradeInv, IndexOK, Busy
<1>3. resuming \subseteq Plans /\ \A p \in resuming : Open(op[p])
    BY Zenon DEF TradeInv, TaskType, TaskOK
<1>4. backoff' \in [Plans -> BOOLEAN]
    BY <1>1, Zenon DEF TradeInv, TaskType
<1>5. CASE resuming = {}
    <2>1. pc' = "idle" /\ UNCHANGED <<plan, resuming, resumed>>
        BY <1>5, Zenon DEF ResumeNext, GoTo
    <2>2. plan' \in Plans \cup {0} /\ resumed' \in BOOLEAN
        BY <2>1, Zenon DEF TradeInv, TaskType
    <2> QED BY <1>1, <1>2, <1>3, <2>1, <2>2, Leaves, Zenon
<1>6. CASE resuming # {}
    <2> DEFINE p == CHOOSE q \in resuming : \A r \in resuming : q <= r
    <2>1. plan' = p /\ resuming' = resuming \ {p} /\ resumed' = TRUE /\ pc' = "resume"
        BY <1>6, Zenon DEF ResumeNext, GoTo
    <2>2. p \in resuming
        <3>1. \E q \in resuming : \A r \in resuming : q <= r
            BY <1>3, <1>6, Zenon DEF TradeInv, JournalOK, PlanSets
        <3> QED BY <3>1, Zenon
    <2> HIDE DEF p
    <2>3. plan' \in Plans \ resuming' /\ resuming' \subseteq Plans /\ Open(O')
        BY <1>1, <1>3, <2>1, <2>2, Zenon DEF O
    <2>4. \A q \in resuming' : Open(op'[q])
        BY <1>1, <1>3, <2>1, Zenon
    <2> QED BY <1>1, <1>2, <1>4, <2>1, <2>3, <2>4, GoesOn, ZenonT(30)
<1> QED BY <1>5, <1>6, Zenon

\* JournalFails keeps the invariant.
LEMMA JournalFailsStep == TradeInv /\ JournalFails => TradeInv'
<1> SUFFICES ASSUME TradeInv, JournalFails PROVE TradeInv'
    BY Zenon
<1>1. pc \in AtPlan
    BY Zenon DEF JournalFails, AtPlan, Busy
<1>2. calls' = <<>> /\ plan' = 0 /\ pc' \in {"failed", "poisoned"}
    BY Zenon DEF JournalFails, GoTo
<1>3. UNCHANGED <<op, unresolved, child, asked, resuming, resumed, expired, backoff>>
    BY Zenon DEF JournalFails, journal, venues, clock
<1> QED BY <1>1, <1>2, <1>3, LeavesAlone, Zenon

\* Crash keeps the invariant.
LEMMA CrashStep == TradeInv /\ Crash => TradeInv'
<1> SUFFICES ASSUME TradeInv, Crash PROVE TradeInv'
    BY Zenon
<1>1. calls' = <<>> /\ plan' = 0 /\ pc' = "down" /\ resuming' = {} /\ resumed' = FALSE
    BY Zenon DEF Crash, GoTo
<1>2. UNCHANGED <<op, unresolved, child, asked, expired, backoff>>
    BY Zenon DEF Crash, journal, venues, clock
<1>3. JournalOK'
    BY <1>2, StayStep, Zenon DEF TradeInv
<1> QED BY <1>1, <1>2, <1>3, Leaves, Zenon

\* Time passes: Expire and BackoffElapses keep the invariant.
LEMMA TimeStep == \A p \in Plans : TradeInv /\ (Expire(p) \/ BackoffElapses(p)) => TradeInv'
<1> SUFFICES ASSUME NEW p \in Plans, TradeInv, Expire(p) \/ BackoffElapses(p) PROVE TradeInv'
    BY Zenon
<1>1. UNCHANGED <<op, unresolved, child, asked, pc, plan, resuming, resumed, calls>>
    BY Zenon DEF Expire, BackoffElapses, journal, venues, task
<1>2. expired' \in [Plans -> BOOLEAN] /\ backoff' \in [Plans -> BOOLEAN]
    BY Zenon DEF Expire, BackoffElapses, TradeInv, TaskType
<1>3. JournalOK' /\ (Index => Index')
    BY <1>1, StayStep, Zenon DEF TradeInv
<1>4. TaskType'
    BY <1>1, <1>2, Zenon DEF TradeInv, TaskType
<1>5. TaskOK'
    BY <1>1, Zenon DEF TradeInv, TaskOK, CallsOK, O
<1> QED BY <1>1, <1>3, <1>4, <1>5, Zenon DEF TradeInv, IndexOK

\* Admit keeps the invariant: the strategy has no open parent.
LEMMA AdmitStep == \A p \in Plans : TradeInv /\ Admit(p) => TradeInv' /\ Appends
<1> SUFFICES ASSUME NEW p \in Plans, TradeInv, Admit(p) PROVE TradeInv' /\ Appends
    BY Zenon
<1>1. pc = "idle" /\ op[p].stage = "none" /\ AuthorizeEntry(p)
    BY Zenon DEF Admit
<1>2. PICK mode \in Modes, dir \in Directions :
         Persist(p, [NoOp EXCEPT !.stage = "prepared", !.mode = mode, !.dir = dir])
    BY Zenon DEF Admit
<1> DEFINE n == [NoOp EXCEPT !.stage = "prepared", !.mode = mode, !.dir = dir]
<1>3. /\ Keeps(NoOp, n) /\ n.stage = "prepared"
      /\ \A k \in Children : ~Dispatched(n, k) /\ ResultOf(n, k) = NoResult
    BY AdmitKeeps, Zenon
<1> HIDE DEF n
<1>4. Persist(p, n)
    BY <1>2, Zenon DEF n
<1>5. /\ pc' = "drive" /\ plan' = p /\ resumed' = FALSE
      /\ UNCHANGED <<resuming, calls, child, asked, expired, backoff>>
    BY Zenon DEF Admit, GoTo, venues, clock
<1>6. JournalOK /\ JournalType /\ Index /\ calls = <<>>
    BY <1>1, Quiet, Zenon DEF TradeInv, IndexOK, JournalOK, Busy
<1>7. op[p] = NoOp
    BY <1>1, <1>6, Zenon DEF JournalOK, ParentsOK, ParentOK, DexOK
<1>8. \A k \in Children : child[p][k] = Unsent /\ asked[p][k] = {}
    <2>1. \A k \in Children : LinkOK(NoOp, k, child[p][k], asked[p][k])
        BY <1>6, <1>7, Zenon DEF JournalOK, ParentsOK, LinksOK
    <2> QED BY <2>1, NoOpOK, Zenon DEF LinkOK
<1>9. n \in OpType
    BY <1>3, Zenon DEF Keeps
<1>10. \A k \in Children : LinkOK(n, k, child[p][k], asked[p][k])
    BY <1>3, <1>8, <1>9, Unlinked, Zenon
<1>11. \A q \in Plans : StrategyOf[q] = StrategyOf[p] => ~Open(op[q])
    <2> DEFINE U == {q \in Plans : StrategyOf[q] = StrategyOf[p] /\ Unresolved(op[q])}
    <2>1. Cardinality(U) = 0
        BY <1>1, <1>6, Zenon DEF Index, AuthorizeEntry
    <2>2. U \subseteq Plans
        BY Zenon
    <2>3. U = {}
        BY <2>1, <2>2, Zenon DEF TradeInv, JournalOK, PlanSets
    <2>4. \A q \in Plans : StrategyOf[q] = StrategyOf[p] =>
             op[q].stage \notin ActiveStages /\ op[q].stage \notin UnresolvedStages
        BY <1>1, <2>3, Zenon DEF AuthorizeEntry, Unresolved
    <2>5. \A q \in Plans : op[q].stage \in Stages
        BY <1>6, Zenon DEF JournalType, OpType
    <2> QED BY <2>4, <2>5, Zenon DEF Stages, ActiveStages, UnresolvedStages, Open
<1>12. JournalOK' /\ Index' /\ op'[p] = n /\ \A q \in Plans \ {p} : op'[q] = op[q]
    BY <1>3, <1>4, <1>5, <1>6, <1>7, <1>10, <1>11, AppendStep, ZenonT(30)
<1>13. resuming \subseteq Plans /\ \A q \in resuming : Open(op[q])
    BY Zenon DEF TradeInv, TaskType, TaskOK
<1>14. p \notin resuming
    BY <1>1, <1>13, Zenon DEF Open
<1>15. Open(O')
    BY <1>3, <1>5, <1>12, Zenon DEF O, Open
<1>16. \A q \in resuming' : Open(op'[q])
    BY <1>5, <1>12, <1>13, <1>14, Zenon
<1>17. plan' \in Plans \ resuming' /\ resuming' \subseteq Plans
    BY <1>5, <1>13, <1>14, Zenon
<1>18. backoff' \in [Plans -> BOOLEAN]
    BY <1>5, Zenon DEF TradeInv, TaskType
<1>19. Proven(op[p], n, child[p])
    BY <1>3, <1>7, NoOpOK, Zenon DEF Proven
<1>20. Appends
    BY <1>3, <1>5, <1>7, <1>12, <1>19, Zenon DEF Appends
<1> QED BY <1>5, <1>6, <1>12, <1>15, <1>16, <1>17, <1>18, <1>20, GoesOn, ZenonT(30)

\* Decide keeps the invariant: no result of a live order is final.
LEMMA DecideStep == \A p \in Plans, k \in Children : TradeInv /\ Decide(p, k) => TradeInv'
\* A result that is true while the order is live stays true.
<1>TrueWhileLive.
    \A o, k, r, v, w :
        TrueOf(o, k, r, v) /\ v.kind = "live"
        => TrueOf(o, k, r, w)
    BY DEF TrueOf, Unsent, Void, Child
<1> SUFFICES ASSUME NEW p \in Plans, NEW k \in Children, TradeInv, Decide(p, k) PROVE TradeInv'
    BY Zenon
<1>1. child[p][k].kind = "live"
    BY Zenon DEF Decide
<1>2. UNCHANGED <<op, unresolved, asked, pc, plan, resuming, resumed, calls, expired, backoff>>
    BY Zenon DEF Decide, journal, task, clock
<1>3. PICK w \in {Void} \cup {f \in Fills(p, k) : f.fill = 0 => f.fee = 0} : SetChild(p, k, w)
    BY Zenon DEF Decide
<1>4. child' = [child EXCEPT ![p][k] = w]
    BY <1>3, Zenon DEF SetChild
<1>5. JournalOK /\ LinkOK(op[p], k, child[p][k], asked[p][k])
    BY Zenon DEF TradeInv, JournalOK, ParentsOK, LinksOK
<1>6. w \in ChildType /\ VenueOK(op[p], k, w)
    BY <1>1, <1>5, FillsOK, Zenon
<1>7. asked[p][k] # {}
    <2>1. child[p][k] # Unsent
        BY <1>1 DEF Unsent, Child
    <2> QED BY <1>5, <2>1, Zenon DEF LinkOK
<1>8. TrueOf(op[p], k, ResultOf(op[p], k), w)
    BY <1>1, <1>5, <1>TrueWhileLive, Zenon DEF LinkOK
<1>9. /\ JournalOK' /\ (Index => Index')
      /\ child'[p][k] = w
      /\ \A q \in Plans, j \in Children : (q # p \/ j # k) => child'[q][j] = child[q][j]
    BY <1>2, <1>4, <1>5, <1>6, <1>7, <1>8, VenueStep, ZenonT(30)
<1>10. TaskType'
    BY <1>2, Zenon DEF TradeInv, TaskType
<1>11. CallsOK'
    <2>1. CASE pc \notin Busy
        <3>1. calls' = <<>> /\ pc' \notin Busy
            BY <1>2, <2>1, Quiet, Zenon
        <3> QED BY <3>1, NoCalls, Zenon
    <2>2. CASE pc \in Busy
        <3>1. pc \in AtPlan
            BY <2>2, Zenon DEF AtPlan
        <3>2. plan \in Plans /\ O' = O
            BY <1>2, <3>1, Driven, Zenon DEF O
        <3>3. ASSUME NEW i \in 1 .. Len(calls)
              PROVE  CallOK(pc, calls[i], O, child'[plan][calls[i].child], asked[plan][calls[i].child])
            <4> DEFINE c == calls[i]
            <4>1. CallOK(pc, c, O, child[plan][c.child], asked[plan][c.child])
                BY <3>3, Zenon DEF TradeInv, TaskOK, CallsOK
            <4>2. c \in CallType
                BY <3>3 DEF TradeInv, TaskType
            <4> HIDE DEF c
            <4>3. c.child \in Children
                BY <4>2, Zenon DEF CallType
            <4>4. TrueOf(O, c.child, c.result, child'[plan][c.child])
                <5>1. CASE plan = p /\ c.child = k
                    <6>1. TrueOf(O, c.child, c.result, child[p][k])
                        BY <4>1, <5>1, Zenon DEF CallOK
                    <6> QED BY <1>1, <6>1, <1>TrueWhileLive, Zenon
                <5>2. CASE plan # p \/ c.child # k
                    <6>1. child'[plan][c.child] = child[plan][c.child]
                        BY <1>9, <3>2, <4>3, <5>2, Zenon
                    <6> QED BY <4>1, <6>1, Zenon DEF CallOK
                <5> QED BY <5>1, <5>2, Zenon
            <4>5. CallOK(pc, c, O, child'[plan][c.child], asked[plan][c.child])
                BY <4>1, <4>4, Zenon DEF CallOK
            <4> QED BY <4>5, Zenon DEF c
        <3>4. \A i \in 1 .. Len(calls') :
                CallOK(pc', calls'[i], O', child'[plan'][calls'[i].child], asked'[plan'][calls'[i].child])
            BY <1>2, <3>2, <3>3, Zenon
        <3>5. CallsOK
            BY Zenon DEF TradeInv, TaskOK
        <3> QED BY <1>2, <3>2, <3>4, <3>5, ZenonT(30) DEF CallsOK
    <2> QED BY <2>1, <2>2, Zenon
<1>12. TaskOK'
    BY <1>2, <1>11, Zenon DEF TradeInv, TaskOK, O
<1> QED BY <1>2, <1>9, <1>10, <1>12, ZenonT(30) DEF TradeInv, IndexOK

-----------------------------------------------------------------------------
(* The invariant.                                                          *)

\* The steps that append nothing.
LEMMA NoAppend ==
    \/ AwaitBackoff \/ FinishRefused \/ ExecuteLeg \/ ReconcileDex \/ SkipDex \/ ReconcileCex
    \/ Blocked \/ StillUnknown \/ Wait \/ Resume \/ JournalFails \/ Crash \/ Environment
    => Appends
<1> HAVE \/ AwaitBackoff \/ FinishRefused \/ ExecuteLeg \/ ReconcileDex \/ SkipDex \/ ReconcileCex
         \/ Blocked \/ StillUnknown \/ Wait \/ Resume \/ JournalFails \/ Crash \/ Environment
<1>1. ExecuteLeg => op' = op
    BY Zenon DEF ExecuteLeg, StartDex, StartCex, Submit, Reply, ExecutorStopped, KeepLegs, journal
<1>2. Environment => op' = op
    BY Zenon DEF Environment, Expire, BackoffElapses, Decide, journal
<1>3. AwaitBackoff \/ FinishRefused \/ ReconcileDex \/ SkipDex \/ ReconcileCex => op' = op
    BY Zenon DEF AwaitBackoff, FinishRefused, ReconcileDex, SkipDex, ReconcileCex, Replay, journal
<1>4. Blocked \/ StillUnknown \/ Wait => op' = op
    BY Zenon DEF Blocked, StillUnknown, Wait, SleepBackoff, WakeUp, MissBackoff, journal
<1>5. Resume => op' = op
    BY Zenon DEF Resume, Start, ResumeNext, ResumeCommand, ResumeDrive, Replay, journal
<1>6. JournalFails \/ Crash => op' = op
    BY Zenon DEF JournalFails, Crash, journal
<1>7. op' = op
    BY <1>1, <1>2, <1>3, <1>4, <1>5, <1>6, Zenon
<1> QED BY <1>7, Zenon DEF Appends

\* Every step keeps the invariant, and what it appends is a snapshot the journal accepts.
LEMMA NextTradeInv == TradeInv /\ [Next]_vars => TradeInv' /\ Appends
<1> SUFFICES ASSUME TradeInv, [Next]_vars PROVE TradeInv' /\ Appends
    BY Zenon
<1>1. CASE \E p \in Plans : Admit(p)
    BY <1>1, AdmitStep, Zenon
<1>2. CASE TakeCommands
    <2>1. CASE AwaitBackoff
        BY <2>1, QuietSteps, NoAppend, Zenon
    <2>2. CASE FinishRefused
        BY <2>2, LeavingSteps, NoAppend, Zenon
    <2>3. CASE SelectPrice \/ MarkUnknown \/ DispatchEntry \/ DispatchHedge
        BY <2>3, SelectPriceStep, MarkUnknownStep, CommandSteps, Zenon
    <2>4. CASE StartRecovery \/ RetryRecovery \/ Finish
        BY <2>4, CommandSteps, FinishStep, Zenon
    <2> QED BY <1>2, <2>1, <2>2, <2>3, <2>4, Zenon DEF TakeCommands
<1>3. CASE ExecuteLeg
    <2>1. TradeInv'
        BY <1>3, LegSteps, Zenon
    <2> QED BY <1>3, <2>1, NoAppend, Zenon
<1>4. CASE RecordResult
    BY <1>4, RecordSteps, Zenon
<1>5. CASE Reconcile
    <2>1. CASE ReconcileUnknown
        BY <2>1, RecordSteps, Zenon
    <2>2. CASE ReconcileDex \/ SkipDex \/ ReconcileCex \/ Blocked \/ StillUnknown
        BY <2>2, CommandSteps, QuietSteps, LeavingSteps, RecordSteps, NoAppend, Zenon
    <2> QED BY <1>5, <2>1, <2>2, Zenon DEF Reconcile
<1>6. CASE Wait
    <2>1. TradeInv'
        BY <1>6, QuietSteps, LeavingSteps, Zenon DEF Wait
    <2> QED BY <1>6, <2>1, NoAppend, Zenon
<1>7. CASE Resume
    <2>1. TradeInv'
        BY <1>7, StartStep, ResumeNextStep, CommandSteps, QuietSteps, Zenon DEF Resume
    <2> QED BY <1>7, <2>1, NoAppend, Zenon
<1>8. CASE JournalFails \/ Crash
    BY <1>8, JournalFailsStep, CrashStep, NoAppend, Zenon
<1>9. CASE Environment
    <2>1. TradeInv'
        BY <1>9, TimeStep, DecideStep, Zenon DEF Environment
    <2> QED BY <1>9, <2>1, NoAppend, Zenon
<1>10. CASE UNCHANGED vars
    <2>1. UNCHANGED <<op, unresolved, child, asked, pc, plan, resuming, resumed, calls, expired, backoff>>
        BY <1>10, Zenon DEF vars, journal, task, venues, clock
    <2>2. JournalOK' /\ (Index => Index')
        BY <2>1, StayStep, Zenon DEF TradeInv
    <2>3. TaskType'
        BY <2>1, Zenon DEF TradeInv, TaskType
    <2>4. TaskOK'
        BY <2>1, Zenon DEF TradeInv, TaskOK, CallsOK, O
    <2> QED BY <2>1, <2>2, <2>3, <2>4, Zenon DEF TradeInv, IndexOK, Appends
<1> QED BY <1>1, <1>2, <1>3, <1>4, <1>5, <1>6, <1>7, <1>8, <1>9, <1>10, ZenonT(30) DEF Next, Step

\* The invariant holds when the first process starts on an empty journal.
LEMMA InitTradeInv == Init /\ PlanSets => TradeInv
<1> SUFFICES ASSUME Init, PlanSets PROVE TradeInv
    BY Zenon
<1>1. NoOp \in OpType /\ ParentOK(NoOp) /\ \A k \in Children : ResultOf(NoOp, k) = NoResult
    BY NoOpOK, ZenonT(30)
<1>2. /\ op = [p \in Plans |-> NoOp]
      /\ child = [p \in Plans |-> [k \in Children |-> Unsent]]
      /\ asked = [p \in Plans |-> [k \in Children |-> {}]]
    BY Zenon DEF Init
<1>3. Unsent \in ChildType
    BY DEF Unsent, Child, ChildType
<1>4. JournalType
    <2>1. op \in [Plans -> OpType]
        BY <1>1, <1>2, ZenonT(30)
    <2>2. unresolved \in [{StrategyOf[p] : p \in Plans} -> Nat]
        BY Zenon DEF Init
    <2>3. child \in [Plans -> [Children -> ChildType]]
        BY <1>2, <1>3, ZenonT(30)
    <2>4. asked \in [Plans -> [Children -> SUBSET (Int \X Nat)]]
        BY <1>2, ZenonT(30)
    <2> QED BY <2>1, <2>2, <2>3, <2>4, ZenonT(30) DEF JournalType
<1>5. ParentsOK
    <2>1. \A k \in Children : LinkOK(NoOp, k, Unsent, {})
        BY <1>1, Unlinked, ZenonT(30)
    <2> QED BY <1>1, <1>2, <2>1, ZenonT(30) DEF ParentsOK, LinksOK
<1>6. OneParentPerStrategy
    BY <1>2, ZenonT(30) DEF OneParentPerStrategy, NoOp
<1>7. pc = "down" /\ calls = <<>> /\ plan = 0 /\ resuming = {} /\ resumed = FALSE
    BY Zenon DEF Init
<1>8. TaskType
    <2>1. calls \in Seq(CallType)
        BY <1>7, SMTT(30)
    <2> QED BY <1>7, <2>1, ZenonT(30) DEF Init, TaskType, Places
<1>9. CallsOK
    <2>1. Len(calls) = 0 /\ pc \notin Busy /\ pc \notin {"await_dex", "await_cex"}
        BY <1>7, Zenon DEF Busy
    <2> QED BY <1>7, <2>1, SMTT(30) DEF CallsOK
<1>10. TaskOK
    BY <1>7, <1>9, ZenonT(30) DEF TaskOK, AtPlan, Busy
<1> QED BY <1>4, <1>5, <1>6, <1>7, <1>8, <1>10, ZenonT(30) DEF TradeInv, JournalOK, IndexOK

(* What the process publishes, and what it counts.                         *)
Published ==
    /\ event \in [Plans -> {"none", "balanced", "blocked", "rejected"}]
    /\ stopped \subseteq {"dex", "binance"} /\ crashes \in Nat

\* Every step keeps the types of what the process publishes and counts.
LEMMA PublishedStep == TradeInv /\ Published /\ [Next]_vars => Published'
<1> SUFFICES ASSUME TradeInv, Published, [Next]_vars PROVE Published'
    BY Zenon
<1> DEFINE Events == {"none", "balanced", "blocked", "rejected"}
<1>1. event \in [Plans -> Events] /\ stopped \subseteq {"dex", "binance"} /\ crashes \in Nat
    BY Zenon DEF Published
<1>2. ASSUME NEW e \in Events PROVE [event EXCEPT ![plan] = e] \in [Plans -> Events]
    BY <1>1, Zenon
<1>3. ASSUME UNCHANGED <<event, stopped, crashes>> PROVE Published'
    BY <1>3, Zenon DEF Published
<1>4. CASE \E p \in Plans : Admit(p)
    BY <1>3, <1>4, Zenon DEF Admit
<1>5. CASE TakeCommands
    <2>1. CASE Finish \/ FinishRefused
        <3>1. event' = event \/ \E e \in Events : event' = [event EXCEPT ![plan] = e]
            BY <2>1, Zenon DEF Finish, FinishRefused, Return, KeepTask
        <3>2. stopped' = stopped /\ crashes' = crashes
            BY <2>1, Zenon DEF Finish, FinishRefused, Return, KeepTask
        <3> QED BY <1>1, <1>2, <3>1, <3>2, Zenon DEF Published
    <2>2. CASE ~(Finish \/ FinishRefused)
        BY <1>3, <1>5, <2>2, Zenon DEF TakeCommands, SelectPrice, MarkUnknown, DispatchEntry, DispatchHedge,
            StartRecovery, RetryRecovery, AwaitBackoff, Dispatch, KeepTask
    <2> QED BY <2>1, <2>2, Zenon
<1>6. CASE ExecuteLeg
    <2>1. event' = event /\ crashes' = crashes
        BY <1>6, Zenon DEF ExecuteLeg, StartDex, StartCex, Submit, Reply, ExecutorStopped, KeepLegs, KeepTask
    <2>2. stopped' = stopped \/ \E i \in 1 .. 2 : stopped' = stopped \cup {VenueOf(calls[i].child)}
        BY <1>6, Zenon DEF ExecuteLeg, StartDex, StartCex, Submit, Reply, ExecutorStopped, KeepLegs, KeepTask
    <2>3. stopped' \subseteq {"dex", "binance"}
        BY <1>1, <2>2, Zenon DEF VenueOf
    <2> QED BY <1>1, <2>1, <2>3, Zenon DEF Published
<1>7. CASE RecordResult
    BY <1>3, <1>7, Zenon DEF RecordResult, KeepTask
<1>8. CASE Reconcile \/ Wait
    <2>1. CASE Blocked \/ StillUnknown
        <3>1. event' = event \/ event' = [event EXCEPT ![plan] = "blocked"]
            BY <2>1, Zenon DEF Blocked, StillUnknown, Return, KeepTask
        <3>2. stopped' = stopped /\ crashes' = crashes
            BY <2>1, Zenon DEF Blocked, StillUnknown, Return, KeepTask
        <3> QED BY <1>1, <1>2, <3>1, <3>2, Zenon DEF Published
    <2>2. CASE MissBackoff
        <3>1. event' = [event EXCEPT ![plan] = event[plan]] /\ stopped' = stopped /\ crashes' = crashes
            BY <2>2, Zenon DEF MissBackoff, Return
        <3> QED BY <1>1, <3>1, Zenon DEF Published
    <2>3. CASE ~(Blocked \/ StillUnknown \/ MissBackoff)
        BY <1>3, <1>8, <2>3, Zenon DEF Reconcile, Wait, ReconcileDex, SkipDex, ReconcileCex, ReconcileUnknown,
            SleepBackoff, WakeUp, Replay, KeepTask
    <2> QED BY <2>1, <2>2, <2>3, Zenon
<1>9. CASE Resume
    BY <1>3, <1>9, Zenon DEF Resume, Start, ResumeNext, ResumeCommand, ResumeDrive, Replay, KeepTask
<1>10. CASE JournalFails
    <2>1. event' = event \/ \E e \in Events : event' = [event EXCEPT ![plan] = e]
        BY <1>10, Zenon DEF JournalFails
    <2>2. stopped' = stopped /\ crashes' = crashes + 1
        BY <1>10, Zenon DEF JournalFails
    <2> QED BY <1>1, <1>2, <2>1, <2>2, SMTT(30) DEF Published
<1>11. CASE Crash
    BY <1>1, <1>11 DEF Crash, Published
<1>12. CASE Environment \/ UNCHANGED vars
    BY <1>3, <1>12, Zenon DEF Environment, Expire, BackoffElapses, Decide, task, vars
<1> QED BY <1>4, <1>5, <1>6, <1>7, <1>8, <1>9, <1>10, <1>11, <1>12, ZenonT(30) DEF Next, Step

\* The types follow from the invariant.
LEMMA TypesFollow == TradeInv /\ Published => TypeOK
<1> SUFFICES ASSUME TradeInv, Published PROVE TypeOK
    BY Zenon
<1>1. \A p \in Plans : Len(op[p].recovery) <= MaxRecoveryAttempts
    <2> SUFFICES ASSUME NEW p \in Plans PROVE Len(op[p].recovery) <= MaxRecoveryAttempts
        BY ZenonT(30)
    <2>1. op[p] \in OpType /\ Owned(op[p]) <= 3
        BY ZenonT(30) DEF TradeInv, JournalOK, JournalType, ParentsOK, ParentOK, RecoveryOK, MaxRecoveryAttempts
    <2>2. /\ Len(op[p].recovery) \in Nat
          /\ Owned(op[p]) = Len(op[p].recovery) + 1 \/ Owned(op[p]) = Len(op[p].recovery)
        BY <2>1, OwnedIs, ZenonT(30)
    <2> QED BY <2>1, <2>2, SMTT(30) DEF MaxRecoveryAttempts
<1> QED BY <1>1, ZenonT(30) DEF TradeInv, JournalOK, JournalType, TaskType, Published, TypeOK

-----------------------------------------------------------------------------
(* The theorems.                                                           *)
INSTANCE FiniteSetTheorems

\* Plans is a finite set of numbers (PlansAssumption).
LEMMA PlanSetsHold == PlanSets
<1>1. \A S \in SUBSET Plans : IsFiniteSet(S) /\ Cardinality(S) \in Nat
    BY PlansAssumption, FS_Subset, FS_CardinalityType, ZenonT(30)
<1>2. Cardinality({}) = 0 /\ \A S \in SUBSET Plans : Cardinality(S) = 0 => S = {}
    BY <1>1, FS_EmptySet, ZenonT(30)
<1>3. \A S \in SUBSET Plans : \A p \in Plans \ S : Cardinality(S \cup {p}) = Cardinality(S) + 1
    BY <1>1, FS_AddElement, ZenonT(30)
<1>4. ASSUME NEW S \in SUBSET Plans, S # {} PROVE \E q \in S : \A r \in S : q <= r
    <2>1. S \subseteq Nat
        BY PlansAssumption, ZenonT(30)
    <2>2. \E q \in S : \A r \in S : ~(<<r, q>> \in OpToRel(<, Nat))
        <3>1. IsWellFoundedOn(OpToRel(<, Nat), Nat)
            BY NatLessThanWellFounded, ZenonT(30)
        <3> QED BY <1>4, <2>1, <3>1, WFMin, ZenonT(30)
    <2>3. PICK q \in S : \A r \in S : ~(<<r, q>> \in OpToRel(<, Nat))
        BY <2>2, ZenonT(30)
    <2>4. \A r \in Nat : ~(<<r, q>> \in OpToRel(<, Nat)) /\ q \in Nat => q <= r
        BY DEF OpToRel
    <2> QED BY <2>1, <2>3, <2>4, ZenonT(30)
<1> QED BY <1>1, <1>2, <1>3, <1>4, ZenonT(30) DEF PlanSets

(* The parents, the venues, the task and the index agree in every state.   *)
THEOREM TradesAgree == Spec => []TradeInv
<1>1. Init => TradeInv
    BY InitTradeInv, PlanSetsHold, ZenonT(30)
<1>2. TradeInv /\ [Next]_vars => TradeInv'
    BY NextTradeInv, ZenonT(30)
<1> QED BY <1>1, <1>2, PTL DEF Spec

(* Type correctness of the coordinator; a parent has at most the attempts  *)
(* MAX_RECOVERY_ATTEMPTS allows.                                           *)
THEOREM TradeTypes == Spec => []TypeOK
<1>1. Init => Published
    BY SMTT(30) DEF Init, Published
<1>2. TradeInv /\ Published => TypeOK
    BY TypesFollow, ZenonT(30)
<1>3. TradeInv /\ Published /\ [Next]_vars => Published'
    BY PublishedStep, ZenonT(30)
<1> QED BY <1>1, <1>2, <1>3, TradesAgree, PTL DEF Spec

(* A child is handed to its executor in one form only, however often it is *)
(* replayed, reconciled or resumed.                                        *)
THEOREM OneFormPerChild == Spec => []SameCommandEachTime
<1>1. TradeInv => SameCommandEachTime
    <2> SUFFICES ASSUME TradeInv, NEW p \in Plans, NEW k \in Children
                 PROVE  Cardinality(asked[p][k]) <= 1
        BY Zenon DEF SameCommandEachTime
    <2> DEFINE c == Command(op[p], k)
    <2>1. asked[p][k] \subseteq {c}
        BY Zenon DEF TradeInv, JournalOK, ParentsOK, LinksOK, LinkOK
    <2> HIDE DEF c
    <2>2. asked[p][k] = {} \/ asked[p][k] = {c}
        BY <2>1, Zenon
    <2>3. Cardinality({}) = 0 /\ Cardinality({c}) = 1
        BY FS_EmptySet, FS_Singleton, ZenonT(30)
    <2> QED BY <2>2, <2>3, SMTT(30)
<1> QED BY <1>1, TradesAgree, PTL

(* A strategy has at most one parent that is not terminal, and the index   *)
(* of the unresolved ones is the one a restart would compute.              *)
THEOREM ParentsAlwaysAccounted == Spec => []ParentsAccounted
<1>1. TradeInv => ParentsAccounted
    <2>1. TradeInv => DOMAIN unresolved = {StrategyOf[p] : p \in Plans}
        BY Zenon DEF TradeInv, JournalOK, JournalType
    <2> QED BY <2>1, ZenonT(30) DEF TradeInv, JournalOK, IndexOK, Index, ParentsAccounted, UnresolvedIndexExact
<1> QED BY <1>1, TradesAgree, PTL

(* The journal accepts every snapshot that the coordinator appends.        *)
THEOREM AppendsAccepted == Spec => EveryAppendIsAccepted
<1>1. TradeInv /\ [Next]_vars =>
        [\A p \in Plans : op'[p] # op[p] => SnapshotAllowed(op[p], op'[p])]_vars
    BY NextTradeInv, Zenon DEF Appends, Keeps
<1> QED BY <1>1, TradesAgree, PTL DEF Spec, EveryAppendIsAccepted

(* A parent closed as balanced states its true residual, and none of its   *)
(* children is live: finalize_balanced after any crashes, retries and      *)
(* reconciliations.                                                        *)
THEOREM SettledAlwaysMatches == ASSUME FiltersStay PROVE Spec => []SettledMatchesVenues
<1>1. TradeInv => SettledMatchesVenues
    BY SettledParents, ZenonT(30)
<1> QED BY <1>1, TradesAgree, PTL

(* reconcile_unknown replaces an unknown result only by what the venue did.*)
THEOREM UnknownAlwaysReplacedByProof == ASSUME FiltersStay PROVE Spec => UnknownReplacedByProof
<1> DEFINE A == \A p \in Plans, k \in Children :
          (ResultOf(op[p], k).status = "unknown" /\ ResultOf(op'[p], k).status # "unknown")
          => /\ child[p][k].kind # "live"
             /\ ResultOf(op'[p], k).delta = Moved(p, k)
<1>1. TradeInv /\ [Next]_vars => A
    BY NextTradeInv, UnknownProved, ZenonT(30)
<1>2. TradeInv /\ [Next]_vars => [A]_vars
    BY <1>1, ZenonT(30)
<1> QED BY <1>2, TradesAgree, PTL DEF Spec, UnknownReplacedByProof

(* A parent never holds more token B than it planned, long or short, unless*)
(* its swap was written off as expired: for any quantities, lots, fees,    *)
(* credits and crashes.                                                    *)
THEOREM ExposureAlwaysBounded == ASSUME FiltersStay PROVE Spec => []ExposureBounded
<1>1. TradeInv => ExposureBounded
    BY ExposureFits, ZenonT(30)
<1> QED BY <1>1, TradesAgree, PTL

(* A DEX-first trade opens one bounded exposure, every later order brings  *)
(* it closer to zero and never past it, and a closed trade moves nothing:  *)
(* TradeCoordinator implements HedgedTrade.                                *)
THEOREM HedgePromiseKept == ASSUME FiltersStay PROVE Spec => KeepsHedgePromise
<1>1. TradeInv /\ [Next]_vars => [Hedged!Next]_Hedged!vars
    BY NextTradeInv, HedgeSteps, ZenonT(30)
<1> QED BY <1>1, InitHedges, TradesAgree, PTL DEF Spec, KeepsHedgePromise, Hedged!Spec
=============================================================================
