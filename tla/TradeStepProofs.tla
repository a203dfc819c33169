--------------------------- MODULE TradeStepProofs ----------------------------
(***************************************************************************)
(* The steps of the task of TradeCoordinator: the results it records, the  *)
(* parent it drives and the commands it hands out.                         *)
(***************************************************************************)
EXTENDS TradeParentProofs

-----------------------------------------------------------------------------
(* The snapshots that bring a result.                                      *)

\* record_result of whichever child.
LEMMA RecordedKeeps ==
    \A o \in OpType, k \in Children, r \in ResultType :
    \A n :
        /\ ParentOK(o) /\ Open(o) /\ HasResult(r) /\ Dispatched(o, k)
        /\ ResultOf(o, k) = NoResult /\ n = Recorded(o, k, r)
        => Keeps(o, n) /\ NewResult(o, n, k, r) /\ Open(n)
\* A recovery that is owned and has no result is the one in flight.
<1>OnlyLastUnrecorded.
    \A o \in OpType, k \in Children :
        /\ ParentOK(o) /\ k \notin {Dex, Cex} /\ Dispatched(o, k)
        /\ ResultOf(o, k) = NoResult
        => o.inflight /\ k = Recovery(Len(o.recovery) + 1)
    <2> TAKE o \in OpType, k \in Children
    <2> HAVE /\ ParentOK(o) /\ k \notin {Dex, Cex} /\ Dispatched(o, k)
             /\ ResultOf(o, k) = NoResult
    <2>1. k - 1 \in Nat \ {0} /\ k \in Nat
        BY ChildrenAre DEF Dex, Cex
    <2>2. k - 1 <= Owned(o)
        BY Zenon DEF Dispatched
    <2>3. k - 1 \notin DOMAIN o.recovery
        <3>1. SUFFICES ASSUME k - 1 \in DOMAIN o.recovery PROVE FALSE
            BY Zenon
        <3>2. o.recovery[k - 1] = NoResult
            BY <3>1, Zenon DEF ResultOf
        <3>3. HasResult(o.recovery[k - 1])
            BY <3>1, OwnedIs, Zenon DEF ParentOK, RecoveryOK
        <3> QED BY <3>2, <3>3 DEF HasResult, NoResult, Result
    <2>4. /\ Len(o.recovery) \in Nat /\ DOMAIN o.recovery = 1 .. Len(o.recovery)
          /\ o.inflight => Owned(o) = Len(o.recovery) + 1
          /\ ~o.inflight => Owned(o) = Len(o.recovery)
        BY OwnedIs, Zenon
    <2>5. k - 1 > Len(o.recovery)
        BY <2>1, <2>3, <2>4, SMTT(30)
    <2>6. o.inflight
        BY <2>1, <2>2, <2>4, <2>5, SMTT(30)
    <2>7. k - 1 = Len(o.recovery) + 1
        BY <2>1, <2>2, <2>4, <2>5, <2>6, SMTT(30)
    <2> QED BY <2>1, <2>4, <2>6, <2>7 DEF Recovery
\* The result of the swap.
<1>RecordDexKeeps.
    \A o \in OpType, r \in ResultType :
    \A n :
        /\ ParentOK(o) /\ Open(o) /\ o.dex_dispatched /\ o.dex = NoResult
        /\ HasResult(r) /\ n = [o EXCEPT !.dex = r]
        => Keeps(o, n) /\ NewResult(o, n, Dex, r) /\ Open(n)
    <2> TAKE o \in OpType, r \in ResultType
    <2> TAKE n
    <2> HAVE /\ ParentOK(o) /\ Open(o) /\ o.dex_dispatched /\ o.dex = NoResult
             /\ HasResult(r) /\ n = [o EXCEPT !.dex = r]
    <2>1. Owned(o) = 0 /\ o.recovery = <<>> /\ ~o.inflight
        <3>1. ~Known(o.dex)
            BY DEF Known, NoResult, Result
        <3> QED BY <3>1, OwnedIs DEF ParentOK, RecoveryOK, OpType
    <2>2. o.cex_dispatched => o.mode # "dex_first"
        BY DEF ParentOK, CexOK, NoResult, Result
    <2>3. o.stage # "halted"
        BY DEF ParentOK, StageOK, Known, NoResult, Result
    <2>4. /\ n.stage = o.stage /\ n.mode = o.mode /\ n.dir = o.dir
          /\ n.dex_dispatched = o.dex_dispatched /\ n.cex_dispatched = o.cex_dispatched /\ n.price = o.price
          /\ n.cex = o.cex /\ n.recovery = o.recovery /\ n.inflight = o.inflight
          /\ n.target = o.target /\ n.residual = o.residual /\ n.dex = r
        BY Zenon DEF OpType
    <2>5. n \in OpType
        BY Zenon DEF OpType
    <2>6. Owned(n) = Owned(o)
        BY <2>4, Zenon DEF Owned
    <2>7. DexOK(n)
        BY <2>1, <2>2, <2>3, <2>4, Zenon DEF ParentOK, DexOK, Open
    <2>8. CexOK(n)
        BY <2>1, <2>2, <2>3, <2>4, Zenon DEF ParentOK, CexOK
    <2>9. RecoveryOK(n)
        <3>1. Len(n.recovery) = 0
            BY <2>1, <2>2, <2>3, <2>4
        <3>2. n.target = 0 /\ Owned(n) = 0
            BY <2>1, <2>2, <2>3, <2>4, <2>6, Zenon DEF ParentOK, RecoveryOK
        <3> QED BY <3>1, <3>2 DEF RecoveryOK, MaxRecoveryAttempts
    <2>10. StageOK(n)
        <3>1. HasUnknownLeg(o) => HasUnknownLeg(n)
            <4>1. o.dex.status # "unknown"
                BY DEF NoResult, Result
            <4>2. HasUnknownLeg(o) => o.cex.status = "unknown" \/ \E i \in 1 .. Len(o.recovery) : o.recovery[i].status = "unknown"
                BY <4>1, UnknownLeg, Zenon
            <4>3. n.cex.status = "unknown" \/ (\E i \in 1 .. Len(n.recovery) : n.recovery[i].status = "unknown") => HasUnknownLeg(n)
                BY <2>5, UnknownLeg, Zenon
            <4>4. n.cex = o.cex /\ n.recovery = o.recovery
                BY <2>4, Zenon
            <4> QED BY <4>2, <4>3, <4>4, Zenon
        <3> QED BY <2>1, <2>2, <2>3, <2>4, <3>1, Zenon DEF ParentOK, StageOK, Open
    <2>11. NewResult(o, n, Dex, r)
        BY <2>4 DEF NewResult, ResultOf, Dex, Cex
    <2>12. SnapshotAllowed(o, n)
        <3>1. StageTransitionAllowed(o.stage, n.stage)
            BY <2>4, Zenon DEF StageTransitionAllowed
        <3>2. /\ UnchangedOrReconciled(o.dex, n.dex) /\ UnchangedOrReconciled(o.cex, n.cex)
              /\ AppendOnlyOrReconciled(o.recovery, n.recovery)
            <4>1. o.recovery \in Seq(ResultType)
                BY OwnedIs, Zenon
            <4> QED BY <2>1, <2>2, <2>3, <2>4, <4>1, Unchanged, Zenon DEF UnchangedOrReconciled, HasResult, Known
        <3>3. (o.dex_dispatched => n.dex_dispatched) /\ (o.cex_dispatched => n.cex_dispatched)
            BY <2>4, Zenon
        <3>4. o.price = n.price /\ o.target = n.target /\ n.dir = o.dir /\ n.mode = o.mode
            BY <2>4, Zenon
        <3> QED BY <2>5, <2>9, <3>1, <3>2, <3>3, <3>4, Accepted, Zenon
    <2>13. \A k \in Children : Dispatched(o, k) => Dispatched(n, k) /\ Command(n, k) = Command(o, k)
        <3>1. Owned(o) <= Owned(n)
            BY <2>6, OwnedIs
        <3>2. (o.dex_dispatched => n.dex_dispatched) /\ (o.cex_dispatched => n.cex_dispatched)
            BY <2>4, Zenon
        <3>3. o.cex_dispatched /\ o.mode = "dex_first" => n.dex.delta = o.dex.delta
            BY <2>1, <2>2, <2>3, <2>4, Zenon
        <3>4. n.price = o.price /\ n.target = o.target /\ n.dir = o.dir /\ n.mode = o.mode
            BY <2>4, Zenon
        <3> QED BY <2>5, <3>1, <3>2, <3>3, <3>4, CommandsStay, Zenon
    <2>14. ParentOK(n)
        BY <2>7, <2>8, <2>9, <2>10, Zenon DEF ParentOK
    <2>15. Open(n)
        BY <2>1, <2>2, <2>3, <2>4, Zenon DEF Open
    <2> QED BY <2>5, <2>14, <2>12, <2>13, <2>11, <2>15, Zenon DEF Keeps
\* The result of the primary order.
<1>RecordCexKeeps.
    \A o \in OpType, r \in ResultType :
    \A n :
        /\ ParentOK(o) /\ Open(o) /\ o.cex_dispatched /\ o.cex = NoResult
        /\ HasResult(r) /\ n = [o EXCEPT !.cex = r]
        => Keeps(o, n) /\ NewResult(o, n, Cex, r) /\ Open(n)
    <2> TAKE o \in OpType, r \in ResultType
    <2> TAKE n
    <2> HAVE /\ ParentOK(o) /\ Open(o) /\ o.cex_dispatched /\ o.cex = NoResult
             /\ HasResult(r) /\ n = [o EXCEPT !.cex = r]
    <2>1. Owned(o) = 0 /\ o.recovery = <<>> /\ ~o.inflight
        <3>1. ~Known(o.cex)
            BY DEF Known, NoResult, Result
        <3> QED BY <3>1, OwnedIs DEF ParentOK, RecoveryOK, OpType
    <2>2. o.stage # "halted"
        BY DEF ParentOK, StageOK, Known, NoResult, Result
    <2>3. /\ n.stage = o.stage /\ n.mode = o.mode /\ n.dir = o.dir
          /\ n.dex_dispatched = o.dex_dispatched /\ n.cex_dispatched = o.cex_dispatched /\ n.price = o.price
          /\ n.dex = o.dex /\ n.recovery = o.recovery /\ n.inflight = o.inflight
          /\ n.target = o.target /\ n.residual = o.residual /\ n.cex = r
        BY Zenon DEF OpType
    <2>4. n \in OpType
        BY Zenon DEF OpType
    <2>5. Owned(n) = Owned(o)
        BY <2>3, Zenon DEF Owned
    <2>6. DexOK(n)
        BY <2>1, <2>2, <2>3, Zenon DEF ParentOK, DexOK, Open
    <2>7. CexOK(n)
        BY <2>1, <2>2, <2>3, Zenon DEF ParentOK, CexOK
    <2>8. RecoveryOK(n)
        <3>1. Len(n.recovery) = 0
            BY <2>1, <2>2, <2>3
        <3>2. n.target = 0 /\ Owned(n) = 0
            BY <2>1, <2>2, <2>3, <2>5, Zenon DEF ParentOK, RecoveryOK
        <3> QED BY <3>1, <3>2 DEF RecoveryOK, MaxRecoveryAttempts
    <2>9. StageOK(n)
        <3>1. HasUnknownLeg(o) => HasUnknownLeg(n)
            <4>1. o.cex.status # "unknown"
                BY DEF NoResult, Result
            <4>2. HasUnknownLeg(o) => o.dex.status = "unknown" \/ \E i \in 1 .. Len(o.recovery) : o.recovery[i].status = "unknown"
                BY <4>1, UnknownLeg, Zenon
            <4>3. n.dex.status = "unknown" \/ (\E i \in 1 .. Len(n.recovery) : n.recovery[i].status = "unknown") => HasUnknownLeg(n)
                BY <2>4, UnknownLeg, Zenon
            <4>4. n.dex = o.dex /\ n.recovery = o.recovery
                BY <2>3, Zenon
            <4> QED BY <4>2, <4>3, <4>4, Zenon
        <3> QED BY <2>1, <2>2, <2>3, <3>1, Zenon DEF ParentOK, StageOK, Open
    <2>10. NewResult(o, n, Cex, r)
        BY <2>3 DEF NewResult, ResultOf, Dex, Cex
    <2>11. SnapshotAllowed(o, n)
        <3>1. StageTransitionAllowed(o.stage, n.stage)
            BY <2>3, Zenon DEF StageTransitionAllowed
        <3>2. /\ UnchangedOrReconciled(o.dex, n.dex) /\ UnchangedOrReconciled(o.cex, n.cex)
              /\ AppendOnlyOrReconciled(o.recovery, n.recovery)
            <4>1. o.recovery \in Seq(ResultType)
                BY OwnedIs, Zenon
            <4> QED BY <2>1, <2>2, <2>3, <4>1, Unchanged, Zenon DEF UnchangedOrReconciled, HasResult, Known
        <3>3. (o.dex_dispatched => n.dex_dispatched) /\ (o.cex_dispatched => n.cex_dispatched)
            BY <2>3, Zenon
        <3>4. o.price = n.price /\ o.target = n.target /\ n.dir = o.dir /\ n.mode = o.mode
            BY <2>3, Zenon
        <3> QED BY <2>4, <2>8, <3>1, <3>2, <3>3, <3>4, Accepted, Zenon
    <2>12. \A k \in Children : Dispatched(o, k) => Dispatched(n, k) /\ Command(n, k) = Command(o, k)
        <3>1. Owned(o) <= Owned(n)
            BY <2>5, OwnedIs
        <3>2. (o.dex_dispatched => n.dex_dispatched) /\ (o.cex_dispatched => n.cex_dispatched)
            BY <2>3, Zenon
        <3>3. o.cex_dispatched /\ o.mode = "dex_first" => n.dex.delta = o.dex.delta
            BY <2>1, <2>2, <2>3, Zenon
        <3>4. n.price = o.price /\ n.target = o.target /\ n.dir = o.dir /\ n.mode = o.mode
            BY <2>3, Zenon
        <3> QED BY <2>4, <3>1, <3>2, <3>3, <3>4, CommandsStay, Zenon
    <2>13. ParentOK(n)
        BY <2>6, <2>7, <2>8, <2>9, Zenon DEF ParentOK
    <2>14. Open(n)
        BY <2>1, <2>2, <2>3, Zenon DEF Open
    <2> QED BY <2>4, <2>13, <2>11, <2>12, <2>10, <2>14, Zenon DEF Keeps
\* The result of a recovery.
<1>RecordRecoveryKeeps.
    \A o \in OpType, r \in ResultType :
    \A n :
        /\ ParentOK(o) /\ Open(o) /\ o.inflight /\ HasResult(r)
        /\ n = [o EXCEPT !.recovery = Append(@, r), !.inflight = FALSE]
        => Keeps(o, n) /\ NewResult(o, n, Recovery(Len(o.recovery) + 1), r) /\ Open(n)
    <2> TAKE o \in OpType, r \in ResultType
    <2> TAKE n
    <2> HAVE /\ ParentOK(o) /\ Open(o) /\ o.inflight /\ HasResult(r)
             /\ n = [o EXCEPT !.recovery = Append(@, r), !.inflight = FALSE]
    <2>1. /\ Len(o.recovery) \in Nat /\ Owned(o) = Len(o.recovery) + 1
          /\ Append(o.recovery, r) \in Seq(ResultType) /\ Len(Append(o.recovery, r)) = Len(o.recovery) + 1
          /\ \A i \in 1 .. Len(o.recovery) : Append(o.recovery, r)[i] = o.recovery[i]
          /\ Append(o.recovery, r)[Len(o.recovery) + 1] = r
          /\ IsPrefix(o.recovery, Append(o.recovery, r))
        BY OwnedIs, Grown, Zenon
    <2>2. o.stage # "halted" /\ Owned(o) > 0
        BY <2>1 DEF ParentOK, StageOK
    <2>3. /\ n.stage = o.stage /\ n.mode = o.mode /\ n.dir = o.dir
          /\ n.dex_dispatched = o.dex_dispatched /\ n.cex_dispatched = o.cex_dispatched /\ n.price = o.price
          /\ n.dex = o.dex /\ n.cex = o.cex /\ n.target = o.target
          /\ n.residual = o.residual /\ n.recovery = Append(o.recovery, r) /\ n.inflight = FALSE
        BY <2>1, Zenon DEF OpType
    <2>4. n \in OpType
        BY <2>1, Zenon DEF OpType
    <2>5. Owned(n) = Owned(o)
        BY <2>1, <2>2, <2>3, <2>4, OwnedIs, ZenonT(30)
    <2>6. DexOK(n)
        BY <2>1, <2>2, <2>3, Zenon DEF ParentOK, DexOK, Open
    <2>7. CexOK(n)
        BY <2>1, <2>2, <2>3, ZenonT(30) DEF ParentOK, CexOK
    <2>8. RecoveryOK(n)
        <3>1. \A i \in 1 .. Owned(n) - 1 : Retryable(n.recovery[i])
            <4>1. \A i \in 1 .. Len(o.recovery) : Retryable(o.recovery[i])
                BY <2>1, <2>2, <2>5 DEF ParentOK, RecoveryOK
            <4>2. Owned(n) - 1 = Len(o.recovery)
                BY <2>1, <2>2, <2>5
            <4> QED BY <2>1, <2>2, <2>3, <4>1, <4>2, SMTT(30)
        <3>2. \A i \in 1 .. Len(n.recovery) : HasResult(n.recovery[i])
            <4>1. \A i \in 1 .. Len(o.recovery) : HasResult(n.recovery[i])
                BY <2>1, <2>2, <2>3, ZenonT(30) DEF ParentOK, RecoveryOK
            <4>2. HasResult(n.recovery[Len(o.recovery) + 1])
                BY <2>1, <2>2, <2>3, Zenon
            <4>3. \A i \in 1 .. Len(n.recovery) : i \in 1 .. Len(o.recovery) \/ i = Len(o.recovery) + 1
                BY <2>1, <2>2, <2>3
            <4> QED BY <4>1, <4>2, <4>3, Zenon
        <3>3. /\ Known(o.dex) /\ Known(o.cex) /\ o.target = -o.dex.delta - o.cex.executed
              /\ Abs(o.target) >= LotStep /\ (o.mode = "dex_first" => Sign(o.target) = -o.dir)
              /\ Owned(o) <= MaxRecoveryAttempts
            BY <2>1, <2>2, <2>3, Zenon DEF ParentOK, RecoveryOK
        <3>4. Owned(n) # 0
            BY <2>1, <2>2, <2>5
        <3> QED BY <2>3, <2>5, <3>1, <3>2, <3>3, <3>4, Zenon DEF RecoveryOK
    <2>9. StageOK(n)
        <3>1. HasUnknownLeg(o) => HasUnknownLeg(n)
            <4>1. \A i \in 1 .. Len(o.recovery) : i \in 1 .. Len(n.recovery) /\ n.recovery[i] = o.recovery[i]
                BY <2>1, <2>2, <2>3
            <4>2. HasUnknownLeg(o) =>
                     \/ o.dex.status = "unknown" \/ o.cex.status = "unknown"
                     \/ \E i \in 1 .. Len(o.recovery) : o.recovery[i].status = "unknown"
                BY UnknownLeg, Zenon
            <4>3. (\/ n.dex.status = "unknown" \/ n.cex.status = "unknown"
                   \/ \E i \in 1 .. Len(n.recovery) : n.recovery[i].status = "unknown") => HasUnknownLeg(n)
                BY <2>4, UnknownLeg, Zenon
            <4>4. n.dex = o.dex /\ n.cex = o.cex
                BY <2>3, Zenon
            <4> QED BY <4>1, <4>2, <4>3, <4>4, Zenon
        <3> QED BY <2>1, <2>2, <2>3, <3>1, Zenon DEF ParentOK, StageOK, Open
    <2>10. NewResult(o, n, Recovery(Len(o.recovery) + 1), r)
        <3>1. /\ DOMAIN n.recovery = 1 .. Len(n.recovery) /\ DOMAIN o.recovery = 1 .. Len(o.recovery)
              /\ Len(o.recovery) \in Nat
            BY <2>4, OwnedIs, Zenon
        <3>2. DOMAIN n.recovery = 1 .. (Len(o.recovery) + 1)
            BY <2>1, <2>2, <2>3, <3>1, Zenon
        <3>3. ResultOf(n, Recovery((Len(o.recovery) + 1))) = r
            <4>1. /\ Recovery((Len(o.recovery) + 1)) # Dex /\ Recovery((Len(o.recovery) + 1)) # Cex
                  /\ Recovery((Len(o.recovery) + 1)) - 1 = (Len(o.recovery) + 1) /\ (Len(o.recovery) + 1) \in DOMAIN n.recovery
                BY <2>1, <2>2, <3>1, <3>2, SMTT(30) DEF Recovery, Dex, Cex
            <4> QED BY <2>1, <2>2, <2>3, <4>1, Zenon DEF ResultOf
        <3>4. ASSUME NEW k \in Children \ {Recovery((Len(o.recovery) + 1))}
              PROVE  ResultOf(n, k) = ResultOf(o, k)
            <4>1. k \in 0 .. 4 /\ k # (Len(o.recovery) + 1) + 1
                BY <3>4, ChildrenAre, <3>1 DEF Recovery
            <4>2. CASE k \in {Dex, Cex}
                BY <2>3, <4>2, Zenon DEF ResultOf
            <4>3. CASE k \notin {Dex, Cex} /\ k - 1 \in DOMAIN o.recovery
                <5>1. k - 1 \in DOMAIN n.recovery /\ k - 1 \in 1 .. Len(o.recovery)
                    BY <2>1, <2>2, <3>1, <3>2, <4>1, <4>3, SMTT(30)
                <5>2. n.recovery[k - 1] = o.recovery[k - 1]
                    BY <2>1, <2>2, <2>3, <5>1, Zenon
                <5> QED BY <4>3, <5>1, <5>2, Zenon DEF ResultOf
            <4>4. CASE k \notin {Dex, Cex} /\ k - 1 \notin DOMAIN o.recovery
                <5>1. k - 1 \notin DOMAIN n.recovery
                    BY <3>1, <3>2, <4>1, <4>4
                <5> QED BY <4>4, <5>1, Zenon DEF ResultOf
            <4> QED BY <4>2, <4>3, <4>4, Zenon
        <3> QED BY <2>3, <3>3, <3>4, Zenon DEF NewResult
    <2>11. SnapshotAllowed(o, n)
        <3>1. StageTransitionAllowed(o.stage, n.stage)
            BY <2>3, Zenon DEF StageTransitionAllowed
        <3>2. /\ UnchangedOrReconciled(o.dex, n.dex) /\ UnchangedOrReconciled(o.cex, n.cex)
              /\ AppendOnlyOrReconciled(o.recovery, n.recovery)
            BY <2>1, <2>2, <2>3, Zenon DEF UnchangedOrReconciled, AppendOnlyOrReconciled
        <3>3. (o.dex_dispatched => n.dex_dispatched) /\ (o.cex_dispatched => n.cex_dispatched)
            BY <2>3, Zenon
        <3>4. o.price = n.price /\ o.target = n.target /\ n.dir = o.dir /\ n.mode = o.mode
            BY <2>3, Zenon
        <3> QED BY <2>4, <2>8, <3>1, <3>2, <3>3, <3>4, Accepted, Zenon
    <2>12. \A k \in Children : Dispatched(o, k) => Dispatched(n, k) /\ Command(n, k) = Command(o, k)
        <3>1. Owned(o) <= Owned(n)
            BY <2>5, OwnedIs
        <3>2. (o.dex_dispatched => n.dex_dispatched) /\ (o.cex_dispatched => n.cex_dispatched)
            BY <2>3, Zenon
        <3>3. o.cex_dispatched /\ o.mode = "dex_first" => n.dex.delta = o.dex.delta
            BY <2>3, Zenon
        <3>4. n.price = o.price /\ n.target = o.target /\ n.dir = o.dir /\ n.mode = o.mode
            BY <2>3, Zenon
        <3> QED BY <2>4, <3>1, <3>2, <3>3, <3>4, CommandsStay, Zenon
    <2>13. ParentOK(n)
        BY <2>6, <2>7, <2>8, <2>9, Zenon DEF ParentOK
    <2>14. Open(n)
        BY <2>1, <2>2, <2>3, Zenon DEF Open
    <2> QED BY <2>4, <2>13, <2>11, <2>12, <2>10, <2>14, ZenonT(30) DEF Keeps
<1> TAKE o \in OpType, k \in Children, r \in ResultType
<1> TAKE n
<1> HAVE /\ ParentOK(o) /\ Open(o) /\ HasResult(r) /\ Dispatched(o, k)
         /\ ResultOf(o, k) = NoResult /\ n = Recorded(o, k, r)
<1>1. Dex # Cex
    BY DEF Dex, Cex
<1>2. CASE k = Dex
    <2>1. o.dex_dispatched
        BY <1>2, Zenon DEF Dispatched
    <2>2. o.dex = NoResult
        BY <1>2, Zenon DEF ResultOf
    <2>3. n = [o EXCEPT !.dex = r]
        <3>1. Recorded(o, Dex, r) = [o EXCEPT !.dex = r]
            BY <1>1, Zenon DEF Recorded
        <3> QED BY <1>2, <3>1, Zenon
    <2> QED BY <1>2, <2>1, <2>2, <2>3, <1>RecordDexKeeps, Zenon
<1>3. CASE k = Cex
    <2>1. o.cex_dispatched
        BY <1>1, <1>3, Zenon DEF Dispatched
    <2>2. o.cex = NoResult
        BY <1>1, <1>3, Zenon DEF ResultOf
    <2>3. n = [o EXCEPT !.cex = r]
        BY <1>1, <1>3, Zenon DEF Recorded
    <2> QED BY <1>3, <2>1, <2>2, <2>3, <1>RecordCexKeeps, Zenon
<1>4. CASE k \notin {Dex, Cex}
    <2>1. o.inflight /\ k = Recovery(Len(o.recovery) + 1)
        BY <1>4, <1>OnlyLastUnrecorded, Zenon
    <2>2. n = [o EXCEPT !.recovery = Append(@, r), !.inflight = FALSE]
        BY <1>4, Zenon DEF Recorded
    <2>3. Keeps(o, n) /\ NewResult(o, n, Recovery(Len(o.recovery) + 1), r) /\ Open(n)
        BY <2>1, <2>2, <1>RecordRecoveryKeeps, Zenon
    <2> QED BY <2>1, <2>3, Zenon
<1> QED BY <1>2, <1>3, <1>4, Zenon

\* reconcile_unknown of whichever child.
LEMMA ReconciledKeeps ==
    \A o \in OpType, k \in Children, r \in ResultType :
    \A n :
        /\ ParentOK(o) /\ Open(o) /\ Known(r) /\ o.stage = "unknown_exposure"
        /\ ResultOf(o, k).status = "unknown" /\ n = Reconciled(o, k, r)
        => Keeps(o, n) /\ NewResult(o, n, k, r) /\ Open(n)
\* A recovery that is unknown is the last one.
<1>OnlyLastUnknown.
    \A o \in OpType, k \in Children :
        ParentOK(o) /\ k \notin {Dex, Cex} /\ ResultOf(o, k).status = "unknown"
        => /\ o.recovery # <<>> /\ k = Recovery(Len(o.recovery))
           /\ Last(o.recovery).status = "unknown"
    <2> TAKE o \in OpType, k \in Children
    <2> HAVE ParentOK(o) /\ k \notin {Dex, Cex} /\ ResultOf(o, k).status = "unknown"
    <2>1. k - 1 \in Nat \ {0} /\ k \in Nat
        BY ChildrenAre DEF Dex, Cex
    <2>2. k - 1 \in DOMAIN o.recovery
        BY Zenon DEF ResultOf, NoResult, Result
    <2>3. o.recovery[k - 1].status = "unknown"
        BY <2>2, Zenon DEF ResultOf
    <2>4. /\ Len(o.recovery) \in Nat /\ DOMAIN o.recovery = 1 .. Len(o.recovery)
          /\ Owned(o) = Len(o.recovery) + 1 \/ Owned(o) = Len(o.recovery)
          /\ o.recovery = <<>> => Len(o.recovery) = 0
        BY OwnedIs, Zenon
    <2>5. ~(k - 1 \in 1 .. Owned(o) - 1)
        BY <2>3, Zenon DEF ParentOK, RecoveryOK, Retryable
    <2>6. k - 1 = Len(o.recovery) /\ o.recovery # <<>>
        BY <2>1, <2>2, <2>4, <2>5
    <2>7. Last(o.recovery) = o.recovery[k - 1]
        BY <2>6, Zenon DEF Last
    <2> QED BY <2>1, <2>3, <2>4, <2>6, <2>7, SMTT(30) DEF Recovery
\* A proof replaces the unknown result of the swap.
<1>ReconcileDexKeeps.
    \A o \in OpType, r \in ResultType :
    \A n :
        /\ ParentOK(o) /\ Open(o) /\ o.stage = "unknown_exposure" /\ Known(r)
        /\ o.dex.status = "unknown" /\ n = [o EXCEPT !.dex = r, !.stage = "executing"]
        => Keeps(o, n) /\ NewResult(o, n, Dex, r) /\ Open(n)
    <2> TAKE o \in OpType, r \in ResultType
    <2> TAKE n
    <2> HAVE /\ ParentOK(o) /\ Open(o) /\ o.stage = "unknown_exposure" /\ Known(r)
             /\ o.dex.status = "unknown" /\ n = [o EXCEPT !.dex = r, !.stage = "executing"]
    <2>1. Owned(o) = 0 /\ o.recovery = <<>> /\ ~o.inflight
        <3>1. ~Known(o.dex)
            BY Zenon DEF Known, NoResult, Result
        <3> QED BY <3>1, OwnedIs DEF ParentOK, RecoveryOK, OpType
    <2>2. o.cex_dispatched => o.mode # "dex_first"
        BY Zenon DEF ParentOK, CexOK, NoResult, Result
    <2>3. o.dex # NoResult /\ o.dex_dispatched
        BY DEF ParentOK, DexOK, CexOK, NoResult, Result
    <2>4. /\ n.mode = o.mode /\ n.dir = o.dir /\ n.dex_dispatched = o.dex_dispatched
          /\ n.cex_dispatched = o.cex_dispatched /\ n.price = o.price /\ n.cex = o.cex
          /\ n.recovery = o.recovery /\ n.inflight = o.inflight /\ n.target = o.target
          /\ n.residual = o.residual /\ n.stage = "executing" /\ n.dex = r
        BY Zenon DEF OpType
    <2>5. n \in OpType
        BY Zenon DEF OpType, Stages
    <2>6. Owned(n) = Owned(o)
        BY <2>4, Zenon DEF Owned
    <2>7. DexOK(n)
        BY <2>1, <2>2, <2>3, <2>4, Zenon DEF DexOK
    <2>8. CexOK(n)
        BY <2>1, <2>2, <2>3, <2>4, Zenon DEF ParentOK, CexOK, NoResult, Result
    <2>9. RecoveryOK(n)
        <3>1. Len(n.recovery) = 0
            BY <2>1, <2>2, <2>3, <2>4
        <3>2. n.target = 0 /\ Owned(n) = 0
            BY <2>1, <2>2, <2>3, <2>4, <2>6, Zenon DEF ParentOK, RecoveryOK
        <3> QED BY <3>1, <3>2 DEF RecoveryOK, MaxRecoveryAttempts
    <2>10. StageOK(n)
        BY <2>4, Zenon DEF StageOK
    <2>11. NewResult(o, n, Dex, r)
        BY <2>4 DEF NewResult, ResultOf, Dex, Cex
    <2>12. SnapshotAllowed(o, n)
        <3>1. StageTransitionAllowed(o.stage, n.stage)
            BY <2>4, Zenon DEF StageTransitionAllowed
        <3>2. /\ UnchangedOrReconciled(o.dex, n.dex) /\ UnchangedOrReconciled(o.cex, n.cex)
              /\ AppendOnlyOrReconciled(o.recovery, n.recovery)
            <4>1. o.recovery \in Seq(ResultType)
                BY OwnedIs, Zenon
            <4> QED BY <2>1, <2>2, <2>3, <2>4, <4>1, Unchanged, Zenon DEF UnchangedOrReconciled, HasResult, Known
        <3>3. (o.dex_dispatched => n.dex_dispatched) /\ (o.cex_dispatched => n.cex_dispatched)
            BY <2>4, Zenon
        <3>4. o.price = n.price /\ o.target = n.target /\ n.dir = o.dir /\ n.mode = o.mode
            BY <2>4, Zenon
        <3> QED BY <2>5, <2>9, <3>1, <3>2, <3>3, <3>4, Accepted, Zenon
    <2>13. \A k \in Children : Dispatched(o, k) => Dispatched(n, k) /\ Command(n, k) = Command(o, k)
        <3>1. Owned(o) <= Owned(n)
            BY <2>6, OwnedIs
        <3>2. (o.dex_dispatched => n.dex_dispatched) /\ (o.cex_dispatched => n.cex_dispatched)
            BY <2>4, Zenon
        <3>3. o.cex_dispatched /\ o.mode = "dex_first" => n.dex.delta = o.dex.delta
            BY <2>1, <2>2, <2>3, <2>4, Zenon
        <3>4. n.price = o.price /\ n.target = o.target /\ n.dir = o.dir /\ n.mode = o.mode
            BY <2>4, Zenon
        <3> QED BY <2>5, <3>1, <3>2, <3>3, <3>4, CommandsStay, Zenon
    <2>14. ParentOK(n)
        BY <2>7, <2>8, <2>9, <2>10, Zenon DEF ParentOK
    <2>15. Open(n)
        BY <2>1, <2>2, <2>3, <2>4, Zenon DEF Open
    <2> QED BY <2>5, <2>14, <2>12, <2>13, <2>11, <2>15, ZenonT(30) DEF Keeps
\* A proof replaces the unknown result of the primary order.
<1>ReconcileCexKeeps.
    \A o \in OpType, r \in ResultType :
    \A n :
        /\ ParentOK(o) /\ Open(o) /\ o.stage = "unknown_exposure" /\ Known(r)
        /\ o.cex.status = "unknown" /\ n = [o EXCEPT !.cex = r, !.stage = "executing"]
        => Keeps(o, n) /\ NewResult(o, n, Cex, r) /\ Open(n)
    <2> TAKE o \in OpType, r \in ResultType
    <2> TAKE n
    <2> HAVE /\ ParentOK(o) /\ Open(o) /\ o.stage = "unknown_exposure" /\ Known(r)
             /\ o.cex.status = "unknown" /\ n = [o EXCEPT !.cex = r, !.stage = "executing"]
    <2>1. Owned(o) = 0 /\ o.recovery = <<>> /\ ~o.inflight
        <3>1. ~Known(o.cex)
            BY Zenon DEF Known, NoResult, Result
        <3> QED BY <3>1, OwnedIs DEF ParentOK, RecoveryOK, OpType
    <2>2. o.cex # NoResult /\ o.dex_dispatched
        BY DEF ParentOK, DexOK, CexOK, NoResult, Result
    <2>3. /\ n.mode = o.mode /\ n.dir = o.dir /\ n.dex_dispatched = o.dex_dispatched
          /\ n.cex_dispatched = o.cex_dispatched /\ n.price = o.price /\ n.dex = o.dex
          /\ n.recovery = o.recovery /\ n.inflight = o.inflight /\ n.target = o.target
          /\ n.residual = o.residual /\ n.stage = "executing" /\ n.cex = r
        BY Zenon DEF OpType
    <2>4. n \in OpType
        BY Zenon DEF OpType, Stages
    <2>5. Owned(n) = Owned(o)
        BY <2>3, Zenon DEF Owned
    <2>6. DexOK(n)
        BY <2>1, <2>2, <2>3, Zenon DEF DexOK
    <2>7. CexOK(n)
        BY <2>1, <2>2, <2>3, ZenonT(30) DEF ParentOK, CexOK, NoResult, Result
    <2>8. RecoveryOK(n)
        <3>1. Len(n.recovery) = 0
            BY <2>1, <2>2, <2>3
        <3>2. n.target = 0 /\ Owned(n) = 0
            BY <2>1, <2>2, <2>3, <2>5, Zenon DEF ParentOK, RecoveryOK
        <3> QED BY <3>1, <3>2 DEF RecoveryOK, MaxRecoveryAttempts
    <2>9. StageOK(n)
        BY <2>3, Zenon DEF StageOK
    <2>10. NewResult(o, n, Cex, r)
        BY <2>3 DEF NewResult, ResultOf, Dex, Cex
    <2>11. SnapshotAllowed(o, n)
        <3>1. StageTransitionAllowed(o.stage, n.stage)
            BY <2>3, Zenon DEF StageTransitionAllowed
        <3>2. /\ UnchangedOrReconciled(o.dex, n.dex) /\ UnchangedOrReconciled(o.cex, n.cex)
              /\ AppendOnlyOrReconciled(o.recovery, n.recovery)
            <4>1. o.recovery \in Seq(ResultType)
                BY OwnedIs, Zenon
            <4> QED BY <2>1, <2>2, <2>3, <4>1, Unchanged, Zenon DEF UnchangedOrReconciled, HasResult, Known
        <3>3. (o.dex_dispatched => n.dex_dispatched) /\ (o.cex_dispatched => n.cex_dispatched)
            BY <2>3, Zenon
        <3>4. o.price = n.price /\ o.target = n.target /\ n.dir = o.dir /\ n.mode = o.mode
            BY <2>3, Zenon
        <3> QED BY <2>4, <2>8, <3>1, <3>2, <3>3, <3>4, Accepted, Zenon
    <2>12. \A k \in Children : Dispatched(o, k) => Dispatched(n, k) /\ Command(n, k) = Command(o, k)
        <3>1. Owned(o) <= Owned(n)
            BY <2>5, OwnedIs
        <3>2. (o.dex_dispatched => n.dex_dispatched) /\ (o.cex_dispatched => n.cex_dispatched)
            BY <2>3, Zenon
        <3>3. o.cex_dispatched /\ o.mode = "dex_first" => n.dex.delta = o.dex.delta
            BY <2>1, <2>2, <2>3, Zenon
        <3>4. n.price = o.price /\ n.target = o.target /\ n.dir = o.dir /\ n.mode = o.mode
            BY <2>3, Zenon
        <3> QED BY <2>4, <3>1, <3>2, <3>3, <3>4, CommandsStay, Zenon
    <2>13. ParentOK(n)
        BY <2>6, <2>7, <2>8, <2>9, Zenon DEF ParentOK
    <2>14. Open(n)
        BY <2>1, <2>2, <2>3, Zenon DEF Open
    <2> QED BY <2>4, <2>13, <2>11, <2>12, <2>10, <2>14, ZenonT(30) DEF Keeps
\* A proof replaces the unknown result of the last recovery.
<1>ReconcileRecoveryKeeps.
    \A o \in OpType, r \in ResultType :
    \A K, n :
        /\ ParentOK(o) /\ Open(o) /\ o.stage = "unknown_exposure" /\ Known(r)
        /\ o.recovery # <<>> /\ Last(o.recovery).status = "unknown"
        /\ K = Recovery(Len(o.recovery))
        /\ n = [o EXCEPT !.recovery = Append(Front(@), r), !.stage = "recovering"]
        => Keeps(o, n) /\ NewResult(o, n, K, r) /\ Open(n)
    \* The last recovery result replaced (reconcile_unknown): the others stay.
    <2>Replaced.
        \A s \in Seq(ResultType), r \in ResultType :
            s # <<>>
            => /\ Append(Front(s), r) \in Seq(ResultType)
               /\ Len(s) \in Nat \ {0} /\ Len(Append(Front(s), r)) = Len(s)
               /\ \A i \in 1 .. Len(s) - 1 : Append(Front(s), r)[i] = s[i]
               /\ Append(Front(s), r)[Len(s)] = r
               /\ Front(Append(Front(s), r)) = Front(s)
        <3> TAKE s \in Seq(ResultType), r \in ResultType
        <3> HAVE s # <<>>
        <3>1. Len(s) \in Nat \ {0}
            OBVIOUS
        <3>2. /\ Front(s) \in Seq(ResultType)
              /\ Len(Front(s)) = Len(s) - 1
              /\ \A i \in 1 .. Len(s) - 1 : Front(s)[i] = s[i]
            <4>1. SubSeq(s, 1, Len(s) - 1) \in Seq(ResultType)
                BY <3>1
            <4>2. Len(SubSeq(s, 1, Len(s) - 1)) = Len(s) - 1
                <5>1. Len(SubSeq(s, 1, Len(s) - 1)) = IF 1 <= Len(s) - 1 THEN Len(s) - 1 - 1 + 1 ELSE 0
                    BY <3>1
                <5>2. \A m \in Nat \ {0} : (IF 1 <= m - 1 THEN m - 1 - 1 + 1 ELSE 0) = m - 1
                    OBVIOUS
                <5> QED BY <3>1, <5>1, <5>2, Zenon
            <4>3. \A i \in 1 .. Len(s) - 1 : SubSeq(s, 1, Len(s) - 1)[i] = s[i]
                BY <3>1
            <4> QED BY <4>1, <4>2, <4>3, Zenon DEF Front
        <3>3. /\ Append(Front(s), r) \in Seq(ResultType)
              /\ Len(Append(Front(s), r)) = Len(s)
              /\ \A i \in 1 .. Len(s) - 1 : Append(Front(s), r)[i] = Front(s)[i]
              /\ Append(Front(s), r)[Len(s)] = r
            BY <3>1, <3>2
        <3>4. Front(Append(Front(s), r)) = SubSeq(Append(Front(s), r), 1, Len(Front(s)))
            BY <3>1, <3>2, <3>3, Zenon DEF Front
        <3>5. SubSeq(Append(Front(s), r), 1, Len(Front(s))) = SubSeq(Front(s), 1, Len(Front(s)))
            BY <3>2, Grown DEF IsPrefix
        <3>6. SubSeq(Front(s), 1, Len(Front(s))) = Front(s)
            BY <3>2, SMTT(30)
        <3> QED BY <3>1, <3>2, <3>3, <3>4, <3>5, <3>6, Zenon
    <2> TAKE o \in OpType, r \in ResultType
    <2> TAKE K, n
    <2> HAVE /\ ParentOK(o) /\ Open(o) /\ o.stage = "unknown_exposure" /\ Known(r)
             /\ o.recovery # <<>> /\ Last(o.recovery).status = "unknown"
             /\ K = Recovery(Len(o.recovery))
             /\ n = [o EXCEPT !.recovery = Append(Front(@), r), !.stage = "recovering"]
    <2>1. /\ Len(o.recovery) \in Nat \ {0} /\ o.recovery[Len(o.recovery)].status = "unknown"
          /\ Append(Front(o.recovery), r) \in Seq(ResultType) /\ Len(Append(Front(o.recovery), r)) = Len(o.recovery)
          /\ \A i \in 1 .. Len(o.recovery) - 1 : Append(Front(o.recovery), r)[i] = o.recovery[i]
          /\ Append(Front(o.recovery), r)[Len(o.recovery)] = r
          /\ Front(Append(Front(o.recovery), r)) = Front(o.recovery)
        BY OwnedIs, <2>Replaced, Zenon DEF Last
    <2>2. ~o.inflight /\ Owned(o) = Len(o.recovery)
        <3>1. SUFFICES ASSUME o.inflight PROVE FALSE
            BY OwnedIs, Zenon DEF OpType
        <3>2. Owned(o) - 1 = Len(o.recovery)
            BY <2>1, <3>1, OwnedIs
        <3>3. Retryable(o.recovery[Len(o.recovery)])
            BY <2>1, <3>2 DEF ParentOK, RecoveryOK
        <3> QED BY <2>1, <3>3, Zenon DEF Retryable
    <2>3. K # Dex /\ K # Cex /\ Append(Front(o.recovery), r) # <<>>
        <3>1. K # Dex /\ K # Cex
            BY <2>1 DEF Recovery, Dex, Cex
        <3>2. Append(Front(o.recovery), r) # <<>>
            BY <2>1, Zenon
        <3> QED BY <3>1, <3>2, Zenon
    <2>4. o.dex_dispatched
        BY Zenon DEF ParentOK, DexOK
    <2>5. Owned(o) # 0 /\ Owned(o) > 0
        BY <2>1, <2>2
    <2>6. /\ n.mode = o.mode /\ n.dir = o.dir /\ n.dex_dispatched = o.dex_dispatched
          /\ n.cex_dispatched = o.cex_dispatched /\ n.price = o.price /\ n.dex = o.dex
          /\ n.cex = o.cex /\ n.inflight = o.inflight /\ n.target = o.target
          /\ n.residual = o.residual /\ n.stage = "recovering" /\ n.recovery = Append(Front(o.recovery), r)
        BY <2>1, Zenon DEF OpType
    <2>7. n \in OpType
        BY <2>1, Zenon DEF OpType, Stages
    <2>8. Owned(n) = Owned(o)
        BY <2>1, <2>2, <2>3, <2>4, <2>5, <2>6, <2>7, OwnedIs, ZenonT(30)
    <2>9. DexOK(n)
        BY <2>4, <2>6, Zenon DEF DexOK
    <2>10. CexOK(n)
        BY <2>4, <2>6, ZenonT(30) DEF ParentOK, CexOK
    <2>11. RecoveryOK(n)
        <3>1. \A i \in 1 .. Owned(n) - 1 : Retryable(n.recovery[i])
            <4>1. \A i \in 1 .. Len(o.recovery) - 1 : Retryable(o.recovery[i])
                BY <2>2, Zenon DEF ParentOK, RecoveryOK
            <4> QED BY <2>1, <2>2, <2>6, <2>8, <4>1, SMTT(30)
        <3>2. \A i \in 1 .. Len(n.recovery) : HasResult(n.recovery[i])
            <4>1. \A i \in 1 .. Len(o.recovery) - 1 : HasResult(n.recovery[i])
                BY <2>1, <2>6 DEF ParentOK, RecoveryOK
            <4>2. HasResult(n.recovery[Len(o.recovery)])
                BY <2>1, <2>6, Zenon DEF Known, HasResult
            <4>3. \A i \in 1 .. Len(n.recovery) : i \in 1 .. Len(o.recovery) - 1 \/ i = Len(o.recovery)
                BY <2>1, <2>6
            <4> QED BY <4>1, <4>2, <4>3, Zenon
        <3>3. /\ Known(o.dex) /\ Known(o.cex) /\ o.target = -o.dex.delta - o.cex.executed
              /\ Abs(o.target) >= LotStep /\ (o.mode = "dex_first" => Sign(o.target) = -o.dir)
              /\ Owned(o) <= MaxRecoveryAttempts
            BY <2>5, Zenon DEF ParentOK, RecoveryOK
        <3>4. Owned(n) # 0
            BY <2>5, <2>8, Zenon
        <3> QED BY <2>6, <2>8, <3>1, <3>2, <3>3, <3>4, Zenon DEF RecoveryOK
    <2>12. StageOK(n)
        BY <2>6, Zenon DEF StageOK
    <2>13. NewResult(o, n, K, r)
        <3>1. /\ DOMAIN n.recovery = 1 .. Len(n.recovery) /\ DOMAIN o.recovery = 1 .. Len(o.recovery)
              /\ Len(o.recovery) \in Nat
            BY <2>7, OwnedIs, Zenon
        <3>2. DOMAIN n.recovery = 1 .. Len(o.recovery)
            BY <2>1, <2>2, <2>3, <2>4, <2>5, <2>6, <3>1, Zenon
        <3>3. ResultOf(n, K) = r
            <4>1. /\ K # Dex /\ K # Cex
                  /\ K - 1 = Len(o.recovery) /\ Len(o.recovery) \in DOMAIN n.recovery
                BY <2>1, <2>2, <2>3, <2>4, <2>5, <3>1, <3>2, SMTT(30) DEF Recovery
            <4> QED BY <2>1, <2>2, <2>3, <2>4, <2>5, <2>6, <4>1, ZenonT(30) DEF ResultOf
        <3>4. ASSUME NEW k \in Children \ {K}
              PROVE  ResultOf(n, k) = ResultOf(o, k)
            <4>1. k \in 0 .. 4 /\ k # Len(o.recovery) + 1
                BY <2>1, <3>4, ChildrenAre, <3>1 DEF Recovery
            <4>2. CASE k \in {Dex, Cex}
                BY <2>6, <4>2, Zenon DEF ResultOf
            <4>3. CASE k \notin {Dex, Cex} /\ k - 1 \in DOMAIN o.recovery
                <5>1. k - 1 \in DOMAIN n.recovery /\ k - 1 \in 1 .. Len(o.recovery) - 1
                    BY <2>1, <2>2, <2>3, <2>4, <2>5, <3>1, <3>2, <4>1, <4>3, SMTT(30)
                <5>2. n.recovery[k - 1] = o.recovery[k - 1]
                    BY <2>1, <2>2, <2>3, <2>4, <2>5, <2>6, <5>1, SMTT(30)
                <5> QED BY <4>3, <5>1, <5>2, Zenon DEF ResultOf
            <4>4. CASE k \notin {Dex, Cex} /\ k - 1 \notin DOMAIN o.recovery
                <5>1. k - 1 \notin DOMAIN n.recovery
                    BY <3>1, <3>2, <4>1, <4>4, Zenon
                <5> QED BY <4>4, <5>1, Zenon DEF ResultOf
            <4> QED BY <4>2, <4>3, <4>4, Zenon
        <3> QED BY <2>6, <3>3, <3>4, Zenon DEF NewResult
    <2>14. SnapshotAllowed(o, n)
        <3>1. StageTransitionAllowed(o.stage, n.stage)
            BY <2>6, Zenon DEF StageTransitionAllowed
        <3>2. /\ UnchangedOrReconciled(o.dex, n.dex) /\ UnchangedOrReconciled(o.cex, n.cex)
              /\ AppendOnlyOrReconciled(o.recovery, n.recovery)
            <4>1. UnchangedOrReconciled(Last(o.recovery), Last(n.recovery))
                BY <2>1, <2>6, ZenonT(30) DEF UnchangedOrReconciled, Last, Known
            <4> QED BY <2>1, <2>6, <4>1, Zenon DEF UnchangedOrReconciled, AppendOnlyOrReconciled
        <3>3. (o.dex_dispatched => n.dex_dispatched) /\ (o.cex_dispatched => n.cex_dispatched)
            BY <2>6, Zenon
        <3>4. o.price = n.price /\ o.target = n.target /\ n.dir = o.dir /\ n.mode = o.mode
            BY <2>6, Zenon
        <3> QED BY <2>7, <2>11, <3>1, <3>2, <3>3, <3>4, Accepted, ZenonT(30)
    <2>15. \A k \in Children : Dispatched(o, k) => Dispatched(n, k) /\ Command(n, k) = Command(o, k)
        <3>1. Owned(o) <= Owned(n)
            BY <2>8, OwnedIs, SMTT(30)
        <3>2. (o.dex_dispatched => n.dex_dispatched) /\ (o.cex_dispatched => n.cex_dispatched)
            BY <2>6, Zenon
        <3>3. o.cex_dispatched /\ o.mode = "dex_first" => n.dex.delta = o.dex.delta
            BY <2>6, Zenon
        <3>4. n.price = o.price /\ n.target = o.target /\ n.dir = o.dir /\ n.mode = o.mode
            BY <2>6, Zenon
        <3> QED BY <2>7, <3>1, <3>2, <3>3, <3>4, CommandsStay, Zenon
    <2>16. ParentOK(n)
        BY <2>9, <2>10, <2>11, <2>12, Zenon DEF ParentOK
    <2>17. Open(n)
        BY <2>1, <2>2, <2>3, <2>4, <2>5, <2>6, Zenon DEF Open
    <2> QED BY <2>7, <2>16, <2>14, <2>15, <2>13, <2>17, Zenon DEF Keeps
<1> TAKE o \in OpType, k \in Children, r \in ResultType
<1> TAKE n
<1> HAVE /\ ParentOK(o) /\ Open(o) /\ Known(r) /\ o.stage = "unknown_exposure"
         /\ ResultOf(o, k).status = "unknown" /\ n = Reconciled(o, k, r)
<1>1. Dex # Cex
    BY DEF Dex, Cex
<1>2. ASSUME ~Known(o.dex) \/ ~Known(o.cex) PROVE Reopened(o) = "executing"
    <2>1. Owned(o) \in Nat /\ (o.recovery # <<>> => Owned(o) > 0)
        BY OwnedIs
    <2>2. ~(Owned(o) > 0)
        BY <1>2, Zenon DEF ParentOK, RecoveryOK
    <2> QED BY <2>1, <2>2, Zenon DEF Reopened
<1>3. CASE k = Dex
    <2>1. o.dex.status = "unknown"
        BY <1>3, Zenon DEF ResultOf
    <2>2. n = [o EXCEPT !.dex = r, !.stage = "executing"]
        <3>1. ~Known(o.dex)
            BY <2>1, Zenon DEF Known
        <3>2. Reopened(o) = "executing"
            BY <1>2, <3>1, Zenon
        <3>3. Reconciled(o, Dex, r) = [o EXCEPT !.dex = r, !.stage = Reopened(o)]
            BY <1>1, Zenon DEF Reconciled
        <3> QED BY <1>3, <3>2, <3>3, Zenon
    <2> QED BY <1>3, <2>1, <2>2, <1>ReconcileDexKeeps, Zenon
<1>4. CASE k = Cex
    <2>1. o.cex.status = "unknown"
        BY <1>1, <1>4, Zenon DEF ResultOf
    <2>2. n = [o EXCEPT !.cex = r, !.stage = "executing"]
        <3>1. ~Known(o.cex)
            BY <2>1, Zenon DEF Known
        <3>2. Reopened(o) = "executing"
            BY <1>2, <3>1, Zenon
        <3> QED BY <1>1, <1>4, <3>2, Zenon DEF Reconciled
    <2> QED BY <1>4, <2>1, <2>2, <1>ReconcileCexKeeps, Zenon
<1>5. CASE k \notin {Dex, Cex}
    <2>1. /\ o.recovery # <<>> /\ k = Recovery(Len(o.recovery))
          /\ Last(o.recovery).status = "unknown"
        BY <1>5, <1>OnlyLastUnknown, Zenon
    <2>2. n = [o EXCEPT !.recovery = Append(Front(@), r), !.stage = "recovering"]
        BY <1>5, <2>1, Zenon DEF Reconciled, Reopened
    <2> QED BY <2>1, <2>2, <1>ReconcileRecoveryKeeps, Zenon
<1> QED BY <1>3, <1>4, <1>5, Zenon

-----------------------------------------------------------------------------
(* Parents and venues.                                                     *)

\* What a result says does not depend on the rest of the parent.
LEMMA SameTruth ==
    \A o, n \in OpType, k \in Children :
    \A r, v :
        n.dir = o.dir /\ TrueOf(o, k, r, v)
        => TrueOf(n, k, r, v)
BY DEF TrueOf, DexDelta

\* An append keeps the parent true to its venues, if its new results are.
LEMMA KeepsLink ==
    \A o, n \in OpType, k \in Children, v \in ChildType :
    \A a :
        /\ Keeps(o, n) /\ n.dir = o.dir /\ LinkOK(o, k, v, a)
        /\ ResultOf(n, k) = ResultOf(o, k) \/ TrueOf(o, k, ResultOf(n, k), v)
        => LinkOK(n, k, v, a)
<1> TAKE o, n \in OpType, k \in Children, v \in ChildType
<1> TAKE a
<1> HAVE /\ Keeps(o, n) /\ n.dir = o.dir /\ LinkOK(o, k, v, a)
         /\ ResultOf(n, k) = ResultOf(o, k) \/ TrueOf(o, k, ResultOf(n, k), v)
<1>1. TrueOf(n, k, ResultOf(n, k), v)
    BY SameTruth, Zenon DEF LinkOK
<1>2. CASE Dispatched(o, k)
    <2>1. Dispatched(n, k) /\ Command(n, k) = Command(o, k)
        BY <1>2, Zenon DEF Keeps
    <2>2. Target(n, k) = Target(o, k)
        BY <2>1, Zenon DEF Command
    <2>3. VenueOK(n, k, v)
        BY <2>2, Zenon DEF LinkOK, VenueOK, FillOK
    <2> QED BY <1>1, <2>1, <2>3, Zenon DEF LinkOK
<1>3. CASE ~Dispatched(o, k)
    <2>1. v = Unsent /\ a = {}
        BY <1>3, Zenon DEF LinkOK
    <2>2. VenueOK(n, k, v)
        BY <2>1, Zenon DEF VenueOK, Unsent, Child
    <2> QED BY <1>1, <2>1, <2>2, Zenon DEF LinkOK
<1> QED BY <1>2, <1>3, Zenon

\* An append by the parent p: the journal stays what it should be.
LEMMA AppendStep ==
    \A p \in Plans :
    \A n :
        /\ JournalOK /\ Index /\ Persist(p, n) /\ Keeps(op[p], n)
        /\ \A k \in Children : LinkOK(n, k, child[p][k], asked[p][k])
        /\ \/ Open(op[p])
           \/ \A q \in Plans : StrategyOf[q] = StrategyOf[p] => ~Open(op[q])
        /\ child' = child /\ asked' = asked
        => JournalOK' /\ Index' /\ op'[p] = n /\ \A q \in Plans \ {p} : op'[q] = op[q]
\* update_unresolved_strategy_index keeps the index exact.
<1>IndexStep.
    \A p \in Plans, n \in OpType :
        JournalType /\ PlanSets /\ Index /\ Persist(p, n)
        => Index' /\ unresolved' \in [{StrategyOf[q] : q \in Plans} -> Nat]
    <2> TAKE p \in Plans, n \in OpType
    <2> HAVE JournalType /\ PlanSets /\ Index /\ Persist(p, n)
    <2> DEFINE S == {StrategyOf[q] : q \in Plans}
               U(s) == {q \in Plans : StrategyOf[q] = s /\ Unresolved(op[q])}
               W(s) == {q \in Plans : StrategyOf[q] = s /\ Unresolved(op'[q])}
    <2>1. op'[p] = n /\ \A q \in Plans \ {p} : op'[q] = op[q]
        BY Zenon DEF Persist, JournalType
    <2>2. \A s \in S : Cardinality(U(s)) \in Nat /\ Cardinality(U(s) \ {p}) \in Nat
        BY Zenon DEF PlanSets
    <2>3. StrategyOf[p] \in S
        BY Zenon
    <2>4. Cardinality(U(StrategyOf[p])) =
             Cardinality(U(StrategyOf[p]) \ {p}) + (IF Unresolved(op[p]) THEN 1 ELSE 0)
        <3>1. CASE Unresolved(op[p])
            <4>1. p \in U(StrategyOf[p])
                BY <3>1, Zenon
            <4>2. U(StrategyOf[p]) = (U(StrategyOf[p]) \ {p}) \cup {p}
                BY <4>1, Zenon
            <4>3. Cardinality((U(StrategyOf[p]) \ {p}) \cup {p}) = Cardinality(U(StrategyOf[p]) \ {p}) + 1
                BY Zenon DEF PlanSets
            <4> QED BY <3>1, <4>2, <4>3, Zenon
        <3>2. CASE ~Unresolved(op[p])
            <4>1. U(StrategyOf[p]) \ {p} = U(StrategyOf[p])
                BY <3>2, Zenon
            <4>2. Cardinality(U(StrategyOf[p])) \in Nat
                BY <2>2, <2>3, Zenon
            <4> QED BY <3>2, <4>1, <4>2
        <3> QED BY <3>1, <3>2, Zenon
    <2>5. Cardinality(W(StrategyOf[p])) =
             Cardinality(U(StrategyOf[p]) \ {p}) + (IF Unresolved(n) THEN 1 ELSE 0)
        <3>1. CASE Unresolved(n)
            <4>1. W(StrategyOf[p]) = (U(StrategyOf[p]) \ {p}) \cup {p}
                BY <2>1, <3>1, Zenon
            <4>2. Cardinality((U(StrategyOf[p]) \ {p}) \cup {p}) = Cardinality(U(StrategyOf[p]) \ {p}) + 1
                BY Zenon DEF PlanSets
            <4> QED BY <3>1, <4>1, <4>2, Zenon
        <3>2. CASE ~Unresolved(n)
            <4>1. W(StrategyOf[p]) = U(StrategyOf[p]) \ {p}
                BY <2>1, <3>2, Zenon
            <4>2. Cardinality(U(StrategyOf[p]) \ {p}) \in Nat
                BY <2>2, <2>3, Zenon
            <4> HIDE DEF U, W
            <4> QED BY <3>2, <4>1, <4>2
        <3> QED BY <3>1, <3>2, Zenon
    <2>6. \A s \in S \ {StrategyOf[p]} : W(s) = U(s)
        BY <2>1, Zenon
    <2>7. unresolved' = [unresolved EXCEPT ![StrategyOf[p]] =
                              @ - (IF Unresolved(op[p]) THEN 1 ELSE 0) + (IF Unresolved(n) THEN 1 ELSE 0)]
        BY Zenon DEF Persist
    <2>8. \A s \in S : unresolved[s] = Cardinality(U(s))
        BY Zenon DEF Index
    <2>9. unresolved \in [S -> Nat]
        BY Zenon DEF JournalType
    <2>10. unresolved'[StrategyOf[p]] = Cardinality(W(StrategyOf[p]))
        <3>1. unresolved'[StrategyOf[p]] = unresolved[StrategyOf[p]]
                 - (IF Unresolved(op[p]) THEN 1 ELSE 0) + (IF Unresolved(n) THEN 1 ELSE 0)
            BY <2>3, <2>7, <2>9, Zenon
        <3>2. Cardinality(U(StrategyOf[p]) \ {p}) \in Nat
            BY <2>2, <2>3, Zenon
        <3>3. \A c \in Nat : \A x, y \in {0, 1} : c + x - x + y = c + y
            OBVIOUS
        <3> HIDE DEF U, W
        <3> QED BY <2>3, <2>4, <2>5, <2>8, <3>1, <3>2, <3>3, SMTT(30)
    <2>11. \A s \in S \ {StrategyOf[p]} : unresolved'[s] = unresolved[s]
        BY <2>7, <2>9, Zenon
    <2>12. \A s \in S : unresolved'[s] = Cardinality(W(s))
        BY <2>6, <2>8, <2>10, <2>11, Zenon
    <2>13. Index'
        BY <2>12, Zenon DEF Index
    <2>14. \A s \in S : Cardinality(W(s)) \in Nat
        BY Zenon DEF PlanSets
    <2> HIDE DEF U, W
    <2>15. unresolved' = [s \in S |-> unresolved'[s]]
        BY <2>7, <2>9, Zenon
    <2>16. unresolved' \in [S -> Nat]
        BY <2>12, <2>14, <2>15, Zenon
    <2> QED BY <2>13, <2>16, Zenon
<1> TAKE p \in Plans
<1> TAKE n
<1> HAVE /\ JournalOK /\ Index /\ Persist(p, n) /\ Keeps(op[p], n)
         /\ \A k \in Children : LinkOK(n, k, child[p][k], asked[p][k])
         /\ \/ Open(op[p])
            \/ \A q \in Plans : StrategyOf[q] = StrategyOf[p] => ~Open(op[q])
         /\ child' = child /\ asked' = asked
<1>1. n \in OpType /\ ParentOK(n)
    BY Zenon DEF Keeps
<1>2. JournalType /\ PlanSets
    BY Zenon DEF JournalOK
<1>3. op'[p] = n /\ (\A q \in Plans \ {p} : op'[q] = op[q]) /\ op' \in [Plans -> OpType]
    BY <1>1, <1>2, Zenon DEF Persist, JournalType
<1>4. Index' /\ unresolved' \in [{StrategyOf[q] : q \in Plans} -> Nat]
    BY <1>1, <1>2, <1>IndexStep, Zenon
<1>5. JournalType'
    BY <1>2, <1>3, <1>4, Zenon DEF JournalType
<1>6. ParentsOK'
    <2>1. \A q \in Plans \ {p} : ParentOK(op[q]) /\ \A k \in Children : LinkOK(op[q], k, child[q][k], asked[q][k])
        BY Zenon DEF JournalOK, ParentsOK, LinksOK
    <2>2. \A q \in Plans : ParentOK(op'[q]) /\ \A k \in Children : LinkOK(op'[q], k, child'[q][k], asked'[q][k])
        BY <1>1, <1>3, <2>1, Zenon
    <2> QED BY <2>2, Zenon DEF ParentsOK, LinksOK
<1>7. OneParentPerStrategy'
    <2>1. OneParentPerStrategy
        BY Zenon DEF JournalOK
    <2>2. SUFFICES ASSUME NEW q \in Plans, NEW r \in Plans, q # r, StrategyOf[q] = StrategyOf[r],
                          op'[q].stage # "none", op'[r].stage # "none"
                   PROVE  Terminal(op'[q]) \/ Terminal(op'[r])
        BY Zenon DEF OneParentPerStrategy
    <2>3. CASE q # p /\ r # p
        BY <1>3, <2>1, <2>2, <2>3, Zenon DEF OneParentPerStrategy
    <2>4. ASSUME NEW s \in Plans \ {p}, StrategyOf[s] = StrategyOf[p], op[s].stage # "none"
          PROVE  Terminal(op[s])
        BY <2>1, <2>4, Zenon DEF OneParentPerStrategy, Open, Terminal
    <2>5. CASE q = p
        BY <1>3, <2>2, <2>4, <2>5, Zenon
    <2>6. CASE r = p
        BY <1>3, <2>2, <2>4, <2>6, Zenon
    <2> QED BY <2>3, <2>5, <2>6, Zenon
<1> QED BY <1>3, <1>4, <1>5, <1>6, <1>7, Zenon DEF JournalOK

\* A step that leaves journal and venues alone.
LEMMA StayStep ==
    /\ JournalOK /\ op' = op /\ unresolved' = unresolved /\ child' = child
    /\ asked' = asked
    => (JournalOK' /\ (Index => Index'))
BY Zenon DEF JournalOK, JournalType, ParentsOK, LinksOK, OneParentPerStrategy, Index

\* A venue that takes an order, or brings it to its end.
LEMMA VenueStep ==
    \A p \in Plans, k \in Children, w \in ChildType :
        /\ JournalOK /\ child' = [child EXCEPT ![p][k] = w] /\ asked[p][k] # {}
        /\ VenueOK(op[p], k, w) /\ TrueOf(op[p], k, ResultOf(op[p], k), w) /\ op' = op
        /\ unresolved' = unresolved /\ asked' = asked
        => /\ JournalOK' /\ (Index => Index')
           /\ child'[p][k] = w
           /\ \A q \in Plans, j \in Children : (q # p \/ j # k) => child'[q][j] = child[q][j]
<1> TAKE p \in Plans, k \in Children, w \in ChildType
<1> HAVE /\ JournalOK /\ child' = [child EXCEPT ![p][k] = w] /\ asked[p][k] # {}
         /\ VenueOK(op[p], k, w) /\ TrueOf(op[p], k, ResultOf(op[p], k), w) /\ op' = op
         /\ unresolved' = unresolved /\ asked' = asked
<1>1. child \in [Plans -> [Children -> ChildType]]
    BY Zenon DEF JournalOK, JournalType
<1>2. /\ child' \in [Plans -> [Children -> ChildType]]
      /\ child'[p][k] = w
      /\ \A q \in Plans, j \in Children : (q # p \/ j # k) => child'[q][j] = child[q][j]
    BY <1>1, Zenon
<1>3. JournalType' /\ OneParentPerStrategy' /\ (Index => Index')
    <2>1. JournalType'
        BY <1>2, Zenon DEF JournalOK, JournalType
    <2>2. OneParentPerStrategy'
        BY Zenon DEF JournalOK, OneParentPerStrategy
    <2>3. Index => Index'
        BY Zenon DEF Index
    <2> QED BY <2>1, <2>2, <2>3, Zenon
<1>4. \A q \in Plans, j \in Children : LinkOK(op[q], j, child[q][j], asked[q][j])
    BY Zenon DEF JournalOK, ParentsOK, LinksOK
<1>5. LinkOK(op[p], k, w, asked[p][k])
    BY <1>4, Zenon DEF LinkOK
<1>6. \A q \in Plans, j \in Children : LinkOK(op[q], j, child'[q][j], asked[q][j])
    BY <1>2, <1>4, <1>5, ZenonT(30)
<1>7. ParentsOK'
    BY <1>6, Zenon DEF JournalOK, ParentsOK, LinksOK
<1> QED BY <1>2, <1>3, <1>7, Zenon DEF JournalOK

\* A leg that moves on: its call changes, the others stay.
LEMMA LegStep ==
    \A i \in 1 .. Len(calls), c \in CallType :
        /\ TaskType /\ CallsOK /\ pc \in Busy /\ calls' = [calls EXCEPT ![i] = c]
        /\ c.child = calls[i].child /\ pc' = pc /\ plan' = plan /\ op' = op
        /\ CallOK(pc, c, O, child'[plan][c.child], asked'[plan][c.child])
        /\ \A j \in 1 .. Len(calls) : calls[j].child # c.child =>
               /\ child'[plan][calls[j].child] = child[plan][calls[j].child]
               /\ asked'[plan][calls[j].child] = asked[plan][calls[j].child]
        => CallsOK' /\ calls' \in Seq(CallType)
\* Calls in flight are of different children.
<1>CallsDiffer.
    \A i, j \in 1 .. Len(calls) :
        TaskType /\ CallsOK /\ i # j
        => calls[i].child # calls[j].child
    <2> TAKE i, j \in 1 .. Len(calls)
    <2> HAVE TaskType /\ CallsOK /\ i # j
    <2>1. Len(calls) \in Nat /\ (calls = <<>> => Len(calls) = 0)
        BY DEF TaskType
    <2>2. Len(calls) = 2
        BY <2>1, SMTT(30) DEF CallsOK
    <2> QED BY <2>2 DEF CallsOK, Dex, Cex
<1> TAKE i \in 1 .. Len(calls), c \in CallType
<1> HAVE /\ TaskType /\ CallsOK /\ pc \in Busy /\ calls' = [calls EXCEPT ![i] = c]
         /\ c.child = calls[i].child /\ pc' = pc /\ plan' = plan /\ op' = op
         /\ CallOK(pc, c, O, child'[plan][c.child], asked'[plan][c.child])
         /\ \A j \in 1 .. Len(calls) : calls[j].child # c.child =>
                /\ child'[plan][calls[j].child] = child[plan][calls[j].child]
                /\ asked'[plan][calls[j].child] = asked[plan][calls[j].child]
<1>1. calls \in Seq(CallType)
    BY Zenon DEF TaskType
<1>2. /\ calls' \in Seq(CallType) /\ Len(calls') = Len(calls)
      /\ calls'[i] = c /\ \A j \in 1 .. Len(calls) : j # i => calls'[j] = calls[j]
    BY <1>1
<1>3. \A j \in 1 .. Len(calls) :
          CallOK(pc, calls[j], O, child[plan][calls[j].child], asked[plan][calls[j].child])
    BY Zenon DEF CallsOK
<1>4. \A j \in 1 .. Len(calls) : j # i => calls[j].child # c.child
    BY <1>CallsDiffer, ZenonT(30)
<1>5. \A j \in 1 .. Len(calls) :
          CallOK(pc, calls'[j], O, child'[plan][calls'[j].child], asked'[plan][calls'[j].child])
    BY <1>2, <1>3, <1>4
<1>6. \A j \in 1 .. Len(calls) : calls'[j].child = calls[j].child
    BY <1>2, ZenonT(30)
<1>7. Len(calls) = 2 => pc = "exec" /\ calls'[1].child = Dex /\ calls'[2].child = Cex
    BY <1>6 DEF CallsOK
<1>8. Len(calls) \in 1 .. 2
    BY Zenon DEF CallsOK
<1> QED BY <1>2, <1>5, <1>7, <1>8, Zenon DEF CallsOK, O

\* Nothing in flight.
LEMMA NoCalls ==
    calls' = <<>> /\ pc' \notin Busy
    => CallsOK' /\ calls' \in Seq(CallType)
<1> HAVE calls' = <<>> /\ pc' \notin Busy
<1>1. Len(calls') = 0 /\ calls' \in Seq(CallType)
    OBVIOUS
<1>2. 1 .. Len(calls') = {} /\ Len(calls') # 2
    BY <1>1
<1> QED BY <1>1, <1>2, Zenon DEF CallsOK, Busy

-----------------------------------------------------------------------------
(* The steps of the task.                                                  *)

\* What holds of the parent the task drives.
LEMMA Driven ==
    TradeInv /\ pc \in AtPlan
    => /\ plan \in Plans /\ plan \notin resuming /\ O \in OpType /\ O = op[plan]
       /\ ParentOK(O) /\ Open(O) /\ pc # "down" /\ Index
       /\ \A k \in Children : LinkOK(O, k, child[plan][k], asked[plan][k])
       /\ \A k \in Children : child[plan][k] \in ChildType
<1> HAVE TradeInv /\ pc \in AtPlan
<1>1. plan \in Plans /\ plan \notin resuming /\ Open(O)
    BY Zenon DEF TradeInv, TaskOK
<1>2. pc # "down" /\ Index
    BY Zenon DEF TradeInv, IndexOK, AtPlan, Busy
<1>3. O = op[plan] /\ O \in OpType /\ \A k \in Children : child[plan][k] \in ChildType
    BY <1>1, Zenon DEF TradeInv, JournalOK, JournalType, O
<1>4. ParentOK(O) /\ \A k \in Children : LinkOK(O, k, child[plan][k], asked[plan][k])
    BY <1>1, Zenon DEF TradeInv, JournalOK, ParentsOK, LinksOK, O
<1> QED BY <1>1, <1>2, <1>3, <1>4, Zenon

\* The parent the task drives appends a snapshot and stays open.
LEMMA DriveAppends ==
    \A n :
        /\ TradeInv /\ pc \in AtPlan /\ Persist(plan, n) /\ Keeps(O, n) /\ Open(n)
        /\ n.dir = O.dir /\ Proven(O, n, child[plan]) /\ child' = child
        /\ asked' = asked /\ plan' = plan /\ resuming' = resuming
        => /\ JournalOK' /\ Index' /\ Appends /\ op'[plan] = n /\ O' = n
           /\ plan' \in Plans \ resuming' /\ Open(O') /\ \A p \in resuming' : Open(op'[p])
<1> TAKE n
<1> HAVE /\ TradeInv /\ pc \in AtPlan /\ Persist(plan, n) /\ Keeps(O, n) /\ Open(n)
         /\ n.dir = O.dir /\ Proven(O, n, child[plan]) /\ child' = child
         /\ asked' = asked /\ plan' = plan /\ resuming' = resuming
<1>1. n \in OpType
    BY Zenon DEF Keeps
<1>2. \A k \in Children : LinkOK(n, k, child[plan][k], asked[plan][k])
    BY <1>1, Driven, KeepsLink, Zenon DEF Proven
<1>3. JournalOK
    BY Zenon DEF TradeInv
<1>4. plan \in Plans /\ plan \notin resuming /\ O = op[plan] /\ Open(O) /\ Index
    BY Driven, Zenon
<1>5. JournalOK' /\ Index' /\ op'[plan] = n /\ \A q \in Plans \ {plan} : op'[q] = op[q]
    BY <1>2, <1>3, <1>4, AppendStep, Zenon
<1>6. \A p \in resuming : p \in Plans /\ Open(op[p])
    BY Zenon DEF TradeInv, TaskOK, TaskType
<1>7. \A p \in resuming' : Open(op'[p])
    BY <1>4, <1>5, <1>6, Zenon
<1>8. O' = n
    BY <1>5, Zenon DEF O
<1>9. Appends
    BY <1>4, <1>5, Zenon DEF Appends
<1> QED BY <1>4, <1>5, <1>7, <1>8, <1>9, ZenonT(30)

\* A snapshot without a new result.
LEMMA SameProven ==
    \A o, n, v :
        SameResults(o, n)
        => n.dir = o.dir /\ Proven(o, n, v)
BY Zenon DEF SameResults, Proven

\* Between two calls nothing is in flight.
LEMMA Quiet ==
    TradeInv /\ pc \notin Busy
    => calls = <<>>
BY Zenon DEF TradeInv, TaskOK, CallsOK

\* The task goes on with its parent, nothing in flight.
LEMMA GoesOn ==
    /\ TradeInv /\ JournalOK' /\ Index' /\ calls' = <<>>
    /\ pc' \in {"resume", "drive", "reconcile_dex", "reconcile_cex", "backoff", "sleeping"}
    /\ plan' \in Plans \ resuming' /\ resuming' \subseteq Plans /\ Open(O')
    /\ \A p \in resuming' : Open(op'[p])
    /\ resumed' \in BOOLEAN /\ expired' = expired
    /\ backoff' \in [Plans -> BOOLEAN]
    => TradeInv'
<1> HAVE /\ TradeInv /\ JournalOK' /\ Index' /\ calls' = <<>>
         /\ pc' \in {"resume", "drive", "reconcile_dex", "reconcile_cex", "backoff", "sleeping"}
         /\ plan' \in Plans \ resuming' /\ resuming' \subseteq Plans /\ Open(O')
         /\ \A p \in resuming' : Open(op'[p])
         /\ resumed' \in BOOLEAN /\ expired' = expired
         /\ backoff' \in [Plans -> BOOLEAN]
<1>1. pc' \notin Busy /\ pc' \in Places
    BY Zenon DEF Busy, Places
<1>2. CallsOK' /\ calls' \in Seq(CallType)
    BY <1>1, NoCalls, Zenon
<1>3. TaskType'
    BY <1>1, <1>2, Zenon DEF TradeInv, TaskType
<1>4. TaskOK'
    BY <1>2, Zenon DEF TaskOK
<1> QED BY <1>3, <1>4, Zenon DEF TradeInv, IndexOK

\* The task moves on with no append.
LEMMA MovesOn ==
    /\ TradeInv /\ pc \in AtPlan /\ calls' = <<>>
    /\ UNCHANGED <<op, unresolved, child, asked, plan, resuming, resumed, expired, backoff>>
    /\ pc' \in {"resume", "drive", "reconcile_dex", "reconcile_cex", "backoff", "sleeping"}
    => TradeInv'
<1> HAVE /\ TradeInv /\ pc \in AtPlan /\ calls' = <<>>
         /\ UNCHANGED <<op, unresolved, child, asked, plan, resuming, resumed, expired, backoff>>
         /\ pc' \in {"resume", "drive", "reconcile_dex", "reconcile_cex", "backoff", "sleeping"}
<1>1. JournalOK' /\ Index'
    BY Driven, StayStep, Zenon DEF TradeInv
<1>2. plan' \in Plans \ resuming' /\ resuming' \subseteq Plans /\ Open(O') /\ resumed' \in BOOLEAN
    BY Driven, Zenon DEF TradeInv, TaskType, O
<1>3. (\A p \in resuming' : Open(op'[p])) /\ backoff' \in [Plans -> BOOLEAN]
    BY Zenon DEF TradeInv, TaskOK, TaskType
<1> QED BY <1>1, <1>2, <1>3, GoesOn, Zenon

\* The task leaves its parent.
LEMMA Leaves ==
    /\ TradeInv /\ JournalOK'
    /\ pc' # "down" => Index'
    /\ calls' = <<>> /\ pc' \in {"down", "next", "idle", "poisoned", "failed"}
    /\ plan' \in Plans \cup {0} /\ resuming' \subseteq Plans
    /\ \A p \in resuming' : Open(op'[p])
    /\ resumed' \in BOOLEAN /\ expired' = expired /\ backoff' = backoff
    => TradeInv'
<1> HAVE /\ TradeInv /\ JournalOK'
         /\ pc' # "down" => Index'
         /\ calls' = <<>> /\ pc' \in {"down", "next", "idle", "poisoned", "failed"}
         /\ plan' \in Plans \cup {0} /\ resuming' \subseteq Plans
         /\ \A p \in resuming' : Open(op'[p])
         /\ resumed' \in BOOLEAN /\ expired' = expired /\ backoff' = backoff
<1>1. pc' \notin AtPlan /\ pc' \notin Busy /\ pc' \in Places
    BY Zenon DEF AtPlan, Busy, Places
<1>2. CallsOK' /\ calls' \in Seq(CallType)
    BY <1>1, NoCalls, Zenon
<1>3. TaskType'
    BY <1>1, <1>2, Zenon DEF TradeInv, TaskType
<1>4. TaskOK'
    BY <1>1, <1>2, Zenon DEF TaskOK
<1> QED BY <1>3, <1>4, Zenon DEF TradeInv, IndexOK

\* The task leaves its parent as it is.
LEMMA LeavesAlone ==
    /\ TradeInv /\ pc \in AtPlan /\ calls' = <<>>
    /\ UNCHANGED <<op, unresolved, child, asked, resuming, resumed, expired, backoff>>
    /\ plan' \in {0, plan} /\ pc' \in {"next", "idle", "poisoned", "failed"}
    => TradeInv'
<1> HAVE /\ TradeInv /\ pc \in AtPlan /\ calls' = <<>>
         /\ UNCHANGED <<op, unresolved, child, asked, resuming, resumed, expired, backoff>>
         /\ plan' \in {0, plan} /\ pc' \in {"next", "idle", "poisoned", "failed"}
<1>1. JournalOK' /\ Index'
    BY Driven, StayStep, Zenon DEF TradeInv
<1>2. /\ plan' \in Plans \cup {0} /\ resuming' \subseteq Plans /\ resumed' \in BOOLEAN
      /\ \A p \in resuming' : Open(op'[p])
    BY Zenon DEF TradeInv, TaskType, TaskOK
<1> QED BY <1>1, <1>2, Leaves, Zenon

\* The task appends a snapshot of its parent and goes on with it.
LEMMA AppendsOn ==
    \A n :
        /\ TradeInv /\ pc \in AtPlan /\ Persist(plan, n) /\ Keeps(O, n) /\ Open(n)
        /\ n.dir = O.dir /\ Proven(O, n, child[plan])
        /\ UNCHANGED <<child, asked, plan, resuming, resumed, expired>>
        /\ calls' = <<>> /\ backoff' \in [Plans -> BOOLEAN]
        /\ pc' \in {"resume", "drive", "reconcile_dex", "reconcile_cex", "backoff", "sleeping"}
        => TradeInv' /\ Appends
<1> TAKE n
<1> HAVE /\ TradeInv /\ pc \in AtPlan /\ Persist(plan, n) /\ Keeps(O, n) /\ Open(n)
         /\ n.dir = O.dir /\ Proven(O, n, child[plan])
         /\ UNCHANGED <<child, asked, plan, resuming, resumed, expired>>
         /\ calls' = <<>> /\ backoff' \in [Plans -> BOOLEAN]
         /\ pc' \in {"resume", "drive", "reconcile_dex", "reconcile_cex", "backoff", "sleeping"}
<1>1. /\ JournalOK' /\ Index' /\ Appends
      /\ plan' \in Plans \ resuming' /\ Open(O') /\ \A p \in resuming' : Open(op'[p])
    BY DriveAppends, Zenon
<1>2. resuming' \subseteq Plans /\ resumed' \in BOOLEAN
    BY Zenon DEF TradeInv, TaskType
<1> QED BY <1>1, <1>2, GoesOn, Zenon

\* SelectPrice keeps the invariant.
LEMMA SelectPriceStep == TradeInv /\ SelectPrice => TradeInv' /\ Appends
<1> SUFFICES ASSUME TradeInv, SelectPrice PROVE TradeInv' /\ Appends
    BY Zenon
<1>1. pc = "drive" /\ NeedsPrice
    BY Zenon DEF SelectPrice
<1>2. pc \in AtPlan /\ pc \notin Busy
    BY <1>1, Zenon DEF AtPlan, Busy
<1>3. PICK price \in Prices : Persist(plan, [O EXCEPT !.price = price])
    BY Zenon DEF SelectPrice
<1> DEFINE n == [O EXCEPT !.price = price]
<1>4. Keeps(O, n) /\ SameResults(O, n) /\ Open(n)
    BY <1>1, <1>2, Driven, PriceKeeps, Zenon DEF NeedsPrice
<1>5. UNCHANGED <<child, asked, plan, resuming, resumed, expired, backoff, pc, calls>>
    BY Zenon DEF SelectPrice, KeepTask, venues, clock
<1> HIDE DEF n
<1>6. Persist(plan, n)
    BY <1>3, Zenon DEF n
<1>7. calls' = <<>> /\ backoff' \in [Plans -> BOOLEAN] /\ pc' = "drive"
    BY <1>1, <1>2, <1>5, Quiet, Zenon DEF TradeInv, TaskType
<1> QED BY <1>2, <1>4, <1>5, <1>6, <1>7, AppendsOn, SameProven, Zenon

\* MarkUnknown keeps the invariant.
LEMMA MarkUnknownStep == TradeInv /\ MarkUnknown => TradeInv' /\ Appends
<1> SUFFICES ASSUME TradeInv, MarkUnknown PROVE TradeInv' /\ Appends
    BY Zenon
<1>1. pc = "drive" /\ HasUnknownLeg(O)
    BY Zenon DEF MarkUnknown, Driving
<1>2. pc \in AtPlan /\ pc \notin Busy
    BY <1>1, Zenon DEF AtPlan, Busy
<1>3. UNCHANGED <<child, asked, plan, resuming, resumed, expired, backoff, calls>>
    BY Zenon DEF MarkUnknown, KeepTask, venues, clock
<1>4. calls' = <<>> /\ backoff' \in [Plans -> BOOLEAN] /\ pc' = "reconcile_dex"
    BY <1>2, <1>3, Quiet, Zenon DEF TradeInv, TaskType, MarkUnknown, GoTo
<1>5. CASE O.stage = "unknown_exposure"
    <2>1. UNCHANGED <<op, unresolved>>
        BY <1>5, Zenon DEF MarkUnknown, journal
    <2> QED BY <1>2, <1>3, <1>4, <2>1, MovesOn, Zenon DEF Appends
<1>6. CASE O.stage # "unknown_exposure"
    <2> DEFINE n == [O EXCEPT !.stage = "unknown_exposure"]
    <2>1. Keeps(O, n) /\ SameResults(O, n) /\ Open(n)
        BY <1>1, <1>2, Driven, MarkKeeps, Zenon
    <2>2. Persist(plan, n)
        BY <1>6, Zenon DEF MarkUnknown
    <2> HIDE DEF n
    <2> QED BY <1>2, <1>3, <1>4, <2>1, <2>2, AppendsOn, SameProven, Zenon
<1> QED BY <1>5, <1>6, Zenon

\* AwaitBackoff, SkipDex, SleepBackoff, WakeUp and ResumeDrive only move on.
LEMMA QuietSteps ==
    TradeInv /\ (AwaitBackoff \/ SkipDex \/ SleepBackoff \/ WakeUp \/ ResumeDrive) => TradeInv'
<1> SUFFICES ASSUME TradeInv, AwaitBackoff \/ SkipDex \/ SleepBackoff \/ WakeUp \/ ResumeDrive
             PROVE TradeInv'
    BY Zenon
<1>1. pc \in {"drive", "reconcile_dex", "backoff", "sleeping", "resume"}
    BY Zenon DEF AwaitBackoff, PrimaryFinished, Driving, SkipDex, SleepBackoff, WakeUp, ResumeDrive
<1>2. pc \in AtPlan /\ pc \notin Busy
    BY <1>1, Zenon DEF AtPlan, Busy
<1>3. UNCHANGED <<op, unresolved, child, asked, plan, resuming, resumed, expired, backoff, calls>>
    BY Zenon DEF AwaitBackoff, SkipDex, SleepBackoff, WakeUp, ResumeDrive, KeepTask, journal, venues, clock
<1>4. pc' \in {"backoff", "reconcile_cex", "sleeping", "drive"}
    BY Zenon DEF AwaitBackoff, SkipDex, SleepBackoff, WakeUp, ResumeDrive, GoTo
<1> QED BY <1>2, <1>3, <1>4, Quiet, MovesOn, Zenon

\* FinishRefused, Blocked and MissBackoff leave the parent.
LEMMA LeavingSteps ==
    TradeInv /\ (FinishRefused \/ Blocked \/ MissBackoff) => TradeInv'
<1> SUFFICES ASSUME TradeInv, FinishRefused \/ Blocked \/ MissBackoff PROVE TradeInv'
    BY Zenon
<1>1. pc \in {"drive", "reconcile_cex", "backoff"}
    BY Zenon DEF FinishRefused, Finishes, PrimaryFinished, Driving, Blocked, MissBackoff
<1>2. pc \in AtPlan /\ pc \notin Busy
    BY <1>1, Zenon DEF AtPlan, Busy
<1>3. UNCHANGED <<op, unresolved, child, asked, resuming, resumed, expired, backoff, calls>>
    BY Zenon DEF FinishRefused, Blocked, MissBackoff, Return, KeepTask, journal, venues, clock
<1>4. plan' \in {0, plan} /\ pc' \in {"next", "idle", "poisoned", "failed"}
    BY Zenon DEF FinishRefused, Blocked, MissBackoff, Return, KeepTask, GoTo
<1> QED BY <1>2, <1>3, <1>4, Quiet, LeavesAlone, Zenon

\* Finish keeps the invariant.
LEMMA FinishStep == TradeInv /\ Finish => TradeInv' /\ Appends
<1> SUFFICES ASSUME TradeInv, Finish PROVE TradeInv' /\ Appends
    BY Zenon
<1>1. pc = "drive" /\ MayFinalize(O) /\ O.dex_dispatched
    BY Zenon DEF Finish, Finishes, PrimaryFinished, Driving
<1>2. pc \in AtPlan /\ pc \notin Busy
    BY <1>1, Zenon DEF AtPlan, Busy
<1> DEFINE n == [O EXCEPT !.stage = "balanced", !.residual = Residual(O)]
<1>3. Keeps(O, n) /\ SameResults(O, n)
    BY <1>1, <1>2, Driven, FinishKeeps, Zenon
<1>4. Persist(plan, n)
    BY Zenon DEF Finish, Finalized
<1> HIDE DEF n
<1>5. UNCHANGED <<child, asked, resuming, resumed, expired, backoff, calls>>
    BY Zenon DEF Finish, Return, venues, clock
<1>6. calls' = <<>> /\ plan' = 0 /\ pc' \in {"next", "idle"}
    BY <1>2, <1>5, Quiet, Zenon DEF Finish, Return, GoTo
<1>7. n \in OpType
    BY <1>3, Zenon DEF Keeps
<1>8. \A k \in Children : LinkOK(n, k, child[plan][k], asked[plan][k])
    BY <1>2, <1>3, <1>7, Driven, KeepsLink, Zenon DEF SameResults
<1>9. JournalOK /\ plan \in Plans /\ plan \notin resuming /\ O = op[plan] /\ Open(O) /\ Index
    BY <1>2, Driven, Zenon DEF TradeInv
<1>10. JournalOK' /\ Index' /\ op'[plan] = n /\ \A q \in Plans \ {plan} : op'[q] = op[q]
    BY <1>3, <1>4, <1>5, <1>8, <1>9, AppendStep, Zenon
<1>11. /\ resuming' \subseteq Plans /\ resumed' \in BOOLEAN
       /\ \A p \in resuming' : Open(op'[p])
    BY <1>5, <1>9, <1>10 DEF TradeInv, TaskType, TaskOK
<1>12. Appends
    BY <1>3, <1>5, <1>9, <1>10, SameProven, Zenon DEF Appends
<1> QED BY <1>5, <1>6, <1>10, <1>11, <1>12, Leaves, ZenonT(30)

-----------------------------------------------------------------------------
(* Commands that go out.                                                   *)

\* One call in flight.
LEMMA OneCall ==
    \A c \in CallType :
        /\ calls' = <<c>> /\ pc' \in Busy
        /\ CallOK(pc', c, O', child'[plan'][c.child], asked'[plan'][c.child])
        /\ pc' \in {"await_dex", "await_cex"} => O'.stage = "unknown_exposure"
        => CallsOK' /\ calls' \in Seq(CallType)
<1> TAKE c \in CallType
<1> HAVE /\ calls' = <<c>> /\ pc' \in Busy
         /\ CallOK(pc', c, O', child'[plan'][c.child], asked'[plan'][c.child])
         /\ pc' \in {"await_dex", "await_cex"} => O'.stage = "unknown_exposure"
<1>1. calls' \in Seq(CallType) /\ Len(calls') = 1 /\ calls'[1] = c
    OBVIOUS
<1>2. \A i \in 1 .. Len(calls') : i = 1
    BY <1>1
<1>3. \A i \in 1 .. Len(calls') :
        CallOK(pc', calls'[i], O', child'[plan'][calls'[i].child], asked'[plan'][calls'[i].child])
    BY <1>1, <1>2, Zenon
<1> QED BY <1>1, <1>3, SMTT(30) DEF CallsOK

\* The task waits for its calls.
LEMMA Waits ==
    /\ TradeInv /\ JournalOK' /\ Index' /\ CallsOK' /\ calls' \in Seq(CallType)
    /\ pc' \in Busy /\ plan' \in Plans \ resuming' /\ resuming' \subseteq Plans
    /\ Open(O')
    /\ \A p \in resuming' : Open(op'[p])
    /\ resumed' \in BOOLEAN /\ expired' = expired
    /\ backoff' \in [Plans -> BOOLEAN]
    => TradeInv'
<1> HAVE /\ TradeInv /\ JournalOK' /\ Index' /\ CallsOK' /\ calls' \in Seq(CallType)
         /\ pc' \in Busy /\ plan' \in Plans \ resuming' /\ resuming' \subseteq Plans
         /\ Open(O')
         /\ \A p \in resuming' : Open(op'[p])
         /\ resumed' \in BOOLEAN /\ expired' = expired
         /\ backoff' \in [Plans -> BOOLEAN]
<1>1. pc' \in Places
    BY Zenon DEF Busy, Places
<1>2. TaskType'
    BY <1>1, Zenon DEF TradeInv, TaskType
<1>3. TaskOK'
    BY Zenon DEF TaskOK
<1> QED BY <1>2, <1>3, Zenon DEF TradeInv, IndexOK

\* The steps that hand out commands, for the first time or again, keep the
\* invariant.
LEMMA CommandSteps ==
    /\ TradeInv /\ (DispatchEntry \/ DispatchHedge \/ StartRecovery \/ RetryRecovery)
       => TradeInv' /\ Appends
    /\ TradeInv /\ (ReconcileDex \/ ReconcileCex \/ ResumeCommand) => TradeInv'
\* The calls the task makes carry the commands of the parent.
<1>CallsAre.
    \A o \in OpType :
        /\ \A recon : DexCall(o, recon) = Call(Dex, Target(o, Dex), LimitPrice(o, Dex), recon)
        /\ CexCall(o) = Call(Cex, Target(o, Cex), LimitPrice(o, Cex), FALSE)
        /\ \A i \in Nat \ {0} : RecoveryCall(o, i) =
              Call(Recovery(i), Target(o, Recovery(i)), LimitPrice(o, Recovery(i)), FALSE)
    <2> TAKE o \in OpType
    <2>1. Dex # Cex /\ \A i \in Nat \ {0} : Recovery(i) # Dex /\ Recovery(i) # Cex
        BY DEF Recovery, Dex, Cex
    <2>2. \A recon : DexCall(o, recon) = Call(Dex, Target(o, Dex), LimitPrice(o, Dex), recon)
        BY <2>1, Zenon DEF DexCall, Target, LimitPrice
    <2>3. CexCall(o) = Call(Cex, Target(o, Cex), LimitPrice(o, Cex), FALSE)
        BY <2>1, Zenon DEF CexCall, Target, LimitPrice
    <2>4. \A i \in Nat \ {0} : RecoveryCall(o, i) =
             Call(Recovery(i), Target(o, Recovery(i)), LimitPrice(o, Recovery(i)), FALSE)
        BY <2>1, Zenon DEF RecoveryCall, Target, LimitPrice
    <2> QED BY <2>2, <2>3, <2>4, Zenon
\* A call that starts.
<1>FreshCall.
    \A o \in OpType, k \in Children, recon \in BOOLEAN :
    \A c, at, v, a :
        /\ Dispatched(o, k) /\ c = Call(k, Target(o, k), LimitPrice(o, k), recon)
        /\ recon => k = Dex
        /\ at = "exec" => ~HasResult(ResultOf(o, k))
        /\ at # "exec" => ResultOf(o, k).status = "unknown"
        /\ at = "await_dex" => k = Dex /\ recon
        /\ at = "await_cex" => k # Dex
        => c \in CallType /\ c.child = k /\ CallOK(at, c, o, v, a)
    <2> TAKE o \in OpType, k \in Children, recon \in BOOLEAN
    <2> TAKE c, at, v, a
    <2> HAVE /\ Dispatched(o, k) /\ c = Call(k, Target(o, k), LimitPrice(o, k), recon)
             /\ recon => k = Dex
             /\ at = "exec" => ~HasResult(ResultOf(o, k))
             /\ at # "exec" => ResultOf(o, k).status = "unknown"
             /\ at = "await_dex" => k = Dex /\ recon
             /\ at = "await_cex" => k # Dex
    <2>1. NoResult \in ResultType /\ NoResult.status = "none" /\ NoResult.delta = 0
          /\ NoResult.executed = 0 /\ NoResult.ref = "none"
        BY DEF NoResult, Result, ResultType, Statuses, References
    <2>2. /\ c.child = k /\ c.target = Target(o, k) /\ c.price = LimitPrice(o, k) /\ c.recon = recon
          /\ c.at = "start" /\ c.result = NoResult
        BY Zenon DEF Call
    <2>3. c \in CallType
        BY <2>1, CommandType, Zenon DEF Call, CallType
    <2>4. TrueOf(o, k, NoResult, v)
        BY <2>1, Zenon DEF TrueOf, HasResult
    <2> QED BY <2>1, <2>2, <2>3, <2>4, Zenon DEF CallOK, Command
\* A leg that starts.
<1>FreshLeg.
    \A o \in OpType, k \in Children, recon \in BOOLEAN :
    \A c, v, a :
        /\ Dispatched(o, k) /\ c = Call(k, Target(o, k), LimitPrice(o, k), recon)
        /\ recon => k = Dex
        /\ ~HasResult(ResultOf(o, k))
        => c \in CallType /\ c.child = k /\ CallOK("exec", c, o, v, a)
    <2> TAKE o \in OpType, k \in Children, recon \in BOOLEAN
    <2> TAKE c, v, a
    <2> HAVE /\ Dispatched(o, k) /\ c = Call(k, Target(o, k), LimitPrice(o, k), recon)
             /\ recon => k = Dex
             /\ ~HasResult(ResultOf(o, k))
    <2> DEFINE at == "exec"
    <2>1. at = "exec" /\ at # "await_dex" /\ at # "await_cex"
        BY Zenon
    <2> HIDE DEF at
    <2>2. at = "exec" => ~HasResult(ResultOf(o, k))
        BY Zenon
    <2>3. at # "exec" => ResultOf(o, k).status = "unknown"
        BY <2>1, Zenon
    <2>4. at = "await_dex" => k = Dex /\ recon
        BY <2>1, Zenon
    <2>5. at = "await_cex" => k # Dex
        BY <2>1, Zenon
    <2>6. c \in CallType /\ c.child = k /\ CallOK(at, c, o, v, a)
        BY <2>2, <2>3, <2>4, <2>5, <1>FreshCall, SMTT(30)
    <2> QED BY <2>1, <2>6, Zenon
\* Two calls in flight: both legs of a concurrent entry.
<1>TwoCalls.
    \A c, d \in CallType :
        /\ calls' = <<c, d>> /\ pc' = "exec" /\ c.child = Dex /\ d.child = Cex
        /\ CallOK(pc', c, O', child'[plan'][Dex], asked'[plan'][Dex])
        /\ CallOK(pc', d, O', child'[plan'][Cex], asked'[plan'][Cex])
        => CallsOK' /\ calls' \in Seq(CallType)
    <2> TAKE c, d \in CallType
    <2> HAVE /\ calls' = <<c, d>> /\ pc' = "exec" /\ c.child = Dex /\ d.child = Cex
             /\ CallOK(pc', c, O', child'[plan'][Dex], asked'[plan'][Dex])
             /\ CallOK(pc', d, O', child'[plan'][Cex], asked'[plan'][Cex])
    <2>1. calls' \in Seq(CallType) /\ Len(calls') = 2 /\ calls'[1] = c /\ calls'[2] = d
        BY SMTT(30)
    <2>2. \A i \in 1 .. Len(calls') : i = 1 \/ i = 2
        BY <2>1
    <2>3. \A i \in 1 .. Len(calls') :
            CallOK(pc', calls'[i], O', child'[plan'][calls'[i].child], asked'[plan'][calls'[i].child])
        BY <2>1, <2>2, Zenon
    <2> QED BY <2>1, <2>3, SMTT(30) DEF CallsOK, Busy
\* The task appends a snapshot that owns the commands and hands them out.
<1>DispatchStep.
    \A n, commands :
        /\ TradeInv /\ pc \in AtPlan /\ Keeps(O, n) /\ SameResults(O, n) /\ Open(n)
        /\ Dispatch(n, commands)
        /\ O' = n => CallsOK' /\ calls' \in Seq(CallType)
        => TradeInv' /\ Appends
    <2> TAKE n, commands
    <2> HAVE /\ TradeInv /\ pc \in AtPlan /\ Keeps(O, n) /\ SameResults(O, n) /\ Open(n)
             /\ Dispatch(n, commands)
             /\ O' = n => CallsOK' /\ calls' \in Seq(CallType)
    <2>1. /\ Persist(plan, n) /\ pc' = "exec"
          /\ UNCHANGED <<child, asked, plan, resuming, resumed, expired, backoff>>
        BY Zenon DEF Dispatch, GoTo, KeepTask, venues, clock
    <2>2. /\ JournalOK' /\ Index' /\ Appends /\ O' = n
          /\ plan' \in Plans \ resuming' /\ Open(O') /\ \A p \in resuming' : Open(op'[p])
        BY <2>1, DriveAppends, SameProven, Zenon
    <2>3. resuming' \subseteq Plans /\ resumed' \in BOOLEAN /\ backoff' \in [Plans -> BOOLEAN]
        BY <2>1, Zenon DEF TradeInv, TaskType
    <2>4. pc' \in Busy
        BY <2>1, Zenon DEF Busy
    <2> QED BY <2>1, <2>2, <2>3, <2>4, Waits, Zenon
\* The one command of a dispatch is child k of the new snapshot.
<1>DispatchOne.
    \A n :
    \A k \in Children :
    \A c :
        /\ TradeInv /\ pc \in AtPlan /\ Keeps(O, n) /\ SameResults(O, n) /\ Open(n)
        /\ Dispatched(n, k) /\ ~HasResult(ResultOf(n, k))
        /\ c = Call(k, Target(n, k), LimitPrice(n, k), FALSE) /\ Dispatch(n, <<c>>)
        => TradeInv' /\ Appends
    <2> TAKE n
    <2> TAKE k \in Children
    <2> TAKE c
    <2> HAVE /\ TradeInv /\ pc \in AtPlan /\ Keeps(O, n) /\ SameResults(O, n) /\ Open(n)
             /\ Dispatched(n, k) /\ ~HasResult(ResultOf(n, k))
             /\ c = Call(k, Target(n, k), LimitPrice(n, k), FALSE) /\ Dispatch(n, <<c>>)
    <2>1. n \in OpType
        BY Zenon DEF Keeps
    <2>2. pc' = "exec" /\ calls' = <<c>>
        BY Zenon DEF Dispatch, GoTo
    <2>3. c \in CallType /\ c.child = k /\ CallOK("exec", c, n, child'[plan'][k], asked'[plan'][k])
        BY <2>1, <1>FreshLeg, ZenonT(30)
    <2>4. pc' \in Busy
        BY <2>2, Zenon DEF Busy
    <2>5. O' = n => CallsOK' /\ calls' \in Seq(CallType)
        BY <2>2, <2>3, <2>4, OneCall, Zenon
    <2> QED BY <2>5, <1>DispatchStep, Zenon
\* DispatchEntry keeps the invariant.
<1>DispatchEntryStep. TradeInv /\ DispatchEntry => TradeInv' /\ Appends
    <2> SUFFICES ASSUME TradeInv, DispatchEntry PROVE TradeInv' /\ Appends
        BY Zenon
    <2> DEFINE n == [O EXCEPT !.dex_dispatched = TRUE, !.stage = "executing",
                              !.cex_dispatched = (O.mode = "concurrent")]
    <2>1. pc \in AtPlan /\ ~O.dex_dispatched
        BY Zenon DEF DispatchEntry, Driving, AtPlan
    <2>2. O \in OpType /\ ParentOK(O)
        BY <2>1, Driven, Zenon
    <2>3. Keeps(O, n) /\ SameResults(O, n) /\ Open(n)
        BY <2>1, Driven, EntryKeeps, Zenon
    <2>4. n.dex_dispatched /\ n.dex = O.dex /\ n.cex = O.cex /\ (O.mode = "concurrent" => n.cex_dispatched)
        BY <2>2, Zenon DEF OpType
    <2>5. n.dex = NoResult /\ n.cex = NoResult
        BY <2>1, <2>2, <2>4, Zenon DEF ParentOK, DexOK, CexOK
    <2>6. Dispatch(n, IF O.mode = "concurrent" THEN <<DexCall(n, FALSE), CexCall(n)>>
                      ELSE <<DexCall(n, FALSE)>>)
        BY Zenon DEF DispatchEntry
    <2> HIDE DEF n
    <2>7. n \in OpType
        BY <2>3, Zenon DEF Keeps
    <2>8. ~HasResult(NoResult)
        BY Zenon DEF HasResult, NoResult, Result
    <2>9. Dex \in Children /\ Dispatched(n, Dex) /\ ~HasResult(ResultOf(n, Dex))
        BY <2>4, <2>5, <2>8, ChildrenAre, ZenonT(30) DEF Dispatched, ResultOf, Dex
    <2> DEFINE c == DexCall(n, FALSE)
               d == CexCall(n)
    <2>10. c = Call(Dex, Target(n, Dex), LimitPrice(n, Dex), FALSE)
        BY <2>7, <1>CallsAre, Zenon
    <2>11. d = Call(Cex, Target(n, Cex), LimitPrice(n, Cex), FALSE)
        BY <2>7, <1>CallsAre, Zenon
    <2> HIDE DEF c, d
    <2>12. CASE O.mode = "concurrent"
        <3>1. Dispatch(n, <<c, d>>)
            BY <2>6, <2>12, Zenon DEF c, d
        <3>2. Cex \in Children /\ Dispatched(n, Cex) /\ ~HasResult(ResultOf(n, Cex))
            BY <2>4, <2>5, <2>8, <2>12, ChildrenAre, ZenonT(30) DEF Dispatched, ResultOf, Dex, Cex
        <3>3. pc' = "exec" /\ calls' = <<c, d>>
            BY <3>1, Zenon DEF Dispatch, GoTo
        <3>4. c \in CallType /\ c.child = Dex /\ CallOK("exec", c, n, child'[plan'][Dex], asked'[plan'][Dex])
            BY <2>7, <2>9, <2>10, <1>FreshLeg, ZenonT(30)
        <3>5. d \in CallType /\ d.child = Cex /\ CallOK("exec", d, n, child'[plan'][Cex], asked'[plan'][Cex])
            BY <2>7, <2>11, <3>2, <1>FreshLeg, ZenonT(30)
        <3>6. O' = n => CallsOK' /\ calls' \in Seq(CallType)
            BY <3>3, <3>4, <3>5, <1>TwoCalls, Zenon
        <3> QED BY <2>1, <2>3, <3>1, <3>6, <1>DispatchStep, ZenonT(30)
    <2>13. CASE O.mode # "concurrent"
        <3>1. Dispatch(n, <<c>>)
            BY <2>6, <2>13, Zenon DEF c
        <3> QED BY <2>1, <2>3, <2>9, <2>10, <3>1, <1>DispatchOne, ZenonT(30)
    <2> QED BY <2>12, <2>13, Zenon
\* DispatchHedge keeps the invariant.
<1>DispatchHedgeStep. TradeInv /\ DispatchHedge => TradeInv' /\ Appends
    <2> SUFFICES ASSUME TradeInv, DispatchHedge PROVE TradeInv' /\ Appends
        BY Zenon
    <2> DEFINE n == [O EXCEPT !.cex_dispatched = TRUE]
    <2>1. /\ pc \in AtPlan /\ O.mode = "dex_first" /\ O.dex_dispatched /\ ~O.cex_dispatched
          /\ O.dex.status = "filled" /\ O.dex.delta # 0 /\ O.price # 0
        BY Zenon DEF DispatchHedge, Driving, NeedsPrice, AtPlan
    <2>2. O \in OpType /\ ParentOK(O)
        BY <2>1, Driven, Zenon
    <2>3. Keeps(O, n) /\ SameResults(O, n) /\ Open(n)
        BY <2>1, Driven, HedgeKeeps, Zenon
    <2>4. /\ n.cex_dispatched /\ n.cex = O.cex /\ n.mode = O.mode /\ n.dex = O.dex
          /\ n.dir = O.dir /\ n.price = O.price
        BY <2>2, Zenon DEF OpType
    <2>5. n.cex = NoResult
        BY <2>1, <2>2, <2>4, Zenon DEF ParentOK, CexOK
    <2>6. CexCall(O) = CexCall(n)
        BY <2>4, Zenon DEF CexCall, CexTarget
    <2>7. Dispatch(n, <<CexCall(O)>>)
        BY ZenonT(30) DEF DispatchHedge
    <2> HIDE DEF n
    <2>8. n \in OpType
        BY <2>3, Zenon DEF Keeps
    <2>9. ~HasResult(NoResult)
        BY Zenon DEF HasResult, NoResult, Result
    <2>10. Cex \in Children /\ Dispatched(n, Cex) /\ ~HasResult(ResultOf(n, Cex))
        BY <2>4, <2>5, <2>9, ChildrenAre, SMTT(30) DEF Dispatched, ResultOf, Dex, Cex
    <2>11. CexCall(n) = Call(Cex, Target(n, Cex), LimitPrice(n, Cex), FALSE)
        BY <2>8, <1>CallsAre, Zenon
    <2> QED BY <2>1, <2>3, <2>6, <2>7, <2>10, <2>11, <1>DispatchOne, ZenonT(30)
\* The recovery a parent has in flight.
<1>InFlight.
    \A o \in OpType :
    \A i :
        ParentOK(o) /\ o.inflight /\ i = Len(o.recovery) + 1
        => /\ i \in Nat \ {0} /\ Recovery(i) \in Children /\ Recovery(i) \notin {Dex, Cex}
           /\ Dispatched(o, Recovery(i)) /\ ResultOf(o, Recovery(i)) = NoResult
           /\ RecoveryCall(o, i) =
                 Call(Recovery(i), Target(o, Recovery(i)), LimitPrice(o, Recovery(i)), FALSE)
    <2> TAKE o \in OpType
    <2> TAKE i
    <2> HAVE ParentOK(o) /\ o.inflight /\ i = Len(o.recovery) + 1
    <2>1. /\ Len(o.recovery) \in Nat /\ Owned(o) = Len(o.recovery) + 1
          /\ DOMAIN o.recovery = 1 .. Len(o.recovery)
        BY OwnedIs, Zenon
    <2>2. Owned(o) <= 3
        BY Zenon DEF ParentOK, RecoveryOK, MaxRecoveryAttempts
    <2>3. i \in Nat \ {0} /\ i <= 3 /\ i = Owned(o) /\ i \notin DOMAIN o.recovery
        BY <2>1, <2>2
    <2>4. Recovery(i) \in Children /\ Recovery(i) \notin {Dex, Cex} /\ Recovery(i) - 1 = i
        BY <2>3, ChildrenAre DEF Recovery, Dex, Cex
    <2>5. Dispatched(o, Recovery(i)) /\ ResultOf(o, Recovery(i)) = NoResult
        BY <2>3, <2>4 DEF Dispatched, ResultOf
    <2> QED BY <2>3, <2>4, <2>5, <1>CallsAre, ZenonT(30)
\* StartRecovery keeps the invariant.
<1>StartRecoveryStep. TradeInv /\ StartRecovery => TradeInv' /\ Appends
    <2> SUFFICES ASSUME TradeInv, StartRecovery PROVE TradeInv' /\ Appends
        BY Zenon
    <2>1. /\ pc = "drive" /\ O.dex_dispatched /\ HasResult(O.dex) /\ ~HasUnknownLeg(O)
          /\ ~O.inflight /\ O.recovery = <<>> /\ RecoveryTarget(O) # 0
        BY Zenon DEF StartRecovery, PrimaryFinished, Driving
    <2>2. pc \in AtPlan /\ pc \notin Busy /\ HasResult(O.cex)
        BY <2>1, Zenon DEF AtPlan, Busy, RecoveryTarget
    <2>3. O \in OpType /\ ParentOK(O) /\ Open(O)
        BY <2>2, Driven, Zenon
    <2>4. CASE O.mode = "dex_first" /\ ~DirectionIsValid(O, RecoveryTarget(O))
        <3> DEFINE n == [O EXCEPT !.stage = "halted"]
        <3>1. Keeps(O, n) /\ SameResults(O, n) /\ Open(n)
            BY <2>1, <2>2, <2>3, HaltKeeps, ZenonT(30)
        <3>2. Persist(plan, n)
            BY <2>4, Zenon DEF StartRecovery
        <3> HIDE DEF n
        <3>3. UNCHANGED <<child, asked, plan, resuming, resumed, expired, backoff, calls>>
              /\ pc' = "reconcile_dex"
            BY <2>4, Zenon DEF StartRecovery, KeepTask, venues, clock, GoTo
        <3>4. calls' = <<>> /\ backoff' \in [Plans -> BOOLEAN]
            BY <2>2, <3>3, Quiet, Zenon DEF TradeInv, TaskType
        <3> QED BY <2>2, <3>1, <3>2, <3>3, <3>4, AppendsOn, SameProven, ZenonT(30)
    <2>5. CASE ~(O.mode = "dex_first" /\ ~DirectionIsValid(O, RecoveryTarget(O)))
        <3> DEFINE n == [O EXCEPT !.stage = "recovering", !.inflight = TRUE,
                                  !.target = RecoveryTarget(O)]
        <3>1. Keeps(O, n) /\ SameResults(O, n) /\ Open(n)
            BY <2>1, <2>2, <2>3, <2>5, RecoverKeeps, ZenonT(30)
        <3>2. Dispatch(n, <<RecoveryCall(n, 1)>>)
            BY <2>5, Zenon DEF StartRecovery
        <3>3. n.inflight /\ Len(n.recovery) = 0
            BY <2>1, <2>3, Zenon DEF OpType
        <3> HIDE DEF n
        <3>4. n \in OpType /\ ParentOK(n)
            BY <3>1, Zenon DEF Keeps
        <3>5. /\ Recovery(1) \in Children /\ Dispatched(n, Recovery(1))
              /\ ResultOf(n, Recovery(1)) = NoResult
              /\ RecoveryCall(n, 1) =
                    Call(Recovery(1), Target(n, Recovery(1)), LimitPrice(n, Recovery(1)), FALSE)
            <4>1. 1 = Len(n.recovery) + 1
                BY <3>3, SMTT(30)
            <4> QED BY <3>3, <3>4, <4>1, <1>InFlight, Zenon
        <3>6. ~HasResult(ResultOf(n, Recovery(1)))
            BY <3>5 DEF HasResult, NoResult, Result
        <3> QED BY <2>2, <3>1, <3>2, <3>5, <3>6, <1>DispatchOne, ZenonT(30)
    <2> QED BY <2>4, <2>5, Zenon
\* RetryRecovery keeps the invariant.
<1>RetryRecoveryStep. TradeInv /\ RetryRecovery => TradeInv' /\ Appends
    <2> SUFFICES ASSUME TradeInv, RetryRecovery PROVE TradeInv' /\ Appends
        BY Zenon
    <2>1. pc = "drive" /\ RetryPending(O) /\ ~O.inflight
        BY Zenon DEF RetryRecovery, PrimaryFinished, Driving
    <2>2. pc \in AtPlan
        BY <2>1, Zenon DEF AtPlan
    <2>3. O \in OpType /\ ParentOK(O) /\ Open(O)
        BY <2>2, Driven, Zenon
    <2> DEFINE n == [O EXCEPT !.inflight = TRUE]
               i == Len(O.recovery) + 1
    <2>4. Keeps(O, n) /\ SameResults(O, n) /\ Open(n)
        BY <2>1, <2>3, RetryKeeps, Zenon
    <2>5. Dispatch(n, <<RecoveryCall(O, i)>>)
        BY Zenon DEF RetryRecovery
    <2>6. n.inflight /\ n.recovery = O.recovery /\ n.target = O.target
        BY <2>3, Zenon DEF OpType
    <2> HIDE DEF n
    <2>7. i = Len(n.recovery) + 1 /\ RecoveryCall(O, i) = RecoveryCall(n, i)
        BY <2>6, Zenon DEF RecoveryCall
    <2>8. n \in OpType /\ ParentOK(n)
        BY <2>4, Zenon DEF Keeps
    <2> HIDE DEF i
    <2>9. /\ Recovery(i) \in Children /\ Dispatched(n, Recovery(i))
          /\ ResultOf(n, Recovery(i)) = NoResult
          /\ RecoveryCall(n, i) =
                Call(Recovery(i), Target(n, Recovery(i)), LimitPrice(n, Recovery(i)), FALSE)
        BY <2>6, <2>7, <2>8, <1>InFlight, ZenonT(30)
    <2>10. ~HasResult(ResultOf(n, Recovery(i)))
        BY <2>9 DEF HasResult, NoResult, Result
    <2> QED BY <2>2, <2>4, <2>5, <2>7, <2>9, <2>10, <1>DispatchOne, ZenonT(30)
\* The last recovery that has a result.
<1>LastRecovery.
    \A o \in OpType :
    \A i :
        o.recovery # <<>> /\ Len(o.recovery) <= 3 /\ i = Len(o.recovery)
        => /\ i \in Nat \ {0} /\ Recovery(i) \in Children /\ Recovery(i) \notin {Dex, Cex}
           /\ Dispatched(o, Recovery(i)) /\ ResultOf(o, Recovery(i)) = Last(o.recovery)
           /\ RecoveryCall(o, i) =
                 Call(Recovery(i), Target(o, Recovery(i)), LimitPrice(o, Recovery(i)), FALSE)
    <2> TAKE o \in OpType
    <2> TAKE i
    <2> HAVE o.recovery # <<>> /\ Len(o.recovery) <= 3 /\ i = Len(o.recovery)
    <2>1. /\ Len(o.recovery) \in Nat \ {0} /\ Owned(o) \in Nat /\ Len(o.recovery) <= Owned(o)
          /\ DOMAIN o.recovery = 1 .. Len(o.recovery)
        <3>1. /\ Len(o.recovery) \in Nat /\ Len(o.recovery) > 0 /\ Owned(o) \in Nat
              /\ Owned(o) = Len(o.recovery) + 1 \/ Owned(o) = Len(o.recovery)
              /\ DOMAIN o.recovery = 1 .. Len(o.recovery)
            BY OwnedIs, Zenon
        <3> QED BY <3>1
    <2>2. i \in Nat \ {0} /\ i <= 3 /\ i <= Owned(o) /\ i \in DOMAIN o.recovery
        BY <2>1
    <2>3. Recovery(i) \in Children /\ Recovery(i) \notin {Dex, Cex} /\ Recovery(i) - 1 = i
        BY <2>2, ChildrenAre DEF Recovery, Dex, Cex
    <2>4. Dispatched(o, Recovery(i)) /\ ResultOf(o, Recovery(i)) = Last(o.recovery)
        BY <2>2, <2>3, Zenon DEF Dispatched, ResultOf, Last
    <2> QED BY <2>2, <2>3, <2>4, <1>CallsAre, ZenonT(30)
\* The task asks for a child again and appends nothing.
<1>ReplayStep.
    \A k \in Children, recon \in BOOLEAN :
    \A c :
    \A step \in Busy :
        /\ TradeInv /\ pc \in AtPlan /\ Dispatched(O, k)
        /\ c = Call(k, Target(O, k), LimitPrice(O, k), recon) /\ Replay(c, step)
        /\ recon => k = Dex
        /\ step = "exec" => ~HasResult(ResultOf(O, k))
        /\ step # "exec" => ResultOf(O, k).status = "unknown" /\ O.stage = "unknown_exposure"
        /\ step = "await_dex" => k = Dex /\ recon
        /\ step = "await_cex" => k # Dex
        => TradeInv'
    <2> TAKE k \in Children, recon \in BOOLEAN
    <2> TAKE c
    <2> TAKE step \in Busy
    <2> HAVE /\ TradeInv /\ pc \in AtPlan /\ Dispatched(O, k)
             /\ c = Call(k, Target(O, k), LimitPrice(O, k), recon) /\ Replay(c, step)
             /\ recon => k = Dex
             /\ step = "exec" => ~HasResult(ResultOf(O, k))
             /\ step # "exec" => ResultOf(O, k).status = "unknown" /\ O.stage = "unknown_exposure"
             /\ step = "await_dex" => k = Dex /\ recon
             /\ step = "await_cex" => k # Dex
    <2>1. /\ calls' = <<c>> /\ pc' = step
          /\ UNCHANGED <<op, unresolved, child, asked, plan, resuming, resumed, expired, backoff>>
        BY Zenon DEF Replay, GoTo, KeepTask, journal, venues, clock
    <2>2. O \in OpType /\ O' = O
        BY <2>1, Driven, ZenonT(30) DEF O
    <2>3. c \in CallType /\ c.child = k /\ CallOK(step, c, O, child[plan][k], asked[plan][k])
        BY <2>2, <1>FreshCall, SMTT(30)
    <2>4. pc' \in Busy /\ CallOK(pc', c, O', child'[plan'][c.child], asked'[plan'][c.child])
        BY <2>1, <2>2, <2>3, Zenon
    <2>5. pc' \in {"await_dex", "await_cex"} => O'.stage = "unknown_exposure"
        BY <2>1, <2>2, Zenon
    <2>6. CallsOK' /\ calls' \in Seq(CallType)
        BY <2>1, <2>3, <2>4, <2>5, OneCall, Zenon
    <2>7. JournalOK' /\ Index'
        BY <2>1, Driven, StayStep, Zenon DEF TradeInv
    <2>8. plan' \in Plans \ resuming' /\ resuming' \subseteq Plans /\ Open(O') /\ resumed' \in BOOLEAN
        BY <2>1, <2>2, Driven, Zenon DEF TradeInv, TaskType
    <2>9. (\A p \in resuming' : Open(op'[p])) /\ backoff' \in [Plans -> BOOLEAN]
        BY <2>1, Zenon DEF TradeInv, TaskOK, TaskType
    <2> QED BY <2>1, <2>4, <2>6, <2>7, <2>8, <2>9, Waits, ZenonT(30)
\* ReconcileDex keeps the invariant.
<1>ReconcileDexStep. TradeInv /\ ReconcileDex => TradeInv'
    <2> SUFFICES ASSUME TradeInv, ReconcileDex PROVE TradeInv'
        BY Zenon
    <2>1. /\ pc \in AtPlan /\ O.stage = "unknown_exposure" /\ O.dex.status = "unknown"
          /\ Replay(DexCall(O, TRUE), "await_dex")
        BY Zenon DEF ReconcileDex, AtPlan
    <2>2. O \in OpType /\ ParentOK(O)
        BY <2>1, Driven, Zenon
    <2>3. O.dex # NoResult
        BY <2>1 DEF NoResult, Result
    <2>4. Dex \in Children /\ Dispatched(O, Dex) /\ ResultOf(O, Dex).status = "unknown"
        BY <2>1, <2>2, <2>3, ChildrenAre, Zenon DEF ParentOK, DexOK, Dispatched, ResultOf, Dex
    <2>5. DexCall(O, TRUE) = Call(Dex, Target(O, Dex), LimitPrice(O, Dex), TRUE)
        BY <2>2, <1>CallsAre, Zenon
    <2> DEFINE step == "await_dex"
    <2>6. step \in Busy /\ step # "exec" /\ step # "await_cex"
        BY Zenon DEF Busy
    <2> HIDE DEF step
    <2>7. Replay(DexCall(O, TRUE), step)
        BY <2>1, Zenon DEF step
    <2> QED BY <2>1, <2>4, <2>5, <2>6, <2>7, <1>ReplayStep, ZenonT(30)
\* ReconcileCex keeps the invariant.
<1>ReconcileCexStep. TradeInv /\ ReconcileCex => TradeInv'
    <2> SUFFICES ASSUME TradeInv, ReconcileCex PROVE TradeInv'
        BY Zenon
    <2> DEFINE step == "await_cex"
    <2>1. /\ pc \in AtPlan /\ (UnknownCex \/ UnknownRecovery)
          /\ Replay(IF UnknownCex THEN CexCall(O) ELSE RecoveryCall(O, Len(O.recovery)), step)
        BY Zenon DEF ReconcileCex, AtPlan
    <2>2. O \in OpType /\ ParentOK(O)
        BY <2>1, Driven, Zenon
    <2>3. step \in Busy /\ step # "exec" /\ step # "await_dex"
        BY Zenon DEF Busy
    <2> HIDE DEF step
    <2>4. CASE UnknownCex
        <3>1. O.stage = "unknown_exposure" /\ O.cex.status = "unknown" /\ O.cex # NoResult
            BY <2>4, SMTT(30) DEF UnknownCex, NoResult, Result
        <3>2. Cex \in Children /\ Cex # Dex /\ Dispatched(O, Cex) /\ ResultOf(O, Cex).status = "unknown"
            BY <2>2, <3>1, ChildrenAre, SMTT(30) DEF ParentOK, CexOK, Dispatched, ResultOf, Dex, Cex
        <3>3. CexCall(O) = Call(Cex, Target(O, Cex), LimitPrice(O, Cex), FALSE)
            BY <2>2, <1>CallsAre, Zenon
        <3>4. Replay(CexCall(O), step)
            BY <2>1, <2>4, Zenon
        <3> QED BY <2>1, <2>3, <3>1, <3>2, <3>3, <3>4, <1>ReplayStep, ZenonT(30)
    <2>5. CASE ~UnknownCex
        <3> DEFINE i == Len(O.recovery)
        <3>1. O.stage = "unknown_exposure" /\ O.recovery # <<>> /\ Last(O.recovery).status = "unknown"
            BY <2>1, <2>5, Zenon DEF UnknownRecovery
        <3>2. Len(O.recovery) <= 3
            <4>1. /\ Len(O.recovery) \in Nat
                  /\ Owned(O) = Len(O.recovery) + 1 \/ Owned(O) = Len(O.recovery)
                BY <2>2, OwnedIs, Zenon
            <4>2. Owned(O) <= 3
                BY <2>2, Zenon DEF ParentOK, RecoveryOK, MaxRecoveryAttempts
            <4> QED BY <4>1, <4>2
        <3>3. Replay(RecoveryCall(O, i), step)
            BY <2>1, <2>5, Zenon
        <3> HIDE DEF i
        <3>4. /\ Recovery(i) \in Children /\ Recovery(i) # Dex
              /\ Dispatched(O, Recovery(i)) /\ ResultOf(O, Recovery(i)) = Last(O.recovery)
              /\ RecoveryCall(O, i) =
                    Call(Recovery(i), Target(O, Recovery(i)), LimitPrice(O, Recovery(i)), FALSE)
            BY <2>2, <3>1, <3>2, <1>LastRecovery, Zenon DEF i
        <3> QED BY <2>1, <2>3, <3>1, <3>3, <3>4, <1>ReplayStep, Zenon
    <2> QED BY <2>4, <2>5, Zenon
\* ResumeCommand keeps the invariant.
<1>ResumeCommandStep. TradeInv /\ ResumeCommand => TradeInv'
    <2> SUFFICES ASSUME TradeInv, ResumeCommand PROVE TradeInv'
        BY Zenon
    <2> DEFINE step == "exec"
    <2>1. /\ pc \in AtPlan /\ Unfinished
          /\ Replay(IF ~HasResult(O.dex) THEN DexCall(O, expired[plan])
                    ELSE IF O.cex_dispatched /\ ~HasResult(O.cex) THEN CexCall(O)
                    ELSE RecoveryCall(O, Len(O.recovery) + 1), step)
        BY Zenon DEF ResumeCommand, AtPlan
    <2>2. O \in OpType /\ ParentOK(O) /\ plan \in Plans /\ expired[plan] \in BOOLEAN
        BY <2>1, Driven, Zenon DEF TradeInv, TaskType
    <2>3. step \in Busy /\ step = "exec" /\ step # "await_dex" /\ step # "await_cex"
        BY Zenon DEF Busy
    <2> HIDE DEF step
    <2>4. CASE ~HasResult(O.dex)
        <3>1. ~Known(O.dex) /\ O.dex.status # "filled"
            BY <2>4, Zenon DEF HasResult, Known
        <3>2. ~O.inflight
            <4>1. O.inflight => Owned(O) > 0
                BY <2>2, OwnedIs
            <4> QED BY <2>2, <3>1, <4>1, Zenon DEF ParentOK, RecoveryOK
        <3>3. O.cex_dispatched => O.dex_dispatched
            BY <2>2, <3>1, Zenon DEF ParentOK, CexOK
        <3>4. O.dex_dispatched
            BY <2>1, <3>2, <3>3, Zenon DEF Unfinished
        <3>5. Dex \in Children /\ Dispatched(O, Dex) /\ ~HasResult(ResultOf(O, Dex))
            BY <2>4, <3>4, ChildrenAre, Zenon DEF Dispatched, ResultOf, Dex
        <3>6. DexCall(O, expired[plan]) = Call(Dex, Target(O, Dex), LimitPrice(O, Dex), expired[plan])
            BY <2>2, <1>CallsAre, Zenon
        <3>7. Replay(DexCall(O, expired[plan]), step)
            BY <2>1, <2>4, Zenon
        <3> QED BY <2>1, <2>2, <2>3, <3>5, <3>6, <3>7, <1>ReplayStep, ZenonT(30)
    <2>5. CASE HasResult(O.dex) /\ O.cex_dispatched /\ ~HasResult(O.cex)
        <3>1. Cex \in Children /\ Cex # Dex /\ Dispatched(O, Cex) /\ ~HasResult(ResultOf(O, Cex))
            BY <2>5, ChildrenAre DEF Dispatched, ResultOf, Dex, Cex
        <3>2. CexCall(O) = Call(Cex, Target(O, Cex), LimitPrice(O, Cex), FALSE)
            BY <2>2, <1>CallsAre, Zenon
        <3>3. Replay(CexCall(O), step)
            BY <2>1, <2>5, Zenon
        <3> QED BY <2>1, <2>3, <3>1, <3>2, <3>3, <1>ReplayStep, ZenonT(30)
    <2>6. CASE HasResult(O.dex) /\ ~(O.cex_dispatched /\ ~HasResult(O.cex))
        <3> DEFINE i == Len(O.recovery) + 1
        <3>1. O.inflight
            BY <2>1, <2>6, Zenon DEF Unfinished
        <3>2. Replay(RecoveryCall(O, i), step)
            BY <2>1, <2>6, Zenon
        <3> HIDE DEF i
        <3>3. /\ Recovery(i) \in Children /\ Recovery(i) # Dex
              /\ Dispatched(O, Recovery(i)) /\ ResultOf(O, Recovery(i)) = NoResult
              /\ RecoveryCall(O, i) =
                    Call(Recovery(i), Target(O, Recovery(i)), LimitPrice(O, Recovery(i)), FALSE)
            BY <2>2, <3>1, <1>InFlight, ZenonT(30) DEF i
        <3>4. ~HasResult(ResultOf(O, Recovery(i)))
            BY <3>3 DEF HasResult, NoResult, Result
        <3> QED BY <2>1, <2>3, <3>2, <3>3, <3>4, <1>ReplayStep, ZenonT(30)
    <2> QED BY <2>4, <2>5, <2>6, Zenon
<1> QED BY <1>DispatchEntryStep, <1>DispatchHedgeStep, <1>StartRecoveryStep, <1>RetryRecoveryStep,
          <1>ReconcileDexStep, <1>ReconcileCexStep, <1>ResumeCommandStep, ZenonT(30)

=============================================================================
