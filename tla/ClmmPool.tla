------------------------------- MODULE ClmmPool -------------------------------
(***************************************************************************)
(* Local quotes of a concentrated-liquidity pool (dex/clmm.rs): the swap    *)
(* loops for exact input and exact output, the prepared curves that replace *)
(* them on the hot path, and the updates that pool events make.  The        *)
(* arithmetic is the contracts' arithmetic with its roundings, on small     *)
(* numbers: Q for 2^96, FeeUnit for 10^6, Row for the 256 ticks of a bitmap *)
(* word and Ratio for the tick's square root price.                         *)
(*                                                                          *)
(* A pool is [price, tick, liquidity, ticks, fee]: ticks maps an            *)
(* initialised tick to [gross, net], fee a direction to its fee.  The       *)
(* bitmap is DOMAIN ticks.  zfo is zero_for_one.                            *)
(***************************************************************************)
EXTENDS Integers, Sequences, FiniteSets, TLC, SequencesExt, FiniteSetsExt, Functions

CONSTANTS MIN_TICK, MAX_TICK,
          Q, FeeUnit, Row,
          Ratio      \* get_sqrt_ratio_at_tick, increasing
Tick == MIN_TICK .. MAX_TICK
Insufficient == -1

CeilDiv(a, b) == (a + b - 1) \div b
Div(a, b, up) == IF up THEN CeilDiv(a, b) ELSE a \div b
FloorDiv(a, b) == IF a >= 0 THEN a \div b ELSE -CeilDiv(-a, b)

----------------------------------------------------------------------------
(* The library's step of a swap inside one range.                           *)
Amount0(a, b, l, up) == Div(Div(l * Q * (b - a), b, up), a, up)
Amount1(a, b, l, up) == Div(l * (b - a), Q, up)
AfterInput(p, l, in, zfo) ==
  IF zfo THEN CeilDiv(l * Q * p, l * Q + in * p) ELSE p + (in * Q) \div l
AfterOutput(p, l, out, zfo) ==
  IF zfo THEN p - CeilDiv(out * Q, l) ELSE CeilDiv(l * Q * p, l * Q - out * p)
AmountIn(p, to, l, zfo) == IF zfo THEN Amount0(to, p, l, TRUE) ELSE Amount1(p, to, l, TRUE)
AmountOut(p, to, l, zfo) == IF zfo THEN Amount1(to, p, l, FALSE) ELSE Amount0(p, to, l, FALSE)
compute_swap_step(p, target, l, remaining, fee) ==
  LET zfo == p >= target
      exactIn == remaining >= 0
      lessFee == (remaining * (FeeUnit - fee)) \div FeeUnit
      Step(next, in, out) ==
        [after |-> next, in |-> in, out |-> IF exactIn THEN out ELSE Min({out, -remaining}),
         fee |-> IF exactIn /\ next # target THEN remaining - in
                 ELSE CeilDiv(in * fee, FeeUnit - fee)]
      To(next) == Step(next, AmountIn(p, next, l, zfo), AmountOut(p, next, l, zfo))
  IN  To(IF exactIn
         THEN IF lessFee >= AmountIn(p, target, l, zfo) THEN target ELSE AfterInput(p, l, lessFee, zfo)
         ELSE IF -remaining >= AmountOut(p, target, l, zfo) THEN target
              ELSE AfterOutput(p, l, -remaining, zfo))

(* next_algebra_tick_in_same_row: the next initialised tick of the same     *)
(* row, or the row's end.                                                   *)
Clamp(t) == Max({MIN_TICK, Min({MAX_TICK, t})})
next_initialized_tick(pool, tick, zfo) ==
  LET from == IF zfo THEN tick ELSE tick + 1
      first == FloorDiv(from, Row) * Row
      last == first + Row - 1
      found == {t \in DOMAIN pool.ticks : IF zfo THEN t \in first .. from ELSE t \in from .. last}
  IN  IF found # {} THEN [tick |-> IF zfo THEN Max(found) ELSE Min(found), init |-> TRUE]
      ELSE [tick |-> Clamp(IF zfo THEN first ELSE last), init |-> FALSE]

PriceLimit(zfo) == IF zfo THEN Ratio[MIN_TICK] + 1 ELSE Ratio[MAX_TICK] - 1
NextPrice(boundary) == Ratio[boundary.tick]
Target(boundary, zfo) ==
  IF zfo THEN Max({NextPrice(boundary), PriceLimit(zfo)}) ELSE Min({NextPrice(boundary), PriceLimit(zfo)})
Crossed(pool, boundary, l, zfo) ==
  IF ~boundary.init THEN l
  ELSE IF zfo THEN l - pool.ticks[boundary.tick].net ELSE l + pool.ticks[boundary.tick].net
TickAfter(boundary, zfo) == IF zfo THEN boundary.tick - 1 ELSE boundary.tick

----------------------------------------------------------------------------
(* Where a swap loop stands: the position in the pool and the amounts.      *)
Start(pool) == [price |-> pool.price, tick |-> pool.tick, l |-> pool.liquidity]
Advanced(pool, at, boundary, after, zfo) ==
  IF after = NextPrice(boundary)
  THEN [price |-> after, tick |-> TickAfter(boundary, zfo), l |-> Crossed(pool, boundary, at.l, zfo)]
  ELSE [at EXCEPT !.price = after]

RECURSIVE InputLoop(_, _, _, _, _)
InputLoop(pool, zfo, at, remaining, out) ==
  IF remaining = 0 \/ at.price = PriceLimit(zfo)
  THEN IF remaining = 0 THEN out ELSE Insufficient
  ELSE LET boundary == next_initialized_tick(pool, at.tick, zfo)
           Stepped(step) ==
             LET left == remaining - step.in - step.fee IN
             IF step.after = NextPrice(boundary)
             THEN InputLoop(pool, zfo, Advanced(pool, at, boundary, step.after, zfo), left, out + step.out)
             ELSE IF left = 0 THEN out + step.out ELSE Insufficient
       IN  Stepped(compute_swap_step(at.price, Target(boundary, zfo), at.l, remaining, pool.fee[zfo]))
quote_exact_in(pool, zfo, amount) == InputLoop(pool, zfo, Start(pool), amount, 0)

(* The exact-output loop answers [in, productive, remaining]: productive is *)
(* the input spent when the last output was gained.                         *)
RECURSIVE OutputLoop(_, _, _, _, _, _)
OutputLoop(pool, zfo, at, remaining, in, productive) ==
  IF remaining = 0 \/ at.price = PriceLimit(zfo) \/ at.l = 0
  THEN [in |-> in, productive |-> productive, remaining |-> remaining]
  ELSE LET boundary == next_initialized_tick(pool, at.tick, zfo)
           Stepped(step) ==
             LET spent == in + step.in + step.fee
                 useful == IF step.out # 0 THEN spent ELSE productive
             IN  IF step.after = NextPrice(boundary)
                 THEN OutputLoop(pool, zfo, Advanced(pool, at, boundary, step.after, zfo),
                                 remaining - step.out, spent, useful)
                 ELSE [in |-> spent, productive |-> useful, remaining |-> remaining - step.out]
       IN  Stepped(compute_swap_step(at.price, Target(boundary, zfo), at.l, -remaining, pool.fee[zfo]))
quote_exact_out(pool, zfo, amount) ==
  LET walk == OutputLoop(pool, zfo, Start(pool), amount, 0, 0)
  IN  IF walk.remaining = 0 THEN walk.in ELSE Insufficient
exact_output_result_capacity(pool, zfo, amount) ==
  OutputLoop(pool, zfo, Start(pool), amount, 0, 0).productive

----------------------------------------------------------------------------
(* Prepared curves: a sequence of segments with cumulative ends.            *)
Segment(spec, res, at, target) ==
  [spec |-> spec, res |-> res, start |-> at.price, target |-> target, l |-> at.l]
SpecifiedEnd(segments) == IF segments = <<>> THEN 0 ELSE Last(segments).spec
ResultEnd(segments) == IF segments = <<>> THEN 0 ELSE Last(segments).res
Grown(segments, step, seg) == IF step = 0 THEN segments ELSE Append(segments, seg)

RECURSIVE CurveLoop(_, _, _, _, _, _, _, _)
CurveLoop(pool, zfo, exactIn, max, at, spec, res, segments) ==
  IF spec >= max \/ at.price = PriceLimit(zfo) \/ at.l = 0 THEN segments
  ELSE LET boundary == next_initialized_tick(pool, at.tick, zfo)
           target == Target(boundary, zfo)
           Extended(after, dspec, dres) ==
             LET grown == Grown(segments, dspec, Segment(spec + dspec, res + dres, at, target)) IN
             IF after # NextPrice(boundary) THEN grown
             ELSE CurveLoop(pool, zfo, exactIn, max, Advanced(pool, at, boundary, after, zfo),
                            spec + dspec, res + dres, grown)
           Stepped(step) ==
             IF exactIn THEN Extended(step.after, step.in + step.fee, step.out)
             ELSE Extended(step.after, step.out, step.in + step.fee)
       IN  Stepped(compute_swap_step(at.price, target, at.l,
                                     IF exactIn THEN max - spec ELSE spec - max, pool.fee[zfo]))
Curve(pool, zfo, exactIn, max) ==
  [exactIn |-> exactIn, fee |-> pool.fee[zfo],
   segments |-> CurveLoop(pool, zfo, exactIn, max, Start(pool), 0, 0, <<>>)]

(* The fused build: walks towards an output bound and keeps the segments of *)
(* the exact-input curve that reaches it.                                   *)
(* Mutant: the last, partial step keeps the exact-output amounts. *)
LastStepKept(at, target, step, fee) == [spec |-> step.in + step.fee, res |-> step.out]
LastStep(at, target, step, fee) ==
  LET Kept(again) == [spec |-> again.in + again.fee, res |-> again.out]
  IN  Kept(compute_swap_step(at.price, target, at.l, step.in + step.fee, fee))
RECURSIVE FusedLoop(_, _, _, _, _, _, _, _)
FusedLoop(pool, zfo, remaining, at, spec, res, segments, productive) ==
  IF remaining = 0 \/ at.price = PriceLimit(zfo) \/ at.l = 0
  THEN SubSeq(segments, 1, productive)
  ELSE LET boundary == next_initialized_tick(pool, at.tick, zfo)
           target == Target(boundary, zfo)
           Extended(step, kept) ==
             LET grown == Grown(segments, kept.spec,
                                Segment(spec + kept.spec, res + kept.res, at, target))
                 useful == IF step.out # 0 THEN Len(grown) ELSE productive
             IN  IF step.after # NextPrice(boundary) THEN SubSeq(grown, 1, useful)
                 ELSE FusedLoop(pool, zfo, remaining - step.out,
                                Advanced(pool, at, boundary, step.after, zfo),
                                spec + kept.spec, res + kept.res, grown, useful)
           Stepped(step) ==
             Extended(step, IF step.after # NextPrice(boundary)
                            THEN LastStep(at, target, step, pool.fee[zfo])
                            ELSE [spec |-> step.in + step.fee, res |-> step.out])
       IN  Stepped(compute_swap_step(at.price, target, at.l, -remaining, pool.fee[zfo]))
FusedCurve(pool, zfo, maxOut) ==
  [exactIn |-> TRUE, fee |-> pool.fee[zfo],
   segments |-> FusedLoop(pool, zfo, maxOut, Start(pool), 0, 0, <<>>, 0)]

(* PreparedQuoteCurve::quote                                                *)
(* Mutant: the segment after the one that holds the amount. *)
HoldsAfter(segment, amount) == segment.spec > amount
Holds(segment, amount) == segment.spec >= amount
quote(curve, amount) ==
  LET holding == {i \in DOMAIN curve.segments : Holds(curve.segments[i], amount)} IN
  IF holding = {} THEN Insufficient
  ELSE LET i == Min(holding)
           before == SubSeq(curve.segments, 1, i - 1)
           seg == curve.segments[i]
           rest == amount - SpecifiedEnd(before)
           Result(step) == IF curve.exactIn THEN step.out ELSE step.in + step.fee
       IN  IF amount = seg.spec THEN seg.res
           ELSE ResultEnd(before)
                + Result(compute_swap_step(seg.start, seg.target, seg.l,
                                           IF curve.exactIn THEN rest ELSE -rest, curve.fee))

----------------------------------------------------------------------------
(* Events.  An update that would fail leaves the pool as it was, and the    *)
(* mirror is then rebuilt from the chain (DexMirror).                       *)
set_tick(ticks, index, state) ==
  IF state.gross = 0 THEN Restrict(ticks, DOMAIN ticks \ {index})
  ELSE [t \in DOMAIN ticks \cup {index} |-> IF t = index THEN state ELSE ticks[t]]
NoLiquidity == [gross |-> 0, net |-> 0]
At(ticks, index) == IF index \in DOMAIN ticks THEN ticks[index] ELSE NoLiquidity
updated_boundary(current, delta, netDelta) ==
  [gross |-> current.gross + delta, net |-> current.net + netDelta]
ValidBoundary(b) == b.gross >= 0 /\ (b.gross # 0 \/ b.net = 0)
(* Mutant: the upper tick belongs to the range. *)
InClosedRange(pool, lower, upper) == lower <= pool.tick /\ pool.tick <= upper
InRange(pool, lower, upper) == lower <= pool.tick /\ pool.tick < upper
apply_liquidity_delta(pool, lower, upper, delta) ==
  LET low == updated_boundary(At(pool.ticks, lower), delta, delta)
      high == updated_boundary(At(pool.ticks, upper), delta, -delta)
      active == IF InRange(pool, lower, upper) THEN pool.liquidity + delta ELSE pool.liquidity
  IN  IF ValidBoundary(low) /\ ValidBoundary(high) /\ active >= 0
      THEN [pool EXCEPT !.ticks = set_tick(set_tick(@, lower, low), upper, high),
                        !.liquidity = active]
      ELSE pool
apply_swap_head(pool, price, tick, liquidity) ==
  IF price >= Ratio[MIN_TICK] /\ price < Ratio[MAX_TICK] /\ tick \in Tick /\ liquidity > 0
  THEN [pool EXCEPT !.price = price, !.tick = tick, !.liquidity = liquidity]
  ELSE pool
set_algebra_directional_fees(pool, fees) ==
  IF \A zfo \in BOOLEAN : fees[zfo] < FeeUnit THEN [pool EXCEPT !.fee = fees] ELSE pool
=============================================================================
