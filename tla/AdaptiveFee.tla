------------------------------ MODULE AdaptiveFee ------------------------------
(***************************************************************************)
(* The adaptive fee of an Algebra pool, projected locally                   *)
(* (dex/camelot_fee.rs) from the few oracle timepoints that hydration reads *)
(* (dex/hydration.rs).  `chain` is the pool contract's own oracle, with all *)
(* its timepoints; `bot` is FeeProjectionState.  Both are records           *)
(*   [tick, index, oldest, fees, vol, points, head]                         *)
(* and points maps a ring index to a timepoint.  Ring stands for 2^16,      *)
(* WINDOW for a day of seconds, VolumeUnit for 2^57.  Liquidity is one.     *)
(***************************************************************************)
EXTENDS Integers, FiniteSets, FiniteSetsExt, Functions, TLC

CONSTANTS WINDOW, Ring, Horizon, VolumeUnit,
          MaxTime,         \* bound
          Ticks, Volumes,  \* ticks a swap reaches, token amounts it moves
          Configs          \* a fee configuration for each direction

VARIABLES now, chain, bot, hydratedAt, seen
feeVars == <<now, chain, bot, hydratedAt, seen>>

TruncDiv(a, b) == IF a >= 0 THEN a \div b ELSE -((-a) \div b)
U32 == 1024
Wrap32(x) == x % U32
lte_considering_overflow(a, b, time) ==
  IF (a > time) = (b > time) THEN a <= b ELSE a > time

----------------------------------------------------------------------------
(* From volatility and volume to a fee.                                     *)
exp_series(x, gamma) ==
  LET Term(n, d) == (x^n * gamma^(8 - n)) \div d
  IN  gamma^8 + Term(1, 1) + Term(2, 2) + Term(3, 6) + Term(4, 24) + Term(5, 120)
        + Term(6, 720) + Term(7, 5040) + Term(8, 40320)
sigmoid(x, gamma, alpha, beta) ==
  IF x > beta
  THEN IF x - beta >= 6 * gamma THEN alpha
       ELSE (alpha * exp_series(x - beta, gamma)) \div (gamma^8 + exp_series(x - beta, gamma))
  ELSE IF beta - x >= 6 * gamma THEN 0
       ELSE (alpha * gamma^8) \div (gamma^8 + exp_series(beta - x, gamma))
fee(c, volatility, volume) ==
  c.base_fee + sigmoid(volume, c.volume_gamma,
                       sigmoid(volatility, c.gamma1, c.alpha1, c.beta1)
                         + sigmoid(volatility, c.gamma2, c.alpha2, c.beta2), c.volume_beta)

(* The contract's square root: a seed and seven Newton steps.               *)
RECURSIVE Newton(_, _, _)
Newton(root, value, n) == IF n = 0 THEN root ELSE Newton((root + value \div root) \div 2, value, n - 1)
Seed(value) == IF value >= 256 THEN 16 ELSE IF value >= 16 THEN 4 ELSE 1
integer_sqrt(value) ==
  IF value = 0 THEN 0 ELSE LET root == Newton(Seed(value), value, 7) IN Min({root, value \div root})
calculate_volume_per_liquidity(a0, a1) == integer_sqrt(a0) * integer_sqrt(a1)
Root(value) == Max({r \in 0 .. value : r * r <= value})

----------------------------------------------------------------------------
(* Timepoints.                                                              *)
NoPoint == [init |-> FALSE, t |-> 0, tc |-> 0, vc |-> 0, avg |-> 0, vol |-> 0]
volatility_on_range(dt, tick0, tick1, avg0, avg1) ==
  LET k == (tick1 - tick0) - (avg1 - avg0)
      b == (tick0 - avg0) * dt
  IN  (k * k * dt * (dt + 1) * (2 * dt + 1) + 6 * b * k * dt * (dt + 1) + 6 * dt * b * b)
        \div (6 * dt * dt)
create_new_timepoint(last, t, tick, prevTick, avg, vol) ==
  [init |-> TRUE, t |-> t, tc |-> last.tc + tick * (t - last.t),
   vc |-> last.vc + volatility_on_range(t - last.t, prevTick, tick, last.avg, avg),
   avg |-> avg, vol |-> last.vol + vol]
interpolate_timepoint(before, after, target) ==
  LET interval == after.t - before.t
      d == target - before.t
  IN  [before EXCEPT !.tc = @ + TruncDiv(after.tc - before.tc, interval) * d,
                     !.vc = @ + ((after.vc - before.vc) \div interval) * d,
                     !.vol = @ + ((after.vol - before.vol) \div interval) * d]

Latest(s) == s.points[s.index]
Oldest(s) == s.points[s.oldest]
Initialized(s) == {i \in DOMAIN s.points : s.points[i].init}
(* The reach back to a window's start: the last point at or before it and   *)
(* the first at or after it, interpolated.                                  *)
single_timepoint(s, target) ==
  LET times == {s.points[i].t : i \in Initialized(s)}
      At(t) == s.points[CHOOSE i \in Initialized(s) : s.points[i].t = t]
      before == At(Max({t \in times : t <= target}))
      after == At(Min({t \in times : t >= target}))
  IN  IF target = after.t THEN after ELSE interpolate_timepoint(before, after, target)
previous_tick(s) ==
  LET prev == s.points[(s.index - 1) % Ring] IN
  IF s.index = s.oldest THEN s.tick ELSE TruncDiv(Latest(s).tc - prev.tc, Latest(s).t - prev.t)
average_tick_for_new_timepoint(s, t) ==
  LET last == Latest(s)
      start == Wrap32(t - WINDOW)
      prev == s.points[(s.index - 1) % Ring]
  IN  IF lte_considering_overflow(Oldest(s).t, start, t)
      THEN IF lte_considering_overflow(last.t, start, t)
           THEN IF prev.init THEN TruncDiv(last.tc - prev.tc, last.t - prev.t) ELSE s.tick
           ELSE TruncDiv(last.tc - single_timepoint(s, start).tc, WINDOW - (t - last.t))
      ELSE IF last.t = Oldest(s).t THEN s.tick
      ELSE TruncDiv(last.tc - Oldest(s).tc, last.t - Oldest(s).t)

(* Mutant: the oldest point stays when the ring is overwritten. *)
OldestKept(points, written) == 0
oldest_index_after_write(points, written) ==
  LET next == (written + 1) % Ring
  IN  IF next \in DOMAIN points /\ points[next].init THEN next ELSE 0
Written(s, t) ==
  LET point == create_new_timepoint(Latest(s), t, s.tick, previous_tick(s),
                                    average_tick_for_new_timepoint(s, t), s.vol)
      next == (s.index + 1) % Ring
      points == (next :> point) @@ s.points
  IN  [s EXCEPT !.index = next, !.points = points, !.vol = 0,
                !.oldest = oldest_index_after_write(points, next)]
averages(s, t) ==
  LET end == Latest(s)
      start == Wrap32(t - WINDOW)
      from == IF lte_considering_overflow(Oldest(s).t, start, t) THEN single_timepoint(s, start)
              ELSE Oldest(s)
      span == IF lte_considering_overflow(Oldest(s).t, start, t) THEN WINDOW ELSE t - Oldest(s).t
  IN  IF span = 0 THEN [volatility |-> 0, volume |-> 0]
      ELSE [volatility |-> (end.vc - from.vc) \div span,
            volume |-> (end.vol - from.vol) \div VolumeUnit]
fees_at(s, t) ==
  IF t = Latest(s).t THEN s.fees
  ELSE LET a == averages(Written(s, t), t)
       IN  [d \in BOOLEAN |-> fee(Configs[d], a.volatility \div 15, a.volume)]
envelope(s) ==
  [d \in BOOLEAN |-> Max({fees_at(s, t)[d] : t \in s.head .. s.head + Horizon})]

----------------------------------------------------------------------------
(* Hydration reads five points and the brackets of the window's start for   *)
(* every second of the horizon.                                             *)
Seeds(i) == {i, (i - 1) % Ring, (i + 1) % Ring, (i + 2) % Ring, 0}
OldestIndex(points, i) ==
  IF points[(i + 1) % Ring].init THEN (i + 1) % Ring ELSE 0
InHistory(s, target) == Oldest(s).t <= target /\ target <= Latest(s).t
(* Mutant: one second of the horizon is forgotten. *)
TargetsShort == {now + k - WINDOW : k \in 0 .. Horizon - 1}
Targets == {now + k - WINDOW : k \in 0 .. Horizon}
hydrate_camelot_timepoint_bracket(target) ==
  LET init == Initialized(chain)
      Time(i) == chain.points[i].t
      before == {i \in init : Time(i) <= target}
      after == {i \in init : Time(i) >= target}
  IN  {i \in before : \A j \in before : Time(j) <= Time(i)}
        \cup {i \in after : \A j \in after : Time(i) <= Time(j)}
hydrate_camelot_timepoints ==
  Seeds(chain.index) \cup UNION {hydrate_camelot_timepoint_bracket(t) : t \in Targets}

Down == [index |-> -1]
Hydrated == bot # Down
Hydrate ==
  /\ ~Hydrated /\ \A t \in Targets : InHistory(chain, t)
  /\ bot' = [chain EXCEPT !.points = Restrict(@, hydrate_camelot_timepoints),
                          !.oldest = OldestIndex(chain.points, chain.index), !.head = now]
  /\ hydratedAt' = now
  /\ seen' = 0
  /\ UNCHANGED <<now, chain>>

----------------------------------------------------------------------------
(* A swap: the first of a second writes a timepoint and emits both fees.    *)
Acted(s, tick, volume) == [s EXCEPT !.tick = tick, !.vol = @ + volume, !.head = now]
apply_fee_timepoint(s, emitted) == [Written(s, now) EXCEPT !.fees = emitted]
SwapEvent(tick, a) ==
  LET writes == Latest(chain).t < now
      emitted == fees_at(chain, now)
      refused == Hydrated /\ writes /\ fees_at(bot, now) # emitted
      After(s) == IF writes THEN apply_fee_timepoint(s, emitted) ELSE s
  IN  /\ chain' = Acted(After(chain), tick, Root(a) * Root(a))
      /\ bot' = IF ~Hydrated \/ refused THEN Down
                ELSE Acted(After(bot), tick, calculate_volume_per_liquidity(a, a))
      /\ seen' = IF Hydrated /\ writes THEN seen + 1 ELSE seen
      /\ UNCHANGED <<now, hydratedAt>>
Swap == \E tick \in Ticks, a \in Volumes : chain.head # now /\ SwapEvent(tick, a)
(* apply_head_at and advance_head: a new block, with or without an action.  *)
Tick ==
  /\ now < MaxTime
  /\ now' = now + 1
  /\ bot' = IF Hydrated THEN [bot EXCEPT !.head = now + 1] ELSE bot
  /\ UNCHANGED <<chain, hydratedAt, seen>>

FeeInit ==
  /\ now = 1
  /\ chain = [tick |-> 0, index |-> 0, oldest |-> 0, vol |-> 0, head |-> 1,
              fees |-> [d \in BOOLEAN |-> Configs[d].base_fee],
              points |-> [i \in 0 .. Ring - 1 |->
                            IF i = 0 THEN [NoPoint EXCEPT !.init = TRUE, !.t = 1] ELSE NoPoint]]
  /\ bot = Down /\ hydratedAt = 0 /\ seen = 0
FeeNext == Hydrate \/ Swap \/ Tick
FeeSpec == FeeInit /\ [][FeeNext]_feeVars

----------------------------------------------------------------------------
Agrees(until) ==
  \A t \in now .. until : fees_at(bot, t) = fees_at(chain, t)

(* Within the horizon of its hydration the projection gives the fees the    *)
(* contract will charge, at every later second of that horizon and whatever *)
(* heads and fee events came between (hydrate_camelot_timepoints, fees_at,  *)
(* apply_fee_timepoint).  On a ring that has wrapped, before a fee event.   *)
Wrapped == chain.points[(chain.index + 1) % Ring].init
FreshProjectionExact ==
  Hydrated /\ (Wrapped => seen = 0) => Agrees(hydratedAt + Horizon)

(* The projection reproduces the contract's fee at every second of every    *)
(* horizon (docs/linea-usdc-usdt-lynex-algebra-v1.9.md:151-154).            *)
ProjectionExact == Hydrated => Agrees(now + Horizon)
=============================================================================
