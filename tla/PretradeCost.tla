---------------------------- MODULE PretradeCost ----------------------------
(***************************************************************************)
(* The cost a trade would have had at its decision (pretrade_cost.rs, and   *)
(* the candidate channel of hot_telemetry.rs).  Producers publish gas       *)
(* prices, conversion prices and receipts into short histories.  A decision *)
(* only queues its route and its own time; the background task works out    *)
(* later what was known then.  HotTelemetry has the channels themselves.    *)
(***************************************************************************)
EXTENDS Integers, Sequences, SequencesExt, FiniteSetsExt

CONSTANTS
  Routes,           \* pool and input token of a swap
  Depth,            \* samples a history keeps
  MAX_RECEIPT_ROUTES,
  IncludesL1Fee,    \* the chain charges one; every receipt then states it
  Ttl,              \* age a price may have, in steps
  MaxTime, MaxPublished   \* bounds

VARIABLES
  clock,
  history,          \* key -> samples, newest first
  slots,            \* routes that have a history
  published,        \* key -> time -> last value published for it (0: none)
  values,           \* number of samples published so far
  candidate,        \* the candidate in the channel, or NoCandidate
  payload           \* the last candidate's payload

costVars == <<clock, history, slots, published, values, candidate, payload>>

Keys == {"gas", "conversion", "protocol"} \cup Routes
Times == 0 .. MaxTime
NoSample == [at |-> -1, value |-> 0]
NoCandidate == [route |-> "none", as_of |-> -1]
NoPayload == [route |-> "none", as_of |-> -1, gas |-> NoSample,
              conversion |-> NoSample, receipt |-> NoSample, scope |-> "none",
              complete |-> FALSE]

CostInit ==
  /\ clock = 0 /\ values = 0
  /\ history = [k \in Keys |-> <<>>]
  /\ slots = {}
  /\ published = [k \in Keys |-> [t \in Times |-> 0]]
  /\ candidate = NoCandidate /\ payload = NoPayload

----------------------------------------------------------------------------
(* TemporalHistory: a sample replaces one of the same time, otherwise it    *)
(* goes before the first older one; what falls off the end is forgotten.    *)
Truncated(s) == SubSeq(s, 1, Min({Len(s), Depth}))
\* Mutant: samples are taken to come in the order of their times.
InsertFront(s, sample) == Truncated(<<sample>> \o s)
insert(s, sample) ==
  IF \E i \in DOMAIN s : s[i].at = sample.at
  THEN [i \in DOMAIN s |-> IF s[i].at = sample.at THEN sample ELSE s[i]]
  ELSE Truncated(SelectSeq(s, LAMBDA x : x.at > sample.at) \o <<sample>>
                   \o SelectSeq(s, LAMBDA x : x.at < sample.at))
at_or_before(s, time) ==
  LET i == SelectInSeq(s, LAMBDA x : x.at <= time)
  IN  IF i = 0 THEN NoSample ELSE s[i]

(* publish_gas_price, publish_native_conversion, publish_protocol_receipt:  *)
(* the wall clock, or the time of the quote, may lie behind the last one.   *)
Publish(k, at) ==
  /\ values < MaxPublished /\ values' = values + 1
  /\ history' = [history EXCEPT ![k] = insert(@, [at |-> at, value |-> values'])]
  /\ published' = [published EXCEPT ![k][at] = values']
publish ==
  /\ \E k \in Keys \ Routes, at \in {clock, clock - 1} \cap Times : Publish(k, at)
  /\ UNCHANGED <<clock, slots, candidate, payload>>
(* publish_route_receipt_with_source: a new route needs a free slot.        *)
publish_receipt ==
  /\ \E r \in Routes, at \in {clock, clock - 1} \cap Times :
       IF r \in slots \/ Cardinality(slots) < MAX_RECEIPT_ROUTES
       THEN Publish(r, at) /\ slots' = slots \cup {r}
       ELSE FALSE
  /\ UNCHANGED <<clock, candidate, payload>>

receipt_at_or_before(r, time) ==
  LET exact == at_or_before(history[r], time)
      boot == at_or_before(history["protocol"], time)
  IN  IF r \in slots /\ exact # NoSample
      THEN [sample |-> exact, scope |-> "exact_route"]
      ELSE [sample |-> boot,
            scope |-> IF boot = NoSample THEN "none" ELSE "same_protocol"]

(* pretrade_cost_payload: the cost is known when gas price and conversion   *)
(* were fresh at the decision and an L1 fee that is due is known.           *)
fresh(sample, time) == sample # NoSample /\ time - sample.at <= Ttl
\* Mutant: the cost is worked out for the time the task gets to it.
PayloadNow(c) ==
  LET gas == at_or_before(history["gas"], clock)
      conversion == at_or_before(history["conversion"], clock)
      receipt == receipt_at_or_before(c.route, clock)
  IN  [route |-> c.route, as_of |-> c.as_of, gas |-> gas, conversion |-> conversion,
       receipt |-> receipt.sample, scope |-> receipt.scope,
       complete |-> /\ fresh(gas, clock) /\ fresh(conversion, clock)
                    /\ IncludesL1Fee => receipt.sample # NoSample]
pretrade_cost_payload(c) ==
  LET gas == at_or_before(history["gas"], c.as_of)
      conversion == at_or_before(history["conversion"], c.as_of)
      receipt == receipt_at_or_before(c.route, c.as_of)
  IN  [route |-> c.route, as_of |-> c.as_of, gas |-> gas, conversion |-> conversion,
       receipt |-> receipt.sample, scope |-> receipt.scope,
       complete |-> /\ fresh(gas, c.as_of) /\ fresh(conversion, c.as_of)
                    /\ IncludesL1Fee => receipt.sample # NoSample]

----------------------------------------------------------------------------
(* The decision sends its time with the candidate, and the task takes it    *)
(* whenever it gets to it.                                                  *)
emit_pretrade_candidate ==
  /\ candidate = NoCandidate
  /\ \E r \in Routes : candidate' = [route |-> r, as_of |-> clock]
  /\ UNCHANGED <<clock, history, slots, published, values, payload>>
TaskEmitsCandidate ==
  /\ candidate # NoCandidate /\ candidate' = NoCandidate
  /\ payload' = pretrade_cost_payload(candidate)
  /\ UNCHANGED <<clock, history, slots, published, values>>

Tick ==
  /\ clock < MaxTime /\ clock' = clock + 1
  /\ UNCHANGED <<history, slots, published, values, candidate, payload>>

CostNext ==
  \/ publish \/ publish_receipt \/ emit_pretrade_candidate \/ TaskEmitsCandidate
  \/ Tick
CostSpec == CostInit /\ [][CostNext]_costVars

----------------------------------------------------------------------------
(* What was published for k up to a time, and whether `sample` is the right *)
(* one: the last value of the latest such time, or none when there is none  *)
(* or as many later times as a history holds have followed.                 *)
TimesUpTo(k, time) == {t \in Times : t <= time /\ published[k][t] # 0}
Exact(k, sample, time) ==
  IF sample # NoSample
  THEN /\ sample.at = Max(TimesUpTo(k, time) \cup {-1})
       /\ sample.value = published[k][sample.at]
  ELSE \/ TimesUpTo(k, time) = {}
       \/ Cardinality(TimesUpTo(k, MaxTime) \ TimesUpTo(k, time)) >= Depth

(* The moment it is worked out, a candidate's cost names exactly the last   *)
(* gas price, conversion and receipt known for its decision time, although  *)
(* samples come late, out of order and after the decision                   *)
(* (TemporalHistory, receipt_at_or_before, pretrade_cost_payload).          *)
WorkedOutAsOf ==
  payload' # payload =>
    /\ Exact("gas", payload'.gas, payload'.as_of)
    /\ Exact("conversion", payload'.conversion, payload'.as_of)
    /\ payload'.scope = "exact_route" =>
         Exact(payload'.route, payload'.receipt, payload'.as_of)
    /\ payload'.scope = "same_protocol" =>
         Exact("protocol", payload'.receipt, payload'.as_of)
    /\ payload'.complete =>
         /\ payload'.gas.at >= payload'.as_of - Ttl
         /\ payload'.conversion.at >= payload'.as_of - Ttl
CostAsOfDecision == [][WorkedOutAsOf]_costVars
=============================================================================
