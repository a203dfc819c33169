---------------------------- MODULE PreparedPools ----------------------------
(***************************************************************************)
(* How one trading engine turns DEX events and Binance quotes into          *)
(* submitted plans (opportunity.rs, engine.rs, and the DEX and sizing arms  *)
(* of main.rs).                                                             *)
(*                                                                          *)
(* A pool's state is the number of logs applied to it (`mirror`).  A log    *)
(* takes the pool's prepared curve away, counts its generation up and asks  *)
(* for a new curve; requests wait in a batch that keeps the newest one per  *)
(* pool, and between two builds the loop drains the DEX channel again.  A   *)
(* quote is evaluated on the prepared curves through a small cache of       *)
(* baseline quotes, and the result either becomes a plan at once or is      *)
(* first sized by a worker that works on a snapshot and may be late.        *)
(*                                                                          *)
(* Curves, quotes and cache entries carry the version of the pool they were *)
(* computed from; which pool has the best trade, whether it clears the      *)
(* threshold and what the inventory answers are choices.  One of the two    *)
(* directions is followed: each has its own curve and cache.                *)
(***************************************************************************)
EXTENDS Naturals, Sequences, FiniteSetsExt

CONSTANTS
  Pools,          \* the selectable pools of the pair
  MaxLogs,        \* bound: logs of the pools, in all
  MaxQuotes,      \* bound: Binance quotes
  MaxDrops,       \* bound: times the price feed goes silent
  CacheSize       \* BASELINE_CACHE_ENTRIES_PER_DIRECTION (8 in the code)

Absent == [none |-> TRUE]
Amounts == {0, 1}
(* The baseline amount follows the ask price.                               *)
BaselineAmount(q) == q % 2

VARIABLES
  pushed,         \* the DEX channel: the pools whose logs wait in it
  logs,           \* logs sent so far
  mirror,         \* versions of the pools the engine has applied
  gen,            \* pool_generations
  prepared,       \* prepared_pools: Absent or [gen, ver]
  cache,          \* baseline_quote_cache: [entries, next] by pool
  batch,          \* PreparedPoolBuildBatch: Absent or [gen, ver, est] by pool
  loop,           \* "select", or the arm that drains and builds: "dex", "sizing"
  built,          \* that arm has built a curve
  book,           \* the engine's newest top of book (an update id), 0 = none
  feedReady,      \* binance_symbol_price_ready
  drops,
  adaptive,       \* the pair's adaptive sizing is configured
  sizing,         \* the strategy's slot: [running, pending]
  late,           \* the finished sizing task whose result is not applied yet
  submitted,      \* the last plan given to the mailbox
  failed          \* a handler returned an error: the process exits

poolVars == <<pushed, logs, mirror, gen, prepared, cache, batch, loop, built,
              book, feedReady, drops, adaptive, sizing, late, submitted, failed>>

EmptyCache == [entries |-> [i \in 1..CacheSize |-> Absent], next |-> 1]

PoolInit ==
  /\ pushed = <<>> /\ logs = 0 /\ mirror = [p \in Pools |-> 0]
  /\ gen = [p \in Pools |-> 1]
  /\ prepared = [p \in Pools |-> [gen |-> 1, ver |-> 0]]
  /\ cache = [p \in Pools |-> EmptyCache]
  /\ batch = [p \in Pools |-> Absent]
  /\ loop = "select" /\ built = FALSE /\ book = 0 /\ feedReady = FALSE /\ drops = 0
  /\ adaptive \in BOOLEAN
  /\ sizing = [running |-> Absent, pending |-> Absent] /\ late = Absent
  /\ submitted = Absent /\ failed = FALSE

(* RuntimePhase::Ready, as far as this engine's prices decide it: prepared  *)
(* curves are deliberately not part of it.                                  *)
Ready == feedReady /\ book # 0

----------------------------------------------------------------------------
(* Curves.                                                                  *)

(* Mutant: a log leaves the published curve in place until the next one.    *)
KeepCurve(p) ==
  /\ gen' = [gen EXCEPT ![p] = @ + 1]
  /\ cache' = [cache EXCEPT ![p] = EmptyCache]
  /\ UNCHANGED prepared
(* Mutant: the cache survives the log.                                      *)
KeepCache(p) ==
  /\ gen' = [gen EXCEPT ![p] = @ + 1]
  /\ prepared' = [prepared EXCEPT ![p] = Absent]
  /\ UNCHANGED cache
(* request_pool_refresh: the curve is taken, not copied.                    *)
request_pool_refresh(p) ==
  /\ gen' = [gen EXCEPT ![p] = @ + 1]
  /\ prepared' = [prepared EXCEPT ![p] = Absent]
  /\ cache' = [cache EXCEPT ![p] = EmptyCache]

(* PreparedPoolBuildBatch::queue: a newer request replaces the queued one   *)
(* and inherits its estimate; a pool with no curve is estimated last.       *)
Queued(p) ==
  [batch EXCEPT ![p] =
     [gen |-> gen[p] + 1, ver |-> mirror[p] + 1,
      est |-> IF batch[p] # Absent THEN batch[p].est
              ELSE IF prepared[p] # Absent THEN "known" ELSE "last"]]

(* pop_next: the shortest estimate first; estimates of published curves     *)
(* differ from pool to pool in a way the model leaves open.                 *)
pop_next(p) ==
  /\ batch[p] # Absent
  /\ batch[p].est = "last" =>
       \A o \in Pools : batch[o] # Absent => batch[o].est = "last"

(* apply_dex_event for a log: the mirror moves, the request is queued.      *)
ApplyLog(p) ==
  /\ mirror' = [mirror EXCEPT ![p] = @ + 1]
  /\ request_pool_refresh(p)
  /\ batch' = Queued(p)

(* prepare_pool_quotes_from_pool: the three bounded curves of one version   *)
(* of the pool, or Unavailable when a bounded direction has no liquidity.   *)
prepare_pool_quotes(g, v) == {[gen |-> g, ver |-> v], Absent}
build(p) == prepare_pool_quotes(batch[p].gen, batch[p].ver)

(* finish_pool_refresh: only the expected generation is published.          *)
finish_pool_refresh(p, curve) ==
  prepared' = [prepared EXCEPT
    ![p] = IF batch[p].gen = gen[p] /\ curve # Absent THEN curve ELSE @]

----------------------------------------------------------------------------
(* Evaluation.                                                              *)

(* PoolBaselineQuoteCache::quote: a hit returns the stored outcome, a miss  *)
(* overwrites the ring's next entry.                                        *)
Hit(p, a) == \E i \in 1..CacheSize : /\ cache[p].entries[i] # Absent
                                     /\ cache[p].entries[i].amount = a
QuotedVersion(p, a) ==
  IF Hit(p, a)
  THEN (CHOOSE e \in {cache[p].entries[i] : i \in 1..CacheSize} \ {Absent} :
          e.amount = a).ver
  ELSE prepared[p].ver
Cached(p, a) ==
  IF prepared[p] = Absent \/ Hit(p, a) THEN cache[p]
  ELSE [entries |-> [cache[p].entries EXCEPT
                       ![cache[p].next] = [amount |-> a, ver |-> prepared[p].ver]],
        next |-> (cache[p].next % CacheSize) + 1]

(* OpportunityEngine::evaluate: pools without a curve are skipped; the best *)
(* baseline that meets the threshold is one of the others, or there is none.*)
Usable == {p \in Pools : prepared[p] # Absent}
Trade(p, q, v) == [pool |-> p, ver |-> v, quote |-> q]
Evaluations(q) ==
  {Trade(p, q, QuotedVersion(p, BaselineAmount(q))) : p \in Usable} \cup {Absent}

(* search_adaptive_pool over the snapshot's curves: a larger trade on some  *)
(* pool, or none; a pool without a curve makes the whole search an error,   *)
(* and the baseline is used.                                                *)
AdaptiveTrades(job) ==
  {job.trade} \cup
    (IF \E p \in Pools : job.curves[p] = Absent THEN {}
     ELSE {Trade(p, job.quote, job.curves[p].ver) : p \in Pools})

(* The plan built of a candidate: the generations it carries are read when  *)
(* it is built, not when it was evaluated.                                  *)
Plan(trade) == [pool |-> trade.pool, ver |-> trade.ver, quote |-> trade.quote,
                gen |-> gen[trade.pool]]
(* submit_paper_opportunity_inner, once the candidate is chosen: building   *)
(* the plan of a pool without a curve is an error; the inventory or the     *)
(* mailbox may refuse the plan.                                             *)
Admit(trade) ==
  IF prepared[trade.pool] = Absent
  THEN failed' = TRUE /\ UNCHANGED submitted
  ELSE /\ submitted' \in {submitted, Plan(trade)}
       /\ UNCHANGED failed

(* The same function while adaptive sizing is on: the evaluation is queued  *)
(* with the pools' generations and a copy of the curves.                    *)
Job(trade) == [trade |-> trade, quote |-> trade.quote, gens |-> gen,
               curves |-> prepared]
(* The end of a loop iteration: the newest job replaces a pending one, and  *)
(* starts when its strategy's slot is free (each strategy has a worker).    *)
Slots(slot, job) ==
  IF job = Absent THEN slot
  ELSE IF slot.running = Absent THEN [slot EXCEPT !.running = job]
  ELSE [slot EXCEPT !.pending = job]

(* evaluate_ready_quote at the end of an arm that is not the sizing one.    *)
Decide(q) ==
  \E trade \in Evaluations(q) :
    /\ cache' = [p \in Pools |-> Cached(p, BaselineAmount(q))]
    /\ IF trade = Absent \/ ~feedReady' THEN UNCHANGED <<sizing, submitted, failed>>
       ELSE IF adaptive
       THEN sizing' = Slots(sizing, Job(trade)) /\ UNCHANGED <<submitted, failed>>
       ELSE Admit(trade) /\ UNCHANGED sizing

----------------------------------------------------------------------------
(* Steps.                                                                   *)

(* The DEX stream task sends a log.                                         *)
PushLog(p) ==
  /\ logs < MaxLogs
  /\ logs' = logs + 1
  /\ pushed' = Append(pushed, p)
  /\ UNCHANGED <<mirror, gen, prepared, cache, batch, loop, built,
                 book, feedReady, drops, adaptive, sizing, late, submitted, failed>>

(* The DEX arm, and the drain before every build in both arms.              *)
DrainEvent ==
  /\ ~failed /\ pushed # <<>>
  /\ loop' = IF loop = "select" THEN "dex" ELSE loop
  /\ ApplyLog(Head(pushed))
  /\ pushed' = Tail(pushed)
  /\ UNCHANGED <<logs, built, book, feedReady, drops, adaptive, sizing, late,
                 submitted, failed>>

(* build_prepared_pools_interleaved: one build once the channel is empty.   *)
(* The channel was empty when it was looked at; a log may be sent while the *)
(* curve is built.                                                          *)
BuildNext(p) ==
  /\ ~failed /\ loop # "select" /\ pop_next(p)
  /\ \E curve \in build(p) : finish_pool_refresh(p, curve)
  /\ batch' = [batch EXCEPT ![p] = Absent]
  /\ built' = TRUE
  /\ UNCHANGED <<pushed, logs, mirror, gen, cache, loop, book, feedReady, drops,
                 adaptive, sizing, late, submitted, failed>>

AllBuilt == \A p \in Pools : batch[p] = Absent

(* The DEX arm ends: evaluate_after_dex_refreshes.                          *)
EvaluateAfterDex ==
  /\ ~failed /\ loop = "dex" /\ AllBuilt
  /\ loop' = "select" /\ built' = FALSE
  /\ UNCHANGED feedReady
  /\ IF built /\ Ready THEN Decide(book)
     ELSE UNCHANGED <<cache, sizing, submitted, failed>>
  /\ UNCHANGED <<pushed, logs, mirror, gen, prepared, batch, book, drops,
                 adaptive, late>>

(* on_market_event with a top of book: it also makes the feed ready.        *)
OnQuote ==
  /\ ~failed /\ loop = "select" /\ book < MaxQuotes
  /\ book' = book + 1 /\ feedReady' = TRUE
  /\ Decide(book')
  /\ UNCHANGED <<pushed, logs, mirror, gen, prepared, batch, loop, built,
                 drops, adaptive, late>>

(* The transport goes silent or disconnects; the book is kept.              *)
FeedSilent ==
  /\ ~failed /\ loop = "select" /\ feedReady /\ drops < MaxDrops
  /\ feedReady' = FALSE /\ drops' = drops + 1
  /\ UNCHANGED <<pushed, logs, mirror, gen, prepared, cache, batch, loop, built,
                 book, adaptive, sizing, late, submitted, failed>>

(* A heartbeat makes it ready again, with the book it has.                  *)
FeedHeartbeat ==
  /\ ~failed /\ loop = "select" /\ ~feedReady /\ book # 0
  /\ feedReady' = TRUE
  /\ UNCHANGED <<pushed, logs, mirror, gen, prepared, cache, batch, loop, built,
                 book, drops, adaptive, sizing, late, submitted, failed>>

(* The sizing worker, a thread: AdaptiveSizingJob::run.                     *)
SizingRuns ==
  /\ sizing.running # Absent /\ late = Absent
  /\ \E trade \in AdaptiveTrades(sizing.running) :
       late' = [job |-> sizing.running, trade |-> trade]
  /\ UNCHANGED <<pushed, logs, mirror, gen, prepared, cache, batch, loop, built,
                 book, feedReady, drops, adaptive, sizing, submitted, failed>>

(* Mutant: a result counts as current when its quote is.                    *)
QuoteCurrent(job) == job.quote = book
(* on_adaptive_sizing_result: is the work still about the present?          *)
Current(job) == job.quote = book /\ job.gens = gen

(* The sizing arm starts; it drains and builds like the DEX arm.            *)
SizingArm ==
  /\ ~failed /\ loop = "select" /\ late # Absent
  /\ loop' = "sizing"
  /\ UNCHANGED <<pushed, logs, mirror, gen, prepared, cache, batch, built, book,
                 feedReady, drops, adaptive, sizing, late, submitted, failed>>

(* Its end: the newest book is evaluated if a curve was built, the result   *)
(* is applied, the slot is given back, the pending job starts, and the job  *)
(* of the evaluation is submitted last.                                     *)
SizingResult ==
  /\ ~failed /\ loop = "sizing" /\ AllBuilt
  /\ loop' = "select" /\ built' = FALSE /\ late' = Absent
  /\ IF Ready /\ Current(late.job) THEN Admit(late.trade)
     ELSE UNCHANGED <<submitted, failed>>
  /\ LET freed == [running |-> sizing.pending, pending |-> Absent] IN
       IF built /\ Ready
       THEN /\ cache' = [p \in Pools |-> Cached(p, BaselineAmount(book))]
            /\ \E trade \in Evaluations(book) :
                 sizing' = Slots(freed, IF trade = Absent THEN Absent ELSE Job(trade))
       ELSE sizing' = freed /\ UNCHANGED cache
  /\ UNCHANGED <<pushed, logs, mirror, gen, prepared, batch, book, feedReady,
                 drops, adaptive>>

PoolNext ==
  \/ \E p \in Pools : PushLog(p) \/ BuildNext(p)
  \/ DrainEvent \/ EvaluateAfterDex \/ OnQuote \/ FeedSilent \/ FeedHeartbeat
  \/ SizingRuns \/ SizingArm \/ SizingResult

PoolSpec == PoolInit /\ [][PoolNext]_poolVars

----------------------------------------------------------------------------
(* A published curve and everything cached from it describe the pool as the *)
(* engine now knows it, whatever order logs, builds and quotes come in.     *)
CurvesAreCurrent ==
  \A p \in Pools :
    /\ prepared[p] # Absent => prepared[p].ver = mirror[p]
    /\ \A i \in 1..CacheSize :
         cache[p].entries[i] # Absent => cache[p].entries[i].ver = mirror[p]

(* A plan is submitted only for the engine's newest book and the pool state *)
(* the engine has when it submits it, however long the sizing worker took,  *)
(* and the generation it carries is that pool's.                            *)
PlanIsCurrent ==
  submitted' # submitted =>
    /\ submitted'.quote = book' /\ submitted'.ver = mirror[submitted'.pool]
    /\ submitted'.gen = gen[submitted'.pool]
PlansAreCurrent == [][PlanIsCurrent]_poolVars

(* No order of events makes the admission ask for the fee generation of a   *)
(* pool that has no curve, which would end the process.                     *)
AdmissionNeverFails == ~failed
=============================================================================
