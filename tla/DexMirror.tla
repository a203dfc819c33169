------------------------------ MODULE DexMirror ------------------------------
(***************************************************************************)
(* The local mirror of one DEX pool and what feeds it.                     *)
(*                                                                         *)
(*  - initialize_dex (main.rs): hydrate the pool at block B, subscribe to  *)
(*    logs and newHeads, capture head C after the last acknowledgement,    *)
(*    fetch the logs of (B, C] over HTTP, apply them, mark it ready;       *)
(*  - the stream task (market_data/alchemy.rs): it drops notifications     *)
(*    that precede the last acknowledgement, holds a log until the head of *)
(*    its block was seen, and forwards with try_send;                      *)
(*  - DexMirror (dex/mirror.rs): the positional frontier of the pool and   *)
(*    the canonical head;                                                  *)
(*  - receipt settlement (engine.rs, the trade-event arm of main.rs): the  *)
(*    process's own Swap is applied from its receipt, ahead of the stream. *)
(*                                                                         *)
(* An error of a handler ends the process; a restart hydrates anew.  The   *)
(* content of the pool is the identity of the last Swap, of the last Fee,  *)
(* and the set of Mint/Burn events in it: a Swap replaces the head fields, *)
(* a Mint or Burn adds to two ticks.  Log positions are <<block, index>>:  *)
(* the transaction index is folded into the index, an adaptive Fee being   *)
(* the log just before the action it belongs to.  A block's timestamp is   *)
(* its number.                                                             *)
(***************************************************************************)
EXTENDS Integers, Sequences, FiniteSets, SequencesExt

CONSTANTS
  Pools,           \* the pools to choose from, each with what its chain may do:
                   \*   adaptive: TRUE for the Camelot/Lynex adaptive fee, FALSE
                   \*             for V3, Pancake and V4;
                   \*   bodies:   the sequences of pool logs a block may carry;
                   \*   reorgs:   bound on the reorganisations
  MaxBlocks,       \* bound: blocks of the chain
  HydrationReorg,  \* whether one may replace the hydrated block in start-up
  Disconnects,     \* whether the socket may fail
  Capacity,        \* dex_event_channel_capacity
  MaxRestarts      \* bound: restarts of the process

VARIABLES
  pool,      \* the pool the process mirrors, fixed at the start
  chain,     \* the canonical chain: [hash, body]; the number is the index
  hashes,    \* how many block hashes were used
  reorgs, restarts,
  logWire, headWire,   \* notifications under way, per subscription
  stream,    \* "none", "early" (acknowledgements missing), "live", "dead"
  seen,      \* CanonicalEventBuffer.heads (their hashes)
  held,      \* CanonicalEventBuffer.pending_logs, in order of arrival
  channel,   \* DexStreamEvents not yet received by the main loop
  stage,     \* where the process is
  capture,   \* the backfill head, once captured
  mirror,    \* the DexMirror
  receipts   \* receipts of own swaps whose trade event is not yet handled

node == <<pool, chain, hashes, reorgs>>
feed == <<logWire, headWire, stream, seen, held>>
vars == <<node, feed, restarts, channel, stage, capture, mirror, receipts>>

Stages == {"start", "hydrated", "captured", "ready", "stopped", "failed"}
NoPosition == <<0, 0>>
Adaptive == pool.adaptive
NoBlock == [n |-> 0, hash |-> 0, parent |-> 0]

-----------------------------------------------------------------------------
(* The chain, and what its node publishes *)

HeadOf(n) == [n |-> n, hash |-> chain[n].hash,
            parent |-> IF n = 1 THEN 0 ELSE chain[n - 1].hash]

LogsOf(ch, n, removed) ==
  [i \in 1..Len(ch[n].body) |->
     [n |-> n, hash |-> ch[n].hash, i |-> i, kind |-> ch[n].body[i].kind,
      removed |-> removed]]

LogsBetween(ch, from, to, removed) ==
  FlattenSeq([k \in 1..(to - from + 1) |-> LogsOf(ch, from + k - 1, removed)])

HeadsBetween(ch, from, to) ==
  [k \in 1..(to - from + 1) |->
     [n |-> from + k - 1, hash |-> ch[from + k - 1].hash,
      parent |-> IF from + k = 2 THEN 0 ELSE ch[from + k - 2].hash]]

Before(p, q) == p[1] < q[1] \/ (p[1] = q[1] /\ p[2] < q[2])
Position(log) == <<log.n, log.i>>
Identity(log) == <<log.hash, log.i>>

\* The content of the pool after the logs of ch up to position p.
PoolAt(ch, p) ==
  LET logs == SelectSeq(LogsBetween(ch, 1, Len(ch), FALSE),
                        LAMBDA l : ~Before(p, Position(l)))
      Last1(k) == LET s == SelectSeq(logs, LAMBDA l : l.kind = k)
                  IN IF s = <<>> THEN NoPosition ELSE Identity(s[Len(s)])
  IN [swap |-> Last1("swap"), fee |-> Last1("fee"),
      liquidity |-> {Identity(l) : l \in {x \in ToSet(logs) : x.kind = "liquidity"}}]

EndOf(n) == <<n + 1, 0>>

\* The receipts of the own swaps in block n.
ReceiptsOf(ch, n) ==
  {[n |-> n, hash |-> ch[n].hash, i |-> i,
    fee |-> i > 1 /\ ch[n].body[i - 1] = [kind |-> "fee", own |-> TRUE]] :
     i \in {j \in DOMAIN ch[n].body : ch[n].body[j] = [kind |-> "swap", own |-> TRUE]}}

Listening == stream \in {"early", "live"}

Publish(logs, heads) ==
  /\ logWire' = IF Listening THEN logWire \o logs ELSE logWire
  /\ headWire' = IF Listening THEN headWire \o heads ELSE headWire
  /\ UNCHANGED <<stream, seen, held>>

MineBlock ==
  /\ Len(chain) < MaxBlocks
  /\ \E body \in pool.bodies :
       LET n == Len(chain) + 1
           ch == Append(chain, [hash |-> hashes + 1, body |-> body])
       IN /\ chain' = ch
          /\ hashes' = hashes + 1
          /\ receipts' = receipts \cup ReceiptsOf(ch, n)
          /\ Publish(LogsOf(ch, n, FALSE), HeadsBetween(ch, n, n))
  /\ UNCHANGED <<pool, reorgs, restarts, channel, stage, capture, mirror>>

\* The last d blocks are replaced by d others: the node announces the old
\* logs as removed, then the new logs and heads.  A receipt of a replaced
\* block may already have been read.
Reorganise ==
  /\ reorgs < pool.reorgs
  /\ \E d \in 1..(Len(chain) - 1) : \E bodies \in [1..d -> pool.bodies] :
       LET keep == Len(chain) - d
           ch == SubSeq(chain, 1, keep)
                   \o [k \in 1..d |-> [hash |-> hashes + k, body |-> bodies[k]]]
           gone == {r \in receipts : r.n > keep}
       IN /\ HydrationReorg \/ stage \notin {"hydrated", "captured"}
               \/ mirror.head.n <= keep
          /\ chain' = ch
          /\ hashes' = hashes + d
          /\ \E kept \in SUBSET gone :
               receipts' = (receipts \ gone) \cup kept
                             \cup UNION {ReceiptsOf(ch, n) : n \in (keep + 1)..Len(ch)}
          /\ Publish(LogsBetween(chain, keep + 1, Len(chain), TRUE)
                       \o LogsBetween(ch, keep + 1, Len(ch), FALSE),
                     HeadsBetween(ch, keep + 1, Len(ch)))
  /\ reorgs' = reorgs + 1
  /\ UNCHANGED <<pool, restarts, channel, stage, capture, mirror>>

-----------------------------------------------------------------------------
(* DexMirror *)

DexMirrorNew(head, content) ==
  [pool |-> content, position |-> NoPosition, positionHash |-> 0,
   pendingFee |-> NoPosition, timepoint |-> content.fee[1],
   backfilled |-> head.n, complete |-> FALSE, head |-> head,
   stamps |-> IF Adaptive THEN <<[n |-> head.n, hash |-> head.hash]>> ELSE <<>>,
   broken |-> FALSE]

Broken(m) == [m EXCEPT !.broken = TRUE]

\* The canonical-head checks apply_log_inner makes on a stream log.
AheadOfHead(m, log) ==
  /\ m.complete
  /\ log.n > m.head.n \/ (log.n = m.head.n /\ log.hash # m.head.hash)

\* Mutant: only a log at the very frontier is taken for a copy.
OnlySamePosition(m, log) ==
  \/ log.n <= m.backfilled
  \/ m.position # NoPosition /\ Position(log) = m.position

\* Logs whose position the frontier already covers, and that are skipped.
Duplicate(m, log) ==
  \/ log.n <= m.backfilled
  \/ /\ m.position # NoPosition
     /\ Position(log) = m.position
     /\ Adaptive => log.hash = m.positionHash
  \/ /\ m.position # NoPosition
     /\ Before(Position(log), m.position)
     /\ ~Adaptive

OutOfOrder(m, log) ==
  m.position # NoPosition /\ ~Before(m.position, Position(log))

\* validate_adaptive_timepoint_link: the action's block has a timepoint, and
\* a Fee still pending is the log of this block just before the action.
LinkBroken(m, log) ==
  /\ Adaptive
  /\ IF log.kind = "fee" THEN m.pendingFee # NoPosition
     ELSE \/ m.timepoint # log.hash
          \/ /\ m.pendingFee # NoPosition
             /\ m.pendingFee # <<log.n, log.i - 1>>

ApplyUpdate(m, log) ==
  [m EXCEPT
     !.pool = IF log.kind = "liquidity"
              THEN [@ EXCEPT !.liquidity = @ \cup {Identity(log)}]
              ELSE [@ EXCEPT ![log.kind] = Identity(log)],
     !.pendingFee = IF log.kind = "fee" THEN Position(log) ELSE NoPosition,
     !.timepoint = IF log.kind = "fee" THEN log.hash ELSE @,
     !.position = Position(log),
     !.positionHash = log.hash]

apply_log_inner(m, log, origin) ==
  IF log.removed \/ (origin = "stream" /\ AheadOfHead(m, log)) THEN Broken(m)
  ELSE IF Duplicate(m, log) THEN m
  ELSE IF OutOfOrder(m, log) \/ LinkBroken(m, log) THEN Broken(m)
  ELSE ApplyUpdate(m, log)

\* apply_camelot_fee_receipt and apply_lynex_fee_receipt.
apply_fee_receipt(m, log) == apply_log_inner(m, log, "stream")

\* record_canonical_timestamp
Stamp(m, head) ==
  LET last == m.stamps[Len(m.stamps)]
      stamp == [n |-> head.n, hash |-> head.hash]
  IN IF ~Adaptive \/ last = stamp THEN m
     ELSE IF last.n = head.n THEN Broken(m)
     ELSE [m EXCEPT !.stamps = Append(@, stamp)]

finish_backfill_at(m, head) ==
  IF head.n < m.head.n \/ m.pendingFee # NoPosition THEN Broken(m)
  ELSE Stamp([m EXCEPT !.backfilled = head.n, !.complete = TRUE, !.head = head], head)

apply_head_at(m, head) ==
  IF head.n < m.head.n THEN m
  ELSE IF head.n = m.head.n
       THEN IF head.hash # m.head.hash THEN Broken(m) ELSE Stamp(m, head)
  ELSE IF head.n # m.head.n + 1 \/ head.parent # m.head.hash THEN Broken(m)
  ELSE Stamp([m EXCEPT !.head = head], head)

\* apply_dex_event; after an error nothing more is applied.
apply_dex_event(m, event) ==
  IF m.broken THEN m
  ELSE IF event.type = "head" THEN apply_head_at(m, event.head)
  ELSE apply_log_inner(m, event.log, "stream")

\* apply_arbitrage_receipt_settlement: a static-fee Swap may lead the head;
\* an adaptive one needs its Fee and the timestamp of its canonical block.
apply_arbitrage_receipt_settlement(m, r) ==
  LET swap == [n |-> r.n, hash |-> r.hash, i |-> r.i, kind |-> "swap", removed |-> FALSE]
      fee == [swap EXCEPT !.i = r.i - 1, !.kind = "fee"]
  IN IF m.broken \/ r.n <= m.backfilled THEN m
     ELSE IF ~Adaptive THEN apply_log_inner(m, swap, "receipt")
     ELSE IF ~r.fee \/ [n |-> r.n, hash |-> r.hash] \notin ToSet(m.stamps) THEN m
     ELSE LET fed == apply_fee_receipt(m, fee)
          IN IF fed.broken THEN fed ELSE apply_log_inner(fed, swap, "stream")

-----------------------------------------------------------------------------
(* initialize_dex *)

Hydrate ==
  /\ stage = "start"
  /\ stage' = "hydrated"
  /\ mirror' = DexMirrorNew(HeadOf(Len(chain)), PoolAt(chain, EndOf(Len(chain))))
  /\ UNCHANGED <<node, feed, restarts, channel, capture, receipts>>

Subscribe ==
  /\ stage = "hydrated" /\ stream = "none"
  /\ stream' = "early"
  /\ UNCHANGED <<node, logWire, headWire, seen, held, restarts, channel, stage,
                 capture, mirror, receipts>>

\* accept_subscription_response: notifications read while an acknowledgement
\* is missing are dropped.
DropEarly ==
  /\ stream = "early"
  /\ \/ logWire # <<>> /\ logWire' = Tail(logWire) /\ UNCHANGED headWire
     \/ headWire # <<>> /\ headWire' = Tail(headWire) /\ UNCHANGED logWire
  /\ UNCHANGED <<node, stream, seen, held, restarts, channel, stage, capture,
                 mirror, receipts>>

Acknowledged ==
  /\ stream = "early"
  /\ stream' = "live"
  /\ UNCHANGED <<node, logWire, headWire, seen, held, restarts, channel, stage,
                 capture, mirror, receipts>>

\* Mutant: the backfill bound is captured before the subscriptions are live.
CaptureBeforeLive ==
  /\ stage = "hydrated" /\ capture = NoBlock
  /\ capture' = HeadOf(Len(chain))
  /\ stage' = "captured"
  /\ UNCHANGED <<node, restarts, channel, mirror, receipts, logWire, headWire, seen, held>>
  /\ stream' = "early"

CaptureHead ==
  /\ stage = "hydrated" /\ stream \in {"live", "dead"}
  /\ capture' = HeadOf(Len(chain))
  /\ stage' = "captured"
  /\ UNCHANGED <<node, feed, restarts, channel, mirror, receipts>>

\* Mutant: the backfill leaves out the captured block.
BackfillStopsShort ==
  /\ stage = "captured" /\ stream \in {"live", "dead"}
  /\ LET logs == SelectSeq(LogsBetween(chain, mirror.head.n + 1, capture.n, FALSE),
                           LAMBDA l : l.n # capture.n)
         Step(m, log) == IF m.broken THEN m ELSE apply_log_inner(m, log, "stream")
         fed == FoldLeft(Step, mirror, logs)
         done == IF fed.broken THEN fed ELSE finish_backfill_at(fed, capture)
     IN /\ mirror' = done
        /\ stage' = IF done.broken THEN "failed" ELSE "ready"
  /\ UNCHANGED <<node, feed, restarts, channel, capture, receipts>>

\* get_logs over (B, C] by block number, DexMirror::new, the logs in order of
\* position, finish_backfill_at.  A chain that was reorganised since the
\* capture answers with the logs of its new blocks.
Backfill ==
  /\ stage = "captured" /\ stream \in {"live", "dead"}
  /\ LET logs == LogsBetween(chain, mirror.head.n + 1, capture.n, FALSE)
         Step(m, log) == IF m.broken THEN m ELSE apply_log_inner(m, log, "stream")
         fed == FoldLeft(Step, mirror, logs)
         done == IF fed.broken THEN fed ELSE finish_backfill_at(fed, capture)
     IN /\ mirror' = done
        /\ stage' = IF done.broken THEN "failed" ELSE "ready"
  /\ UNCHANGED <<node, feed, restarts, channel, capture, receipts>>

-----------------------------------------------------------------------------
(* The stream task *)

\* Mutant: the channel takes whatever is sent.
ForwardUnbounded(events) ==
  channel' = channel \o events /\ stream' = "live"

\* send_event: a full channel ends the task; what it already sent stays.
Forward(events) ==
  /\ channel' = channel \o SubSeq(events, 1, IF Len(channel) + Len(events) <= Capacity
                                             THEN Len(events) ELSE Capacity - Len(channel))
  /\ stream' = IF Len(channel) + Len(events) <= Capacity THEN "live" ELSE "dead"

LogEvent(log) == [type |-> "log", log |-> log]

AcceptLog ==
  /\ stream = "live" /\ logWire # <<>>
  /\ logWire' = Tail(logWire)
  /\ \/ /\ logWire[1].hash \in seen
        /\ Forward(<<LogEvent(logWire[1])>>)
        /\ UNCHANGED held
     \/ /\ logWire[1].hash \notin seen
        /\ IF Len(held) < Capacity
           THEN held' = Append(held, logWire[1]) /\ UNCHANGED stream
           ELSE stream' = "dead" /\ UNCHANGED held
        /\ UNCHANGED channel
  /\ UNCHANGED <<node, headWire, seen, restarts, stage, capture, mirror, receipts>>

\* The held logs of the block follow their head, sorted by position.
AcceptHead ==
  /\ stream = "live" /\ headWire # <<>>
  /\ LET head == headWire[1]
         Mine(log) == log.hash = head.hash
         logs == SortSeq(SelectSeq(held, Mine), LAMBDA a, b : Before(Position(a), Position(b)))
     IN /\ Forward(<<[type |-> "head", head |-> head]>> \o [k \in DOMAIN logs |-> LogEvent(logs[k])])
        /\ seen' = seen \cup {head.hash}
        /\ held' = SelectSeq(held, LAMBDA log : ~Mine(log))
  /\ headWire' = Tail(headWire)
  /\ UNCHANGED <<node, logWire, restarts, stage, capture, mirror, receipts>>

Disconnect ==
  /\ Disconnects /\ stream = "live"
  /\ stream' = "dead"
  /\ UNCHANGED <<node, logWire, headWire, seen, held, restarts, channel, stage,
                 capture, mirror, receipts>>

-----------------------------------------------------------------------------
(* The main loop *)

After(m) == /\ mirror' = m
            /\ stage' = IF m.broken THEN "failed" ELSE stage

DeliverEvent ==
  /\ stage = "ready" /\ channel # <<>>
  /\ After(apply_dex_event(mirror, channel[1]))
  /\ channel' = Tail(channel)
  /\ UNCHANGED <<node, feed, restarts, capture, receipts>>

\* The channel is closed and drained: new entries are disabled, or (Linea)
\* the process ends.
StreamEnded ==
  /\ stage = "ready" /\ channel = <<>> /\ stream = "dead"
  /\ stage' \in {"stopped", "failed"}
  /\ UNCHANGED <<node, feed, restarts, channel, capture, mirror, receipts>>

\* The trade-event arm: drain what is queued, then apply the receipt.
SettleReceipt ==
  /\ stage \in {"ready", "stopped"}
  /\ \E r \in receipts :
       /\ After(apply_arbitrage_receipt_settlement(FoldLeft(apply_dex_event, mirror, channel), r))
       /\ receipts' = receipts \ {r}
  /\ channel' = <<>>
  /\ UNCHANGED <<node, feed, restarts, capture>>

Restart ==
  /\ stage \in {"failed", "stopped"} /\ restarts < MaxRestarts
  /\ restarts' = restarts + 1
  /\ stage' = "start" /\ stream' = "none"
  /\ logWire' = <<>> /\ headWire' = <<>> /\ seen' = {} /\ held' = <<>>
  /\ channel' = <<>> /\ capture' = NoBlock
  /\ mirror' = DexMirrorNew(NoBlock, PoolAt(chain, NoPosition))
  /\ UNCHANGED <<node, receipts>>

Init ==
  /\ pool \in Pools
  /\ chain = <<[hash |-> 1, body |-> <<>>]>>
  /\ hashes = 1 /\ reorgs = 0 /\ restarts = 0
  /\ logWire = <<>> /\ headWire = <<>> /\ stream = "none"
  /\ seen = {} /\ held = <<>> /\ channel = <<>>
  /\ stage = "start" /\ capture = NoBlock
  /\ mirror = DexMirrorNew(NoBlock, PoolAt(chain, NoPosition))
  /\ receipts = {}

Next ==
  \/ MineBlock \/ Reorganise
  \/ Hydrate \/ Subscribe \/ DropEarly \/ Acknowledged \/ CaptureHead \/ Backfill
  \/ AcceptLog \/ AcceptHead \/ Disconnect
  \/ DeliverEvent \/ StreamEnded \/ SettleReceipt \/ Restart

Spec == Init /\ [][Next]_vars

-----------------------------------------------------------------------------
(* Properties *)

\* Shape of the state: the wires carry what the chain published, the channel
\* keeps to dex_event_channel_capacity, the mirror's frontier is a position.
TypeOK ==
  /\ stage \in Stages
  /\ stream \in {"none", "early", "live", "dead"}
  /\ Len(channel) <= Capacity /\ Len(held) <= Capacity
  /\ mirror.position \in (0..MaxBlocks) \X Nat
  /\ mirror.head.n \in 0..MaxBlocks
  /\ \A r \in receipts : r.n \in 1..MaxBlocks

Live == stage = "ready" /\ stream = "live"

\* "The service never continues with a plausible but unverified pool mirror"
\* (docs/low-latency-dex-quoting.md): once every notification published has
\* been applied, a mirror that is still in service stands at the chain's tip
\* and holds exactly what the chain's logs made of the pool.
SettledExact ==
  Live /\ logWire = <<>> /\ headWire = <<>> /\ channel = <<>>
    => /\ mirror.head = HeadOf(Len(chain))
       /\ mirror.pool = PoolAt(chain, EndOf(Len(chain)))

\* A message the mirror will refuse is on its way to it: another head of its
\* height, or (adaptive pools) a log the frontier has passed by.
Doomed ==
  LET Conflicts(h) == h.n = mirror.head.n /\ h.hash # mirror.head.hash
      Passed(l) == /\ Adaptive /\ l.n > mirror.backfilled
                   /\ Before(Position(l), mirror.position)
  IN \/ \E k \in DOMAIN headWire : Conflicts(headWire[k])
     \/ \E k \in DOMAIN logWire : Passed(logWire[k])
     \/ \E k \in DOMAIN held : Passed(held[k])
     \/ \E k \in DOMAIN channel :
          IF channel[k].type = "head" THEN Conflicts(channel[k].head)
                                      ELSE Passed(channel[k].log)

Frontier ==
  IF Before(mirror.position, EndOf(mirror.backfilled))
  THEN EndOf(mirror.backfilled) ELSE mirror.position

\* Between events: what a decision quotes from is the pool exactly as of the
\* frontier the mirror claims (never a later event without an earlier one),
\* unless the message that takes the mirror out of service is under way.
PrefixExact ==
  Live /\ ~Doomed => mirror.pool = PoolAt(chain, Frontier)

\* "The receipt event's canonical position deduplicates its later WebSocket
\* copy" (docs/rust-production-architecture.md): a chain that is not
\* reorganised, over a socket that does not fail, never costs the process its
\* mirror, in whichever order the two copies of its own logs arrive.
NoNeedlessFailure ==
  reorgs = 0 /\ stream # "dead" => stage # "failed"

\* The same for the static-fee pools, where apply_log_inner recognises every
\* log behind the frontier.
StaticCopiesHarmless == ~Adaptive => NoNeedlessFailure
=============================================================================
