------------------------------ MODULE MarketFeed ------------------------------
(***************************************************************************)
(* The Binance Spot stream shard: BookTickerFeed with its depth book       *)
(* (market_data/binance.rs, binance/depth.rs), the feed state of the       *)
(* engines (state.rs) and the copy of it the live trade task reads from    *)
(* another thread (EntryPreflightHandle in arbitrage.rs).                  *)
(*                                                                         *)
(* A book is the set of price levels that hold a bid or an ask; a top of   *)
(* book is named by its update id.  The feed future and the engines run in *)
(* one task, so an event is parsed and handled in one step; everything the *)
(* exchange does falls between the steps.                                  *)
(***************************************************************************)
EXTENDS Integers, Sequences, FiniteSets, SequencesExt

CONSTANTS
    Symbols,        \* the symbols of the shard, positive numbers in stream order
    DepthSymbol,    \* the one with a depth stream
    Books,          \* the books the exchange may have: valid, not crossed
    MaxUpdates,     \* symbol -> bound on its update ids
    MaxWire,        \* bound on the messages in flight
    MaxGeneration,  \* bound on the connections
    MaxSilence,     \* max_transport_silence_ms, in ticks
    FastPath        \* uses_dex_first_fast_path: quotes are judged on their top alone

VARIABLES
    hist,       \* the books of DepthSymbol, hist[u + 1] after update u
    last,       \* symbol -> the exchange's last update id
    sent,       \* the last update id a depth event has covered
    wire,       \* the messages on their way to the socket
    sock,       \* "down", "subscribing", "syncing" or "up"
    syncing,    \* the book a bootstrap is building
    generation, \* BookTickerFeed.generation
    depth,      \* depth_book
    pending,    \* pending_events
    runtime,    \* symbol -> BinanceFeedState
    matched,    \* latest_sequence_matched_depth of the depth symbol's engine
    evaluated,  \* last_sequence_matched_quote_update of that engine
    preflight   \* symbol -> quotes and transport of EntryPreflightState

exchange == <<hist, last, sent>>
feed == <<wire, sock, syncing, generation, depth, pending>>
engines == <<runtime, matched, evaluated, preflight>>
vars == <<exchange, feed, engines>>

NoBook == [id |-> 0, levels |-> [bids |-> {}, asks |-> {}]]
NoQuote == [id |-> 0, generation |-> 0]
Old == MaxSilence + 1

\* The exchange has traded before: update 1 is the book the process finds.
Init ==
    /\ \E b \in Books : hist = <<b, b>>
    /\ last = [s \in Symbols |-> 1] /\ sent = 1
    /\ wire = <<>> /\ sock = "down" /\ syncing = NoBook
    /\ generation = 0 /\ depth = NoBook /\ pending = <<>>
    /\ runtime = [s \in Symbols |->
           [connected |-> FALSE, generation |-> 0, update |-> 0, book |-> NoQuote,
            depth |-> 0, age |-> Old]]
    /\ matched = NoBook /\ evaluated = 0
    /\ preflight = [s \in Symbols |->
           [quote |-> NoQuote, connected |-> FALSE, generation |-> 0, age |-> Old]]

-----------------------------------------------------------------------------
(* The exchange *)

BookAt(u) == hist[u + 1]
Levels(b) == ({"bid"} \X b.bids) \cup ({"ask"} \X b.asks)
Changed(b, c) == (Levels(b) \ Levels(c)) \cup (Levels(c) \ Levels(b))

\* Matching changes the book, of which only the depth symbol's is kept.
Match(s) ==
    /\ last[s] < MaxUpdates[s]
    /\ last' = [last EXCEPT ![s] = @ + 1]
    /\ IF s = DepthSymbol THEN \E b \in Books : hist' = Append(hist, b) ELSE UNCHANGED hist
    /\ UNCHANGED <<sent, feed, engines>>

Send(m) ==
    /\ sock # "down" /\ Len(wire) < MaxWire
    /\ wire' = Append(wire, m)

\* A bookTicker, not always of the latest update.
SendTicker(s) ==
    /\ \E u \in 1 .. last[s] : Send([kind |-> "ticker", symbol |-> s, id |-> u])
    /\ UNCHANGED <<exchange, sock, syncing, generation, depth, pending, engines>>

\* A depth event covers the updates since the one before it.
SendDepth ==
    /\ sent < last[DepthSymbol]
    /\ \E u \in sent + 1 .. last[DepthSymbol] :
          /\ Send([kind |-> "depth", first |-> sent + 1, final |-> u])
          /\ sent' = u
    /\ UNCHANGED <<hist, last, sock, syncing, generation, depth, pending, engines>>

SendPing ==
    /\ Send([kind |-> "ping"])
    /\ UNCHANGED <<exchange, sock, syncing, generation, depth, pending, engines>>

\* An event or a part of the stream that never arrives.
LoseDepth ==
    /\ sent < last[DepthSymbol] /\ sent' = sent + 1
    /\ UNCHANGED <<hist, last, feed, engines>>

-----------------------------------------------------------------------------
(* SpotDepthBook::apply *)

Stale(book, m) == m.final <= book.id
GapUnchecked(book, m) == FALSE
Gap(book, m) == ~Stale(book, m) /\ m.first > book.id + 1
\* apply_levels: the event carries the final state of every level it touched.
Touched(m) == UNION {Changed(BookAt(u - 1), BookAt(u)) : u \in m.first .. m.final}
Apply(book, m) ==
    LET new == (Levels(book.levels) \ Touched(m)) \cup (Levels(BookAt(m.final)) \cap Touched(m))
    IN [id |-> m.final,
        levels |-> [bids |-> {l[2] : l \in {k \in new : k[1] = "bid"}},
                    asks |-> {l[2] : l \in {k \in new : k[1] = "ask"}}]]

-----------------------------------------------------------------------------
(* The feed: next_event, connect and disconnect *)

InOrder == SetToSortSeq(Symbols, <)
EventForAll(kind) ==
    [i \in 1 .. Len(InOrder) |-> [kind |-> kind, symbol |-> InOrder[i], generation |-> generation']]

\* pending_events is drained before anything is read or connected.
Polling == pending = <<>>

\* connect: a socket whose depth stream starts somewhere in the last batch.
Connect ==
    /\ Polling /\ sock = "down" /\ generation < MaxGeneration
    /\ sock' = "subscribing" /\ wire' = <<>>
    /\ \E u \in 0 .. last[DepthSymbol] : sent' = u
    /\ UNCHANGED <<hist, last, syncing, generation, depth, pending, engines>>

\* The REST snapshot, taken after the subscription is acknowledged; its cache
\* may be older than the stream.
Snapshot ==
    /\ Polling /\ sock = "subscribing"
    /\ \E u \in 1 .. last[DepthSymbol] : syncing' = [id |-> u, levels |-> BookAt(u)]
    /\ sock' = "syncing"
    /\ UNCHANGED <<exchange, wire, generation, depth, pending, engines>>

\* disconnect: every symbol of the shard is told.
DisconnectTellsFirst ==
    /\ sock' = "down" /\ wire' = <<>> /\ depth' = NoBook /\ syncing' = NoBook
    /\ UNCHANGED generation
    /\ pending' = <<Head(EventForAll("disconnected"))>>
DisconnectKeepsBook ==
    /\ sock' = "down" /\ wire' = <<>> /\ syncing' = NoBook
    /\ UNCHANGED <<generation, depth>>
    /\ pending' = EventForAll("disconnected")
Disconnect ==
    /\ sock' = "down" /\ wire' = <<>> /\ depth' = NoBook /\ syncing' = NoBook
    /\ UNCHANGED generation
    /\ pending' = EventForAll("disconnected")

\* A transport error, a close, a parse error, a timeout or the rotation.
Fail ==
    /\ Polling /\ sock # "down"
    /\ Disconnect
    /\ UNCHANGED <<exchange, engines>>

\* subscribe_and_bootstrap_depth: events up to the first that applies.
Bootstrap ==
    /\ Polling /\ sock = "syncing" /\ wire # <<>>
    /\ LET m == Head(wire) IN
       IF m.kind = "depth" /\ Gap(syncing, m)
       THEN Disconnect
       ELSE /\ wire' = Tail(wire)
            /\ IF m.kind # "depth" \/ Stale(syncing, m)
               THEN UNCHANGED <<sock, syncing, generation, depth, pending>>
               ELSE /\ depth' = Apply(syncing, m) /\ syncing' = NoBook
                    /\ sock' = "up" /\ generation' = generation + 1
                    /\ pending' = EventForAll("connected")
    /\ UNCHANGED <<exchange, engines>>

-----------------------------------------------------------------------------
(* RuntimeState and EntryPreflightHandle *)

PriceReady(f) == f.connected /\ f.book # NoQuote /\ f.age <= MaxSilence

OnConnected(s, g) ==
    /\ runtime' = IF g < runtime[s].generation THEN runtime
                  ELSE [runtime EXCEPT ![s] = [connected |-> TRUE, generation |-> g, update |-> 0,
                                               book |-> NoQuote, depth |-> 0, age |-> 0]]
    /\ preflight' = IF g < preflight[s].generation THEN preflight
                    ELSE [preflight EXCEPT ![s].connected = TRUE, ![s].generation = g, ![s].age = 0]

PreflightIgnoresDisconnect(s, g) ==
    /\ runtime' = IF g # runtime[s].generation THEN runtime
                  ELSE [runtime EXCEPT ![s].connected = FALSE, ![s].book = NoQuote,
                                       ![s].depth = 0, ![s].age = Old]
    /\ UNCHANGED preflight
OnDisconnected(s, g) ==
    /\ runtime' = IF g # runtime[s].generation THEN runtime
                  ELSE [runtime EXCEPT ![s].connected = FALSE, ![s].book = NoQuote,
                                       ![s].depth = 0, ![s].age = Old]
    /\ preflight' = IF g # preflight[s].generation THEN preflight
                    ELSE [preflight EXCEPT ![s].connected = FALSE]

\* record_transport_activity, in the preflight only if the state accepts it.
OnHeartbeat(s, g) ==
    IF runtime[s].connected /\ g = runtime[s].generation
    THEN /\ runtime' = [runtime EXCEPT ![s].age = 0]
         /\ preflight' = IF preflight[s].connected /\ g = preflight[s].generation
                         THEN [preflight EXCEPT ![s].age = 0] ELSE preflight
    ELSE UNCHANGED <<runtime, preflight>>

\* update_quote
UpdateQuote(s, q) ==
    LET c == preflight[s].quote IN
    preflight' = IF q.generation > c.generation \/ (q.generation = c.generation /\ q.id >= c.id)
                 THEN [preflight EXCEPT ![s] = [quote |-> q, connected |-> TRUE,
                                                generation |-> q.generation, age |-> 0]]
                 ELSE preflight

Top(b) == [bid |-> {p \in b.bids : \A o \in b.bids : o <= p},
           ask |-> {p \in b.asks : \A o \in b.asks : o >= p}]
MatchesTop(book, u) == book.id >= u /\ Top(book.levels) = Top(BookAt(u))

\* refresh_phase: ready needs the price of the engine's symbol, and other
\* inputs (the DEX mirror, the balances) that are open here.
Phases(s) == {FALSE, PriceReady(runtime'[s])}

\* evaluate_sequence_matched_quote, off the fast path: once per update.
Evaluate(u, matches) == evaluated' = IF ~FastPath /\ matches /\ u > evaluated THEN u ELSE evaluated

\* on_binance_quote: a quote of another connection, or not newer, is dropped.
OnQuote(s, q) ==
    IF q.generation # runtime[s].generation
    THEN UNCHANGED <<runtime, preflight, evaluated>>
    ELSE IF q.id <= runtime[s].update
    THEN runtime' = [runtime EXCEPT ![s].age = 0] /\ UNCHANGED <<preflight, evaluated>>
    ELSE /\ runtime' = [runtime EXCEPT ![s].age = 0, ![s].update = q.id, ![s].book = q]
         /\ UpdateQuote(s, q)
         /\ \E ready \in Phases(s) :
               Evaluate(q.id, ready /\ s = DepthSymbol /\ MatchesTop(depth, q.id))

\* The depth event: the state accepts it, and a ready engine keeps the book if
\* it shows the current top.
OnDepth(g, book) ==
    LET s == DepthSymbol
        u == runtime[s].book.id
    IN /\ runtime' = IF g # runtime[s].generation THEN runtime
                     ELSE [runtime EXCEPT ![s].age = 0,
                                          ![s].depth = IF book.id > @ THEN book.id ELSE @]
       /\ \E ready \in Phases(s) :
             LET matches == ready /\ MatchesTop(book, u) IN
             /\ matched' = IF matches THEN book ELSE matched
             /\ Evaluate(u, matches)
       /\ UNCHANGED preflight

MarkKept(e) == evaluated
\* A new connection forgets which update was evaluated last.
MarkAfter(e) == IF e.symbol = DepthSymbol /\ e.kind = "connected" THEN 0 ELSE evaluated

\* The event at the head of pending_events reaches its engine.
Deliver ==
    /\ pending # <<>> /\ pending' = Tail(pending)
    /\ LET e == Head(pending) IN
       /\ CASE e.kind = "connected" -> OnConnected(e.symbol, e.generation)
            [] e.kind = "disconnected" -> OnDisconnected(e.symbol, e.generation)
            [] e.kind = "heartbeat" -> OnHeartbeat(e.symbol, e.generation)
       /\ matched' = IF e.symbol = DepthSymbol /\ e.kind # "heartbeat" THEN NoBook ELSE matched
       /\ evaluated' = MarkAfter(e)
    /\ UNCHANGED <<exchange, wire, sock, syncing, generation, depth>>

Up == Polling /\ sock = "up" /\ wire # <<>>
ReceiveTicker ==
    /\ Up /\ Head(wire).kind = "ticker"
    /\ OnQuote(Head(wire).symbol, [id |-> Head(wire).id, generation |-> generation])
    /\ wire' = Tail(wire)
    /\ UNCHANGED <<exchange, sock, syncing, generation, depth, pending, matched>>

ReceivePing ==
    /\ Up /\ Head(wire).kind = "ping"
    /\ wire' = Tail(wire)
    /\ UNCHANGED <<exchange, sock, syncing, generation, depth, engines>>
    /\ pending' = EventForAll("heartbeat")

\* parse_payload: a gap, or an event that is stale after the bootstrap, ends
\* the connection.
ReceiveDepth ==
    /\ Up /\ Head(wire).kind = "depth"
    /\ LET m == Head(wire) IN
       IF Stale(depth, m) \/ Gap(depth, m)
       THEN Disconnect /\ UNCHANGED engines
       ELSE /\ depth' = Apply(depth, m) /\ wire' = Tail(wire)
            /\ OnDepth(generation, Apply(depth, m))
            /\ UNCHANGED <<sock, syncing, generation, pending>>
    /\ UNCHANGED exchange

\* Time passes without activity.
Tick ==
    LET older(age) == IF age < Old THEN age + 1 ELSE age IN
    /\ \E s \in Symbols : runtime[s].age < Old \/ preflight[s].age < Old
    /\ runtime' = [s \in Symbols |-> [runtime[s] EXCEPT !.age = older(@)]]
    /\ preflight' = [s \in Symbols |-> [preflight[s] EXCEPT !.age = older(@)]]
    /\ UNCHANGED <<exchange, feed, matched, evaluated>>

-----------------------------------------------------------------------------

Exchange == LoseDepth \/ SendDepth \/ SendPing \/ \E s \in Symbols : Match(s) \/ SendTicker(s)
Feed == Connect \/ Snapshot \/ Bootstrap \/ Fail \/ Deliver
        \/ ReceiveTicker \/ ReceivePing \/ ReceiveDepth
Next == Exchange \/ Feed \/ Tick

Spec == Init /\ [][Next]_vars

-----------------------------------------------------------------------------
(* Properties *)

\* Type invariant of the feed and of the two views of it.
TypeOK ==
    /\ sock \in {"down", "subscribing", "syncing", "up"}
    /\ Len(hist) = last[DepthSymbol] + 1 /\ sent \in 0 .. last[DepthSymbol]
    /\ generation \in 0 .. MaxGeneration
    /\ depth # NoBook <=> sock = "up"
    /\ \A s \in Symbols :
          /\ runtime[s].age \in 0 .. Old /\ preflight[s].age \in 0 .. Old
          /\ runtime[s].generation \in 0 .. generation
          /\ preflight[s].generation \in 0 .. generation

\* The local depth book is the exchange's book after the update it names:
\* an older snapshot, batches that overlap it, lost events and reconnects
\* never leave a level too many or too few.
DepthIsExact ==
    /\ depth # NoBook => depth.levels = BookAt(depth.id)
    /\ matched # NoBook => matched.levels = BookAt(matched.id)

\* An engine that believes itself connected is on the current connection, or
\* the event that will tell it otherwise is on its way.
NoOrphanedFeed ==
    \A s \in Symbols : runtime[s].connected =>
        \/ sock = "up" /\ runtime[s].generation = generation
        \/ \E i \in DOMAIN pending : pending[i].symbol = s /\ pending[i].kind # "heartbeat"

\* fresh_binance_top: what the live trade task trusts, from its own thread, is
\* the very top the engine holds and would itself still trade on.
FreshTop(s) ==
    /\ preflight[s].quote # NoQuote /\ preflight[s].connected
    /\ preflight[s].generation = preflight[s].quote.generation
    /\ preflight[s].age <= MaxSilence
PreflightNeverAhead ==
    \A s \in Symbols : FreshTop(s) =>
        PriceReady(runtime[s]) /\ runtime[s].book = preflight[s].quote

\* The mark that stops an update from being evaluated twice never runs ahead
\* of the quote the engine holds: it would silence the quotes up to it.
MarkNeverAhead == evaluated <= runtime[DepthSymbol].update
=============================================================================
