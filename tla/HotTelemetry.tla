---------------------------- MODULE HotTelemetry ----------------------------
(***************************************************************************)
(* Telemetry off the decision path (hot_telemetry.rs, telemetry.rs).  The   *)
(* trading owner only queues records; a background task turns them into     *)
(* rows for the writer, which batches them for the database.  No send       *)
(* waits: a full channel drops the record and counts it.  Two of the six    *)
(* hot channels are modelled, which behave as all do.  PretradeCost has     *)
(* what the task works out for a candidate.                                 *)
(***************************************************************************)
EXTENDS Naturals

CONSTANTS
  Capacity,         \* telemetry_channel_capacity
  BatchSize,        \* telemetry_batch_size
  MaxRecords        \* bound: records emitted

VARIABLES
  channel,          \* book and candidate channels
  senders,          \* whether any HotTelemetryHandle is left
  open,             \* channels the task still polls
  hot_dropped, sink_dropped,
  sink, batch,      \* records in the writer's channel and batch
  sink_open,        \* whether any TelemetryHandle is left
  writer,           \* "running" or "ended"
  stored, lost,     \* rows written, rows of failed inserts
  emitted           \* records handed to a try_send of a hot channel

telemetryVars ==
  <<channel, senders, open, hot_dropped, sink_dropped, sink, batch, sink_open,
    writer, stored, lost, emitted>>

Kinds == {"book", "candidate"}

TelemetryInit ==
  /\ emitted = 0
  /\ channel = [k \in Kinds |-> 0]
  /\ senders = TRUE /\ open = Kinds
  /\ hot_dropped = 0 /\ sink_dropped = 0
  /\ sink = 0 /\ batch = 0 /\ sink_open = TRUE /\ writer = "running"
  /\ stored = 0 /\ lost = 0

----------------------------------------------------------------------------
(* The handle: try_send on one of the channels.                             *)
TrySend(k) ==
  /\ senders /\ emitted < MaxRecords /\ emitted' = emitted + 1
  /\ IF channel[k] < Capacity
     THEN channel' = [channel EXCEPT ![k] = @ + 1] /\ UNCHANGED hot_dropped
     ELSE hot_dropped' = hot_dropped + 1 /\ UNCHANGED channel
  /\ UNCHANGED <<senders, open, sink_dropped, sink, batch, sink_open,
                 writer, stored, lost>>
emit_binance_book == TrySend("book")
emit_pretrade_candidate == TrySend("candidate")
(* Every handle is dropped when the owner ends.                             *)
DropHandles ==
  /\ senders /\ senders' = FALSE
  /\ UNCHANGED <<channel, open, hot_dropped, sink_dropped, sink, batch,
                 sink_open, writer, stored, lost, emitted>>

(* HotTelemetryTask::run takes a record from any channel that has one, and  *)
(* stops polling a channel that is empty with no sender left.               *)
EmitToSink ==
  IF sink < Capacity THEN sink' = sink + 1 /\ UNCHANGED sink_dropped
  ELSE sink_dropped' = sink_dropped + 1 /\ UNCHANGED sink
Receive(k) ==
  /\ k \in open /\ channel[k] > 0
  /\ channel' = [channel EXCEPT ![k] = @ - 1]
  /\ EmitToSink
  /\ UNCHANGED <<senders, open, hot_dropped, batch, sink_open, writer,
                 stored, lost, emitted>>
\* Mutant: the task stops polling a channel while records are in it.
CloseEarly(k) ==
  /\ k \in open /\ ~senders
  /\ open' = open \ {k}
  /\ sink_open' = (open' # {})
  /\ UNCHANGED <<channel, senders, hot_dropped, sink_dropped, sink,
                 batch, writer, stored, lost, emitted>>
Close(k) ==
  /\ k \in open /\ channel[k] = 0 /\ ~senders
  /\ open' = open \ {k}
  /\ sink_open' = (open' # {})       \* the task held the last TelemetryHandle
  /\ UNCHANGED <<channel, senders, hot_dropped, sink_dropped, sink,
                 batch, writer, stored, lost, emitted>>

(* TelemetryTask::run: a full batch, a tick and the end flush; a failed     *)
(* insert loses the batch.                                                  *)
flush(rows) ==
  /\ batch' = 0
  /\ \/ stored' = stored + rows /\ UNCHANGED lost
     \/ rows > 0 /\ lost' = lost + rows /\ UNCHANGED stored
WriterReceives ==
  /\ writer = "running" /\ sink > 0
  /\ sink' = sink - 1
  /\ IF batch + 1 >= BatchSize THEN flush(batch + 1)
     ELSE batch' = batch + 1 /\ UNCHANGED <<stored, lost>>
  /\ UNCHANGED <<channel, senders, open, hot_dropped, sink_dropped,
                 sink_open, writer, emitted>>
WriterTicks ==
  /\ writer = "running" /\ batch > 0 /\ flush(batch)
  /\ UNCHANGED <<channel, senders, open, hot_dropped, sink_dropped,
                 sink, sink_open, writer, emitted>>
WriterEnds ==
  /\ writer = "running" /\ sink = 0 /\ ~sink_open
  /\ flush(batch) /\ writer' = "ended"
  /\ UNCHANGED <<channel, senders, open, hot_dropped, sink_dropped,
                 sink, sink_open, emitted>>

TelemetryNext ==
  \/ emit_binance_book \/ emit_pretrade_candidate
  \/ DropHandles \/ (\E k \in Kinds : Receive(k) \/ Close(k))
  \/ WriterReceives \/ WriterTicks \/ WriterEnds
TelemetrySpec == TelemetryInit /\ [][TelemetryNext]_telemetryVars

----------------------------------------------------------------------------
(* A record is stored, lost with a failed insert, counted as dropped or     *)
(* still on its way, and nothing is on its way when both tasks have ended   *)
(* (HotTelemetryTask::run, TelemetryTask::run).                             *)
NoRecordVanishes ==
  /\ emitted = channel["book"] + channel["candidate"] + hot_dropped
                 + sink + sink_dropped + batch + stored + lost
  /\ writer = "ended" => emitted = hot_dropped + sink_dropped + stored + lost
=============================================================================
