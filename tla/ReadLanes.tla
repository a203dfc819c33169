------------------------------ MODULE ReadLanes ------------------------------
(***************************************************************************)
(* Block-pinned reads of a network: a lane of the read coordinator           *)
(* (network_runtime.rs), the batched eth_call of the JSON-RPC client and its *)
(* single requests (chain/rpc.rs).  The lane is one of the five classes,     *)
(* which share nothing; its queue counter is an atomic that each caller      *)
(* raises, compares and lowers in separate steps.  Call i of a batch should  *)
(* answer i.  An HTTP exchange, with its own bounded retries on status 429,  *)
(* is one step: it fails, or brings responses in any order, of which some    *)
(* may be missing or errors.                                                 *)
(***************************************************************************)
EXTENDS Naturals, Sequences, FiniteSets, SequencesExt

CONSTANTS
  Batchers,   \* callers of NetworkReadCoordinator::eth_call_batch
  Direct,     \* callers of a single request, outside the lane
  max_concurrency, max_queued, chunk_size,  \* the lane's policy
  BatchLength,                   \* calls in a batch
  MAX_RATE_LIMIT_RETRIES, MAX_BLOCK_PROPAGATION_RETRIES

VARIABLES
  queued,   \* the lane's counter
  free,     \* permits of its semaphore
  line,     \* callers the semaphore makes wait, first come first served
  caller    \* where each caller is, its retry counters and its outputs
laneVars == <<queued, free, line, caller>>

Callers == Batchers \cup Direct
Ended == [pc |-> "idle", attempt |-> 0, propagation |-> 0, out |-> <<>>]
Set(c, r) == caller' = [caller EXCEPT ![c] = r]

----------------------------------------------------------------------------
(* acquire: raise the counter, and stand in line unless the queue is full.  *)
Enqueue(c) ==
  /\ caller[c].pc = "idle" /\ c \in Batchers
  /\ queued' = queued + 1
  /\ IF queued >= max_queued
     THEN Set(c, [Ended EXCEPT !.pc = "refused"]) /\ UNCHANGED line
     ELSE Set(c, [Ended EXCEPT !.pc = "waiting"]) /\ line' = Append(line, c)
  /\ UNCHANGED free

(* A refused caller takes its count back and returns an error.              *)
Refused(c) ==
  /\ caller[c].pc = "refused"
  /\ queued' = queued - 1 /\ Set(c, Ended)
  /\ UNCHANGED <<free, line>>

Granted(c) ==
  /\ line # <<>> /\ Head(line) = c /\ free > 0
  /\ free' = free - 1 /\ line' = Tail(line)
  /\ queued' = queued - 1
  /\ Set(c, [caller[c] EXCEPT !.pc = "sending"])

\* Mutant: the timeout returns before the count is taken back.
CountKept(c) ==
  /\ caller[c].pc = "waiting"
  /\ line' = SelectSeq(line, LAMBDA d : d # c)
  /\ Set(c, Ended)
  /\ UNCHANGED <<queued, free>>

(* The wait for a permit times out; QueuedRead's drop takes the count back. *)
QueueTimeout(c) ==
  /\ caller[c].pc = "waiting"
  /\ line' = SelectSeq(line, LAMBDA d : d # c)
  /\ queued' = queued - 1
  /\ Set(c, Ended)
  /\ UNCHANGED free

----------------------------------------------------------------------------
(* eth_call_batch_bounded.  The ids of a chunk are the numbers of its calls, *)
(* the same on every retry.                                                  *)
Chunk(r) == (Len(r.out) + 1)..(IF Len(r.out) + chunk_size < BatchLength
                               THEN Len(r.out) + chunk_size ELSE BatchLength)
Marks == {"ok", "429", "header not found", "error"}

(* What the provider may return for a chunk: responses to some of its ids,  *)
(* in any order.                                                            *)
Responses(ids) ==
  UNION {{[i \in DOMAIN order |-> [id |-> order[i], mark |-> m[order[i]]]] :
            order \in SetToSeqs(some), m \in [some -> Marks]} :
         some \in SUBSET ids}

Marked(resp, mark) == \E i \in DOMAIN resp : resp[i].mark = mark
Answered(resp, id) == \E i \in DOMAIN resp : resp[i] = [id |-> id, mark |-> "ok"]

\* Mutant: the outputs are taken in the order the responses came.
OutputsAsReceived(ids, resp) == [i \in DOMAIN resp |-> resp[i].id]

(* The loop over `ids`: one output for each, in the order of the calls.     *)
outputs(ids, resp) ==
  [i \in 1..Cardinality(ids) |-> (CHOOSE id \in ids : \A j \in ids : id <= j) + i - 1]

Fail(c) ==
  Set(c, Ended) /\ free' = (IF c \in Batchers THEN free + 1 ELSE free)

\* Mutant: waiting for the block starts the retries afresh.
RetriesAfresh(r) == [r EXCEPT !.propagation = 0, !.attempt = 0]

(* The counter of the retries that wait for a block to reach the node.      *)
Propagating(r) == [r EXCEPT !.propagation = @ + 1]

(* The decision after a response: wait out a rate limit, wait for the block, *)
(* or take every output of the chunk.                                        *)
Decode(c, resp) ==
  LET r == caller[c] IN
  IF Marked(resp, "429") /\ r.attempt < MAX_RATE_LIMIT_RETRIES
  THEN Set(c, [r EXCEPT !.attempt = @ + 1]) /\ UNCHANGED free
  ELSE IF /\ Marked(resp, "header not found")
          /\ r.propagation < MAX_BLOCK_PROPAGATION_RETRIES
  THEN Set(c, Propagating(r)) /\ UNCHANGED free
  ELSE IF \E id \in Chunk(r) : ~Answered(resp, id)
  THEN Fail(c)
  ELSE LET out == r.out \o outputs(Chunk(r), resp) IN
       IF Len(out) < BatchLength
       THEN Set(c, [Ended EXCEPT !.pc = "sending", !.out = out]) /\ UNCHANGED free
       ELSE Set(c, [Ended EXCEPT !.pc = "published", !.out = out]) /\ free' = free + 1

Exchange(c) ==
  /\ caller[c].pc = "sending" /\ c \in Batchers
  /\ \E resp \in Responses(Chunk(caller[c])) : Decode(c, resp)
  /\ UNCHANGED <<queued, line>>

(* send_json failed: transport, status or body.  A batch tries again.       *)
ExchangeFails(c) ==
  /\ caller[c].pc = "sending" /\ c \in Batchers
  /\ IF caller[c].attempt < MAX_RATE_LIMIT_RETRIES
     THEN Set(c, [caller[c] EXCEPT !.attempt = @ + 1]) /\ UNCHANGED free
     ELSE Fail(c)
  /\ UNCHANGED <<queued, line>>

(* Not an array, or the same id twice: no retry.                            *)
Malformed(c) ==
  /\ caller[c].pc = "sending" /\ Fail(c)
  /\ UNCHANGED <<queued, line>>

(* The caller has used the batch and may read again.                        *)
Consume(c) ==
  /\ caller[c].pc = "published" /\ Set(c, Ended)
  /\ UNCHANGED <<queued, free, line>>

----------------------------------------------------------------------------
(* rpc_response: one request, retried only on an error of code 429.         *)
Request(c) ==
  /\ c \in Direct /\ caller[c].pc = "idle"
  /\ Set(c, [Ended EXCEPT !.pc = "sending"])
  /\ UNCHANGED <<queued, free, line>>

RequestAnswered(c, mark) ==
  /\ c \in Direct /\ caller[c].pc = "sending"
  /\ Set(c, IF mark = "429" /\ caller[c].attempt < MAX_RATE_LIMIT_RETRIES
            THEN [caller[c] EXCEPT !.attempt = @ + 1]
            ELSE IF mark = "ok" THEN [Ended EXCEPT !.pc = "published"] ELSE Ended)
  /\ UNCHANGED <<queued, free, line>>

----------------------------------------------------------------------------
LaneInit ==
  /\ queued = 0 /\ free = max_concurrency /\ line = <<>>
  /\ caller = [c \in Callers |-> Ended]

Step(c) ==
  \/ Refused(c) \/ Granted(c) \/ Exchange(c) \/ ExchangeFails(c)
  \/ Consume(c)
  \/ \E mark \in Marks : RequestAnswered(c, mark)

LaneNext == \E c \in Callers :
  Enqueue(c) \/ QueueTimeout(c) \/ Step(c) \/ Malformed(c) \/ Request(c)

(* A caller that is not waiting on the semaphore goes on, a free permit goes *)
(* to the first in line, and the timeout of a wait fires.                    *)
LaneFairness == \A c \in Callers : WF_laneVars(Step(c)) /\ WF_laneVars(QueueTimeout(c))
LaneSpec == LaneInit /\ [][LaneNext]_laneVars /\ LaneFairness

----------------------------------------------------------------------------
(* A published batch has one output for each call, in the order of the calls *)
(* and from one block, however the provider ordered, dropped or failed its   *)
(* responses and however often chunks were sent again                        *)
(* (eth_call_batch_bounded, require_complete).                               *)
BatchIsExact ==
  \A c \in Batchers : caller[c].pc = "published" =>
    caller[c].out = [i \in 1..BatchLength |-> i]

(* The lane's books balance in every interleaving: each permit is free or    *)
(* held by one sender, and the counter is the number of callers between its  *)
(* raise and its drop, so that no refusal, timeout or failed read ever       *)
(* narrows the lane (acquire, QueuedRead, NetworkReadPermit).                *)
LaneAccounted ==
  /\ free + Cardinality({c \in Batchers : caller[c].pc = "sending"}) = max_concurrency
  /\ queued = Cardinality({c \in Batchers : caller[c].pc \in {"waiting", "refused"}})
  /\ Len(line) <= max_queued

(* Every read that began ends: the retry loops are bounded, also when rate   *)
(* limits, missing blocks and transport errors alternate.                    *)
ReadEnds ==
  \A c \in Callers : caller[c].pc # "idle" ~> caller[c].pc = "idle"
=============================================================================
