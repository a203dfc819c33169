---------------------------- MODULE PoolHydration ----------------------------
(***************************************************************************)
(* Start-up hydration of a pair's pools (dex/hydration.rs, hydrate_at) while *)
(* the chain goes on.  Every pool of every configured provider is read in    *)
(* several batches, each split into HTTP chunks; the pools come out          *)
(* hydrated, unavailable for a reason, or the whole hydration fails.         *)
(*                                                                           *)
(* A pool at a block is a record: the factory's answer (none, expected,      *)
(* other), whether its identity agrees with the configuration, whether all   *)
(* contracts have code, price, liquidity, the liquidity word of storage slot *)
(* 3, whether the fee configuration is valid, and its initialized ticks with *)
(* their gross liquidity.  A call names the field it reads; ABI coding and   *)
(* addresses are abstracted.  Retries inside one chunk are ReadLanes'; here  *)
(* a chunk is answered at some later moment or the read fails.  The          *)
(* timepoints of an adaptive fee are AdaptiveFee's.                          *)
(***************************************************************************)
EXTENDS Integers, Sequences, FiniteSets, SequencesExt, TLC

CONSTANTS
  MIN_TICK, MAX_TICK,  \* the tick domain
  Spacing,             \* tick spacing of every pool
  WordSize,            \* bits of a bitmap word, 256 in the contracts
  ChunkSize,           \* calls of one HTTP request, 5 in the code
  ALGEBRA_MULTICALL_CHUNK_SIZE,
  PoolStates,          \* what a pool can look like at a block
  Pairs,               \* sets of providers a pair may have configured
  MaxBlock             \* bound: blocks ever made

VARIABLES
  canon,   \* the canonical chain, a sequence of block ids
  state,   \* state[b]: the pools after block b
  pair,    \* the providers of the pair
  task     \* hydrate_at: its pinned block, where it is and what it has read
hydVars == <<canon, state, pair, task>>

Providers == <<"UniswapV3", "PancakeSwapV3", "CamelotV3",
               "LynexAlgebraV1_9", "UniswapV4">>
Algebra == {"CamelotV3", "LynexAlgebraV1_9"}
Tip == canon[Len(canon)]

----------------------------------------------------------------------------
(* The tick bitmap.  A word is the set of its bits.                         *)
Shift(t, p) == IF p \in Algebra THEN t ELSE t \div Spacing

\* Mutant: the last word is left out.
WordsShort(p) ==
  [i \in 1..(Shift(MAX_TICK, p) \div WordSize) - (Shift(MIN_TICK, p) \div WordSize)
     |-> (Shift(MIN_TICK, p) \div WordSize) + i - 1]

word_positions(p) ==
  LET min == Shift(MIN_TICK, p) \div WordSize
      max == Shift(MAX_TICK, p) \div WordSize
  IN  [i \in 1..(max - min + 1) |-> min + i - 1]

Bitmap(ticks, w, p) ==
  {Shift(t, p) % WordSize : t \in {u \in DOMAIN ticks : Shift(u, p) \div WordSize = w}}

(* initialized_ticks: the ticks of the bits read.                           *)
initialized_ticks(words, p) ==
  LET at(w, bit) == (w * WordSize + bit) * (IF p \in Algebra THEN 1 ELSE Spacing)
  IN  {t \in UNION {{at(w, bit) : bit \in words[w]} : w \in DOMAIN words} :
         p \in Algebra \/ t \in MIN_TICK..MAX_TICK}
AlgebraTicksValid(ts) ==
  \A t \in ts : t \in MIN_TICK..MAX_TICK /\ t % Spacing = 0

----------------------------------------------------------------------------
(* The batches a provider's pool takes.                                     *)
\* PancakeSwap's configuration names the address of each pool.
ExpectedAddress(p) == p = "PancakeSwapV3"
V3Stages(p) ==
  <<"discovery">> \o (IF ExpectedAddress(p) THEN <<"identity", "code">> ELSE <<>>)
    \o <<"head", "bitmap", "ticks">>
CamelotStages ==
  <<"timestamp", "identity", "code", "storage", "configs", "bitmap", "ticks">>
LynexStages ==
  <<"timestamp", "identity", "code", "storage", "configs", "bitmap", "ticks">>
V4Stages == <<"head", "bitmap", "ticks">>
stages(p) == CASE p = "CamelotV3" -> CamelotStages
               [] p = "LynexAlgebraV1_9" -> LynexStages
               [] p = "UniswapV4" -> V4Stages
               [] OTHER -> V3Stages(p)

(* The calls of a batch.  `ident` stands for everything that is compared    *)
(* with the configuration: tokens, fee or spacing, factory, deployer,       *)
(* incentive, cooldown and the router's and Quoter's own addresses.         *)
Field(f) == <<f, 0>>
V3Calls(stage) ==
  CASE stage = "discovery" -> <<Field("pool")>>
    [] stage = "identity" -> <<Field("ident")>>
    [] stage = "code" -> <<Field("code")>>
    [] OTHER -> <<Field("price"), Field("liq")>>
CamelotCalls(stage) ==
  CASE stage = "timestamp" -> <<Field("time")>>
    [] stage = "identity" ->
         <<Field("pool"), Field("ident"), Field("price"), Field("liq")>>
    [] stage = "code" -> <<Field("code")>>
    [] stage = "storage" -> <<Field("slot3")>>
    [] OTHER -> <<Field("fees")>>
LynexCalls(stage) ==
  IF stage = "identity"
  THEN <<Field("pool"), Field("ident"), Field("price"), Field("liq"),
         Field("periphery")>>
  ELSE CamelotCalls(stage)
V4Calls == <<Field("price"), Field("ident"), Field("liq")>>

Words(got) == [w \in {c[2] : c \in {d \in DOMAIN got : d[1] = "word"}} |->
                 got[<<"word", w>>]]
WordCalls(p) ==
  [i \in DOMAIN word_positions(p) |-> <<"word", word_positions(p)[i]>>]
TickCalls(p, got) ==
  LET ts == SetToSortSeq(initialized_ticks(Words(got), p), <)
  IN  [i \in DOMAIN ts |-> <<"tick", ts[i]>>]

Calls(p, stage, got) ==
  CASE stage = "bitmap" -> WordCalls(p)
    [] stage = "ticks" -> TickCalls(p, got)
    [] p = "CamelotV3" -> CamelotCalls(stage)
    [] p = "LynexAlgebraV1_9" -> LynexCalls(stage)
    [] p = "UniswapV4" -> V4Calls
    [] OTHER -> V3Calls(stage)

Answer(pool, call, p) ==
  CASE call[1] = "word" -> Bitmap(pool.ticks, call[2], p)
    [] call[1] = "tick" -> IF call[2] \in DOMAIN pool.ticks
                           THEN pool.ticks[call[2]] ELSE 0
    [] OTHER -> pool[call[1]]

(* The check after a batch: go on, leave the pool out, or fail.             *)
HeadVerdict(got) ==
  CASE got[Field("price")] = 0 -> "Uninitialized"
    [] got[Field("liq")] = 0 -> "ZeroLiquidity"
    [] OTHER -> "next"

V3Verdict(p, stage, got) ==
  CASE stage = "discovery" ->
         IF got[Field("pool")] = "none" THEN "NotCreated"
         ELSE IF ExpectedAddress(p) /\ got[Field("pool")] # "expected"
         THEN "error" ELSE "next"
    [] stage = "identity" -> IF got[Field("ident")] THEN "next" ELSE "error"
    [] stage = "code" -> IF got[Field("code")] THEN "next" ELSE "error"
    [] OTHER -> HeadVerdict(got)

CamelotVerdict(stage, got) ==
  CASE stage = "timestamp" -> "next"
    [] stage = "identity" ->
         IF got[Field("pool")] = "none" THEN "NotCreated"
         ELSE IF got[Field("pool")] = "expected" /\ got[Field("ident")]
         THEN "next" ELSE "error"
    [] stage = "code" -> IF got[Field("code")] THEN HeadVerdict(got) ELSE "error"
    [] stage = "storage" ->
         IF got[Field("slot3")] = got[Field("liq")] THEN "next" ELSE "error"
    [] OTHER -> IF got[Field("fees")] THEN "next" ELSE "error"

(* Lynex also compares the deployers its router and Quoter name.            *)
LynexVerdict(stage, got) ==
  IF /\ stage = "identity" /\ got[Field("pool")] # "none"
     /\ ~got[Field("periphery")]
  THEN "error" ELSE CamelotVerdict(stage, got)

V4Verdict(got) ==
  IF got[Field("price")] # 0 /\ ~got[Field("ident")] THEN "error"
  ELSE HeadVerdict(got)

\* install_ticks: a tick the bitmap names has gross liquidity.
TicksVerdict(got) ==
  IF \E c \in DOMAIN got : c[1] = "tick" /\ got[c] = 0 THEN "error" ELSE "done"

Verdict(p, stage, got) ==
  CASE stage = "bitmap" ->
         IF p \in Algebra => AlgebraTicksValid(initialized_ticks(Words(got), p))
         THEN "next" ELSE "error"
    [] stage = "ticks" -> TicksVerdict(got)
    [] p = "CamelotV3" -> CamelotVerdict(stage, got)
    [] p = "LynexAlgebraV1_9" -> LynexVerdict(stage, got)
    [] p = "UniswapV4" -> V4Verdict(got)
    [] OTHER -> V3Verdict(p, stage, got)

Hydrated(got) ==
  [price |-> got[Field("price")], liq |-> got[Field("liq")],
   ticks |-> [t \in {c[2] : c \in {d \in DOMAIN got : d[1] = "tick"}} |->
                got[<<"tick", t>>]]]

----------------------------------------------------------------------------
Targets == SelectSeq(Providers, LAMBDA p : p \in pair)
Provider == Targets[task.target]
Stage == stages(Provider)[task.stage]

ChunkOf(p, stage) ==
  IF p \in Algebra /\ stage \in {"bitmap", "ticks"}
  THEN ChunkSize * ALGEBRA_MULTICALL_CHUNK_SIZE ELSE ChunkSize

\* Mutant: a chunk is read at the latest block.
LatestBlock(b) == Tip

(* eip1898: every call names the hash of the pinned block.                  *)
pinned(b) == b

Rest(got) == SelectSeq(Calls(Provider, Stage, got), LAMBDA c : c \notin DOMAIN got)

(* One chunk of the current batch.  The provider refuses a block that is no *)
(* longer canonical (requireCanonical).                                     *)
ReadChunk ==
  LET rest == Rest(task.got)
      n == ChunkOf(Provider, Stage)
      chunk == SubSeq(rest, 1, IF Len(rest) < n THEN Len(rest) ELSE n)
      b == pinned(task.block)
      pool == state[b][Provider]
      read == {chunk[i] : i \in DOMAIN chunk}
  IN  /\ task.pc = "reading" /\ rest # <<>>
      /\ \E i \in DOMAIN canon : canon[i] = b
      /\ task' = [task EXCEPT
                    !.got = @ @@ [c \in read |-> Answer(pool, c, Provider)]]
      /\ UNCHANGED <<canon, state, pair>>

(* A chunk that is never answered, or names a block the chain left.         *)
ReadFails ==
  /\ task.pc = "reading" /\ Rest(task.got) # <<>>
  /\ task' = [task EXCEPT !.pc = "failed"]
  /\ UNCHANGED <<canon, state, pair>>

(* hydrate_at goes on to the next pool, or ends; a hydration without a      *)
(* quotable pool is an error.                                               *)
NextTarget(t) ==
  IF t.target < Len(Targets)
  THEN [t EXCEPT !.target = @ + 1, !.stage = 1, !.got = <<>>]
  ELSE [t EXCEPT !.pc = IF DOMAIN t.pools = {} THEN "failed" ELSE "done",
                 !.got = <<>>]

Conclude ==
  LET verdict == Verdict(Provider, Stage, task.got)
  IN  /\ task.pc = "reading" /\ Rest(task.got) = <<>>
      /\ task' =
           CASE verdict = "error" -> [task EXCEPT !.pc = "failed"]
             [] verdict = "next" -> [task EXCEPT !.stage = @ + 1]
             [] verdict = "done" ->
                  NextTarget([task EXCEPT !.pools = @ @@ (Provider :> Hydrated(task.got))])
             [] OTHER ->
                  NextTarget([task EXCEPT !.unavailable = @ @@ (Provider :> verdict)])
      /\ UNCHANGED <<canon, state, pair>>

(* hydrate: pin the latest block and begin with the first pool.             *)
Hydrate ==
  /\ task.pc = "idle"
  /\ task' = [task EXCEPT !.pc = "reading", !.block = Tip]
  /\ UNCHANGED <<canon, state, pair>>

(* The chain: a new block, on the tip or in its place.                      *)
MineBlock ==
  /\ Cardinality(DOMAIN state) < MaxBlock
  /\ task.pc \in {"idle", "reading"}
  /\ \E keep \in {Len(canon), Len(canon) - 1}, p \in pair, s \in PoolStates :
       LET b == Cardinality(DOMAIN state) + 1
           old == state[IF keep = 0 THEN Tip ELSE canon[keep]]
       IN  /\ canon' = SubSeq(canon, 1, keep) \o <<b>>
           /\ state' = state @@ (b :> [old EXCEPT ![p] = s])
  /\ UNCHANGED <<pair, task>>

HydInit ==
  /\ pair \in Pairs
  /\ canon = <<1>>
  /\ \E pools \in [pair -> PoolStates] : state = (1 :> pools)
  /\ task = [pc |-> "idle", block |-> 0, target |-> 1, stage |-> 1,
             got |-> <<>>, pools |-> <<>>, unavailable |-> <<>>]

HydNext == Hydrate \/ ReadChunk \/ ReadFails \/ Conclude \/ MineBlock
HydSpec == HydInit /\ [][HydNext]_hydVars

----------------------------------------------------------------------------
(* What the block says of a pool, without batches.                          *)
Genuine(pool, p) ==
  CASE p = "UniswapV3" -> TRUE
    [] p = "PancakeSwapV3" -> pool.pool = "expected" /\ pool.ident /\ pool.code
    [] p = "UniswapV4" -> pool.ident
    [] OTHER -> /\ pool.pool = "expected" /\ pool.ident /\ pool.code /\ pool.fees
                /\ pool.slot3 = pool.liq
                /\ p = "LynexAlgebraV1_9" => pool.periphery
TrueReason(pool, p) ==
  CASE p # "UniswapV4" /\ pool.pool = "none" -> "NotCreated"
    [] pool.price = 0 -> "Uninitialized"
    [] pool.liq = 0 -> "ZeroLiquidity"
    [] OTHER -> "none"

(* A hydration that succeeds is the pinned block: each configured pool is    *)
(* either hydrated with the price, the liquidity and every initialized tick  *)
(* that block has, and is the pool the configuration names, or is left out   *)
(* for the reason that holds at that block; whatever was mined or            *)
(* reorganised between its batches (hydrate_at, EIP-1898 reads).             *)
SnapshotOfOneBlock ==
  task.pc = "done" =>
    \A p \in pair :
      LET pool == state[task.block][p] IN
      IF p \in DOMAIN task.pools
      THEN /\ task.pools[p] = [price |-> pool.price, liq |-> pool.liq,
                               ticks |-> pool.ticks]
           /\ Genuine(pool, p) /\ TrueReason(pool, p) = "none"
      ELSE task.unavailable[p] = TrueReason(pool, p)
=============================================================================
