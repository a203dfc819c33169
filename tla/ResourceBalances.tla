--------------------------- MODULE ResourceBalances ---------------------------
(***************************************************************************)
(* The background monitor of gas and commission balances                    *)
(* (resource_balances.rs).  Every poll reads all sources; a source that     *)
(* answers is recorded in its history and reported with what it consumed in *)
(* the last window, a source that fails is reported as failed and leaves    *)
(* its history alone.  Polls may be arbitrarily late (missed ticks are      *)
(* skipped), so nothing ties the window to a number of observations.        *)
(***************************************************************************)
EXTENDS Integers, Sequences, SequencesExt, FiniteSetsExt

CONSTANTS Evm,        \* EVM sources: the ones in Trusted skip the chain check
          Trusted,
          Window,     \* CONSUMPTION_WINDOW_MS
          MaxTime,    \* bound on the clock
          MaxBalance  \* bound on a balance
Bnb == "bnb"
Resources == Evm \cup {Bnb}
Balances == 0 .. MaxBalance

VARIABLES now,        \* the clock
          histories,  \* ConsumptionTracker, per resource; <<>> before the first answer
          validated,  \* EvmGasBalanceSource::chain_validated
          reported,   \* the last telemetry event of each resource
          observed    \* history variable: every answer, <<time, balance>>
resVars == <<now, histories, validated, reported, observed>>

----------------------------------------------------------------------------
(* observe_evm_balance: the chain is checked until it has matched once.     *)
EvmAnswers(s, chainMatches, rpcAnswers) ==
  rpcAnswers /\ (s \in validated \/ chainMatches)
(* observe_binance_bnb: one retry, after the clock has been synchronised.   *)
BnbAnswers(first, clock, second) == first \/ (clock /\ second)
(* Amounts are whole units of the asset in the model.                       *)
BINANCE_BNB_DECIMALS == 0
Imprecise == -1
(* decimal_to_base_units, for a decimal given by mantissa and scale: a      *)
(* value that does not fit the asset's precision is an error.               *)
decimal_to_base_units(value, decimals) ==
  LET numerator == value.mantissa * 10^decimals
      denominator == 10^(value.scale)
  IN  IF value.mantissa < 0 \/ numerator % denominator # 0 THEN Imprecise
      ELSE numerator \div denominator

ResourceHistory(at, balance) == [started |-> at, previous |-> balance, decreases |-> <<>>]
(* Mutant: what fell exactly one window ago still counts. *)
ExpiredLate(d, cutoff) == d[1] < cutoff
Expired(d, cutoff) == d[1] <= cutoff
Cutoff(at) == Max({at - Window, 0})
Recorded(h, at, balance) ==
  IF h.previous > balance THEN Append(h.decreases, <<at, h.previous - balance>>)
  ELSE h.decreases
Keep(decreases, at) ==
  LET live == {i \in DOMAIN decreases : ~Expired(decreases[i], Cutoff(at))}
  IN  IF live = {} THEN <<>> ELSE SubSeq(decreases, Min(live), Len(decreases))
observe(h, at, balance) ==
  LET base == IF h = <<>> THEN ResourceHistory(at, balance) ELSE h IN
  [base EXCEPT !.previous = balance, !.decreases = Keep(Recorded(base, at, balance), at)]
Consumption(h, at) ==
  LET total == FoldSeq(LAMBDA d, sum : d[2] + sum, 0, h.decreases)
      window == Min({at - h.started, Window})
  IN  [outcome |-> "success", at |-> at, consumed |-> total, window |-> window,
       complete |-> at - h.started >= Window,
       average |-> IF window = 0 THEN 0 ELSE (total * Window) \div window]
NotYet == [outcome |-> "none", at |-> -1]
Failure(at) == [outcome |-> "failed", at |-> at]

----------------------------------------------------------------------------
(* poll_once: all sources are read together, then reported one by one.      *)
Observed(r, answer) ==
  IF answer.ok THEN observe(histories[r], now, answer.balance) ELSE histories[r]
emit(answers) ==
  /\ histories' = [r \in Resources |-> Observed(r, answers[r])]
  /\ reported' = [r \in Resources |-> IF answers[r].ok THEN Consumption(histories'[r], now)
                                      ELSE Failure(now)]
  /\ observed' = [r \in Resources |-> IF answers[r].ok
                                      THEN Append(observed[r], <<now, answers[r].balance>>)
                                      ELSE observed[r]]
poll_once ==
  /\ \A r \in Resources : reported[r].at < now
  /\ \E balance \in [Resources -> Balances], up \in [Evm -> BOOLEAN],
        matches \in [Evm \ validated -> BOOLEAN], bnb \in [{1, 2, 3} -> BOOLEAN],
        fraction \in {0, 5} :
       LET chainMatches(s) == s \in DOMAIN matches /\ matches[s]
           total == [mantissa |-> balance[Bnb] * 10 + fraction, scale |-> 1]
           units(r) == IF r = Bnb THEN decimal_to_base_units(total, BINANCE_BNB_DECIMALS)
                       ELSE balance[r]
           ok(r) == IF r = Bnb
                    THEN BnbAnswers(bnb[1], bnb[2], bnb[3]) /\ units(r) # Imprecise
                    ELSE EvmAnswers(r, chainMatches(r), up[r])
       IN  /\ emit([r \in Resources |-> [ok |-> ok(r), balance |-> units(r)]])
           /\ validated' = validated \cup {s \in Evm : chainMatches(s)}
  /\ UNCHANGED now
Tick == now < MaxTime /\ now' = now + 1 /\ UNCHANGED <<histories, validated, reported, observed>>

ResInit ==
  /\ now = 0
  /\ histories = [r \in Resources |-> <<>>] /\ validated = Trusted
  /\ reported = [r \in Resources |-> NotYet] /\ observed = [r \in Resources |-> <<>>]
ResNext == poll_once \/ Tick
ResSpec == ResInit /\ [][ResNext]_resVars

----------------------------------------------------------------------------
(* A report says what the resource lost in the last window: the sum of the  *)
(* decreases between consecutive answers that fall into it, refills left    *)
(* out, however late the polls are and whichever of them failed.            *)
Decreases(seq, at) ==
  {i \in 2 .. Len(seq) : seq[i][1] > at - Window /\ seq[i][2] < seq[i - 1][2]}
WindowExact ==
  \A r \in Resources : reported[r].outcome = "success" =>
    reported[r].consumed =
      MapThenSumSet(LAMBDA i : observed[r][i - 1][2] - observed[r][i][2],
                    Decreases(observed[r], reported[r].at))
=============================================================================
