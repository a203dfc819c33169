-------------------------- MODULE OperatorRecovery --------------------------
(***************************************************************************)
(* The operator's repair of a parent trade that was closed as expired       *)
(* although its swap had filled (arbitrage_record_operator_recovery of      *)
(* main.rs).  The command proves what the venues did, adopts or places one  *)
(* MARKET order under a deterministic client id r1, r2, r3, and appends the *)
(* correction to the trade journal.  A run of it may stop anywhere and is   *)
(* repeated; a dry run only looks.                                          *)
(*                                                                          *)
(* The swap's receipt, the forecast and the absence of the primary order    *)
(* are preconditions: a run that misses one ends having changed nothing.    *)
(* BinanceOrders has the service that places the order in full; here it is  *)
(* the sequence of its journal records.  As there, a request that got lost  *)
(* reaches the exchange before the next query or never.                     *)
(***************************************************************************)
EXTENDS Integers, FiniteSetsExt

CONSTANTS
  MAX_RECOVERY_ATTEMPTS,
  Target,           \* token B the swap left open, in steps
  MaxRuns           \* bound: runs of the command

VARIABLES
  trade,            \* the parent: recorded, and the recovery its result claims
  journal,          \* attempt -> progress in the order journal
  exchange,         \* attempt -> the order at Binance
  cmd,              \* the running command: step, mode and attempt
  base_fee,         \* commission charged in token B
  runs

recoveryVars == <<trade, journal, exchange, cmd, base_fee, runs>>

Attempts == 1 .. MAX_RECOVERY_ATTEMPTS
Entry(st, executed) == [st |-> st, executed |-> executed]
Fresh == Entry("none", 0)
NoCommand == [step |-> "none", mode |-> "none", attempt |-> 0]
Unfinished == {"intent", "submitted", "unknown"}
Finished == {"terminal", "absent", "rejected"}   \* "absent" is Rejected -2013

(* An order under the first id may have been placed by hand: the venue has  *)
(* it, the journal does not.                                                *)
RecoveryInit ==
  /\ trade = [recorded |-> FALSE, attempt |-> 0, delta |-> 0]
  /\ journal = [a \in Attempts |-> Fresh]
  /\ \E x \in {Fresh, Entry("open", 0)} \cup {Entry("closed", e) : e \in 0 .. Target} :
       exchange = [a \in Attempts |-> IF a = 1 THEN x ELSE Fresh]
  /\ cmd = NoCommand
  /\ base_fee \in {0, 1}
  /\ runs = 0

Execute == cmd.mode = "execute"
At(step, a) == cmd' = [cmd EXCEPT !.step = step, !.attempt = a]
End == cmd' = NoCommand
advance(a, p) ==
  /\ journal[a].st \notin Finished
  /\ journal' = [journal EXCEPT ![a] = p]

----------------------------------------------------------------------------
(* The shape check: the parent is still the false terminal, nothing has     *)
(* been recorded for it.                                                    *)
arbitrage_record_operator_recovery ==
  /\ cmd = NoCommand /\ runs < MaxRuns
  /\ ~trade.recorded
  /\ runs' = runs + 1
  /\ \E mode \in {"dry_run", "execute"} :
       cmd' = [step |-> "resolving", mode |-> mode, attempt |-> 1]
  /\ UNCHANGED <<trade, journal, exchange, base_fee>>

(* query_operator_order: a conclusive answer about the attempt's order.     *)
Listed(a) == exchange[a].st \in {"open", "closed"}
Missing(a) == exchange[a].st \in {"none", "lost", "refused"}

NextAttempt(a) == IF a < MAX_RECOVERY_ATTEMPTS THEN At("resolving", a + 1) ELSE End

(* Not in the journal, found at the venue: only a terminal order is taken.  *)
AdoptUnjournaled(a) ==
  /\ Listed(a) /\ journal[a].st = "none"
  /\ IF ~Execute THEN UNCHANGED journal /\ At("found", a)
     ELSE IF exchange[a].st = "closed"
     THEN advance(a, Entry("terminal", exchange[a].executed)) /\ At("found", a)
     ELSE UNCHANGED journal /\ End
\* Mutant: an order that did not fill makes way for the next id.
RetryUnfilled(a) ==
  /\ Listed(a) /\ journal[a].st \in Unfinished
  /\ IF Execute THEN advance(a, Entry("terminal", exchange[a].executed))
     ELSE UNCHANGED journal
  /\ IF exchange[a].executed = Target THEN At("found", a) ELSE NextAttempt(a)
(* In the journal and found: a finished entry must agree with the venue, an *)
(* unfinished one becomes terminal with whatever the venue showed.          *)
AdoptJournaled(a) ==
  /\ Listed(a) /\ journal[a].st # "none"
  /\ IF journal[a].st \in {"absent", "rejected"} THEN UNCHANGED journal /\ End
     ELSE IF journal[a].st = "terminal"
     THEN /\ UNCHANGED journal
          /\ IF journal[a].executed = exchange[a].executed THEN At("found", a) ELSE End
     ELSE /\ IF Execute THEN advance(a, Entry("terminal", exchange[a].executed))
             ELSE UNCHANGED journal
          /\ At("found", a)
(* In the journal, absent at the venue: the next id is tried once this one  *)
(* is proven never to have existed.                                         *)
PassOver(a) ==
  /\ Missing(a) /\ journal[a].st # "none"
  /\ IF journal[a].st = "absent" THEN UNCHANGED journal /\ NextAttempt(a)
     ELSE IF journal[a].st \in {"intent", "unknown"}
     THEN /\ IF Execute THEN advance(a, Entry("absent", 0)) ELSE UNCHANGED journal
          /\ NextAttempt(a)
     ELSE UNCHANGED journal /\ End
(* Known to neither: the order may be placed, in a dry run it is not.       *)
Placeable(a) ==
  /\ Missing(a) /\ journal[a].st = "none"
  /\ IF Execute THEN At("placing", a) ELSE End
  /\ UNCHANGED journal

resolve_operator_recovery_order ==
  /\ cmd.step = "resolving"
  /\ LET a == cmd.attempt IN
       \/ AdoptUnjournaled(a) \/ AdoptJournaled(a) \/ PassOver(a) \/ Placeable(a)
  /\ UNCHANGED <<trade, exchange, base_fee, runs>>

----------------------------------------------------------------------------
(* The execution service, for the one request it is given.                  *)
record_intent ==
  /\ cmd.step = "placing"
  /\ advance(cmd.attempt, Entry("intent", 0))
  /\ At("sending", cmd.attempt)
  /\ UNCHANGED <<trade, exchange, base_fee, runs>>
Send ==
  /\ cmd.step = "sending"
  /\ exchange' = [exchange EXCEPT ![cmd.attempt] = Entry("inflight", 0)]
  /\ At("sent", cmd.attempt)
  /\ UNCHANGED <<trade, journal, base_fee, runs>>
Answered ==
  /\ cmd.step = "sent"
  /\ LET a == cmd.attempt  x == exchange[a] IN
       \/ /\ x.st = "closed" /\ advance(a, Entry("terminal", x.executed))
          /\ At("found", a)
       \/ /\ x.st = "open" /\ advance(a, Entry("submitted", x.executed))
          /\ At("confirming", a)
       \/ x.st = "refused" /\ advance(a, Entry("rejected", 0)) /\ End
       \/ advance(a, Entry("unknown", 0)) /\ At("querying", a)
  /\ UNCHANGED <<trade, exchange, base_fee, runs>>
Reconciled ==
  /\ cmd.step \in {"confirming", "querying"}
  /\ LET a == cmd.attempt  x == exchange[a] IN
       \/ /\ x.st = "closed" /\ advance(a, Entry("terminal", x.executed))
          /\ At("found", a)
       \/ /\ cmd.step = "querying" /\ Missing(a)
          /\ advance(a, Entry("absent", 0)) /\ End
       \/ advance(a, Entry("unknown", 0)) /\ End
  /\ UNCHANGED <<trade, exchange, base_fee, runs>>

----------------------------------------------------------------------------
(* The order must be FILLED and its delta, the commission taken off, must   *)
(* be the swap's with the other sign; then the correction is appended.      *)
\* Mutant: any executed quantity is taken for the recovery.
AnyFill(a) ==
  /\ trade' = [recorded |-> TRUE, attempt |-> a, delta |-> Target]
record_operator_recovery(a) ==
  LET delta == exchange[a].executed - base_fee IN
  /\ exchange[a].st = "closed" /\ exchange[a].executed = Target
  /\ delta = Target
  /\ trade' = [recorded |-> TRUE, attempt |-> a, delta |-> delta]
Record ==
  /\ cmd.step = "found" /\ Execute
  /\ record_operator_recovery(cmd.attempt) /\ End
  /\ UNCHANGED <<journal, exchange, base_fee, runs>>

(* The command ends without the correction: a dry run, a query without a    *)
(* conclusive answer, an order that is not the exact recovery, a crash.     *)
Stop ==
  /\ cmd # NoCommand /\ End
  /\ UNCHANGED <<trade, journal, exchange, base_fee, runs>>

(* Binance: the request is lost, refused or accepted; an open order fills.  *)
Match ==
  /\ \E a \in Attempts, x \in {"lost", "refused", "open", "closed"}, e \in 0 .. Target :
       /\ exchange[a].st \in {"inflight", "open"}
       /\ exchange[a].st = "open" => x = "closed"
       /\ x \in {"lost", "refused"} => e = 0
       /\ x = "open" => e < Target
       /\ e >= exchange[a].executed
       /\ exchange' = [exchange EXCEPT ![a] = Entry(x, e)]
  /\ UNCHANGED <<trade, journal, cmd, base_fee, runs>>

RecoveryNext ==
  \/ arbitrage_record_operator_recovery \/ resolve_operator_recovery_order
  \/ record_intent \/ Send \/ Answered \/ Reconciled \/ Record \/ Stop \/ Match
RecoverySpec == RecoveryInit /\ [][RecoveryNext]_recoveryVars

----------------------------------------------------------------------------
(* However often the command is stopped and repeated, all its orders        *)
(* together never trade more than the swap left open, and a correction in   *)
(* the trade journal names the one order that exists, filled, with token B  *)
(* back at zero (resolve_operator_recovery_order, record_operator_recovery).*)
RecoveredOnce ==
  /\ MapThenSumSet(LAMBDA a : exchange[a].executed, Attempts) <= Target
  /\ Cardinality({a \in Attempts : exchange[a].st \in {"inflight", "open", "closed"}}) <= 1
  /\ trade.recorded =>
       /\ exchange[trade.attempt] = Entry("closed", Target)
       /\ trade.delta = Target /\ base_fee = 0
=============================================================================
