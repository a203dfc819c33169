----------------------------- MODULE HedgedTrade -----------------------------
(***************************************************************************)
(* What a DEX-first trade promises about token B: one bounded exposure is  *)
(* opened by the DEX swap, everything after it only brings the exposure    *)
(* closer to zero and never past it, and once the trade is closed nothing  *)
(* moves any more.  TradeCoordinator implements this module.               *)
(***************************************************************************)
EXTENDS Integers

CONSTANTS Trades, Limit

VARIABLES
    phase,      \* trade -> "none", "open" or "closed"
    swapped,    \* trade -> the swap has taken effect
    exposure    \* trade -> token B held because of the trade

vars == <<phase, swapped, exposure>>

Init ==
    /\ phase = [t \in Trades |-> "none"]
    /\ swapped = [t \in Trades |-> FALSE]
    /\ exposure = [t \in Trades |-> 0]

Open(t) ==
    /\ phase[t] = "none"
    /\ phase' = [phase EXCEPT ![t] = "open"]
    /\ UNCHANGED <<swapped, exposure>>

Swap(t) ==
    /\ phase[t] = "open" /\ ~swapped[t]
    /\ swapped' = [swapped EXCEPT ![t] = TRUE]
    /\ \E e \in -Limit .. Limit : exposure' = [exposure EXCEPT ![t] = e]
    /\ UNCHANGED phase

\* Between the current exposure and zero.
Closer(e) == IF e >= 0 THEN 0 .. e ELSE e .. 0
Hedge(t) ==
    /\ phase[t] = "open" /\ swapped[t]
    /\ \E e \in Closer(exposure[t]) : exposure' = [exposure EXCEPT ![t] = e]
    /\ UNCHANGED <<phase, swapped>>

Close(t) ==
    /\ phase[t] = "open"
    /\ phase' = [phase EXCEPT ![t] = "closed"]
    /\ UNCHANGED <<swapped, exposure>>

Next == \E t \in Trades : Open(t) \/ Swap(t) \/ Hedge(t) \/ Close(t)

Spec == Init /\ [][Next]_vars
=============================================================================
