----------------------------- MODULE OneShotOrder -----------------------------
(***************************************************************************)
(* What a child executor promises its caller about one order: it takes     *)
(* effect at most once, a positive answer states exactly what it executed, *)
(* a negative answer means that it did not and that this order never will  *)
(* unless the caller asks again after being told it was not submitted, and *)
(* anything else is "unknown".  BinanceOrders implements this module; the  *)
(* legs of TradeCoordinator rely on it.                                    *)
(***************************************************************************)
EXTENDS Naturals

CONSTANTS Orders, Quantities

VARIABLES
    effect,     \* order -> [kind, executed]: what happened at the venue
    answer      \* order -> [kind, executed]: the last answer given

vars == <<effect, answer>>

Effect(kind, executed) == [kind |-> kind, executed |-> executed]
Nothing == Effect("none", 0)
Live == Effect("live", 0)
Void == Effect("void", 0)
Unknown == Effect("unknown", 0)
Unsubmitted == Effect("unsubmitted", 0)
Done(x) == Effect("done", x)

Init ==
    /\ effect = [o \in Orders |-> Nothing]
    /\ answer = [o \in Orders |-> Nothing]

\* The caller asks for the order, or asks again.
Ask(o) ==
    /\ answer' = [answer EXCEPT ![o] = Nothing]
    /\ UNCHANGED effect

\* The order is sent to the venue, while the caller waits.
Begin(o) ==
    /\ effect[o] = Nothing /\ answer[o] = Nothing
    /\ effect' = [effect EXCEPT ![o] = Live]
    /\ UNCHANGED answer

\* The venue decides, whether or not anyone waits.
Decide(o) ==
    /\ effect[o] = Live
    /\ \E e \in {Void} \cup {Done(x) : x \in Quantities} :
          effect' = [effect EXCEPT ![o] = e]
    /\ UNCHANGED answer

\* The order is given up before it was sent, or found refused.
GiveUp(o) ==
    /\ effect[o] \in {Nothing, Void}
    /\ effect' = [effect EXCEPT ![o] = Void]
    /\ answer' \in {answer, [answer EXCEPT ![o] = Void]}

Reply(o) ==
    /\ \/ answer' = [answer EXCEPT ![o] = Unknown]
       \/ effect[o] = Nothing /\ answer' = [answer EXCEPT ![o] = Unsubmitted]
       \/ effect[o].kind = "done" /\ answer' = [answer EXCEPT ![o] = effect[o]]
    /\ UNCHANGED effect

Next == \E o \in Orders : Ask(o) \/ Begin(o) \/ Decide(o) \/ GiveUp(o) \/ Reply(o)

Spec == Init /\ [][Next]_vars
=============================================================================
