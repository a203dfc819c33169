---------------------------- MODULE OpportunityProofs ----------------------------
(***************************************************************************)
(* An opportunity on its way to an entry: the mailbox it waits in, for any  *)
(* strategies, plans, handles and leftovers of a restart, and the last      *)
(* check before it is entered, for any market.                              *)
(***************************************************************************)
EXTENDS OpportunityMailbox, EntryPreflight, TLAPS

\* The plans of the mailbox, and those reported.
Pending == {pending_by_strategy[s] : s \in Strategies} \ {NoPlan}
Reported == {events[i].plan : i \in 1 .. Len(events)}
Claimed(p) == reservation[p] = "held" /\ p \notin DOMAIN Leftovers

\* The mailbox's queue and its map agree.
QueueOK ==
    /\ \A i \in 1 .. Len(round_robin) : pending_by_strategy[round_robin[i]] # NoPlan
    /\ \A i, j \in 1 .. Len(round_robin) : round_robin[i] = round_robin[j] => i = j
    /\ \A s \in Strategies : pending_by_strategy[s] # NoPlan =>
          pending_by_strategy[s][1] = s /\ Claimed(pending_by_strategy[s])

\* The task executes a plan that is neither pending nor reported.
CurrentOK ==
    /\ task = "executing" <=> current # NoPlan
    /\ current # NoPlan => Claimed(current) /\ current \notin Pending

\* A plan is reported once, after it was taken or resumed.
EventsOK ==
    /\ \A i, j \in 1 .. Len(events) : events[i].plan = events[j].plan => i = j
    /\ \A i \in 1 .. Len(events) :
          /\ events[i].plan \in DOMAIN Leftovers \/ Claimed(events[i].plan)
          /\ events[i].plan \notin Pending \cup resume /\ events[i].plan # current
          /\ events[i].state = "BlockedUnknown" => events[i].plan \in unresolved

\* A held reservation belongs to a plan someone still decides about.
HeldOK ==
    receiver_open => \A p \in Plans : reservation[p] = "held" =>
        p \in Pending \cup Reported \cup unresolved \cup {current}

MailInv == TypeOK /\ QueueOK /\ CurrentOK /\ EventsOK /\ HeldOK

\* The lane is busy from the moment a plan is taken, or was left executing, until
\* its event was handled.
LaneOK ==
    /\ Len(events) <= 1
    /\ events # <<>> => lane = "busy" /\ task # "executing" /\ resume = {}
    /\ task = "executing" => lane = "busy" /\ resume = {}
    /\ resume # {} => lane = "busy" /\ task \in {"resuming", "stopped"}
    /\ \A p, q \in resume : p = q

-----------------------------------------------------------------------------
(* Types *)

EventSet == [plan : Plans, state : EventStates]

\* A notification changes the flags of the waiting task only.
LEMMA NotifyType ==
    ASSUME permit \in BOOLEAN, woken \in BOOLEAN, NotifyOne \/ NotifyWaiters
    PROVE  permit' \in BOOLEAN /\ woken' \in BOOLEAN
BY Zenon DEF NotifyOne, NotifyWaiters

\* Nothing is pending and nothing is held when the process starts.
LEMMA InitMail == ASSUME MailboxAssumption, Init PROVE MailInv
<1>1. TypeOK
  <2>1. /\ round_robin \in Seq(Strategies) /\ events \in Seq([plan : Plans, state : EventStates])
        /\ senders \in 0 .. MaxHandles
    BY DEF Init, MailboxAssumption
  <2>2. unresolved \subseteq Plans /\ lane \in {"available", "busy"} /\ task \in TaskStates
    BY Zenon DEF Init, MailboxAssumption, InitialLane, TaskStates
  <2> QED BY <2>1, <2>2, Zenon DEF Init, TypeOK
<1>2. QueueOK /\ CurrentOK /\ EventsOK /\ HeldOK
  <2>1. Len(<<>>) = 0
    BY Zenon
  <2>2. /\ Len(round_robin) = 0 /\ Len(events) = 0 /\ current = NoPlan /\ task = "resuming"
        /\ \A s \in Strategies : pending_by_strategy[s] = NoPlan
        /\ \A p \in Plans : reservation[p] = "none"
    BY <2>1, Zenon DEF Init
  <2> QED BY <2>2 DEF QueueOK, CurrentOK, EventsOK, HeldOK
<1> QED
  BY <1>1, <1>2, Zenon DEF MailInv

\* A plan is not the absence of one, and an event is a plan and its state.
LEMMA PlanFacts ==
    ASSUME MailboxAssumption
    PROVE  /\ NoPlan \notin Plans
           /\ \A p \in Plans : p[1] \in Strategies
           /\ \A p, s : Event(p, s).plan = p /\ Event(p, s).state = s
           /\ \A p \in Plans, s \in EventStates : Event(p, s) \in EventSet
BY ZenonT(30) DEF MailboxAssumption, Plans, NoPlan, Event, EventSet

\* Every step keeps the types.
LEMMA NextType == ASSUME MailboxAssumption, TypeOK, QueueOK, CurrentOK, [Next]_vars PROVE TypeOK'
<1> USE DEF TypeOK, mailbox, notify, engine
<1>e. events \in Seq(EventSet)
  BY Zenon DEF EventSet
<1>p. /\ permit \in BOOLEAN /\ woken \in BOOLEAN
      /\ NotifyOne \/ NotifyWaiters => permit' \in BOOLEAN /\ woken' \in BOOLEAN
  BY NotifyType, Zenon
<1>s. /\ "resuming" \in TaskStates /\ "top" \in TaskStates /\ "checking" \in TaskStates
      /\ "parking" \in TaskStates /\ "waiting" \in TaskStates /\ "executing" \in TaskStates
      /\ "stopped" \in TaskStates /\ "Balanced" \in EventStates /\ "BlockedUnknown" \in EventStates
  BY Zenon DEF TaskStates, EventStates
<1>1. ASSUME NEW p \in Plans, TrySubmit(p) PROVE TypeOK'
  <2>1. permit' \in BOOLEAN /\ woken' \in BOOLEAN
    BY <1>1, <1>p, Zenon DEF TrySubmit
  <2>2. round_robin' \in Seq(Strategies)
    BY <1>1, PlanFacts DEF TrySubmit
  <2>3. pending_by_strategy' \in [Strategies -> Plans \cup {NoPlan}]
    BY <1>1, Zenon DEF TrySubmit
  <2>4. reservation' \in [Plans -> {"none", "held", "pending_settlement"}]
    BY <1>1, Zenon DEF TrySubmit
  <2> QED
    BY <1>1, <2>1, <2>2, <2>3, <2>4 DEF TrySubmit
<1>2. ASSUME NEW p \in Plans, BalancesObserved(p) PROVE TypeOK'
  BY <1>2, Zenon DEF BalancesObserved
<1>3. ASSUME NEW p \in Plans, ResumePlan(p) PROVE TypeOK'
  <2>1. PICK s \in {"Balanced", "BlockedUnknown"} :
            events' = Append(events, Event(p, s)) /\ unresolved' = Quarantine(p, s)
    BY <1>3, Zenon DEF ResumePlan
  <2>2. events' \in Seq([plan : Plans, state : EventStates])
    <3>1. Event(p, s) \in EventSet
      BY <1>s, <2>1, PlanFacts, Zenon
    <3>2. events' \in Seq(EventSet)
      BY <1>e, <2>1, <3>1
    <3> QED BY <3>2, Zenon DEF EventSet
  <2>3. unresolved' \subseteq Plans
    BY <1>3, <2>1, Zenon DEF Quarantine
  <2> QED
    BY <1>3, <2>2, <2>3, Zenon DEF ResumePlan
<1>4. CASE OnPaperTradeEvent
  <2>1. permit' \in BOOLEAN /\ woken' \in BOOLEAN
    BY <1>4, <1>p, Zenon DEF OnPaperTradeEvent
  <2>2. events' \in Seq([plan : Plans, state : EventStates])
    <3>1. events' \in Seq(EventSet)
      BY <1>4, <1>e DEF OnPaperTradeEvent
    <3> QED BY <3>1, Zenon DEF EventSet
  <2>3. reservation' \in [Plans -> {"none", "held", "pending_settlement"}]
    <3>1. Head(events) \in EventSet
      BY <1>4, <1>e DEF OnPaperTradeEvent
    <3>2. Head(events).plan \in Plans /\ Head(events).state \in EventStates
      BY <3>1, Zenon DEF EventSet
    <3>3. reservation' = Settled(Head(events))
      BY <1>4, Zenon DEF OnPaperTradeEvent
    <3> QED BY <3>2, <3>3, Zenon DEF Settled, EventStates
  <2> QED
    BY <1>4, <2>1, <2>2, <2>3 DEF OnPaperTradeEvent
<1>5. CASE CloneHandle
  BY <1>5 DEF CloneHandle, MailboxAssumption
<1>6. CASE DropHandle
  <2>1. permit' \in BOOLEAN /\ woken' \in BOOLEAN
    BY <1>6, <1>p, Zenon DEF DropHandle
  <2>2. senders' \in 0 .. MaxHandles
    BY <1>6 DEF DropHandle, MailboxAssumption
  <2> QED BY <1>6, <2>1, <2>2, Zenon DEF DropHandle
<1>7. CASE ResumeFails \/ RecvEnds
  <2>1. CloseReceiver /\ UNCHANGED <<lane, senders, notify, current, resume, engine, unresolved>>
    BY <1>7, Zenon DEF ResumeFails, RecvEnds
  <2>2. /\ pending_by_strategy' \in [Strategies -> Plans \cup {NoPlan}] /\ round_robin' \in Seq(Strategies)
        /\ receiver_open' = FALSE /\ task' = "stopped"
    BY <2>1 DEF CloseReceiver
  <2> QED BY <1>s, <2>1, <2>2, Zenon
<1>8. CASE ResumeDone \/ RecvPark \/ RecvAwait \/ Tick
  BY <1>8, <1>s, Zenon DEF ResumeDone, RecvPark, RecvAwait, Tick
<1>9. CASE RecvListen
  BY <1>9, <1>s, Zenon DEF RecvListen
<1>10. CASE RecvTake
  <2>1. Head(round_robin) \in Strategies /\ Tail(round_robin) \in Seq(Strategies)
    BY <1>10 DEF RecvTake
  <2> QED BY <1>10, <1>s, <2>1, Zenon DEF RecvTake
<1>11. CASE RecvWake
  <2>1. permit' \in BOOLEAN
    BY <1>11, <1>p, Zenon DEF RecvWake
  <2> QED BY <1>11, <1>s, <2>1, Zenon DEF RecvWake
<1>12. CASE FinishPlan
  <2>0. current \in Plans
    BY <1>12, Zenon DEF FinishPlan, CurrentOK
  <2>1. PICK s \in EventStates :
            events' = Append(events, Event(current, s)) /\ unresolved' = Quarantine(current, s)
    BY <1>12, Zenon DEF FinishPlan
  <2>2. events' \in Seq([plan : Plans, state : EventStates])
    <3>1. Event(current, s) \in EventSet
      BY <1>s, <2>0, <2>1, PlanFacts, Zenon
    <3>2. events' \in Seq(EventSet)
      BY <1>e, <2>1, <3>1
    <3> QED BY <3>2, Zenon DEF EventSet
  <2>3. unresolved' \subseteq Plans
    BY <2>0, <2>1, Zenon DEF Quarantine, EventStates
  <2> QED
    BY <1>12, <1>s, <2>2, <2>3, Zenon DEF FinishPlan
<1>13. CASE UNCHANGED vars
  BY <1>13, Zenon DEF vars
<1> QED
  BY <1>1, <1>2, <1>3, <1>4, <1>5, <1>6, <1>7, <1>8, <1>9, <1>10, <1>11, <1>12, <1>13, Zenon DEF Next, Recv

-----------------------------------------------------------------------------
(* Steps *)

\* What is pending belongs to its strategy and is claimed.
LEMMA PendingFacts ==
    ASSUME TypeOK, QueueOK
    PROVE  /\ \A p \in Pending : /\ p \in Plans /\ p # NoPlan /\ Claimed(p)
                                 /\ p[1] \in Strategies /\ pending_by_strategy[p[1]] = p
           /\ \A s \in Strategies : pending_by_strategy[s] # NoPlan =>
                 pending_by_strategy[s] \in Pending
BY DEF TypeOK, QueueOK, Pending

\* An event is of a plan.
LEMMA EventFacts ==
    ASSUME TypeOK
    PROVE  /\ events \in Seq(EventSet) /\ Len(events) \in Nat
           /\ \A i \in 1 .. Len(events) :
                 /\ events[i] \in EventSet /\ events[i].plan \in Plans
                 /\ events[i].state \in EventStates
<1>1. events \in Seq(EventSet)
  BY Zenon DEF TypeOK, EventSet
<1>2. \A i \in 1 .. Len(events) : events[i] \in EventSet
  BY <1>1
<1> QED
  BY <1>1, <1>2 DEF EventSet

\* A step that neither moves a plan nor changes a reservation.
LEMMA QuietStep ==
    ASSUME MailInv, TypeOK',
           UNCHANGED <<pending_by_strategy, round_robin, current, resume, events, reservation,
                       unresolved, receiver_open>>,
           task # "executing", task' # "executing"
    PROVE  MailInv'
BY DEF MailInv, QueueOK, CurrentOK, EventsOK, HeldOK, Pending, Reported, Claimed

\* The engine reserves a plan and submits it in place of the strategy's last.
LEMMA SubmitStep ==
    ASSUME MailboxAssumption, MailInv, TypeOK', NEW p \in Plans, TrySubmit(p)
    PROVE  MailInv'
<1> DEFINE s == p[1]
           previous == pending_by_strategy[s]
<1>i. TypeOK /\ QueueOK /\ CurrentOK /\ EventsOK /\ HeldOK
  BY Zenon DEF MailInv
<1>s. s \in Strategies /\ p # NoPlan
  BY PlanFacts, Zenon
<1>1. /\ reservation[p] = "none" /\ p \notin DOMAIN Leftovers
      /\ pending_by_strategy' = [pending_by_strategy EXCEPT ![s] = p]
      /\ round_robin' = IF previous = NoPlan THEN Append(round_robin, s) ELSE round_robin
      /\ reservation' = [q \in Plans |->
            IF q = p THEN "held" ELSE IF q = previous THEN "none" ELSE reservation[q]]
      /\ UNCHANGED <<task, current, resume, events, unresolved, receiver_open>>
  BY Zenon DEF TrySubmit
<1>2. p \notin Pending \cup Reported \cup {current}
  BY <1>i, <1>1, <1>s, PendingFacts DEF CurrentOK, EventsOK, Claimed, Reported
<1>3. Pending' = (Pending \ {previous}) \cup {p}
  <2>1. \A t \in Strategies : pending_by_strategy'[t] = IF t = s THEN p ELSE pending_by_strategy[t]
    BY <1>i, <1>1, Zenon DEF TypeOK
  <2>2. \A t \in Strategies : t # s /\ pending_by_strategy[t] # NoPlan => pending_by_strategy[t] # previous
    BY <1>i, <1>s, Zenon DEF QueueOK
  <2> HIDE DEF previous, s
  <2>3. Pending' \subseteq (Pending \ {previous}) \cup {p}
    BY <2>1, <2>2, Zenon DEF Pending
  <2>4. (Pending \ {previous}) \cup {p} \subseteq Pending'
    <3>1. p \in Pending'
      BY <1>s, <2>1, Zenon DEF Pending
    <3>2. ASSUME NEW t \in Strategies, pending_by_strategy[t] \notin {NoPlan, previous}
          PROVE  pending_by_strategy[t] \in Pending'
      <4>1. t # s
        BY <3>2, Zenon DEF previous
      <4> QED BY <2>1, <3>2, <4>1, Zenon DEF Pending
    <3> QED BY <3>1, <3>2, Zenon DEF Pending
  <2> QED BY <2>3, <2>4, Zenon
<1>4. \A q \in Plans : q # p /\ q # previous => (Claimed(q)' <=> Claimed(q))
  BY <1>1, Zenon DEF Claimed
<1>5. Claimed(p)'
  BY <1>1, Zenon DEF Claimed
<1>6. previous # NoPlan => previous \in Pending
  BY <1>i, <1>s, PendingFacts, Zenon
<1>7. previous \notin Reported \cup {current} \/ previous = NoPlan
  BY <1>i, <1>6, Zenon DEF CurrentOK, EventsOK, Reported
<1>8. QueueOK'
  <2>1. ASSUME NEW t \in Strategies, pending_by_strategy'[t] # NoPlan
        PROVE  /\ pending_by_strategy'[t][1] = t
               /\ reservation'[pending_by_strategy'[t]] = "held"
               /\ pending_by_strategy'[t] \notin DOMAIN Leftovers
    <3>1. CASE t = s
      <4>1. pending_by_strategy'[t] = p
        BY <1>i, <1>1, <1>s, <3>1, Zenon DEF TypeOK
      <4> QED BY <1>1, <3>1, <4>1, Zenon
    <3>2. CASE t # s
      <4>1. pending_by_strategy'[t] = pending_by_strategy[t]
        BY <1>i, <1>1, <1>s, <3>2 DEF TypeOK
      <4>2. /\ pending_by_strategy[t] \in Plans /\ pending_by_strategy[t] # p
            /\ pending_by_strategy[t][1] = t /\ Claimed(pending_by_strategy[t])
        BY <1>i, <1>1, <2>1, <4>1 DEF QueueOK, TypeOK, Claimed
      <4>3. pending_by_strategy[t] # previous
        BY <1>i, <1>s, <2>1, <3>2, <4>1, <4>2, Zenon DEF QueueOK
      <4>4. reservation'[pending_by_strategy[t]] = reservation[pending_by_strategy[t]]
        BY <1>1, <4>2, <4>3, Zenon
      <4> QED BY <4>1, <4>2, <4>4, Zenon DEF Claimed
    <3> QED BY <3>1, <3>2, Zenon
  <2>2. \A t \in Strategies : pending_by_strategy[t] # NoPlan => pending_by_strategy'[t] # NoPlan
    BY <1>i, <1>1, <1>s, Zenon DEF TypeOK
  <2>3. pending_by_strategy'[s] # NoPlan
    BY <1>i, <1>1, <1>s, Zenon DEF TypeOK
  <2>4. CASE previous # NoPlan
    <3>1. round_robin' = round_robin /\ \A i \in 1 .. Len(round_robin) : round_robin[i] \in Strategies
      BY <1>i, <1>1, <2>4 DEF TypeOK
    <3>2. \A i \in 1 .. Len(round_robin') : pending_by_strategy'[round_robin'[i]] # NoPlan
      BY <1>i, <2>2, <3>1, Zenon DEF QueueOK
    <3>3. \A i, j \in 1 .. Len(round_robin') : round_robin'[i] = round_robin'[j] => i = j
      BY <1>i, <3>1 DEF QueueOK
    <3> QED BY <2>1, <3>2, <3>3, Zenon DEF QueueOK, Claimed
  <2>5. CASE previous = NoPlan
    <3>1. /\ Len(round_robin') = Len(round_robin) + 1 /\ round_robin'[Len(round_robin) + 1] = s
          /\ \A i \in 1 .. Len(round_robin) : round_robin'[i] = round_robin[i]
          /\ Len(round_robin) \in Nat /\ \A i \in 1 .. Len(round_robin) : round_robin[i] \in Strategies
      BY <1>i, <1>1, <1>s, <2>5 DEF TypeOK
    <3>2. \A i \in 1 .. Len(round_robin) : round_robin[i] # s
      BY <1>i, <2>5, Zenon DEF QueueOK
    <3>3. \A i \in 1 .. Len(round_robin') : pending_by_strategy'[round_robin'[i]] # NoPlan
      BY <1>i, <2>2, <2>3, <3>1 DEF QueueOK
    <3>4. \A i, j \in 1 .. Len(round_robin') : round_robin'[i] = round_robin'[j] => i = j
      BY <1>i, <3>1, <3>2, SMTT(30) DEF QueueOK
    <3> QED BY <2>1, <3>3, <3>4, Zenon DEF QueueOK, Claimed
  <2> QED BY <2>4, <2>5, Zenon
<1> HIDE DEF s, previous
<1>9. CurrentOK'
  BY <1>i, <1>1, <1>2, <1>3, <1>4, <1>7, PlanFacts, Zenon DEF CurrentOK, TypeOK
<1>10. EventsOK'
  <2>0. events' = events /\ resume' = resume /\ current' = current /\ unresolved' = unresolved
    BY <1>1, Zenon
  <2>1. ASSUME NEW i \in 1 .. Len(events)
        PROVE  /\ events[i].plan \in DOMAIN Leftovers \/ reservation'[events[i].plan] = "held"
               /\ events[i].plan \notin Pending'
    <3>1. events[i].plan \in Reported /\ events[i].plan \in Plans
      BY <1>i, EventFacts, Zenon DEF Reported
    <3>2. events[i].plan \in DOMAIN Leftovers \/ reservation[events[i].plan] = "held"
      BY <1>i, Zenon DEF EventsOK, Claimed
    <3>3. events[i].plan # p /\ events[i].plan # previous
      BY <1>2, <1>7, <3>1, PlanFacts
    <3>4. reservation'[events[i].plan] = reservation[events[i].plan]
      BY <1>1, <3>1, <3>3, Zenon
    <3>5. events[i].plan \notin Pending
      BY <1>i, Zenon DEF EventsOK
    <3> QED BY <1>3, <3>2, <3>3, <3>4, <3>5
  <2> QED BY <1>i, <2>0, <2>1 DEF EventsOK, Claimed
<1>11. HeldOK'
  <2>1. Reported' = Reported
    BY <1>1, Zenon DEF Reported
  <2> QED BY <1>i, <1>1, <1>3, <2>1 DEF HeldOK
<1> QED
  BY <1>8, <1>9, <1>10, <1>11, Zenon DEF MailInv

\* The last receiver goes: what was pending is forgotten.
LEMMA CloseStep ==
    ASSUME MailboxAssumption, MailInv, TypeOK', CloseReceiver, task # "executing",
           UNCHANGED <<current, resume, events, reservation, unresolved>>
    PROVE  MailInv'
<1>i. TypeOK /\ QueueOK /\ CurrentOK /\ EventsOK /\ HeldOK
  BY Zenon DEF MailInv
<1>1. /\ Len(round_robin') = 0 /\ Pending' = {} /\ \A s \in Strategies : pending_by_strategy'[s] = NoPlan
      /\ receiver_open' = FALSE /\ task' = "stopped"
  <2>1. Len(<<>>) = 0
    BY Zenon
  <2> QED BY <2>1, Zenon DEF CloseReceiver, Pending
<1>2. QueueOK' /\ HeldOK'
  BY <1>1 DEF QueueOK, HeldOK
<1>3. CurrentOK'
  BY <1>i, <1>1, Zenon DEF CurrentOK
<1>4. EventsOK'
  BY <1>i, <1>1 DEF EventsOK, Claimed
<1> QED
  BY <1>2, <1>3, <1>4, Zenon DEF MailInv

\* recv takes the plan of the first strategy in line.
LEMMA TakeStep ==
    ASSUME MailboxAssumption, MailInv, TypeOK', RecvTake
    PROVE  MailInv'
<1> DEFINE h == Head(round_robin)
           c == pending_by_strategy[h]
<1>i. TypeOK /\ QueueOK /\ CurrentOK /\ EventsOK /\ HeldOK
  BY Zenon DEF MailInv
<1>1. /\ round_robin \in Seq(Strategies) /\ round_robin # <<>> /\ task = "checking"
      /\ current' = c /\ pending_by_strategy' = [pending_by_strategy EXCEPT ![h] = NoPlan]
      /\ round_robin' = Tail(round_robin) /\ task' = "executing"
      /\ UNCHANGED <<resume, events, reservation, unresolved, receiver_open>>
  BY <1>i, Zenon DEF RecvTake, TypeOK, engine
<1>2. h = round_robin[1] /\ h \in Strategies /\ 1 \in 1 .. Len(round_robin)
  BY <1>1
<1>3. c # NoPlan /\ c \in Plans /\ c \in Pending /\ Claimed(c) /\ c[1] = h
  BY <1>i, <1>2, PendingFacts, Zenon DEF QueueOK
<1>4. current = NoPlan
  BY <1>i, <1>1, Zenon DEF CurrentOK
<1>5. \A t \in Strategies : pending_by_strategy'[t] = IF t = h THEN NoPlan ELSE pending_by_strategy[t]
  BY <1>i, <1>1, <1>2, Zenon DEF TypeOK
<1>6. Pending' = Pending \ {c}
  <2>1. ASSUME NEW t \in Strategies, t # h, pending_by_strategy[t] # NoPlan PROVE pending_by_strategy[t] # c
    BY <1>i, <1>3, <2>1, Zenon DEF QueueOK
  <2> HIDE DEF h
  <2> QED
    <3>1. Pending' \subseteq Pending \ {c}
      BY <1>5, <2>1, Zenon DEF Pending
    <3>2. ASSUME NEW t \in Strategies, pending_by_strategy[t] \notin {NoPlan, c}
          PROVE  pending_by_strategy[t] \in Pending'
      <4>1. t # h
        BY <3>2, Zenon
      <4> QED BY <1>5, <3>2, <4>1, Zenon DEF Pending
    <3> QED BY <3>1, <3>2, Zenon DEF Pending
<1>7. QueueOK'
  <2>1. /\ Len(round_robin') = Len(round_robin) - 1 /\ Len(round_robin) \in Nat
        /\ \A i \in 1 .. Len(round_robin') : /\ round_robin'[i] = round_robin[i + 1]
                                             /\ i + 1 \in 1 .. Len(round_robin)
                                             /\ round_robin[i + 1] \in Strategies
    BY <1>1
  <2>2. \A i \in 1 .. Len(round_robin') : round_robin'[i] # h
    BY <1>i, <1>2, <2>1 DEF QueueOK
  <2>3. \A i \in 1 .. Len(round_robin') : pending_by_strategy'[round_robin'[i]] # NoPlan
    BY <1>i, <1>5, <2>1, <2>2 DEF QueueOK
  <2>4. \A i, j \in 1 .. Len(round_robin') : round_robin'[i] = round_robin'[j] => i = j
    BY <1>i, <2>1, SMTT(30) DEF QueueOK
  <2>5. \A t \in Strategies : pending_by_strategy'[t] # NoPlan =>
            /\ pending_by_strategy'[t][1] = t /\ reservation'[pending_by_strategy'[t]] = "held"
            /\ pending_by_strategy'[t] \notin DOMAIN Leftovers
    BY <1>i, <1>1, <1>5 DEF QueueOK, Claimed
  <2> QED BY <2>3, <2>4, <2>5, Zenon DEF QueueOK, Claimed
<1> HIDE DEF h, c
<1>8. CurrentOK'
  BY <1>1, <1>3, <1>6, Zenon DEF CurrentOK, Claimed
<1>9. EventsOK'
  <2>1. \A i \in 1 .. Len(events) : events[i].plan # c
    BY <1>i, <1>3, Zenon DEF EventsOK
  <2> QED BY <1>i, <1>1, <1>6, <2>1, Zenon DEF EventsOK, Claimed
<1>10. HeldOK'
  <2>1. Reported' = Reported
    BY <1>1, Zenon DEF Reported
  <2> QED BY <1>i, <1>1, <1>4, <1>6, <2>1, PlanFacts DEF HeldOK
<1> QED
  BY <1>7, <1>8, <1>9, <1>10, Zenon DEF MailInv

\* The task reports on a plan: one it took, or one it resumes.
LEMMA ReportStep ==
    ASSUME MailboxAssumption, MailInv, TypeOK', NEW p \in Plans, NEW s \in EventStates,
           p = current \/ p \in resume, resume' = resume \ {p},
           events' = Append(events, Event(p, s)), unresolved' = Quarantine(p, s),
           UNCHANGED <<pending_by_strategy, round_robin, reservation, receiver_open>>,
           \/ current' = current /\ current # p /\ task' = task
           \/ current = p /\ current' = NoPlan /\ task' # "executing",
           current = p \/ p \in DOMAIN Leftovers
    PROVE  MailInv'
<1>i. TypeOK /\ QueueOK /\ CurrentOK /\ EventsOK /\ HeldOK
  BY Zenon DEF MailInv
<1>1. /\ Len(events') = Len(events) + 1 /\ Len(events) \in Nat
      /\ events'[Len(events) + 1] = Event(p, s)
      /\ \A i \in 1 .. Len(events) : events'[i] = events[i] /\ events[i].plan \in Plans
  <2>1. events \in Seq(EventSet) /\ Event(p, s) \in EventSet
    BY <1>i, EventFacts, PlanFacts, Zenon
  <2>2. /\ Len(events') = Len(events) + 1 /\ Len(events) \in Nat
        /\ events'[Len(events) + 1] = Event(p, s)
        /\ \A i \in 1 .. Len(events) : events'[i] = events[i]
    BY <2>1
  <2> QED BY <1>i, <2>2, EventFacts, Zenon
<1>2. Event(p, s).plan = p /\ Event(p, s).state = s
  BY PlanFacts, Zenon
<1>3. p \notin Pending /\ \A i \in 1 .. Len(events) : events[i].plan # p
  <2>1. \A i \in 1 .. Len(events) : events[i].plan # p
    BY <1>i, Zenon DEF EventsOK
  <2>2. p \notin Pending
    BY <1>i, PendingFacts, PlanFacts, Zenon DEF CurrentOK, Claimed
  <2> QED BY <2>1, <2>2, Zenon
<1>4. Pending' = Pending
  BY Zenon DEF Pending
<1>5. /\ unresolved \ {p} \subseteq unresolved' /\ unresolved' \subseteq unresolved \cup {p}
      /\ s = "BlockedUnknown" => p \in unresolved'
  BY Zenon DEF Quarantine, EventStates
<1>6. QueueOK'
  BY <1>i, Zenon DEF QueueOK, Claimed
<1>7. CurrentOK'
  BY <1>i, <1>4, Zenon DEF CurrentOK, Claimed
<1>8. EventsOK'
  <2>1. \A i, j \in 1 .. Len(events') : events'[i].plan = events'[j].plan => i = j
    BY <1>i, <1>1, <1>2, <1>3, SMTT(30) DEF EventsOK
  <2>2. ASSUME NEW i \in 1 .. Len(events')
        PROVE  /\ events'[i].plan \in DOMAIN Leftovers \/ reservation'[events'[i].plan] = "held"
               /\ events'[i].plan \notin Pending' \cup resume' /\ events'[i].plan # current'
               /\ events'[i].state = "BlockedUnknown" => events'[i].plan \in unresolved'
    <3>1. CASE i = Len(events) + 1
      <4>1. p \in DOMAIN Leftovers \/ reservation[p] = "held"
        BY <1>i, PlanFacts, SMTT(30) DEF CurrentOK, Claimed
      <4> QED BY <1>1, <1>2, <1>3, <1>4, <1>5, <3>1, <4>1, PlanFacts
    <3>2. CASE i \in 1 .. Len(events)
      <4>1. events'[i] = events[i] /\ events[i].plan # p /\ events[i].plan \in Plans
        BY <1>1, <1>3, <3>2
      <4> QED BY <1>i, <1>4, <1>5, <3>2, <4>1, PlanFacts, SMTT(30) DEF EventsOK, Claimed
    <3> QED BY <1>1, <3>1, <3>2
  <2> QED BY <2>1, <2>2, Zenon DEF EventsOK, Claimed
<1>9. HeldOK'
  <2>1. Reported' = Reported \cup {p}
    <3>1. Reported' \subseteq Reported \cup {p}
      BY <1>1, <1>2 DEF Reported
    <3>2. p \in Reported'
      BY <1>1, <1>2 DEF Reported
    <3>3. ASSUME NEW i \in 1 .. Len(events) PROVE events[i].plan \in Reported'
      BY <1>1 DEF Reported
    <3> QED BY <3>1, <3>2, <3>3, ZenonT(30) DEF Reported
  <2> QED BY <1>i, <1>4, <1>5, <2>1, Zenon DEF HeldOK
<1> QED
  BY <1>6, <1>7, <1>8, <1>9 DEF MailInv

\* The engine handles the first event: its plan's reservation moves on.
LEMMA HandleStep ==
    ASSUME MailboxAssumption, MailInv, TypeOK', OnPaperTradeEvent
    PROVE  MailInv'
<1> DEFINE e == Head(events)
<1>i. TypeOK /\ QueueOK /\ CurrentOK /\ EventsOK /\ HeldOK
  BY Zenon DEF MailInv
<1>1. /\ events \in Seq(EventSet) /\ events # <<>>
      /\ events' = Tail(events) /\ reservation' = Settled(e)
      /\ UNCHANGED <<pending_by_strategy, round_robin, receiver_open, task, current, resume, unresolved>>
  BY <1>i, EventFacts, Zenon DEF OnPaperTradeEvent
<1>2. e = events[1] /\ 1 \in 1 .. Len(events) /\ e.plan \in Plans /\ e.state \in EventStates
  <2>1. e = events[1] /\ 1 \in 1 .. Len(events)
    BY <1>1
  <2> QED BY <1>i, <2>1, EventFacts, Zenon
<1>3. /\ Len(events') = Len(events) - 1 /\ Len(events) \in Nat
      /\ \A i \in 1 .. Len(events') : events'[i] = events[i + 1] /\ i + 1 \in 1 .. Len(events)
  BY <1>1
<1>4. e.plan \notin Pending /\ e.plan # current
  BY <1>i, <1>2, Zenon DEF EventsOK
<1> HIDE DEF e
<1>5. \A q \in Plans : q # e.plan => reservation'[q] = reservation[q]
  <2>1. reservation \in [Plans -> {"none", "held", "pending_settlement"}]
    BY <1>i, Zenon DEF TypeOK
  <2>2. \/ reservation' = reservation \/ reservation' = [reservation EXCEPT ![e.plan] = "pending_settlement"]
        \/ reservation' = [reservation EXCEPT ![e.plan] = "none"]
    BY <1>1, <1>2, Zenon DEF Settled, EventStates
  <2> QED BY <1>2, <2>1, <2>2, Zenon
<1>6. \A i \in 1 .. Len(events') : events'[i].plan # e.plan /\ events'[i].plan \in Plans
  <2> SUFFICES ASSUME NEW i \in 1 .. Len(events')
               PROVE  events'[i].plan # e.plan /\ events'[i].plan \in Plans
    BY Zenon
  <2>1. events'[i] = events[i + 1] /\ i + 1 \in 1 .. Len(events) /\ i + 1 # 1
    BY <1>3
  <2>2. events[i + 1].plan # events[1].plan
    BY <1>i, <1>2, <2>1, Zenon DEF EventsOK
  <2> QED BY <1>i, <1>2, <2>1, <2>2, EventFacts
<1>7. Pending' = Pending
  BY <1>1, Zenon DEF Pending
<1>8. reservation'[e.plan] = "held" => e.plan \in unresolved
  <2>1. CASE e.state = "BlockedUnknown"
    BY <1>i, <1>2, <2>1, Zenon DEF EventsOK
  <2>2. CASE e.state # "BlockedUnknown"
    BY <1>i, <1>1, <1>2, <2>2, Zenon DEF Settled, TypeOK, EventStates
  <2> QED BY <2>1, <2>2, Zenon
<1>9. QueueOK'
  <2>1. ASSUME NEW t \in Strategies, pending_by_strategy[t] # NoPlan
        PROVE  /\ pending_by_strategy[t][1] = t /\ reservation'[pending_by_strategy[t]] = "held"
               /\ pending_by_strategy[t] \notin DOMAIN Leftovers
    <3>1. /\ pending_by_strategy[t] \in Pending /\ pending_by_strategy[t] \in Plans
          /\ Claimed(pending_by_strategy[t]) /\ pending_by_strategy[t][1] = t
      BY <1>i, <2>1, PendingFacts DEF QueueOK
    <3> QED BY <1>4, <1>5, <3>1 DEF Claimed
  <2> QED BY <1>i, <1>1, <2>1, Zenon DEF QueueOK, Claimed
<1>10. CurrentOK'
  BY <1>i, <1>1, <1>4, <1>5, <1>7, SMTT(30) DEF CurrentOK, Claimed, TypeOK
<1>11. EventsOK'
  <2>1. \A i, j \in 1 .. Len(events') : events'[i].plan = events'[j].plan => i = j
    <3> SUFFICES ASSUME NEW i \in 1 .. Len(events'), NEW j \in 1 .. Len(events'),
                        events'[i].plan = events'[j].plan
                 PROVE  i = j
      BY Zenon
    <3>1. i + 1 = j + 1
      BY <1>i, <1>3, SMTT(30) DEF EventsOK
    <3> QED BY <1>3, <3>1
  <2>2. ASSUME NEW i \in 1 .. Len(events')
        PROVE  /\ events'[i].plan \in DOMAIN Leftovers \/ reservation'[events'[i].plan] = "held"
               /\ events'[i].plan \notin Pending' \cup resume' /\ events'[i].plan # current'
               /\ events'[i].state = "BlockedUnknown" => events'[i].plan \in unresolved'
    <3>1. events'[i] = events[i + 1] /\ i + 1 \in 1 .. Len(events)
      BY <1>3, Zenon
    <3>2. reservation'[events'[i].plan] = reservation[events[i + 1].plan]
      BY <1>5, <1>6, <3>1, Zenon
    <3> QED BY <1>i, <1>1, <1>7, <3>1, <3>2, Zenon DEF EventsOK, Claimed
  <2>3. \A i \in 1 .. Len(events') : events'[i].plan \in DOMAIN Leftovers
            \/ (reservation'[events'[i].plan] = "held" /\ events'[i].plan \notin DOMAIN Leftovers)
    BY <2>2, Zenon
  <2> QED BY <2>1, <2>2, <2>3 DEF EventsOK, Claimed
<1>12. HeldOK'
  <2> SUFFICES ASSUME receiver_open, NEW q \in Plans, reservation'[q] = "held"
               PROVE  q \in Pending \cup Reported' \cup unresolved \cup {current}
    BY <1>1, <1>7, Zenon DEF HeldOK
  <2>1. CASE q = e.plan
    BY <1>8, <2>1, Zenon
  <2>2. CASE q # e.plan
    <3>1. q \in Pending \cup Reported \cup unresolved \cup {current}
      BY <1>i, <1>5, <2>2, Zenon DEF HeldOK
    <3>2. ASSUME NEW i \in 1 .. Len(events), q = events[i].plan PROVE q \in Reported'
      <4>1. i # 1
        BY <1>2, <2>2, <3>2, Zenon
      <4>2. i - 1 \in 1 .. Len(events') /\ events'[i - 1] = events[i]
        BY <1>3, <4>1
      <4> QED BY <3>2, <4>2, Zenon DEF Reported
    <3> QED BY <3>1, <3>2, Zenon DEF Reported
  <2> QED BY <2>1, <2>2, Zenon
<1> QED
  BY <1>9, <1>10, <1>11, <1>12, Zenon DEF MailInv

\* Newer balances release a settled reservation.
LEMMA ObservedStep ==
    ASSUME MailInv, TypeOK', NEW p \in Plans, BalancesObserved(p)
    PROVE  MailInv'
<1>i. TypeOK /\ QueueOK /\ CurrentOK /\ EventsOK /\ HeldOK
  BY Zenon DEF MailInv
<1>1. /\ reservation[p] = "pending_settlement"
      /\ UNCHANGED <<pending_by_strategy, round_robin, receiver_open, task, current, resume,
                     events, unresolved>>
  BY Zenon DEF BalancesObserved, mailbox
<1>2. \A q \in Plans : reservation'[q] = "held" <=> reservation[q] = "held"
  BY <1>i, <1>1, ZenonT(30) DEF BalancesObserved, TypeOK
<1>3. QueueOK'
  BY <1>i, <1>1, <1>2, PendingFacts DEF QueueOK, Claimed
<1>4. CurrentOK'
  BY <1>i, <1>1, <1>2, Zenon DEF CurrentOK, Claimed, TypeOK, Pending
<1>5. EventsOK'
  BY <1>i, <1>1, <1>2, EventFacts DEF EventsOK, Claimed, Pending
<1>6. HeldOK'
  BY <1>i, <1>1, <1>2, Zenon DEF HeldOK, Pending, Reported
<1> QED
  BY <1>3, <1>4, <1>5, <1>6, Zenon DEF MailInv

-----------------------------------------------------------------------------
(* The theorems *)

\* Every step of the engine and of the task keeps the invariant.
LEMMA NextMail == ASSUME MailboxAssumption, MailInv, [Next]_vars PROVE MailInv'
<1>t. TypeOK' /\ TypeOK /\ CurrentOK
  BY NextType, Zenon DEF MailInv
<1>1. ASSUME NEW p \in Plans, TrySubmit(p) PROVE MailInv'
  BY <1>t, <1>1, SubmitStep, Zenon
<1>2. ASSUME NEW p \in Plans, BalancesObserved(p) PROVE MailInv'
  BY <1>t, <1>2, ObservedStep, Zenon
<1>3. ASSUME NEW p \in Plans, ResumePlan(p) PROVE MailInv'
  <2>1. PICK s \in {"Balanced", "BlockedUnknown"} :
            events' = Append(events, Event(p, s)) /\ unresolved' = Quarantine(p, s)
    BY <1>3, Zenon DEF ResumePlan
  <2>2. /\ s \in EventStates /\ p \in resume /\ resume' = resume \ {p} /\ p \in DOMAIN Leftovers
        /\ current' = current /\ task' = task /\ current # p
        /\ UNCHANGED <<pending_by_strategy, round_robin, reservation, receiver_open>>
    BY <1>t, <1>3, <2>1, PlanFacts DEF ResumePlan, mailbox, EventStates, TypeOK, CurrentOK
  <2> QED BY <1>t, <2>1, <2>2, ReportStep, Zenon
<1>4. CASE OnPaperTradeEvent
  BY <1>t, <1>4, HandleStep, Zenon
<1>5. CASE CloneHandle \/ DropHandle
  <2>1. CASE task # "executing"
    BY <1>t, <1>5, <2>1, QuietStep, Zenon DEF CloneHandle, DropHandle, engine
  <2>2. CASE task = "executing"
    <3>1. UNCHANGED <<pending_by_strategy, round_robin, receiver_open, task, current, resume, events,
                      reservation, unresolved>>
      BY <1>5, Zenon DEF CloneHandle, DropHandle, engine
    <3> QED
      BY <1>t, <3>1 DEF MailInv, QueueOK, CurrentOK, EventsOK, HeldOK, Pending, Reported, Claimed
  <2> QED BY <2>1, <2>2, Zenon
<1>6. CASE ResumeFails \/ RecvEnds
  BY <1>t, <1>6, CloseStep, Zenon DEF ResumeFails, RecvEnds, engine
<1>7. CASE ResumeDone \/ RecvListen \/ RecvPark
  BY <1>t, <1>7, QuietStep, Zenon DEF ResumeDone, RecvListen, RecvPark, mailbox, engine
<1>8. CASE RecvAwait \/ RecvWake \/ Tick
  BY <1>t, <1>8, QuietStep, SMTT(30) DEF RecvAwait, RecvWake, Tick, mailbox, engine
<1>9. CASE RecvTake
  BY <1>t, <1>9, TakeStep, Zenon
<1>10. CASE FinishPlan
  <2>1. PICK s \in EventStates :
            events' = Append(events, Event(current, s)) /\ unresolved' = Quarantine(current, s)
    BY <1>10, Zenon DEF FinishPlan
  <2>2. /\ current \in Plans /\ current' = NoPlan /\ task' = "top" /\ resume' = resume
        /\ UNCHANGED <<pending_by_strategy, round_robin, reservation, receiver_open>>
    BY <1>t, <1>10, Zenon DEF FinishPlan, mailbox, TypeOK, CurrentOK
  <2>3. current \notin resume
    BY <1>t, <2>2, PlanFacts DEF CurrentOK, Claimed, TypeOK
  <2>4. resume' = resume \ {current}
    BY <2>2, <2>3, Zenon
  <2> QED BY <1>t, <2>1, <2>2, <2>4, ReportStep
<1>11. CASE UNCHANGED vars
  BY <1>11 DEF MailInv, QueueOK, CurrentOK, EventsOK, HeldOK, Pending, Reported, Claimed, TypeOK,
               vars, mailbox, notify, engine
<1> QED
  BY <1>1, <1>2, <1>3, <1>4, <1>5, <1>6, <1>7, <1>8, <1>9, <1>10, <1>11 DEF Next, Recv

\* MailInv is an invariant.
THEOREM SpecMailInv == ASSUME MailboxAssumption PROVE Spec => []MailInv
<1>1. Init => MailInv
  BY InitMail, Zenon
<1>2. MailInv /\ [Next]_vars => MailInv'
  BY NextMail, Zenon
<1> QED
  BY <1>1, <1>2, PTL DEF Spec

\* While the trade task lives, the engine holds inventory for exactly the plans
\* that still need it: pending, executing, reported or quarantined (engine.rs,
\* arbitrage.rs), whatever a restart left over.
THEOREM ReservationsAlwaysAccounted ==
    ASSUME MailboxAssumption PROVE Spec => []ReservationsAccounted
<1>1. MailInv => ReservationsAccounted
  <2> SUFFICES ASSUME MailInv, receiver_open
               PROVE  /\ \A p \in Plans : reservation[p] = "held" => p \in Undecided \cup unresolved
                      /\ \A s \in Strategies : pending_by_strategy[s] # NoPlan =>
                            reservation[pending_by_strategy[s]] = "held"
                      /\ current # NoPlan => reservation[current] = "held"
    BY Zenon DEF ReservationsAccounted
  <2>1. Pending \cup Reported \cup {current} \subseteq Undecided
    BY Zenon DEF Pending, Reported, Undecided
  <2> QED
    BY <2>1, Zenon DEF MailInv, HeldOK, QueueOK, CurrentOK, Claimed
<1> QED
  BY <1>1, SpecMailInv, PTL

\* The lane is busy or there is nothing to report.
LEMMA LaneStep ==
    ASSUME MailboxAssumption, OneLeftover, MailInv, LaneOK, [Next]_vars
    PROVE  LaneOK'
<1>t. TypeOK /\ CurrentOK
  BY Zenon DEF MailInv
<1>e. events \in Seq(EventSet) /\ Len(events) \in Nat
  BY <1>t, EventFacts, Zenon
<1>1. ASSUME NEW p \in Plans, ResumePlan(p) PROVE LaneOK'
  <2>1. PICK s \in {"Balanced", "BlockedUnknown"} : events' = Append(events, Event(p, s))
    BY <1>1, Zenon DEF ResumePlan
  <2>2. events = <<>> /\ resume' = {} /\ lane = "busy" /\ lane' = lane /\ task = "resuming" /\ task' = task
    BY <1>1, Zenon DEF ResumePlan, LaneOK, mailbox
  <2>3. Len(events') = 1
    BY <1>e, <2>1, <2>2
  <2> QED BY <2>2, <2>3 DEF LaneOK
<1>2. CASE FinishPlan
  <2>1. PICK s \in EventStates : events' = Append(events, Event(current, s))
    BY <1>2, Zenon DEF FinishPlan
  <2>2. events = <<>> /\ resume = {} /\ resume' = {} /\ lane = "busy" /\ lane' = lane /\ task' = "top"
    BY <1>2, Zenon DEF FinishPlan, LaneOK, mailbox
  <2>3. Len(events') = 1
    BY <1>e, <2>1, <2>2
  <2> QED BY <2>2, <2>3 DEF LaneOK
<1>3. CASE OnPaperTradeEvent
  <2>1. /\ events # <<>> /\ events' = Tail(events) /\ Len(events) <= 1
        /\ task # "executing" /\ resume = {} /\ task' = task /\ resume' = resume
    BY <1>3, Zenon DEF OnPaperTradeEvent, LaneOK
  <2>2. events' = <<>> /\ Len(events') = 0
    <3>0. 1 \in 1 .. Len(events)
      BY <1>e, <2>1
    <3>a. Len(events) <= 1 /\ Len(events) \in Nat
      BY <1>e, <2>1, Zenon
    <3>b. \A n \in Nat : n <= 1 /\ 1 \in 1 .. n => n = 1
      OBVIOUS
    <3>1. Len(events) = 1
      BY <3>0, <3>a, <3>b, Zenon
    <3>2. Len(events') = Len(events) - 1 /\ events' \in Seq(EventSet)
      BY <1>e, <2>1
    <3> QED BY <3>1, <3>2
  <2> QED BY <2>1, <2>2 DEF LaneOK
<1>4. CASE RecvTake
  BY <1>4, Zenon DEF RecvTake, LaneOK, engine
<1>5. ASSUME UNCHANGED <<lane, events, resume>>, task' # "executing" \/ task' = task,
             task' = task \/ resume = {} \/ task' = "stopped"
      PROVE  LaneOK'
  BY <1>5, Zenon DEF LaneOK
<1>6. ASSUME NEW p \in Plans, TrySubmit(p) \/ BalancesObserved(p) PROVE LaneOK'
  BY <1>5, <1>6, Zenon DEF TrySubmit, BalancesObserved, mailbox
<1>7. CASE CloneHandle \/ DropHandle \/ ResumeFails \/ ResumeDone \/ RecvEnds
  BY <1>5, <1>7, Zenon DEF CloneHandle, DropHandle, ResumeFails, ResumeDone, RecvEnds, CloseReceiver, mailbox, engine
<1>8. CASE RecvListen \/ RecvPark \/ RecvAwait \/ RecvWake \/ Tick
  <2>1. resume = {}
    BY <1>8, Zenon DEF LaneOK, RecvListen, RecvPark, RecvAwait, RecvWake, Tick
  <2> QED BY <1>5, <1>8, <2>1, Zenon DEF RecvListen, RecvPark, RecvAwait, RecvWake, Tick, mailbox, engine
<1>9. CASE UNCHANGED vars
  BY <1>5, <1>9, Zenon DEF vars, mailbox, engine
<1> QED
  BY <1>1, <1>2, <1>3, <1>4, <1>6, <1>7, <1>8, <1>9 DEF Next, Recv

\* After a restart that found at most the plan it was executing, recv takes no
\* plan while an event is unhandled: the receipt of the last plan is in the
\* mirror, and its reservation moved on, before the next is taken (arbitrage.rs).
THEOREM PlansTakenWhenSettled ==
    ASSUME MailboxAssumption, OneLeftover PROVE Spec => SettledBeforeNextPlan
<1>1. Init => LaneOK
  <2> SUFFICES ASSUME Init PROVE LaneOK
    BY Zenon
  <2>1. Len(events) = 0 /\ events = <<>> /\ task = "resuming" /\ resume = DOMAIN Leftovers
    BY Zenon DEF Init
  <2>2. \A p, q \in resume : p = q
    BY <2>1, Zenon DEF OneLeftover
  <2>3. resume # {} => lane = "busy"
    BY <2>1, Zenon DEF OneLeftover, Init, InitialLane
  <2> QED BY <2>1, <2>2, <2>3 DEF LaneOK
<1>2. MailInv /\ LaneOK /\ [Next]_vars => LaneOK'
  BY LaneStep, Zenon
<1>3. MailInv /\ LaneOK /\ [Next]_vars => [TakesWhenSettled]_vars
  <2> SUFFICES ASSUME LaneOK, Next, task = "checking", task' = "executing" PROVE events = <<>>
    BY Zenon DEF TakesWhenSettled
  <2>1. RecvTake
    BY Zenon DEF Next, Recv, TrySubmit, BalancesObserved, ResumePlan, OnPaperTradeEvent, CloneHandle,
           DropHandle, ResumeFails, ResumeDone, Tick, FinishPlan, RecvListen, RecvEnds, RecvPark,
           RecvAwait, RecvWake, CloseReceiver
  <2> QED BY <2>1, Zenon DEF RecvTake, LaneOK
<1> QED
  BY <1>1, <1>2, <1>3, SpecMailInv, PTL DEF Spec, SettledBeforeNextPlan

-----------------------------------------------------------------------------
(* EntryStillPays for any prices, amounts and windows, and any number of    *)
(* changes.                                                                 *)
QuoteType == [id : Nat, gen : Nat, bid : Nat, ask : Nat, quantity : Nat]
TransportType == [gen : Nat, connected : BOOLEAN, last : Nat]
PoolType == [gen : Nat, fee : Nat, out : Nat]
PlanType == [dir : Directions \cup {"none"}, price : Nat, gen : Nat, fee : Nat, least : Int,
             met : BOOLEAN, deadline : Nat]
PreflightType ==
  /\ now \in Nat /\ head \in Nat /\ quote \in QuoteType /\ transport \in TransportType
  /\ pool \in PoolType /\ mirror \in PoolType /\ opportunity \in PlanType

(* SpreadHolds at one price.                                                *)
SpreadAt(dir, out, price) ==
  IF dir = "dex_buy"
  THEN meets_spread_threshold(token_b_at_price_in_token_a_base_units(out, price, FALSE), AmountIn)
  ELSE meets_spread_threshold(out, token_b_at_price_in_token_a_base_units(AmountIn, price, TRUE))

(* Why the short way is sound: generations name curves.  A published curve  *)
(* of the mirror's generation is the mirror's, and one of the plan's        *)
(* generation is the curve the plan was made on.                            *)
CurvesNamed ==
  /\ pool.gen <= mirror.gen
  /\ pool.gen = mirror.gen => pool = mirror
  /\ opportunity # NoOpportunity =>
       /\ opportunity.dir \in Directions
       /\ opportunity.gen <= pool.gen
       /\ opportunity.gen = pool.gen =>
            /\ opportunity.least <= pool.out
            /\ opportunity.met => SpreadAt(opportunity.dir, pool.out, opportunity.price)
PreflightInv == PreflightType /\ CurvesNamed /\ EntryStillPays

\* A quote counts only with the price of its side.
LEMMA SpreadIs ==
  \A dir, out, q : SpreadHolds(dir, out, q) <=> SpreadAt(dir, out, relevant_price(dir, q))
BY Zenon DEF SpreadHolds, SpreadAt, relevant_price

\* The threshold is a comparison of amounts.
LEMMA SpreadIsBoolean ==
  ASSUME PreflightAssumption, NEW dir, NEW out \in Nat, NEW q, q.bid \in Nat, q.ask \in Nat
  PROVE  SpreadHolds(dir, out, q) \in BOOLEAN
<1>1. AmountIn \in Nat /\ PriceScale \in Nat /\ PriceScale > 0
  BY DEF PreflightAssumption
<1>2. \A m \in Nat, p \in Nat, up \in BOOLEAN : token_b_at_price_in_token_a_base_units(m, p, up) \in Int
  <2> SUFFICES ASSUME NEW m \in Nat, NEW p \in Nat, NEW up \in BOOLEAN
               PROVE  token_b_at_price_in_token_a_base_units(m, p, up) \in Int
    BY Zenon
  <2>1. m * p \in Int
    OBVIOUS
  <2>2. (m * p) \div PriceScale \in Int
    BY <1>1, <2>1
  <2>3. (IF up /\ (m * p) % PriceScale # 0 THEN 1 ELSE 0) \in Int
    OBVIOUS
  <2> QED
    BY <2>2, <2>3 DEF token_b_at_price_in_token_a_base_units
<1> DEFINE x == token_b_at_price_in_token_a_base_units(out, q.bid, FALSE)
           y == token_b_at_price_in_token_a_base_units(AmountIn, q.ask, TRUE)
<1>3. x \in Int /\ y \in Int
  BY <1>1, <1>2, Zenon
<1> HIDE DEF x, y
<1>4. (x * BPS_DENOMINATOR >= AmountIn * (BPS_DENOMINATOR + Threshold)) \in BOOLEAN
  BY <1>1, <1>3 DEF BPS_DENOMINATOR, Threshold
<1>5. (out * BPS_DENOMINATOR >= y * (BPS_DENOMINATOR + Threshold)) \in BOOLEAN
  BY <1>3 DEF BPS_DENOMINATOR, Threshold
<1>6. SpreadHolds(dir, out, q) =
        IF dir = "dex_buy" THEN x * BPS_DENOMINATOR >= AmountIn * (BPS_DENOMINATOR + Threshold)
        ELSE out * BPS_DENOMINATOR >= y * (BPS_DENOMINATOR + Threshold)
  BY Zenon DEF SpreadHolds, meets_spread_threshold, x, y
<1> QED
  BY <1>4, <1>5, <1>6, Zenon

\* `check` passes only what still pays, by either way.
LEMMA CheckPasses ==
  ASSUME PreflightAssumption, PreflightType, CurvesNamed, opportunity # NoOpportunity,
         check(opportunity) = "pass"
  PROVE  /\ transport.connected /\ transport.gen = quote.gen
         /\ now <= transport.last + MaxSilence /\ now <= head + MaxHeadAge
         /\ StillPays(opportunity)
         /\ Adaptive => pool.fee = opportunity.fee /\ now <= opportunity.deadline
<1> DEFINE o == opportunity
<1>1. PriceFresh /\ HeadFresh /\ ~HorizonExpired(o) /\ (Unchanged(o) \/ Requoted(o) = "pass")
  BY Zenon DEF check
<1>2. /\ now \in Nat /\ head \in Nat /\ transport.last \in Nat /\ o.deadline \in Nat /\ o.least \in Int
      /\ pool.out \in Nat /\ MaxSilence \in Nat /\ MaxHeadAge \in Nat
  BY Zenon DEF PreflightType, PreflightAssumption, TransportType, PlanType, PoolType
<1>3. transport.connected /\ transport.gen = quote.gen
  BY <1>1, Zenon DEF PriceFresh
<1>4. now <= transport.last + MaxSilence /\ now <= head + MaxHeadAge
  BY <1>1, <1>2 DEF PriceFresh, HeadFresh
<1>5. Adaptive => now <= o.deadline
  BY <1>1, <1>2 DEF HorizonExpired
<1>6. CASE Unchanged(o)
  <2>1. o.met /\ relevant_price(o.dir, quote) = o.price /\ pool.gen = o.gen /\ pool.fee = o.fee
    BY <1>6, Zenon DEF Unchanged
  <2>2. o.least <= pool.out /\ SpreadAt(o.dir, pool.out, o.price)
    BY <2>1, Zenon DEF CurvesNamed
  <2>3. SpreadHolds(o.dir, pool.out, quote)
    BY <2>1, <2>2, SpreadIs, Zenon
  <2>4. pool.out >= o.least
    BY <1>2, <2>2, Zenon
  <2> QED
    BY <1>3, <1>4, <1>5, <2>1, <2>3, <2>4, Zenon DEF StillPays
<1>7. CASE Requoted(o) = "pass"
  <2>1. ~(pool.out < o.least) /\ SpreadHolds(o.dir, pool.out, quote) /\ ~(Adaptive /\ pool.fee # o.fee)
    BY <1>7, Zenon DEF Requoted
  <2>2. pool.out >= o.least
    BY <1>2, <2>1
  <2> QED
    BY <1>3, <1>4, <1>5, <2>1, <2>2, Zenon DEF StillPays
<1> QED
  BY <1>1, <1>6, <1>7, Zenon

\* The price of the Binance leg.
LEMMA PriceSelected ==
  ASSUME PreflightType, opportunity # NoOpportunity, opportunity.dir \in Directions, NEW target,
         NEW price, price = favorable_primary_limit_price(opportunity.dir, opportunity.price, target)
  PROVE  /\ IF opportunity.dir = "dex_buy" THEN price >= opportunity.price
            ELSE price <= opportunity.price
         /\ price # opportunity.price =>
              /\ quote.id # 0 /\ PriceFresh /\ quote.quantity >= target
              /\ price = relevant_price(opportunity.dir, quote)
<1> DEFINE o == opportunity
           fresh == quote.id # 0 /\ PriceFresh /\ quote.quantity >= target /\ target > 0
<1>1. o.price \in Int /\ quote.bid \in Int /\ quote.ask \in Int
  BY DEF PreflightType, PlanType, QuoteType
<1>2. CASE ~fresh
  <2>1. price = o.price
    BY <1>2, Zenon DEF favorable_primary_limit_price
  <2> QED
    BY <1>1, <2>1
<1>3. CASE fresh
  <2>1. price = favorable_price(o.dir, o.price)
    BY <1>3, Zenon DEF favorable_primary_limit_price
  <2>2. /\ IF o.dir = "dex_buy" THEN price >= o.price ELSE price <= o.price
        /\ price # o.price => price = relevant_price(o.dir, quote)
    <3>1. relevant_price(o.dir, quote) \in Int
      BY <1>1, Zenon DEF relevant_price
    <3> QED
      BY <1>1, <2>1, <3>1, SMTT(30) DEF favorable_price
  <2> QED
    BY <1>3, <2>2, Zenon
<1> QED
  BY <1>2, <1>3, Zenon

\* The initial states.
LEMMA InitPreflight == ASSUME PreflightAssumption PROVE PreflightInit => PreflightInv
<1> SUFFICES ASSUME PreflightInit PROVE PreflightInv
  BY Zenon
<1>1. now = 0 /\ head = 0 /\ opportunity = NoOpportunity /\ verdict = "none" /\ limit = NoLimit
  BY Zenon DEF PreflightInit
<1>2. quote \in QuoteType
  <2>1. PICK i \in {0, 1}, b \in Tops : quote = [id |-> i, gen |-> i, bid |-> b, ask |-> b, quantity |-> 1]
    BY DEF PreflightInit
  <2>2. i \in Nat /\ b \in Nat
    BY DEF PreflightAssumption
  <2> QED
    BY <2>1, <2>2, Zenon DEF QuoteType
<1>3. transport \in TransportType
  BY Zenon DEF PreflightInit, TransportType
<1>4. pool \in PoolType /\ mirror = pool
  <2>1. PICK o \in Outs : pool = [gen |-> 1, fee |-> IF Adaptive THEN 1 ELSE 0, out |-> o] /\ mirror = pool
    BY DEF PreflightInit
  <2>2. o \in Nat /\ (IF Adaptive THEN 1 ELSE 0) \in Nat
    BY Zenon DEF PreflightAssumption
  <2> QED
    BY <2>1, <2>2, Zenon DEF PoolType
<1>5. opportunity \in PlanType
  BY <1>1 DEF NoOpportunity, PlanType
<1>6. PreflightType
  BY <1>1, <1>2, <1>3, <1>4, <1>5, Zenon DEF PreflightType
<1>7. CurvesNamed
  BY <1>1, <1>4 DEF CurvesNamed, PoolType
<1>8. EntryStillPays
  BY <1>1, Zenon DEF EntryStillPays
<1> QED
  BY <1>6, <1>7, <1>8, Zenon DEF PreflightInv

\* Whoever changes what was published takes back the answers given before.
LEMMA Forgets ==
  ASSUME Forget, PreflightType', CurvesNamed' PROVE PreflightInv'
BY Zenon DEF Forget, PreflightInv, EntryStillPays

\* Every step.
LEMMA NextPreflight ==
  ASSUME PreflightAssumption PROVE PreflightInv /\ [PreflightNext]_preflightVars => PreflightInv'
<1> SUFFICES ASSUME PreflightInv, [PreflightNext]_preflightVars PROVE PreflightInv'
  BY Zenon
<1>1. PreflightType /\ CurvesNamed /\ EntryStillPays
  BY Zenon DEF PreflightInv
<1>2. /\ now \in Nat /\ head \in Nat /\ quote \in QuoteType /\ transport \in TransportType
      /\ pool \in PoolType /\ mirror \in PoolType /\ opportunity \in PlanType
  BY <1>1, Zenon DEF PreflightType
<1>3. /\ transport.gen \in Nat /\ quote.id \in Nat /\ pool.gen \in Nat /\ mirror.gen \in Nat
      /\ mirror.fee \in Nat /\ pool.fee \in Nat /\ pool.out \in Nat
  BY <1>2, Zenon DEF TransportType, QuoteType, PoolType
\* What the engine hears and what time does leave curves and plan alone.
<1>4. ASSUME Forget, UNCHANGED <<pool, mirror, opportunity>>, now' \in Nat, head' \in Nat,
             quote' \in QuoteType, transport' \in TransportType
      PROVE  PreflightInv'
  <2>1. PreflightType'
    BY <1>2, <1>4, Zenon DEF PreflightType
  <2>2. CurvesNamed'
    BY <1>1, <1>4, Zenon DEF CurvesNamed
  <2> QED
    BY <1>4, <2>1, <2>2, Forgets, Zenon
<1>5. CASE on_feed_connected
  <2>1. transport' \in TransportType
    BY <1>2, <1>3, <1>5 DEF on_feed_connected, TransportType
  <2> QED
    BY <1>2, <1>4, <1>5, <2>1, Zenon DEF on_feed_connected, Change
<1>6. CASE on_feed_disconnected
  <2>1. transport' \in TransportType
    BY <1>2, <1>6, Zenon DEF on_feed_disconnected, TransportType
  <2> QED
    BY <1>2, <1>4, <1>6, <2>1, Zenon DEF on_feed_disconnected
<1>7. CASE record_transport_activity
  <2>1. transport' \in TransportType
    BY <1>2, <1>7, Zenon DEF record_transport_activity, TransportType
  <2> QED
    BY <1>2, <1>4, <1>7, <2>1, Zenon DEF record_transport_activity
<1>8. CASE update_quote
  <2>1. transport' \in TransportType
    BY <1>2, <1>8, Zenon DEF update_quote, TransportType
  <2>2. PICK b \in Tops, a \in Tops, n \in Quantities :
          quote' = [id |-> quote.id + 1, gen |-> transport.gen, bid |-> b, ask |-> a, quantity |-> n]
    BY <1>8, Zenon DEF update_quote
  <2>3. b \in Nat /\ a \in Nat /\ n \in Nat
    BY ZenonT(30) DEF PreflightAssumption
  <2>4. quote' \in QuoteType
    BY <1>3, <2>2, <2>3 DEF QuoteType
  <2> QED
    BY <1>2, <1>4, <1>8, <2>1, <2>4, Zenon DEF update_quote, Change
<1>9. CASE update_dex_head
  BY <1>2, <1>4, <1>9, Zenon DEF update_dex_head
<1>10. CASE TimePasses
  BY <1>2, <1>4, <1>10 DEF TimePasses, Published
<1>11. CASE PoolChanges
  <2>1. PICK o \in Outs :
          mirror' = [mirror EXCEPT !.gen = @ + 1, !.out = o, !.fee = IF Adaptive THEN @ + 1 ELSE @]
    BY <1>11, Zenon DEF PoolChanges
  <2>2. o \in Nat /\ (IF Adaptive THEN mirror.fee + 1 ELSE mirror.fee) \in Nat
    BY <1>3 DEF PreflightAssumption
  <2> DEFINE fee == IF Adaptive THEN mirror.fee + 1 ELSE mirror.fee
  <2>3. mirror' \in PoolType /\ mirror'.gen = mirror.gen + 1
    <3>1. mirror' = [gen |-> mirror.gen + 1, fee |-> fee, out |-> o]
      BY <1>2, <2>1, Zenon DEF PoolType
    <3>2. fee \in Nat
      BY <2>2, Zenon
    <3> HIDE DEF fee
    <3> QED
      BY <1>3, <2>2, <3>1, <3>2 DEF PoolType
  <2>4. UNCHANGED <<now, quote, transport, head, pool, opportunity>> /\ Forget
    BY <1>11, Zenon DEF PoolChanges, Change
  <2>5. PreflightType'
    BY <1>2, <2>3, <2>4, Zenon DEF PreflightType
  <2>6. CurvesNamed'
    BY <1>1, <1>3, <2>3, <2>4 DEF CurvesNamed
  <2> QED
    BY <2>4, <2>5, <2>6, Forgets, Zenon
<1>12. CASE update_dex_pool_with_fee_generation
  <2>1. pool' = mirror /\ pool # mirror /\ UNCHANGED <<now, quote, transport, head, mirror, opportunity>> /\ Forget
    BY <1>12, Zenon DEF update_dex_pool_with_fee_generation
  <2>2. PreflightType'
    BY <1>2, <2>1, Zenon DEF PreflightType
  \* The new curve has a generation no plan was made on.
  <2>3. pool.gen < mirror.gen
    BY <1>1, <1>3, <2>1 DEF CurvesNamed
  <2>4. opportunity # NoOpportunity => opportunity.dir \in Directions /\ opportunity.gen < mirror.gen
    <3>1. opportunity.gen \in Nat
      BY <1>2, Zenon DEF PlanType
    <3> QED
      BY <1>1, <1>3, <2>3, <3>1 DEF CurvesNamed
  <2>5. CurvesNamed'
    <3>1. opportunity.gen \in Nat
      BY <1>2, Zenon DEF PlanType
    <3> QED
      BY <1>3, <2>1, <2>4, <3>1 DEF CurvesNamed
  <2> QED
    BY <2>1, <2>2, <2>5, Forgets, Zenon
<1>13. CASE Plan
  <2>1. PICK d \in Directions, least \in {pool.out - 1, pool.out} \ {0, -1} :
          opportunity' = [dir |-> d, price |-> relevant_price(d, quote), gen |-> pool.gen,
                          fee |-> pool.fee, least |-> least, met |-> SpreadHolds(d, pool.out, quote),
                          deadline |-> now + 1]
    BY <1>13, Zenon DEF Plan
  <2>2. UNCHANGED <<now, quote, transport, head, pool, mirror>> /\ Forget /\ pool = mirror
    BY <1>13, Zenon DEF Plan, Published
  <2>3. relevant_price(d, quote) \in Nat
    BY <1>2, Zenon DEF relevant_price, QuoteType
  <2>4. SpreadHolds(d, pool.out, quote) \in BOOLEAN
    <3>1. pool.out \in Nat /\ quote.bid \in Nat /\ quote.ask \in Nat
      BY <1>2, <1>3, Zenon DEF QuoteType
    <3> QED
      BY <3>1, SpreadIsBoolean, Zenon
  <2>5. least \in Int /\ least <= pool.out /\ now + 1 \in Nat
    BY <1>2, <1>3
  <2> DEFINE spread == SpreadHolds(d, pool.out, quote)
  <2>6. spread => SpreadAt(d, pool.out, relevant_price(d, quote))
    BY SpreadIs, Zenon
  <2>7. spread \in BOOLEAN /\ opportunity' = [dir |-> d, price |-> relevant_price(d, quote),
          gen |-> pool.gen, fee |-> pool.fee, least |-> least, met |-> spread, deadline |-> now + 1]
    BY <2>1, <2>4, Zenon
  <2> HIDE DEF spread
  <2>8. opportunity' \in PlanType
    BY <1>3, <2>3, <2>5, <2>7, Zenon DEF PlanType
  <2>9. /\ opportunity'.dir = d /\ opportunity'.gen = pool.gen /\ opportunity'.least = least
        /\ opportunity'.price = relevant_price(d, quote) /\ (opportunity'.met <=> spread)
    BY <2>7, Zenon
  <2>10. PreflightType'
    BY <1>2, <2>2, <2>8, Zenon DEF PreflightType
  <2>11. CurvesNamed'
    BY <1>3, <2>2, <2>5, <2>6, <2>9 DEF CurvesNamed
  <2> QED
    BY <2>2, <2>10, <2>11, Forgets, Zenon
<1>14. CASE Check
  <2>1. UNCHANGED <<now, quote, transport, head, pool, mirror, opportunity, limit>>
    BY <1>14, Zenon DEF Check, Published
  <2>2. verdict' = check(opportunity) /\ opportunity # NoOpportunity
    BY <1>14, Zenon DEF Check
  <2>3. PreflightType' /\ CurvesNamed'
    BY <1>1, <2>1, Zenon DEF PreflightType, CurvesNamed
  <2>4. verdict' = "pass" =>
          /\ transport.connected /\ transport.gen = quote.gen
          /\ now <= transport.last + MaxSilence /\ now <= head + MaxHeadAge
          /\ StillPays(opportunity)
          /\ Adaptive => pool.fee = opportunity.fee /\ now <= opportunity.deadline
    BY <1>1, <2>2, CheckPasses, Zenon
  <2>5. EntryStillPays'
    BY <1>1, <2>1, <2>4, Zenon DEF EntryStillPays, StillPays
  <2> QED
    BY <2>3, <2>5, Zenon DEF PreflightInv
<1>15. CASE SelectPrice
  <2>1. UNCHANGED <<now, quote, transport, head, pool, mirror, opportunity, verdict>>
    BY <1>15, Zenon DEF SelectPrice, Published
  <2>2. opportunity # NoOpportunity /\ opportunity.dir \in Directions
    BY <1>1, <1>15, Zenon DEF SelectPrice, CurvesNamed
  <2>3. PICK target \in Quantities :
          limit' = [price |-> favorable_primary_limit_price(opportunity.dir, opportunity.price, target),
                    fresh |-> quote.id # 0 /\ PriceFresh,
                    top |-> relevant_price(opportunity.dir, quote),
                    quantity |-> quote.quantity, target |-> target]
    BY <1>15, Zenon DEF SelectPrice
  <2> DEFINE price == favorable_primary_limit_price(opportunity.dir, opportunity.price, target)
             top == relevant_price(opportunity.dir, quote)
             fresh == quote.id # 0 /\ PriceFresh
  <2>4. /\ IF opportunity.dir = "dex_buy" THEN price >= opportunity.price ELSE price <= opportunity.price
        /\ price # opportunity.price => fresh /\ quote.quantity >= target /\ price = top
    BY <1>1, <2>2, PriceSelected
  <2>5. limit' = [price |-> price, fresh |-> fresh, top |-> top, quantity |-> quote.quantity, target |-> target]
    BY <2>3, Zenon
  <2> HIDE DEF price, top, fresh
  <2>6. /\ limit'.price = price /\ (limit'.fresh <=> fresh) /\ limit'.top = top
        /\ limit'.quantity = quote.quantity /\ limit'.target = target
    BY <2>5, Zenon
  <2>7. PreflightType' /\ CurvesNamed'
    BY <1>1, <2>1, Zenon DEF PreflightType, CurvesNamed
  <2>8. EntryStillPays'
    BY <1>1, <2>1, <2>4, <2>6, Zenon DEF EntryStillPays, StillPays
  <2> QED
    BY <2>7, <2>8, Zenon DEF PreflightInv
<1>16. CASE UNCHANGED preflightVars
  BY <1>1, <1>16, Zenon DEF preflightVars, PreflightInv, PreflightType, CurvesNamed, EntryStillPays, StillPays
<1> QED
  BY <1>5, <1>6, <1>7, <1>8, <1>9, <1>10, <1>11, <1>12, <1>13, <1>14, <1>15, <1>16, Zenon DEF PreflightNext

\* An entry that passes the check pays at the published prices, and the price
\* of its Binance leg is no worse than the admitted one (EntryPreflightHandle).
THEOREM EntriesAlwaysPay == ASSUME PreflightAssumption PROVE PreflightSpec => []EntryStillPays
<1>1. PreflightInit => PreflightInv
  BY InitPreflight, Zenon
<1>2. PreflightInv /\ [PreflightNext]_preflightVars => PreflightInv'
  BY NextPreflight, Zenon
<1>3. PreflightInv => EntryStillPays
  BY Zenon DEF PreflightInv
<1> QED
  BY <1>1, <1>2, <1>3, PTL DEF PreflightSpec
=============================================================================
