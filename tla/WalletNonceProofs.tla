-------------------------- MODULE WalletNonceProofs --------------------------
(***************************************************************************)
(* Proofs about WalletNonce for any lanes, calls, retries and crashes.     *)
(* The inductive invariant WInv says what a journal entry and the place of *)
(* a call tell about the network, and that every nonce in use is one the   *)
(* chain and its pool have reached.                                        *)
(***************************************************************************)
EXTENDS WalletNonce, FiniteSetTheorems, WellFoundedInduction, TLAPS

Blocking == {"intent", "signed", "unknown"}

\* A nonce that is mined or that a transaction in the pool occupies, and a
\* nonce below which all are.
Held(n) == n < latest \/ \E d \in Children : tx[d] = "pool" /\ journal[d].nonce = n
Reached(n) == \A m \in Nat : m < n => Held(m)

\* What an entry says of its transaction, and the transaction of its nonce.
EntryMatches(c) ==
    /\ journal[c].status \in {"none", "intent", "cancelled"} => tx[c] = "none"
    /\ journal[c].status = "rejected" => tx[c] \in Refusals
    /\ journal[c].status = "unknown" /\ journal[c].reason \in {"rpc_rejected", "nonce_too_low"} =>
          tx[c] \in Refusals
    /\ journal[c].reason # "none" => journal[c].status = "unknown"
    /\ tx[c] \in Mined => journal[c].nonce < latest
    /\ tx[c] = "replaced" => Held(journal[c].nonce)
    /\ Reached(journal[c].nonce)

\* A retry exists only when every earlier child was rejected.
EarlierRejected(c) ==
    \A d \in Children : d[1] = c[1] /\ d[2] < c[2] => journal[d].status = "rejected"
RetriesInOrder == \A c \in Children : journal[c].status # "none" => EarlierRejected(c)

\* Where a call can be, and what that says of its child.
Own(l) == lane[l].op \in Children /\ LaneOf[lane[l].op[1]] = l
CallOK(l) ==
    \/ pc[l] = "idle"
    \/ pc[l] = "locking" /\ lane[l].state = "ready" /\ Own(l) /\ EarlierRejected(lane[l].op)
    \/ pc[l] = "reserved" /\ lane[l].state = "reserved" /\ Own(l)
       /\ journal[lane[l].op].status = "intent"
    \/ pc[l] = "signed" /\ lane[l].state = "signed" /\ Own(l)
       /\ journal[lane[l].op].status = "signed" /\ tx[lane[l].op] = "none"
    \/ pc[l] = "sending" /\ lane[l].state = "signed" /\ Own(l)
       /\ journal[lane[l].op].status = "signed"
    \/ pc[l] = "proving" /\ lane[l].state = "recovery" /\ Own(l)
       /\ journal[lane[l].op].status = "unknown" /\ journal[lane[l].op].reason = "nonce_too_low"
    \/ pc[l] = "confirming" /\ lane[l].state = "ready" /\ Own(l)
       /\ journal[lane[l].op].status = "broadcast"

\* A ready lane has no blocking entry, a lane with a call in doubt has that of
\* its call, and none has two.
BlockingOK(l) ==
    /\ lane[l].state = "ready" =>
          \A c \in Children : LaneOf[c[1]] = l => journal[c].status \notin Blocking
    /\ lane[l].state \in {"reserved", "signed", "recovery"} =>
          \A c \in Children : LaneOf[c[1]] = l /\ journal[c].status \in Blocking => c = lane[l].op
    /\ \A c, d \in Children :
          LaneOf[c[1]] = l /\ LaneOf[d[1]] = l
          /\ journal[c].status \in Blocking /\ journal[d].status \in Blocking => c = d

\* The inductive invariant.
WInv ==
    /\ TypeOK
    /\ JournalMatchesChain
    /\ \A c \in Children : EntryMatches(c)
    /\ RetriesInOrder
    /\ \A l \in Lanes : CallOK(l) /\ BlockingOK(l) /\ Reached(lane[l].next)
    /\ Reached(alloc)

-----------------------------------------------------------------------------
(* Facts about the helpers *)

\* A non-empty set of naturals has a least element.
LEMMA NatMin ==
    ASSUME NEW T, T \subseteq Nat, T # {}
    PROVE  \E x \in T : \A y \in T : x <= y
<1> DEFINE Below(n) == 0 .. n
           Sets == {Below(n) : n \in T}
<1>1. \A n \in Nat : Below(n) \in FiniteSubsetsOf(Nat)
  BY FS_Interval DEF FiniteSubsetsOf
<1>2. Sets \subseteq FiniteSubsetsOf(Nat) /\ Sets # {}
  BY <1>1, Zenon
<1>3. \E x \in Sets : \A y \in Sets : ~ (<<y, x>> \in StrictSubsetOrdering(Nat))
  <2> HIDE DEF Sets
  <2> QED
    BY <1>2, WFMin, FS_StrictSubsetOrderingWellFounded, Zenon
<1>4. PICK x \in T : \A y \in T : ~ (<<Below(y), Below(x)>> \in StrictSubsetOrdering(Nat))
  BY <1>3, Zenon
<1>5. \A y \in T : y < x => /\ Below(y) \subseteq Below(x) /\ Below(y) # Below(x)
                           /\ Below(y) \subseteq Nat /\ Below(x) \subseteq Nat
  <2> SUFFICES ASSUME NEW y \in T, y < x
               PROVE  /\ Below(y) \subseteq Below(x) /\ Below(y) # Below(x)
                      /\ Below(y) \subseteq Nat /\ Below(x) \subseteq Nat
    BY Zenon
  <2>1. x \in Below(x) /\ x \notin Below(y)
    OBVIOUS
  <2> QED
    BY <2>1
<1>6. \A y \in T : ~ (y < x)
  <2> HIDE DEF Below
  <2> QED
    BY <1>4, <1>5, Zenon DEF StrictSubsetOrdering
<1> QED
  BY <1>6

\* There are finitely many children, so that a free nonce is always near.
LEMMA ChildrenFinite == IsFiniteSet(Children) /\ Cardinality(Children) \in Nat
<1>1. IsFiniteSet(0 .. 3)
  <2>1. \A a, b \in Int : IsFiniteSet(a .. b)
    BY FS_Interval, Zenon
  <2>2. 0 \in Int /\ 3 \in Int
    OBVIOUS
  <2> QED
    BY <2>1, <2>2, Zenon
<1>2. IsFiniteSet(Bases \X (0 .. 3))
  BY <1>1, BasesAssumption, FS_Product, Zenon
<1>3. Children \in SUBSET (Bases \X (0 .. 3))
  BY Zenon DEF Children
<1>4. IsFiniteSet(Children)
  BY <1>2, <1>3, FS_Subset, Zenon
<1> QED
  BY <1>4, FS_CardinalityType, Zenon

\* The pending nonce the node reports exists: it is the first that is not held.
LEMMA PendingOK ==
    ASSUME TypeOK
    PROVE  /\ PendingNonce \in Nat /\ latest <= PendingNonce
           /\ ~Held(PendingNonce) /\ Reached(PendingNonce)
<1> DEFINE K == Cardinality(Children)
           Free == {n \in Nat : latest <= n /\ Occupying(n) = {}}
           Window == latest .. latest + K
           P(n) == Occupying(n) = {} /\ \A m \in latest .. n - 1 : Occupying(m) # {}
<1>1. K \in Nat /\ latest \in Nat /\ IsFiniteSet(Children)
  BY ChildrenFinite, Zenon DEF TypeOK
<1> HIDE DEF K
<1>2. IsFiniteSet(Window) /\ Cardinality(Window) = K + 1
  BY <1>1, FS_Interval
<1>3. \E n \in Window : Occupying(n) = {}
  <2> SUFFICES ASSUME \A n \in Window : Occupying(n) # {} PROVE FALSE
    BY Zenon
  <2> DEFINE f == [n \in Window |-> CHOOSE c \in Children : c \in Occupying(n)]
  <2>1. \A n \in Window : f[n] \in Children /\ f[n] \in Occupying(n)
    BY Zenon DEF Occupying
  <2>2. \A n \in Window : NonceOf(f[n]) = n
    BY <2>1, Zenon DEF Occupying
  <2>3. f \in [Window -> Children]
    BY <2>1, Zenon
  <2> HIDE DEF f, Window
  <2>4. \E x, y \in Window : x # y /\ f[x] = f[y]
    BY <1>1, <1>2, <2>3, FS_PigeonHole DEF K
  <2> QED
    BY <2>2, <2>4, Zenon
<1>4. PICK w \in Window : Occupying(w) = {}
  BY <1>3, Zenon
<1>5. Free \subseteq Nat /\ w \in Free
  BY <1>1, <1>4
<1>6. PICK n \in Free : \A y \in Free : n <= y
  <2> HIDE DEF Free
  <2> QED
    BY <1>5, NatMin, Zenon
<1>7. n \in Window /\ P(n)
  BY <1>1, <1>4, <1>5, <1>6
<1> HIDE DEF P
<1>8. PendingNonce \in Window /\ P(PendingNonce)
  <2>1. PendingNonce = CHOOSE x \in Window : P(x)
    BY Zenon DEF PendingNonce, P, K
  <2> HIDE DEF Window
  <2> QED
    BY <1>7, <2>1, Zenon
<1>9. PendingNonce \in Nat /\ latest <= PendingNonce
  BY <1>1, <1>8
<1>10. ~Held(PendingNonce)
  BY <1>1, <1>8, <1>9 DEF P, Held, Occupying, NonceOf
<1>11. Reached(PendingNonce)
  BY <1>1, <1>8, <1>9 DEF P, Held, Reached, Occupying, NonceOf
<1> QED
  BY <1>9, <1>10, <1>11, Zenon

\* The replay loop stops at a child whose earlier siblings were all rejected.
LEMMA CurrentOK ==
    ASSUME NEW b \in Bases
    PROVE  /\ CurrentChild(b) \in Children /\ CurrentChild(b)[1] = b
           /\ EarlierRejected(CurrentChild(b))
<1> DEFINE R == Retries[LaneOf[b]]
           reached == {k \in 0 .. R : \A j \in 0 .. k - 1 : journal[<<b, j>>].status = "rejected"}
           P(k) == \A j \in reached : j <= k
<1>1. R \in 0 .. 3
  BY BasesAssumption, Zenon
<1> HIDE DEF R
<1>2. 0 \in reached /\ reached \subseteq 0 .. 3
  BY <1>1
<1>3. \E k \in reached : P(k)
  <2>1. CASE 3 \in reached
    BY <1>2, <2>1
  <2>2. CASE 2 \in reached /\ 3 \notin reached
    BY <1>2, <2>2
  <2>3. CASE 1 \in reached /\ 2 \notin reached /\ 3 \notin reached
    BY <1>2, <2>3
  <2>4. CASE 1 \notin reached /\ 2 \notin reached /\ 3 \notin reached
    BY <1>2, <2>4
  <2> QED
    BY <2>1, <2>2, <2>3, <2>4, Zenon
<1> DEFINE m == CHOOSE k \in reached : P(k)
<1> HIDE DEF P
<1>4. m \in reached
  BY <1>3, Zenon
<1>5. CurrentChild(b) = <<b, m>>
  BY Zenon DEF CurrentChild, R, P
<1> HIDE DEF m
<1>6. m \in 0 .. R /\ m \in 0 .. 3 /\ \A j \in 0 .. m - 1 : journal[<<b, j>>].status = "rejected"
  BY <1>1, <1>4
<1>7. <<b, m>> \in Children
  BY <1>6 DEF Children, R
<1>8. \A d \in Children : d[1] = b /\ d[2] < m => journal[d].status = "rejected"
  <2> TAKE d \in Children
  <2>1. d = <<d[1], d[2]>> /\ d[2] \in 0 .. 3
    BY DEF Children
  <2> QED
    BY <1>6, <2>1
<1> QED
  BY <1>5, <1>7, <1>8 DEF EarlierRejected

-----------------------------------------------------------------------------
(* Steps *)

LaneType == [state : LaneStates, next : Nat, op : Children \cup {NoChild}]
EntryType == [status : Statuses, nonce : Nat, reason : Reasons]

\* A step that leaves the transactions in the pool where they are lets go of
\* no nonce.
LEMMA KeepsReached ==
    ASSUME latest' = latest, NEW S \in SUBSET Nat,
           \A d \in Children : tx[d] = "pool" =>
              tx'[d] = "pool" /\ journal'[d].nonce = journal[d].nonce
    PROVE  \A n \in S : /\ Held(n) => Held(n)'
                        /\ Reached(n) => Reached(n)'
<1>1. \A n \in Nat : Held(n) => Held(n)'
  BY Zenon DEF Held
<1> QED
  BY <1>1, Zenon DEF Reached

\* An append to the journal that is true of the network keeps the journals
\* true, and a child once rejected stays so.
LEMMA AppendStep ==
    ASSUME WInv, NEW c \in Children, NEW s \in Statuses \ {"none", "intent"}, NEW r \in Reasons,
           Append(c, s, r), UNCHANGED <<tx, latest>>,
           r # "none" => s = "unknown",
           s = "cancelled" => tx[c] = "none",
           s = "rejected" => tx[c] \in Refusals,
           s = "unknown" /\ r \in {"rpc_rejected", "nonce_too_low"} => tx[c] \in Refusals,
           s \in Mined => tx[c] = s
    PROVE  /\ journal' \in [Children -> EntryType]
           /\ \A d \in Children \ {c} : journal'[d] = journal[d]
           /\ journal'[c] = [status |-> s, nonce |-> journal[c].nonce, reason |-> r]
           /\ JournalMatchesChain'
           /\ \A d \in Children : EntryMatches(d)'
           /\ RetriesInOrder'
           /\ \A d \in Children : EarlierRejected(d) => EarlierRejected(d)'
           /\ \A n \in Nat : Reached(n) => Reached(n)'
<1>1. journal \in [Children -> EntryType] /\ journal' = [journal EXCEPT ![c].status = s, ![c].reason = r]
  BY Zenon DEF WInv, TypeOK, EntryType, Append
<1>2. /\ \A d \in Children \ {c} : journal'[d] = journal[d]
      /\ journal'[c] = [status |-> s, nonce |-> journal[c].nonce, reason |-> r]
  BY <1>1, Zenon DEF EntryType
<1>3. journal' \in [Children -> EntryType]
  BY <1>1, Zenon DEF EntryType
<1>4. journal[c].status \notin {"none", "rejected"}
  BY Zenon DEF Append, TransitionAllowed, Statuses, Mined
<1>5. \A d \in Children : journal'[d].nonce = journal[d].nonce
  BY <1>2
<1>6. \A n \in Nat : (Held(n) => Held(n)') /\ (Reached(n) => Reached(n)')
  BY <1>5, KeepsReached, Zenon
<1>7. JournalMatchesChain'
  BY <1>2 DEF WInv, JournalMatchesChain
<1>8. ASSUME NEW d \in Children PROVE EntryMatches(d)'
  <2>1. EntryMatches(d) /\ journal[d].nonce \in Nat
    BY <1>1, Zenon DEF WInv, EntryType
  <2>2. CASE d = c
    BY <1>2, <1>6, <2>1, <2>2 DEF EntryMatches
  <2>3. CASE d # c
    BY <1>2, <1>6, <2>1, <2>3, Zenon DEF EntryMatches
  <2> QED
    BY <2>2, <2>3, Zenon
<1>9. ASSUME NEW d \in Children, EarlierRejected(d) PROVE EarlierRejected(d)'
  BY <1>2, <1>4, <1>9, Zenon DEF EarlierRejected
<1>10. RetriesInOrder'
  <2> SUFFICES ASSUME NEW d \in Children, journal'[d].status # "none" PROVE EarlierRejected(d)'
    BY Zenon DEF RetriesInOrder
  <2>1. journal[d].status # "none"
    BY <1>2, <1>4, Zenon
  <2> QED
    BY <1>9, <2>1, Zenon DEF WInv, RetriesInOrder
<1> QED
  BY <1>2, <1>3, <1>6, <1>7, <1>8, <1>9, <1>10, Zenon

\* Setting the child of a lane.
LEMMA SetOp ==
    ASSUME lane \in [Lanes -> LaneType], NEW l \in Lanes, NEW op,
           lane' = [lane EXCEPT ![l].op = op]
    PROVE  SetLane(l, lane[l].state, lane[l].next, op)
<1> DEFINE old == lane[l]
<1>1. old \in LaneType
  BY Zenon
<1>2. lane' = [lane EXCEPT ![l] = [old EXCEPT !.op = op]]
  BY Zenon
<1> HIDE DEF old
<1>3. [old EXCEPT !.op = op] = [state |-> old.state, next |-> old.next, op |-> op]
  BY <1>1 DEF LaneType
<1> QED
  BY <1>2, <1>3, Zenon DEF SetLane, old

\* A step of one lane leaves the others alone.
LEMMA OtherLanes ==
    ASSUME WInv, NEW l \in Lanes, NEW k \in Lanes, k # l,
           lane'[k] = lane[k], pc'[k] = pc[k],
           \A d \in Children : LaneOf[d[1]] # l => journal'[d] = journal[d] /\ tx'[d] = tx[d],
           \A d \in Children : EarlierRejected(d) => EarlierRejected(d)'
    PROVE  CallOK(k)' /\ BlockingOK(k)'
<1>1. CallOK(k) /\ BlockingOK(k)
  BY Zenon DEF WInv
<1>2. CallOK(k)'
  BY <1>1 DEF CallOK, Own
<1>3. BlockingOK(k)'
  BY <1>1 DEF BlockingOK
<1> QED
  BY <1>2, <1>3, Zenon

\* A step of a call that appends to the journal.
LEMMA CallStep ==
    ASSUME WInv, NEW l \in Lanes,
           NEW c \in Children, LaneOf[c[1]] = l,
           NEW s \in Statuses \ {"none", "intent"}, NEW r \in Reasons,
           Append(c, s, r), UNCHANGED <<tx, latest, crashes>>,
           r # "none" => s = "unknown",
           s = "cancelled" => tx[c] = "none",
           s = "rejected" => tx[c] \in Refusals,
           s = "unknown" /\ r \in {"rpc_rejected", "nonce_too_low"} => tx[c] \in Refusals,
           s \in Mined => tx[c] = s,
           \A d \in Children : LaneOf[d[1]] = l /\ journal[d].status \in Blocking => d = c,
           NEW st \in LaneStates, NEW nx \in Nat, NEW op \in Children \cup {NoChild},
           SetLane(l, st, nx, op), Reached(nx),
           NEW step \in Steps, GoTo(l, step),
           NEW al \in Nat, alloc' = al, Reached(al), holder' \in Lanes \cup {None},
           st = "ready" => s \notin Blocking,
           st \in {"reserved", "signed", "recovery"} => op = c,
           \/ step = "idle"
           \/ step = "signed" /\ st = "signed" /\ s = "signed" /\ op = c /\ tx[c] = "none"
           \/ step = "confirming" /\ st = "ready" /\ s = "broadcast" /\ op = c
           \/ step = "proving" /\ st = "recovery" /\ s = "unknown" /\ r = "nonce_too_low" /\ op = c
    PROVE  WInv'
<1>1. /\ journal' \in [Children -> EntryType]
      /\ \A d \in Children \ {c} : journal'[d] = journal[d]
      /\ journal'[c] = [status |-> s, nonce |-> journal[c].nonce, reason |-> r]
      /\ JournalMatchesChain'
      /\ \A d \in Children : EntryMatches(d)'
      /\ RetriesInOrder'
      /\ \A d \in Children : EarlierRejected(d) => EarlierRejected(d)'
      /\ \A n \in Nat : Reached(n) => Reached(n)'
  BY AppendStep, Zenon
<1>2. /\ lane \in [Lanes -> LaneType] /\ pc \in [Lanes -> Steps]
  BY Zenon DEF WInv, TypeOK, LaneType
<1> DEFINE new == [state |-> st, next |-> nx, op |-> op]
<1>3. new \in LaneType /\ lane' = [lane EXCEPT ![l] = new] /\ pc' = [pc EXCEPT ![l] = step]
  BY Zenon DEF LaneType, SetLane, GoTo
<1>4. new.state = st /\ new.next = nx /\ new.op = op
  BY Zenon
<1> HIDE DEF new
<1>5. /\ lane'[l] = new /\ pc'[l] = step
      /\ \A k \in Lanes \ {l} : lane'[k] = lane[k] /\ pc'[k] = pc[k]
  BY <1>2, <1>3, Zenon
<1>6. TypeOK'
  <2>1. lane' \in [Lanes -> LaneType] /\ pc' \in [Lanes -> Steps]
    BY <1>2, <1>3, Zenon
  <2> QED
    BY <1>1, <2>1, Zenon DEF WInv, TypeOK, LaneType, EntryType
<1>7. CallOK(l)'
  BY <1>1, <1>4, <1>5, SMTT(30) DEF CallOK, Own
<1>8. BlockingOK(l)'
  BY <1>1, <1>4, <1>5, SMTT(30) DEF BlockingOK
<1>9. \A k \in Lanes \ {l} : CallOK(k)' /\ BlockingOK(k)'
  BY <1>1, <1>5, OtherLanes
<1>10. \A k \in Lanes : Reached(lane[k].next)'
  <2>1. \A k \in Lanes : lane'[k].next \in Nat /\ \A m \in Nat : m < lane'[k].next => Held(m)
    BY <1>2, <1>4, <1>5, Zenon DEF WInv, LaneType, Reached
  <2> QED
    BY <1>1, <2>1, Zenon DEF Reached
<1>11. Reached(alloc)'
  BY <1>1, Zenon DEF Reached
<1> QED
  BY <1>1, <1>6, <1>7, <1>8, <1>9, <1>10, <1>11, Zenon DEF WInv

\* A step that settles the entry of a child and readies its lane.
LEMMA SettleStep ==
    ASSUME WInv, NEW l \in Lanes,
           NEW c \in Children, LaneOf[c[1]] = l,
           NEW s \in Mined \cup {"rejected", "cancelled"},
           Append(c, s, "none"), UNCHANGED <<tx, latest, crashes>>,
           s = "cancelled" => tx[c] = "none",
           s = "rejected" => tx[c] \in Refusals,
           s \in Mined => tx[c] = s,
           \A d \in Children : LaneOf[d[1]] = l /\ journal[d].status \in Blocking => d = c,
           NEW nx \in Nat, SetLane(l, "ready", nx, NoChild), Reached(nx), GoTo(l, "idle"),
           NEW al \in Nat, alloc' = al, Reached(al), holder' \in Lanes \cup {None}
    PROVE  WInv'
<1>1. /\ s \in Statuses \ {"none", "intent"} /\ s \notin Blocking /\ s # "unknown" /\ "none" \in Reasons
      /\ "ready" \in LaneStates /\ "idle" \in Steps /\ NoChild \in Children \cup {NoChild}
  BY Zenon DEF Statuses, Mined, Blocking, Reasons, LaneStates, Steps
<1> QED
  BY <1>1, CallStep

\* A step of a call, or of start-up, that journals nothing.
LEMMA LaneStep ==
    ASSUME WInv, NEW l \in Lanes, UNCHANGED <<journal, tx, latest, crashes>>,
           NEW st \in LaneStates, NEW nx \in Nat, NEW op \in Children \cup {NoChild},
           SetLane(l, st, nx, op), Reached(nx),
           NEW step \in Steps, GoTo(l, step),
           NEW al \in Nat, alloc' = al, Reached(al), holder' \in Lanes \cup {None},
           st = "ready" =>
              \A d \in Children : LaneOf[d[1]] = l => journal[d].status \notin Blocking,
           st \in {"reserved", "signed", "recovery"} => st = lane[l].state /\ op = lane[l].op,
           \/ step = "idle"
           \/ /\ step = "locking" /\ st = "ready"
              /\ op \in Children /\ LaneOf[op[1]] = l /\ EarlierRejected(op)
    PROVE  WInv'
<1>1. /\ lane \in [Lanes -> LaneType] /\ pc \in [Lanes -> Steps]
  BY Zenon DEF WInv, TypeOK, LaneType
<1> DEFINE new == [state |-> st, next |-> nx, op |-> op]
<1>2. new \in LaneType /\ lane' = [lane EXCEPT ![l] = new] /\ pc' = [pc EXCEPT ![l] = step]
  BY Zenon DEF LaneType, SetLane, GoTo
<1>3. new.state = st /\ new.next = nx /\ new.op = op
  BY Zenon
<1> HIDE DEF new
<1>4. /\ lane'[l] = new /\ pc'[l] = step
      /\ \A k \in Lanes \ {l} : lane'[k] = lane[k] /\ pc'[k] = pc[k]
  BY <1>1, <1>2, Zenon
<1>5. TypeOK'
  <2>1. lane' \in [Lanes -> LaneType] /\ pc' \in [Lanes -> Steps]
    BY <1>1, <1>2, Zenon
  <2> QED
    BY <2>1, Zenon DEF WInv, TypeOK, LaneType
<1>6. /\ \A d \in Children : EarlierRejected(d) => EarlierRejected(d)'
      /\ \A n \in Nat : Held(n) <=> Held(n)'
      /\ \A d \in Children : EntryMatches(d)'
      /\ JournalMatchesChain' /\ RetriesInOrder'
  BY DEF WInv, EarlierRejected, Held, Reached, EntryMatches, JournalMatchesChain, RetriesInOrder
<1>7. CallOK(l)'
  BY <1>3, <1>4, <1>6, Zenon DEF CallOK, Own, EarlierRejected
<1>8. BlockingOK(l)'
  BY <1>3, <1>4, Zenon DEF WInv, BlockingOK
<1>9. \A k \in Lanes \ {l} : CallOK(k)' /\ BlockingOK(k)'
  BY <1>4, <1>6, OtherLanes, Zenon
<1>10. \A k \in Lanes : Reached(lane[k].next)'
  <2>1. \A k \in Lanes : lane'[k].next \in Nat /\ \A m \in Nat : m < lane'[k].next => Held(m)
    BY <1>1, <1>3, <1>4, Zenon DEF WInv, LaneType, Reached
  <2> QED
    BY <1>6, <2>1, Zenon DEF Reached
<1>11. Reached(alloc)'
  BY <1>6, Zenon DEF Reached
<1> QED
  BY <1>5, <1>6, <1>7, <1>8, <1>9, <1>10, <1>11, Zenon DEF WInv

\* reserve_with_nonce: the intent gets a nonce that is reached.
LEMMA ReserveStep ==
    ASSUME WInv, NEW l \in Lanes, ReserveNonce(l)
    PROVE  WInv'
<1> DEFINE c == lane[l].op
           n == Larger(alloc, lane[l].next)
           entry == [status |-> "intent", nonce |-> n, reason |-> "none"]
           new == [state |-> "reserved", next |-> 0, op |-> c]
<1>1. /\ lane \in [Lanes -> LaneType] /\ pc \in [Lanes -> Steps]
      /\ journal \in [Children -> EntryType] /\ alloc \in Nat
  BY Zenon DEF WInv, TypeOK, LaneType, EntryType
<1>2. c \in Children /\ LaneOf[c[1]] = l /\ EarlierRejected(c) /\ lane[l].state = "ready"
  BY Zenon DEF ReserveNonce, WInv, CallOK, Own
<1>3. journal[c].status = "none" /\ tx[c] = "none"
  BY <1>2, Zenon DEF ReserveNonce, IntentAllowed, WInv, EntryMatches
<1>4. n \in Nat /\ Reached(n)
  BY <1>1, Zenon DEF WInv, LaneType, Larger
<1>5. /\ journal' = [journal EXCEPT ![c] = entry] /\ alloc' = n
      /\ lane' = [lane EXCEPT ![l] = new] /\ pc' = [pc EXCEPT ![l] = "reserved"]
      /\ holder' = l /\ UNCHANGED <<tx, latest, crashes>>
  BY Zenon DEF ReserveNonce, SetLane, GoTo
<1>6. entry \in EntryType /\ new \in LaneType /\ "reserved" \in Steps
  BY <1>2, <1>4, Zenon DEF EntryType, LaneType, Statuses, Reasons, LaneStates, Steps
<1>7. /\ entry.status = "intent" /\ entry.nonce = n /\ entry.reason = "none"
      /\ new.state = "reserved" /\ new.next = 0 /\ new.op = c
  BY Zenon
<1> HIDE DEF entry, new, n, c
<1>8. /\ journal'[c] = entry /\ \A d \in Children \ {c} : journal'[d] = journal[d]
      /\ lane'[l] = new /\ pc'[l] = "reserved"
      /\ \A k \in Lanes \ {l} : lane'[k] = lane[k] /\ pc'[k] = pc[k]
  BY <1>1, <1>2, <1>5, Zenon
<1>9. TypeOK'
  <2>1. /\ lane' \in [Lanes -> LaneType] /\ pc' \in [Lanes -> Steps]
        /\ journal' \in [Children -> EntryType]
    BY <1>1, <1>5, <1>6, Zenon
  <2> QED
    BY <1>4, <1>5, <2>1, Zenon DEF WInv, TypeOK, LaneType, EntryType
<1>10. \A m \in Nat : (Held(m) => Held(m)') /\ (Reached(m) => Reached(m)')
  BY <1>3, <1>5, <1>8, KeepsReached, Zenon
<1>11. JournalMatchesChain'
  BY <1>5, <1>7, <1>8, Zenon DEF WInv, JournalMatchesChain, Mined
<1>12. ASSUME NEW d \in Children PROVE EntryMatches(d)'
  <2>1. EntryMatches(d) /\ journal[d].nonce \in Nat
    BY <1>1, Zenon DEF WInv, EntryType
  <2>2. CASE d = c
    <3>1. Reached(journal[d].nonce)'
      BY <1>4, <1>7, <1>8, <1>10, <2>2, Zenon DEF Reached
    <3> QED
      BY <1>3, <1>5, <1>7, <1>8, <2>2, <3>1, Zenon DEF EntryMatches, Mined
  <2>3. CASE d # c
    BY <1>5, <1>8, <1>10, <2>1, <2>3, Zenon DEF EntryMatches
  <2> QED
    BY <2>2, <2>3, Zenon
<1>13. \A d \in Children : EarlierRejected(d) => EarlierRejected(d)'
  BY <1>3, <1>8, Zenon DEF EarlierRejected
<1>14. RetriesInOrder'
  BY <1>2, <1>8, <1>13 DEF WInv, RetriesInOrder
<1>15. CallOK(l)'
  BY <1>2, <1>7, <1>8, Zenon DEF CallOK, Own
<1>16. BlockingOK(l)'
  BY <1>2, <1>7, <1>8 DEF WInv, BlockingOK, Blocking
<1>17. \A k \in Lanes \ {l} : CallOK(k)' /\ BlockingOK(k)'
  BY <1>2, <1>5, <1>8, <1>13, OtherLanes
<1>18. \A k \in Lanes : Reached(lane[k].next)'
  <2>1. \A k \in Lanes : lane'[k].next \in Nat /\ \A m \in Nat : m < lane'[k].next => Held(m)
    BY <1>1, <1>7, <1>8 DEF WInv, LaneType, Reached
  <2> QED
    BY <1>10, <2>1, Zenon DEF Reached
<1>19. Reached(alloc)'
  BY <1>4, <1>5, <1>10, Zenon DEF Reached
<1> QED
  BY <1>9, <1>11, <1>12, <1>14, <1>15, <1>16, <1>17, <1>18, <1>19, Zenon DEF WInv

\* The bytes of a signed transaction that was never sent leave the process.
LEMMA SendStep ==
    ASSUME WInv, NEW l \in Lanes, Send(l)
    PROVE  WInv'
<1> DEFINE c == lane[l].op
<1>1. tx \in [Children -> TxStates] /\ pc \in [Lanes -> Steps]
  BY Zenon DEF WInv, TypeOK
<1>2. /\ c \in Children /\ LaneOf[c[1]] = l /\ journal[c].status = "signed" /\ tx[c] = "none"
      /\ lane[l].state = "signed"
  BY Zenon DEF Send, WInv, CallOK, Own
<1>3. /\ UNCHANGED <<journal, lane, alloc, holder, latest, crashes>>
      /\ tx' = [tx EXCEPT ![c] = "inflight"] /\ pc' = [pc EXCEPT ![l] = "sending"]
  BY Zenon DEF Send, GoTo
<1>4. lane[l].op = c
  BY Zenon
<1> HIDE DEF c
<1>5. /\ tx'[c] = "inflight" /\ \A d \in Children \ {c} : tx'[d] = tx[d]
      /\ pc'[l] = "sending" /\ \A k \in Lanes \ {l} : pc'[k] = pc[k]
  BY <1>1, <1>2, <1>3, Zenon
<1>6. TypeOK'
  <2>1. tx' \in [Children -> TxStates] /\ pc' \in [Lanes -> Steps]
    BY <1>1, <1>3, Zenon DEF TxStates, Steps
  <2> QED
    BY <1>3, <2>1, Zenon DEF WInv, TypeOK
<1>7. \A m \in Nat : (Held(m) => Held(m)') /\ (Reached(m) => Reached(m)')
  BY <1>2, <1>3, <1>5, KeepsReached, Zenon
<1>8. JournalMatchesChain'
  BY <1>2, <1>3, <1>5, Zenon DEF WInv, JournalMatchesChain, Mined
<1>9. ASSUME NEW d \in Children PROVE EntryMatches(d)'
  <2>1. EntryMatches(d) /\ journal[d].nonce \in Nat
    BY Zenon DEF WInv, TypeOK
  <2>2. Reached(journal[d].nonce)' /\ (Held(journal[d].nonce) => Held(journal[d].nonce)')
    BY <1>3, <1>7, <2>1, Zenon DEF EntryMatches, Reached
  <2> QED
    BY <1>2, <1>3, <1>5, <2>1, <2>2, Zenon DEF EntryMatches, Mined
<1>10. \A d \in Children : EarlierRejected(d) => EarlierRejected(d)'
  BY <1>3, Zenon DEF EarlierRejected
<1>11. RetriesInOrder'
  BY <1>3, <1>10, ZenonT(30) DEF WInv, RetriesInOrder
<1>12. CallOK(l)' /\ BlockingOK(l)'
  BY <1>2, <1>3, <1>4, <1>5, SMTT(30) DEF WInv, CallOK, Own, BlockingOK
<1>13. \A k \in Lanes \ {l} : CallOK(k)' /\ BlockingOK(k)'
  BY <1>2, <1>3, <1>5, <1>10, OtherLanes
<1>14. \A k \in Lanes : Reached(lane[k].next)'
  BY <1>3, <1>7, Zenon DEF WInv, TypeOK, Reached
<1>15. Reached(alloc)'
  BY <1>3, <1>7, Zenon DEF WInv, TypeOK, Reached
<1> QED
  BY <1>6, <1>8, <1>9, <1>11, <1>12, <1>13, <1>14, <1>15, Zenon DEF WInv

\* What the network may do: settle nothing twice, and let go of no nonce.
LEMMA NetworkStep ==
    ASSUME WInv, UNCHANGED <<journal, lane, pc, alloc, holder, crashes>>,
           tx' \in [Children -> TxStates], latest' \in Nat,
           \A d \in Children : tx[d] \in {"none"} \cup Mined \cup Refusals => tx'[d] = tx[d],
           \A m \in Nat : Held(m) => Held(m)',
           \A d \in Children : /\ tx'[d] \in Mined => journal[d].nonce < latest'
                               /\ tx'[d] = "replaced" => Held(journal[d].nonce)'
    PROVE  WInv'
<1>1. TypeOK'
  BY Zenon DEF WInv, TypeOK
<1>2. \A m \in Nat : Reached(m) => Reached(m)'
  BY Zenon DEF Reached
<1>3. JournalMatchesChain'
  BY Zenon DEF WInv, JournalMatchesChain
<1>4. ASSUME NEW d \in Children PROVE EntryMatches(d)'
  <2>1. EntryMatches(d) /\ journal[d].nonce \in Nat /\ tx'[d] \in TxStates
    BY Zenon DEF WInv, TypeOK
  <2>2. Reached(journal[d].nonce)'
    BY <1>2, <2>1, Zenon DEF EntryMatches, Reached
  <2> QED
    BY <2>1, <2>2, Zenon DEF EntryMatches
<1>5. RetriesInOrder'
  BY ZenonT(30) DEF WInv, RetriesInOrder, EarlierRejected
<1>6. \A l \in Lanes : CallOK(l)' /\ BlockingOK(l)'
  BY DEF WInv, CallOK, Own, EarlierRejected, BlockingOK
<1>7. (\A l \in Lanes : Reached(lane[l].next)') /\ Reached(alloc)'
  BY <1>2, Zenon DEF WInv, TypeOK, Reached
<1> QED
  BY <1>1, <1>3, <1>4, <1>5, <1>6, <1>7, Zenon DEF WInv

\* The node takes a request: what it replaces leaves the pool to it.
LEMMA NodeTakesStep ==
    ASSUME WInv, NEW c \in Children, NodeTakes(c)
    PROVE  WInv'
<1>1. /\ tx \in [Children -> TxStates] /\ latest \in Nat /\ tx[c] = "inflight"
      /\ \A d \in Children : journal[d].nonce \in Nat
  BY Zenon DEF WInv, TypeOK, NodeTakes
<1>2. /\ UNCHANGED <<journal, lane, pc, alloc, holder, latest, crashes>>
      /\ tx' = [d \in Children |-> IF d = c THEN "pool"
                                   ELSE IF d \in Occupying(NonceOf(c)) THEN "replaced" ELSE tx[d]]
  BY Zenon DEF NodeTakes
<1>3. /\ tx'[c] = "pool"
      /\ \A d \in Children : d # c /\ tx'[d] # tx[d] =>
            tx[d] = "pool" /\ journal[d].nonce = journal[c].nonce /\ tx'[d] = "replaced"
  BY <1>2, Zenon DEF Occupying, NonceOf
<1>4. tx' \in [Children -> TxStates]
  BY <1>1, <1>2, Zenon DEF TxStates
<1>5. ASSUME NEW m \in Nat, Held(m) PROVE Held(m)'
  <2>1. CASE m < latest
    BY <1>2, <2>1, Zenon DEF Held
  <2>2. CASE m = journal[c].nonce
    BY <1>2, <1>3, <2>2, Zenon DEF Held
  <2>3. CASE m # journal[c].nonce /\ ~(m < latest)
    <3>1. PICK d \in Children : tx[d] = "pool" /\ journal[d].nonce = m
      BY <1>5, <2>3, Zenon DEF Held
    <3>2. tx'[d] = "pool"
      BY <1>1, <1>3, <2>3, <3>1, Zenon
    <3> QED
      BY <1>2, <3>1, <3>2, Zenon DEF Held
  <2> QED
    BY <2>1, <2>2, <2>3, Zenon
<1>6. Held(journal[c].nonce)'
  BY <1>2, <1>3, Zenon DEF Held
<1>7. ASSUME NEW d \in Children
      PROVE  /\ tx[d] \in {"none"} \cup Mined \cup Refusals => tx'[d] = tx[d]
             /\ tx'[d] \in Mined => journal[d].nonce < latest'
             /\ tx'[d] = "replaced" => Held(journal[d].nonce)'
  <2>1. EntryMatches(d)
    BY Zenon DEF WInv
  <2>2. CASE d = c
    BY <1>1, <1>3, <2>2, Zenon DEF Mined, Refusals
  <2>3. CASE d # c /\ tx'[d] = tx[d]
    BY <1>1, <1>2, <1>5, <2>1, <2>3 DEF EntryMatches, Held
  <2>4. CASE d # c /\ tx'[d] # tx[d]
    <3>1. tx[d] = "pool" /\ journal[d].nonce = journal[c].nonce /\ tx'[d] = "replaced"
      BY <1>3, <2>4, Zenon
    <3>2. Held(journal[d].nonce)'
      BY <1>2, <1>6, <3>1, Zenon DEF Held
    <3> QED
      BY <3>1, <3>2, Zenon DEF Mined, Refusals
  <2> QED
    BY <2>2, <2>3, <2>4, Zenon
<1> QED
  BY <1>1, <1>2, <1>4, <1>5, <1>7, NetworkStep, Zenon

\* The node refuses a request, or it is lost.
LEMMA NodeRefusesStep ==
    ASSUME WInv, NEW c \in Children, NodeRefuses(c) \/ NetworkLoses(c)
    PROVE  WInv'
<1>1. /\ tx \in [Children -> TxStates] /\ latest \in Nat /\ tx[c] = "inflight"
      /\ \A d \in Children : journal[d].nonce \in Nat
  BY Zenon DEF WInv, TypeOK, NodeRefuses, NetworkLoses
<1>2. /\ UNCHANGED <<journal, lane, pc, alloc, holder, latest, crashes>>
      /\ \E s \in {"lost"} \cup Refusals : tx' = [tx EXCEPT ![c] = s]
  BY Zenon DEF NodeRefuses, NetworkLoses, SetTx, Refusals
<1>3. /\ tx'[c] \in {"lost"} \cup Refusals
      /\ \A d \in Children \ {c} : tx'[d] = tx[d]
      /\ tx' \in [Children -> TxStates]
  BY <1>1, <1>2, Zenon DEF TxStates
<1>4. \A m \in Nat : Held(m) => Held(m)'
  BY <1>1, <1>2, <1>3, Zenon DEF Held
<1>5. ASSUME NEW d \in Children
      PROVE  /\ tx[d] \in {"none"} \cup Mined \cup Refusals => tx'[d] = tx[d]
             /\ tx'[d] \in Mined => journal[d].nonce < latest'
             /\ tx'[d] = "replaced" => Held(journal[d].nonce)'
  <2>1. EntryMatches(d)
    BY Zenon DEF WInv
  <2>2. CASE d = c
    BY <1>1, <1>3, <2>2, Zenon DEF Mined, Refusals
  <2>3. CASE d # c
    BY <1>1, <1>2, <1>3, <1>4, <2>1, <2>3, SMTT(30) DEF EntryMatches, Held
  <2> QED
    BY <2>2, <2>3, Zenon
<1> QED
  BY <1>1, <1>2, <1>3, <1>4, <1>5, NetworkStep, Zenon

\* A block with the transaction at the account's next nonce.
LEMMA MineStep ==
    ASSUME WInv, NEW c \in Children, Mine(c)
    PROVE  WInv'
<1>1. /\ tx \in [Children -> TxStates] /\ latest \in Nat /\ tx[c] = "pool"
      /\ journal[c].nonce = latest
      /\ \A d \in Children : journal[d].nonce \in Nat
  BY Zenon DEF WInv, TypeOK, Mine, NonceOf
<1>2. /\ UNCHANGED <<journal, lane, pc, alloc, holder, crashes>> /\ latest' = latest + 1
      /\ \E s \in Mined : tx' = [tx EXCEPT ![c] = s]
  BY Zenon DEF Mine, SetTx
<1>3. /\ tx'[c] \in Mined
      /\ \A d \in Children \ {c} : tx'[d] = tx[d]
      /\ tx' \in [Children -> TxStates]
  BY <1>1, <1>2, Zenon DEF TxStates
<1>4. ASSUME NEW m \in Nat, Held(m) PROVE Held(m)'
  <2>1. CASE m < latest \/ m = latest
    BY <1>1, <1>2, <2>1 DEF Held
  <2>2. CASE m > latest
    <3>1. PICK d \in Children : tx[d] = "pool" /\ journal[d].nonce = m
      BY <1>1, <1>4, <2>2 DEF Held
    <3>2. d # c
      BY <1>1, <2>2, <3>1
    <3> QED
      BY <1>2, <1>3, <3>1, <3>2, Zenon DEF Held
  <2> QED
    BY <1>1, <2>1, <2>2
<1>5. ASSUME NEW d \in Children
      PROVE  /\ tx[d] \in {"none"} \cup Mined \cup Refusals => tx'[d] = tx[d]
             /\ tx'[d] \in Mined => journal[d].nonce < latest'
             /\ tx'[d] = "replaced" => Held(journal[d].nonce)'
  <2>1. EntryMatches(d)
    BY Zenon DEF WInv
  <2>2. CASE d = c
    BY <1>1, <1>2, <1>3, <2>2 DEF Mined, Refusals
  <2>3. CASE d # c
    <3>1. tx'[d] = tx[d]
      BY <1>3, <2>3, Zenon
    <3>2. tx[d] \in Mined => journal[d].nonce < latest'
      BY <1>1, <1>2, <2>1, SMTT(30) DEF EntryMatches
    <3>3. tx[d] = "replaced" => Held(journal[d].nonce)'
      BY <1>1, <1>2, <1>4, <2>1 DEF EntryMatches, Held
    <3> QED
      BY <3>1, <3>2, <3>3, Zenon
  <2> QED
    BY <2>2, <2>3, Zenon
<1> QED
  BY <1>1, <1>2, <1>3, <1>4, <1>5, NetworkStep

\* A restart forgets the lanes and the lock, nothing else.
LEMMA CrashStep == ASSUME WInv, Crash PROVE WInv'
<1>1. /\ UNCHANGED <<journal, tx, latest>> /\ alloc' = 0 /\ holder' = None
      /\ lane' = [l \in Lanes |-> DownLane] /\ pc' = [l \in Lanes |-> "idle"]
      /\ crashes' = crashes + 1
  BY Zenon DEF Crash
<1>2. DownLane \in LaneType /\ DownLane.state = "down" /\ DownLane.next = 0
  BY Zenon DEF DownLane, LaneType, LaneStates
<1>3. TypeOK'
  BY <1>1, <1>2, SMTT(30) DEF WInv, TypeOK, LaneType, Steps
<1>4. /\ JournalMatchesChain' /\ RetriesInOrder'
      /\ \A d \in Children : EntryMatches(d)'
  BY <1>1 DEF WInv, JournalMatchesChain, RetriesInOrder, EarlierRejected, EntryMatches, Held, Reached
<1>5. \A l \in Lanes : CallOK(l)'
  BY <1>1, Zenon DEF CallOK
<1>6. \A l \in Lanes : BlockingOK(l)'
  BY <1>1, <1>2, Zenon DEF WInv, BlockingOK
<1>7. (\A l \in Lanes : Reached(lane[l].next)') /\ Reached(alloc)'
  BY <1>1, <1>2 DEF Reached
<1> QED
  BY <1>3, <1>4, <1>5, <1>6, <1>7, Zenon DEF WInv

\* Nothing journaled, nothing sent.
LEMMA InitWInv == ASSUME Init PROVE WInv
<1>1. /\ NoEntry \in EntryType /\ NoEntry.status = "none" /\ NoEntry.nonce = 0 /\ NoEntry.reason = "none"
      /\ DownLane \in LaneType /\ DownLane.state = "down" /\ DownLane.next = 0
  BY Zenon DEF NoEntry, EntryType, Statuses, Reasons, DownLane, LaneType, LaneStates
<1>2. TypeOK
  BY <1>1, Zenon DEF Init, TypeOK, LaneType, EntryType, Steps, TxStates
<1>3. JournalMatchesChain /\ RetriesInOrder
  BY <1>1, Zenon DEF Init, JournalMatchesChain, RetriesInOrder, Mined
<1>4. \A d \in Children : EntryMatches(d)
  BY <1>1 DEF Init, EntryMatches, Reached, Mined
<1>5. \A l \in Lanes : CallOK(l) /\ BlockingOK(l) /\ Reached(lane[l].next)
  BY <1>1 DEF Init, CallOK, BlockingOK, Reached, Blocking
<1>6. Reached(alloc)
  BY DEF Init, Reached
<1> QED
  BY <1>2, <1>3, <1>4, <1>5, <1>6, Zenon DEF WInv

\* Every step of the lanes, of the network and of the process keeps WInv.
LEMMA NextWInv == ASSUME WInv, [Next]_vars PROVE WInv'
<1>t. /\ lane \in [Lanes -> LaneType] /\ pc \in [Lanes -> Steps]
      /\ journal \in [Children -> EntryType] /\ tx \in [Children -> TxStates]
      /\ alloc \in Nat /\ latest \in Nat /\ holder \in Lanes \cup {None} /\ Reached(alloc)
  BY Zenon DEF WInv, TypeOK, LaneType, EntryType
<1>n. /\ \A d \in Children : NonceOf(d) \in Nat /\ Reached(NonceOf(d))
      /\ \A k \in Lanes : lane[k].next \in Nat /\ Reached(lane[k].next)
      /\ NoChild \in Children \cup {NoChild}
  BY <1>t, Zenon DEF WInv, EntryMatches, NonceOf, EntryType, LaneType
<1>p. PendingNonce \in Nat /\ Reached(PendingNonce)
  BY PendingOK, Zenon DEF WInv
<1>l. \A m, n \in Nat : /\ Larger(m, n) \in Nat
                        /\ Reached(m) /\ Reached(n) => Reached(Larger(m, n))
  BY Zenon DEF Larger
\* One past the nonce of a transaction that is mined, or was taken, is reached.
<1>a. \A d \in Children : tx[d] \in {"pool", "replaced"} \cup Mined =>
         NonceOf(d) + 1 \in Nat /\ Reached(NonceOf(d) + 1)
  <2> SUFFICES ASSUME NEW d \in Children, tx[d] \in {"pool", "replaced"} \cup Mined
               PROVE  NonceOf(d) + 1 \in Nat /\ Reached(NonceOf(d) + 1)
    BY Zenon
  <2>1. Held(NonceOf(d))
    BY Zenon DEF WInv, EntryMatches, NonceOf, Held
  <2> QED
    BY <1>n, <2>1 DEF Reached
<1>b. ASSUME NEW l \in Lanes, NEW c \in Children, LaneOf[c[1]] = l,
             journal[c].status \in Blocking \/ lane[l].state = "ready"
      PROVE  \A d \in Children : LaneOf[d[1]] = l /\ journal[d].status \in Blocking => d = c
  BY <1>b, Zenon DEF WInv, BlockingOK
<1>h. \A l \in Lanes : Release(l) => holder' \in Lanes \cup {None}
  BY <1>t, Zenon DEF Release
<1>m. Mined \subseteq Statuses \ {"none", "intent"} /\ \A s \in Mined : s \notin Blocking
  BY Zenon DEF Mined, Statuses, Blocking
<1>r. {"none", "transport", "rpc_rejected", "nonce_too_low"} \subseteq Reasons
  BY Zenon DEF Reasons
<1>s. "idle" \in Steps /\ "ready" \in LaneStates
  BY Zenon DEF Steps, LaneStates
<1>1. ASSUME NEW l \in Lanes, NEW b \in Bases, ReplayBroadcast(l, b) PROVE WInv'
  <2> DEFINE c == CurrentChild(b)
             nx == Larger(lane[l].next, NonceOf(c) + 1)
  <2>1. c \in Children /\ c[1] = b
    BY CurrentOK, Zenon
  <2>2. /\ LaneOf[c[1]] = l /\ pc[l] = "idle" /\ lane[l].state = "ready" /\ tx[c] \in Mined /\ tx[c] \notin {"rejected", "cancelled"}
        /\ Append(c, tx[c], "none") /\ SetLane(l, "ready", nx, NoChild)
        /\ UNCHANGED <<pc, alloc, holder, tx, latest, crashes>>
    BY <1>1, <2>1, Zenon DEF ReplayBroadcast, Mined
  <2>3. nx \in Nat /\ Reached(nx)
    BY <1>a, <1>l, <1>n, <2>1, <2>2, Zenon
  <2>4. GoTo(l, "idle")
    BY <1>t, <2>2, Zenon DEF GoTo
  <2>5. \A d \in Children : LaneOf[d[1]] = l /\ journal[d].status \in Blocking => d = c
    BY <1>b, <2>1, <2>2, Zenon
  <2> HIDE DEF c, nx
  <2> QED
    BY <1>t, <1>m, <2>1, <2>2, <2>3, <2>4, <2>5, SettleStep, Zenon
<1>2. ASSUME NEW l \in Lanes, NEW b \in Bases, StartSubmission(l, b) PROVE WInv'
  <2> DEFINE c == CurrentChild(b)
  <2>1. c \in Children /\ c[1] = b /\ EarlierRejected(c)
    BY CurrentOK, Zenon
  <2>2. /\ LaneOf[c[1]] = l /\ lane[l].state = "ready"
        /\ GoTo(l, "locking") /\ lane' = [lane EXCEPT ![l].op = c]
        /\ UNCHANGED <<journal, alloc, holder, tx, latest, crashes>>
    BY <1>2, <2>1, Zenon DEF StartSubmission
  <2>3. SetLane(l, "ready", lane[l].next, c)
    BY <1>t, <2>2, SetOp, Zenon
  <2>4. \A d \in Children : LaneOf[d[1]] = l => journal[d].status \notin Blocking
    BY <2>2, Zenon DEF WInv, BlockingOK
  <2>5. "locking" \in Steps
    BY ZenonT(30) DEF Steps
  <2> HIDE DEF c
  <2> QED
    BY <1>t, <1>n, <1>s, <2>1, <2>2, <2>3, <2>4, <2>5, LaneStep, SMTT(30)
<1>3. ASSUME NEW l \in Lanes, GiveUpLock(l) PROVE WInv'
  <2>1. lane[l].state = "ready"
    BY <1>3, Zenon DEF GiveUpLock, WInv, CallOK
  <2>2. SetLane(l, "ready", lane[l].next, NoChild)
    BY <1>3, <1>t, <2>1, SetOp, Zenon DEF GiveUpLock
  <2>3. /\ GoTo(l, "idle") /\ UNCHANGED <<journal, holder, tx, latest, crashes>>
        /\ alloc' \in Nat /\ (alloc' = alloc \/ alloc' = Larger(alloc, lane[l].next))
    BY <1>3, <1>t, <1>l, <1>n, Zenon DEF GiveUpLock
  <2>4. \A d \in Children : LaneOf[d[1]] = l => journal[d].status \notin Blocking
    BY <2>1, Zenon DEF WInv, BlockingOK
  <2>5. \E al \in Nat : alloc' = al /\ Reached(al)
    BY <1>t, <1>l, <1>n, <2>3, Zenon
  <2> QED
    BY <1>t, <1>n, <1>s, <2>2, <2>3, <2>4, <2>5, LaneStep, SMTT(30)
<1>4. ASSUME NEW l \in Lanes, Sign(l) PROVE WInv'
  <2> DEFINE c == lane[l].op
  <2>1. /\ c \in Children /\ LaneOf[c[1]] = l /\ journal[c].status = "intent"
        /\ tx[c] = "none"
    BY <1>4 DEF Sign, WInv, CallOK, Own, EntryMatches
  <2>2. /\ Append(c, "signed", "none") /\ SetLane(l, "signed", 0, c) /\ GoTo(l, "signed")
        /\ UNCHANGED <<alloc, holder, tx, latest, crashes>>
    BY <1>4, Zenon DEF Sign
  <2>3. \A d \in Children : LaneOf[d[1]] = l /\ journal[d].status \in Blocking => d = c
    BY <1>b, <2>1, Zenon DEF Blocking
  <2>4. /\ "signed" \in Statuses \ {"none", "intent"} /\ "signed" \in LaneStates /\ "signed" \in Steps
        /\ 0 \in Nat /\ Reached(0) /\ "signed" \notin Mined
    BY DEF Statuses, LaneStates, Steps, Reached, Mined
  <2> HIDE DEF c
  <2> QED
    BY <1>t, <1>r, <2>1, <2>2, <2>3, <2>4, CallStep, SMTT(30)
<1>5. ASSUME NEW l \in Lanes, SignFails(l) PROVE WInv'
  <2> DEFINE c == lane[l].op
  <2>1. /\ c \in Children /\ LaneOf[c[1]] = l /\ journal[c].status = "intent"
        /\ tx[c] = "none"
    BY <1>5 DEF SignFails, WInv, CallOK, Own, EntryMatches
  <2>2. /\ Append(c, "cancelled", "none") /\ SetLane(l, "ready", NonceOf(c), NoChild)
        /\ GoTo(l, "idle") /\ Release(l) /\ UNCHANGED <<alloc, tx, latest, crashes>>
    BY <1>5, Zenon DEF SignFails
  <2>3. \A d \in Children : LaneOf[d[1]] = l /\ journal[d].status \in Blocking => d = c
    BY <1>b, <2>1, Zenon DEF Blocking
  <2>4. "cancelled" \in Statuses \ {"none", "intent"} /\ "cancelled" \notin Mined \cup Blocking
    BY ZenonT(30) DEF Statuses, Mined, Blocking
  <2> HIDE DEF c
  <2> QED
    BY <1>t, <1>n, <1>h, <2>1, <2>2, <2>3, <2>4, SettleStep, ZenonT(30)
<1>6. ASSUME NEW l \in Lanes, BroadcastAccepted(l) PROVE WInv'
  <2> DEFINE c == lane[l].op
             nx == NonceOf(c) + 1
  <2>1. /\ c \in Children /\ LaneOf[c[1]] = l /\ journal[c].status = "signed"
        /\ tx[c] \in {"pool", "replaced"} \cup Mined
    BY <1>6, Zenon DEF BroadcastAccepted, WInv, CallOK, Own
  <2>2. /\ Append(c, "broadcast", "none") /\ SetLane(l, "ready", nx, c) /\ alloc' = nx
        /\ GoTo(l, "confirming") /\ Release(l) /\ UNCHANGED <<tx, latest, crashes>>
    BY <1>6, Zenon DEF BroadcastAccepted
  <2>3. \A d \in Children : LaneOf[d[1]] = l /\ journal[d].status \in Blocking => d = c
    BY <1>b, <2>1, Zenon DEF Blocking
  <2>4. /\ "broadcast" \in Statuses \ {"none", "intent"} /\ "broadcast" \notin Mined \cup Blocking
        /\ "confirming" \in Steps
    BY Zenon DEF Statuses, Mined, Blocking, Steps
  <2>5. nx \in Nat /\ Reached(nx)
    BY <1>a, <2>1, Zenon
  <2> HIDE DEF c, nx
  <2> QED
    BY <1>h, <1>r, <1>s, <2>1, <2>2, <2>3, <2>4, <2>5, CallStep, SMTT(30)
<1>7. ASSUME NEW l \in Lanes, DexRejected(l) PROVE WInv'
  <2> DEFINE c == lane[l].op
  <2>1. /\ c \in Children /\ LaneOf[c[1]] = l /\ journal[c].status = "signed"
        /\ tx[c] \in Refusals
    BY <1>7, Zenon DEF DexRejected, WInv, CallOK, Own, Refusals
  <2>2. /\ Append(c, "rejected", "none") /\ SetLane(l, "ready", NonceOf(c), NoChild)
        /\ GoTo(l, "idle") /\ Release(l) /\ UNCHANGED <<alloc, tx, latest, crashes>>
    BY <1>7, Zenon DEF DexRejected
  <2>3. \A d \in Children : LaneOf[d[1]] = l /\ journal[d].status \in Blocking => d = c
    BY <1>b, <2>1, Zenon DEF Blocking
  <2>4. "rejected" \in Statuses \ {"none", "intent"} /\ "rejected" \notin Mined \cup Blocking
    BY Zenon DEF Statuses, Mined, Blocking
  <2> HIDE DEF c
  <2> QED
    BY <1>t, <1>n, <1>h, <2>1, <2>2, <2>3, <2>4, SettleStep, Zenon
<1>u. "unknown" \in Statuses \ {"none", "intent"} /\ "unknown" \notin Mined
      /\ "recovery" \in LaneStates /\ "proving" \in Steps /\ 0 \in Nat /\ Reached(0)
  BY DEF Statuses, Mined, LaneStates, Steps, Reached
<1>8. ASSUME NEW l \in Lanes, BroadcastRefused(l) PROVE WInv'
  <2> DEFINE c == lane[l].op
             r == UnknownReason(l, tx[c])
  <2>1. /\ c \in Children /\ LaneOf[c[1]] = l /\ journal[c].status = "signed"
        /\ tx[c] \in Refusals
    BY <1>8, Zenon DEF BroadcastRefused, WInv, CallOK, Own
  <2>2. /\ Append(c, "unknown", r) /\ SetLane(l, "recovery", 0, c)
        /\ UNCHANGED <<tx, latest, crashes>>
        /\ \/ /\ r = "nonce_too_low" /\ GoTo(l, "proving") /\ UNCHANGED holder
              /\ alloc' \in {alloc, Larger(alloc, PendingNonce)}
           \/ r # "nonce_too_low" /\ GoTo(l, "idle") /\ Release(l) /\ UNCHANGED alloc
    BY <1>8, Zenon DEF BroadcastRefused
  <2>3. \A d \in Children : LaneOf[d[1]] = l /\ journal[d].status \in Blocking => d = c
    BY <1>b, <2>1, Zenon DEF Blocking
  <2>4. r \in Reasons
    BY <1>r, Zenon DEF UnknownReason
  <2>5. \E al \in Nat : alloc' = al /\ Reached(al)
    BY <1>t, <1>l, <1>p, <2>2, Zenon
  <2>6. holder' \in Lanes \cup {None}
    BY <1>t, <1>h, <2>2, Zenon
  <2> HIDE DEF c, r
  <2>7. CASE r = "nonce_too_low" /\ GoTo(l, "proving")
    BY <1>u, <2>1, <2>2, <2>3, <2>4, <2>5, <2>6, <2>7, CallStep, SMTT(30)
  <2>8. CASE GoTo(l, "idle")
    BY <1>s, <1>u, <2>1, <2>2, <2>3, <2>4, <2>5, <2>6, <2>8, CallStep, SMTT(30)
  <2> QED
    BY <2>2, <2>7, <2>8, Zenon
<1>9. ASSUME NEW l \in Lanes, AnswerLost(l) PROVE WInv'
  <2> DEFINE c == lane[l].op
  <2>1. c \in Children /\ LaneOf[c[1]] = l /\ journal[c].status = "signed"
    BY <1>9, Zenon DEF AnswerLost, WInv, CallOK, Own
  <2>2. /\ Append(c, "unknown", "transport") /\ SetLane(l, "recovery", 0, c)
        /\ GoTo(l, "idle") /\ Release(l) /\ UNCHANGED <<alloc, tx, latest, crashes>>
    BY <1>9, Zenon DEF AnswerLost
  <2>3. \A d \in Children : LaneOf[d[1]] = l /\ journal[d].status \in Blocking => d = c
    BY <1>b, <2>1, Zenon DEF Blocking
  <2> HIDE DEF c
  <2> QED
    BY <1>t, <1>h, <1>r, <1>s, <1>u, <2>1, <2>2, <2>3, CallStep, SMTT(30)
<1>x. "rejected" \in Statuses \ {"none", "intent"} /\ "rejected" \notin Mined \cup Blocking
  BY Zenon DEF Statuses, Mined, Blocking
<1>10. ASSUME NEW l \in Lanes, ProveNonceTooLow(l) PROVE WInv'
  <2> DEFINE c == lane[l].op
  <2>1. /\ c \in Children /\ LaneOf[c[1]] = l /\ journal[c].status = "unknown"
        /\ tx[c] \in Refusals /\ lane[l].state = "recovery"
    BY <1>10, Zenon DEF ProveNonceTooLow, WInv, CallOK, Own, EntryMatches
  <2>2. /\ GoTo(l, "idle") /\ Release(l) /\ UNCHANGED <<tx, latest, crashes>>
        /\ \/ /\ Append(c, "rejected", "none") /\ SetLane(l, "ready", PendingNonce, NoChild)
              /\ alloc' = Larger(alloc, PendingNonce)
           \/ UNCHANGED <<journal, lane, alloc>>
    BY <1>10, Zenon DEF ProveNonceTooLow
  <2>3. \A d \in Children : LaneOf[d[1]] = l /\ journal[d].status \in Blocking => d = c
    BY <1>b, <2>1, Zenon DEF Blocking
  <2>4. \E al \in Nat : alloc' = al /\ Reached(al)
    BY <1>t, <1>l, <1>p, <2>2, ZenonT(30)
  <2>5. CASE UNCHANGED <<journal, lane, alloc>>
    <3>0. lane' = [lane EXCEPT ![l].op = lane[l].op]
      BY <1>t, <2>5, Zenon DEF LaneType
    <3>1. SetLane(l, "recovery", lane[l].next, lane[l].op)
      BY <1>t, <2>1, <3>0, SetOp, Zenon
    <3> QED
      BY <1>t, <1>n, <1>h, <1>s, <1>u, <2>1, <2>2, <2>4, <2>5, <3>1, LaneStep, SMTT(30)
  <2> HIDE DEF c
  <2>6. CASE Append(c, "rejected", "none") /\ SetLane(l, "ready", PendingNonce, NoChild)
    BY <1>p, <1>h, <1>x, <2>1, <2>2, <2>3, <2>4, <2>6, SettleStep, Zenon
  <2> QED
    BY <2>2, <2>5, <2>6, Zenon
<1>11. ASSUME NEW l \in Lanes, Confirm(l) PROVE WInv'
  <2> DEFINE c == lane[l].op
             nx == Larger(lane[l].next, NonceOf(c) + 1)
  <2>1. /\ c \in Children /\ LaneOf[c[1]] = l /\ lane[l].state = "ready" /\ tx[c] \in Mined /\ tx[c] \notin {"rejected", "cancelled"}
    BY <1>11, Zenon DEF Confirm, WInv, CallOK, Own, Mined
  <2>2. /\ Append(c, tx[c], "none") /\ SetLane(l, "ready", nx, NoChild) /\ GoTo(l, "idle")
        /\ UNCHANGED <<alloc, holder, tx, latest, crashes>>
    BY <1>11, Zenon DEF Confirm
  <2>3. nx \in Nat /\ Reached(nx)
    BY <1>a, <1>l, <1>n, <2>1, Zenon
  <2>4. \A d \in Children : LaneOf[d[1]] = l /\ journal[d].status \in Blocking => d = c
    BY <1>b, <2>1, Zenon
  <2> HIDE DEF c, nx
  <2> QED
    BY <1>t, <1>m, <2>1, <2>2, <2>3, <2>4, SettleStep, Zenon
<1>12. ASSUME NEW l \in Lanes, ConfirmTimeout(l) PROVE WInv'
  <2>1. lane[l].state = "ready"
    BY <1>12, Zenon DEF ConfirmTimeout, WInv, CallOK
  <2>2. SetLane(l, "ready", lane[l].next, NoChild)
    BY <1>12, <1>t, <2>1, SetOp, Zenon DEF ConfirmTimeout
  <2>3. GoTo(l, "idle") /\ UNCHANGED <<journal, alloc, holder, tx, latest, crashes>>
    BY <1>12, Zenon DEF ConfirmTimeout
  <2>4. \A d \in Children : LaneOf[d[1]] = l => journal[d].status \notin Blocking
    BY <2>1, Zenon DEF WInv, BlockingOK
  <2> QED
    BY <1>t, <1>n, <1>s, <2>2, <2>3, <2>4, LaneStep, SMTT(30)
<1>13. ASSUME NEW l \in Lanes, PoisonJournal(l) PROVE WInv'
  <2>1. /\ SetLane(l, "poisoned", 0, NoChild) /\ GoTo(l, "idle") /\ Release(l)
        /\ UNCHANGED <<journal, alloc, tx, latest, crashes>>
    BY <1>13, Zenon DEF PoisonJournal
  <2>2. "poisoned" \in LaneStates
    BY Zenon DEF LaneStates
  <2> QED
    BY <1>t, <1>n, <1>h, <1>s, <1>u, <2>1, <2>2, LaneStep
<1>g. \A l \in Lanes : lane[l].state = "down" => pc[l] = "idle"
  BY <1>t, Zenon DEF WInv, CallOK
<1>i. \A l \in Lanes : lane[l].state = "down" /\ UNCHANGED pc => GoTo(l, "idle")
  BY <1>t, <1>g, Zenon DEF GoTo
<1>14. ASSUME NEW l \in Lanes, HydrateReady(l) PROVE WInv'
  <2>1. /\ SetLane(l, "ready", PendingNonce, NoChild) /\ GoTo(l, "idle")
        /\ UNCHANGED <<journal, alloc, holder, tx, latest, crashes>>
    BY <1>14, <1>i, Zenon DEF HydrateReady
  <2>2. \A d \in Children : LaneOf[d[1]] = l => journal[d].status \notin Blocking
    BY <1>14, Zenon DEF HydrateReady, RecoveryBlocking, OpsOf, Blocking
  <2> QED
    BY <1>t, <1>n, <1>p, <1>s, <2>1, <2>2, LaneStep
<1>15. ASSUME NEW l \in Lanes, NEW c \in Children, HydrateMined(l, c) PROVE WInv'
  <2> DEFINE nx == NonceOf(c) + 1
  <2>1. /\ LaneOf[c[1]] = l /\ tx[c] \in Mined /\ tx[c] \notin {"rejected", "cancelled"} /\ journal[c].status \in Blocking
    BY <1>15, Zenon DEF HydrateMined, RecoveryBlocking, OpsOf, Blocking, Mined
  <2>2. /\ Append(c, tx[c], "none") /\ SetLane(l, "ready", nx, NoChild) /\ GoTo(l, "idle")
        /\ UNCHANGED <<alloc, holder, tx, latest, crashes>>
    BY <1>15, <1>i, Zenon DEF HydrateMined
  <2>3. nx \in Nat /\ Reached(nx)
    BY <1>a, <2>1, Zenon
  <2>4. \A d \in Children : LaneOf[d[1]] = l /\ journal[d].status \in Blocking => d = c
    BY <1>b, <2>1, Zenon
  <2> HIDE DEF nx
  <2> QED
    BY <1>t, <1>m, <2>1, <2>2, <2>3, <2>4, SettleStep, Zenon
<1>16. ASSUME NEW l \in Lanes, NEW c \in Children, HydrateNonceTooLow(l, c) PROVE WInv'
  <2>1. /\ LaneOf[c[1]] = l /\ journal[c].status \in Blocking /\ journal[c].reason = "nonce_too_low"
    BY <1>16, Zenon DEF HydrateNonceTooLow, RecoveryBlocking, OpsOf, Blocking
  <2>2. /\ Append(c, "rejected", "none") /\ SetLane(l, "ready", PendingNonce, NoChild)
        /\ GoTo(l, "idle") /\ UNCHANGED <<alloc, holder, tx, latest, crashes>>
    BY <1>16, <1>i, Zenon DEF HydrateNonceTooLow
  <2>3. journal[c].status = "unknown"
    BY <2>1, Zenon DEF WInv, EntryMatches
  <2>4. tx[c] \in Refusals
    BY <2>1, <2>3, Zenon DEF WInv, EntryMatches
  <2>5. \A d \in Children : LaneOf[d[1]] = l /\ journal[d].status \in Blocking => d = c
    BY <1>b, <2>1, ZenonT(30)
  <2> QED
    BY <1>t, <1>p, <1>x, <2>1, <2>2, <2>4, <2>5, SettleStep, Zenon
<1>17. ASSUME NEW l \in Lanes, NEW c \in Children, ReviewedCollision(l, c) PROVE WInv'
  <2>1. /\ LaneOf[c[1]] = l /\ journal[c].status = "unknown" /\ journal[c].reason = "rpc_rejected"
        /\ lane[l].state = "down"
    BY <1>17, Zenon DEF ReviewedCollision, OpsOf
  <2>2. /\ Append(c, "rejected", "none") /\ GoTo(l, "idle")
        /\ UNCHANGED <<lane, alloc, holder, tx, latest, crashes>>
    BY <1>17, <1>i, Zenon DEF ReviewedCollision
  <2>3. tx[c] \in Refusals
    BY <2>1, Zenon DEF WInv, EntryMatches
  <2>4. \A d \in Children : LaneOf[d[1]] = l /\ journal[d].status \in Blocking => d = c
    BY <1>b, <2>1, Zenon DEF Blocking
  <2>5. lane' = [lane EXCEPT ![l].op = lane[l].op]
    BY <1>t, <2>2, Zenon DEF LaneType
  <2>6. SetLane(l, "down", lane[l].next, lane[l].op) /\ lane[l].op \in Children \cup {NoChild}
    BY <1>t, <2>1, <2>5, SetOp, Zenon DEF LaneType
  <2>7. "down" \in LaneStates
    BY ZenonT(30) DEF LaneStates
  <2> QED
    BY <1>t, <1>n, <1>r, <1>s, <1>x, <2>1, <2>2, <2>3, <2>4, <2>6, <2>7, CallStep, SMTT(30)
<1>18. ASSUME UNCHANGED vars PROVE WInv'
  BY <1>18 DEF vars, WInv, TypeOK, JournalMatchesChain, EntryMatches, RetriesInOrder, EarlierRejected,
     CallOK, Own, BlockingOK, Reached, Held
<1> QED
  BY <1>1, <1>2, <1>3, <1>4, <1>5, <1>6, <1>7, <1>8, <1>9, <1>10, <1>11, <1>12, <1>13, <1>14,
     <1>15, <1>16, <1>17, <1>18, ReserveStep, SendStep, NodeTakesStep, NodeRefusesStep, MineStep,
     CrashStep, SMTT(30) DEF Next, Submission, Startup, Network

-----------------------------------------------------------------------------
(* Theorems *)

\* WInv is an invariant.
THEOREM SpecWInv == Spec => []WInv
<1>1. Init => WInv
  BY InitWInv, Zenon
<1>2. WInv /\ [Next]_vars => WInv'
  BY NextWInv, Zenon
<1> QED
  BY <1>1, <1>2, PTL DEF Spec

\* A call of the trading executor or of the rebalancer takes effect at most
\* once, whatever is lost, delayed, refused, retried or restarted.
THEOREM CallsTakeEffectOnce == Spec => []AtMostOneEffect
<1>1. WInv => AtMostOneEffect
  <2> SUFFICES ASSUME WInv, NEW c \in Children, NEW d \in Children,
                      c[1] = d[1], MayTakeEffect(c), MayTakeEffect(d)
               PROVE  c = d
    BY Zenon DEF AtMostOneEffect
  <2>1. /\ journal[c].status \notin {"none", "rejected"} /\ EarlierRejected(c)
        /\ journal[d].status \notin {"none", "rejected"} /\ EarlierRejected(d)
    BY Zenon DEF WInv, EntryMatches, RetriesInOrder, MayTakeEffect, Mined, Refusals
  <2>2. /\ c = <<c[1], c[2]>> /\ d = <<d[1], d[2]>> /\ c[2] \in 0 .. 3 /\ d[2] \in 0 .. 3
    BY DEF Children
  <2>3. ~(c[2] < d[2]) /\ ~(d[2] < c[2])
    BY <2>1, Zenon DEF EarlierRejected
  <2> QED
    BY <2>2, <2>3
<1> QED
  BY <1>1, SpecWInv, PTL

\* A mined status in a journal is the chain's own receipt.
THEOREM JournalsMatchChain == Spec => []JournalMatchesChain
<1>1. WInv => JournalMatchesChain
  BY Zenon DEF WInv
<1> QED
  BY <1>1, SpecWInv, PTL

\* Wherever the process stops, NonceLane::hydrate accepts the journals it left.
THEOREM StopsHydratable == Spec => []AlwaysHydratable
<1>1. WInv => AlwaysHydratable
  <2> SUFFICES ASSUME WInv, NEW l \in Lanes PROVE Hydratable(l)
    BY Zenon DEF AlwaysHydratable
  <2>1. /\ PendingNonce \in Nat /\ latest <= PendingNonce /\ ~Held(PendingNonce)
    BY PendingOK, Zenon DEF WInv
  <2>2. latest \in Nat /\ \A d \in Children : NonceOf(d) \in Nat
    BY Zenon DEF WInv, TypeOK, NonceOf
  <2>3. Cardinality(RecoveryBlocking(l)) <= 1
    <3>1. \A c, d \in RecoveryBlocking(l) : c = d
      BY DEF WInv, BlockingOK, Blocking, RecoveryBlocking, OpsOf
    <3>2. CASE RecoveryBlocking(l) = {}
      <4>1. Cardinality(RecoveryBlocking(l)) = 0
        BY <3>2, FS_EmptySet, Zenon
      <4> QED
        BY <4>1
    <3>3. CASE RecoveryBlocking(l) # {}
      <4>1. PICK c \in RecoveryBlocking(l) : RecoveryBlocking(l) = {c}
        BY <3>1, <3>3, Zenon
      <4>2. Cardinality(RecoveryBlocking(l)) = 1
        BY <4>1, FS_Singleton, Zenon
      <4> QED
        BY <4>2
    <3> QED
      BY <3>2, <3>3, Zenon
  <2>4. PendingNonce > HighestConsumedNonce(l)
    <3> DEFINE consumed == {NonceOf(c) : c \in {d \in OpsOf(l) : journal[d].status \in Mined}}
               P(n) == \A m \in consumed : m <= n
    <3>1. \A n \in consumed : n \in Nat /\ n < latest
      BY <2>2, Zenon DEF OpsOf, WInv, JournalMatchesChain, EntryMatches, NonceOf
    <3>2. HighestConsumedNonce(l) = IF consumed = {} THEN -1 ELSE CHOOSE n \in consumed : P(n)
      BY Zenon DEF HighestConsumedNonce
    <3> HIDE DEF consumed
    <3>3. CASE consumed = {}
      BY <2>1, <3>2, <3>3
    <3>4. CASE consumed # {}
      <4> DEFINE Gaps == {latest - n : n \in consumed}
      <4>1. Gaps \subseteq Nat /\ Gaps # {}
        BY <2>2, <3>1, <3>4
      <4>2. \E x \in Gaps : \A y \in Gaps : x <= y
        <5> HIDE DEF Gaps
        <5> QED
          BY <4>1, NatMin, Zenon
      <4>3. PICK n \in consumed : \A m \in consumed : latest - n <= latest - m
        BY <4>2, Zenon
      <4>4. P(n)
        BY <2>2, <3>1, <4>3
      <4> HIDE DEF P
      <4>5. HighestConsumedNonce(l) \in consumed
        BY <3>2, <3>4, <4>4, Zenon
      <4> QED
        BY <2>1, <2>2, <3>1, <4>5
    <3> QED
      BY <3>3, <3>4, Zenon
  <2>5. \A c \in RecoveryBlocking(l) : NonceOf(c) <= PendingNonce
    <3> SUFFICES ASSUME NEW c \in Children, ~(NonceOf(c) <= PendingNonce) PROVE FALSE
      BY Zenon DEF RecoveryBlocking, OpsOf
    <3>1. Reached(NonceOf(c))
      BY Zenon DEF WInv, EntryMatches, NonceOf
    <3> QED
      BY <2>1, <2>2, <3>1 DEF Reached
  <2> QED
    BY <2>3, <2>4, <2>5, Zenon DEF Hydratable
<1> QED
  BY <1>1, SpecWInv, PTL
=============================================================================
