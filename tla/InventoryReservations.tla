------------------------ MODULE InventoryReservations ------------------------
(***************************************************************************)
(* The single owner of every inventory claim (src/inventory.rs).           *)
(*                                                                         *)
(* Observed balances arrive as snapshots of one location, each under a     *)
(* generation.  A trade or a rebalance reserves amounts of                 *)
(* (location, asset) keys; the reservation lowers what is available until  *)
(* it is released as unsubmitted, or until every settlement location has   *)
(* published a generation newer than the one seen when the operation ended.*)
(* Every operation runs under the mutex of SharedInventoryReservations, so *)
(* each is one action here.  A call the code refuses with an error leaves  *)
(* the state as it is and is a stuttering step.                            *)
(***************************************************************************)
EXTENDS Integers, FiniteSets

CONSTANTS
    Ops,            \* operation ids
    Locations,      \* inventory locations: Binance accounts and wallets
    Assets,         \* venue asset ids
    Requests,       \* the claim sets callers build: [claims, settlement_locations]
    MaxAmount,      \* the largest amount of the integer type (2^256 - 1 in the code)
    MaxGeneration   \* bound on a location's generation

Keys == Locations \X Assets
LocationOf(k) == k[1]

NoBalance == -1     \* the key is not in `observed`

ASSUME OpsAssumption == IsFiniteSet(Ops)
ASSUME BoundsAssumption == MaxAmount \in Nat /\ MaxGeneration \in Nat
ASSUME RequestsAssumption ==
    Requests \subseteq [claims : [Keys -> 0 .. MaxAmount],
                         settlement_locations : SUBSET Locations]

VARIABLES
    observed,               \* key -> balance, or NoBalance
    location_generations,   \* location -> generation, 0 before the first snapshot
    reservations,           \* op -> reservation record
    reserved_totals         \* key -> aggregate of the live claims, 0 when absent

vars == <<observed, location_generations, reservations, reserved_totals>>

\* A claim amount of 0 stands for "this key is not claimed".
NoClaims == [k \in Keys |-> 0]
NoReservation ==
    [state |-> "absent", claims |-> NoClaims, settlement_locations |-> {},
     barrier |-> [l \in Locations |-> 0]]

Reservation ==
    [state : {"absent", "active", "pending"}, claims : [Keys -> 0 .. MaxAmount],
     settlement_locations : SUBSET Locations, barrier : [Locations -> Nat]]

Live(o) == reservations[o].state # "absent"
Active(o) == reservations[o].state = "active"
Pending(o) == reservations[o].state = "pending"

\* The units of key k claimed by the operations of S.  Its cardinality is the
\* sum of their claims on k.
ClaimedUnits(rs, S, k) ==
    {u \in S \X (1 .. MaxAmount) : u[2] <= rs[u[1]].claims[k]}
ClaimSum(rs, S, k) == Cardinality(ClaimedUnits(rs, S, k))

Init ==
    /\ observed = [k \in Keys |-> NoBalance]
    /\ location_generations = [l \in Locations |-> 0]
    /\ reservations = [o \in Ops |-> NoReservation]
    /\ reserved_totals = [k \in Keys |-> 0]

-----------------------------------------------------------------------------
\* validate_request; a claims function cannot repeat a key.
ValidRequest(request) ==
    /\ \E k \in Keys : request.claims[k] > 0
    /\ request.settlement_locations # {}
    /\ \A k \in Keys :
          request.claims[k] > 0 => LocationOf(k) \in request.settlement_locations

\* The admission test of one claim: an observed location and key whose
\* reservations do not already exceed it, with enough left.
AdmitsIgnoringReserved(k, amount) ==
    /\ location_generations[LocationOf(k)] > 0
    /\ observed[k] # NoBalance
    /\ amount <= observed[k]
Admits(k, amount) ==
    /\ location_generations[LocationOf(k)] > 0
    /\ observed[k] # NoBalance
    /\ reserved_totals[k] <= observed[k]
    /\ amount <= observed[k] - reserved_totals[k]

Reserve(o, request) ==
    /\ ValidRequest(request)
    /\ ~Live(o)
    /\ \A k \in Keys : request.claims[k] > 0 => Admits(k, request.claims[k])
    /\ reserved_totals' = [k \in Keys |-> reserved_totals[k] + request.claims[k]]
    /\ reservations' = [reservations EXCEPT ![o] =
          [state |-> "active", claims |-> request.claims,
           settlement_locations |-> request.settlement_locations,
           barrier |-> [l \in Locations |-> 0]]]
    /\ UNCHANGED <<observed, location_generations>>

RemoveTwice(S) ==
    /\ reservations' = [o \in Ops |-> IF o \in S THEN NoReservation ELSE reservations[o]]
    /\ reserved_totals' =
          [k \in Keys |-> reserved_totals[k] - 2 * ClaimSum(reservations, S, k)]
RemoveKeepingTotals(S) ==
    /\ reservations' = [o \in Ops |-> IF o \in S THEN NoReservation ELSE reservations[o]]
    /\ UNCHANGED reserved_totals
\* remove_reservation for every operation of S.
Remove(S) ==
    /\ reservations' = [o \in Ops |-> IF o \in S THEN NoReservation ELSE reservations[o]]
    /\ reserved_totals' =
          [k \in Keys |-> reserved_totals[k] - ClaimSum(reservations, S, k)]

ReleaseUnsubmitted(o) ==
    /\ Active(o)
    /\ Remove({o})
    /\ UNCHANGED <<observed, location_generations>>

MarkPendingSettlement(o) ==
    /\ Active(o)
    /\ \A l \in reservations[o].settlement_locations : location_generations[l] > 0
    /\ reservations' = [reservations EXCEPT
          ![o].state = "pending",
          ![o].barrier = [l \in Locations |->
              IF l \in reservations[o].settlement_locations
              THEN location_generations[l] ELSE 0]]
    /\ UNCHANGED <<observed, location_generations, reserved_totals>>

\* release_reconciled under the generations `gens`: pending operations all of
\* whose settlement locations have moved past their barrier.
ReconciledAtAnyLocation(gens) ==
    {o \in Ops : /\ Pending(o)
                 /\ \E l \in reservations[o].settlement_locations :
                       gens[l] > reservations[o].barrier[l]}
Reconciled(gens) ==
    {o \in Ops : /\ Pending(o)
                 /\ \A l \in reservations[o].settlement_locations :
                       gens[l] > reservations[o].barrier[l]}

AcceptRegressedSnapshot(l, gen, balances, kept) ==
    /\ observed' = [k \in Keys |->
          IF LocationOf(k) # l THEN observed[k]
          ELSE IF balances[k[2]] # NoBalance THEN balances[k[2]]
          ELSE kept[k]]
    /\ location_generations' = [location_generations EXCEPT ![l] = gen]
    /\ Remove(Reconciled(location_generations'))
\* The common part of the two updates: a generation that is not newer is
\* ignored; otherwise the snapshot's assets are stored, the rest of the
\* location becomes `kept`, and reconciled reservations go.
AcceptSnapshot(l, gen, balances, kept) ==
    /\ gen > location_generations[l]
    /\ observed' = [k \in Keys |->
          IF LocationOf(k) # l THEN observed[k]
          ELSE IF balances[k[2]] # NoBalance THEN balances[k[2]]
          ELSE kept[k]]
    /\ location_generations' = [location_generations EXCEPT ![l] = gen]
    /\ Remove(Reconciled(location_generations'))

\* A complete snapshot replaces every balance of the location.
UpdateLocation(l, gen, balances) ==
    /\ \E a \in Assets : balances[a] # NoBalance
    /\ AcceptSnapshot(l, gen, balances, [k \in Keys |-> NoBalance])

\* A partial update needs an earlier complete one and keeps what it omits.
UpdateLocationAssets(l, gen, balances) ==
    /\ location_generations[l] > 0
    /\ \E a \in Assets : balances[a] # NoBalance
    /\ AcceptSnapshot(l, gen, balances, observed)

Balances == [Assets -> NoBalance .. MaxAmount]

Next ==
    \/ \E o \in Ops, request \in Requests : Reserve(o, request)
    \/ \E o \in Ops : ReleaseUnsubmitted(o)
    \/ \E o \in Ops : MarkPendingSettlement(o)
    \/ \E l \in Locations, gen \in 1 .. MaxGeneration, balances \in Balances :
          UpdateLocation(l, gen, balances)
    \/ \E l \in Locations, gen \in 1 .. MaxGeneration, balances \in Balances :
          UpdateLocationAssets(l, gen, balances)

Spec == Init /\ [][Next]_vars

-----------------------------------------------------------------------------
(* Properties *)

\* Type invariant of the four maps of InventoryReservations.
TypeOK ==
    /\ observed \in [Keys -> Int]
    /\ location_generations \in [Locations -> Nat]
    /\ reservations \in [Ops -> Reservation]
    /\ reserved_totals \in [Keys -> Nat]

\* The pre-aggregated total of every key is exactly the sum of the claims of
\* the live reservations, through reservations, releases, and batch releases
\* on a snapshot.  It is what makes the `expect` of remove_reservation safe.
TotalsMatchClaims ==
    \A k \in Keys :
        reserved_totals[k] = ClaimSum(reservations, {o \in Ops : Live(o)}, k)

\* A pending reservation is held only while some settlement location has not
\* moved past its barrier: no update may leave a reconciled reservation behind.
NoReconciledReservationHeld ==
    \A o \in Ops : Pending(o) =>
        \E l \in reservations[o].settlement_locations :
            location_generations[l] <= reservations[o].barrier[l]

\* A reservation ends only as an unsubmitted active one, or after every
\* settlement location published a generation strictly newer than the barrier
\* taken when it became pending.
SettlementBarrierStep ==
    \A o \in Ops : (Live(o) /\ reservations'[o].state = "absent") =>
        \/ Active(o) /\ UNCHANGED <<observed, location_generations>>
        \/ /\ Pending(o)
           /\ \A l \in reservations[o].settlement_locations :
                 location_generations'[l] > reservations[o].barrier[l]
SettlementBarrier == [][SettlementBarrierStep]_vars

\* Admission never promises the same inventory twice: when a reservation is
\* taken, all live claims on every key it claims, the new one included, fit
\* the observed balance together.
NoOverAdmissionStep ==
    \A o \in Ops : (~Live(o) /\ reservations'[o].state = "active") =>
        \A k \in Keys : reservations'[o].claims[k] > 0 =>
            ClaimSum(reservations', {p \in Ops : reservations'[p].state # "absent"}, k)
                <= observed'[k]
NoOverAdmission == [][NoOverAdmissionStep]_vars

\* A location's generation never goes back, and its balances change only
\* together with a strictly newer generation.
SnapshotsMoveForwardStep ==
    \A l \in Locations :
        /\ location_generations'[l] >= location_generations[l]
        /\ (\E k \in Keys : LocationOf(k) = l /\ observed'[k] # observed[k]) =>
              location_generations'[l] > location_generations[l]
SnapshotsMoveForward == [][SnapshotsMoveForwardStep]_vars

-----------------------------------------------------------------------------
(* Values of the constants for TLC: one Binance account and one wallet,    *)
(* two assets, and the three shapes of claim the engine builds.  A trade   *)
(* claims one asset on each side; a rebalance claims its source only and   *)
(* settles on both.                                                        *)
EngineRequests ==
    LET Claims(usdc, wld) ==
            [k \in Keys |-> IF k = <<"wallet", "usdc">> THEN usdc
                            ELSE IF k = <<"binance", "wld">> THEN wld ELSE 0]
    IN  { [claims |-> Claims(1, 2), settlement_locations |-> {"wallet", "binance"}],
          [claims |-> Claims(0, 1), settlement_locations |-> {"wallet", "binance"}],
          [claims |-> Claims(1, 0), settlement_locations |-> {"wallet"}] }
=============================================================================
