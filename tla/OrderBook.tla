------------------------------ MODULE OrderBook -----------------------------
(* What the order service promises its callers, with every operation atomic: *)
(* an order is placed only into a slot that has a seat left for it, moves    *)
(* along domain.AllowedTransitions, and a slot is never resized below the    *)
(* orders that need a seat in it.                                            *)
EXTENDS OrderLifecycle, Integers, FiniteSets

CONSTANTS
    Orders, Slots,
    NoSlot,            \* the seat of an order that is not placed
    InitialCapacity,
    Capacities         \* what an admin may resize a slot to

VARIABLES status, seat, capacity

book == <<status, seat, capacity>>

Seated(s) == {o \in Orders : seat[o] = s /\ ~IsCancelled(status[o])}

BookInit ==
    /\ status = [o \in Orders |-> Absent]
    /\ seat = [o \in Orders |-> NoSlot]
    /\ capacity = [s \in Slots |-> InitialCapacity]

Place(o, s) ==
    /\ status[o] = Absent
    /\ Cardinality(Seated(s)) < capacity[s]
    /\ status' = [status EXCEPT ![o] = "PLACED"]
    /\ seat' = [seat EXCEPT ![o] = s]
    /\ UNCHANGED capacity

Advance(o, next) ==
    /\ CanTransitionTo(status[o], next)
    /\ status' = [status EXCEPT ![o] = next]
    /\ UNCHANGED <<seat, capacity>>

Resize(s, n) ==
    /\ Cardinality(Seated(s)) <= n
    /\ capacity' = [capacity EXCEPT ![s] = n]
    /\ UNCHANGED <<status, seat>>

BookNext ==
    \/ \E o \in Orders, s \in Slots : Place(o, s)
    \/ \E o \in Orders, next \in Statuses : Advance(o, next)
    \/ \E s \in Slots, n \in Capacities : Resize(s, n)

BookSpec == BookInit /\ [][BookNext]_book
=============================================================================
