------------------------------ MODULE MCOrders ------------------------------
(* Small instances of OrderService for TLC.                                 *)
EXTENDS OrderService, TLC

CONSTANTS c1, c2, c3, alice

\* Slots spread over as many locations as there are: with two locations a
\* customer can ask for a slot of the wrong one.
MCLocationOf == CHOOSE f \in [Slots -> Locations] :
    LET used == {f[s] : s \in Slots} IN
    used = Locations \/ Cardinality(used) = Cardinality(Slots)

\* One customer places and cancels everything: an owner mismatch only refuses.
MCUserOf == [r \in Requests |-> alice]

MCNoEdits == {}
MCLowering == {[cap |-> 1, active |-> TRUE, late |-> FALSE]}
MCEdits == {[cap |-> 1, active |-> TRUE, late |-> FALSE],
            [cap |-> 2, active |-> TRUE, late |-> FALSE]}

Symmetry == Permutations(Creates) \cup Permutations(Admins)
=============================================================================
