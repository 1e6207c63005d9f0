----------------------------- MODULE MCReviews ------------------------------
(* A small instance of Reviews for TLC: two orders that share an item, one   *)
(* of them reviewed twice at the same time.                                  *)
EXTENDS Reviews

CONSTANTS o1, o2, i1, i2

MCItemsOf  == [o \in Orders |-> IF o = o1 THEN {i1, i2} ELSE {i1}]
MCOrdersOf == [r \in Writers |-> Orders]
=============================================================================
