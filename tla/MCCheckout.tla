----------------------------- MODULE MCCheckout -----------------------------
(* A small instance of Checkout for TLC: amounts of 8 and 5 bits for 64 and *)
(* 32, at most 3 of an item for 20, two letters of two numbers for the 24   *)
(* letters of 100.  The carts: ordinary ones, an empty one, one item twice, *)
(* and quantities that are 0, negative, over the limit, and so large that   *)
(* the sum wraps around to a small amount.                                  *)
EXTENDS Checkout, TLC

CONSTANTS dosa, tea

Symmetry == Permutations(Callers)

Line(i, n) == [item |-> i, quantity |-> n]
MCCarts == {<<>>, <<Line(dosa, 3), Line(tea, 1)>>,
            <<Line(dosa, 1), Line(dosa, 1)>>, <<Line(dosa, 0)>>, <<Line(dosa, 52)>>,
            <<Line(tea, 3), Line(dosa, -1)>>, <<Line(tea, 4)>>}
Row(p, available, active) == [price |-> p, available |-> available, active |-> active]
MCMenus == {[i \in Items |-> IF i = dosa THEN Row(p, m[1], TRUE) ELSE Row(4, TRUE, m[2])]
              : p \in {2, 5}, m \in {<<TRUE, TRUE>>, <<FALSE, TRUE>>, <<TRUE, FALSE>>}}
=============================================================================
