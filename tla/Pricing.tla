------------------------------- MODULE Pricing ------------------------------
(* What a cart costs: MenuService.ValidateCart for the customer who asks    *)
(* first, createOrderTx for the order, and the columns the order has to fit *)
(* into.                                                                    *)
(*                                                                          *)
(* Amounts are computed in Go's 64-bit integers, which wrap around, and     *)
(* stored in INT columns.  Both widths and the limit of a quantity are      *)
(* parameters, so that small numbers reach them.                            *)
EXTENDS FiniteSets, Loops

CONSTANTS
    Items,         \* menu_items
    Fee,           \* delivery_fee_paise of the location
    LongBits,      \* width of int64
    IntBits,       \* width of INT
    MaxQuantity    \* quantity BETWEEN 1 AND 20

ASSUME PricingAssumption ==
    /\ {LongBits, IntBits, MaxQuantity} \subseteq Nat \ {0}
    /\ Fee \in Nat
    /\ MaxQuantity * 2 ^ (IntBits - 1) <= 2 ^ (LongBits - 1)   \* int64 holds any line

\* Facts of arithmetic the provers are not told otherwise.
ASSUME PowersAssumption ==
    /\ {2 ^ (IntBits - 1), 2 ^ (LongBits - 1)} \subseteq Nat \ {0}
    /\ 2 ^ LongBits = 2 * 2 ^ (LongBits - 1)

Wrap(n)    == ((n + 2 ^ (LongBits - 1)) % (2 ^ LongBits)) - 2 ^ (LongBits - 1)
FitsInt(n) == n \in -(2 ^ (IntBits - 1)) .. (2 ^ (IntBits - 1) - 1)

\* A menu has a row of price, is_available and is_active for every item; a cart
\* is a sequence of items with quantities.
Rows == [price : 1 .. 2 ^ (IntBits - 1) - 1, available : BOOLEAN, active : BOOLEAN]

ItemsOf(cart) == {cart[k].item : k \in DOMAIN cart}

\* GetManyByIDs, GetManyByIDsTx: one row for an id, however often it is asked
\* for, and none for an item that was deleted.
ActiveOf(menu, cart) == {i \in ItemsOf(cart) : menu[i].active}

LineTotal(menu, line) == Wrap(menu[line.item].price * line.quantity)
Subtotal(menu, lines) ==
    LET sum[k \in 0 .. Len(lines)] ==
          IF k = 0 THEN 0 ELSE Wrap(sum[k - 1] + LineTotal(menu, lines[k]))
    IN  sum[Len(lines)]

\* What GetByID of the location answers: a row with delivery_enabled or not, nil
\* where there is none, or a Location of zeroes beside the error of a query that
\* failed.
LocationAnswers == {"open", "closed", "missing", "failed"}
FeeOf(location) == IF location = "failed" THEN 0 ELSE Fee

\* ValidateCart: lines whose item was not found are skipped, the others priced
\* even if they cannot be had.  The handler drops the error of the location: it
\* adds what the fee is then, and nothing, not even the subtotal, when it got nil.
Quote(menu, cart, found, location) ==
    LET shown == Kept(cart, [item : found, quantity : Int]) IN
    [lines |-> shown,
     total |-> IF location = "missing" THEN 0
               ELSE Wrap(Subtotal(menu, shown) + FeeOf(location)),
     unavailable |-> {i \in ItemsOf(shown) : ~menu[i].available},
     delivery_enabled |-> location = "open"]

\* Defect: availability was looked at when the cart was quoted.
Orderable_Unavailable(menu, cart, found) == Cardinality(found) = Len(cart)

\* createOrderTx, step 4: every line has a row of its own, which is available.
Orderable(menu, cart, found) ==
    /\ Cardinality(found) = Len(cart)
    /\ \A i \in found : menu[i].available

\* Step 5, and the row of orders it is stored in.
Bill(menu, cart) ==
    [subtotal |-> Subtotal(menu, cart), total |-> Wrap(Subtotal(menu, cart) + Fee)]

\* Defect: order_items takes any quantity.
Storable_AnyQuantity(menu, cart) ==
    /\ \A amount \in {Bill(menu, cart).subtotal, Bill(menu, cart).total} :
          amount >= 0 /\ FitsInt(amount)
    /\ \A k \in DOMAIN cart : FitsInt(LineTotal(menu, cart[k]))

\* The CHECKs and the width of the columns of orders and order_items.
Storable(menu, cart) ==
    /\ \A amount \in {Bill(menu, cart).subtotal, Bill(menu, cart).total} :
          amount >= 0 /\ FitsInt(amount)
    /\ \A k \in DOMAIN cart :
          cart[k].quantity \in 1 .. MaxQuantity /\ FitsInt(LineTotal(menu, cart[k]))
-----------------------------------------------------------------------------
\* What the cart costs in whole numbers of any size.
Worth(menu, cart) ==
    LET sum[k \in 0 .. Len(cart)] ==
          IF k = 0 THEN Fee ELSE sum[k - 1] + menu[cart[k].item].price * cart[k].quantity
    IN  sum[Len(cart)]
=============================================================================
