------------------------------ MODULE Checkout ------------------------------
(* The inner part of createOrderTx (internal/service/order.go): the items   *)
(* are read again and priced (Pricing), the order draws its short code      *)
(* (ShortCodes) and is inserted with its lines, while admins edit the menu. *)
(*                                                                          *)
(* What an order costs is settled when its transaction reads the items; a   *)
(* row that the columns refuse fails the transaction after it has drawn its *)
(* number, which the rollback takes back.                                   *)
EXTENDS ShortCodes, Pricing

CONSTANTS
    Carts,       \* bound: the carts customers send
    Menus        \* bound: the menus the admins' edits lead to

\* A cart has far fewer lines than would make a sum of INT columns wrap around.
ASSUME CheckoutAssumption ==
    /\ Carts \subseteq Seq([item : Items, quantity : Int])
    /\ Menus \subseteq [Items -> Rows]
    /\ \A cart \in Carts : Len(cart) * 2 ^ (IntBits - 1) + Fee < 2 ^ (LongBits - 1)

NoCart == [cart |-> <<>>, menu |-> <<>>, open |-> FALSE]

VARIABLES
    menu,        \* the rows of menu_items
    basket       \* per caller: the cart it placed and the rows it has read

cvars == <<vars, menu, basket>>

Open(r) == basket[r].open
ReadRows(cart) == [i \in ActiveOf(menu, cart) |-> menu[i]]

CheckoutTypeOK ==
    /\ TypeOK
    /\ menu \in Menus
    /\ \A r \in Callers :
          /\ basket[r] # NoCart =>
                /\ Open(r) /\ basket[r].cart \in Carts
                /\ DOMAIN basket[r].menu = ItemsOf(basket[r].cart)
          /\ pc[r] # "idle" => Open(r)

CheckoutInit ==
    /\ Init
    /\ menu \in Menus
    /\ basket = [r \in Callers |-> NoCart]

\* A caller whose transaction has ended forgets its cart.
Settle == basket' = [r \in Callers |-> IF pc'[r] = "idle" THEN NoCart ELSE basket[r]]

\* Steps 4 and 5.  rows.Err() is not looked at: fewer rows than there are may be
\* found.
PriceItems(r) ==
    /\ pc[r] = "idle" /\ ~Open(r)
    /\ \E cart \in Carts : \E found \in SUBSET ActiveOf(menu, cart) :
          /\ Orderable(menu, cart, found)
          /\ basket' = [basket EXCEPT ![r] =
                          [cart |-> cart, menu |-> ReadRows(cart), open |-> TRUE]]
    /\ UNCHANGED <<vars, menu>>

\* Step 6.
DrawCode(r) ==
    /\ \/ ReadDate(r) /\ Open(r)
       \/ NextShortCodeTx(r)
    /\ UNCHANGED <<menu, basket>>

\* Step 7: the orders row and then its lines; what the columns refuse is an
\* error like a code that exists.
InsertOrder(r) ==
    /\ IF Storable(basket[r].menu, basket[r].cart)
       THEN InsertTx(r)
       ELSE pc[r] = "insert" /\ Rollback(r)
    /\ Settle
    /\ UNCHANGED menu

\* COMMIT, or a statement that fails at any point.
EndOrder(r) ==
    /\ Open(r)
    /\ Commit(r) \/ Fail(r)
    /\ Settle
    /\ UNCHANGED menu

\* The transaction fails before it draws its code.
GiveUp(r) ==
    /\ Open(r) /\ pc[r] = "idle"
    /\ basket' = [basket EXCEPT ![r] = NoCart]
    /\ UNCHANGED <<vars, menu>>

\* An admin edits an item (Catalogue has the edits step by step).
MenuChanges ==
    /\ menu' \in Menus
    /\ UNCHANGED <<vars, basket>>

DayPasses == Midnight /\ UNCHANGED <<menu, basket>>

CheckoutNext ==
    \/ \E r \in Callers : \/ PriceItems(r) \/ DrawCode(r) \/ InsertOrder(r)
                          \/ EndOrder(r) \/ GiveUp(r)
    \/ MenuChanges \/ DayPasses

CheckoutSpec == CheckoutInit /\ [][CheckoutNext]_cvars
-----------------------------------------------------------------------------
\* An order that can still commit charges what its items cost to the paisa, in
\* numbers that do not wrap around, whatever quantities the client has sent and
\* however the menu has changed since.
ChargedExactly == \A r \in Callers : pc[r] = "commit" =>
    Bill(basket[r].menu, basket[r].cart).total = Worth(basket[r].menu, basket[r].cart)

Whole(quote, cart) == quote.lines = cart /\ quote.delivery_enabled

\* The amount charged is the one quoted, and nothing in it was unavailable.
ChargedAsQuoted == \A r \in Callers : pc[r] = "commit" =>
    LET b == basket[r] IN
    \A found \in SUBSET ItemsOf(b.cart), location \in LocationAnswers :
        LET q == Quote(b.menu, b.cart, found, location) IN
        Whole(q, b.cart) => /\ q.total = Bill(b.menu, b.cart).total
                            /\ q.unavailable = {}

\* What is quoted so is not refused for its items, if no item is named twice.  (The
\* columns of order_items and orders may still refuse its quantities or amounts.)
QuoteIsAccepted == \A cart \in Carts :
    LET found == ActiveOf(menu, cart)  q == Quote(menu, cart, found, "open") IN
    (/\ Whole(q, cart) /\ q.unavailable = {}
     /\ Cardinality(ItemsOf(cart)) = Len(cart))
       => Orderable(menu, cart, found)

\* POST /cart/validate and POST /orders price alike what both read from one menu:
\* a quote that shows every line and delivery enabled names the amount an order
\* read from the same rows is charged, and nothing unavailable, and step 4 of
\* createOrderTx lets such a cart pass.  What changes between the two readings of
\* the menu, and what the columns refuse, is outside this property.
QuoteHolds == ChargedAsQuoted /\ QuoteIsAccepted
=============================================================================
