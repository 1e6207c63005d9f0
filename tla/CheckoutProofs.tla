---------------------------- MODULE CheckoutProofs --------------------------
(* Theorems about ShortCodes, for every alphabet and number of callers, and *)
(* about Checkout: a placement with its prices and columns implements       *)
(* ShortCodes - every step of it is a step of ShortCodes or leaves the      *)
(* variables of that alone - so what is proved of the codes holds of the    *)
(* placements; and what it charges is what was quoted.                      *)
EXTENDS Checkout, LoopLemmas, FiniteSetTheorems, TLAPS

\* The letter and the number of a code are always in range: the alphabet is taken
\* over again when a day has run through it.
LEMMA ShortCodeType ==
    ASSUME NEW n \in Nat \ {0}
    PROVE  ShortCode(n) \in Codes
  <1>1. n - 1 \in Nat
    OBVIOUS
  <1>2. (n - 1) % PerLetter \in 0 .. PerLetter - 1
    BY <1>1, ShortCodesAssumption
  <1>3. (n - 1) \div PerLetter \in Int
    BY <1>1, ShortCodesAssumption
  <1>4. ((n - 1) \div PerLetter) % Letters \in 0 .. Letters - 1
    BY <1>3, ShortCodesAssumption
  <1> QED
    BY <1>2, <1>4 DEF ShortCode, Codes

\* A drawn number is the next one of its day, and the row it was drawn from is
\* locked until the number is used or given back.
CounterHeld == \A r \in Callers : pc[r] \in {"insert", "commit"} =>
    rowLock[day[r]] = r /\ seq[r] = sequence[day[r]] + 1

\* An order that waits for its commit has a code of its own.
CommitsFresh == \A r \in Callers : pc[r] = "commit" =>
    /\ ShortCode(seq[r]) \notin UsedCodes
    /\ \A q \in Callers \ {r} : pc[q] = "commit" => ShortCode(seq[q]) # ShortCode(seq[r])

\* The orders of a day, and that there are finitely many.
OrdersOf(d) == {o \in placed : o.day = d}
DaysFinite  == \A d \in Days : IsFiniteSet(OrdersOf(d))

\* No committed order has a number that its day has yet to reach.
NumbersReached == \A o \in placed : o.seq <= sequence[o.day]

CountInv == DaysFinite /\ NumbersReached /\ SequenceCountsOrders

CodeInv == TypeOK /\ CounterHeld /\ CommitsFresh /\ CodesUnique /\ CountInv

LEMMA InitCodeInv == Init => CodeInv
  <1> SUFFICES ASSUME Init PROVE CodeInv
    OBVIOUS
  <1>1. TypeOK
    BY ShortCodesAssumption DEF Init, TypeOK, Days
  <1>2. CounterHeld /\ CommitsFresh /\ CodesUnique
    BY DEF Init, CounterHeld, CommitsFresh, CodesUnique
  <1>3. CountInv
    <2>1. \A d \in Days : OrdersOf(d) = {}
      BY DEF Init, OrdersOf
    <2>2. DaysFinite /\ NumbersReached
      BY <2>1, FS_EmptySet DEF Init, DaysFinite, NumbersReached
    <2>3. ASSUME NEW d \in Days
          PROVE  /\ sequence[d] = Cardinality({o \in placed : o.day = d})
                 /\ \A n \in 1 .. sequence[d] : [day |-> d, seq |-> n] \in placed
      <3>1. {o \in placed : o.day = d} = {} /\ sequence[d] = 0
        BY DEF Init
      <3> QED
        BY <3>1, FS_EmptySet
    <2> QED
      BY <2>2, <2>3 DEF CountInv, SequenceCountsOrders
  <1> QED
    BY <1>1, <1>2, <1>3 DEF CodeInv

\* Every step keeps every variable in its type.
LEMMA StepTypeOK ==
    ASSUME TypeOK, CounterHeld, [Next]_vars
    PROVE  TypeOK'
  <1>1. ASSUME NEW r \in Callers, ReadDate(r) PROVE TypeOK'
    BY <1>1 DEF ReadDate, TypeOK
  <1>2. ASSUME NEW r \in Callers, NextShortCodeTx(r) PROVE TypeOK'
    <2>1. sequence[day[r]] + 1 \in Nat \ {0}
      BY DEF TypeOK
    <2>2. ShortCode(sequence[day[r]] + 1) \in Codes
      BY <2>1, ShortCodeType
    <2> QED
      BY <1>2, <2>1, <2>2 DEF NextShortCodeTx, TypeOK
  <1>3. ASSUME NEW r \in Callers, Rollback(r) PROVE TypeOK'
    BY <1>3 DEF Rollback, TypeOK
  <1>4. ASSUME NEW r \in Callers, InsertTx(r) PROVE TypeOK'
    BY <1>3, <1>4 DEF InsertTx, TypeOK
  <1>5. ASSUME NEW r \in Callers, Commit(r) PROVE TypeOK'
    <2>1. seq[r] \in Nat \ {0}
      BY <1>5 DEF Commit, CounterHeld, TypeOK
    <2> QED
      BY <1>5, <2>1 DEF Commit, TypeOK
  <1>6. CASE Midnight
    BY <1>6, ShortCodesAssumption DEF Midnight, TypeOK, Days
  <1>7. CASE UNCHANGED vars
    BY <1>7 DEF TypeOK, vars
  <1> QED
    BY <1>1, <1>2, <1>3, <1>4, <1>5, <1>6, <1>7 DEF Next, Fail

\* The lock on the counter row protects the drawn numbers.
LEMMA StepCounterHeld ==
    ASSUME TypeOK, CounterHeld, [Next]_vars
    PROVE  CounterHeld'
  <1>1. ASSUME NEW r \in Callers, ReadDate(r) PROVE CounterHeld'
    BY <1>1 DEF ReadDate, CounterHeld, TypeOK
  <1>2. ASSUME NEW r \in Callers, NextShortCodeTx(r) PROVE CounterHeld'
    BY <1>2, ShortCodesAssumption DEF NextShortCodeTx, CounterHeld, TypeOK
  <1>3. ASSUME NEW r \in Callers, Rollback(r) PROVE CounterHeld'
    BY <1>3 DEF Rollback, CounterHeld, TypeOK
  <1>4. ASSUME NEW r \in Callers, InsertTx(r) PROVE CounterHeld'
    BY <1>3, <1>4 DEF InsertTx, CounterHeld, TypeOK
  <1>5. ASSUME NEW r \in Callers, Commit(r) PROVE CounterHeld'
    BY <1>5 DEF Commit, CounterHeld, TypeOK
  <1>6. CASE Midnight
    BY <1>6 DEF Midnight, CounterHeld
  <1>7. CASE UNCHANGED vars
    BY <1>7 DEF CounterHeld, vars
  <1> QED
    BY <1>1, <1>2, <1>3, <1>4, <1>5, <1>6, <1>7 DEF Next, Fail

\* The unique index keeps the codes of open and committed orders apart.
LEMMA StepCodes ==
    ASSUME TypeOK, CommitsFresh, CodesUnique, [Next]_vars
    PROVE  CommitsFresh' /\ CodesUnique'
  <1> USE DEF CommitsFresh, CodesUnique, UsedCodes
  <1>1. ASSUME NEW r \in Callers, ReadDate(r) PROVE CommitsFresh' /\ CodesUnique'
    BY <1>1 DEF ReadDate, TypeOK
  <1>2. ASSUME NEW r \in Callers, NextShortCodeTx(r) PROVE CommitsFresh' /\ CodesUnique'
    BY <1>2 DEF NextShortCodeTx, TypeOK
  <1>3. ASSUME NEW r \in Callers, Rollback(r) PROVE CommitsFresh' /\ CodesUnique'
    BY <1>3 DEF Rollback, TypeOK
  <1>4. ASSUME NEW r \in Callers, InsertTx(r) PROVE CommitsFresh' /\ CodesUnique'
    BY <1>3, <1>4 DEF InsertTx, TypeOK
  <1>5. ASSUME NEW r \in Callers, Commit(r) PROVE CommitsFresh' /\ CodesUnique'
    <2> DEFINE new == [day |-> day[r], seq |-> seq[r]]
    <2>1. /\ placed' = placed \cup {new} /\ new.seq = seq[r]
          /\ pc[r] = "commit" /\ pc' = [pc EXCEPT ![r] = "idle"] /\ seq' = seq
      BY <1>5 DEF Commit
    <2>2. \A o \in placed : ShortCode(o.seq) # ShortCode(seq[r])
      BY <2>1
    <2>3. CodesUnique'
      BY <2>1, <2>2
    <2>4. UsedCodes' = UsedCodes \cup {ShortCode(seq[r])}
      BY <2>1
    <2>5. ASSUME NEW p \in Callers, pc'[p] = "commit"
          PROVE  /\ ShortCode(seq'[p]) \notin UsedCodes'
                 /\ \A q \in Callers \ {p} :
                       pc'[q] = "commit" => ShortCode(seq'[q]) # ShortCode(seq'[p])
      <3>1. p # r /\ pc[p] = "commit"
        BY <2>1, <2>5 DEF TypeOK
      <3>2. ShortCode(seq[p]) \notin UsedCodes /\ ShortCode(seq[p]) # ShortCode(seq[r])
        BY <2>1, <3>1
      <3>3. ASSUME NEW q \in Callers \ {p}, pc'[q] = "commit"
            PROVE  ShortCode(seq[q]) # ShortCode(seq[p])
        BY <2>1, <3>1, <3>3 DEF TypeOK
      <3> HIDE DEF UsedCodes
      <3> QED
        BY <2>1, <2>4, <3>2, <3>3
    <2> QED
      BY <2>3, <2>5
  <1>6. CASE Midnight
    BY <1>6 DEF Midnight
  <1>7. CASE UNCHANGED vars
    BY <1>7 DEF vars
  <1> QED
    BY <1>1, <1>2, <1>3, <1>4, <1>5, <1>6, <1>7 DEF Next, Fail

\* A commit adds one order to its day and moves the counter of that day by one;
\* nothing else touches either.
LEMMA StepCount ==
    ASSUME TypeOK, CounterHeld, CountInv, [Next]_vars
    PROVE  CountInv'
  <1>1. CASE UNCHANGED <<sequence, placed>>
    BY <1>1 DEF CountInv, DaysFinite, NumbersReached, SequenceCountsOrders, OrdersOf
  <1>2. ASSUME NEW r \in Callers, Commit(r) PROVE CountInv'
    <2>0. PICK d0 \in Days, n0 \in Nat \ {0} : d0 = day[r] /\ n0 = seq[r]
      BY <1>2 DEF Commit, CounterHeld, TypeOK
    <2> DEFINE new == [day |-> d0, seq |-> n0]
    <2>1. /\ placed' = placed \cup {new}
          /\ n0 = sequence[d0] + 1
          /\ sequence' = [sequence EXCEPT ![d0] = n0]
      BY <1>2, <2>0 DEF Commit, CounterHeld
    <2>2. new \notin placed
      <3>1. new.day = d0 /\ new.seq = n0
        OBVIOUS
      <3>2. ASSUME new \in placed PROVE FALSE
        <4>1. new.seq <= sequence[new.day]
          BY <3>2 DEF CountInv, NumbersReached
        <4> QED
          BY <2>1, <3>1, <4>1 DEF TypeOK
      <3> QED
        BY <3>2
    <2>3. OrdersOf(d0)' = OrdersOf(d0) \cup {new}
      <3>1. new.day = d0
        OBVIOUS
      <3> QED
        BY <2>1, <3>1 DEF OrdersOf
    <2>4. \A d \in Days \ {d0} : OrdersOf(d)' = OrdersOf(d) /\ sequence'[d] = sequence[d]
      BY <2>1 DEF OrdersOf, TypeOK
    <2>5. /\ IsFiniteSet(OrdersOf(d0)')
          /\ Cardinality(OrdersOf(d0)') = Cardinality(OrdersOf(d0)) + 1
      <3>1. IsFiniteSet(OrdersOf(d0)) /\ new \notin OrdersOf(d0)
        BY <2>1, <2>2 DEF CountInv, DaysFinite, OrdersOf
      <3> QED
        BY <2>3, <3>1, FS_AddElement
    <2>6. DaysFinite'
      <3>1. ASSUME NEW d \in Days PROVE IsFiniteSet(OrdersOf(d)')
        BY <2>4, <2>5 DEF CountInv, DaysFinite
      <3> QED
        BY <3>1 DEF DaysFinite, OrdersOf
    <2>7. NumbersReached'
      <3> SUFFICES ASSUME NEW o \in placed' PROVE o.seq <= sequence'[o.day]
        BY DEF NumbersReached
      <3>1. CASE o = new
        BY <2>1, <3>1 DEF TypeOK
      <3>2. CASE o # new
        <4>1. o \in placed /\ o.day \in Days /\ o.seq \in Nat /\ o.seq <= sequence[o.day]
          BY <2>1, <3>2 DEF CountInv, NumbersReached, TypeOK
        <4> QED
          BY <2>1, <4>1 DEF TypeOK
      <3> QED
        BY <3>1, <3>2
    <2>8. ASSUME NEW d \in Days
          PROVE  /\ sequence'[d] = Cardinality(OrdersOf(d)')
                 /\ \A n \in 1 .. sequence'[d] : [day |-> d, seq |-> n] \in placed'
      <3>1. /\ sequence[d] = Cardinality(OrdersOf(d))
            /\ \A n \in 1 .. sequence[d] : [day |-> d, seq |-> n] \in placed
        BY DEF CountInv, SequenceCountsOrders, OrdersOf
      <3>2. CASE d = d0
        <4>1. sequence'[d] = n0
          BY <2>1, <3>2 DEF TypeOK
        <4>2. sequence'[d] = Cardinality(OrdersOf(d)')
          BY <2>1, <2>5, <3>1, <3>2, <4>1
        <4>3. ASSUME NEW n \in 1 .. sequence'[d] PROVE [day |-> d, seq |-> n] \in placed'
          <5>1. n = n0 \/ n \in 1 .. sequence[d]
            BY <2>1, <3>2, <4>1 DEF TypeOK
          <5> QED
            BY <2>1, <3>1, <3>2, <5>1
        <4> QED
          BY <4>2, <4>3
      <3>3. CASE d # d0
        BY <2>1, <2>4, <3>1, <3>3
      <3> QED
        BY <3>2, <3>3
    <2> QED
      BY <2>6, <2>7, <2>8 DEF CountInv, SequenceCountsOrders, OrdersOf
  <1> QED
    BY <1>1, <1>2
    DEF Next, ReadDate, NextShortCodeTx, InsertTx, Rollback, Fail, Midnight, vars

LEMMA CodeInvariant == Spec => []CodeInv
  <1>1. Init => CodeInv
    BY InitCodeInv
  <1>2. CodeInv /\ [Next]_vars => CodeInv'
    BY StepTypeOK, StepCounterHeld, StepCodes, StepCount DEF CodeInv
  <1> QED
    BY <1>1, <1>2, PTL DEF Spec

\* Type correctness; in particular a drawn number always makes a code of the
\* alphabet.
THEOREM TypeCorrect == Spec => []TypeOK
  <1>1. CodeInv => TypeOK
    BY DEF CodeInv
  <1> QED
    BY <1>1, CodeInvariant, PTL

\* The codes of the orders are unique on all days (UNIQUE on short_code), for any
\* alphabet and any number of callers.
THEOREM CodesStayUnique == Spec => []CodesUnique
  <1>1. CodeInv => CodesUnique
    BY DEF CodeInv
  <1> QED
    BY <1>1, CodeInvariant, PTL

\* The upsert's row lock makes the numbers of a day gapless: its counter is the
\* number of its orders, and every number up to it belongs to one.
THEOREM NoGaps == Spec => []SequenceCountsOrders
  <1>1. CodeInv => SequenceCountsOrders
    BY DEF CodeInv, CountInv
  <1> QED
    BY <1>1, CodeInvariant, PTL

\* Two open transactions never hold the same number of a day.
THEOREM NumbersDiffer == Spec => []DrawnNumbersDiffer
  <1>1. CodeInv => DrawnNumbersDiffer
    BY DEF CodeInv, CounterHeld, DrawnNumbersDiffer
  <1> QED
    BY <1>1, CodeInvariant, PTL
-----------------------------------------------------------------------------
(* A placement draws its code like any caller of ShortCodes.                *)

LEMMA StepImplements == [CheckoutNext]_cvars => [Next]_vars
  <1> SUFFICES ASSUME [CheckoutNext]_cvars PROVE [Next]_vars
    OBVIOUS
  <1>1. ASSUME NEW r \in Callers, PriceItems(r) \/ GiveUp(r) PROVE [Next]_vars
    BY <1>1 DEF PriceItems, GiveUp
  <1>2. ASSUME NEW r \in Callers, DrawCode(r) PROVE [Next]_vars
    BY <1>2 DEF DrawCode, Next
  <1>3. ASSUME NEW r \in Callers, InsertOrder(r) PROVE [Next]_vars
    \* What the columns refuse is rolled back, as if the request had failed.
    <2>1. CASE Storable(basket[r].menu, basket[r].cart)
      BY <1>3, <2>1 DEF InsertOrder, Next
    <2>2. CASE ~Storable(basket[r].menu, basket[r].cart)
      <3>1. Fail(r)
        BY <1>3, <2>2 DEF InsertOrder, Fail
      <3> QED
        BY <3>1 DEF Next
    <2> QED
      BY <2>1, <2>2
  <1>4. ASSUME NEW r \in Callers, EndOrder(r) PROVE [Next]_vars
    BY <1>4 DEF EndOrder, Next
  <1>5. ASSUME MenuChanges PROVE [Next]_vars
    BY <1>5 DEF MenuChanges
  <1>6. ASSUME DayPasses PROVE [Next]_vars
    BY <1>6 DEF DayPasses, Next
  <1>7. ASSUME UNCHANGED cvars PROVE [Next]_vars
    BY <1>7 DEF cvars
  <1> QED
    BY <1>1, <1>2, <1>3, <1>4, <1>5, <1>6, <1>7 DEF CheckoutNext

\* The transaction of createOrderTx, with items that are priced, columns that
\* refuse and a menu that changes, does to counter, codes and orders nothing
\* that ShortCodes does not allow.
THEOREM ImplementsShortCodes == CheckoutSpec => Spec
  <1>1. CheckoutInit => Init
    BY DEF CheckoutInit
  <1> QED
    BY <1>1, StepImplements, PTL DEF CheckoutSpec, Spec

\* No two orders that are placed bear the same code, whatever carts are sent and
\* whichever of them the columns refuse after their number was drawn.
THEOREM PlacedCodesUnique == CheckoutSpec => []CodesUnique
  BY ImplementsShortCodes, CodesStayUnique, PTL

\* An order whose row is refused leaves no gap in the numbers of its day.
THEOREM RefusedLeaveNoGap == CheckoutSpec => []SequenceCountsOrders
  BY ImplementsShortCodes, NoGaps, PTL
-----------------------------------------------------------------------------
(* Carts and prices.                                                        *)

\* The lines of a cart, and what they name.
LEMMA CartTypes ==
    ASSUME NEW cart \in Carts
    PROVE  /\ cart \in Seq([item : Items, quantity : Int])
           /\ Len(cart) \in Nat /\ DOMAIN cart = 1 .. Len(cart)
           /\ \A k \in 1 .. Len(cart) : cart[k].item \in Items /\ cart[k].quantity \in Int
           /\ ItemsOf(cart) \subseteq Items
  <1>1. cart \in Seq([item : Items, quantity : Int])
    BY CheckoutAssumption
  <1>2. Len(cart) \in Nat /\ DOMAIN cart = 1 .. Len(cart)
    BY <1>1
  <1>3. \A k \in 1 .. Len(cart) : cart[k] \in [item : Items, quantity : Int]
    <2> DEFINE Lines == [item : Items, quantity : Int]
    <2> HIDE DEF Lines
    <2>1. \A q \in Seq(Lines) : \A k \in 1 .. Len(q) : q[k] \in Lines
      OBVIOUS
    <2> QED
      BY <1>1, <2>1 DEF Lines
  <1> QED
    BY <1>1, <1>2, <1>3 DEF ItemsOf

\* A line for every item the cart names: it names no more items than it has
\* lines.
LEMMA ItemsAreLines ==
    ASSUME NEW cart \in Carts
    PROVE  IsFiniteSet(ItemsOf(cart)) /\ Cardinality(ItemsOf(cart)) <= Len(cart)
  <1>1. Len(cart) \in Nat /\ DOMAIN cart = 1 .. Len(cart)
    BY CartTypes
  <1>2. IsFiniteSet(1 .. Len(cart)) /\ Cardinality(1 .. Len(cart)) = Len(cart)
    <2>1. PICK n \in Nat : n = Len(cart)
      BY <1>1
    <2>2. IsFiniteSet(1 .. n) /\ Cardinality(1 .. n) = IF 1 > n THEN 0 ELSE n - 1 + 1
      BY FS_Interval
    <2>3. (IF 1 > n THEN 0 ELSE n - 1 + 1) = n
      OBVIOUS
    <2> QED
      BY <2>1, <2>2, <2>3
  <1> DEFINE f == [k \in 1 .. Len(cart) |-> cart[k].item]
  <1>3. f \in Surjection(1 .. Len(cart), ItemsOf(cart))
    BY <1>1 DEF Surjection, ItemsOf
  <1> QED
    BY <1>2, <1>3, FS_Surjection

\* Counting the rows that were found is enough: each item of an orderable cart
\* has its row, and can be had.
LEMMA OrderableFindsAll ==
    ASSUME NEW cart \in Carts, NEW found \in SUBSET ActiveOf(menu, cart),
           Orderable(menu, cart, found)
    PROVE  /\ found = ItemsOf(cart) /\ ActiveOf(menu, cart) = ItemsOf(cart)
           /\ \A i \in ItemsOf(cart) : menu[i].available
  <1>1. found \in SUBSET ItemsOf(cart) /\ ActiveOf(menu, cart) \subseteq ItemsOf(cart)
    BY DEF ActiveOf
  <1>2. Cardinality(found) = Len(cart) /\ \A i \in found : menu[i].available
    BY DEF Orderable
  <1>3. /\ IsFiniteSet(ItemsOf(cart)) /\ Cardinality(ItemsOf(cart)) <= Len(cart)
        /\ Cardinality(ItemsOf(cart)) \in Nat /\ Len(cart) \in Nat
    BY ItemsAreLines, FS_CardinalityType, CartTypes
  <1>4. Cardinality(found) <= Cardinality(ItemsOf(cart))
    BY <1>1, <1>3, FS_Subset
  <1>5. Cardinality(ItemsOf(cart)) = Cardinality(found)
    BY <1>2, <1>3, <1>4
  <1>6. found = ItemsOf(cart)
    BY <1>1, <1>3, <1>5, FS_Subset
  <1> QED
    BY <1>1, <1>2, <1>6

\* What a caller holds: a cart it has priced, with a row for each item that
\* could be had when it was read.
Priced(b) ==
    /\ b.open /\ b.cart \in Carts
    /\ DOMAIN b.menu = ItemsOf(b.cart)
    /\ \A i \in ItemsOf(b.cart) : b.menu[i] \in Rows /\ b.menu[i].available

\* An order that can commit has passed the columns.
BasketInv ==
    /\ menu \in Menus
    /\ basket = [r \in Callers |-> basket[r]]
    /\ pc \in [Callers -> {"idle", "upsert", "insert", "commit"}]
    /\ \A r \in Callers : /\ basket[r] = NoCart \/ Priced(basket[r])
                          /\ pc[r] # "idle" => Open(r)
                          /\ pc[r] = "commit" => Storable(basket[r].menu, basket[r].cart)

LEMMA InitBasketInv == CheckoutInit => BasketInv
  BY DEF CheckoutInit, Init, BasketInv

\* A step of a caller that ends its transaction or goes on with it.
LEMMA SettledBaskets ==
    ASSUME BasketInv, NEW r \in Callers, Open(r), Settle, menu' = menu,
           \/ pc' = [pc EXCEPT ![r] = "idle"]
           \/ /\ pc' = [pc EXCEPT ![r] = "commit"]
              /\ Storable(basket[r].menu, basket[r].cart)
    PROVE  BasketInv'
  <1>1. basket' = [q \in Callers |-> IF pc'[q] = "idle" THEN NoCart ELSE basket[q]]
    BY DEF Settle
  <1>2. pc' \in [Callers -> {"idle", "upsert", "insert", "commit"}]
    BY DEF BasketInv
  <1>3. \A q \in Callers : pc'[q] # "idle" => Open(q)
    BY DEF BasketInv
  <1>4. \A q \in Callers : /\ basket'[q] = NoCart \/ Priced(basket'[q])
                           /\ pc'[q] # "idle" => basket'[q].open
    BY <1>1, <1>3 DEF BasketInv, Open
  <1>6. \A q \in Callers : pc'[q] = "commit" =>
           Storable(basket'[q].menu, basket'[q].cart)
    BY <1>1 DEF BasketInv
  <1>5. basket' = [q \in Callers |-> basket'[q]]
    BY <1>1
  <1> QED
    BY <1>2, <1>4, <1>5, <1>6 DEF BasketInv, Open, Priced

LEMMA StepBasketInv == BasketInv /\ [CheckoutNext]_cvars => BasketInv'
  <1> SUFFICES ASSUME BasketInv, [CheckoutNext]_cvars PROVE BasketInv'
    OBVIOUS
  <1>1. ASSUME NEW r \in Callers, PriceItems(r) PROVE BasketInv'
    <2>0. PICK cart \in Carts : \E found \in SUBSET ActiveOf(menu, cart) :
             /\ Orderable(menu, cart, found)
             /\ basket' = [basket EXCEPT ![r] =
                             [cart |-> cart, menu |-> ReadRows(cart), open |-> TRUE]]
      BY <1>1 DEF PriceItems
    <2>1. PICK found \in SUBSET ActiveOf(menu, cart) :
             /\ Orderable(menu, cart, found)
             /\ basket' = [basket EXCEPT ![r] =
                             [cart |-> cart, menu |-> ReadRows(cart), open |-> TRUE]]
      BY <2>0
    <2> DEFINE b == [cart |-> cart, menu |-> ReadRows(cart), open |-> TRUE]
    <2>2. /\ ActiveOf(menu, cart) = ItemsOf(cart)
          /\ \A i \in ItemsOf(cart) : menu[i].available
      BY <2>1, OrderableFindsAll
    <2>3. Priced(b)
      <3>1. menu \in [Items -> Rows]
        BY CheckoutAssumption DEF BasketInv
      <3>2. ItemsOf(cart) \subseteq Items
        BY CartTypes
      <3> QED
        BY <2>2, <3>1, <3>2 DEF Priced, ReadRows
    <2>4. b.open
      OBVIOUS
    <2>5. UNCHANGED <<pc, menu>> /\ pc[r] = "idle"
      BY <1>1 DEF PriceItems, vars
    <2> HIDE DEF b
    <2>6. \A q \in Callers : basket'[q] = IF q = r THEN b ELSE basket[q]
      BY <2>1 DEF b, BasketInv
    <2>7. basket' = [q \in Callers |-> basket'[q]]
      BY <2>1 DEF BasketInv
    <2> QED
      BY <2>3, <2>4, <2>5, <2>6, <2>7 DEF BasketInv, Open, Priced
  <1>2. ASSUME NEW r \in Callers, DrawCode(r) PROVE BasketInv'
    <2>1. UNCHANGED <<menu, basket>> /\ Open(r)
      BY <1>2 DEF DrawCode, NextShortCodeTx, BasketInv
    <2>2. pc' = [pc EXCEPT ![r] = "upsert"] \/ pc' = [pc EXCEPT ![r] = "insert"]
      BY <1>2 DEF DrawCode, ReadDate, NextShortCodeTx
    <2> QED
      BY <2>1, <2>2 DEF BasketInv, Open, Priced
  <1>3. ASSUME NEW r \in Callers, InsertOrder(r) PROVE BasketInv'
    <2>1. pc[r] = "insert" /\ Settle /\ menu' = menu
      BY <1>3 DEF InsertOrder, InsertTx
    <2>2. \/ pc' = [pc EXCEPT ![r] = "idle"]
          \/ /\ pc' = [pc EXCEPT ![r] = "commit"]
             /\ Storable(basket[r].menu, basket[r].cart)
      BY <1>3 DEF InsertOrder, InsertTx, Rollback
    <2> QED
      BY <2>1, <2>2, SettledBaskets DEF BasketInv
  <1>4. ASSUME NEW r \in Callers, EndOrder(r) PROVE BasketInv'
    <2>1. pc' = [pc EXCEPT ![r] = "idle"]
      BY <1>4 DEF EndOrder, Commit, Fail, Rollback
    <2> QED
      BY <1>4, <2>1, SettledBaskets DEF EndOrder
  <1>5. ASSUME NEW r \in Callers, GiveUp(r) PROVE BasketInv'
    <2>1. /\ basket' = [basket EXCEPT ![r] = NoCart] /\ UNCHANGED <<pc, menu>>
          /\ pc[r] = "idle"
      BY <1>5 DEF GiveUp, vars
    <2>2. \A q \in Callers : basket'[q] = IF q = r THEN NoCart ELSE basket[q]
      BY <2>1 DEF BasketInv
    <2>3. basket' = [q \in Callers |-> basket'[q]]
      BY <2>1 DEF BasketInv
    <2> QED
      BY <2>1, <2>2, <2>3 DEF BasketInv, Open, Priced
  <1>6. CASE MenuChanges
    BY <1>6 DEF MenuChanges, vars, BasketInv, Open, Priced
  <1>7. CASE DayPasses \/ UNCHANGED cvars
    BY <1>7 DEF DayPasses, Midnight, cvars, vars, BasketInv, Open, Priced
  <1> QED
    BY <1>1, <1>2, <1>3, <1>4, <1>5, <1>6, <1>7 DEF CheckoutNext

LEMMA BasketInvariant == CheckoutSpec => []BasketInv
  BY InitBasketInv, StepBasketInv, PTL DEF CheckoutSpec

\* Type correctness of a placement: what is priced has a row for each of its
\* items, and nothing is drawn or inserted without a priced cart.
THEOREM CheckoutTyped == CheckoutSpec => []CheckoutTypeOK
  <1>1. BasketInv /\ TypeOK => CheckoutTypeOK
    BY DEF BasketInv, Priced, CheckoutTypeOK, Open
  <1> QED
    BY <1>1, BasketInvariant, ImplementsShortCodes, TypeCorrect, PTL

\* The amount charged is the one quoted, and nothing in it was unavailable.
LEMMA ChargesTheQuote == BasketInv => ChargedAsQuoted
  <1> SUFFICES ASSUME BasketInv, NEW r \in Callers, pc[r] = "commit",
                      NEW found \in SUBSET ItemsOf(basket[r].cart), NEW location \in LocationAnswers,
                      Whole(Quote(basket[r].menu, basket[r].cart, found, location), basket[r].cart)
               PROVE  /\ Quote(basket[r].menu, basket[r].cart, found, location).total
                            = Bill(basket[r].menu, basket[r].cart).total
                      /\ Quote(basket[r].menu, basket[r].cart, found, location).unavailable = {}
    BY DEF ChargedAsQuoted
  <1> DEFINE cart  == basket[r].cart
             shown == Kept(cart, [item : found, quantity : Int])
  <1>1. Priced(basket[r])
    BY DEF BasketInv, Open, NoCart
  <1>2. shown = cart /\ location = "open"
    BY DEF Whole, Quote
  <1>3. \A i \in ItemsOf(cart) : basket[r].menu[i].available
    BY <1>1 DEF Priced
  <1> QED
    BY <1>2, <1>3 DEF Quote, FeeOf, Bill

\* A cart whose quote shows every line names only items that were found.
LEMMA ShownAreFound ==
    ASSUME NEW cart \in Carts, NEW found, Kept(cart, [item : found, quantity : Int]) = cart
    PROVE  ItemsOf(cart) \subseteq found
  <1> DEFINE Lines == [item : Items, quantity : Int]
             Found == [item : found, quantity : Int]
  <1>1. cart \in Seq(Lines)
    BY CartTypes
  <1>2. cart \in Seq(Lines \cap Found)
    <2> HIDE DEF Lines
    <2>1. Kept(cart, Found) = cart
      OBVIOUS
    <2> HIDE DEF Found
    <2> QED
      BY <1>1, <2>1, KeptTyped
  <1>3. \A k \in DOMAIN cart : cart[k] \in Found
    <2> HIDE DEF Lines, Found
    <2> QED
      BY <1>2
  <1> QED
    BY <1>3 DEF ItemsOf

LEMMA AcceptsTheQuote == BasketInv => QuoteIsAccepted
  <1> SUFFICES ASSUME NEW cart \in Carts,
                      Whole(Quote(menu, cart, ActiveOf(menu, cart), "open"), cart),
                      Quote(menu, cart, ActiveOf(menu, cart), "open").unavailable = {},
                      Cardinality(ItemsOf(cart)) = Len(cart)
               PROVE  Orderable(menu, cart, ActiveOf(menu, cart))
    BY DEF QuoteIsAccepted
  <1> DEFINE found == ActiveOf(menu, cart)
             shown == Kept(cart, [item : found, quantity : Int])
  <1>1. shown = cart
    BY DEF Whole, Quote
  <1>2. \A i \in ItemsOf(shown) : menu[i].available
    BY DEF Quote
  <1>3. found = ItemsOf(cart)
    <2>1. found \subseteq ItemsOf(cart)
      BY DEF ActiveOf
    <2> HIDE DEF found
    <2>2. ItemsOf(cart) \subseteq found
      BY <1>1, ShownAreFound
    <2> QED
      BY <2>1, <2>2
  <1> HIDE DEF found, shown
  <1>4. Orderable(menu, cart, found)
    BY <1>1, <1>2, <1>3 DEF Orderable
  <1> QED
    BY <1>4 DEF found

-----------------------------------------------------------------------------
(* Sums.                                                                    *)

Long == 2 ^ (LongBits - 1)
Column == 2 ^ (IntBits - 1)

LEMMA Widths ==
    /\ Long \in Nat \ {0} /\ Column \in Nat \ {0} /\ Fee \in Nat
    /\ MaxQuantity \in Nat \ {0} /\ MaxQuantity * Column <= Long
  BY PricingAssumption, PowersAssumption DEF Long, Column

LEMMA Columns ==
    /\ \A n : FitsInt(n) <=> n \in -Column .. (Column - 1)
    /\ \A row \in Rows : row.price \in 1 .. Column - 1
    /\ \A cart \in Carts : Len(cart) * Column + Fee < Long
  BY PowersAssumption, CheckoutAssumption DEF Long, Column, FitsInt, Rows

\* What fits into int64 is not wrapped around.
LEMMA WrapFits ==
    ASSUME NEW n \in Nat, n < Long
    PROVE  Wrap(n) = n
  <1>1. Long \in Nat \ {0} /\ Wrap(n) = ((n + Long) % (2 * Long)) - Long
    BY PowersAssumption DEF Long, Wrap
  <1>2. (n + Long) % (2 * Long) = n + Long
    BY <1>1
  <1> QED
    BY <1>1, <1>2

LEMMA Products ==
    ASSUME NEW a \in Nat, NEW b \in Nat, NEW c \in Nat, NEW d \in Nat, a <= b, c <= d
    PROVE  a * c \in Nat /\ a * c <= b * d
  <1>1. a * c <= b * c
    OBVIOUS
  <1>2. b * c <= b * d
    OBVIOUS
  <1> QED
    BY <1>1, <1>2

\* What the first k lines of a cart cost, in whole numbers.
Costs(m, cart, t) ==
    /\ t[0] = 0
    /\ \A k \in 1 .. Len(cart) :
          t[k] = t[k - 1] + m[cart[k].item].price * cart[k].quantity

LEMMA CostsExist ==
    ASSUME NEW m, NEW cart \in Carts,
           \A k \in 1 .. Len(cart) : m[cart[k].item].price * cart[k].quantity \in Int
    PROVE  \E t \in [0 .. Len(cart) -> Int] : Costs(m, cart, t)
  <1> DEFINE n == Len(cart)
             V == Int
             zero == 0
             pass == [k \in 1 .. n |-> [x \in V |->
                                         x + m[cart[k].item].price * cart[k].quantity]]
  <1>1. n \in Nat /\ zero \in V
    BY CartTypes
  <1>2. pass \in [1 .. n -> [V -> V]]
    OBVIOUS
  <1>3. PICK t \in [0 .. n -> V] : t[0] = zero /\ \A k \in 1 .. n : t[k] = pass[k][t[k - 1]]
    <2>1. \E f \in [0 .. n -> V] : Follows(f, n, zero, pass)
      <3> HIDE DEF n, V, zero, pass
      <3> QED
        BY <1>1, <1>2, LoopRuns
    <2> QED
      BY <2>1 DEF Follows
  <1>4. ASSUME NEW k \in 1 .. n
        PROVE  t[k] = t[k - 1] + m[cart[k].item].price * cart[k].quantity
    <2>1. k - 1 \in 0 .. n /\ t[k - 1] \in Int
      BY <1>1
    <2> QED
      BY <1>3, <2>1
  <1> QED
    BY <1>3, <1>4 DEF Costs

\* The lines of an order that the columns take cost what their columns say, and
\* all of them together fit into int64.
LEMMA LinesFit ==
    ASSUME NEW m, NEW cart \in Carts, \A i \in ItemsOf(cart) : m[i] \in Rows,
           Storable(m, cart), NEW k \in 1 .. Len(cart)
    PROVE  /\ m[cart[k].item].price * cart[k].quantity \in 0 .. Column
           /\ LineTotal(m, cart[k]) = m[cart[k].item].price * cart[k].quantity
  <1> DEFINE price == m[cart[k].item].price
             quantity == cart[k].quantity
  <1>1. k \in DOMAIN cart /\ cart[k].item \in ItemsOf(cart)
    BY CartTypes DEF ItemsOf
  <1>2. price \in Nat /\ price <= Column - 1
    BY <1>1, Widths, Columns
  <1>3. quantity \in 1 .. MaxQuantity /\ FitsInt(LineTotal(m, cart[k]))
    BY <1>1 DEF Storable
  <1>4. LineTotal(m, cart[k]) = Wrap(price * quantity)
    BY DEF LineTotal
  <1> HIDE DEF price, quantity
  <1>5. quantity \in Nat /\ quantity <= MaxQuantity /\ MaxQuantity \in Nat \ {0}
    BY <1>3, Widths
  <1>6. price * quantity \in Nat /\ price * quantity <= (Column - 1) * MaxQuantity
    <2>1. Column - 1 \in Nat
      BY Widths
    <2> QED
      BY <1>2, <1>5, <2>1, Products
  <1>7. price * quantity < Long
    <2>1. (Column - 1) * MaxQuantity = MaxQuantity * Column - MaxQuantity
      BY <1>5, Widths
    <2>2. MaxQuantity * Column \in Nat /\ MaxQuantity * Column <= Long
      BY <1>5, Widths
    <2> DEFINE product == MaxQuantity * Column
               cost == price * quantity
               most == (Column - 1) * MaxQuantity
    <2>3. most = product - MaxQuantity /\ product \in Nat /\ product <= Long
          /\ cost \in Nat /\ cost <= most
      BY <1>6, <2>1, <2>2
    <2> HIDE DEF product, cost, most
    <2>4. cost < Long
      BY <1>5, <2>3, Widths
    <2> QED
      BY <2>4 DEF cost
  <1>8. Wrap(price * quantity) = price * quantity
    BY <1>6, <1>7, WrapFits
  <1>9. price * quantity \in -Column .. (Column - 1)
    BY <1>3, <1>4, <1>8, Columns
  <1> DEFINE cost == price * quantity
  <1>10. cost \in Nat /\ cost \in -Column .. (Column - 1)
    BY <1>6, <1>9
  <1>11. cost \in 0 .. Column
    <2> HIDE DEF cost
    <2> QED
      BY <1>10, Widths
  <1> QED
    BY <1>4, <1>8, <1>11 DEF price, quantity

LEMMA CostsFit ==
    ASSUME NEW m, NEW cart \in Carts, \A i \in ItemsOf(cart) : m[i] \in Rows,
           Storable(m, cart), NEW t \in [0 .. Len(cart) -> Int], Costs(m, cart, t)
    PROVE  \A k \in 0 .. Len(cart) : t[k] \in Nat /\ t[k] + Fee < Long
  <1> DEFINE n == Len(cart)
             P == {k \in Nat : k <= n => t[k] \in Nat /\ t[k] <= k * Column}
  <1>0. n \in Nat /\ Column \in Nat
    BY CartTypes, Widths
  <1>1. 0 \in P
    BY <1>0 DEF Costs
  <1>2. ASSUME NEW k \in Nat, k \in P PROVE k + 1 \in P
    <2> SUFFICES ASSUME k + 1 <= n PROVE t[k + 1] \in Nat /\ t[k + 1] <= (k + 1) * Column
      OBVIOUS
    <2> DEFINE cost == m[cart[k + 1].item].price * cart[k + 1].quantity
    <2>1. k + 1 \in 1 .. n /\ (k + 1) - 1 = k
      BY <1>0
    <2>2. t[k + 1] = t[k] + cost
      BY <2>1 DEF Costs
    <2>3. cost \in 0 .. Column
      BY <2>1, LinesFit
    <2>4. t[k] \in Nat /\ t[k] <= k * Column
      BY <1>0, <1>2
    <2>5. (k + 1) * Column = k * Column + Column /\ k * Column \in Nat
      BY <1>0
    <2> DEFINE whole == k * Column
    <2>6. (k + 1) * Column = whole + Column /\ whole \in Nat /\ t[k] <= whole
      BY <2>4, <2>5
    <2> HIDE DEF cost, whole
    <2>7. t[k] + cost \in Nat /\ t[k] + cost <= whole + Column
      BY <1>0, <2>3, <2>4, <2>6
    <2> QED
      BY <2>2, <2>6, <2>7
  <1>3. Nat \subseteq P
    <2> HIDE DEF P
    <2> QED
      BY <1>1, <1>2, Induction
  <1>4. ASSUME NEW k \in 0 .. n PROVE t[k] \in Nat /\ t[k] + Fee < Long
    <2>1. k \in Nat /\ k <= n /\ t[k] \in Nat /\ t[k] <= k * Column
      BY <1>0, <1>3
    <2>2. k * Column \in Nat /\ k * Column <= n * Column
      BY <1>0, <2>1, Products
    <2>3. n * Column \in Nat /\ n * Column + Fee < Long
      BY <1>0, Columns
    <2> DEFINE some == k * Column
               all  == n * Column
    <2>4. t[k] \in Nat /\ t[k] <= some /\ some \in Nat /\ some <= all
          /\ all \in Nat /\ all + Fee < Long
      BY <2>1, <2>2, <2>3
    <2> HIDE DEF some, all
    <2> QED
      BY <2>4, Widths
  <1> QED
    BY <1>4

\* The loop of createOrderTx adds up what the lines cost.
LEMMA SubtotalIsCost ==
    ASSUME NEW m, NEW cart \in Carts, \A i \in ItemsOf(cart) : m[i] \in Rows,
           Storable(m, cart), NEW t \in [0 .. Len(cart) -> Int], Costs(m, cart, t)
    PROVE  Subtotal(m, cart) = t[Len(cart)]
  <1> DEFINE n == Len(cart)
             Loop(f) == [k \in 0 .. n |-> IF k = 0 THEN 0
                                         ELSE Wrap(f[k - 1] + LineTotal(m, cart[k]))]
  <1>1. n \in Nat
    BY CartTypes
  <1>2. ASSUME NEW k \in 0 .. n - 1
        PROVE  t[k + 1] = Wrap(t[k] + LineTotal(m, cart[k + 1]))
    <2>1. k + 1 \in 1 .. n /\ (k + 1) - 1 = k /\ k + 1 \in 0 .. n
      BY <1>1
    <2>2. t[k + 1] = t[k] + LineTotal(m, cart[k + 1])
      BY <2>1, LinesFit DEF Costs
    <2>3. t[k + 1] \in Nat /\ t[k + 1] + Fee < Long
      BY <2>1, CostsFit
    <2>4. t[k + 1] < Long
      BY <2>3, Widths
    <2>5. Wrap(t[k + 1]) = t[k + 1]
      BY <2>3, <2>4, WrapFits
    <2> QED
      BY <2>2, <2>5
  <1>3. t = Loop(t)
    <2>1. \A k \in 0 .. n : t[k] = IF k = 0 THEN 0
                                   ELSE Wrap(t[k - 1] + LineTotal(m, cart[k]))
      <3> SUFFICES ASSUME NEW k \in 0 .. n, k # 0
                   PROVE  t[k] = Wrap(t[k - 1] + LineTotal(m, cart[k]))
        BY DEF Costs
      <3>1. k - 1 \in 0 .. n - 1 /\ (k - 1) + 1 = k
        BY <1>1
      <3>2. t[(k - 1) + 1] = Wrap(t[k - 1] + LineTotal(m, cart[(k - 1) + 1]))
        BY <1>2, <3>1
      <3> QED
        BY <3>1, <3>2
    <2> QED
      BY <2>1
  <1>4. ASSUME NEW g, g = Loop(g) PROVE g[n] = t[n]
    <2>1. g[0] = t[0]
      <3>1. 0 \in 0 .. n
        BY <1>1
      <3> QED
        BY <1>4, <3>1 DEF Costs
    <2>2. ASSUME NEW k \in 0 .. n - 1, g[k] = t[k] PROVE g[k + 1] = t[k + 1]
      <3>1. k + 1 \in 0 .. n /\ k + 1 # 0 /\ (k + 1) - 1 = k
        BY <1>1
      <3>2. g[k + 1] = IF k + 1 = 0 THEN 0
                       ELSE Wrap(g[(k + 1) - 1] + LineTotal(m, cart[k + 1]))
        BY <1>4, <3>1
      <3> QED
        BY <1>2, <2>2, <3>1, <3>2
    <2> HIDE DEF n, Loop
    <2> QED
      BY <1>1, <2>1, <2>2, SameRuns
  <1>5. Subtotal(m, cart) = (CHOOSE g : g = Loop(g))[n]
    BY DEF Subtotal
  <1> HIDE DEF Loop
  <1> QED
    BY <1>3, <1>4, <1>5

\* So does the reference, with the fee.
LEMMA WorthIsCost ==
    ASSUME NEW m, NEW cart \in Carts, NEW t \in [0 .. Len(cart) -> Int], Costs(m, cart, t),
           \A k \in 1 .. Len(cart) : m[cart[k].item].price * cart[k].quantity \in Int
    PROVE  Worth(m, cart) = Fee + t[Len(cart)]
  <1> DEFINE n == Len(cart)
             cost(k) == m[cart[k].item].price * cart[k].quantity
             Loop(f) == [k \in 0 .. n |-> IF k = 0 THEN Fee ELSE f[k - 1] + cost(k)]
             w == [k \in 0 .. n |-> Fee + t[k]]
  <1>1. n \in Nat /\ Fee \in Nat
    BY CartTypes, Widths
  <1>2. ASSUME NEW k \in 0 .. n - 1 PROVE w[k + 1] = w[k] + cost(k + 1)
    <2>1. k + 1 \in 1 .. n /\ (k + 1) - 1 = k /\ k + 1 \in 0 .. n /\ k \in 0 .. n
      BY <1>1
    <2>2. t[k + 1] = t[k] + cost(k + 1) /\ t[k] \in Int /\ t[k + 1] \in Int
      BY <2>1 DEF Costs
    <2>3. cost(k + 1) \in Int
      BY <2>1
    <2>4. w[k + 1] = Fee + t[k + 1] /\ w[k] = Fee + t[k]
      BY <2>1
    <2> HIDE DEF cost
    <2>5. Fee + (t[k] + cost(k + 1)) = (Fee + t[k]) + cost(k + 1)
      BY <1>1, <2>2, <2>3
    <2> QED
      BY <2>2, <2>4, <2>5
  <1>3. w = Loop(w)
    <2>1. \A k \in 0 .. n : w[k] = IF k = 0 THEN Fee ELSE w[k - 1] + cost(k)
      <3>1. w[0] = Fee
        BY <1>1 DEF Costs
      <3> SUFFICES ASSUME NEW k \in 0 .. n, k # 0 PROVE w[k] = w[k - 1] + cost(k)
        BY <3>1
      <3>2. k - 1 \in 0 .. n - 1 /\ (k - 1) + 1 = k
        BY <1>1
      <3>3. w[(k - 1) + 1] = w[k - 1] + cost((k - 1) + 1)
        BY <1>2, <3>2
      <3> QED
        BY <3>2, <3>3
    <2>2. w = [k \in 0 .. n |-> w[k]]
      OBVIOUS
    <2> HIDE DEF w
    <2> QED
      BY <2>1, <2>2
  <1>4. ASSUME NEW g, g = Loop(g) PROVE g[n] = w[n]
    <2>1. g[0] = w[0]
      <3>1. 0 \in 0 .. n
        BY <1>1
      <3>2. g[0] = Fee
        BY <1>4, <3>1
      <3> QED
        BY <1>1, <3>1, <3>2 DEF Costs
    <2>2. ASSUME NEW k \in 0 .. n - 1, g[k] = w[k] PROVE g[k + 1] = w[k + 1]
      <3>1. k + 1 \in 0 .. n /\ k + 1 # 0 /\ (k + 1) - 1 = k
        BY <1>1
      <3>2. g[k + 1] = IF k + 1 = 0 THEN Fee ELSE g[(k + 1) - 1] + cost(k + 1)
        BY <1>4, <3>1
      <3> HIDE DEF w, cost
      <3> QED
        BY <1>2, <2>2, <3>1, <3>2
    <2> HIDE DEF n, Loop, w
    <2> QED
      BY <1>1, <2>1, <2>2, SameRuns
  <1>5. Worth(m, cart) = (CHOOSE g : g = Loop(g))[n]
    BY DEF Worth
  <1>6. w[n] = Fee + t[n]
    BY <1>1
  <1> HIDE DEF Loop, w
  <1> QED
    BY <1>3, <1>4, <1>5, <1>6

\* What an order is charged that the columns take is what its lines cost, and no
\* sum on the way wraps around: whatever quantities a client sends, the CHECK on
\* them and the INT columns turn away every cart whose int64 sum does.
THEOREM ChargesAreExact == CheckoutSpec => []ChargedExactly
  <1>1. ASSUME BasketInv, NEW r \in Callers, pc[r] = "commit"
        PROVE  Bill(basket[r].menu, basket[r].cart).total
                  = Worth(basket[r].menu, basket[r].cart)
    <2>1. PICK m, cart : m = basket[r].menu /\ cart = basket[r].cart
      OBVIOUS
    <2>2. cart \in Carts /\ (\A i \in ItemsOf(cart) : m[i] \in Rows) /\ Storable(m, cart)
      BY <1>1, <2>1 DEF BasketInv, Open, NoCart, Priced
    <2>3. \A k \in 1 .. Len(cart) : m[cart[k].item].price * cart[k].quantity \in Int
      BY <2>2, LinesFit, Widths
    <2>4. PICK t \in [0 .. Len(cart) -> Int] : Costs(m, cart, t)
      BY <2>2, <2>3, CostsExist
    <2>5. Len(cart) \in 0 .. Len(cart)
      BY <2>2, CartTypes
    <2>6. t[Len(cart)] \in Nat /\ t[Len(cart)] + Fee < Long
      BY <2>2, <2>4, <2>5, CostsFit
    <2>7. t[Len(cart)] + Fee \in Nat
      BY <2>6, Widths
    <2>8. Wrap(t[Len(cart)] + Fee) = t[Len(cart)] + Fee
      BY <2>6, <2>7, WrapFits
    <2>9. Subtotal(m, cart) = t[Len(cart)] /\ Worth(m, cart) = Fee + t[Len(cart)]
      BY <2>2, <2>3, <2>4, SubtotalIsCost, WorthIsCost
    <2>10. Bill(m, cart).total = t[Len(cart)] + Fee
      BY <2>8, <2>9 DEF Bill
    <2>11. t[Len(cart)] + Fee = Fee + t[Len(cart)]
      BY <2>6, Widths
    <2> QED
      BY <2>1, <2>9, <2>10, <2>11
  <1>2. BasketInv => ChargedExactly
    BY <1>1 DEF ChargedExactly
  <1> QED
    BY <1>2, BasketInvariant, PTL

\* POST /cart/validate and POST /orders price one menu alike: the amount charged is
\* the amount of a quote of the same rows that shows every line and delivery enabled,
\* nothing in it was unavailable, and step 4 of an order does not refuse such a cart,
\* whatever its columns do (ValidateCart, createOrderTx).
THEOREM QuoteIsCharged == CheckoutSpec => []QuoteHolds
  <1>1. BasketInv => QuoteHolds
    BY ChargesTheQuote, AcceptsTheQuote DEF QuoteHolds
  <1> QED
    BY <1>1, BasketInvariant, PTL
=============================================================================
