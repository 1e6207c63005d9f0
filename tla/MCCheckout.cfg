SPECIFICATION CheckoutSpec
CONSTANTS
  Callers = {p1, p2}
  Letters = 2
  PerLetter = 2
  MaxDay = 2
  Nobody = Nobody
  dosa = dosa
  tea = tea
  Items = {dosa, tea}
  Fee = 1
  LongBits = 8
  IntBits = 5
  MaxQuantity = 3
  Carts <- MCCarts
  Menus <- MCMenus
SYMMETRY Symmetry
INVARIANTS
  CheckoutTypeOK
  CodesUnique
  SequenceCountsOrders
  ChargedExactly
  QuoteHolds
