SPECIFICATION Spec
CONSTANTS
  o1 = o1
  o2 = o2
  i1 = i1
  i2 = i2
  Creators = {c1, c2}
  Updaters = {u1}
  Hiders = {h1}
  Orders = {o1, o2}
  Items = {i1, i2}
  ItemsOf <- MCItemsOf
  OrdersOf <- MCOrdersOf
  Ratings = {1, 5}
  Nothing = Nothing
INVARIANTS
  OneReviewPerOrder
  RatingsExplained
