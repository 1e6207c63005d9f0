SPECIFICATION SerialSpec
CONSTANTS
  c1 = c1
  c2 = c2
  c3 = c3
  alice = alice
  Creates = {c1, c2}
  Cancels = {u1}
  Admins = {a1}
  Reads = {}
  Slots = {s1}
  Locations = {l1, l2}
  LocationOf <- MCLocationOf
  UserOf <- MCUserOf
  AdminTargets = {"ACCEPTED", "PREPARING", "READY", "OUT_FOR_DELIVERY", "DELIVERED", "CANCELLED_BY_ADMIN"}
  InitialCapacity = 1
  SlotEdits <- MCEdits
  DeliveryFlags = {TRUE}
  Regulars = {u1, a1}
  MaxEvents = 9
  Nobody = Nobody
INVARIANTS
  LedgerExact
  NoOversell
  PaidIffDelivered
  TimelineChained
PROPERTIES
  LegalTransitions
  ImplementsOrderBook
SYMMETRY Symmetry
