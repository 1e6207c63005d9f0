SPECIFICATION Spec
CONSTANTS
  c1 = c1
  c2 = c2
  c3 = c3
  alice = alice
  Creates = {c1, c2}
  Cancels = {u1}
  Admins = {a1}
  Reads = {}
  Slots = {s1}
  Locations = {l1}
  LocationOf <- MCLocationOf
  UserOf <- MCUserOf
  AdminTargets = {"ACCEPTED", "CANCELLED_BY_ADMIN"}
  InitialCapacity = 2
  SlotEdits <- MCLowering
  DeliveryFlags = {TRUE, FALSE}
  Regulars = {a1}
  MaxEvents = 3
  Nobody = Nobody
INVARIANTS
  TypeOK
  WithinCapacity
  SeatsBacked
  AuditTrail
  AckedIsRecorded
  NoLockCycle
PROPERTIES
  PlacementTakesSeat
SYMMETRY Symmetry
