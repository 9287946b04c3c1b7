\* Two of three requests at a time of two customers, over one product that may be
\* restocked, repriced or removed, and three addresses.
SPECIFICATION Spec
CONSTANTS
  Requests = {r1, r2}
  Customers = {u1, u2}
  Products = {p1}
  LineIds = {l1, l2}
  AddressIds = {a1, a2, a3}
  None = None
  Keep = Keep
  Quantities = {2}
  InitialStock <- ThreeEach
  Levels = {5}
  Prices = {7, 10}
  Percent <- TenPercent
  MaxArrivals = 3
  MaxChanges = 1
SYMMETRY Interchangeable
INVARIANTS
  TypeOK
  CartHolds
  DefaultsBounded
  OrdersAddUp
PROPERTIES
  ImplementsCart
  AdditionsCount
  ClearedWasOrdered
\* MaxArrivals ends the run.
CHECK_DEADLOCK FALSE
