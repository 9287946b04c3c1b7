\* Two requests race for two orders of one product around midnight: every handler
\* step, every fault, cancellations and an administrator that ships.
SPECIFICATION Spec
CONSTANTS
  Requests = {r1, r2}
  Users = {u1}
  Products = {p1}
  OrderIds = {o1, o2}
  Nobody = Nobody
  NoOrder = NoOrder
  MaxQty = 2
  CartQuantities = {0, 2}
  InitialStock <- TwoUnitsEach
  Restockable = {}
  StockLevels = {}
  Methods = {"ZARINPAL"}
  AdminStatuses = {"SHIPPED"}
  MaxReturns = 1
  MaxDay = 2
  Faults = TRUE
SYMMETRY Symmetry
INVARIANTS
  TypeOK
  PaidMeansSettled
  MoneyFindable
  StockLedger
  OrderNumbers
  OversellBounded
  ClearedCartHasOrder
PROPERTIES
  ImplementsOrderPayment
