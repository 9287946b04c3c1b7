\* Two requests order the one unit of a product: both pass the stock check before
\* either decrements.
SPECIFICATION Spec
CONSTANTS
  Requests = {r1, r2}
  Users = {u1}
  Products = {p1}
  OrderIds = {o1, o2}
  Nobody = Nobody
  NoOrder = NoOrder
  MaxQty = 1
  CartQuantities = {0, 1}
  InitialStock <- OneUnitEach
  Restockable = {}
  StockLevels = {}
  Methods = {"CASH_ON_DELIVERY"}
  AdminStatuses = {}
  MaxReturns = 0
  MaxDay = 1
  Faults = FALSE
INVARIANT StockNeverNegative
