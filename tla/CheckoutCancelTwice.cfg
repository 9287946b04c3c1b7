\* An order is cancelled by two requests, at the same time or one after the other.
SPECIFICATION Spec
CONSTANTS
  Requests = {r1, r2}
  Users = {u1}
  Products = {p1}
  OrderIds = {o1}
  Nobody = Nobody
  NoOrder = NoOrder
  MaxQty = 1
  CartQuantities = {0, 1}
  InitialStock <- OneUnitEach
  Restockable = {}
  StockLevels = {}
  Methods = {"CASH_ON_DELIVERY"}
  AdminStatuses = {}
  MaxReturns = 2
  MaxDay = 1
  Faults = FALSE
INVARIANT StockReturnedOnce
