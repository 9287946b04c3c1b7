\* One request cancels an order while another verifies its payment.
SPECIFICATION Spec
CONSTANTS
  Requests = {r1, r2}
  Users = {u1}
  Products = {p1}
  OrderIds = {o1}
  Nobody = Nobody
  NoOrder = NoOrder
  MaxQty = 1
  CartQuantities = {0, 1}
  InitialStock <- OneUnitEach
  Restockable = {}
  StockLevels = {}
  Methods = {"ZARINPAL"}
  AdminStatuses = {}
  MaxReturns = 1
  MaxDay = 1
  Faults = FALSE
PROPERTY CancelSparesPaid
