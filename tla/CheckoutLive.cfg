\* No request is dropped and the server schedules every handler; the bank
\* transfer, Zarinpal and the gateway that always throws are all in use, and the
\* product is restocked.
SPECIFICATION FairSpec
CONSTANTS
  Requests = {r1, r2}
  Users = {u1}
  Products = {p1}
  OrderIds = {o1, o2}
  Nobody = Nobody
  NoOrder = NoOrder
  MaxQty = 1
  CartQuantities = {0, 1}
  InitialStock <- OneUnitEach
  Restockable = {p1}
  StockLevels = {1}
  Methods = {"ZARINPAL", "NEXTPAY", "BANK_TRANSFER"}
  AdminStatuses = {}
  MaxReturns = 0
  MaxDay = 1
  Faults = FALSE
PROPERTIES
  HandlersFinish
  CallbackDecides
