SPECIFICATION FairSpec
CONSTANTS
  p1 = p1
  p2 = p2
  s1 = s1
  s2 = s2
  Product <- ProductIds
  Slot <- Slots
  Carts <- CartsTried
  Amounts <- AmountsTried
  Portions <- PortionsTried
  Null = null
INVARIANTS
  TypeOK
  StockNeverNegative
  UnitsConserved
  InventoryInSync
  OrderTakesWholeCart
PROPERTIES
  RequestsEnd
CHECK_DEADLOCK FALSE
