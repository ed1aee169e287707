SPECIFICATION Spec
CONSTANTS
  p1 = p1
  p2 = p2
  s1 = s1
  s2 = s2
  Product <- ProductIds
  Slot <- Slots
  Carts <- CartsTried
  Amounts <- AmountsTried
  Portions <- PortionsTried
  Null = null
PROPERTY
  RestockSetsStock
CHECK_DEADLOCK FALSE
