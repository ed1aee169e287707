SPECIFICATION BackOfficeSpec
CONSTANTS
  Address = {d1, d2, d3}
  Writer = {w1, w2}
  Holder = {u1, u2}
  Device = {t1}
  Call = {c1, c2}
  MaxMade = 2
  Photos = 3
  Change = {k1, k2}
  MaxShops = 2
  Day = {1, 2}
  Product = {1, 2}
  Inactive = {2}
  Merchant = {m1, m2}
  Buyer = {b1, b2}
  Total <- Totals
  Moment <- Moments
  MonthStart <- Months
  Regular = 2
SYMMETRY Symmetry
CHECK_DEADLOCK FALSE
INVARIANTS
  DeliverToIsReady
  RegistrationStands
  
  ShopsAreReady
  ReportsAgree
