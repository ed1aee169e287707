SPECIFICATION FairSpec
CONSTANTS
  o1 = o1
  c1 = c1
  c2 = c2
  s1 = s1
  s2 = s2
  Order <- OrderIds
  Courier <- CourierIds
  Slot <- Slots
  Merchant = merchant
  Leaving <- LeavingIds
  MaxMishaps = 1
  MaxRows = 1
INVARIANTS
  TypeOK
  AssignedOrderHasCourier
  ClaimIsExclusive
  TimelineFollowsCourier
PROPERTIES
  OrderLifecycleUnlessContended
  TimelineForwardUnlessRaced
  DeliveredReachesCustomer
CHECK_DEADLOCK FALSE
