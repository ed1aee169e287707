SPECIFICATION FairSpec
CONSTANTS
  r1 = r1
  d1 = d1
  d2 = d2
  s1 = s1
  s2 = s2
  Ride <- RideIds
  Driver <- DriverIds
  Slot <- Slots
  Customer = customer
  Nobody = nobody
  MaxCrashes = 1
INVARIANTS
  TypeOK
  ServedRideHasDriver
  CompletedRideWasDriven
  RoomShowsRow
  PositionFromMatchedDriver
  OffersGoToMatchedDrivers
PROPERTIES
  LifecycleUnlessOverlapped
  CancelReachesRoom
CHECK_DEADLOCK FALSE
