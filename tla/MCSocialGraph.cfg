SPECIFICATION SocialSpec
CONSTANTS
  a = a
  b = b
  s1 = s1
  s2 = s2
  User <- Users
  Slot <- Slots
INVARIANTS
  BlockSevers
  FriendsAreMutual
  OneRowPerPair
PROPERTIES
  AcceptedWhilePending
SYMMETRY Symmetry
CHECK_DEADLOCK FALSE
