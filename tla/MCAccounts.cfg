SPECIFICATION Spec
CONSTANTS
  r1 = r1
  r2 = r2
  Request <- Requests
  Login <- Logins
  Choices <- ChoicesTried
  Gated <- GatedTried
  MaxCodes = 2
  MaxAttempts = 2
  MaxLost = 1
INVARIANTS
  AccountsTypeOK
  GuessesBounded
  TokenRolesAreHeld
  ApprovedHasRole
  SignUpIsComplete
PROPERTIES
  CodesAreTickets
CHECK_DEADLOCK FALSE
