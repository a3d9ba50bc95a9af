SPECIFICATION CloseoutSpec
CONSTANTS
  NoPosition = NoPosition
  NewTicket = 3
  Prior <- LeftBehind
  Pending <- UsersOrders
CHECK_DEADLOCK FALSE
INVARIANTS VerifiedCleanupIsReal ReportsAreTrue
PROPERTIES TouchesOnlyItsOwn RunsEnd
