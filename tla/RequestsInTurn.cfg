SPECIFICATION FairSpec
CONSTANTS
  Servers = {"a", "b"}
  Clients = {"c1"}
  HomeServer <- MCHomeOne
  Visitors = {v1}
  MaxRequests = 2
  MaxFaults = 1
  None = None
CHECK_DEADLOCK FALSE
INVARIANTS
  Inv
  AckedIsLatest
  SuccessIsNotMadeUp
  ServedIsOpen
PROPERTIES
  ImplementsService
  AnsweredOrEmpty
