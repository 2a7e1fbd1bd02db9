SPECIFICATION Spec
CONSTANTS
  Servers = {"a", "b"}
  Clients = {"c1"}
  HomeServer <- MCHomeOne
  Visitors = {}
  MaxRequests = 2
  MaxFaults = 1
  None = None
CHECK_DEADLOCK FALSE
INVARIANTS
  SuccessMeansSet
