SPECIFICATION FairSpec
CONSTANTS
  Servers = {"a", "b"}
  Clients = {"c1", "c2"}
  HomeServer <- MCHomeTwo
  Visitors = {v1}
  MaxRequests = 1
  MaxFaults = 0
  None = None
CHECK_DEADLOCK FALSE
PROPERTIES
  RequestsAnswered
