SPECIFICATION FairSpec
CONSTANTS
  Clients = {"c1"}
  LengthOf <- MCLengthOf
  Dotted <- MCDotted
  Home = "home"
  Endpoints <- MCEndpoints
  RemoteAccounts <- MCRemoteAccounts
  Lines <- AnyLine
  MaxUnread = 1
CHECK_DEADLOCK FALSE
INVARIANTS
  InStep
PROPERTIES
  Answered
