SPECIFICATION Spec
CONSTANTS
  Clients = {"c1"}
  LengthOf <- MCLengthOf
  Dotted <- MCDotted
  Home = "home"
  Endpoints <- MCEndpoints
  RemoteAccounts <- MCRemoteAccounts
  Lines <- LongQuery
  MaxUnread = 0
CHECK_DEADLOCK FALSE
INVARIANT
  TrustlineAsTyped
