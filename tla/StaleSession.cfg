SPECIFICATION Spec
CONSTANTS
  Clients = {"c1", "c2"}
  LengthOf <- MCLengthOf
  Dotted <- MCDotted
  Home = "home"
  Endpoints <- MCEndpoints
  RemoteAccounts <- MCRemoteAccounts
  Lines <- Passwords
  MaxUnread = 0
CHECK_DEADLOCK FALSE
INVARIANT
  AuthenticatedInteraction
