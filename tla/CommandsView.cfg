SPECIFICATION OrdinarySpec
CONSTANTS
  Clients = {c1, c2}
  LengthOf <- MCLengthOf
  Dotted <- MCDotted
  Home = "home"
  Endpoints <- MCEndpoints
  RemoteAccounts <- MCRemoteAccounts
  Lines <- WellFormed
  MaxUnread = 0
SYMMETRY Symmetry
CHECK_DEADLOCK FALSE
INVARIANTS
  TypeOK
  InStep
  ReadAsTyped
PROPERTIES
  ImplementsUserView
