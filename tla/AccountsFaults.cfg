SPECIFICATION FairSpec
CONSTANTS
  Sessions = {s1, s2}
  Inbound = {}
  Users = {"default"}
  Peers <- MCPeers
  Values <- MCValues
  ValueLen <- MCValueLen
  Passwords <- MCPasswords
  Sizes <- MCSizes
  DefaultUser = "default"
  Inodes = {1, 2, 3}
  NoInode = NoInode
  NoUser = NoUser
  NoPeer = NoPeer
  MaxFaults = 1
INVARIANTS
  Inv
  RegistrationDurable
  NoRemains
PROPERTIES
  SettledAccountKeepsPassword
  FailedRegistrationFreesName
  CommandsAnswered
