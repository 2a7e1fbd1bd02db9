SPECIFICATION FairSpec
CONSTANTS
  Sessions = {s1}
  Inbound = {t1}
  Users = {"default"}
  Peers <- MCPeers
  Values <- MCValues
  ValueLen <- MCValueLen
  Passwords <- MCPasswords
  Sizes <- MCAllSizes
  DefaultUser = "default"
  Inodes = {1, 2, 3}
  NoInode = NoInode
  NoUser = NoUser
  NoPeer = NoPeer
  MaxFaults = 1
INVARIANTS
  Inv
  TrustlineFilesComplete
  TrustlineIsOneRequest
PROPERTIES
  CommandsAnswered
