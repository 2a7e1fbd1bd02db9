SPECIFICATION Spec
CONSTANTS
  Sessions = {s1}
  Inbound = {t1}
  Users = {"default"}
  Peers <- MCPeers
  Values <- MCValues
  ValueLen <- MCValueLen
  Passwords <- MCPasswords
  Sizes <- MCSizes
  DefaultUser = "default"
  Inodes = {1, 2, 3}
  NoInode = NoInode
  NoUser = NoUser
  NoPeer = NoPeer
  MaxFaults = 0
INVARIANTS
  NoRemains
