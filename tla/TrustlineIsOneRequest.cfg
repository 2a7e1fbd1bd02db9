SPECIFICATION Spec
CONSTANTS
  Sessions = {s1}
  Inbound = {t1, t2}
  Users = {"default"}
  Peers <- MCPeers
  Values <- MCValues
  ValueLen <- MCValueLen
  Passwords <- MCPasswords
  Sizes <- MCTwoSizes
  DefaultUser = "default"
  Inodes = {1, 2, 3, 4}
  NoInode = NoInode
  NoUser = NoUser
  NoPeer = NoPeer
  MaxFaults = 0
INVARIANTS
  TrustlineIsOneRequest
VIEW MCView
