------------------------- MODULE AccountStoreProofs -------------------------
(***************************************************************************)
(* TLAPS proofs about AccountStore, for every number of threads, users,    *)
(* peers, values, inodes and faults.                                       *)
(***************************************************************************)
EXTENDS AccountStoreInv, SequenceTheorems, TLAPS

\* Front drops the last element.
LEMMA FrontIs ==
  ASSUME NEW S, NEW s \in Seq(S), NEW r \in Seq(S),
         Len(s) = Len(r) + 1, \A i \in 1..Len(r) : s[i] = r[i]
  PROVE  Front(s) = r
<1>1. Front(s) = SubSeq(s, 1, Len(r))
  BY DEF Front
<1>2. /\ SubSeq(s, 1, Len(r)) \in Seq(S)
      /\ Len(SubSeq(s, 1, Len(r))) = Len(r)
      /\ \A i \in 1..Len(r) : SubSeq(s, 1, Len(r))[i] = r[i]
  OBVIOUS
<1> QED BY <1>1, <1>2, SeqEqual

\* The parent of each path of the layout.
LEMMA FrontOfLayout ==
  ASSUME NEW u, NEW p
  PROVE  /\ Front(Home(u)) = AccountsDir
         /\ Front(PeersDir(u)) = Home(u)
         /\ Front(DomainDir(u, p)) = PeersDir(u)
         /\ Front(PeerDir(u, p)) = DomainDir(u, p)
         /\ Front(PasswordFile(u)) = Home(u)
         /\ Front(TrustlineFile(u, p)) = PeerDir(u, p)
<1> DEFINE S == {u, "peers", p[1], p[2], "password", "trustline_incoming"}
<1>1. Front(Home(u)) = AccountsDir
  <2>1. Home(u) \in Seq(S) /\ AccountsDir \in Seq(S)
    BY DEF Home, AccountsDir
  <2>2. Len(Home(u)) = Len(AccountsDir) + 1
    BY DEF Home, AccountsDir
  <2>3. \A i \in 1..Len(AccountsDir) : Home(u)[i] = AccountsDir[i]
    BY DEF Home, AccountsDir
  <2> HIDE DEF S
  <2> QED BY <2>1, <2>2, <2>3, FrontIs
<1>2. Front(PeersDir(u)) = Home(u)
  <2>1. PeersDir(u) \in Seq(S) /\ Home(u) \in Seq(S)
    BY DEF PeersDir, Home
  <2>2. Len(PeersDir(u)) = Len(Home(u)) + 1
    BY DEF PeersDir, Home
  <2>3. \A i \in 1..Len(Home(u)) : PeersDir(u)[i] = Home(u)[i]
    BY DEF PeersDir, Home
  <2> HIDE DEF S
  <2> QED BY <2>1, <2>2, <2>3, FrontIs
<1>3. Front(DomainDir(u, p)) = PeersDir(u)
  <2>1. DomainDir(u, p) \in Seq(S) /\ PeersDir(u) \in Seq(S)
    BY DEF DomainDir, PeersDir
  <2>2. Len(DomainDir(u, p)) = Len(PeersDir(u)) + 1
    BY DEF DomainDir, PeersDir
  <2>3. \A i \in 1..Len(PeersDir(u)) : DomainDir(u, p)[i] = PeersDir(u)[i]
    BY DEF DomainDir, PeersDir
  <2> HIDE DEF S
  <2> QED BY <2>1, <2>2, <2>3, FrontIs
<1>4. Front(PeerDir(u, p)) = DomainDir(u, p)
  <2>1. PeerDir(u, p) \in Seq(S) /\ DomainDir(u, p) \in Seq(S)
    BY DEF PeerDir, DomainDir
  <2>2. Len(PeerDir(u, p)) = Len(DomainDir(u, p)) + 1
    BY DEF PeerDir, DomainDir
  <2>3. \A i \in 1..Len(DomainDir(u, p)) : PeerDir(u, p)[i] = DomainDir(u, p)[i]
    BY DEF PeerDir, DomainDir
  <2> HIDE DEF S
  <2> QED BY <2>1, <2>2, <2>3, FrontIs
<1>5. Front(PasswordFile(u)) = Home(u)
  <2>1. PasswordFile(u) \in Seq(S) /\ Home(u) \in Seq(S)
    BY DEF PasswordFile, Home
  <2>2. Len(PasswordFile(u)) = Len(Home(u)) + 1
    BY DEF PasswordFile, Home
  <2>3. \A i \in 1..Len(Home(u)) : PasswordFile(u)[i] = Home(u)[i]
    BY DEF PasswordFile, Home
  <2> HIDE DEF S
  <2> QED BY <2>1, <2>2, <2>3, FrontIs
<1>6. Front(TrustlineFile(u, p)) = PeerDir(u, p)
  <2>1. TrustlineFile(u, p) \in Seq(S) /\ PeerDir(u, p) \in Seq(S)
    BY DEF TrustlineFile, PeerDir
  <2>2. Len(TrustlineFile(u, p)) = Len(PeerDir(u, p)) + 1
    BY DEF TrustlineFile, PeerDir
  <2>3. \A i \in 1..Len(PeerDir(u, p)) : TrustlineFile(u, p)[i] = PeerDir(u, p)[i]
    BY DEF TrustlineFile, PeerDir
  <2> HIDE DEF S
  <2> QED BY <2>1, <2>2, <2>3, FrontIs
<1> QED BY <1>1, <1>2, <1>3, <1>4, <1>5, <1>6

\* Files of the layout have different paths.
LEMMA FilesDistinct ==
  ASSUME NEW u, NEW v, NEW p
  PROVE  /\ PasswordFile(u) = PasswordFile(v) => u = v
         /\ PasswordFile(u) # TrustlineFile(v, p)
<1>1. PasswordFile(u)[1] = u /\ PasswordFile(v)[1] = v
  BY DEF PasswordFile
<1>2. Len(PasswordFile(u)) = 2 /\ Len(TrustlineFile(v, p)) = 5
  BY DEF PasswordFile, TrustlineFile
<1> QED BY <1>1, <1>2

\* Below an account, what is in a directory belongs to the directory's account.
LEMMA ChildOfAccount ==
  ASSUME NEW e \in Dirs \cup Files, e # AccountsDir, Front(e) # AccountsDir
  PROVE  e[1] = Front(e)[1]
<1>1. CASE \E u \in Users : e = Home(u)
  BY <1>1, FrontOfLayout
<1>2. CASE \E u \in Users : e = PeersDir(u)
  <2>1. PICK u \in Users : e = PeersDir(u)
    BY <1>2
  <2>2. Front(e) = Home(u)
    BY <2>1, FrontOfLayout
  <2>3. PeersDir(u)[1] = u /\ Home(u)[1] = u
    BY DEF PeersDir, Home
  <2> QED BY <2>1, <2>2, <2>3
<1>3. CASE \E u \in Users, p \in Peers : e = DomainDir(u, p)
  <2>1. PICK u \in Users, p \in Peers : e = DomainDir(u, p)
    BY <1>3
  <2>2. Front(e) = PeersDir(u)
    BY <2>1, FrontOfLayout
  <2>3. DomainDir(u, p)[1] = u /\ PeersDir(u)[1] = u
    BY DEF DomainDir, PeersDir
  <2> QED BY <2>1, <2>2, <2>3
<1>4. CASE \E u \in Users, p \in Peers : e = PeerDir(u, p)
  <2>1. PICK u \in Users, p \in Peers : e = PeerDir(u, p)
    BY <1>4
  <2>2. Front(e) = DomainDir(u, p)
    BY <2>1, FrontOfLayout
  <2>3. PeerDir(u, p)[1] = u /\ DomainDir(u, p)[1] = u
    BY DEF PeerDir, DomainDir
  <2> QED BY <2>1, <2>2, <2>3
<1>5. CASE \E u \in Users : e = PasswordFile(u)
  <2>1. PICK u \in Users : e = PasswordFile(u)
    BY <1>5
  <2>2. Front(e) = Home(u)
    BY <2>1, FrontOfLayout
  <2>3. PasswordFile(u)[1] = u /\ Home(u)[1] = u
    BY DEF PasswordFile, Home
  <2> QED BY <2>1, <2>2, <2>3
<1>6. CASE \E u \in Users, p \in Peers : e = TrustlineFile(u, p)
  <2>1. PICK u \in Users, p \in Peers : e = TrustlineFile(u, p)
    BY <1>6
  <2>2. Front(e) = PeerDir(u, p)
    BY <2>1, FrontOfLayout
  <2>3. TrustlineFile(u, p)[1] = u /\ PeerDir(u, p)[1] = u
    BY DEF TrustlineFile, PeerDir
  <2> QED BY <2>1, <2>2, <2>3
<1> QED
  BY <1>1, <1>2, <1>3, <1>4, <1>5, <1>6 DEF Dirs, Files, PasswordFiles, TrustlineFiles

\* No file is at the path of the accounts directory.
LEMMA FilesAreNotRoot ==
  ASSUME NEW f \in Files
  PROVE  f # AccountsDir
<1>1. ASSUME NEW u
      PROVE  PasswordFile(u) # AccountsDir
  BY DEF PasswordFile, AccountsDir
<1>2. ASSUME NEW u, NEW p
      PROVE  TrustlineFile(u, p) # AccountsDir
  BY DEF TrustlineFile, AccountsDir
<1> QED BY <1>1, <1>2 DEF Files, PasswordFiles, TrustlineFiles

\* make_dirs visits directories of the layout.
LEMMA ChainsOfDirs ==
  /\ \A u \in Users : HomeChain(u) \in Seq(Dirs) /\ HomeChain(u) # <<>>
  /\ \A u \in Users, p \in Peers : PeerChain(u, p) \in Seq(Dirs) /\ PeerChain(u, p) # <<>>
<1>1. /\ AccountsDir \in Dirs
      /\ \A u \in Users : Home(u) \in Dirs /\ PeersDir(u) \in Dirs
      /\ \A u \in Users, p \in Peers : DomainDir(u, p) \in Dirs /\ PeerDir(u, p) \in Dirs
  BY DEF Dirs
<1> QED BY <1>1 DEF HomeChain, PeerChain

\* What a write leaves in a file is a content; in an empty file, the value.
LEMMA ContentTypes ==
  /\ Empty \in Content
  /\ \A c \in Content, v \in Values : Overwrite(c, v) \in Content
  /\ \A v \in Values : Overwrite(Empty, v) = Whole(v)
<1>1. \A v \in Values : Whole(v) \in Content
  BY StorageAssumption DEF Whole, Content
<1>2. Empty \in Content /\ Empty.head = "" /\ Empty.len = 0
  BY <1>1, StorageAssumption DEF Empty, Whole
<1>3. \A c \in Content, v \in Values : Overwrite(c, v) \in Content
  BY StorageAssumption DEF Overwrite, Content
<1>4. ASSUME NEW v \in Values PROVE Overwrite(Empty, v) = Whole(v)
  <2>1. CASE v = ""
    BY <2>1 DEF Overwrite, Empty
  <2>2. CASE v # ""
    <3>1. ValueLen[v] \in Nat
      BY StorageAssumption
    <3>2. ~ (0 > ValueLen[v])
      BY <3>1
    <3>3. Overwrite(Empty, v) = [head |-> v, len |-> ValueLen[v]]
      BY <2>2, <3>2, <1>2 DEF Overwrite
    <3> QED BY <3>3 DEF Whole
  <2> QED BY <2>1, <2>2
<1> QED BY <1>2, <1>3, <1>4


-----------------------------------------------------------------------------
(* Types and roles.                                                        *)

\* Every value the actions choose or compute has its type.
LEMMA TypeStep ==
  ASSUME TypeOK, Roles, Descriptors, [Next]_vars
  PROVE  TypeOK'
<1>0. Sessions \subseteq Threads /\ Inbound \subseteq Threads
  BY DEF Threads
<1>1. /\ NoRequest \in Request
      /\ NoSession \in [user : Users \cup {NoUser}, authenticated : BOOLEAN]
  BY StorageAssumption DEF NoRequest, NoSession, Request
<1>2. ASSUME NEW t \in Threads, Return(t)
      PROVE  /\ pc' \in [Threads -> PCs] /\ req' \in [Threads -> Request]
             /\ todo' \in [Threads -> Seq(Dirs)]
             /\ fd' \in [Threads -> Inodes \cup {NoInode}]
  BY <1>1, <1>2 DEF Return, PCs, TypeOK, StorageTypeOK
<1>3. ASSUME NEW t \in Threads, NEW c, c \in PCs, Goto(t, c)
      PROVE  pc' \in [Threads -> PCs]
  BY <1>3 DEF Goto, TypeOK
<1>4. ASSUME Fault \/ NoFault
      PROVE  faults' \in 0..MaxFaults
  <2>1. faults \in 0..MaxFaults /\ MaxFaults \in Nat
    BY AccountAssumption DEF TypeOK
  <2> QED BY <1>4, <2>1 DEF Fault, NoFault
<1>5. ASSUME NEW t \in Threads, pc[t] \in DirPcs, DirReady(t)
      PROVE  pc' \in [Threads -> PCs] /\ todo' \in [Threads -> Seq(Dirs)]
  <2>1. todo[t] \in Seq(Dirs) /\ todo[t] # <<>>
    BY <1>5 DEF Roles, RoleOf, TypeOK
  <2>2. Tail(todo[t]) \in Seq(Dirs)
    BY <2>1
  <2>3. AfterDirs(t) \in PCs
    BY DEF AfterDirs, PCs, RegisterPcs, InboundPcs
  <2> QED BY <1>5, <2>2, <2>3 DEF DirReady, Goto, PCs, DirPcs, TypeOK
<1>6. ASSUME NEW t \in Threads, NEW f \in Files, NEW b, OpenForWrite(t, f, b)
      PROVE  /\ link' \in [Files -> Inodes \cup {NoInode}]
             /\ data' \in [Inodes -> Content]
             /\ fd' \in [Threads -> Inodes \cup {NoInode}]
  <2>1. CASE Linked(f)
    <3>1. link[f] \in Inodes
      BY <2>1 DEF Linked, TypeOK, StorageTypeOK
    <3> QED BY <1>6, <2>1, <3>1, ContentTypes DEF OpenForWrite, TypeOK, StorageTypeOK
  <2>2. CASE ~Linked(f)
    <3>1. PICK i \in Inodes : /\ fd' = [fd EXCEPT ![t] = i]
                              /\ data' = [data EXCEPT ![i] = Empty]
                              /\ link' = [link EXCEPT ![f] = i]
      BY <1>6, <2>2 DEF OpenForWrite, FreeInodes
    <3> QED BY <3>1, ContentTypes DEF TypeOK, StorageTypeOK
  <2> QED BY <2>1, <2>2
<1>7. ASSUME NEW t \in Threads, NEW v \in Values, WriteFd(t, v), fd[t] \in Inodes
      PROVE  data' \in [Inodes -> Content]
  BY <1>7, ContentTypes DEF WriteFd, TypeOK, StorageTypeOK
<1>8. ASSUME NEW t \in Threads
      PROVE  req[t] \in Request /\ req[t].val \in Values
  BY DEF Request, TypeOK
<1> USE DEF TypeOK, StorageTypeOK, storage, rm, history
<1>11. ASSUME NEW s \in Sessions, NEW u \in Users, NEW p \in Passwords, Register(s, u, p)
       PROVE  TypeOK'
  <2>1. [NoRequest EXCEPT !.user = u, !.val = p] \in Request
    BY AccountAssumption DEF NoRequest, Request
  <2>2. acked' \in [Users -> SUBSET (Sessions \X Passwords)] /\ contended' \in [Users -> BOOLEAN]
    BY <1>11 DEF Register, Busy
  <2> QED BY <1>0, <1>11, <2>1, <2>2, ChainsOfDirs DEF Register, Begin, PCs, DirPcs
<1>12. ASSUME NEW s \in Sessions, CreatePassword(s)
       PROVE  TypeOK'
  <2>1. req[s].user \in Users
    BY <1>0, <1>12 DEF CreatePassword, Roles, RoleOf
  <2>2. PasswordFile(req[s].user) \in Files
    BY <2>1 DEF Files, PasswordFiles
  <2>3. pc' \in [Threads -> PCs]
    BY <1>0, <1>3, <1>12 DEF CreatePassword, PCs, RegisterPcs
  <2>4. faults' \in 0..MaxFaults
    BY <1>4, <1>12 DEF CreatePassword
  <2>5. /\ link' \in [Files -> Inodes \cup {NoInode}]
        /\ data' \in [Inodes -> Content]
        /\ fd' \in [Threads -> Inodes \cup {NoInode}]
    BY <1>0, <1>6, <1>12, <2>2 DEF CreatePassword
  <2> QED BY <1>12, <2>3, <2>4, <2>5 DEF CreatePassword
<1>13. ASSUME NEW s \in Sessions, WritePassword(s)
       PROVE  TypeOK'
  <2>1. req[s].user \in Users /\ req[s].val \in Passwords /\ req[s].val \in Values
    BY <1>0, <1>13, AccountAssumption DEF WritePassword, Roles, RoleOf, RegisterPcs
  <2>2. fd[s] \in Inodes
    BY <1>0, <1>13 DEF WritePassword, Descriptors, DescriptorOf
  <2>3. faults' \in 0..MaxFaults
    BY <1>4, <1>13 DEF WritePassword
  <2>4. CASE WriteFd(s, req[s].val) /\ Return(s)
             /\ acked' = [acked EXCEPT ![req[s].user] = @ \cup {<<s, req[s].val>>}]
    <3>1. acked' \in [Users -> SUBSET (Sessions \X Passwords)]
      BY <2>1, <2>4
    <3>2. data' \in [Inodes -> Content]
      BY <1>0, <1>7, <2>1, <2>2, <2>4
    <3> QED BY <1>0, <1>2, <1>13, <2>3, <2>4, <3>1, <3>2 DEF WritePassword
  <2>5. CASE /\ Goto(s, "unlink_password")
             /\ fd' = [fd EXCEPT ![s] = NoInode]
             /\ UNCHANGED <<data, req, todo, acked>>
    <3>1. pc' \in [Threads -> PCs]
      BY <1>0, <1>3, <2>5 DEF PCs, RegisterPcs
    <3> QED BY <1>13, <2>3, <2>5, <3>1 DEF WritePassword
  <2> QED BY <1>13, <2>4, <2>5 DEF WritePassword
<1>14. ASSUME NEW s \in Sessions, UnlinkPassword(s)
       PROVE  TypeOK'
  <2>1. pc' \in [Threads -> PCs]
    BY <1>0, <1>3, <1>14 DEF UnlinkPassword, PCs, RegisterPcs
  <2> QED BY <1>14, <2>1 DEF UnlinkPassword, Unlink
<1>15. ASSUME NEW s \in Sessions, RemoveHome(s)
       PROVE  TypeOK'
  <2>1. dirs' \subseteq Dirs
    BY <1>15 DEF RemoveHome
  <2> QED BY <1>0, <1>2, <1>15, <2>1 DEF RemoveHome
<1>16. ASSUME NEW t \in Threads, StatDir(t)
       PROVE  TypeOK'
  <2>1. CASE DirReady(t)
    BY <1>5, <1>16, <2>1 DEF StatDir, DirPcs
  <2>2. CASE Goto(t, "mkdir") /\ UNCHANGED todo
    BY <1>3, <1>16, <2>2 DEF StatDir, PCs, DirPcs
  <2> QED BY <1>16, <2>1, <2>2 DEF StatDir
<1>17. ASSUME NEW t \in Threads, MakeDir(t)
       PROVE  TypeOK'
  <2>1. Head(todo[t]) \in Dirs
    <3>1. todo[t] \in Seq(Dirs) /\ todo[t] # <<>>
      BY <1>17 DEF MakeDir, Roles, RoleOf, DirPcs
    <3> QED BY <3>1
  <2>2. faults' \in 0..MaxFaults
    BY <1>4, <1>17 DEF MakeDir
  <2>3. CASE /\ dirs' = dirs \cup {Head(todo[t])}
             /\ DirReady(t)
             /\ UNCHANGED <<fd, req>>
    BY <1>5, <1>17, <2>1, <2>2, <2>3 DEF MakeDir, DirPcs
  <2>4. CASE Return(t) /\ UNCHANGED dirs
    BY <1>2, <1>17, <2>2, <2>4 DEF MakeDir
  <2> QED BY <1>17, <2>3, <2>4 DEF MakeDir
<1>18. ASSUME NEW s \in Sessions, NEW u \in Users, NEW p \in Passwords, Login(s, u, p)
       PROVE  TypeOK'
  <2>1. [NoRequest EXCEPT !.user = u, !.val = p] \in Request
    BY AccountAssumption DEF NoRequest, Request
  <2> QED BY <1>0, <1>18, <2>1 DEF Login, Begin, PCs, LoginPcs
<1>19. ASSUME NEW s \in Sessions, OpenLogin(s)
       PROVE  TypeOK'
  <2>1. PasswordFile(req[s].user) \in Files
    BY <1>0, <1>19 DEF OpenLogin, Roles, RoleOf, Files, PasswordFiles
  <2>2. faults' \in 0..MaxFaults
    BY <1>4, <1>19 DEF OpenLogin
  <2>3. CASE /\ fd' = [fd EXCEPT ![s] = link[PasswordFile(req[s].user)]]
             /\ Goto(s, "read_login")
             /\ UNCHANGED <<req, todo>>
    <3>1. pc' \in [Threads -> PCs]
      BY <1>0, <1>3, <2>3 DEF PCs, LoginPcs
    <3> QED BY <1>19, <2>1, <2>2, <2>3, <3>1 DEF OpenLogin
  <2>4. CASE Return(s)
    BY <1>0, <1>2, <1>19, <2>2, <2>4 DEF OpenLogin
  <2> QED BY <1>19, <2>3, <2>4 DEF OpenLogin
<1>20. ASSUME NEW s \in Sessions, ReadLogin(s)
       PROVE  TypeOK'
  <2>1. req[s].user \in Users
    BY <1>0, <1>20 DEF ReadLogin, Roles, RoleOf
  <2>2. faults' \in 0..MaxFaults
    BY <1>4, <1>20 DEF ReadLogin
  <2>3. session' \in [Sessions -> [user : Users \cup {NoUser}, authenticated : BOOLEAN]]
    <3>1. [user |-> req[s].user, authenticated |-> TRUE]
            \in [user : Users \cup {NoUser}, authenticated : BOOLEAN]
      BY <2>1
    <3>2. \/ session' = [session EXCEPT ![s] = [user |-> req[s].user, authenticated |-> TRUE]]
          \/ session' = session
      BY <1>20 DEF ReadLogin
    <3> QED BY <3>1, <3>2
  <2> QED BY <1>0, <1>2, <1>20, <2>2, <2>3 DEF ReadLogin
<1>21. ASSUME NEW s \in Sessions, Logout(s)
       PROVE  TypeOK'
  BY <1>21 DEF Logout
<1>22. ASSUME NEW s \in Sessions, DeleteAccount(s)
       PROVE  TypeOK'
  <2> DEFINE u == session[s].user
  <2>1. u \in Users
    BY <1>22 DEF DeleteAccount, Roles, RoleOf
  <2>2. [NoRequest EXCEPT !.user = u] \in Request
    BY <2>1, StorageAssumption DEF NoRequest, Request
  <2>3. unread' \in [Sessions -> SUBSET Dirs]
    BY <1>22, <2>1 DEF DeleteAccount, Dirs
  <2>4. acked' \in [Users -> SUBSET (Sessions \X Passwords)] /\ contended' \in [Users -> BOOLEAN]
    BY <1>22, <2>1 DEF DeleteAccount, Busy
  <2>5. <<>> \in Seq(Dirs)
    OBVIOUS
  <2>6. /\ pc' \in [Threads -> PCs] /\ req' \in [Threads -> Request]
        /\ todo' \in [Threads -> Seq(Dirs)]
    BY <1>0, <1>22, <2>2, <2>5 DEF DeleteAccount, Begin, PCs
  <2> QED BY <1>22, <2>3, <2>4, <2>6 DEF DeleteAccount
<1>23. ASSUME NEW s \in Sessions, RmRead(s)
       PROVE  TypeOK'
  <2>1. \A d : Children(d) \subseteq Dirs \cup Files
    BY DEF Children
  <2>2. unread' \in [Sessions -> SUBSET Dirs] /\ found' \in [Sessions -> SUBSET (Dirs \cup Files)]
    BY <1>23, <2>1 DEF RmRead
  <2> QED BY <1>23, <2>2 DEF RmRead
<1>24. ASSUME NEW s \in Sessions, RmEntry(s)
       PROVE  TypeOK'
  <2>1. PICK e \in found[s] :
          /\ dirs' = dirs \ {e}
          /\ link' = [f \in Files |-> IF f = e THEN NoInode ELSE link[f]]
          /\ found' = [found EXCEPT ![s] = @ \ {e}]
    BY <1>24 DEF RmEntry
  <2>2. /\ dirs' \subseteq Dirs
        /\ link' \in [Files -> Inodes \cup {NoInode}]
        /\ found' \in [Sessions -> SUBSET (Dirs \cup Files)]
    BY <2>1
  <2> QED BY <1>24, <2>2 DEF RmEntry
<1>25. ASSUME NEW s \in Sessions, RmDone(s)
       PROVE  TypeOK'
  <2>1. faults' \in 0..MaxFaults
    BY <1>4, <1>25 DEF RmDone
  <2>2. /\ dirs' \subseteq Dirs
        /\ session' \in [Sessions -> [user : Users \cup {NoUser}, authenticated : BOOLEAN]]
    <3>1. dirs' = dirs \/ dirs' = dirs \ {Home(req[s].user)}
      BY <1>25 DEF RmDone
    <3>2. session' = session \/ session' = [session EXCEPT ![s] = NoSession]
      BY <1>25 DEF RmDone
    <3>3. session' \in [Sessions -> [user : Users \cup {NoUser}, authenticated : BOOLEAN]]
      BY <1>1, <3>2
    <3> QED BY <3>1, <3>3
  <2>3. /\ unread' \in [Sessions -> SUBSET Dirs]
        /\ found' \in [Sessions -> SUBSET (Dirs \cup Files)]
    BY <1>25 DEF RmDone
  <2> QED BY <1>0, <1>2, <1>25, <2>1, <2>2, <2>3 DEF RmDone
<1>26. ASSUME NEW t \in Inbound, NEW n \in Users \cup {"none"}, NEW p \in Peers,
              NEW z \in Sizes, SetTrustline(t, n, p, z)
       PROVE  TypeOK'
  <2> DEFINE u == LocalUser(n)
  <2>1. u \in Users
    BY AccountAssumption DEF LocalUser
  <2>2. [user |-> u, val |-> z, peer |-> p] \in Request
    BY <2>1, AccountAssumption DEF Request
  <2>3. PeerChain(u, p) \in Seq(Dirs)
    BY <2>1, ChainsOfDirs
  <2> HIDE DEF u
  <2> QED BY <1>0, <1>26, <2>2, <2>3 DEF SetTrustline, Begin, PCs, DirPcs, u
<1>27. ASSUME NEW t \in Inbound, RemoveTrustline(t)
       PROVE  TypeOK'
  <2>1. link' \in [Files -> Inodes \cup {NoInode}]
    BY <1>27 DEF RemoveTrustline, Unlink
  <2> QED BY <1>0, <1>2, <1>27, <2>1 DEF RemoveTrustline
<1>28. ASSUME NEW t \in Inbound, OpenTrustline(t)
       PROVE  TypeOK'
  <2>1. RequestFile(t) \in Files
    <3>1. req[t].user \in Users /\ req[t].peer \in Peers
      BY <1>0, <1>28 DEF OpenTrustline, Roles, RoleOf
    <3> QED BY <3>1 DEF RequestFile, Files, TrustlineFiles
  <2>2. faults' \in 0..MaxFaults
    BY <1>4, <1>28 DEF OpenTrustline
  <2>3. CASE /\ OpenForWrite(t, RequestFile(t), TRUE)
             /\ Goto(t, "write_trustline")
             /\ UNCHANGED <<req, todo>>
    <3>1. pc' \in [Threads -> PCs]
      BY <1>0, <1>3, <2>3 DEF PCs, InboundPcs
    <3>2. /\ link' \in [Files -> Inodes \cup {NoInode}]
          /\ data' \in [Inodes -> Content]
          /\ fd' \in [Threads -> Inodes \cup {NoInode}]
      BY <1>0, <1>6, <2>1, <2>3
    <3> QED BY <1>28, <2>2, <2>3, <3>1, <3>2 DEF OpenTrustline
  <2>4. CASE Return(t) /\ UNCHANGED <<link, data>>
    BY <1>0, <1>2, <1>28, <2>2, <2>4 DEF OpenTrustline
  <2> QED BY <1>28, <2>3, <2>4 DEF OpenTrustline
<1>29. ASSUME NEW t \in Inbound, WriteTrustline(t)
       PROVE  TypeOK'
  <2>1. fd[t] \in Inodes
    BY <1>0, <1>29 DEF WriteTrustline, Descriptors, DescriptorOf
  <2>2. data' \in [Inodes -> Content]
    BY <1>0, <1>7, <1>8, <1>29, <2>1 DEF WriteTrustline
  <2>3. faults' \in 0..MaxFaults
    BY <1>4, <1>29 DEF WriteTrustline
  <2> QED BY <1>0, <1>2, <1>29, <2>2, <2>3 DEF WriteTrustline
<1>30. ASSUME NEW s \in Sessions, Disconnect(s)
       PROVE  TypeOK'
  BY <1>1, <1>30 DEF Disconnect
<1>31. ASSUME Crash
       PROVE  TypeOK'
  <2>1. faults' \in 0..MaxFaults
    BY <1>4, <1>31 DEF Crash
  <2>2. <<>> \in Seq(Dirs)
    OBVIOUS
  <2>3. pc' \in [Threads -> PCs] /\ req' \in [Threads -> Request]
    BY <1>1, <1>31 DEF Crash, PCs
  <2> QED BY <1>1, <1>31, <2>1, <2>2, <2>3 DEF Crash
<1>32. CASE UNCHANGED vars
  BY <1>32 DEF vars, local
<1> QED
  BY <1>0, <1>11, <1>12, <1>13, <1>14, <1>15, <1>16, <1>17, <1>18, <1>19, <1>20, <1>21,
     <1>22, <1>23, <1>24, <1>25, <1>26, <1>27, <1>28, <1>29, <1>30, <1>31, <1>32
  DEF Next, SessionCommand, SessionStep, InboundCommand, InboundStep

\* A step of one thread leaves what belongs to the others alone.
Alone(t) ==
  \A r \in Threads \ {t} :
    pc'[r] = pc[r] /\ req'[r] = req[r] /\ todo'[r] = todo[r] /\ fd'[r] = fd[r]

SessionActs(s) == SessionCommand(s) \/ SessionStep(s)
InboundActs(t) == InboundCommand(t) \/ InboundStep(t)

\* A step counts its fault, if it has one.
LEMMA FaultsCounted ==
  ASSUME TypeOK, [Next]_vars, faults' = 0
  PROVE  NoFault /\ faults = 0 /\ ~Crash
<1>1. NoFault \/ faults' = faults + 1
  <2>1. ASSUME NEW s \in Sessions, SessionCommand(s) \/ SessionStep(s)
        PROVE  NoFault \/ faults' = faults + 1
    BY <2>1 DEF SessionCommand, SessionStep, Register, Login, Logout, DeleteAccount, Disconnect,
                StatDir, MakeDir, CreatePassword, WritePassword, UnlinkPassword, RemoveHome,
                OpenLogin, ReadLogin, RmRead, RmEntry, RmDone, NoFault, Fault
  <2>2. ASSUME NEW t \in Inbound, InboundCommand(t) \/ InboundStep(t)
        PROVE  NoFault \/ faults' = faults + 1
    BY <2>2 DEF InboundCommand, InboundStep, SetTrustline, StatDir, MakeDir, RemoveTrustline,
                OpenTrustline, WriteTrustline, NoFault, Fault
  <2>3. Crash => faults' = faults + 1
    BY DEF Crash, Fault
  <2>4. UNCHANGED vars => NoFault
    BY DEF vars, NoFault
  <2> QED BY <2>1, <2>2, <2>3, <2>4 DEF Next
<1>2. faults \in Nat
  <2>1. faults \in 0..MaxFaults
    BY DEF TypeOK
  <2>2. MaxFaults \in Nat
    BY AccountAssumption
  <2> QED BY <2>1, <2>2
<1>3. Crash => faults' = faults + 1
  BY DEF Crash, Fault
<1> QED BY <1>1, <1>2, <1>3 DEF NoFault

\* An action is one thread's, and leaves the others where they are.
LEMMA OneThreadActs ==
  ASSUME TypeOK, NEW t \in Threads,
         \/ t \in Sessions /\ SessionActs(t)
         \/ t \in Inbound /\ InboundActs(t)
  PROVE  Alone(t)
<1>1. Return(t) => Alone(t)
  BY DEF Return, Alone, TypeOK, StorageTypeOK
<1>2. ASSUME NEW c, NEW r, NEW q, Begin(t, c, r, q), UNCHANGED fd
      PROVE  Alone(t)
  BY <1>2 DEF Begin, Alone, TypeOK
<1>3. ASSUME NEW c, Goto(t, c), UNCHANGED req,
             todo' = todo \/ todo' = [todo EXCEPT ![t] = Tail(todo[t])],
             fd' = fd \/ \E i : fd' = [fd EXCEPT ![t] = i]
      PROVE  Alone(t)
  BY <1>3 DEF Goto, Alone, TypeOK, StorageTypeOK
<1>4. ASSUME NEW f, NEW b, OpenForWrite(t, f, b)
      PROVE  \E i : fd' = [fd EXCEPT ![t] = i]
  BY <1>4 DEF OpenForWrite
<1>5. UNCHANGED <<pc, req, todo, fd>> => Alone(t)
  BY DEF Alone
<1> USE DEF storage
<1>11. ASSUME NEW u, NEW p, Register(t, u, p) \/ Login(t, u, p) PROVE Alone(t)
  BY <1>2, <1>11 DEF Register, Login
<1>12. CreatePassword(t) => Alone(t)
  BY <1>3, <1>4 DEF CreatePassword
<1>13. WritePassword(t) => Alone(t)
  BY <1>1, <1>3 DEF WritePassword
<1>14. UnlinkPassword(t) => Alone(t)
  BY <1>3 DEF UnlinkPassword
<1>15. RemoveHome(t) => Alone(t)
  BY <1>1 DEF RemoveHome
<1>16. StatDir(t) => Alone(t)
  BY <1>3 DEF StatDir, DirReady
<1>17. MakeDir(t) => Alone(t)
  BY <1>1, <1>3 DEF MakeDir, DirReady
<1>18. OpenLogin(t) => Alone(t)
  BY <1>1, <1>3 DEF OpenLogin
<1>19. ReadLogin(t) \/ RmDone(t) \/ RemoveTrustline(t) \/ WriteTrustline(t) => Alone(t)
  BY <1>1 DEF ReadLogin, RmDone, RemoveTrustline, WriteTrustline
<1>20. Logout(t) \/ Disconnect(t) \/ RmRead(t) \/ RmEntry(t) => Alone(t)
  BY <1>5 DEF Logout, Disconnect, RmRead, RmEntry
<1>21. DeleteAccount(t) => Alone(t)
  BY <1>2 DEF DeleteAccount
<1>22. ASSUME NEW n, NEW p, NEW z, SetTrustline(t, n, p, z) PROVE Alone(t)
  BY <1>2, <1>22 DEF SetTrustline
<1>23. OpenTrustline(t) => Alone(t)
  BY <1>1, <1>3, <1>4 DEF OpenTrustline
<1> QED
  BY <1>11, <1>12, <1>13, <1>14, <1>15, <1>16, <1>17, <1>18, <1>19, <1>20, <1>21, <1>22, <1>23
  DEF SessionActs, SessionCommand, SessionStep, InboundActs, InboundCommand, InboundStep

\* A handler keeps to its own kind of thread.
LEMMA RolesStep ==
  ASSUME TypeOK, Roles, [Next]_vars
  PROVE  Roles'
<1>0. Sessions \subseteq Threads /\ Inbound \subseteq Threads /\ Sessions \cap Inbound = {}
  BY StorageAssumption DEF Threads
<1>1. ASSUME NEW t \in Threads, Return(t)
      PROVE  RoleOf(t)'
  BY <1>1 DEF Return, RoleOf, TypeOK, DirPcs, InboundPcs, RegisterPcs, LoginPcs
<1>2. ASSUME NEW t \in Threads, NEW c, Goto(t, c), UNCHANGED <<req, todo>>, RoleOf(t), pc[t] # "idle",
             \/ t \in Sessions /\ c \in RegisterPcs /\ pc[t] \in RegisterPcs \cup DirPcs
             \/ t \in Sessions /\ c \in LoginPcs
             \/ t \in Inbound /\ c \in InboundPcs
             \/ c \in DirPcs /\ pc[t] \in DirPcs
      PROVE  RoleOf(t)'
  BY <1>0, <1>2 DEF Goto, RoleOf, TypeOK, DirPcs, InboundPcs, RegisterPcs, LoginPcs
<1>3. ASSUME NEW t \in Threads, DirReady(t), UNCHANGED req, pc[t] \in DirPcs
      PROVE  RoleOf(t)'
  <2>1. RoleOf(t) /\ todo[t] \in Seq(Dirs) /\ pc[t] # "idle"
    BY <1>3 DEF Roles, TypeOK, DirPcs
  <2>2. todo[t] # <<>>
    BY <1>3, <2>1 DEF RoleOf
  <2>3. Len(todo[t]) > 1 => Tail(todo[t]) # <<>>
    <3>1. Len(Tail(todo[t])) = Len(todo[t]) - 1 /\ Len(todo[t]) \in Nat
      BY <2>1, <2>2
    <3>2. ASSUME NEW q \in Seq(Dirs), Len(q) # 0
          PROVE  q # <<>>
      BY <3>2
    <3>3. Tail(todo[t]) \in Seq(Dirs)
      BY <2>1, <2>2
    <3>4. ASSUME NEW k \in Nat, NEW j, j = k - 1, k > 1
          PROVE  j # 0
      BY <3>4
    <3>5. Len(todo[t]) > 1 => Len(Tail(todo[t])) # 0
      BY <3>1, <3>4
    <3> QED BY <3>2, <3>3, <3>5
  <2>4. todo'[t] = Tail(todo[t]) /\ req'[t] = req[t]
        /\ pc'[t] = IF Len(todo[t]) > 1 THEN "stat_dir" ELSE AfterDirs(t)
    BY <1>3 DEF DirReady, Goto, TypeOK
  <2>5. CASE Len(todo[t]) > 1
    BY <1>3, <2>1, <2>3, <2>4, <2>5 DEF RoleOf, DirPcs, InboundPcs, RegisterPcs, LoginPcs
  <2>6. CASE ~(Len(todo[t]) > 1) /\ t \in Sessions
    <3>1. pc'[t] = "open_password"
      BY <2>4, <2>6 DEF AfterDirs
    <3> QED BY <1>0, <1>3, <2>1, <2>4, <2>6, <3>1 DEF RoleOf, DirPcs, InboundPcs, RegisterPcs, LoginPcs
  <2>7. CASE ~(Len(todo[t]) > 1) /\ t \notin Sessions
    <3>1. pc'[t] \in {"remove_trustline", "open_trustline"} /\ t \in Inbound
      BY <2>4, <2>7 DEF AfterDirs, Threads
    <3> QED BY <1>0, <1>3, <2>1, <2>4, <2>7, <3>1 DEF RoleOf, DirPcs, InboundPcs, RegisterPcs, LoginPcs
  <2> QED BY <2>5, <2>6, <2>7
<1>4. \A t \in Threads : RoleOf(t)
  BY DEF Roles
<1>5. ASSUME NEW t \in Threads,
             \/ t \in Sessions /\ SessionActs(t)
             \/ t \in Inbound /\ InboundActs(t)
      PROVE  RoleOf(t)'
  <2> USE DEF storage
  <2>0. RoleOf(t)
    BY <1>4
  <2>1. ASSUME NEW u \in Users, NEW p \in Passwords, t \in Sessions, Register(t, u, p)
        PROVE  RoleOf(t)'
    BY <1>0, <2>1, ChainsOfDirs
    DEF Register, Begin, TypeOK, RoleOf, DirPcs, InboundPcs, RegisterPcs, LoginPcs, NoRequest
  <2>2. ASSUME NEW u \in Users, NEW p \in Passwords, t \in Sessions, Login(t, u, p)
        PROVE  RoleOf(t)'
    BY <1>0, <2>2
    DEF Login, Begin, TypeOK, RoleOf, DirPcs, InboundPcs, RegisterPcs, LoginPcs, NoRequest
  <2>3. ASSUME t \in Sessions, DeleteAccount(t)
        PROVE  RoleOf(t)'
    <3>1. session[t].user \in Users
      BY <2>3 DEF DeleteAccount, Roles
    <3> QED BY <1>0, <2>3, <3>1
      DEF DeleteAccount, Begin, TypeOK, RoleOf, DirPcs, InboundPcs, RegisterPcs, LoginPcs, NoRequest
  <2>4. ASSUME NEW n \in Users \cup {"none"}, NEW p \in Peers, NEW z \in Sizes,
               t \in Inbound, SetTrustline(t, n, p, z)
        PROVE  RoleOf(t)'
    <3>1. LocalUser(n) \in Users
      BY AccountAssumption DEF LocalUser
    <3>2. PeerChain(LocalUser(n), p) # <<>>
      BY <3>1, ChainsOfDirs
    <3> QED BY <1>0, <2>4, <3>1, <3>2
      DEF SetTrustline, Begin, TypeOK, RoleOf, DirPcs, InboundPcs, RegisterPcs, LoginPcs
  <2>5. t \in Sessions /\ CreatePassword(t) => RoleOf(t)'
    BY <1>2, <2>0 DEF CreatePassword, RegisterPcs
  <2>6. t \in Sessions /\ WritePassword(t) => RoleOf(t)'
    BY <1>1, <1>2, <2>0 DEF WritePassword, RegisterPcs
  <2>7. t \in Sessions /\ UnlinkPassword(t) => RoleOf(t)'
    BY <1>2, <2>0 DEF UnlinkPassword, RegisterPcs
  <2>8. StatDir(t) => RoleOf(t)'
    BY <1>2, <1>3, <2>0 DEF StatDir, DirPcs
  <2>9. MakeDir(t) => RoleOf(t)'
    BY <1>1, <1>3, <2>0 DEF MakeDir, DirPcs
  <2>10. t \in Sessions /\ OpenLogin(t) => RoleOf(t)'
    BY <1>1, <1>2, <2>0 DEF OpenLogin, LoginPcs
  <2>11. t \in Inbound /\ OpenTrustline(t) => RoleOf(t)'
    BY <1>1, <1>2, <2>0 DEF OpenTrustline, InboundPcs
  <2>12. \/ RemoveHome(t) \/ ReadLogin(t) \/ RmDone(t) \/ RemoveTrustline(t) \/ WriteTrustline(t)
         => RoleOf(t)'
    BY <1>1 DEF RemoveHome, ReadLogin, RmDone, RemoveTrustline, WriteTrustline
  <2>13. Logout(t) \/ Disconnect(t) \/ RmRead(t) \/ RmEntry(t) => RoleOf(t)'
    BY <2>0 DEF Logout, Disconnect, RmRead, RmEntry, RoleOf
  <2> QED
    BY <1>5, <2>1, <2>2, <2>3, <2>4, <2>5, <2>6, <2>7, <2>8, <2>9, <2>10, <2>11, <2>12, <2>13
    DEF SessionActs, SessionCommand, SessionStep, InboundActs, InboundCommand, InboundStep
<1>6. ASSUME NEW t \in Threads,
             \/ t \in Sessions /\ SessionActs(t)
             \/ t \in Inbound /\ InboundActs(t)
      PROVE  \A r \in Threads : RoleOf(r)'
  BY <1>4, <1>5, <1>6, OneThreadActs DEF Alone, RoleOf
<1>7. Crash => \A r \in Threads : RoleOf(r)'
  BY <1>4 DEF Crash, RoleOf, DirPcs, InboundPcs, RegisterPcs, LoginPcs
<1>8. UNCHANGED vars => Roles'
  BY DEF vars, local, Roles, RoleOf
<1>9. Next => \A s \in Sessions : session'[s].authenticated => session'[s].user \in Users
  <2>1. \A s \in Sessions : session[s].authenticated => session[s].user \in Users
    BY DEF Roles
  <2>2. ASSUME NEW s \in Sessions, NEW v, session' = session \/ session' = [session EXCEPT ![s] = v],
               v.authenticated =>
                 \/ session[s].authenticated /\ v.user = session[s].user
                 \/ v.user \in Users
        PROVE  \A r \in Sessions : session'[r].authenticated => session'[r].user \in Users
    BY <2>1, <2>2 DEF TypeOK
  <2>3. ASSUME NEW s \in Sessions, ReadLogin(s)
        PROVE  \A r \in Sessions : session'[r].authenticated => session'[r].user \in Users
    <3>1. req[s].user \in Users
      BY <1>0, <1>4, <2>3 DEF ReadLogin, RoleOf
    <3>2. \/ session' = session
          \/ session' = [session EXCEPT ![s] = [user |-> req[s].user, authenticated |-> TRUE]]
      BY <2>3 DEF ReadLogin
    <3> QED BY <2>2, <3>1, <3>2
  <2>4. ASSUME Crash
        PROVE  \A r \in Sessions : session'[r].authenticated => session'[r].user \in Users
    BY <2>4 DEF Crash, NoSession
  <2>5. ASSUME NEW s \in Sessions, Logout(s) \/ Disconnect(s) \/ RmDone(s)
        PROVE  \A r \in Sessions : session'[r].authenticated => session'[r].user \in Users
    <3>1. CASE Disconnect(s) \/ RmDone(s)
      <4>1. session' = session \/ session' = [session EXCEPT ![s] = NoSession]
        BY <3>1 DEF Disconnect, RmDone
      <4>2. ~NoSession.authenticated
        BY DEF NoSession
      <4> QED BY <2>2, <4>1, <4>2
    <3>2. CASE Logout(s)
      <4>1. session' = [session EXCEPT ![s] = [session[s] EXCEPT !.authenticated = FALSE]]
        BY <3>2 DEF Logout
      <4>2. ~[session[s] EXCEPT !.authenticated = FALSE].authenticated
        BY DEF TypeOK
      <4> QED BY <2>2, <4>1, <4>2
    <3> QED BY <2>5, <3>1, <3>2
  <2>6. ASSUME NEW s \in Sessions, SessionActs(s),
               ~(ReadLogin(s) \/ Logout(s) \/ Disconnect(s) \/ RmDone(s))
        PROVE  session' = session
    BY <2>6 DEF SessionActs, SessionCommand, SessionStep, Register, Login, DeleteAccount, StatDir,
                MakeDir, CreatePassword, WritePassword, UnlinkPassword, RemoveHome, OpenLogin, RmRead, RmEntry
  <2>7. ASSUME NEW t \in Inbound, InboundActs(t)
        PROVE  session' = session
    BY <2>7 DEF InboundActs, InboundCommand, InboundStep, SetTrustline, StatDir, MakeDir,
                RemoveTrustline, OpenTrustline, WriteTrustline
  <2> QED BY <2>1, <2>3, <2>4, <2>5, <2>6, <2>7 DEF Next, SessionActs, InboundActs
<1> QED
  BY <1>0, <1>6, <1>7, <1>8, <1>9 DEF Next, SessionActs, InboundActs, Roles

-----------------------------------------------------------------------------
(* The tree, the descriptors and rm.                                       *)

\* No directory that holds a file is removed, and a file is made in a
\* directory that exists, on an inode no other file has.
LEMMA TreeStep ==
  ASSUME TypeOK, Roles, Tree, [Next]_vars
  PROVE  Tree'
<1>0. Sessions \subseteq Threads /\ Inbound \subseteq Threads
  BY DEF Threads
<1>1. ASSUME UNCHANGED link, dirs \subseteq dirs'
      PROVE  Tree'
  BY <1>1 DEF Tree, Linked
<1>2. ASSUME NEW d, dirs' = dirs \ {d}, Children(d) = {}, NEW f,
             link' = [g \in Files |-> IF g = f THEN NoInode ELSE link[g]] \/ UNCHANGED link
      PROVE  Tree'
  <2>1. \A g \in Files : Linked(g)' => Linked(g) /\ link'[g] = link[g]
    BY <1>2 DEF Linked
  <2>2. \A g \in Files : Linked(g) => Front(g) # d
    BY <1>2 DEF Children
  <2>3. \A g \in Files : Linked(g)' => Front(g) \in dirs'
    BY <1>2, <2>1, <2>2 DEF Tree
  <2>4. \A g, h \in Files : Linked(g)' /\ link'[g] = link'[h] => g = h
    <3>1. SUFFICES ASSUME NEW g \in Files, NEW h \in Files, Linked(g)', link'[g] = link'[h]
                   PROVE  g = h
      OBVIOUS
    <3>2. Linked(h)'
      BY <3>1 DEF Linked
    <3> QED BY <2>1, <3>1, <3>2 DEF Tree
  <2> QED BY <2>3, <2>4 DEF Tree
<1>3. ASSUME UNCHANGED dirs, NEW f \in Files, Unlink(f)
      PROVE  Tree'
  <2>1. \A g \in Files : Linked(g)' => Linked(g) /\ link'[g] = link[g]
    BY <1>3 DEF Unlink, Linked, TypeOK, StorageTypeOK
  <2>2. \A g, h \in Files : Linked(g)' /\ link'[g] = link'[h] => g = h
    <3>1. SUFFICES ASSUME NEW g \in Files, NEW h \in Files, Linked(g)', link'[g] = link'[h]
                   PROVE  g = h
      OBVIOUS
    <3>2. Linked(h)'
      BY <3>1 DEF Linked
    <3> QED BY <2>1, <3>1, <3>2 DEF Tree
  <2> QED BY <1>3, <2>1, <2>2 DEF Tree
<1>4. ASSUME UNCHANGED dirs, NEW t \in Threads, NEW f \in Files, NEW b, OpenForWrite(t, f, b),
             Front(f) \in dirs
      PROVE  Tree'
  <2>1. CASE UNCHANGED link
    BY <1>1, <1>4, <2>1
  <2>2. CASE ~Linked(f)
    <3>1. PICK i \in FreeInodes : link' = [link EXCEPT ![f] = i]
      BY <1>4, <2>2 DEF OpenForWrite
    <3>2. i \in Inodes /\ i # NoInode /\ \A g \in Files : link[g] # i
      BY <3>1, StorageAssumption DEF FreeInodes
    <3>3. \A g \in Files : link'[g] = IF g = f THEN i ELSE link[g]
      BY <3>1 DEF TypeOK, StorageTypeOK
    <3>4. \A g \in Files : Linked(g)' => Front(g) \in dirs'
      BY <1>4, <3>3 DEF Tree, Linked
    <3>5. \A g, h \in Files : Linked(g)' /\ link'[g] = link'[h] => g = h
      BY <3>2, <3>3 DEF Tree, Linked
    <3> QED BY <3>4, <3>5 DEF Tree
  <2> QED BY <1>4, <2>1, <2>2 DEF OpenForWrite
<1> USE DEF storage
<1>11. ASSUME NEW s \in Sessions, CreatePassword(s)
       PROVE  Tree'
  <2>1. req[s].user \in Users
    BY <1>0, <1>11 DEF CreatePassword, Roles, RoleOf
  <2>2. PasswordFile(req[s].user) \in Files
    BY <2>1 DEF Files, PasswordFiles
  <2>3. Front(PasswordFile(req[s].user)) = Home(req[s].user)
    BY FrontOfLayout
  <2> QED BY <1>0, <1>1, <1>4, <1>11, <2>2, <2>3 DEF CreatePassword
<1>12. ASSUME NEW s \in Sessions, UnlinkPassword(s)
       PROVE  Tree'
  <2>1. PasswordFile(req[s].user) \in Files
    BY <1>0, <1>12 DEF UnlinkPassword, Roles, RoleOf, Files, PasswordFiles
  <2> QED BY <1>3, <1>12, <2>1 DEF UnlinkPassword
<1>13. ASSUME NEW s \in Sessions, RemoveHome(s)
       PROVE  Tree'
  <2>1. CASE CanRmdir(Home(req[s].user))
    BY <1>2, <1>13, <2>1 DEF RemoveHome, CanRmdir
  <2>2. CASE ~CanRmdir(Home(req[s].user))
    BY <1>1, <1>13, <2>2 DEF RemoveHome
  <2> QED BY <2>1, <2>2
<1>14. ASSUME NEW t \in Threads, MakeDir(t)
       PROVE  Tree'
  BY <1>1, <1>14 DEF MakeDir
<1>15. ASSUME NEW s \in Sessions, RmEntry(s)
       PROVE  Tree'
  BY <1>2, <1>15 DEF RmEntry
<1>16. ASSUME NEW s \in Sessions, RmDone(s)
       PROVE  Tree'
  <2> DEFINE d == Home(req[s].user)
  <2>1. CASE dirs' = dirs \ {d} /\ d \in dirs /\ CanRmdir(d)
    BY <1>2, <1>16, <2>1 DEF RmDone, CanRmdir
  <2>2. CASE dirs' = dirs
    BY <1>1, <1>16, <2>2 DEF RmDone
  <2>3. CASE dirs' = dirs \ {d} /\ d \notin dirs
    BY <2>2, <2>3
  <2> QED BY <1>16, <2>1, <2>2, <2>3 DEF RmDone
<1>17. ASSUME NEW t \in Inbound, RemoveTrustline(t) \/ OpenTrustline(t)
       PROVE  Tree'
  <2>1. req[t].user \in Users /\ req[t].peer \in Peers
    BY <1>0, <1>17 DEF RemoveTrustline, OpenTrustline, Roles, RoleOf
  <2>2. RequestFile(t) \in Files
    BY <2>1 DEF RequestFile, Files, TrustlineFiles
  <2>3. Front(RequestFile(t)) = PeerDir(req[t].user, req[t].peer)
    BY FrontOfLayout DEF RequestFile
  <2>4. CASE RemoveTrustline(t)
    BY <1>3, <2>2, <2>4 DEF RemoveTrustline
  <2>5. CASE OpenTrustline(t)
    BY <1>0, <1>1, <1>4, <2>2, <2>3, <2>5 DEF OpenTrustline
  <2> QED BY <1>17, <2>4, <2>5
<1>18. ASSUME NEW s \in Sessions, SessionActs(s),
              ~(CreatePassword(s) \/ UnlinkPassword(s) \/ RemoveHome(s) \/ MakeDir(s)
                \/ RmEntry(s) \/ RmDone(s))
       PROVE  UNCHANGED <<link, dirs>>
  BY <1>18 DEF SessionActs, SessionCommand, SessionStep, Register, Login, Logout, DeleteAccount,
               Disconnect, StatDir, WritePassword, OpenLogin, ReadLogin, RmRead
<1>19. ASSUME NEW t \in Inbound, InboundActs(t),
              ~(MakeDir(t) \/ RemoveTrustline(t) \/ OpenTrustline(t))
       PROVE  UNCHANGED <<link, dirs>>
  BY <1>19 DEF InboundActs, InboundCommand, InboundStep, SetTrustline, StatDir, WriteTrustline
<1>20. Crash \/ UNCHANGED vars => UNCHANGED <<link, dirs>>
  BY DEF Crash, vars
<1> QED
  BY <1>0, <1>1, <1>11, <1>12, <1>13, <1>14, <1>15, <1>16, <1>17, <1>18, <1>19, <1>20
  DEF Next, SessionActs, InboundActs

\* A file keeps its inode, is removed, or gets an inode nobody refers to.
LEMMA LinkStep ==
  ASSUME TypeOK, Roles, [Next]_vars, NEW f \in Files
  PROVE  link'[f] = link[f] \/ link'[f] = NoInode \/ link'[f] \in FreeInodes
<1>0. Sessions \subseteq Threads /\ Inbound \subseteq Threads
  BY DEF Threads
<1>1. ASSUME NEW t \in Threads, NEW g \in Files, NEW b, OpenForWrite(t, g, b)
      PROVE  link'[f] = link[f] \/ link'[f] \in FreeInodes
  BY <1>1 DEF OpenForWrite, TypeOK, StorageTypeOK
<1>2. ASSUME NEW g, Unlink(g)
      PROVE  link'[f] = link[f] \/ link'[f] = NoInode
  BY <1>2 DEF Unlink, TypeOK, StorageTypeOK
<1> USE DEF storage
<1>3. ASSUME NEW s \in Sessions, CreatePassword(s)
      PROVE  link'[f] = link[f] \/ link'[f] \in FreeInodes
  <2>1. PasswordFile(req[s].user) \in Files
    BY <1>0, <1>3 DEF CreatePassword, Roles, RoleOf, Files, PasswordFiles
  <2> QED BY <1>0, <1>1, <1>3, <2>1 DEF CreatePassword
<1>4. ASSUME NEW t \in Inbound, OpenTrustline(t)
      PROVE  link'[f] = link[f] \/ link'[f] \in FreeInodes
  <2>1. req[t].user \in Users /\ req[t].peer \in Peers
    BY <1>0, <1>4 DEF OpenTrustline, Roles, RoleOf
  <2>2. RequestFile(t) \in Files
    BY <2>1 DEF RequestFile, Files, TrustlineFiles
  <2> QED BY <1>0, <1>1, <1>4, <2>2 DEF OpenTrustline
<1>5. ASSUME NEW s \in Sessions, UnlinkPassword(s) \/ RmEntry(s) \/ RemoveTrustline(s)
      PROVE  link'[f] = link[f] \/ link'[f] = NoInode
  BY <1>2, <1>5 DEF UnlinkPassword, RmEntry, RemoveTrustline
<1>6. ASSUME NEW t \in Inbound, RemoveTrustline(t)
      PROVE  link'[f] = link[f] \/ link'[f] = NoInode
  BY <1>2, <1>6 DEF RemoveTrustline
<1>7. ASSUME NEW s \in Sessions, SessionActs(s), ~(CreatePassword(s) \/ UnlinkPassword(s) \/ RmEntry(s))
      PROVE  UNCHANGED link
  BY <1>7 DEF SessionActs, SessionCommand, SessionStep, Register, Login, Logout, DeleteAccount,
              Disconnect, StatDir, MakeDir, WritePassword, RemoveHome, OpenLogin, ReadLogin, RmRead, RmDone
<1>8. ASSUME NEW t \in Inbound, InboundActs(t), ~(RemoveTrustline(t) \/ OpenTrustline(t))
      PROVE  UNCHANGED link
  BY <1>8 DEF InboundActs, InboundCommand, InboundStep, SetTrustline, StatDir, MakeDir, WriteTrustline
<1>9. Crash \/ UNCHANGED vars => UNCHANGED link
  BY DEF Crash, vars
<1> QED
  BY <1>3, <1>4, <1>5, <1>6, <1>7, <1>8, <1>9 DEF Next, SessionActs, InboundActs

\* A thread about to write keeps the inode of its own file, or of none.
LEMMA DescriptorsStep ==
  ASSUME TypeOK, Roles, Tree, Descriptors, [Next]_vars
  PROVE  Descriptors'
<1>0. Sessions \subseteq Threads /\ Inbound \subseteq Threads /\ Sessions \cap Inbound = {}
  BY StorageAssumption DEF Threads
<1>1. ASSUME NEW r \in Threads, UNCHANGED <<pc[r], req[r], fd[r]>>
      PROVE  DescriptorOf(r)'
  <2>1. DescriptorOf(r)
    BY DEF Descriptors
  <2>2. TargetFile(r)' = TargetFile(r)
    BY <1>1 DEF TargetFile, RequestFile
  <2>3. ASSUME fd[r] \in Inodes, NEW f \in Files, link'[f] = fd[r]
        PROVE  link[f] = fd[r]
    BY <2>3, LinkStep, StorageAssumption DEF FreeInodes
  <2> QED BY <1>1, <2>1, <2>2, <2>3 DEF DescriptorOf
<1>2. ASSUME NEW t \in Threads, pc'[t] \notin {"write_password", "write_trustline", "read_login"}
      PROVE  DescriptorOf(t)'
  BY <1>2 DEF DescriptorOf
<1>3. ASSUME NEW t \in Threads, NEW f \in Files, NEW b, OpenForWrite(t, f, b), NEW c, Goto(t, c),
             c # "read_login", f = TargetFile(t), UNCHANGED req
      PROVE  DescriptorOf(t)'
  <2>1. TargetFile(t)' = f
    BY <1>3 DEF TargetFile, RequestFile
  <2>2. /\ fd'[t] \in Inodes
        /\ \A g \in Files : link'[g] = fd'[t] => g = f
    <3>1. CASE Linked(f)
      <4>1. fd'[t] = link[f] /\ link' = link /\ link[f] \in Inodes
        BY <1>3, <3>1 DEF OpenForWrite, Linked, TypeOK, StorageTypeOK
      <4> QED BY <3>1, <4>1 DEF Tree
    <3>2. CASE ~Linked(f)
      <4>1. PICK i \in FreeInodes : fd' = [fd EXCEPT ![t] = i] /\ link' = [link EXCEPT ![f] = i]
        BY <1>3, <3>2 DEF OpenForWrite
      <4>2. fd'[t] = i /\ i \in Inodes /\ \A g \in Files : link[g] # i
        BY <4>1 DEF FreeInodes, TypeOK, StorageTypeOK
      <4> QED BY <4>1, <4>2 DEF TypeOK, StorageTypeOK
    <3> QED BY <3>1, <3>2
  <2>3. pc'[t] = c
    BY <1>3 DEF Goto, TypeOK
  <2> QED BY <1>3, <2>1, <2>2, <2>3 DEF DescriptorOf
<1>4. ASSUME NEW t \in Threads, Return(t)
      PROVE  DescriptorOf(t)'
  BY <1>2, <1>4 DEF Return, TypeOK
<1>5. ASSUME NEW t \in Threads, NEW c, Goto(t, c),
             c \notin {"write_password", "write_trustline", "read_login"}
      PROVE  DescriptorOf(t)'
  BY <1>2, <1>5 DEF Goto, TypeOK
<1> USE DEF storage
<1>11. ASSUME NEW s \in Sessions, CreatePassword(s)
       PROVE  DescriptorOf(s)'
  <2>1. PasswordFile(req[s].user) \in Files
    BY <1>0, <1>11 DEF CreatePassword, Roles, RoleOf, Files, PasswordFiles
  <2>2. TargetFile(s) = PasswordFile(req[s].user)
    BY DEF TargetFile
  <2>3. CASE OpenForWrite(s, PasswordFile(req[s].user), FALSE) /\ Goto(s, "write_password")
    BY <1>0, <1>3, <1>11, <2>1, <2>2, <2>3 DEF CreatePassword
  <2>4. CASE Goto(s, "rmdir_unopened")
    BY <1>0, <1>5, <2>4
  <2> QED BY <1>11, <2>3, <2>4 DEF CreatePassword
<1>12. ASSUME NEW t \in Inbound, OpenTrustline(t)
       PROVE  DescriptorOf(t)'
  <2>1. req[t].user \in Users /\ req[t].peer \in Peers
    BY <1>0, <1>12 DEF OpenTrustline, Roles, RoleOf
  <2>2. RequestFile(t) \in Files
    BY <2>1 DEF RequestFile, Files, TrustlineFiles
  <2>3. TargetFile(t) = RequestFile(t)
    BY <1>0 DEF TargetFile
  <2>4. CASE OpenForWrite(t, RequestFile(t), TRUE) /\ Goto(t, "write_trustline") /\ UNCHANGED req
    BY <1>0, <1>3, <2>2, <2>3, <2>4
  <2>5. CASE Return(t)
    BY <1>0, <1>4, <2>5
  <2> QED BY <1>12, <2>4, <2>5 DEF OpenTrustline
<1>13. ASSUME NEW s \in Sessions, OpenLogin(s)
       PROVE  DescriptorOf(s)'
  <2>1. PasswordFile(req[s].user) \in Files
    BY <1>0, <1>13 DEF OpenLogin, Roles, RoleOf, Files, PasswordFiles
  <2>2. CASE /\ Linked(PasswordFile(req[s].user))
             /\ fd' = [fd EXCEPT ![s] = link[PasswordFile(req[s].user)]]
             /\ Goto(s, "read_login")
    <3>1. fd'[s] \in Inodes /\ pc'[s] = "read_login"
      BY <1>0, <2>1, <2>2 DEF Linked, Goto, TypeOK, StorageTypeOK
    <3> QED BY <3>1 DEF DescriptorOf
  <2>3. CASE Return(s)
    BY <1>0, <1>4, <2>3
  <2> QED BY <1>13, <2>2, <2>3 DEF OpenLogin
<1>14. ASSUME NEW t \in Threads, StatDir(t) \/ MakeDir(t)
       PROVE  DescriptorOf(t)'
  <2>1. DirReady(t) => DescriptorOf(t)'
    BY <1>5 DEF DirReady, AfterDirs
  <2> QED BY <1>4, <1>5, <1>14, <2>1 DEF StatDir, MakeDir
<1>15. ASSUME NEW t \in Threads, NEW u, NEW p, NEW n, NEW z,
              \/ Register(t, u, p) \/ Login(t, u, p) \/ DeleteAccount(t)
              \/ SetTrustline(t, n, p, z)
       PROVE  DescriptorOf(t)'
  BY <1>2, <1>15 DEF Register, Login, DeleteAccount, SetTrustline, Begin, TypeOK
<1>16. ASSUME NEW t \in Threads,
              \/ WritePassword(t) \/ UnlinkPassword(t) \/ RemoveHome(t) \/ ReadLogin(t) \/ RmDone(t)
              \/ RemoveTrustline(t) \/ WriteTrustline(t)
       PROVE  DescriptorOf(t)'
  BY <1>4, <1>5, <1>16 DEF WritePassword, UnlinkPassword, RemoveHome, ReadLogin, RmDone,
                           RemoveTrustline, WriteTrustline
<1>17. ASSUME NEW t \in Threads, Logout(t) \/ Disconnect(t) \/ RmRead(t) \/ RmEntry(t)
       PROVE  DescriptorOf(t)'
  BY <1>1, <1>17 DEF Logout, Disconnect, RmRead, RmEntry
<1>18. ASSUME NEW t \in Threads,
              \/ t \in Sessions /\ SessionActs(t)
              \/ t \in Inbound /\ InboundActs(t)
       PROVE  Descriptors'
  <2>1. DescriptorOf(t)'
    BY <1>11, <1>12, <1>13, <1>14, <1>15, <1>16, <1>17, <1>18
    DEF SessionActs, SessionCommand, SessionStep, InboundActs, InboundCommand, InboundStep
  <2>2. \A r \in Threads \ {t} : DescriptorOf(r)'
    BY <1>1, <1>18, OneThreadActs DEF Alone
  <2> QED BY <2>1, <2>2 DEF Descriptors
<1>19. Crash => Descriptors'
  BY <1>2 DEF Crash, Descriptors
<1>20. UNCHANGED vars => Descriptors'
  BY <1>1 DEF vars, local, Descriptors
<1> QED
  BY <1>0, <1>18, <1>19, <1>20 DEF Next, SessionActs, InboundActs

\* rm finds only what is below the directory it was given.
LEMMA RmBelowStep ==
  ASSUME TypeOK, Roles, RmBelow, [Next]_vars
  PROVE  RmBelow'
<1>0. Sessions \subseteq Threads /\ Inbound \subseteq Threads /\ Sessions \cap Inbound = {}
  BY StorageAssumption DEF Threads
<1> DEFINE Below(s) ==
             /\ pc[s] # "rm" => unread[s] = {} /\ found[s] = {}
             /\ \A e \in unread[s] : e # AccountsDir /\ e[1] = req[s].user
             /\ \A e \in found[s] : e[1] = req[s].user
<1>1. \A s \in Sessions : Below(s)
  BY DEF RmBelow
<1>2. ASSUME NEW s \in Sessions, UNCHANGED <<unread[s], found[s]>>,
             pc[s] # "rm" \/ UNCHANGED <<pc[s], req[s]>>
      PROVE  Below(s)'
  BY <1>1, <1>2
<1>3. ASSUME NEW s \in Sessions, DeleteAccount(s)
      PROVE  Below(s)'
  <2>1. pc'[s] = "rm" /\ req'[s].user = session[s].user
    BY <1>0, <1>3, AccountAssumption DEF DeleteAccount, Begin, NoRequest, TypeOK
  <2>2. unread'[s] = {Home(session[s].user)} /\ found'[s] = {}
    BY <1>1, <1>3 DEF DeleteAccount, TypeOK
  <2>3. Home(session[s].user) # AccountsDir /\ Home(session[s].user)[1] = session[s].user
    BY DEF Home, AccountsDir
  <2> QED BY <2>1, <2>2, <2>3
<1>4. ASSUME NEW s \in Sessions, RmRead(s)
      PROVE  Below(s)'
  <2>1. PICK d \in unread[s] :
          /\ found' = [found EXCEPT ![s] = @ \cup Children(d)]
          /\ unread' = [unread EXCEPT ![s] = (@ \ {d}) \cup (Children(d) \cap dirs)]
    BY <1>4 DEF RmRead
  <2>2. d # AccountsDir /\ d[1] = req[s].user
    BY <1>1, <2>1
  <2>3. ASSUME NEW e \in Children(d)
        PROVE  e # AccountsDir /\ e[1] = req[s].user
    <3>1. e \in Dirs \cup Files /\ Front(e) = d
      BY DEF Children, TypeOK, StorageTypeOK
    <3>2. e # AccountsDir
      <4>1. CASE e \in Files
        BY <4>1, FilesAreNotRoot
      <4>2. CASE e \in dirs /\ e # AccountsDir
        BY <4>2
      <4> QED BY <4>1, <4>2 DEF Children
    <3> QED BY <2>2, <3>1, <3>2, ChildOfAccount
  <2>4. /\ found'[s] = found[s] \cup Children(d)
        /\ unread'[s] \subseteq unread[s] \cup Children(d)
    BY <2>1 DEF TypeOK
  <2>5. pc'[s] = "rm" /\ req' = req
    BY <1>4 DEF RmRead
  <2> QED BY <1>1, <2>3, <2>4, <2>5
<1>5. ASSUME NEW s \in Sessions, RmEntry(s)
      PROVE  Below(s)'
  <2>1. found'[s] \subseteq found[s] /\ UNCHANGED <<pc, req, unread>>
    BY <1>5 DEF RmEntry, TypeOK
  <2>2. pc[s] = "rm"
    BY <1>5 DEF RmEntry
  <2> QED BY <1>1, <2>1, <2>2
<1>6. ASSUME NEW s \in Sessions, RmDone(s)
      PROVE  Below(s)'
  BY <1>6 DEF RmDone, TypeOK
<1>7. ASSUME NEW s \in Sessions, SessionActs(s),
             ~(DeleteAccount(s) \/ RmRead(s) \/ RmEntry(s) \/ RmDone(s))
      PROVE  UNCHANGED <<unread, found>> /\ (pc[s] # "rm" \/ UNCHANGED <<pc, req>>)
  BY <1>7 DEF SessionActs, SessionCommand, SessionStep, Register, Login, Logout, Disconnect,
              StatDir, MakeDir, CreatePassword, WritePassword, UnlinkPassword, RemoveHome,
              OpenLogin, ReadLogin, rm
<1>8. ASSUME NEW s \in Sessions, SessionActs(s)
      PROVE  Below(s)'
  BY <1>2, <1>3, <1>4, <1>5, <1>6, <1>7, <1>8
<1>9. ASSUME NEW s \in Sessions, SessionActs(s), NEW r \in Sessions \ {s}
      PROVE  Below(r)'
  <2>1. UNCHANGED <<pc[r], req[r]>>
    BY <1>0, <1>9, OneThreadActs DEF Alone
  <2>2. UNCHANGED <<unread[r], found[r]>>
    <3>1. CASE DeleteAccount(s) \/ RmRead(s) \/ RmEntry(s) \/ RmDone(s)
      BY <1>9, <3>1 DEF DeleteAccount, RmRead, RmEntry, RmDone, TypeOK
    <3> QED BY <1>7, <1>9, <3>1
  <2> QED BY <1>2, <2>1, <2>2
<1>10. ASSUME NEW t \in Inbound, InboundActs(t), NEW r \in Sessions
       PROVE  Below(r)'
  <2>1. r # t /\ UNCHANGED <<pc[r], req[r]>>
    BY <1>0, <1>10, OneThreadActs DEF Alone
  <2>2. UNCHANGED <<unread, found>>
    BY <1>10 DEF InboundActs, InboundCommand, InboundStep, SetTrustline, StatDir, MakeDir,
                 RemoveTrustline, OpenTrustline, WriteTrustline, rm
  <2> QED BY <1>2, <2>1, <2>2
<1>11. ASSUME Crash, NEW r \in Sessions
       PROVE  Below(r)'
  <2>1. UNCHANGED <<unread, found>> /\ (pc[r] = "rm" => UNCHANGED <<pc[r], req[r]>>)
    BY <1>0, <1>11 DEF Crash, rm, TypeOK
  <2> QED BY <1>2, <2>1
<1>12. ASSUME UNCHANGED vars, NEW r \in Sessions
       PROVE  Below(r)'
  BY <1>2, <1>12 DEF vars, local, rm
<1>13. \A r \in Sessions : Below(r)'
  BY <1>8, <1>9, <1>10, <1>11, <1>12 DEF Next, SessionActs, InboundActs
<1> QED BY <1>13 DEF RmBelow

-----------------------------------------------------------------------------
(* Accounts.                                                               *)

\* A thread that is not changing an account leaves its password file alone.
LEMMA PasswordKept ==
  ASSUME TypeOK, Roles, Tree, Descriptors, RmBelow,
         NEW u \in Users, NEW t \in Threads,
         \/ t \in Sessions /\ SessionActs(t)
         \/ t \in Inbound /\ InboundActs(t),
         ~(t \in Sessions /\ Changing(t, u))
  PROVE  /\ link'[PasswordFile(u)] = link[PasswordFile(u)]
         /\ Linked(PasswordFile(u)) =>
              data'[link[PasswordFile(u)]] = data[link[PasswordFile(u)]]
<1> DEFINE P == PasswordFile(u)
           Kept == /\ link'[P] = link[P]
                   /\ Linked(P) => data'[link[P]] = data[link[P]]
<1>0. Sessions \subseteq Threads /\ Inbound \subseteq Threads /\ Sessions \cap Inbound = {}
  BY StorageAssumption DEF Threads
<1>1. P \in Files
  BY DEF Files, PasswordFiles
<1>2. ASSUME NEW f \in Files, f # P, NEW b, OpenForWrite(t, f, b)
      PROVE  Kept
  <2>1. CASE Linked(f)
    <3>1. Linked(P) => link[f] # link[P]
      BY <1>1, <1>2 DEF Tree
    <3>2. /\ link' = link
          /\ data' = data \/ data' = [data EXCEPT ![link[f]] = Empty]
      BY <1>2, <2>1 DEF OpenForWrite
    <3>3. Linked(P) => data'[link[P]] = data[link[P]]
      BY <1>1, <3>1, <3>2 DEF Linked, TypeOK, StorageTypeOK
    <3> QED BY <3>2, <3>3
  <2>2. CASE ~Linked(f)
    <3>1. PICK i \in FreeInodes : /\ data' = [data EXCEPT ![i] = Empty]
                                  /\ link' = [link EXCEPT ![f] = i]
      BY <1>2, <2>2 DEF OpenForWrite
    <3>2. link[P] # i
      BY <1>1, <3>1 DEF FreeInodes
    <3>3. data'[link[P]] = data[link[P]]
      BY <3>1, <3>2 DEF TypeOK, StorageTypeOK
    <3>4. link'[P] = link[P]
      BY <1>1, <1>2, <3>1 DEF TypeOK, StorageTypeOK
    <3> QED BY <3>3, <3>4
  <2> QED BY <2>1, <2>2
<1>3. ASSUME NEW f \in Files, f # P, Unlink(f)
      PROVE  link'[P] = link[P]
  BY <1>1, <1>3 DEF Unlink, TypeOK, StorageTypeOK
<1>4. ASSUME NEW v, fd[t] # link[P], WriteFd(t, v)
      PROVE  data'[link[P]] = data[link[P]]
  BY <1>4 DEF WriteFd, TypeOK, StorageTypeOK
<1>5. ASSUME t \in Sessions, pc[t] \in RegisterPcs \cup {"rm"}
      PROVE  /\ req[t].user \in Users /\ req[t].user # u
             /\ PasswordFile(req[t].user) \in Files /\ PasswordFile(req[t].user) # P
  <2>1. req[t].user # u
    BY <1>5 DEF Changing
  <2>2. req[t].user \in Users
    BY <1>5 DEF Roles, RoleOf, RegisterPcs
  <2> QED BY <2>1, <2>2, FilesDistinct DEF Files, PasswordFiles
<1> USE DEF storage
<1>11. ASSUME t \in Sessions, CreatePassword(t)
       PROVE  Kept
  <2>1. pc[t] \in RegisterPcs
    BY <1>11 DEF CreatePassword, RegisterPcs
  <2>2. OpenForWrite(t, PasswordFile(req[t].user), FALSE) \/ UNCHANGED <<link, data>>
    BY <1>11 DEF CreatePassword
  <2> QED BY <1>2, <1>5, <1>11, <2>1, <2>2
<1>12. ASSUME t \in Sessions, WritePassword(t)
       PROVE  Kept
  <2>1. pc[t] = "write_password" /\ link' = link
        /\ (WriteFd(t, req[t].val) \/ UNCHANGED data)
    BY <1>12 DEF WritePassword
  <2>2. fd[t] # link[P]
    BY <1>1, <1>5, <1>12, <2>1 DEF Descriptors, DescriptorOf, TargetFile, RegisterPcs
  <2> QED BY <1>4, <2>1, <2>2
<1>13. ASSUME t \in Sessions, UnlinkPassword(t)
       PROVE  Kept
  BY <1>3, <1>5, <1>13 DEF UnlinkPassword, RegisterPcs
<1>14. ASSUME t \in Sessions, RmEntry(t)
       PROVE  Kept
  <2>1. PICK e \in found[t] : link' = [f \in Files |-> IF f = e THEN NoInode ELSE link[f]]
    BY <1>14 DEF RmEntry
  <2>2. e[1] = req[t].user
    BY <1>14, <2>1 DEF RmBelow
  <2>3. P[1] = u
    BY DEF PasswordFile
  <2>4. e # P
    BY <1>5, <1>14, <2>2, <2>3 DEF RmEntry
  <2>5. link'[P] = link[P]
    BY <1>1, <2>1, <2>4
  <2>6. data' = data
    BY <1>14 DEF RmEntry
  <2> QED BY <2>5, <2>6
<1>15. ASSUME t \in Inbound, RemoveTrustline(t) \/ OpenTrustline(t) \/ WriteTrustline(t)
       PROVE  Kept
  <2>1. req[t].user \in Users /\ req[t].peer \in Peers
    BY <1>0, <1>15 DEF RemoveTrustline, OpenTrustline, WriteTrustline, Roles, RoleOf
  <2>2. RequestFile(t) \in Files /\ RequestFile(t) # P
    BY <2>1, FilesDistinct DEF RequestFile, Files, TrustlineFiles
  <2>3. CASE RemoveTrustline(t)
    BY <1>3, <2>2, <2>3 DEF RemoveTrustline
  <2>4. CASE OpenTrustline(t)
    BY <1>2, <2>2, <2>4 DEF OpenTrustline
  <2>5. CASE WriteTrustline(t)
    <3>1. fd[t] # link[P]
      BY <1>0, <1>1, <1>15, <2>2, <2>5 DEF WriteTrustline, Descriptors, DescriptorOf, TargetFile
    <3> QED BY <1>4, <2>5, <3>1 DEF WriteTrustline
  <2> QED BY <1>15, <2>3, <2>4, <2>5
<1>16. ASSUME t \in Sessions, SessionActs(t),
              ~(CreatePassword(t) \/ WritePassword(t) \/ UnlinkPassword(t) \/ RmEntry(t))
       PROVE  UNCHANGED <<link, data>>
  BY <1>16 DEF SessionActs, SessionCommand, SessionStep, Register, Login, Logout, DeleteAccount,
               Disconnect, StatDir, MakeDir, RemoveHome, OpenLogin, ReadLogin, RmRead, RmDone
<1>17. ASSUME t \in Inbound, InboundActs(t),
              ~(RemoveTrustline(t) \/ OpenTrustline(t) \/ WriteTrustline(t))
       PROVE  UNCHANGED <<link, data>>
  BY <1>17 DEF InboundActs, InboundCommand, InboundStep, SetTrustline, StatDir, MakeDir
<1> QED
  BY <1>11, <1>12, <1>13, <1>14, <1>15, <1>16, <1>17

\* A session comes to change an account only by beginning to.
LEMMA BeginsToChange ==
  ASSUME TypeOK, Roles, NEW u \in Users, NEW t \in Sessions, SessionActs(t),
         Changing(t, u)', ~Changing(t, u)
  PROVE  \/ \E p \in Passwords : Register(t, u, p)
         \/ DeleteAccount(t) /\ session[t].user = u
<1>0. t \in Threads
  BY DEF Threads
<1>1. req'[t].user = u /\ pc'[t] \in {"rm"} \cup RegisterPcs \cup DirPcs
  BY DEF Changing
<1>2. ~Return(t)
  BY <1>0, <1>1 DEF Return, TypeOK, RegisterPcs, DirPcs
<1>3. ~(req' = req /\ pc[t] \in {"rm"} \cup RegisterPcs \cup DirPcs)
  BY <1>1 DEF Changing
<1>4. ~(UNCHANGED <<pc, req>>)
  BY <1>1, <1>3
<1>5. ~(Goto(t, "read_login") \/ \E v \in Users, p \in Passwords : Login(t, v, p))
  BY <1>0, <1>1 DEF Goto, Login, Begin, TypeOK, RegisterPcs, DirPcs
<1>6. ASSUME NEW v \in Users, NEW p \in Passwords, Register(t, v, p)
      PROVE  v = u
  BY <1>0, <1>1, <1>6 DEF Register, Begin, TypeOK, NoRequest
<1>7. ASSUME DeleteAccount(t)
      PROVE  session[t].user = u
  <2>1. req'[t].user = session[t].user
    BY <1>0, <1>7 DEF DeleteAccount, Begin, NoRequest, TypeOK
  <2> QED BY <1>1, <2>1
<1> USE DEF RegisterPcs, DirPcs
<1>8. ~(StatDir(t) \/ MakeDir(t))
  BY <1>2, <1>3 DEF StatDir, MakeDir
<1>9. ~(CreatePassword(t) \/ WritePassword(t) \/ UnlinkPassword(t) \/ RemoveHome(t))
  BY <1>2, <1>3 DEF CreatePassword, WritePassword, UnlinkPassword, RemoveHome
<1>10. ~(OpenLogin(t) \/ ReadLogin(t) \/ Logout(t) \/ Disconnect(t))
  BY <1>2, <1>4, <1>5 DEF OpenLogin, ReadLogin, Logout, Disconnect
<1>11. ~(RmRead(t) \/ RmEntry(t) \/ RmDone(t))
  BY <1>2, <1>4 DEF RmRead, RmEntry, RmDone
<1> QED
  BY <1>5, <1>6, <1>7, <1>8, <1>9, <1>10, <1>11 DEF SessionActs, SessionCommand, SessionStep

\* Who is changing an account is told apart by a flag of the account, and
\* what its REGISTER_SUCCESS promised is set when its last session stops.
LEMMA AccountsStep ==
  ASSUME TypeOK, Roles, Tree, Descriptors, RmBelow, Accounts, [Next]_vars
  PROVE  Accounts'
<1>0. Sessions \subseteq Threads /\ Inbound \subseteq Threads /\ Sessions \cap Inbound = {}
  BY StorageAssumption DEF Threads
<1> USE DEF storage
<1>1. SUFFICES ASSUME NEW u \in Users
               PROVE  OneChangerOf(u)' /\ KeptOf(u)'
  BY DEF Accounts
<1> DEFINE P == PasswordFile(u)
<1>2. OneChangerOf(u) /\ KeptOf(u) /\ P \in Files
  BY DEF Accounts, Files, PasswordFiles
\* Nobody begins to change u, and whoever steps is not changing it.
<1>3. ASSUME UNCHANGED <<acked[u], contended[u]>>,
             link'[P] = link[P],
             Linked(P) => data'[link[P]] = data[link[P]],
             \A s \in Sessions : Changing(s, u)' =>
                Changing(s, u) /\ UNCHANGED <<pc[s], req[s], fd[s]>>
      PROVE  OneChangerOf(u)' /\ KeptOf(u)'
  <2>1. SUFFICES ASSUME ~contended'[u]
                 PROVE  OneChangerOf(u)' /\ KeptOf(u)'
    BY DEF OneChangerOf, KeptOf
  <2>2. Linked(P)' <=> Linked(P)
    BY <1>3 DEF Linked
  <2>3. KeptOf(u)'
    BY <1>2, <1>3, <2>1, <2>2 DEF KeptOf, StoredPassword
  <2>4. Busy(u)' => Busy(u)
    BY <1>3 DEF Busy
  <2>5. ASSUME NEW s \in Sessions, req'[s].user = u, pc'[s] \in DirPcs \cup {"open_password"}
        PROVE  ~Linked(P)'
    <3>1. Changing(s, u)'
      BY <2>5 DEF Changing, RegisterPcs
    <3> QED BY <1>2, <1>3, <2>1, <2>2, <2>5, <3>1 DEF OneChangerOf
  <2>6. ASSUME NEW s \in Sessions, req'[s].user = u, pc'[s] = "write_password"
        PROVE  link'[P] = fd'[s] /\ data'[fd'[s]] = Empty
    <3>1. Changing(s, u)'
      BY <2>6 DEF Changing, RegisterPcs
    <3>2. UNCHANGED <<pc[s], req[s], fd[s]>>
      BY <1>3, <3>1
    <3>3. link[P] = fd[s] /\ data[fd[s]] = Empty
      BY <1>2, <1>3, <2>1, <2>6, <3>2 DEF OneChangerOf
    <3>4. Linked(P)
      BY <1>0, <2>6, <3>2, <3>3, StorageAssumption DEF Linked, Descriptors, DescriptorOf
    <3> QED BY <1>3, <3>2, <3>3, <3>4
  <2> QED BY <1>2, <1>3, <2>1, <2>3, <2>4, <2>5, <2>6 DEF OneChangerOf
\* A session begins to change u.
<1>4. ASSUME NEW t \in Sessions,
             \/ \E p \in Passwords : Register(t, u, p)
             \/ DeleteAccount(t) /\ session[t].user = u
      PROVE  OneChangerOf(u)' /\ KeptOf(u)'
  <2>0. contended \in [Users -> BOOLEAN]
    BY DEF TypeOK
  <2>a. contended' = [contended EXCEPT ![u] = Busy(u)]
    BY <1>4 DEF Register, DeleteAccount
  <2>1. contended'[u] = Busy(u)
    BY <2>0, <2>a
  <2>2. SUFFICES ASSUME ~Busy(u)
                 PROVE  OneChangerOf(u)' /\ KeptOf(u)'
    BY <2>1 DEF OneChangerOf, KeptOf
  <2>3. acked'[u] = {}
    BY <1>4, <2>2 DEF Register, DeleteAccount, TypeOK
  <2>4. UNCHANGED <<link, data, fd>>
    BY <1>4 DEF Register, DeleteAccount
  <2>5. \A s \in Sessions \ {t} : UNCHANGED <<pc[s], req[s]>>
    BY <1>0, <1>4 DEF Register, DeleteAccount, Begin, TypeOK
  <2>6. \A s \in Sessions \ {t} : ~Changing(s, u)'
    BY <2>2, <2>5 DEF Busy, Changing
  <2>7. pc'[t] \in DirPcs \cup {"open_password", "write_password"} => ~Linked(P)' /\ pc'[t] \in DirPcs
    <3>1. CASE \E p \in Passwords : Register(t, u, p)
      <4>1. pc'[t] = "stat_dir" /\ Home(u) \notin dirs
        BY <1>0, <3>1 DEF Register, Begin, TypeOK
      <4>2. ~Linked(P)
        BY <1>2, <4>1, FrontOfLayout DEF Tree
      <4> QED BY <2>4, <4>1, <4>2 DEF Linked, DirPcs
    <3>2. CASE DeleteAccount(t)
      <4>1. pc'[t] = "rm"
        BY <1>0, <3>2 DEF DeleteAccount, Begin, TypeOK
      <4> QED BY <4>1 DEF DirPcs
    <3> QED BY <1>4, <3>1, <3>2
  <2>8. \A s, r \in Sessions : Changing(s, u)' /\ Changing(r, u)' => s = r
    BY <2>6
  <2>9. ASSUME NEW s \in Sessions, req'[s].user = u,
               pc'[s] \in DirPcs \cup {"open_password", "write_password"}
        PROVE  ~Linked(P)' /\ pc'[s] \in DirPcs
    <3>1. Changing(s, u)'
      BY <2>9 DEF Changing, RegisterPcs
    <3> QED BY <2>6, <2>7, <2>9, <3>1
  <2>10. KeptOf(u)'
    BY <2>3 DEF KeptOf
  <2>11. OneChangerOf(u)'
    BY <2>3, <2>8, <2>9 DEF OneChangerOf, DirPcs
  <2> QED BY <2>10, <2>11
\* The session that is changing u takes a step.
<1>5. ASSUME NEW t \in Sessions, SessionStep(t), Changing(t, u), ~contended[u]
      PROVE  OneChangerOf(u)' /\ KeptOf(u)'
  <2> DEFINE Done == Return(t) /\ WriteFd(t, req[t].val) /\ pc[t] = "write_password"
                     /\ acked' = [acked EXCEPT ![u] = @ \cup {<<t, req[t].val>>}]
                     /\ link' = link
  <2>1. acked[u] = {} /\ \A s \in Sessions \ {t} : ~Changing(s, u)
    BY <1>2, <1>5 DEF OneChangerOf, Busy
  <2>2. \A s \in Sessions \ {t} : UNCHANGED <<pc[s], req[s], fd[s]>>
    BY <1>0, <1>5, OneThreadActs DEF Alone, SessionActs
  <2>3. \A s \in Sessions \ {t} : ~Changing(s, u)'
    BY <2>1, <2>2 DEF Changing
  <2>4. \A s, r \in Sessions : Changing(s, u)' /\ Changing(r, u)' => s = r
    BY <2>3
  <2>5. req[t].user = u
    BY <1>5 DEF Changing
  <2> DEFINE Mine ==
         req'[t].user = u =>
           /\ pc'[t] \in DirPcs \cup {"open_password"} => ~Linked(P)'
           /\ pc'[t] = "write_password" => link'[P] = fd'[t] /\ data'[fd'[t]] = Empty
  <2>6. ASSUME NEW s \in Sessions, req'[s].user = u,
               pc'[s] \in DirPcs \cup {"open_password", "write_password"}
        PROVE  s = t
    <3>1. Changing(s, u)'
      BY <2>6 DEF Changing, RegisterPcs
    <3> QED BY <2>3, <3>1
  <2>7. ASSUME acked' = acked, Mine
        PROVE  OneChangerOf(u)' /\ KeptOf(u)'
    <3>1. KeptOf(u)'
      BY <2>1, <2>7 DEF KeptOf
    <3>2. OneChangerOf(u)'
      BY <2>1, <2>4, <2>6, <2>7 DEF OneChangerOf
    <3> QED BY <3>1, <3>2
  <2>8. Return(t) => Mine
    BY <1>0 DEF Return, TypeOK, DirPcs
  <2>9. ASSUME NEW c, Goto(t, c), c \notin DirPcs \cup {"open_password", "write_password"}
        PROVE  Mine
    BY <1>0, <2>9 DEF Goto, TypeOK
  <2>11. CASE StatDir(t) \/ MakeDir(t)
    <3>1. pc[t] \in DirPcs /\ UNCHANGED link
      BY <2>11 DEF StatDir, MakeDir, DirPcs
    <3>2. ~Linked(P)
      BY <1>2, <1>5, <2>5, <3>1 DEF OneChangerOf
    <3>3. pc'[t] # "write_password"
      BY <1>0, <2>11 DEF StatDir, MakeDir, DirReady, AfterDirs, Return, Goto, TypeOK
    <3>4. Mine
      BY <3>1, <3>2, <3>3 DEF Linked
    <3> QED BY <2>7, <2>11, <3>4 DEF StatDir, MakeDir, history
  <2>12. CASE CreatePassword(t)
    <3>1. ~Linked(P)
      BY <1>2, <1>5, <2>5, <2>12 DEF OneChangerOf, CreatePassword
    <3>2. CASE OpenForWrite(t, P, FALSE) /\ Goto(t, "write_password")
      <4>1. PICK i \in FreeInodes : /\ fd' = [fd EXCEPT ![t] = i]
                                    /\ data' = [data EXCEPT ![i] = Empty]
                                    /\ link' = [link EXCEPT ![P] = i]
        BY <3>1, <3>2 DEF OpenForWrite
      <4>2. i \in Inodes
        BY <4>1 DEF FreeInodes
      <4>3. fd'[t] = i /\ data'[i] = Empty /\ link'[P] = i /\ pc'[t] = "write_password"
        BY <1>0, <1>2, <3>2, <4>1, <4>2 DEF TypeOK, StorageTypeOK, Goto
      <4> QED BY <2>7, <2>12, <4>3 DEF CreatePassword, history, DirPcs
    <3>3. CASE Goto(t, "rmdir_unopened")
      BY <2>7, <2>9, <2>12, <3>3 DEF CreatePassword, history, DirPcs
    <3> QED BY <2>5, <2>12, <3>2, <3>3 DEF CreatePassword
  <2>13. CASE WritePassword(t)
    <3>1. CASE Done
      <4>1. fd[t] = link[P] /\ data[fd[t]] = Empty
        BY <1>2, <1>5, <2>5, <3>1 DEF OneChangerOf
      <4>2. fd[t] \in Inodes
        BY <1>0, <3>1 DEF Descriptors, DescriptorOf
      <4>3. req[t].val \in Values
        BY <1>0 DEF TypeOK, Request
      <4>4. Linked(P)' /\ data'[link'[P]] = Whole(req[t].val)
        BY <3>1, <4>1, <4>2, <4>3, ContentTypes, StorageAssumption
        DEF WriteFd, Linked, TypeOK, StorageTypeOK
      <4>5. acked'[u] = {<<t, req[t].val>>}
        BY <2>1, <3>1 DEF TypeOK
      <4>6. KeptOf(u)'
        BY <4>4, <4>5 DEF KeptOf, StoredPassword
      <4>7. pc'[t] = "idle"
        BY <1>0, <3>1 DEF Return, TypeOK
      <4>8. ~Busy(u)'
        BY <2>3, <4>7 DEF Busy, Changing, RegisterPcs, DirPcs
      <4>9. OneChangerOf(u)'
        BY <2>4, <2>6, <4>7, <4>8 DEF OneChangerOf, DirPcs
      <4> QED BY <4>6, <4>9
    <3>2. CASE Goto(t, "unlink_password") /\ acked' = acked
      BY <2>7, <2>9, <3>2 DEF DirPcs
    <3> QED BY <2>5, <2>13, <3>1, <3>2 DEF WritePassword
  <2>14. CASE UnlinkPassword(t)
    BY <2>7, <2>9, <2>14 DEF UnlinkPassword, history, DirPcs
  <2>15. CASE RemoveHome(t) \/ OpenLogin(t) \/ ReadLogin(t) \/ RmDone(t)
    <3>1. CASE Return(t)
      BY <2>7, <2>8, <2>15, <3>1 DEF RemoveHome, OpenLogin, ReadLogin, RmDone, history
    <3>2. CASE OpenLogin(t)
      BY <1>5, <3>2 DEF OpenLogin, Changing, RegisterPcs, DirPcs
    <3> QED BY <2>15, <3>1, <3>2 DEF RemoveHome, ReadLogin, RmDone
  <2>16. CASE RmRead(t) \/ RmEntry(t)
    <3>1. pc'[t] = "rm" /\ acked' = acked
      BY <2>16 DEF RmRead, RmEntry, history
    <3> QED BY <2>7, <3>1 DEF DirPcs
  <2> QED
    BY <1>5, <2>11, <2>12, <2>13, <2>14, <2>15, <2>16 DEF SessionStep
\* The same step, when others contend: the flag stays up.
<1>6. ASSUME NEW t \in Threads,
             \/ t \in Sessions /\ SessionActs(t)
             \/ t \in Inbound /\ InboundActs(t),
             ~ \E p \in Passwords : t \in Sessions /\ Register(t, u, p),
             ~ (t \in Sessions /\ DeleteAccount(t) /\ session[t].user = u)
      PROVE  /\ contended'[u] = contended[u]
             /\ acked'[u] = acked[u] \/ (t \in Sessions /\ Changing(t, u))
  <2>1. ASSUME NEW v \in Users, v # u, NEW p \in Passwords, Register(t, v, p)
        PROVE  contended'[u] = contended[u] /\ acked'[u] = acked[u]
    BY <2>1 DEF Register, TypeOK
  <2>2. ASSUME t \in Sessions, DeleteAccount(t), session[t].user # u
        PROVE  contended'[u] = contended[u] /\ acked'[u] = acked[u]
    BY <2>2 DEF DeleteAccount, TypeOK
  <2>3. ASSUME t \in Sessions, WritePassword(t)
        PROVE  /\ contended'[u] = contended[u]
               /\ acked'[u] = acked[u] \/ Changing(t, u)
    BY <2>3 DEF WritePassword, TypeOK, Changing, RegisterPcs
  <2>4. ASSUME t \in Sessions, SessionActs(t), ~WritePassword(t), ~DeleteAccount(t),
               ~ \E v \in Users, p \in Passwords : Register(t, v, p)
        PROVE  UNCHANGED history
    BY <2>4 DEF SessionActs, SessionCommand, SessionStep, Login, Logout, Disconnect, StatDir, MakeDir,
                CreatePassword, UnlinkPassword, RemoveHome, OpenLogin, ReadLogin, RmRead, RmEntry, RmDone
  <2>5. ASSUME t \in Inbound, InboundActs(t)
        PROVE  UNCHANGED history
    BY <2>5 DEF InboundActs, InboundCommand, InboundStep, SetTrustline, StatDir, MakeDir,
                RemoveTrustline, OpenTrustline, WriteTrustline
  <2> QED BY <1>6, <2>1, <2>2, <2>3, <2>4, <2>5 DEF history
<1>7. ASSUME NEW t \in Threads,
             \/ t \in Sessions /\ SessionActs(t)
             \/ t \in Inbound /\ InboundActs(t)
      PROVE  OneChangerOf(u)' /\ KeptOf(u)'
  <2> DEFINE Begins == \/ \E p \in Passwords : Register(t, u, p)
                       \/ DeleteAccount(t) /\ session[t].user = u
  <2>1. CASE t \in Sessions /\ Begins
    BY <1>4, <2>1
  <2>2. CASE /\ ~(t \in Sessions /\ Changing(t, u))
             /\ ~ (t \in Sessions /\ Begins)
    <3>1. UNCHANGED <<acked[u], contended[u]>>
      BY <1>6, <1>7, <2>2
    <3>2. \A s \in Sessions : Changing(s, u)' => s # t
      BY <1>7, <2>2, <1>0, BeginsToChange
    <3>3. \A s \in Sessions : Changing(s, u)' =>
                Changing(s, u) /\ UNCHANGED <<pc[s], req[s], fd[s]>>
      BY <1>0, <1>7, <3>2, OneThreadActs DEF Alone, Changing
    <3>4. /\ link'[P] = link[P]
          /\ Linked(P) => data'[link[P]] = data[link[P]]
      BY <1>7, <2>2, PasswordKept
    <3> QED BY <1>3, <3>1, <3>3, <3>4
  <2>3. CASE t \in Sessions /\ Changing(t, u) /\ ~Begins
    <3>1. contended'[u] = contended[u]
      BY <1>6, <1>7, <2>3
    <3>2. pc[t] # "idle"
      BY <2>3 DEF Changing, RegisterPcs, DirPcs
    <3>3. SessionStep(t)
      BY <1>0, <1>7, <2>3, <3>2
      DEF SessionActs, SessionCommand, Register, Login, Logout, DeleteAccount, Disconnect
    <3>4. CASE contended[u]
      BY <3>1, <3>4 DEF OneChangerOf, KeptOf
    <3>5. CASE ~contended[u]
      BY <1>5, <2>3, <3>3, <3>5
    <3> QED BY <3>4, <3>5
  <2> HIDE DEF Begins
  <2> QED BY <2>1, <2>2, <2>3
<1>8. ASSUME Crash
      PROVE  OneChangerOf(u)' /\ KeptOf(u)'
  <2>1. UNCHANGED <<link, data, acked, contended>>
    BY <1>8 DEF Crash, history
  <2>2. \A s \in Sessions : pc'[s] \in {"rm", "idle"}
    BY <1>0, <1>8 DEF Crash
  <2>3. ASSUME NEW s \in Sessions, Changing(s, u)'
        PROVE  Changing(s, u)
    BY <1>0, <1>8, <2>2, <2>3 DEF Crash, Changing, RegisterPcs, DirPcs
  <2>4. KeptOf(u)'
    BY <1>2, <2>1 DEF KeptOf, StoredPassword, Linked
  <2>5. OneChangerOf(u)'
    BY <1>2, <2>1, <2>2, <2>3 DEF OneChangerOf, Busy, DirPcs
  <2> QED BY <2>4, <2>5
<1>9. ASSUME UNCHANGED vars
      PROVE  OneChangerOf(u)' /\ KeptOf(u)'
  BY <1>2, <1>9 DEF vars, local, history, OneChangerOf, KeptOf, Busy, Changing, StoredPassword, Linked
<1> QED
  BY <1>0, <1>7, <1>8, <1>9 DEF Next, SessionActs, InboundActs

-----------------------------------------------------------------------------
(* Theorems.                                                               *)

\* The empty store, with every thread idle, satisfies the invariant.
LEMMA InitInv ==
  Init => Inv
<1> SUFFICES ASSUME Init
             PROVE  Inv
  OBVIOUS
<1>0. Sessions \subseteq Threads /\ Inbound \subseteq Threads
  BY DEF Threads
<1>7. 0 \in 0..MaxFaults
  <2>1. MaxFaults \in Nat
    BY AccountAssumption
  <2> QED BY ONLY <2>1
<1> USE DEF Init, StorageInit
<1>1. TypeOK
  <2>1. NoRequest \in Request
        /\ NoSession \in [user : Users \cup {NoUser}, authenticated : BOOLEAN]
    BY StorageAssumption DEF NoRequest, NoSession, Request
  <2>2. <<>> \in Seq(Dirs)
    OBVIOUS
  <2> QED BY <1>7, <2>1, <2>2, ContentTypes DEF TypeOK, StorageTypeOK, PCs
<1>2. Roles
  BY <1>0 DEF Roles, RoleOf, NoSession, DirPcs, InboundPcs, RegisterPcs, LoginPcs
<1>3. Tree
  BY DEF Tree, Linked
<1>4. Descriptors
  BY DEF Descriptors, DescriptorOf
<1>5. RmBelow
  BY <1>0 DEF RmBelow
<1>6. Accounts
  BY <1>0 DEF Accounts, OneChangerOf, KeptOf, Busy, Changing, RegisterPcs, DirPcs
<1> QED BY <1>1, <1>2, <1>3, <1>4, <1>5, <1>6 DEF Inv

\* The inductive invariant holds in every behaviour.
THEOREM Invariance == Spec => []Inv
<1>1. Init => Inv
  BY InitInv
<1>2. Inv /\ [Next]_vars => Inv'
  BY TypeStep, RolesStep, TreeStep, DescriptorsStep, RmBelowStep, AccountsStep DEF Inv
<1> QED BY <1>1, <1>2, PTL DEF Spec

\* Every handler computes values of the types declared for them, whatever
\* the number of threads, accounts, inodes and faults.
THEOREM TypeCorrect == Spec => []TypeOK
<1>1. Inv => TypeOK
  BY DEF Inv
<1> QED BY <1>1, Invariance, PTL

\* REGISTER_SUCCESS is kept: client_handle_register, unless another session
\* was changing the name, leaves the directory and the password it was given,
\* and no other handler, fault or restart undoes it.
THEOREM RegistrationIsDurable == Spec => []RegistrationDurable
<1>1. Inv => RegistrationDurable
  <2>1. ASSUME Inv, NEW u \in Users, Linked(PasswordFile(u))
        PROVE  Home(u) \in dirs
    <3>1. PasswordFile(u) \in Files /\ Front(PasswordFile(u)) = Home(u)
      BY FrontOfLayout DEF Files, PasswordFiles
    <3> QED BY <2>1, <3>1 DEF Inv, Tree
  <2> QED BY <2>1 DEF Inv, Accounts, KeptOf, RegistrationDurable
<1> QED BY <1>1, Invariance, PTL

\* No handler but a deletion touches the password of a settled account, and
\* no registration of its name gets past the existence check.
THEOREM SettledAccountsKeepPasswords == Spec => SettledAccountKeepsPassword
<1>0. Sessions \subseteq Threads /\ Inbound \subseteq Threads /\ Sessions \cap Inbound = {}
  BY StorageAssumption DEF Threads
<1> DEFINE Kept(u) == /\ Linked(PasswordFile(u))'
                      /\ StoredPassword(u)' = StoredPassword(u)
                      /\ \A s \in Sessions : Changing(s, u)' => pc[s]' = "rm"
<1>1. ASSUME Inv, [Next]_vars, NEW u \in Users, Settled(u)
      PROVE  Kept(u)
  <2> DEFINE P == PasswordFile(u)
  <2>1. Linked(P) /\ \A s \in Sessions : ~Changing(s, u)
    BY <1>1 DEF Settled, Busy
  <2>2. Home(u) \in dirs
    <3>1. P \in Files /\ Front(P) = Home(u)
      BY FrontOfLayout DEF Files, PasswordFiles
    <3> QED BY <1>1, <2>1, <3>1 DEF Inv, Tree
  <2>3. ASSUME link'[P] = link[P], data'[link[P]] = data[link[P]]
        PROVE  Linked(P)' /\ StoredPassword(u)' = StoredPassword(u)
    BY <2>1, <2>3 DEF Linked, StoredPassword
  <2>4. ASSUME NEW t \in Threads,
               \/ t \in Sessions /\ SessionActs(t)
               \/ t \in Inbound /\ InboundActs(t)
        PROVE  Kept(u)
    <3>1. link'[P] = link[P] /\ data'[link[P]] = data[link[P]]
      BY <1>1, <2>1, <2>4, PasswordKept DEF Inv
    <3>2. ASSUME NEW s \in Sessions, Changing(s, u)'
          PROVE  pc'[s] = "rm"
      <4>1. s = t
        BY <1>0, <1>1, <2>1, <2>4, <3>2, OneThreadActs DEF Alone, Changing, Inv
      <4>2. SessionActs(s)
        BY <1>0, <2>4, <4>1
      <4>3. ~ \E p \in Passwords : Register(s, u, p)
        BY <2>2 DEF Register
      <4>4. DeleteAccount(s)
        BY <1>1, <2>1, <3>2, <4>2, <4>3, BeginsToChange DEF Inv
      <4> QED BY <1>0, <1>1, <4>4 DEF DeleteAccount, Begin, Inv, TypeOK
    <3> QED BY <2>3, <3>1, <3>2
  <2>5. ASSUME Crash
        PROVE  Kept(u)
    <3>1. UNCHANGED <<link, data>>
      BY <2>5 DEF Crash
    <3>2. ASSUME NEW s \in Sessions, Changing(s, u)'
          PROVE  Changing(s, u)
      BY <1>0, <2>5, <3>2 DEF Crash, Changing, RegisterPcs, DirPcs
    <3> QED BY <2>1, <2>3, <3>1, <3>2
  <2>6. ASSUME UNCHANGED vars
        PROVE  Kept(u)
    BY <2>1, <2>3, <2>6 DEF vars, local, storage, Changing
  <2> QED BY <1>0, <1>1, <2>4, <2>5, <2>6 DEF Next, SessionActs, InboundActs
<1>2. Inv /\ [Next]_vars =>
        [\A u \in Users : Settled(u) =>
           /\ Linked(PasswordFile(u))'
           /\ StoredPassword(u)' = StoredPassword(u)
           /\ \A s \in Sessions : Changing(s, u)' => pc[s]' = "rm"]_vars
  BY <1>1
<1> QED BY <1>2, Invariance, PTL DEF Spec, SettledAccountKeepsPassword
=============================================================================
