--------------------------- MODULE RemainsProofs ----------------------------
(***************************************************************************)
(* TLAPS proofs that deletions leave no remains of an account, and failed  *)
(* registrations none of theirs, however many sessions delete and register *)
(* it, as long as no SET_TRUSTLINE for the account is under way while one  *)
(* of them does.                                                           *)
(***************************************************************************)
EXTENDS AccountStoreProofs

\* No connection sets a trustline of an account that a session is changing.
Apart ==
  \A t \in Inbound, u \in Users : pc[t] # "idle" /\ req[t].user = u => ~Busy(u)

\* What there is below datadir/accounts.
Entries == (dirs \ {AccountsDir}) \cup {f \in Files : Linked(f)}

\* A directory is in a directory that exists.
Closed == \A d \in dirs : d # AccountsDir => Front(d) \in dirs

\* The directories make_dirs has yet to visit are those of its command.
ChainOf(t) ==
  pc[t] \in DirPcs =>
    /\ t \in Sessions => todo[t] \in {HomeChain(req[t].user), <<Home(req[t].user)>>}
    /\ t \in Inbound =>
         \A i \in 1..Len(todo[t]) : todo[t][i] = AccountsDir \/ todo[t][i][1] = req[t].user

\* A SET_TRUSTLINE finds the account it was given.
Welcome(t) == pc[t] # "idle" => Home(req[t].user) \in dirs

\* An account without a password has a session that will make the password
\* or remove the account.
Attended(u) ==
  Home(u) \in dirs /\ ~Linked(PasswordFile(u)) =>
    \E s \in Sessions : req[s].user = u /\ pc[s] \in {"open_password", "rm"}

\* rm has found an entry, will read the directory it is in, or has not found
\* that directory either.  A password file may be made behind its back.
Found(s, e) ==
  \/ e \in found[s]
  \/ Front(e) \in unread[s]
  \/ Front(e) # Home(req[s].user) /\ Front(e) \notin found[s]

Known(s) ==
  pc[s] = "rm" =>
    /\ \A e \in found[s] : e # AccountsDir /\ e # Home(req[s].user)
    /\ \A e \in Entries :
         e[1] = req[s].user /\ e # Home(req[s].user) /\ e # PasswordFile(req[s].user) => Found(s, e)

Unfailed(s) == pc[s] \notin {"unlink_password", "rmdir_unwritten"}

Chains == \A t \in Threads : ChainOf(t)

Orderly ==
  /\ \A t \in Inbound : Welcome(t)
  /\ \A u \in Users : Attended(u)
  /\ \A s \in Sessions : Known(s) /\ Unfailed(s)

RemainsInv == Closed /\ Chains /\ (faults = 0 => Orderly)

-----------------------------------------------------------------------------
(* make_dirs.                                                              *)

LEMMA TailOfChain ==
  ASSUME NEW S, NEW q \in Seq(S), q # <<>>
  PROVE  /\ Len(q) \in Nat /\ 1 \in 1..Len(q) /\ Head(q) = q[1] /\ Tail(q) \in Seq(S)
         /\ \A i \in 1..Len(Tail(q)) : Tail(q)[i] = q[i + 1] /\ i + 1 \in 1..Len(q)
<1>1. /\ Len(q) \in Nat /\ Len(q) > 0 /\ Head(q) = q[1] /\ Tail(q) \in Seq(S)
      /\ Len(Tail(q)) = Len(q) - 1
      /\ \A i \in 1..Len(Tail(q)) : Tail(q)[i] = q[i + 1]
  OBVIOUS
<1>2. \A i \in 1..Len(Tail(q)) : i + 1 \in 1..Len(q)
  BY <1>1
<1> QED BY <1>1, <1>2

LEMMA HomeChains ==
  ASSUME NEW u
  PROVE  /\ Head(HomeChain(u)) = AccountsDir /\ Tail(HomeChain(u)) = <<Home(u)>>
         /\ Head(<<Home(u)>>) = Home(u) /\ Tail(<<Home(u)>>) = <<>>
         /\ ~(Len(<<Home(u)>>) > 1)
BY DEF HomeChain

LEMMA PeerChainBelow ==
  ASSUME NEW u, NEW p, NEW i \in 1..Len(PeerChain(u, p))
  PROVE  PeerChain(u, p)[i] = AccountsDir \/ PeerChain(u, p)[i][1] = u
<1>1. Len(PeerChain(u, p)) = 5
  BY DEF PeerChain
<1>2. i \in {1, 2, 3, 4, 5}
  BY <1>1
<1>3. /\ PeerChain(u, p)[1] = AccountsDir /\ PeerChain(u, p)[2] = Home(u)
      /\ PeerChain(u, p)[3] = PeersDir(u) /\ PeerChain(u, p)[4] = DomainDir(u, p)
      /\ PeerChain(u, p)[5] = PeerDir(u, p)
  BY DEF PeerChain
<1>4. Home(u)[1] = u /\ PeersDir(u)[1] = u /\ DomainDir(u, p)[1] = u /\ PeerDir(u, p)[1] = u
  BY DEF Home, PeersDir, DomainDir, PeerDir
<1> QED BY <1>2, <1>3, <1>4

\* The directory a thread is at.
LEMMA HeadOfChain ==
  ASSUME TypeOK, Roles, NEW t \in Threads, ChainOf(t), pc[t] \in DirPcs
  PROVE  /\ todo[t] \in Seq(Dirs) /\ todo[t] # <<>> /\ Head(todo[t]) \in Dirs
         /\ t \in Sessions => Head(todo[t]) \in {AccountsDir, Home(req[t].user)}
         /\ t \in Inbound => Head(todo[t]) = AccountsDir \/ Head(todo[t])[1] = req[t].user
<1>1. todo[t] \in Seq(Dirs) /\ todo[t] # <<>>
  BY DEF TypeOK, Roles, RoleOf
<1>2. 1 \in 1..Len(todo[t]) /\ Head(todo[t]) = todo[t][1] /\ Head(todo[t]) \in Dirs
  BY <1>1
<1> QED BY <1>1, <1>2, HomeChains DEF ChainOf

LEMMA ChainReady ==
  ASSUME TypeOK, Roles, NEW t \in Threads, ChainOf(t), pc[t] \in DirPcs, DirReady(t), req' = req
  PROVE  ChainOf(t)'
<1>1. todo[t] \in Seq(Dirs) /\ todo[t] # <<>>
  BY HeadOfChain
<1>2. /\ todo'[t] = Tail(todo[t]) /\ req'[t] = req[t]
      /\ pc'[t] = IF Len(todo[t]) > 1 THEN "stat_dir" ELSE AfterDirs(t)
  BY DEF DirReady, Goto, TypeOK
<1>3. pc'[t] \in DirPcs => Len(todo[t]) > 1
  BY <1>2 DEF AfterDirs, DirPcs
<1>4. CASE t \in Sessions /\ t \notin Inbound
  <2>1. ASSUME pc'[t] \in DirPcs
        PROVE  todo'[t] = <<Home(req[t].user)>>
    <3>1. todo[t] \in {HomeChain(req[t].user), <<Home(req[t].user)>>} /\ Len(todo[t]) > 1
      BY <1>3, <1>4, <2>1 DEF ChainOf
    <3>2. todo[t] # <<Home(req[t].user)>>
      BY <3>1, HomeChains
    <3> QED BY <1>2, <3>1, <3>2, HomeChains
  <2> QED BY <1>2, <1>4, <2>1 DEF ChainOf
<1>5. CASE t \in Inbound /\ t \notin Sessions
  <2>1. ASSUME NEW i \in 1..Len(todo'[t])
        PROVE  todo'[t][i] = AccountsDir \/ todo'[t][i][1] = req'[t].user
    <3>1. todo'[t][i] = todo[t][i + 1] /\ i + 1 \in 1..Len(todo[t])
      BY <1>1, <1>2, TailOfChain
    <3>2. todo[t][i + 1] = AccountsDir \/ todo[t][i + 1][1] = req[t].user
      BY <1>5, <3>1 DEF ChainOf
    <3> QED BY <1>2, <3>1, <3>2
  <2> QED BY <1>5, <2>1 DEF ChainOf
<1> QED BY <1>4, <1>5, StorageAssumption DEF Threads

LEMMA ChainsStep ==
  ASSUME Inv, Chains, [Next]_vars
  PROVE  Chains'
<1>0. Sessions \subseteq Threads /\ Inbound \subseteq Threads /\ Sessions \cap Inbound = {}
      /\ TypeOK /\ Roles
  BY StorageAssumption DEF Threads, Inv
<1>1. ASSUME NEW t \in Threads, pc'[t] \notin DirPcs
      PROVE  ChainOf(t)'
  BY <1>1 DEF ChainOf
<1>2. ASSUME NEW t \in Threads,
             \/ t \in Sessions /\ SessionActs(t)
             \/ t \in Inbound /\ InboundActs(t)
      PROVE  ChainOf(t)'
  <2>1. Return(t) => pc'[t] \notin DirPcs
    BY <1>0 DEF Return, TypeOK, DirPcs
  <2>2. ASSUME NEW l, Goto(t, l), l \notin DirPcs
        PROVE  pc'[t] \notin DirPcs
    BY <1>0, <2>2 DEF Goto, TypeOK
  <2>3. ASSUME pc[t] \notin DirPcs, pc' = pc
        PROVE  pc'[t] \notin DirPcs
    BY <2>3
  <2>4. CASE StatDir(t) \/ MakeDir(t)
    <3>1. pc[t] \in DirPcs
      BY <2>4 DEF StatDir, MakeDir, DirPcs
    <3>2. CASE Goto(t, "mkdir") /\ UNCHANGED <<todo, req>>
      BY <1>0, <1>2, <3>1, <3>2 DEF Chains, ChainOf
    <3>3. CASE DirReady(t) /\ req' = req
      BY <1>0, <3>1, <3>3, ChainReady DEF Chains
    <3> QED BY <1>1, <2>1, <2>4, <3>2, <3>3 DEF StatDir, MakeDir
  <2>5. ASSUME t \in Sessions, NEW u \in Users, NEW p \in Passwords, Register(t, u, p)
        PROVE  ChainOf(t)'
    <3>1. todo'[t] = HomeChain(u) /\ req'[t].user = u
      BY <1>0, <2>5 DEF Register, Begin, TypeOK, NoRequest
    <3> QED BY <1>0, <2>5, <3>1 DEF ChainOf
  <2>6. ASSUME t \in Inbound, NEW n \in Users \cup {"none"}, NEW p \in Peers, NEW z \in Sizes,
               SetTrustline(t, n, p, z)
        PROVE  ChainOf(t)'
    <3>1. todo'[t] = PeerChain(LocalUser(n), p) /\ req'[t].user = LocalUser(n)
      BY <1>0, <2>6 DEF SetTrustline, Begin, TypeOK
    <3> QED BY <1>0, <2>6, <3>1, PeerChainBelow DEF ChainOf
  <2>7. CASE \/ \E u \in Users, p \in Passwords : Login(t, u, p)
             \/ Logout(t) \/ DeleteAccount(t) \/ Disconnect(t)
    BY <1>0, <1>1, <2>7 DEF Login, Logout, DeleteAccount, Disconnect, Begin, TypeOK, DirPcs
  <2>8. CASE CreatePassword(t) \/ WritePassword(t) \/ UnlinkPassword(t) \/ RemoveHome(t)
    BY <1>1, <2>1, <2>2, <2>8
    DEF CreatePassword, WritePassword, UnlinkPassword, RemoveHome, DirPcs
  <2>9. CASE OpenLogin(t) \/ ReadLogin(t) \/ RmRead(t) \/ RmEntry(t) \/ RmDone(t)
    BY <1>1, <2>1, <2>2, <2>3, <2>9 DEF OpenLogin, ReadLogin, RmRead, RmEntry, RmDone, DirPcs
  <2>10. CASE RemoveTrustline(t) \/ OpenTrustline(t) \/ WriteTrustline(t)
    BY <1>1, <2>1, <2>2, <2>10 DEF RemoveTrustline, OpenTrustline, WriteTrustline, DirPcs
  <2> QED BY <1>2, <2>4, <2>5, <2>6, <2>7, <2>8, <2>9, <2>10
          DEF SessionActs, SessionCommand, SessionStep, InboundActs, InboundCommand, InboundStep
<1>3. ASSUME NEW t \in Threads,
             \/ t \in Sessions /\ SessionActs(t)
             \/ t \in Inbound /\ InboundActs(t)
      PROVE  Chains'
  <2>1. Alone(t)
    BY <1>0, <1>3, OneThreadActs
  <2>2. ASSUME NEW r \in Threads, r # t
        PROVE  ChainOf(r)'
    BY <2>1, <2>2 DEF Alone, Chains, ChainOf
  <2> QED BY <1>2, <1>3, <2>2 DEF Chains
<1>4. CASE Crash
  <2>1. \A t \in Threads : pc'[t] \notin DirPcs
    BY <1>4 DEF Crash, DirPcs
  <2> QED BY <1>1, <2>1 DEF Chains
<1>5. CASE UNCHANGED vars
  BY <1>5 DEF vars, local, Chains, ChainOf
<1> QED BY <1>0, <1>3, <1>4, <1>5 DEF Next, SessionActs, InboundActs

-----------------------------------------------------------------------------
(* The directories.                                                        *)

\* make_dirs has made the directory it was at.
Makes(t, d) ==
  /\ pc[t] = "mkdir" /\ d = Head(todo[t]) /\ CanMkdir(d)
  /\ dirs' = dirs \cup {d} /\ DirReady(t) /\ UNCHANGED <<link, req>>

\* A session that is changing its account has removed a directory of it.
Removes(t, d) ==
  /\ t \in Sessions /\ Changing(t, req[t].user)
  /\ d[1] = req[t].user /\ dirs' = dirs \ {d}
  /\ d \in dirs => Children(d) = {}

LEMMA DirsStep ==
  ASSUME TypeOK, RmBelow, NEW t \in Threads,
         \/ t \in Sessions /\ SessionActs(t)
         \/ t \in Inbound /\ InboundActs(t)
  PROVE  \/ UNCHANGED dirs
         \/ Makes(t, Head(todo[t]))
         \/ \E d : Removes(t, d)
<1>0. Sessions \subseteq Threads /\ Inbound \subseteq Threads /\ Sessions \cap Inbound = {}
  BY StorageAssumption DEF Threads
<1>1. CASE MakeDir(t)
  BY <1>1 DEF MakeDir, Makes
<1>2. ASSUME t \in Sessions, RemoveHome(t)
      PROVE  UNCHANGED dirs \/ \E d : Removes(t, d)
  <2>1. Changing(t, req[t].user)
    BY <1>2 DEF RemoveHome, Changing, RegisterPcs
  <2>2. dirs' = IF CanRmdir(Home(req[t].user)) THEN dirs \ {Home(req[t].user)} ELSE dirs
    BY <1>2 DEF RemoveHome
  <2>3. Home(req[t].user)[1] = req[t].user
    BY DEF Home
  <2>4. CASE CanRmdir(Home(req[t].user))
    BY <1>2, <2>1, <2>2, <2>3, <2>4 DEF Removes, CanRmdir
  <2> QED BY <2>2, <2>4
<1>3. ASSUME t \in Sessions, RmEntry(t)
      PROVE  \E d : Removes(t, d)
  <2>1. Changing(t, req[t].user)
    BY <1>3 DEF RmEntry, Changing
  <2>2. PICK e \in found[t] : Children(e) = {} /\ dirs' = dirs \ {e}
    BY <1>3 DEF RmEntry
  <2>3. e[1] = req[t].user
    BY <1>3, <2>2 DEF RmBelow
  <2> QED BY <1>3, <2>1, <2>2, <2>3 DEF Removes
<1>4. ASSUME t \in Sessions, RmDone(t)
      PROVE  UNCHANGED dirs \/ \E d : Removes(t, d)
  <2>1. Changing(t, req[t].user)
    BY <1>4 DEF RmDone, Changing
  <2>2. Home(req[t].user)[1] = req[t].user
    BY DEF Home
  <2>3. CASE /\ Home(req[t].user) \in dirs => CanRmdir(Home(req[t].user))
             /\ dirs' = dirs \ {Home(req[t].user)}
    BY <1>4, <2>1, <2>2, <2>3 DEF Removes, CanRmdir
  <2> QED BY <1>4, <2>3 DEF RmDone
<1> USE DEF storage
<1>5. ASSUME t \in Sessions, SessionActs(t), ~MakeDir(t), ~RemoveHome(t), ~RmEntry(t), ~RmDone(t)
      PROVE  UNCHANGED dirs
  BY <1>5 DEF SessionActs, SessionCommand, SessionStep, Register, Login, Logout, DeleteAccount,
              Disconnect, StatDir, CreatePassword, WritePassword, UnlinkPassword, OpenLogin,
              ReadLogin, RmRead
<1>6. ASSUME t \in Inbound, InboundActs(t), ~MakeDir(t)
      PROVE  UNCHANGED dirs
  BY <1>6 DEF InboundActs, InboundCommand, InboundStep, SetTrustline, StatDir, RemoveTrustline,
              OpenTrustline, WriteTrustline
<1> QED BY <1>1, <1>2, <1>3, <1>4, <1>5, <1>6

LEMMA ClosedStep ==
  ASSUME Inv, Chains, Closed, [Next]_vars
  PROVE  Closed'
<1>0. Sessions \subseteq Threads /\ Inbound \subseteq Threads
      /\ TypeOK /\ Roles /\ RmBelow
  BY DEF Threads, Inv
<1>1. CASE UNCHANGED dirs
  BY <1>1 DEF Closed
<1>2. ASSUME NEW t \in Threads, NEW d, Makes(t, d)
      PROVE  Closed'
  BY <1>2 DEF Makes, CanMkdir, Closed
<1>3. ASSUME NEW t \in Threads, NEW d, Removes(t, d)
      PROVE  Closed'
  <2>1. ASSUME NEW e \in dirs', e # AccountsDir
        PROVE  Front(e) \in dirs'
    <3>1. e \in dirs /\ Front(e) \in dirs /\ dirs' = dirs \ {d}
      BY <1>3, <2>1 DEF Removes, Closed
    <3>2. Front(e) # d
      BY <1>3, <2>1, <3>1 DEF Removes, Children
    <3> QED BY <3>1, <3>2
  <2> QED BY <2>1 DEF Closed
<1>4. Crash \/ UNCHANGED vars => UNCHANGED dirs
  BY DEF Crash, vars, storage
<1> QED BY <1>0, <1>1, <1>2, <1>3, <1>4, DirsStep DEF Next, SessionActs, InboundActs

\* What a step of a thread adds below datadir/accounts.
LEMMA Added ==
  ASSUME Inv, Chains, NEW t \in Threads,
         \/ t \in Sessions /\ SessionActs(t)
         \/ t \in Inbound /\ InboundActs(t),
         NEW e \in Entries', e \notin Entries
  PROVE  /\ t \in Sessions => e \in {Home(req[t].user), PasswordFile(req[t].user)}
         /\ t \in Inbound => pc[t] # "idle" /\ e[1] = req[t].user
<1>0. Sessions \subseteq Threads /\ Inbound \subseteq Threads /\ Sessions \cap Inbound = {}
      /\ TypeOK /\ Roles /\ RmBelow
  BY StorageAssumption DEF Threads, Inv
<1>1. CASE e \in dirs' \ dirs /\ e # AccountsDir
  <2>1. Makes(t, e)
    BY <1>0, <1>1, DirsStep DEF Makes, Removes
  <2>2. pc[t] \in DirPcs /\ pc[t] # "idle" /\ e = Head(todo[t])
    BY <2>1 DEF Makes, DirPcs
  <2> QED BY <1>0, <1>1, <2>2, HeadOfChain DEF Chains
<1>2. CASE e \in Files /\ ~Linked(e) /\ Linked(e)'
  <2>1. ASSUME NEW f, NEW b, OpenForWrite(t, f, b)
        PROVE  e = f
    BY <1>0, <1>2, <2>1 DEF OpenForWrite, Linked, TypeOK, StorageTypeOK
  <2>2. ASSUME NEW f, Unlink(f)
        PROVE  FALSE
    BY <1>0, <1>2, <2>2 DEF Unlink, Linked, TypeOK, StorageTypeOK
  <2>3. ~RmEntry(t)
    BY <1>0, <1>2 DEF RmEntry, Linked, TypeOK, StorageTypeOK
  <2>4. ~(UNCHANGED link)
    BY <1>2 DEF Linked
  <2> USE DEF storage
  <2>5. CASE t \in Sessions
    <3>1. CreatePassword(t)
      BY <1>0, <2>2, <2>3, <2>4, <2>5
      DEF SessionActs, SessionCommand, SessionStep, Register, Login, Logout, DeleteAccount,
          Disconnect, StatDir, MakeDir, WritePassword, UnlinkPassword, RemoveHome, OpenLogin,
          ReadLogin, RmRead, RmDone
    <3>2. e = PasswordFile(req[t].user)
      BY <2>1, <2>4, <3>1 DEF CreatePassword
    <3> QED BY <1>0, <2>5, <3>2
  <2>6. CASE t \in Inbound
    <3>1. OpenTrustline(t)
      BY <1>0, <2>2, <2>4, <2>6
      DEF InboundActs, InboundCommand, InboundStep, SetTrustline, StatDir, MakeDir,
          RemoveTrustline, WriteTrustline
    <3>2. e = RequestFile(t) /\ pc[t] # "idle"
      BY <2>1, <2>4, <3>1 DEF OpenTrustline
    <3>3. e[1] = req[t].user
      BY <3>2 DEF RequestFile, TrustlineFile
    <3> QED BY <1>0, <2>6, <3>2, <3>3
  <2> QED BY <2>5, <2>6 DEF Threads
<1> QED BY <1>1, <1>2 DEF Entries, Linked

-----------------------------------------------------------------------------
(* rm.                                                                     *)

\* The layout is five levels deep.
LEMMA Levels ==
  ASSUME NEW e \in Dirs \cup Files, e # AccountsDir
  PROVE  Len(e) \in 1..5 /\ Len(e) = Len(Front(e)) + 1
<1> DEFINE Level(d, n) == Len(d) = n /\ Len(Front(d)) = n - 1
<1>1. ASSUME NEW u
      PROVE  Level(Home(u), 1) /\ Level(PeersDir(u), 2) /\ Level(PasswordFile(u), 2)
  <2>1. Len(AccountsDir) = 0 /\ Len(Home(u)) = 1 /\ Len(PeersDir(u)) = 2 /\ Len(PasswordFile(u)) = 2
    BY DEF AccountsDir, Home, PeersDir, PasswordFile
  <2> QED BY <2>1, FrontOfLayout
<1>2. ASSUME NEW u, NEW p
      PROVE  Level(DomainDir(u, p), 3) /\ Level(PeerDir(u, p), 4) /\ Level(TrustlineFile(u, p), 5)
  <2>1. /\ Len(PeersDir(u)) = 2 /\ Len(DomainDir(u, p)) = 3 /\ Len(PeerDir(u, p)) = 4
        /\ Len(TrustlineFile(u, p)) = 5
    BY DEF PeersDir, DomainDir, PeerDir, TrustlineFile
  <2> QED BY <2>1, FrontOfLayout
<1> HIDE DEF Level
<1>3. \E n \in 1..5 : Level(e, n)
  BY <1>1, <1>2 DEF Dirs, Files, PasswordFiles, TrustlineFiles
<1>4. PICK n \in 1..5 : Len(e) = n /\ Len(Front(e)) = n - 1
  BY <1>3 DEF Level
<1> QED BY <1>4

LEMMA ChildrenAreEntries ==
  ASSUME TypeOK, NEW d, NEW e \in Children(d)
  PROVE  e \in Entries /\ e \in Dirs \cup Files /\ e # AccountsDir /\ Front(e) = d
BY FilesAreNotRoot DEF Children, Entries, TypeOK, StorageTypeOK

LEMMA PasswordIsNoDirectory ==
  ASSUME NEW u
  PROVE  PasswordFile(u) \notin Dirs
<1>1. /\ Len(PasswordFile(u)) = 2 /\ PasswordFile(u)[2] = "password" /\ Len(AccountsDir) = 0
      /\ \A v : Len(Home(v)) = 1 /\ PeersDir(v)[2] = "peers"
      /\ \A v, p : Len(DomainDir(v, p)) = 3 /\ Len(PeerDir(v, p)) = 4
  BY DEF PasswordFile, AccountsDir, Home, PeersDir, DomainDir, PeerDir
<1>2. PasswordFile(u) # AccountsDir /\ \A v : PasswordFile(u) # Home(v)
  BY <1>1
<1>3. \A v : PasswordFile(u) # PeersDir(v)
  <2>1. "password" # "peers"
    OBVIOUS
  <2> QED BY <1>1, <2>1
<1>4. \A v, p : PasswordFile(u) # DomainDir(v, p) /\ PasswordFile(u) # PeerDir(v, p)
  <2>1. 2 # 3 /\ 2 # 4
    OBVIOUS
  <2> QED BY <1>1, <2>1
<1> QED BY <1>2, <1>3, <1>4 DEF Dirs

\* rm is stuck on an entry only if it has found an entry in it, too.
LEMMA FoundChild ==
  ASSUME TypeOK, RmBelow, NEW s \in Sessions, pc[s] = "rm", Known(s), unread[s] = {},
         \A x \in found[s] : Due(s, x) => Children(x) # {},
         NEW e \in found[s]
  PROVE  \E c \in found[s] : Len(c) = Len(e) + 1
<1> DEFINE u == req[s].user
<1>0. e # AccountsDir /\ e # Home(u)
  BY DEF Known
<1>1. ASSUME NEW c \in found[s], Front(c) = e
      PROVE  Len(c) = Len(e) + 1
  <2>1. c # AccountsDir /\ c \in Dirs \cup Files
    BY DEF Known, TypeOK
  <2> QED BY <1>1, <2>1, Levels
<1>2. SUFFICES ASSUME \A c \in found[s] : Front(c) # e
               PROVE  FALSE
  BY <1>1
<1>3. PICK c \in Children(e) : TRUE
  BY <1>2 DEF Due
<1>4. c \in Entries /\ c \in Dirs \cup Files /\ c # AccountsDir /\ Front(c) = e
  BY <1>3, ChildrenAreEntries
<1>5. c[1] = u
  BY <1>0, <1>4, ChildOfAccount DEF RmBelow
<1>6. c # Home(u) /\ c # PasswordFile(u)
  BY <1>0, <1>4, FrontOfLayout
<1>7. Found(s, c)
  BY <1>4, <1>5, <1>6 DEF Known
<1> QED BY <1>2, <1>4, <1>7 DEF Found

\* So when rm has tried all it found, nothing of that is left, and what is
\* still in the account's directory is a password made since.
LEMMA RmLeavesPassword ==
  ASSUME TypeOK, RmBelow, NEW s \in Sessions, pc[s] = "rm", Known(s), unread[s] = {},
         \A x \in found[s] : Due(s, x) => Children(x) # {}
  PROVE  /\ found[s] = {}
         /\ \A c \in Children(Home(req[s].user)) : c = PasswordFile(req[s].user)
<1> DEFINE u == req[s].user
<1>1. \A e \in found[s] : \E d \in found[s] : Len(d) = Len(e) + 1
  BY FoundChild
<1>2. \A e \in found[s] : Len(e) \in 1..5
  BY Levels DEF TypeOK, Known
<1>3. found[s] = {}
  <2> SUFFICES ASSUME NEW e1 \in found[s] PROVE FALSE
    OBVIOUS
  <2>1. PICK e2 \in found[s] : Len(e2) = Len(e1) + 1
    BY <1>1
  <2>2. PICK e3 \in found[s] : Len(e3) = Len(e2) + 1
    BY <1>1
  <2>3. PICK e4 \in found[s] : Len(e4) = Len(e3) + 1
    BY <1>1
  <2>4. PICK e5 \in found[s] : Len(e5) = Len(e4) + 1
    BY <1>1
  <2>5. PICK e6 \in found[s] : Len(e6) = Len(e5) + 1
    BY <1>1
  <2>6. PICK n \in 1..5 : n = Len(e1)
    BY <1>2
  <2>7. PICK m \in 1..5 : m = Len(e6)
    BY <1>2
  <2>8. m = n + 5
    BY <2>1, <2>2, <2>3, <2>4, <2>5, <2>6, <2>7
  <2> QED BY <2>8
<1>4. ASSUME NEW c \in Children(Home(u))
      PROVE  c = PasswordFile(u)
  <2>1. c \in Entries /\ c \in Dirs \cup Files /\ c # AccountsDir /\ Front(c) = Home(u)
    BY ChildrenAreEntries
  <2>2. Home(u)[1] = u /\ Home(u) # AccountsDir
    BY DEF Home, AccountsDir
  <2>3. c # Home(u) /\ c[1] = u
    BY <2>1, <2>2, FrontOfLayout, ChildOfAccount
  <2> QED BY <1>3, <2>1, <2>3 DEF Known, Found
<1> QED BY <1>3, <1>4

-----------------------------------------------------------------------------
(* The steps, without faults.                                              *)

\* Nobody removes the account under a SET_TRUSTLINE.
LEMMA WelcomeStep ==
  ASSUME Inv, Apart, NEW r \in Inbound, Welcome(r), NEW t \in Threads,
         \/ t \in Sessions /\ SessionActs(t)
         \/ t \in Inbound /\ InboundActs(t)
  PROVE  Welcome(r)'
<1>0. Sessions \subseteq Threads /\ Inbound \subseteq Threads /\ Sessions \cap Inbound = {}
      /\ TypeOK /\ Roles /\ RmBelow
  BY StorageAssumption DEF Threads, Inv
<1>1. ASSUME pc[r] # "idle"
      PROVE  Home(req[r].user) \in dirs'
  <2>1. Home(req[r].user) \in dirs /\ req[r].user \in Users
    BY <1>0, <1>1 DEF Welcome, Roles, RoleOf
  <2>2. ~Busy(req[r].user)
    BY <1>1, <2>1 DEF Apart
  <2>3. ASSUME NEW d, Removes(t, d)
        PROVE  d # Home(req[r].user)
    <3>1. Home(req[r].user)[1] = req[r].user
      BY DEF Home
    <3> QED BY <2>2, <2>3, <3>1 DEF Removes, Busy
  <2> QED BY <1>0, <2>1, <2>3, DirsStep DEF Makes, Removes
<1>2. CASE pc[r] # "idle" /\ req'[r] = req[r]
  BY <1>1, <1>2 DEF Welcome
<1>3. CASE pc'[r] = "idle"
  BY <1>3 DEF Welcome
<1>4. CASE r # t
  <2>1. pc'[r] = pc[r] /\ req'[r] = req[r]
    BY <1>0, <1>4, OneThreadActs DEF Alone
  <2> QED BY <1>2, <1>3, <2>1
<1>5. CASE r = t
  <2>1. Return(t) => pc'[t] = "idle"
    BY <1>0 DEF Return, TypeOK
  <2>2. ASSUME NEW n \in Users \cup {"none"}, NEW p \in Peers, NEW z \in Sizes,
               SetTrustline(t, n, p, z)
        PROVE  Welcome(t)'
    <3>1. req'[t].user = LocalUser(n)
      BY <1>0, <2>2 DEF SetTrustline, Begin, TypeOK
    <3> QED BY <2>2, <3>1 DEF SetTrustline, storage, Welcome
  <2>3. InboundStep(t) => pc[t] # "idle" /\ (req' = req \/ Return(t))
    BY DEF InboundStep, StatDir, MakeDir, RemoveTrustline, OpenTrustline, WriteTrustline
  <2> QED BY <1>0, <1>2, <1>3, <1>5, <2>1, <2>2, <2>3 DEF InboundActs, InboundCommand
<1> QED BY <1>4, <1>5

\* What rm has yet to find, or to remove.
LEMMA KnownStep ==
  ASSUME Inv, Closed, Chains, Apart, NEW s \in Sessions, Known(s), NEW t \in Threads,
         \/ t \in Sessions /\ SessionActs(t)
         \/ t \in Inbound /\ InboundActs(t)
  PROVE  Known(s)'
<1>0. Sessions \subseteq Threads /\ Inbound \subseteq Threads /\ Sessions \cap Inbound = {}
      /\ TypeOK /\ Roles /\ RmBelow /\ Tree
  BY StorageAssumption DEF Threads, Inv
<1>1. SUFFICES ASSUME pc'[s] = "rm"
               PROVE  Known(s)'
  BY DEF Known
<1>2. CASE t # s
  <2>1. pc'[s] = pc[s] /\ req'[s] = req[s] /\ pc[s] = "rm" /\ req[s].user \in Users
    BY <1>0, <1>1, <1>2, OneThreadActs DEF Alone, Roles, RoleOf
  <2>2. found'[s] = found[s] /\ unread'[s] = unread[s]
    BY <1>0, <1>2
    DEF SessionActs, SessionCommand, SessionStep, Register, Login, Logout, DeleteAccount, Disconnect,
        StatDir, MakeDir, CreatePassword, WritePassword, UnlinkPassword, RemoveHome, OpenLogin,
        ReadLogin, RmRead, RmEntry, RmDone, InboundActs, InboundCommand, InboundStep, SetTrustline,
        RemoveTrustline, OpenTrustline, WriteTrustline, rm, TypeOK
  <2>3. ASSUME NEW e \in Entries', e[1] = req[s].user, e # Home(req[s].user),
               e # PasswordFile(req[s].user)
        PROVE  e \in Entries
    <3>1. Home(req[t].user)[1] = req[t].user /\ PasswordFile(req[t].user)[1] = req[t].user
      BY DEF Home, PasswordFile
    <3>2. Busy(req[s].user)
      BY <2>1 DEF Busy, Changing
    <3>3. ~(t \in Inbound /\ pc[t] # "idle" /\ e[1] = req[t].user)
      BY <2>1, <2>3, <3>2 DEF Apart
    <3> QED BY <2>3, <3>1, <3>3, Added DEF Threads
  <2> QED BY <2>1, <2>2, <2>3 DEF Known, Found
<1>3. CASE t = s /\ pc[s] # "rm"
  <2>1. DeleteAccount(s)
    BY <1>0, <1>1, <1>3
    DEF SessionActs, SessionCommand, SessionStep, Register, Login, Logout, Disconnect, StatDir, MakeDir,
        DirReady, AfterDirs, CreatePassword, WritePassword, UnlinkPassword, RemoveHome, OpenLogin,
        ReadLogin, RmRead, RmEntry, RmDone, Begin, Goto, Return, TypeOK
  <2>2. unread'[s] = {Home(req'[s].user)} /\ found'[s] = {}
    BY <1>0, <1>3, <2>1 DEF DeleteAccount, Begin, NoRequest, TypeOK, RmBelow
  <2> QED BY <2>2 DEF Known, Found
<1>4. CASE t = s /\ RmRead(s)
  <2>1. PICK d \in unread[s] :
          /\ found'[s] = found[s] \cup Children(d)
          /\ unread'[s] = (unread[s] \ {d}) \cup (Children(d) \cap dirs)
    BY <1>0, <1>4 DEF RmRead, TypeOK
  <2>2. UNCHANGED <<dirs, link, req>> /\ pc[s] = "rm"
    BY <1>4 DEF RmRead, storage
  <2>3. ASSUME NEW e \in Entries, Found(s, e)
        PROVE  Found(s, e)'
    <3>1. CASE Front(e) = d
      <4>1. e \in Children(d)
        BY <3>1 DEF Children, Entries
      <4> QED BY <2>1, <4>1 DEF Found
    <3>2. CASE Front(e) # d /\ (e \in found[s] \/ Front(e) \in unread[s])
      BY <2>1, <2>3, <3>2 DEF Found
    <3>3. CASE Front(e) # Home(req[s].user) /\ Front(e) \notin found[s]
      <4>1. Front(e) \in dirs
        BY <1>0 DEF Entries, Closed, Tree
      <4> QED BY <2>1, <2>2, <3>3, <4>1 DEF Found
    <3> QED BY <2>3, <3>1, <3>2, <3>3 DEF Found
  <2>4. Entries' = Entries
    BY <2>2 DEF Entries, Linked
  <2>5. ASSUME NEW e \in Children(d)
        PROVE  e # AccountsDir /\ e # Home(req[s].user)
    <3>1. d # AccountsDir
      BY <1>0 DEF RmBelow
    <3> QED BY <1>0, <3>1, ChildrenAreEntries, FrontOfLayout
  <2> QED BY <2>1, <2>2, <2>3, <2>4, <2>5 DEF Known
<1>5. CASE t = s /\ RmEntry(s)
  <2>1. PICK x \in found[s] :
          /\ dirs' = dirs \ {x} /\ link' = [f \in Files |-> IF f = x THEN NoInode ELSE link[f]]
          /\ found'[s] = found[s] \ {x} /\ UNCHANGED <<pc, req, unread>>
    BY <1>0, <1>5 DEF RmEntry, TypeOK
  <2>2. \A e \in Entries' : e \in Entries /\ e # x
    BY <2>1 DEF Entries, Linked
  <2>3. \A e : Found(s, e) /\ e # x => Found(s, e)'
    BY <2>1 DEF Found
  <2> QED BY <1>1, <2>1, <2>2, <2>3 DEF Known
<1>6. ASSUME t = s, pc[s] = "rm", ~RmRead(s), ~RmEntry(s)
      PROVE  FALSE
  <2>1. RmDone(s)
    BY <1>0, <1>6
    DEF SessionActs, SessionCommand, SessionStep, Register, Login, Logout, DeleteAccount, Disconnect,
        StatDir, MakeDir, CreatePassword, WritePassword, UnlinkPassword, RemoveHome, OpenLogin, ReadLogin
  <2> QED BY <1>0, <1>1, <2>1 DEF RmDone, Return, TypeOK
<1> QED BY <1>2, <1>3, <1>4, <1>5, <1>6

\* Without faults a registration makes the password or finds that the account
\* was removed, and a deletion removes the account or finds a password in it.
LEMMA AttendedStep ==
  ASSUME Inv, Closed, Chains, Apart, Orderly, NoFault, NEW u \in Users, NEW t \in Threads,
         \/ t \in Sessions /\ SessionActs(t)
         \/ t \in Inbound /\ InboundActs(t)
  PROVE  Attended(u)'
<1> DEFINE P == PasswordFile(u)
           Minds(s) == req[s].user = u /\ pc[s] \in {"open_password", "rm"}
<1>0. Sessions \subseteq Threads /\ Inbound \subseteq Threads /\ Sessions \cap Inbound = {}
      /\ TypeOK /\ Roles /\ RmBelow /\ Tree /\ Descriptors /\ Attended(u)
  BY StorageAssumption DEF Threads, Inv, Orderly
<1>n. ~Fault
  <2>1. faults \in 0..MaxFaults /\ MaxFaults \in Nat
    BY <1>0, AccountAssumption DEF TypeOK
  <2> QED BY <2>1 DEF Fault, NoFault
<1>1. SUFFICES ASSUME Home(u) \in dirs', ~Linked(P)'
               PROVE  \E s \in Sessions : Minds(s)'
  BY DEF Attended
<1>2. ASSUME NEW s \in Sessions \ {t}, Minds(s)
      PROVE  Minds(s)'
  BY <1>0, <1>2, OneThreadActs DEF Alone
\* The account is there already, without a password.
<1>3. CASE Home(u) \in dirs /\ ~Linked(P)
  <2>1. PICK s \in Sessions : Minds(s)
    BY <1>0, <1>3 DEF Attended
  <2>2. CASE s # t
    BY <1>2, <2>1, <2>2
  <2>3. CASE s = t /\ CreatePassword(s)
    <3>1. OpenForWrite(s, P, FALSE) /\ P \in Files
      BY <1>3, <1>n, <2>1, <2>3 DEF CreatePassword, Files, PasswordFiles
    <3>2. PICK i \in Inodes : link' = [link EXCEPT ![P] = i]
      BY <1>3, <3>1 DEF OpenForWrite, FreeInodes
    <3>3. link'[P] = i
      BY <1>0, <3>1, <3>2 DEF TypeOK, StorageTypeOK
    <3> QED BY <1>1, <3>3, StorageAssumption DEF Linked
  <2>4. CASE s = t /\ (RmRead(s) \/ RmEntry(s))
    BY <2>1, <2>4 DEF RmRead, RmEntry
  <2>5. CASE s = t /\ RmDone(s)
    <3>1. CASE dirs' = dirs \ {Home(u)}
      BY <1>1, <3>1
    <3>2. CASE /\ unread[s] = {} /\ \A e \in found[s] : Due(s, e) => Children(e) # {}
               /\ found[s] = {} => Children(Home(u)) # {}
      <4>1. P \in Children(Home(u))
        BY <1>0, <2>1, <2>5, <3>2, RmLeavesPassword DEF RmDone, Orderly
      <4> QED BY <1>0, <1>3, <4>1, PasswordIsNoDirectory DEF Children, TypeOK, StorageTypeOK
    <3> QED BY <1>n, <2>1, <2>5, <3>1, <3>2 DEF RmDone
  <2>6. SessionActs(s) => CreatePassword(s) \/ RmRead(s) \/ RmEntry(s) \/ RmDone(s)
    BY <2>1
    DEF SessionActs, SessionCommand, SessionStep, Register, Login, Logout, DeleteAccount, Disconnect,
        StatDir, MakeDir, WritePassword, UnlinkPassword, RemoveHome, OpenLogin, ReadLogin
  <2> QED BY <1>0, <2>1, <2>2, <2>3, <2>4, <2>5, <2>6
\* The password is removed.
<1>4. CASE Linked(P)
  <2>1. t \in Sessions /\ SessionActs(t) /\ Changing(t, u)
    BY <1>0, <1>1, <1>4, PasswordKept DEF Linked
  <2>2. P \in Files /\ ~(UNCHANGED link) /\ link'[P] = NoInode
    BY <1>1, <1>4 DEF Linked, Files, PasswordFiles
  <2>3. ~CreatePassword(t)
    <3>1. ASSUME NEW f, OpenForWrite(t, f, FALSE)
          PROVE  link'[P] # NoInode
      <4>1. CASE link' = link
        BY <1>4, <4>1 DEF Linked
      <4>2. CASE \E i \in FreeInodes : link' = [link EXCEPT ![f] = i]
        BY <1>0, <1>4, <2>2, <4>2, StorageAssumption DEF Linked, TypeOK, StorageTypeOK, FreeInodes
      <4> QED BY <3>1, <4>1, <4>2 DEF OpenForWrite
    <3> QED BY <2>2, <3>1 DEF CreatePassword
  <2>4. ~UnlinkPassword(t)
    BY <2>1 DEF UnlinkPassword, Orderly, Unfailed
  <2>5. RmEntry(t)
    BY <2>1, <2>2, <2>3, <2>4
    DEF SessionActs, SessionCommand, SessionStep, Register, Login, Logout, DeleteAccount, Disconnect,
        StatDir, MakeDir, WritePassword, RemoveHome, OpenLogin, ReadLogin, RmRead, RmDone, storage
  <2> QED BY <2>1, <2>5 DEF RmEntry, Changing
\* The account is made.
<1>5. CASE Home(u) \notin dirs
  <2>1. Makes(t, Home(u))
    BY <1>0, <1>1, <1>5, DirsStep DEF Makes, Removes
  <2>2. Home(u)[1] = u /\ Home(u) # AccountsDir /\ pc[t] \in DirPcs /\ pc[t] # "idle"
        /\ ChainOf(t) /\ Head(todo[t]) = Home(u)
    BY <2>1 DEF Home, AccountsDir, Makes, DirPcs, Chains
  <2>3. t \in Sessions
    <3>1. ASSUME t \in Inbound
          PROVE  FALSE
      <4>1. req[t].user = u
        BY <1>0, <2>2, <3>1, HeadOfChain
      <4> QED BY <1>5, <2>2, <3>1, <4>1 DEF Orderly, Welcome
    <3> QED BY <3>1 DEF Threads
  <2>4. req[t].user = u
    <3>1. Home(u) = Home(req[t].user)
      BY <1>0, <2>2, <2>3, HeadOfChain
    <3> QED BY <3>1 DEF Home
  <2>5. ~(Len(todo[t]) > 1)
    <3>1. todo[t] = <<Home(u)>>
      BY <2>2, <2>3, <2>4, HomeChains DEF ChainOf
    <3> QED BY <3>1, HomeChains
  <2>6. pc'[t] = "open_password" /\ req' = req
    BY <1>0, <2>1, <2>3, <2>5 DEF Makes, DirReady, Goto, AfterDirs, TypeOK
  <2> QED BY <2>3, <2>4, <2>6
<1> QED BY <1>3, <1>4, <1>5

\* Without faults a password that was made is written.
LEMMA UnfailedStep ==
  ASSUME Inv, NoFault, NEW s \in Sessions, Unfailed(s), NEW t \in Threads,
         \/ t \in Sessions /\ SessionActs(t)
         \/ t \in Inbound /\ InboundActs(t)
  PROVE  Unfailed(s)'
<1>0. s \in Threads /\ TypeOK /\ Sessions \cap Inbound = {}
  BY StorageAssumption DEF Threads, Inv
<1>n. ~Fault
  <2>1. faults \in 0..MaxFaults /\ MaxFaults \in Nat
    BY <1>0, AccountAssumption DEF TypeOK
  <2> QED BY <2>1 DEF Fault, NoFault
<1>1. CASE s # t
  BY <1>0, <1>1, OneThreadActs DEF Alone, Unfailed
<1>2. CASE s = t
  <2>1. ~UnlinkPassword(s) /\ ~(WritePassword(s) /\ ~Return(s))
    BY <1>n DEF UnlinkPassword, Unfailed, WritePassword
  <2>2. ASSUME NEW l, Goto(s, l), l \notin {"unlink_password", "rmdir_unwritten"}
        PROVE  Unfailed(s)'
    BY <1>0, <2>2 DEF Goto, TypeOK, Unfailed
  <2>3. Return(s) \/ pc' = pc => Unfailed(s)'
    BY <1>0 DEF Return, TypeOK, Unfailed
  <2>4. ASSUME NEW l \in {"stat_dir", "open_login", "rm"}, pc' = [pc EXCEPT ![s] = l]
        PROVE  Unfailed(s)'
    BY <1>0, <2>4 DEF TypeOK, Unfailed
  <2>5. DirReady(s) => Unfailed(s)'
    BY <1>0, <2>2 DEF DirReady, AfterDirs
  <2>6. CASE SessionCommand(s)
    <3>1. ASSUME NEW u, NEW p, Register(s, u, p) \/ Login(s, u, p)
          PROVE  Unfailed(s)'
      BY <2>4, <3>1 DEF Register, Login, Begin
    <3>2. CASE DeleteAccount(s)
      BY <2>4, <3>2 DEF DeleteAccount, Begin
    <3>3. CASE Logout(s) \/ Disconnect(s)
      BY <2>3, <3>3 DEF Logout, Disconnect
    <3> QED BY <2>6, <3>1, <3>2, <3>3 DEF SessionCommand
  <2>7. CASE SessionStep(s)
    <3>1. CASE StatDir(s) \/ MakeDir(s)
      BY <2>2, <2>3, <2>5, <3>1 DEF StatDir, MakeDir
    <3>2. CASE CreatePassword(s)
      BY <2>2, <3>2 DEF CreatePassword
    <3>3. CASE WritePassword(s) \/ RemoveHome(s) \/ OpenLogin(s) \/ ReadLogin(s)
      BY <2>1, <2>2, <2>3, <3>3 DEF RemoveHome, OpenLogin, ReadLogin
    <3>4. CASE RmRead(s) \/ RmEntry(s) \/ RmDone(s)
      BY <2>3, <3>4 DEF RmRead, RmEntry, RmDone
    <3> QED BY <2>1, <2>7, <3>1, <3>2, <3>3, <3>4 DEF SessionStep
  <2> QED BY <1>0, <1>2, <2>6, <2>7 DEF SessionActs
<1> QED BY <1>1, <1>2

LEMMA OrderlyStep ==
  ASSUME Inv, Closed, Chains, Apart, Orderly, [Next]_vars, faults' = 0
  PROVE  Orderly'
<1>0. Sessions \subseteq Threads /\ Inbound \subseteq Threads /\ TypeOK
  BY DEF Threads, Inv
<1>1. NoFault /\ ~Crash
  BY <1>0, FaultsCounted
<1>2. ASSUME NEW t \in Threads,
             \/ t \in Sessions /\ SessionActs(t)
             \/ t \in Inbound /\ InboundActs(t)
      PROVE  Orderly'
  <2>1. \A r \in Inbound : Welcome(r)'
    BY <1>2, WelcomeStep DEF Orderly
  <2>2. \A u \in Users : Attended(u)'
    BY <1>1, <1>2, AttendedStep
  <2>3. \A s \in Sessions : Known(s)' /\ Unfailed(s)'
    BY <1>1, <1>2, KnownStep, UnfailedStep DEF Orderly
  <2> QED BY <2>1, <2>2, <2>3 DEF Orderly
<1>3. CASE UNCHANGED vars
  BY <1>3 DEF vars, local, rm, storage, Orderly, Welcome, Attended, Known, Found, Entries, Unfailed, Linked
<1> QED BY <1>0, <1>1, <1>2, <1>3 DEF Next, SessionActs, InboundActs

-----------------------------------------------------------------------------

\* What client_handle_delete_account and server_as_server_handle_set_trustline
\* would need of a lock: if no connection sets a trustline of an account that
\* a session is registering or deleting, sessions alone never leave a
\* directory that can be neither logged in to nor registered, however many
\* register and delete one account at once.  Nothing in the code sees to the
\* hypothesis; without it the conclusion is false.  Peers are honest: the
\* names they send are those of accounts (see Storage).
THEOREM ApartLeavesNoRemains == Spec /\ []Apart => []NoRemains
<1>1. Init => RemainsInv
  <2> SUFFICES ASSUME Init PROVE RemainsInv
    OBVIOUS
  <2>1. \A t \in Threads : pc[t] = "idle"
    BY DEF Init
  <2>2. Sessions \subseteq Threads /\ Inbound \subseteq Threads
    BY DEF Threads
  <2>3. Closed /\ \A u \in Users : Home(u) \notin dirs
    <3>1. \A u \in Users : Home(u) # AccountsDir
      BY DEF Home, AccountsDir
    <3> QED BY <3>1 DEF Init, StorageInit, Closed
  <2> QED BY <2>1, <2>2, <2>3
          DEF RemainsInv, Chains, ChainOf, DirPcs, Orderly, Welcome, Attended, Known, Unfailed
<1>2. Inv /\ Apart /\ RemainsInv /\ [Next]_vars => RemainsInv'
  <2> SUFFICES ASSUME Inv, Apart, RemainsInv, [Next]_vars PROVE RemainsInv'
    OBVIOUS
  <2>1. faults' = 0 => faults = 0
    BY FaultsCounted DEF Inv
  <2> QED BY <2>1, ClosedStep, ChainsStep, OrderlyStep DEF RemainsInv
<1>3. RemainsInv => NoRemains
  <2> SUFFICES ASSUME RemainsInv, \A t \in Threads : pc[t] = "idle", faults = 0, NEW u \in Users,
                      Home(u) \in dirs
               PROVE  Linked(PasswordFile(u))
    BY DEF NoRemains
  <2> QED BY DEF RemainsInv, Orderly, Attended, Threads
<1> QED BY <1>1, <1>2, <1>3, Invariance, PTL DEF Spec

-----------------------------------------------------------------------------
(* Registrations that fail.                                                *)

\* While a session registers an account that nobody contends, nothing is in
\* its directory but the password file, nor is the directory there before
\* make_dirs makes it, nor the file when the directory is to go.
Unmade(s) ==
  pc[s] \in RegisterPcs \cup DirPcs /\ ~contended[req[s].user] =>
    /\ PeersDir(req[s].user) \notin dirs
    /\ pc[s] \in DirPcs => Home(req[s].user) \notin dirs
    /\ pc[s] \in {"rmdir_unopened", "rmdir_unwritten"} => ~Linked(PasswordFile(req[s].user))

Clean == \A s \in Sessions : Unmade(s)

LEMMA AccountDirsDistinct ==
  ASSUME NEW u, NEW v, NEW p
  PROVE  /\ Home(u) # AccountsDir /\ PeersDir(u) # AccountsDir /\ Home(u) # PeersDir(v)
         /\ DomainDir(u, p) # Home(v) /\ PeersDir(u) # Home(v)
         /\ Home(u) = Home(v) => u = v
         /\ Home(u)[1] = u /\ PeersDir(u)[1] = u
<1>1. Len(Home(u)) = 1 /\ Len(Home(v)) = 1 /\ Len(AccountsDir) = 0
      /\ Len(PeersDir(u)) = 2 /\ Len(PeersDir(v)) = 2 /\ Len(DomainDir(u, p)) = 3
  BY DEF Home, AccountsDir, PeersDir, DomainDir
<1>2. Home(u)[1] = u /\ Home(v)[1] = v /\ PeersDir(u)[1] = u
  BY DEF Home, PeersDir
<1> QED BY <1>1, <1>2

\* Others leave the directories of an account alone that is not contended.
LEMMA OthersUnmade ==
  ASSUME Inv, Chains, Apart, NEW s \in Sessions, Unmade(s), NEW t \in Threads, t # s,
         \/ t \in Sessions /\ SessionActs(t)
         \/ t \in Inbound /\ InboundActs(t)
  PROVE  Unmade(s)'
<1> DEFINE u == req[s].user
<1>0. Sessions \subseteq Threads /\ Inbound \subseteq Threads /\ Sessions \cap Inbound = {}
      /\ TypeOK /\ Roles /\ Tree /\ Descriptors /\ RmBelow
  BY StorageAssumption DEF Threads, Inv
<1>1. pc'[s] = pc[s] /\ req'[s] = req[s]
  BY <1>0, OneThreadActs DEF Alone
<1> SUFFICES ASSUME pc[s] \in RegisterPcs \cup DirPcs, ~contended'[u]
             PROVE  Unmade(s)'
  BY <1>1 DEF Unmade
<1>2. u \in Users /\ Changing(s, u) /\ Busy(u)
  BY <1>0 DEF Roles, RoleOf, RegisterPcs, DirPcs, Changing, Busy
<1>3. contended'[u] = contended[u]
  <2>1. contended' = contended \/ \E v : contended' = [contended EXCEPT ![v] = Busy(v)]
    BY DEF SessionActs, SessionCommand, SessionStep, InboundActs, InboundCommand, InboundStep,
           Register, Login, Logout, DeleteAccount, Disconnect, StatDir, MakeDir, CreatePassword,
           WritePassword, UnlinkPassword, RemoveHome, OpenLogin, ReadLogin, RmRead, RmEntry, RmDone,
           SetTrustline, RemoveTrustline, OpenTrustline, WriteTrustline, history
  <2> QED BY <1>0, <1>2, <2>1 DEF TypeOK
<1>4. ~(t \in Sessions /\ Changing(t, u)) /\ (t \in Inbound /\ pc[t] # "idle" => req[t].user # u)
  BY <1>2, <1>3 DEF Inv, Accounts, OneChangerOf, Apart
<1>5. link'[PasswordFile(u)] = link[PasswordFile(u)]
  BY <1>0, <1>2, <1>4, PasswordKept
<1>6. ASSUME NEW d \in {Home(u), PeersDir(u)}, d \in dirs', d \notin dirs
      PROVE  FALSE
  <2>1. Makes(t, d)
    BY <1>0, <1>6, DirsStep DEF Makes, Removes
  <2>2. pc[t] \in DirPcs /\ pc[t] # "idle" /\ d = Head(todo[t])
    BY <2>1 DEF Makes, DirPcs
  <2>3. d # AccountsDir /\ d[1] = u
    BY AccountDirsDistinct
  <2>4. CASE t \in Sessions
    <3>1. d = Home(req[t].user)
      BY <1>0, <2>2, <2>3, <2>4, HeadOfChain DEF Chains
    <3>2. req[t].user = u
      BY <2>3, <3>1, AccountDirsDistinct
    <3> QED BY <1>4, <2>2, <2>4, <3>2 DEF Changing
  <2>5. CASE t \in Inbound
    BY <1>0, <1>4, <2>2, <2>3, <2>5, HeadOfChain DEF Chains
  <2> QED BY <2>4, <2>5 DEF Threads
<1> QED BY <1>1, <1>3, <1>5, <1>6 DEF Unmade, Linked

LEMMA OwnUnmade ==
  ASSUME Inv, Closed, Chains, NEW s \in Sessions, Unmade(s), SessionActs(s)
  PROVE  Unmade(s)'
<1>0. s \in Threads /\ s \notin Inbound /\ TypeOK /\ Roles
  BY StorageAssumption DEF Threads, Inv
<1>1. ASSUME pc'[s] \notin RegisterPcs \cup DirPcs
      PROVE  Unmade(s)'
  BY <1>1 DEF Unmade
<1>2. Return(s) => pc'[s] \notin RegisterPcs \cup DirPcs
  BY <1>0 DEF Return, TypeOK, RegisterPcs, DirPcs
<1>3. ASSUME NEW u \in Users, NEW p \in Passwords, Register(s, u, p)
      PROVE  Unmade(s)'
  <2>1. pc'[s] = "stat_dir" /\ req'[s].user = u /\ Home(u) \notin dirs /\ dirs' = dirs
    BY <1>0, <1>3 DEF Register, Begin, TypeOK, NoRequest, storage
  <2>2. PeersDir(u) \notin dirs
    BY <2>1, AccountDirsDistinct, FrontOfLayout DEF Closed
  <2> QED BY <2>1, <2>2 DEF Unmade, RegisterPcs
<1>4. CASE \/ \E u \in Users, p \in Passwords : Login(s, u, p)
           \/ Logout(s) \/ DeleteAccount(s) \/ Disconnect(s)
  <2>1. pc'[s] \in {"idle", "open_login", "rm"}
    BY <1>0, <1>4 DEF Login, Logout, DeleteAccount, Disconnect, Begin, TypeOK
  <2> QED BY <1>1, <2>1 DEF RegisterPcs, DirPcs
<1>5. CASE OpenLogin(s) \/ ReadLogin(s) \/ RmRead(s) \/ RmEntry(s) \/ RmDone(s)
  <2>1. pc'[s] \in {"idle", "read_login", "rm"}
    BY <1>0, <1>5 DEF OpenLogin, ReadLogin, RmRead, RmEntry, RmDone, Return, Goto, TypeOK
  <2> QED BY <1>1, <2>1 DEF RegisterPcs, DirPcs
<1>6. CASE StatDir(s)
  <2>1. /\ pc[s] \in DirPcs /\ UNCHANGED <<dirs, req, contended>>
        /\ pc'[s] \notin {"rmdir_unopened", "rmdir_unwritten"}
    BY <1>0, <1>6 DEF StatDir, DirReady, Goto, AfterDirs, TypeOK, storage, history, DirPcs
  <2> QED BY <2>1 DEF Unmade
<1>7. CASE MakeDir(s)
  <2> DEFINE d == Head(todo[s])
             u == req[s].user
  <2>1. CASE dirs' = dirs \cup {d} /\ DirReady(s) /\ req' = req
    <3>1. /\ pc[s] \in DirPcs /\ contended' = contended
          /\ pc'[s] = IF Len(todo[s]) > 1 THEN "stat_dir" ELSE "open_password"
      BY <1>0, <1>7, <2>1 DEF MakeDir, DirReady, Goto, AfterDirs, TypeOK, history, DirPcs
    <3>2. d \in {AccountsDir, Home(u)}
      BY <1>0, <3>1, HeadOfChain DEF Chains
    <3>3. Len(todo[s]) > 1 => d = AccountsDir
      BY <1>0, <3>1, HomeChains DEF Chains, ChainOf
    <3>4. pc'[s] \in DirPcs => d = AccountsDir
      BY <3>1, <3>3 DEF DirPcs
    <3>5. pc'[s] \notin {"rmdir_unopened", "rmdir_unwritten"}
      BY <3>1
    <3>6. PeersDir(u) \notin {AccountsDir, Home(u)} /\ Home(u) # AccountsDir
      BY AccountDirsDistinct
    <3> QED BY <2>1, <3>1, <3>2, <3>4, <3>5, <3>6 DEF Unmade
  <2> QED BY <1>1, <1>2, <1>7, <2>1 DEF MakeDir
<1>8. CASE CreatePassword(s) \/ WritePassword(s) \/ UnlinkPassword(s) \/ RemoveHome(s)
  <2>1. CASE pc'[s] \in RegisterPcs \cup DirPcs
    <3>1. ~Return(s)
      BY <1>2, <2>1
    <3>2. /\ pc[s] \in RegisterPcs /\ UNCHANGED <<dirs, req, contended>>
          /\ pc'[s] \in {"write_password", "unlink_password", "rmdir_unopened", "rmdir_unwritten"}
      BY <1>0, <1>8, <3>1
      DEF CreatePassword, WritePassword, UnlinkPassword, RemoveHome, Goto, TypeOK, history, RegisterPcs
    <3>3. req[s].user \in Users
      BY <1>0, <3>2 DEF Roles, RoleOf, RegisterPcs
    <3>4. ASSUME pc'[s] \in {"rmdir_unopened", "rmdir_unwritten"}, ~contended[req[s].user]
          PROVE  ~Linked(PasswordFile(req[s].user))'
      <4>1. PasswordFile(req[s].user) \in Files
        BY <3>3 DEF Files, PasswordFiles
      <4>2. CASE UnlinkPassword(s)
        BY <1>0, <4>1, <4>2 DEF UnlinkPassword, Unlink, Linked, TypeOK, StorageTypeOK
      <4>3. CASE CreatePassword(s)
        <5>1. pc[s] = "open_password" /\ link' = link
          BY <1>0, <3>4, <4>3 DEF CreatePassword, Goto, TypeOK
        <5>2. ~Linked(PasswordFile(req[s].user))
          BY <3>3, <3>4, <5>1 DEF Inv, Accounts, OneChangerOf
        <5> QED BY <3>2, <5>1, <5>2 DEF Linked
      <4>4. CASE WritePassword(s)
        BY <1>0, <3>1, <3>4, <4>4 DEF WritePassword, Goto, TypeOK
      <4> QED BY <1>8, <3>1, <4>2, <4>3, <4>4 DEF RemoveHome
    <3>5. pc'[s] \notin DirPcs
      BY <3>2 DEF DirPcs
    <3> QED BY <3>2, <3>4, <3>5 DEF Unmade
  <2> QED BY <1>1, <2>1
<1> QED BY <1>3, <1>4, <1>5, <1>6, <1>7, <1>8 DEF SessionActs, SessionCommand, SessionStep

LEMMA CleanStep ==
  ASSUME Inv, Closed, Chains, Apart, Clean, [Next]_vars
  PROVE  Clean'
<1>0. Sessions \subseteq Threads /\ Inbound \subseteq Threads
  BY DEF Threads
<1>1. ASSUME NEW t \in Threads,
             \/ t \in Sessions /\ SessionActs(t)
             \/ t \in Inbound /\ InboundActs(t)
      PROVE  Clean'
  <2>1. ASSUME NEW s \in Sessions, s # t
        PROVE  Unmade(s)'
    BY <1>1, <2>1, OthersUnmade DEF Clean
  <2>2. ASSUME t \in Sessions
        PROVE  Unmade(t)'
    <3>1. SessionActs(t)
      BY <1>1, <2>2, StorageAssumption
    <3> QED BY <2>2, <3>1, OwnUnmade DEF Clean
  <2> QED BY <2>1, <2>2 DEF Clean
<1>2. CASE Crash
  <2>1. \A s \in Sessions : pc'[s] \notin RegisterPcs \cup DirPcs
    BY <1>0, <1>2 DEF Crash, RegisterPcs, DirPcs
  <2> QED BY <2>1 DEF Clean, Unmade
<1>3. CASE UNCHANGED vars
  BY <1>3 DEF vars, local, storage, history, Clean, Unmade, Linked
<1> QED BY <1>0, <1>1, <1>2, <1>3 DEF Next, SessionActs, InboundActs

\* Nothing is in the directory of an account without password and peers.
LEMMA EmptyHome ==
  ASSUME TypeOK, NEW u \in Users, PeersDir(u) \notin dirs, ~Linked(PasswordFile(u))
  PROVE  Children(Home(u)) = {}
<1>1. ASSUME NEW e \in dirs, e # AccountsDir, Front(e) = Home(u)
      PROVE  FALSE
  <2>1. e \in Dirs
    BY DEF TypeOK, StorageTypeOK
  <2>2. ASSUME NEW v \in Users, e = Home(v) \/ e = PeersDir(v)
        PROVE  FALSE
    BY <1>1, <2>2, FrontOfLayout, AccountDirsDistinct
  <2>3. ASSUME NEW v \in Users, NEW p \in Peers, e = DomainDir(v, p) \/ e = PeerDir(v, p)
        PROVE  FALSE
    BY <1>1, <2>3, FrontOfLayout, AccountDirsDistinct
  <2> QED BY <1>1, <2>1, <2>2, <2>3 DEF Dirs
<1>2. ASSUME NEW f \in Files, Linked(f), Front(f) = Home(u)
      PROVE  FALSE
  <2>1. ASSUME NEW v \in Users, f = PasswordFile(v)
        PROVE  FALSE
    BY <1>2, <2>1, FrontOfLayout, AccountDirsDistinct
  <2>2. ASSUME NEW v \in Users, NEW p \in Peers, f = TrustlineFile(v, p)
        PROVE  FALSE
    <3>1. Front(f) = PeerDir(v, p) /\ Len(PeerDir(v, p)) = 4 /\ Len(Home(u)) = 1
      BY <2>2, FrontOfLayout DEF PeerDir, Home
    <3> QED BY <1>2, <3>1
  <2> QED BY <2>1, <2>2 DEF Files, PasswordFiles, TrustlineFiles
<1> QED BY <1>1, <1>2 DEF Children

\* The clean-up of client_handle_register does what it is for, for any number
\* of sessions and whatever fails, if no SET_TRUSTLINE for the account is
\* under way: a registration that nobody contended succeeds, or is cut off by
\* the end of the server, or leaves the name free.
THEOREM ApartFreesNames == Spec /\ []Apart => FailedRegistrationFreesName
<1> DEFINE Kept == Closed /\ Chains /\ Clean
           Frees(s) == /\ pc[s] \in RegisterPcs \cup DirPcs /\ pc'[s] = "idle" /\ faults' = faults
                       /\ acked'[req[s].user] = acked[req[s].user] /\ ~contended[req[s].user]
                       => Home(req[s].user) \notin dirs'
<1>0. Sessions \subseteq Threads /\ Inbound \subseteq Threads /\ Sessions \cap Inbound = {}
  BY StorageAssumption DEF Threads
<1>1. Init => Kept
  <2> SUFFICES ASSUME Init PROVE Kept
    OBVIOUS
  <2> QED BY <1>0 DEF Init, StorageInit, Closed, Chains, ChainOf, Clean, Unmade, DirPcs, RegisterPcs
<1>2. Inv /\ Apart /\ Kept /\ [Next]_vars => Kept'
  BY ClosedStep, ChainsStep, CleanStep
<1>3. ASSUME Inv, Kept, [Next]_vars, NEW s \in Sessions
      PROVE  Frees(s)
  <2> DEFINE u == req[s].user
  <2>1. SUFFICES ASSUME pc[s] \in RegisterPcs \cup DirPcs, pc'[s] = "idle", faults' = faults,
                        acked'[u] = acked[u], ~contended[u]
                 PROVE  Home(u) \notin dirs'
    OBVIOUS
  <2>2. /\ TypeOK /\ u \in Users /\ pc[s] # "idle" /\ PeersDir(u) \notin dirs
        /\ pc[s] \notin LoginPcs \cup {"rm"} /\ s \in Threads
    BY <1>0, <1>3, <2>1
    DEF Inv, Roles, RoleOf, Clean, Unmade, RegisterPcs, DirPcs, LoginPcs
  <2>3. ~Fault
    <3>1. faults \in 0..MaxFaults /\ MaxFaults \in Nat
      BY <2>2, AccountAssumption DEF TypeOK
    <3> QED BY <2>1, <3>1 DEF Fault
  <2>4. SessionStep(s)
    <3>1. ~Crash /\ ~UNCHANGED vars
      BY <2>1, <2>2, <2>3 DEF Crash, vars, local
    <3>2. ASSUME NEW t \in Threads, Alone(t)
          PROVE  t = s
      BY <2>1, <2>2, <3>2 DEF Alone
    <3>3. ~SessionCommand(s)
      BY <2>2 DEF SessionCommand, Register, Login, Logout, DeleteAccount, Disconnect
    <3> QED BY <1>0, <1>3, <2>2, <3>1, <3>2, <3>3, OneThreadActs DEF Next, SessionActs, InboundActs
  <2>5. ASSUME NEW l, Goto(s, l), l # "idle"
        PROVE  FALSE
    BY <2>1, <2>2, <2>5 DEF Goto, TypeOK
  <2>6. CASE StatDir(s) \/ UnlinkPassword(s) \/ CreatePassword(s)
    BY <1>0, <2>2, <2>5, <2>6 DEF StatDir, DirReady, AfterDirs, UnlinkPassword, CreatePassword
  <2>7. CASE MakeDir(s)
    <3>1. dirs' = dirs /\ pc[s] \in DirPcs
      BY <1>0, <2>2, <2>3, <2>5, <2>7 DEF MakeDir, DirReady, AfterDirs, DirPcs
    <3> QED BY <1>3, <2>1, <3>1 DEF Clean, Unmade
  <2>8. CASE WritePassword(s)
    <3>1. acked'[u] = acked[u] \cup {<<s, req[s].val>>}
      BY <2>2, <2>3, <2>8 DEF WritePassword, TypeOK
    <3>2. Changing(s, u) /\ Busy(u)
      BY <2>1 DEF Changing, Busy
    <3>3. acked[u] = {}
      BY <1>3, <2>1, <2>2, <3>2 DEF Inv, Accounts, OneChangerOf
    <3> QED BY <2>1, <3>1, <3>3
  <2>9. CASE RemoveHome(s)
    <3>1. pc[s] \in {"rmdir_unopened", "rmdir_unwritten"}
          /\ dirs' = IF CanRmdir(Home(u)) THEN dirs \ {Home(u)} ELSE dirs
      BY <2>9 DEF RemoveHome
    <3>2. ~Linked(PasswordFile(u))
      BY <1>3, <2>1, <3>1 DEF Clean, Unmade
    <3>3. Children(Home(u)) = {}
      BY <2>2, <3>2, EmptyHome
    <3> QED BY <3>1, <3>3 DEF CanRmdir
  <2>10. ~(OpenLogin(s) \/ ReadLogin(s) \/ RmRead(s) \/ RmEntry(s) \/ RmDone(s))
    BY <2>2 DEF OpenLogin, ReadLogin, RmRead, RmEntry, RmDone, LoginPcs
  <2> QED BY <2>4, <2>6, <2>7, <2>8, <2>9, <2>10 DEF SessionStep
<1>4. Inv /\ Kept /\ [Next]_vars => [\A s \in Sessions : Frees(s)]_vars
  BY <1>3
<1> HIDE DEF Kept
<1> QED BY <1>1, <1>2, <1>4, Invariance, PTL DEF Spec, FailedRegistrationFreesName
=============================================================================
