-------------------------- MODULE TrustlineProofs ---------------------------
(***************************************************************************)
(* TLAPS proof that trustline files are complete, for every number of      *)
(* connections that set them and of sessions that delete their accounts.   *)
(***************************************************************************)
EXTENDS AccountStoreProofs

\* An empty trustline file has a thread that is about to write it.
Attended(f) ==
  Linked(f) /\ data[link[f]].len = 0 =>
    \E t \in Inbound : pc[t] = "write_trustline" /\ fd[t] = link[f]

\* A request in progress is for a size.
SizesOnly == \A t \in Inbound : pc[t] # "idle" => req[t].val \in Sizes

AttendedInv == SizesOnly /\ (faults = 0 => \A f \in TrustlineFiles : Attended(f))

LEMMA SizesStep ==
  ASSUME Inv, SizesOnly, [Next]_vars
  PROVE  SizesOnly'
<1>0. Sessions \subseteq Threads /\ Inbound \subseteq Threads /\ Sessions \cap Inbound = {}
  BY StorageAssumption DEF Threads
<1>t. TypeOK /\ Roles
  BY DEF Inv
<1>1. ASSUME NEW t \in Inbound, InboundActs(t)
      PROVE  pc'[t] # "idle" => req'[t].val \in Sizes
  <2>1. Return(t) => pc'[t] = "idle"
    BY <1>0, <1>t DEF Return, TypeOK
  <2>2. CASE InboundCommand(t)
    <3>1. PICK n \in Users \cup {"none"}, p \in Peers, z \in Sizes : SetTrustline(t, n, p, z)
      BY <2>2 DEF InboundCommand
    <3>2. req' = [req EXCEPT ![t] = [user |-> LocalUser(n), val |-> z, peer |-> p]]
      BY <3>1 DEF SetTrustline, Begin
    <3>3. req'[t].val = z
      BY <1>0, <1>t, <3>2 DEF TypeOK
    <3> QED BY <3>3
  <2>3. ASSUME pc[t] # "idle", UNCHANGED req
        PROVE  req'[t].val \in Sizes
    BY <2>3 DEF SizesOnly
  <2>4. CASE StatDir(t) \/ MakeDir(t)
    BY <2>1, <2>3, <2>4 DEF StatDir, MakeDir
  <2>5. CASE RemoveTrustline(t) \/ WriteTrustline(t)
    BY <2>1, <2>5 DEF RemoveTrustline, WriteTrustline
  <2>6. CASE OpenTrustline(t)
    BY <2>1, <2>3, <2>6 DEF OpenTrustline
  <2> QED BY <1>1, <2>2, <2>4, <2>5, <2>6 DEF InboundActs, InboundStep
<1>2. ASSUME NEW t \in Threads, Alone(t), NEW r \in Inbound, r # t, pc'[r] # "idle"
      PROVE  req'[r].val \in Sizes
  BY <1>0, <1>2 DEF Alone, SizesOnly
<1>3. ASSUME NEW t \in Inbound, InboundActs(t)
      PROVE  SizesOnly'
  <2>1. Alone(t)
    BY <1>0, <1>t, <1>3, OneThreadActs
  <2> QED BY <1>0, <1>1, <1>2, <1>3, <2>1 DEF SizesOnly
<1>4. ASSUME NEW s \in Sessions, SessionActs(s)
      PROVE  SizesOnly'
  <2>1. Alone(s)
    BY <1>0, <1>t, <1>4, OneThreadActs
  <2> QED BY <1>0, <1>2, <2>1 DEF SizesOnly
<1>5. ASSUME Crash, NEW t \in Inbound
      PROVE  pc'[t] = "idle"
  <2>1. pc[t] # "rm"
    BY <1>0, <1>t DEF Roles, RoleOf
  <2> QED BY <1>0, <1>5, <2>1 DEF Crash
<1>6. CASE UNCHANGED vars
  BY <1>6 DEF vars, local, SizesOnly
<1> QED BY <1>3, <1>4, <1>5, <1>6 DEF Next, SessionActs, InboundActs, SizesOnly

\* A step that leaves a file and its content alone, and the thread that
\* writes it, leaves it attended.
LEMMA LeftAttended ==
  ASSUME NEW f \in Files, Attended(f), NEW t \in Threads, Alone(t),
         pc[t] # "write_trustline" \/ fd[t] # link[f],
         link'[f] = link[f], Linked(f) => data'[link[f]] = data[link[f]]
  PROVE  Attended(f)'
<1> SUFFICES ASSUME Linked(f), data[link[f]].len = 0
             PROVE  \E r \in Inbound : pc'[r] = "write_trustline" /\ fd'[r] = link'[f]
  BY DEF Attended, Linked
<1>1. PICK r \in Inbound : pc[r] = "write_trustline" /\ fd[r] = link[f]
  BY DEF Attended
<1>2. r \in Threads \ {t}
  BY <1>1 DEF Threads
<1> QED BY <1>1, <1>2 DEF Alone

\* What a step leaves of a file.
Untouched(f) == link'[f] = link[f] /\ (Linked(f) => data'[link[f]] = data[link[f]])

\* fopen leaves a file alone, or empties it and has it open.
LEMMA OpenTruncates ==
  ASSUME Inv, NEW f \in Files, NEW t \in Inbound, OpenTrustline(t)
  PROVE  \/ Untouched(f) /\ (pc'[t] # "write_trustline" \/ fd'[t] # link'[f])
         \/ pc'[t] = "write_trustline" /\ fd'[t] = link'[f] /\ data'[link'[f]] = Empty
<1>0. t \in Threads /\ TypeOK /\ Roles /\ Tree /\ pc[t] = "open_trustline"
  BY DEF Threads, Inv, OpenTrustline
<1> DEFINE g == RequestFile(t)
<1>1. g \in Files
  <2>1. req[t].user \in Users /\ req[t].peer \in Peers
    BY <1>0 DEF Roles, RoleOf
  <2> QED BY <2>1 DEF RequestFile, Files, TrustlineFiles
<1> HIDE DEF g
<1>2. CASE Return(t) /\ UNCHANGED <<link, data>>
  BY <1>0, <1>2 DEF Untouched, Return, TypeOK
<1>3. CASE OpenForWrite(t, g, TRUE) /\ Goto(t, "write_trustline")
  <2>1. pc'[t] = "write_trustline"
    BY <1>0, <1>3 DEF Goto, TypeOK
  <2>2. CASE Linked(g)
    <3>1. /\ fd'[t] = link[g] /\ link' = link
          /\ data' = [data EXCEPT ![link[g]] = Empty]
      BY <1>0, <1>3, <2>2 DEF OpenForWrite, TypeOK, StorageTypeOK
    <3>2. CASE link[f] = link[g]
      <4>1. link[g] \in Inodes /\ data'[link[g]] = Empty
        BY <1>0, <1>1, <2>2, <3>1 DEF Linked, TypeOK, StorageTypeOK
      <4> QED BY <2>1, <3>1, <3>2, <4>1
    <3>3. CASE link[f] # link[g]
      BY <1>0, <3>1, <3>3 DEF Untouched, Linked, TypeOK, StorageTypeOK
    <3> QED BY <3>2, <3>3
  <2>3. CASE ~Linked(g)
    <3>1. PICK i \in FreeInodes :
            /\ fd' = [fd EXCEPT ![t] = i]
            /\ data' = [data EXCEPT ![i] = Empty]
            /\ link' = [link EXCEPT ![g] = i]
      BY <1>3, <2>3 DEF OpenForWrite
    <3>2. CASE f = g
      <4>1. fd'[t] = i /\ link'[f] = i /\ data'[i] = Empty
        BY <1>0, <1>1, <3>1, <3>2 DEF FreeInodes, TypeOK, StorageTypeOK
      <4> QED BY <2>1, <4>1
    <3>3. CASE f # g
      <4>1. link'[f] = link[f] /\ link[f] # i
        BY <1>0, <3>1, <3>3 DEF FreeInodes, TypeOK, StorageTypeOK
      <4>2. Linked(f) => data'[link[f]] = data[link[f]]
        BY <1>0, <3>1, <4>1 DEF Linked, TypeOK, StorageTypeOK
      <4>3. fd'[t] # link'[f]
        BY <1>0, <3>1, <4>1 DEF TypeOK, StorageTypeOK
      <4> QED BY <4>1, <4>2, <4>3 DEF Untouched
    <3> QED BY <3>2, <3>3
  <2> QED BY <2>2, <2>3
<1> QED BY <1>2, <1>3 DEF OpenTrustline, g

LEMMA OpenAttends ==
  ASSUME Inv, NEW f \in Files, Attended(f), NEW t \in Inbound, OpenTrustline(t), Alone(t)
  PROVE  Attended(f)'
<1>1. t \in Threads /\ pc[t] = "open_trustline"
  BY DEF Threads, OpenTrustline
<1>2. CASE Untouched(f)
  BY <1>1, <1>2, LeftAttended DEF Untouched
<1>3. CASE pc'[t] = "write_trustline" /\ fd'[t] = link'[f]
  BY <1>3 DEF Attended
<1> QED BY <1>2, <1>3, OpenTruncates

\* What fclose writes is not empty, and over a longer size stays so.
LEMMA WrittenIsNotEmpty ==
  ASSUME NEW c \in Content, NEW z \in Sizes
  PROVE  Overwrite(c, z).len # 0
<1>1. z \in Values /\ z # "" /\ ValueLen[z] \in Nat /\ ValueLen[z] # 0
  BY StorageAssumption, AccountAssumption
<1>2. c.len \in Nat
  BY DEF Content
<1>3. Overwrite(c, z).len = IF c.len > ValueLen[z] THEN c.len ELSE ValueLen[z]
  BY <1>1 DEF Overwrite
<1>4. CASE c.len > ValueLen[z]
  <2>1. Overwrite(c, z).len = c.len
    BY <1>3, <1>4
  <2>2. ASSUME NEW a \in Nat, NEW b \in Nat, a > b
        PROVE  a # 0
    BY <2>2
  <2>3. c.len # 0
    BY <1>1, <1>2, <1>4, <2>2
  <2> QED BY <2>1, <2>3
<1>5. CASE ~(c.len > ValueLen[z])
  <2>1. Overwrite(c, z).len = ValueLen[z]
    BY <1>3, <1>5
  <2> QED BY <1>1, <2>1
<1> QED BY <1>4, <1>5

\* fclose leaves a file alone, or writes a size into it.
LEMMA CloseWrites ==
  ASSUME Inv, SizesOnly, NEW f \in Files, NEW t \in Inbound, WriteTrustline(t), NoFault
  PROVE  /\ link' = link /\ pc[t] = "write_trustline" /\ pc'[t] = "idle"
         /\ \/ fd[t] # link[f] /\ Untouched(f)
            \/ /\ fd[t] = link[f] /\ req[t].val \in Sizes /\ data[link[f]] \in Content
               /\ data'[link[f]] = Overwrite(data[link[f]], req[t].val)
<1>0. /\ t \in Threads /\ TypeOK /\ pc[t] = "write_trustline" /\ link' = link
      /\ fd[t] \in Inodes /\ req[t].val \in Sizes
  BY DEF Threads, Inv, WriteTrustline, Descriptors, DescriptorOf, SizesOnly
<1>1. WriteFd(t, req[t].val)
  BY <1>0 DEF WriteTrustline, NoFault, Fault, TypeOK
<1>2. pc'[t] = "idle"
  BY <1>0 DEF WriteTrustline, Return, TypeOK
<1>3. CASE link[f] = fd[t]
  <2>1. data'[link[f]] = Overwrite(data[fd[t]], req[t].val)
    BY <1>0, <1>1, <1>3 DEF WriteFd, TypeOK, StorageTypeOK
  <2>2. data[fd[t]] \in Content
    BY <1>0 DEF TypeOK, StorageTypeOK
  <2> QED BY <1>0, <1>2, <1>3, <2>1, <2>2
<1>4. CASE link[f] # fd[t]
  <2>1. Linked(f) => data'[link[f]] = data[link[f]]
    BY <1>0, <1>1, <1>4 DEF WriteFd, Linked, TypeOK, StorageTypeOK
  <2> QED BY <1>0, <1>2, <1>4, <2>1 DEF Untouched
<1> QED BY <1>3, <1>4

LEMMA WriteAttends ==
  ASSUME Inv, SizesOnly, NEW f \in Files, Attended(f), NEW t \in Inbound, WriteTrustline(t), Alone(t),
         NoFault
  PROVE  Attended(f)'
<1>1. t \in Threads
  BY DEF Threads
<1>2. CASE fd[t] # link[f] /\ Untouched(f)
  BY <1>1, <1>2, LeftAttended DEF Untouched
<1>3. CASE /\ fd[t] = link[f] /\ req[t].val \in Sizes /\ data[link[f]] \in Content
           /\ data'[link[f]] = Overwrite(data[link[f]], req[t].val)
  <2>1. data'[link[f]].len # 0
    BY <1>3, WrittenIsNotEmpty
  <2>2. link' = link
    BY CloseWrites
  <2> QED BY <2>1, <2>2 DEF Attended
<1> QED BY <1>2, <1>3, CloseWrites

\* What the other steps do to a trustline file: nothing, or remove it.
LEMMA OthersRemove ==
  ASSUME Inv, NEW f \in TrustlineFiles, NEW t \in Threads,
         \/ t \in Sessions /\ SessionActs(t)
         \/ t \in Inbound /\ InboundActs(t) /\ ~OpenTrustline(t) /\ ~WriteTrustline(t)
  PROVE  pc[t] # "write_trustline" /\ (Untouched(f) \/ ~Linked(f)')
<1>0. /\ f \in Files /\ TypeOK /\ Roles /\ Descriptors
      /\ Sessions \subseteq Threads /\ Inbound \subseteq Threads /\ Sessions \cap Inbound = {}
  BY StorageAssumption DEF Files, Inv, Threads
<1>1. ASSUME NEW u
      PROVE  f # PasswordFile(u)
  BY FilesDistinct DEF TrustlineFiles
<1>2. pc[t] # "write_trustline"
  <2>1. CASE t \in Sessions
    BY <1>0, <2>1 DEF Roles, RoleOf, InboundPcs
  <2>2. CASE t \in Inbound
    BY <1>0, <2>2 DEF InboundActs, InboundCommand, SetTrustline, InboundStep, StatDir, MakeDir,
                      RemoveTrustline
  <2> QED BY <2>1, <2>2 DEF Threads
<1> SUFFICES Untouched(f) \/ ~Linked(f)'
  BY <1>2
<1>3. ASSUME link'[f] = link[f], Linked(f) => data'[link[f]] = data[link[f]]
      PROVE  Untouched(f)
  BY <1>3 DEF Untouched
<1>4. ASSUME link'[f] = NoInode
      PROVE  ~Linked(f)'
  BY <1>4 DEF Linked
<1>5. CASE UNCHANGED <<link, data>>
  BY <1>3, <1>5
<1>6. ASSUME NEW g, Unlink(g), UNCHANGED data
      PROVE  Untouched(f) \/ ~Linked(f)'
  BY <1>0, <1>3, <1>4, <1>6 DEF Unlink, TypeOK, StorageTypeOK
<1> USE DEF storage
<1>7. ASSUME t \in Sessions, CreatePassword(t)
      PROVE  Untouched(f) \/ ~Linked(f)'
  <2> DEFINE P == PasswordFile(req[t].user)
  <2>1. P \in Files /\ f # P
    BY <1>0, <1>1, <1>7 DEF CreatePassword, Roles, RoleOf, Files, PasswordFiles, RegisterPcs
  <2> HIDE DEF P
  <2>2. CASE OpenForWrite(t, P, FALSE)
    <3>1. CASE Linked(P)
      BY <1>5, <2>2, <3>1 DEF OpenForWrite
    <3>2. CASE ~Linked(P)
      <4>1. PICK i \in FreeInodes : data' = [data EXCEPT ![i] = Empty] /\ link' = [link EXCEPT ![P] = i]
        BY <2>2, <3>2 DEF OpenForWrite
      <4>2. link'[f] = link[f] /\ link[f] # i
        BY <1>0, <2>1, <4>1 DEF FreeInodes, TypeOK, StorageTypeOK
      <4>3. Linked(f) => data'[link[f]] = data[link[f]]
        BY <1>0, <4>1, <4>2 DEF Linked, TypeOK, StorageTypeOK
      <4> QED BY <1>3, <4>2, <4>3
    <3> QED BY <3>1, <3>2
  <2> QED BY <1>5, <1>7, <2>2 DEF CreatePassword, P
<1>8. ASSUME t \in Sessions, WritePassword(t)
      PROVE  Untouched(f) \/ ~Linked(f)'
  <2>1. UNCHANGED link /\ (WriteFd(t, req[t].val) \/ UNCHANGED data)
    BY <1>8 DEF WritePassword
  <2>2. CASE WriteFd(t, req[t].val)
    <3>1. fd[t] # link[f]
      BY <1>0, <1>1, <1>8 DEF WritePassword, Descriptors, DescriptorOf, TargetFile
    <3>2. Linked(f) => data'[link[f]] = data[link[f]]
      BY <1>0, <2>2, <3>1 DEF WriteFd, Linked, TypeOK, StorageTypeOK
    <3> QED BY <1>3, <2>1, <3>2
  <2> QED BY <1>5, <2>1, <2>2
<1>9. ASSUME t \in Sessions, RmEntry(t)
      PROVE  Untouched(f) \/ ~Linked(f)'
  <2>1. PICK e : link' = [g \in Files |-> IF g = e THEN NoInode ELSE link[g]]
    BY <1>9 DEF RmEntry
  <2>2. link'[f] = link[f] \/ link'[f] = NoInode
    BY <1>0, <2>1
  <2> QED BY <1>3, <1>4, <1>9, <2>2 DEF RmEntry
<1>10. ASSUME t \in Sessions, UnlinkPassword(t)
       PROVE  Untouched(f) \/ ~Linked(f)'
  BY <1>6, <1>10 DEF UnlinkPassword
<1>11. ASSUME t \in Inbound, RemoveTrustline(t)
       PROVE  Untouched(f) \/ ~Linked(f)'
  BY <1>6, <1>11 DEF RemoveTrustline
<1>12. ASSUME t \in Sessions, SessionCommand(t)
       PROVE  Untouched(f) \/ ~Linked(f)'
  BY <1>5, <1>12 DEF SessionCommand, Register, Login, Logout, DeleteAccount, Disconnect
<1>13. ASSUME StatDir(t) \/ MakeDir(t) \/ RemoveHome(t) \/ OpenLogin(t) \/ ReadLogin(t)
                \/ RmRead(t) \/ RmDone(t)
       PROVE  Untouched(f) \/ ~Linked(f)'
  BY <1>5, <1>13 DEF StatDir, MakeDir, RemoveHome, OpenLogin, ReadLogin, RmRead, RmDone
<1>14. ASSUME t \in Inbound, InboundCommand(t)
       PROVE  Untouched(f) \/ ~Linked(f)'
  BY <1>5, <1>14 DEF InboundCommand, SetTrustline
<1>15. CASE t \in Sessions /\ SessionActs(t)
  BY <1>7, <1>8, <1>9, <1>10, <1>12, <1>13, <1>15 DEF SessionActs, SessionStep
<1>16. CASE t \in Inbound /\ InboundActs(t) /\ ~OpenTrustline(t) /\ ~WriteTrustline(t)
  BY <1>11, <1>13, <1>14, <1>16 DEF InboundActs, InboundStep
<1> QED BY <1>15, <1>16

LEMMA OthersAttend ==
  ASSUME Inv, NEW f \in TrustlineFiles, Attended(f), NEW t \in Threads,
         \/ t \in Sessions /\ SessionActs(t)
         \/ t \in Inbound /\ InboundActs(t) /\ ~OpenTrustline(t) /\ ~WriteTrustline(t),
         Alone(t)
  PROVE  Attended(f)'
<1>1. f \in Files
  BY DEF Files
<1>2. pc[t] # "write_trustline" /\ (Untouched(f) \/ ~Linked(f)')
  BY OthersRemove
<1>3. CASE Untouched(f)
  BY <1>1, <1>2, <1>3, LeftAttended DEF Untouched
<1>4. CASE ~Linked(f)'
  BY <1>4 DEF Attended
<1> QED BY <1>2, <1>3, <1>4

LEMMA AttendedStep ==
  ASSUME Inv, AttendedInv, [Next]_vars
  PROVE  AttendedInv'
<1>0. Sessions \subseteq Threads /\ Inbound \subseteq Threads /\ TypeOK /\ SizesOnly
  BY DEF Threads, Inv, AttendedInv
<1>1. SizesOnly'
  BY <1>0, SizesStep
<1>2. ASSUME faults' = 0, NEW f \in TrustlineFiles
      PROVE  Attended(f)'
  <2>1. NoFault /\ ~Crash /\ Attended(f) /\ f \in Files
    BY <1>0, <1>2, FaultsCounted DEF AttendedInv, Files
  <2>2. ASSUME NEW s \in Sessions, SessionActs(s)
        PROVE  Attended(f)'
    <3>1. Alone(s)
      BY <1>0, <2>2, OneThreadActs
    <3> QED BY <1>0, <2>1, <2>2, <3>1, OthersAttend
  <2>3. ASSUME NEW t \in Inbound, InboundActs(t)
        PROVE  Attended(f)'
    <3>1. Alone(t)
      BY <1>0, <2>3, OneThreadActs
    <3>2. CASE OpenTrustline(t)
      BY <2>1, <3>1, <3>2, OpenAttends
    <3>3. CASE WriteTrustline(t)
      BY <1>0, <2>1, <3>1, <3>3, WriteAttends
    <3>4. CASE ~OpenTrustline(t) /\ ~WriteTrustline(t)
      BY <1>0, <2>1, <2>3, <3>1, <3>4, OthersAttend
    <3> QED BY <3>2, <3>3, <3>4
  <2>4. CASE UNCHANGED vars
    BY <2>1, <2>4 DEF vars, storage, local, Attended, Linked
  <2> QED BY <2>1, <2>2, <2>3, <2>4 DEF Next, SessionActs, InboundActs
<1> QED BY <1>1, <1>2 DEF AttendedInv

\* However many peer servers set the trustlines of an account at once, and
\* whoever deletes it meanwhile: without faults, a trustline file that is
\* found empty is one that server_as_server_handle_set_trustline has open and
\* is about to write, never one that was left so.
THEOREM TrustlinesAreComplete == Spec => []TrustlineFilesComplete
<1>1. Init => AttendedInv
  BY DEF Init, StorageInit, AttendedInv, SizesOnly, Attended, Linked, Files, Threads
<1>2. Inv /\ AttendedInv /\ [Next]_vars => AttendedInv'
  BY AttendedStep
<1>3. AttendedInv => TrustlineFilesComplete
  BY DEF AttendedInv, TrustlineFilesComplete, TrustlineFiles, Attended, Linked
<1> QED BY <1>1, <1>2, <1>3, Invariance, PTL DEF Spec

-----------------------------------------------------------------------------
(* One size, if no two connections write a file at the same time.          *)

Writes(t, f) == pc[t] = "write_trustline" /\ fd[t] = link[f]

\* No two connections are between fopen and fclose of the same file.
OneWriter ==
  \A t, r \in Inbound, f \in TrustlineFiles :
    Linked(f) /\ Writes(t, f) /\ Writes(r, f) => t = r

\* A trustline file is empty or holds one size, and is empty while a
\* connection is about to write it.
OneSize(f) ==
  Linked(f) =>
    /\ data[link[f]] = Empty \/ \E v \in Sizes : data[link[f]] = Whole(v)
    /\ \A t \in Inbound : Writes(t, f) => data[link[f]] = Empty

OneSizeInv == faults = 0 => \A f \in TrustlineFiles : OneSize(f)

LEMMA LeftOneSize ==
  ASSUME NEW f \in Files, OneSize(f), NEW t \in Threads, Alone(t), Untouched(f),
         pc'[t] # "write_trustline" \/ fd'[t] # link'[f]
  PROVE  OneSize(f)'
<1> SUFFICES ASSUME Linked(f)
             PROVE  OneSize(f)'
  BY DEF OneSize, Untouched, Linked
<1>1. link'[f] = link[f] /\ data'[link'[f]] = data[link[f]]
  BY DEF Untouched
<1>2. ASSUME NEW r \in Inbound, Writes(r, f)'
      PROVE  data'[link'[f]] = Empty
  <2>1. r # t /\ r \in Threads \ {t}
    BY <1>2 DEF Writes, Threads
  <2>2. Writes(r, f)
    BY <1>1, <1>2, <2>1 DEF Writes, Alone
  <2> QED BY <1>1, <2>2 DEF OneSize
<1> QED BY <1>1, <1>2 DEF OneSize

LEMMA OpenOneSize ==
  ASSUME Inv, NEW f \in Files, OneSize(f), NEW t \in Inbound, OpenTrustline(t), Alone(t)
  PROVE  OneSize(f)'
<1>1. t \in Threads
  BY DEF Threads
<1>2. CASE data'[link'[f]] = Empty
  BY <1>2 DEF OneSize
<1>3. CASE Untouched(f) /\ (pc'[t] # "write_trustline" \/ fd'[t] # link'[f])
  BY <1>1, <1>3, LeftOneSize
<1> QED BY <1>2, <1>3, OpenTruncates

LEMMA WriteOneSize ==
  ASSUME Inv, SizesOnly, OneWriter, NEW f \in TrustlineFiles, OneSize(f),
         NEW t \in Inbound, WriteTrustline(t), Alone(t), NoFault
  PROVE  OneSize(f)'
<1>1. t \in Threads /\ f \in Files
  BY DEF Threads, Files
<1>2. link' = link /\ pc[t] = "write_trustline" /\ pc'[t] = "idle"
  BY <1>1, CloseWrites
<1>3. CASE fd[t] # link[f] /\ Untouched(f)
  BY <1>1, <1>2, <1>3, LeftOneSize
<1>4. CASE /\ fd[t] = link[f] /\ req[t].val \in Sizes
           /\ data'[link[f]] = Overwrite(data[link[f]], req[t].val)
  <2> SUFFICES ASSUME Linked(f)
               PROVE  OneSize(f)'
    BY <1>2 DEF OneSize, Linked
  <2>1. data[link[f]] = Empty
    BY <1>2, <1>4 DEF OneSize, Writes
  <2>2. req[t].val \in Values
    BY <1>4, AccountAssumption
  <2>3. data'[link'[f]] = Whole(req[t].val)
    BY <1>2, <1>4, <2>1, <2>2, ContentTypes
  <2>4. ASSUME NEW r \in Inbound, Writes(r, f)'
        PROVE  FALSE
    <3>1. r # t
      BY <1>2, <2>4 DEF Writes
    <3>2. r \in Threads \ {t}
      BY <3>1 DEF Threads
    <3>3. Writes(r, f) /\ Writes(t, f)
      BY <1>2, <1>4, <2>4, <3>2 DEF Writes, Alone
    <3> QED BY <3>1, <3>3 DEF OneWriter
  <2> QED BY <1>4, <2>3, <2>4 DEF OneSize
<1> QED BY <1>1, <1>3, <1>4, CloseWrites

\* Only fopen gets a thread to where it writes.
LEMMA OthersDoNotWrite ==
  ASSUME Inv, [Next]_vars, NEW t \in Threads,
         \/ t \in Sessions /\ SessionActs(t)
         \/ t \in Inbound /\ InboundActs(t) /\ ~OpenTrustline(t) /\ ~WriteTrustline(t)
  PROVE  pc'[t] # "write_trustline"
<1>0. TypeOK /\ Roles /\ Sessions \cap Inbound = {}
  BY StorageAssumption DEF Inv
<1>1. CASE t \in Sessions
  <2>1. Roles'
    BY <1>0, RolesStep
  <2> QED BY <1>0, <1>1, <2>1 DEF Roles, RoleOf, InboundPcs
<1>2. CASE t \in Inbound
  <2>1. ASSUME NEW l, Goto(t, l)
        PROVE  pc'[t] = l
    BY <1>0, <2>1 DEF Goto, TypeOK
  <2>2. Return(t) => pc'[t] = "idle"
    BY <1>0 DEF Return, TypeOK
  <2>3. CASE InboundCommand(t)
    BY <1>0, <2>3 DEF InboundCommand, SetTrustline, Begin, TypeOK
  <2>4. DirReady(t) => pc'[t] # "write_trustline"
    BY <2>1 DEF DirReady, AfterDirs
  <2>5. CASE StatDir(t) \/ MakeDir(t)
    BY <2>1, <2>2, <2>4, <2>5 DEF StatDir, MakeDir
  <2>6. CASE RemoveTrustline(t)
    BY <2>2, <2>6 DEF RemoveTrustline
  <2> QED BY <1>0, <1>2, <2>3, <2>5, <2>6 DEF InboundActs, InboundStep
<1> QED BY <1>1, <1>2 DEF Threads

LEMMA OneSizeStep ==
  ASSUME Inv, AttendedInv, OneWriter, OneSizeInv, [Next]_vars
  PROVE  OneSizeInv'
<1>0. Sessions \subseteq Threads /\ Inbound \subseteq Threads /\ TypeOK /\ SizesOnly
  BY DEF Threads, Inv, AttendedInv
<1>1. ASSUME faults' = 0, NEW f \in TrustlineFiles
      PROVE  OneSize(f)'
  <2>1. NoFault /\ ~Crash /\ OneSize(f) /\ f \in Files
    BY <1>0, <1>1, FaultsCounted DEF OneSizeInv, Files
  <2>2. ASSUME NEW t \in Threads, Alone(t),
               \/ t \in Sessions /\ SessionActs(t)
               \/ t \in Inbound /\ InboundActs(t) /\ ~OpenTrustline(t) /\ ~WriteTrustline(t)
        PROVE  OneSize(f)'
    <3>1. pc'[t] # "write_trustline"
      BY <2>2, OthersDoNotWrite
    <3>2. Untouched(f) \/ ~Linked(f)'
      BY <2>2, OthersRemove
    <3>3. CASE Untouched(f)
      BY <2>1, <2>2, <3>1, <3>3, LeftOneSize
    <3>4. CASE ~Linked(f)'
      BY <3>4 DEF OneSize
    <3> QED BY <3>2, <3>3, <3>4
  <2>3. ASSUME NEW s \in Sessions, SessionActs(s)
        PROVE  OneSize(f)'
    BY <1>0, <2>2, <2>3, OneThreadActs
  <2>4. ASSUME NEW t \in Inbound, InboundActs(t)
        PROVE  OneSize(f)'
    <3>1. Alone(t)
      BY <1>0, <2>4, OneThreadActs
    <3>2. CASE OpenTrustline(t)
      BY <2>1, <3>1, <3>2, OpenOneSize
    <3>3. CASE WriteTrustline(t)
      BY <1>0, <2>1, <3>1, <3>3, WriteOneSize
    <3>4. CASE ~OpenTrustline(t) /\ ~WriteTrustline(t)
      BY <1>0, <2>2, <2>4, <3>1, <3>4
    <3> QED BY <3>2, <3>3, <3>4
  <2>5. CASE UNCHANGED vars
    BY <2>1, <2>5 DEF vars, storage, local, OneSize, Writes, Linked
  <2> QED BY <2>1, <2>3, <2>4, <2>5 DEF Next, SessionActs, InboundActs
<1> QED BY <1>1 DEF OneSizeInv

\* What server_as_server_handle_set_trustline would need of a lock: if no two
\* connections have the same file open to write it, a trustline file that no
\* thread is writing holds exactly one size that was asked for, whatever
\* sessions delete and register meanwhile.  Nothing in the code sees to the
\* hypothesis; without it the conclusion is false.
THEOREM OneWriterOneRequest == Spec /\ []OneWriter => []TrustlineIsOneRequest
<1>1. Init => AttendedInv /\ OneSizeInv
  BY DEF Init, StorageInit, AttendedInv, SizesOnly, Attended, Linked, Files, Threads, OneSizeInv, OneSize
<1>2. Inv /\ AttendedInv /\ [Next]_vars => AttendedInv'
  BY AttendedStep
<1>3. Inv /\ AttendedInv /\ OneWriter /\ OneSizeInv /\ [Next]_vars => OneSizeInv'
  BY OneSizeStep
<1>4. AttendedInv /\ OneSizeInv => TrustlineIsOneRequest
  <2> SUFFICES ASSUME AttendedInv, OneSizeInv, \A t \in Inbound : pc[t] = "idle", faults = 0,
                      NEW u \in Users, NEW p \in Peers, link[TrustlineFile(u, p)] # NoInode
               PROVE  \E v \in Sizes : data[link[TrustlineFile(u, p)]] = Whole(v)
    BY DEF TrustlineIsOneRequest
  <2> DEFINE f == TrustlineFile(u, p)
  <2>1. f \in TrustlineFiles /\ Linked(f)
    BY DEF TrustlineFiles, Linked
  <2> HIDE DEF f
  <2>2. data[link[f]].len # 0
    BY <2>1 DEF AttendedInv, Attended
  <2>3. Empty.len = 0
    BY StorageAssumption DEF Empty, Whole
  <2>4. \E v \in Sizes : data[link[f]] = Whole(v)
    BY <2>1, <2>2, <2>3 DEF OneSizeInv, OneSize
  <2> QED BY <2>4 DEF f
<1> QED BY <1>1, <1>2, <1>3, <1>4, Invariance, PTL DEF Spec
=============================================================================
