------------------------------ MODULE Storage ------------------------------
(***************************************************************************)
(* The "database" of the server: the directory tree under datadir and the  *)
(* two kinds of files the handlers keep in it.  The layout is the one the  *)
(* snprintf formats of the handlers spell out; the operations are the      *)
(* POSIX calls the handlers make, one operator per call.                   *)
(*                                                                         *)
(*   <<>>                         datadir/accounts                         *)
(*   <<u>>                        datadir/accounts/u                       *)
(*   <<u, "password">>            the password file of u                   *)
(*   <<u, "peers">>, <<u, "peers", d>>, <<u, "peers", d, r>>               *)
(*   <<u, "peers", d, r, "trustline_incoming">>                            *)
(*                                                                         *)
(* datadir itself exists from initialize_database_directories on, and      *)
(* nothing removes it.  A file is a link to an inode; a descriptor refers  *)
(* to the inode, so it survives the file's unlinking.                      *)
(*                                                                         *)
(* A domain and a name are one component of a path each.  Of the name that *)
(* a peer server sends with a SET_TRUSTLINE, which ends up in a path, no   *)
(* code checks it: what is shown here is for peers that send the names of  *)
(* accounts, as this server does when it is the client.                    *)
(***************************************************************************)
EXTENDS Integers, SequencesExt

CONSTANTS
  Sessions,     \* threads of handle_client_connection, one per client
  Inbound,      \* threads of handle_server_connection, one per peer server
  Users,        \* valid account names
  Peers,        \* remote accounts, as pairs <<domain, name>> of one component each
  Values,       \* what files hold: passwords and trustline sizes
  ValueLen,     \* the length in bytes of each value
  Inodes,       \* inode numbers
  NoInode       \* "no such file", "descriptor not open"

VARIABLES
  dirs,   \* the directories that exist
  link,   \* for each file, its inode, or NoInode
  data,   \* for each inode, its content
  fd      \* for each thread, the inode its descriptor refers to, or NoInode

storage == <<dirs, link, data, fd>>

Threads == Sessions \cup Inbound

ASSUME StorageAssumption ==
  /\ Sessions \cap Inbound = {}
  /\ Inodes \subseteq Nat
  /\ NoInode \notin Inodes
  /\ ValueLen \in [Values -> Nat]
  /\ "" \in Values
  /\ \A v \in Values : ValueLen[v] = 0 <=> v = ""

-----------------------------------------------------------------------------
(* Layout.                                                                 *)

AccountsDir        == <<>>
Home(u)            == <<u>>
PeersDir(u)        == <<u, "peers">>
DomainDir(u, p)    == <<u, "peers", p[1]>>
PeerDir(u, p)      == <<u, "peers", p[1], p[2]>>

PasswordFile(u)     == <<u, "password">>
TrustlineFile(u, p) == <<u, "peers", p[1], p[2], "trustline_incoming">>

PasswordFiles  == {PasswordFile(u) : u \in Users}
TrustlineFiles == {TrustlineFile(u, p) : u \in Users, p \in Peers}
Files          == PasswordFiles \cup TrustlineFiles

Dirs ==
  UNION { {AccountsDir},
          {Home(u) : u \in Users},
          {PeersDir(u) : u \in Users},
          {DomainDir(u, p) : u \in Users, p \in Peers},
          {PeerDir(u, p) : u \in Users, p \in Peers} }

(* The directories make_dirs(path) visits: its recursion reaches the       *)
(* outermost one first and path itself last.                               *)
HomeChain(u)    == <<AccountsDir, Home(u)>>
PeerChain(u, p) ==
  <<AccountsDir, Home(u), PeersDir(u), DomainDir(u, p), PeerDir(u, p)>>

-----------------------------------------------------------------------------
(* Contents.  A file holds the bytes of a value; one value written over a  *)
(* longer one leaves the tail of the old bytes, so a content is the value  *)
(* at its start and its length, and is whole when that is all there is.    *)

Content  == [head : Values, len : Nat]
Whole(v) == [head |-> v, len |-> ValueLen[v]]
Empty    == Whole("")

Overwrite(c, v) ==
  IF v = "" THEN c
  ELSE [head |-> v, len |-> IF c.len > ValueLen[v] THEN c.len ELSE ValueLen[v]]

-----------------------------------------------------------------------------
(* Calls.                                                                  *)

Linked(f) == link[f] # NoInode

Children(d) ==
  {e \in dirs : e # AccountsDir /\ Front(e) = d}
    \cup {f \in Files : Linked(f) /\ Front(f) = d}

(* mkdir fails with EEXIST or ENOENT, rmdir with ENOENT or ENOTEMPTY.      *)
CanMkdir(d) == d \notin dirs /\ (d = AccountsDir \/ Front(d) \in dirs)
CanRmdir(d) == d \in dirs /\ Children(d) = {}

FreeInodes ==
  {i \in Inodes : (\A f \in Files : link[f] # i) /\ (\A t \in Threads : fd[t] # i)}

(* open(f, O_WRONLY | O_CREAT) by thread t; truncate adds O_TRUNC, which   *)
(* fopen(f, "w") implies.  There is no O_EXCL.                             *)
OpenForWrite(t, f, truncate) ==
  \/ /\ Linked(f)
     /\ fd' = [fd EXCEPT ![t] = link[f]]
     /\ data' = IF truncate THEN [data EXCEPT ![link[f]] = Empty] ELSE data
     /\ link' = link
  \/ /\ ~Linked(f)
     /\ \E i \in FreeInodes :
          /\ \A j \in FreeInodes : i <= j
          /\ fd' = [fd EXCEPT ![t] = i]
          /\ data' = [data EXCEPT ![i] = Empty]
          /\ link' = [link EXCEPT ![f] = i]

(* The bytes of v written from offset 0 of the open file.                  *)
WriteFd(t, v) == data' = [data EXCEPT ![fd[t]] = Overwrite(data[fd[t]], v)]

Unlink(f) == link' = [link EXCEPT ![f] = NoInode]

-----------------------------------------------------------------------------

StorageTypeOK ==
  /\ dirs \subseteq Dirs
  /\ link \in [Files -> Inodes \cup {NoInode}]
  /\ data \in [Inodes -> Content]
  /\ fd \in [Threads -> Inodes \cup {NoInode}]

StorageInit ==
  /\ dirs = {}
  /\ link = [f \in Files |-> NoInode]
  /\ data = [i \in Inodes |-> Empty]
  /\ fd = [t \in Threads |-> NoInode]
=============================================================================
