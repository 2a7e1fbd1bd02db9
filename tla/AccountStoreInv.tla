-------------------------- MODULE AccountStoreInv ---------------------------
(***************************************************************************)
(* The inductive invariant of AccountStore: what the handlers rely on      *)
(* between two storage calls, and nothing locks.                           *)
(***************************************************************************)
EXTENDS AccountStore

\* A handler runs on its own kind of thread, with arguments it has parsed.
RoleOf(t) ==
  /\ pc[t] # "idle" => req[t].user \in Users
  /\ pc[t] \in DirPcs => todo[t] # <<>>
  /\ pc[t] \in InboundPcs => t \in Inbound
  /\ pc[t] \in RegisterPcs \cup LoginPcs \cup {"rm"} => t \in Sessions
  /\ t \in Inbound /\ pc[t] # "idle" => req[t].peer \in Peers
  /\ t \in Sessions /\ pc[t] \in RegisterPcs \cup DirPcs => req[t].val \in Passwords

Roles ==
  /\ \A t \in Threads : RoleOf(t)
  /\ \A s \in Sessions : session[s].authenticated => session[s].user \in Users

\* The store is a tree: a file is in a directory that exists, and under one
\* name only.
Tree ==
  /\ \A f \in Files : Linked(f) => Front(f) \in dirs
  /\ \A f, g \in Files : Linked(f) /\ link[f] = link[g] => f = g

\* The file a thread's command writes.
TargetFile(t) == IF t \in Sessions THEN PasswordFile(req[t].user) ELSE RequestFile(t)

\* Who writes holds the inode of its own file, or of a file since removed;
\* who reads a password has a file open.
DescriptorOf(t) ==
  /\ pc[t] \in {"write_password", "write_trustline"} =>
       /\ fd[t] \in Inodes
       /\ \A f \in Files : link[f] = fd[t] => f = TargetFile(t)
  /\ pc[t] = "read_login" => fd[t] \in Inodes

Descriptors == \A t \in Threads : DescriptorOf(t)

\* rm stays below the directory it was given.
RmBelow ==
  \A s \in Sessions :
    /\ pc[s] # "rm" => unread[s] = {} /\ found[s] = {}
    /\ \A e \in unread[s] : e # AccountsDir /\ e[1] = req[s].user
    /\ \A e \in found[s] : e[1] = req[s].user

\* An account that is not contended has at most one session changing it.
\* While that one registers, nothing is promised yet, and the password file
\* is missing until it makes it, and then is the empty file it has open.
OneChangerOf(u) ==
  ~contended[u] =>
    /\ \A s, r \in Sessions : Changing(s, u) /\ Changing(r, u) => s = r
    /\ Busy(u) => acked[u] = {}
    /\ \A s \in Sessions : req[s].user = u =>
         /\ pc[s] \in DirPcs \cup {"open_password"} => ~Linked(PasswordFile(u))
         /\ pc[s] = "write_password" =>
              link[PasswordFile(u)] = fd[s] /\ data[fd[s]] = Empty

\* What was promised of an account nobody contended was promised once, and
\* is on the disk.
KeptOf(u) ==
  ~contended[u] =>
    \A a \in acked[u] :
      acked[u] = {a} /\ Linked(PasswordFile(u)) /\ StoredPassword(u) = Whole(a[2])

Accounts == \A u \in Users : OneChangerOf(u) /\ KeptOf(u)

Inv == TypeOK /\ Roles /\ Tree /\ Descriptors /\ RmBelow /\ Accounts
=============================================================================
