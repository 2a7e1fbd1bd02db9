---------------------------- MODULE AccountStore ----------------------------
(***************************************************************************)
(* The account database of one server under its threads.                   *)
(*                                                                         *)
(* A session is a thread of handle_client_connection: it runs REGISTER,    *)
(* LOGIN, LOGOUT and DELETE_ACCOUNT for one client, one command after the  *)
(* other.  An inbound thread runs handle_server_connection: one            *)
(* SET_TRUSTLINE for a peer server (its slot then stands for the next      *)
(* connection).  Nothing in the server locks anything, so between any two  *)
(* storage calls of a handler every other thread may run: an action is one *)
(* storage call with the code up to the next one.                          *)
(*                                                                         *)
(* A command that a handler refuses at once (INVALID_ARGUMENTS, or the     *)
(* answer named beside a guard) changes nothing and is not an action.      *)
(*                                                                         *)
(* A fault is a storage call that fails though its guards hold (no space,  *)
(* no descriptors, an I/O error), or the end of the process; MaxFaults     *)
(* bounds how many a behaviour has.                                        *)
(***************************************************************************)
EXTENDS Storage

CONSTANTS
  Passwords,     \* what clients type as a password, possibly ""
  Sizes,         \* trustline sizes; "0" removes the trustline
  DefaultUser,   \* DEFAULT_USER
  NoUser, NoPeer,
  MaxFaults

VARIABLES
  pc,        \* for each thread, the storage call it makes next
  req,       \* for each thread, the parsed arguments of its command
  todo,      \* for each thread, the directories make_dirs has yet to visit
  unread,    \* for each session, the directories its rm -rf has yet to read
  found,     \* for each session, the entries its rm -rf has yet to remove
  session,   \* for each session, its Session struct
  faults,    \* faults so far
  acked,     \* history: whom REGISTER_SUCCESS went to, with the password
  contended  \* history: whether another change of the account was under
             \* way when the last one began

rm      == <<unread, found>>
local   == <<pc, req, todo, rm, session>>
history == <<acked, contended>>
vars    == <<storage, local, faults, history>>

ASSUME AccountAssumption ==
  /\ Passwords \cup Sizes \subseteq Values
  /\ "" \notin Sizes
  /\ DefaultUser \in Users
  /\ NoUser \notin Users /\ NoPeer \notin Peers
  /\ MaxFaults \in Nat

-----------------------------------------------------------------------------

NoSession == [user |-> NoUser, authenticated |-> FALSE]
NoRequest == [user |-> NoUser, val |-> "", peer |-> NoPeer]
Request   == [user : Users \cup {NoUser}, val : Values, peer : Peers \cup {NoPeer}]

RegisterPcs == {"open_password", "write_password", "unlink_password",
                "rmdir_unopened", "rmdir_unwritten"}
DirPcs      == {"stat_dir", "mkdir"}
LoginPcs    == {"open_login", "read_login"}
InboundPcs  == {"open_trustline", "write_trustline", "remove_trustline"}
PCs         == {"idle", "rm"} \cup RegisterPcs \cup DirPcs \cup LoginPcs \cup InboundPcs

(* The thread starts a command whose next storage call is "where".         *)
Begin(t, where, r, chain) ==
  /\ pc' = [pc EXCEPT ![t] = where]
  /\ req' = [req EXCEPT ![t] = r]
  /\ todo' = [todo EXCEPT ![t] = chain]

Goto(t, where) == pc' = [pc EXCEPT ![t] = where]

(* The handler returns: descriptor closed, locals gone, answer sent.       *)
Return(t) ==
  /\ pc' = [pc EXCEPT ![t] = "idle"]
  /\ req' = [req EXCEPT ![t] = NoRequest]
  /\ todo' = [todo EXCEPT ![t] = <<>>]
  /\ fd' = [fd EXCEPT ![t] = NoInode]

Fault   == faults < MaxFaults /\ faults' = faults + 1
NoFault == faults' = faults

(* Session s is changing account u: registering it, or deleting it.        *)
Changing(s, u) ==
  /\ req[s].user = u
  /\ pc[s] \in {"rm"} \cup RegisterPcs \cup DirPcs

Busy(u) == \E s \in Sessions : Changing(s, u)

-----------------------------------------------------------------------------
(* client_handle_register                                                  *)

\* Mutant: no check that the name is free.
RegisterUnchecked(s, u, p) ==
  /\ pc[s] = "idle"
  /\ Begin(s, "stat_dir", [NoRequest EXCEPT !.user = u, !.val = p], HomeChain(u))
  /\ contended' = [contended EXCEPT ![u] = Busy(u)]
  /\ acked' = IF Busy(u) THEN acked ELSE [acked EXCEPT ![u] = {}]
  /\ UNCHANGED <<storage, rm, session, faults>>

Register(s, u, p) ==
  /\ pc[s] = "idle"
  /\ Home(u) \notin dirs                      \* else USERNAME_EXISTS
  /\ Begin(s, "stat_dir", [NoRequest EXCEPT !.user = u, !.val = p], HomeChain(u))
  /\ contended' = [contended EXCEPT ![u] = Busy(u)]
  /\ acked' = IF Busy(u) THEN acked ELSE [acked EXCEPT ![u] = {}]
  /\ UNCHANGED <<storage, rm, session, faults>>

CreatePassword(s) ==
  /\ pc[s] = "open_password"
  /\ LET u == req[s].user IN
     \/ /\ Home(u) \in dirs
        /\ OpenForWrite(s, PasswordFile(u), FALSE)
        /\ Goto(s, "write_password")
        /\ NoFault
     \/ /\ Home(u) \notin dirs
        /\ Goto(s, "rmdir_unopened")
        /\ NoFault
        /\ UNCHANGED <<link, data, fd>>
     \/ /\ Goto(s, "rmdir_unopened")
        /\ Fault
        /\ UNCHANGED <<link, data, fd>>
  /\ UNCHANGED <<dirs, req, todo, rm, session, history>>

\* Mutant: what write returns is ignored, as set_trustline does.
WritePasswordUnchecked(s) ==
  /\ pc[s] = "write_password"
  /\ \/ WriteFd(s, req[s].val) /\ NoFault
     \/ UNCHANGED data /\ Fault
  /\ Return(s)
  /\ acked' = [acked EXCEPT ![req[s].user] = @ \cup {<<s, req[s].val>>}]
  /\ UNCHANGED <<dirs, link, rm, session, contended>>

WritePassword(s) ==
  /\ pc[s] = "write_password"
  /\ \/ /\ WriteFd(s, req[s].val)
        /\ Return(s)   \* REGISTER_SUCCESS
        /\ acked' = [acked EXCEPT ![req[s].user] = @ \cup {<<s, req[s].val>>}]
        /\ NoFault
     \/ /\ Goto(s, "unlink_password")
        /\ fd' = [fd EXCEPT ![s] = NoInode]
        /\ Fault
        /\ UNCHANGED <<data, req, todo, acked>>
  /\ UNCHANGED <<dirs, link, rm, session, contended>>

\* Mutant: only the directory is removed, with the file still in it.
UnlinkPasswordForgotten(s) ==
  /\ pc[s] = "unlink_password"
  /\ Goto(s, "rmdir_unwritten")
  /\ UNCHANGED <<storage, req, todo, rm, session, faults, history>>

UnlinkPassword(s) ==
  /\ pc[s] = "unlink_password"
  /\ Unlink(PasswordFile(req[s].user))
  /\ Goto(s, "rmdir_unwritten")
  /\ UNCHANGED <<dirs, data, fd, req, todo, rm, session, faults, history>>

\* Mutant: the directory goes whatever is in it.
RemoveHomeForced(s) ==
  /\ pc[s] \in {"rmdir_unopened", "rmdir_unwritten"}
  /\ dirs' = dirs \ {Home(req[s].user)}
  /\ Return(s)
  /\ UNCHANGED <<link, data, rm, session, faults, history>>

RemoveHome(s) ==
  /\ pc[s] \in {"rmdir_unopened", "rmdir_unwritten"}
  /\ LET d == Home(req[s].user) IN
       dirs' = IF CanRmdir(d) THEN dirs \ {d} ELSE dirs
  /\ Return(s)           \* PASSWORD_FILE_CREATION_FAILED, PASSWORD_WRITE_FAILED
  /\ UNCHANGED <<link, data, rm, session, faults, history>>

-----------------------------------------------------------------------------
(* make_dirs: for each directory, outermost first, stat it and, if it is   *)
(* missing, mkdir it.                                                      *)

AfterDirs(t) ==
  IF t \in Sessions THEN "open_password"
  ELSE IF req[t].val = "0" THEN "remove_trustline" ELSE "open_trustline"

DirReady(t) ==
  /\ todo' = [todo EXCEPT ![t] = Tail(todo[t])]
  /\ Goto(t, IF Len(todo[t]) > 1 THEN "stat_dir" ELSE AfterDirs(t))

StatDir(t) ==
  /\ pc[t] = "stat_dir"
  /\ \/ Head(todo[t]) \in dirs /\ DirReady(t)
     \/ Head(todo[t]) \notin dirs /\ Goto(t, "mkdir") /\ UNCHANGED todo
  /\ UNCHANGED <<storage, req, rm, session, faults, history>>

\* Mutant: a failed mkdir goes back to stat.
MakeDirRetrying(t) ==
  /\ pc[t] = "mkdir"
  /\ LET d == Head(todo[t]) IN
     \/ /\ CanMkdir(d)
        /\ dirs' = dirs \cup {d}
        /\ DirReady(t)
     \/ /\ ~CanMkdir(d)
        /\ Goto(t, "stat_dir")
        /\ UNCHANGED <<dirs, todo>>
  /\ UNCHANGED <<link, data, fd, req, rm, session, faults, history>>

MakeDir(t) ==
  /\ pc[t] = "mkdir"
  /\ LET d == Head(todo[t]) IN
     \/ /\ CanMkdir(d)
        /\ dirs' = dirs \cup {d}
        /\ DirReady(t)
        /\ NoFault
        /\ UNCHANGED <<fd, req>>
     \/ /\ ~CanMkdir(d)
        /\ Return(t)   \* DIRECTORY_CREATION_FAILED
        /\ NoFault
        /\ UNCHANGED dirs
     \/ /\ Return(t)   \* DIRECTORY_CREATION_FAILED
        /\ Fault
        /\ UNCHANGED dirs
  /\ UNCHANGED <<link, data, rm, session, history>>

-----------------------------------------------------------------------------
(* client_handle_login, client_handle_logout                               *)

Login(s, u, p) ==
  /\ pc[s] = "idle"
  /\ Home(u) \in dirs                         \* else USERNAME_NOT_FOUND
  /\ Begin(s, "open_login", [NoRequest EXCEPT !.user = u, !.val = p], <<>>)
  /\ UNCHANGED <<storage, rm, session, faults, history>>

\* Mutant: a missing password file is waited for.
OpenLoginWaiting(s) ==
  /\ pc[s] = "open_login"
  /\ Linked(PasswordFile(req[s].user))
  /\ fd' = [fd EXCEPT ![s] = link[PasswordFile(req[s].user)]]
  /\ Goto(s, "read_login")
  /\ UNCHANGED <<dirs, link, data, req, todo, rm, session, faults, history>>

OpenLogin(s) ==
  /\ pc[s] = "open_login"
  /\ LET f == PasswordFile(req[s].user) IN
     \/ /\ Linked(f)
        /\ fd' = [fd EXCEPT ![s] = link[f]]
        /\ Goto(s, "read_login")
        /\ NoFault
        /\ UNCHANGED <<req, todo>>
     \/ /\ ~Linked(f)
        /\ Return(s)   \* PASSWORD_FILE_NOT_FOUND
        /\ NoFault
     \/ /\ Return(s)   \* PASSWORD_FILE_NOT_FOUND
        /\ Fault
  /\ UNCHANGED <<dirs, link, data, rm, session, history>>

ReadLogin(s) ==
  /\ pc[s] = "read_login"
  /\ \/ /\ data[fd[s]] = Whole(req[s].val)
        /\ session' = [session EXCEPT ![s] =
                         [user |-> req[s].user, authenticated |-> TRUE]]
        /\ Return(s)   \* LOGIN_SUCCESS
        /\ NoFault
     \/ /\ data[fd[s]] # Whole(req[s].val)
        /\ Return(s)   \* PASSWORD_INCORRECT
        /\ NoFault
        /\ UNCHANGED session
     \/ /\ Return(s)   \* PASSWORD_READ_FAILED
        /\ Fault
        /\ UNCHANGED session
  /\ UNCHANGED <<dirs, link, data, rm, history>>

(* The username stays in the struct; only the flag is cleared.             *)
Logout(s) ==
  /\ pc[s] = "idle"
  /\ session' = [session EXCEPT ![s].authenticated = FALSE]
  /\ UNCHANGED <<storage, pc, req, todo, rm, faults, history>>

-----------------------------------------------------------------------------
(* client_handle_delete_account: system("rm -rf accounts/u").  rm reads    *)
(* each directory once, removes what it found there, then the directory;   *)
(* what others add to a directory after it was read makes that rmdir fail. *)

\* Mutant: the struct is cleared before the path is made of it.
DeleteAccountCleared(s) ==
  /\ pc[s] = "idle"
  /\ session[s].authenticated
  /\ LET u == session[s].user IN
       /\ Begin(s, "rm", [NoRequest EXCEPT !.user = u], <<>>)
       /\ unread' = [unread EXCEPT ![s] = {AccountsDir}]
       /\ contended' = [contended EXCEPT ![u] = Busy(u)]
       /\ acked' = [acked EXCEPT ![u] = {}]
  /\ UNCHANGED <<storage, found, session, faults>>

DeleteAccount(s) ==
  /\ pc[s] = "idle"
  /\ session[s].authenticated                 \* else AUTH_REQUIRED
  /\ LET u == session[s].user IN
       /\ Begin(s, "rm", [NoRequest EXCEPT !.user = u], <<>>)
       /\ unread' = [unread EXCEPT ![s] = {Home(u)}]
       /\ contended' = [contended EXCEPT ![u] = Busy(u)]
       /\ acked' = [acked EXCEPT ![u] = {}]
  /\ UNCHANGED <<storage, found, session, faults>>

RmRead(s) ==
  /\ pc[s] = "rm"
  /\ \E d \in unread[s] :
       /\ found' = [found EXCEPT ![s] = @ \cup Children(d)]
       /\ unread' = [unread EXCEPT ![s] = (@ \ {d}) \cup (Children(d) \cap dirs)]
  /\ UNCHANGED <<storage, pc, req, todo, session, faults, history>>

(* The entry rm tries next: read, and all that was found in it tried.      *)
Due(s, e) ==
  /\ e \in found[s] \ unread[s]
  /\ \A x \in found[s] : Front(x) # e

RmEntry(s) ==
  /\ pc[s] = "rm"
  /\ \E e \in found[s] :
       /\ Due(s, e) /\ Children(e) = {}
       /\ dirs' = dirs \ {e}
       /\ link' = [f \in Files |-> IF f = e THEN NoInode ELSE link[f]]
       /\ found' = [found EXCEPT ![s] = @ \ {e}]
  /\ UNCHANGED <<data, fd, pc, req, todo, unread, session, faults, history>>

\* Mutant: rm removes what it finds in the account, and not the account.
RmDoneContents(s) ==
  /\ pc[s] = "rm"
  /\ unread[s] = {} /\ found[s] = {}
  /\ session' = [session EXCEPT ![s] = NoSession]
  /\ NoFault
  /\ Return(s)
  /\ unread' = [unread EXCEPT ![s] = {}]
  /\ found' = [found EXCEPT ![s] = {}]
  /\ UNCHANGED <<dirs, link, data, history>>

RmDone(s) ==
  /\ pc[s] = "rm"
  /\ LET d == Home(req[s].user) IN
     \/ /\ unread[s] = {} /\ found[s] = {}
        /\ d \in dirs => CanRmdir(d)
        /\ dirs' = dirs \ {d}
        /\ session' = [session EXCEPT ![s] = NoSession]
        /\ NoFault                             \* USER_DELETED_SUCCESSFULLY
     \/ /\ unread[s] = {}
        /\ \A e \in found[s] : Due(s, e) => Children(e) # {}
        /\ found[s] = {} => d \in dirs /\ Children(d) # {}
        /\ NoFault                             \* FAILED_TO_DELETE_USER
        /\ UNCHANGED <<dirs, session>>
     \/ /\ Fault                               \* rm cut short: FAILED_TO_DELETE_USER
        /\ UNCHANGED <<dirs, session>>
  /\ Return(s)
  /\ unread' = [unread EXCEPT ![s] = {}]
  /\ found' = [found EXCEPT ![s] = {}]
  /\ UNCHANGED <<link, data, history>>

-----------------------------------------------------------------------------
(* server_as_server_handle_set_trustline.  The addressee "none" is the     *)
(* default account.  What remove and fclose return is ignored.             *)

LocalUser(name) == IF name = "none" THEN DefaultUser ELSE name

SetTrustline(t, name, p, size) ==
  /\ pc[t] = "idle"
  /\ LET u == LocalUser(name) IN
       /\ Home(u) \in dirs                    \* else FAILED_TO_ACCESS_USER_DIRECTORY
       /\ Begin(t, "stat_dir", [user |-> u, val |-> size, peer |-> p], PeerChain(u, p))
  /\ UNCHANGED <<storage, rm, session, faults, history>>

RequestFile(t) == TrustlineFile(req[t].user, req[t].peer)

RemoveTrustline(t) ==
  /\ pc[t] = "remove_trustline"
  /\ Unlink(RequestFile(t))
  /\ Return(t)   \* TRUSTLINE_SET_SUCCESSFULLY
  /\ UNCHANGED <<dirs, data, rm, session, faults, history>>

\* Mutant: opened without O_TRUNC, as the password file is.
OpenTrustlineKeeping(t) ==
  /\ pc[t] = "open_trustline"
  /\ PeerDir(req[t].user, req[t].peer) \in dirs
  /\ OpenForWrite(t, RequestFile(t), FALSE)
  /\ Goto(t, "write_trustline")
  /\ UNCHANGED <<dirs, req, todo, rm, session, faults, history>>

OpenTrustline(t) ==
  /\ pc[t] = "open_trustline"
  /\ LET d == PeerDir(req[t].user, req[t].peer) IN
     \/ /\ d \in dirs
        /\ OpenForWrite(t, RequestFile(t), TRUE)
        /\ Goto(t, "write_trustline")
        /\ NoFault
        /\ UNCHANGED <<req, todo>>
     \/ /\ d \notin dirs
        /\ Return(t)   \* FAILED_TO_OPEN_FILE
        /\ NoFault
        /\ UNCHANGED <<link, data>>
     \/ /\ Return(t)   \* FAILED_TO_OPEN_FILE
        /\ Fault
        /\ UNCHANGED <<link, data>>
  /\ UNCHANGED <<dirs, rm, session, history>>

\* Mutant: no fclose, so the buffered size never reaches the file.
WriteTrustlineUnflushed(t) ==
  /\ pc[t] = "write_trustline"
  /\ Return(t)
  /\ UNCHANGED <<dirs, link, data, rm, session, faults, history>>

(* fprintf fills the stdio buffer, fclose writes it.                       *)
WriteTrustline(t) ==
  /\ pc[t] = "write_trustline"
  /\ \/ WriteFd(t, req[t].val) /\ NoFault
     \/ UNCHANGED data /\ Fault
  /\ Return(t)   \* TRUSTLINE_SET_SUCCESSFULLY
  /\ UNCHANGED <<dirs, link, rm, session, history>>

-----------------------------------------------------------------------------
(* The rest of a connection's life.                                        *)

(* SSL_read returns 0 or less: the thread ends, its Session with it, and   *)
(* the slot stands for a later connection.                                 *)
Disconnect(s) ==
  /\ pc[s] = "idle"
  /\ session' = [session EXCEPT ![s] = NoSession]
  /\ UNCHANGED <<storage, pc, req, todo, rm, faults, history>>

(* The server process ends and is started anew.  A running rm is a process *)
(* of its own and goes on; its thread's Session is lost.                   *)
Crash ==
  /\ Fault
  /\ LET Gone == {t \in Threads : pc[t] # "rm"} IN
       /\ pc' = [t \in Threads |-> IF t \in Gone THEN "idle" ELSE pc[t]]
       /\ req' = [t \in Threads |-> IF t \in Gone THEN NoRequest ELSE req[t]]
       /\ todo' = [t \in Threads |-> <<>>]
  /\ fd' = [t \in Threads |-> NoInode]
  /\ session' = [s \in Sessions |-> NoSession]
  /\ UNCHANGED <<dirs, link, data, rm, history>>

-----------------------------------------------------------------------------

Init ==
  /\ StorageInit
  /\ pc = [t \in Threads |-> "idle"]
  /\ req = [t \in Threads |-> NoRequest]
  /\ todo = [t \in Threads |-> <<>>]
  /\ unread = [s \in Sessions |-> {}]
  /\ found = [s \in Sessions |-> {}]
  /\ session = [s \in Sessions |-> NoSession]
  /\ faults = 0
  /\ acked = [u \in Users |-> {}]
  /\ contended = [u \in Users |-> FALSE]

SessionCommand(s) ==
  \/ \E u \in Users, p \in Passwords : Register(s, u, p) \/ Login(s, u, p)
  \/ Logout(s) \/ DeleteAccount(s) \/ Disconnect(s)

SessionStep(s) ==
  \/ StatDir(s) \/ MakeDir(s)
  \/ CreatePassword(s) \/ WritePassword(s) \/ UnlinkPassword(s) \/ RemoveHome(s)
  \/ OpenLogin(s) \/ ReadLogin(s)
  \/ RmRead(s) \/ RmEntry(s) \/ RmDone(s)

InboundCommand(t) ==
  \E n \in Users \cup {"none"}, p \in Peers, z \in Sizes : SetTrustline(t, n, p, z)

InboundStep(t) ==
  \/ StatDir(t) \/ MakeDir(t)
  \/ RemoveTrustline(t) \/ OpenTrustline(t) \/ WriteTrustline(t)

Next ==
  \/ \E s \in Sessions : SessionCommand(s) \/ SessionStep(s)
  \/ \E t \in Inbound : InboundCommand(t) \/ InboundStep(t)
  \/ Crash

Spec == Init /\ [][Next]_vars

(* The kernel eventually runs a runnable thread, and the rm it waits for.  *)
Fairness ==
  /\ \A s \in Sessions : WF_vars(SessionStep(s))
  /\ \A t \in Inbound : WF_vars(InboundStep(t))

FairSpec == Spec /\ Fairness

-----------------------------------------------------------------------------

TypeOK ==
  /\ StorageTypeOK
  /\ pc \in [Threads -> PCs]
  /\ req \in [Threads -> Request]
  /\ todo \in [Threads -> Seq(Dirs)]
  /\ unread \in [Sessions -> SUBSET Dirs]
  /\ found \in [Sessions -> SUBSET (Dirs \cup Files)]
  /\ session \in [Sessions -> [user : Users \cup {NoUser}, authenticated : BOOLEAN]]
  /\ faults \in 0..MaxFaults
  /\ acked \in [Users -> SUBSET (Sessions \X Passwords)]
  /\ contended \in [Users -> BOOLEAN]

(* An account is settled when its password file exists and no session is   *)
(* registering or deleting it.                                             *)
Settled(u) == Linked(PasswordFile(u)) /\ ~Busy(u)

StoredPassword(u) == data[link[PasswordFile(u)]]

(* Whatever the threads do, a settled account keeps its password: no step  *)
(* touches the file or its content, and no REGISTER of that name gets past *)
(* the existence check, until a session starts to delete the account.      *)
SettledAccountKeepsPassword ==
  [][\A u \in Users : Settled(u) =>
       /\ Linked(PasswordFile(u))'
       /\ StoredPassword(u)' = StoredPassword(u)
       /\ \A s \in Sessions : Changing(s, u)' => pc[s]' = "rm"]_vars

(* What REGISTER_SUCCESS promises: unless another registration or deletion *)
(* of the name overlapped, nobody else was told so, the account is there   *)
(* and its password file holds exactly the password the client chose -     *)
(* also after faults and a restart, until the account is deleted.          *)
RegistrationDurable ==
  \A u \in Users : \A a \in acked[u] :
    ~contended[u] =>
      /\ acked[u] = {a}
      /\ Home(u) \in dirs
      /\ Linked(PasswordFile(u))
      /\ StoredPassword(u) = Whole(a[2])

(* What the clean-up of client_handle_register is for: a registration that *)
(* nobody contended leaves the name free when it ends without              *)
(* REGISTER_SUCCESS, whichever call failed before, so that it can be tried *)
(* again.  It is a property of sessions alone: a SET_TRUSTLINE may make    *)
(* the directory again.  (A step that counts a fault is a crash, or a      *)
(* mkdir that made nothing.)                                               *)
FailedRegistrationFreesName ==
  [][\A s \in Sessions :
       LET u == req[s].user IN
         /\ pc[s] \in RegisterPcs \cup DirPcs /\ pc'[s] = "idle" /\ faults' = faults
         /\ acked'[u] = acked[u] /\ ~contended[u]
         => Home(u) \notin dirs']_vars

(* Without faults, a trustline file that holds nothing is one that a       *)
(* SET_TRUSTLINE is about to write.                                        *)
TrustlineFilesComplete ==
  faults = 0 =>
    \A u \in Users, p \in Peers :
      LET i == link[TrustlineFile(u, p)] IN
      i # NoInode /\ data[i].len = 0 =>
        \E t \in Inbound : pc[t] = "write_trustline" /\ fd[t] = i

(* Every command is answered: no path of a handler, and no interference    *)
(* by other threads with the files under it, leaves its thread stuck.      *)
CommandsAnswered == \A t \in Threads : pc[t] # "idle" ~> pc[t] = "idle"

-----------------------------------------------------------------------------
(* What the code's own comments say of the store, and the interleavings    *)
(* that break it.                                                          *)

(* "Check if user directory already exists" ... "Registration successful": *)
(* of the clients that register one name, one is told it succeeded.        *)
OneRegistrant == \A u \in Users : \A a, b \in acked[u] : a = b

(* "else update it" ... "Write the trustline information to the file": with *)
(* no SET_TRUSTLINE under way and no fault, a trustline file holds exactly   *)
(* the size one request carried.                                           *)
TrustlineIsOneRequest ==
  (\A t \in Inbound : pc[t] = "idle") /\ faults = 0 =>
    \A u \in Users, p \in Peers :
      LET i == link[TrustlineFile(u, p)] IN
      i # NoInode => \E v \in Sizes : data[i] = Whole(v)

(* "Delete the user directory and all its contents": with no command under *)
(* way and no fault, an account directory has its password file; there are *)
(* no remains that can be neither logged in to nor registered.             *)
NoRemains ==
  (\A t \in Threads : pc[t] = "idle") /\ faults = 0 =>
    \A u \in Users : Home(u) \in dirs => Linked(PasswordFile(u))
=============================================================================
