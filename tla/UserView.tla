------------------------------ MODULE UserView ------------------------------
(***************************************************************************)
(* What users may expect of the commands they type, as the prompts and the *)
(* comments of the handlers have it: a command is done once and as typed,  *)
(* with the defaults the prompts name for what is left empty, or it is     *)
(* refused for a reason that holds, and then changes nothing; and what the *)
(* application prints says which of the two, and the reason.  There are no *)
(* messages, buffers or threads here.                                      *)
(*                                                                         *)
(* Who is logged in stays so when another user deletes the account: that   *)
(* is the subject of AuthenticatedInteraction in Commands.                 *)
(***************************************************************************)
EXTENDS Words

CONSTANTS
  Clients, Home, Endpoints, RemoteAccounts,
  Typeable     \* the commands users may type, with their lines

VARIABLES
  accounts,    \* the password of each account at Home
  trustlines,  \* the trustlines of all servers
  connections, \* the accounts that those at Home are connected to
  login,       \* the account each user is logged in to, <<>> or <<name>>
  command,     \* the command each user has typed
  stage        \* "idle", "asked", "done" or why it was refused, for each user

NoCommand == [kind |-> "none", lines |-> <<>>]

OrDefault(line, w) == IF line = <<>> THEN w ELSE line[1]

Default == Word("default")

\* The server an address and a port line name: all that is empty is Home's.
Peer(c) ==
  LET ls == command[c].lines
  IN <<OrDefault(ls[2], Word("localhost")), IF ls[3] = <<>> THEN 2012 ELSE PortNumber(ls[3][1])>>

AccountsAt(s) == IF s = Home THEN DOMAIN accounts ELSE RemoteAccounts

Names(c)  == OrDefault(command[c].lines[1], Default)
Amount(c) == OrDefault(command[c].lines[4], Numeral(<<0>>))
Secret(c) == command[c].lines[2]

IsZero(w) == \A i \in DOMAIN w.digits : w.digits[i] = 0

Connection(c) == [of |-> login[c][1], at |-> Endpoints[Peer(c)], to |-> Names(c)]

\* Why a command cannot be done.
Reasons(c) ==
  LET k        == command[c].kind
      Login    == k \in {"DELETE_ACCOUNT", "ADD_CONNECTION", "SET_TRUSTLINE"}
      Remote   == k \in {"ADD_CONNECTION", "SET_TRUSTLINE"}
      loggedIn == login[c] # <<>>
      known    == Peer(c) \in DOMAIN Endpoints
  IN {why \in {"taken", "unknown user", "wrong password", "logged out", "not confirmed",
               "no server", "no account", "own account", "connected"} :
        \/ why = "taken" /\ k = "REGISTER" /\ Names(c) \in DOMAIN accounts
        \/ why = "unknown user" /\ k = "LOGIN" /\ Names(c) \notin DOMAIN accounts
        \/ /\ why = "wrong password" /\ k = "LOGIN"
           /\ Names(c) \in DOMAIN accounts /\ accounts[Names(c)] # Secret(c)
        \/ why = "logged out" /\ Login /\ ~loggedIn
        \* "Confirm delete by re-entering your username"
        \/ /\ why = "not confirmed" /\ k = "DELETE_ACCOUNT"
           /\ loggedIn /\ command[c].lines[1] # login[c]
        \/ why = "no server" /\ Remote /\ ~known
        \/ /\ why = "no account" /\ Remote
           /\ known /\ Names(c) \notin AccountsAt(Endpoints[Peer(c)])
        \* "Prevent adding self as a connection"
        \/ /\ why = "own account" /\ k = "ADD_CONNECTION" /\ loggedIn /\ known
           /\ Endpoints[Peer(c)] = Home /\ Names(c) = login[c][1]
        \/ /\ why = "connected" /\ k = "ADD_CONNECTION" /\ loggedIn /\ known
           /\ Connection(c) \in connections}

Ask(c, cmd) ==
  /\ stage[c] = "idle"
  /\ stage' = [stage EXCEPT ![c] = "asked"]
  /\ command' = [command EXCEPT ![c] = cmd]
  /\ UNCHANGED <<accounts, trustlines, connections, login>>

Refuse(c) ==
  /\ stage[c] = "asked"
  /\ \E why \in Reasons(c) : stage' = [stage EXCEPT ![c] = why]
  /\ UNCHANGED <<accounts, trustlines, connections, login, command>>

Enter(c, l) == login' = [login EXCEPT ![c] = l]

Delete(u) ==
  /\ accounts' = [v \in DOMAIN accounts \ {u} |-> accounts[v]]
  /\ trustlines' = {t \in trustlines : ~(t.at = Home /\ t.of = u)}
  /\ connections' = {x \in connections : x.of # u}

Trust(c) ==
  LET line == [at |-> Endpoints[Peer(c)], of |-> Names(c), by |-> login[c][1]]
      kept == {t \in trustlines : <<t.at, t.of, t.by>> # <<line.at, line.of, line.by>>}
  IN trustlines' = IF IsZero(Amount(c)) THEN kept ELSE kept \cup {line @@ [size |-> Amount(c)]}

Perform(c) ==
  /\ stage[c] = "asked" /\ Reasons(c) = {}
  /\ stage' = [stage EXCEPT ![c] = "done"]
  /\ \/ /\ command[c].kind = "LOGOUT"
        /\ Enter(c, <<>>) /\ UNCHANGED <<accounts, trustlines, connections>>
     \/ /\ command[c].kind = "REGISTER"
        /\ accounts' = [u \in DOMAIN accounts \cup {Names(c)} |->
                          IF u = Names(c) THEN Secret(c) ELSE accounts[u]]
        /\ UNCHANGED <<login, trustlines, connections>>
     \/ /\ command[c].kind = "LOGIN"
        /\ Enter(c, <<Names(c)>>) /\ UNCHANGED <<accounts, trustlines, connections>>
     \/ /\ command[c].kind = "DELETE_ACCOUNT"
        /\ Delete(login[c][1]) /\ Enter(c, <<>>)
     \/ /\ command[c].kind = "ADD_CONNECTION"
        /\ connections' = connections \cup {Connection(c)}
        /\ UNCHANGED <<accounts, trustlines, login>>
     \/ /\ command[c].kind = "SET_TRUSTLINE"
        /\ Trust(c) /\ UNCHANGED <<accounts, connections, login>>
  /\ UNCHANGED command

(* The user is told, and free to type again.                               *)
Told(c) ==
  /\ stage[c] \notin {"idle", "asked"}
  /\ stage' = [stage EXCEPT ![c] = "idle"]
  /\ command' = [command EXCEPT ![c] = NoCommand]
  /\ UNCHANGED <<accounts, trustlines, connections, login>>

(* Users that leave are logged out.                                        *)
Leave(c) ==
  /\ stage[c] = "idle"
  /\ Enter(c, <<>>)
  /\ UNCHANGED <<accounts, trustlines, connections, command, stage>>

Init ==
  /\ accounts = <<>> /\ trustlines = {} /\ connections = {}
  /\ login = [c \in Clients |-> <<>>]
  /\ command = [c \in Clients |-> NoCommand]
  /\ stage = [c \in Clients |-> "idle"]

Next ==
  \E c \in Clients :
    \/ \E cmd \in Typeable : Ask(c, cmd)
    \/ Refuse(c) \/ Perform(c) \/ Told(c) \/ Leave(c)

Spec == Init /\ [][Next]_<<accounts, trustlines, connections, login, command, stage>>
=============================================================================
