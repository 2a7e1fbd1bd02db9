------------------------------ MODULE Commands ------------------------------
(***************************************************************************)
(* What becomes of the commands users type: the client application asks    *)
(* for the parts of a command, checks them and sends one message; the      *)
(* client thread of the server takes every read of up to 255 bytes for a   *)
(* command, dispatches it, parses its arguments again and answers; for     *)
(* SET_TRUSTLINE it composes a query that a remote server reads, parses    *)
(* and carries out; the application prints what it reads next.             *)
(*                                                                         *)
(* A handler is one step here, remote part included: what its storage      *)
(* calls do to one another is AccountStore's subject, what becomes of the  *)
(* connections is that of Requests.  The remote servers run the same       *)
(* program; "localhost" is the clients' own server.                        *)
(***************************************************************************)
EXTENDS Words

CONSTANTS
  Clients,
  Lines,           \* for each prompt, the lines users type
  Home,            \* the server of the clients
  Endpoints,       \* the server behind each address and port number
  RemoteAccounts,  \* the accounts of the servers other than Home
  MaxUnread        \* bounds the messages and replies left on a connection

VARIABLES
  prompt,      \* for each application, "typing", "waiting" or "gone"
  typed,       \* for each application, the command it waits for an answer to
  inbox,       \* for each client thread, what its next SSL_reads will return
  replies,     \* for each application, the replies it has not read
  session,     \* for each client thread, its Session struct
  accounts,    \* the password of each account at Home
  trustlines,  \* the trustline_incoming files of all servers
  gave,        \* history: the password each session logged in with
  fits         \* history: whether every command of a connection fitted in a read

connection == <<prompt, typed, inbox, replies, fits>>
vars       == <<connection, session, accounts, trustlines, gave>>

\* Mutant: the client thread keeps another byte of its buffer free.
ReadMaxLessOne == 254
ReadMax  == 255   \* bytes of a command the client thread reads at once

QueryMax == 256   \* bytes of a query a server reads, once

DefaultUser == Word("default")
Success     == "TRUSTLINE_SET_SUCCESSFULLY"

NoCommand   == [kind |-> "none", lines |-> <<>>]

Prompts ==
  [LOGIN          |-> <<"username", "password">>,
   REGISTER       |-> <<"username", "password">>,
   LOGOUT         |-> <<>>,
   DELETE_ACCOUNT |-> <<"confirmation">>,
   ADD_CONNECTION |-> <<"peer", "address", "port">>,
   SET_TRUSTLINE  |-> <<"peer", "address", "port", "size">>]

\* No user types the name of a command among its arguments, where the rest of
\* a message that is read in parts would start with it.
ASSUME LinesAssumption ==
  \A p \in DOMAIN Lines : \A line \in Lines[p] : \A i \in DOMAIN line :
    \A k \in DOMAIN Prompts : line[i] # Word(k)

-----------------------------------------------------------------------------
(* The client application.                                                 *)

Valid(p, line) ==
  CASE p \in {"username", "peer"}         -> isValidUsername(line)
    [] p = "address"                      -> isValidArgument(line)
    [] p = "port"                         -> isValidPort(line)
    [] p = "size"                         -> isNumber(line)
    [] p \in {"password", "confirmation"} -> TRUE

\* An empty line leaves nothing between the two blanks around it.
Nothing    == [text |-> "nothing", from |-> 0, len |-> 0]
AsIs(line) == IF line = <<>> THEN <<Nothing>> ELSE line

OrNone(line) == IF line = <<>> THEN <<Word("none")>> ELSE line

(* The words snprintf is given, command by command.                        *)
Text(k, ls) ==
  CASE k = "LOGOUT"              -> <<Word(k)>>
    [] k = "DELETE_ACCOUNT"      -> <<Word(k)>> \o AsIs(ls[1])
    [] k \in {"LOGIN", "REGISTER"} -> <<Word(k)>> \o AsIs(ls[1]) \o AsIs(ls[2])
    [] k = "ADD_CONNECTION"      -> <<Word(k)>> \o OrNone(ls[1]) \o OrNone(ls[2]) \o OrNone(ls[3])
    [] k = "SET_TRUSTLINE"       ->
         <<Word(k)>> \o OrNone(ls[1]) \o OrNone(ls[2]) \o OrNone(ls[3]) \o OrNone(ls[4])

(* The message it composes; that of ADD_CONNECTION is cut at 511 bytes, and *)
(* a newline ends LOGIN and REGISTER.                                      *)
Message(k, ls) ==
  LET words == Text(k, ls)
      bytes == Bytes(words)
  IN CASE k = "ADD_CONNECTION"        -> [words |-> Slice(words, 0, 511), bytes |-> Min({bytes, 511})]
       [] k \in {"LOGIN", "REGISTER"} -> [words |-> words, bytes |-> bytes + 1]
       [] OTHER                       -> [words |-> words, bytes |-> bytes]

\* Mutant: a message of exactly 255 bytes takes two.
ReadsOver(m) ==
  IF ~(m.bytes < ReadMax)
  THEN [i \in 1..m.bytes \div ReadMax + 1 |-> Slice(m.words, (i - 1) * ReadMax, ReadMax)]
  ELSE <<Slice(m.words, 0, ReadMax)>>

\* The reads a message takes: no read goes on into the next message.
Reads(m) ==
  IF m.bytes > ReadMax
  THEN [i \in 1..(m.bytes + ReadMax - 1) \div ReadMax |->
          Slice(m.words, (i - 1) * ReadMax, ReadMax)]
  ELSE <<Slice(m.words, 0, ReadMax)>>

Compose(k, ls) ==
  LET m == Message(k, ls)
  IN [cmd |-> [kind |-> k, lines |-> ls], reads |-> Reads(m), fits |-> ~(m.bytes > ReadMax)]

\* What users can make the application send: a line that is not valid is
\* asked for again, or the command given up.
Typeable ==
  UNION {
    LET p == Prompts[k]
        L == [i \in 1..4 |-> IF i \in DOMAIN p THEN {l \in Lines[p[i]] : Valid(p[i], l)} ELSE {<<>>}]
    IN {Compose(k, SubSeq(ls, 1, Len(p))) : ls \in L[1] \X L[2] \X L[3] \X L[4]}
    : k \in DOMAIN Prompts}

Unread(c) == Len(inbox[c]) + Len(replies[c])

Type(c, m) ==
  /\ prompt[c] = "typing"
  /\ Unread(c) <= MaxUnread
  /\ inbox' = [inbox EXCEPT ![c] = @ \o m.reads]
  /\ fits' = [fits EXCEPT ![c] = @ /\ m.fits]
  /\ typed' = [typed EXCEPT ![c] = m.cmd]
  /\ prompt' = [prompt EXCEPT ![c] = "waiting"]
  /\ UNCHANGED <<replies, session, accounts, trustlines, gave>>

(* One SSL_read, which returns what one SSL_write of the server sent.      *)
Receive(c) ==
  /\ prompt[c] = "waiting" /\ replies[c] # <<>>
  /\ replies' = [replies EXCEPT ![c] = Tail(@)]
  /\ prompt' = [prompt EXCEPT ![c] = "typing"]
  /\ typed' = [typed EXCEPT ![c] = NoCommand]
  /\ UNCHANGED <<inbox, fits, session, accounts, trustlines, gave>>

Exit(c) ==
  /\ prompt[c] = "typing"
  /\ prompt' = [prompt EXCEPT ![c] = "gone"]
  /\ UNCHANGED <<typed, inbox, replies, fits, session, accounts, trustlines, gave>>

-----------------------------------------------------------------------------
(* The client thread: what it reads, and how it answers.                   *)

Args(c)    == Tail(Head(inbox[c]))
Asks(c, k) == inbox[c] # <<>> /\ Head(inbox[c]) # <<>> /\ Head(inbox[c])[1] = Word(k)

Answer(c, r) ==
  /\ inbox' = [inbox EXCEPT ![c] = Tail(@)]
  /\ replies' = [replies EXCEPT ![c] = Append(@, r)]
  /\ UNCHANGED <<prompt, typed, fits>>

NoSession == [user |-> <<>>, authenticated |-> FALSE]
User(c)   == session[c].user[1]

(* The rest of a long command, whose first word is no command.             *)
InvalidCommand(c) ==
  /\ inbox[c] # <<>> /\ \A k \in DOMAIN Prompts : ~Asks(c, k)
  /\ Answer(c, "INVALID_COMMAND")
  /\ UNCHANGED <<session, accounts, trustlines, gave>>

\* The first argument is a user name.
Named(c) == Args(c) # <<>> /\ isValidUsername(<<Args(c)[1]>>)

\* The second argument: one word, or none.
Password(c) == SubSeq(Args(c), 2, Min({2, Len(Args(c))}))

Register(c) ==
  /\ Asks(c, "REGISTER")
  /\ \/ ~Named(c) /\ Answer(c, "INVALID_USERNAME") /\ UNCHANGED accounts
     \/ /\ Named(c) /\ Args(c)[1] \in DOMAIN accounts
        /\ Answer(c, "USERNAME_EXISTS")
        /\ UNCHANGED accounts
     \/ /\ Named(c) /\ Args(c)[1] \notin DOMAIN accounts
        /\ accounts' = [u \in DOMAIN accounts \cup {Args(c)[1]} |->
                          IF u = Args(c)[1] THEN Password(c) ELSE accounts[u]]
        /\ Answer(c, "REGISTER_SUCCESS")
  /\ UNCHANGED <<session, trustlines, gave>>

Login(c) ==
  /\ Asks(c, "LOGIN")
  /\ \/ ~Named(c) /\ Answer(c, "INVALID_USERNAME") /\ UNCHANGED <<session, gave>>
     \/ /\ Named(c) /\ Args(c)[1] \notin DOMAIN accounts
        /\ Answer(c, "USERNAME_NOT_FOUND")
        /\ UNCHANGED <<session, gave>>
     \/ /\ Named(c) /\ Args(c)[1] \in DOMAIN accounts
        /\ accounts[Args(c)[1]] # Password(c)
        /\ Answer(c, "PASSWORD_INCORRECT")
        /\ UNCHANGED <<session, gave>>
     \/ /\ Named(c) /\ Args(c)[1] \in DOMAIN accounts
        /\ accounts[Args(c)[1]] = Password(c)
        /\ session' = [session EXCEPT ![c] = [user |-> <<Args(c)[1]>>, authenticated |-> TRUE]]
        /\ gave' = [gave EXCEPT ![c] = Password(c)]
        /\ Answer(c, "LOGIN_SUCCESS")
  /\ UNCHANGED <<accounts, trustlines>>

\* Mutant: the handler sends its answer, and so does the dispatcher.
LogoutTwice(c) ==
  /\ Asks(c, "LOGOUT")
  /\ session' = [session EXCEPT ![c] = [user |-> session[c].user, authenticated |-> FALSE]]
  /\ inbox' = [inbox EXCEPT ![c] = Tail(@)]
  /\ replies' = [replies EXCEPT ![c] = @ \o <<"LOGOUT_SUCCESS", "LOGOUT_SUCCESS">>]
  /\ UNCHANGED <<prompt, typed, fits, accounts, trustlines, gave>>

Logout(c) ==
  /\ Asks(c, "LOGOUT")
  /\ session' = [session EXCEPT ![c] = [user |-> session[c].user, authenticated |-> FALSE]]
  /\ Answer(c, "LOGOUT_SUCCESS")
  /\ UNCHANGED <<accounts, trustlines, gave>>

\* Mutant: a deletion that is refused is not answered.
DeleteAccountSilent(c) ==
  /\ Asks(c, "DELETE_ACCOUNT")
  /\ \/ /\ ~session[c].authenticated
        /\ inbox' = [inbox EXCEPT ![c] = Tail(@)]
        /\ UNCHANGED <<prompt, typed, replies, fits, session, accounts, trustlines>>
     \/ /\ session[c].authenticated
        /\ accounts' = [u \in DOMAIN accounts \ {User(c)} |-> accounts[u]]
        /\ trustlines' = {t \in trustlines : ~(t.at = Home /\ t.of = User(c))}
        /\ session' = [session EXCEPT ![c] = NoSession]
        /\ Answer(c, "USER_DELETED_SUCCESSFULLY")
  /\ UNCHANGED gave

\* Mutant: only the name is cleared.
DeleteAccountNameOnly(c) ==
  /\ Asks(c, "DELETE_ACCOUNT")
  /\ \/ /\ ~session[c].authenticated
        /\ Answer(c, "AUTH_REQUIRED")
        /\ UNCHANGED <<session, accounts, trustlines>>
     \/ /\ session[c].authenticated
        /\ accounts' = [u \in DOMAIN accounts \ {User(c)} |-> accounts[u]]
        /\ trustlines' = {t \in trustlines : ~(t.at = Home /\ t.of = User(c))}
        /\ session' = [session EXCEPT ![c].user = <<>>]
        /\ Answer(c, "USER_DELETED_SUCCESSFULLY")
  /\ UNCHANGED gave

(* What the user typed to confirm is sent, and not looked at.  rm -rf of a *)
(* directory that is not there succeeds too.                               *)
DeleteAccount(c) ==
  /\ Asks(c, "DELETE_ACCOUNT")
  /\ \/ /\ ~session[c].authenticated
        /\ Answer(c, "AUTH_REQUIRED")
        /\ UNCHANGED <<session, accounts, trustlines>>
     \/ /\ session[c].authenticated
        /\ accounts' = [u \in DOMAIN accounts \ {User(c)} |-> accounts[u]]
        /\ trustlines' = {t \in trustlines : ~(t.at = Home /\ t.of = User(c))}
        /\ session' = [session EXCEPT ![c] = NoSession]
        /\ Answer(c, "USER_DELETED_SUCCESSFULLY")
  /\ UNCHANGED gave

-----------------------------------------------------------------------------
(* Commands that go on to another server.                                  *)

Fields(c)   == Scan(Args(c))
DefaultPort == 2012

(* client_handle_add_connection.  Every server knows the query             *)
(* ACCOUNT_EXISTS by name and has no handler for it, so it is answered     *)
(* INVALID_COMMAND and add_account is never called.                        *)
AddConnection(c) ==
  LET f       == Fields(c)   \* if there are none, the name is the default
      address == IF Len(f) < 2 \/ f[2] = Word("jipple.net") THEN Word("localhost") ELSE f[2]
      portOk  == Len(f) >= 3 => IsPositive(atoi(f[3]))
      port    == IF Len(f) < 3 THEN DefaultPort ELSE PortNumber(f[3])
      auth    == session[c].authenticated
      named   == auth /\ (f = <<>> \/ isValidUsername(<<f[1]>>))
  IN
  /\ Asks(c, "ADD_CONNECTION")
  /\ \/ ~auth /\ Answer(c, "AUTH_REQUIRED")
     \/ auth /\ ~named /\ Answer(c, "INVALID_USERNAME")
     \/ named /\ ~portOk /\ Answer(c, "INVALID_PORT")
     \/ /\ named /\ portOk /\ <<address, port>> \notin DOMAIN Endpoints
        /\ Answer(c, "CONNECTION_FAILED")
     \/ /\ named /\ portOk /\ <<address, port>> \in DOMAIN Endpoints
        /\ Answer(c, "ACCOUNT_NOT_FOUND")
  /\ UNCHANGED <<session, accounts, trustlines, gave>>

AccountsAt(s) == IF s = Home THEN DOMAIN accounts ELSE RemoteAccounts

(* Server s carries out what it reads of a query.                          *)
RemoteSetTrustline(c, s, query) ==
  LET a     == Tail(Slice(query, 0, QueryMax))
      local == IF a[2] = Word("none") THEN DefaultUser ELSE a[2]
      key   == [at |-> s, of |-> local, by |-> a[1]]
      Other == {t \in trustlines : ~(t.at = s /\ t.of = local /\ t.by = a[1])}
      found == isValidUsername(<<local>>) /\ local \in AccountsAt(s)
      Removes == a[3] = Word("none") \/ a[3] = Numeral(<<0>>)
  IN
  \/ Len(a) < 3 /\ Answer(c, "INVALID_ARGUMENTS") /\ UNCHANGED trustlines
  \/ /\ Len(a) = 3 /\ ~found
     /\ Answer(c, "FAILED_TO_ACCESS_USER_DIRECTORY")   \* or FAILED_USERNAME_INVALID
     /\ UNCHANGED trustlines
  \/ /\ Len(a) = 3 /\ found /\ Removes
     /\ trustlines' = Other
     /\ Answer(c, Success)
  \/ /\ Len(a) = 3 /\ found /\ ~Removes
     /\ trustlines' = Other \cup {key @@ [size |-> a[3]]}
     /\ Answer(c, Success)

SetTrustline(c) ==
  LET f       == Fields(c)
      auth    == session[c].authenticated
      parsed  == auth /\ Len(f) = 4
      named   == parsed /\ Named(c)
      address == IF f[2] = Word("none") THEN Word("localhost") ELSE f[2]
      portOk  == f[3] # Word("none") => isValidPort(<<f[3]>>)
      port    == IF f[3] = Word("none") THEN DefaultPort ELSE PortNumber(f[3])
      Refuse(r) == Answer(c, r) /\ UNCHANGED trustlines
  IN
  /\ Asks(c, "SET_TRUSTLINE")
  /\ \/ ~auth /\ Refuse("AUTH_REQUIRED")
     \/ auth /\ ~parsed /\ Refuse("INVALID_ARGUMENTS")
     \/ parsed /\ ~named /\ Refuse("INVALID_USERNAME")
     \/ named /\ ~portOk /\ Refuse("INVALID_PORT")
     \/ /\ named /\ portOk /\ <<address, port>> \notin DOMAIN Endpoints
        /\ Refuse("CONNECTION_FAILED")
     \/ /\ named /\ portOk /\ <<address, port>> \in DOMAIN Endpoints
        /\ RemoteSetTrustline(c, Endpoints[<<address, port>>],
                              <<Word("SET_TRUSTLINE"), User(c), f[1], f[4]>>)
  /\ UNCHANGED <<session, accounts, gave>>

(* The client is gone and the thread has answered all it was sent; or the  *)
(* client left replies unread, which resets the connection and loses what  *)
(* the thread has not read.  The slot then stands for the next client.     *)
Close(c) ==
  /\ prompt[c] = "gone"
  /\ inbox[c] = <<>> \/ replies[c] # <<>>
  /\ inbox' = [inbox EXCEPT ![c] = <<>>]
  /\ prompt' = [prompt EXCEPT ![c] = "typing"]
  /\ replies' = [replies EXCEPT ![c] = <<>>]
  /\ fits' = [fits EXCEPT ![c] = TRUE]
  /\ session' = [session EXCEPT ![c] = NoSession]
  /\ gave' = [gave EXCEPT ![c] = <<>>]
  /\ UNCHANGED <<typed, accounts, trustlines>>

-----------------------------------------------------------------------------

Init ==
  /\ prompt = [c \in Clients |-> "typing"]
  /\ typed = [c \in Clients |-> NoCommand]
  /\ inbox = [c \in Clients |-> <<>>]
  /\ replies = [c \in Clients |-> <<>>]
  /\ session = [c \in Clients |-> NoSession]
  /\ accounts = <<>>
  /\ trustlines = {}
  /\ gave = [c \in Clients |-> <<>>]
  /\ fits = [c \in Clients |-> TRUE]

Serve(c) ==
  \/ Register(c) \/ Login(c) \/ Logout(c) \/ DeleteAccount(c)
  \/ AddConnection(c) \/ SetTrustline(c) \/ InvalidCommand(c)

Next ==
  \E c \in Clients :
    \/ \E m \in Typeable : Type(c, m)
    \/ Receive(c) \/ Exit(c) \/ Serve(c) \/ Close(c)

Spec == Init /\ [][Next]_vars

(* The server's threads run; the application reads what is there to read.  *)
Fairness == \A c \in Clients : WF_vars(Serve(c)) /\ WF_vars(Receive(c))

FairSpec == Spec /\ Fairness

-----------------------------------------------------------------------------
(* Properties.                                                             *)

Replies ==
  {"INVALID_COMMAND", "INVALID_USERNAME", "INVALID_ARGUMENTS", "INVALID_PORT",
   "USERNAME_EXISTS", "REGISTER_SUCCESS", "USERNAME_NOT_FOUND", "PASSWORD_INCORRECT",
   "LOGIN_SUCCESS", "LOGOUT_SUCCESS", "AUTH_REQUIRED", "USER_DELETED_SUCCESSFULLY",
   "CONNECTION_FAILED", "ACCOUNT_NOT_FOUND", "FAILED_TO_ACCESS_USER_DIRECTORY", Success}

IsSession(x) ==
  /\ x = [user |-> x.user, authenticated |-> x.authenticated]
  /\ x.authenticated \in BOOLEAN
  /\ x.authenticated => Len(x.user) = 1

\* The variables have their types, and a session that is authenticated has a
\* user (the handlers use session->username whenever the flag is set).
TypeOK ==
  /\ prompt \in [Clients -> {"typing", "waiting", "gone"}]
  /\ fits \in [Clients -> BOOLEAN]
  /\ replies \in [Clients -> Seq(Replies)]
  /\ DOMAIN typed = Clients /\ DOMAIN session = Clients
  /\ \A c \in Clients :
       /\ typed[c] \in IF prompt[c] = "waiting" THEN {m.cmd : m \in Typeable} ELSE {NoCommand}
       /\ IsSession(session[c])

\* As long as every command of a connection fitted in one read, what an
\* application reads is the answer to the command it sent: while it waits
\* there is one message or one reply on the connection, and none otherwise
\* (the client reads once per command, the server answers once per read, and
\* nothing in either says which command an answer is for).
InStepOf(c) == Unread(c) = (IF prompt[c] = "waiting" THEN 1 ELSE 0)
InStep      == \A c \in Clients : fits[c] => InStepOf(c)

\* Every command is answered, however it is refused: each handler returns a
\* text to send on every path, so no user is left waiting for SSL_read.
Answered == \A c \in Clients : prompt[c] = "waiting" ~> prompt[c] # "waiting"

\* What a user makes of a reply: the success of the command typed, or why it
\* was refused; that of another command tells nothing.
Done ==
  [REGISTER |-> "REGISTER_SUCCESS", LOGIN |-> "LOGIN_SUCCESS", LOGOUT |-> "LOGOUT_SUCCESS",
   DELETE_ACCOUNT |-> "USER_DELETED_SUCCESSFULLY", ADD_CONNECTION |-> "CONNECTION_ADDED",
   SET_TRUSTLINE |-> Success]

Reason ==
  [USERNAME_EXISTS |-> "taken", USERNAME_NOT_FOUND |-> "unknown user",
   PASSWORD_INCORRECT |-> "wrong password", AUTH_REQUIRED |-> "logged out",
   CONNECTION_FAILED |-> "no server", ACCOUNT_NOT_FOUND |-> "no account",
   FAILED_TO_ACCESS_USER_DIRECTORY |-> "no account"]

Meaning(k, r) ==
  IF r = Done[k] THEN "done" ELSE IF r \in DOMAIN Reason THEN Reason[r] ELSE "unclear"

Outcomes ==
  [c \in Clients |->
     IF prompt[c] # "waiting" THEN "idle"
     ELSE IF inbox[c] # <<>> THEN "asked" ELSE Meaning(typed[c].kind, Head(replies[c]))]

\* No handler adds a connection.
View == INSTANCE UserView WITH
  Typeable    <- {m.cmd : m \in Typeable},
  connections <- {},
  login       <- [c \in Clients |-> IF session[c].authenticated THEN session[c].user ELSE <<>>],
  command     <- typed,
  stage       <- Outcomes

\* Through all the composing, cutting and parsing on the way, a command does
\* what the prompts say of what was typed, or is refused for a reason that
\* holds and changes nothing, and the answer says which: for the commands of
\* OrdinarySpec in OrdinaryCommands, which names what users must keep to.
ImplementsUserView == View!Spec

\* A trustline whose user is about to read that it was set is the one typed
\* (what the prompts of handle_set_trustline say of the size).
TrustlineAsTyped ==
  \A c \in Clients :
    LET ls   == typed[c].lines
        size == IF ls[4] = <<>> THEN Numeral(<<0>>) ELSE ls[4][1]
        peer == IF ls[1] = <<>> THEN DefaultUser ELSE ls[1][1]
        Set  == {t \in trustlines : t.of = peer /\ t.by = User(c)}
    IN /\ typed[c].kind = "SET_TRUSTLINE" /\ inbox[c] = <<>>
       /\ Head(replies[c]) = Success
       => IF size = Numeral(<<0>>) THEN Set = {} ELSE \E t \in Set : t.size = size

\* A session that may act on an account gave the password it has now
\* (README.md: any interaction with an account requires authentication).
AuthenticatedInteraction ==
  \A c \in Clients :
    session[c].authenticated /\ User(c) \in DOMAIN accounts => gave[c] = accounts[User(c)]
=============================================================================
