--------------------------- MODULE UserViewProofs ---------------------------
(***************************************************************************)
(* TLAPS proof that Commands implements UserView, for users who answer the *)
(* prompts as OrdinaryCommands says.                                       *)
(***************************************************************************)
EXTENDS ReadsProofs

Logins    == [c \in Clients |-> IF session[c].authenticated THEN session[c].user ELSE <<>>]
TypedCmds == {m.cmd : m \in Typeable}

\* The invariant: what is on a connection was typed as it is meant, and the
\* accounts have names that were typed.
OrdinaryInv ==
  /\ ViewInv
  /\ \A c \in Clients : inbox[c] # <<>> => AsMeant(c, typed[c])
  /\ \A u \in DOMAIN accounts : <<u>> \in Lines["username"]

\* The words of UserView are those of Commands.
LEMMA SameWords ==
  /\ View!Default = Word("default") /\ View!Word("localhost") = Word("localhost")
  /\ View!Numeral(<<0>>) = Numeral(<<0>>) /\ View!NoCommand = NoCommand
  /\ \A w : View!PortNumber(w) = PortNumber(w)
<1>1. \A d : View!Overflows(d) <=> Overflows(d)
  BY SMT DEF View!Overflows, Overflows, View!LongMax, LongMax
<1>2. \A d : View!Modulo32(d) = Modulo32(d)
  BY SMT DEF View!Modulo32, Modulo32
<1>3. \A w : View!atoi(w) = atoi(w)
  BY <1>1, <1>2, SMT DEF View!atoi, atoi, View!IsNumeral, IsNumeral, View!Saturated, Saturated
<1>4. \A w : View!PortNumber(w) = PortNumber(w)
  BY <1>3 DEF View!PortNumber, PortNumber
<1> QED BY <1>4 DEF View!Default, View!Word, Word, View!Numeral, Numeral, View!NoCommand, NoCommand

\* What UserView makes of a command, kind by kind.
LEMMA ReasonsAre ==
  ASSUME NEW c \in Clients
  PROVE  /\ typed[c].kind = "LOGOUT" => View!Reasons(c) = {}
         /\ typed[c].kind = "REGISTER" =>
              IF View!Names(c) \in DOMAIN accounts
              THEN "taken" \in View!Reasons(c) ELSE View!Reasons(c) = {}
         /\ typed[c].kind = "LOGIN" =>
              IF View!Names(c) \notin DOMAIN accounts THEN "unknown user" \in View!Reasons(c)
              ELSE IF accounts[View!Names(c)] # typed[c].lines[2]
              THEN "wrong password" \in View!Reasons(c) ELSE View!Reasons(c) = {}
         /\ typed[c].kind = "DELETE_ACCOUNT" =>
              IF Logins[c] = <<>> THEN "logged out" \in View!Reasons(c)
              ELSE typed[c].lines[1] = Logins[c] => View!Reasons(c) = {}
         /\ typed[c].kind \in {"ADD_CONNECTION", "SET_TRUSTLINE"} =>
              IF Logins[c] = <<>> THEN "logged out" \in View!Reasons(c)
              ELSE IF View!Peer(c) \notin DOMAIN Endpoints THEN "no server" \in View!Reasons(c)
              ELSE IF View!Names(c) \notin AccountsAt(Endpoints[View!Peer(c)])
              THEN "no account" \in View!Reasons(c)
              ELSE typed[c].kind = "SET_TRUSTLINE" => View!Reasons(c) = {}
BY DEF View!Reasons, View!Secret, View!AccountsAt, AccountsAt, Logins

\* What users make of the replies.
LEMMA MeaningIs ==
  /\ Meaning("LOGOUT", "LOGOUT_SUCCESS") = "done"
  /\ Meaning("REGISTER", "REGISTER_SUCCESS") = "done"
  /\ Meaning("REGISTER", "USERNAME_EXISTS") = "taken"
  /\ Meaning("LOGIN", "LOGIN_SUCCESS") = "done"
  /\ Meaning("LOGIN", "USERNAME_NOT_FOUND") = "unknown user"
  /\ Meaning("LOGIN", "PASSWORD_INCORRECT") = "wrong password"
  /\ Meaning("DELETE_ACCOUNT", "USER_DELETED_SUCCESSFULLY") = "done"
  /\ Meaning("SET_TRUSTLINE", Success) = "done"
  /\ Meaning("SET_TRUSTLINE", "FAILED_TO_ACCESS_USER_DIRECTORY") = "no account"
  /\ Meaning("ADD_CONNECTION", "ACCOUNT_NOT_FOUND") = "no account"
  /\ \A k \in {"ADD_CONNECTION", "SET_TRUSTLINE"} : Meaning(k, "CONNECTION_FAILED") = "no server"
  /\ \A k \in {"DELETE_ACCOUNT", "ADD_CONNECTION", "SET_TRUSTLINE"} :
       Meaning(k, "AUTH_REQUIRED") = "logged out"
  /\ \A k, r : Meaning(k, r) \notin {"idle", "asked"}
<1>1. /\ Done["LOGOUT"] = "LOGOUT_SUCCESS" /\ Done["REGISTER"] = "REGISTER_SUCCESS"
      /\ Done["LOGIN"] = "LOGIN_SUCCESS" /\ Done["DELETE_ACCOUNT"] = "USER_DELETED_SUCCESSFULLY"
      /\ Done["ADD_CONNECTION"] = "CONNECTION_ADDED" /\ Done["SET_TRUSTLINE"] = Success
  BY DEF Done
<1>2. /\ DOMAIN Reason = {"USERNAME_EXISTS", "USERNAME_NOT_FOUND", "PASSWORD_INCORRECT",
                          "AUTH_REQUIRED", "CONNECTION_FAILED", "ACCOUNT_NOT_FOUND",
                          "FAILED_TO_ACCESS_USER_DIRECTORY"}
      /\ Reason["USERNAME_EXISTS"] = "taken" /\ Reason["USERNAME_NOT_FOUND"] = "unknown user"
      /\ Reason["PASSWORD_INCORRECT"] = "wrong password" /\ Reason["AUTH_REQUIRED"] = "logged out"
      /\ Reason["CONNECTION_FAILED"] = "no server" /\ Reason["ACCOUNT_NOT_FOUND"] = "no account"
      /\ Reason["FAILED_TO_ACCESS_USER_DIRECTORY"] = "no account"
  BY DEF Reason
<1>3. \A k, r : Meaning(k, r) = IF r = Done[k] THEN "done" ELSE IF r \in DOMAIN Reason THEN Reason[r] ELSE "unclear"
  BY DEF Meaning
<1> QED BY <1>1, <1>2, <1>3 DEF Success

\* A session is authenticated if UserView has its user logged in.
LEMMA LoginIs ==
  ASSUME ViewInv, NEW c \in Clients
  PROVE  /\ Logins[c] # <<>> <=> session[c].authenticated
         /\ session[c].authenticated =>
              Logins[c] = session[c].user /\ Logins[c] = <<User(c)>> /\ Logins[c][1] = User(c)
<1>1. session[c].authenticated \in BOOLEAN
  BY DEF ViewInv, TypeOK, IsSession
<1>2. ASSUME session[c].authenticated
      PROVE  session[c].user # <<>> /\ session[c].user = <<User(c)>>
  <2>1. session[c].user \in Lines["username"]
    BY <1>2 DEF ViewInv, ReadAsTyped
  <2>2. IsLine(session[c].user) /\ session[c].user # <<>>
    BY <2>1, LinesAre, WordsAssumption, PromptsAssumption
  <2> QED BY <2>2 DEF IsLine, User
<1> QED BY <1>1, <1>2 DEF Logins, User

\* A handler that answers turns the outcome of its command.
LEMMA AnswerOutcome ==
  ASSUME ViewInv, NEW c \in Clients, inbox[c] # <<>>, NEW r, Answer(c, r)
  PROVE  /\ Outcomes[c] = "asked" /\ typed' = typed
         /\ Outcomes' = [Outcomes EXCEPT ![c] = Meaning(typed[c].kind, r)]
<1>1. prompt[c] = "waiting" /\ replies[c] = <<>> /\ \E m : inbox[c] = <<m>>
  BY WhatIsAsked
<1>2. inbox' = [inbox EXCEPT ![c] = <<>>] /\ replies' = [replies EXCEPT ![c] = <<r>>]
      /\ prompt' = prompt /\ typed' = typed
  BY <1>1, OneElement DEF Answer
<1>3. Head(<<r>>) = r
  OBVIOUS
<1>4. Outcomes[c] = "asked"
  BY <1>1 DEF Outcomes
<1>5. Outcomes'[c] = Meaning(typed[c].kind, r)
  BY <1>1, <1>2, <1>3 DEF Outcomes, ViewInv, InStepInv
<1>6. \A d \in Clients \ {c} : Outcomes'[d] = Outcomes[d]
  BY <1>2 DEF Outcomes, ViewInv, InStepInv
<1>7. Outcomes' = [d \in Clients |-> Outcomes'[d]] /\ Outcomes = [d \in Clients |-> Outcomes[d]]
  BY DEF Outcomes
<1> QED BY <1>2, <1>4, <1>5, <1>6, <1>7

\* A handler that answers that its command was done.
LEMMA DoneIs ==
  ASSUME ViewInv, NEW c \in Clients, inbox[c] # <<>>, NEW r, Answer(c, r),
         Meaning(typed[c].kind, r) = "done"
  PROVE  Outcomes[c] = "asked" /\ typed' = typed /\ Outcomes' = [Outcomes EXCEPT ![c] = "done"]
BY AnswerOutcome

\* A handler that answers with a reason that holds and changes nothing refuses.
LEMMA RefusedIs ==
  ASSUME ViewInv, NEW c \in Clients, inbox[c] # <<>>, NEW r, Answer(c, r),
         UNCHANGED <<session, accounts, trustlines>>,
         NEW why \in View!Reasons(c), Meaning(typed[c].kind, r) = why
  PROVE  View!Refuse(c)
<1>1. /\ Outcomes[c] = "asked" /\ typed' = typed
      /\ Outcomes' = [Outcomes EXCEPT ![c] = why]
  BY AnswerOutcome
<1>2. Logins' = Logins
  BY DEF Logins
<1> QED BY <1>1, <1>2 DEF View!Refuse, Logins, Outcomes

\* Who is logged in follows the sessions.
LEMMA LoginsChange ==
  ASSUME ViewInv, NEW c \in Clients
  PROVE  /\ session' = [session EXCEPT ![c] = NoSession] => Logins' = [Logins EXCEPT ![c] = <<>>]
         /\ \A u : session' = [session EXCEPT ![c] = [user |-> u, authenticated |-> FALSE]] =>
              Logins' = [Logins EXCEPT ![c] = <<>>]
         /\ \A u : session' = [session EXCEPT ![c] = [user |-> u, authenticated |-> TRUE]] =>
              Logins' = [Logins EXCEPT ![c] = u]
         /\ UNCHANGED session => UNCHANGED Logins
<1>1. DOMAIN session = Clients
  BY DEF ViewInv, TypeOK
<1>2. ASSUME NEW s, NEW l, session' = [session EXCEPT ![c] = s],
             l = IF s.authenticated THEN s.user ELSE <<>>
      PROVE  Logins' = [Logins EXCEPT ![c] = l]
  BY <1>1, <1>2 DEF Logins
<1>3. ASSUME NEW u, session' = [session EXCEPT ![c] = [user |-> u, authenticated |-> FALSE]]
      PROVE  Logins' = [Logins EXCEPT ![c] = <<>>]
  <2>1. <<>> = IF [user |-> u, authenticated |-> FALSE].authenticated
               THEN [user |-> u, authenticated |-> FALSE].user ELSE <<>>
    OBVIOUS
  <2> QED BY <1>2, <1>3, <2>1
<1>4. ASSUME NEW u, session' = [session EXCEPT ![c] = [user |-> u, authenticated |-> TRUE]]
      PROVE  Logins' = [Logins EXCEPT ![c] = u]
  <2>1. u = IF [user |-> u, authenticated |-> TRUE].authenticated
            THEN [user |-> u, authenticated |-> TRUE].user ELSE <<>>
    OBVIOUS
  <2> QED BY <1>2, <1>4, <2>1
<1>5. UNCHANGED session => UNCHANGED Logins
  BY DEF Logins
<1> QED BY <1>3, <1>4, <1>5 DEF NoSession

\* A command that its handler found by name.
LEMMA AskedIs ==
  ASSUME ViewInv, NEW c \in Clients, NEW k \in DOMAIN Prompts, Asks(c, k)
  PROVE  /\ inbox[c] # <<>> /\ typed[c].kind = k
         /\ \E ls : /\ IsTyped(k, ls) /\ typed[c] = [kind |-> k, lines |-> ls]
                    /\ Args(c) = Tail(Meant(k, ls))
<1>1. inbox[c] # <<>>
  BY DEF Asks
<1>2. PICK j, ls :
        /\ j \in DOMAIN Prompts
        /\ IsTyped(j, ls) /\ typed[c] = [kind |-> j, lines |-> ls] /\ Args(c) = Tail(Meant(j, ls))
        /\ \A i \in DOMAIN Prompts : Asks(c, i) <=> i = j
  BY <1>1, WhatIsAsked
<1>3. j = k
  BY <1>2
<1> QED BY <1>1, <1>2, <1>3

-----------------------------------------------------------------------------
(* The handlers.                                                           *)

\* LOGOUT is always done.
LEMMA LogoutIsPerformed ==
  ASSUME ViewInv, NEW c \in Clients, Logout(c)
  PROVE  View!Perform(c)
<1>1. inbox[c] # <<>> /\ Answer(c, "LOGOUT_SUCCESS")
  BY DEF Logout, Asks
<1>2. typed[c].kind = "LOGOUT"
  <2>1. "LOGOUT" \in DOMAIN Prompts /\ Asks(c, "LOGOUT")
    BY PromptsAre DEF Logout
  <2> QED BY <2>1, AskedIs
<1>3. Outcomes[c] = "asked" /\ typed' = typed /\ Outcomes' = [Outcomes EXCEPT ![c] = "done"]
  <2>1. Meaning(typed[c].kind, "LOGOUT_SUCCESS") = "done"
    BY <1>2, MeaningIs
  <2> QED BY <1>1, <2>1, DoneIs
<1>4. Logins' = [Logins EXCEPT ![c] = <<>>]
  BY LoginsChange DEF Logout
<1>5. View!Reasons(c) = {}
  BY <1>2, ReasonsAre
<1> QED BY <1>2, <1>3, <1>4, <1>5 DEF View!Perform, View!Enter, Logout, Logins, Outcomes

\* DELETE_ACCOUNT deletes the account of the session, or there is no session.
LEMMA DeleteAccountIsDone ==
  ASSUME OrdinaryInv, NEW c \in Clients, DeleteAccount(c)
  PROVE  View!Perform(c) \/ View!Refuse(c)
<1>0. ViewInv
  BY DEF OrdinaryInv
<1>1. inbox[c] # <<>> /\ typed[c].kind = "DELETE_ACCOUNT"
  <2>1. "DELETE_ACCOUNT" \in DOMAIN Prompts /\ Asks(c, "DELETE_ACCOUNT")
    BY PromptsAre DEF DeleteAccount
  <2> QED BY <1>0, <2>1, AskedIs
<1>2. CASE ~session[c].authenticated
  <2>1. "logged out" \in View!Reasons(c)
    BY <1>0, <1>1, <1>2, ReasonsAre, LoginIs
  <2>2. Meaning(typed[c].kind, "AUTH_REQUIRED") = "logged out"
    BY <1>1, MeaningIs
  <2> QED BY <1>0, <1>1, <1>2, <2>1, <2>2, RefusedIs DEF DeleteAccount
<1>3. CASE session[c].authenticated
  <2>1. Outcomes[c] = "asked" /\ typed' = typed /\ Outcomes' = [Outcomes EXCEPT ![c] = "done"]
    <3>1. Meaning(typed[c].kind, "USER_DELETED_SUCCESSFULLY") = "done"
      BY <1>1, MeaningIs
    <3> QED BY <1>0, <1>1, <1>3, <3>1, DoneIs DEF DeleteAccount
  <2>2. Logins' = [Logins EXCEPT ![c] = <<>>] /\ Logins[c][1] = User(c)
    BY <1>0, <1>3, LoginsChange, LoginIs DEF DeleteAccount
  <2>3. /\ accounts' = [u \in DOMAIN accounts \ {Logins[c][1]} |-> accounts[u]]
        /\ trustlines' = {t \in trustlines : ~(t.at = Home /\ t.of = Logins[c][1])}
    BY <1>3, <2>2 DEF DeleteAccount
  <2>4. View!Reasons(c) = {}
    <3>1. typed[c].lines[1] = Logins[c] /\ Logins[c] # <<>>
      BY <1>0, <1>1, <1>3, LoginIs DEF OrdinaryInv, AsMeant
    <3> QED BY <1>1, <3>1, ReasonsAre
  <2>5. View!Delete(Logins[c][1])
    BY <2>3 DEF View!Delete
  <2> QED BY <1>1, <2>1, <2>2, <2>4, <2>5 DEF View!Perform, View!Enter, Logins, Outcomes
<1> QED BY <1>2, <1>3

\* ADD_CONNECTION: the fields its handler finds are those of the prompts.
LEMMA ConnectionFieldsAre ==
  ASSUME OrdinaryInv, NEW c \in Clients, Asks(c, "ADD_CONNECTION")
  PROVE  LET ls == typed[c].lines IN
         /\ inbox[c] # <<>> /\ typed[c].kind = "ADD_CONNECTION"
         /\ IsTyped("ADD_CONNECTION", ls)
         /\ \A i \in 1..3 : ls[i] = <<ls[i][1]>>
         /\ Fields(c) = <<ls[1][1], ls[2][1], ls[3][1]>>
<1> DEFINE k  == "ADD_CONNECTION"
           ls == typed[c].lines
           x  == ls[1][1]
           y  == ls[2][1]
           z  == ls[3][1]
<1>1. ViewInv /\ k \in DOMAIN Prompts
  BY PromptsAre DEF OrdinaryInv
<1>2. inbox[c] # <<>> /\ typed[c].kind = k /\ IsTyped(k, ls) /\ Args(c) = Tail(Meant(k, ls))
  <2>1. PICK l : IsTyped(k, l) /\ typed[c] = [kind |-> k, lines |-> l] /\ Args(c) = Tail(Meant(k, l))
    BY <1>1, AskedIs
  <2>2. ls = l
    BY <2>1
  <2> QED BY <1>1, <2>1, <2>2, AskedIs
<1>3. ASSUME NEW i \in 1..3
      PROVE  ls[i] = <<ls[i][1]>> /\ Said(ls[i]) = ls[i][1]
  <2>1. ls[i] # <<>>
    BY <1>2 DEF OrdinaryInv, AsMeant
  <2>2. ls[1] \in Lines["peer"] /\ ls[2] \in Lines["address"] /\ ls[3] \in Lines["port"]
    BY <1>2 DEF Prompts, IsTyped
  <2>3. IsLine(ls[1]) /\ IsLine(ls[2]) /\ IsLine(ls[3])
    BY <2>2, LinesAre, WordsAssumption
  <2>4. IsLine(ls[i])
    BY <2>3
  <2> QED BY <2>1, <2>4, OrNoneIs DEF IsLine, Said
<1>4. Meant(k, ls) = <<Word(k), x, y, z>>
  <2>1. Meant(k, ls) = <<Word(k), Said(ls[1]), Said(ls[2]), Said(ls[3])>>
    BY <1>1, <1>2, MeantIs
  <2> QED BY <1>3, <2>1
<1>5. Size(z) <= 5
  <2>1. ls[3] \in Lines["port"]
    BY <1>2 DEF Prompts, IsTyped
  <2> QED BY <1>3, <2>1, PromptsAssumption
<1>6. Fields(c) = <<x, y, z>>
  <2>1. Args(c) = <<x, y, z>>
    <3> HIDE DEF k, ls, x, y, z
    <3> QED BY <1>2, <1>4, Tails
  <2>2. Size(<<x, y, z>>[3]) <= 5
    BY <1>5
  <2>3. Size(z) \in Nat
    <3>1. IsLine(ls[3])
      <4>1. ls[3] \in Lines["port"]
        BY <1>2 DEF Prompts, IsTyped
      <4> QED BY <4>1, LinesAre, WordsAssumption
    <3> QED BY <1>3, <3>1 DEF IsLine, Full
  <2>4. ~(Size(<<x, y, z>>[3]) > 5)
    BY <1>5, <2>3
  <2> HIDE DEF k, ls, x, y, z
  <2>5. SubSeq(<<x, y, z>>, 1, Min({4, Len(<<x, y, z>>)})) = <<x, y, z>>
    BY Parts
  <2> QED BY <2>1, <2>4, <2>5, Zenon DEF Fields, Scan
<1> QED BY <1>2, <1>3, <1>6

\* ADD_CONNECTION is refused: there is no such account, or something else is
\* missing.
LEMMA AddConnectionIsRefused ==
  ASSUME OrdinaryInv, NEW c \in Clients, AddConnection(c)
  PROVE  View!Refuse(c)
<1> DEFINE ls == typed[c].lines
           x  == ls[1][1]
           y  == ls[2][1]
           z  == ls[3][1]
           f  == Fields(c)
           address == IF y = Word("jipple.net") THEN Word("localhost") ELSE y
           port == PortNumber(z)
           auth == session[c].authenticated
<1>1. Asks(c, "ADD_CONNECTION") /\ ViewInv
  BY DEF AddConnection, OrdinaryInv
<1>2. /\ inbox[c] # <<>> /\ typed[c].kind = "ADD_CONNECTION" /\ IsTyped("ADD_CONNECTION", ls)
      /\ ls[1] = <<x>> /\ ls[2] = <<y>> /\ ls[3] = <<z>> /\ f = <<x, y, z>>
  BY <1>1, ConnectionFieldsAre
<1>3. /\ Len(f) = 3 /\ f # <<>> /\ f[1] = x /\ f[2] = y /\ f[3] = z
  BY <1>2
<1>4. isValidUsername(<<x>>) /\ IsPositive(atoi(z))
  <2>1. Valid("peer", ls[1]) /\ Valid("port", ls[3])
    BY <1>2 DEF IsTyped, Prompts
  <2>2. isValidUsername(<<x>>) /\ isValidPort(<<z>>)
    BY <1>2, <2>1 DEF Valid
  <2>3. atoi(z).hi = 0 /\ atoi(z).lo > 0
    BY <2>2 DEF isValidPort
  <2> QED BY <2>2, <2>3 DEF IsPositive
<1>5. View!Peer(c) = <<y, port>> /\ View!Names(c) = x
  BY <1>2, SameWords DEF View!Peer, View!Names, View!OrDefault
<1>6. \/ ~auth /\ Answer(c, "AUTH_REQUIRED")
      \/ auth /\ <<address, port>> \notin DOMAIN Endpoints /\ Answer(c, "CONNECTION_FAILED")
      \/ auth /\ <<address, port>> \in DOMAIN Endpoints /\ Answer(c, "ACCOUNT_NOT_FOUND")
  <2> HIDE DEF f, x, y, z
  <2> QED BY <1>3, <1>4 DEF AddConnection, f
<1>7. UNCHANGED <<session, accounts, trustlines>>
  BY DEF AddConnection
<1>8. <<address, port>> \in DOMAIN Endpoints <=> View!Peer(c) \in DOMAIN Endpoints
  <2>1. CASE y = Word("jipple.net")
    <3> HIDE DEF y, port
    <3>1. <<Word("localhost"), port>> \in DOMAIN Endpoints <=> <<Word("jipple.net"), port>> \in DOMAIN Endpoints
      BY AddressAssumption
    <3> QED BY <1>5, <2>1, <3>1
  <2>2. CASE y # Word("jipple.net")
    BY <1>5, <2>2
  <2> QED BY <2>1, <2>2
<1>9. Logins[c] # <<>> <=> auth
  BY <1>1, LoginIs
<1> HIDE DEF f, ls, address, port
<1>10. CASE ~auth /\ Answer(c, "AUTH_REQUIRED")
  <2>1. "logged out" \in View!Reasons(c) /\ Meaning(typed[c].kind, "AUTH_REQUIRED") = "logged out"
    BY <1>2, <1>9, <1>10, ReasonsAre, MeaningIs
  <2> QED BY <1>1, <1>2, <1>7, <1>10, <2>1, RefusedIs
<1>11. CASE auth /\ <<address, port>> \notin DOMAIN Endpoints /\ Answer(c, "CONNECTION_FAILED")
  <2>1. "no server" \in View!Reasons(c) /\ Meaning(typed[c].kind, "CONNECTION_FAILED") = "no server"
    BY <1>2, <1>8, <1>9, <1>11, ReasonsAre, MeaningIs
  <2> QED BY <1>1, <1>2, <1>7, <1>11, <2>1, RefusedIs
<1>12. CASE auth /\ <<address, port>> \in DOMAIN Endpoints /\ Answer(c, "ACCOUNT_NOT_FOUND")
  <2>1. View!Names(c) \notin DOMAIN accounts /\ View!Names(c) \notin RemoteAccounts
    <3>1. ls[1] \notin Lines["username"] /\ ls[1][1] \notin RemoteAccounts
      BY <1>2 DEF OrdinaryInv, AsMeant, ls
    <3> QED BY <1>2, <1>5, <3>1 DEF OrdinaryInv
  <2>2. "no account" \in View!Reasons(c)
    BY <1>2, <1>8, <1>9, <1>12, <2>1, ReasonsAre DEF AccountsAt
  <2>3. Meaning(typed[c].kind, "ACCOUNT_NOT_FOUND") = "no account"
    BY <1>2, MeaningIs
  <2> QED BY <1>1, <1>2, <1>7, <1>12, <2>2, <2>3, RefusedIs
<1> QED BY <1>6, <1>10, <1>11, <1>12

\* LOGIN and REGISTER: the name and the password the handlers find.
LEMMA NameAndPassword ==
  ASSUME ViewInv, NEW c \in Clients, NEW k \in {"LOGIN", "REGISTER"}, Asks(c, k)
  PROVE  /\ inbox[c] # <<>> /\ typed[c].kind = k
         /\ Named(c) /\ Args(c)[1] = View!Names(c)
         /\ Password(c) = typed[c].lines[2]
<1>1. k \in DOMAIN Prompts
  BY PromptsAre
<1>2. PICK ls : /\ inbox[c] # <<>> /\ IsTyped(k, ls) /\ typed[c] = [kind |-> k, lines |-> ls]
                /\ Args(c) = Tail(Meant(k, ls))
  BY <1>1, AskedIs
<1>3. PICK u : /\ ls[1] = <<u>>
               /\ \/ ls[2] = <<>> /\ Meant(k, ls) = <<Word(k), u>>
                  \/ \E w : ls[2] = <<w>> /\ Meant(k, ls) = <<Word(k), u, w>>
  BY <1>1, <1>2, MeantIs
<1>4. (ls[2] = <<>> /\ Args(c) = <<u>>) \/ \E w : ls[2] = <<w>> /\ Args(c) = <<u, w>>
  <2>1. Tail(<<Word(k), u>>) = <<u>> /\ \A w : Tail(<<Word(k), u, w>>) = <<u, w>>
    BY Tails
  <2> QED BY <1>2, <1>3, <2>1, Zenon
<1>5. Args(c)[1] = u /\ Args(c) # <<>>
  BY <1>4
<1>6. Password(c) = ls[2]
  <2>1. /\ SubSeq(<<u>>, 2, Min({2, Len(<<u>>)})) = <<>>
        /\ \A w : SubSeq(<<u, w>>, 2, Min({2, Len(<<u, w>>)})) = <<w>>
    BY Parts
  <2> QED BY <1>4, <2>1, Zenon DEF Password
<1>7. isValidUsername(<<u>>)
  <2>1. Len(Prompts[k]) = 2 /\ Prompts[k][1] = "username"
    BY DEF Prompts
  <2>2. Valid("username", ls[1])
    BY <1>2, <2>1 DEF IsTyped
  <2> QED BY <1>3, <2>2 DEF Valid
<1>8. View!Names(c) = u
  BY <1>2, <1>3 DEF View!Names, View!OrDefault
<1> QED BY <1>2, <1>5, <1>6, <1>7, <1>8 DEF Named

\* REGISTER adds the account typed with its password, unless the name is taken.
LEMMA RegisterIsDone ==
  ASSUME ViewInv, NEW c \in Clients, Register(c)
  PROVE  View!Perform(c) \/ View!Refuse(c)
<1>1. /\ inbox[c] # <<>> /\ typed[c].kind = "REGISTER"
      /\ Named(c) /\ Args(c)[1] = View!Names(c) /\ Password(c) = typed[c].lines[2]
  BY NameAndPassword DEF Register
<1>2. CASE Args(c)[1] \in DOMAIN accounts
  <2>1. "taken" \in View!Reasons(c) /\ Meaning(typed[c].kind, "USERNAME_EXISTS") = "taken"
    BY <1>1, <1>2, ReasonsAre, MeaningIs
  <2> QED BY <1>1, <1>2, <2>1, RefusedIs DEF Register
<1>3. CASE Args(c)[1] \notin DOMAIN accounts
  <2>1. Outcomes[c] = "asked" /\ typed' = typed /\ Outcomes' = [Outcomes EXCEPT ![c] = "done"]
    <3>1. Meaning(typed[c].kind, "REGISTER_SUCCESS") = "done"
      BY <1>1, MeaningIs
    <3> QED BY <1>1, <1>3, <3>1, DoneIs DEF Register
  <2>2. Logins' = Logins
    BY LoginsChange DEF Register
  <2>3. accounts' = [u \in DOMAIN accounts \cup {View!Names(c)} |->
                       IF u = View!Names(c) THEN View!Secret(c) ELSE accounts[u]]
    BY <1>1, <1>3 DEF Register, View!Secret
  <2>4. View!Reasons(c) = {}
    BY <1>1, <1>3, ReasonsAre
  <2> QED BY <1>1, <2>1, <2>2, <2>3, <2>4 DEF Register, View!Perform, Logins, Outcomes
<1> QED BY <1>2, <1>3

\* LOGIN logs in the user typed, if that is the password of the account.
LEMMA LoginIsDone ==
  ASSUME ViewInv, NEW c \in Clients, Login(c)
  PROVE  View!Perform(c) \/ View!Refuse(c)
<1>1. /\ inbox[c] # <<>> /\ typed[c].kind = "LOGIN"
      /\ Named(c) /\ Args(c)[1] = View!Names(c) /\ Password(c) = typed[c].lines[2]
  BY NameAndPassword DEF Login
<1>2. CASE Args(c)[1] \notin DOMAIN accounts
  <2>1. /\ "unknown user" \in View!Reasons(c)
        /\ Meaning(typed[c].kind, "USERNAME_NOT_FOUND") = "unknown user"
    BY <1>1, <1>2, ReasonsAre, MeaningIs
  <2> QED BY <1>1, <1>2, <2>1, RefusedIs DEF Login
<1>3. CASE Args(c)[1] \in DOMAIN accounts /\ accounts[Args(c)[1]] # Password(c)
  <2>1. /\ "wrong password" \in View!Reasons(c)
        /\ Meaning(typed[c].kind, "PASSWORD_INCORRECT") = "wrong password"
    BY <1>1, <1>3, ReasonsAre, MeaningIs
  <2> QED BY <1>1, <1>3, <2>1, RefusedIs DEF Login
<1>4. CASE Args(c)[1] \in DOMAIN accounts /\ accounts[Args(c)[1]] = Password(c)
  <2>1. Outcomes[c] = "asked" /\ typed' = typed /\ Outcomes' = [Outcomes EXCEPT ![c] = "done"]
    <3>1. Meaning(typed[c].kind, "LOGIN_SUCCESS") = "done"
      BY <1>1, MeaningIs
    <3> QED BY <1>1, <1>4, <3>1, DoneIs DEF Login
  <2>2. Logins' = [Logins EXCEPT ![c] = <<View!Names(c)>>]
    <3>1. session' = [session EXCEPT ![c] = [user |-> <<Args(c)[1]>>, authenticated |-> TRUE]]
      BY <1>1, <1>4 DEF Login
    <3> QED BY <1>1, <3>1, LoginsChange
  <2>3. View!Reasons(c) = {}
    BY <1>1, <1>4, ReasonsAre
  <2> QED BY <1>1, <2>1, <2>2, <2>3 DEF Login, View!Perform, View!Enter, Logins, Outcomes
<1> QED BY <1>2, <1>3, <1>4

\* SET_TRUSTLINE: the fields its handler finds are those of the prompts.
LEMMA FieldsAre ==
  ASSUME ViewInv, NEW c \in Clients, Asks(c, "SET_TRUSTLINE")
  PROVE  /\ inbox[c] # <<>> /\ typed[c].kind = "SET_TRUSTLINE"
         /\ IsTyped("SET_TRUSTLINE", typed[c].lines)
         /\ \A i \in 1..4 : IsLine(typed[c].lines[i])
         /\ Args(c) = <<Said(typed[c].lines[1]), Said(typed[c].lines[2]),
                        Said(typed[c].lines[3]), Said(typed[c].lines[4])>>
         /\ Fields(c) = Args(c)
<1> DEFINE k == "SET_TRUSTLINE"
           ls == typed[c].lines
<1>1. k \in DOMAIN Prompts
  BY PromptsAre
<1>2. inbox[c] # <<>> /\ typed[c].kind = k /\ IsTyped(k, ls) /\ Args(c) = Tail(Meant(k, ls))
  <2>1. PICK l : IsTyped(k, l) /\ typed[c] = [kind |-> k, lines |-> l] /\ Args(c) = Tail(Meant(k, l))
    BY <1>1, AskedIs
  <2>2. ls = l
    BY <2>1
  <2> QED BY <1>1, <2>1, <2>2, AskedIs
<1>3. \A i \in 1..4 : IsLine(ls[i])
  BY <1>2, SetTrustlineText
<1> DEFINE s1 == Said(ls[1])
           s2 == Said(ls[2])
           s3 == Said(ls[3])
           s4 == Said(ls[4])
<1>4. Meant(k, ls) = <<Word(k), s1, s2, s3, s4>>
  BY <1>1, <1>2, MeantIs
<1>5. Args(c) = <<s1, s2, s3, s4>>
  <2> HIDE DEF s1, s2, s3, s4, k, ls
  <2>1. Tail(<<Word(k), s1, s2, s3, s4>>) = <<s1, s2, s3, s4>>
    BY Tails
  <2> QED BY <1>2, <1>4, <2>1
<1>6. ~(Size(s3) > 5)
  <2>1. CASE ls[3] = <<>>
    <3>1. s3 = Word("none")
      BY <1>3, <2>1, OrNoneIs DEF Said
    <3> QED BY <3>1, TextsAssumption DEF Size, Word, IsNumeral
  <2>2. CASE ls[3] # <<>>
    <3>1. s3 = ls[3][1]
      BY <1>3, <2>2, OrNoneIs DEF Said
    <3>2. ls[3] \in Lines["port"]
      BY <1>2 DEF IsTyped, Prompts
    <3>3. Size(s3) <= 5 /\ Size(s3) \in Nat
      BY <1>3, <2>2, <3>1, <3>2, PromptsAssumption DEF IsLine, Full
    <3> QED BY <3>3
  <2> QED BY <2>1, <2>2
<1>7. Fields(c) = Args(c)
  <2> HIDE DEF s1, s2, s3, s4, k, ls
  <2>1. <<s1, s2, s3, s4>>[3] = s3
    OBVIOUS
  <2>2. SubSeq(<<s1, s2, s3, s4>>, 1, Min({4, Len(<<s1, s2, s3, s4>>)})) = <<s1, s2, s3, s4>>
    BY Parts
  <2> QED BY <1>5, <1>6, <2>1, <2>2, Zenon DEF Fields, Scan
<1> QED BY <1>2, <1>3, <1>5, <1>7

\* What they stand for in UserView.
LEMMA FieldsMean ==
  ASSUME ViewInv, NEW c \in Clients, Asks(c, "SET_TRUSTLINE")
  PROVE  LET f == Args(c) IN
         /\ Len(f) = 4
         /\ View!Names(c) = IF f[1] = Word("none") THEN Word("default") ELSE f[1]
         /\ isValidUsername(<<f[1]>>) /\ isValidUsername(<<View!Names(c)>>)
         /\ f[3] # Word("none") => isValidPort(<<f[3]>>)
         /\ View!Peer(c) = <<IF f[2] = Word("none") THEN Word("localhost") ELSE f[2],
                             IF f[3] = Word("none") THEN 2012 ELSE PortNumber(f[3])>>
         /\ (f[4] = Word("none") \/ f[4] = Numeral(<<0>>)) <=> View!IsZero(View!Amount(c))
         /\ f[4] # Word("none") => View!Amount(c) = f[4]
<1> DEFINE ls == typed[c].lines
           f  == Args(c)
<1>1. /\ \A i \in 1..4 : IsLine(ls[i])
      /\ f = <<Said(ls[1]), Said(ls[2]), Said(ls[3]), Said(ls[4])>>
      /\ IsTyped("SET_TRUSTLINE", ls)
  BY FieldsAre
<1>2. ASSUME NEW i \in 1..4
      PROVE  /\ f[i] = IF ls[i] = <<>> THEN Word("none") ELSE ls[i][1]
             /\ f[i] = Word("none") <=> ls[i] = <<>>
             /\ ls[i] # <<>> => ls[i] = <<f[i]>>
  <2>1. f[i] = Said(ls[i]) /\ IsLine(ls[i])
    BY <1>1
  <2>2. /\ Said(ls[i]) = IF ls[i] = <<>> THEN Word("none") ELSE ls[i][1]
        /\ Said(ls[i]) = Word("none") <=> ls[i] = <<>>
    BY <2>1, OrNoneIs DEF Said
  <2> QED BY <2>1, <2>2 DEF IsLine
<1>3. Valid("peer", ls[1]) /\ Valid("port", ls[3])
  BY <1>1 DEF IsTyped, Prompts
<1>4. Len(f) = 4
  BY <1>1
<1> HIDE DEF f
<1>5. View!Names(c) = IF f[1] = Word("none") THEN Word("default") ELSE f[1]
  BY <1>2, SameWords DEF View!Names, View!OrDefault
<1>6. /\ isValidUsername(<<Word("none")>>) /\ isValidUsername(<<Word("default")>>)
  BY TextsAssumption DEF isValidUsername, Word, IsNumeral
<1>7. f[1] # Word("none") => isValidUsername(<<f[1]>>)
  BY <1>2, <1>3 DEF Valid
<1>8. f[3] # Word("none") => isValidPort(<<f[3]>>)
  BY <1>2, <1>3 DEF Valid
<1>9. View!Peer(c) = <<IF f[2] = Word("none") THEN Word("localhost") ELSE f[2],
                       IF f[3] = Word("none") THEN 2012 ELSE PortNumber(f[3])>>
  BY <1>2, SameWords DEF View!Peer, View!OrDefault
<1>10. View!Amount(c) = IF f[4] = Word("none") THEN Numeral(<<0>>) ELSE f[4]
  BY <1>2, SameWords DEF View!Amount, View!OrDefault
<1>11. View!IsZero(Numeral(<<0>>))
  BY DEF View!IsZero, Numeral
<1>12. f[4] # Word("none") /\ View!IsZero(f[4]) => f[4] = Numeral(<<0>>)
  <2> SUFFICES ASSUME f[4] # Word("none"), View!IsZero(f[4])
               PROVE  f[4] = Numeral(<<0>>)
    OBVIOUS
  <2>1. ls[4] # <<>> /\ ls[4] = <<f[4]>>
    BY <1>2
  <2>2. ls[4] \in Lines["size"] /\ Valid("size", ls[4])
    BY <1>1 DEF IsTyped, Prompts
  <2>3. IsNumeral(f[4])
    <3>1. isNumber(<<f[4]>>)
      BY <2>1, <2>2 DEF Valid
    <3>2. 1 \in 1..Len(<<f[4]>>) /\ <<f[4]>>[1] = f[4]
      OBVIOUS
    <3> QED BY <3>1, <3>2 DEF isNumber
  <2>4. \A i \in DOMAIN f[4].digits : f[4].digits[i] = 0
    BY DEF View!IsZero
  <2> HIDE DEF ls
  <2>5. ls[4][1] = f[4]
    BY <2>1
  <2>6. ls[4] = <<Numeral(<<0>>)>>
    BY <2>1, <2>2, <2>3, <2>4, <2>5, PromptsAssumption
  <2> QED BY <2>1, <2>6
<1>13. (f[4] = Word("none") \/ f[4] = Numeral(<<0>>)) <=> View!IsZero(View!Amount(c))
  BY <1>10, <1>11, <1>12
<1> QED BY <1>4, <1>5, <1>6, <1>7, <1>8, <1>9, <1>10, <1>13 DEF f

\* The query of a trustline reaches the other server whole.
LEMMA QueryIsRead ==
  ASSUME ViewInv, NEW c \in Clients, Asks(c, "SET_TRUSTLINE"), session[c].authenticated
  PROVE  LET f == Args(c) IN
         Tail(Slice(<<Word("SET_TRUSTLINE"), User(c), f[1], f[4]>>, 0, QueryMax)) = <<User(c), f[1], f[4]>>
<1> DEFINE k    == "SET_TRUSTLINE"
           ls   == typed[c].lines
           s1   == Said(ls[1])
           s4   == Said(ls[4])
           user == User(c)
<1>1. /\ \A i \in 1..4 : IsLine(ls[i])
      /\ Args(c) = <<s1, Said(ls[2]), Said(ls[3]), s4>>
      /\ IsTyped(k, ls)
  BY FieldsAre
<1>2. session[c].user \in Lines["username"] /\ session[c].user = <<user>>
  BY LoginIs DEF ViewInv, ReadAsTyped
<1>3. Full(user)
  <2>1. IsLine(session[c].user)
    BY <1>2, LinesAre, WordsAssumption
  <2> QED BY <1>2, <2>1 DEF IsLine
<1>4. /\ OrNone(ls[1]) = <<s1>> /\ Full(s1)
      /\ OrNone(ls[4]) = <<s4>> /\ Full(s4)
  BY <1>1, OrNoneIs DEF Said
<1>5. ls[1] \in Lines["peer"] /\ ls[4] \in Lines["size"]
  BY <1>1 DEF IsTyped, Prompts
<1>6. Bytes(<<Word(k)>> \o session[c].user \o OrNone(ls[1]) \o OrNone(ls[4])) <= 256
  BY <1>2, <1>5, FitsAssumption
<1>7. Full(Word(k))
  BY WordsAreFull, PromptsAre
<1>8. Args(c)[1] = s1 /\ Args(c)[4] = s4
  BY <1>1
<1> HIDE DEF k, s1, s4, user
<1>9. /\ <<Word(k)>> \o <<user>> = <<Word(k), user>>
      /\ <<Word(k), user>> \o <<s1>> = <<Word(k), user, s1>>
      /\ <<Word(k), user, s1>> \o <<s4>> = <<Word(k), user, s1, s4>>
  BY Joined
<1>10. Bytes(<<Word(k), user, s1, s4>>) <= 256
  BY <1>2, <1>4, <1>6, <1>9, Zenon
<1>11. Arrives(<<Word(k), user, s1, s4>>, 256, <<Word(k), user, s1, s4>>)
  BY <1>3, <1>4, <1>7, ReadTuples, 256 \in Nat
<1>12. Slice(<<Word(k), user, s1, s4>>, 0, QueryMax) = <<Word(k), user, s1, s4>>
  BY <1>10, <1>11 DEF Arrives, QueryMax
<1>13. Tail(<<Word(k), user, s1, s4>>) = <<user, s1, s4>>
  OBVIOUS
<1>14. Tail(Slice(<<Word(k), user, Args(c)[1], Args(c)[4]>>, 0, QueryMax)) = <<user, Args(c)[1], Args(c)[4]>>
  BY <1>8, <1>12, <1>13
<1> QED BY <1>14 DEF k, user

\* SET_TRUSTLINE sets or removes the trustline typed, at the server typed, or
\* is refused when there is no session, no server or no such account.
LEMMA SetTrustlineIsDone ==
  ASSUME ViewInv, NEW c \in Clients, SetTrustline(c)
  PROVE  View!Perform(c) \/ View!Refuse(c)
<1> DEFINE f    == Args(c)
           peer == <<IF f[2] = Word("none") THEN Word("localhost") ELSE f[2],
                     IF f[3] = Word("none") THEN DefaultPort ELSE PortNumber(f[3])>>
           s    == Endpoints[peer]
           of   == IF f[1] = Word("none") THEN Word("default") ELSE f[1]
           query == <<Word("SET_TRUSTLINE"), User(c), f[1], f[4]>>
<1>1. Asks(c, "SET_TRUSTLINE") /\ UNCHANGED <<session, accounts, gave>>
  BY DEF SetTrustline
<1>2. inbox[c] # <<>> /\ typed[c].kind = "SET_TRUSTLINE" /\ Fields(c) = f
  BY <1>1, FieldsAre
<1>3. /\ Len(f) = 4 /\ View!Names(c) = of /\ isValidUsername(<<f[1]>>) /\ isValidUsername(<<of>>)
      /\ f[3] # Word("none") => isValidPort(<<f[3]>>)
      /\ View!Peer(c) = peer
      /\ (f[4] = Word("none") \/ f[4] = Numeral(<<0>>)) <=> View!IsZero(View!Amount(c))
      /\ f[4] # Word("none") => View!Amount(c) = f[4]
  BY <1>1, FieldsMean DEF DefaultPort
<1>4. Named(c)
  <2>1. f # <<>>
    BY <1>3
  <2> QED BY <1>3, <2>1 DEF Named
<1>5. IF ~session[c].authenticated THEN "logged out" \in View!Reasons(c)
      ELSE IF peer \notin DOMAIN Endpoints THEN "no server" \in View!Reasons(c)
      ELSE IF of \notin AccountsAt(s) THEN "no account" \in View!Reasons(c)
      ELSE View!Reasons(c) = {}
  <2>1. IF Logins[c] = <<>> THEN "logged out" \in View!Reasons(c)
        ELSE IF View!Peer(c) \notin DOMAIN Endpoints THEN "no server" \in View!Reasons(c)
        ELSE IF View!Names(c) \notin AccountsAt(Endpoints[View!Peer(c)])
        THEN "no account" \in View!Reasons(c) ELSE View!Reasons(c) = {}
    BY <1>2, ReasonsAre
  <2>2. Logins[c] # <<>> <=> session[c].authenticated
    BY LoginIs
  <2> HIDE DEF peer, of
  <2> QED BY <1>3, <2>1, <2>2
<1> HIDE DEF f
<1>6. \/ ~session[c].authenticated /\ Answer(c, "AUTH_REQUIRED") /\ UNCHANGED trustlines
      \/ /\ session[c].authenticated /\ peer \notin DOMAIN Endpoints
         /\ Answer(c, "CONNECTION_FAILED") /\ UNCHANGED trustlines
      \/ session[c].authenticated /\ peer \in DOMAIN Endpoints /\ RemoteSetTrustline(c, s, query)
  BY <1>2, <1>3, <1>4 DEF SetTrustline
<1>7. CASE ~session[c].authenticated /\ Answer(c, "AUTH_REQUIRED") /\ UNCHANGED trustlines
  <2>1. "logged out" \in View!Reasons(c) /\ Meaning(typed[c].kind, "AUTH_REQUIRED") = "logged out"
    BY <1>2, <1>5, <1>7, MeaningIs
  <2> QED BY <1>1, <1>2, <1>7, <2>1, RefusedIs
<1>8. CASE /\ session[c].authenticated /\ peer \notin DOMAIN Endpoints
           /\ Answer(c, "CONNECTION_FAILED") /\ UNCHANGED trustlines
  <2>1. "no server" \in View!Reasons(c) /\ Meaning(typed[c].kind, "CONNECTION_FAILED") = "no server"
    BY <1>2, <1>5, <1>8, MeaningIs
  <2> QED BY <1>1, <1>2, <1>8, <2>1, RefusedIs
<1>9. CASE session[c].authenticated /\ peer \in DOMAIN Endpoints /\ RemoteSetTrustline(c, s, query)
  <2> DEFINE user  == User(c)
             key   == [at |-> s, of |-> of, by |-> user]
             Other == {t \in trustlines : ~(t.at = s /\ t.of = of /\ t.by = user)}
             Removes == f[4] = Word("none") \/ f[4] = Numeral(<<0>>)
  <2>1. Tail(Slice(query, 0, QueryMax)) = <<user, f[1], f[4]>>
    BY <1>1, <1>9, QueryIsRead DEF f
  <2>2. \/ /\ of \notin AccountsAt(s) /\ Answer(c, "FAILED_TO_ACCESS_USER_DIRECTORY")
           /\ UNCHANGED trustlines
        \/ of \in AccountsAt(s) /\ Removes /\ trustlines' = Other /\ Answer(c, Success)
        \/ /\ of \in AccountsAt(s) /\ ~Removes /\ Answer(c, Success)
           /\ trustlines' = Other \cup {key @@ [size |-> f[4]]}
    <3> DEFINE a     == Tail(Slice(query, 0, QueryMax))
               local == IF a[2] = Word("none") THEN DefaultUser ELSE a[2]
               found == isValidUsername(<<local>>) /\ local \in AccountsAt(s)
               rest  == {t \in trustlines : ~(t.at = s /\ t.of = local /\ t.by = a[1])}
               none  == a[3] = Word("none") \/ a[3] = Numeral(<<0>>)
    <3>1. Len(a) = 3 /\ a[1] = user /\ a[2] = f[1] /\ a[3] = f[4]
      <4>1. /\ Len(<<user, f[1], f[4]>>) = 3 /\ <<user, f[1], f[4]>>[1] = user
            /\ <<user, f[1], f[4]>>[2] = f[1] /\ <<user, f[1], f[4]>>[3] = f[4]
        OBVIOUS
      <4> QED BY <2>1, <4>1
    <3>2. local = of
      BY <3>1 DEF DefaultUser
    <3>3. \/ Len(a) < 3
          \/ ~found /\ Answer(c, "FAILED_TO_ACCESS_USER_DIRECTORY") /\ UNCHANGED trustlines
          \/ found /\ none /\ trustlines' = rest /\ Answer(c, Success)
          \/ /\ found /\ ~none /\ Answer(c, Success)
             /\ trustlines' = rest \cup {[at |-> s, of |-> local, by |-> a[1]] @@ [size |-> a[3]]}
      <4> HIDE DEF query, s
      <4> QED BY <1>9 DEF RemoteSetTrustline
    <3>4. (found <=> of \in AccountsAt(s)) /\ (none <=> Removes)
      BY <1>3, <3>1, <3>2
    <3>5. rest = Other /\ [at |-> s, of |-> local, by |-> a[1]] = key
      BY <3>1, <3>2
    <3> HIDE DEF found, none, rest, local, a, Other, key, Removes
    <3> QED BY <3>1, <3>3, <3>4, <3>5
  <2>3. CASE /\ of \notin AccountsAt(s) /\ Answer(c, "FAILED_TO_ACCESS_USER_DIRECTORY")
             /\ UNCHANGED trustlines
    <3>1. /\ "no account" \in View!Reasons(c)
          /\ Meaning(typed[c].kind, "FAILED_TO_ACCESS_USER_DIRECTORY") = "no account"
      BY <1>2, <1>5, <1>9, <2>3, MeaningIs
    <3> QED BY <1>1, <1>2, <2>3, <3>1, RefusedIs
  <2>4. CASE /\ of \in AccountsAt(s) /\ Answer(c, Success)
             /\ trustlines' = IF Removes THEN Other ELSE Other \cup {key @@ [size |-> f[4]]}
    <3>1. Outcomes[c] = "asked" /\ typed' = typed /\ Outcomes' = [Outcomes EXCEPT ![c] = "done"]
      <4>1. Meaning(typed[c].kind, Success) = "done"
        BY <1>2, MeaningIs
      <4> QED BY <1>2, <2>4, <4>1, DoneIs
    <3>2. Logins' = Logins /\ Logins[c][1] = user
      BY <1>1, <1>9, LoginsChange, LoginIs
    <3>3. View!Trust(c)
      <4> DEFINE line == [at |-> Endpoints[View!Peer(c)], of |-> View!Names(c), by |-> Logins[c][1]]
                 kept == {t \in trustlines : <<t.at, t.of, t.by>> # <<line.at, line.of, line.by>>}
      <4>1. line = key
        BY <1>3, <3>2
      <4>2. kept = Other
        BY <4>1
      <4>3. trustlines' = IF View!IsZero(View!Amount(c)) THEN kept
                          ELSE kept \cup {line @@ [size |-> View!Amount(c)]}
        <5> HIDE DEF line, kept, key, Other
        <5> QED BY <1>3, <2>4, <4>1, <4>2
      <4> QED BY <4>3, SameWords DEF View!Trust, Logins
    <3>4. View!Reasons(c) = {}
      BY <1>5, <1>9, <2>4
    <3> QED BY <1>1, <1>2, <3>1, <3>2, <3>3, <3>4 DEF View!Perform, Logins, Outcomes
  <2> QED BY <2>2, <2>3, <2>4
<1> QED BY <1>6, <1>7, <1>8, <1>9

-----------------------------------------------------------------------------
(* The steps of the application, and the refinement.                       *)

\* Typing a command asks for it.
LEMMA TypeIsAsked ==
  ASSUME ViewInv, NEW c \in Clients, NEW m \in Typeable, Type(c, m)
  PROVE  View!Ask(c, m.cmd)
<1>1. prompt[c] = "typing" /\ inbox[c] = <<>>
  BY DEF Type, ViewInv, InStepInv, Carried
<1>2. PICK x : m.reads = <<x>>
  BY TypeableIsRead
<1>3. /\ inbox' = [inbox EXCEPT ![c] = <<x>>]
      /\ prompt' = [prompt EXCEPT ![c] = "waiting"] /\ replies' = replies
      /\ \A d \in Clients \ {c} : typed'[d] = typed[d]
  BY <1>1, <1>2, OneElement DEF Type, ViewInv, TypeOK
<1>4. Outcomes[c] = "idle" /\ Outcomes'[c] = "asked"
  BY <1>1, <1>3 DEF Outcomes, ViewInv, InStepInv
<1>5. \A d \in Clients \ {c} : Outcomes'[d] = Outcomes[d]
  BY <1>3 DEF Outcomes, ViewInv, InStepInv
<1>6. Outcomes' = [d \in Clients |-> Outcomes'[d]] /\ Outcomes = [d \in Clients |-> Outcomes[d]]
  BY DEF Outcomes
<1>7. Outcomes' = [Outcomes EXCEPT ![c] = "asked"]
  BY <1>4, <1>5, <1>6
<1>8. Logins' = Logins
  BY LoginsChange DEF Type
<1> QED BY <1>4, <1>7, <1>8 DEF View!Ask, Type, Logins, Outcomes

\* Receiving the reply tells its user.
LEMMA ReceiveIsTold ==
  ASSUME ViewInv, NEW c \in Clients, Receive(c)
  PROVE  View!Told(c)
<1>1. prompt[c] = "waiting" /\ inbox[c] = <<>>
  BY DEF Receive, ViewInv, InStepInv, Carried
<1>2. /\ prompt' = [prompt EXCEPT ![c] = "typing"] /\ inbox' = inbox
      /\ \A d \in Clients \ {c} : replies'[d] = replies[d] /\ typed'[d] = typed[d]
  BY DEF Receive, ViewInv, InStepInv, TypeOK
<1>3. Outcomes[c] \notin {"idle", "asked"} /\ Outcomes'[c] = "idle"
  BY <1>1, <1>2, MeaningIs DEF Outcomes, ViewInv, InStepInv
<1>4. \A d \in Clients \ {c} : Outcomes'[d] = Outcomes[d]
  BY <1>2 DEF Outcomes, ViewInv, InStepInv
<1>5. Outcomes' = [d \in Clients |-> Outcomes'[d]] /\ Outcomes = [d \in Clients |-> Outcomes[d]]
  BY DEF Outcomes
<1>6. Outcomes' = [Outcomes EXCEPT ![c] = "idle"]
  BY <1>3, <1>4, <1>5
<1>7. Logins' = Logins
  BY LoginsChange DEF Receive
<1> QED BY <1>3, <1>6, <1>7, SameWords DEF View!Told, Receive, Logins, Outcomes

\* A connection is closed when its user has left.
LEMMA CloseIsLeave ==
  ASSUME ViewInv, NEW c \in Clients, Close(c)
  PROVE  View!Leave(c)
<1>1. prompt[c] = "gone" /\ prompt' = [prompt EXCEPT ![c] = "typing"]
  BY DEF Close
<1>2. \A d \in Clients \ {c} : /\ inbox'[d] = inbox[d] /\ replies'[d] = replies[d]
                               /\ prompt'[d] = prompt[d] /\ typed'[d] = typed[d]
  BY DEF Close, ViewInv, InStepInv
<1>3. Outcomes[c] = "idle" /\ Outcomes'[c] = "idle"
  BY <1>1 DEF Outcomes, ViewInv, InStepInv
<1>4. \A d \in Clients \ {c} : Outcomes'[d] = Outcomes[d]
  BY <1>2 DEF Outcomes
<1>5. Outcomes' = [d \in Clients |-> Outcomes'[d]] /\ Outcomes = [d \in Clients |-> Outcomes[d]]
  BY DEF Outcomes
<1>6. Outcomes' = Outcomes
  BY <1>3, <1>4, <1>5
<1>7. Logins' = [Logins EXCEPT ![c] = <<>>]
  BY LoginsChange DEF Close
<1> QED BY <1>3, <1>6, <1>7 DEF View!Leave, View!Enter, Close, Logins, Outcomes

\* Every step of a client thread does or refuses the command typed; it never
\* reads one that it does not know.
LEMMA ServeIsDone ==
  ASSUME OrdinaryInv, NEW c \in Clients, Serve(c)
  PROVE  View!Perform(c) \/ View!Refuse(c)
<1>1. ViewInv
  BY DEF OrdinaryInv
<1>2. ~InvalidCommand(c)
  BY <1>1, WhatIsAsked DEF InvalidCommand
<1> QED BY <1>1, <1>2, RegisterIsDone, LoginIsDone, LogoutIsPerformed, DeleteAccountIsDone,
           AddConnectionIsRefused, SetTrustlineIsDone DEF Serve

\* Every step is one of UserView or changes nothing that users see.
LEMMA NextIsSeen ==
  ASSUME OrdinaryInv, [OrdinaryNext]_vars
  PROVE  [View!Next]_<<accounts, trustlines, {}, Logins, typed, Outcomes>>
<1>0. ViewInv
  BY DEF OrdinaryInv
<1>1. CASE UNCHANGED vars
  BY <1>1 DEF vars, connection, Logins, Outcomes
<1>2. ASSUME NEW c \in Clients, NEW m \in Typeable, Type(c, m)
      PROVE  View!Next
  <2>1. View!Ask(c, m.cmd) /\ m.cmd \in TypedCmds
    BY <1>0, <1>2, TypeIsAsked DEF TypedCmds
  <2> QED BY <2>1 DEF View!Next, TypedCmds
<1>3. ASSUME NEW c \in Clients, Receive(c)
      PROVE  View!Next
  BY <1>0, <1>3, ReceiveIsTold DEF View!Next
<1>4. ASSUME NEW c \in Clients, Exit(c)
      PROVE  UNCHANGED <<accounts, trustlines, {}, Logins, typed, Outcomes>>
  BY <1>0, <1>4 DEF Exit, Logins, Outcomes, ViewInv, InStepInv
<1>5. ASSUME NEW c \in Clients, Serve(c)
      PROVE  View!Next
  BY <1>5, ServeIsDone DEF View!Next
<1>6. ASSUME NEW c \in Clients, Close(c)
      PROVE  View!Next
  BY <1>0, <1>6, CloseIsLeave DEF View!Next
<1> QED BY <1>1, <1>2, <1>3, <1>4, <1>5, <1>6 DEF OrdinaryNext

\* What is on a connection stays what was meant: only the thread that reads it
\* changes the session of its user.
LEMMA StaysMeant ==
  ASSUME OrdinaryInv, [OrdinaryNext]_vars
  PROVE  \A d \in Clients : inbox'[d] # <<>> => AsMeant(d, typed[d])'
<1> SUFFICES ASSUME NEW d \in Clients, inbox'[d] # <<>>
             PROVE  AsMeant(d, typed[d])'
  OBVIOUS
<1>0. ViewInv /\ (inbox[d] # <<>> => AsMeant(d, typed[d]))
  BY DEF OrdinaryInv
<1>1. ASSUME inbox[d] # <<>>, typed'[d] = typed[d], session'[d] = session[d]
      PROVE  AsMeant(d, typed[d])'
  BY <1>0, <1>1 DEF AsMeant
<1>2. CASE UNCHANGED vars
  BY <1>1, <1>2 DEF vars, connection
<1>3. ASSUME NEW c \in Clients, NEW m \in Typeable, AsMeant(c, m.cmd), Type(c, m)
      PROVE  AsMeant(d, typed[d])'
  <2>1. session' = session
    BY <1>3 DEF Type
  <2>2. CASE d = c
    <3>1. typed'[d] = m.cmd
      BY <1>0, <1>3, <2>2 DEF Type, ViewInv, TypeOK
    <3> QED BY <1>3, <2>1, <2>2, <3>1 DEF AsMeant
  <2>3. CASE d # c
    BY <1>1, <1>3, <2>1, <2>3 DEF Type
  <2> QED BY <2>2, <2>3
<1>4. ASSUME NEW c \in Clients, Receive(c)
      PROVE  AsMeant(d, typed[d])'
  <2>1. inbox[c] = <<>> /\ inbox' = inbox /\ session' = session
    BY <1>0, <1>4 DEF Receive, ViewInv, InStepInv, Carried
  <2>2. d # c
    BY <2>1
  <2> QED BY <1>1, <1>4, <2>1, <2>2 DEF Receive
<1>5. ASSUME NEW c \in Clients, Exit(c)
      PROVE  AsMeant(d, typed[d])'
  BY <1>1, <1>5 DEF Exit
<1>6. ASSUME NEW c \in Clients, Serve(c)
      PROVE  AsMeant(d, typed[d])'
  <2>1. inbox[c] # <<>> /\ \E r : Answer(c, r)
    BY <1>6 DEF Serve, Register, Login, Logout, DeleteAccount, AddConnection, SetTrustline,
                RemoteSetTrustline, InvalidCommand, Asks
  <2>2. d # c /\ inbox'[d] = inbox[d] /\ typed'[d] = typed[d]
    BY <1>0, <2>1, AnswerKeeps
  <2>3. session'[d] = session[d]
    BY <1>0, <1>6, <2>2 DEF Serve, Register, Login, Logout, DeleteAccount, AddConnection,
                SetTrustline, InvalidCommand, ViewInv, TypeOK
  <2> QED BY <1>1, <2>2, <2>3
<1>7. ASSUME NEW c \in Clients, Close(c)
      PROVE  AsMeant(d, typed[d])'
  <2>1. d # c
    BY <1>0, <1>7 DEF Close, ViewInv, InStepInv
  <2>2. inbox'[d] = inbox[d] /\ typed'[d] = typed[d] /\ session'[d] = session[d]
    BY <1>0, <1>7, <2>1 DEF Close, ViewInv, InStepInv, TypeOK
  <2> QED BY <1>1, <2>2
<1> QED BY <1>2, <1>3, <1>4, <1>5, <1>6, <1>7 DEF OrdinaryNext

\* Accounts get their names from a prompt.
LEMMA AccountsStayNamed ==
  ASSUME OrdinaryInv, [OrdinaryNext]_vars
  PROVE  \A u \in DOMAIN accounts' : <<u>> \in Lines["username"]
<1>0. ViewInv /\ \A u \in DOMAIN accounts : <<u>> \in Lines["username"]
  BY DEF OrdinaryInv
<1>1. CASE UNCHANGED accounts
  BY <1>0, <1>1
<1>2. ASSUME NEW c \in Clients, Register(c)
      PROVE  \A u \in DOMAIN accounts' : <<u>> \in Lines["username"]
  <2>1. /\ inbox[c] # <<>> /\ typed[c].kind = "REGISTER"
        /\ Args(c)[1] = View!Names(c) /\ View!Names(c) = typed[c].lines[1][1]
        /\ typed[c].lines[1] \in Lines["username"]
    <3>1. Asks(c, "REGISTER") /\ "REGISTER" \in DOMAIN Prompts
      BY <1>2, PromptsAre DEF Register
    <3>2. PICK ls : IsTyped("REGISTER", ls) /\ typed[c] = [kind |-> "REGISTER", lines |-> ls]
      BY <1>0, <3>1, AskedIs
    <3>3. ls[1] \in Lines["username"]
      BY <3>2 DEF IsTyped, Prompts
    <3>4. inbox[c] # <<>> /\ typed[c].kind = "REGISTER" /\ Args(c)[1] = View!Names(c)
      BY <1>0, <3>1, NameAndPassword
    <3>5. View!Names(c) = ls[1][1]
      BY <3>2, <3>3, PromptsAssumption DEF View!Names, View!OrDefault
    <3> QED BY <3>2, <3>3, <3>4, <3>5
  <2>2. <<Args(c)[1]>> \in Lines["username"]
    <3>1. IsLine(typed[c].lines[1]) /\ typed[c].lines[1] # <<>>
      BY <2>1, LinesAre, WordsAssumption, PromptsAssumption
    <3> QED BY <2>1, <3>1 DEF IsLine
  <2>3. \A u \in DOMAIN accounts' : u \in DOMAIN accounts \/ u = Args(c)[1]
    BY <1>2 DEF Register
  <2> QED BY <1>0, <2>2, <2>3
<1>3. ASSUME NEW c \in Clients, DeleteAccount(c)
      PROVE  \A u \in DOMAIN accounts' : <<u>> \in Lines["username"]
  <2>1. DOMAIN accounts' \subseteq DOMAIN accounts
    BY <1>3 DEF DeleteAccount
  <2> QED BY <1>0, <2>1
<1>4. [OrdinaryNext]_vars => \/ UNCHANGED accounts
                             \/ \E c \in Clients : Register(c) \/ DeleteAccount(c)
  BY DEF OrdinaryNext, vars, Type, Receive, Exit, Close, Serve, Login, Logout, AddConnection,
         SetTrustline, InvalidCommand
<1> QED BY <1>1, <1>2, <1>3, <1>4

\* The invariant holds for the commands that are meant.
THEOREM OrdinaryInvariant == OrdinarySpec => []OrdinaryInv
<1>1. [OrdinaryNext]_vars => [Next]_vars
  BY DEF OrdinaryNext, Next
<1>2. OrdinarySpec => Spec
  BY <1>1, PTL DEF OrdinarySpec, Spec
<1>3. Init => /\ \A c \in Clients : inbox[c] # <<>> => AsMeant(c, typed[c])
              /\ \A u \in DOMAIN accounts : <<u>> \in Lines["username"]
  BY DEF Init
<1>4. OrdinaryInv /\ [OrdinaryNext]_vars /\ ViewInv' => OrdinaryInv'
  BY StaysMeant, AccountsStayNamed DEF OrdinaryInv
<1>5. Init /\ ViewInv => OrdinaryInv
  BY <1>3 DEF OrdinaryInv
<1> QED BY <1>2, <1>4, <1>5, ViewInvariant, PTL DEF OrdinarySpec

\* Whatever the clients type that is meant, and in whatever order the threads
\* take it, every command does what the prompts say of it, with the defaults
\* they name, or is refused for a reason that holds and changes nothing, and
\* the answer printed says which.
THEOREM ImplementsView == OrdinarySpec => ImplementsUserView
<1>1. Init => View!Init
  BY SameWords DEF Init, View!Init, Outcomes, NoSession, NoCommand, View!NoCommand
<1>2. OrdinaryInv /\ [OrdinaryNext]_vars => [View!Next]_<<accounts, trustlines, {}, Logins, typed, Outcomes>>
  BY NextIsSeen
<1>3. OrdinaryInv /\ [OrdinaryNext]_vars =>
        [View!Next]_<<accounts, trustlines, {},
                      [c \in Clients |-> IF session[c].authenticated THEN session[c].user ELSE <<>>],
                      typed, Outcomes>>
  BY <1>2 DEF Logins
<1> QED BY <1>1, <1>3, OrdinaryInvariant, PTL DEF OrdinarySpec, ImplementsUserView, View!Spec
=============================================================================
