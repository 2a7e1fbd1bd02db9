--------------------------- MODULE CommandsProofs ---------------------------
(***************************************************************************)
(* TLAPS proofs about Commands, for every number of clients, whatever they *)
(* type and whatever servers there are.                                    *)
(***************************************************************************)
EXTENDS Commands, TLAPS

\* Where a message is in a connection whose commands all fitted: not yet
\* read, or answered, or there is none.
Carried(c) ==
  IF prompt[c] = "waiting"
  THEN \/ (\E m : inbox[c] = <<m>>) /\ replies[c] = <<>>
       \/ inbox[c] = <<>> /\ \E r : replies[c] = <<r>>
  ELSE inbox[c] = <<>> /\ replies[c] = <<>>

InStepInv ==
  /\ DOMAIN prompt = Clients /\ DOMAIN inbox = Clients
  /\ DOMAIN replies = Clients /\ DOMAIN fits = Clients
  /\ \A c \in Clients : fits[c] => Carried(c)

LEMMA OneElement ==
  ASSUME NEW x
  PROVE  /\ <<x>> # <<>> /\ Len(<<x>>) = 1 /\ Len(<<>>) = 0
         /\ Tail(<<x>>) = <<>> /\ Append(<<>>, x) = <<x>> /\ <<>> \o <<x>> = <<x>>
OBVIOUS

\* A message that fits is one read.
LEMMA OneRead ==
  ASSUME NEW k, NEW ls, Compose(k, ls).fits
  PROVE  \E m : Compose(k, ls).reads = <<m>>
BY DEF Compose, Reads

LEMMA TypeableReads ==
  ASSUME NEW m \in Typeable, m.fits
  PROVE  \E x : m.reads = <<x>>
<1>1. PICK k \in DOMAIN Prompts : \E ls : m = Compose(k, ls)
  BY DEF Typeable
<1> QED BY <1>1, OneRead

\* An answer moves the message of its connection to the other side.
LEMMA AnswerCarries ==
  ASSUME InStepInv, NEW c \in Clients, NEW r, inbox[c] # <<>>, Answer(c, r)
  PROVE  InStepInv'
<1>1. ASSUME NEW d \in Clients, fits[d]
      PROVE  Carried(d)'
  <2>1. CASE d # c
    BY <1>1, <2>1 DEF InStepInv, Carried, Answer
  <2>2. CASE d = c
    <3>1. prompt[c] = "waiting" /\ replies[c] = <<>> /\ \E m : inbox[c] = <<m>>
      BY <1>1, <2>2 DEF InStepInv, Carried
    <3>2. inbox'[c] = <<>> /\ replies'[c] = <<r>>
      BY <3>1, OneElement DEF Answer, InStepInv
    <3> QED BY <2>2, <3>1, <3>2 DEF Answer, Carried
  <2> QED BY <2>1, <2>2
<1> QED BY <1>1 DEF InStepInv, Answer

\* Every step of the client thread answers one read.
LEMMA ServeAnswers ==
  ASSUME NEW c \in Clients, Serve(c)
  PROVE  inbox[c] # <<>> /\ \E r \in Replies : Answer(c, r)
<1>1. CASE Register(c) BY <1>1 DEF Register, Asks, Replies
<1>2. CASE Login(c) BY <1>2 DEF Login, Asks, Replies
<1>3. CASE Logout(c) BY <1>3 DEF Logout, Asks, Replies
<1>4. CASE DeleteAccount(c) BY <1>4 DEF DeleteAccount, Asks, Replies
<1>5. CASE AddConnection(c) BY <1>5 DEF AddConnection, Asks, Replies
<1>6. CASE SetTrustline(c) BY <1>6 DEF SetTrustline, RemoteSetTrustline, Asks, Replies, Success
<1>7. CASE InvalidCommand(c) BY <1>7 DEF InvalidCommand, Replies
<1> QED BY <1>1, <1>2, <1>3, <1>4, <1>5, <1>6, <1>7 DEF Serve

LEMMA InStepStep ==
  ASSUME InStepInv, [Next]_vars
  PROVE  InStepInv'
<1>1. CASE UNCHANGED vars
  BY <1>1 DEF vars, connection, InStepInv, Carried
<1>2. ASSUME NEW c \in Clients, NEW m \in Typeable, Type(c, m)
      PROVE  InStepInv'
  <2>1. ASSUME NEW d \in Clients, fits'[d]
        PROVE  Carried(d)'
    <3>1. CASE d # c
      BY <1>2, <2>1, <3>1 DEF Type, InStepInv, Carried
    <3>2. CASE d = c
      <4>1. fits[c] /\ m.fits /\ inbox[c] = <<>> /\ replies[c] = <<>>
        BY <1>2, <2>1, <3>2 DEF Type, InStepInv, Carried
      <4>2. PICK x : m.reads = <<x>>
        BY <4>1, TypeableReads
      <4>3. inbox'[c] = <<x>> /\ replies'[c] = <<>> /\ prompt'[c] = "waiting"
        BY <1>2, <4>1, <4>2, OneElement DEF Type, InStepInv
      <4> QED BY <3>2, <4>3 DEF Carried
    <3> QED BY <3>1, <3>2
  <2> QED BY <1>2, <2>1 DEF Type, InStepInv
<1>3. ASSUME NEW c \in Clients, Receive(c)
      PROVE  InStepInv'
  <2>1. ASSUME NEW d \in Clients, fits[d]
        PROVE  Carried(d)'
    <3>1. CASE d # c
      BY <1>3, <2>1, <3>1 DEF Receive, InStepInv, Carried
    <3>2. CASE d = c
      <4>1. inbox[c] = <<>> /\ \E r : replies[c] = <<r>>
        BY <1>3, <2>1, <3>2 DEF Receive, InStepInv, Carried
      <4>2. replies'[c] = <<>> /\ prompt'[c] = "typing"
        BY <1>3, <4>1, OneElement DEF Receive, InStepInv
      <4> QED BY <1>3, <3>2, <4>1, <4>2 DEF Receive, Carried
    <3> QED BY <3>1, <3>2
  <2> QED BY <1>3, <2>1 DEF Receive, InStepInv
<1>4. ASSUME NEW c \in Clients, Exit(c)
      PROVE  InStepInv'
  BY <1>4 DEF Exit, InStepInv, Carried
<1>5. ASSUME NEW c \in Clients, Serve(c)
      PROVE  InStepInv'
  BY <1>5, ServeAnswers, AnswerCarries
<1>6. ASSUME NEW c \in Clients, Close(c)
      PROVE  InStepInv'
  BY <1>6 DEF Close, InStepInv, Carried
<1> QED BY <1>1, <1>2, <1>3, <1>4, <1>5, <1>6 DEF Next

\* As long as the commands of a connection fit in one read, its client and
\* its thread stay in step: what SSL_read returns to a handler of the
\* application is the answer to what it wrote.
THEOREM StaysInStep == Spec => []InStep
<1>1. Init => InStepInv
  BY DEF Init, InStepInv, Carried
<1>2. InStepInv /\ [Next]_vars => InStepInv'
  BY InStepStep
<1>3. InStepInv => InStep
  <2> SUFFICES ASSUME InStepInv, NEW c \in Clients, fits[c]
               PROVE  Unread(c) = (IF prompt[c] = "waiting" THEN 1 ELSE 0)
    BY DEF InStep, InStepOf
  <2>1. Carried(c)
    BY DEF InStepInv
  <2>2. ASSUME NEW m, NEW r
        PROVE  Len(<<m>>) + Len(<<>>) = 1 /\ Len(<<>>) + Len(<<r>>) = 1 /\ Len(<<>>) + Len(<<>>) = 0
    OBVIOUS
  <2>3. CASE prompt[c] = "waiting"
    <3>1. CASE (\E m : inbox[c] = <<m>>) /\ replies[c] = <<>>
      BY <2>2, <2>3, <3>1, Zenon DEF Unread
    <3>2. CASE inbox[c] = <<>> /\ \E r : replies[c] = <<r>>
      BY <2>2, <2>3, <3>2, Zenon DEF Unread
    <3> QED BY <2>1, <2>3, <3>1, <3>2, Zenon DEF Carried
  <2>4. CASE prompt[c] # "waiting"
    BY <2>1, <2>2, <2>4, Zenon DEF Carried, Unread
  <2> QED BY <2>3, <2>4
<1> QED BY <1>1, <1>2, <1>3, PTL DEF Spec

-----------------------------------------------------------------------------
(* Types.                                                                  *)

LEMMA Sessions ==
  /\ IsSession(NoSession)
  /\ \A u : IsSession([user |-> <<u>>, authenticated |-> TRUE])
  /\ \A u : IsSession([user |-> u, authenticated |-> FALSE])
<1>1. IsSession(NoSession)
  BY DEF IsSession, NoSession
<1>2. ASSUME NEW u
      PROVE  IsSession([user |-> <<u>>, authenticated |-> TRUE])
  BY OneElement DEF IsSession
<1>3. ASSUME NEW u
      PROVE  IsSession([user |-> u, authenticated |-> FALSE])
  BY DEF IsSession
<1> QED BY <1>1, <1>2, <1>3

\* A handler leaves every session with a user for its flag.
LEMMA ServeSessions ==
  ASSUME DOMAIN session = Clients, NEW c \in Clients, Serve(c),
         \A d \in Clients : IsSession(session[d])
  PROVE  DOMAIN session' = Clients /\ \A d \in Clients : IsSession(session'[d])
<1>1. CASE UNCHANGED session
  BY <1>1
<1>2. CASE session' = [session EXCEPT ![c] = NoSession]
  BY <1>2, Sessions
<1>3. CASE session' = [session EXCEPT ![c] = [user |-> session[c].user, authenticated |-> FALSE]]
  BY <1>3, Sessions
<1>4. CASE \E x : session' = [session EXCEPT ![c] = [user |-> <<x>>, authenticated |-> TRUE]]
  BY <1>4, Sessions
<1>5. CASE Register(c) BY <1>1, <1>5 DEF Register
<1>6. CASE Login(c) BY <1>1, <1>4, <1>6 DEF Login
<1>7. CASE Logout(c) BY <1>3, <1>7 DEF Logout
<1>8. CASE DeleteAccount(c) BY <1>1, <1>2, <1>8 DEF DeleteAccount
<1>9. CASE AddConnection(c) BY <1>1, <1>9 DEF AddConnection
<1>10. CASE SetTrustline(c) BY <1>1, <1>10 DEF SetTrustline
<1>11. CASE InvalidCommand(c) BY <1>1, <1>11 DEF InvalidCommand
<1> QED BY <1>5, <1>6, <1>7, <1>8, <1>9, <1>10, <1>11 DEF Serve

LEMMA TypeStep ==
  ASSUME TypeOK, [Next]_vars
  PROVE  TypeOK'
<1> USE DEF TypeOK
<1>1. CASE UNCHANGED vars
  BY <1>1 DEF vars, connection
<1>2. ASSUME NEW c \in Clients, NEW m \in Typeable, Type(c, m)
      PROVE  TypeOK'
  <2>1. m.fits \in BOOLEAN
    <3>1. PICK k \in DOMAIN Prompts : \E ls : m = Compose(k, ls)
      BY DEF Typeable
    <3> QED BY <3>1 DEF Compose
  <2> QED BY <1>2, <2>1 DEF Type
<1>3. ASSUME NEW c \in Clients, Receive(c)
      PROVE  TypeOK'
  <2>1. Tail(replies[c]) \in Seq(Replies)
    BY <1>3 DEF Receive
  <2>2. prompt' \in [Clients -> {"typing", "waiting", "gone"}] /\ replies' \in [Clients -> Seq(Replies)]
    BY <1>3, <2>1 DEF Receive
  <2>3. \A d \in Clients :
          typed'[d] \in IF prompt'[d] = "waiting" THEN {m.cmd : m \in Typeable} ELSE {NoCommand}
    BY <1>3 DEF Receive
  <2> QED BY <1>3, <2>2, <2>3 DEF Receive
<1>4. ASSUME NEW c \in Clients, Exit(c)
      PROVE  TypeOK'
  BY <1>4 DEF Exit
<1>5. ASSUME NEW c \in Clients, Serve(c)
      PROVE  TypeOK'
  <2>1. PICK r \in Replies : Answer(c, r)
    BY <1>5, ServeAnswers
  <2>2. DOMAIN session' = Clients /\ \A d \in Clients : IsSession(session'[d])
    BY <1>5, ServeSessions
  <2> QED BY <2>1, <2>2 DEF Answer
<1>6. ASSUME NEW c \in Clients, Close(c)
      PROVE  TypeOK'
  BY <1>6, Sessions DEF Close
<1> QED BY <1>1, <1>2, <1>3, <1>4, <1>5, <1>6 DEF Next

\* Every variable keeps its type, every reply is one of the texts the
\* handlers return, and an authenticated session always has a user to act for.
THEOREM TypeCorrect == Spec => []TypeOK
<1>1. Init => TypeOK
  BY Sessions DEF Init, TypeOK
<1> QED BY <1>1, TypeStep, PTL DEF Spec
=============================================================================
