-------------------------- MODULE OrdinaryCommands --------------------------
(***************************************************************************)
(* Commands, when users answer the prompts as they are meant to be         *)
(* answered.  What is assumed here is about what is typed, and about how   *)
(* long it is; what the programs make of it is not.                        *)
(*                                                                         *)
(* AsMeant leaves out commands with which the programs do not do what the  *)
(* prompts say: DELETE_ACCOUNT does not look at the name that is to confirm *)
(* it, and ADD_CONNECTION takes the "none" the application sends for an    *)
(* empty line for a name, an address and a port, and never finds an        *)
(* account that exists.                                                    *)
(***************************************************************************)
EXTENDS Commands

\* The texts that the programs themselves write: "none" for what is left
\* empty, "default" for the account that is meant then.
ASSUME TextsAssumption ==
  /\ \A x \in DOMAIN LengthOf : LengthOf[x] \in Nat \ {0}
  /\ DOMAIN Prompts \cup {"none"} \subseteq DOMAIN LengthOf /\ LengthOf["none"] = 4
  /\ "none" \notin Dotted /\ "default" \notin Dotted

IsWord(w) ==
  \/ \E x \in DOMAIN LengthOf : w = Word(x)
  \/ IsNumeral(w) /\ w = Numeral(w.digits) /\ w.digits \in Seq(0..9) /\ w.digits # <<>>

\* A line is empty or one word, which is not the "none" that stands for an
\* empty one.
ASSUME WordsAssumption ==
  /\ DOMAIN Lines = {"username", "password", "confirmation", "peer", "address", "port", "size"}
  /\ \A p \in DOMAIN Lines : \A line \in Lines[p] :
       line # <<>> => line = <<line[1]>> /\ IsWord(line[1]) /\ line[1] # Word("none")

\* Users name themselves, a port has the digits a port can have, and zero is
\* written with one digit.
ASSUME PromptsAssumption ==
  /\ <<>> \notin Lines["username"]
  /\ \A line \in Lines["port"] : line # <<>> => Size(line[1]) <= 5
  /\ \A line \in Lines["size"] :
       line # <<>> /\ IsNumeral(line[1]) /\ (\A i \in DOMAIN line[1].digits : line[1].digits[i] = 0)
       => line = <<Numeral(<<0>>)>>

\* The address every server has for itself is that of one server, "localhost".
ASSUME AddressAssumption ==
  \A e \in DOMAIN Endpoints :
    e[1] \in {Word("jipple.net"), Word("localhost")} =>
      \A a \in {Word("jipple.net"), Word("localhost")} :
        <<a, e[2]>> \in DOMAIN Endpoints /\ Endpoints[<<a, e[2]>>] = Endpoints[e]

\* No command is longer than a read of the client thread, and no query that
\* a server makes of one longer than the one read of the other server.
ASSUME FitsAssumption ==
  /\ \A m \in Typeable : ~(Message(m.cmd.kind, m.cmd.lines).bytes > 255)
  /\ \A user \in Lines["username"], peer \in Lines["peer"], size \in Lines["size"] :
       Bytes(<<Word("SET_TRUSTLINE")>> \o user \o OrNone(peer) \o OrNone(size)) <= 256

\* Users who delete their account confirm with its name, and those who add
\* a connection type all of it, to an account that there is not.
AsMeant(c, cmd) ==
  /\ cmd.kind = "DELETE_ACCOUNT" /\ session[c].authenticated => cmd.lines[1] = session[c].user
  /\ cmd.kind = "ADD_CONNECTION" =>
       /\ \A i \in 1..3 : cmd.lines[i] # <<>>
       /\ cmd.lines[1] \notin Lines["username"] /\ cmd.lines[1][1] \notin RemoteAccounts

OrdinaryNext ==
  \E c \in Clients :
    \/ \E m \in Typeable : AsMeant(c, m.cmd) /\ Type(c, m)
    \/ Receive(c) \/ Exit(c) \/ Serve(c) \/ Close(c)

OrdinarySpec == Init /\ [][OrdinaryNext]_vars

-----------------------------------------------------------------------------
(* Properties.                                                             *)

\* The words of a command, as its user means it.
Meant(k, ls) ==
  CASE k = "LOGOUT"                -> <<Word(k)>>
    [] k = "DELETE_ACCOUNT"        -> <<Word(k)>> \o ls[1]
    [] k \in {"LOGIN", "REGISTER"} -> <<Word(k)>> \o ls[1] \o ls[2]
    [] OTHER                       -> Text(k, ls)

\* What a client thread reads is the command its user typed last, whole and
\* nothing else, and the user of its session is one that was typed: that
\* snprintf, the record of 255 bytes and the buffer lose nothing of it is
\* what handle_client_connection relies on when it dispatches what it read.
ReadAsTyped ==
  \A c \in Clients :
    /\ inbox[c] # <<>> => inbox[c] = <<Meant(typed[c].kind, typed[c].lines)>>
    /\ session[c].authenticated => session[c].user \in Lines["username"]
=============================================================================
