----------------------------- MODULE MCCommands -----------------------------
(* Values of Commands' constants for TLC: clients of one server, the server *)
(* itself at localhost:2012 and jipple.net:2012, another one at h2:20130.   *)
EXTENDS Commands

MCLengthOf ==
  [LOGIN |-> 5, REGISTER |-> 8, LOGOUT |-> 6, DELETE_ACCOUNT |-> 14,
   ADD_CONNECTION |-> 14, SET_TRUSTLINE |-> 13,
   none |-> 4, default |-> 7, localhost |-> 9, h2 |-> 2,
   alice |-> 232, nobody |-> 4,   \* with the size none, a query of 256 bytes
   albert |-> 43, carol |-> 196,  \* the same, of 259 bytes
   w |-> 5, w255 |-> 255,
   w240 |-> 240,                  \* a user whose queries end in the peer's name
   w12 |-> 12]                    \* with alice, a REGISTER of 255 bytes
  @@ ("jipple.net" :> 10)
MCDotted == {"jipple.net"}

MCEndpoints ==
  <<Word("localhost"), 2012>> :> "home" @@ <<Word("jipple.net"), 2012>> :> "home"
  @@ <<Word("h2"), 20130>> :> "far"
MCRemoteAccounts == {Word("default"), Word("carol")}

One(x) == <<Word(x)>>
Num(d) == <<Numeral(d)>>

(* What the prompts ask for: commands that fit, canonical numbers.          *)
WellFormed ==
  [username |-> {One("alice")},
   password |-> {One("w12"), <<>>},
   confirmation |-> {<<>>, One("alice")},
   peer    |-> {<<>>, One("nobody")},
   address |-> {<<>>, One("h2"), One("jipple.net")},
   port    |-> {<<>>, Num(<<2, 0, 1, 3, 0>>)},
   size    |-> {<<>>, Num(<<5>>)}]

(* More than fits in a read, a query or a port; empty names.                *)
AnyLine ==
  [username |-> {<<>>, One("w240")},
   password |-> {<<>>, One("w") \o One("w255")},
   confirmation |-> {<<>>, One("w255")},
   peer    |-> {One("carol"), One("w255")},
   address |-> {<<>>},
   port    |-> {<<>>, Num(<<0, 0, 0, 0, 0, 2, 0, 1, 2>>)},
   size    |-> {Num(<<5>>)}]

(* Commands that fit in one read, with queries that do not.                 *)
LongQuery ==
  [username |-> {One("albert")}, password |-> {One("w")}, confirmation |-> {<<>>},
   peer |-> {One("carol")}, address |-> {One("h2")}, port |-> {Num(<<2, 0, 1, 3, 0>>)},
   size |-> {<<>>, Num(<<1, 5>>)}]

Passwords ==
  [username |-> {One("alice")}, password |-> {One("w"), <<>>}, confirmation |-> {<<>>},
   peer |-> {<<>>}, address |-> {<<>>}, port |-> {<<>>}, size |-> {<<>>}]

Symmetry == Permutations(Clients)
=============================================================================
