--------------------------- MODULE MCAccountStore ---------------------------
(* Values of AccountStore's constants for TLC.                             *)
EXTENDS AccountStoreInv

\* "secret" covers the empty password's bytes; "1000" and its newline are
\* longer than "10" and its newline; "0" removes the trustline.
MCPasswords == {"", "secret"}
MCSizes     == {"0", "10"}
MCTwoSizes  == {"10", "1000"}
MCAllSizes  == MCSizes \cup MCTwoSizes
MCValues    == MCPasswords \cup MCAllSizes
MCValueLen  ==
  [v \in MCValues |->
     CASE v = "" -> 0 [] v = "secret" -> 6 [] v = "0" -> 2 [] v = "10" -> 3 [] v = "1000" -> 5]
MCPeers     == {<<"b.net", "bob">>}

\* What the next step depends on: the content of a free inode is lost (open
\* empties it), and a contended account's answers promise nothing.
MCView ==
  << dirs, link, fd, [i \in Inodes |-> IF i \in FreeInodes THEN Empty ELSE data[i]],
     local, faults, contended, [u \in Users |-> IF contended[u] THEN {} ELSE acked[u]] >>
=============================================================================
