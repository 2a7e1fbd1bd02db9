--------------------------- MODULE RequestService ---------------------------
(***************************************************************************)
(* What a client may rely on when it asks its server to set a trustline at *)
(* another one.  A request is carried out at most once, and not at all if  *)
(* it was refused or the client was told that the remote server was not    *)
(* reached.  Until something fails, what a client is told of a request is  *)
(* what became of it.  After a failure it may be told nothing it can use   *)
(* ("unknown"), or again what became of an earlier request of its own; it  *)
(* is never told what became of none.                                      *)
(***************************************************************************)
EXTENDS Naturals

CONSTANT Requests   \* the n-th request of client c is <<c, n>>

VARIABLES
  asked,      \* the requests made
  performed,  \* how often each request was carried out
  declined,   \* the requests the remote server refused
  outcome,    \* what the client was told of each
  failed      \* whether a connection, a call or a server has failed

Outcomes == {"set", "refused", "unreached", "unknown"}

MayFail == failed' \in {failed, TRUE}

Ask(k) ==
  /\ k \notin asked
  /\ asked' = asked \cup {k}
  /\ UNCHANGED <<performed, declined, outcome, failed>>

\* The remote server has not decided on k, and can still get it.
Undecided(k) ==
  k \in asked /\ performed[k] = 0 /\ k \notin declined /\ outcome[k] # "unreached"

Perform(k) ==
  /\ Undecided(k)
  /\ performed' = [performed EXCEPT ![k] = 1]
  /\ UNCHANGED <<asked, declined, outcome, failed>>

Decline(k) ==
  /\ Undecided(k)
  /\ declined' = declined \cup {k}
  /\ UNCHANGED <<asked, performed, outcome, failed>>

Became(k, o) ==
  \/ o = "set" /\ performed[k] > 0
  \/ o = "refused" /\ k \in declined

Earlier(k) == {j \in Requests : j[1] = k[1] /\ j[2] < k[2]}

Tell(k, o) ==
  /\ k \in asked /\ outcome[k] = "none"
  /\ MayFail
  /\ \/ Became(k, o)
     \/ failed /\ \E j \in Earlier(k) : Became(j, o)
     \/ o = "unreached" /\ Undecided(k) /\ failed'
     \/ o = "unknown" /\ failed'
  /\ outcome' = [outcome EXCEPT ![k] = o]
  /\ UNCHANGED <<asked, performed, declined>>

(* The end of a server tells all its clients at once.                      *)
TellAll ==
  /\ failed'
  /\ \E K \in SUBSET asked :
       /\ \A k \in K : outcome[k] = "none"
       /\ outcome' = [k \in Requests |-> IF k \in K THEN "unknown" ELSE outcome[k]]
  /\ UNCHANGED <<asked, performed, declined>>

Fail ==
  /\ failed' = TRUE
  /\ UNCHANGED <<asked, performed, declined, outcome>>

Init ==
  /\ asked = {} /\ declined = {} /\ failed = FALSE
  /\ performed = [k \in Requests |-> 0]
  /\ outcome = [k \in Requests |-> "none"]

Next ==
  \/ \E k \in Requests : \/ Ask(k) \/ Perform(k) \/ Decline(k)
                         \/ \E o \in Outcomes : Tell(k, o)
  \/ TellAll \/ Fail

Spec == Init /\ [][Next]_<<asked, performed, declined, outcome, failed>>
=============================================================================
