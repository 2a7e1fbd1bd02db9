---------------------------- MODULE RequestsInv ----------------------------
(***************************************************************************)
(* The inductive invariant of Requests: where a request is on its way,     *)
(* what that says of its connection and of what may have become of it, and *)
(* what holds besides as long as nothing has failed.                       *)
(***************************************************************************)
EXTENDS Requests

\* Requests not made yet have left no trace.
Fresh ==
  \A k \in Requests : k[2] > count[k[1]] => stage[k] = "none" /\ told[k] = "none"

StageAt == [connect |-> "none", handshake |-> "header", response |-> "query"]

\* A thread that is not idle is busy with its client's current request.
Asking ==
  \A c \in Clients : pc[c] # "idle" =>
    /\ count[c] > 0
    /\ told[Current(c)] = "none"
    /\ stage[Current(c)] = StageAt[pc[c]]

\* A connection that waits for server s, or that its accept thread is at.
Pending(k, s) == to[k] = s /\ stage[k] # "none" /\ serving[k] = "none"

\* A connection is accepted once, by the server it goes to.
AcceptedOnce ==
  \A s \in Servers :
    /\ \A i \in 1..Len(queue[s]) : Pending(queue[s][i], s) /\ queue[s][i] # at[s]
    /\ \A i, j \in 1..Len(queue[s]) : queue[s][i] = queue[s][j] => i = j
    /\ at[s] # None => Pending(at[s], s)

\* How far the thread of a connection is, and what the handler has done.
Served ==
  /\ \A k \in Conns : serving[k] # "none" => stage[k] = "query"
  /\ \A k \in Requests :
       /\ stage[k] # "connected"
       /\ serving[k] \in {"none", "read", "set"} => result[k] = "none"
       /\ result[k] = Success <=> k \in applied
       /\ answer[k] # "none" => answer[k] = result[k] /\ serving[k] = "done"

\* What the client was told, and how its thread came to know it.
Answers ==
  \A k \in Requests :
    /\ k \in heard => answer[k] # "none" /\ told[k] = answer[k]
    /\ told[k] = "CONNECTION_FAILED" => stage[k] # "query"

\* Without faults every connection stands, every request but the current one
\* was answered, and the current one, once carried out, is the trustline.
Faultless ==
  faults = 0 =>
    /\ \A k \in Conns : up[k]
    /\ \A k \in Requests : k \notin eof
    /\ \A k \in Requests : told[k] # "none" \/ k[2] < count[k[1]] => k \in heard
    /\ \A c \in Clients : c \notin waiting /\ count[c] > 0 => Current(c) \in heard
    /\ \A k \in Requests :
         k = Current(k[1]) /\ k \in applied => trustline[to[k]][k[1]] = k

\* One of the first n requests of c had result r.
ResultUpTo(c, n, r) == \E j \in Requests : result[j] = r /\ j[1] = c /\ j[2] <= n

\* What is still in the buffer of a client's thread is the result of one of
\* its requests.
Remembered ==
  \A c \in Clients : left[c] \in {Success, Refused} => ResultUpTo(c, count[c], left[c])

\* Without faults, what the thread of a connection reads is the query sent.
Understood == faults = 0 => \A k \in Requests : result[k] # "INVALID_COMMAND"

Inv == /\ TypeOK /\ Fresh /\ Asking /\ AcceptedOnce /\ Served /\ Answers
       /\ ServedIsOpen /\ Faultless
=============================================================================
