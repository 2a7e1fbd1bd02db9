------------------------------ MODULE Requests ------------------------------
(***************************************************************************)
(* SET_TRUSTLINE between servers: a client asks its own server, the thread *)
(* that serves it (pc) connects to the remote server, the remote server's  *)
(* only accept thread (at, step) takes connections one at a time, does the *)
(* TLS handshake itself and starts a thread per connection (serving),      *)
(* which reads one query, sets the trustline and answers.  The remote      *)
(* server may be the client's own.                                         *)
(*                                                                         *)
(* A request and the connection it travels on are one value <<c, n>>: the  *)
(* n-th request of client c.  Visitors are the other connections a server  *)
(* gets: clients, and peers that say nothing or the wrong thing.           *)
(*                                                                         *)
(* What the remote handler does to the files is module AccountStore's      *)
(* subject; here it sets the trustline or refuses.  A fault is a reset of  *)
(* a connection, a call that fails, or the end of a server process.        *)
(***************************************************************************)
EXTENDS Integers, Sequences, FiniteSets

CONSTANTS
  Servers,
  Clients,      \* logged-in clients, each with an account of its own
  HomeServer,   \* the server of each client
  Visitors,
  MaxRequests,  \* bounds the requests of a client
  MaxFaults,
  None

ASSUME RequestsAssumption ==
  /\ Servers # {} /\ HomeServer \in [Clients -> Servers]
  /\ MaxRequests \in Nat \ {0} /\ MaxFaults \in Nat
  /\ None \notin Servers
  /\ Visitors \cap (Clients \X (1..MaxRequests)) = {}
  /\ None \notin Visitors \cup (Clients \X (1..MaxRequests))

VARIABLES
  count,      \* for each client, the requests it has made
  waiting,    \* the clients that wait for a reply
  pc,         \* for each client, what its thread does at the home server
  left,       \* for each client, the last response its thread read
  to,         \* for each connection, the server it goes to
  stage,      \* for each connection, what its opener has sent
  header,     \* for each visitor, the connection type it sent
  up,         \* for each connection, whether it was not reset
  gone,       \* the connections whose opener closed its end
  eof,        \* the connections whose server closed its end
  queue,      \* for each server, the connections it has not accepted
  at,         \* for each server, the connection its accept thread is at
  step,       \* for each server, the call its accept thread is in
  serving,    \* for each connection, what its thread does
  result,     \* for each request, the handler's result
  answer,     \* for each request, the response sent and not lost
  open,       \* the connections whose descriptor the server has open
  trustline,  \* for each server and client, the request that set the trustline
  faults,
  times,      \* history: how often each request was carried out
  told,       \* history: what the client was told of each request
  heard       \* history: the requests whose response was received

client    == <<count, waiting, pc, left>>
wire      == <<to, stage, header, up, gone, eof, answer>>
acceptor  == <<queue, at, step>>
threads   == <<serving, result>>
history   == <<times, told, heard>>
vars      == <<client, wire, acceptor, threads, open, trustline, faults, history>>

Requests == Clients \X (1..MaxRequests)
Conns    == Requests \cup Visitors
Current(c) == <<c, count[c]>>

\* The requests carried out.
applied == {k \in Requests : times[k] > 0}

Success == "TRUSTLINE_SET_SUCCESSFULLY"
Refused == "FAILED_TO_ACCESS_USER_DIRECTORY"   \* stands for every refusal
Results == {Success, Refused, "INVALID_COMMAND"}
Replies == Results \cup {"none", "CONNECTION_FAILED", "closed", "junk", "empty"}

Fault   == faults < MaxFaults /\ faults' = faults + 1
NoFault == faults' = faults

-----------------------------------------------------------------------------
(* The client, and its thread at the home server.                          *)

Ask(c, s) ==
  /\ c \notin waiting /\ count[c] < MaxRequests
  /\ count' = [count EXCEPT ![c] = @ + 1]
  /\ to' = [to EXCEPT ![<<c, count[c] + 1>>] = s]
  /\ waiting' = waiting \cup {c}
  /\ pc' = [pc EXCEPT ![c] = "connect"]
  /\ UNCHANGED <<left, stage, header, up, gone, eof, answer, acceptor, threads,
                 open, trustline, faults, history>>

(* client_dispatch_command writes the handler's result.  Of the empty      *)
(* string SSL_write sends nothing, and the client goes on waiting.         *)
Reply(c, r) ==
  /\ pc' = [pc EXCEPT ![c] = "idle"]
  /\ waiting' = IF r = "empty" THEN waiting ELSE waiting \ {c}
  /\ told' = [told EXCEPT ![Current(c)] = r]

(* TCP connects when the kernel queues the connection; nobody has to       *)
(* accept it.  The header is sent at once.                                 *)
Connect(c) ==
  /\ pc[c] = "connect"
  /\ LET k == Current(c) IN
     \/ /\ queue' = [queue EXCEPT ![to[k]] = Append(@, k)]
        /\ stage' = [stage EXCEPT ![k] = "header"]
        /\ pc' = [pc EXCEPT ![c] = "handshake"]
        /\ NoFault
        /\ UNCHANGED <<waiting, told>>
     \/ /\ Reply(c, "CONNECTION_FAILED")
        /\ Fault
        /\ UNCHANGED <<queue, stage>>
  /\ UNCHANGED <<count, left, to, header, up, gone, eof, answer, at, step, threads,
                 open, trustline, times, heard>>

(* SSL_connect, which needs the accept thread in SSL_accept; then the      *)
(* query is written, which fails unnoticed.                                *)
Handshake(c) ==
  /\ pc[c] = "handshake"
  /\ LET k == Current(c) IN
     \/ /\ at[to[k]] = k /\ step[to[k]] = "accept" /\ up[k] /\ k \notin eof
        /\ stage' = [stage EXCEPT ![k] = "query"]
        /\ pc' = [pc EXCEPT ![c] = "response"]
        /\ UNCHANGED <<waiting, told, gone>>
     \/ /\ ~up[k] \/ k \in eof
        /\ gone' = gone \cup {k}
        /\ Reply(c, "CONNECTION_FAILED")
        /\ UNCHANGED stage
  /\ UNCHANGED <<count, left, to, header, up, eof, answer, acceptor, threads,
                 open, trustline, faults, times, heard>>

(* The server's end is gone or the connection was reset.                   *)
Broken(k) == k \in eof \/ ~up[k]

\* Mutant: SSL_read is called again until it returns a response.
ReceiveRetrying(c) ==
  /\ pc[c] = "response"
  /\ LET k == Current(c) IN
     /\ answer[k] # "none"
     /\ Reply(c, answer[k])
     /\ left' = [left EXCEPT ![c] = answer[k]]
     /\ heard' = heard \cup {k}
  /\ UNCHANGED <<count, wire, acceptor, threads, open, trustline, faults, times>>

\* Mutant: what SSL_read returns is not looked at.
ReceiveUnchecked(c) ==
  /\ pc[c] = "response"
  /\ LET k == Current(c) IN
     /\ answer[k] # "none" \/ Broken(k)
     /\ Reply(c, answer[k])
     /\ left' = [left EXCEPT ![c] = answer[k]]
     /\ heard' = heard \cup {k}
  /\ UNCHANGED <<count, wire, acceptor, threads, open, trustline, faults, times>>

(* SSL_read of the response.  0, at the end of file, makes it the empty    *)
(* string; a negative value, after a reset or when the server closed the   *)
(* connection with the query unread, leaves the buffer as it was, with     *)
(* whatever was on the stack.                                              *)
Receive(c) ==
  /\ pc[c] = "response"
  /\ LET k == Current(c) IN
     \/ /\ answer[k] # "none"
        /\ Reply(c, answer[k])
        /\ left' = [left EXCEPT ![c] = answer[k]]
        /\ heard' = heard \cup {k}
     \/ /\ answer[k] = "none" /\ k \in eof
        /\ Reply(c, "empty")
        /\ left' = [left EXCEPT ![c] = "empty"]
        /\ UNCHANGED heard
     \/ /\ answer[k] = "none" /\ Broken(k)
        /\ \E r \in {"junk", "empty", left[c]} : Reply(c, r)
        /\ UNCHANGED <<left, heard>>
  /\ UNCHANGED <<count, wire, acceptor, threads, open, trustline, faults, times>>

-----------------------------------------------------------------------------
(* Visitors.                                                               *)

Arrive(v, s) ==
  /\ stage[v] = "none"
  /\ to' = [to EXCEPT ![v] = s]
  /\ stage' = [stage EXCEPT ![v] = "connected"]
  /\ queue' = [queue EXCEPT ![s] = Append(@, v)]
  /\ UNCHANGED <<client, header, up, gone, eof, answer, at, step, threads, open,
                 trustline, faults, history>>

Speak(v) ==
  /\ v \notin gone
  /\ \/ /\ stage[v] = "connected"
        /\ stage' = [stage EXCEPT ![v] = "header"]
        /\ \E h \in {"client", "invalid"} : header' = [header EXCEPT ![v] = h]
     \/ /\ stage[v] = "header"
        /\ at[to[v]] = v /\ step[to[v]] = "accept" /\ up[v] /\ v \notin eof
        /\ stage' = [stage EXCEPT ![v] = "query"]
        /\ UNCHANGED header
  /\ UNCHANGED <<client, to, up, gone, eof, answer, acceptor, threads, open,
                 trustline, faults, history>>

Leave(v) ==
  /\ stage[v] # "none" /\ v \notin gone
  /\ gone' = gone \cup {v}
  /\ UNCHANGED <<client, to, stage, header, up, eof, answer, acceptor, threads, open,
                 trustline, faults, history>>

-----------------------------------------------------------------------------
(* The accept thread of a server.                                          *)

Accept(s) ==
  /\ at[s] = None /\ queue[s] # <<>>
  /\ at' = [at EXCEPT ![s] = Head(queue[s])]
  /\ queue' = [queue EXCEPT ![s] = Tail(@)]
  /\ step' = [step EXCEPT ![s] = "recv"]
  /\ open' = open \cup {Head(queue[s])}
  /\ UNCHANGED <<client, wire, threads, trustline, faults, history>>

(* close(client_sock) and back to accept.                                  *)
Turn(s, k) ==
  /\ at' = [at EXCEPT ![s] = None]
  /\ step' = [step EXCEPT ![s] = "idle"]
  /\ open' = open \ {k}
  /\ eof' = eof \cup {k}

TypeOf(k) == IF k \in Requests THEN "server" ELSE header[k]

\* Mutant: recv is retried until it returns a header.
RecvHeaderRetrying(s) ==
  /\ at[s] # None /\ step[s] = "recv"
  /\ LET k == at[s] IN
     /\ stage[k] # "connected"
     /\ \/ TypeOf(k) # "invalid" /\ step' = [step EXCEPT ![s] = "accept"]
                                 /\ UNCHANGED <<at, open, eof>>
        \/ TypeOf(k) = "invalid" /\ Turn(s, k)
  /\ UNCHANGED <<client, to, stage, header, up, gone, answer, queue, threads,
                 trustline, faults, history>>

RecvHeader(s) ==
  /\ at[s] # None /\ step[s] = "recv"
  /\ LET k == at[s] IN
     \/ /\ stage[k] # "connected" /\ TypeOf(k) # "invalid"
        /\ step' = [step EXCEPT ![s] = "accept"]
        /\ UNCHANGED <<at, open, eof>>
     \/ /\ \/ stage[k] # "connected" /\ TypeOf(k) = "invalid"
           \/ stage[k] = "connected" /\ k \in gone
           \/ ~up[k]
        /\ Turn(s, k)
  /\ UNCHANGED <<client, to, stage, header, up, gone, answer, queue, threads,
                 trustline, faults, history>>

\* Mutant: the accept thread closes the socket of a connection it handed over.
FinishAcceptClosing(s) ==
  /\ at[s] # None /\ step[s] = "accept"
  /\ LET k == at[s] IN
     \/ /\ stage[k] = "query"
        /\ serving' = [serving EXCEPT ![k] = IF TypeOf(k) = "client" THEN "session" ELSE "read"]
        /\ Turn(s, k)
     \/ /\ ~up[k] \/ (k \in gone /\ stage[k] # "query")
        /\ at' = [at EXCEPT ![s] = None]
        /\ step' = [step EXCEPT ![s] = "idle"]
        /\ UNCHANGED <<serving, open, eof>>
  /\ UNCHANGED <<client, to, stage, header, up, gone, answer, queue, result,
                 trustline, faults, history>>

(* SSL_accept returns.  A failed handshake frees and closes nothing.       *)
FinishAccept(s) ==
  /\ at[s] # None /\ step[s] = "accept"
  /\ LET k == at[s] IN
     \/ /\ stage[k] = "query"
        /\ serving' = [serving EXCEPT ![k] = IF TypeOf(k) = "client" THEN "session" ELSE "read"]
        /\ at' = [at EXCEPT ![s] = None]
        /\ step' = [step EXCEPT ![s] = "idle"]
        /\ NoFault
        /\ UNCHANGED <<open, eof>>
     \/ /\ stage[k] = "query"         \* pthread_create fails
        /\ Turn(s, k)
        /\ Fault
        /\ UNCHANGED serving
     \/ /\ ~up[k] \/ (k \in gone /\ stage[k] # "query")
        /\ at' = [at EXCEPT ![s] = None]
        /\ step' = [step EXCEPT ![s] = "idle"]
        /\ NoFault
        /\ UNCHANGED <<serving, open, eof>>
  /\ UNCHANGED <<client, to, stage, header, up, gone, answer, queue, result,
                 trustline, history>>

-----------------------------------------------------------------------------
(* The threads of connections.                                             *)

\* Mutant: the thread answers before it has set the trustline.
ReadEager(k) ==
  /\ serving[k] = "read"
  /\ serving' = [serving EXCEPT ![k] = "set"]
  /\ answer' = [answer EXCEPT ![k] = Success]
  /\ UNCHANGED <<client, to, stage, header, up, gone, eof, result, acceptor, open,
                 trustline, faults, history>>

(* SSL_read of the query.  After a reset it may have been received or      *)
(* lost; whatever is in the buffer then is no command.                     *)
Read(k) ==
  /\ serving[k] = "read"
  /\ \/ /\ serving' = [serving EXCEPT ![k] = "set"]
        /\ UNCHANGED result
     \/ /\ ~up[k]
        /\ serving' = [serving EXCEPT ![k] = "respond"]
        /\ result' = [result EXCEPT ![k] = "INVALID_COMMAND"]
  /\ UNCHANGED <<client, wire, acceptor, open, trustline, faults, history>>

(* server_as_server_handle_set_trustline.                                  *)
SetTrustline(k) ==
  /\ serving[k] = "set"
  /\ \/ /\ trustline' = [trustline EXCEPT ![to[k]][k[1]] = k]
        /\ times' = [times EXCEPT ![k] = @ + 1]
        /\ result' = [result EXCEPT ![k] = Success]
     \/ /\ result' = [result EXCEPT ![k] = Refused]
        /\ UNCHANGED <<trustline, times>>
  /\ serving' = [serving EXCEPT ![k] = "respond"]
  /\ UNCHANGED <<client, wire, acceptor, open, faults, told, heard>>

(* The server process ends and is started again: its threads are gone, and *)
(* its sockets closed by the kernel.                                       *)
Die(s) ==
  LET Mine == {c \in Clients : HomeServer[c] = s}
      Here == {k \in Conns : to[k] = s /\ stage[k] # "none"}
  IN
  /\ pc' = [c \in Clients |-> IF c \in Mine THEN "idle" ELSE pc[c]]
  /\ waiting' = waiting \ Mine
  /\ left' = [c \in Clients |-> IF c \in Mine THEN "junk" ELSE left[c]]
  /\ told' = [k \in Requests |->
                IF k[1] \in Mine \cap waiting /\ k = Current(k[1]) /\ told[k] = "none"
                THEN "closed" ELSE told[k]]
  /\ gone' = gone \cup {k \in Requests : k[1] \in Mine /\ stage[k] # "none"}
  /\ eof' = eof \cup Here
  /\ queue' = [queue EXCEPT ![s] = <<>>]
  /\ at' = [at EXCEPT ![s] = None]
  /\ step' = [step EXCEPT ![s] = "idle"]
  /\ serving' = [k \in Conns |-> IF k \in Here /\ serving[k] # "none" THEN "done" ELSE serving[k]]
  /\ open' = open \ Here
  /\ UNCHANGED <<count, to, stage, header, up, answer, result, trustline, times, heard>>

\* Mutant: the thread goes back to what it read, as that of a client does.
RespondLooping(k) ==
  /\ serving[k] = "respond"
  /\ answer' = IF up[k] THEN [answer EXCEPT ![k] = result[k]] ELSE answer
  /\ serving' = [serving EXCEPT ![k] = "read"]
  /\ UNCHANGED <<client, to, stage, header, up, gone, eof, result, acceptor, open,
                 trustline, faults, history>>

(* SSL_write of the result, which may fail; the thread ends, its socket    *)
(* stays open.                                                             *)
Respond(k) ==
  /\ serving[k] = "respond"
  /\ answer' = IF up[k] THEN [answer EXCEPT ![k] = result[k]] ELSE answer
  /\ serving' = [serving EXCEPT ![k] = "done"]
  /\ UNCHANGED <<client, to, stage, header, up, gone, eof, result, acceptor, open,
                 trustline, faults, history>>

(* SIGPIPE is not handled: a thread of s that writes to a connection after *)
(* its reset (the response, close_notify, a client's reply) may end the    *)
(* whole process.                                                          *)
Sigpipe(s) ==
  /\ \/ \E c \in Clients : /\ HomeServer[c] = s /\ pc[c] = "response"
                            /\ answer[Current(c)] = "none" /\ Broken(Current(c))
     \/ \E k \in Conns : to[k] = s /\ serving[k] \in {"respond", "session"} /\ ~up[k]
  /\ Die(s)
  /\ NoFault

(* The client of a session left: SSL_free, and the socket stays open.      *)
EndSession(v) ==
  /\ serving[v] = "session"
  /\ v \in gone \/ ~up[v]
  /\ serving' = [serving EXCEPT ![v] = "done"]
  /\ UNCHANGED <<client, wire, acceptor, result, open, trustline, faults, history>>

-----------------------------------------------------------------------------
(* Faults.                                                                 *)

(* A response on its way may arrive or be lost.                            *)
Reset(k) ==
  /\ Fault
  /\ stage[k] # "none" /\ up[k] /\ k \notin eof
  /\ up' = [up EXCEPT ![k] = FALSE]
  /\ \/ UNCHANGED answer
     \/ /\ k \in Requests /\ answer[k] # "none" /\ k \notin heard
        /\ answer' = [answer EXCEPT ![k] = "none"]
  /\ UNCHANGED <<client, to, stage, header, gone, eof, acceptor, threads, open,
                 trustline, history>>

Crash(s) == Fault /\ Die(s)

-----------------------------------------------------------------------------

Init ==
  /\ count = [c \in Clients |-> 0]
  /\ waiting = {}
  /\ pc = [c \in Clients |-> "idle"]
  /\ left = [c \in Clients |-> "junk"]
  /\ to = [k \in Conns |-> CHOOSE s \in Servers : TRUE]
  /\ stage = [k \in Conns |-> "none"]
  /\ header = [v \in Visitors |-> "none"]
  /\ up = [k \in Conns |-> TRUE]
  /\ gone = {} /\ eof = {} /\ open = {}
  /\ queue = [s \in Servers |-> <<>>]
  /\ at = [s \in Servers |-> None]
  /\ step = [s \in Servers |-> "idle"]
  /\ serving = [k \in Conns |-> "none"]
  /\ result = [k \in Requests |-> "none"]
  /\ answer = [k \in Requests |-> "none"]
  /\ trustline = [s \in Servers |-> [c \in Clients |-> None]]
  /\ faults = 0
  /\ heard = {}
  /\ times = [k \in Requests |-> 0]
  /\ told = [k \in Requests |-> "none"]

ThreadStep(c)  == Connect(c) \/ Handshake(c) \/ Receive(c)
AcceptStep(s)  == Accept(s) \/ RecvHeader(s) \/ FinishAccept(s)
ServeStep(k)   == Read(k) \/ SetTrustline(k) \/ Respond(k)
VisitorStep(v) == Speak(v) \/ Leave(v)

Next ==
  \/ \E c \in Clients : (\E s \in Servers : Ask(c, s)) \/ ThreadStep(c)
  \/ \E s \in Servers : AcceptStep(s) \/ Sigpipe(s) \/ Crash(s)
  \/ \E k \in Requests : ServeStep(k)
  \/ \E v \in Visitors : (\E s \in Servers : Arrive(v, s)) \/ VisitorStep(v) \/ EndSession(v)
  \/ \E k \in Conns : Reset(k)

Spec == Init /\ [][Next]_vars

(* Threads run, and a visitor in the end leaves: no call of the server has *)
(* a timeout, so a visitor that stays silent holds up its accept thread.   *)
Fairness ==
  /\ \A c \in Clients : WF_vars(ThreadStep(c))
  /\ \A s \in Servers : WF_vars(AcceptStep(s))
  /\ \A k \in Requests : WF_vars(ServeStep(k))
  /\ \A v \in Visitors : WF_vars(Leave(v)) /\ WF_vars(EndSession(v))

FairSpec == Spec /\ Fairness

-----------------------------------------------------------------------------

TypeOK ==
  /\ count \in [Clients -> 0..MaxRequests]
  /\ waiting \subseteq Clients
  /\ pc \in [Clients -> {"idle", "connect", "handshake", "response"}]
  /\ left \in [Clients -> Results \cup {"empty", "junk"}]
  /\ to \in [Conns -> Servers]
  /\ stage \in [Conns -> {"none", "connected", "header", "query"}]
  /\ header \in [Visitors -> {"none", "client", "invalid"}]
  /\ up \in [Conns -> BOOLEAN]
  /\ gone \subseteq Conns /\ eof \subseteq Conns /\ open \subseteq Conns
  /\ queue \in [Servers -> Seq(Conns)]
  /\ at \in [Servers -> Conns \cup {None}]
  /\ step \in [Servers -> {"idle", "recv", "accept"}]
  /\ serving \in [Conns -> {"none", "session", "read", "set", "respond", "done"}]
  /\ result \in [Requests -> Results \cup {"none"}]
  /\ answer \in [Requests -> Results \cup {"none"}]
  /\ trustline \in [Servers -> [Clients -> Requests \cup {None}]]
  /\ faults \in 0..MaxFaults
  /\ times \in [Requests -> Nat]
  /\ heard \subseteq Requests
  /\ told \in [Requests -> Replies]

(* What a client was told, in the words of RequestService.  A buffer that  *)
(* nothing was read into may say anything, and is taken at its word.       *)
Outcome(k) ==
  CASE told[k] = "none" -> "none"
    [] told[k] = "CONNECTION_FAILED" -> "unreached"
    [] told[k] = Success -> "set"
    [] told[k] = Refused -> "refused"
    [] OTHER -> "unknown"

Service == INSTANCE RequestService WITH
             asked     <- {k \in Requests : k[2] <= count[k[1]]},
             performed <- times,
             declined  <- {k \in Requests : result[k] = Refused},
             outcome   <- [k \in Requests |-> Outcome(k)],
             failed    <- faults > 0

(* The promise of RequestService, across resets and restarts of either     *)
(* server: no request is carried out twice, or after it was refused or not *)
(* reached; a client is told what became of its request, or, only after a  *)
(* failure, nothing it can use or what became of an earlier one.           *)
ImplementsService == Service!Spec

(* Without faults, a trustline is the one its owner was last told of, as   *)
(* soon as the owner has been told.                                        *)
AckedIsLatest ==
  faults = 0 =>
    \A c \in Clients :
      c \notin waiting /\ count[c] > 0 /\ told[Current(c)] = Success =>
        trustline[to[Current(c)]][c] = Current(c)

(* One of the first n requests of c was carried out.                       *)
CarriedOut(c, n) == \E j \in applied : j[1] = c /\ j[2] <= n

(* Also across faults, where the buffer of a failed read may say so again, *)
(* TRUSTLINE_SET_SUCCESSFULLY is not made up: the client is told so of a   *)
(* request only if that one or an earlier one of its own was carried out.  *)
SuccessIsNotMadeUp == \A k \in Requests : told[k] = Success => CarriedOut(k[1], k[2])

(* A descriptor is closed only when nobody reads or writes it any more:    *)
(* neither the accept thread nor the thread it handed the connection to    *)
(* (main closes client_sock itself on some of its paths).                  *)
ServedIsOpen ==
  /\ \A s \in Servers : at[s] # None => at[s] \in open
  /\ \A k \in Conns : serving[k] \in {"session", "read", "set", "respond"} => k \in open

(* Whatever fails on the way, the client is answered or its connection     *)
(* closed - but for the empty response, of which SSL_write sends nothing.  *)
AnsweredOrEmpty ==
  \A c \in Clients : c \in waiting ~> c \notin waiting \/ told[Current(c)] = "empty"

(* Without faults, every request is answered, though servers call one      *)
(* another and themselves, and whatever visitors do before they leave.     *)
RequestsAnswered ==
  [](faults = 0) => \A c \in Clients : c \in waiting ~> c \notin waiting

-----------------------------------------------------------------------------
(* What comments of the code say, and what it does.                        *)

(* "Receive the response from the server" ... "Return the response": who   *)
(* is told that the trustline is set was told so by the remote server.     *)
SuccessMeansSet == \A k \in Requests : told[k] = Success => k \in applied
=============================================================================
