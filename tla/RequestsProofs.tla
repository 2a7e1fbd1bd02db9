--------------------------- MODULE RequestsProofs ---------------------------
(***************************************************************************)
(* TLAPS proofs about Requests, for any servers, clients, visitors and     *)
(* numbers of requests and faults: its safety properties, and that it      *)
(* implements RequestService.                                              *)
(***************************************************************************)
EXTENDS RequestsInv, TLAPS

LEMMA RequestIsPair ==
  ASSUME NEW k \in Requests
  PROVE  /\ k = <<k[1], k[2]>> /\ k[1] \in Clients /\ k[2] \in 1..MaxRequests
         /\ k[2] \in Nat /\ k[2] > 0 /\ k \in Conns /\ k \notin Visitors
<1>1. k = <<k[1], k[2]>> /\ k[1] \in Clients /\ k[2] \in 1..MaxRequests
  BY DEF Requests
<1>2. k \in Conns /\ k \notin Visitors
  BY RequestsAssumption DEF Requests, Conns
<1> QED BY <1>1, <1>2, RequestsAssumption

LEMMA PairIsRequest ==
  ASSUME NEW c \in Clients, NEW n \in 1..MaxRequests
  PROVE  <<c, n>> \in Requests
BY DEF Requests

LEMMA CountIsNat ==
  ASSUME TypeOK, NEW c \in Clients
  PROVE  count[c] \in Nat /\ count[c] \in 0..MaxRequests
<1>1. count[c] \in 0..MaxRequests
  BY DEF TypeOK
<1> QED BY <1>1, RequestsAssumption

LEMMA CurrentIsRequest ==
  ASSUME TypeOK, NEW c \in Clients, count[c] > 0
  PROVE  /\ Current(c) \in Requests /\ Current(c) \in Conns
         /\ Current(c)[1] = c /\ Current(c)[2] = count[c]
<1>1. count[c] \in 1..MaxRequests
  BY CountIsNat, RequestsAssumption
<1> QED BY <1>1, PairIsRequest, RequestIsPair DEF Current

LEMMA QueuedAreConns ==
  ASSUME TypeOK, NEW s \in Servers
  PROVE  /\ queue[s] \in Seq(Conns) /\ Len(queue[s]) \in Nat
         /\ \A i \in 1..Len(queue[s]) : queue[s][i] \in Conns
         /\ at[s] # None => at[s] \in Conns
<1>1. queue[s] \in Seq(Conns) /\ at[s] \in Conns \cup {None}
  BY DEF TypeOK
<1> QED BY <1>1

LEMMA CurrentsDiffer ==
  ASSUME NEW c, NEW d, c # d
  PROVE  Current(c) # Current(d)
BY DEF Current

LEMMA Appended ==
  ASSUME NEW S, NEW q \in Seq(S), NEW k \in S
  PROVE  /\ Append(q, k) \in Seq(S) /\ Len(q) \in Nat
         /\ Len(Append(q, k)) = Len(q) + 1 /\ Append(q, k)[Len(q) + 1] = k
         /\ \A i \in 1..Len(q) : Append(q, k)[i] = q[i]
OBVIOUS

LEMMA HeadAndTail ==
  ASSUME NEW S, NEW q \in Seq(S), q # <<>>
  PROVE  /\ Tail(q) \in Seq(S) /\ Head(q) \in S /\ Head(q) = q[1]
         /\ Len(q) \in Nat /\ 1 \in 1..Len(q) /\ Len(Tail(q)) = Len(q) - 1
         /\ \A i \in 1..Len(Tail(q)) : Tail(q)[i] = q[i + 1] /\ i + 1 \in 1..Len(q)
OBVIOUS

\* Pending, after a step.
PendingThen(k, s) == to'[k] = s /\ stage'[k] # "none" /\ serving'[k] = "none"

\* While the accept threads and their queues stand still, only what is
\* pending matters.
LEMMA PendingKept ==
  ASSUME TypeOK, AcceptedOnce, UNCHANGED <<queue, at>>,
         \A k \in Conns, s \in Servers : Pending(k, s) => PendingThen(k, s)
  PROVE  AcceptedOnce'
<1>1. ASSUME NEW r \in Servers
      PROVE  /\ \A i \in 1..Len(queue[r]) : PendingThen(queue[r][i], r) /\ queue[r][i] # at[r]
             /\ \A i, j \in 1..Len(queue[r]) : queue[r][i] = queue[r][j] => i = j
             /\ at[r] # None => PendingThen(at[r], r)
  BY QueuedAreConns DEF AcceptedOnce, Pending, PendingThen
<1> QED BY <1>1 DEF AcceptedOnce, Pending, PendingThen

\* The kernel queues a connection that was not there before.
LEMMA Enqueue ==
  ASSUME TypeOK, AcceptedOnce, Served, NEW k \in Conns, NEW s \in Servers,
         stage[k] = "none", stage'[k] # "none", to'[k] = s,
         queue' = [queue EXCEPT ![s] = Append(@, k)],
         UNCHANGED <<at, serving>>,
         \A j \in Conns : j # k => to'[j] = to[j] /\ stage'[j] = stage[j]
  PROVE  AcceptedOnce' /\ queue' \in [Servers -> Seq(Conns)]
<1>1. queue'[s] = Append(queue[s], k) /\ \A r \in Servers : r # s => queue'[r] = queue[r]
  BY DEF TypeOK
<1>2. ASSUME NEW j \in Conns, NEW r \in Servers, Pending(j, r)
      PROVE  j # k /\ PendingThen(j, r)
  BY <1>2 DEF Pending, PendingThen
<1>3. PendingThen(k, s)
  BY DEF PendingThen, Served
<1>4. k # at[s]
  BY <1>2, QueuedAreConns, RequestsAssumption DEF AcceptedOnce, Conns, Requests
<1>5. \A i \in 1..Len(queue[s]) : queue[s][i] # k
  BY <1>2, QueuedAreConns DEF AcceptedOnce
<1>6. ASSUME NEW r \in Servers
      PROVE  at'[r] # None => PendingThen(at'[r], r)
  BY <1>2, QueuedAreConns DEF AcceptedOnce, Pending, PendingThen
<1>7. ASSUME NEW r \in Servers, r # s
      PROVE  /\ \A i \in 1..Len(queue'[r]) : PendingThen(queue'[r][i], r) /\ queue'[r][i] # at'[r]
             /\ \A i, j \in 1..Len(queue'[r]) : queue'[r][i] = queue'[r][j] => i = j
  BY <1>1, <1>2, <1>7, QueuedAreConns DEF AcceptedOnce, Pending, PendingThen
<1>8. ASSUME NEW i \in 1..Len(queue'[s])
      PROVE  /\ PendingThen(queue'[s][i], s) /\ queue'[s][i] # at'[s]
             /\ \A j \in 1..Len(queue'[s]) : queue'[s][i] = queue'[s][j] => i = j
  <2>1. /\ Len(queue[s]) \in Nat /\ Len(queue'[s]) = Len(queue[s]) + 1
        /\ queue'[s][Len(queue[s]) + 1] = k
        /\ \A j \in 1..Len(queue[s]) : queue'[s][j] = queue[s][j]
    BY <1>1, QueuedAreConns, Appended
  <2>2. \A j \in 1..Len(queue'[s]) : j \in 1..Len(queue[s]) \/ j = Len(queue[s]) + 1
    BY <2>1
  <2>3. CASE i = Len(queue[s]) + 1
    BY <1>3, <1>4, <1>5, <2>1, <2>2, <2>3 DEF Pending, PendingThen
  <2>4. CASE i \in 1..Len(queue[s])
    <3>1. queue'[s][i] = queue[s][i] /\ queue[s][i] \in Conns /\ Pending(queue[s][i], s)
          /\ queue[s][i] # at[s]
      BY <2>1, <2>4, QueuedAreConns DEF AcceptedOnce
    <3>2. PendingThen(queue[s][i], s)
      BY <1>2, <1>5, <2>4, <3>1 DEF Pending, PendingThen
    <3>3. ASSUME NEW j \in 1..Len(queue'[s]), queue'[s][i] = queue'[s][j]
          PROVE  i = j
      BY <1>5, <2>1, <2>2, <2>4, <3>1, <3>3 DEF AcceptedOnce
    <3>4. PendingThen(queue'[s][i], s)
      BY <3>1, <3>2 DEF Pending, PendingThen
    <3> QED BY <3>1, <3>3, <3>4
  <2> QED BY <2>2, <2>3, <2>4
<1>9. queue' \in [Servers -> Seq(Conns)]
  <2>1. Append(queue[s], k) \in Seq(Conns)
    BY QueuedAreConns, Appended
  <2> QED BY <2>1 DEF TypeOK
<1> QED BY <1>6, <1>7, <1>8, <1>9 DEF AcceptedOnce, Pending, PendingThen

LEMMA FaultCounted ==
  ASSUME TypeOK, Fault
  PROVE  faults' \in 0..MaxFaults /\ faults' # 0
<1>1. faults \in 0..MaxFaults /\ MaxFaults \in Nat
  BY RequestsAssumption DEF TypeOK
<1>2. faults < MaxFaults /\ faults' = faults + 1
  BY DEF Fault
<1> QED BY <1>1, <1>2

LEMMA AskStep ==
  ASSUME Inv, NEW c \in Clients, NEW s \in Servers, Ask(c, s)
  PROVE  Inv'
<1> DEFINE n == <<c, count[c] + 1>>
<1>0. TypeOK /\ Fresh /\ Asking /\ AcceptedOnce /\ Served /\ Answers /\ ServedIsOpen /\ Faultless
  BY DEF Inv
<1>1. /\ n \in Requests /\ n \in Conns /\ n[1] = c /\ n[2] = count[c] + 1
      /\ count[c] \in Nat /\ count[c] + 1 \in 0..MaxRequests
  <2>1. count[c] \in Nat /\ count[c] < MaxRequests /\ MaxRequests \in Nat
    BY <1>0, CountIsNat, RequestsAssumption DEF Ask
  <2>2. count[c] + 1 \in 1..MaxRequests
    BY <2>1
  <2>3. n \in Requests
    BY <2>2, PairIsRequest
  <2> QED BY <2>1, <2>3, RequestIsPair
<1>2. stage[n] = "none" /\ told[n] = "none" /\ serving[n] = "none"
  BY <1>0, <1>1 DEF Fresh, Served
<1>3. /\ count' = [count EXCEPT ![c] = count[c] + 1]
      /\ to' = [to EXCEPT ![n] = s]
      /\ waiting' = waiting \cup {c}
      /\ pc' = [pc EXCEPT ![c] = "connect"]
      /\ UNCHANGED <<left, stage, header, up, gone, eof, answer, queue, at, step, serving, result,
                     open, trustline, faults, times, applied, told, heard>>
  BY DEF Ask, acceptor, threads, history, applied
<1>4. Current(c)' = n
  BY <1>0, <1>3 DEF Current, TypeOK
<1>5. ASSUME NEW d \in Clients, d # c
      PROVE  Current(d)' = Current(d) /\ count'[d] = count[d] /\ pc'[d] = pc[d]
  BY <1>0, <1>3, <1>5 DEF Current, TypeOK
<1> HIDE DEF n
<1>6. TypeOK'
  <2>1. count' \in [Clients -> 0..MaxRequests] /\ to' \in [Conns -> Servers]
    BY <1>0, <1>1, <1>3 DEF TypeOK
  <2>2. waiting' \subseteq Clients /\ pc' \in [Clients -> {"idle", "connect", "handshake", "response"}]
    BY <1>0, <1>3 DEF TypeOK
  <2> QED BY <1>0, <1>3, <2>1, <2>2 DEF TypeOK
<1>7. Fresh'
  <2>1. ASSUME NEW k \in Requests, k[2] > count'[k[1]]
        PROVE  k[2] > count[k[1]]
    <3>1. k[1] \in Clients /\ k[2] \in Nat
      BY RequestIsPair
    <3>2. CASE k[1] = c
      <4>1. count'[c] = count[c] + 1
        BY <1>0, <1>3 DEF TypeOK
      <4> QED BY <1>1, <2>1, <3>1, <3>2, <4>1
    <3>3. CASE k[1] # c
      BY <1>5, <2>1, <3>1, <3>3
    <3> QED BY <3>2, <3>3
  <2> QED BY <1>0, <1>3, <2>1 DEF Fresh
<1>8. Asking'
  <2>1. ASSUME NEW d \in Clients, pc'[d] # "idle"
        PROVE  count'[d] > 0 /\ told'[Current(d)'] = "none" /\ stage'[Current(d)'] = StageAt[pc'[d]]
    <3>1. CASE d = c
      <4>1. pc'[d] = "connect" /\ count'[d] = count[c] + 1
        BY <1>0, <1>3, <3>1 DEF TypeOK
      <4>2. told'[n] = "none" /\ stage'[n] = StageAt["connect"]
        BY <1>2, <1>3 DEF StageAt
      <4> QED BY <1>1, <1>4, <3>1, <4>1, <4>2
    <3>2. CASE d # c
      BY <1>0, <1>3, <1>5, <2>1, <3>2 DEF Asking
    <3> QED BY <3>1, <3>2
  <2> QED BY <2>1 DEF Asking
<1>9. AcceptedOnce'
  <2>1. ASSUME NEW k \in Conns, NEW r \in Servers, Pending(k, r)
        PROVE  PendingThen(k, r)
    BY <1>0, <1>2, <1>3, <2>1 DEF Pending, PendingThen, TypeOK
  <2> QED BY <1>0, <1>3, <2>1, PendingKept
<1>10. Served'
  BY <1>0, <1>3 DEF Served
<1>11. Answers'
  BY <1>0, <1>3 DEF Answers
<1>12. ServedIsOpen'
  BY <1>0, <1>3 DEF ServedIsOpen
<1>13. Faultless'
  <2> SUFFICES ASSUME faults = 0 PROVE Faultless'
    BY <1>3 DEF Faultless
  <2>1. count[c] > 0 => Current(c) \in heard
    BY <1>0 DEF Faultless, Ask
  <2>2. ASSUME NEW k \in Requests, told[k] # "none" \/ k[2] < count'[k[1]]
        PROVE  k \in heard
    <3>1. k = <<k[1], k[2]>> /\ k[1] \in Clients /\ k[2] \in Nat /\ k[2] > 0
      BY RequestIsPair
    <3>2. CASE k[1] = c /\ k[2] < count[c] + 1
      <4>1. k[2] < count[c] \/ k[2] = count[c]
        BY <1>1, <3>1, <3>2
      <4>2. CASE k[2] = count[c]
        BY <2>1, <3>1, <3>2, <4>2 DEF Current
      <4> QED BY <1>0, <3>2, <4>1, <4>2 DEF Faultless
    <3>3. CASE k[1] # c \/ told[k] # "none"
      BY <1>0, <1>5, <2>2, <3>1, <3>3 DEF Faultless
    <3> QED BY <1>0, <1>3, <2>2, <3>1, <3>2, <3>3 DEF TypeOK
  <2>3. ASSUME NEW d \in Clients, d \notin waiting', count'[d] > 0
        PROVE  Current(d)' \in heard
    BY <1>0, <1>3, <1>5, <2>3 DEF Faultless
  <2>4. ASSUME NEW k \in Requests, k = Current(k[1])', k \in applied
        PROVE  trustline'[to'[k]][k[1]] = k
    <3>1. k # n
      BY <1>0, <1>1, <1>2, <2>4 DEF Served, Success
    <3>2. k[1] \in Clients
      BY RequestIsPair
    <3>3. k[1] # c
      BY <1>4, <2>4, <3>1
    <3>4. k = Current(k[1]) /\ to'[k] = to[k]
      BY <1>0, <1>3, <1>5, <2>4, <3>1, <3>2, <3>3, RequestIsPair DEF TypeOK
    <3> QED BY <1>0, <1>3, <2>4, <3>4 DEF Faultless
  <2> QED BY <1>0, <1>3, <2>2, <2>3, <2>4 DEF Faultless
<1> QED BY <1>6, <1>7, <1>8, <1>9, <1>10, <1>11, <1>12, <1>13 DEF Inv

\* What is known of the request of a thread that is not idle.
LEMMA Busy ==
  ASSUME Inv, NEW c \in Clients, pc[c] # "idle"
  PROVE  /\ Current(c) \in Requests /\ Current(c) \in Conns /\ count[c] > 0
         /\ Current(c)[1] = c /\ Current(c)[2] = count[c] /\ count[c] \in Nat
         /\ told[Current(c)] = "none" /\ stage[Current(c)] = StageAt[pc[c]]
         /\ Current(c) \notin heard /\ to[Current(c)] \in Servers
<1>1. TypeOK /\ Asking /\ Answers
  BY DEF Inv
<1>2. count[c] > 0 /\ told[Current(c)] = "none" /\ stage[Current(c)] = StageAt[pc[c]]
  BY <1>1 DEF Asking
<1>3. Current(c) \notin heard
  BY <1>1, <1>2, CurrentIsRequest DEF Answers, TypeOK, Results, Success, Refused
<1>4. to[Current(c)] \in Servers
  BY <1>1, <1>2, CurrentIsRequest DEF TypeOK
<1> QED BY <1>1, <1>2, <1>3, <1>4, CurrentIsRequest, CountIsNat

\* A step of the thread of c leaves the other threads where they are.
LEMMA AskingKept ==
  ASSUME Inv, NEW c \in Clients, pc[c] # "idle", UNCHANGED count,
         \A d \in Clients : d # c => pc'[d] = pc[d],
         \A k \in Requests : k # Current(c) => told'[k] = told[k] /\ stage'[k] = stage[k],
         pc'[c] # "idle" => told'[Current(c)] = "none" /\ stage'[Current(c)] = StageAt[pc'[c]]
  PROVE  Asking'
<1>1. Current(c)' = Current(c) /\ TypeOK /\ Asking /\ count[c] > 0
  BY Busy DEF Current, Inv
<1>2. ASSUME NEW d \in Clients, pc'[d] # "idle"
      PROVE  /\ count'[d] > 0 /\ Current(d)' = Current(d)
             /\ told'[Current(d)] = "none" /\ stage'[Current(d)] = StageAt[pc'[d]]
  <2>1. Current(d)' = Current(d)
    BY DEF Current
  <2>2. CASE d = c
    BY <1>1, <1>2, <2>1, <2>2
  <2>3. CASE d # c
    <3>1. count[d] > 0 /\ told[Current(d)] = "none" /\ stage[Current(d)] = StageAt[pc[d]]
      BY <1>1, <1>2, <2>3 DEF Asking
    <3>2. Current(d) \in Requests /\ Current(d) # Current(c)
      BY <1>1, <2>3, <3>1, CurrentIsRequest, CurrentsDiffer
    <3> QED BY <2>1, <2>3, <3>1, <3>2
  <2> QED BY <2>2, <2>3
<1> QED BY <1>2 DEF Asking

LEMMA ConnectStep ==
  ASSUME Inv, NEW c \in Clients, Connect(c)
  PROVE  Inv'
<1> DEFINE k == Current(c)
<1>0. TypeOK /\ Fresh /\ Asking /\ AcceptedOnce /\ Served /\ Answers /\ ServedIsOpen /\ Faultless
  BY DEF Inv
<1>1. /\ k \in Requests /\ k \in Conns /\ k[1] = c /\ k[2] = count[c] /\ count[c] \in Nat
      /\ told[k] = "none" /\ stage[k] = "none" /\ serving[k] = "none" /\ to[k] \in Servers
      /\ pc[c] = "connect" /\ k \notin heard
  <2>1. pc[c] = "connect"
    BY DEF Connect
  <2>2. stage[k] = "none"
    BY <2>1, Busy DEF StageAt
  <2> QED BY <1>0, <2>1, <2>2, Busy DEF Served
<1>r. Requests \subseteq Conns
  BY DEF Conns
<1>2. UNCHANGED <<count, left, to, header, up, gone, eof, answer, at, step, serving, result,
                  open, trustline, times, applied, heard>>
  BY DEF Connect, threads, applied
<1>3. CASE /\ queue' = [queue EXCEPT ![to[k]] = Append(@, k)]
           /\ stage' = [stage EXCEPT ![k] = "header"]
           /\ pc' = [pc EXCEPT ![c] = "handshake"]
           /\ UNCHANGED <<waiting, told, faults>>
  <2>0. /\ stage'[k] = "header" /\ pc'[c] = "handshake"
        /\ \A j \in Conns : j # k => stage'[j] = stage[j]
        /\ \A d \in Clients : d # c => pc'[d] = pc[d]
    BY <1>0, <1>1, <1>3 DEF TypeOK
  <2>1. AcceptedOnce' /\ queue' \in [Servers -> Seq(Conns)]
    BY <1>0, <1>1, <1>2, <1>3, <2>0, Enqueue
  <2>2. TypeOK'
    BY <1>0, <1>1, <1>2, <1>3, <2>1 DEF TypeOK
  <2>3. Fresh'
    BY <1>0, <1>1, <1>2, <1>3, <1>r, <2>0 DEF Fresh
  <2>4. Asking'
    <3>1. stage'[k] = StageAt[pc'[c]]
      BY <2>0 DEF StageAt
    <3> QED BY <1>1, <1>2, <1>3, <1>r, <2>0, <3>1, AskingKept
  <2>5. Served'
    BY <1>0, <1>1, <1>2, <1>3, <1>r, <2>0 DEF Served
  <2>6. Answers'
    BY <1>0, <1>1, <1>2, <1>3, <1>r, <2>0 DEF Answers
  <2>7. ServedIsOpen'
    BY <1>0, <1>2 DEF ServedIsOpen
  <2>8. Faultless'
    BY <1>0, <1>2, <1>3 DEF Faultless, Current
  <2> QED BY <2>1, <2>2, <2>3, <2>4, <2>5, <2>6, <2>7, <2>8 DEF Inv
<1>4. CASE Reply(c, "CONNECTION_FAILED") /\ Fault /\ UNCHANGED <<queue, stage>>
  <2>0. /\ pc' = [pc EXCEPT ![c] = "idle"] /\ waiting' = waiting \ {c}
        /\ told' = [told EXCEPT ![k] = "CONNECTION_FAILED"]
        /\ \A j \in Requests : j # k => told'[j] = told[j]
    BY <1>0, <1>1, <1>4 DEF Reply, TypeOK
  <2>1. AcceptedOnce'
    BY <1>0, <1>2, <1>4, PendingKept DEF Pending, PendingThen
  <2>2. TypeOK'
    <3>1. faults' \in 0..MaxFaults /\ faults' # 0
      BY <1>0, <1>4, FaultCounted
    <3> QED BY <1>0, <1>1, <1>2, <1>4, <2>0, <3>1 DEF TypeOK, Replies
  <2>3. Fresh'
    BY <1>0, <1>1, <1>2, <1>4, <2>0 DEF Fresh
  <2>4. Asking'
    BY <1>0, <1>1, <1>2, <1>4, <2>0, AskingKept DEF TypeOK
  <2>5. Served'
    BY <1>0, <1>2, <1>4 DEF Served
  <2>6. Answers'
    BY <1>0, <1>1, <1>2, <1>4, <2>0 DEF Answers, TypeOK
  <2>7. ServedIsOpen'
    BY <1>0, <1>2 DEF ServedIsOpen
  <2>8. Faultless'
    BY <1>0, <1>4, FaultCounted DEF Faultless
  <2> QED BY <2>1, <2>2, <2>3, <2>4, <2>5, <2>6, <2>7, <2>8 DEF Inv
<1> QED BY <1>3, <1>4 DEF Connect, NoFault

LEMMA HandshakeStep ==
  ASSUME Inv, NEW c \in Clients, Handshake(c)
  PROVE  Inv'
<1> DEFINE k == Current(c)
<1>0. TypeOK /\ Fresh /\ Asking /\ AcceptedOnce /\ Served /\ Answers /\ ServedIsOpen /\ Faultless
  BY DEF Inv
<1>1. /\ k \in Requests /\ k \in Conns /\ k[1] = c /\ k[2] = count[c] /\ count[c] \in Nat
      /\ told[k] = "none" /\ stage[k] = "header" /\ pc[c] = "handshake" /\ k \notin heard
  <2>1. pc[c] = "handshake"
    BY DEF Handshake
  <2> QED BY <2>1, Busy DEF StageAt
<1>r. Requests \subseteq Conns
  BY DEF Conns
<1>2. UNCHANGED <<count, left, to, header, up, eof, answer, queue, at, step, serving, result,
                  open, trustline, faults, times, applied, heard>>
  BY DEF Handshake, threads, acceptor, applied
<1>3. CASE /\ stage' = [stage EXCEPT ![k] = "query"]
           /\ pc' = [pc EXCEPT ![c] = "response"]
           /\ UNCHANGED <<waiting, told, gone>>
  <2>0. /\ stage'[k] = "query" /\ pc'[c] = "response"
        /\ \A j \in Conns : j # k => stage'[j] = stage[j]
        /\ \A d \in Clients : d # c => pc'[d] = pc[d]
    BY <1>0, <1>1, <1>3 DEF TypeOK
  <2>1. AcceptedOnce'
    BY <1>0, <1>1, <1>2, <2>0, PendingKept DEF Pending, PendingThen
  <2>2. TypeOK'
    BY <1>0, <1>1, <1>2, <1>3 DEF TypeOK
  <2>3. Fresh'
    BY <1>0, <1>1, <1>2, <1>3, <1>r, <2>0 DEF Fresh
  <2>4. Asking'
    <3>1. stage'[k] = StageAt[pc'[c]]
      BY <2>0 DEF StageAt
    <3> QED BY <1>1, <1>2, <1>3, <1>r, <2>0, <3>1, AskingKept
  <2>5. Served'
    BY <1>0, <1>1, <1>2, <1>3, <1>r, <2>0 DEF Served
  <2>6. Answers'
    BY <1>0, <1>1, <1>2, <1>3, <1>r, <2>0 DEF Answers
  <2>7. ServedIsOpen'
    BY <1>0, <1>2 DEF ServedIsOpen
  <2>8. Faultless'
    BY <1>0, <1>2, <1>3 DEF Faultless, Current
  <2> QED BY <2>1, <2>2, <2>3, <2>4, <2>5, <2>6, <2>7, <2>8 DEF Inv
<1>4. CASE /\ ~up[k] \/ k \in eof
           /\ gone' = gone \cup {k}
           /\ Reply(c, "CONNECTION_FAILED")
           /\ UNCHANGED stage
  <2>0. /\ pc' = [pc EXCEPT ![c] = "idle"] /\ waiting' = waiting \ {c}
        /\ told' = [told EXCEPT ![k] = "CONNECTION_FAILED"]
        /\ \A j \in Requests : j # k => told'[j] = told[j]
    BY <1>0, <1>1, <1>4 DEF Reply, TypeOK
  <2>1. AcceptedOnce'
    BY <1>0, <1>2, <1>4, PendingKept DEF Pending, PendingThen
  <2>2. TypeOK'
    BY <1>0, <1>1, <1>2, <1>4, <2>0 DEF TypeOK, Replies
  <2>3. Fresh'
    BY <1>0, <1>1, <1>2, <1>4, <2>0 DEF Fresh
  <2>4. Asking'
    BY <1>0, <1>1, <1>2, <1>4, <2>0, AskingKept DEF TypeOK
  <2>5. Served'
    BY <1>0, <1>2, <1>4 DEF Served
  <2>6. Answers'
    BY <1>0, <1>1, <1>2, <1>4, <2>0 DEF Answers, TypeOK
  <2>7. ServedIsOpen'
    BY <1>0, <1>2 DEF ServedIsOpen
  <2>8. Faultless'
    BY <1>0, <1>1, <1>2, <1>4 DEF Faultless
  <2> QED BY <2>1, <2>2, <2>3, <2>4, <2>5, <2>6, <2>7, <2>8 DEF Inv
<1> QED BY <1>3, <1>4 DEF Handshake

LEMMA ReceiveStep ==
  ASSUME Inv, NEW c \in Clients, Receive(c)
  PROVE  Inv'
<1> DEFINE k == Current(c)
<1>0. TypeOK /\ Fresh /\ Asking /\ AcceptedOnce /\ Served /\ Answers /\ ServedIsOpen /\ Faultless
  BY DEF Inv
<1>1. /\ k \in Requests /\ k \in Conns /\ k[1] = c /\ k[2] = count[c] /\ count[c] \in Nat
      /\ told[k] = "none" /\ pc[c] = "response" /\ k \notin heard
  <2>1. pc[c] = "response"
    BY DEF Receive
  <2> QED BY <2>1, Busy
<1>2. UNCHANGED <<count, to, stage, header, up, gone, eof, answer, queue, at, step, serving, result,
                  open, trustline, faults, times, applied>>
  BY DEF Receive, wire, threads, acceptor, applied
<1>3. PICK r \in Results \cup {"junk", "empty"} :
        /\ Reply(c, r)
        /\ left' \in [Clients -> Results \cup {"empty", "junk"}]
        /\ \/ r = answer[k] /\ r # "none" /\ heard' = heard \cup {k}
           \/ Broken(k) /\ UNCHANGED heard
  <2>1. left[c] \in Results \cup {"junk", "empty"} /\ answer[k] \in Results \cup {"none"}
    BY <1>0, <1>1 DEF TypeOK
  <2>2. CASE /\ answer[k] # "none" /\ Reply(c, answer[k])
             /\ left' = [left EXCEPT ![c] = answer[k]] /\ heard' = heard \cup {k}
    BY <1>0, <2>1, <2>2 DEF TypeOK
  <2>3. CASE /\ k \in eof /\ Reply(c, "empty")
             /\ left' = [left EXCEPT ![c] = "empty"] /\ UNCHANGED heard
    BY <1>0, <2>3 DEF TypeOK, Broken
  <2>4. ASSUME Broken(k), NEW r \in {"junk", "empty", left[c]}, Reply(c, r), UNCHANGED <<left, heard>>
        PROVE  \E q \in Results \cup {"junk", "empty"} : Reply(c, q)
    BY <2>1, <2>4
  <2>5. CASE Broken(k) /\ (\E r \in {"junk", "empty", left[c]} : Reply(c, r)) /\ UNCHANGED <<left, heard>>
    BY <1>0, <2>4, <2>5 DEF TypeOK
  <2> QED BY <2>2, <2>3, <2>5 DEF Receive
<1>4. /\ pc' = [pc EXCEPT ![c] = "idle"]
      /\ waiting' = IF r = "empty" THEN waiting ELSE waiting \ {c}
      /\ told' = [told EXCEPT ![k] = r] /\ told'[k] = r
      /\ \A j \in Requests : j # k => told'[j] = told[j]
      /\ r # "CONNECTION_FAILED"
  BY <1>0, <1>1, <1>3 DEF Reply, TypeOK, Results, Success, Refused
<1>5. AcceptedOnce'
  BY <1>0, <1>2, PendingKept DEF Pending, PendingThen
<1>6. TypeOK'
  BY <1>0, <1>1, <1>2, <1>3, <1>4 DEF TypeOK, Replies
<1>7. Fresh'
  <2>1. ASSUME NEW j \in Requests, j[2] > count[j[1]]
        PROVE  stage[j] = "none" /\ told'[j] = "none"
    <3>1. j # k
      <4>1. \A m, n \in Nat : m > n => m # n
        OBVIOUS
      <4> QED BY <1>1, <2>1, <4>1
    <3> QED BY <1>0, <1>4, <2>1, <3>1 DEF Fresh
  <2> QED BY <1>2, <2>1 DEF Fresh
<1>8. Asking'
  BY <1>0, <1>1, <1>2, <1>4, AskingKept DEF TypeOK
<1>9. Served'
  BY <1>0, <1>2 DEF Served
<1>10. Answers'
  BY <1>0, <1>1, <1>2, <1>3, <1>4 DEF Answers
<1>11. ServedIsOpen'
  BY <1>0, <1>2 DEF ServedIsOpen
<1>12. Faultless'
  <2> SUFFICES ASSUME faults = 0 PROVE Faultless'
    BY <1>2 DEF Faultless
  <2>1. heard' = heard \cup {k} /\ r # "empty"
    BY <1>0, <1>1, <1>3 DEF Faultless, Broken, TypeOK, Results, Success, Refused
  <2>2. \A d \in Clients : Current(d)' = Current(d)
    BY <1>2 DEF Current
  <2> QED BY <1>0, <1>1, <1>2, <1>4, <2>1, <2>2, RequestIsPair DEF Faultless
<1> QED BY <1>5, <1>6, <1>7, <1>8, <1>9, <1>10, <1>11, <1>12 DEF Inv

-----------------------------------------------------------------------------
(* Visitors and the servers, which leave the clients where they are.       *)

LEMMA ClientKept ==
  ASSUME Inv, UNCHANGED <<count, pc, told>>,
         \A k \in Requests : stage'[k] = stage[k]
  PROVE  Fresh' /\ Asking'
<1>0. TypeOK /\ Fresh /\ Asking
  BY DEF Inv
<1>1. Fresh'
  BY <1>0 DEF Fresh
<1>2. ASSUME NEW d \in Clients, pc[d] # "idle"
      PROVE  /\ Current(d)' = Current(d) /\ count[d] > 0 /\ told[Current(d)] = "none"
             /\ stage'[Current(d)] = StageAt[pc[d]]
  <2>1. count[d] > 0 /\ told[Current(d)] = "none" /\ stage[Current(d)] = StageAt[pc[d]]
    BY <1>0, <1>2 DEF Asking
  <2> QED BY <1>0, <2>1, CurrentIsRequest DEF Current
<1>3. Asking'
  BY <1>2 DEF Asking
<1> QED BY <1>1, <1>3

LEMMA FaultlessKept ==
  ASSUME Faultless, UNCHANGED <<count, waiting, up, eof, trustline, applied, told, heard>>,
         faults = 0 <=> faults' = 0,
         \A k \in Requests : to'[k] = to[k]
  PROVE  Faultless'
BY DEF Faultless, Current

LEMMA ArriveStep ==
  ASSUME Inv, NEW v \in Visitors, NEW s \in Servers, Arrive(v, s)
  PROVE  Inv'
<1>0. TypeOK /\ AcceptedOnce /\ Served /\ Answers /\ ServedIsOpen /\ Faultless
  BY DEF Inv
<1>1. v \in Conns /\ v \notin Requests /\ Requests \subseteq Conns
  BY RequestIsPair DEF Conns
<1>2. /\ stage[v] = "none"
      /\ to' = [to EXCEPT ![v] = s] /\ stage' = [stage EXCEPT ![v] = "connected"]
      /\ queue' = [queue EXCEPT ![s] = Append(@, v)]
      /\ UNCHANGED <<count, waiting, pc, left, header, up, gone, eof, answer, at, step,
                     serving, result, open, trustline, faults, times, applied, told, heard>>
  BY DEF Arrive, client, threads, history, applied
<1>3. /\ to'[v] = s /\ stage'[v] = "connected"
      /\ \A j \in Conns : j # v => to'[j] = to[j] /\ stage'[j] = stage[j]
      /\ \A j \in Requests : to'[j] = to[j] /\ stage'[j] = stage[j]
  <2>1. to'[v] = s /\ \A j \in Conns : j # v => to'[j] = to[j]
    BY <1>0, <1>1, <1>2 DEF TypeOK
  <2>2. stage'[v] = "connected" /\ \A j \in Conns : j # v => stage'[j] = stage[j]
    BY <1>0, <1>1, <1>2 DEF TypeOK
  <2> QED BY <1>1, <2>1, <2>2
<1>4. AcceptedOnce' /\ queue' \in [Servers -> Seq(Conns)]
  BY <1>0, <1>1, <1>2, <1>3, Enqueue
<1>5. TypeOK'
  <2>1. to' \in [Conns -> Servers]
    BY <1>0, <1>2 DEF TypeOK
  <2>2. stage' \in [Conns -> {"none", "connected", "header", "query"}]
    BY <1>0, <1>2 DEF TypeOK
  <2> QED BY <1>0, <1>2, <1>4, <2>1, <2>2 DEF TypeOK
<1>6. Fresh' /\ Asking'
  BY <1>2, <1>3, ClientKept
<1>7. Served'
  BY <1>0, <1>1, <1>2, <1>3 DEF Served
<1>8. Answers'
  BY <1>0, <1>2, <1>3 DEF Answers
<1>9. ServedIsOpen'
  BY <1>0, <1>2 DEF ServedIsOpen
<1>10. Faultless'
  BY <1>0, <1>2, <1>3, FaultlessKept
<1> QED BY <1>4, <1>5, <1>6, <1>7, <1>8, <1>9, <1>10 DEF Inv

LEMMA SpeakStep ==
  ASSUME Inv, NEW v \in Visitors, Speak(v)
  PROVE  Inv'
<1>0. TypeOK /\ AcceptedOnce /\ Served /\ Answers /\ ServedIsOpen /\ Faultless
  BY DEF Inv
<1>1. v \in Conns /\ v \notin Requests /\ Requests \subseteq Conns
  BY RequestIsPair DEF Conns
<1>2. UNCHANGED <<count, waiting, pc, left, to, up, gone, eof, answer, queue, at, step,
                  serving, result, open, trustline, faults, times, applied, told, heard>>
  BY DEF Speak, client, threads, history, acceptor, applied
<1>3. /\ stage[v] \in {"connected", "header"}
      /\ \/ stage' = [stage EXCEPT ![v] = "header"]
         \/ stage' = [stage EXCEPT ![v] = "query"]
      /\ \/ UNCHANGED header
         \/ header' = [header EXCEPT ![v] = "client"]
         \/ header' = [header EXCEPT ![v] = "invalid"]
  BY DEF Speak
<1>4. /\ stage'[v] # "none" /\ stage' \in [Conns -> {"none", "connected", "header", "query"}]
      /\ header' \in [Visitors -> {"none", "client", "invalid"}]
      /\ \A j \in Conns : j # v => stage'[j] = stage[j]
  <2>1. /\ stage \in [Conns -> {"none", "connected", "header", "query"}]
        /\ header \in [Visitors -> {"none", "client", "invalid"}]
    BY <1>0 DEF TypeOK
  <2>2. header' \in [Visitors -> {"none", "client", "invalid"}]
    BY <1>3, <2>1
  <2>3. CASE stage' = [stage EXCEPT ![v] = "header"]
    BY <1>1, <2>1, <2>2, <2>3
  <2>4. CASE stage' = [stage EXCEPT ![v] = "query"]
    BY <1>1, <2>1, <2>2, <2>4
  <2> QED BY <1>3, <2>3, <2>4
<1>s. serving[v] = "none" /\ \A j \in Requests : stage'[j] = stage[j]
  BY <1>0, <1>1, <1>3, <1>4 DEF Served
<1>5. AcceptedOnce'
  BY <1>0, <1>1, <1>2, <1>4, PendingKept DEF Pending, PendingThen
<1>6. TypeOK'
  BY <1>0, <1>2, <1>4 DEF TypeOK
<1>7. Fresh' /\ Asking'
  BY <1>2, <1>s, ClientKept
<1>8. Served'
  BY <1>0, <1>1, <1>2, <1>4, <1>s DEF Served
<1>9. Answers'
  BY <1>0, <1>2, <1>s DEF Answers
<1>10. ServedIsOpen'
  BY <1>0, <1>2 DEF ServedIsOpen
<1>11. Faultless'
  BY <1>0, <1>2, FaultlessKept
<1> QED BY <1>5, <1>6, <1>7, <1>8, <1>9, <1>10, <1>11 DEF Inv

LEMMA LeaveStep ==
  ASSUME Inv, NEW v \in Visitors, Leave(v)
  PROVE  Inv'
<1>0. TypeOK /\ AcceptedOnce /\ Served /\ Answers /\ ServedIsOpen /\ Faultless
  BY DEF Inv
<1>1. UNCHANGED <<count, waiting, pc, left, to, stage, header, up, eof, answer, queue, at, step,
                  serving, result, open, trustline, faults, times, applied, told, heard>>
  BY DEF Leave, client, threads, history, acceptor, applied
<1>2. v \in Conns /\ gone' = gone \cup {v}
  BY DEF Leave, Conns
<1>3. TypeOK'
  BY <1>0, <1>1, <1>2 DEF TypeOK
<1>4. Fresh' /\ Asking'
  BY <1>1, ClientKept
<1>5. AcceptedOnce'
  BY <1>0, <1>1, PendingKept DEF Pending, PendingThen
<1>6. Served' /\ Answers' /\ ServedIsOpen'
  BY <1>0, <1>1 DEF Served, Answers, ServedIsOpen
<1>7. Faultless'
  BY <1>0, <1>1, FaultlessKept
<1> QED BY <1>3, <1>4, <1>5, <1>6, <1>7 DEF Inv

LEMMA AcceptIsStep ==
  ASSUME Inv, NEW s \in Servers, Accept(s)
  PROVE  Inv'
<1> DEFINE q == queue[s]
           k == Head(queue[s])
<1>0. TypeOK /\ AcceptedOnce /\ Served /\ Answers /\ ServedIsOpen /\ Faultless
  BY DEF Inv
<1>1. /\ at[s] = None /\ q # <<>>
      /\ at' = [at EXCEPT ![s] = k]
      /\ queue' = [queue EXCEPT ![s] = Tail(q)]
      /\ step' = [step EXCEPT ![s] = "recv"]
      /\ open' = open \cup {k}
      /\ UNCHANGED <<count, waiting, pc, left, to, stage, header, up, gone, eof, answer,
                     serving, result, trustline, faults, times, applied, told, heard>>
  BY DEF Accept, client, threads, history, wire, applied
<1>2. /\ q \in Seq(Conns) /\ Tail(q) \in Seq(Conns) /\ k \in Conns /\ k = q[1]
      /\ Len(q) \in Nat /\ 1 \in 1..Len(q) /\ Len(Tail(q)) = Len(q) - 1
      /\ \A i \in 1..Len(Tail(q)) : Tail(q)[i] = q[i + 1] /\ i + 1 \in 1..Len(q)
  BY <1>0, <1>1, QueuedAreConns, HeadAndTail
<1>3. k # None
  BY <1>2, RequestsAssumption DEF Conns, Requests
<1>4. /\ queue'[s] = Tail(q) /\ at'[s] = k
      /\ \A r \in Servers : r # s => queue'[r] = queue[r] /\ at'[r] = at[r]
  BY <1>0, <1>1 DEF TypeOK
<1>5. TypeOK'
  BY <1>0, <1>1, <1>2 DEF TypeOK
<1>6. AcceptedOnce'
  <2>1. /\ \A i \in 1..Len(q) : Pending(q[i], s)
        /\ \A i, j \in 1..Len(q) : q[i] = q[j] => i = j
    BY <1>0 DEF AcceptedOnce
  <2>2. ASSUME NEW i \in 1..Len(queue'[s])
        PROVE  Pending(queue'[s][i], s) /\ queue'[s][i] # at'[s]
    <3>1. queue'[s][i] = q[i + 1] /\ i + 1 \in 1..Len(q) /\ i + 1 # 1
      BY <1>2, <1>4
    <3> HIDE DEF q
    <3> QED BY <1>2, <1>4, <2>1, <3>1
  <2>3. ASSUME NEW i \in 1..Len(queue'[s]), NEW j \in 1..Len(queue'[s]), queue'[s][i] = queue'[s][j]
        PROVE  i = j
    <3>1. /\ queue'[s][i] = q[i + 1] /\ i + 1 \in 1..Len(q)
          /\ queue'[s][j] = q[j + 1] /\ j + 1 \in 1..Len(q)
      BY <1>2, <1>4
    <3>2. i + 1 = j + 1
      BY <2>1, <2>3, <3>1
    <3> QED BY <1>2, <3>2
  <2>4. Pending(at'[s], s)
    BY <1>2, <1>4, <2>1
  <2>5. ASSUME NEW r \in Servers, r # s
        PROVE  /\ \A i \in 1..Len(queue'[r]) : Pending(queue'[r][i], r) /\ queue'[r][i] # at'[r]
               /\ \A i, j \in 1..Len(queue'[r]) : queue'[r][i] = queue'[r][j] => i = j
               /\ at'[r] # None => Pending(at'[r], r)
    BY <1>0, <1>4, <2>5 DEF AcceptedOnce
  <2>6. ASSUME NEW r \in Servers
        PROVE  /\ \A i \in 1..Len(queue'[r]) : Pending(queue'[r][i], r) /\ queue'[r][i] # at'[r]
               /\ \A i, j \in 1..Len(queue'[r]) : queue'[r][i] = queue'[r][j] => i = j
               /\ at'[r] # None => Pending(at'[r], r)
    <3>1. CASE r = s
      BY <2>2, <2>3, <2>4, <3>1
    <3> QED BY <2>5, <3>1
  <2>7. UNCHANGED <<to, stage, serving>>
    BY <1>1
  <2> HIDE DEF q, k
  <2> QED BY <2>6, <2>7 DEF AcceptedOnce, Pending
<1>7. Fresh' /\ Asking'
  BY <1>1, ClientKept
<1>8. Served' /\ Answers'
  BY <1>0, <1>1 DEF Served, Answers
<1>9. ServedIsOpen'
  BY <1>0, <1>1, <1>4 DEF ServedIsOpen
<1>10. Faultless'
  BY <1>0, <1>1, FaultlessKept
<1> QED BY <1>5, <1>6, <1>7, <1>8, <1>9, <1>10 DEF Inv

\* The accept thread lets go of its connection, and nobody else holds it.
LEMMA Released ==
  ASSUME TypeOK, AcceptedOnce, NEW s \in Servers, at[s] # None,
         at' = [at EXCEPT ![s] = None],
         UNCHANGED <<queue, to, stage>>,
         \A j \in Conns : j # at[s] => serving'[j] = serving[j]
  PROVE  /\ AcceptedOnce' /\ at' \in [Servers -> Conns \cup {None}]
         /\ at[s] \in Conns /\ Pending(at[s], s)
         /\ \A r \in Servers : at'[r] # None => at'[r] = at[r] /\ at[r] # at[s]
<1>1. at[s] \in Conns /\ Pending(at[s], s)
  BY QueuedAreConns DEF AcceptedOnce
<1>2. at'[s] = None /\ \A r \in Servers : r # s => at'[r] = at[r]
  BY DEF TypeOK
<1>3. ASSUME NEW r \in Servers, at'[r] # None
      PROVE  at'[r] = at[r] /\ at[r] # at[s] /\ PendingThen(at[r], r)
  <2>1. r # s /\ at'[r] = at[r] /\ at[r] \in Conns /\ Pending(at[r], r)
    BY <1>2, <1>3, QueuedAreConns DEF AcceptedOnce
  <2> QED BY <1>1, <2>1 DEF Pending, PendingThen
<1>4. ASSUME NEW r \in Servers, NEW i \in 1..Len(queue[r])
      PROVE  PendingThen(queue[r][i], r) /\ queue[r][i] # at'[r]
  <2>1. queue[r][i] \in Conns /\ Pending(queue[r][i], r) /\ queue[r][i] # at[r]
    BY QueuedAreConns DEF AcceptedOnce
  <2>2. queue[r][i] # at[s]
    BY <1>1, <2>1 DEF Pending
  <2>3. queue[r][i] # None
    BY <2>1, RequestsAssumption DEF Conns, Requests
  <2> QED BY <1>2, <2>1, <2>2, <2>3 DEF Pending, PendingThen
<1>5. \A r \in Servers : \A i, j \in 1..Len(queue[r]) : queue[r][i] = queue[r][j] => i = j
  BY DEF AcceptedOnce
<1>6. AcceptedOnce'
  BY <1>3, <1>4, <1>5 DEF AcceptedOnce, Pending, PendingThen
<1>7. at' \in [Servers -> Conns \cup {None}]
  BY DEF TypeOK
<1> QED BY <1>1, <1>3, <1>6, <1>7

LEMMA RecvHeaderStep ==
  ASSUME Inv, NEW s \in Servers, RecvHeader(s)
  PROVE  Inv'
<1> DEFINE k == at[s]
<1>0. TypeOK /\ AcceptedOnce /\ Served /\ Answers /\ ServedIsOpen /\ Faultless
  BY DEF Inv
<1>1. k # None /\ k \in Conns
  BY <1>0, QueuedAreConns DEF RecvHeader
<1>2. UNCHANGED <<count, waiting, pc, left, to, stage, header, up, gone, answer, queue,
                  serving, result, trustline, faults, times, applied, told, heard>>
  BY DEF RecvHeader, client, threads, history, applied
<1>3. Fresh' /\ Asking'
  BY <1>2, ClientKept
<1>4. Served' /\ Answers'
  BY <1>0, <1>2 DEF Served, Answers
<1>5. CASE step' = [step EXCEPT ![s] = "accept"] /\ UNCHANGED <<at, open, eof>>
  <2>1. TypeOK'
    BY <1>0, <1>2, <1>5 DEF TypeOK
  <2>2. AcceptedOnce'
    BY <1>0, <1>2, <1>5, PendingKept DEF Pending, PendingThen
  <2>3. ServedIsOpen'
    BY <1>0, <1>2, <1>5 DEF ServedIsOpen
  <2>4. Faultless'
    BY <1>0, <1>2, <1>5, FaultlessKept
  <2> QED BY <1>3, <1>4, <2>1, <2>2, <2>3, <2>4 DEF Inv
<1>6. CASE /\ \/ stage[k] # "connected" /\ TypeOf(k) = "invalid"
              \/ stage[k] = "connected" /\ k \in gone
              \/ ~up[k]
           /\ Turn(s, k)
  <2>0. /\ at' = [at EXCEPT ![s] = None] /\ step' = [step EXCEPT ![s] = "idle"]
        /\ open' = open \ {k} /\ eof' = eof \cup {k}
    BY <1>6 DEF Turn
  <2>1. /\ AcceptedOnce' /\ at' \in [Servers -> Conns \cup {None}] /\ Pending(k, s)
        /\ \A r \in Servers : at'[r] # None => at'[r] = at[r] /\ at[r] # k
    BY <1>0, <1>1, <1>2, <2>0, Released
  <2>2. TypeOK'
    BY <1>0, <1>1, <1>2, <2>0, <2>1 DEF TypeOK
  <2>3. ServedIsOpen'
    BY <1>0, <1>2, <2>0, <2>1 DEF ServedIsOpen, Pending
  <2>4. faults = 0 => k \notin Requests
    BY <1>0, <1>1, <1>6 DEF Faultless, Served, TypeOf
  <2>5. Faultless'
    BY <1>0, <1>2, <2>0, <2>4 DEF Faultless, Current
  <2> QED BY <1>3, <1>4, <2>1, <2>2, <2>3, <2>5 DEF Inv
<1> QED BY <1>5, <1>6 DEF RecvHeader

LEMMA FinishAcceptStep ==
  ASSUME Inv, NEW s \in Servers, FinishAccept(s)
  PROVE  Inv'
<1> DEFINE k == at[s]
<1>0. TypeOK /\ AcceptedOnce /\ Served /\ Answers /\ ServedIsOpen /\ Faultless
  BY DEF Inv
<1>1. k # None /\ k \in Conns
  BY <1>0, QueuedAreConns DEF FinishAccept
<1>2. /\ UNCHANGED <<count, waiting, pc, left, to, stage, header, up, gone, answer, queue,
                     result, trustline, times, applied, told, heard>>
      /\ at' = [at EXCEPT ![s] = None] /\ step' = [step EXCEPT ![s] = "idle"]
      /\ \/ UNCHANGED serving
         \/ /\ stage[k] = "query"
            /\ serving' = [serving EXCEPT ![k] = IF TypeOf(k) = "client" THEN "session" ELSE "read"]
  BY DEF FinishAccept, client, history, Turn, applied
<1>3. /\ serving' \in [Conns -> {"none", "session", "read", "set", "respond", "done"}]
      /\ \A j \in Conns : j # k => serving'[j] = serving[j]
      /\ serving'[k] = serving[k] \/ (stage[k] = "query" /\ serving'[k] \in {"session", "read"})
      /\ k \in Requests => serving'[k] \in {serving[k], "read"}
  <2>1. serving \in [Conns -> {"none", "session", "read", "set", "respond", "done"}]
    BY <1>0 DEF TypeOK
  <2>2. CASE UNCHANGED serving
    <3> HIDE DEF k
    <3> QED BY <2>1, <2>2
  <2>3. CASE stage[k] = "query" /\ serving' = [serving EXCEPT ![k] = "session"] /\ k \notin Requests
    BY <1>1, <2>1, <2>3
  <2>4. CASE stage[k] = "query" /\ serving' = [serving EXCEPT ![k] = "read"]
    BY <1>1, <2>1, <2>4
  <2> QED BY <1>2, <2>2, <2>3, <2>4 DEF TypeOf
<1>4. /\ AcceptedOnce' /\ at' \in [Servers -> Conns \cup {None}] /\ serving[k] = "none"
      /\ \A r \in Servers : at'[r] # None => at'[r] = at[r] /\ at[r] # k
  BY <1>0, <1>1, <1>2, <1>3, Released DEF Pending
<1>5. Fresh' /\ Asking'
  BY <1>2, ClientKept
<1>6. Served'
  <2>1. \A j \in Conns : serving'[j] # "none" => stage[j] = "query"
    BY <1>0, <1>3 DEF Served
  <2>2. ASSUME NEW j \in Requests
        PROVE  /\ serving'[j] \in {"none", "read", "set"} => result[j] = "none"
               /\ answer[j] # "none" => serving'[j] = "done"
    <3>1. j \in Conns
      BY RequestIsPair
    <3> QED BY <1>0, <1>3, <1>4, <3>1 DEF Served
  <2> QED BY <1>0, <1>2, <2>1, <2>2 DEF Served
<1>7. Answers'
  BY <1>0, <1>2 DEF Answers
<1>8. CASE NoFault /\ UNCHANGED <<open, eof>>
  <2>1. TypeOK'
    BY <1>0, <1>2, <1>3, <1>4, <1>8 DEF TypeOK, NoFault
  <2>2. k \in open
    BY <1>0, <1>1 DEF ServedIsOpen
  <2>3. ServedIsOpen'
    BY <1>0, <1>3, <1>4, <1>8, <2>2 DEF ServedIsOpen
  <2>4. Faultless'
    BY <1>0, <1>2, <1>8, FaultlessKept DEF NoFault
  <2> QED BY <1>4, <1>5, <1>6, <1>7, <2>1, <2>3, <2>4 DEF Inv
<1>9. CASE Turn(s, k) /\ Fault /\ UNCHANGED serving
  <2>0. open' = open \ {k} /\ eof' = eof \cup {k} /\ faults' \in 0..MaxFaults /\ faults' # 0
    BY <1>0, <1>9, FaultCounted DEF Turn
  <2>1. TypeOK'
    BY <1>0, <1>1, <1>2, <1>3, <1>4, <2>0 DEF TypeOK
  <2>2. ServedIsOpen'
    BY <1>0, <1>4, <1>9, <2>0 DEF ServedIsOpen
  <2>3. Faultless'
    BY <2>0 DEF Faultless
  <2> QED BY <1>4, <1>5, <1>6, <1>7, <2>1, <2>2, <2>3 DEF Inv
<1> QED BY <1>8, <1>9 DEF FinishAccept

-----------------------------------------------------------------------------
(* The threads of connections.                                             *)

LEMMA ReadStep ==
  ASSUME Inv, NEW k \in Requests, Read(k)
  PROVE  Inv'
<1>0. TypeOK /\ AcceptedOnce /\ Served /\ Answers /\ ServedIsOpen /\ Faultless
  BY DEF Inv
<1>1. /\ UNCHANGED <<count, waiting, pc, left, to, stage, header, up, gone, eof, answer, queue,
                     at, step, open, trustline, faults, times, applied, told, heard>>
      /\ serving[k] = "read" /\ k \in Conns
  BY RequestIsPair DEF Read, client, wire, acceptor, history, applied
<1>2. /\ serving' \in [Conns -> {"none", "session", "read", "set", "respond", "done"}]
      /\ result' \in [Requests -> Results \cup {"none"}]
      /\ \A j \in Conns : j # k => serving'[j] = serving[j]
      /\ \A j \in Requests : j # k => result'[j] = result[j]
      /\ \/ serving'[k] = "set" /\ result'[k] = result[k]
         \/ serving'[k] = "respond" /\ result'[k] = "INVALID_COMMAND"
  <2>1. CASE serving' = [serving EXCEPT ![k] = "set"] /\ UNCHANGED result
    BY <1>0, <1>1, <2>1 DEF TypeOK
  <2>2. CASE /\ serving' = [serving EXCEPT ![k] = "respond"]
             /\ result' = [result EXCEPT ![k] = "INVALID_COMMAND"]
    BY <1>0, <1>1, <2>2 DEF TypeOK, Results
  <2> QED BY <2>1, <2>2 DEF Read
<1>3. TypeOK'
  BY <1>0, <1>1, <1>2 DEF TypeOK
<1>4. Fresh' /\ Asking'
  BY <1>1, ClientKept
<1>5. AcceptedOnce'
  BY <1>0, <1>1, <1>2, PendingKept DEF Pending, PendingThen
<1>6. Served'
  <2>1. \A j \in Conns : serving'[j] # "none" => stage[j] = "query"
    BY <1>0, <1>1, <1>2 DEF Served
  <2>2. /\ result[k] = "none" /\ k \notin applied /\ answer[k] = "none"
    BY <1>0, <1>1 DEF Served, Success
  <2>3. ASSUME NEW j \in Requests
        PROVE  /\ serving'[j] \in {"none", "read", "set"} => result'[j] = "none"
               /\ result'[j] = Success <=> j \in applied
               /\ answer[j] # "none" => answer[j] = result'[j] /\ serving'[j] = "done"
    <3>1. CASE j = k
      BY <1>2, <2>2, <3>1 DEF Success
    <3>2. CASE j # k
      BY <1>0, <1>2, <3>2, RequestIsPair DEF Served
    <3> QED BY <3>1, <3>2
  <2> QED BY <1>0, <1>1, <2>1, <2>3 DEF Served
<1>7. Answers'
  BY <1>0, <1>1 DEF Answers
<1>8. ServedIsOpen'
  BY <1>0, <1>1, <1>2 DEF ServedIsOpen
<1>9. Faultless'
  BY <1>0, <1>1, FaultlessKept
<1> QED BY <1>3, <1>4, <1>5, <1>6, <1>7, <1>8, <1>9 DEF Inv

\* The requests carried out are those counted.
LEMMA CountedOnce ==
  ASSUME TypeOK, NEW k \in Requests
  PROVE  /\ times' = [times EXCEPT ![k] = @ + 1] =>
              applied' = applied \cup {k} /\ times' \in [Requests -> Nat]
         /\ UNCHANGED times => UNCHANGED applied /\ times' \in [Requests -> Nat]
BY DEF TypeOK, applied

LEMMA SetTrustlineStep ==
  ASSUME Inv, NEW k \in Requests, SetTrustline(k)
  PROVE  Inv'
<1>0. TypeOK /\ Fresh /\ AcceptedOnce /\ Served /\ Answers /\ ServedIsOpen /\ Faultless
  BY DEF Inv
<1>1. /\ UNCHANGED <<count, waiting, pc, left, to, stage, header, up, gone, eof, answer, queue,
                     at, step, open, faults, told, heard>>
      /\ serving[k] = "set" /\ serving' = [serving EXCEPT ![k] = "respond"]
  BY DEF SetTrustline, client, wire, acceptor
<1>2. /\ k \in Conns /\ k[1] \in Clients /\ to[k] \in Servers /\ k[2] \in Nat
      /\ k = <<k[1], k[2]>> /\ count[k[1]] \in Nat
  BY <1>0, RequestIsPair, CountIsNat DEF TypeOK
<1>3. /\ result[k] = "none" /\ k \notin applied /\ answer[k] = "none" /\ k \notin heard
      /\ stage[k] = "query"
  BY <1>0, <1>1, <1>2 DEF Served, Answers, Success
<1>4. /\ serving' \in [Conns -> {"none", "session", "read", "set", "respond", "done"}]
      /\ serving'[k] = "respond"
      /\ \A j \in Conns : j # k => serving'[j] = serving[j]
  BY <1>0, <1>1, <1>2 DEF TypeOK
<1>5. /\ result' \in [Requests -> Results \cup {"none"}]
      /\ \A j \in Requests : j # k => result'[j] = result[j]
      /\ \/ result'[k] = Success /\ times' = [times EXCEPT ![k] = @ + 1]
            /\ trustline' = [trustline EXCEPT ![to[k]][k[1]] = k]
         \/ result'[k] = Refused /\ UNCHANGED <<trustline, times>>
  <2>1. result \in [Requests -> Results \cup {"none"}] /\ Success \in Results /\ Refused \in Results
    BY <1>0 DEF TypeOK, Results
  <2> QED BY <2>1 DEF SetTrustline
<1>13. /\ times' \in [Requests -> Nat]
       /\ \/ /\ result'[k] = Success /\ applied' = applied \cup {k}
             /\ trustline' = [trustline EXCEPT ![to[k]][k[1]] = k]
          \/ result'[k] = Refused /\ UNCHANGED applied
  BY <1>0, <1>5, CountedOnce
<1>6. TypeOK'
  <2>1. trustline' \in [Servers -> [Clients -> Requests \cup {None}]]
    <3>1. /\ trustline \in [Servers -> [Clients -> Requests \cup {None}]]
          /\ trustline[to[k]] \in [Clients -> Requests \cup {None}]
      BY <1>0, <1>2 DEF TypeOK
    <3>2. [trustline[to[k]] EXCEPT ![k[1]] = k] \in [Clients -> Requests \cup {None}]
      BY <3>1
    <3> QED BY <1>5, <3>1, <3>2
  <2> QED BY <1>0, <1>1, <1>4, <1>5, <1>13, <2>1 DEF TypeOK
<1>7. Fresh' /\ Asking'
  BY <1>1, ClientKept
<1>8. AcceptedOnce'
  BY <1>0, <1>1, <1>4, PendingKept DEF Pending, PendingThen
<1>9. Served'
  <2>1. \A j \in Conns : serving'[j] # "none" => stage[j] = "query"
    BY <1>0, <1>3, <1>4 DEF Served
  <2>2. ASSUME NEW j \in Requests
        PROVE  /\ serving'[j] \in {"none", "read", "set"} => result'[j] = "none"
               /\ result'[j] = Success <=> j \in applied'
               /\ answer[j] # "none" => answer[j] = result'[j] /\ serving'[j] = "done"
    <3>1. CASE j = k
      BY <1>3, <1>4, <1>5, <1>13, <3>1 DEF Success, Refused
    <3>2. CASE j # k
      BY <1>0, <1>4, <1>5, <1>13, <3>2, RequestIsPair DEF Served
    <3> QED BY <3>1, <3>2
  <2> QED BY <1>0, <1>1, <2>1, <2>2 DEF Served
<1>10. Answers'
  BY <1>0, <1>1 DEF Answers
<1>11. ServedIsOpen'
  BY <1>0, <1>1, <1>2, <1>4 DEF ServedIsOpen
<1>12. Faultless'
  <2> SUFFICES ASSUME faults = 0 PROVE Faultless'
    BY <1>1 DEF Faultless
  <2>1. k = Current(k[1])
    <3>1. k[2] <= count[k[1]]
      BY <1>0, <1>2, <1>3 DEF Fresh
    <3>2. ~(k[2] < count[k[1]])
      BY <1>0, <1>3 DEF Faultless
    <3>3. k[2] = count[k[1]]
      BY <1>2, <3>1, <3>2
    <3> QED BY <1>2, <3>3 DEF Current
  <2>2. ASSUME NEW j \in Requests, j = Current(j[1]), j \in applied'
        PROVE  trustline'[to[j]][j[1]] = j
    <3>1. j[1] \in Clients /\ to[j] \in Servers
      BY <1>0, RequestIsPair DEF TypeOK
    <3>2. CASE j = k
      BY <1>0, <1>2, <1>3, <1>13, <2>2, <3>2 DEF TypeOK
    <3>3. CASE j # k
      <4>1. j[1] # k[1]
        BY <2>1, <2>2, <3>3
      <4>2. j \in applied
        BY <1>13, <2>2, <3>3
      <4>3. trustline'[to[j]][j[1]] = trustline[to[j]][j[1]]
        <5>1. trustline \in [Servers -> [Clients -> Requests \cup {None}]]
          BY <1>0 DEF TypeOK
        <5>2. trustline' = [trustline EXCEPT ![to[k]] = [trustline[to[k]] EXCEPT ![k[1]] = k]]
              \/ UNCHANGED trustline
          BY <1>5
        <5>3. trustline[to[j]] \in [Clients -> Requests \cup {None}]
          BY <3>1, <5>1
        <5>4. CASE to[j] = to[k]
          BY <1>2, <3>1, <4>1, <5>1, <5>2, <5>3, <5>4
        <5>5. CASE to[j] # to[k]
          BY <3>1, <5>1, <5>2, <5>5
        <5> QED BY <5>4, <5>5
      <4> QED BY <1>0, <2>2, <4>2, <4>3 DEF Faultless
    <3> QED BY <3>2, <3>3
  <2> QED BY <1>0, <1>1, <2>2 DEF Faultless, Current
<1> QED BY <1>6, <1>7, <1>8, <1>9, <1>10, <1>11, <1>12 DEF Inv

LEMMA RespondStep ==
  ASSUME Inv, NEW k \in Requests, Respond(k)
  PROVE  Inv'
<1>0. TypeOK /\ AcceptedOnce /\ Served /\ Answers /\ ServedIsOpen /\ Faultless
  BY DEF Inv
<1>1. /\ UNCHANGED <<count, waiting, pc, left, to, stage, header, up, gone, eof, result, queue,
                     at, step, open, trustline, faults, times, applied, told, heard>>
      /\ serving[k] = "respond" /\ k \in Conns
      /\ serving' = [serving EXCEPT ![k] = "done"]
      /\ answer' = IF up[k] THEN [answer EXCEPT ![k] = result[k]] ELSE answer
  BY RequestIsPair DEF Respond, client, acceptor, history, applied
<1>2. /\ serving' \in [Conns -> {"none", "session", "read", "set", "respond", "done"}]
      /\ serving'[k] = "done"
      /\ \A j \in Conns : j # k => serving'[j] = serving[j]
  BY <1>0, <1>1 DEF TypeOK
<1>3. /\ answer[k] = "none" /\ k \notin heard
  BY <1>0, <1>1 DEF Served, Answers
<1>4. /\ answer' \in [Requests -> Results \cup {"none"}]
      /\ answer'[k] \in {"none", result[k]}
      /\ \A j \in Requests : j # k => answer'[j] = answer[j]
  <2>1. result[k] \in Results \cup {"none"} /\ answer \in [Requests -> Results \cup {"none"}]
    BY <1>0 DEF TypeOK
  <2> QED BY <1>1, <1>3, <2>1
<1>5. TypeOK'
  BY <1>0, <1>1, <1>2, <1>4 DEF TypeOK
<1>6. Fresh' /\ Asking'
  BY <1>1, ClientKept
<1>7. AcceptedOnce'
  BY <1>0, <1>1, <1>2, PendingKept DEF Pending, PendingThen
<1>8. Served'
  <2>1. \A j \in Conns : serving'[j] # "none" => stage[j] = "query"
    BY <1>0, <1>1, <1>2 DEF Served
  <2>2. ASSUME NEW j \in Requests
        PROVE  /\ serving'[j] \in {"none", "read", "set"} => result[j] = "none"
               /\ answer'[j] # "none" => answer'[j] = result[j] /\ serving'[j] = "done"
    <3>1. CASE j = k
      BY <1>2, <1>4, <3>1
    <3>2. CASE j # k
      BY <1>0, <1>2, <1>4, <3>2, RequestIsPair DEF Served
    <3> QED BY <3>1, <3>2
  <2> QED BY <1>0, <1>1, <2>1, <2>2 DEF Served
<1>9. Answers'
  BY <1>0, <1>1, <1>3, <1>4 DEF Answers
<1>10. ServedIsOpen'
  BY <1>0, <1>1, <1>2 DEF ServedIsOpen
<1>11. Faultless'
  BY <1>0, <1>1, FaultlessKept
<1> QED BY <1>5, <1>6, <1>7, <1>8, <1>9, <1>10, <1>11 DEF Inv

LEMMA EndSessionStep ==
  ASSUME Inv, NEW v \in Visitors, EndSession(v)
  PROVE  Inv'
<1>0. TypeOK /\ AcceptedOnce /\ Served /\ Answers /\ ServedIsOpen /\ Faultless
  BY DEF Inv
<1>1. /\ UNCHANGED <<count, waiting, pc, left, to, stage, header, up, gone, eof, answer, result,
                     queue, at, step, open, trustline, faults, times, applied, told, heard>>
      /\ serving[v] = "session" /\ serving' = [serving EXCEPT ![v] = "done"]
  BY DEF EndSession, client, wire, acceptor, history, applied
<1>2. v \in Conns /\ v \notin Requests
  BY RequestIsPair DEF Conns
<1>3. /\ serving' \in [Conns -> {"none", "session", "read", "set", "respond", "done"}]
      /\ serving'[v] = "done"
      /\ \A j \in Conns : j # v => serving'[j] = serving[j]
      /\ \A j \in Requests : serving'[j] = serving[j]
  BY <1>0, <1>1, <1>2, RequestIsPair DEF TypeOK
<1>4. TypeOK'
  BY <1>0, <1>1, <1>3 DEF TypeOK
<1>5. Fresh' /\ Asking'
  BY <1>1, ClientKept
<1>6. AcceptedOnce'
  BY <1>0, <1>1, <1>2, <1>3, PendingKept DEF Pending, PendingThen
<1>7. Served'
  BY <1>0, <1>1, <1>2, <1>3 DEF Served
<1>8. Answers'
  BY <1>0, <1>1 DEF Answers
<1>9. ServedIsOpen'
  BY <1>0, <1>1, <1>3 DEF ServedIsOpen
<1>10. Faultless'
  BY <1>0, <1>1, FaultlessKept
<1> QED BY <1>4, <1>5, <1>6, <1>7, <1>8, <1>9, <1>10 DEF Inv

-----------------------------------------------------------------------------
(* Faults.                                                                 *)

\* No server ends while nothing has failed: see SigpipeStep and CrashStep.
LEMMA DieStep ==
  ASSUME Inv, NEW s \in Servers, Die(s), faults' \in 0..MaxFaults, faults' # 0
  PROVE  Inv'
<1> DEFINE Mine == {c \in Clients : HomeServer[c] = s}
           Here == {k \in Conns : to[k] = s /\ stage[k] # "none"}
<1>0. TypeOK /\ Fresh /\ Asking /\ AcceptedOnce /\ Served /\ Answers /\ ServedIsOpen
  BY DEF Inv
<1>1. /\ pc' = [c \in Clients |-> IF c \in Mine THEN "idle" ELSE pc[c]]
      /\ waiting' = waiting \ Mine
      /\ left' = [c \in Clients |-> IF c \in Mine THEN "junk" ELSE left[c]]
      /\ told' = [k \in Requests |->
                    IF k[1] \in Mine \cap waiting /\ k = Current(k[1]) /\ told[k] = "none"
                    THEN "closed" ELSE told[k]]
      /\ gone' = gone \cup {k \in Requests : k[1] \in Mine /\ stage[k] # "none"}
      /\ eof' = eof \cup Here
      /\ queue' = [queue EXCEPT ![s] = <<>>]
      /\ at' = [at EXCEPT ![s] = None]
      /\ step' = [step EXCEPT ![s] = "idle"]
      /\ serving' = [k \in Conns |-> IF k \in Here /\ serving[k] # "none" THEN "done" ELSE serving[k]]
      /\ open' = open \ Here
      /\ UNCHANGED <<count, to, stage, header, up, answer, result, trustline, times, applied, heard>>
  BY DEF Die, applied
<1>2. ASSUME NEW k \in Conns
      PROVE  /\ serving'[k] = serving[k] \/ (serving[k] # "none" /\ serving'[k] = "done")
             /\ k \in Here => serving'[k] \in {"none", "done"}
             /\ serving'[k] \in {"none", "session", "read", "set", "respond", "done"}
  <2>1. serving[k] \in {"none", "session", "read", "set", "respond", "done"}
    BY <1>0 DEF TypeOK
  <2>2. serving'[k] = IF k \in Here /\ serving[k] # "none" THEN "done" ELSE serving[k]
    BY <1>1
  <2>3. CASE k \in Here /\ serving[k] # "none"
    BY <2>2, <2>3
  <2>4. CASE k \notin Here
    BY <2>1, <2>2, <2>4
  <2>5. CASE serving[k] = "none"
    BY <2>2, <2>5
  <2> QED BY <2>3, <2>4, <2>5
<1>3. ASSUME NEW k \in Requests
      PROVE  \/ told'[k] = told[k]
             \/ told[k] = "none" /\ told'[k] = "closed" /\ k[1] \in Mine /\ k = Current(k[1])
  BY <1>1
<1>4. ASSUME NEW r \in Servers
      PROVE  IF r = s THEN queue'[r] = <<>> /\ at'[r] = None
                      ELSE queue'[r] = queue[r] /\ at'[r] = at[r]
  BY <1>0, <1>1 DEF TypeOK
<1> HIDE DEF Mine
<1>5. TypeOK'
  <2>1. /\ pc' \in [Clients -> {"idle", "connect", "handshake", "response"}]
        /\ left' \in [Clients -> Results \cup {"empty", "junk"}]
    BY <1>0, <1>1 DEF TypeOK
  <2>2. told' \in [Requests -> Replies]
    BY <1>0, <1>1 DEF TypeOK, Replies
  <2>3. /\ at' \in [Servers -> Conns \cup {None}]
        /\ step' \in [Servers -> {"idle", "recv", "accept"}]
    BY <1>0, <1>1 DEF TypeOK
  <2>4. queue' \in [Servers -> Seq(Conns)]
    <3>1. <<>> \in Seq(Conns) /\ queue \in [Servers -> Seq(Conns)]
      BY <1>0 DEF TypeOK
    <3> QED BY <1>1, <3>1
  <2>5. serving' \in [Conns -> {"none", "session", "read", "set", "respond", "done"}]
    <3> HIDE DEF Here
    <3> QED BY <1>1, <1>2
  <2>6. /\ waiting' \subseteq Clients /\ eof' \subseteq Conns /\ open' \subseteq Conns
    BY <1>0, <1>1 DEF TypeOK
  <2>7. gone' \subseteq Conns
    BY <1>0, <1>1 DEF TypeOK, Conns
  <2> QED BY <1>0, <1>1, <2>1, <2>2, <2>3, <2>4, <2>5, <2>6, <2>7 DEF TypeOK
<1>6. Fresh'
  <2>1. ASSUME NEW k \in Requests, k[2] > count[k[1]]
        PROVE  stage[k] = "none" /\ told'[k] = "none"
    <3>1. k # Current(k[1])
      <4>1. k[1] \in Clients /\ k[2] \in Nat /\ count[k[1]] \in Nat
        BY <1>0, RequestIsPair, CountIsNat
      <4>2. k[2] # count[k[1]]
        BY <2>1, <4>1
      <4> QED BY <4>2 DEF Current
    <3> QED BY <1>0, <1>3, <2>1, <3>1 DEF Fresh
  <2> QED BY <1>1, <2>1 DEF Fresh
<1>7. Asking'
  <2>1. ASSUME NEW c \in Clients, pc'[c] # "idle"
        PROVE  /\ Current(c)' = Current(c) /\ count[c] > 0 /\ told'[Current(c)] = "none"
               /\ stage[Current(c)] = StageAt[pc'[c]]
    <3>1. c \notin Mine /\ pc'[c] = pc[c]
      BY <1>1, <2>1
    <3>2. count[c] > 0 /\ told[Current(c)] = "none" /\ stage[Current(c)] = StageAt[pc[c]]
      BY <1>0, <2>1, <3>1 DEF Asking
    <3>3. Current(c) \in Requests /\ Current(c)[1] = c
      BY <1>0, <3>2, CurrentIsRequest
    <3> QED BY <1>1, <1>3, <3>1, <3>2, <3>3 DEF Current
  <2> QED BY <1>1, <2>1 DEF Asking
<1>8. AcceptedOnce'
  <2>1. ASSUME NEW r \in Servers, r # s
        PROVE  /\ \A i \in 1..Len(queue[r]) : PendingThen(queue[r][i], r) /\ queue[r][i] # at[r]
               /\ \A i, j \in 1..Len(queue[r]) : queue[r][i] = queue[r][j] => i = j
               /\ at[r] # None => PendingThen(at[r], r)
    <3>1. \A k \in Conns : Pending(k, r) => PendingThen(k, r)
      BY <1>1, <1>2, <2>1 DEF Pending, PendingThen
    <3> QED BY <1>0, <3>1, QueuedAreConns DEF AcceptedOnce
  <2>2. ASSUME NEW r \in Servers
        PROVE  /\ \A i \in 1..Len(queue'[r]) : PendingThen(queue'[r][i], r) /\ queue'[r][i] # at'[r]
               /\ \A i, j \in 1..Len(queue'[r]) : queue'[r][i] = queue'[r][j] => i = j
               /\ at'[r] # None => PendingThen(at'[r], r)
    <3>1. CASE r = s
      BY <1>4, <3>1
    <3>2. CASE r # s
      BY <1>4, <2>1, <3>2
    <3> QED BY <3>1, <3>2
  <2> QED BY <2>2 DEF AcceptedOnce, Pending, PendingThen
<1>9. Served'
  <2>1. \A k \in Conns : serving'[k] # "none" => stage[k] = "query"
    BY <1>0, <1>2 DEF Served
  <2>2. ASSUME NEW k \in Requests
        PROVE  /\ serving'[k] \in {"none", "read", "set"} => result[k] = "none"
               /\ answer[k] # "none" => serving'[k] = "done"
    BY <1>0, <1>2, RequestIsPair DEF Served
  <2> QED BY <1>0, <1>1, <2>1, <2>2 DEF Served
<1>10. Answers'
  <2>1. \A k \in Requests : k \in heard => told[k] # "none"
    BY <1>0 DEF Answers
  <2> QED BY <1>0, <1>1, <1>3, <2>1 DEF Answers
<1>11. ServedIsOpen'
  <2>1. ASSUME NEW r \in Servers, at'[r] # None
        PROVE  at'[r] \in open'
    <3>1. r # s /\ at'[r] = at[r] /\ at[r] # None
      BY <1>4, <2>1
    <3>2. at[r] \in open /\ to[at[r]] = r
      BY <1>0, <3>1 DEF ServedIsOpen, AcceptedOnce, Pending
    <3> QED BY <1>1, <3>1, <3>2
  <2>2. ASSUME NEW k \in Conns, serving'[k] \in {"session", "read", "set", "respond"}
        PROVE  k \in open'
    <3> HIDE DEF Here
    <3> QED BY <1>0, <1>1, <1>2, <2>2 DEF ServedIsOpen
  <2> QED BY <2>1, <2>2 DEF ServedIsOpen
<1>12. Faultless'
  BY DEF Faultless
<1> QED BY <1>5, <1>6, <1>7, <1>8, <1>9, <1>10, <1>11, <1>12 DEF Inv

LEMMA SigpipeStep ==
  ASSUME Inv, NEW s \in Servers, Sigpipe(s)
  PROVE  Inv'
<1>0. TypeOK /\ Faultless
  BY DEF Inv
<1>1. faults # 0
  <2>1. ASSUME NEW c \in Clients, pc[c] = "response", Broken(Current(c))
        PROVE  faults # 0
    BY <1>0, <2>1, Busy DEF Faultless, Broken
  <2>2. ASSUME NEW k \in Conns, ~up[k]
        PROVE  faults # 0
    BY <1>0, <2>2 DEF Faultless
  <2> QED BY <2>1, <2>2 DEF Sigpipe
<1>2. Die(s) /\ faults' = faults /\ faults \in 0..MaxFaults
  BY <1>0 DEF Sigpipe, NoFault, TypeOK
<1> QED BY <1>1, <1>2, DieStep

LEMMA CrashStep ==
  ASSUME Inv, NEW s \in Servers, Crash(s)
  PROVE  Inv'
<1>1. TypeOK /\ Fault /\ Die(s)
  BY DEF Inv, Crash
<1> QED BY <1>1, FaultCounted, DieStep

LEMMA ResetStep ==
  ASSUME Inv, NEW k \in Conns, Reset(k)
  PROVE  Inv'
<1>0. TypeOK /\ AcceptedOnce /\ Served /\ Answers /\ ServedIsOpen
  BY DEF Inv
<1>1. /\ UNCHANGED <<count, waiting, pc, left, to, stage, header, gone, eof, queue, at, step,
                     serving, result, open, trustline, times, applied, told, heard>>
      /\ up' = [up EXCEPT ![k] = FALSE]
      /\ faults' \in 0..MaxFaults /\ faults' # 0
  BY <1>0, FaultCounted DEF Reset, client, acceptor, threads, history, applied
<1>2. /\ answer' \in [Requests -> Results \cup {"none"}]
      /\ \A j \in Requests : answer'[j] = answer[j] \/ (answer'[j] = "none" /\ j \notin heard)
  <2>1. answer \in [Requests -> Results \cup {"none"}]
    BY <1>0 DEF TypeOK
  <2>2. CASE UNCHANGED answer
    BY <2>1, <2>2
  <2>3. CASE k \in Requests /\ k \notin heard /\ answer' = [answer EXCEPT ![k] = "none"]
    BY <2>1, <2>3
  <2> QED BY <2>2, <2>3 DEF Reset
<1>3. TypeOK'
  BY <1>0, <1>1, <1>2 DEF TypeOK
<1>4. Fresh' /\ Asking'
  BY <1>1, ClientKept
<1>5. AcceptedOnce'
  BY <1>0, <1>1, PendingKept DEF Pending, PendingThen
<1>6. Served'
  BY <1>0, <1>1, <1>2 DEF Served
<1>7. Answers'
  BY <1>0, <1>1, <1>2 DEF Answers
<1>8. ServedIsOpen' /\ Faultless'
  BY <1>0, <1>1 DEF ServedIsOpen, Faultless
<1> QED BY <1>3, <1>4, <1>5, <1>6, <1>7, <1>8 DEF Inv

-----------------------------------------------------------------------------
(* The invariant.                                                          *)

LEMMA InitInv ==
  ASSUME Init
  PROVE  Inv
<1>1. TypeOK
  <2>1. (CHOOSE s \in Servers : TRUE) \in Servers
    BY RequestsAssumption
  <2>2. count \in [Clients -> 0..MaxRequests] /\ faults \in 0..MaxFaults
    BY RequestsAssumption DEF Init
  <2>3. to \in [Conns -> Servers]
    BY <2>1 DEF Init
  <2> QED BY <2>2, <2>3 DEF Init, TypeOK, Replies
<1>2. Fresh
  BY RequestIsPair DEF Init, Fresh
<1>3. Asking
  BY DEF Init, Asking
<1>4. AcceptedOnce
  BY DEF Init, AcceptedOnce
<1>5. Served
  BY RequestIsPair DEF Init, Served, Success, applied
<1>6. Answers /\ ServedIsOpen
  BY DEF Init, Answers, ServedIsOpen
<1>7. Faultless
  <2>1. ASSUME NEW k \in Requests
        PROVE  ~(k[2] < count[k[1]]) /\ k \notin eof /\ told[k] = "none" /\ k \notin applied
    <3>1. k[1] \in Clients /\ k[2] \in Nat /\ k[2] > 0
      BY RequestIsPair
    <3>2. count[k[1]] = 0
      BY <3>1 DEF Init
    <3> QED BY <3>1, <3>2 DEF Init, applied
  <2>2. \A c \in Clients : ~(count[c] > 0)
    BY DEF Init
  <2>3. \A k \in Conns : up[k]
    BY DEF Init
  <2> QED BY <2>1, <2>2, <2>3 DEF Faultless
<1> QED BY <1>1, <1>2, <1>3, <1>4, <1>5, <1>6, <1>7 DEF Inv

LEMMA NextInv ==
  ASSUME Inv, [Next]_vars
  PROVE  Inv'
<1>1. ASSUME NEW c \in Clients, ThreadStep(c)
      PROVE  Inv'
  BY <1>1, ConnectStep, HandshakeStep, ReceiveStep DEF ThreadStep
<1>2. ASSUME NEW s \in Servers, AcceptStep(s)
      PROVE  Inv'
  BY <1>2, AcceptIsStep, RecvHeaderStep, FinishAcceptStep DEF AcceptStep
<1>3. ASSUME NEW k \in Requests, ServeStep(k)
      PROVE  Inv'
  BY <1>3, ReadStep, SetTrustlineStep, RespondStep DEF ServeStep
<1>4. ASSUME NEW v \in Visitors, VisitorStep(v)
      PROVE  Inv'
  BY <1>4, SpeakStep, LeaveStep DEF VisitorStep
<1>5. CASE UNCHANGED vars
  <2>1. UNCHANGED <<count, waiting, pc, left, to, stage, header, up, gone, eof, answer, queue, at,
                    step, serving, result, open, trustline, faults, times, applied, told, heard>>
    BY <1>5 DEF vars, client, wire, acceptor, threads, history, applied
  <2>2. TypeOK /\ AcceptedOnce /\ Served /\ Answers /\ ServedIsOpen /\ Faultless
    BY DEF Inv
  <2>3. Fresh' /\ Asking'
    BY <2>1, ClientKept
  <2>4. TypeOK'
    BY <2>1, <2>2 DEF TypeOK
  <2>5. AcceptedOnce'
    BY <2>1, <2>2, PendingKept DEF Pending, PendingThen
  <2>6. Served' /\ Answers' /\ ServedIsOpen'
    BY <2>1, <2>2 DEF Served, Answers, ServedIsOpen
  <2>7. Faultless'
    BY <2>1, <2>2, FaultlessKept
  <2> QED BY <2>3, <2>4, <2>5, <2>6, <2>7 DEF Inv
<1> QED BY <1>1, <1>2, <1>3, <1>4, <1>5, AskStep, SigpipeStep, CrashStep, ArriveStep,
           EndSessionStep, ResetStep DEF Next

\* Every reachable state satisfies the invariant of RequestsInv, in which the
\* threads of client_handler, of the accept loop and of
\* server_connection_handler agree on how far each request is.
THEOREM Invariance == Spec => []Inv
BY InitInv, NextInv, PTL DEF Spec

\* A client that is told TRUSTLINE_SET_SUCCESSFULLY of its last request finds
\* that request, not an earlier one, in force at the remote server, as long
\* as nothing fails.
THEOREM AckedRequestsAreLatest == Spec => []AckedIsLatest
<1>1. ASSUME Inv PROVE AckedIsLatest
  <2>0. TypeOK /\ Served /\ Answers /\ Faultless
    BY <1>1 DEF Inv
  <2>1. ASSUME NEW c \in Clients, faults = 0, c \notin waiting, count[c] > 0,
               told[Current(c)] = Success
        PROVE  trustline[to[Current(c)]][c] = Current(c)
    <3>1. Current(c) \in Requests /\ Current(c)[1] = c
      BY <2>0, <2>1, CurrentIsRequest
    <3>2. Current(c) \in heard
      BY <2>0, <2>1 DEF Faultless
    <3>3. answer[Current(c)] = Success /\ answer[Current(c)] # "none"
      BY <2>0, <2>1, <3>1, <3>2 DEF Answers
    <3>4. Current(c) \in applied
      BY <2>0, <3>1, <3>3 DEF Served
    <3> QED BY <2>0, <2>1, <3>1, <3>4 DEF Faultless
  <2> QED BY <2>1 DEF AckedIsLatest
<1> QED BY <1>1, Invariance, PTL

\* Neither main nor a connection's thread closes a socket that the accept
\* thread or a connection's thread still uses, whatever fails.
THEOREM ServedConnectionsAreOpen == Spec => []ServedIsOpen
<1>1. Inv => ServedIsOpen
  BY DEF Inv
<1> QED BY <1>1, Invariance, PTL

-----------------------------------------------------------------------------
(* What a client is told when something failed.                            *)

\* A request is carried out when its result is a success, and results stay.
LEMMA CarriedOutIs ==
  ASSUME Served, NEW c, NEW n
  PROVE  CarriedOut(c, n) <=> ResultUpTo(c, n, Success)
BY DEF CarriedOut, ResultUpTo, Served, applied

LEMMA CarriedOutKept ==
  ASSUME applied \subseteq applied', NEW c, NEW n, CarriedOut(c, n)
  PROVE  CarriedOut(c, n)'
BY DEF CarriedOut

ResultsStay == \A j \in Requests : result[j] # "none" => result'[j] = result[j]

LEMMA ResultKept ==
  ASSUME NEW c, NEW n \in Nat, NEW m \in Nat, n <= m, NEW r, r # "none", ResultsStay,
         ResultUpTo(c, n, r)
  PROVE  ResultUpTo(c, m, r)'
<1>1. PICK j \in Requests : result[j] = r /\ j[1] = c /\ j[2] <= n
  BY DEF ResultUpTo
<1>2. j[2] \in Nat
  BY RequestIsPair
<1>3. j[2] <= m /\ result'[j] = r
  BY <1>1, <1>2 DEF ResultsStay
<1> QED BY <1>1, <1>3 DEF ResultUpTo

\* What is not made up, and what is remembered, of the requests.
ToldInv == Remembered /\ SuccessIsNotMadeUp /\ Understood

\* Steps that neither read a response nor tell a client of a success.
LEMMA NothingNewTold ==
  ASSUME Inv, ToldInv, applied \subseteq applied', ResultsStay,
         \A c \in Clients : count'[c] \in Nat /\ count[c] <= count'[c],
         \A c \in Clients : left'[c] \in {Success, Refused} => left'[c] = left[c],
         \A k \in Requests : told'[k] = Success => told[k] = Success
  PROVE  Remembered' /\ SuccessIsNotMadeUp'
<1>0. TypeOK
  BY DEF Inv
<1>1. ASSUME NEW c \in Clients, left'[c] \in {Success, Refused}
      PROVE  ResultUpTo(c, count[c], left[c])'
  <2>1. ResultUpTo(c, count[c], left[c]) /\ count[c] \in Nat /\ left'[c] = left[c]
    BY <1>0, <1>1, CountIsNat DEF ToldInv, Remembered
  <2>2. PICK m \in Nat : m = count'[c] /\ count[c] <= m
    OBVIOUS
  <2>3. PICK r : r = left[c] /\ r # "none"
    BY <1>1, <2>1 DEF Success, Refused
  <2>4. ResultUpTo(c, m, r)'
    BY <2>1, <2>2, <2>3, ResultKept
  <2> QED BY <2>1, <2>2, <2>3, <2>4 DEF ResultUpTo
<1>2. ASSUME NEW k \in Requests, told'[k] = Success
      PROVE  CarriedOut(k[1], k[2])'
  BY <1>2, CarriedOutKept DEF ToldInv, SuccessIsNotMadeUp
<1> QED BY <1>1, <1>2 DEF Remembered, SuccessIsNotMadeUp

\* What server_as_client reads, or fails to read, is of a request of c.
LEMMA ReceiveIsNotMadeUp ==
  ASSUME Inv, ToldInv, NEW c \in Clients, Receive(c)
  PROVE  Remembered' /\ SuccessIsNotMadeUp'
<1> DEFINE k == Current(c)
<1>0. TypeOK /\ Served
  BY DEF Inv
<1>1. /\ k \in Requests /\ k[1] = c /\ k[2] = count[c] /\ count[c] \in Nat
      /\ UNCHANGED <<count, applied, result>>
  <2>1. pc[c] # "idle" /\ UNCHANGED <<count, applied, result>>
    BY DEF Receive, applied, threads
  <2> QED BY <2>1, Busy
<1>2. ASSUME answer[k] # "none"
      PROVE  ResultUpTo(c, count[c], answer[k])
  <2>1. result[k] = answer[k]
    BY <1>0, <1>1, <1>2 DEF Served
  <2> QED BY <1>1, <2>1 DEF ResultUpTo
<1>3. PICK r : /\ Reply(c, r)
               /\ r \in {Success, Refused} => ResultUpTo(c, count[c], r)
               /\ left' = left \/ left' = [left EXCEPT ![c] = r]
  <2>1. left[c] \in {Success, Refused} => ResultUpTo(c, count[c], left[c])
    BY DEF ToldInv, Remembered
  <2>2. {"junk", "empty"} \cap {Success, Refused} = {}
    BY DEF Success, Refused
  <2> QED BY <1>2, <2>1, <2>2 DEF Receive
<1>4. ASSUME NEW d \in Clients, left'[d] \in {Success, Refused}
      PROVE  ResultUpTo(d, count[d], left'[d])
  BY <1>0, <1>3, <1>4 DEF ToldInv, Remembered, TypeOK
<1>5. ASSUME NEW j \in Requests, told'[j] = Success
      PROVE  CarriedOut(j[1], j[2])
  <2>1. r = Success => CarriedOut(k[1], k[2])
    BY <1>0, <1>1, <1>3, CarriedOutIs
  <2> QED BY <1>0, <1>1, <1>3, <1>5, <2>1 DEF ToldInv, SuccessIsNotMadeUp, Reply, TypeOK
<1>6. Remembered'
  BY <1>1, <1>4 DEF Remembered, ResultUpTo
<1> QED BY <1>1, <1>5, <1>6 DEF SuccessIsNotMadeUp, CarriedOut

\* Only the thread of its connection decides on a request, once; without
\* faults it reads what was sent.
LEMMA ResultsAre ==
  ASSUME Inv, [Next]_vars
  PROVE  /\ ResultsStay
         /\ Understood => Understood'
<1>0. TypeOK /\ Served /\ Faultless
  BY DEF Inv
<1>1. faults' \in Nat /\ faults <= faults' /\ faults \in Nat
  <2>1. faults \in Nat
    BY <1>0, RequestsAssumption DEF TypeOK
  <2>2. faults' = faults \/ faults' = faults + 1
    BY DEF Next, vars, ThreadStep, AcceptStep, ServeStep, VisitorStep, Ask, Connect, Handshake,
           Receive, Accept, RecvHeader, FinishAccept, Read, SetTrustline, Respond, Arrive, Speak,
           Leave, EndSession, Reset, Crash, Sigpipe, Fault, NoFault
  <2> QED BY <2>1, <2>2
<1>2. CASE UNCHANGED result
  BY <1>1, <1>2 DEF ResultsStay, Understood
<1>3. ASSUME NEW k \in Requests, Read(k)
      PROVE  ResultsStay /\ (Understood => Understood')
  <2>1. result[k] = "none" /\ k \in Conns
    BY <1>0, <1>3, RequestIsPair DEF Read, Served
  <2>2. \/ UNCHANGED result
        \/ ~up[k] /\ faults' = faults /\ result' = [result EXCEPT ![k] = "INVALID_COMMAND"]
    BY <1>3 DEF Read
  <2>3. ~up[k] => faults # 0
    BY <1>0, <2>1 DEF Faultless
  <2> QED BY <1>0, <1>2, <2>1, <2>2, <2>3 DEF ResultsStay, Understood, TypeOK
<1>4. ASSUME NEW k \in Requests, SetTrustline(k)
      PROVE  ResultsStay /\ (Understood => Understood')
  <2>1. result[k] = "none"
    BY <1>0, <1>4, RequestIsPair DEF SetTrustline, Served
  <2>2. \E r \in {Success, Refused} : result' = [result EXCEPT ![k] = r]
    BY <1>4 DEF SetTrustline
  <2>3. "INVALID_COMMAND" \notin {Success, Refused} /\ UNCHANGED faults
    BY <1>4 DEF Success, Refused, SetTrustline
  <2> QED BY <1>0, <2>1, <2>2, <2>3 DEF ResultsStay, Understood, TypeOK
<1>5. UNCHANGED result \/ \E k \in Requests : Read(k) \/ SetTrustline(k)
  BY DEF Next, vars, ThreadStep, AcceptStep, ServeStep, VisitorStep, Ask, Connect, Handshake,
         Receive, Accept, RecvHeader, FinishAccept, Respond, Arrive, Speak,
         Leave, EndSession, Reset, Crash, Sigpipe, Die, threads
<1> QED BY <1>2, <1>3, <1>4, <1>5

LEMMA ToldInvariance == Spec => []ToldInv
<1>1. Init => ToldInv
  BY DEF Init, ToldInv, Remembered, SuccessIsNotMadeUp, Understood, Success, Refused
<1>2. ASSUME Inv, ToldInv, [Next]_vars
      PROVE  ToldInv'
  <2>0. /\ TypeOK /\ ResultsStay /\ Understood'
        /\ \A c \in Clients : count[c] \in Nat /\ count[c] <= count[c]
    BY <1>2, CountIsNat, ResultsAre DEF Inv, ToldInv
  <2>1. ASSUME NEW c \in Clients, NEW s \in Servers, Ask(c, s)
        PROVE  Remembered' /\ SuccessIsNotMadeUp'
    <3>1. UNCHANGED <<left, applied, told>>
      BY <2>1 DEF Ask, history, applied
    <3>2. ASSUME NEW d \in Clients
          PROVE  count'[d] \in Nat /\ count[d] <= count'[d]
      <4>1. count'[d] = count[d] \/ count'[d] = count[d] + 1
        BY <2>0, <2>1 DEF Ask, TypeOK
      <4> QED BY <2>0, <4>1
    <3> QED BY <1>2, <2>0, <3>1, <3>2, NothingNewTold
  <2>2. ASSUME NEW c \in Clients, Connect(c) \/ Handshake(c)
        PROVE  Remembered' /\ SuccessIsNotMadeUp'
    <3>1. UNCHANGED <<count, left, applied>>
      BY <2>2 DEF Connect, Handshake, applied
    <3>2. \A k \in Requests : told'[k] = Success => told[k] = Success
      BY <2>0, <2>2 DEF Connect, Handshake, Reply, TypeOK, Success
    <3> QED BY <1>2, <2>0, <3>1, <3>2, NothingNewTold
  <2>3. ASSUME NEW s \in Servers, Die(s)
        PROVE  Remembered' /\ SuccessIsNotMadeUp'
    <3>1. UNCHANGED <<count, applied>>
      BY <2>3 DEF Die, applied
    <3>2. /\ \A c \in Clients : left'[c] \in {Success, Refused} => left'[c] = left[c]
          /\ \A k \in Requests : told'[k] = Success => told[k] = Success
      BY <2>3 DEF Die, Success, Refused
    <3> QED BY <1>2, <2>0, <3>1, <3>2, NothingNewTold
  <2>4. ASSUME UNCHANGED <<count, left, told>>, applied \subseteq applied'
        PROVE  Remembered' /\ SuccessIsNotMadeUp'
    BY <1>2, <2>0, <2>4, NothingNewTold
  <2>5. ASSUME NEW s \in Servers, AcceptStep(s)
        PROVE  UNCHANGED <<count, left, told, applied>>
    BY <2>5 DEF AcceptStep, Accept, RecvHeader, FinishAccept, client, history, applied
  <2>6. ASSUME NEW k \in Requests, ServeStep(k)
        PROVE  UNCHANGED <<count, left, told>> /\ applied \subseteq applied'
    <3>1. UNCHANGED <<count, left, told>>
      BY <2>6 DEF ServeStep, Read, SetTrustline, Respond, client, history
    <3>2. UNCHANGED times \/ times' = [times EXCEPT ![k] = @ + 1]
      BY <2>6 DEF ServeStep, Read, SetTrustline, Respond, history
    <3> QED BY <2>0, <3>1, <3>2, CountedOnce
  <2>7. ASSUME NEW v \in Visitors,
               (\E s \in Servers : Arrive(v, s)) \/ VisitorStep(v) \/ EndSession(v)
        PROVE  UNCHANGED <<count, left, told, applied>>
    BY <2>7 DEF Arrive, VisitorStep, Speak, Leave, EndSession, client, history, applied
  <2>8. ASSUME NEW k \in Conns, Reset(k)
        PROVE  UNCHANGED <<count, left, told, applied>>
    BY <2>8 DEF Reset, client, history, applied
  <2>9. ASSUME UNCHANGED vars
        PROVE  Remembered' /\ SuccessIsNotMadeUp'
    BY <2>4, <2>9 DEF vars, client, history, applied
  <2>10. Remembered' /\ SuccessIsNotMadeUp'
    BY <1>2, <2>1, <2>2, <2>3, <2>4, <2>5, <2>6, <2>7, <2>8, <2>9, ReceiveIsNotMadeUp
       DEF Next, ThreadStep, Sigpipe, Crash
  <2> QED BY <2>0, <2>10 DEF ToldInv
<1> QED BY <1>1, <1>2, Invariance, PTL DEF Spec

\* Whatever fails, who is told that a trustline is set has had one set: the
\* stale buffer of a failed SSL_read never reports a success of nothing, or
\* of another client's request.
THEOREM SuccessesAreNotMadeUp == Spec => []SuccessIsNotMadeUp
BY ToldInvariance, PTL DEF ToldInv

\* What the comments of server_as_client's handlers say is right as long as
\* nothing fails: who is told of a success was told by the remote server.
THEOREM SuccessMeansSetUnlessFaults == Spec => [](faults = 0 => SuccessMeansSet)
<1>1. ASSUME Inv, faults = 0, NEW k \in Requests, told[k] = Success
      PROVE  k \in applied
  <2>1. told[k] # "none"
    BY <1>1 DEF Success
  <2>2. k \in heard
    BY <1>1, <2>1 DEF Inv, Faultless
  <2>3. answer[k] = Success /\ answer[k] # "none"
    BY <1>1, <2>2 DEF Inv, Answers
  <2> QED BY <1>1, <2>3 DEF Inv, Served
<1>2. Inv => (faults = 0 => SuccessMeansSet)
  BY <1>1 DEF SuccessMeansSet
<1> QED BY <1>2, Invariance, PTL

-----------------------------------------------------------------------------
(* The refinement of RequestService.                                       *)

Asked    == {k \in Requests : k[2] <= count[k[1]]}
Declined == {k \in Requests : result[k] = Refused}
Out      == [k \in Requests |-> Outcome(k)]
Failed   == faults > 0
seen     == <<Asked, times, Declined, Out, Failed>>

LEMMA OutcomeValues ==
  ASSUME NEW k \in Requests
  PROVE  /\ told[k] = "none" <=> Outcome(k) = "none"
         /\ Outcome(k) = "unreached" <=> told[k] = "CONNECTION_FAILED"
         /\ Outcome(k) = "set" <=> told[k] = Success
         /\ Outcome(k) = "refused" <=> told[k] = Refused
         /\ told[k] = "closed" => Outcome(k) = "unknown"
         /\ Outcome(k) \in Service!Outcomes \cup {"none"}
BY DEF Outcome, Service!Outcomes, Success, Refused

LEMMA OutcomeValuesThen ==
  ASSUME NEW k \in Requests
  PROVE  /\ told'[k] = "none" <=> Outcome(k)' = "none"
         /\ Outcome(k)' = "unreached" <=> told'[k] = "CONNECTION_FAILED"
         /\ Outcome(k)' = "set" <=> told'[k] = Success
         /\ Outcome(k)' = "refused" <=> told'[k] = Refused
         /\ told'[k] = "closed" => Outcome(k)' = "unknown"
         /\ Outcome(k)' \in Service!Outcomes \cup {"none"}
BY DEF Outcome, Service!Outcomes, Success, Refused

LEMMA Stutters ==
  ASSUME UNCHANGED <<count, times, result, told, faults>>
  PROVE  UNCHANGED seen
BY DEF seen, Asked, Declined, Out, Outcome, Failed

\* Failures are counted, and the count only grows.
LEMMA FailedIs ==
  ASSUME TypeOK
  PROVE  /\ faults \in Nat
         /\ Failed <=> faults # 0
         /\ NoFault => Failed' = Failed
         /\ Fault => Failed' = TRUE
<1>1. faults \in Nat
  BY RequestsAssumption DEF TypeOK
<1>2. faults > 0 <=> faults # 0
  BY <1>1
<1>3. faults + 1 > 0
  BY <1>1
<1> QED BY <1>1, <1>2, <1>3 DEF Failed, NoFault, Fault

\* A request whose query was not sent is undecided.
LEMMA UnsentIsUndecided ==
  ASSUME Inv, NEW c \in Clients, pc[c] \in {"connect", "handshake"}
  PROVE  Service!Undecided(Current(c))
<1> DEFINE k == Current(c)
<1>0. TypeOK /\ Served
  BY DEF Inv
<1>1. /\ k \in Requests /\ told[k] = "none" /\ stage[k] = StageAt[pc[c]]
      /\ k[1] = c /\ k[2] = count[c] /\ count[c] \in Nat
  BY Busy
<1>2. stage[k] # "query"
  BY <1>1 DEF StageAt
<1>3. result[k] = "none"
  BY <1>0, <1>1, <1>2, RequestIsPair DEF Served
<1>4. ~(times[k] > 0) /\ times[k] \in Nat
  BY <1>0, <1>1, <1>3 DEF Served, Success, applied, TypeOK
<1>5. times[k] = 0
  BY <1>4
<1>6. Outcome(k) # "unreached"
  BY <1>1, OutcomeValues
<1>7. k[2] <= count[k[1]]
  BY <1>1
<1> QED BY <1>1, <1>3, <1>5, <1>6, <1>7 DEF Service!Undecided, Refused

\* Of a request that was made, the client is told something.
LEMMA TellsOne ==
  ASSUME Inv, NEW c \in Clients, pc[c] # "idle", NEW r, NEW k \in Requests, k = Current(c),
         UNCHANGED <<count, times, result>>,
         told' = [told EXCEPT ![k] = r], r # "none",
         Service!MayFail,
         r = "CONNECTION_FAILED" => Service!Undecided(k) /\ faults' > 0,
         r \in {Success, Refused} =>
           result[k] = r \/ (faults > 0 /\ ResultUpTo(c, count[c], r)),
         r \notin {"CONNECTION_FAILED", Success, Refused} => faults' > 0
  PROVE  Service!Next
<1>0. TypeOK /\ Served
  BY DEF Inv
<1>1. k[1] = c /\ k[2] = count[c] /\ count[c] \in Nat /\ told[k] = "none"
  BY Busy
<1>2. k[2] <= count[k[1]]
  BY <1>1
<1>3. Outcome(k) = "none"
  BY <1>1, OutcomeValues
<1>4. /\ told'[k] = r
      /\ \A j \in Requests : j # k => told'[j] = told[j]
  BY <1>0 DEF TypeOK
<1>5. PICK o : o = Outcome(k)'
  OBVIOUS
<1>6. /\ o \in Service!Outcomes
      /\ o = "unreached" <=> r = "CONNECTION_FAILED"
      /\ o = "set" <=> r = Success
      /\ o = "refused" <=> r = Refused
  <2>1. "none" \notin Service!Outcomes
    BY DEF Service!Outcomes
  <2> QED BY <1>4, <1>5, <2>1, OutcomeValuesThen
<1>7. \A j \in Requests : result[j] = r /\ r \in {Success, Refused} => Service!Became(j, o)
  BY <1>0, <1>6 DEF Service!Became, Served, applied
<1>8. \/ Service!Became(k, o)
      \/ faults > 0 /\ \E j \in Service!Earlier(k) : Service!Became(j, o)
      \/ o = "unreached" /\ Service!Undecided(k) /\ faults' > 0
      \/ o = "unknown" /\ faults' > 0
  <2>1. CASE r = "CONNECTION_FAILED"
    BY <1>6, <2>1
  <2>2. CASE r \notin {"CONNECTION_FAILED", Success, Refused}
    <3>1. o = "unknown"
      BY <1>6, <2>2 DEF Service!Outcomes
    <3> QED BY <2>2, <3>1
  <2>3. CASE r \in {Success, Refused} /\ result[k] = r
    BY <1>7, <2>3
  <2>4. CASE r \in {Success, Refused} /\ faults > 0 /\ ResultUpTo(c, count[c], r)
    <3>1. PICK j \in Requests : result[j] = r /\ j[1] = c /\ j[2] <= count[c]
      BY <2>4 DEF ResultUpTo
    <3>2. j = <<j[1], j[2]>> /\ j[2] \in Nat /\ k = <<k[1], k[2]>>
      BY RequestIsPair
    <3>3. Service!Became(j, o)
      BY <1>7, <2>4, <3>1
    <3>4. CASE j[2] = count[c]
      <4>1. j = k
        BY <1>1, <3>1, <3>2, <3>4
      <4> QED BY <3>3, <4>1
    <3>5. CASE j[2] # count[c]
      <4>1. j[2] < k[2] /\ j[1] = k[1]
        BY <1>1, <3>1, <3>2, <3>5
      <4>2. j \in Service!Earlier(k)
        BY <4>1 DEF Service!Earlier
      <4> QED BY <2>4, <3>3, <4>2
    <3> QED BY <3>4, <3>5
  <2> QED BY <2>1, <2>2, <2>3, <2>4
<1>9. Out' = [Out EXCEPT ![k] = o]
  <2>1. \A j \in Requests : j # k => Outcome(j)' = Outcome(j)
    BY <1>4 DEF Outcome
  <2> QED BY <1>5, <2>1 DEF Out
<1>10. Service!Tell(k, o)
  BY <1>2, <1>3, <1>8, <1>9 DEF Service!Tell, Out
<1> QED BY <1>6, <1>10 DEF Service!Next

LEMMA AskIsServed ==
  ASSUME Inv, NEW c \in Clients, NEW s \in Servers, Ask(c, s)
  PROVE  Service!Next
<1>0. TypeOK
  BY DEF Inv
<1>1. PICK n \in Requests :
        /\ n = <<c, count[c] + 1>> /\ n[1] = c /\ n[2] = count[c] + 1 /\ count[c] \in Nat
  <2>1. count[c] \in Nat /\ count[c] < MaxRequests /\ MaxRequests \in Nat
    BY <1>0, CountIsNat, RequestsAssumption DEF Ask
  <2>2. count[c] + 1 \in 1..MaxRequests
    BY <2>1
  <2> QED BY <2>1, <2>2, PairIsRequest
<1>2. /\ UNCHANGED <<times, result, told, faults>>
      /\ count'[c] = count[c] + 1 /\ \A d \in Clients : d # c => count'[d] = count[d]
  BY <1>0 DEF Ask, history, threads, TypeOK
<1>3. ASSUME NEW k \in Requests
      PROVE  k[2] <= count'[k[1]] <=> k[2] <= count[k[1]] \/ k = n
  <2>1. k = <<k[1], k[2]>> /\ k[1] \in Clients /\ k[2] \in Nat
    BY RequestIsPair
  <2>2. CASE k[1] = c
    <3>1. k = n <=> k[2] = count[c] + 1
      BY <1>1, <2>1, <2>2
    <3> QED BY <1>1, <1>2, <2>1, <2>2, <3>1
  <2>3. CASE k[1] # c
    BY <1>1, <1>2, <2>1, <2>3
  <2> QED BY <2>2, <2>3
<1>4. n \notin Asked
  BY <1>1 DEF Asked
<1>5. Asked' = Asked \cup {n}
  BY <1>1, <1>3 DEF Asked
<1>6. UNCHANGED <<times, Declined, Out, Failed>>
  BY <1>2 DEF Declined, Out, Outcome, Failed
<1>7. Service!Ask(n)
  BY <1>4, <1>5, <1>6 DEF Service!Ask, Asked, Declined, Out, Failed
<1> QED BY <1>1, <1>7 DEF Service!Next

LEMMA ThreadIsServed ==
  ASSUME Inv, ToldInv, NEW c \in Clients, ThreadStep(c)
  PROVE  [Service!Next]_seen
<1> DEFINE k == Current(c)
<1>0. TypeOK /\ Served /\ Answers /\ Faultless
  BY DEF Inv
<1>1. pc[c] # "idle" /\ UNCHANGED <<count, times, result>>
  BY DEF ThreadStep, Connect, Handshake, Receive, threads
<1>2. k \in Requests /\ k \in Conns
  BY <1>1, Busy, RequestIsPair
<1>3. ASSUME NEW r, Reply(c, r)
      PROVE  told' = [told EXCEPT ![k] = r]
  BY <1>3 DEF Reply
<1>4. ASSUME faults' = faults
      PROVE  Service!MayFail /\ UNCHANGED Failed
  BY <1>4 DEF Service!MayFail, Failed
<1>5. Broken(k) => faults # 0
  BY <1>0, <1>2 DEF Faultless, Broken
<1>6. faults # 0 => faults > 0
  BY <1>0, FailedIs
<1>7. CASE UNCHANGED <<told, faults>>
  BY <1>1, <1>7, Stutters
<1>8. CASE Connect(c) /\ Reply(c, "CONNECTION_FAILED") /\ Fault
  <2>1. Service!Undecided(k)
    BY <1>8, UnsentIsUndecided DEF Connect
  <2>2. faults' > 0
    BY <1>0, <1>8, FailedIs DEF Failed
  <2>3. Service!MayFail
    BY <2>2 DEF Service!MayFail
  <2> QED BY <1>1, <1>2, <1>3, <1>8, <2>1, <2>2, <2>3, TellsOne DEF Success, Refused
<1>9. CASE Handshake(c) /\ Reply(c, "CONNECTION_FAILED") /\ Broken(k) /\ faults' = faults
  <2>1. Service!Undecided(k)
    BY <1>9, UnsentIsUndecided DEF Handshake
  <2> QED BY <1>1, <1>2, <1>3, <1>4, <1>5, <1>6, <1>9, <2>1, TellsOne DEF Success, Refused
<1>10. CASE Receive(c)
  <2>0. faults' = faults
    BY <1>10 DEF Receive
  <2>1. answer[k] # "none" => answer[k] = result[k]
    BY <1>0, <1>2 DEF Served
  <2>2. left[c] \in {Success, Refused} => ResultUpTo(c, count[c], left[c])
    BY DEF ToldInv, Remembered
  <2>3. /\ left[c] \in Results \cup {"junk", "empty"} /\ answer[k] \in Results \cup {"none"}
        /\ \A r \in Results \cup {"junk", "empty"} : r \notin {"none", "CONNECTION_FAILED"}
        /\ Results = {Success, Refused, "INVALID_COMMAND"}
    BY <1>0, <1>2 DEF TypeOK, Results, Success, Refused
  <2>4. result[k] = "INVALID_COMMAND" => faults # 0
    BY <1>2 DEF ToldInv, Understood
  <2>5. PICK r : /\ Reply(c, r) /\ r \notin {"none", "CONNECTION_FAILED"}
                 /\ r \in {Success, Refused} =>
                      result[k] = r \/ (faults > 0 /\ ResultUpTo(c, count[c], r))
                 /\ r \notin {Success, Refused} => faults # 0
    <3>1. CASE answer[k] # "none" /\ Reply(c, answer[k])
      BY <2>1, <2>3, <2>4, <3>1
    <3>2. CASE Reply(c, "empty") /\ Broken(k)
      BY <1>5, <2>3, <3>2 DEF Success, Refused
    <3>3. CASE (\E r \in {"junk", "empty", left[c]} : Reply(c, r)) /\ Broken(k)
      <4>1. {"junk", "empty"} \cap {Success, Refused} = {}
        BY DEF Success, Refused
      <4> QED BY <1>5, <1>6, <2>2, <2>3, <3>3, <4>1
    <3> QED BY <1>10, <3>1, <3>2, <3>3 DEF Receive, Broken
  <2> QED BY <1>1, <1>2, <1>3, <1>4, <1>6, <2>0, <2>5, TellsOne
<1> QED BY <1>7, <1>8, <1>9, <1>10 DEF ThreadStep, Connect, Handshake, Broken, NoFault

LEMMA SetTrustlineIsServed ==
  ASSUME Inv, NEW k \in Requests, SetTrustline(k)
  PROVE  Service!Next
<1>0. TypeOK /\ Fresh /\ Served /\ Answers
  BY DEF Inv
<1>1. serving[k] = "set" /\ UNCHANGED <<count, told, faults>>
  BY DEF SetTrustline, client
<1>2. stage[k] = "query" /\ k \notin applied /\ result[k] = "none"
  BY <1>0, <1>1, RequestIsPair DEF Served, Success
<1>3. k[2] <= count[k[1]]
  <2>1. k[1] \in Clients /\ k[2] \in Nat /\ count[k[1]] \in Nat
    BY <1>0, RequestIsPair, CountIsNat
  <2>2. ~(k[2] > count[k[1]])
    BY <1>0, <1>2 DEF Fresh
  <2> QED BY <2>1, <2>2
<1>4. times[k] = 0
  <2>1. times[k] \in Nat /\ ~(times[k] > 0)
    BY <1>0, <1>2 DEF TypeOK, applied
  <2> QED BY <2>1
<1>5. Outcome(k) # "unreached"
  BY <1>0, <1>2, OutcomeValues DEF Answers
<1>6. Service!Undecided(k)
  BY <1>2, <1>3, <1>4, <1>5 DEF Service!Undecided, Refused
<1>7. UNCHANGED <<Asked, Out, Failed>>
  BY <1>1 DEF Asked, Out, Outcome, Failed
<1>8. CASE times' = [times EXCEPT ![k] = @ + 1] /\ result' = [result EXCEPT ![k] = Success]
  <2>1. times' = [times EXCEPT ![k] = 1]
    BY <1>0, <1>4, <1>8 DEF TypeOK
  <2>2. Declined' = Declined
    BY <1>0, <1>2, <1>8 DEF Declined, TypeOK, Success, Refused
  <2>3. Service!Perform(k)
    BY <1>6, <1>7, <2>1, <2>2 DEF Service!Perform, Asked, Declined, Out, Failed
  <2> QED BY <2>3 DEF Service!Next
<1>9. CASE UNCHANGED times /\ result' = [result EXCEPT ![k] = Refused]
  <2>1. Declined' = Declined \cup {k}
    BY <1>0, <1>9 DEF Declined, TypeOK
  <2>2. Service!Decline(k)
    BY <1>6, <1>7, <1>9, <2>1 DEF Service!Decline, Asked, Declined, Out, Failed
  <2> QED BY <2>2 DEF Service!Next
<1> QED BY <1>8, <1>9 DEF SetTrustline

\* The query that was lost is neither carried out nor refused.
LEMMA ReadIsServed ==
  ASSUME Inv, NEW k \in Requests, Read(k)
  PROVE  UNCHANGED seen
<1>0. TypeOK /\ Served
  BY DEF Inv
<1>1. UNCHANGED <<count, times, told, faults>>
  BY DEF Read, client, history
<1>2. result[k] = "none"
  BY <1>0, RequestIsPair DEF Read, Served
<1>3. Declined' = Declined
  BY <1>0, <1>2 DEF Read, Declined, TypeOK, Refused
<1> QED BY <1>1, <1>3 DEF seen, Asked, Out, Outcome, Failed

LEMMA DieIsServed ==
  ASSUME Inv, NEW s \in Servers, Die(s), faults' > 0
  PROVE  Service!Next
<1> DEFINE K == {k \in Requests : told[k] = "none" /\ told'[k] = "closed"}
<1>0. TypeOK
  BY DEF Inv
<1>1. UNCHANGED <<count, times, result>>
  BY DEF Die
<1>2. ASSUME NEW k \in Requests
      PROVE  \/ told'[k] = told[k]
             \/ told[k] = "none" /\ told'[k] = "closed" /\ k = Current(k[1])
  BY DEF Die
<1>3. K \in SUBSET Asked
  <2>1. ASSUME NEW k \in Requests, k \in K
        PROVE  k \in Asked
    <3>1. k = Current(k[1]) /\ k[1] \in Clients
      BY <1>2, <2>1, RequestIsPair
    <3>2. k[2] = count[k[1]] /\ count[k[1]] \in Nat
      BY <1>0, <3>1, CountIsNat DEF Current
    <3> QED BY <3>2 DEF Asked
  <2> QED BY <2>1
<1>4. \A k \in K : Out[k] = "none"
  BY OutcomeValues DEF Out
<1>5. Out' = [k \in Requests |-> IF k \in K THEN "unknown" ELSE Out[k]]
  <2>1. ASSUME NEW k \in Requests
        PROVE  Outcome(k)' = IF k \in K THEN "unknown" ELSE Outcome(k)
    <3>1. CASE k \in K
      BY <3>1, OutcomeValuesThen
    <3>2. CASE k \notin K
      BY <1>2, <3>2 DEF Outcome
    <3> QED BY <3>1, <3>2
  <2> HIDE DEF K
  <2> QED BY <2>1 DEF Out
<1>6. UNCHANGED <<Asked, times, Declined>>
  BY <1>1 DEF Asked, Declined
<1> HIDE DEF K
<1>7. Service!TellAll
  BY <1>3, <1>4, <1>5, <1>6 DEF Service!TellAll, Asked, Declined, Out
<1> QED BY <1>7 DEF Service!Next

\* A step that fails, or none that users see.
LEMMA MayOnlyFail ==
  ASSUME Inv, UNCHANGED <<count, times, result, told>>, Fault \/ NoFault
  PROVE  [Service!Next]_seen
<1>0. TypeOK
  BY DEF Inv
<1>1. CASE NoFault
  BY <1>1, Stutters DEF NoFault
<1>2. CASE Fault
  <2>1. Failed' = TRUE
    BY <1>0, <1>2, FailedIs
  <2>2. UNCHANGED <<Asked, times, Declined, Out>>
    BY DEF Asked, Declined, Out, Outcome
  <2>3. Service!Fail
    BY <2>1, <2>2 DEF Service!Fail, Asked, Declined, Out, Failed
  <2> QED BY <2>3 DEF Service!Next
<1> QED BY <1>1, <1>2

LEMMA NextIsServed ==
  ASSUME Inv, ToldInv, [Next]_vars
  PROVE  [Service!Next]_seen
<1>0. TypeOK /\ Faultless
  BY DEF Inv
<1>1. ASSUME NEW s \in Servers, AcceptStep(s)
      PROVE  [Service!Next]_seen
  <2>1. UNCHANGED <<count, times, result, told>> /\ (Fault \/ NoFault)
    BY <1>1 DEF AcceptStep, Accept, RecvHeader, FinishAccept, client, history, threads, NoFault
  <2> QED BY <2>1, MayOnlyFail
<1>2. ASSUME NEW s \in Servers, Sigpipe(s)
      PROVE  Service!Next
  <2>1. faults # 0
    <3>1. CASE \E k \in Conns : ~up[k]
      BY <1>0, <3>1 DEF Faultless
    <3>2. CASE \E c \in Clients : pc[c] = "response" /\ Broken(Current(c))
      <4>1. PICK c \in Clients : pc[c] = "response" /\ Broken(Current(c))
        BY <3>2
      <4>2. Current(c) \in Requests /\ Current(c) \in Conns
        BY <4>1, Busy, RequestIsPair
      <4> QED BY <1>0, <4>1, <4>2 DEF Faultless, Broken
    <3> QED BY <1>2, <3>1, <3>2 DEF Sigpipe
  <2>2. faults' > 0
    BY <1>0, <1>2, <2>1, FailedIs DEF Sigpipe, NoFault, Failed
  <2> QED BY <1>2, <2>2, DieIsServed DEF Sigpipe
<1>3. ASSUME NEW s \in Servers, Crash(s)
      PROVE  Service!Next
  <2>1. faults' > 0
    BY <1>0, <1>3, FailedIs DEF Crash, Failed
  <2> QED BY <1>3, <2>1, DieIsServed DEF Crash
<1>4. ASSUME NEW k \in Requests, ServeStep(k)
      PROVE  [Service!Next]_seen
  <2>1. CASE Respond(k)
    BY <2>1, Stutters DEF Respond, client, history
  <2> QED BY <1>4, <2>1, ReadIsServed, SetTrustlineIsServed DEF ServeStep
<1>5. ASSUME NEW v \in Visitors,
             (\E s \in Servers : Arrive(v, s)) \/ VisitorStep(v) \/ EndSession(v)
      PROVE  UNCHANGED seen
  BY <1>5, Stutters DEF Arrive, VisitorStep, Speak, Leave, EndSession, client, history, threads
<1>6. ASSUME NEW k \in Conns, Reset(k)
      PROVE  [Service!Next]_seen
  <2>1. UNCHANGED <<count, times, result, told>> /\ Fault
    BY <1>6 DEF Reset, client, history, threads
  <2> QED BY <2>1, MayOnlyFail
<1>7. CASE UNCHANGED vars
  BY <1>7, Stutters DEF vars, client, history, threads
<1> QED BY <1>1, <1>2, <1>3, <1>4, <1>5, <1>6, <1>7, AskIsServed, ThreadIsServed DEF Next

\* The servers keep the promise of RequestService, also across resets and
\* restarts: a request is carried out at most once, and not if it was refused
\* or its client was told that the remote server was not reached; the client
\* is told what became of it, and only after a failure nothing or what became
\* of an earlier request of its own.
THEOREM Implements == Spec => ImplementsService
<1>1. Init => Service!Init
  <2> SUFFICES ASSUME Init PROVE Service!Init
    OBVIOUS
  <2>1. Asked = {}
    <3>1. ASSUME NEW k \in Requests PROVE ~(k[2] <= count[k[1]])
      <4>1. k[1] \in Clients /\ k[2] \in Nat /\ k[2] > 0
        BY RequestIsPair
      <4>2. count[k[1]] = 0
        BY <4>1 DEF Init
      <4> QED BY <4>1, <4>2
    <3> QED BY <3>1 DEF Asked
  <2>2. Out = [k \in Requests |-> "none"]
    BY OutcomeValues DEF Init, Out
  <2>3. Declined = {} /\ Failed = FALSE
    BY DEF Init, Declined, Refused, Failed
  <2> QED BY <2>1, <2>2, <2>3 DEF Init, Service!Init, Asked, Out, Declined, Failed
<1>2. Inv /\ ToldInv /\ [Next]_vars => [Service!Next]_seen
  BY NextIsServed
<1>3. Inv /\ ToldInv /\ [Next]_vars =>
        [Service!Next]_<<{k \in Requests : k[2] <= count[k[1]]}, times,
                         {k \in Requests : result[k] = Refused},
                         [k \in Requests |-> Outcome(k)], faults > 0>>
  BY <1>2 DEF seen, Asked, Out, Declined, Failed
<1> QED BY <1>1, <1>3, Invariance, ToldInvariance, PTL DEF Spec, ImplementsService, Service!Spec
=============================================================================
