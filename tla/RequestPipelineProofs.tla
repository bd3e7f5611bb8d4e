------------------------ MODULE RequestPipelineProofs ------------------------
(***************************************************************************)
(* Proofs about RequestPipeline, for any sets of sockets, connections,     *)
(* workers and users and any bound on the messages: a connection has one   *)
(* event or job at a time, no client is left behind, what it sends is      *)
(* handled in order, and the program fails only for reasons that are known.*)
(***************************************************************************)
EXTENDS RequestPipeline, FiniteSetTheorems, SequenceTheorems, TLAPS

\* The descriptors the listener is about to serve are those of clients whose
\* connection nobody works on.
ServeInv ==
    \A s \in todo : clients[s] # NoConn /\ ~inWorker[clients[s]]

IInv == TypeOK /\ TablesAgree /\ ServeInv /\ ExclusiveOwner

-----------------------------------------------------------------------------
(* Queues *)

LEMMA AppendFacts ==
  ASSUME NEW S, NEW q \in Seq(S), NEW e \in S
  PROVE  /\ Append(q, e) \in Seq(S)
         /\ DOMAIN Append(q, e) = DOMAIN q \cup {Len(q) + 1}
         /\ Len(q) + 1 \notin DOMAIN q
         /\ \A i \in DOMAIN q : Append(q, e)[i] = q[i]
         /\ Append(q, e)[Len(q) + 1] = e
  OBVIOUS

LEMMA TailFacts ==
  ASSUME NEW S, NEW q \in Seq(S), q # << >>
  PROVE  /\ Tail(q) \in Seq(S)
         /\ Head(q) \in S
         /\ 1 \in DOMAIN q /\ Head(q) = q[1]
         /\ \A i \in DOMAIN Tail(q) : i \in Nat /\ i + 1 \in DOMAIN q
                                      /\ i + 1 # 1 /\ Tail(q)[i] = q[i + 1]
         /\ \A i \in DOMAIN q : i # 1 =>
              i - 1 \in DOMAIN Tail(q) /\ Tail(q)[i - 1] = q[i]
  OBVIOUS

LEMMA ConcatFacts ==
  ASSUME NEW S, NEW q \in Seq(S), NEW r \in Seq(S)
  PROVE  /\ q \o r \in Seq(S)
         /\ \A i \in DOMAIN (q \o r) :
              \/ i \in DOMAIN q /\ (q \o r)[i] = q[i]
              \/ i - Len(q) \in DOMAIN r /\ (q \o r)[i] = r[i - Len(q)]
         /\ \A i \in DOMAIN q : i \in DOMAIN (q \o r) /\ (q \o r)[i] = q[i]
  OBVIOUS

LEMMA OrderType ==
  ASSUME NEW S \in SUBSET Sockets, NEW order \in InKeyOrder(S)
  PROVE  order \in Seq(Sockets) /\ DOMAIN order = 1..Cardinality(S)
                                /\ Cardinality(S) \in Nat
<1>1. Cardinality(S) \in Nat
  BY SocketsAssumption, FS_Subset, FS_CardinalityType
<1> QED
  BY <1>1 DEF InKeyOrder

-----------------------------------------------------------------------------
(* Types *)

LEMMA InitIInv == Init => IInv
<1> SUFFICES ASSUME Init PROVE IInv
  OBVIOUS
<1>1. TypeOK
  <2>1. early \in BOOLEAN /\ expelled \in BOOLEAN
    BY Zenon DEF Init
  <2> QED
    BY <2>1, NullAssumption DEF Init, TypeOK, NullUid
<1>2. TablesAgree /\ ServeInv /\ ExclusiveOwner
  BY NullAssumption
     DEF Init, TablesAgree, ServeInv, ExclusiveOwner, InInput, InJob, InHand, Held,
         IsJobOf, Idle
<1> QED
  BY <1>1, <1>2 DEF IInv

LEMMA AnnounceType ==
  ASSUME TypeOK
  PROVE  Append(controllerQ, Broadcast) \in Seq(Conns \cup {Broadcast})
  BY DEF TypeOK

LEMMA CloseConnectionType ==
  ASSUME TypeOK, NEW s \in Sockets, CloseConnection(s)
  PROVE  /\ clients' \in [Sockets -> Conns \cup {NoConn}]
         /\ session' \in [Sockets -> Users \cup {NullUid, Unregistered}]
         /\ object' \in [Conns -> {"none", "backlog", "live", "freed"}]
         /\ fault' \in {"none", "nullClose", "freedConn", "nullHeader", "sigPipe"}
         /\ controllerQ' \in Seq(Conns \cup {Broadcast})
<1>1. controllerQ' \in Seq(Conns \cup {Broadcast})
  BY AnnounceType DEF CloseConnection, TypeOK
<1>2. /\ clients' \in [Sockets -> Conns \cup {NoConn}]
      /\ session' \in [Sockets -> Users \cup {NullUid, Unregistered}]
  BY DEF CloseConnection, TypeOK
<1>3. /\ object' \in [Conns -> {"none", "backlog", "live", "freed"}]
      /\ fault' \in {"none", "nullClose", "freedConn", "nullHeader", "sigPipe"}
  BY DEF CloseConnection, TypeOK
<1> QED
  BY <1>1, <1>2, <1>3

LEMMA ClientType ==
  ASSUME TypeOK, NEW c \in Conns, Client(c)
  PROVE  TypeOK'
<1> USE DEF TypeOK
<1>1. CASE Connect(c)
  BY <1>1 DEF Connect, peerVars, listenerVars, queues, workerVars
<1>2. CASE Send(c)
  <2>1. PICK kind \in Kinds :
          inbox' = [inbox EXCEPT ![c] = Append(@, [kind |-> kind, n |-> sent[c] + 1])]
    BY <1>2 DEF Send
  <2>2. [kind |-> kind, n |-> sent[c] + 1] \in Request
    BY DEF Request
  <2>3. inbox' \in [Conns -> Seq(Request)]
    BY <2>1, <2>2
  <2>4. sent' \in [Conns -> Nat]
    BY <1>2 DEF Send
  <2> QED
    BY <1>2, <2>3, <2>4 DEF Send, connVars, listenerVars, queues, workerVars
<1>3. CASE Leave(c)
  BY <1>3 DEF Leave, connVars, listenerVars, queues, workerVars
<1> QED
  BY <1>1, <1>2, <1>3 DEF Client

LEMMA ReceiveType ==
  ASSUME TypeOK, NEW s \in Sockets, clients[s] \in Conns,
         CloseServed(s) \/ ProcessConnection(s)
  PROVE  /\ clients' \in [Sockets -> Conns \cup {NoConn}]
         /\ session' \in [Sockets -> Users \cup {NullUid, Unregistered}]
         /\ object' \in [Conns -> {"none", "backlog", "live", "freed"}]
         /\ fault' \in {"none", "nullClose", "freedConn", "nullHeader", "sigPipe"}
         /\ controllerQ' \in Seq(Conns \cup {Broadcast})
         /\ inWorker' \in [Conns -> BOOLEAN]
         /\ buffer' \in [Conns -> Request \cup {NoRequest}]
         /\ inbox' \in [Conns -> Seq(Request)]
<1>1. CASE CloseServed(s)
  BY <1>1, CloseConnectionType DEF CloseServed, TypeOK
<1> DEFINE c == clients[s]
<1>2. ASSUME Dispatch(c)
      PROVE  /\ inWorker' \in [Conns -> BOOLEAN]
             /\ controllerQ' \in Seq(Conns \cup {Broadcast})
             /\ UNCHANGED <<clients, session, object, fault>>
  BY <1>2 DEF Dispatch, TypeOK
<1>3. CASE Receive(s)
  <2>1. CASE inbox[c] # << >> /\ buffer' = [buffer EXCEPT ![c] = Head(inbox[c])]
             /\ inbox' = [inbox EXCEPT ![c] = Tail(@)]
             /\ ((CloseConnection(s) /\ UNCHANGED inWorker) \/ Dispatch(c))
    <3>1. inbox[c] \in Seq(Request) /\ Head(inbox[c]) \in Request
          /\ Tail(inbox[c]) \in Seq(Request)
      BY <2>1 DEF TypeOK
    <3>2. /\ buffer' \in [Conns -> Request \cup {NoRequest}]
          /\ inbox' \in [Conns -> Seq(Request)]
      BY <2>1, <3>1 DEF TypeOK
    <3> QED
      BY <2>1, <3>2, <1>2, CloseConnectionType DEF TypeOK
  <2> QED
    BY <1>1, <1>3, <2>1 DEF Receive
<1>4. CASE ReceiveStale(s)
  BY <1>1, <1>2, <1>4 DEF ReceiveStale, TypeOK
<1> QED
  BY <1>1, <1>3, <1>4 DEF ProcessConnection

LEMMA ListenerType ==
  ASSUME TypeOK, ServeInv, Listener
  PROVE  TypeOK'
<1>1. CASE Collect
  BY <1>1 DEF Collect, TypeOK, connVars, peerVars, queues, workerVars
<1>2. CASE Poll
  BY <1>2 DEF Poll, TypeOK, connVars, peerVars, queues, workerVars
<1>3. CASE Accept
  <2>1. CASE UNCHANGED <<object, sockid, clients, session>>
    BY <1>3, <2>1 DEF Accept, TypeOK, peerVars, queues, workerVars
  <2>2. ASSUME NEW c \in Conns, NEW s \in Sockets,
               object' = [object EXCEPT ![c] = "live"],
               sockid' = [sockid EXCEPT ![c] = s],
               clients' = [clients EXCEPT ![s] = c],
               session' = [session EXCEPT ![s] = NullUid]
        PROVE  TypeOK'
    BY <1>3, <2>2 DEF Accept, TypeOK, peerVars, queues, workerVars
  <2> QED
    BY <1>3, <2>1, <2>2 DEF Accept
<1>4. CASE Serve
  <2>1. PICK s \in todo : IF s \in hup THEN CloseServed(s) ELSE ProcessConnection(s)
    BY <1>4 DEF Serve
  <2>2. s \in Sockets /\ clients[s] \in Conns
    BY DEF TypeOK, ServeInv
  <2>3. todo' \in SUBSET Sockets
    BY <1>4 DEF Serve, TypeOK
  <2> QED
    BY <1>4, <2>1, <2>2, <2>3, ReceiveType DEF Serve, TypeOK, workerVars
<1>5. CASE HandleClose
  <2>1. CASE listenerQ = << >>
    BY <1>5, <2>1 DEF HandleClose, TypeOK, peerVars, workerVars
  <2>2. CASE listenerQ # << >>
    <3>1. Head(listenerQ) \in Sockets /\ Tail(listenerQ) \in Seq(Sockets)
      BY <2>2 DEF TypeOK
    <3>2. CloseConnection(Head(listenerQ)) /\ listenerQ' = Tail(listenerQ)
      BY <1>5, <2>2 DEF HandleClose
    <3> QED
      BY <1>5, <3>1, <3>2, CloseConnectionType DEF HandleClose, TypeOK, peerVars, workerVars
  <2> QED
    BY <2>1, <2>2
<1> QED
  BY <1>1, <1>2, <1>3, <1>4, <1>5 DEF Listener

LEMMA ControllerType ==
  ASSUME TypeOK, Controller
  PROVE  TypeOK'
<1>1. CASE HandleInput
  <2> DEFINE c == Head(controllerQ)
  <2>1. c \in Conns /\ Tail(controllerQ) \in Seq(Conns \cup {Broadcast})
    BY <1>1, NullAssumption DEF HandleInput, TypeOK
  <2>2. inWorker' \in [Conns -> BOOLEAN]
    BY <1>1, <2>1 DEF HandleInput, TypeOK
  <2>3. done' \in [Conns -> Nat]
    BY <1>1, <2>1 DEF HandleInput, TypeOK, Request
  <2>4. workersQ' \in Seq(Job)
    <3>1. ASSUME buffer[c] # NoRequest
          PROVE  [type |-> "process", conn |-> c, req |-> buffer[c]] \in Job
      BY <2>1, <3>1 DEF TypeOK, Job, ProcessJob
    <3>2. workersQ' = workersQ \/ (buffer[c] # NoRequest /\ workersQ' =
            Append(workersQ, [type |-> "process", conn |-> c, req |-> buffer[c]]))
      BY <1>1 DEF HandleInput
    <3>3. workersQ \in Seq(Job)
      BY DEF TypeOK
    <3> QED
      BY <3>1, <3>2, <3>3
  <2>5. window' \in Conns \cup {NoConn}
        /\ fault' \in {"none", "nullClose", "freedConn", "nullHeader", "sigPipe"}
    BY <1>1, <2>1 DEF HandleInput, SendStatus, TypeOK
  <2> QED
    BY <1>1, <2>1, <2>2, <2>3, <2>4, <2>5
       DEF HandleInput, TypeOK, peerVars, listenerVars, workerVars
<1>2. CASE ResetConnection
  BY <1>2 DEF ResetConnection, TypeOK, peerVars, listenerVars, queues, workerVars
<1>3. CASE HandleBroadcast
  <2>1. Tail(controllerQ) \in Seq(Conns \cup {Broadcast})
    BY <1>3 DEF HandleBroadcast, TypeOK
  <2>2. PICK order \in InKeyOrder(Registered) :
          workersQ' = workersQ \o [i \in DOMAIN order |-> [type |-> "send", sid |-> order[i]]]
    BY <1>3 DEF HandleBroadcast
  <2>3. order \in Seq(Sockets) /\ DOMAIN order = 1..Cardinality(Registered)
        /\ Cardinality(Registered) \in Nat
    BY OrderType DEF Registered
  <2>4. [i \in DOMAIN order |-> [type |-> "send", sid |-> order[i]]] \in Seq(Job)
    BY <2>3 DEF Job, SendJob
  <2>5. workersQ' \in Seq(Job)
    BY <2>2, <2>4 DEF TypeOK
  <2> QED
    BY <1>3, <2>1, <2>5
       DEF HandleBroadcast, TypeOK, connVars, peerVars, listenerVars, workerVars
<1> QED
  BY <1>1, <1>2, <1>3 DEF Controller

LEMMA ExecuteType ==
  ASSUME TypeOK, NEW kind, NEW s \in Sockets, Execute(kind, s)
  PROVE  /\ session' \in [Sockets -> Users \cup {NullUid, Unregistered}]
         /\ controllerQ' \in Seq(Conns \cup {Broadcast})
         /\ listenerQ' \in Seq(Sockets)
<1>1. CASE Login(s)
  <2>1. session' \in [Sockets -> Users \cup {NullUid, Unregistered}]
    BY <1>1 DEF Login, TypeOK
  <2>2. controllerQ' \in {controllerQ, Append(controllerQ, Broadcast)}
        /\ listenerQ' = listenerQ
    BY <1>1 DEF Login
  <2> QED
    BY <2>1, <2>2, AnnounceType DEF TypeOK
<1>2. CASE Logout(s)
  BY <1>2 DEF Logout, TypeOK
<1>3. CASE Regular(s)
  BY <1>3, AnnounceType DEF Regular, TypeOK
<1>4. CASE Kick(s)
  <2>1. ASSUME NEW u \in Users, NEW order \in InKeyOrder(SessionsOf(u))
        PROVE  listenerQ \o order \in Seq(Sockets)
    <3>1. order \in Seq(Sockets)
      BY OrderType DEF SessionsOf
    <3> QED
      BY <3>1, ConcatFacts DEF TypeOK
  <2> QED
    BY <1>4, <2>1, AnnounceType DEF Kick, TypeOK
<1>5. CASE UNCHANGED <<session, controllerQ, listenerQ>>
  BY <1>5 DEF TypeOK
<1> QED
  BY <1>1, <1>2, <1>3, <1>4, <1>5 DEF Execute

\* What is known of a worker's job, by its type.
LEMMA JobTypes ==
  ASSUME TypeOK, NEW w \in Workers
  PROVE  /\ job[w].type = "process" => job[w].conn \in Conns /\ job[w].req.n \in Nat
         /\ job[w].type = "send" => ~(job[w].type = "process")
         /\ job[w] = Idle => ~(job[w].type = "process")
  BY DEF TypeOK, Job, ProcessJob, SendJob, Request, Idle

LEMMA WorkerType ==
  ASSUME TypeOK, TablesAgree, NEW w \in Workers, Worker(w)
  PROVE  TypeOK'
<1>1. CASE Take(w)
  <2>1. Head(workersQ) \in Job /\ Tail(workersQ) \in Seq(Job)
    BY <1>1 DEF Take, TypeOK
  <2> QED
    BY <1>1, <2>1 DEF Take, TypeOK, connVars, peerVars, listenerVars
<1>2. CASE RunSend(w)
  BY <1>2 DEF RunSend, TypeOK, connVars, peerVars, listenerVars, queues
<1>3. CASE RunProcess(w)
  <2> DEFINE c == job[w].conn
  <2>1. c \in Conns /\ job[w].req.n \in Nat
    BY <1>3, JobTypes DEF RunProcess
  <2>2. CASE object[c] = "live"
    <3>1. sockid[c] \in Sockets
      BY <2>1, <2>2 DEF TablesAgree
    <3>2. Execute(job[w].req.kind, sockid[c]) /\ done' = [done EXCEPT ![c] = job[w].req.n]
          /\ fault' \in {fault, "none", "sigPipe"}
      BY <1>3, <2>2 DEF RunProcess, SendStatus
    <3>3. done' \in [Conns -> Nat]
      BY <2>1, <3>2 DEF TypeOK
    <3> QED
      BY <1>3, <3>1, <3>2, <3>3, ExecuteType
         DEF RunProcess, TypeOK, connVars, peerVars, listenerVars
  <2>3. CASE object[c] # "live"
    BY <1>3, <2>3 DEF RunProcess, TypeOK, connVars, peerVars, listenerVars
  <2> QED
    BY <2>2, <2>3
<1>4. CASE Release(w)
  <2>1. job[w].conn \in Conns
    BY <1>4, JobTypes DEF Release
  <2>2. inWorker' \in [Conns -> BOOLEAN]
    BY <1>4, <2>1 DEF Release, TypeOK
  <2>3. fault' \in {"none", "nullClose", "freedConn", "nullHeader", "sigPipe"}
    BY <1>4 DEF Release, TypeOK
  <2> QED
    BY <1>4, <2>2, <2>3 DEF Release, TypeOK, peerVars, listenerVars, queues
<1> QED
  BY <1>1, <1>2, <1>3, <1>4 DEF Worker

LEMMA TypeStep == IInv /\ [Next]_vars => TypeOK'
<1> SUFFICES ASSUME IInv, [Next]_vars PROVE TypeOK'
  OBVIOUS
<1>1. CASE UNCHANGED vars
  BY <1>1 DEF IInv, TypeOK, vars, connVars, peerVars, listenerVars, queues, workerVars
<1> QED
  BY <1>1, ClientType, ListenerType, ControllerType, WorkerType DEF Next, IInv

-----------------------------------------------------------------------------
(* The tables, and what the listener is about to serve *)

LEMMA CloseTables ==
  ASSUME TypeOK, TablesAgree, NEW s \in Sockets, CloseConnection(s), UNCHANGED sockid
  PROVE  TablesAgree'
  BY UsersAssumption, NullAssumption
     DEF CloseConnection, TablesAgree, TypeOK, NullUid

LEMMA SessionTables ==
  ASSUME TypeOK, TablesAgree, NEW s \in Sockets, NEW kind, Execute(kind, s),
         UNCHANGED <<object, sockid, clients>>
  PROVE  TablesAgree'
<1>1. \A t \in Sockets : session'[t] = Unregistered <=> session[t] = Unregistered
  <2>1. Unregistered \notin Users
    BY UsersAssumption, NullAssumption
  <2>2. CASE Login(s)
    BY <2>1, <2>2 DEF Login, TypeOK
  <2>3. CASE session' = session
    BY <2>3
  <2> QED
    BY <2>2, <2>3 DEF Execute, Logout, Regular, Kick
<1> QED
  BY <1>1 DEF TablesAgree

LEMMA TablesStep == IInv /\ [Next]_vars => TablesAgree'
<1> SUFFICES ASSUME IInv, [Next]_vars PROVE TablesAgree'
  OBVIOUS
<1>0. TypeOK /\ TablesAgree /\ ServeInv
  BY DEF IInv
<1>1. CASE UNCHANGED <<object, sockid, clients, session>>
  BY <1>0, <1>1 DEF TablesAgree
<1>2. ASSUME NEW c \in Conns, Connect(c) PROVE TablesAgree'
  BY <1>0, <1>2, NullAssumption DEF Connect, TablesAgree, TypeOK, listenerVars
<1>3. CASE Accept
  <2>1. ASSUME NEW c \in Conns, NEW s \in Sockets,
               object[c] = "backlog", clients[s] = NoConn,
               object' = [object EXCEPT ![c] = "live"],
               sockid' = [sockid EXCEPT ![c] = s],
               clients' = [clients EXCEPT ![s] = c],
               session' = [session EXCEPT ![s] = NullUid]
        PROVE  TablesAgree'
    <3>1. NullUid # Unregistered /\ c # NoConn
      BY NullAssumption DEF NullUid
    <3>2. \A t \in Sockets : clients[t] # c
      BY <1>0, <2>1, <3>1 DEF TablesAgree
    <3>3. \A t \in Sockets : t # s => /\ clients'[t] = clients[t]
                                     /\ session'[t] = session[t]
      BY <1>0, <2>1 DEF TypeOK
    <3>4. clients'[s] = c /\ session'[s] = NullUid
      BY <1>0, <2>1 DEF TypeOK
    <3>5. \A d \in Conns : d # c => object'[d] = object[d] /\ sockid'[d] = sockid[d]
      BY <1>0, <2>1 DEF TypeOK
    <3>6. object'[c] = "live" /\ sockid'[c] = s
      BY <1>0, <2>1 DEF TypeOK
    <3>7. \A t \in Sockets : clients'[t] # NoConn =>
            object'[clients'[t]] = "live" /\ sockid'[clients'[t]] = t
      <4> SUFFICES ASSUME NEW t \in Sockets, clients'[t] # NoConn
                   PROVE  object'[clients'[t]] = "live" /\ sockid'[clients'[t]] = t
        OBVIOUS
      <4>1. CASE t = s
        BY <3>4, <3>6, <4>1
      <4>2. CASE t # s
        <5>1. clients'[t] = clients[t] /\ clients[t] \in Conns /\ clients[t] # c
          BY <1>0, <3>2, <3>3, <4>2 DEF TypeOK
        <5> QED
          BY <1>0, <3>5, <5>1 DEF TablesAgree
      <4> QED
        BY <4>1, <4>2
    <3>8. \A d \in Conns : object'[d] = "live" =>
            sockid'[d] \in Sockets /\ clients'[sockid'[d]] = d
      <4> SUFFICES ASSUME NEW d \in Conns, object'[d] = "live"
                   PROVE  sockid'[d] \in Sockets /\ clients'[sockid'[d]] = d
        OBVIOUS
      <4>1. CASE d = c
        BY <3>4, <3>6, <4>1
      <4>2. CASE d # c
        <5>1. sockid[d] \in Sockets /\ clients[sockid[d]] = d /\ d # NoConn
          BY <1>0, <3>5, <4>2, NullAssumption DEF TablesAgree
        <5>2. sockid[d] # s
          BY <2>1, <5>1
        <5> QED
          BY <3>3, <3>5, <4>2, <5>1, <5>2
      <4> QED
        BY <4>1, <4>2
    <3>9. \A t \in Sockets : clients'[t] = NoConn <=> session'[t] = Unregistered
      BY <1>0, <3>1, <3>3, <3>4 DEF TablesAgree
    <3> QED
      BY <3>7, <3>8, <3>9 DEF TablesAgree
  <2> QED
    BY <1>1, <1>3, <2>1 DEF Accept
<1>4. CASE Serve
  <2>1. PICK s \in todo : IF s \in hup THEN CloseServed(s) ELSE ProcessConnection(s)
    BY <1>4 DEF Serve
  <2>2. s \in Sockets /\ UNCHANGED sockid
    BY <1>0, <1>4 DEF Serve, TypeOK
  <2>3. CloseConnection(s) \/ UNCHANGED <<object, clients, session>>
    BY <2>1 DEF CloseServed, ProcessConnection, Receive, ReceiveStale, Dispatch
  <2> QED
    BY <1>0, <1>1, <2>2, <2>3, CloseTables
<1>5. CASE HandleClose
  <2>1. CASE listenerQ = << >>
    BY <1>1, <1>5, <2>1 DEF HandleClose
  <2>2. CASE listenerQ # << >>
    <3>1. Head(listenerQ) \in Sockets
      BY <1>0, <2>2 DEF TypeOK
    <3> QED
      BY <1>0, <1>5, <2>2, <3>1, CloseTables DEF HandleClose
  <2> QED
    BY <2>1, <2>2
<1>6. ASSUME NEW w \in Workers, RunProcess(w) PROVE TablesAgree'
  <2> DEFINE c == job[w].conn
  <2>1. CASE object[c] = "live"
    <3>1. c \in Conns
      BY <1>0, <1>6, JobTypes DEF RunProcess
    <3>2. sockid[c] \in Sockets
      BY <1>0, <2>1, <3>1 DEF TablesAgree
    <3> QED
      BY <1>0, <1>6, <2>1, <3>2, SessionTables DEF RunProcess, connVars, listenerVars
  <2>2. CASE object[c] # "live"
    BY <1>1, <1>6, <2>2 DEF RunProcess, connVars, listenerVars
  <2> QED
    BY <2>1, <2>2
<1>7. CASE \E c \in Conns : Send(c) \/ Leave(c)
  BY <1>1, <1>7 DEF Send, Leave, connVars, listenerVars
<1>8. CASE Collect \/ Poll
  BY <1>1, <1>8 DEF Collect, Poll, connVars
<1>9. CASE Controller
  BY <1>1, <1>9
     DEF Controller, HandleInput, ResetConnection, HandleBroadcast, connVars, listenerVars
<1>10. ASSUME NEW w \in Workers, Take(w) \/ RunSend(w) \/ Release(w) PROVE TablesAgree'
  BY <1>1, <1>10 DEF Take, RunSend, Release, connVars, listenerVars
<1>11. CASE UNCHANGED vars
  BY <1>1, <1>11 DEF vars, connVars, listenerVars
<1> QED
  BY <1>2, <1>3, <1>4, <1>5, <1>6, <1>7, <1>8, <1>9, <1>10, <1>11
     DEF Next, Client, Listener, Worker

LEMMA ServeStep == IInv /\ [Next]_vars => ServeInv'
<1> SUFFICES ASSUME IInv, [Next]_vars PROVE ServeInv'
  OBVIOUS
<1>0. TypeOK /\ TablesAgree /\ ServeInv
  BY DEF IInv
\* Whatever leaves todo and clients alone and only releases connections.
<1>1. ASSUME UNCHANGED <<todo, clients>>,
             \A c \in Conns : inWorker'[c] => inWorker[c]
      PROVE  ServeInv'
  BY <1>0, <1>1 DEF ServeInv, TypeOK
<1>2. CASE Collect
  BY <1>2 DEF Collect, ServeInv, connVars
<1>3. CASE Poll
  BY <1>0, <1>3 DEF Poll, ServeInv, connVars
<1>4. CASE Accept
  <2>1. todo' = todo /\ inWorker' = inWorker
    BY <1>4 DEF Accept
  <2>2. \A t \in todo : clients'[t] = clients[t]
    BY <1>0, <1>4 DEF Accept, ServeInv, TypeOK
  <2> QED
    BY <1>0, <2>1, <2>2 DEF ServeInv
<1>5. CASE Serve
  <2>1. PICK s \in todo : /\ todo' = todo \ {s}
                         /\ IF s \in hup THEN CloseServed(s) ELSE ProcessConnection(s)
    BY <1>5 DEF Serve
  <2>2. s \in Sockets /\ clients[s] \in Conns
    BY <1>0 DEF TypeOK, ServeInv
  <2>3. \A t \in todo \ {s} : t \in Sockets /\ clients[t] # clients[s] /\ clients[t] \in Conns
    BY <1>0, <2>2 DEF TablesAgree, TypeOK, ServeInv
  <2>4. \A t \in todo \ {s} : clients'[t] = clients[t]
    BY <1>0, <2>1, <2>2, <2>3
       DEF CloseServed, ProcessConnection, Receive, ReceiveStale, Dispatch,
           CloseConnection, TypeOK
  <2>5. inWorker' = inWorker \/ inWorker' = [inWorker EXCEPT ![clients[s]] = TRUE]
    BY <2>1 DEF CloseServed, ProcessConnection, Receive, ReceiveStale, Dispatch
  <2> QED
    BY <1>0, <2>1, <2>3, <2>4, <2>5 DEF ServeInv, TypeOK
<1>6. CASE HandleClose
  BY <1>6 DEF HandleClose, ServeInv
<1>7. ASSUME NEW c \in Conns, Client(c) PROVE ServeInv'
  BY <1>1, <1>7 DEF Client, Connect, Send, Leave, connVars, listenerVars
<1>8. CASE Controller
  <2>1. UNCHANGED <<todo, clients>>
    BY <1>8 DEF Controller, HandleInput, ResetConnection, HandleBroadcast, listenerVars
  <2>2. inWorker' = inWorker \/ \E c : inWorker' = [inWorker EXCEPT ![c] = FALSE]
    BY <1>8 DEF Controller, HandleInput, ResetConnection, HandleBroadcast, connVars
  <2> QED
    BY <1>0, <1>1, <2>1, <2>2 DEF TypeOK
<1>9. ASSUME NEW w \in Workers, Worker(w) PROVE ServeInv'
  <2>1. UNCHANGED <<todo, clients>>
    BY <1>9 DEF Worker, Take, RunSend, RunProcess, Release, listenerVars
  <2>2. inWorker' = inWorker \/ \E c : inWorker' = [inWorker EXCEPT ![c] = FALSE]
    BY <1>9 DEF Worker, Take, RunSend, RunProcess, Release, connVars
  <2> QED
    BY <1>0, <1>1, <2>1, <2>2 DEF TypeOK
<1>10. CASE UNCHANGED vars
  BY <1>1, <1>10 DEF vars, connVars, listenerVars
<1> QED
  BY <1>2, <1>3, <1>4, <1>5, <1>6, <1>7, <1>8, <1>9, <1>10 DEF Next, Listener

-----------------------------------------------------------------------------
(* Ownership.  The steps that matter move a connection from the listener to *)
(* the controller's queue, from there to the workers' queue, from there to  *)
(* a worker and back to the listener; one lemma for each move.              *)

LEMMA OwnerFacts ==
  ASSUME TypeOK
  PROVE  /\ controllerQ \in Seq(Conns \cup {Broadcast})
         /\ workersQ \in Seq(Job)
         /\ inWorker \in [Conns -> BOOLEAN]
         /\ job \in [Workers -> Job \cup {Idle}]
         /\ Broadcast \notin Conns
  BY NullAssumption DEF TypeOK

\* Nothing moves, or a broadcast is announced.
LEMMA OwnerAnnounce ==
  ASSUME TypeOK, ExclusiveOwner, UNCHANGED <<workersQ, job, inWorker>>,
         controllerQ' \in {controllerQ, Append(controllerQ, Broadcast)}
  PROVE  ExclusiveOwner'
<1>1. \A c \in Conns, i \in DOMAIN controllerQ' : controllerQ'[i] = c =>
        i \in DOMAIN controllerQ /\ controllerQ[i] = c
  BY OwnerFacts
<1> QED
  BY <1>1 DEF ExclusiveOwner, Held, InInput, InJob, InHand

LEMMA OwnerDispatch ==
  ASSUME TypeOK, ExclusiveOwner, NEW d \in Conns, ~inWorker[d], Dispatch(d),
         UNCHANGED <<workersQ, job>>
  PROVE  ExclusiveOwner'
<1>1. ~Held(d)
  BY DEF ExclusiveOwner
<1>2. \A i \in DOMAIN controllerQ' :
        \/ i \in DOMAIN controllerQ /\ controllerQ'[i] = controllerQ[i]
        \/ i = Len(controllerQ) + 1 /\ controllerQ'[i] = d
  BY OwnerFacts DEF Dispatch
<1>3. inWorker'[d] /\ \A c \in Conns \ {d} : inWorker'[c] = inWorker[c]
  BY OwnerFacts DEF Dispatch
<1>4. \A c \in Conns \ {d}, i \in DOMAIN controllerQ' : controllerQ'[i] = c =>
        i \in DOMAIN controllerQ /\ controllerQ[i] = c
  BY <1>2
<1>5. \A i \in DOMAIN controllerQ' : controllerQ'[i] = d => i = Len(controllerQ) + 1
  BY <1>1, <1>2 DEF Held, InInput
<1> QED
  BY <1>1, <1>3, <1>4, <1>5 DEF ExclusiveOwner, Held, InInput, InJob, InHand

\* The controller's queue loses its head d, which is moved to the workers'
\* queue, released, or (after a memory error) lost.
LEMMA OwnerInput ==
  ASSUME TypeOK, ExclusiveOwner, NEW d \in Conns, controllerQ # << >>,
         Head(controllerQ) = d, controllerQ' = Tail(controllerQ), UNCHANGED job,
         \/ UNCHANGED <<workersQ, inWorker>>
         \/ workersQ' = workersQ /\ inWorker' = [inWorker EXCEPT ![d] = FALSE]
         \/ /\ inWorker' = inWorker
            /\ \E req \in Request : workersQ' =
                 Append(workersQ, [type |-> "process", conn |-> d, req |-> req])
  PROVE  ExclusiveOwner'
<1>1. 1 \in DOMAIN controllerQ /\ controllerQ[1] = d
  BY OwnerFacts, TailFacts
<1>2. \A i \in DOMAIN controllerQ' :
        i + 1 \in DOMAIN controllerQ /\ i + 1 # 1 /\ controllerQ'[i] = controllerQ[i + 1]
        /\ i \in Nat
  BY OwnerFacts, TailFacts
<1>3. ~InJob(d) /\ \A w \in Workers : ~InHand(d, w)
  BY <1>1 DEF ExclusiveOwner, InInput
<1>4. \A i \in DOMAIN controllerQ' : controllerQ'[i] # d
  BY <1>1, <1>2 DEF ExclusiveOwner
<1>5. \A c \in Conns : \A i, j \in DOMAIN controllerQ' :
        controllerQ'[i] = c /\ controllerQ'[j] = c => i = j
  BY <1>2 DEF ExclusiveOwner
<1>6. \A c \in Conns : InInput(c)' => InInput(c) /\ c # d
  BY <1>2, <1>4 DEF InInput
<1>7. \A i \in DOMAIN workersQ' :
        \/ i \in DOMAIN workersQ /\ workersQ'[i] = workersQ[i]
        \/ i = Len(workersQ) + 1 /\ IsJobOf(workersQ'[i], d)
           /\ \A c \in Conns : IsJobOf(workersQ'[i], c) => c = d
  <2>1. CASE workersQ' = workersQ
    BY <2>1
  <2>2. CASE \E req \in Request : workersQ' =
               Append(workersQ, [type |-> "process", conn |-> d, req |-> req])
    <3>1. PICK req \in Request : workersQ' =
            Append(workersQ, [type |-> "process", conn |-> d, req |-> req])
      BY <2>2
    <3> DEFINE new == [type |-> "process", conn |-> d, req |-> req]
    <3>2. IsJobOf(new, d) /\ \A c \in Conns : IsJobOf(new, c) => c = d
      BY DEF IsJobOf
    <3>3. new \in Job
      BY DEF Job, ProcessJob
    <3>4. \A i \in DOMAIN workersQ' :
            \/ i \in DOMAIN workersQ /\ workersQ'[i] = workersQ[i]
            \/ i = Len(workersQ) + 1 /\ workersQ'[i] = new
      <4> HIDE DEF new
      <4> QED
        BY OwnerFacts, <3>1, <3>3 DEF new
    <3> HIDE DEF new
    <3> QED
      BY <3>2, <3>4
  <2> QED
    BY <2>1, <2>2
<1>8. \A c \in Conns : \A i, j \in DOMAIN workersQ' :
        IsJobOf(workersQ'[i], c) /\ IsJobOf(workersQ'[j], c) => i = j
  BY <1>3, <1>7 DEF ExclusiveOwner, InJob
<1>9. \A c \in Conns : InJob(c)' => InJob(c) \/ c = d
  BY <1>7 DEF InJob
<1>10. InJob(d)' => inWorker' = inWorker /\ inWorker[d]
  <2>1. CASE workersQ' = workersQ
    BY <1>3, <2>1 DEF InJob
  <2>2. CASE inWorker' = inWorker
    BY <1>1, <2>2 DEF ExclusiveOwner, Held, InInput
  <2> QED
    BY <2>1, <2>2
<1>11. \A c \in Conns \ {d} : inWorker'[c] = inWorker[c]
  BY OwnerFacts
<1>12. \A c \in Conns, w \in Workers : InHand(c, w)' <=> InHand(c, w)
  BY DEF InHand
<1> QED
  BY <1>3, <1>5, <1>6, <1>8, <1>9, <1>10, <1>11, <1>12 DEF ExclusiveOwner, Held

\* A broadcast leaves the controller's queue and send jobs enter the workers'.
LEMMA OwnerBroadcast ==
  ASSUME TypeOK, ExclusiveOwner, HandleBroadcast
  PROVE  ExclusiveOwner'
<1>1. PICK order \in InKeyOrder(Registered) :
        workersQ' = workersQ \o [i \in DOMAIN order |-> [type |-> "send", sid |-> order[i]]]
  BY DEF HandleBroadcast
<1> DEFINE sends == [i \in DOMAIN order |-> [type |-> "send", sid |-> order[i]]]
<1>2. order \in Seq(Sockets) /\ DOMAIN order = 1..Cardinality(Registered)
      /\ Cardinality(Registered) \in Nat
  BY OrderType DEF Registered
<1>3. sends \in Seq(Job) /\ \A i \in DOMAIN sends : sends[i].type = "send"
  BY <1>2 DEF Job, SendJob
<1> HIDE DEF sends
<1>4. \A i \in DOMAIN workersQ' :
        \/ i \in DOMAIN workersQ /\ workersQ'[i] = workersQ[i]
        \/ workersQ'[i].type = "send"
  <2>1. workersQ' = workersQ \o sends
    BY <1>1 DEF sends
  <2> QED
    BY <2>1, <1>3, OwnerFacts, ConcatFacts
<1>5. \A i \in DOMAIN controllerQ' :
        i + 1 \in DOMAIN controllerQ /\ controllerQ'[i] = controllerQ[i + 1] /\ i \in Nat
  BY OwnerFacts, TailFacts DEF HandleBroadcast
<1>6. UNCHANGED <<job, inWorker>>
  BY DEF HandleBroadcast, connVars, workerVars
<1>7. \A c \in Conns : \A i \in DOMAIN workersQ' : IsJobOf(workersQ'[i], c) =>
        i \in DOMAIN workersQ /\ IsJobOf(workersQ[i], c)
  BY <1>4 DEF IsJobOf
<1>8. \A c \in Conns : \A i, j \in DOMAIN controllerQ' :
        controllerQ'[i] = c /\ controllerQ'[j] = c => i = j
  BY <1>5 DEF ExclusiveOwner
<1>9. \A c \in Conns : (InInput(c)' => InInput(c)) /\ (InJob(c)' => InJob(c))
  BY <1>5, <1>7 DEF InInput, InJob
<1> QED
  BY <1>6, <1>7, <1>8, <1>9 DEF ExclusiveOwner, Held, InHand

LEMMA OwnerTake ==
  ASSUME TypeOK, ExclusiveOwner, NEW w \in Workers, Take(w)
  PROVE  ExclusiveOwner'
<1>1. UNCHANGED <<controllerQ, inWorker>>
  BY DEF Take, connVars
<1>2. /\ 1 \in DOMAIN workersQ /\ job'[w] = workersQ[1]
      /\ \A v \in Workers \ {w} : job'[v] = job[v]
  BY OwnerFacts, TailFacts DEF Take
<1>3. \A i \in DOMAIN workersQ' :
        i + 1 \in DOMAIN workersQ /\ i + 1 # 1 /\ workersQ'[i] = workersQ[i + 1] /\ i \in Nat
  BY OwnerFacts, TailFacts DEF Take
<1>4. \A c \in Conns : ~InHand(c, w)
  BY JobTypes DEF Take, InHand, IsJobOf
<1>5. \A c \in Conns : \A i, j \in DOMAIN workersQ' :
        IsJobOf(workersQ'[i], c) /\ IsJobOf(workersQ'[j], c) => i = j
  BY <1>3 DEF ExclusiveOwner
<1>6. \A c \in Conns : InJob(c)' => InJob(c) /\ ~IsJobOf(workersQ[1], c)
  BY <1>2, <1>3 DEF ExclusiveOwner, InJob
<1>7. \A c \in Conns : InHand(c, w)' => InJob(c) /\ IsJobOf(workersQ[1], c)
  BY <1>2 DEF InHand, InJob
<1>8. \A c \in Conns : \A v \in Workers \ {w} : InHand(c, v)' <=> InHand(c, v)
  BY <1>2 DEF InHand
<1>9. \A c \in Conns : InInput(c)' <=> InInput(c)
  BY <1>1 DEF InInput
<1> QED
  BY <1>1, <1>5, <1>6, <1>7, <1>8, <1>9 DEF ExclusiveOwner, Held

LEMMA OwnerFinish ==
  ASSUME TypeOK, ExclusiveOwner, NEW w \in Workers, RunSend(w) \/ Release(w)
  PROVE  ExclusiveOwner'
<1>1. UNCHANGED <<controllerQ, workersQ>> /\ job' = [job EXCEPT ![w] = Idle]
  BY DEF RunSend, Release, queues
<1>2. \A c \in Conns : ~InHand(c, w)' /\ \A v \in Workers : InHand(c, v)' => InHand(c, v)
  BY <1>1, OwnerFacts DEF InHand, IsJobOf, Idle
<1>3. \A c \in Conns : inWorker'[c] = inWorker[c] \/ InHand(c, w)
  BY OwnerFacts DEF RunSend, Release, InHand, IsJobOf, connVars
<1>4. \A c \in Conns : (InInput(c)' <=> InInput(c)) /\ (InJob(c)' <=> InJob(c))
  BY <1>1 DEF InInput, InJob
<1> QED
  BY <1>1, <1>2, <1>3, <1>4 DEF ExclusiveOwner, Held

LEMMA OwnerStep == IInv /\ [Next]_vars => ExclusiveOwner'
<1> SUFFICES ASSUME IInv, [Next]_vars PROVE ExclusiveOwner'
  OBVIOUS
<1>0. TypeOK /\ ServeInv /\ ExclusiveOwner
  BY DEF IInv
<1>1. ASSUME NEW c \in Conns, Client(c) PROVE ExclusiveOwner'
  BY <1>0, <1>1, OwnerAnnounce
     DEF Client, Connect, Send, Leave, connVars, queues, workerVars
<1>2. CASE Collect \/ Poll \/ Accept
  BY <1>0, <1>2, OwnerAnnounce DEF Collect, Poll, Accept, connVars, queues, workerVars
<1>3. CASE Serve
  <2>1. PICK s \in todo : IF s \in hup THEN CloseServed(s) ELSE ProcessConnection(s)
    BY <1>3 DEF Serve
  <2>2. s \in Sockets /\ clients[s] \in Conns /\ ~inWorker[clients[s]]
    BY <1>0 DEF TypeOK, ServeInv
  <2>3. UNCHANGED <<workersQ, job>>
    BY <1>3 DEF Serve, workerVars
  <2>4. Dispatch(clients[s]) \/ (CloseConnection(s) /\ UNCHANGED inWorker)
    BY <2>1 DEF CloseServed, ProcessConnection, Receive, ReceiveStale
  <2> QED
    BY <1>0, <2>2, <2>3, <2>4, OwnerDispatch, OwnerAnnounce DEF CloseConnection
<1>4. CASE HandleClose
  BY <1>0, <1>4, OwnerAnnounce DEF HandleClose, CloseConnection, workerVars
<1>5. CASE HandleInput
  <2> DEFINE d == Head(controllerQ)
  <2>1. d \in Conns
    BY <1>0, <1>5 DEF HandleInput, TypeOK
  <2>2. controllerQ # << >> /\ controllerQ' = Tail(controllerQ) /\ UNCHANGED job
    BY <1>5 DEF HandleInput, workerVars
  <2>3. buffer[d] # NoRequest => buffer[d] \in Request
    BY <1>0, <2>1 DEF TypeOK
  <2>4. \/ UNCHANGED <<workersQ, inWorker>>
        \/ workersQ' = workersQ /\ inWorker' = [inWorker EXCEPT ![d] = FALSE]
        \/ /\ inWorker' = inWorker
           /\ \E req \in Request : workersQ' =
                Append(workersQ, [type |-> "process", conn |-> d, req |-> req])
    BY <1>5, <2>3 DEF HandleInput
  <2> QED
    BY <1>0, <2>1, <2>2, <2>4, OwnerInput
<1>6. CASE ResetConnection
  BY <1>0, <1>6, OwnerAnnounce DEF ResetConnection, queues, workerVars
<1>7. CASE HandleBroadcast
  BY <1>0, <1>7, OwnerBroadcast
<1>8. ASSUME NEW w \in Workers, RunProcess(w) PROVE ExclusiveOwner'
  <2>1. controllerQ' \in {controllerQ, Append(controllerQ, Broadcast)}
    BY <1>8 DEF RunProcess, Execute, Login, Logout, Regular, Kick
  <2> QED
    BY <1>0, <1>8, <2>1, OwnerAnnounce DEF RunProcess, connVars
<1>9. ASSUME NEW w \in Workers, Take(w) \/ RunSend(w) \/ Release(w) PROVE ExclusiveOwner'
  BY <1>0, <1>9, OwnerTake, OwnerFinish
<1>10. CASE UNCHANGED vars
  BY <1>0, <1>10, OwnerAnnounce DEF vars, connVars, queues, workerVars
<1> QED
  BY <1>1, <1>2, <1>3, <1>4, <1>5, <1>6, <1>7, <1>8, <1>9, <1>10
     DEF Next, Listener, Controller, Worker

LEMMA InvariantHolds == Spec => []IInv
<1>1. IInv /\ [Next]_vars => IInv'
  BY TypeStep, TablesStep, ServeStep, OwnerStep DEF IInv
<1> QED
  BY <1>1, InitIInv, PTL DEF Spec

\* The variables have their types.
THEOREM TypeCorrect == Spec => []TypeOK
<1>1. IInv => TypeOK
  BY DEF IInv
<1> QED
  BY <1>1, InvariantHolds, PTL

\* A connection has one input event, one queued job or one job in a worker's
\* hands, or none, and is marked in_worker while it has (listener.c,
\* input_msg_event.c, process_message_job.c); the deleter of the input event is
\* not counted.
THEOREM OwnershipCorrect == Spec => []ExclusiveOwner
<1>1. IInv => ExclusiveOwner
  BY DEF IInv
<1> QED
  BY <1>1, InvariantHolds, PTL

\* The map of clients, the live connection objects and the session table agree.
THEOREM TablesCorrect == Spec => []TablesAgree
<1>1. IInv => TablesAgree
  BY DEF IInv
<1> QED
  BY <1>1, InvariantHolds, PTL

-----------------------------------------------------------------------------
(* No connection is stranded, each end of the program needs its cause, and  *)
(* the messages of a client are handled in the order it sent them.         *)

\* As long as nobody is early, a client has sent something only when its
\* connection was at rest, and has left at such a time.
QuietInv ==
    \A c \in Conns :
      /\ inbox[c] # << >> => Len(inbox[c]) = 1 /\ ~inWorker[c] /\ buffer[c] = NoRequest
      /\ peer[c] # "open" => Quiet(c)

\* The controller finds a message in the object that it is given.
MessageInv ==
    \A c \in Conns :
      /\ InInput(c) => buffer[c] # NoRequest
      /\ window = c => buffer[c] # NoRequest /\ ~InInput(c)

\* The listener serves a descriptor only when there is something to read, or
\* its client has left.
ReadyInv ==
    lpc \in {"accept", "serve"} =>
      \A s \in todo : /\ inbox[clients[s]] # << >> \/ peer[clients[s]] # "open"
                      /\ s \in hup => peer[clients[s]] # "open"

\* As long as nobody is early and no worker has posted a close event, who
\* holds a connection object finds it allocated.
LiveInv ==
    \A c \in Conns :
      /\ Held(c) => object[c] = "live"
      /\ window = c => object[c] = "live"

LEMMA InvariantStep ==
  ASSUME IInv, [Next]_vars
  PROVE  IInv'
  BY TypeStep, TablesStep, ServeStep, OwnerStep DEF IInv

-----------------------------------------------------------------------------
(* What a step does to the holders of the connections. *)

LEMMA HeldAnnounce ==
  ASSUME TypeOK, UNCHANGED <<workersQ, job>>,
         controllerQ' \in {controllerQ, Append(controllerQ, Broadcast)}
  PROVE  \A c \in Conns : (InInput(c)' <=> InInput(c)) /\ (Held(c)' <=> Held(c))
<1>1. \A c \in Conns, i \in DOMAIN controllerQ' : controllerQ'[i] = c =>
        i \in DOMAIN controllerQ /\ controllerQ[i] = c
  BY OwnerFacts
<1>2. \A i \in DOMAIN controllerQ : i \in DOMAIN controllerQ' /\ controllerQ'[i] = controllerQ[i]
  BY OwnerFacts
<1> QED
  BY <1>1, <1>2 DEF Held, InInput, InJob, InHand

LEMMA HeldDispatch ==
  ASSUME TypeOK, NEW d \in Conns, Dispatch(d), UNCHANGED <<workersQ, job>>
  PROVE  /\ InInput(d)' /\ Held(d)'
         /\ \A c \in Conns \ {d} : (InInput(c)' <=> InInput(c)) /\ (Held(c)' <=> Held(c))
<1>1. \A i \in DOMAIN controllerQ' :
        \/ i \in DOMAIN controllerQ /\ controllerQ'[i] = controllerQ[i]
        \/ controllerQ'[i] = d
  BY OwnerFacts DEF Dispatch
<1>2. \A i \in DOMAIN controllerQ : i \in DOMAIN controllerQ' /\ controllerQ'[i] = controllerQ[i]
  BY OwnerFacts DEF Dispatch
<1>3. Len(controllerQ) + 1 \in DOMAIN controllerQ' /\ controllerQ'[Len(controllerQ) + 1] = d
  BY OwnerFacts DEF Dispatch
<1> QED
  BY <1>1, <1>2, <1>3 DEF Held, InInput, InJob, InHand

\* The head of the controller's queue is taken, and something that is no job of
\* another connection may enter the workers' queue.
LEMMA HeldPop ==
  ASSUME TypeOK, controllerQ # << >>, controllerQ' = Tail(controllerQ), UNCHANGED job,
         workersQ' \in Seq(Job), NEW d \in Conns \cup {Broadcast}, d = Head(controllerQ),
         \A i \in DOMAIN workersQ : i \in DOMAIN workersQ' /\ workersQ'[i] = workersQ[i],
         \A i \in DOMAIN workersQ' : \/ i \in DOMAIN workersQ
                                     \/ \A c \in Conns \ {d} : ~IsJobOf(workersQ'[i], c)
  PROVE  \A c \in Conns \ {d} : (InInput(c)' <=> InInput(c)) /\ (Held(c)' <=> Held(c))
<1> SUFFICES ASSUME NEW c \in Conns \ {d}
             PROVE  (InInput(c)' <=> InInput(c)) /\ (Held(c)' <=> Held(c))
  OBVIOUS
<1>1. InInput(c)' => InInput(c)
  BY OwnerFacts, TailFacts DEF InInput
<1>2. InInput(c) => InInput(c)'
  <2>1. \A i \in DOMAIN controllerQ : i # 1 =>
          i - 1 \in DOMAIN controllerQ' /\ controllerQ'[i - 1] = controllerQ[i]
    BY OwnerFacts, TailFacts
  <2>2. controllerQ[1] # c
    BY OwnerFacts, TailFacts
  <2> QED
    BY <2>1, <2>2 DEF InInput
<1>3. InJob(c)' <=> InJob(c)
  BY DEF InJob
<1> QED
  BY <1>1, <1>2, <1>3 DEF Held, InHand

LEMMA HeldTake ==
  ASSUME TypeOK, NEW w \in Workers, Take(w)
  PROVE  \A c \in Conns : (InInput(c)' <=> InInput(c)) /\ (Held(c)' <=> Held(c))
<1> SUFFICES ASSUME NEW c \in Conns
             PROVE  (InInput(c)' <=> InInput(c)) /\ (Held(c)' <=> Held(c))
  OBVIOUS
<1>1. InInput(c)' <=> InInput(c)
  BY DEF Take, InInput
<1>2. /\ 1 \in DOMAIN workersQ /\ job'[w] = workersQ[1]
      /\ \A v \in Workers \ {w} : job'[v] = job[v]
  BY OwnerFacts, TailFacts DEF Take
<1>3. ~InHand(c, w)
  BY JobTypes DEF Take, InHand, IsJobOf
<1>4. \A i \in DOMAIN workersQ' : i + 1 \in DOMAIN workersQ /\ workersQ'[i] = workersQ[i + 1]
  BY OwnerFacts, TailFacts DEF Take
<1>5. \A i \in DOMAIN workersQ : i # 1 =>
        i - 1 \in DOMAIN workersQ' /\ workersQ'[i - 1] = workersQ[i]
  BY OwnerFacts, TailFacts DEF Take
<1>6. InJob(c) => InJob(c)' \/ InHand(c, w)'
  BY <1>2, <1>5 DEF InJob, InHand
<1>7. InJob(c)' \/ InHand(c, w)' => InJob(c)
  BY <1>2, <1>4 DEF InJob, InHand
<1>8. \A v \in Workers \ {w} : InHand(c, v)' <=> InHand(c, v)
  BY <1>2 DEF InHand
<1> QED
  BY <1>1, <1>3, <1>6, <1>7, <1>8 DEF Held

\* Only the connection of a process job is let go.
LEMMA HeldFinish ==
  ASSUME TypeOK, NEW w \in Workers, RunSend(w) \/ Release(w)
  PROVE  \A c \in Conns : /\ InInput(c)' <=> InInput(c)
                          /\ Held(c)' => Held(c)
                          /\ ~InHand(c, w) => (Held(c)' <=> Held(c))
<1>1. UNCHANGED <<controllerQ, workersQ>> /\ job' = [job EXCEPT ![w] = Idle]
  BY DEF RunSend, Release, queues
<1>2. \A c \in Conns : /\ ~InHand(c, w)'
                       /\ \A v \in Workers \ {w} : InHand(c, v)' <=> InHand(c, v)
  BY <1>1, OwnerFacts DEF InHand, IsJobOf, Idle
<1> QED
  BY <1>1, <1>2 DEF Held, InInput, InJob

-----------------------------------------------------------------------------
(* No connection is stranded. *)

\* input_msg_event_handler moves the connection to the workers' queue or marks
\* it free, unless there is a memory error.
LEMMA HeldInput ==
  ASSUME TypeOK, HandleInput, NEW d \in Conns, d = Head(controllerQ)
  PROVE  /\ \A c \in Conns \ {d} : (InInput(c)' <=> InInput(c)) /\ (Held(c)' <=> Held(c))
         /\ fault' = "none" => inWorker' = [inWorker EXCEPT ![d] = FALSE] \/ Held(d)'
         /\ workersQ' \in Seq(Job)
         /\ \A i \in DOMAIN workersQ' :
              \/ i \in DOMAIN workersQ /\ workersQ'[i] = workersQ[i]
              \/ /\ buffer[d] # NoRequest
                 /\ workersQ'[i].conn = d /\ workersQ'[i].req = buffer[d]
<1> DEFINE new == [type |-> "process", conn |-> d, req |-> buffer[d]]
<1>1. buffer[d] # NoRequest => new \in Job
  <2>1. buffer[d] # NoRequest => buffer[d] \in Request
    BY DEF TypeOK
  <2> QED
    BY <2>1 DEF Job, ProcessJob
<1>2. \/ workersQ' = workersQ
         /\ (fault' = "none" => inWorker' = [inWorker EXCEPT ![d] = FALSE])
      \/ buffer[d] # NoRequest /\ workersQ' = Append(workersQ, new)
  BY DEF HandleInput
<1>3. /\ IsJobOf(new, d) /\ \A c \in Conns \ {d} : ~IsJobOf(new, c)
      /\ new.conn = d /\ new.req = buffer[d]
  BY DEF IsJobOf
<1> HIDE DEF new
<1>4. /\ workersQ' \in Seq(Job)
      /\ \A i \in DOMAIN workersQ : i \in DOMAIN workersQ' /\ workersQ'[i] = workersQ[i]
      /\ \A i \in DOMAIN workersQ' : \/ i \in DOMAIN workersQ
                                     \/ workersQ'[i] = new /\ buffer[d] # NoRequest
      /\ \/ fault' = "none" => inWorker' = [inWorker EXCEPT ![d] = FALSE]
         \/ Len(workersQ) + 1 \in DOMAIN workersQ' /\ workersQ'[Len(workersQ) + 1] = new
  <2>1. CASE workersQ' = workersQ
             /\ (fault' = "none" => inWorker' = [inWorker EXCEPT ![d] = FALSE])
    BY <2>1, OwnerFacts
  <2>2. CASE buffer[d] # NoRequest /\ workersQ' = Append(workersQ, new)
    BY <1>1, <2>2, OwnerFacts, AppendFacts
  <2> QED
    BY <1>2, <2>1, <2>2
<1>5. \A c \in Conns \ {d} : (InInput(c)' <=> InInput(c)) /\ (Held(c)' <=> Held(c))
  <2>1. controllerQ # << >> /\ controllerQ' = Tail(controllerQ) /\ UNCHANGED job
    BY DEF HandleInput, workerVars
  <2>2. \A i \in DOMAIN workersQ' : \/ i \in DOMAIN workersQ
                                    \/ \A c \in Conns \ {d} : ~IsJobOf(workersQ'[i], c)
    BY <1>3, <1>4
  <2> QED
    BY <1>4, <2>1, <2>2, HeldPop
<1>6. fault' = "none" => inWorker' = [inWorker EXCEPT ![d] = FALSE] \/ Held(d)'
  BY <1>3, <1>4 DEF Held, InJob
<1> QED
  BY <1>3, <1>4, <1>5, <1>6

LEMMA HeldBroadcast ==
  ASSUME TypeOK, HandleBroadcast
  PROVE  /\ \A c \in Conns : (InInput(c)' <=> InInput(c)) /\ (Held(c)' <=> Held(c))
         /\ workersQ' \in Seq(Job)
         /\ \A i \in DOMAIN workersQ' :
              \/ i \in DOMAIN workersQ /\ workersQ'[i] = workersQ[i]
              \/ workersQ'[i].type = "send"
<1>1. PICK order \in InKeyOrder(Registered) :
        workersQ' = workersQ \o [i \in DOMAIN order |-> [type |-> "send", sid |-> order[i]]]
  BY DEF HandleBroadcast
<1> DEFINE sends == [i \in DOMAIN order |-> [type |-> "send", sid |-> order[i]]]
<1>2. order \in Seq(Sockets) /\ DOMAIN order = 1..Cardinality(Registered)
      /\ Cardinality(Registered) \in Nat
  BY OrderType DEF Registered
<1>3. sends \in Seq(Job) /\ \A i \in DOMAIN sends : sends[i].type = "send"
  BY <1>2 DEF Job, SendJob
<1>4. workersQ' = workersQ \o sends
  BY <1>1
<1> HIDE DEF sends
<1>5. /\ workersQ' \in Seq(Job)
      /\ \A i \in DOMAIN workersQ' :
           \/ i \in DOMAIN workersQ /\ workersQ'[i] = workersQ[i]
           \/ workersQ'[i].type = "send"
      /\ \A i \in DOMAIN workersQ : i \in DOMAIN workersQ' /\ workersQ'[i] = workersQ[i]
  BY <1>3, <1>4, OwnerFacts, ConcatFacts
<1>6. \A i \in DOMAIN workersQ' : \/ i \in DOMAIN workersQ
                                  \/ \A c \in Conns : ~IsJobOf(workersQ'[i], c)
  BY <1>5 DEF IsJobOf
<1>7. controllerQ # << >> /\ controllerQ' = Tail(controllerQ) /\ UNCHANGED job
      /\ Broadcast = Head(controllerQ) /\ Conns = Conns \ {Broadcast}
  BY NullAssumption DEF HandleBroadcast, workerVars
<1>8. \A c \in Conns : (InInput(c)' <=> InInput(c)) /\ (Held(c)' <=> Held(c))
  <2>1. \A i \in DOMAIN workersQ' : \/ i \in DOMAIN workersQ
                                    \/ \A c \in Conns \ {Broadcast} : ~IsJobOf(workersQ'[i], c)
    BY <1>6
  <2> QED
    BY <1>5, <1>7, <2>1, HeldPop
<1> QED
  BY <1>5, <1>8

LEMMA StrandedStep ==
  ASSUME IInv, NeverStranded, [Next]_vars
  PROVE  NeverStranded'
<1>0. TypeOK /\ ServeInv /\ ExclusiveOwner /\ inWorker \in [Conns -> BOOLEAN]
  BY DEF IInv, TypeOK
<1> SUFFICES ASSUME fault' = "none"
             PROVE  \A c \in Conns : inWorker'[c] => Held(c)'
  BY DEF NeverStranded
<1>1. CASE UNCHANGED vars
  <2>1. \A c \in Conns : Held(c)' <=> Held(c)
    BY <1>0, <1>1, HeldAnnounce DEF vars, queues, workerVars
  <2> QED
    BY <1>1, <2>1 DEF vars, connVars, NeverStranded
<1>2. ASSUME Next PROVE \A c \in Conns : inWorker'[c] => Held(c)'
  <2>0. \A c \in Conns : inWorker[c] => Held(c)
    BY <1>2 DEF Next, NeverStranded
  \* Steps that leave the connections where they are.
  <2>1. ASSUME UNCHANGED <<workersQ, job, inWorker>>,
               controllerQ' \in {controllerQ, Append(controllerQ, Broadcast)}
        PROVE  \A c \in Conns : inWorker'[c] => Held(c)'
    BY <1>0, <2>0, <2>1, HeldAnnounce
  <2>2. ASSUME NEW c \in Conns, Client(c) PROVE \A d \in Conns : inWorker'[d] => Held(d)'
    BY <2>1, <2>2 DEF Client, Connect, Send, Leave, connVars, queues, workerVars
  <2>3. CASE Collect \/ Poll \/ Accept \/ HandleClose
    BY <2>1, <2>3
       DEF Collect, Poll, Accept, HandleClose, CloseConnection, connVars, queues, workerVars
  <2>4. CASE Serve
    <3>1. PICK s \in todo : IF s \in hup THEN CloseServed(s) ELSE ProcessConnection(s)
      BY <2>4 DEF Serve
    <3>2. clients[s] \in Conns
      BY <1>0 DEF TypeOK, ServeInv
    <3>3. UNCHANGED <<workersQ, job>>
      BY <2>4 DEF Serve, workerVars
    <3>4. Dispatch(clients[s]) \/ (CloseConnection(s) /\ UNCHANGED inWorker)
      BY <3>1 DEF CloseServed, ProcessConnection, Receive, ReceiveStale
    <3>5. CASE Dispatch(clients[s])
      <4>1. \A c \in Conns \ {clients[s]} : inWorker'[c] = inWorker[c]
        BY <1>0, <3>5 DEF Dispatch
      <4> QED
        BY <1>0, <2>0, <3>2, <3>3, <3>5, <4>1, HeldDispatch
    <3> QED
      BY <2>1, <3>3, <3>4, <3>5 DEF CloseConnection
  <2>5. CASE HandleInput
    <3>1. PICK d \in Conns : d = Head(controllerQ)
      BY <1>0, <2>5 DEF HandleInput, TypeOK
    <3>2. \A c \in Conns \ {d} : inWorker'[c] = inWorker[c]
      BY <1>0, <2>5, <3>1 DEF HandleInput
    <3>3. inWorker'[d] => Held(d)'
      BY <1>0, <2>5, <3>1, HeldInput
    <3> QED
      BY <1>0, <2>0, <2>5, <3>1, <3>2, <3>3, HeldInput
  <2>6. CASE ResetConnection
    BY <2>1, <2>6 DEF ResetConnection, queues, workerVars
  <2>7. CASE HandleBroadcast
    BY <1>0, <2>0, <2>7, HeldBroadcast DEF HandleBroadcast, connVars
  <2>8. ASSUME NEW w \in Workers, RunProcess(w)
        PROVE  \A c \in Conns : inWorker'[c] => Held(c)'
    <3>1. controllerQ' \in {controllerQ, Append(controllerQ, Broadcast)}
      BY <2>8 DEF RunProcess, Execute, Login, Logout, Regular, Kick
    <3> QED
      BY <2>1, <2>8, <3>1 DEF RunProcess, connVars
  <2>9. ASSUME NEW w \in Workers, Take(w)
        PROVE  \A c \in Conns : inWorker'[c] => Held(c)'
    BY <1>0, <2>0, <2>9, HeldTake DEF Take, connVars
  <2>10. ASSUME NEW w \in Workers, RunSend(w)
         PROVE  \A c \in Conns : inWorker'[c] => Held(c)'
    <3>1. \A c \in Conns : ~InHand(c, w)
      BY <1>0, <2>10, JobTypes DEF RunSend, InHand, IsJobOf
    <3> QED
      BY <1>0, <2>0, <2>10, <3>1, HeldFinish DEF RunSend, connVars
  <2>11. ASSUME NEW w \in Workers, Release(w)
         PROVE  \A c \in Conns : inWorker'[c] => Held(c)'
    <3> DEFINE d == job[w].conn
    <3>1. d \in Conns /\ \A c \in Conns \ {d} : ~InHand(c, w)
      BY <1>0, <2>11, JobTypes DEF Release, InHand, IsJobOf
    <3>2. inWorker' = [inWorker EXCEPT ![d] = FALSE]
      BY <2>11 DEF Release
    <3> QED
      BY <1>0, <2>0, <2>11, <3>1, <3>2, HeldFinish
  <2> QED
    BY <1>2, <2>2, <2>3, <2>4, <2>5, <2>6, <2>7, <2>8, <2>9, <2>10, <2>11
       DEF Next, Listener, Controller, Worker
<1> QED
  BY <1>1, <1>2

\* A connection marked in_worker is always in somebody's hands who will give it
\* back: no client is forgotten (process_message_job.c:31, input_msg_event.c:24).
THEOREM NeverStrandedCorrect == Spec => []NeverStranded
<1>1. Init => NeverStranded
  BY DEF Init, NeverStranded
<1> QED
  BY <1>1, StrandedStep, InvariantHolds, PTL DEF Spec

-----------------------------------------------------------------------------
(* What each end of the program takes. *)

\* Nobody was early.
Calm ==
    /\ fault \notin {"nullHeader", "sigPipe"}
    /\ QuietInv
    /\ MessageInv
    /\ ReadyInv

\* Nobody was early and nobody is to be disconnected.
Safe == fault = "none" /\ listenerQ = << >> /\ LiveInv

LEMMA CalmClient ==
  ASSUME IInv, Calm, NEW c \in Conns, Client(c), ~early'
  PROVE  Calm'
<1>0. TypeOK /\ ServeInv /\ TablesAgree /\ Conns = Conns
  BY DEF IInv
<1>1. UNCHANGED <<workersQ, job, controllerQ, fault, buffer, inWorker, window, todo,
                  hup, lpc, clients>>
  BY DEF Client, Connect, Send, Leave, connVars, listenerVars, queues, workerVars
<1>2. \A d \in Conns : (InInput(d)' <=> InInput(d)) /\ (Held(d)' <=> Held(d))
  BY <1>0, <1>1, HeldAnnounce
<1>3. MessageInv'
  BY <1>1, <1>2 DEF Calm, MessageInv
<1>5. CASE Connect(c)
  <2>1. UNCHANGED <<inbox, peer>>
    BY <1>5 DEF Connect, peerVars
  <2> QED
    BY <1>1, <1>3, <2>1 DEF Calm, QuietInv, ReadyInv, Quiet
<1>6. CASE Send(c)
  <2>1. PICK kind \in Kinds :
          inbox' = [inbox EXCEPT ![c] = Append(@, [kind |-> kind, n |-> sent[c] + 1])]
    BY <1>6 DEF Send
  <2> DEFINE m == [kind |-> kind, n |-> sent[c] + 1]
  <2>2. Quiet(c)
    BY <1>6 DEF Send
  <2>3. m \in Request
    BY <1>0, <2>2 DEF Request, TypeOK
  <2> HIDE DEF m
  <2>4. /\ inbox'[c] # << >> /\ Len(inbox'[c]) = 1
        /\ \A d \in Conns \ {c} : inbox'[d] = inbox[d]
    <3>1. inbox'[c] = Append(<< >>, m) /\ \A d \in Conns \ {c} : inbox'[d] = inbox[d]
      BY <1>0, <2>1, <2>2 DEF TypeOK, Quiet, m
    <3>2. Append(<< >>, m) # << >> /\ Len(Append(<< >>, m)) = 1
      BY <2>3
    <3> QED
      BY <3>1, <3>2
  <2>5. peer' = peer /\ peer[c] = "open"
    BY <1>6 DEF Send
  <2>6. QuietInv'
    BY <1>1, <2>2, <2>4, <2>5 DEF Calm, QuietInv, Quiet
  <2>8. ReadyInv'
    BY <1>0, <1>1, <2>4, <2>5 DEF Calm, ReadyInv, ServeInv, TypeOK
  <2> QED
    BY <1>1, <1>3, <2>6, <2>8 DEF Calm
<1>7. CASE Leave(c)
  <2>1. inbox' = inbox /\ Quiet(c) /\ \A d \in Conns \ {c} : peer'[d] = peer[d]
    BY <1>0, <1>7, Zenon DEF Leave, TypeOK
  <2>2. peer[c] = "open"
    BY <1>7 DEF Leave
  <2>3. QuietInv'
    BY <1>1, <2>1 DEF Calm, QuietInv, Quiet
  <2>5. peer'[c] # "open"
    BY <1>0, <1>7 DEF Leave, TypeOK
  <2>6. ReadyInv'
    BY <1>0, <1>1, <2>1, <2>5 DEF Calm, ReadyInv, ServeInv, TypeOK
  <2> QED
    BY <1>1, <1>3, <2>3, <2>6 DEF Calm
<1> QED
  BY <1>5, <1>6, <1>7 DEF Client

\* The holders and what they need are as before.
LEMMA CalmSame ==
  ASSUME IInv, Calm, UNCHANGED <<buffer, inWorker, inbox, peer, window>>,
         fault' \notin {"nullHeader", "sigPipe"},
         UNCHANGED <<workersQ, job>>,
         controllerQ' \in {controllerQ, Append(controllerQ, Broadcast)}
  PROVE  fault' \notin {"nullHeader", "sigPipe"} /\ QuietInv' /\ MessageInv'
<1>1. TypeOK
  BY DEF IInv
<1>2. \A d \in Conns : (InInput(d)' <=> InInput(d)) /\ (Held(d)' <=> Held(d))
  BY <1>1, HeldAnnounce
<1> QED
  BY <1>2 DEF Calm, QuietInv, MessageInv, Quiet

LEMMA SafeSame ==
  ASSUME IInv, Safe, UNCHANGED <<window, listenerQ, fault>>,
         \A c \in Conns : object[c] = "live" => object'[c] = "live",
         UNCHANGED <<workersQ, job>>,
         controllerQ' \in {controllerQ, Append(controllerQ, Broadcast)}
  PROVE  Safe'
<1>1. TypeOK
  BY DEF IInv
<1>2. \A d \in Conns : (InInput(d)' <=> InInput(d)) /\ (Held(d)' <=> Held(d))
  BY <1>1, HeldAnnounce
<1> QED
  BY <1>2 DEF Safe, LiveInv

LEMMA SafeClient ==
  ASSUME IInv, Safe, NEW c \in Conns, Client(c)
  PROVE  Safe'
<1>0. TypeOK
  BY DEF IInv
<1>1. UNCHANGED <<workersQ, job, controllerQ, listenerQ, fault, window>>
  BY DEF Client, Connect, Send, Leave, queues, workerVars
<1>2. \A d \in Conns : object[d] = "live" => object'[d] = "live"
  BY <1>0 DEF Client, Connect, Send, Leave, connVars, TypeOK
<1> QED
  BY <1>1, <1>2, SafeSame

\* A close event is served: what it says of the holders holds all the same,
\* only an object is gone.
LEMMA CloseFacts ==
  ASSUME TypeOK, NEW s \in Sockets, CloseConnection(s)
  PROVE  /\ fault' \in {fault, "nullClose"}
         /\ clients[s] # NoConn => fault' = fault
         /\ controllerQ' \in {controllerQ, Append(controllerQ, Broadcast)}
         /\ clients' = [clients EXCEPT ![s] = NoConn]
  BY DEF CloseConnection

LEMMA CalmRound ==
  ASSUME IInv, Calm, fault = "none", Collect \/ Poll \/ Accept \/ HandleClose
  PROVE  Calm'
<1>0. TypeOK /\ ServeInv
  BY DEF IInv
<1>1. CASE Collect
  <2>1. ReadyInv'
    BY <1>1 DEF Collect, ReadyInv
  <2> QED
    BY <1>1, <2>1, CalmSame DEF Collect, connVars, peerVars, queues, workerVars, Calm
<1>2. CASE Poll
  <2>1. ReadyInv'
    BY <1>2 DEF Poll, ReadyInv, connVars, peerVars
  <2> QED
    BY <1>2, <2>1, CalmSame DEF Poll, connVars, peerVars, queues, workerVars, Calm
<1>3. CASE Accept
  <2>2. \A s \in todo : clients'[s] = clients[s]
    BY <1>0, <1>3 DEF Accept, TypeOK, ServeInv
  <2>3. UNCHANGED <<buffer, inWorker, inbox, peer, fault, window, workersQ, job,
                    controllerQ, todo, hup>> /\ lpc = "accept"
    BY <1>3 DEF Accept, peerVars, queues, workerVars
  <2>4. ReadyInv'
    BY <2>2, <2>3 DEF Calm, ReadyInv
  <2> QED
    BY <2>3, <2>4, CalmSame DEF Calm
<1>4. CASE HandleClose
  <2>1. UNCHANGED <<buffer, inWorker, inbox, peer, window, workersQ, job>>
    BY <1>4 DEF HandleClose, peerVars, workerVars
  <2>2. ReadyInv'
    BY <1>4 DEF HandleClose, ReadyInv
  <2>3. /\ fault' \in {"none", "nullClose"}
        /\ controllerQ' \in {controllerQ, Append(controllerQ, Broadcast)}
    <3>1. CASE listenerQ = << >>
      BY <1>4, <3>1 DEF HandleClose
    <3>2. CASE listenerQ # << >>
      <4>1. Head(listenerQ) \in Sockets
        BY <1>0, <3>2 DEF TypeOK
      <4> QED
        BY <1>0, <1>4, <3>2, <4>1, CloseFacts DEF HandleClose
    <3> QED
      BY <3>1, <3>2
  <2> QED
    BY <2>1, <2>2, <2>3, CalmSame DEF Calm
<1> QED
  BY <1>1, <1>2, <1>3, <1>4

LEMMA SafeRound ==
  ASSUME IInv, Safe, Collect \/ Poll \/ Accept \/ HandleClose
  PROVE  Safe'
<1>0. TypeOK
  BY DEF IInv
<1>1. CASE Accept
  <2>1. \A c \in Conns : object[c] = "live" => object'[c] = "live"
    BY <1>0, <1>1 DEF Accept, TypeOK
  <2> QED
    BY <1>1, <2>1, SafeSame DEF Accept, queues, workerVars
<1>2. CASE Collect \/ Poll
  BY <1>2, SafeSame DEF Collect, Poll, connVars, queues, workerVars
<1>3. CASE HandleClose
  BY <1>3, SafeSame DEF HandleClose, workerVars, Safe
<1> QED
  BY <1>1, <1>2, <1>3

\* The listener serves a descriptor: nobody holds its connection, which was
\* reset, and either its client has left or there is a message to read.
LEMMA Served ==
  ASSUME IInv, Calm, Serve
  PROVE  \E s \in todo, c \in Conns :
           /\ todo' = todo \ {s}
           /\ IF s \in hup THEN CloseServed(s) ELSE ProcessConnection(s)
           /\ s \in Sockets /\ clients[s] = c
           /\ inbox[c] # << >> \/ peer[c] # "open"
           /\ s \in hup => peer[c] # "open"
           /\ buffer[c] = NoRequest /\ ~inWorker[c]
           /\ ~Held(c) /\ window # c /\ object[c] = "live" /\ sockid[c] = s
           /\ \A t \in todo \ {s} : clients[t] \in Conns \ {c}
<1>0. TypeOK /\ ServeInv /\ TablesAgree /\ ExclusiveOwner
  BY DEF IInv
<1>1. PICK s \in todo : /\ todo' = todo \ {s}
                       /\ IF s \in hup THEN CloseServed(s) ELSE ProcessConnection(s)
  BY DEF Serve
<1>2. s \in Sockets /\ clients[s] \in Conns /\ ~inWorker[clients[s]] /\ s \in Sockets
  BY <1>0 DEF TypeOK, ServeInv
<1>3. PICK c \in Conns : c = clients[s]
  BY <1>2
<1>4. /\ inbox[c] # << >> \/ peer[c] # "open"
      /\ s \in hup => peer[c] # "open"
      /\ buffer[c] = NoRequest
  BY <1>3 DEF Serve, Calm, ReadyInv, QuietInv, Quiet
<1>6. ~Held(c) /\ window # c /\ object[c] = "live" /\ sockid[c] = s
  <2>1. ~Held(c) /\ window # c
    BY <1>0, <1>2, <1>3, <1>4 DEF ExclusiveOwner, Calm, MessageInv
  <2>2. clients[s] # NoConn
    BY <1>0 DEF ServeInv
  <2> QED
    BY <1>0, <1>2, <1>3, <2>1, <2>2 DEF TablesAgree
<1>7. \A t \in todo \ {s} : clients[t] \in Conns \ {c}
  BY <1>0, <1>2, <1>3 DEF ServeInv, TypeOK, TablesAgree
<1> QED
  BY <1>1, <1>2, <1>3, <1>4, <1>6, <1>7

LEMMA TailOne ==
  ASSUME NEW q \in Seq(Request), Len(q) = 1
  PROVE  Tail(q) = << >>
<1>1. Tail(q) \in Seq(Request) /\ Len(Tail(q)) = 0
  OBVIOUS
<1> QED
  BY <1>1, EmptySeq

LEMMA CalmServe ==
  ASSUME IInv, IInv', Calm, fault = "none", Serve
  PROVE  Calm' /\ (Safe => Safe')
<1>0. TypeOK /\ ServeInv /\ TablesAgree /\ ExclusiveOwner /\ TypeOK'
  BY DEF IInv
<1>1. PICK s \in todo, c \in Conns :
           /\ todo' = todo \ {s}
           /\ IF s \in hup THEN CloseServed(s) ELSE ProcessConnection(s)
           /\ s \in Sockets /\ clients[s] = c
           /\ inbox[c] # << >> \/ peer[c] # "open"
           /\ s \in hup => peer[c] # "open"
           /\ buffer[c] = NoRequest /\ ~inWorker[c]
           /\ ~Held(c) /\ window # c /\ object[c] = "live" /\ sockid[c] = s
           /\ \A t \in todo \ {s} : clients[t] \in Conns \ {c}
  BY Served, Zenon
<1>5. UNCHANGED <<sockid, peer, lpc, hup, listenerQ, workersQ, window, job>> /\ lpc = "serve"
  BY DEF Serve, workerVars
<1>8. ASSUME CloseConnection(s), UNCHANGED inWorker,
             \/ UNCHANGED <<buffer, inbox>>
             \/ /\ inbox[c] # << >> /\ inbox' = [inbox EXCEPT ![c] = Tail(@)]
                /\ buffer' = [buffer EXCEPT ![c] = Head(inbox[c])]
      PROVE  Calm' /\ (Safe => Safe')
  <2>1. /\ UNCHANGED fault
        /\ object' = [object EXCEPT ![c] = "freed"]
        /\ clients' = [clients EXCEPT ![s] = NoConn]
        /\ controllerQ' \in {controllerQ, Append(controllerQ, Broadcast)}
    BY <1>1, <1>8, NullAssumption DEF CloseConnection
  <2>2. \A d \in Conns : (InInput(d)' <=> InInput(d)) /\ (Held(d)' <=> Held(d))
    BY <1>0, <1>5, <2>1, HeldAnnounce
  <2>3. \A d \in Conns \ {c} :
          object'[d] = object[d] /\ buffer'[d] = buffer[d] /\ inbox'[d] = inbox[d]
    BY <1>0, <1>8, <2>1 DEF TypeOK
  <2>4. inbox'[c] = << >> \/ UNCHANGED <<buffer, inbox>>
    <3>1. inbox[c] \in Seq(Request)
      BY <1>0 DEF TypeOK
    <3>2. inbox[c] # << >> => Tail(inbox[c]) = << >>
      BY <3>1, TailOne DEF Calm, QuietInv
    <3> QED
      BY <1>0, <1>8, <3>2 DEF TypeOK
  <2>5. ~(inbox[c] # << >> /\ peer[c] # "open")
    BY DEF Calm, QuietInv, Quiet
  <2>6. QuietInv'
    BY <1>5, <1>8, <2>3, <2>4, <2>5 DEF Calm, QuietInv, Quiet
  <2>7. MessageInv'
    <3>1. ~InInput(c)
      BY <1>1 DEF Held
    <3> QED
      BY <1>1, <1>5, <2>2, <2>3, <3>1 DEF Calm, MessageInv
  <2>8. \A t \in todo' : clients'[t] = clients[t]
    BY <1>0, <1>1, <2>1 DEF TypeOK
  <2>9. ReadyInv'
    BY <1>1, <1>5, <2>3, <2>8 DEF Calm, ReadyInv
  <2>10. Safe => Safe'
    BY <1>1, <1>5, <2>1, <2>2, <2>3 DEF Safe, LiveInv
  <2> QED
    BY <2>1, <2>6, <2>7, <2>9, <2>10 DEF Calm
<1>9. CASE inbox[c] # << >> /\ Dispatch(c) /\ inbox' = [inbox EXCEPT ![c] = Tail(@)]
           /\ buffer' = [buffer EXCEPT ![c] = Head(inbox[c])]
  <2>1. inbox[c] \in Seq(Request) /\ Len(inbox[c]) = 1 /\ peer[c] = "open"
    BY <1>0, <1>9 DEF TypeOK, Calm, QuietInv, Quiet
  <2>2. /\ inbox'[c] = << >> /\ \A d \in Conns \ {c} : inbox'[d] = inbox[d]
    <3>1. Tail(inbox[c]) = << >>
      BY <2>1, TailOne
    <3> QED
      BY <1>0, <1>9, <3>1 DEF TypeOK
  <2>3. /\ buffer'[c] = Head(inbox[c]) /\ buffer'[c] # NoRequest
        /\ \A d \in Conns \ {c} : buffer'[d] = buffer[d]
    <3>1. Head(inbox[c]) \in Request
      BY <2>1
    <3>2. NoRequest \notin Request
      BY NullAssumption DEF Request
    <3> QED
      BY <1>0, <1>9, <3>1, <3>2 DEF TypeOK
  <2>4. \A d \in Conns \ {c} : inWorker'[d] = inWorker[d]
    BY <1>0, <1>9 DEF TypeOK, Dispatch
  <2>5. UNCHANGED <<clients, object, fault>>
    BY <1>9 DEF Dispatch
  <2>6. /\ InInput(c)' /\ Held(c)'
        /\ \A d \in Conns \ {c} : (InInput(d)' <=> InInput(d)) /\ (Held(d)' <=> Held(d))
    BY <1>0, <1>5, <1>9, HeldDispatch
  <2>7. QuietInv'
    BY <1>5, <2>1, <2>2, <2>3, <2>4 DEF Calm, QuietInv, Quiet
  <2>8. MessageInv'
    BY <1>1, <1>5, <2>3, <2>6 DEF Calm, MessageInv
  <2>9. Safe => Safe'
    BY <1>1, <1>5, <2>5, <2>6 DEF Safe, LiveInv
  <2>10. ReadyInv'
    BY <1>1, <1>5, <2>2, <2>5 DEF Calm, ReadyInv
  <2> QED
    BY <2>5, <2>7, <2>8, <2>9, <2>10 DEF Calm
<1>10. ~ReceiveStale(s)
  BY <1>1 DEF ReceiveStale
<1>11. CASE CloseServed(s)
  BY <1>8, <1>11 DEF CloseServed
<1>12. CASE Receive(s)
  BY <1>1, <1>8, <1>9, <1>11, <1>12 DEF Receive
<1> QED
  BY <1>1, <1>10, <1>11, <1>12 DEF ProcessConnection

LEMMA CalmController ==
  ASSUME IInv, IInv', Calm, fault = "none", Controller
  PROVE  Calm' /\ (Safe => Safe')
<1>0. TypeOK /\ ServeInv /\ ExclusiveOwner /\ TypeOK'
  BY DEF IInv
<1>1. CASE HandleInput
  <2>1. PICK c \in Conns : c = Head(controllerQ)
    BY <1>0, <1>1 DEF HandleInput, TypeOK
  <2>2. InInput(c)
    BY <1>0, <1>1, <2>1, OwnerFacts, TailFacts DEF InInput, HandleInput
  <2>3. Held(c) /\ buffer[c] # NoRequest /\ inWorker[c] /\ peer[c] = "open"
    BY <1>0, <2>2 DEF Calm, MessageInv, QuietInv, Quiet, Held, ExclusiveOwner
  <2>4. UNCHANGED <<object, buffer, inbox, peer, clients, todo, hup, lpc, listenerQ, job>>
    BY <1>1 DEF HandleInput, peerVars, listenerVars, workerVars
  <2>5. /\ fault' \in {"none", "freedConn"} /\ window = NoConn
        /\ window' = NoConn \/ window' = c
        /\ object[c] = "live" => fault' = "none" /\ window' = c
    BY <1>1, <2>1, <2>3 DEF HandleInput, SendStatus
  <2>6. ~InInput(c)'
    <3>1. \A i \in DOMAIN controllerQ' :
            i + 1 \in DOMAIN controllerQ /\ i + 1 # 1 /\ controllerQ'[i] = controllerQ[i + 1]
      BY <1>0, <1>1, OwnerFacts, TailFacts DEF HandleInput
    <3>2. 1 \in DOMAIN controllerQ /\ controllerQ[1] = c
      BY <1>0, <1>1, <2>1, OwnerFacts, TailFacts DEF HandleInput
    <3> QED
      BY <1>0, <3>1, <3>2 DEF InInput, ExclusiveOwner
  <2>7. \A d \in Conns : inWorker'[d] => inWorker[d]
    BY <1>0, <1>1, <2>1 DEF HandleInput, TypeOK
  <2>8. \A d \in Conns \ {c} : (InInput(d)' <=> InInput(d)) /\ (Held(d)' <=> Held(d))
    BY <1>0, <1>1, <2>1, HeldInput
  <2>9. MessageInv'
    BY <2>3, <2>4, <2>5, <2>6, <2>8, NullAssumption DEF Calm, MessageInv
  <2>10. QuietInv'
    BY <1>0, <2>4, <2>7 DEF Calm, QuietInv, Quiet
  <2>11. Safe => Safe'
    BY <2>3, <2>4, <2>5, <2>8, NullAssumption DEF Safe, LiveInv
  <2>12. ReadyInv'
    BY <2>4 DEF Calm, ReadyInv
  <2> QED
    BY <2>5, <2>9, <2>10, <2>11, <2>12 DEF Calm
<1>2. CASE ResetConnection
  <2>1. window \in Conns /\ ~InInput(window)
    BY <1>0, <1>2 DEF ResetConnection, TypeOK, Calm, MessageInv
  <2>2. /\ window' = NoConn
        /\ UNCHANGED <<object, inWorker, inbox, peer, clients, todo, hup, lpc, listenerQ,
                       controllerQ, workersQ, job>>
        /\ \/ buffer' = [buffer EXCEPT ![window] = NoRequest] /\ fault' = "none"
           \/ buffer' = buffer /\ fault' = "freedConn" /\ object[window] # "live"
    BY <1>2, <2>1 DEF ResetConnection, peerVars, listenerVars, queues, workerVars
  <2>3. \A c \in Conns : buffer'[c] = NoRequest \/ buffer'[c] = buffer[c]
    BY <1>0, <2>1, <2>2 DEF TypeOK
  <2>4. \A c \in Conns : (InInput(c)' <=> InInput(c)) /\ (Held(c)' <=> Held(c))
    BY <1>0, <2>2, HeldAnnounce
  <2>5. \A c \in Conns \ {window} : buffer'[c] = buffer[c]
    BY <1>0, <2>1, <2>2 DEF TypeOK
  <2>6. MessageInv'
    BY <2>1, <2>2, <2>4, <2>5, NullAssumption DEF Calm, MessageInv
  <2>7. QuietInv' /\ ReadyInv'
    BY <2>2, <2>3 DEF Calm, QuietInv, ReadyInv, Quiet
  <2>8. Safe => Safe'
    BY <2>1, <2>2, <2>4, NullAssumption DEF Safe, LiveInv
  <2> QED
    BY <2>2, <2>6, <2>7, <2>8 DEF Calm
<1>3. CASE HandleBroadcast
  <2>1. UNCHANGED <<object, buffer, inWorker, inbox, peer, clients, todo, hup, lpc, listenerQ,
                    window, job, fault>>
    BY <1>3 DEF HandleBroadcast, connVars, peerVars, listenerVars, workerVars
  <2>2. MessageInv' /\ (Safe => Safe')
    BY <1>0, <1>3, <2>1, HeldBroadcast DEF Calm, MessageInv, Safe, LiveInv
  <2>4. QuietInv' /\ ReadyInv'
    BY <2>1 DEF Calm, QuietInv, ReadyInv, Quiet
  <2> QED
    BY <2>1, <2>2, <2>4 DEF Calm
<1> QED
  BY <1>1, <1>2, <1>3 DEF Controller

\* A worker's step.  As long as it posts no close event, it is also safe.
LEMMA CalmWorker ==
  ASSUME IInv, Calm, fault = "none", NEW w \in Workers, Worker(w)
  PROVE  Calm' /\ (Safe /\ ~expelled' => Safe')
<1>0. TypeOK /\ ExclusiveOwner
  BY DEF IInv
<1>1. CASE Take(w)
  <2>1. UNCHANGED <<object, buffer, inWorker, inbox, peer, clients, todo, hup, lpc, listenerQ,
                    window, fault>>
    BY <1>1 DEF Take, connVars, peerVars, listenerVars
  <2>2. MessageInv' /\ (Safe => Safe')
    BY <1>0, <1>1, <2>1, HeldTake DEF Calm, MessageInv, Safe, LiveInv
  <2>5. QuietInv' /\ ReadyInv'
    BY <2>1 DEF Calm, QuietInv, ReadyInv, Quiet
  <2> QED
    BY <2>1, <2>2, <2>5 DEF Calm
<1>2. CASE RunSend(w) \/ Release(w)
  <2>1. UNCHANGED <<object, buffer, inbox, peer, clients, todo, hup, lpc, listenerQ, workersQ,
                    window>>
    BY <1>2 DEF RunSend, Release, connVars, peerVars, listenerVars, queues
  <2>2. fault' \in {"none", "freedConn"} /\ (LiveInv => fault' = "none")
    <3>1. CASE Release(w)
      <4>1. job[w].conn \in Conns /\ Held(job[w].conn)
        BY <1>0, <3>1, JobTypes DEF Release, Held, InHand, IsJobOf
      <4> QED
        BY <3>1, <4>1 DEF Release, LiveInv
    <3> QED
      BY <1>2, <3>1 DEF RunSend
  <2>3. \A c \in Conns : inWorker'[c] => inWorker[c]
    BY <1>0, <1>2 DEF RunSend, Release, connVars, TypeOK
  <2>5. MessageInv'
    BY <1>0, <1>2, <2>1, HeldFinish DEF Calm, MessageInv
  <2>6. Safe => Safe'
    BY <1>0, <1>2, <2>1, <2>2, HeldFinish DEF Safe, LiveInv
  <2>7. QuietInv' /\ ReadyInv'
    BY <1>0, <2>1, <2>3 DEF Calm, QuietInv, ReadyInv, Quiet
  <2> QED
    BY <2>2, <2>5, <2>6, <2>7 DEF Calm
<1>3. CASE RunProcess(w)
  <2>1. job[w].conn \in Conns /\ Held(job[w].conn)
    BY <1>0, <1>3, JobTypes DEF RunProcess, Held, InHand, IsJobOf
  <2>2. peer[job[w].conn] = "open"
    BY <1>0, <2>1 DEF Calm, QuietInv, Quiet, ExclusiveOwner
  <2>3. fault' \in {"none", "freedConn"} /\ (LiveInv => fault' = "none")
    BY <1>3, <2>1, <2>2 DEF RunProcess, SendStatus, LiveInv
  <2>4. controllerQ' \in {controllerQ, Append(controllerQ, Broadcast)}
    BY <1>3 DEF RunProcess, Execute, Login, Logout, Regular, Kick
  <2>5. /\ UNCHANGED <<object, buffer, inWorker, inbox, peer, clients, todo, hup, lpc, workersQ,
                       window, job>>
        /\ ~expelled' => listenerQ' = listenerQ
    BY <1>3 DEF RunProcess, connVars, peerVars, listenerVars
  <2>6. ReadyInv'
    BY <2>5 DEF Calm, ReadyInv
  <2>7. Safe /\ ~expelled' => Safe'
    BY <2>3, <2>4, <2>5, SafeSame DEF Safe
  <2> QED
    BY <2>3, <2>4, <2>5, <2>6, <2>7, CalmSame DEF Calm
<1> QED
  BY <1>1, <1>2, <1>3 DEF Worker

\* Close events come from the workers only.
PostInv == ~expelled => listenerQ = << >> /\ fault # "nullClose"

LEMMA PostStep ==
  ASSUME IInv, PostInv, [Next]_vars
  PROVE  PostInv'
<1>0. TypeOK /\ ServeInv
  BY DEF IInv
<1>1. CASE HandleClose
  BY <1>1 DEF HandleClose, PostInv, workerVars
<1>2. CASE Serve
  <2>1. PICK s \in todo : IF s \in hup THEN CloseServed(s) ELSE ProcessConnection(s)
    BY <1>2 DEF Serve
  <2>2. s \in Sockets /\ clients[s] # NoConn
    BY <1>0 DEF TypeOK, ServeInv
  <2>3. fault' = fault
    BY <1>0, <2>1, <2>2, CloseFacts
       DEF CloseServed, ProcessConnection, Receive, ReceiveStale, Dispatch
  <2> QED
    BY <1>2, <2>3 DEF Serve, PostInv, workerVars
<1>3. ASSUME NEW w \in Workers, RunProcess(w) PROVE PostInv'
  <2>1. fault' \in {fault, "freedConn", "none", "sigPipe"} /\ (expelled' \/ listenerQ' = listenerQ)
    BY <1>3 DEF RunProcess, SendStatus
  <2> QED
    BY <1>3, <2>1 DEF RunProcess, PostInv
<1>4. ASSUME NEW c \in Conns, Client(c) PROVE PostInv'
  BY <1>4 DEF Client, Connect, Send, Leave, PostInv, queues, workerVars
<1>5. CASE Collect \/ Poll \/ Accept
  BY <1>5 DEF Collect, Poll, Accept, PostInv, queues, workerVars
<1>6. CASE Controller
  BY <1>6 DEF Controller, HandleInput, ResetConnection, HandleBroadcast, SendStatus, PostInv,
              queues, workerVars
<1>7. ASSUME NEW w \in Workers, Take(w) \/ RunSend(w) \/ Release(w) PROVE PostInv'
  BY <1>7 DEF Take, RunSend, Release, PostInv, queues
<1>8. CASE UNCHANGED vars
  BY <1>8 DEF vars, queues, workerVars, PostInv
<1> QED
  BY <1>1, <1>2, <1>3, <1>4, <1>5, <1>6, <1>7, <1>8 DEF Next, Listener, Worker

CalmInv == ~early => Calm /\ (~expelled => Safe)

LEMMA CalmStep ==
  ASSUME IInv, CalmInv, [Next]_vars
  PROVE  CalmInv'
<1>1. IInv'
  BY InvariantStep
<1>2. (~early' => ~early) /\ (~expelled' => ~expelled)
  <2>1. ~early' => ~early
    BY Zenon DEF Next, Client, Connect, Send, Leave, Listener, Collect, Poll, Accept, Serve,
           HandleClose, Controller, HandleInput, ResetConnection, HandleBroadcast, Worker, Take,
           RunSend, RunProcess, Release, vars, peerVars
  <2>2. ~expelled' => ~expelled
    BY Zenon DEF Next, Client, Connect, Send, Leave, Listener, Collect, Poll, Accept, Serve,
           HandleClose, Controller, HandleInput, ResetConnection, HandleBroadcast, Worker, Take,
           RunSend, RunProcess, Release, vars, workerVars
  <2> QED
    BY <2>1, <2>2
<1>3. CASE UNCHANGED vars
  <2>1. UNCHANGED <<object, buffer, inWorker, inbox, peer, clients, todo, hup, lpc, listenerQ,
                    controllerQ, workersQ, window, job, fault, early, expelled>>
    BY <1>3 DEF vars, connVars, peerVars, listenerVars, queues, workerVars
  <2>2. ReadyInv <=> ReadyInv'
    BY <2>1 DEF ReadyInv
  <2>3. Calm => Calm'
    BY <2>1, <2>2, CalmSame DEF Calm
  <2>4. Safe => Safe'
    BY <2>1, SafeSame
  <2> QED
    BY <2>1, <2>3, <2>4 DEF CalmInv
<1>4. ASSUME Next, ~early' PROVE Calm' /\ (~expelled' => Safe')
  <2>1. Calm /\ fault = "none" /\ (~expelled' => Safe)
    BY <1>2, <1>4 DEF CalmInv, Next
  <2>2. ASSUME NEW c \in Conns, Client(c) PROVE Calm' /\ (~expelled' => Safe')
    BY <1>4, <2>1, <2>2, CalmClient, SafeClient
  <2>3. CASE Listener
    BY <1>1, <2>1, <2>3, CalmRound, SafeRound, CalmServe DEF Listener
  <2>4. CASE Controller
    BY <1>1, <2>1, <2>4, CalmController
  <2>5. ASSUME NEW w \in Workers, Worker(w) PROVE Calm' /\ (~expelled' => Safe')
    BY <2>1, <2>5, CalmWorker
  <2> QED
    BY <1>4, <2>2, <2>3, <2>4, <2>5 DEF Next
<1> QED
  BY <1>3, <1>4 DEF CalmInv

\* Whatever the clients, the workers and the interleaving: a header that was
\* reset is unpacked, or SIGPIPE raised, only after some client sent or left
\* before the connection was reset; a socket is closed twice only after a logout
\* or a kick; a freed object is used only after one of the two
\* (input_msg_event.c:35, listener.c:79, message.c:162).
THEOREM FaultPreconditionsCorrect == Spec => []FaultPreconditions
<1>1. Init => CalmInv /\ PostInv
  <2> SUFFICES ASSUME Init PROVE Calm /\ Safe
    BY DEF CalmInv, PostInv, Safe
  <2>1. /\ fault = "none" /\ listenerQ = << >> /\ controllerQ = << >> /\ workersQ = << >>
        /\ window = NoConn /\ lpc = "collect" /\ job = [w \in Workers |-> Idle]
        /\ \A c \in Conns : inbox[c] = << >> /\ peer[c] = "open" /\ buffer[c] = NoRequest
    BY DEF Init
  <2>2. \A c \in Conns : ~Held(c) /\ ~InInput(c) /\ window # c
    BY <2>1, NullAssumption DEF Held, InInput, InJob, InHand, IsJobOf, Idle
  <2> QED
    BY <2>1, <2>2 DEF Calm, Safe, QuietInv, MessageInv, LiveInv, ReadyInv
<1>2. CalmInv /\ PostInv => FaultPreconditions
  BY DEF CalmInv, PostInv, Calm, Safe, FaultPreconditions
<1>3. IInv /\ CalmInv /\ PostInv /\ [Next]_vars => CalmInv' /\ PostInv'
  BY CalmStep, PostStep
<1> QED
  BY <1>1, <1>2, <1>3, InvariantHolds, PTL DEF Spec

-----------------------------------------------------------------------------
(* The messages of a client are handled in the order it sent them. *)

\* The messages of c that the listener has taken from its socket.
Received(c) == sent[c] - Len(inbox[c])

\* Every message received has been handled.
UpToDate(c) == Received(c) = done[c]

\* All but r, the last one received, which comes next.
Due(c, r) == r.n = done[c] + 1 /\ Received(c) = done[c] + 1

\* What is still in the socket carries the numbers after those received.
Numbered(c) == \A i \in DOMAIN inbox[c] : inbox[c][i].n = Received(c) + i

\* Wherever a connection is on its way round the threads, it is known whether
\* its last message has been handled: an input event for a connection whose
\* buffer is empty, or about to be reset, is a repetition and brings nothing.
Accounted(c) ==
    /\ \A i \in DOMAIN workersQ : IsJobOf(workersQ[i], c) => Due(c, workersQ[i].req)
    /\ \A w \in Workers : InHand(c, w) =>
         IF ran[w] THEN UpToDate(c) ELSE Due(c, job[w].req)
    /\ InInput(c) =>
         IF window = c \/ buffer[c] = NoRequest THEN UpToDate(c) ELSE Due(c, buffer[c])
    /\ ~Held(c) => UpToDate(c)
    /\ buffer[c] # NoRequest => window = c \/ InInput(c)
    /\ window = c => buffer[c] # NoRequest

\* Only a connection that was accepted is in anybody's hands.
InUse(c) == Held(c) \/ window = c => object[c] \in {"live", "freed"}

OrderOf(c) == Numbered(c) /\ InUse(c) /\ (object[c] # "freed" => Accounted(c))

OrderInv == \A c \in Conns : OrderOf(c)

\* Nothing that concerns c changes, save that its object may be accepted or freed.
LEMMA OrderKept ==
  ASSUME NEW c \in Conns, OrderOf(c), Numbered(c)', Received(c)' = Received(c),
         done'[c] = done[c], buffer'[c] = buffer[c], window' = c <=> window = c,
         object[c] = "freed" => object'[c] = "freed",
         object[c] \in {"live", "freed"} => object'[c] \in {"live", "freed"},
         InInput(c)' <=> InInput(c), Held(c)' <=> Held(c),
         \A i \in DOMAIN workersQ' : IsJobOf(workersQ'[i], c) =>
           \E j \in DOMAIN workersQ : workersQ[j] = workersQ'[i],
         \A w \in Workers : InHand(c, w)' =>
           InHand(c, w) /\ ran'[w] = ran[w] /\ job'[w] = job[w]
  PROVE  OrderOf(c)'
<1>1. InUse(c)'
  BY DEF OrderOf, InUse
<1>2. ASSUME object'[c] # "freed" PROVE Accounted(c)'
  <2>1. Accounted(c)
    BY <1>2 DEF OrderOf
  <2>2. UpToDate(c)' <=> UpToDate(c)
    BY DEF UpToDate
  <2>3. \A i \in DOMAIN workersQ' : IsJobOf(workersQ'[i], c) => Due(c, workersQ[i].req)'
    BY <2>1 DEF Accounted, Due
  <2>4. \A w \in Workers : InHand(c, w)' =>
          IF ran'[w] THEN UpToDate(c)' ELSE Due(c, job[w].req)'
    BY <2>1, <2>2 DEF Accounted, Due
  <2>5. InInput(c)' => IF window' = c \/ buffer'[c] = NoRequest
                       THEN UpToDate(c)' ELSE Due(c, buffer[c])'
    BY <2>1, <2>2 DEF Accounted, Due
  <2>6. /\ ~Held(c)' => UpToDate(c)'
        /\ buffer'[c] # NoRequest => window' = c \/ InInput(c)'
        /\ window' = c => buffer'[c] # NoRequest
    BY <2>1, <2>2 DEF Accounted
  <2> QED
    BY <2>3, <2>4, <2>5, <2>6 DEF Accounted
<1> QED
  BY <1>1, <1>2 DEF OrderOf

\* The same for the steps that change neither the jobs nor their holders.
LEMMA OrderSame ==
  ASSUME TypeOK, UNCHANGED <<workersQ, job, ran>>,
         controllerQ' \in {controllerQ, Append(controllerQ, Broadcast)},
         NEW c \in Conns, OrderOf(c), Numbered(c)', Received(c)' = Received(c),
         done'[c] = done[c], buffer'[c] = buffer[c], window' = c <=> window = c,
         object[c] = "freed" => object'[c] = "freed",
         object[c] \in {"live", "freed"} => object'[c] \in {"live", "freed"}
  PROVE  OrderOf(c)'
<1>1. (InInput(c)' <=> InInput(c)) /\ (Held(c)' <=> Held(c))
  BY HeldAnnounce
<1>2. \A w \in Workers : InHand(c, w)' =>
        InHand(c, w) /\ ran'[w] = ran[w] /\ job'[w] = job[w]
  BY DEF InHand
<1> QED
  BY <1>1, <1>2, OrderKept

LEMMA NumberedSame ==
  ASSUME NEW c \in Conns, OrderOf(c), sent'[c] = sent[c], inbox'[c] = inbox[c]
  PROVE  Numbered(c)' /\ Received(c)' = Received(c)
  BY DEF OrderOf, Numbered, Received

LEMMA OrderClient ==
  ASSUME TypeOK, OrderInv, NEW d \in Conns, Client(d)
  PROVE  OrderInv'
<1>1. UNCHANGED <<workersQ, job, ran, controllerQ, buffer, window, done>>
  BY DEF Client, Connect, Send, Leave, connVars, queues, workerVars
<1>2. \A c \in Conns : object'[c] = object[c] \/ object[c] = "none"
  BY DEF Client, Connect, Send, Leave, connVars, TypeOK
<1>3. ASSUME NEW c \in Conns
      PROVE  Numbered(c)' /\ Received(c)' = Received(c)
  <2>1. CASE sent'[c] = sent[c] /\ inbox'[c] = inbox[c]
    BY <2>1, NumberedSame DEF OrderInv
  <2>2. CASE Send(d) /\ c = d
    <3>1. PICK m \in Request :
            /\ m.n = sent[c] + 1
            /\ inbox' = [inbox EXCEPT ![c] = Append(@, m)]
      <4>1. PICK kind \in Kinds :
              inbox' = [inbox EXCEPT ![c] = Append(@, [kind |-> kind, n |-> sent[c] + 1])]
        BY <2>2 DEF Send
      <4>2. [kind |-> kind, n |-> sent[c] + 1] \in Request
        BY DEF Request, TypeOK
      <4> QED
        BY <4>1, <4>2
    <3>2. /\ inbox[c] \in Seq(Request) /\ sent[c] \in Nat
          /\ inbox'[c] = Append(inbox[c], m) /\ sent'[c] = sent[c] + 1
      BY <2>2, <3>1 DEF TypeOK, Send
    <3>3. Len(inbox'[c]) = Len(inbox[c]) + 1 /\ Len(inbox[c]) \in Nat
      BY <3>2
    <3>4. Received(c)' = Received(c) /\ Received(c) + Len(inbox[c]) + 1 = m.n
      BY <3>1, <3>2, <3>3, SMTT(40) DEF Received
    <3>5. \A i \in DOMAIN inbox'[c] : \/ i \in DOMAIN inbox[c] /\ inbox'[c][i] = inbox[c][i]
                                      \/ i = Len(inbox[c]) + 1 /\ inbox'[c][i] = m
      <4> DEFINE q == inbox[c]
      <4>1. q \in Seq(Request) /\ m \in Request /\ inbox'[c] = Append(q, m)
        BY <3>1, <3>2
      <4> HIDE DEF q
      <4>2. \A i \in DOMAIN Append(q, m) : \/ i \in DOMAIN q /\ Append(q, m)[i] = q[i]
                                           \/ i = Len(q) + 1 /\ Append(q, m)[i] = m
        BY <4>1, AppendFacts
      <4> QED
        BY <4>1, <4>2 DEF q
    <3>6. Received(c) \in Int
      BY <3>2, <3>3 DEF Received
    <3> QED
      BY <3>3, <3>4, <3>5, <3>6 DEF OrderInv, OrderOf, Numbered
  <2>3. ~Send(d) => sent' = sent /\ inbox' = inbox
    BY DEF Client, Connect, Leave, peerVars
  <2>4. Send(d) /\ c # d => sent'[c] = sent[c] /\ inbox'[c] = inbox[c]
    BY DEF Send, TypeOK
  <2> QED
    BY <2>1, <2>2, <2>3, <2>4
<1> QED
  BY <1>1, <1>2, <1>3, OrderSame DEF OrderInv

LEMMA OrderRound ==
  ASSUME TypeOK, OrderInv, Collect \/ Poll \/ Accept \/ HandleClose
  PROVE  OrderInv'
<1>1. UNCHANGED <<workersQ, job, ran, buffer, window, done, sent, inbox>>
  BY DEF Collect, Poll, Accept, HandleClose, connVars, peerVars, queues, workerVars
<1>2. controllerQ' \in {controllerQ, Append(controllerQ, Broadcast)}
  BY DEF Collect, Poll, Accept, HandleClose, CloseConnection, queues
<1>3. \A c \in Conns : \/ object'[c] = object[c]
                       \/ object'[c] = "freed"
                       \/ object[c] = "backlog" /\ object'[c] = "live"
  BY DEF Collect, Poll, Accept, HandleClose, CloseConnection, connVars, TypeOK
<1> QED
  BY <1>1, <1>2, <1>3, OrderSame, NumberedSame DEF OrderInv

\* The listener takes the next message of a connection that is up to date, or
\* repeats an input event, or closes the connection.
LEMMA OrderServe ==
  ASSUME IInv, OrderInv, Serve
  PROVE  OrderInv'
<1>0. TypeOK /\ ServeInv /\ TablesAgree /\ ExclusiveOwner
  BY DEF IInv
<1>1. PICK s \in todo : IF s \in hup THEN CloseServed(s) ELSE ProcessConnection(s)
  BY DEF Serve
<1>2. s \in Sockets /\ clients[s] \in Conns /\ clients[s] # NoConn /\ ~inWorker[clients[s]]
  BY <1>0 DEF TypeOK, ServeInv
<1>3. PICK c \in Conns : c = clients[s]
  BY <1>2
<1>4. object[c] = "live" /\ ~Held(c)
  BY <1>0, <1>2, <1>3 DEF TablesAgree, ExclusiveOwner
<1>5. UNCHANGED <<workersQ, job, ran, window, done, sent>>
  BY DEF Serve, workerVars
<1>6. Accounted(c) /\ UpToDate(c) /\ ~InInput(c)
  BY <1>4 DEF OrderInv, OrderOf, Accounted, Held
<1>7. CASE CloseServed(s)
  <2>1. /\ UNCHANGED <<buffer, inbox>>
        /\ object' = [object EXCEPT ![c] = "freed"]
        /\ controllerQ' \in {controllerQ, Append(controllerQ, Broadcast)}
    BY <1>2, <1>3, <1>7 DEF CloseServed, CloseConnection
  <2>2. \A d \in Conns : object'[d] = object[d] \/ object'[d] = "freed"
    BY <1>0, <2>1 DEF TypeOK
  <2> QED
    BY <1>0, <1>5, <2>1, <2>2, OrderSame, NumberedSame DEF OrderInv
\* A message leaves the socket.
<1>8. ASSUME inbox[c] # << >>, inbox' = [inbox EXCEPT ![c] = Tail(@)],
             buffer' = [buffer EXCEPT ![c] = Head(inbox[c])]
      PROVE  /\ Numbered(c)' /\ Received(c)' = Received(c) + 1
             /\ buffer'[c] # NoRequest /\ buffer'[c].n = Received(c) + 1
             /\ \A d \in Conns \ {c} : buffer'[d] = buffer[d] /\ inbox'[d] = inbox[d]
  <2>1. /\ inbox[c] \in Seq(Request) /\ sent[c] \in Nat
        /\ inbox'[c] = Tail(inbox[c]) /\ buffer'[c] = inbox[c][1] /\ sent'[c] = sent[c]
        /\ \A d \in Conns \ {c} : buffer'[d] = buffer[d] /\ inbox'[d] = inbox[d]
    BY <1>0, <1>5, <1>8 DEF TypeOK
  <2>2. Len(inbox'[c]) = Len(inbox[c]) - 1 /\ Len(inbox[c]) \in Nat
    <3> DEFINE q == inbox[c]
    <3>1. q \in Seq(Request) /\ q # << >> /\ inbox'[c] = Tail(q)
      BY <1>8, <2>1
    <3> HIDE DEF q
    <3>2. Len(Tail(q)) = Len(q) - 1 /\ Len(q) \in Nat
      BY <3>1
    <3> QED
      BY <3>1, <3>2 DEF q
  <2>3. Received(c)' = Received(c) + 1 /\ Received(c) \in Int
    BY <2>1, <2>2 DEF Received
  <2>4. /\ 1 \in DOMAIN inbox[c] /\ inbox[c][1] \in Request
        /\ \A i \in DOMAIN inbox'[c] : /\ i \in Nat /\ i + 1 \in DOMAIN inbox[c]
                                       /\ inbox'[c][i] = inbox[c][i + 1]
    <3> DEFINE q == inbox[c]
    <3>1. q \in Seq(Request) /\ q # << >> /\ inbox'[c] = Tail(q)
      BY <1>8, <2>1
    <3> HIDE DEF q
    <3>2. /\ 1 \in DOMAIN q /\ q[1] \in Request
          /\ \A i \in DOMAIN Tail(q) : i \in Nat /\ i + 1 \in DOMAIN q /\ Tail(q)[i] = q[i + 1]
      BY <3>1, TailFacts
    <3> QED
      BY <3>1, <3>2 DEF q
  <2>5. \A i \in DOMAIN inbox[c] : inbox[c][i].n = Received(c) + i
    BY DEF OrderInv, OrderOf, Numbered
  <2>6. Numbered(c)'
    <3> SUFFICES ASSUME NEW i \in DOMAIN inbox'[c]
                 PROVE  inbox'[c][i].n = Received(c)' + i
      BY DEF Numbered
    <3>1. i \in Nat /\ inbox'[c][i].n = Received(c) + (i + 1)
      BY <2>4, <2>5
    <3> QED
      BY <2>3, <3>1
  <2>7. NoRequest \notin Request
    BY NullAssumption DEF Request
  <2> QED
    BY <2>1, <2>3, <2>4, <2>5, <2>6, <2>7
<1>9. CASE /\ inbox[c] # << >> /\ inbox' = [inbox EXCEPT ![c] = Tail(@)]
           /\ buffer' = [buffer EXCEPT ![c] = Head(inbox[c])]
           /\ CloseConnection(s)
  <2>1. /\ object' = [object EXCEPT ![c] = "freed"]
        /\ controllerQ' \in {controllerQ, Append(controllerQ, Broadcast)}
    BY <1>2, <1>3, <1>9 DEF CloseConnection
  <2>2. object'[c] = "freed" /\ \A d \in Conns \ {c} : object'[d] = object[d]
    BY <1>0, <2>1 DEF TypeOK
  <2>3. OrderOf(c)'
    BY <1>8, <1>9, <2>2 DEF OrderOf, InUse
  <2> QED
    BY <1>0, <1>5, <1>8, <1>9, <2>1, <2>2, <2>3, OrderSame, NumberedSame DEF OrderInv
\* The connection is lent to the controller.
<1>10. ASSUME Dispatch(c)
       PROVE  /\ InInput(c)' /\ Held(c)' /\ object' = object
              /\ \A i \in DOMAIN workersQ' : ~IsJobOf(workersQ'[i], c)
              /\ \A w \in Workers : ~InHand(c, w)'
              /\ \A d \in Conns \ {c} : (InInput(d)' <=> InInput(d)) /\ (Held(d)' <=> Held(d))
  <2>1. object' = object
    BY <1>10 DEF Dispatch
  <2> QED
    BY <1>0, <1>4, <1>5, <1>10, <2>1, HeldDispatch DEF Held, InJob, InHand
<1>11. ASSUME Dispatch(c), \A d \in Conns \ {c} : buffer'[d] = buffer[d] /\ inbox'[d] = inbox[d]
       PROVE  \A d \in Conns \ {c} : OrderOf(d)'
  <2> SUFFICES ASSUME NEW d \in Conns \ {c} PROVE OrderOf(d)'
    OBVIOUS
  <2>1. Numbered(d)' /\ Received(d)' = Received(d) /\ OrderOf(d)
    BY <1>5, <1>11, NumberedSame DEF OrderInv
  <2>2. \A w \in Workers : InHand(d, w)' =>
          InHand(d, w) /\ ran'[w] = ran[w] /\ job'[w] = job[w]
    BY <1>5 DEF InHand
  <2> QED
    BY <1>5, <1>10, <1>11, <2>1, <2>2, OrderKept
<1>12. CASE /\ buffer[c] = NoRequest /\ inbox[c] # << >>
            /\ inbox' = [inbox EXCEPT ![c] = Tail(@)]
            /\ buffer' = [buffer EXCEPT ![c] = Head(inbox[c])] /\ Dispatch(c)
  <2>1. window' # c
    BY <1>5, <1>6, <1>12 DEF Accounted
  <2>2. Due(c, buffer[c])'
    BY <1>5, <1>6, <1>8, <1>12 DEF Due, UpToDate
  <2>3. Accounted(c)'
    BY <1>8, <1>10, <1>12, <2>1, <2>2 DEF Accounted
  <2>4. OrderOf(c)'
    BY <1>4, <1>8, <1>10, <1>12, <2>3 DEF OrderOf, InUse
  <2> QED
    BY <1>8, <1>11, <1>12, <2>4 DEF OrderInv
<1>13. CASE buffer[c] # NoRequest /\ Dispatch(c) /\ UNCHANGED <<buffer, inbox>>
  <2>1. window' = c /\ UpToDate(c)'
    BY <1>5, <1>6, <1>13 DEF Accounted, UpToDate, Received
  <2>2. Accounted(c)'
    BY <1>10, <1>13, <2>1 DEF Accounted
  <2>3. Numbered(c)'
    BY <1>5, <1>13, NumberedSame DEF OrderInv
  <2>4. OrderOf(c)'
    BY <1>4, <1>10, <1>13, <2>2, <2>3 DEF OrderOf, InUse
  <2> QED
    BY <1>11, <1>13, <2>4 DEF OrderInv
<1> QED
  BY <1>1, <1>3, <1>7, <1>9, <1>12, <1>13 DEF ProcessConnection, Receive, ReceiveStale

\* The connection at the head of the controller's queue leaves it, and nobody
\* else has it.
LEMMA HeadInput ==
  ASSUME TypeOK, ExclusiveOwner, NEW c \in Conns, controllerQ # << >>, c = Head(controllerQ),
         controllerQ' = Tail(controllerQ)
  PROVE  /\ InInput(c) /\ ~InInput(c)'
         /\ \A i \in DOMAIN workersQ : ~IsJobOf(workersQ[i], c)
         /\ \A w \in Workers : ~InHand(c, w)
<1>1. /\ \A i \in DOMAIN controllerQ' :
           i + 1 \in DOMAIN controllerQ /\ i + 1 # 1 /\ controllerQ'[i] = controllerQ[i + 1]
      /\ 1 \in DOMAIN controllerQ /\ controllerQ[1] = c
  BY OwnerFacts, TailFacts
<1>2. InInput(c)
  BY <1>1 DEF InInput
<1>3. ~InInput(c)'
  BY <1>1 DEF InInput, ExclusiveOwner
<1> QED
  BY <1>2, <1>3 DEF ExclusiveOwner, InJob

\* The message becomes a job, or is dropped as handled: it is the one that
\* comes next.
LEMMA OrderInput ==
  ASSUME IInv, OrderInv, HandleInput
  PROVE  /\ OrderInv'
         /\ \A c \in Conns : done'[c] = done[c] \/ done'[c] = done[c] + 1
<1>0. TypeOK /\ ExclusiveOwner
  BY DEF IInv
<1>1. PICK c \in Conns : c = Head(controllerQ)
  BY <1>0 DEF HandleInput, TypeOK
<1>2. /\ InInput(c) /\ ~InInput(c)' /\ window = NoConn /\ window # c
      /\ \A i \in DOMAIN workersQ : ~IsJobOf(workersQ[i], c)
      /\ \A w \in Workers : ~InHand(c, w)
  BY <1>0, <1>1, HeadInput, NullAssumption DEF HandleInput
<1>3. UNCHANGED <<object, buffer, sent, inbox, job, ran>>
  BY DEF HandleInput, peerVars, workerVars
<1>4. /\ object[c] \in {"live", "freed"} /\ Held(c)
      /\ object[c] = "live" => Accounted(c)
  BY <1>2 DEF OrderInv, OrderOf, InUse, Held
<1>5. \A w \in Workers : ~InHand(c, w)'
  BY <1>2, <1>3 DEF InHand
<1>6. \A d \in Conns \ {c} : OrderOf(d)' /\ done'[d] = done[d]
  <2> SUFFICES ASSUME NEW d \in Conns \ {c} PROVE OrderOf(d)' /\ done'[d] = done[d]
    OBVIOUS
  <2>1. Numbered(d)' /\ Received(d)' = Received(d) /\ OrderOf(d)
    BY <1>3, NumberedSame DEF OrderInv
  <2>2. done'[d] = done[d]
    BY <1>0, <1>1 DEF HandleInput, TypeOK
  <2>3. window' = d <=> window = d
    BY <1>1, <1>2, NullAssumption DEF HandleInput
  <2>4. \A i \in DOMAIN workersQ' : IsJobOf(workersQ'[i], d) =>
          \E j \in DOMAIN workersQ : workersQ[j] = workersQ'[i]
    BY <1>0, <1>1, HeldInput DEF IsJobOf
  <2>5. \A w \in Workers : InHand(d, w)' =>
          InHand(d, w) /\ ran'[w] = ran[w] /\ job'[w] = job[w]
    BY <1>3 DEF InHand
  <2>6. (InInput(d)' <=> InInput(d)) /\ (Held(d)' <=> Held(d))
    BY <1>0, <1>1, HeldInput
  <2> QED
    BY <1>3, <2>1, <2>2, <2>3, <2>4, <2>5, <2>6, OrderKept
<1>7. Numbered(c)' /\ Received(c)' = Received(c)
  BY <1>3, NumberedSame DEF OrderInv
<1>8. CASE object[c] # "live"
  <2>1. object'[c] = "freed" /\ done' = done
    BY <1>1, <1>3, <1>4, <1>8 DEF HandleInput
  <2>2. OrderOf(c)'
    BY <1>7, <2>1 DEF OrderOf, InUse
  <2> QED
    BY <1>6, <2>1, <2>2 DEF OrderInv
<1>9. CASE object[c] = "live" /\ buffer[c] = NoRequest
  <2>1. UNCHANGED <<done, workersQ, window>>
    BY <1>1, <1>9 DEF HandleInput
  <2>2. UpToDate(c)'
    BY <1>2, <1>4, <1>7, <1>9, <2>1 DEF Accounted, UpToDate
  <2>3. Accounted(c)'
    BY <1>2, <1>3, <1>5, <1>9, <2>1, <2>2 DEF Accounted
  <2>4. OrderOf(c)'
    BY <1>3, <1>7, <1>9, <2>3 DEF OrderOf, InUse
  <2> QED
    BY <1>6, <2>1, <2>4 DEF OrderInv
<1>10. CASE object[c] = "live" /\ buffer[c] # NoRequest
  <2>0. /\ window' = c
        /\ \/ done' = [done EXCEPT ![c] = buffer[c].n] /\ workersQ' = workersQ
           \/ /\ done' = done
              /\ workersQ' = Append(workersQ, [type |-> "process", conn |-> c, req |-> buffer[c]])
    BY <1>1, <1>10 DEF HandleInput
  <2>1. Due(c, buffer[c])
    BY <1>2, <1>4, <1>10 DEF Accounted
  <2>2. \A i \in DOMAIN workersQ' : IsJobOf(workersQ'[i], c) => workersQ'[i].req = buffer[c]
    BY <1>0, <1>1, <1>2, HeldInput
  <2>3. CASE done' = [done EXCEPT ![c] = buffer[c].n] /\ workersQ' = workersQ
    <3>1. done'[c] = done[c] + 1 /\ UpToDate(c)'
      BY <1>0, <1>7, <2>1, <2>3 DEF TypeOK, Due, UpToDate
    <3>2. \A i \in DOMAIN workersQ' : ~IsJobOf(workersQ'[i], c)
      BY <1>2, <2>3
    <3>3. Accounted(c)'
      BY <1>2, <1>3, <1>5, <1>10, <2>0, <3>1, <3>2 DEF Accounted
    <3>4. OrderOf(c)'
      BY <1>3, <1>7, <1>10, <3>3 DEF OrderOf, InUse
    <3> QED
      BY <1>6, <3>1, <3>4 DEF OrderInv
  <2>4. CASE /\ done' = done
             /\ workersQ' = Append(workersQ, [type |-> "process", conn |-> c, req |-> buffer[c]])
    <3>1. \A i \in DOMAIN workersQ' : IsJobOf(workersQ'[i], c) => Due(c, workersQ[i].req)'
      BY <1>7, <2>1, <2>2, <2>4 DEF Due
    <3>2. Held(c)'
      <4> DEFINE new == [type |-> "process", conn |-> c, req |-> buffer[c]]
      <4>1. new \in Job /\ IsJobOf(new, c)
        BY <1>0, <1>10 DEF TypeOK, Job, ProcessJob, IsJobOf
      <4> HIDE DEF new
      <4>2. workersQ' = Append(workersQ, new)
        BY <2>4 DEF new
      <4>3. Len(workersQ) + 1 \in DOMAIN workersQ' /\ workersQ'[Len(workersQ) + 1] = new
        BY <1>0, <4>1, <4>2, OwnerFacts, AppendFacts
      <4> QED
        BY <4>1, <4>3 DEF Held, InJob
    <3>3. Accounted(c)'
      BY <1>2, <1>3, <1>5, <1>10, <2>0, <3>1, <3>2 DEF Accounted
    <3>4. OrderOf(c)'
      BY <1>3, <1>7, <1>10, <3>3 DEF OrderOf, InUse
    <3> QED
      BY <1>6, <2>4, <3>4 DEF OrderInv
  <2> QED
    BY <2>0, <2>3, <2>4
<1> QED
  BY <1>4, <1>8, <1>9, <1>10

\* The buffer is reset when its message has become a job; an input event that
\* was repeated meanwhile brings nothing any more.
LEMMA OrderReset ==
  ASSUME TypeOK, OrderInv, ResetConnection
  PROVE  OrderInv'
<1>1. window \in Conns /\ window' = NoConn
  BY DEF ResetConnection, TypeOK
<1>2. PICK c \in Conns : c = window
  BY <1>1
<1>3. UNCHANGED <<object, sent, inbox, done, controllerQ, workersQ, job, ran>>
  BY DEF ResetConnection, peerVars, queues, workerVars
<1>4. \A d \in Conns \ {c} : buffer'[d] = buffer[d]
  BY <1>2 DEF ResetConnection, TypeOK
<1>5. \A d \in Conns \ {c} : OrderOf(d)'
  BY <1>1, <1>2, <1>3, <1>4, OrderSame, NumberedSame, NullAssumption DEF OrderInv
<1>6. Numbered(c)' /\ Received(c)' = Received(c)
  BY <1>3, NumberedSame DEF OrderInv
<1>7. object'[c] \in {"live", "freed"}
  BY <1>2, <1>3 DEF OrderInv, OrderOf, InUse
<1>8. CASE object[c] = "live"
  <2>1. buffer'[c] = NoRequest
    BY <1>2, <1>8 DEF ResetConnection, TypeOK
  <2>2. Accounted(c) /\ (UpToDate(c)' <=> UpToDate(c))
    BY <1>3, <1>6, <1>8 DEF OrderInv, OrderOf, UpToDate
  <2>3. (InInput(c)' <=> InInput(c)) /\ (Held(c)' <=> Held(c))
    BY <1>3, HeldAnnounce
  <2>4. \A w \in Workers : InHand(c, w)' <=> InHand(c, w)
    BY <1>3 DEF InHand
  <2>5. window' # c
    BY <1>1, NullAssumption
  <2>6. \A i \in DOMAIN workersQ' : IsJobOf(workersQ'[i], c) => Due(c, workersQ[i].req)'
    BY <1>3, <1>6, <2>2 DEF Accounted, Due
  <2>7. \A w \in Workers : InHand(c, w)' =>
          IF ran'[w] THEN UpToDate(c)' ELSE Due(c, job[w].req)'
    BY <1>3, <1>6, <2>2, <2>4 DEF Accounted, Due
  <2>8. InInput(c)' => UpToDate(c)'
    BY <1>2, <2>2, <2>3 DEF Accounted
  <2>9. ~Held(c)' => UpToDate(c)'
    BY <2>2, <2>3 DEF Accounted
  <2>10. Accounted(c)'
    BY <2>1, <2>5, <2>6, <2>7, <2>8, <2>9 DEF Accounted
  <2> QED
    BY <1>5, <1>6, <1>7, <2>10 DEF OrderInv, OrderOf, InUse
<1>9. CASE object[c] # "live"
  <2>1. object'[c] = "freed"
    BY <1>3, <1>7, <1>9
  <2> QED
    BY <1>5, <1>6, <1>7, <2>1 DEF OrderInv, OrderOf, InUse
<1> QED
  BY <1>8, <1>9

LEMMA OrderBroadcast ==
  ASSUME TypeOK, OrderInv, HandleBroadcast
  PROVE  OrderInv'
<1> SUFFICES ASSUME NEW c \in Conns PROVE OrderOf(c)'
  BY DEF OrderInv
<1>1. UNCHANGED <<object, buffer, sent, inbox, done, window, job, ran>>
  BY DEF HandleBroadcast, connVars, peerVars, workerVars
<1>2. Numbered(c)' /\ Received(c)' = Received(c) /\ OrderOf(c)
  BY <1>1, NumberedSame DEF OrderInv
<1>3. \A i \in DOMAIN workersQ' : IsJobOf(workersQ'[i], c) =>
        \E j \in DOMAIN workersQ : workersQ[j] = workersQ'[i]
  BY HeldBroadcast DEF IsJobOf
<1>4. \A w \in Workers : InHand(c, w)' =>
        InHand(c, w) /\ ran'[w] = ran[w] /\ job'[w] = job[w]
  BY <1>1 DEF InHand
<1> QED
  BY <1>1, <1>2, <1>3, <1>4, HeldBroadcast, OrderKept

\* The job at the head of the queue comes into the worker's hands, not run yet.
LEMMA OrderTake ==
  ASSUME TypeOK, OrderInv, NEW w \in Workers, Take(w)
  PROVE  OrderInv'
<1> SUFFICES ASSUME NEW c \in Conns PROVE OrderOf(c)'
  BY DEF OrderInv
<1>1. UNCHANGED <<object, buffer, sent, inbox, done, window, controllerQ>>
  BY DEF Take, connVars, peerVars
<1>2. Numbered(c)' /\ Received(c)' = Received(c) /\ OrderOf(c)
  BY <1>1, NumberedSame DEF OrderInv
<1>3. (InInput(c)' <=> InInput(c)) /\ (Held(c)' <=> Held(c))
  BY HeldTake
<1>4. /\ 1 \in DOMAIN workersQ /\ job'[w] = workersQ[1] /\ ran'[w] = FALSE
      /\ \A v \in Workers \ {w} : job'[v] = job[v] /\ ran'[v] = ran[v]
      /\ \A i \in DOMAIN workersQ' :
           i + 1 \in DOMAIN workersQ /\ workersQ'[i] = workersQ[i + 1]
  <2>1. ran \in [Workers -> BOOLEAN] /\ ran' = [ran EXCEPT ![w] = FALSE]
    BY DEF TypeOK, Take
  <2>2. ran'[w] = FALSE /\ \A v \in Workers \ {w} : ran'[v] = ran[v]
    BY <2>1
  <2> QED
    BY <2>2, OwnerFacts, TailFacts DEF Take
<1>5. InUse(c)'
  BY <1>1, <1>2, <1>3 DEF OrderOf, InUse
<1>6. ASSUME object'[c] # "freed" PROVE Accounted(c)'
  <2>1. Accounted(c) /\ (UpToDate(c)' <=> UpToDate(c))
    BY <1>1, <1>2, <1>6 DEF OrderOf, UpToDate
  <2>2. \A i \in DOMAIN workersQ' : IsJobOf(workersQ'[i], c) => Due(c, workersQ[i].req)'
    BY <1>1, <1>2, <1>4, <2>1 DEF Accounted, Due
  <2>3. InHand(c, w)' => Due(c, job[w].req)'
    BY <1>1, <1>2, <1>4, <2>1 DEF Accounted, Due, InHand
  <2>4. \A v \in Workers \ {w} : InHand(c, v)' =>
          IF ran'[v] THEN UpToDate(c)' ELSE Due(c, job[v].req)'
    BY <1>1, <1>2, <1>4, <2>1 DEF Accounted, Due, InHand
  <2>5. InInput(c)' => IF window' = c \/ buffer'[c] = NoRequest
                       THEN UpToDate(c)' ELSE Due(c, buffer[c])'
    BY <1>1, <1>2, <1>3, <2>1 DEF Accounted, Due
  <2>6. /\ ~Held(c)' => UpToDate(c)'
        /\ buffer'[c] # NoRequest => window' = c \/ InInput(c)'
        /\ window' = c => buffer'[c] # NoRequest
    BY <1>1, <1>3, <2>1 DEF Accounted
  <2>7. \A v \in Workers : InHand(c, v)' =>
          IF ran'[v] THEN UpToDate(c)' ELSE Due(c, job[v].req)'
    BY <1>4, <2>3, <2>4
  <2> QED
    BY <2>2, <2>5, <2>6, <2>7 DEF Accounted
<1> QED
  BY <1>2, <1>5, <1>6 DEF OrderOf

\* The handler of the job handles the message that comes next.
LEMMA OrderRun ==
  ASSUME IInv, OrderInv, NEW w \in Workers, RunProcess(w)
  PROVE  /\ OrderInv'
         /\ \A c \in Conns : done'[c] = done[c] \/ done'[c] = done[c] + 1
<1>0. TypeOK /\ ExclusiveOwner
  BY DEF IInv
<1>1. PICK c \in Conns : c = job[w].conn /\ InHand(c, w)
  BY <1>0, JobTypes DEF RunProcess, InHand, IsJobOf
<1>2. UNCHANGED <<object, buffer, sent, inbox, window, workersQ, job>>
  BY DEF RunProcess, connVars, peerVars
<1>3. controllerQ' \in {controllerQ, Append(controllerQ, Broadcast)}
  BY DEF RunProcess, Execute, Login, Logout, Regular, Kick
<1>4. \A d \in Conns : (InInput(d)' <=> InInput(d)) /\ (Held(d)' <=> Held(d))
  BY <1>0, <1>2, <1>3, HeldAnnounce
<1>5. /\ ~ran[w] /\ ran'[w] = TRUE
      /\ \A v \in Workers \ {w} : ran'[v] = ran[v]
  <2>1. ran \in [Workers -> BOOLEAN] /\ ran' = [ran EXCEPT ![w] = TRUE] /\ ~ran[w]
    BY <1>0 DEF TypeOK, RunProcess
  <2> QED
    BY <2>1
<1>6. /\ ~InInput(c) /\ \A i \in DOMAIN workersQ : ~IsJobOf(workersQ[i], c)
      /\ \A v \in Workers : InHand(c, v) => v = w
      /\ Held(c)
  BY <1>0, <1>1 DEF ExclusiveOwner, InJob, Held
<1>7. \A d \in Conns : Numbered(d)' /\ Received(d)' = Received(d) /\ OrderOf(d)
  BY <1>2, NumberedSame DEF OrderInv
<1>8. \A d \in Conns \ {c} : OrderOf(d)' /\ done'[d] = done[d]
  <2> SUFFICES ASSUME NEW d \in Conns \ {c} PROVE OrderOf(d)' /\ done'[d] = done[d]
    OBVIOUS
  <2>1. done'[d] = done[d]
    BY <1>0, <1>1 DEF RunProcess, TypeOK
  <2>2. ~InHand(d, w)
    BY <1>1 DEF InHand, IsJobOf
  <2>3. \A v \in Workers : InHand(d, v)' =>
          InHand(d, v) /\ ran'[v] = ran[v] /\ job'[v] = job[v]
    BY <1>2, <1>5, <2>2 DEF InHand
  <2> QED
    BY <1>2, <1>4, <1>7, <2>1, <2>3, OrderKept
<1>9. object[c] \in {"live", "freed"}
  BY <1>6, <1>7 DEF OrderOf, InUse
<1>10. CASE object[c] # "live"
  <2>1. object'[c] = "freed" /\ done' = done
    BY <1>1, <1>2, <1>9, <1>10 DEF RunProcess
  <2> QED
    BY <1>7, <1>8, <2>1 DEF OrderInv, OrderOf, InUse
<1>11. CASE object[c] = "live"
  <2>1. Accounted(c) /\ Due(c, job[w].req)
    BY <1>1, <1>5, <1>7, <1>11 DEF OrderOf, Accounted
  <2>2. done'[c] = job[w].req.n
    BY <1>0, <1>1, <1>11 DEF RunProcess, TypeOK
  <2>3. done'[c] = done[c] + 1 /\ UpToDate(c)'
    BY <1>7, <2>1, <2>2 DEF Due, UpToDate
  <2>4. \A v \in Workers : InHand(c, v)' => ran'[v]
    BY <1>2, <1>5, <1>6 DEF InHand
  <2>5. /\ buffer'[c] # NoRequest => window' = c \/ InInput(c)'
        /\ window' = c => buffer'[c] # NoRequest
    BY <1>2, <1>4, <2>1 DEF Accounted
  <2>6. Accounted(c)'
    BY <1>2, <1>4, <1>6, <2>3, <2>4, <2>5 DEF Accounted
  <2>7. OrderOf(c)'
    BY <1>2, <1>7, <1>11, <2>6 DEF OrderOf, InUse
  <2> QED
    BY <1>8, <2>3, <2>7 DEF OrderInv
<1> QED
  BY <1>9, <1>10, <1>11

\* The connection that is given back is up to date.
LEMMA OrderFinish ==
  ASSUME TypeOK, OrderInv, NEW w \in Workers, RunSend(w) \/ Release(w)
  PROVE  OrderInv'
<1> SUFFICES ASSUME NEW c \in Conns PROVE OrderOf(c)'
  BY DEF OrderInv
<1>1. UNCHANGED <<object, buffer, sent, inbox, done, window, controllerQ, workersQ, ran>>
  BY DEF RunSend, Release, connVars, peerVars, queues
<1>2. Numbered(c)' /\ Received(c)' = Received(c) /\ OrderOf(c)
  BY <1>1, NumberedSame DEF OrderInv
<1>3. /\ InInput(c)' <=> InInput(c)
      /\ Held(c)' => Held(c)
      /\ ~InHand(c, w) => (Held(c)' <=> Held(c))
  BY HeldFinish
<1>4. \A v \in Workers : InHand(c, v)' =>
        InHand(c, v) /\ ran'[v] = ran[v] /\ job'[v] = job[v]
  <2>1. job' = [job EXCEPT ![w] = Idle]
    BY DEF RunSend, Release
  <2>2. ~InHand(c, w)' /\ \A v \in Workers \ {w} : job'[v] = job[v]
    BY <2>1, OwnerFacts DEF InHand, IsJobOf, Idle
  <2> QED
    BY <1>1, <2>2 DEF InHand
<1>5. CASE ~InHand(c, w)
  BY <1>1, <1>2, <1>3, <1>4, <1>5, OrderKept
<1>6. CASE InHand(c, w)
  <2>1. ran[w]
    BY <1>6, JobTypes DEF InHand, IsJobOf, RunSend, Release
  <2>2. InUse(c)'
    BY <1>1, <1>2, <1>3 DEF OrderOf, InUse
  <2>3. ASSUME object'[c] # "freed" PROVE Accounted(c)'
    <3>1. Accounted(c)
      BY <1>1, <1>2, <2>3 DEF OrderOf
    <3>2. UpToDate(c)'
      BY <1>1, <1>2, <1>6, <2>1, <3>1 DEF Accounted, UpToDate
    <3>3. /\ \A i \in DOMAIN workersQ' : IsJobOf(workersQ'[i], c) => Due(c, workersQ[i].req)'
          /\ \A v \in Workers : InHand(c, v)' =>
               IF ran'[v] THEN UpToDate(c)' ELSE Due(c, job[v].req)'
          /\ InInput(c)' => IF window' = c \/ buffer'[c] = NoRequest
                            THEN UpToDate(c)' ELSE Due(c, buffer[c])'
      BY <1>1, <1>2, <1>3, <1>4, <3>1, <3>2 DEF Accounted, Due
    <3> QED
      BY <1>1, <1>3, <3>1, <3>2, <3>3 DEF Accounted
  <2> QED
    BY <1>2, <2>2, <2>3 DEF OrderOf
<1> QED
  BY <1>5, <1>6

LEMMA OrderStep ==
  ASSUME IInv, OrderInv, [Next]_vars
  PROVE  /\ OrderInv'
         /\ \A c \in Conns : done'[c] = done[c] \/ done'[c] = done[c] + 1
<1>0. TypeOK
  BY DEF IInv
<1>1. CASE UNCHANGED vars
  <2>1. UNCHANGED <<object, buffer, sent, inbox, done, window, controllerQ, workersQ, job, ran>>
    BY <1>1 DEF vars, connVars, peerVars, queues, workerVars
  <2> QED
    BY <1>0, <2>1, OrderSame, NumberedSame DEF OrderInv
<1>2. ASSUME NEW c \in Conns, Client(c)
      PROVE  OrderInv' /\ done' = done
  BY <1>0, <1>2, OrderClient DEF Client, Connect, Send, Leave
<1>3. CASE Listener
  <2>1. done' = done
    BY <1>3 DEF Listener, Collect, Poll, Accept, Serve, HandleClose
  <2> QED
    BY <1>0, <1>3, <2>1, OrderRound, OrderServe DEF Listener
<1>4. CASE Controller
  <2>1. ResetConnection \/ HandleBroadcast => done' = done
    BY DEF ResetConnection, HandleBroadcast
  <2> QED
    BY <1>0, <1>4, <2>1, OrderInput, OrderReset, OrderBroadcast DEF Controller
<1>5. ASSUME NEW w \in Workers, Worker(w)
      PROVE  /\ OrderInv'
             /\ \A c \in Conns : done'[c] = done[c] \/ done'[c] = done[c] + 1
  <2>1. Take(w) \/ RunSend(w) \/ Release(w) => done' = done
    BY DEF Take, RunSend, Release
  <2> QED
    BY <1>0, <1>5, <2>1, OrderTake, OrderFinish, OrderRun DEF Worker
<1> QED
  BY <1>1, <1>2, <1>3, <1>4, <1>5 DEF Next

\* The messages of one client are handled one by one in the order it sent them,
\* none twice and none left out, for any number of workers and clients and with
\* every memory error the code has: a connection that is dispatched again before
\* its reset may stop the server, but no message is run a second time
\* (listener.c:149, input_msg_event.c:24, process_message_job.c:31).
THEOREM HandledInOrderCorrect == Spec => HandledInOrder
<1>1. Init => OrderInv
  <2> SUFFICES ASSUME Init, NEW c \in Conns PROVE OrderOf(c)
    BY DEF OrderInv
  <2>1. /\ controllerQ = << >> /\ workersQ = << >> /\ window = NoConn
        /\ job = [w \in Workers |-> Idle]
        /\ inbox[c] = << >> /\ sent[c] = 0 /\ done[c] = 0 /\ buffer[c] = NoRequest
    BY DEF Init
  <2>2. ~Held(c) /\ ~InInput(c) /\ window # c
        /\ \A w \in Workers : ~InHand(c, w)
    BY <2>1, NullAssumption DEF Held, InInput, InJob, InHand, IsJobOf, Idle
  <2>3. Received(c) = 0
    <3>1. Len(inbox[c]) = 0
      BY <2>1, EmptySeq
    <3>2. sent[c] = 0
      BY <2>1
    <3> QED
      BY <3>1, <3>2 DEF Received
  <2>4. Numbered(c)
    <3>1. \A i \in DOMAIN inbox[c] : FALSE
      BY <2>1
    <3> QED
      BY <3>1 DEF Numbered
  <2>5. Accounted(c)
    <3>1. \A i \in DOMAIN workersQ : FALSE
      BY <2>1
    <3> QED
      BY <2>1, <2>2, <2>3, <3>1 DEF Accounted, UpToDate
  <2> QED
    BY <2>2, <2>4, <2>5 DEF OrderOf, InUse
<1>2. IInv /\ OrderInv /\ [Next]_vars
        => [\A c \in Conns : done'[c] # done[c] => done'[c] = done[c] + 1]_vars
  BY OrderStep
<1> QED
  BY <1>1, <1>2, OrderStep, InvariantHolds, PTL DEF Spec, HandledInOrder

=============================================================================
