--------------------------- MODULE RequestPipeline ---------------------------
(***************************************************************************)
(* The path of a request through the chat server: the listener thread      *)
(* reads it into the connection object, the controller thread unpacks it   *)
(* into a job, a worker thread runs the job, and the connection object     *)
(* goes back to the listener.  The three kinds of thread share the         *)
(* connection objects with no lock: the flag in_worker only keeps the      *)
(* listener away, and the deleter that resets an object looks at no flag.  *)
(*                                                                         *)
(* A step stands for one event-loop handler or deleter, or for one stage   *)
(* of the listener's round.  A message arrives whole here.  The session    *)
(* table is used through whole operations; both are refined elsewhere.     *)
(*                                                                         *)
(* The connection objects come from malloc and are freed.  What ends the   *)
(* program, a use of a freed or NULL object or a signal, is recorded in    *)
(* fault, and nothing happens after it.                                    *)
(*                                                                         *)
(* A definition named ..Slip is the definition that follows it with one    *)
(* plausible mistake; it is used only to see that a property notices.      *)
(***************************************************************************)
EXTENDS Integers, Sequences, FiniteSets

CONSTANTS
    Sockets,      \* descriptors accept() may return; they are reused
    Conns,        \* connection objects ever allocated; never reused
    Workers,      \* the worker threads
    Users,        \* uids of the users table
    Root,         \* ROOT_UID
    Kinds,        \* the kinds of message the clients of this instance send
    MaxRequests,  \* bound on the messages each client sends
    NoConn,       \* NULL in the map of clients, and no connection in the window
    NoRequest,    \* header == NULL: nothing read since the last reset
    Unregistered, \* a socket with no entry in sid_to_uid
    Broadcast     \* a broadcast event in the controller's queue

\* login .. kick and other are the cases of the worker's switch; "bad" is a
\* body that does not unpack, "neg" a header with a negative body size.
AllKinds == {"login", "logout", "regular", "history", "list", "kick",
             "other", "bad", "neg"}

ASSUME SocketsAssumption == Sockets \subseteq Nat \ {0} /\ IsFiniteSet(Sockets)
ASSUME KindsAssumption   == Kinds \subseteq AllKinds
ASSUME UsersAssumption   == Users \subseteq Nat \ {0}
ASSUME BoundAssumption   == MaxRequests \in [Conns -> Nat]
ASSUME NullAssumption    == /\ NoConn \notin Conns
                            /\ Broadcast \notin Conns
                            /\ Unregistered \notin Nat
                            /\ NoRequest \notin [kind : Kinds, n : Nat]

NullUid == 0  \* registered, not logged in

Request    == [kind : Kinds, n : Nat]
ProcessJob == [type : {"process"}, conn : Conns, req : Request]
SendJob    == [type : {"send"}, sid : Sockets]
Job        == ProcessJob \cup SendJob
Idle       == [type |-> "idle"]

HasBody(kind) == kind \notin {"list", "logout"}

VARIABLES
    object,    \* of a connection: "none", "backlog", "live" or "freed"
    sockid,    \* conn->sockid
    buffer,    \* conn->header, body, bytes_read: the message last read, until reset
    inWorker,  \* conn->in_worker
    peer,      \* the client's end: "open", "fin" (closed) or "rst" (reset)
    inbox,     \* bytes the client has sent and the listener has not received
    sent,      \* messages the client has sent
    early,     \* history variable: a client sent or left when it was not Quiet
    expelled,  \* history variable: a worker posted a close-connection event
    done,      \* number of the client's last message that was handled
    clients,   \* listener_data_t.clients
    session,   \* conn_mgr: sid -> uid
    lpc,       \* where the listener is in its round
    todo,      \* polling_conns; after poll, those with revents still to serve
    hup,       \* those of todo with POLLHUP or POLLERR
    listenerQ, \* the listener's event queue: close-connection events
    controllerQ, \* input events (the connection) and broadcast events
    workersQ,  \* the jobs
    window,    \* connection whose input event is handled and not yet deleted
    job,       \* of a worker: the job it has popped
    ran,       \* of a worker: the job's handler has returned
    fault      \* the error that ended the program, or "none"

connVars     == <<object, sockid, buffer, inWorker>>
peerVars     == <<peer, inbox, sent, early>>
listenerVars == <<clients, lpc, todo, hup>>
queues       == <<listenerQ, controllerQ, workersQ>>
workerVars   == <<job, ran, expelled>>
vars == <<connVars, peerVars, done, listenerVars, session, queues, window,
          workerVars, fault>>

TypeOK ==
    /\ object \in [Conns -> {"none", "backlog", "live", "freed"}]
    /\ sockid \in [Conns -> Sockets \cup {0}]
    /\ buffer \in [Conns -> Request \cup {NoRequest}]
    /\ inWorker \in [Conns -> BOOLEAN]
    /\ peer \in [Conns -> {"open", "fin", "rst"}]
    /\ inbox \in [Conns -> Seq(Request)]
    /\ sent \in [Conns -> Nat]
    /\ early \in BOOLEAN
    /\ expelled \in BOOLEAN
    /\ done \in [Conns -> Nat]
    /\ clients \in [Sockets -> Conns \cup {NoConn}]
    /\ session \in [Sockets -> Users \cup {NullUid, Unregistered}]
    /\ lpc \in {"collect", "poll", "accept", "serve"}
    /\ todo \in SUBSET Sockets
    /\ hup \in SUBSET Sockets
    /\ listenerQ \in Seq(Sockets)
    /\ controllerQ \in Seq(Conns \cup {Broadcast})
    /\ workersQ \in Seq(Job)
    /\ window \in Conns \cup {NoConn}
    /\ job \in [Workers -> Job \cup {Idle}]
    /\ ran \in [Workers -> BOOLEAN]
    /\ fault \in {"none", "nullClose", "freedConn", "nullHeader", "sigPipe"}

Init ==
    /\ object = [c \in Conns |-> "none"]
    /\ sockid = [c \in Conns |-> 0]
    /\ buffer = [c \in Conns |-> NoRequest]
    /\ inWorker = [c \in Conns |-> FALSE]
    /\ peer = [c \in Conns |-> "open"]
    /\ inbox = [c \in Conns |-> << >>]
    /\ sent = [c \in Conns |-> 0]
    /\ early = FALSE
    /\ expelled = FALSE
    /\ done = [c \in Conns |-> 0]
    /\ clients = [s \in Sockets |-> NoConn]
    /\ session = [s \in Sockets |-> Unregistered]
    /\ lpc = "collect"
    /\ todo = {}
    /\ hup = {}
    /\ listenerQ = << >>
    /\ controllerQ = << >>
    /\ workersQ = << >>
    /\ window = NoConn
    /\ job = [w \in Workers |-> Idle]
    /\ ran = [w \in Workers |-> FALSE]
    /\ fault = "none"

-----------------------------------------------------------------------------
(* The clients, at the other end of the network. *)

Connect(c) ==
    /\ object[c] = "none"
    /\ object' = [object EXCEPT ![c] = "backlog"]
    /\ UNCHANGED <<sockid, buffer, inWorker, peerVars, done, listenerVars,
                   session, queues, window, workerVars, fault>>

\* The client's last message has been received, its connection returned to the
\* listener and reset.  No client can see this: the status of a request is sent
\* before the return and the reset, so a client that goes on as soon as it has
\* the status, as the repository's own does, may not wait long enough.
Quiet(c) == inbox[c] = << >> /\ ~inWorker[c] /\ buffer[c] = NoRequest

Send(c) ==
    /\ object[c] \in {"backlog", "live"}
    /\ peer[c] = "open"
    /\ sent[c] < MaxRequests[c]
    /\ sent' = [sent EXCEPT ![c] = @ + 1]
    /\ \E kind \in Kinds :
         inbox' = [inbox EXCEPT ![c] = Append(@, [kind |-> kind, n |-> sent[c] + 1])]
    /\ early' = (early \/ ~Quiet(c))
    /\ UNCHANGED <<connVars, peer, done, listenerVars, session, queues,
                   window, workerVars, fault>>

Leave(c) ==
    /\ object[c] \in {"backlog", "live"}
    /\ peer[c] = "open"
    /\ \E how \in {"fin", "rst"} : peer' = [peer EXCEPT ![c] = how]
    /\ early' = (early \/ ~Quiet(c))
    /\ UNCHANGED <<connVars, inbox, sent, done, listenerVars, session, queues,
                   window, workerVars, fault>>

Client(c) == Connect(c) \/ Send(c) \/ Leave(c)

-----------------------------------------------------------------------------
(* The listener thread. *)

SessionsOf(u) == {s \in Sockets : session[s] = u}

LoggedIn(s) == session[s] \in Users

Registered == {s \in Sockets : session[s] # Unregistered}

\* What a forall over a map keyed by socket yields: its keys in ascending order.
InKeyOrder(S) ==
    {q \in [1..Cardinality(S) -> S] : \A i, j \in DOMAIN q : i < j => q[i] < q[j]}

CollectSlip ==
    /\ lpc = "collect"
    /\ lpc' = "poll"
    /\ todo' = {s \in Sockets : clients[s] # NoConn}   \* in_worker not looked at
    /\ hup' = {}
    /\ UNCHANGED <<connVars, peerVars, done, clients, session, queues, window,
                   workerVars, fault>>

Collect ==
    /\ lpc = "collect"
    /\ lpc' = "poll"
    /\ todo' = {s \in Sockets : clients[s] # NoConn /\ ~inWorker[clients[s]]}
    /\ hup' = {}
    /\ UNCHANGED <<connVars, peerVars, done, clients, session, queues, window,
                   workerVars, fault>>

\* poll() returns what is ready among the collected descriptors, possibly
\* nothing (its timeout is 100 ms).
Poll ==
    /\ lpc = "poll"
    /\ lpc' = IF \E c \in Conns : object[c] = "backlog" THEN "accept" ELSE "serve"
    /\ todo' = {s \in todo : inbox[clients[s]] # << >> \/ peer[clients[s]] # "open"}
    /\ hup' = {s \in todo : peer[clients[s]] = "rst"}
    /\ UNCHANGED <<connVars, peerVars, done, clients, session, queues, window,
                   workerVars, fault>>

Accept ==
    /\ lpc = "accept"
    /\ lpc' = "serve"
    /\ \/ \E c \in Conns, s \in Sockets :
            /\ object[c] = "backlog"
            /\ clients[s] = NoConn
            /\ object' = [object EXCEPT ![c] = "live"]
            /\ sockid' = [sockid EXCEPT ![c] = s]
            /\ clients' = [clients EXCEPT ![s] = c]
            /\ session' = [session EXCEPT ![s] = NullUid]
       \/ /\ \A s \in Sockets : clients[s] # NoConn   \* accept() fails: EMFILE
          /\ UNCHANGED <<object, sockid, clients, session>>
    /\ UNCHANGED <<buffer, inWorker, peerVars, done, todo, hup, queues, window,
                   workerVars, fault>>

CloseConnectionSlip(s) ==
    /\ clients' = [clients EXCEPT ![s] = NoConn]
    /\ UNCHANGED session   \* no conn_mgr_del_sid
    /\ IF clients[s] = NoConn
       THEN fault' = "nullClose" /\ UNCHANGED object
       ELSE object' = [object EXCEPT ![clients[s]] = "freed"] /\ UNCHANGED fault
    /\ UNCHANGED controllerQ

\* close_connection.  Nothing else in the step touches the variables it sets.
CloseConnection(s) ==
    /\ clients' = [clients EXCEPT ![s] = NoConn]
    /\ session' = [session EXCEPT ![s] = Unregistered]
    /\ IF clients[s] = NoConn
       THEN fault' = "nullClose" /\ UNCHANGED object
       ELSE object' = [object EXCEPT ![clients[s]] = "freed"] /\ UNCHANGED fault
    /\ controllerQ' = IF LoggedIn(s) /\ SessionsOf(session[s]) = {s}
                      THEN Append(controllerQ, Broadcast) ELSE controllerQ

CloseServed(s) ==
    /\ CloseConnection(s)
    /\ UNCHANGED <<inWorker, buffer, inbox>>

DispatchSlip(c) ==
    /\ inWorker' = [inWorker EXCEPT ![c] = TRUE]
    /\ UNCHANGED <<controllerQ, clients, session, object, fault>>   \* no event

DispatchUnmarkedSlip(c) ==
    /\ controllerQ' = Append(controllerQ, c)
    /\ UNCHANGED <<inWorker, clients, session, object, fault>>

\* The message is complete: the connection is lent to the controller.
Dispatch(c) ==
    /\ inWorker' = [inWorker EXCEPT ![c] = TRUE]
    /\ controllerQ' = Append(controllerQ, c)
    /\ UNCHANGED <<clients, session, object, fault>>

\* recv() of a message into a connection that was reset.
Receive(s) ==
    LET c == clients[s] IN
    /\ buffer[c] = NoRequest
    /\ \/ /\ inbox[c] # << >>
          /\ inbox' = [inbox EXCEPT ![c] = Tail(@)]
          /\ buffer' = [buffer EXCEPT ![c] = Head(inbox[c])]
          /\ IF Head(inbox[c]).kind = "neg"
             THEN CloseConnection(s) /\ UNCHANGED inWorker
             ELSE Dispatch(c)
       \/ /\ inbox[c] = << >> \/ peer[c] = "rst"
          /\ CloseServed(s)

\* The connection still holds its last message: bytes_read == bytes_expected,
\* so a body is read with a length of 0, which returns 0 and counts as EOF,
\* and a message without a body is dispatched again.
ReceiveStale(s) ==
    LET c == clients[s] IN
    /\ buffer[c] # NoRequest
    /\ IF HasBody(buffer[c].kind)
       THEN CloseServed(s)
       ELSE Dispatch(c) /\ UNCHANGED <<buffer, inbox>>

ProcessConnection(s) == Receive(s) \/ ReceiveStale(s)

Serve ==
    /\ lpc = "serve"
    /\ \E s \in todo :
         /\ \A t \in todo : s <= t
         /\ todo' = todo \ {s}
         /\ IF s \in hup THEN CloseServed(s) ELSE ProcessConnection(s)
    /\ UNCHANGED <<sockid, peer, sent, early, done, lpc, hup, listenerQ, workersQ,
                   window, workerVars>>

\* event_loop_iteration at the end of the round: one close event, if any.
HandleClose ==
    /\ lpc = "serve"
    /\ todo = {}
    /\ lpc' = "collect"
    /\ IF listenerQ = << >>
       THEN UNCHANGED <<clients, session, object, controllerQ, fault, listenerQ>>
       ELSE CloseConnection(Head(listenerQ)) /\ listenerQ' = Tail(listenerQ)
    /\ UNCHANGED <<sockid, buffer, inWorker, peerVars, done, todo, hup, workersQ,
                   window, workerVars>>

Listener == Collect \/ Poll \/ Accept \/ Serve \/ HandleClose

-----------------------------------------------------------------------------
(* The controller thread. *)

\* send_status_code does not pass MSG_NOSIGNAL, as send_message does, and no
\* handler is installed: when the client has left, SIGPIPE may end the server.
SendStatus(c) ==
    fault' \in IF peer[c] = "open" THEN {"none"} ELSE {"none", "sigPipe"}

\* input_msg_event_handler.  The event is not deleted yet: window.
HandleInput ==
    /\ window = NoConn
    /\ controllerQ # << >>
    /\ Head(controllerQ) # Broadcast
    /\ controllerQ' = Tail(controllerQ)
    /\ LET c == Head(controllerQ) IN
         \/ /\ object[c] # "live"
            /\ fault' = "freedConn"
            /\ UNCHANGED <<inWorker, done, workersQ, window>>
         \/ /\ object[c] = "live"
            /\ buffer[c] = NoRequest
            /\ fault' = "nullHeader"
            /\ UNCHANGED <<inWorker, done, workersQ, window>>
         \/ /\ object[c] = "live"
            /\ buffer[c] # NoRequest
            /\ window' = c
            /\ IF buffer[c].kind = "bad"
               THEN /\ inWorker' = [inWorker EXCEPT ![c] = FALSE]
                    /\ done' = [done EXCEPT ![c] = buffer[c].n]
                    /\ SendStatus(c)
                    /\ UNCHANGED workersQ
               ELSE /\ workersQ' = Append(workersQ,
                         [type |-> "process", conn |-> c, req |-> buffer[c]])
                    /\ UNCHANGED <<inWorker, done, fault>>
    /\ UNCHANGED <<object, sockid, buffer, peerVars, listenerVars, session,
                   listenerQ, workerVars>>

\* input_msg_event_deleter: the connection is made ready for the next message.
ResetConnection ==
    /\ window # NoConn
    /\ window' = NoConn
    /\ IF object[window] = "live"
       THEN buffer' = [buffer EXCEPT ![window] = NoRequest] /\ UNCHANGED fault
       ELSE fault' = "freedConn" /\ UNCHANGED buffer
    /\ UNCHANGED <<object, sockid, inWorker, peerVars, done, listenerVars,
                   session, queues, workerVars>>

\* broadcast_message_event_handler: one send job per registered socket.
HandleBroadcast ==
    /\ window = NoConn
    /\ controllerQ # << >>
    /\ Head(controllerQ) = Broadcast
    /\ controllerQ' = Tail(controllerQ)
    /\ \E order \in InKeyOrder(Registered) :
         workersQ' = workersQ \o
           [i \in DOMAIN order |-> [type |-> "send", sid |-> order[i]]]
    /\ UNCHANGED <<connVars, peerVars, done, listenerVars, session, listenerQ,
                   window, workerVars, fault>>

Controller == HandleInput \/ ResetConnection \/ HandleBroadcast

-----------------------------------------------------------------------------
(* The worker threads. *)

Take(w) ==
    /\ job[w] = Idle
    /\ workersQ # << >>
    /\ job' = [job EXCEPT ![w] = Head(workersQ)]
    /\ ran' = [ran EXCEPT ![w] = FALSE]
    /\ workersQ' = Tail(workersQ)
    /\ UNCHANGED <<connVars, peerVars, done, listenerVars, session, listenerQ,
                   controllerQ, window, expelled, fault>>

\* send_message_job_handler; a send to a closed socket only logs an error.
RunSend(w) ==
    /\ job[w].type = "send"
    /\ job' = [job EXCEPT ![w] = Idle]
    /\ UNCHANGED <<connVars, peerVars, done, listenerVars, session, queues,
                   window, ran, expelled, fault>>

\* Login: a first session of the user is announced; a failure only answers.
Login(s) ==
    \/ UNCHANGED <<session, controllerQ, listenerQ>>
    \/ \E u \in Users :
         /\ session' = IF session[s] = Unregistered THEN session
                       ELSE [session EXCEPT ![s] = u]
         /\ controllerQ' = IF SessionsOf(u) = {} THEN Append(controllerQ, Broadcast)
                           ELSE controllerQ
         /\ UNCHANGED listenerQ

LogoutSlip(s) == UNCHANGED <<session, controllerQ, listenerQ>>

Logout(s) ==
    /\ listenerQ' = Append(listenerQ, s)
    /\ UNCHANGED <<session, controllerQ>>

Regular(s) ==
    /\ \/ LoggedIn(s) /\ controllerQ' = Append(controllerQ, Broadcast)
       \/ UNCHANGED controllerQ   \* not logged in, or no text
    /\ UNCHANGED <<session, listenerQ>>

\* Only root kicks: one close event per session of the kicked user.
Kick(s) ==
    \/ UNCHANGED <<session, controllerQ, listenerQ>>   \* refused
    \/ /\ session[s] = Root
       /\ \E u \in Users : \E order \in InKeyOrder(SessionsOf(u)) :
            /\ SessionsOf(u) # {}
            /\ listenerQ' = listenerQ \o order
            /\ controllerQ' = Append(controllerQ, Broadcast)
       /\ UNCHANGED session

\* process_message_job_handler, by the type of the message.
Execute(kind, s) ==
    CASE kind = "login"   -> Login(s)
      [] kind = "logout"  -> Logout(s)
      [] kind = "regular" -> Regular(s)
      [] kind = "kick"    -> Kick(s)
      [] OTHER            -> UNCHANGED <<session, controllerQ, listenerQ>>

\* The handler calls send_status_code: after a login, and when it refuses.
Answers(kind) ==
    \/ kind = "login"
    \/ kind \notin {"logout", "list"} /\ UNCHANGED <<controllerQ, listenerQ>>

RunProcess(w) ==
    /\ job[w].type = "process"
    /\ ~ran[w]
    /\ ran' = [ran EXCEPT ![w] = TRUE]
    /\ LET c == job[w].conn IN
         \/ /\ object[c] = "live"
            /\ Execute(job[w].req.kind, sockid[c])
            /\ done' = [done EXCEPT ![c] = job[w].req.n]
            /\ IF Answers(job[w].req.kind) THEN SendStatus(c) ELSE UNCHANGED fault
         \/ /\ object[c] # "live"
            /\ fault' = "freedConn"
            /\ UNCHANGED <<done, session, controllerQ, listenerQ>>
    /\ expelled' = (expelled \/ listenerQ' # listenerQ)
    /\ UNCHANGED <<connVars, peerVars, listenerVars, workersQ, window, job>>

ReleaseSlip(w) ==
    /\ job[w].type = "process"
    /\ ran[w]
    /\ job' = [job EXCEPT ![w] = Idle]   \* in_worker stays set
    /\ UNCHANGED <<connVars, peerVars, done, listenerVars, session, queues, window,
                   ran, expelled, fault>>

\* process_message_job_deleter: the connection goes back to the listener.
Release(w) ==
    /\ job[w].type = "process"
    /\ ran[w]
    /\ job' = [job EXCEPT ![w] = Idle]
    /\ LET c == job[w].conn IN
         IF object[c] = "live"
         THEN inWorker' = [inWorker EXCEPT ![c] = FALSE] /\ UNCHANGED fault
         ELSE fault' = "freedConn" /\ UNCHANGED inWorker
    /\ UNCHANGED <<object, sockid, buffer, peerVars, done, listenerVars, session,
                   queues, window, ran, expelled>>

Worker(w) == Take(w) \/ RunSend(w) \/ RunProcess(w) \/ Release(w)

-----------------------------------------------------------------------------
Next ==
    /\ fault = "none"
    /\ \/ \E c \in Conns : Client(c)
       \/ Listener
       \/ Controller
       \/ \E w \in Workers : Worker(w)

Spec == Init /\ [][Next]_vars

\* Each server thread is scheduled for ever: none of the steps above blocks.
\* The clients owe nothing.
FairSpec ==
    /\ Spec
    /\ WF_vars(fault = "none" /\ Listener)
    /\ WF_vars(fault = "none" /\ Controller)
    /\ \A w \in Workers : WF_vars(fault = "none" /\ Worker(w))

-----------------------------------------------------------------------------
(* Who holds a connection object. *)

IsJobOf(j, c) == j.type = "process" /\ j.conn = c

InInput(c)   == \E i \in DOMAIN controllerQ : controllerQ[i] = c
InJob(c)     == \E i \in DOMAIN workersQ : IsJobOf(workersQ[i], c)
InHand(c, w) == IsJobOf(job[w], c)
Held(c) == InInput(c) \/ InJob(c) \/ \E w \in Workers : InHand(c, w)

\* A connection has at most one input event, queued job or running job, and
\* is marked in_worker while it has one: the listener does not poll it, and no
\* message is given to two workers (listener.c:182 and 150, input_msg_event.c:35).
\* The deleter of the input event (window) is not counted: it resets the object
\* while a worker or the listener has it, which FaultPreconditions is about.
ExclusiveOwner ==
    \A c \in Conns :
      /\ \A i, j \in DOMAIN controllerQ :
           controllerQ[i] = c /\ controllerQ[j] = c => i = j
      /\ \A i, j \in DOMAIN workersQ :
           IsJobOf(workersQ[i], c) /\ IsJobOf(workersQ[j], c) => i = j
      /\ \A v, w \in Workers : InHand(c, v) /\ InHand(c, w) => v = w
      /\ ~(InInput(c) /\ InJob(c))
      /\ \A w \in Workers : ~(InHand(c, w) /\ (InInput(c) \/ InJob(c)))
      /\ Held(c) => inWorker[c]

\* A connection marked in_worker is in somebody's hands, who will release it.
NeverStranded ==
    fault = "none" => \A c \in Conns : inWorker[c] => Held(c)

\* The listener's map of clients, the connection objects and the session
\* table agree: an entry is a live object for that descriptor, every live
\* object has an entry (none leaks), and exactly the entries have a session.
TablesAgree ==
    /\ \A s \in Sockets : clients[s] # NoConn =>
         object[clients[s]] = "live" /\ sockid[clients[s]] = s
    /\ \A c \in Conns : object[c] = "live" =>
         sockid[c] \in Sockets /\ clients[sockid[c]] = c
    /\ \A s \in Sockets : clients[s] = NoConn <=> session[s] = Unregistered

\* The messages of one client are handled one by one, none twice and none
\* left out, in the order it sent them, whatever the number of workers.
HandledInOrder ==
    [][\A c \in Conns : done'[c] # done[c] => done'[c] = done[c] + 1]_vars

\* A message that the listener has received is handled, unless its
\* connection is closed first or the program has failed.
ReceivedIsHandled ==
    \A c \in Conns : \A n \in 1..MaxRequests[c] :
      (buffer[c] # NoRequest /\ buffer[c].n = n)
        ~> (done[c] >= n \/ object[c] = "freed" \/ fault # "none")

\* The connection of a client that has left is freed, even when it left with
\* messages unread or being worked on: descriptors do not run out.
LeftIsClosed ==
    \A c \in Conns :
      peer[c] # "open" /\ object[c] = "live"
        ~> (object[c] = "freed" \/ fault # "none")

\* A client that asked to log out is disconnected by the server.
LogoutCloses ==
    \A c \in Conns :
      (\E w \in Workers : InHand(c, w) /\ ran[w] /\ job[w].req.kind = "logout")
        ~> (object[c] = "freed" \/ fault # "none")


\* What each end of the program takes.  A header that was reset is unpacked, or
\* SIGPIPE raised, only if a client sent or left before it was Quiet; a socket
\* is closed twice only if a worker posted a close event (a logout or a kick),
\* however the clients behave; and a freed object is used only if one of the
\* two happened: a logout alone is enough, the listener may serve its event
\* before the job's deleter has run (input_msg_event.c:35, listener.c:79,
\* process_message_job.c:34 and 137, message.c:162).
FaultPreconditions ==
    /\ fault \in {"nullHeader", "sigPipe"} => early
    /\ fault = "nullClose" => expelled
    /\ fault = "freedConn" => early \/ expelled

\* No close request is carried out for a socket that is already closed.
NoDoubleClose == fault # "nullClose"

=============================================================================
