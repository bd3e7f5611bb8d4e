---------------------------------- MODULE Chat ----------------------------------
(***************************************************************************)
(* What the users see: accounts are made by the first login with a name,   *)
(* texts go to everybody and into the history, and everybody is told who   *)
(* comes and goes.  Logins, texts and history requests are jobs of the     *)
(* workers, connections are closed by the listener, and what all should    *)
(* see is broadcast by the controller; none of them excludes the others    *)
(* but inside a database statement or an operation of the connection       *)
(* manager.                                                                *)
(*                                                                         *)
(* A client is one connection.  Its requests are handled one after the     *)
(* other and it is closed between two of them, as RequestPipeline shows of *)
(* clients that behave; how the connection manager keeps its two maps is   *)
(* the matter of ConnMgr.  Kicks are left out.                             *)
(*                                                                         *)
(* A client may log in again, as the same user or another, while it is in: *)
(* its connection moves to the other user, and nobody is told that the     *)
(* first has gone.                                                         *)
(*                                                                         *)
(* A definition named ..Slip is the definition that follows it with one    *)
(* plausible mistake; it is used only to see that a property notices.      *)
(***************************************************************************)
EXTENDS Integers, Sequences, FiniteSets

CONSTANTS
    Clients,
    Workers,
    Credentials,   \* of a client: the names and passwords its user may give
    OldAccounts,   \* names and passwords that may have an account from an earlier run
    OldMessages,   \* the texts of an earlier run
    MaxTexts,      \* bound on the texts of each client
    MaxRequests,   \* bound on the logins and texts of all clients
    MaxLeft,       \* bound on the clients that leave
    HistoryLength, \* MAX_HISTORY_LENGTH, which clients ask for
    Absent,        \* no entry in sid_to_uid
    Free,          \* the manager's mutex is not held
    NoJob,
    NoClose,       \* the listener is not closing a connection
    NotAnswered,   \* no history yet
    Nobody         \* a client that has not asked to log in

ASSUME ThreadAssumption == Free \notin Workers
ASSUME BoundAssumption  == MaxTexts \in [Clients -> Nat] /\ MaxRequests \in Nat /\ MaxLeft \in Nat
ASSUME LengthAssumption == HistoryLength \in Nat \ {0}
ASSUME FiniteAssumption == IsFiniteSet(Clients) /\ IsFiniteSet(Workers)
ASSUME AbsentAssumption == Absent \notin Nat

NullUid == 0
RootUid == 1

\* A text, what is broadcast, a job, how far a worker or the listener is with one.
Text == [of : Clients \cup {Nobody}, n : Nat, stamp : Int]
Event == [kind : {"in", "out"}, uid : Nat] \cup [kind : {"text"}, text : Text]
What == [type : {"login", "history"}, of : Clients]
          \cup [type : {"text"}, of : Clients, n : Nat]
          \cup [type : {"send"}, to : Clients, no : Nat]
Job == [pc : {"start", "max", "insert", "count", "unlink", "link", "status", "announce", "send"},
        what : What, uid : Nat, count : Nat, stamp : Nat]
Closing == [pc : {"drop", "announce"}, of : Clients, uid : Nat, count : Nat]

ASSUME NoneAssumption == NoJob \notin Job /\ NoClose \notin Closing

\* What is left of an earlier run: no second account of root, and texts whose
\* stamps are in the past and differ.
ASSUME OldAssumption ==
    /\ \A k \in OldAccounts : k.login # "root"
    /\ OldMessages \subseteq Text /\ IsFiniteSet(OldMessages)
    /\ \A m \in OldMessages : m.stamp <= 0
    /\ \A m, k \in OldMessages : m.stamp = k.stamp => m = k

VARIABLES
    users,       \* the table of accounts
    messages,    \* the table of texts
    clock,       \* get_tstamp(), taken never to be the same twice
    session,     \* conn_mgr: client -> uid
    listed,      \* the keys of sid_to_uid, as a walk of it finds them
    mutex,       \* conn_mgr_t.mutex: its holder
    state,       \* of a client: "new", "asked", "granted", "in", "refused", "left"
    asked,       \* of a client: the name and the password it gave last
    texts,       \* of a client: how many it has sent
    requests,    \* how many logins and texts the clients have sent
    busy,        \* of a client: a request is being handled
    job,         \* of a worker: the job it handles and how far it is
    closing,     \* the close_connection() of the listener
    controllerQ, \* events to broadcast
    storing,     \* the controller has stored the first of them
    workersQ,
    news,        \* what has been broadcast, in order
    live,        \* of a client: what it was sent of that, in order
    history,     \* of a client: the texts it got from the history it asked for last
    status,      \* of a client: the last answer to a login
    enteredAs,   \* history variable: the name and password that gave a client its session
    crowded,     \* history variable: names that were registered at the same time as another
    blurred      \* history variable: users of whom two sessions changed at a time, or
                 \* whose last session a second login took away

clientVars == <<state, asked, texts, requests, busy>>
mgrVars    == <<session, listed, mutex>>
seenVars   == <<news, live, history, status>>
ghostVars  == <<enteredAs, crowded, blurred>>
vars == <<users, messages, clock, mgrVars, clientVars, job, closing, controllerQ,
          storing, workersQ, seenVars, ghostVars>>

Row(u, k) == [uid |-> u, login |-> k.login, password |-> k.password]

\* Root always has an account, another name may have one from an earlier run.
Init ==
    /\ users \in {{Row(RootUid, [login |-> "root", password |-> "root"])} \cup old :
                  old \in {{}} \cup {{Row(RootUid + 1, k)} : k \in OldAccounts}}
    /\ messages = OldMessages
    /\ clock = 0
    /\ session = [c \in Clients |-> NullUid]
    /\ listed = Clients
    /\ mutex = Free
    /\ state = [c \in Clients |-> "new"]
    /\ asked = [c \in Clients |-> Nobody]
    /\ texts = [c \in Clients |-> 0]
    /\ requests = 0
    /\ busy = [c \in Clients |-> FALSE]
    /\ job = [w \in Workers |-> NoJob]
    /\ closing = NoClose
    /\ controllerQ = << >>
    /\ storing = FALSE
    /\ workersQ = << >>
    /\ news = << >>
    /\ live = [c \in Clients |-> << >>]
    /\ history = [c \in Clients |-> NotAnswered]
    /\ status = [c \in Clients |-> "none"]
    /\ enteredAs = [c \in Clients |-> Nobody]
    /\ crowded = {}
    /\ blurred = {}

-----------------------------------------------------------------------------
(* The clients.  One that is let in asks for the history at once. *)

Request(c, j) ==
    /\ ~busy[c]
    /\ busy' = [busy EXCEPT ![c] = TRUE]
    /\ workersQ' = Append(workersQ, j)
    /\ UNCHANGED <<users, messages, clock, mgrVars, job, closing, controllerQ, storing,
                   news, live, status, ghostVars>>

\* For the first time, after a refusal, or once more.
AskToLogIn(c) ==
    /\ state[c] \in {"new", "refused", "in"}
    /\ requests < MaxRequests
    /\ requests' = requests + 1
    /\ state' = [state EXCEPT ![c] = "asked"]
    /\ \E k \in Credentials[c] : asked' = [asked EXCEPT ![c] = k]
    /\ Request(c, [type |-> "login", of |-> c])
    /\ UNCHANGED <<texts, history>>

AskForHistory(c) ==
    /\ state[c] = "granted"
    /\ state' = [state EXCEPT ![c] = "in"]
    /\ history' = [history EXCEPT ![c] = NotAnswered]
    /\ Request(c, [type |-> "history", of |-> c])
    /\ UNCHANGED <<asked, texts, requests>>

Say(c) ==
    /\ state[c] = "in"
    /\ texts[c] < MaxTexts[c]
    /\ requests < MaxRequests
    /\ requests' = requests + 1
    /\ texts' = [texts EXCEPT ![c] = @ + 1]
    /\ Request(c, [type |-> "text", of |-> c, n |-> texts[c] + 1])
    /\ UNCHANGED <<state, asked, history>>

Leave(c) ==
    /\ state[c] \notin {"asked", "left"}
    /\ Cardinality({b \in Clients : state[b] = "left"}) < MaxLeft
    /\ state' = [state EXCEPT ![c] = "left"]
    /\ UNCHANGED <<users, messages, clock, mgrVars, asked, texts, requests, busy, job, closing, controllerQ,
                   storing, workersQ, seenVars, ghostVars>>

Client(c) == AskToLogIn(c) \/ AskForHistory(c) \/ Say(c) \/ Leave(c)

-----------------------------------------------------------------------------
(* The workers. *)

Pop(w) ==
    /\ job[w] = NoJob
    /\ workersQ # << >>
    /\ workersQ' = Tail(workersQ)
    /\ job' = [job EXCEPT ![w] = [pc |-> "start", what |-> Head(workersQ), uid |-> NullUid,
                                  count |-> 0, stamp |-> 0]]
    /\ UNCHANGED <<users, messages, clock, mgrVars, clientVars, closing, controllerQ,
                   storing, seenVars, ghostVars>>

\* Worker w is at step pc of a job of the given type.
At(w, type, pc) ==
    /\ job[w] # NoJob
    /\ job[w].what.type = type
    /\ job[w].pc = pc

Goto(w, pc) == job' = [job EXCEPT ![w].pc = pc]

\* The job is over and its connection returned.
Done(w) ==
    /\ job' = [job EXCEPT ![w] = NoJob]
    /\ busy' = [busy EXCEPT ![job[w].what.of] = FALSE]

Given(w) == asked[job[w].what.of]

MaxUid(rows) == CHOOSE u \in {r.uid : r \in rows} : \A r \in rows : r.uid <= u

\* The answer to the login, and the client's reaction to it.  One that is refused
\* when it was in stays in as who it was.
Answer(c, s) ==
    /\ status' = [status EXCEPT ![c] = s]
    /\ state' = [state EXCEPT ![c] = IF s = "ok" THEN "granted"
                                     ELSE IF session[c] = NullUid THEN "refused" ELSE "in"]

\* The names of the logins that found no account, and have not made one.
Registering ==
    {Given(v).login : v \in {v \in Workers : /\ job[v] # NoJob
                                             /\ job[v].what.type = "login"
                                             /\ job[v].pc \in {"max", "insert"}}}

Register(w) ==
    /\ Goto(w, "max")
    /\ crowded' = IF Registering = {} THEN crowded
                  ELSE crowded \cup Registering \cup {Given(w).login}
    /\ UNCHANGED <<status, state, busy>>

RefuseSlip(w) ==
    /\ job' = [job EXCEPT ![w].uid = -1, ![w].pc = "count"]   \* the error taken for a uid
    /\ UNCHANGED <<status, state, busy, crowded>>

Refuse(w) ==
    /\ Answer(job[w].what.of, "auth error")
    /\ Done(w)
    /\ UNCHANGED crowded

\* login_or_register: the rows of this name.  The last that has the password
\* gives the uid.
Select(w) ==
    /\ At(w, "login", "start")
    /\ LET rows == {r \in users : r.login = Given(w).login}
           fit == {r \in rows : r.password = Given(w).password}
       IN \/ rows = {} /\ Register(w)
          \/ rows # {} /\ fit = {} /\ Refuse(w)
          \/ /\ fit # {}
             /\ job' = [job EXCEPT ![w].uid = MaxUid(fit), ![w].pc = "count"]
             /\ UNCHANGED <<status, state, busy, crowded>>
    /\ UNCHANGED <<users, messages, clock, mgrVars, asked, texts, requests, closing, controllerQ,
                   storing, workersQ, news, live, history, enteredAs, blurred>>

SelectMaxSlip(w) ==
    /\ At(w, "login", "max")
    /\ job' = [job EXCEPT ![w].uid = MaxUid(users), ![w].pc = "insert"]   \* not + 1
    /\ UNCHANGED <<users, messages, clock, mgrVars, clientVars, closing, controllerQ,
                   storing, workersQ, seenVars, ghostVars>>

SelectMax(w) ==
    /\ At(w, "login", "max")
    /\ job' = [job EXCEPT ![w].uid = MaxUid(users) + 1, ![w].pc = "insert"]
    /\ UNCHANGED <<users, messages, clock, mgrVars, clientVars, closing, controllerQ,
                   storing, workersQ, seenVars, ghostVars>>

InsertSlip(w) ==
    /\ At(w, "login", "insert")
    /\ users' = IF \E r \in users : r.uid = job[w].uid THEN users
                ELSE users \cup {Row(job[w].uid, Given(w))}
    /\ Goto(w, "count")   \* the error not looked at
    /\ UNCHANGED <<messages, clock, mgrVars, clientVars, closing, controllerQ,
                   storing, workersQ, seenVars, ghostVars>>

\* The primary key refuses a uid that was taken in between.
Insert(w) ==
    /\ At(w, "login", "insert")
    /\ IF \E r \in users : r.uid = job[w].uid
       THEN /\ Answer(job[w].what.of, "registration error")
            /\ Done(w)
            /\ UNCHANGED users
       ELSE /\ users' = users \cup {Row(job[w].uid, Given(w))}
            /\ Goto(w, "count")
            /\ UNCHANGED <<status, state, busy>>
    /\ UNCHANGED <<messages, clock, mgrVars, asked, texts, requests, closing, controllerQ, storing,
                   workersQ, news, live, history, ghostVars>>

\* conn_mgr_get_number_of_sessions
Sessions(u) == Cardinality({c \in Clients : session[c] = u})

\* A login or a close of user u is between reading their number and announcing
\* what follows from it.
Changing(u) ==
    \/ \E v \in Workers : /\ job[v] # NoJob
                          /\ job[v].what.type = "login"
                          /\ job[v].pc \in {"unlink", "link", "status", "announce"}
                          /\ job[v].uid = u
    \/ closing # NoClose /\ closing.uid = u

Blur(u) == blurred' = IF Changing(u) THEN blurred \cup {u} ELSE blurred

Count(w) ==
    /\ At(w, "login", "count")
    /\ mutex = Free
    /\ job' = [job EXCEPT ![w].count = Sessions(job[w].uid), ![w].pc = "unlink"]
    /\ Blur(job[w].uid)
    /\ UNCHANGED <<users, messages, clock, mgrVars, clientVars, closing, controllerQ,
                   storing, workersQ, seenVars, enteredAs, crowded>>

\* conn_mgr_connect_sid_uid erases the entry and inserts it with the new uid.
Unlink(w) ==
    /\ At(w, "login", "unlink")
    /\ mutex = Free
    /\ mutex' = w
    /\ listed' = listed \ {job[w].what.of}
    /\ Goto(w, "link")
    /\ UNCHANGED <<users, messages, clock, session, clientVars, closing, controllerQ,
                   storing, workersQ, seenVars, ghostVars>>

\* Client c leaves user u without a word.
Desert(c, u) ==
    LET old == session[c] IN
    blurred' = IF old \notin {NullUid, u} /\ (Changing(old) \/ Sessions(old) = 1)
               THEN blurred \cup {old} ELSE blurred

LinkSlip(w) ==
    LET c == job[w].what.of IN
    /\ At(w, "login", "link")
    /\ mutex' = Free
    /\ session' = [session EXCEPT ![c] = job[w].uid]
    /\ enteredAs' = [enteredAs EXCEPT ![c] = Given(w)]
    /\ Desert(c, job[w].uid)
    /\ Goto(w, "status")
    /\ UNCHANGED <<users, messages, clock, listed, clientVars, closing, controllerQ,
                   storing, workersQ, seenVars, crowded>>   \* sid_to_uid not restored

Link(w) ==
    LET c == job[w].what.of IN
    /\ At(w, "login", "link")
    /\ mutex' = Free
    /\ session' = [session EXCEPT ![c] = job[w].uid]
    /\ listed' = listed \cup {c}
    /\ enteredAs' = [enteredAs EXCEPT ![c] = Given(w)]
    /\ Desert(c, job[w].uid)
    /\ Goto(w, "status")
    /\ UNCHANGED <<users, messages, clock, clientVars, closing, controllerQ,
                   storing, workersQ, seenVars, crowded>>

SendStatus(w) ==
    /\ At(w, "login", "status")
    /\ Answer(job[w].what.of, "ok")
    /\ Goto(w, "announce")
    /\ UNCHANGED <<users, messages, clock, mgrVars, asked, texts, requests, busy, closing, controllerQ,
                   storing, workersQ, news, live, history, ghostVars>>

AnnounceLoginSlip(w) ==
    /\ At(w, "login", "announce")
    /\ controllerQ' = Append(controllerQ, [kind |-> "in", uid |-> job[w].uid]) \* each time
    /\ Done(w)
    /\ UNCHANGED <<users, messages, clock, mgrVars, state, asked, texts, requests, closing, storing,
                   workersQ, seenVars, ghostVars>>

AnnounceLogin(w) ==
    /\ At(w, "login", "announce")
    /\ controllerQ' = IF job[w].count = 0
                      THEN Append(controllerQ, [kind |-> "in", uid |-> job[w].uid])
                      ELSE controllerQ
    /\ Done(w)
    /\ UNCHANGED <<users, messages, clock, mgrVars, state, asked, texts, requests, closing, storing,
                   workersQ, seenVars, ghostVars>>

\* A text is stamped when its event is made and broadcast in the order of the
\* controller's queue.
StampText(w) ==
    /\ At(w, "text", "start")
    /\ clock' = clock + 1
    /\ job' = [job EXCEPT ![w].stamp = clock + 1, ![w].pc = "send"]
    /\ UNCHANGED <<users, messages, mgrVars, clientVars, closing, controllerQ, storing,
                   workersQ, seenVars, ghostVars>>

SendText(w) ==
    /\ At(w, "text", "send")
    /\ controllerQ' = Append(controllerQ,
                        [kind |-> "text",
                         text |-> [of |-> job[w].what.of, n |-> job[w].what.n,
                                   stamp |-> job[w].stamp]])
    /\ Done(w)
    /\ UNCHANGED <<users, messages, clock, mgrVars, state, asked, texts, requests, closing, storing,
                   workersQ, seenVars, ghostVars>>

\* The newest of the texts.
Newest(n) == {m \in messages : Cardinality({k \in messages : k.stamp > m.stamp}) < n}

BrowseHistory(w) ==
    /\ At(w, "history", "start")
    /\ history' = [history EXCEPT ![job[w].what.of] = Newest(HistoryLength)]
    /\ Done(w)
    /\ UNCHANGED <<users, messages, clock, mgrVars, state, asked, texts, requests, closing, controllerQ,
                   storing, workersQ, news, live, status, ghostVars>>

\* send_message_job_handler
Deliver(w) ==
    /\ At(w, "send", "start")
    /\ live' = [live EXCEPT ![job[w].what.to] = Append(@, job[w].what.no)]
    /\ job' = [job EXCEPT ![w] = NoJob]
    /\ UNCHANGED <<users, messages, clock, mgrVars, clientVars, closing, controllerQ,
                   storing, workersQ, news, history, status, ghostVars>>

Worker(w) ==
    \/ Pop(w) \/ Deliver(w) \/ BrowseHistory(w) \/ StampText(w) \/ SendText(w)
    \/ Select(w) \/ SelectMax(w) \/ Insert(w) \/ Count(w) \/ Unlink(w) \/ Link(w)
    \/ SendStatus(w) \/ AnnounceLogin(w)

-----------------------------------------------------------------------------
(* close_connection of the listener: the sessions, the entry, the announcement. *)

CountAtClose(c) ==
    /\ closing = NoClose
    /\ state[c] = "left"
    /\ ~busy[c]
    /\ session[c] # Absent
    /\ mutex = Free
    /\ closing' = [pc |-> "drop", of |-> c, uid |-> session[c],
                   count |-> IF session[c] = NullUid THEN 0 ELSE Sessions(session[c])]
    /\ Blur(session[c])
    /\ UNCHANGED <<users, messages, clock, mgrVars, clientVars, job, controllerQ, storing,
                   workersQ, seenVars, enteredAs, crowded>>

Drop ==
    /\ closing # NoClose
    /\ closing.pc = "drop"
    /\ mutex = Free
    /\ session' = [session EXCEPT ![closing.of] = Absent]
    /\ listed' = listed \ {closing.of}
    /\ closing' = [closing EXCEPT !.pc = "announce"]
    /\ UNCHANGED <<users, messages, clock, mutex, clientVars, job, controllerQ, storing,
                   workersQ, seenVars, ghostVars>>

AnnounceLogout ==
    /\ closing # NoClose
    /\ closing.pc = "announce"
    /\ controllerQ' = IF closing.count = 1
                      THEN Append(controllerQ, [kind |-> "out", uid |-> closing.uid])
                      ELSE controllerQ
    /\ closing' = NoClose
    /\ UNCHANGED <<users, messages, clock, mgrVars, clientVars, job, storing, workersQ,
                   seenVars, ghostVars>>

Listener == Drop \/ AnnounceLogout \/ \E c \in Clients : CountAtClose(c)

-----------------------------------------------------------------------------
(* broadcast_message_event_handler of the controller. *)

Store ==
    /\ controllerQ # << >>
    /\ ~storing
    /\ storing' = TRUE
    /\ messages' = IF Head(controllerQ).kind = "text"
                   THEN messages \cup {Head(controllerQ).text} ELSE messages
    /\ UNCHANGED <<users, clock, mgrVars, clientVars, job, closing, controllerQ, workersQ,
                   seenVars, ghostVars>>

\* The order is that of the sockets, which is of no matter here.
Listed == CHOOSE q \in [1..Cardinality(listed) -> listed] :
            \A i, j \in DOMAIN q : q[i] = q[j] => i = j

WalkSlip ==
    /\ storing
    /\ storing' = FALSE
    /\ controllerQ' = Tail(controllerQ)
    /\ news' = Append(news, Head(controllerQ))
    /\ workersQ' = [i \in DOMAIN Listed |-> [type |-> "send", to |-> Listed[i],
                                             no |-> Len(news) + 1]] \o workersQ  \* in front
    /\ UNCHANGED <<users, messages, clock, mgrVars, clientVars, job, closing, live, history,
                   status, ghostVars>>

Walk ==
    /\ storing
    /\ storing' = FALSE
    /\ controllerQ' = Tail(controllerQ)
    /\ news' = Append(news, Head(controllerQ))
    /\ workersQ' = workersQ \o [i \in DOMAIN Listed |-> [type |-> "send", to |-> Listed[i],
                                                         no |-> Len(news) + 1]]
    /\ UNCHANGED <<users, messages, clock, mgrVars, clientVars, job, closing, live, history,
                   status, ghostVars>>

Controller == Store \/ Walk

-----------------------------------------------------------------------------
Next ==
    \/ \E c \in Clients : Client(c)
    \/ \E w \in Workers : Worker(w)
    \/ Listener
    \/ Controller

Spec == Init /\ [][Next]_vars

-----------------------------------------------------------------------------
(* Properties *)

TypeOK ==
    /\ \A r \in users : r.uid \in Nat \ {0}
    /\ messages \subseteq Text
    /\ clock \in Nat
    /\ session \in [Clients -> Nat \cup {Absent}]
    /\ listed \subseteq Clients
    /\ mutex \in Workers \cup {Free}
    /\ state \in [Clients -> {"new", "asked", "granted", "in", "refused", "left"}]
    /\ DOMAIN asked = Clients
    /\ texts \in [Clients -> Nat] /\ \A c \in Clients : texts[c] <= MaxTexts[c]
    /\ requests \in 0..MaxRequests
    /\ busy \in [Clients -> BOOLEAN]
    /\ job \in [Workers -> Job \cup {NoJob}]
    /\ closing \in Closing \cup {NoClose}
    /\ controllerQ \in Seq(Event)
    /\ storing \in BOOLEAN
    /\ workersQ \in Seq(What)
    /\ news \in Seq(Event)
    /\ live \in [Clients -> Seq(Nat)]
    /\ history \in [Clients -> (SUBSET Text) \cup {NotAnswered}]
    /\ status \in [Clients -> {"none", "auth error", "registration error", "ok"}]
    /\ DOMAIN enteredAs = Clients
    /\ blurred \subseteq Nat

\* A client is in as the user whose name and password it gave in the last login
\* that succeeded, however many others register at the time.
RightAccount ==
    \A c \in Clients :
      session[c] \notin {NullUid, Absent} =>
        Row(session[c], enteredAs[c]) \in users
        /\ \A r \in users : r.uid = session[c] => r.login = enteredAs[c].login

\* A name has one account, unless it was registered while another login registered.
NamesUnique == \A r, s \in users : r.login = s.login => r = s \/ r.login \in crowded

\* However logins, registrations and their answers interleave, the accounts and
\* who is in with them agree (db.c:20-75).
AccountsAgree == RightAccount /\ NamesUnique

\* A login that was answered was refused for a wrong password, or when two logins
\* registered at the same time.
HonestRefusal ==
    \A c \in Clients :
      state[c] # "asked" =>
        /\ status[c] = "auth error" =>
             \E r \in users : r.login = asked[c].login /\ r.password # asked[c].password
        /\ status[c] = "registration error" => asked[c].login \in crowded

Shown(c, m) ==
    \/ m \in history[c]
    \/ \E i \in DOMAIN live[c] : news[live[c][i]] = [kind |-> "text", text |-> m]

\* Event i of the news is to be sent to c.
Pending(c, i) ==
    LET j == [type |-> "send", to |-> c, no |-> i] IN
    \/ \E k \in DOMAIN workersQ : workersQ[k] = j
    \/ \E w \in Workers : job[w] # NoJob /\ job[w].what = j

OnItsWay(c, m) ==
    \/ storing /\ Head(controllerQ) = [kind |-> "text", text |-> m]
    \/ \E i \in DOMAIN news : news[i] = [kind |-> "text", text |-> m] /\ Pending(c, i)

\* A client that is in and has its history misses no text, though it was out of
\* sid_to_uid for a moment of each of its logins: the text is shown or on its way, or
\* older than a history that is full.
NothingMissed ==
    \A c \in Clients : \A m \in messages :
      state[c] = "in" /\ history[c] # NotAnswered =>
        \/ Shown(c, m)
        \/ OnItsWay(c, m)
        \/ /\ Cardinality(history[c]) = HistoryLength
           /\ \A k \in history[c] : k.stamp > m.stamp

\* The workers overtake each other, but never by more than their number: of
\* what was broadcast before a text that a client has seen, at most one piece
\* for each other worker is still to come.
BoundedReordering ==
    \A c \in Clients : \A k \in DOMAIN live[c] :
      Cardinality({i \in DOMAIN news : i < live[c][k] /\ Pending(c, i)})
        <= Cardinality(Workers) - 1

\* All that is said, in the order in which it is.
Feed == news \o controllerQ

\* The last that is said of user u in the first n events: that it came.
Here(u, n) ==
    \E i \in DOMAIN Feed :
      /\ i <= n
      /\ Feed[i] = [kind |-> "in", uid |-> u]
      /\ \A j \in DOMAIN Feed :
           i < j /\ j <= n => Feed[j].kind = "text" \/ Feed[j].uid # u

\* No login or close of u is between its first look at the sessions and its
\* announcement.
Settled(u) == ~Changing(u)

\* Everybody is told in turn that a user has come and has gone, and what was
\* told last is true, unless two sessions of that user changed at a time, or the
\* client with its last session logged in as another user, which nobody is told.
PresenceKept ==
    \A u \in {r.uid : r \in users} \ blurred :
      /\ \A i \in DOMAIN Feed :
           Feed[i].kind # "text" /\ Feed[i].uid = u =>
             Feed[i].kind = IF Here(u, i - 1) THEN "out" ELSE "in"
      /\ Settled(u) => (Sessions(u) > 0 <=> Here(u, Len(Feed)))

=============================================================================
