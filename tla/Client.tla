--------------------------------- MODULE Client ---------------------------------
(***************************************************************************)
(* The chat client: main and its three threads (gui, controller,           *)
(* listener), the queues between them, the user at the keys and the server *)
(* at the far end of the socket.                                           *)
(*                                                                         *)
(* The login dialogue is a chain of events in the queue of the gui thread, *)
(* whose callbacks connect, and send the login, from that thread; the      *)
(* answer comes back through the listener and the controller.  A status    *)
(* names no request: while the client is not logged in, any status is      *)
(* taken for the answer to the login.                                      *)
(*                                                                         *)
(* The texts of messages are left out; an event or a message is its kind.  *)
(* The handler of an event is one step: it touches other queues only to    *)
(* push.  A message's body may come after its header.                      *)
(*                                                                         *)
(* A definition named ..Slip is the definition that follows it with one    *)
(* plausible mistake; it is used only to see that a property notices.      *)
(***************************************************************************)
EXTENDS Naturals, Sequences

CONSTANTS
    MaxKeys,  \* bound: keys pressed in the main window
    MaxTalk   \* bound: messages the server sends unasked

ASSUME BoundAssumption == MaxKeys \in Nat /\ MaxTalk \in Nat

VARIABLES
    gpc,          \* the gui thread: at the keys, in an iteration, or in a dialog
    guiQ,
    shown,        \* the displayed messages that say why the client is over
    cpc,          \* the controller
    ctrlQ,
    loggedIn,
    lpc,          \* the listener
    listenerExit, \* the exit event is in the listener's queue
    mpc,          \* main: which thread it waits for
    link,         \* "none" while sockid is -1; "eof" and "hup": closed by the server
    toServer,
    toClient,
    accepted,     \* the server has logged this client in
    excuses,      \* history variable: why the login may be reported as failed
    keys, talk    \* counters of the bounds

guiVars == <<gpc, guiQ, shown>>
ctrlVars == <<cpc, ctrlQ, loggedIn>>
listenerVars == <<lpc, listenerExit>>
net == <<link, toServer, toClient, accepted, excuses>>
vars == <<guiVars, ctrlVars, listenerVars, mpc, net, keys, talk>>

LoginDialogs == {"address", "username", "password"}
Dialogs == LoginDialogs \cup {"uid", "reason"}
Reasons == {"cannotConnect", "cannotLogin", "kicked", "disconnected", "lost", "cannotPoll"}
Displays == Reasons \cup {"notSent", "status", "text", "user", "help"}

TypeOK ==
    /\ gpc \in {"key", "iterate", "ended"} \cup Dialogs
    /\ guiQ \in Seq(Dialogs \cup Displays)
    /\ shown \in SUBSET Reasons
    /\ cpc \in {"start", "loop", "ended"}
    /\ ctrlQ \in Seq({"exit", "send", "list", "kick", "hangup", "ok", "bad"})
    /\ loggedIn \in BOOLEAN
    /\ lpc \in {"loop", "body", "iterate", "hangup", "error", "ended"}
    /\ listenerExit \in BOOLEAN
    /\ mpc \in {"gui", "controller", "listener", "destroy", "ended"}
    /\ link \in {"none", "up", "eof", "hup"}
    /\ toServer \in Seq({"login", "regular", "history", "list", "kick", "logout"})
    /\ toClient \in Seq({"ok", "bad", "text", "list", "kick"})
    /\ accepted \in BOOLEAN
    /\ excuses \in SUBSET {"cancelled", "refused", "kick"}
    /\ keys \in 0..MaxKeys
    /\ talk \in 0..MaxTalk

Init ==
    /\ gpc = "key" /\ guiQ = << >> /\ shown = {}
    /\ cpc = "start" /\ ctrlQ = << >> /\ loggedIn = FALSE
    /\ lpc = "loop" /\ listenerExit = FALSE
    /\ mpc = "gui"
    /\ link = "none" /\ toServer = << >> /\ toClient = << >>
    /\ accepted = FALSE /\ excuses = {}
    /\ keys = 0 /\ talk = 0

-----------------------------------------------------------------------------
Display(message) == guiQ' = Append(guiQ, message)

\* send_urgent_event of the exit event to the controller.
StopController == ctrlQ' = <<"exit">> \o ctrlQ

\* send() on the socket.  What is sent to a closed socket is lost, and the
\* answer to it resets the connection.
Transmit(request) ==
    \/ link = "up" /\ toServer' = Append(toServer, request) /\ UNCHANGED link
    \/ link = "eof" /\ link' \in {"eof", "hup"} /\ UNCHANGED toServer
    \/ link \in {"none", "hup"} /\ UNCHANGED <<link, toServer>>

-----------------------------------------------------------------------------
(* The gui thread.  Every key is followed by one iteration of its loop. *)

PressEnter ==
    /\ ctrlQ' = Append(ctrlQ, "send")
    /\ UNCHANGED <<guiQ, link, toServer>>

PressHelp ==
    /\ Display("help")
    /\ UNCHANGED <<ctrlQ, link, toServer>>

PressList ==
    /\ Transmit("list")
    /\ UNCHANGED <<guiQ, ctrlQ>>

PressKick ==
    /\ guiQ' = Append(guiQ, "uid")
    /\ UNCHANGED <<ctrlQ, link, toServer>>

Press ==
    /\ gpc = "key"
    /\ keys < MaxKeys
    /\ PressEnter \/ PressHelp \/ PressList \/ PressKick
    /\ keys' = keys + 1
    /\ gpc' = "iterate"
    /\ UNCHANGED <<shown, cpc, loggedIn, listenerVars, mpc, toClient, accepted, excuses, talk>>

NoKey ==
    /\ gpc = "key"
    /\ gpc' = "iterate"
    /\ UNCHANGED <<guiQ, shown, ctrlVars, listenerVars, mpc, net, keys, talk>>

Quit ==
    /\ gpc = "key"
    /\ gpc' = "ended"
    /\ UNCHANGED <<guiQ, shown, ctrlVars, listenerVars, mpc, net, keys, talk>>

\* One event of the queue: a dialog opens or a message is displayed.
Iterate ==
    /\ gpc = "iterate"
    /\ \/ guiQ = << >> /\ gpc' = "key" /\ UNCHANGED <<guiQ, shown>>
       \/ /\ guiQ # << >>
          /\ guiQ' = Tail(guiQ)
          /\ gpc' = IF Head(guiQ) \in Dialogs THEN Head(guiQ) ELSE "key"
          /\ shown' = shown \cup ({Head(guiQ)} \cap Reasons)
    /\ UNCHANGED <<ctrlVars, listenerVars, mpc, net, keys, talk>>

\* The next dialog is opened by an event at the end of the queue.
Ask(dialog) == guiQ' = Append(guiQ, dialog)

\* connect_to_server works or fails.
AnswerAddress ==
    /\ gpc = "address"
    /\ \/ link' = "up" /\ Ask("username") /\ UNCHANGED ctrlQ
       \/ Display("cannotConnect") /\ StopController /\ UNCHANGED link
    /\ UNCHANGED toServer

AnswerUsername ==
    /\ gpc = "username"
    /\ Ask("password")
    /\ UNCHANGED <<ctrlQ, link, toServer>>

AnswerPassword ==
    /\ gpc = "password"
    /\ Transmit("login")
    /\ UNCHANGED <<guiQ, ctrlQ>>

AnswerUid ==
    /\ gpc = "uid"
    /\ Ask("reason")
    /\ UNCHANGED <<ctrlQ, link, toServer>>

AnswerReason ==
    /\ gpc = "reason"
    /\ Transmit("kick")
    /\ UNCHANGED <<guiQ, ctrlQ>>

Answer ==
    /\ AnswerAddress \/ AnswerUsername \/ AnswerPassword \/ AnswerUid \/ AnswerReason
    /\ gpc' = "key"
    /\ UNCHANGED <<shown, cpc, loggedIn, listenerVars, mpc, toClient, accepted, excuses, keys, talk>>

\* F10 in a dialog.  The failure callbacks of the login dialogs end the
\* controller; those of the kick dialogs do nothing.
Cancel ==
    /\ gpc \in Dialogs
    /\ \/ gpc = "address" /\ Display("cannotConnect") /\ StopController /\ UNCHANGED excuses
       \/ /\ gpc \in {"username", "password"}
          /\ Display("cannotLogin") /\ StopController
          /\ excuses' = excuses \cup {"cancelled"}
       \/ gpc \in {"uid", "reason"} /\ UNCHANGED <<guiQ, ctrlQ, excuses>>
    /\ gpc' = "key"
    /\ UNCHANGED <<shown, cpc, loggedIn, listenerVars, mpc,
                   link, toServer, toClient, accepted, keys, talk>>

-----------------------------------------------------------------------------
(* The controller. *)

StartController ==
    /\ cpc = "start"
    /\ cpc' = "loop"
    /\ Ask("address")
    /\ UNCHANGED <<gpc, shown, ctrlQ, loggedIn, listenerVars, mpc, net, keys, talk>>

\* An event is taken, and what is left of the queue is rest.
HandleExit(rest) ==
    /\ Head(ctrlQ) = "exit"
    /\ cpc' = "ended"
    /\ ctrlQ' = rest
    /\ UNCHANGED <<guiQ, loggedIn, link, toServer>>

HandleSend(rest) ==
    /\ Head(ctrlQ) = "send"
    /\ IF link = "none" \/ ~loggedIn
       THEN Display("notSent") /\ UNCHANGED <<link, toServer>>
       ELSE Transmit("regular") /\ UNCHANGED guiQ
    /\ ctrlQ' = rest
    /\ UNCHANGED <<cpc, loggedIn>>

HandleList(rest) ==
    /\ Head(ctrlQ) = "list"
    /\ Display("user")
    /\ ctrlQ' = rest
    /\ UNCHANGED <<cpc, loggedIn, link, toServer>>

HandleKickSlip(rest) ==
    /\ Head(ctrlQ) = "kick"
    /\ ctrlQ' = <<"exit">> \o rest
    /\ UNCHANGED <<guiQ, cpc, loggedIn, link, toServer>>   \* nothing is displayed

HandleKick(rest) ==
    /\ Head(ctrlQ) = "kick"
    /\ Display("kicked")
    /\ ctrlQ' = <<"exit">> \o rest
    /\ UNCHANGED <<cpc, loggedIn, link, toServer>>

HandleHangup(rest) ==
    /\ Head(ctrlQ) = "hangup"
    /\ Display("disconnected")
    /\ ctrlQ' = <<"exit">> \o rest
    /\ UNCHANGED <<cpc, loggedIn, link, toServer>>

HandleStatusSlip(rest) ==
    /\ Head(ctrlQ) \in {"ok", "bad"}
    /\ \/ /\ ~loggedIn /\ Head(ctrlQ) = "ok"
          /\ loggedIn' = TRUE
          /\ Transmit("history")
          /\ ctrlQ' = rest /\ UNCHANGED guiQ
       \/ /\ Head(ctrlQ) = "bad"   \* no test of loggedIn
          /\ Display("cannotLogin")
          /\ ctrlQ' = <<"exit">> \o rest
          /\ UNCHANGED <<loggedIn, link, toServer>>
       \/ /\ loggedIn /\ Head(ctrlQ) = "ok"
          /\ Display("status")
          /\ ctrlQ' = rest
          /\ UNCHANGED <<loggedIn, link, toServer>>
    /\ UNCHANGED cpc

HandleStatus(rest) ==
    /\ Head(ctrlQ) \in {"ok", "bad"}
    /\ \/ /\ ~loggedIn /\ Head(ctrlQ) = "ok"
          /\ loggedIn' = TRUE
          /\ Transmit("history")
          /\ ctrlQ' = rest /\ UNCHANGED guiQ
       \/ /\ ~loggedIn /\ Head(ctrlQ) = "bad"
          /\ Display("cannotLogin")
          /\ ctrlQ' = <<"exit">> \o rest
          /\ UNCHANGED <<loggedIn, link, toServer>>
       \/ /\ loggedIn
          /\ Display("status")
          /\ ctrlQ' = rest
          /\ UNCHANGED <<loggedIn, link, toServer>>
    /\ UNCHANGED cpc

Handle ==
    /\ cpc = "loop"
    /\ ctrlQ # << >>
    /\ LET rest == Tail(ctrlQ) IN
         \/ HandleExit(rest) \/ HandleSend(rest) \/ HandleList(rest)
         \/ HandleKick(rest) \/ HandleHangup(rest) \/ HandleStatus(rest)
    /\ UNCHANGED <<gpc, shown, listenerVars, mpc, toClient, accepted, excuses, keys, talk>>

-----------------------------------------------------------------------------
(* The listener: poll, receive, one iteration of its loop. *)

\* End of file is readable too, but the receipt of nothing is ignored.
Readable == link = "hup" \/ (link \in {"up", "eof"} /\ toClient # << >>)

\* The header of a message; recv() of its body may block.
ReceiveHeader ==
    /\ lpc = "loop"
    /\ link \in {"up", "eof"}
    /\ toClient # << >>
    /\ lpc' = "body"
    /\ UNCHANGED <<guiVars, ctrlVars, listenerExit, mpc, net, keys, talk>>

DispatchSlip(message) ==
    /\ guiQ' = Append(guiQ, message)   \* for the controller's queue
    /\ UNCHANGED ctrlQ

\* To the gui what is to be read, to the controller what is to be acted upon.
Dispatch(message) ==
    IF message = "text"
    THEN Display("text") /\ UNCHANGED ctrlQ
    ELSE ctrlQ' = Append(ctrlQ, message) /\ UNCHANGED guiQ

ReceiveBody ==
    /\ lpc = "body"
    /\ toClient # << >>
    /\ Dispatch(Head(toClient))
    /\ toClient' = Tail(toClient)
    /\ lpc' = "iterate"
    /\ UNCHANGED <<gpc, shown, cpc, loggedIn, listenerExit, mpc,
                   link, toServer, accepted, excuses, keys, talk>>

\* recv() fails: the connection was reset before the body came.
ReceiveError ==
    /\ lpc = "body"
    /\ link = "hup"
    /\ lpc' = "iterate"
    /\ UNCHANGED <<guiVars, ctrlVars, listenerExit, mpc, net, keys, talk>>

HangUpSlip ==
    /\ lpc = "loop"
    /\ link = "hup"
    /\ ctrlQ' = Append(ctrlQ, "hangup")
    /\ lpc' = "ended"   \* without the message to the user
    /\ UNCHANGED <<guiVars, cpc, loggedIn, listenerExit, mpc, net, keys, talk>>

HangUp ==
    /\ lpc = "loop"
    /\ link = "hup"
    /\ ctrlQ' = Append(ctrlQ, "hangup")
    /\ lpc' = "hangup"
    /\ UNCHANGED <<guiVars, cpc, loggedIn, listenerExit, mpc, net, keys, talk>>

\* poll() fails, as when a signal comes while it waits.
PollError ==
    /\ lpc = "loop"
    /\ link # "none"
    /\ ctrlQ' = Append(ctrlQ, "hangup")
    /\ lpc' = "error"
    /\ UNCHANGED <<guiVars, cpc, loggedIn, listenerExit, mpc, net, keys, talk>>

TellHangUp ==
    /\ \/ lpc = "hangup" /\ Display("lost")
       \/ lpc = "error" /\ Display("cannotPoll")
    /\ lpc' = "ended"
    /\ UNCHANGED <<gpc, shown, ctrlVars, listenerExit, mpc, net, keys, talk>>

\* The only event the listener is sent is the exit event.
IterateListener ==
    /\ lpc = "iterate" \/ (lpc = "loop" /\ ~Readable)
    /\ lpc' = IF listenerExit THEN "ended" ELSE "loop"
    /\ listenerExit' = FALSE
    /\ UNCHANGED <<guiVars, ctrlVars, mpc, net, keys, talk>>

-----------------------------------------------------------------------------
(* main. *)

JoinGui ==
    /\ mpc = "gui"
    /\ gpc = "ended"
    /\ StopController
    /\ mpc' = "controller"
    /\ UNCHANGED <<guiVars, cpc, loggedIn, listenerVars, net, keys, talk>>

JoinControllerSlip ==
    /\ mpc = "controller"
    /\ cpc = "ended"
    /\ mpc' = "listener"
    /\ UNCHANGED <<guiVars, ctrlVars, listenerVars, net, keys, talk>>   \* no exit event

JoinController ==
    /\ mpc = "controller"
    /\ cpc = "ended"
    /\ listenerExit' = TRUE
    /\ mpc' = "listener"
    /\ UNCHANGED <<guiVars, ctrlVars, lpc, net, keys, talk>>

JoinListener ==
    /\ mpc = "listener"
    /\ lpc = "ended"
    /\ mpc' = "destroy"
    /\ UNCHANGED <<guiVars, ctrlVars, listenerVars, net, keys, talk>>

\* The logout message, and the end of the process.
Destroy ==
    /\ mpc = "destroy"
    /\ Transmit("logout")
    /\ mpc' = "ended"
    /\ UNCHANGED <<guiVars, ctrlVars, listenerVars, toClient, accepted, excuses, keys, talk>>

-----------------------------------------------------------------------------
(* The server, as process_message_job_handler answers. *)

Reply(messages) == toClient' = toClient \o messages

ServeLogin ==
    /\ Head(toServer) = "login"
    /\ \/ accepted' = TRUE /\ Reply(<<"ok">>) /\ UNCHANGED excuses
       \/ Reply(<<"bad">>) /\ excuses' = excuses \cup {"refused"} /\ UNCHANGED accepted

ServeKick ==
    /\ Head(toServer) = "kick"
    /\ \/ /\ Reply(<<"bad">>)
          /\ excuses' = excuses \cup (IF accepted THEN {} ELSE {"kick"})
       \/ accepted /\ \E m \in {"text", "kick"} : Reply(<<m>>) /\ UNCHANGED excuses
    /\ UNCHANGED accepted

ServeOther ==
    /\ \/ Head(toServer) = "regular" /\ Reply(<<IF accepted THEN "text" ELSE "bad">>)
       \/ Head(toServer) = "history" /\ \E ms \in {<< >>, <<"text">>} : Reply(ms)
       \/ Head(toServer) = "list" /\ Reply(<<"list">>)
    /\ UNCHANGED <<accepted, excuses>>

Serve ==
    /\ link = "up"
    /\ toServer # << >>
    /\ toServer' = Tail(toServer)
    /\ ServeLogin \/ ServeKick \/ ServeOther
    /\ UNCHANGED <<guiVars, ctrlVars, listenerVars, mpc, link, keys, talk>>

\* A broadcast, which clients get that are not logged in, too, or another
\* user's kick.
Talk ==
    /\ link = "up"
    /\ talk < MaxTalk
    /\ talk' = talk + 1
    /\ Reply(<<"text">>) \/ (accepted /\ Reply(<<"kick">>))
    /\ UNCHANGED <<guiVars, ctrlVars, listenerVars, mpc, link, toServer, accepted, excuses, keys>>

\* The server closes the socket, at a logout or a kick or when it ends; what
\* it has not read makes that a reset.
Close ==
    /\ link = "up"
    /\ link' \in {"eof", "hup"}
    /\ toServer' = << >>
    /\ UNCHANGED <<guiVars, ctrlVars, listenerVars, mpc, toClient, accepted, excuses, keys, talk>>

-----------------------------------------------------------------------------
Gui == Press \/ NoKey \/ Quit \/ Iterate
Controller == StartController \/ Handle
Listener ==
    \/ ReceiveHeader \/ ReceiveBody \/ ReceiveError
    \/ HangUp \/ PollError \/ TellHangUp \/ IterateListener
Main == JoinGui \/ JoinController \/ JoinListener \/ Destroy
Server == Serve \/ Talk \/ Close

Next == Gui \/ Answer \/ Cancel \/ Controller \/ Listener \/ Main \/ Server

Spec == Init /\ [][Next]_vars

\* Every thread goes on, and need not come upon an error of poll() to do so; the
\* user owes no answer and no key.  The body of a message is sent with its header,
\* by one send().  The server answers.
FairSpec ==
    /\ Spec
    /\ WF_vars(Gui) /\ WF_vars(Controller) /\ WF_vars(Listener /\ lpc' # "error")
    /\ WF_vars(Main) /\ WF_vars(Serve)

-----------------------------------------------------------------------------
(* Properties *)

Events(q) == {q[i] : i \in DOMAIN q}
Told == shown \cup Events(guiQ)

\* The controller ends only when the user has quit or is being told the
\* reason (controller.c:78-97, hangup_event.c, kick_event.c).
NoSilentEnd == cpc = "ended" => mpc # "gui" \/ Told \cap Reasons # {}

\* The client takes itself for logged in, or sends what only a logged-in client
\* does, only when the server has logged it in (send_message_to_server_job.c:26).
LoggedInIsAccepted ==
    loggedIn \/ Events(toServer) \cap {"regular", "history"} # {} => accepted

\* "Cannot login" (controller.c:90) is said only when the user gave up, or the
\* server refused the login -- or a kick asked for before the login.
HonestRefusal == "cannotLogin" \in Told => excuses # {}

\* What the client believes of its login is what the server decided.
LoginIsHonest == LoggedInIsAccepted /\ HonestRefusal

\* F10 quits: the three threads end (main.c:35-47).
ExitStops == gpc = "ended" ~> mpc = "ended"

\* A user who is not in a dialog or gone is told of a reset connection, or that
\* the listener had failed (listener.c:137-153).
LostIsTold ==
    link = "hup" ~> {"lost", "cannotPoll"} \cap shown # {} \/ gpc \in Dialogs \cup {"ended"}

\* The answer to a login arrives, while there is a connection and a controller.
LoginIsAnswered ==
    "login" \in Events(toServer) ~> loggedIn \/ cpc = "ended" \/ link # "up"

=============================================================================
