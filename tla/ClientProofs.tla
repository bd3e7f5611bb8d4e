------------------------------ MODULE ClientProofs ------------------------------
(***************************************************************************)
(* The client never ends without a word to its user, and what it believes  *)
(* of its login is what the server decided, for any number of keys and     *)
(* messages.                                                               *)
(*                                                                         *)
(* The invariant follows the answer to the login through the two queues it *)
(* passes: as long as nothing excuses a refusal, a "bad" status is behind  *)
(* the "ok" that logs the client in, in the queue where it is or because   *)
(* the "ok" has gone ahead to the next.                                    *)
(***************************************************************************)
EXTENDS Client, SequenceTheorems, TLAPS

\* An "ok" is before every "bad".
OkFirst(q) == \A i \in DOMAIN q : q[i] = "bad" => \E j \in DOMAIN q : j < i /\ q[j] = "ok"

\* The controller ends after the user was told why, or after the user.
EndInv ==
    cpc = "ended" \/ "exit" \in Events(ctrlQ) => mpc # "gui" \/ Told \cap Reasons # {}

\* An "ok" on its way, and what it entitles to, come from a server that accepted.
AcceptedInv ==
    ~accepted =>
      /\ ~loggedIn
      /\ "ok" \notin Events(ctrlQ) \cup Events(toClient)
      /\ Events(toServer) \cap {"regular", "history"} = {}

\* Without an excuse the "ok" comes first.
RefusalInv ==
    /\ HonestRefusal
    /\ excuses = {} /\ ~loggedIn =>
         /\ accepted => "ok" \in Events(ctrlQ) \cup Events(toClient)
         /\ OkFirst(ctrlQ)
         /\ "ok" \in Events(ctrlQ) \/ OkFirst(toClient)

IInv == TypeOK /\ EndInv /\ AcceptedInv /\ RefusalInv

-----------------------------------------------------------------------------
(* Queues *)

\* An event joins a queue at its end.
LEMMA Joins ==
  ASSUME NEW T, NEW q \in Seq(T), NEW e \in T
  PROVE  /\ Append(q, e) \in Seq(T)
         /\ q \o <<e>> = Append(q, e)
         /\ Events(Append(q, e)) = Events(q) \cup {e}
         /\ OkFirst(q) /\ (e = "bad" => "ok" \in Events(q)) => OkFirst(Append(q, e))
<1> DEFINE p == Append(q, e)
<1>1. /\ p \in Seq(T) /\ q \o <<e>> = p
      /\ DOMAIN p = 1..(Len(q) + 1) /\ DOMAIN q = 1..Len(q) /\ Len(q) \in Nat
      /\ p[Len(q) + 1] = e /\ \A i \in DOMAIN q : p[i] = q[i]
  OBVIOUS
<1> HIDE DEF p
<1>2. \A i \in DOMAIN p : i \in DOMAIN q \/ (i = Len(q) + 1 /\ p[i] = e)
  BY <1>1
<1>3. (\A i \in DOMAIN q : i \in DOMAIN p /\ i < Len(q) + 1) /\ Len(q) + 1 \in DOMAIN p
  BY <1>1
<1>4. Events(p) = Events(q) \cup {e}
  <2>1. \A x \in Events(p) : x \in Events(q) \cup {e}
    BY <1>1, <1>2 DEF Events
  <2>2. \A x \in Events(q) : x \in Events(p)
    BY <1>1, <1>3 DEF Events
  <2>3. e \in Events(p)
    BY <1>1, <1>3 DEF Events
  <2> QED
    BY <2>1, <2>2, <2>3
<1>5. ASSUME OkFirst(q), e = "bad" => "ok" \in Events(q) PROVE OkFirst(p)
  BY <1>1, <1>2, <1>3, <1>5 DEF OkFirst, Events
<1> QED
  BY <1>1, <1>4, <1>5 DEF p

\* The first event leaves a queue.
LEMMA Leaves ==
  ASSUME NEW T, NEW q \in Seq(T), q # << >>
  PROVE  /\ Tail(q) \in Seq(T)
         /\ Head(q) \in T
         /\ Events(q) = {Head(q)} \cup Events(Tail(q))
         /\ OkFirst(q) => Head(q) # "bad"
         /\ OkFirst(q) /\ Head(q) # "ok" => OkFirst(Tail(q))
<1> DEFINE p == Tail(q)
           h == Head(q)
<1>1. /\ p \in Seq(T) /\ h \in T /\ h = q[1]
      /\ DOMAIN p = 1..(Len(q) - 1) /\ DOMAIN q = 1..Len(q) /\ Len(q) \in Nat \ {0}
      /\ \A i \in DOMAIN p : p[i] = q[i + 1]
  OBVIOUS
<1> HIDE DEF p, h
<1>2. \A i \in DOMAIN q : i \in Nat /\ i >= 1 /\ (i = 1 \/ (i - 1 \in DOMAIN p /\ p[i - 1] = q[i]))
  BY <1>1
<1>3. (\A i \in DOMAIN p : i \in Nat /\ i + 1 \in DOMAIN q /\ i + 1 # 1) /\ 1 \in DOMAIN q
  BY <1>1
<1>4. Events(q) = {h} \cup Events(p)
  <2>1. \A x \in Events(q) : x \in {h} \cup Events(p)
    BY <1>1, <1>2 DEF Events
  <2>2. \A x \in Events(p) : x \in Events(q)
    BY <1>1, <1>3 DEF Events
  <2>3. h \in Events(q)
    BY <1>1, <1>3 DEF Events
  <2> QED
    BY <2>1, <2>2, <2>3
<1>5. ASSUME OkFirst(q) PROVE h # "bad"
  BY <1>1, <1>2, <1>3, <1>5 DEF OkFirst
<1>6. ASSUME OkFirst(q), h # "ok" PROVE OkFirst(p)
  <2> SUFFICES ASSUME NEW i \in DOMAIN p, p[i] = "bad"
               PROVE  \E j \in DOMAIN p : j < i /\ p[j] = "ok"
    BY DEF OkFirst
  <2>1. PICK j \in DOMAIN q : j < i + 1 /\ q[j] = "ok"
    BY <1>1, <1>3, <1>6 DEF OkFirst
  <2>2. j - 1 \in DOMAIN p /\ p[j - 1] = "ok" /\ j - 1 < i
    BY <1>1, <1>2, <1>3, <1>6, <2>1
  <2> QED
    BY <2>2
<1> QED
  BY <1>1, <1>4, <1>5, <1>6 DEF p, h

\* The exit event is sent ahead of the others.
LEMMA Urgent ==
  ASSUME NEW T, NEW q \in Seq(T), NEW e \in T
  PROVE  /\ <<e>> \o q \in Seq(T)
         /\ Events(<<e>> \o q) = {e} \cup Events(q)
         /\ OkFirst(q) /\ e # "bad" => OkFirst(<<e>> \o q)
<1> DEFINE p == <<e>> \o q
<1>1. /\ p \in Seq(T) /\ p[1] = e
      /\ DOMAIN p = 1..(Len(q) + 1) /\ DOMAIN q = 1..Len(q) /\ Len(q) \in Nat
      /\ \A i \in DOMAIN q : p[i + 1] = q[i]
  OBVIOUS
<1> HIDE DEF p
<1>2. \A i \in DOMAIN p : i \in Nat /\ (i = 1 \/ (i - 1 \in DOMAIN q /\ q[i - 1] = p[i]))
  BY <1>1
<1>3. (\A i \in DOMAIN q : i \in Nat /\ i + 1 \in DOMAIN p) /\ 1 \in DOMAIN p
  BY <1>1
<1>4. Events(p) = {e} \cup Events(q)
  <2>1. \A x \in Events(p) : x \in {e} \cup Events(q)
    BY <1>1, <1>2 DEF Events
  <2>2. \A x \in Events(q) : x \in Events(p)
    BY <1>1, <1>3 DEF Events
  <2>3. e \in Events(p)
    BY <1>1, <1>3 DEF Events
  <2> QED
    BY <2>1, <2>2, <2>3
<1>5. ASSUME OkFirst(q), e # "bad" PROVE OkFirst(p)
  <2> SUFFICES ASSUME NEW i \in DOMAIN p, p[i] = "bad"
               PROVE  \E j \in DOMAIN p : j < i /\ p[j] = "ok"
    BY DEF OkFirst
  <2>1. i - 1 \in DOMAIN q /\ q[i - 1] = "bad" /\ i \in Nat
    BY <1>1, <1>2, <1>5
  <2>2. PICK j \in DOMAIN q : j < i - 1 /\ q[j] = "ok"
    BY <1>5, <2>1 DEF OkFirst
  <2>3. j + 1 \in DOMAIN p /\ p[j + 1] = "ok" /\ j + 1 < i
    BY <1>1, <1>3, <2>1, <2>2
  <2> QED
    BY <2>3
<1> QED
  BY <1>1, <1>4, <1>5 DEF p

-----------------------------------------------------------------------------
(* What a step does to each queue. *)

GuiEvents    == Dialogs \cup Displays
CtrlEvents   == {"exit", "send", "list", "kick", "hangup", "ok", "bad"}
Requests     == {"login", "regular", "history", "list", "kick", "logout"}
Messages     == {"ok", "bad", "text", "list", "kick"}

\* What the queues of the two threads and the connection hold.
LEMMA QueueTypes ==
  TypeOK => /\ guiQ \in Seq(GuiEvents)
            /\ ctrlQ \in Seq(CtrlEvents)
            /\ toServer \in Seq(Requests)
            /\ toClient \in Seq(Messages)
BY DEF TypeOK, GuiEvents, CtrlEvents, Requests, Messages

\* What has been told stays told.
LEMMA ToldStays ==
  ASSUME TypeOK
  PROVE  /\ \A d \in GuiEvents :
              guiQ' = Append(guiQ, d) /\ shown' = shown =>
                guiQ' \in Seq(GuiEvents) /\ Told' = Told \cup {d}
         /\ Iterate =>
              /\ guiQ' \in Seq(GuiEvents) /\ shown' \in SUBSET Reasons
              /\ Told' \cap Reasons = Told \cap Reasons
              /\ "cannotLogin" \in Told' => "cannotLogin" \in Told
<1>1. ASSUME NEW d \in GuiEvents, guiQ' = Append(guiQ, d), shown' = shown
      PROVE  guiQ' \in Seq(GuiEvents) /\ Told' = Told \cup {d}
  BY <1>1, QueueTypes, Joins DEF Told
<1>2. ASSUME Iterate
      PROVE  /\ guiQ' \in Seq(GuiEvents) /\ shown' \in SUBSET Reasons
             /\ Told' \cap Reasons = Told \cap Reasons
  <2>1. CASE guiQ' = guiQ /\ shown' = shown
    BY <2>1, QueueTypes DEF Told, TypeOK
  <2>2. CASE /\ guiQ # << >> /\ guiQ' = Tail(guiQ)
             /\ shown' = shown \cup ({Head(guiQ)} \cap Reasons)
    <3>1. guiQ' \in Seq(GuiEvents) /\ Events(guiQ) = {Head(guiQ)} \cup Events(guiQ')
      BY <2>2, QueueTypes, Leaves
    <3>2. shown \subseteq Reasons
      BY DEF TypeOK
    <3> QED
      BY <2>2, <3>1, <3>2 DEF Told
  <2> QED
    BY <1>2, <2>1, <2>2 DEF Iterate
<1>3. ASSUME Iterate, "cannotLogin" \in Told' PROVE "cannotLogin" \in Told
  <2>1. "cannotLogin" \in Reasons
    BY DEF Reasons
  <2> QED
    BY <1>2, <1>3, <2>1
<1> QED
  BY <1>1, <1>2, <1>3

\* A request goes to the server, if there still is one.
LEMMA Transmits ==
  ASSUME TypeOK, NEW request \in Requests, Transmit(request)
  PROVE  /\ toServer' \in Seq(Requests)
         /\ link' \in {"none", "up", "eof", "hup"}
         /\ Events(toServer') \subseteq Events(toServer) \cup {request}
<1>1. toServer \in Seq(Requests) /\ link \in {"none", "up", "eof", "hup"}
  BY QueueTypes DEF TypeOK
<1>2. CASE toServer' = Append(toServer, request) /\ link' = link
  <2>1. Append(toServer, request) \in Seq(Requests)
        /\ Events(Append(toServer, request)) = Events(toServer) \cup {request}
    BY <1>1, Joins
  <2> QED
    BY <1>1, <1>2, <2>1
<1>3. CASE toServer' = toServer /\ link' \in {"none", "eof", "hup"}
  <2>1. Events(toServer') = Events(toServer)
    BY <1>3 DEF Events
  <2> QED
    BY <1>1, <1>3, <2>1
<1> QED
  BY <1>2, <1>3 DEF Transmit

-----------------------------------------------------------------------------
(* The variables have their types. *)

\* A step keeps every variable in its type.
LEMMA TypeStep ==
  ASSUME TypeOK, [Next]_vars
  PROVE  TypeOK'
<1> USE QueueTypes
<1>t. /\ \A q \in Seq(GuiEvents), e \in GuiEvents : Append(q, e) \in Seq(GuiEvents)
      /\ \A q \in Seq(CtrlEvents), e \in CtrlEvents :
           Append(q, e) \in Seq(CtrlEvents) /\ <<e>> \o q \in Seq(CtrlEvents)
      /\ \A q \in Seq(CtrlEvents) : q # << >> => Tail(q) \in Seq(CtrlEvents)
      /\ \A q \in Seq(Requests) : q # << >> => Tail(q) \in Seq(Requests)
      /\ \A q \in Seq(Messages) : q # << >> => Tail(q) \in Seq(Messages) /\ Head(q) \in Messages
      /\ \A q \in Seq(Messages), e \in Messages : q \o <<e>> \in Seq(Messages)
      /\ \A q \in Seq(Messages) : q \o << >> \in Seq(Messages)
  OBVIOUS
<1> DEFINE GuiType == /\ gpc \in {"key", "iterate", "ended"} \cup Dialogs
                      /\ guiQ \in Seq(GuiEvents) /\ shown \in SUBSET Reasons
           CtrlType == /\ cpc \in {"start", "loop", "ended"}
                       /\ ctrlQ \in Seq(CtrlEvents) /\ loggedIn \in BOOLEAN
           ListenerType == /\ lpc \in {"loop", "body", "iterate", "hangup", "error", "ended"}
                           /\ listenerExit \in BOOLEAN
           MainType == mpc \in {"gui", "controller", "listener", "destroy", "ended"}
           NetType == /\ link \in {"none", "up", "eof", "hup"}
                      /\ toServer \in Seq(Requests) /\ toClient \in Seq(Messages)
                      /\ accepted \in BOOLEAN
                      /\ excuses \in SUBSET {"cancelled", "refused", "kick"}
           BoundType == keys \in 0..MaxKeys /\ talk \in 0..MaxTalk
<1>g. TypeOK <=> GuiType /\ CtrlType /\ ListenerType /\ MainType /\ NetType /\ BoundType
  BY DEF TypeOK, GuiEvents, CtrlEvents, Requests, Messages
<1>h. TypeOK' <=> GuiType' /\ CtrlType' /\ ListenerType' /\ MainType' /\ NetType' /\ BoundType'
  BY DEF TypeOK, GuiEvents, CtrlEvents, Requests, Messages
<1>1. CASE Press
  <2>1. keys' \in 0..MaxKeys
    BY <1>1, BoundAssumption DEF Press, TypeOK
  <2>2. toServer' \in Seq(Requests) /\ link' \in {"none", "up", "eof", "hup"}
    BY <1>1, Transmits DEF Press, PressEnter, PressHelp, PressList, PressKick, Requests, TypeOK
  <2>3. guiQ' \in Seq(GuiEvents)
    BY <1>1, <1>t DEF Press, PressEnter, PressHelp, PressList, PressKick, Display, GuiEvents,
                      Dialogs, Displays
  <2>4. ctrlQ' \in Seq(CtrlEvents)
    BY <1>1, <1>t DEF Press, PressEnter, PressHelp, PressList, PressKick, CtrlEvents
  <2> QED
    BY <1>1, <1>g, <1>h, <2>1, <2>2, <2>3, <2>4 DEF Press, listenerVars
<1>2. CASE NoKey \/ Quit
  BY <1>2, <1>g, <1>h DEF NoKey, Quit, ctrlVars, listenerVars, net
<1>3. CASE Iterate
  <2>1. gpc' \in {"key"} \cup Dialogs
    BY <1>3 DEF Iterate
  <2> QED
    BY <1>3, <1>g, <1>h, <2>1, ToldStays DEF Iterate, ctrlVars, listenerVars, net
<1>4. CASE Answer
  <2>1. toServer' \in Seq(Requests) /\ link' \in {"none", "up", "eof", "hup"}
    BY <1>4, Transmits
       DEF Answer, AnswerAddress, AnswerUsername, AnswerPassword, AnswerUid, AnswerReason,
           Requests, TypeOK
  <2>2. guiQ' \in Seq(GuiEvents)
    BY <1>4, <1>t
       DEF Answer, AnswerAddress, AnswerUsername, AnswerPassword, AnswerUid, AnswerReason,
           Ask, Display, GuiEvents, Dialogs, LoginDialogs, Displays, Reasons
  <2>3. ctrlQ' \in Seq(CtrlEvents)
    BY <1>4, <1>t
       DEF Answer, AnswerAddress, AnswerUsername, AnswerPassword, AnswerUid, AnswerReason,
           StopController, CtrlEvents
  <2> QED
    BY <1>4, <1>g, <1>h, <2>1, <2>2, <2>3 DEF Answer, listenerVars
<1>5. CASE Cancel
  <2>1. guiQ' \in Seq(GuiEvents)
    BY <1>5, <1>t DEF Cancel, Display, GuiEvents, Displays, Reasons
  <2>2. ctrlQ' \in Seq(CtrlEvents)
    BY <1>5, <1>t DEF Cancel, StopController, CtrlEvents
  <2> QED
    BY <1>5, <1>g, <1>h, <2>1, <2>2 DEF Cancel, listenerVars
<1>6. CASE StartController
  <2>1. guiQ' \in Seq(GuiEvents)
    BY <1>6, <1>t DEF StartController, Ask, GuiEvents, Dialogs, LoginDialogs
  <2> QED
    BY <1>6, <1>g, <1>h, <2>1 DEF StartController, listenerVars, net
<1>7. CASE Handle
  <2> DEFINE rest == Tail(ctrlQ)
  <2>1. \/ HandleExit(rest) \/ HandleSend(rest) \/ HandleList(rest)
        \/ HandleKick(rest) \/ HandleHangup(rest) \/ HandleStatus(rest)
    BY <1>7 DEF Handle
  <2>2. rest \in Seq(CtrlEvents)
    BY <1>7, <1>t DEF Handle
  <2> HIDE DEF rest
  <2>3. guiQ' \in Seq(GuiEvents)
    BY <2>1, <1>t DEF HandleExit, HandleSend, HandleList, HandleKick, HandleHangup, HandleStatus,
                      Display, GuiEvents, Displays, Reasons
  <2>4. ctrlQ' \in Seq(CtrlEvents)
    BY <2>1, <2>2, <1>t DEF HandleExit, HandleSend, HandleList, HandleKick, HandleHangup,
                      HandleStatus, CtrlEvents
  <2>5. toServer' \in Seq(Requests) /\ link' \in {"none", "up", "eof", "hup"}
    BY <2>1, Transmits DEF HandleExit, HandleSend, HandleList, HandleKick, HandleHangup,
                      HandleStatus, Requests, TypeOK
  <2>6. cpc' \in {"start", "loop", "ended"} /\ loggedIn' \in BOOLEAN
    BY <2>1 DEF HandleExit, HandleSend, HandleList, HandleKick, HandleHangup, HandleStatus, TypeOK
  <2> QED
    BY <1>7, <1>g, <1>h, <2>3, <2>4, <2>5, <2>6 DEF Handle, listenerVars
<1>8. CASE ReceiveBody
  <2>1. toClient' \in Seq(Messages) /\ Head(toClient) \in Messages
    BY <1>8, <1>t DEF ReceiveBody
  <2>2. guiQ' \in Seq(GuiEvents) /\ ctrlQ' \in Seq(CtrlEvents)
    <3>1. CASE Head(toClient) = "text"
      BY <1>8, <1>t, <3>1 DEF ReceiveBody, Dispatch, Display, GuiEvents, Displays
    <3>2. CASE Head(toClient) # "text"
      <4>1. Head(toClient) \in CtrlEvents
        BY <2>1, <3>2 DEF Messages, CtrlEvents
      <4>2. guiQ' = guiQ /\ ctrlQ' = Append(ctrlQ, Head(toClient))
        BY <1>8, <3>2 DEF ReceiveBody, Dispatch
      <4> QED
        BY <1>t, <4>1, <4>2
    <3> QED
      BY <3>1, <3>2
  <2> QED
    BY <1>8, <1>g, <1>h, <2>1, <2>2 DEF ReceiveBody
<1>9. CASE ReceiveHeader \/ ReceiveError \/ IterateListener
  BY <1>9, <1>g, <1>h DEF ReceiveHeader, ReceiveError, IterateListener, guiVars, ctrlVars, net
<1>10. CASE HangUp \/ PollError \/ TellHangUp
  <2>1. guiQ' \in Seq(GuiEvents) /\ ctrlQ' \in Seq(CtrlEvents)
    BY <1>10, <1>t DEF HangUp, PollError, TellHangUp, Display, guiVars, ctrlVars, GuiEvents,
                     Displays, Reasons,
                       CtrlEvents
  <2> QED
    BY <1>10, <1>g, <1>h, <2>1 DEF HangUp, PollError, TellHangUp, guiVars, ctrlVars, net
<1>11. CASE JoinGui \/ JoinController \/ JoinListener
  <2>1. ctrlQ' \in Seq(CtrlEvents)
    BY <1>11, <1>t DEF JoinGui, JoinController, JoinListener, StopController, ctrlVars, CtrlEvents
  <2> QED
    BY <1>11, <1>g, <1>h, <2>1
       DEF JoinGui, JoinController, JoinListener, guiVars, ctrlVars, listenerVars, net
<1>12. CASE Destroy
  <2>1. toServer' \in Seq(Requests) /\ link' \in {"none", "up", "eof", "hup"}
    BY <1>12, Transmits DEF Destroy, Requests
  <2> QED
    BY <1>12, <1>g, <1>h, <2>1 DEF Destroy, guiVars, ctrlVars, listenerVars
<1>13. CASE Serve
  <2>1. toServer' \in Seq(Requests)
    BY <1>13, <1>t DEF Serve
  <2>2. toClient' \in Seq(Messages)
    <3>1. PICK ms \in {<< >>} \cup {<<e>> : e \in Messages} : toClient' = toClient \o ms
      <4>1. CASE ServeLogin
        BY <4>1 DEF ServeLogin, Reply, Messages
      <4>2. CASE ServeKick
        BY <4>2 DEF ServeKick, Reply, Messages
      <4>3. CASE ServeOther
        BY <4>3 DEF ServeOther, Reply, Messages
      <4> QED
        BY <1>13, <4>1, <4>2, <4>3 DEF Serve
    <3> QED
      BY <1>t, <3>1
  <2>3. accepted' \in BOOLEAN
    BY <1>13 DEF Serve, ServeLogin, ServeKick, ServeOther, TypeOK
  <2>4. excuses' \in SUBSET {"cancelled", "refused", "kick"}
    BY <1>13 DEF Serve, ServeLogin, ServeKick, ServeOther, TypeOK
  <2> QED
    BY <1>13, <1>g, <1>h, <2>1, <2>2, <2>3, <2>4 DEF Serve, guiVars, ctrlVars, listenerVars
<1>14. CASE Talk
  <2>1. toClient' \in Seq(Messages)
    BY <1>14, <1>t DEF Talk, Reply, Messages
  <2>2. talk' \in 0..MaxTalk
    BY <1>14, BoundAssumption DEF Talk, TypeOK
  <2> QED
    BY <1>14, <1>g, <1>h, <2>1, <2>2 DEF Talk, guiVars, ctrlVars, listenerVars
<1>15. CASE Close
  <2>1. << >> \in Seq(Requests)
    OBVIOUS
  <2> QED
    BY <1>15, <1>g, <1>h, <2>1 DEF Close, guiVars, ctrlVars, listenerVars
<1>16. CASE UNCHANGED vars
  BY <1>16 DEF vars, guiVars, ctrlVars, listenerVars, net, TypeOK
<1> QED
  BY <1>1, <1>2, <1>3, <1>4, <1>5, <1>6, <1>7, <1>8, <1>9, <1>10, <1>11, <1>12, <1>13, <1>14,
     <1>15, <1>16 DEF Next, Gui, Controller, Listener, Main, Server

-----------------------------------------------------------------------------
(* The end of the controller. *)

\* The other threads show nothing, and queue no more than one thing to show.
LEMMA GuiSteps ==
  ASSUME TypeOK, [Next]_vars, ~Iterate
  PROVE  /\ shown' = shown
         /\ guiQ' = guiQ \/ \E d \in GuiEvents : guiQ' = Append(guiQ, d)
<1> USE DEF GuiEvents, Dialogs, LoginDialogs, Displays, Reasons
<1>1. CASE Press \/ NoKey \/ Quit
  BY <1>1 DEF Press, PressEnter, PressHelp, PressList, PressKick, NoKey, Quit, Display
<1>2. CASE Answer \/ Cancel
  BY <1>2 DEF Answer, AnswerAddress, AnswerUsername, AnswerPassword, AnswerUid, AnswerReason,
              Cancel, Ask, Display
<1>3. CASE StartController
  BY <1>3 DEF StartController, Ask
<1>4. CASE Handle
  BY <1>4 DEF Handle, HandleExit, HandleSend, HandleList, HandleKick, HandleHangup, HandleStatus,
              Display
<1>5. CASE Listener
  BY <1>5 DEF Listener, ReceiveHeader, ReceiveBody, ReceiveError, HangUp, PollError, TellHangUp,
              IterateListener, Dispatch, Display, guiVars
<1>6. CASE Main \/ Server \/ UNCHANGED vars
  BY <1>6 DEF Main, JoinGui, JoinController, JoinListener, Destroy, Server, Serve, Talk, Close,
              guiVars, vars
<1> QED
  BY <1>1, <1>2, <1>3, <1>4, <1>5, <1>6 DEF Next, Gui, Controller

\* A reason that was told stays told, or on its way to the GUI.
LEMMA ReasonsStay ==
  ASSUME TypeOK, [Next]_vars
  PROVE  Told \cap Reasons \subseteq Told'
<1>1. CASE Iterate
  BY <1>1, ToldStays
<1>2. CASE ~Iterate
  <2>1. shown' = shown /\ (guiQ' = guiQ \/ \E d \in GuiEvents : guiQ' = Append(guiQ, d))
    BY <1>2, GuiSteps
  <2>2. CASE guiQ' = guiQ
    BY <2>1, <2>2 DEF Told, Events
  <2> QED
    BY <2>1, <2>2, ToldStays
<1> QED
  BY <1>1, <1>2

\* A step ends the controller only with a reason told.
LEMMA EndStep ==
  ASSUME TypeOK, EndInv, [Next]_vars
  PROVE  EndInv'
<1> SUFFICES ASSUME cpc' = "ended" \/ "exit" \in Events(ctrlQ)', mpc' = "gui"
             PROVE  Told' \cap Reasons # {}
  BY DEF EndInv
<1>1. CASE mpc = "gui" /\ (cpc = "ended" \/ "exit" \in Events(ctrlQ))
  BY <1>1, ReasonsStay DEF EndInv
<1>2. ASSUME NEW d \in Reasons, guiQ' = Append(guiQ, d), shown' = shown
      PROVE  Told' \cap Reasons # {}
  <2>1. d \in GuiEvents
    BY DEF GuiEvents, Displays
  <2> QED
    BY <1>2, <2>1, ToldStays
<1>3. mpc = "gui"
  BY DEF Next, Gui, Press, NoKey, Quit, Iterate, Answer, Cancel, Controller, StartController,
         Handle, Listener, ReceiveHeader, ReceiveBody, ReceiveError, HangUp, PollError, TellHangUp,
         IterateListener, Main, JoinGui, JoinController, JoinListener, Destroy, Server, Serve,
         Talk, Close, vars
<1>4. ASSUME cpc' = cpc, ctrlQ' = ctrlQ PROVE Told' \cap Reasons # {}
  BY <1>1, <1>3, <1>4 DEF Events
<1>5. ASSUME cpc' = cpc, NEW e \in CtrlEvents \ {"exit"}, ctrlQ' = Append(ctrlQ, e)
      PROVE  Told' \cap Reasons # {}
  <2>1. Events(ctrlQ') = Events(ctrlQ) \cup {e}
    BY <1>5, QueueTypes, Joins
  <2> QED
    BY <1>1, <1>3, <1>5, <2>1
<1>6. CASE Gui
  BY <1>4, <1>5, <1>6 DEF Gui, Press, PressEnter, PressHelp, PressList, PressKick, NoKey, Quit,
                          Iterate, ctrlVars, CtrlEvents
<1>7. CASE Answer \/ Cancel
  <2>1. "cannotConnect" \in Reasons /\ "cannotLogin" \in Reasons
    BY DEF Reasons
  <2> QED
    BY <1>2, <1>4, <1>7, <2>1
       DEF Answer, AnswerAddress, AnswerUsername, AnswerPassword, AnswerUid, AnswerReason, Cancel,
           Display
<1>8. CASE StartController
  <2>1. cpc' = "loop" /\ ctrlQ' = ctrlQ
    BY <1>8 DEF StartController
  <2> QED
    BY <1>1, <1>3, <2>1 DEF Events
<1>9. CASE Handle
  <2> DEFINE rest == Tail(ctrlQ)
  <2>1. /\ \/ HandleExit(rest) \/ HandleSend(rest) \/ HandleList(rest)
           \/ HandleKick(rest) \/ HandleHangup(rest) \/ HandleStatus(rest)
        /\ shown' = shown
    BY <1>9 DEF Handle
  <2>2. ctrlQ # << >> /\ Events(ctrlQ) = {Head(ctrlQ)} \cup Events(rest)
    BY <1>9, QueueTypes, Leaves DEF Handle
  <2> HIDE DEF rest
  <2>3. CASE HandleExit(rest)
    BY <1>1, <1>3, <2>2, <2>3 DEF HandleExit
  <2>4. CASE ctrlQ' = rest /\ cpc' = cpc
    BY <1>1, <1>3, <2>2, <2>4
  <2>5. "kicked" \in Reasons /\ "disconnected" \in Reasons /\ "cannotLogin" \in Reasons
    BY DEF Reasons
  <2>6. CASE HandleKick(rest) \/ HandleHangup(rest)
    BY <1>2, <2>1, <2>5, <2>6 DEF HandleKick, HandleHangup, Display
  <2>7. CASE HandleStatus(rest)
    BY <1>2, <2>1, <2>4, <2>5, <2>7 DEF HandleStatus, Display
  <2> QED
    BY <2>1, <2>3, <2>4, <2>6, <2>7 DEF HandleSend, HandleList
<1>10. CASE ReceiveBody
  <2>1. Head(toClient) \in Messages
    BY <1>10, QueueTypes, Leaves DEF ReceiveBody
  <2>2. Head(toClient) # "text" => Head(toClient) \in CtrlEvents \ {"exit"}
    BY <2>1 DEF Messages, CtrlEvents
  <2> QED
    BY <1>4, <1>5, <1>10, <2>2 DEF ReceiveBody, Dispatch
<1>11. CASE Listener /\ ~ReceiveBody
  BY <1>4, <1>5, <1>11 DEF Listener, ReceiveHeader, ReceiveError, HangUp, PollError, TellHangUp,
                           IterateListener, ctrlVars, CtrlEvents
<1>12. CASE Main \/ Server \/ UNCHANGED vars
  BY <1>3, <1>4, <1>12 DEF Main, JoinGui, JoinController, JoinListener, Destroy, Server, Serve,
                           Talk, Close, ctrlVars, vars
<1> QED
  BY <1>6, <1>7, <1>8, <1>9, <1>10, <1>11, <1>12 DEF Next, Controller

-----------------------------------------------------------------------------
(* The login. *)

\* A step lets the client in only if the server accepted it.
LEMMA AcceptedStep ==
  ASSUME TypeOK, AcceptedInv, [Next]_vars
  PROVE  AcceptedInv'
<1> DEFINE Granted == /\ loggedIn' => accepted
                      /\ "ok" \in Events(ctrlQ') \cup Events(toClient') => accepted
                      /\ Events(toServer') \cap {"regular", "history"} # {} => accepted
<1>1. ASSUME Granted, accepted => accepted' PROVE AcceptedInv'
  BY <1>1 DEF AcceptedInv
<1>2. ASSUME toServer' = toServer PROVE Events(toServer') = Events(toServer)
  BY <1>2
<1>3. ASSUME NEW e \in CtrlEvents, ctrlQ' = ctrlQ \/ ctrlQ' = Append(ctrlQ, e) \/ ctrlQ' = <<e>> \o ctrlQ
      PROVE  Events(ctrlQ') \subseteq Events(ctrlQ) \cup {e}
  <2>1. ctrlQ \in Seq(CtrlEvents)
    BY QueueTypes
  <2>2. /\ Events(Append(ctrlQ, e)) = Events(ctrlQ) \cup {e}
        /\ Events(<<e>> \o ctrlQ) = Events(ctrlQ) \cup {e}
    BY <2>1, Joins, Urgent
  <2> QED
    BY <1>3, <2>2
<1>4. CASE Gui \/ Answer \/ Cancel
  <2>1. UNCHANGED <<loggedIn, toClient, accepted>>
    BY <1>4 DEF Gui, Press, NoKey, Quit, Iterate, Answer, Cancel, ctrlVars, net
  <2>2. PICK e \in {"exit", "send"} :
           ctrlQ' = ctrlQ \/ ctrlQ' = Append(ctrlQ, e) \/ ctrlQ' = <<e>> \o ctrlQ
    BY <1>4 DEF Gui, Press, PressEnter, PressHelp, PressList, PressKick, NoKey, Quit, Iterate,
                Answer, AnswerAddress, AnswerUsername, AnswerPassword, AnswerUid, AnswerReason,
                Cancel, StopController, ctrlVars
  <2>3. Events(ctrlQ') \subseteq Events(ctrlQ) \cup {"exit", "send"}
    BY <1>3, <2>2 DEF CtrlEvents
  <2>4. toServer' = toServer \/ \E request \in {"list", "login", "kick"} : Transmit(request)
    BY <1>4 DEF Gui, Press, PressEnter, PressHelp, PressList, PressKick, NoKey, Quit, Iterate,
                Answer, AnswerAddress, AnswerUsername, AnswerPassword, AnswerUid, AnswerReason,
                Cancel, net
  <2>5. Events(toServer') \subseteq Events(toServer) \cup {"list", "login", "kick"}
    BY <2>4, Transmits DEF Requests
  <2> QED
    BY <1>1, <2>1, <2>3, <2>5 DEF AcceptedInv
<1>5. CASE Handle
  <2> DEFINE rest == Tail(ctrlQ)
  <2>1. /\ \/ HandleExit(rest) \/ HandleSend(rest) \/ HandleList(rest)
           \/ HandleKick(rest) \/ HandleHangup(rest) \/ HandleStatus(rest)
        /\ UNCHANGED <<toClient, accepted>>
    BY <1>5 DEF Handle
  <2>2. /\ ctrlQ # << >> /\ Events(ctrlQ) = {Head(ctrlQ)} \cup Events(rest)
        /\ rest \in Seq(CtrlEvents)
    BY <1>5, QueueTypes, Leaves DEF Handle
  <2> HIDE DEF rest
  <2>3. Events(<<"exit">> \o rest) = {"exit"} \cup Events(rest)
    BY <2>2, Urgent DEF CtrlEvents
  <2>4. "ok" \in Events(ctrlQ') => "ok" \in Events(ctrlQ)
    BY <2>1, <2>2, <2>3
       DEF HandleExit, HandleSend, HandleList, HandleKick, HandleHangup, HandleStatus
  <2>5. loggedIn' => loggedIn \/ "ok" \in Events(ctrlQ)
    BY <2>1, <2>2
       DEF HandleExit, HandleSend, HandleList, HandleKick, HandleHangup, HandleStatus
  <2>6. \/ toServer' = toServer
        \/ /\ loggedIn \/ "ok" \in Events(ctrlQ)
           /\ \E request \in {"regular", "history"} : Transmit(request)
    BY <2>1, <2>2
       DEF HandleExit, HandleSend, HandleList, HandleKick, HandleHangup, HandleStatus
  <2>7. \/ Events(toServer') \subseteq Events(toServer)
        \/ loggedIn \/ "ok" \in Events(ctrlQ)
    BY <2>6
  <2> QED
    BY <1>1, <2>1, <2>4, <2>5, <2>7 DEF AcceptedInv
<1>6. CASE StartController \/ UNCHANGED vars
  BY <1>6 DEF StartController, net, vars, ctrlVars, AcceptedInv, Events
<1>7. CASE ReceiveBody
  <2>1. /\ Head(toClient) \in Messages
        /\ Events(toClient) = {Head(toClient)} \cup Events(toClient')
        /\ UNCHANGED <<loggedIn, toServer, accepted>>
    BY <1>7, QueueTypes, Leaves DEF ReceiveBody
  <2>2. Events(ctrlQ') \subseteq Events(ctrlQ) \cup {Head(toClient)}
    <3>1. CASE Head(toClient) = "text"
      BY <1>7, <3>1 DEF ReceiveBody, Dispatch
    <3>2. CASE Head(toClient) # "text"
      <4>1. Head(toClient) \in CtrlEvents
        BY <2>1, <3>2 DEF Messages, CtrlEvents
      <4> QED
        BY <1>3, <1>7, <3>2, <4>1 DEF ReceiveBody, Dispatch
    <3> QED
      BY <3>1, <3>2
  <2> QED
    BY <1>1, <2>1, <2>2 DEF AcceptedInv
<1>8. CASE (Listener /\ ~ReceiveBody) \/ Main
  <2>1. UNCHANGED <<loggedIn, toClient, accepted>>
    BY <1>8 DEF Listener, ReceiveHeader, ReceiveError, HangUp, PollError, TellHangUp,
                IterateListener, Main,
                JoinGui, JoinController, JoinListener, Destroy, ctrlVars, net
  <2>2. PICK e \in {"exit", "hangup"} :
           ctrlQ' = ctrlQ \/ ctrlQ' = Append(ctrlQ, e) \/ ctrlQ' = <<e>> \o ctrlQ
    BY <1>8 DEF Listener, ReceiveHeader, ReceiveError, HangUp, PollError, TellHangUp,
                IterateListener, Main,
                JoinGui, JoinController, JoinListener, Destroy, StopController, ctrlVars
  <2>3. Events(ctrlQ') \subseteq Events(ctrlQ) \cup {"exit", "hangup"}
    BY <1>3, <2>2 DEF CtrlEvents
  <2>4. toServer' = toServer \/ Transmit("logout")
    BY <1>8 DEF Listener, ReceiveHeader, ReceiveError, HangUp, PollError, TellHangUp,
                IterateListener, Main,
                JoinGui, JoinController, JoinListener, Destroy, net
  <2>5. Events(toServer') \subseteq Events(toServer) \cup {"logout"}
    BY <2>4, Transmits DEF Requests
  <2> QED
    BY <1>1, <2>1, <2>3, <2>5 DEF AcceptedInv
<1>9. CASE Server
  <2>1. UNCHANGED <<ctrlQ, loggedIn>> /\ (accepted => accepted')
    BY <1>9 DEF Server, Serve, ServeLogin, ServeKick, ServeOther, Talk, Close, ctrlVars
  <2>2. Events(toServer') \subseteq Events(toServer)
    <3>1. CASE toServer # << >> /\ toServer' = Tail(toServer)
      BY <3>1, QueueTypes, Leaves
    <3>2. CASE toServer' = << >>
      BY <3>2 DEF Events
    <3>3. CASE toServer' = toServer
      BY <3>3
    <3> QED
      BY <1>9, <3>1, <3>2, <3>3 DEF Server, Serve, Talk, Close
  <2>3. "ok" \in Events(toClient') => "ok" \in Events(toClient) \/ accepted'
    <3>1. ASSUME NEW e \in Messages \ {"ok"}, Reply(<<e>>) PROVE Events(toClient') = Events(toClient) \cup {e}
      <4>1. toClient \in Seq(Messages) /\ toClient' = toClient \o <<e>>
        BY <3>1, QueueTypes DEF Reply
      <4>2. /\ toClient \o <<e>> = Append(toClient, e)
            /\ Events(Append(toClient, e)) = Events(toClient) \cup {e}
        BY <4>1, Joins
      <4> QED
        BY <4>1, <4>2
    <3>2. ASSUME Reply(<< >>) PROVE toClient' = toClient
      BY <3>2, QueueTypes DEF Reply
    <3>3. CASE Serve
      <4>1. accepted' \/ toClient' = toClient \/ \E e \in Messages \ {"ok"} : Reply(<<e>>)
        BY <3>2, <3>3 DEF Serve, ServeLogin, ServeKick, ServeOther, Messages
      <4> QED
        BY <3>1, <4>1
    <3>4. CASE Talk
      <4>1. \E e \in Messages \ {"ok"} : Reply(<<e>>)
        BY <3>4 DEF Talk, Messages
      <4> QED
        BY <3>1, <4>1
    <3>5. CASE Close
      BY <3>5 DEF Close
    <3> QED
      BY <1>9, <3>3, <3>4, <3>5 DEF Server
  <2> QED
    BY <2>1, <2>2, <2>3 DEF AcceptedInv
<1> QED
  BY <1>4, <1>5, <1>6, <1>7, <1>8, <1>9 DEF Next, Controller

\* The cases of RefusalInv that matter: no excuse, and not yet logged in.
Waiting == excuses = {} /\ ~loggedIn

\* A step tells of a refusal only if there was one or an excuse.
LEMMA RefusalStep ==
  ASSUME TypeOK, AcceptedInv, RefusalInv, [Next]_vars
  PROVE  RefusalInv'
<1> DEFINE Ordered == /\ accepted => "ok" \in Events(ctrlQ) \cup Events(toClient)
                      /\ OkFirst(ctrlQ)
                      /\ "ok" \in Events(ctrlQ) \/ OkFirst(toClient)
<1>q. ctrlQ \in Seq(CtrlEvents) /\ toClient \in Seq(Messages)
  BY QueueTypes
<1>o. Waiting => Ordered
  BY DEF RefusalInv, Waiting
<1>g. (Waiting' => Ordered') /\ HonestRefusal' => RefusalInv'
  BY DEF RefusalInv, Waiting
<1>1. ASSUME excuses \subseteq excuses', ~Iterate, guiQ' # Append(guiQ, "cannotLogin")
      PROVE  HonestRefusal'
  <2>1. shown' = shown /\ (guiQ' = guiQ \/ \E d \in GuiEvents : guiQ' = Append(guiQ, d))
    BY <1>1, GuiSteps
  <2>2. "cannotLogin" \in Told' => "cannotLogin" \in Told
    <3>1. CASE guiQ' = guiQ
      BY <2>1, <3>1 DEF Told, Events
    <3>2. ASSUME NEW d \in GuiEvents, guiQ' = Append(guiQ, d)
          PROVE  "cannotLogin" \in Told' => "cannotLogin" \in Told
      BY <1>1, <2>1, <3>2, ToldStays
    <3> QED
      BY <2>1, <3>1, <3>2
  <2> QED
    BY <1>1, <2>2 DEF RefusalInv, HonestRefusal
<1>2. ASSUME UNCHANGED <<excuses, loggedIn, accepted, toClient>>,
             \/ ctrlQ' = ctrlQ
             \/ ctrlQ' = <<"exit">> \o ctrlQ
             \/ \E e \in {"send", "hangup"} : ctrlQ' = Append(ctrlQ, e)
      PROVE  Waiting' => Ordered'
  <2>1. Waiting' => Waiting
    BY <1>2 DEF Waiting
  <2>2. "ok" \in Events(ctrlQ) => "ok" \in Events(ctrlQ')
    <3>1. ASSUME NEW e \in CtrlEvents
          PROVE  /\ Events(<<e>> \o ctrlQ) = {e} \cup Events(ctrlQ)
                 /\ Events(Append(ctrlQ, e)) = Events(ctrlQ) \cup {e}
      BY <1>q, Joins, Urgent
    <3> QED
      BY <1>2, <3>1 DEF CtrlEvents
  <2>3. OkFirst(ctrlQ) => OkFirst(ctrlQ')
    <3>1. \A e \in CtrlEvents \ {"bad"} :
            OkFirst(ctrlQ) => OkFirst(<<e>> \o ctrlQ) /\ OkFirst(Append(ctrlQ, e))
      BY <1>q, Joins, Urgent
    <3> QED
      BY <1>2, <3>1 DEF CtrlEvents
  <2> QED
    BY <1>2, <1>o, <2>1, <2>2, <2>3
<1>3. CASE Gui \/ Answer
  <2>1. UNCHANGED <<excuses, loggedIn, accepted, toClient>>
    BY <1>3 DEF Gui, Press, NoKey, Quit, Iterate, Answer, ctrlVars, net
  <2>2. \/ ctrlQ' = ctrlQ \/ ctrlQ' = <<"exit">> \o ctrlQ
        \/ \E e \in {"send", "hangup"} : ctrlQ' = Append(ctrlQ, e)
    BY <1>3 DEF Gui, Press, PressEnter, PressHelp, PressList, PressKick, NoKey, Quit, Iterate,
                Answer, AnswerAddress, AnswerUsername, AnswerPassword, AnswerUid, AnswerReason,
                StopController, ctrlVars
  <2>3. HonestRefusal'
    <3>1. CASE Iterate
      BY <2>1, <3>1, ToldStays DEF RefusalInv, HonestRefusal
    <3>2. CASE ~Iterate
      <4>1. guiQ' = guiQ \/ \E d \in GuiEvents \ {"cannotLogin"} : guiQ' = Append(guiQ, d)
        BY <1>3, <3>2
           DEF Gui, Press, PressEnter, PressHelp, PressList, PressKick, NoKey, Quit, Answer,
               AnswerAddress, AnswerUsername, AnswerPassword, AnswerUid, AnswerReason, Ask,
               Display, GuiEvents, Dialogs, LoginDialogs, Displays, Reasons
      <4>2. guiQ' # Append(guiQ, "cannotLogin")
        BY <4>1, QueueTypes
      <4> QED
        BY <1>1, <2>1, <3>2, <4>2
    <3> QED
      BY <3>1, <3>2
  <2> QED
    BY <1>2, <1>g, <2>1, <2>2, <2>3
<1>4. CASE Cancel
  <2>1. CASE gpc \in {"username", "password"}
    <3>1. excuses' # {}
      BY <1>4, <2>1 DEF Cancel
    <3> QED
      BY <1>g, <3>1 DEF HonestRefusal, Waiting
  <2>2. CASE gpc \notin {"username", "password"}
    <3>1. /\ UNCHANGED <<excuses, loggedIn, accepted, toClient>>
          /\ ctrlQ' = ctrlQ \/ ctrlQ' = <<"exit">> \o ctrlQ
          /\ guiQ' = guiQ \/ guiQ' = Append(guiQ, "cannotConnect")
      BY <1>4, <2>2 DEF Cancel, Display, StopController
    <3>2. guiQ' # Append(guiQ, "cannotLogin")
      BY <3>1, QueueTypes
    <3>3. ~Iterate
      BY <1>4 DEF Cancel, Iterate, Dialogs, LoginDialogs
    <3> QED
      BY <1>1, <1>2, <1>g, <3>1, <3>2, <3>3
  <2> QED
    BY <2>1, <2>2
<1>5. CASE StartController
  <2>1. /\ UNCHANGED <<excuses, loggedIn, accepted, toClient, ctrlQ, gpc>>
        /\ guiQ' = Append(guiQ, "address")
    BY <1>5 DEF StartController, Ask, net
  <2>2. guiQ' # Append(guiQ, "cannotLogin") /\ ~Iterate
    <3>1. guiQ' # Append(guiQ, "cannotLogin") /\ Len(guiQ') = Len(guiQ) + 1 /\ Len(guiQ) \in Nat
      BY <2>1, QueueTypes
    <3>2. guiQ # << >> => Len(Tail(guiQ)) = Len(guiQ) - 1
      BY QueueTypes
    <3> QED
      BY <3>1, <3>2 DEF Iterate
  <2> QED
    BY <1>1, <1>2, <1>g, <2>1, <2>2
<1>6. CASE Handle
  <2> DEFINE rest == Tail(ctrlQ)
  <2>1. /\ \/ HandleExit(rest) \/ HandleSend(rest) \/ HandleList(rest)
           \/ HandleKick(rest) \/ HandleHangup(rest) \/ HandleStatus(rest)
        /\ UNCHANGED <<toClient, accepted, excuses, gpc>>
    BY <1>6 DEF Handle
  <2>2. /\ ctrlQ # << >> /\ rest \in Seq(CtrlEvents)
        /\ Events(ctrlQ) = {Head(ctrlQ)} \cup Events(rest)
        /\ OkFirst(ctrlQ) => Head(ctrlQ) # "bad"
        /\ OkFirst(ctrlQ) /\ Head(ctrlQ) # "ok" => OkFirst(rest)
    BY <1>6, <1>q, Leaves DEF Handle
  <2> HIDE DEF rest
  <2>3. /\ Events(<<"exit">> \o rest) = {"exit"} \cup Events(rest)
        /\ OkFirst(rest) => OkFirst(<<"exit">> \o rest)
    <3>1. "exit" \in CtrlEvents /\ "exit" # "bad"
      BY DEF CtrlEvents
    <3> QED
      BY <2>2, <3>1, Urgent
  <2>4. ctrlQ' = rest \/ ctrlQ' = <<"exit">> \o rest
    BY <2>1 DEF HandleExit, HandleSend, HandleList, HandleKick, HandleHangup, HandleStatus
  <2>5. Waiting' => Waiting /\ Head(ctrlQ) # "ok"
    BY <2>1 DEF HandleExit, HandleSend, HandleList, HandleKick, HandleHangup, HandleStatus, Waiting
  <2>6. Waiting' => Ordered'
    BY <1>o, <2>1, <2>2, <2>3, <2>4, <2>5
  <2>7. ~Iterate
    BY <1>6 DEF Handle, Iterate, ctrlVars, HandleExit, HandleSend, HandleList, HandleKick,
                HandleHangup, HandleStatus
  <2>8. HonestRefusal'
    <3>1. CASE ~loggedIn /\ Head(ctrlQ) = "bad"
      <4>1. excuses # {}
        BY <1>o, <2>2, <3>1 DEF Waiting
      <4> QED
        BY <2>1, <4>1 DEF HonestRefusal
    <3>2. CASE ~(~loggedIn /\ Head(ctrlQ) = "bad")
      <4>1. guiQ' = guiQ \/ \E d \in GuiEvents \ {"cannotLogin"} : guiQ' = Append(guiQ, d)
        BY <2>1, <3>2
           DEF HandleExit, HandleSend, HandleList, HandleKick, HandleHangup, HandleStatus, Display,
               GuiEvents, Displays, Reasons
      <4>2. guiQ' # Append(guiQ, "cannotLogin")
        BY <4>1, QueueTypes
      <4> QED
        BY <1>1, <2>1, <2>7, <4>2
    <3> QED
      BY <3>1, <3>2
  <2> QED
    BY <1>g, <2>6, <2>8
<1>7. CASE ReceiveBody
  <2> DEFINE message == Head(toClient)
  <2>1. /\ UNCHANGED <<loggedIn, accepted, excuses, gpc>>
        /\ toClient # << >> /\ toClient' = Tail(toClient)
        /\ Dispatch(message)
    BY <1>7 DEF ReceiveBody
  <2>2. /\ message \in Messages
        /\ Events(toClient) = {message} \cup Events(toClient')
        /\ OkFirst(toClient) => message # "bad"
        /\ OkFirst(toClient) /\ message # "ok" => OkFirst(toClient')
    BY <1>q, <2>1, Leaves
  <2> HIDE DEF message
  <2>3. ~Iterate /\ guiQ' # Append(guiQ, "cannotLogin")
    <3>1. lpc' = "iterate" /\ lpc = "body"
      BY <1>7 DEF ReceiveBody
    <3>2. guiQ' = guiQ \/ guiQ' = Append(guiQ, "text")
      BY <2>1 DEF Dispatch, Display
    <3> QED
      BY <3>1, <3>2, QueueTypes DEF Iterate, listenerVars
  <2>4. Waiting' => Ordered'
    <3> SUFFICES ASSUME Waiting' PROVE Ordered'
      OBVIOUS
    <3>1. Ordered
      BY <1>o, <2>1 DEF Waiting
    <3>2. CASE message = "text"
      BY <2>1, <2>2, <3>1, <3>2 DEF Dispatch
    <3>3. CASE message # "text"
      <4>1. message \in CtrlEvents /\ ctrlQ' = Append(ctrlQ, message)
        BY <2>1, <2>2, <3>3 DEF Dispatch, Messages, CtrlEvents
      <4>2. /\ Events(ctrlQ') = Events(ctrlQ) \cup {message}
            /\ OkFirst(ctrlQ) /\ (message = "bad" => "ok" \in Events(ctrlQ)) => OkFirst(ctrlQ')
        BY <1>q, <4>1, Joins
      <4> QED
        BY <2>1, <2>2, <3>1, <4>2
    <3> QED
      BY <3>2, <3>3
  <2> QED
    BY <1>1, <1>g, <2>1, <2>3, <2>4
<1>8. CASE (Listener /\ ~ReceiveBody) \/ Main \/ UNCHANGED vars
  <2>1. UNCHANGED <<excuses, loggedIn, accepted, toClient, gpc>>
    BY <1>8 DEF Listener, ReceiveHeader, ReceiveError, HangUp, PollError, TellHangUp,
                IterateListener, Main,
                JoinGui, JoinController, JoinListener, Destroy, guiVars, ctrlVars, net, vars
  <2>2. \/ ctrlQ' = ctrlQ \/ ctrlQ' = <<"exit">> \o ctrlQ
        \/ \E e \in {"send", "hangup"} : ctrlQ' = Append(ctrlQ, e)
    BY <1>8 DEF Listener, ReceiveHeader, ReceiveError, HangUp, PollError, TellHangUp,
                IterateListener, Main,
                JoinGui, JoinController, JoinListener, Destroy, StopController, ctrlVars, vars
  <2>3. guiQ' = guiQ \/ \E e \in {"lost", "cannotPoll"} : guiQ' = Append(guiQ, e)
    BY <1>8 DEF Listener, ReceiveHeader, ReceiveError, HangUp, PollError, TellHangUp,
                IterateListener, Main,
                JoinGui, JoinController, JoinListener, Destroy, Display, guiVars, vars
  <2>4. guiQ' # Append(guiQ, "cannotLogin")
    BY <2>3, QueueTypes
  <2>5. ~Iterate
    BY <2>1 DEF Iterate, Dialogs, LoginDialogs
  <2> QED
    BY <1>1, <1>2, <1>g, <2>1, <2>2, <2>4, <2>5
<1>9. CASE Server
  <2>1. /\ UNCHANGED <<guiQ, gpc, ctrlQ, loggedIn>> /\ excuses \subseteq excuses'
    BY <1>9 DEF Server, Serve, ServeLogin, ServeKick, ServeOther, Talk, Close, guiVars, ctrlVars
  <2>2. HonestRefusal'
    <3>1. ~Iterate
      BY <2>1 DEF Iterate, Dialogs, LoginDialogs
    <3>2. guiQ' # Append(guiQ, "cannotLogin")
      BY <2>1, QueueTypes
    <3> QED
      BY <1>1, <2>1, <3>1, <3>2
  <2>3. Waiting' => Ordered'
    <3> SUFFICES ASSUME Waiting' PROVE Ordered'
      OBVIOUS
    <3>1. Ordered /\ excuses = {}
      BY <1>o, <2>1 DEF Waiting
    <3>2. ASSUME NEW e \in Messages, Reply(<<e>>),
                 accepted' => accepted \/ e = "ok", e = "bad" => accepted
          PROVE  Ordered'
      <4>1. toClient' = Append(toClient, e)
        BY <1>q, <3>2, Joins DEF Reply
      <4>2. /\ Events(toClient') = Events(toClient) \cup {e}
            /\ OkFirst(toClient) /\ (e = "bad" => "ok" \in Events(toClient)) => OkFirst(toClient')
        BY <1>q, <4>1, Joins
      <4> QED
        BY <2>1, <3>1, <3>2, <4>2
    <3>3. ASSUME toClient' = toClient, accepted' = accepted PROVE Ordered'
      BY <2>1, <3>1, <3>3
    <3>4. CASE Serve
      <4>1. CASE ServeLogin
        BY <3>1, <3>2, <4>1 DEF ServeLogin, Messages, Waiting
      <4>2. CASE ServeKick
        BY <3>1, <3>2, <4>2 DEF ServeKick, Messages, Waiting
      <4>3. CASE ServeOther
        <5>1. Reply(<< >>) => toClient' = toClient
          BY <1>q DEF Reply
        <5>2. CASE Head(toServer) = "regular"
          <6>1. toServer \in Seq(Requests) /\ toServer # << >>
            BY <3>4, QueueTypes DEF Serve
          <6>2. "regular" \in Events(toServer)
            BY <5>2, <6>1, Leaves
          <6>3. accepted /\ Reply(<<"text">>) /\ accepted' = accepted
            BY <4>3, <5>2, <6>2 DEF ServeOther, AcceptedInv
          <6> QED
            BY <3>2, <6>3 DEF Messages
        <5>3. CASE Head(toServer) # "regular"
          <6>1. accepted' = accepted /\ (Reply(<<"list">>) \/ Reply(<<"text">>) \/ Reply(<< >>))
            BY <4>3, <5>3 DEF ServeOther
          <6> QED
            BY <3>2, <3>3, <5>1, <6>1 DEF Messages
        <5> QED
          BY <5>2, <5>3
      <4> QED
        BY <3>4, <4>1, <4>2, <4>3 DEF Serve
    <3>5. CASE Talk
      BY <3>2, <3>5 DEF Talk, Messages
    <3>6. CASE Close
      BY <3>3, <3>6 DEF Close
    <3> QED
      BY <1>9, <3>4, <3>5, <3>6 DEF Server
  <2> QED
    BY <1>g, <2>2, <2>3
<1> QED
  BY <1>3, <1>4, <1>5, <1>6, <1>7, <1>8, <1>9 DEF Next, Controller

-----------------------------------------------------------------------------
\* IInv holds initially.
LEMMA InitIInv == Init => IInv
<1> SUFFICES ASSUME Init PROVE IInv
  OBVIOUS
<1>1. Events(<< >>) = {} /\ OkFirst(<< >>)
  BY DEF Events, OkFirst
<1>2. TypeOK
  <2>1. 0 \in 0..MaxKeys /\ 0 \in 0..MaxTalk
    BY BoundAssumption
  <2>2. \A T : << >> \in Seq(T)
    OBVIOUS
  <2> QED
    BY <2>1, <2>2 DEF Init, TypeOK
<1>3. Told = {}
  BY <1>1 DEF Init, Told
<1> QED
  BY <1>1, <1>2, <1>3 DEF Init, IInv, EndInv, AcceptedInv, RefusalInv, HonestRefusal

\* IInv holds of every state of every run of the client.
THEOREM Invariance == Spec => []IInv
<1>1. IInv /\ [Next]_vars => IInv'
  BY TypeStep, EndStep, AcceptedStep, RefusalStep DEF IInv
<1> QED
  BY <1>1, InitIInv, PTL DEF Spec

\* The controller ends only after the user has quit or while he is being told
\* the reason, whichever thread asked it to end (NoSilentEnd).
THEOREM NoSilentEndCorrect == Spec => []NoSilentEnd
<1>1. IInv => NoSilentEnd
  BY DEF IInv, EndInv, NoSilentEnd
<1> QED
  BY <1>1, Invariance, PTL

\* Though a status names no request, the client never takes itself for logged
\* in before the server has accepted it, and reports a failed login only after
\* a refusal, a refused early kick or a cancelled dialog (LoginIsHonest).
THEOREM LoginCorrect == Spec => []LoginIsHonest
<1>1. IInv => LoginIsHonest
  BY DEF IInv, AcceptedInv, RefusalInv, LoginIsHonest, LoggedInIsAccepted
<1> QED
  BY <1>1, Invariance, PTL

=============================================================================
