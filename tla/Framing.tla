-------------------------------- MODULE Framing --------------------------------
(***************************************************************************)
(* How a stream of bytes becomes messages again.  process_connection, in   *)
(* the server's listener and once more in the client's, receives what      *)
(* there is of the header and then of the body of one message, in as many  *)
(* calls of recv() as the network makes of it.                             *)
(*                                                                         *)
(* Either the connections are read by the server's listener, one at a      *)
(* time, or each of them by the listener thread of a client.               *)
(* Only the body is received without poll() having announced it, so this   *)
(* recv() may block.                                                       *)
(*                                                                         *)
(* The server's listener hands a whole message on and leaves its buffers   *)
(* as they are.  Who is done with the message returns the connection, and  *)
(* the deleter of the input event empties the buffers; the two come in any *)
(* order.  A connection that is returned first may be read as it is: the   *)
(* listener asks recv() for nothing and takes its answer for the end of    *)
(* the stream, or hands the old message on again.  This model says so, and *)
(* nothing of a process once it has used memory it does not own.           *)
(* Connections that are reset or that the server closes of its own are     *)
(* left to RequestPipeline.                                                *)
(*                                                                         *)
(* A definition named ..Slip is the definition that follows it with one    *)
(* plausible mistake; it is used only to see that a property notices.      *)
(***************************************************************************)
EXTENDS MessageCodec

CONSTANTS
    Conns,
    Messages,    \* messages with all their tokens, for pack_message
    Packages,    \* packages written by other means: their cells, and what they say
    MaxCells,    \* bound on what each connection carries
    NoBuffer,    \* header == NULL or body == NULL
    NoMessage    \* what a package with a negative size says

ASSUME BoundAssumption    == MaxCells \in [Conns -> Nat]
ASSUME MessagesAssumption ==
    Messages \subseteq [type : Nat, tokens : Seq(Seq(Nat))] \ {NoMessage}
ASSUME NoBufferAssumption == NoBuffer \notin Seq(Int)

\* What the cells of a package say to a reader who takes the header and then
\* as many cells as it announces.
Says(cells) ==
    Unpack(SubSeq(cells, 1, HeaderSize), SubSeq(cells, HeaderSize + 1, Len(cells)))

\* Whatever is written, a reader cuts it into packages of the size they claim,
\* up to one that claims a negative size.
IsPackage(p) ==
    /\ p = [cells |-> p.cells, msg |-> p.msg]
    /\ p.cells \in Seq(Int) /\ Len(p.cells) >= HeaderSize
    /\ IF SizeOfBody(p.cells) < 0 THEN p.msg = NoMessage
       ELSE /\ Len(p.cells) = HeaderSize + SizeOfBody(p.cells)
            /\ p.msg = Says(p.cells) /\ p.msg # NoMessage

ASSUME PackagesAssumption == \A p \in Packages : IsPackage(p)

\* No token of a package claims a negative length.
ASSUME LengthsAssumption ==
    \A p \in Packages : \A i \in DOMAIN p.cells : i > HeaderSize => p.cells[i] \in Nat

Junk == -1  \* what malloc leaves in a buffer

VARIABLES
    served,   \* the connections that the server reads
    stream,   \* all the cells of a connection, those not yet written included
    limit,    \* how many of them have arrived
    pos,      \* how many of them have been received
    finished, \* the writer has closed its end
    header,
    body,
    bytesRead,
    bytesExpected,
    at,       \* process_connection: "poll" (not in it), "header", "body" or "recv"
    inWorker,
    due,      \* how many input events of a connection wait for their deleter
    closed,
    failed,   \* connections whose reader has used memory that it does not own
    got,      \* what unpack_message_2 made of the messages so far
    whole     \* history variable: the messages sent, each with the end of its package

writerVars == <<stream, limit, finished, whole>>
connVars   == <<header, body, bytesRead, bytesExpected, inWorker, due>>
vars == <<served, writerVars, pos, connVars, at, closed, failed, got>>

Init ==
    /\ served \in {Conns, {}}
    /\ stream = [c \in Conns |-> << >>]
    /\ limit = [c \in Conns |-> 0]
    /\ pos = [c \in Conns |-> 0]
    /\ finished = [c \in Conns |-> FALSE]
    /\ header = [c \in Conns |-> NoBuffer]
    /\ body = [c \in Conns |-> NoBuffer]
    /\ bytesRead = [c \in Conns |-> 0]
    /\ bytesExpected = [c \in Conns |-> HeaderSize]
    /\ at = [c \in Conns |-> "poll"]
    /\ inWorker = [c \in Conns |-> FALSE]
    /\ due = [c \in Conns |-> 0]
    /\ closed = [c \in Conns |-> FALSE]
    /\ failed = {}
    /\ got = [c \in Conns |-> << >>]
    /\ whole = [c \in Conns |-> << >>]

-----------------------------------------------------------------------------
(* The writer and the network. *)

AllPackages == {[cells |-> Pack(m), msg |-> m] : m \in Messages} \cup Packages
AllMessages == {p.msg : p \in AllPackages}

\* send() of a package; none follows one with a negative size.  Packages that
\* two workers send to one socket are assumed not to mix.
Write(c) ==
    /\ ~finished[c]
    /\ stream[c] # << >> => whole[c] # << >> /\ Last(whole[c]).end = Len(stream[c])
    /\ \E p \in AllPackages :
         /\ Len(stream[c]) + Len(p.cells) <= MaxCells[c]
         /\ stream' = [stream EXCEPT ![c] = @ \o p.cells]
         /\ whole' = IF p.msg = NoMessage THEN whole
                     ELSE [whole EXCEPT ![c] = Append(@,
                             [end |-> Len(stream[c]) + Len(p.cells), msg |-> p.msg])]
    /\ UNCHANGED <<served, limit, finished, pos, connVars, at, closed, failed, got>>

Arrive(c) ==
    /\ limit[c] < Len(stream[c])
    /\ ~finished[c]
    /\ limit' = [limit EXCEPT ![c] = @ + 1]
    /\ UNCHANGED <<served, stream, finished, whole, pos, connVars, at, closed, failed, got>>

\* The writer may go in the middle of a message.
Finish(c) ==
    /\ ~finished[c]
    /\ finished' = [finished EXCEPT ![c] = TRUE]
    /\ UNCHANGED <<served, stream, limit, whole, pos, connVars, at, closed, failed, got>>

-----------------------------------------------------------------------------
(* process_connection *)

Arrived(c) == limit[c] - pos[c]

\* recv() of at most n cells into buf, from offset on.
Received(c, buf, offset, n) ==
    [i \in DOMAIN buf |-> IF i \in (offset + 1)..(offset + n)
                          THEN stream[c][pos[c] + i - offset] ELSE buf[i]]

Buffer(n) == [i \in 1..n |-> Junk]

\* One process reads all connections of the server; each client is one.
Fail(c) == failed' = failed \cup (IF c \in served THEN served ELSE {c})

\* poll() says that recv() will not block.
Poll(c) ==
    /\ c \notin failed
    /\ at[c] = "poll"
    /\ ~closed[c]
    /\ ~inWorker[c]
    /\ c \in served => \A d \in served : at[d] = "poll"
    /\ Arrived(c) > 0 \/ finished[c]
    /\ at' = [at EXCEPT ![c] = IF bytesRead[c] < HeaderSize THEN "header" ELSE "body"]
    /\ header' = [header EXCEPT ![c] = IF @ = NoBuffer THEN Buffer(HeaderSize) ELSE @]
    /\ UNCHANGED <<served, writerVars, pos, body, bytesRead, bytesExpected, inWorker, due,
                   closed, failed, got>>

\* The server closes; a client only leaves the round.
GiveUp(c) ==
    /\ at' = [at EXCEPT ![c] = "poll"]
    /\ closed' = [closed EXCEPT ![c] = c \in served]
    /\ UNCHANGED <<served, writerVars, pos, connVars, failed, got>>

\* recv() returns 0.
EndOfStream(c) ==
    /\ at[c] \in {"header", "recv"}
    /\ bytesRead[c] < bytesExpected[c]
    /\ Arrived(c) = 0
    /\ finished[c]
    /\ GiveUp(c)

\* recv() of no bytes, which returns 0 as well.
RecvNothing(c) ==
    /\ at[c] = "recv"
    /\ bytesRead[c] = bytesExpected[c]
    /\ GiveUp(c)

RecvHeaderSlip(c) ==
    /\ at[c] = "header"
    /\ \E n \in 1..(bytesExpected[c] - bytesRead[c]) :
         /\ n <= Arrived(c)
         /\ header' = [header EXCEPT ![c] = Received(c, @, 0, n)]  \* not + bytes_read
         /\ pos' = [pos EXCEPT ![c] = @ + n]
         /\ bytesRead' = [bytesRead EXCEPT ![c] = @ + n]
         /\ at' = [at EXCEPT ![c] = IF bytesRead[c] + n < HeaderSize THEN "poll" ELSE "body"]
    /\ UNCHANGED <<served, writerVars, body, bytesExpected, inWorker, due, closed, failed, got>>

RecvHeader(c) ==
    /\ at[c] = "header"
    /\ \E n \in 1..(bytesExpected[c] - bytesRead[c]) :
         /\ n <= Arrived(c)
         /\ header' = [header EXCEPT ![c] = Received(c, @, bytesRead[c], n)]
         /\ pos' = [pos EXCEPT ![c] = @ + n]
         /\ bytesRead' = [bytesRead EXCEPT ![c] = @ + n]
         /\ at' = [at EXCEPT ![c] = IF bytesRead[c] + n < HeaderSize THEN "poll" ELSE "body"]
    /\ UNCHANGED <<served, writerVars, body, bytesExpected, inWorker, due, closed, failed, got>>

\* Unpacking a message may write behind its body.  A client looks at the tokens
\* of what it has unpacked even when that is NULL; the server tests for it.
Unpacked(c, b) ==
    LET corrupt == Unpack(header[c], b) = Corrupt IN
    \/ (corrupt => c \in served) /\ UNCHANGED failed
    \/ ((corrupt /\ c \notin served) \/ Overruns(header[c], b)) /\ Fail(c)

\* The whole message is there.  The server hands the connection to the other
\* threads, of which the controller unpacks the message; nobody changes the
\* buffers before.  A client unpacks the message itself and starts anew.
Dispatch(c, b) ==
    /\ got' = [got EXCEPT ![c] = Append(@, Unpack(header[c], b))]
    /\ due' = [due EXCEPT ![c] = IF c \in served THEN 1 ELSE 0]
    /\ IF c \in served
       THEN /\ inWorker' = [inWorker EXCEPT ![c] = TRUE]
            /\ UNCHANGED <<header, bytesExpected>>
            /\ body' = [body EXCEPT ![c] = b]
       ELSE /\ header' = [header EXCEPT ![c] = NoBuffer]
            /\ body' = [body EXCEPT ![c] = NoBuffer]
            /\ bytesExpected' = [bytesExpected EXCEPT ![c] = HeaderSize]
            /\ UNCHANGED inWorker
    /\ at' = [at EXCEPT ![c] = "poll"]
    /\ Unpacked(c, b)

NoBodySlip(c) ==
    /\ at[c] = "body"
    /\ SizeOfBody(header[c]) = 0
    /\ due[c] = 0
    /\ at' = [at EXCEPT ![c] = "poll"]   \* dispatched only after a recv() of a body
    /\ UNCHANGED <<served, writerVars, pos, connVars, closed, failed, got>>

NoBody(c) ==
    /\ at[c] = "body"
    /\ SizeOfBody(header[c]) = 0
    /\ due[c] = 0
    /\ Dispatch(c, NoBuffer)
    /\ bytesRead' = [bytesRead EXCEPT ![c] = IF c \in served THEN @ ELSE 0]
    /\ UNCHANGED <<served, writerVars, pos, closed>>

\* The same of a connection that was returned and not reset: the old message.
DispatchAgain(c) ==
    /\ at[c] = "body"
    /\ SizeOfBody(header[c]) = 0
    /\ due[c] > 0
    /\ inWorker' = [inWorker EXCEPT ![c] = TRUE]
    /\ due' = [due EXCEPT ![c] = @ + 1]
    /\ at' = [at EXCEPT ![c] = "poll"]
    /\ UNCHANGED <<served, writerVars, pos, header, body, bytesRead, bytesExpected,
                   closed, failed, got>>

BadSize(c) ==
    /\ at[c] = "body"
    /\ SizeOfBody(header[c]) < 0
    /\ GiveUp(c)

AllocateSlip(c) ==
    /\ at[c] = "body"
    /\ SizeOfBody(header[c]) > 0
    /\ body' = [body EXCEPT ![c] = IF @ = NoBuffer THEN Buffer(SizeOfBody(header[c])) ELSE @]
    /\ bytesExpected' = [bytesExpected EXCEPT ![c] = @ + SizeOfBody(header[c])] \* each time
    /\ at' = [at EXCEPT ![c] = "recv"]
    /\ UNCHANGED <<served, writerVars, pos, header, bytesRead, inWorker, due, closed, failed, got>>

Allocate(c) ==
    /\ at[c] = "body"
    /\ SizeOfBody(header[c]) > 0
    /\ IF body[c] = NoBuffer
       THEN /\ body' = [body EXCEPT ![c] = Buffer(SizeOfBody(header[c]))]
            /\ bytesExpected' = [bytesExpected EXCEPT ![c] = @ + SizeOfBody(header[c])]
       ELSE UNCHANGED <<body, bytesExpected>>
    /\ at' = [at EXCEPT ![c] = "recv"]
    /\ UNCHANGED <<served, writerVars, pos, header, bytesRead, inWorker, due, closed, failed, got>>

RecvBody(c) ==
    /\ at[c] = "recv"
    /\ \E n \in 1..(bytesExpected[c] - bytesRead[c]) :
         LET b == Received(c, body[c], bytesRead[c] - HeaderSize, n) IN
         /\ n <= Arrived(c)
         /\ pos' = [pos EXCEPT ![c] = @ + n]
         /\ IF bytesRead[c] + n = bytesExpected[c]
            THEN /\ Dispatch(c, b)
                 /\ bytesRead' = [bytesRead EXCEPT ![c] = IF c \in served THEN @ + n ELSE 0]
            ELSE /\ body' = [body EXCEPT ![c] = b]
                 /\ bytesRead' = [bytesRead EXCEPT ![c] = @ + n]
                 /\ at' = [at EXCEPT ![c] = "poll"]
                 /\ UNCHANGED <<header, bytesExpected, inWorker, due, failed, got>>
    /\ UNCHANGED <<served, writerVars, closed>>

-----------------------------------------------------------------------------
(* The other threads of the server. *)

\* The handler of the input event, of a malformed message, or the deleter of the
\* job returns the connection.  With two events out their deleters are what is next
\* here: the first of them fails.
Return(c) ==
    /\ c \notin failed
    /\ inWorker[c]
    /\ due[c] < 2
    /\ inWorker' = [inWorker EXCEPT ![c] = FALSE]
    /\ UNCHANGED <<served, writerVars, pos, header, body, bytesRead, bytesExpected, due,
                   at, closed, failed, got>>

\* The deleter of the input event.  The handler has run before, and returned the
\* connection if the message is malformed.  By now the connection may be closed,
\* the listener may be reading it, or it may have sent a second event, whose
\* handler will find no header.
Reset(c) ==
    /\ c \notin failed
    /\ due[c] > 0
    /\ inWorker[c] => Last(got[c]) # Corrupt
    /\ IF closed[c] \/ at[c] # "poll" \/ due[c] > 1
       THEN Fail(c) /\ UNCHANGED <<header, body, bytesRead, bytesExpected, due>>
       ELSE /\ header' = [header EXCEPT ![c] = NoBuffer]
            /\ body' = [body EXCEPT ![c] = NoBuffer]
            /\ bytesRead' = [bytesRead EXCEPT ![c] = 0]
            /\ bytesExpected' = [bytesExpected EXCEPT ![c] = HeaderSize]
            /\ due' = [due EXCEPT ![c] = 0]
            /\ UNCHANGED failed
    /\ UNCHANGED <<served, writerVars, pos, inWorker, at, closed, got>>

-----------------------------------------------------------------------------
Process(c) ==
    /\ c \notin failed
    /\ \/ EndOfStream(c) \/ RecvNothing(c) \/ RecvHeader(c)
       \/ NoBody(c) \/ DispatchAgain(c) \/ BadSize(c) \/ Allocate(c) \/ RecvBody(c)

Next ==
    \E c \in Conns :
      \/ Write(c) \/ Arrive(c) \/ Finish(c)
      \/ Poll(c) \/ Process(c) \/ Return(c) \/ Reset(c)

Spec == Init /\ [][Next]_vars

\* A round of the listener visits every connection that poll() announces,
\* workers return what they take, and the controller deletes what it has handled.
\* Nothing is asked of the writers.
FairSpec ==
    /\ Spec
    /\ \A c \in Conns : /\ SF_vars(Poll(c)) /\ WF_vars(Process(c))
                        /\ WF_vars(Return(c)) /\ WF_vars(Reset(c))

-----------------------------------------------------------------------------
(* Properties *)

TypeOK ==
    /\ served \in {Conns, {}}
    /\ stream \in [Conns -> Seq(Int)]
    /\ limit \in [Conns -> Nat]
    /\ pos \in [Conns -> Nat]
    /\ finished \in [Conns -> BOOLEAN]
    /\ header \in [Conns -> Seq(Int) \cup {NoBuffer}]
    /\ body \in [Conns -> Seq(Int) \cup {NoBuffer}]
    /\ bytesRead \in [Conns -> Nat]
    /\ bytesExpected \in [Conns -> Nat]
    /\ at \in [Conns -> {"poll", "header", "body", "recv"}]
    /\ inWorker \in [Conns -> BOOLEAN]
    /\ due \in [Conns -> 0..2]
    /\ closed \in [Conns -> BOOLEAN]
    /\ failed \subseteq Conns
    /\ got \in [Conns -> Seq(AllMessages)]
    /\ whole \in [Conns -> Seq([end : Nat, msg : AllMessages])]

\* However a message is cut, recv() never writes beyond the buffer it is given,
\* and it is asked for nothing only on a connection that was returned before it
\* was reset.
FitsBuffer ==
    \A c \in Conns :
      LET left == bytesExpected[c] - bytesRead[c] IN
        /\ at[c] = "header" => left > 0 /\ bytesRead[c] + left <= Len(header[c])
        /\ at[c] = "recv" => /\ left > 0 \/ (left = 0 /\ due[c] > 0)
                            /\ bytesRead[c] - HeaderSize + left <= Len(body[c])

\* How many messages have arrived to their last cell.
WholeSent(c) ==
    CHOOSE n \in 0..Len(whole[c]) :
      \A i \in DOMAIN whole[c] : whole[c][i].end <= limit[c] <=> i <= n

Channel == INSTANCE MessageChannel WITH
    Messages <- AllMessages,
    sent <- [c \in Conns |-> [i \in 1..WholeSent(c) |-> whole[c][i].msg]],
    open <- [c \in Conns |-> ~closed[c]],
    settled <- [c \in Conns |-> due[c] = 0]

\* The messages that come out, with all their tokens, are those that went in,
\* in order and once each.  A connection is closed only when none is left, or when
\* it was returned before it was reset.
DeliversMessages == Channel!Spec

\* The server's listener waits for a client that is in the middle of a message.
HeldUp ==
    \E c \in served :
      at[c] = "recv" /\ bytesRead[c] < bytesExpected[c] /\ Arrived(c) = 0 /\ ~finished[c]

\* Every message that has arrived to its last byte is taken, unless a client
\* that sent a header and no body holds up the server's listener for all, or the
\* reader has used memory it does not own: on a malformed message, or on a
\* connection that was returned before it was reset.
EveryMessageTaken ==
    \A c \in Conns :
      Len(got[c]) < WholeSent(c) ~>
        \/ Len(got[c]) = WholeSent(c)
        \/ c \in served /\ HeldUp
        \/ c \in failed

=============================================================================
