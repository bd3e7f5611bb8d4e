---------------------------- MODULE MessageChannel ----------------------------
(***************************************************************************)
(* What framing promises to the rest of the program: a connection carries  *)
(* whole messages, in order, each once, until its reader gives it up.      *)
(* There may be a while in which the reader has taken a message and not    *)
(* yet settled it.  In this while it takes no other, and it may give the   *)
(* connection up with messages left: a weakness of the server, which a     *)
(* channel that loses nothing would not have.                              *)
(***************************************************************************)
EXTENDS Sequences, Naturals

CONSTANTS Conns, Messages

VARIABLES
    sent, \* of a connection: the messages that have arrived to their last byte
    got,  \* the messages its reader has taken
    open,
    settled \* the reader is done with the last message it has taken

vars == <<sent, got, open, settled>>

Init ==
    /\ sent = [c \in Conns |-> << >>]
    /\ got = [c \in Conns |-> << >>]
    /\ open = [c \in Conns |-> TRUE]
    /\ settled = [c \in Conns |-> TRUE]

Send(c, m) ==
    /\ sent' = [sent EXCEPT ![c] = Append(@, m)]
    /\ UNCHANGED <<got, open, settled>>

Take(c) ==
    /\ open[c]
    /\ settled[c]
    /\ Len(got[c]) < Len(sent[c])
    /\ got' = [got EXCEPT ![c] = Append(@, sent[c][Len(@) + 1])]
    /\ \E now \in BOOLEAN : settled' = [settled EXCEPT ![c] = now]
    /\ UNCHANGED <<sent, open>>

Settle(c) ==
    /\ settled' = [settled EXCEPT ![c] = TRUE]
    /\ UNCHANGED <<sent, got, open>>

\* Nothing that has arrived whole is given up by a reader that is not busy.
Close(c) ==
    /\ settled[c] => got[c] = sent[c]
    /\ open' = [open EXCEPT ![c] = FALSE]
    /\ UNCHANGED <<sent, got, settled>>

Next ==
    \E c \in Conns :
      Take(c) \/ Settle(c) \/ Close(c) \/ \E m \in Messages : Send(c, m)

Spec == Init /\ [][Next]_vars

=============================================================================
