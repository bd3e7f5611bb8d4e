----------------------------- MODULE MessageCodec -----------------------------
(***************************************************************************)
(* The messages of the chat as they travel: a type, the size of the body,  *)
(* and a body of tokens, each behind its length.  A package is a sequence  *)
(* of cells; a number takes NumSize of them (four bytes in the code), the  *)
(* value in the first.  A token is the cells of its payload: a text, or a  *)
(* number that htonl or htobe64 wrote.                                     *)
(***************************************************************************)
EXTENDS Integers, SequencesExt

CONSTANTS
    NumSize, \* sizeof(uint32_t)
    Corrupt  \* the NULL of unpack_message_2

ASSUME NumSizeAssumption == NumSize \in Nat \ {0}

HeaderSize == 1 + NumSize   \* MSG_HEADER_SIZE

\* htonl, and ntohl of the cells that start at index i.
Number(n) == <<n>> \o [i \in 1..(NumSize - 1) |-> 0]
NumberAt(cells, i) == cells[i]

PackBody(tokens) ==
    FlattenSeq([i \in DOMAIN tokens |-> Number(Len(tokens[i])) \o tokens[i]])

Package(type, body) == <<type>> \o Number(Len(body)) \o body

Pack(msg) == Package(msg.type, PackBody(msg.tokens))

\* send_status_code writes its package without pack_message.
PackStatus(type, status) ==
    <<type>> \o Number(2 * NumSize) \o Number(NumSize) \o Number(status)

SizeOfBody(header) == NumberAt(header, 2)

\* Where the token behind the one at iter starts.  The length is a signed int in
\* the code: one that is not negative is meant here.
NextToken(body, iter) == iter + NumSize + NumberAt(body, iter + 1)

\* unpack_message_2 walks over as many cells as the header says.  A length of
\* which the body has only the first cells ends behind the body whatever it is,
\* so that the message is corrupt; see Overruns for what reading it does.
Unpack(header, body) ==
    LET end == SizeOfBody(header)
        Next(iter) == NextToken(body, iter)
        Tokens[iter \in 0..end] ==
            IF iter = end \/ Next(iter) > end THEN << >>
            ELSE << SubSeq(body, iter + NumSize + 1, Next(iter)) >> \o Tokens[Next(iter)]
        Fits[iter \in 0..end] ==
            iter = end \/ (Next(iter) <= end /\ Fits[Next(iter)])
    IN IF Fits[0] THEN [type |-> header[1], tokens |-> Tokens[0]] ELSE Corrupt

\* The walk comes to a length that the body does not hold as a whole.  It is read
\* and, in the other byte order, written back all the same: beyond the buffer.
Overruns(header, body) ==
    LET end == SizeOfBody(header)
        Over[iter \in 0..end] ==
            /\ iter < end
            /\ \/ iter + NumSize > end
               \/ NextToken(body, iter) <= end /\ Over[NextToken(body, iter)]
    IN Over[0]

=============================================================================
