------------------------------- MODULE ChatProofs -------------------------------
(***************************************************************************)
(* What the users see holds for any number of clients, workers, accounts   *)
(* and texts: who is in has the account it asked for, nobody is refused    *)
(* without a reason, comings and goings are announced in turn, no text is  *)
(* missed, and the workers overtake each other by no more than their       *)
(* number.                                                                 *)
(*                                                                         *)
(* Each part of the inductive invariant ties what a job has in hand to the *)
(* client, the accounts, the announcements, or the texts it is about.      *)
(***************************************************************************)
EXTENDS Chat, FiniteSetTheorems, SequenceTheorems, WellFoundedInduction, TLAPS

Types == {"login", "history", "text", "send"}
Asks(q) == q.type # "send"

\* Worker w has a request of client c in hand.
Serves(w, c) == job[w] # NoJob /\ Asks(job[w].what) /\ job[w].what.of = c

\* A client has one request at a time, in the queue or in the hands of a worker.
QueuedOnce ==
    \A i \in DOMAIN workersQ : Asks(workersQ[i]) =>
      /\ busy[workersQ[i].of]
      /\ \A k \in DOMAIN workersQ :
           Asks(workersQ[k]) /\ workersQ[k].of = workersQ[i].of => k = i
      /\ \A w \in Workers : ~Serves(w, workersQ[i].of)
ServedOnce ==
    \A w \in Workers, c \in Clients : Serves(w, c) =>
      busy[c] /\ \A v \in Workers : Serves(v, c) => v = w
OneRequest == QueuedOnce /\ ServedOnce

\* Worker w handles a login and is at one of these steps.
LogsIn(w, pcs) == job[w] # NoJob /\ job[w].what.type = "login" /\ job[w].pc \in pcs

Before == {"start", "max", "insert", "count", "unlink", "link"}

\* How far the requests of a client and the client itself are.
QueueState ==
    \A i \in DOMAIN workersQ :
      /\ workersQ[i].type = "login" => state[workersQ[i].of] = "asked"
      /\ workersQ[i].type = "history" => state[workersQ[i].of] \in {"in", "left"}
JobFits(w) ==
    job[w] # NoJob =>
      /\ job[w].what.type = "history" => state[job[w].what.of] \in {"in", "left"}
      /\ job[w].what.type = "login" =>
           /\ job[w].pc # "send"
           /\ job[w].pc \in Before => state[job[w].what.of] = "asked"
           /\ job[w].pc = "status" => state[job[w].what.of] = "asked"
           /\ job[w].pc = "announce" => state[job[w].what.of] \in {"granted", "left"}
           /\ job[w].pc \in {"status", "announce"} => session[job[w].what.of] = job[w].uid
ClientFits(c) ==
    /\ state[c] \in {"new", "refused"} => session[c] = NullUid
    /\ state[c] \in {"granted", "in"} => session[c] # NullUid
    /\ session[c] = NullUid /\ state[c] # "left" => history[c] = NotAnswered
    /\ session[c] = Absent => state[c] = "left"
    /\ \/ c \in listed
       \/ state[c] = "left"
       \/ \E w \in Workers : LogsIn(w, {"link"}) /\ job[w].what.of = c
JobState == \A w \in Workers : JobFits(w)
ClientState == \A c \in Clients : ClientFits(c)
CloseState ==
    closing # NoClose =>
      /\ state[closing.of] = "left"
      /\ ~busy[closing.of]
      /\ session[closing.of] = IF closing.pc = "drop" THEN closing.uid ELSE Absent
StateInv == QueueState /\ JobState /\ ClientState /\ CloseState

\* The table has one row for a uid, and the logins that have found or made theirs
\* have it.
RowsOK ==
    /\ IsFiniteSet(users) /\ users # {}
    /\ \A r \in users : r = [uid |-> r.uid, login |-> r.login, password |-> r.password]
    /\ \A r, s \in users : r.uid = s.uid => r = s
SessionRow ==
    \A c \in Clients :
      session[c] \notin {NullUid, Absent} => Row(session[c], enteredAs[c]) \in users
JobRow ==
    \A w \in Workers :
      /\ LogsIn(w, {"count", "unlink", "link", "status", "announce"}) =>
           Row(job[w].uid, Given(w)) \in users
      /\ LogsIn(w, {"insert"}) => job[w].uid >= 1
\* A login that is not crowded is the only one that registers.
Alone ==
    \A w \in Workers : LogsIn(w, {"max", "insert"}) /\ Given(w).login \notin crowded =>
      /\ \A r \in users : r.login # Given(w).login
      /\ job[w].pc = "insert" => \A r \in users : r.uid # job[w].uid
      /\ \A v \in Workers : LogsIn(v, {"max", "insert"}) => v = w
AccountInv == RowsOK /\ SessionRow /\ JobRow /\ Alone /\ NamesUnique /\ HonestRefusal

\* What a login or a close of u knows of the number of its sessions.
Changes(v, u) == LogsIn(v, {"unlink", "link", "status", "announce"}) /\ job[v].uid = u
Closes(u) == closing # NoClose /\ closing.uid = u
Alternates(u) ==
    \A i \in DOMAIN Feed :
      Feed[i].kind # "text" /\ Feed[i].uid = u =>
        Feed[i].kind = IF Here(u, i - 1) THEN "out" ELSE "in"
OneChange(u) ==
    \A v \in Workers : Changes(v, u) => ~Closes(u) /\ \A w \in Workers : Changes(w, u) => w = v
LoginCounts(u) ==
    \A v \in Workers : Changes(v, u) =>
      /\ IF job[v].pc \in {"unlink", "link"} THEN Sessions(u) = job[v].count ELSE Sessions(u) > 0
      /\ Here(u, Len(Feed)) <=> job[v].count > 0
CloseCounts(u) ==
    Closes(u) =>
      /\ Sessions(u) = IF closing.pc = "drop" THEN closing.count ELSE closing.count - 1
      /\ closing.count > 0
      /\ Here(u, Len(Feed))
SettledCounts(u) == ~Changing(u) => (Here(u, Len(Feed)) <=> Sessions(u) > 0)
PresenceOf(u) ==
    Alternates(u) /\ OneChange(u) /\ LoginCounts(u) /\ CloseCounts(u) /\ SettledCounts(u)
PresenceInv == \A u \in (Nat \ {0}) \ blurred : PresenceOf(u)

\* A worker holds a piece of news; the queue has them in the order of the news,
\* after all that were taken from it, and one worker has overtaken nobody.
Holds(w) == job[w] # NoJob /\ job[w].what.type = "send"
QueueOrder ==
    \A i \in DOMAIN workersQ : workersQ[i].type = "send" =>
      /\ workersQ[i].no \in DOMAIN news
      /\ \A k \in DOMAIN workersQ :
           workersQ[k].type = "send" /\ i < k => workersQ[i].no <= workersQ[k].no
      /\ \A w \in Workers : Holds(w) => job[w].what.no <= workersQ[i].no
      /\ \A c \in Clients : \A k \in DOMAIN live[c] : live[c][k] <= workersQ[i].no
LiveOrder ==
    /\ \A w \in Workers : Holds(w) => job[w].what.no \in DOMAIN news
    /\ \A c \in Clients : \A k \in DOMAIN live[c] :
         /\ live[c][k] \in DOMAIN news
         /\ \E w \in Workers : Holds(w) => job[w].what.no >= live[c][k]
OrderInv == QueueOrder /\ LiveOrder

\* The stamps of the texts that are stored, queued or just made differ.
Stamped(w) == job[w] # NoJob /\ job[w].what.type = "text" /\ job[w].pc = "send"
StoredStamps ==
    /\ IsFiniteSet(messages)
    /\ \A m \in messages : m.stamp <= clock /\ \A k \in messages : m.stamp = k.stamp => m = k
    /\ storing => controllerQ # << >>
QueuedStamps ==
    \A i \in DOMAIN controllerQ : controllerQ[i].kind = "text" =>
      /\ controllerQ[i].text.stamp <= clock
      /\ \A k \in DOMAIN controllerQ :
           controllerQ[k].kind = "text" /\ controllerQ[k].text.stamp = controllerQ[i].text.stamp
           => k = i
      /\ \A m \in messages : m.stamp = controllerQ[i].text.stamp => i = 1 /\ storing
MadeStamps ==
    \A w \in Workers : Stamped(w) =>
      /\ job[w].stamp <= clock
      /\ \A v \in Workers : Stamped(v) /\ job[v].stamp = job[w].stamp => v = w
      /\ \A m \in messages : m.stamp # job[w].stamp
      /\ \A i \in DOMAIN controllerQ :
           controllerQ[i].kind = "text" => controllerQ[i].text.stamp # job[w].stamp
StampInv == StoredStamps /\ QueuedStamps /\ MadeStamps

\* A client misses nothing until a second login takes it off the list, after which
\* it asks for its history again.
Attends(c) ==
    \/ state[c] = "in"
    \/ state[c] = "asked" /\ \A w \in Workers : LogsIn(w, {"link", "status"}) => job[w].what.of # c
AttendsAll ==
    \A c \in Clients : \A m \in messages :
      Attends(c) /\ history[c] # NotAnswered =>
        \/ Shown(c, m)
        \/ OnItsWay(c, m)
        \/ /\ Cardinality(history[c]) = HistoryLength
           /\ \A k \in history[c] : k.stamp > m.stamp

IInv ==
    /\ TypeOK
    /\ OneRequest
    /\ StateInv
    /\ AccountInv
    /\ PresenceInv
    /\ OrderInv
    /\ StampInv
    /\ AttendsAll

-----------------------------------------------------------------------------
(* Numbers *)

\* A set of naturals has a least element.
LEMMA LeastNatural ==
  ASSUME NEW S, S \subseteq Nat, S # {}
  PROVE  \E k \in S : \A j \in S : k <= j
<1>1. PICK k \in S : \A j \in S : <<j, k>> \notin OpToRel(<, Nat)
  BY WFMin, NatLessThanWellFounded, Zenon
<1>2. \A j \in S : ~(j < k)
  BY <1>1, Zenon DEF OpToRel
<1> QED
  BY <1>2

\* MaxUid: rows have a greatest uid.
LEMMA GreatestUid ==
  ASSUME NEW rows, IsFiniteSet(rows), rows # {}, \A r \in rows : r.uid \in Nat
  PROVE  /\ \A r \in rows : r.uid <= MaxUid(rows)
         /\ \E r \in rows : r.uid = MaxUid(rows)
<1> DEFINE Top(S) == \E r \in S : \A s \in S : s.uid <= r.uid
           Bad == {n \in Nat : \E S \in SUBSET rows : Cardinality(S) = n /\ S # {} /\ ~Top(S)}
<1>1. Bad = {}
  <2> SUFFICES ASSUME Bad # {} PROVE FALSE
    OBVIOUS
  <2>1. PICK n \in Bad : \A j \in Bad : n <= j
    BY LeastNatural
  <2>2. PICK S \in SUBSET rows : Cardinality(S) = n /\ S # {} /\ ~Top(S)
    BY <2>1
  <2>3. PICK x : x \in S
    BY <2>2
  <2> DEFINE T == S \ {x}
  <2>4. IsFiniteSet(S)
    BY FS_Subset
  <2>5. Cardinality(T) = n - 1 /\ IsFiniteSet(T)
    BY <2>2, <2>3, <2>4, FS_RemoveElement
  <2>6. Cardinality(T) \in Nat
    BY <2>5, FS_CardinalityType
  <2>7. n - 1 \in Nat /\ n \in Nat /\ ~(n <= n - 1)
    BY <2>1, <2>5, <2>6
  <2>8. n - 1 \notin Bad
    BY <2>1, <2>7
  <2>9. T = {} \/ Top(T)
    BY <2>5, <2>7, <2>8
  <2>10. CASE T = {}
    <3>1. \A s \in S : s = x /\ s.uid \in Nat
      BY <2>10
    <3> QED
      BY <2>2, <2>3, <3>1
  <2>11. CASE Top(T)
    <3>1. PICK r \in T : \A s \in T : s.uid <= r.uid
      BY <2>11
    <3>2. \A s \in S : s.uid \in Nat /\ (s = x \/ s \in T)
      OBVIOUS
    <3>3. CASE x.uid <= r.uid
      BY <2>2, <3>1, <3>2, <3>3
    <3>4. CASE ~(x.uid <= r.uid)
      <4>1. \A s \in S : s.uid <= x.uid
        BY <2>3, <3>1, <3>2, <3>4
      <4> QED
        BY <2>2, <2>3, <4>1
    <3> QED
      BY <3>3, <3>4
  <2> QED
    BY <2>9, <2>10, <2>11
<1>2. Cardinality(rows) \in Nat
  BY FS_CardinalityType
<1>3. Top(rows)
  <2> SUFFICES ASSUME ~Top(rows) PROVE FALSE
    OBVIOUS
  <2>1. Cardinality(rows) \in Bad
    BY <1>2
  <2> QED
    BY <1>1, <2>1
<1>4. PICK r \in rows : \A s \in rows : s.uid <= r.uid
  BY <1>3
<1>5. MaxUid(rows) \in {s.uid : s \in rows} /\ \A s \in rows : s.uid <= MaxUid(rows)
  BY <1>4 DEF MaxUid
<1> QED
  BY <1>5

-----------------------------------------------------------------------------
(* Sequences *)

\* An element joins a queue at its end.
LEMMA AtEnd ==
  ASSUME NEW T, NEW q \in Seq(T), NEW e \in T
  PROVE  /\ Append(q, e) \in Seq(T)
         /\ Append(q, e) # << >>
         /\ Len(Append(q, e)) = Len(q) + 1
         /\ Len(q) \in Nat /\ DOMAIN q = 1..Len(q)
         /\ DOMAIN Append(q, e) = 1..(Len(q) + 1)
         /\ Append(q, e)[Len(q) + 1] = e
         /\ \A i \in DOMAIN q : Append(q, e)[i] = q[i]
OBVIOUS

\* The first element leaves it.
LEMMA AtFront ==
  ASSUME NEW T, NEW q \in Seq(T), q # << >>
  PROVE  /\ Tail(q) \in Seq(T)
         /\ Head(q) \in T
         /\ Head(q) = q[1]
         /\ Len(q) \in Nat \ {0} /\ DOMAIN q = 1..Len(q)
         /\ DOMAIN Tail(q) = 1..(Len(q) - 1)
         /\ \A i \in DOMAIN Tail(q) : i + 1 \in DOMAIN q /\ Tail(q)[i] = q[i + 1]
OBVIOUS

\* Two queues, one behind the other.
LEMMA Behind ==
  ASSUME NEW T, NEW p \in Seq(T), NEW q \in Seq(T)
  PROVE  /\ p \o q \in Seq(T)
         /\ Len(p) \in Nat /\ Len(q) \in Nat
         /\ DOMAIN p = 1..Len(p) /\ DOMAIN q = 1..Len(q)
         /\ DOMAIN (p \o q) = 1..(Len(p) + Len(q))
         /\ Len(p \o q) = Len(p) + Len(q)
         /\ \A i \in DOMAIN p : (p \o q)[i] = p[i]
         /\ \A i \in DOMAIN q : (p \o q)[Len(p) + i] = q[i]
         /\ \A i \in DOMAIN (p \o q) : i \notin DOMAIN p =>
              i - Len(p) \in DOMAIN q /\ (p \o q)[i] = q[i - Len(p)]
<1>1. /\ p \o q \in Seq(T) /\ Len(p) \in Nat /\ Len(q) \in Nat
      /\ DOMAIN p = 1..Len(p) /\ DOMAIN q = 1..Len(q)
      /\ Len(p \o q) = Len(p) + Len(q)
      /\ DOMAIN (p \o q) = 1..(Len(p) + Len(q))
      /\ \A i \in 1..(Len(p) + Len(q)) :
           (p \o q)[i] = IF i <= Len(p) THEN p[i] ELSE q[i - Len(p)]
  OBVIOUS
<1> DEFINE r == p \o q
<1> HIDE DEF r
<1>2. \A i \in DOMAIN p : r[i] = p[i]
  BY <1>1 DEF r
<1>3. \A i \in DOMAIN q : Len(p) + i \in 1..(Len(p) + Len(q)) /\ ~(Len(p) + i <= Len(p))
                          /\ (Len(p) + i) - Len(p) = i
  BY <1>1
<1>4. \A i \in DOMAIN q : r[Len(p) + i] = q[i]
  BY <1>1, <1>3 DEF r
<1>5. \A i \in 1..(Len(p) + Len(q)) : i \notin DOMAIN p =>
              i - Len(p) \in DOMAIN q /\ r[i] = q[i - Len(p)]
  BY <1>1 DEF r
<1> QED
  BY <1>1, <1>2, <1>4, <1>5 DEF r

-----------------------------------------------------------------------------
(* Jobs and events *)

\* What a request and a piece of news are made of.
LEMMA WhatParts ==
  ASSUME NEW q \in What
  PROVE  /\ q.type \in Types
         /\ Asks(q) => q.of \in Clients
         /\ q.type = "text" => q.n \in Nat
         /\ q.type = "send" => /\ q.to \in Clients /\ q.no \in Nat
                               /\ q = [type |-> "send", to |-> q.to, no |-> q.no]
BY DEF What, Types, Asks

\* What an event is made of.
LEMMA EventParts ==
  ASSUME NEW e \in Event
  PROVE  /\ e.kind = "text" => e.text \in Text /\ e = [kind |-> "text", text |-> e.text]
         /\ e.kind # "text" => /\ e.kind \in {"in", "out"} /\ e.uid \in Nat
                               /\ e = [kind |-> e.kind, uid |-> e.uid]
BY DEF Event

\* The stamp of a text is a number.
LEMMA TextParts ==
  ASSUME NEW m \in Text
  PROVE  m.stamp \in Int
BY DEF Text

Pcs == {"start", "max", "insert", "count", "unlink", "link", "status", "announce", "send"}

\* What a job is made of.
LEMMA JobParts ==
  ASSUME NEW j \in Job
  PROVE  /\ j # NoJob
         /\ j.pc \in Pcs
         /\ j.what \in What
         /\ j.uid \in Nat /\ j.count \in Nat /\ j.stamp \in Nat
BY NoneAssumption DEF Job, Pcs

\* What the close of a connection is made of.
LEMMA ClosingParts ==
  ASSUME NEW k \in Closing
  PROVE  /\ k # NoClose
         /\ k.pc \in {"drop", "announce"}
         /\ k.of \in Clients
         /\ k.uid \in Nat /\ k.count \in Nat
BY NoneAssumption DEF Closing

\* The job of worker w after a step: at step p, with these values.
Moves(w, p, u, n, s) ==
    /\ job[w] # NoJob
    /\ job' \in [Workers -> Job \cup {NoJob}]
    /\ job'[w] # NoJob
    /\ job'[w].what = job[w].what
    /\ job'[w].pc = p
    /\ job'[w].uid = u
    /\ job'[w].count = n
    /\ job'[w].stamp = s
    /\ \A v \in Workers : v # w => job'[v] = job[v]

\* Worker w has done with its job.
Ends(w) ==
    /\ job[w] # NoJob
    /\ job' \in [Workers -> Job \cup {NoJob}]
    /\ job'[w] = NoJob
    /\ \A v \in Workers : v # w => job'[v] = job[v]

\* Worker w has taken the first of the queue.
Takes(w) ==
    /\ job[w] = NoJob
    /\ job' \in [Workers -> Job \cup {NoJob}]
    /\ job'[w] # NoJob
    /\ job'[w].what = Head(workersQ)
    /\ job'[w].pc = "start"
    /\ \A v \in Workers : v # w => job'[v] = job[v]

\* A worker that is not idle has a job of this form.
LEMMA InHand ==
  ASSUME TypeOK, NEW w \in Workers, job[w] # NoJob
  PROVE  /\ job[w] \in Job
         /\ job[w].pc \in Pcs
         /\ job[w].what \in What
         /\ job[w].what.type \in Types
         /\ Asks(job[w].what) => job[w].what.of \in Clients
         /\ job[w].uid \in Nat /\ job[w].count \in Nat /\ job[w].stamp \in Nat
<1>1. job[w] \in Job
  BY DEF TypeOK
<1> QED
  BY <1>1, JobParts, WhatParts

\* A step that writes a whole job.
LEMMA ChangesJob ==
  ASSUME TypeOK, NEW w \in Workers, job[w] # NoJob,
         NEW p \in Pcs, NEW u \in Nat, NEW n \in Nat, NEW s \in Nat,
         job' = [job EXCEPT ![w] = [pc |-> p, what |-> job[w].what, uid |-> u, count |-> n,
                                    stamp |-> s]]
  PROVE  Moves(w, p, u, n, s)
<1> DEFINE j == [pc |-> p, what |-> job[w].what, uid |-> u, count |-> n, stamp |-> s]
<1>1. j \in Job
  BY InHand DEF Job, Pcs
<1>2. j.pc = p /\ j.what = job[w].what /\ j.uid = u /\ j.count = n /\ j.stamp = s
  OBVIOUS
<1> HIDE DEF j
<1>3. job' = [job EXCEPT ![w] = j]
  BY DEF j
<1>4. job \in [Workers -> Job \cup {NoJob}]
  BY DEF TypeOK
<1>5. j # NoJob
  BY <1>1, NoneAssumption
<1> QED
  BY <1>1, <1>2, <1>3, <1>4, <1>5 DEF Moves

\* A worker writes parts of the record of its job.
LEMMA JobWritten ==
  ASSUME NEW j \in Job, NEW p, NEW x
  PROVE  /\ [j EXCEPT !.pc = p] = [pc |-> p, what |-> j.what, uid |-> j.uid,
                                  count |-> j.count, stamp |-> j.stamp]
         /\ [j EXCEPT !.uid = x, !.pc = p] = [pc |-> p, what |-> j.what, uid |-> x,
                                             count |-> j.count, stamp |-> j.stamp]
         /\ [j EXCEPT !.count = x, !.pc = p] = [pc |-> p, what |-> j.what, uid |-> j.uid,
                                               count |-> x, stamp |-> j.stamp]
         /\ [j EXCEPT !.stamp = x, !.pc = p] = [pc |-> p, what |-> j.what, uid |-> j.uid,
                                               count |-> j.count, stamp |-> x]
<1>1. ASSUME NEW U, NEW N, NEW S, NEW i \in [pc : Pcs, what : What, uid : U, count : N, stamp : S]
      PROVE  [i EXCEPT !.pc = p] = [pc |-> p, what |-> i.what, uid |-> i.uid,
                                  count |-> i.count, stamp |-> i.stamp]
  BY <1>1
<1>2. j \in [pc : Pcs, what : What, uid : Nat, count : Nat, stamp : Nat]
  BY DEF Job, Pcs
<1>3. ASSUME NEW i, i = [j EXCEPT !.uid = x]
      PROVE  [i EXCEPT !.pc = p] = [pc |-> p, what |-> j.what, uid |-> x,
                                  count |-> j.count, stamp |-> j.stamp]
  <2>1. /\ i \in [pc : Pcs, what : What, uid : {x}, count : Nat, stamp : Nat]
        /\ i.what = j.what /\ i.uid = x /\ i.count = j.count /\ i.stamp = j.stamp
    BY <1>2, <1>3
  <2> QED
    BY <1>1, <2>1
<1>4. ASSUME NEW i, i = [j EXCEPT !.count = x]
      PROVE  [i EXCEPT !.pc = p] = [pc |-> p, what |-> j.what, uid |-> j.uid,
                                  count |-> x, stamp |-> j.stamp]
  <2>1. /\ i \in [pc : Pcs, what : What, uid : Nat, count : {x}, stamp : Nat]
        /\ i.what = j.what /\ i.uid = j.uid /\ i.count = x /\ i.stamp = j.stamp
    BY <1>2, <1>4
  <2> QED
    BY <1>1, <2>1
<1>5. ASSUME NEW i, i = [j EXCEPT !.stamp = x]
      PROVE  [i EXCEPT !.pc = p] = [pc |-> p, what |-> j.what, uid |-> j.uid,
                                  count |-> j.count, stamp |-> x]
  <2>1. /\ i \in [pc : Pcs, what : What, uid : Nat, count : Nat, stamp : {x}]
        /\ i.what = j.what /\ i.uid = j.uid /\ i.count = j.count /\ i.stamp = x
    BY <1>2, <1>5
  <2> QED
    BY <1>1, <2>1
<1>6. /\ [j EXCEPT !.uid = x, !.pc = p] = [[j EXCEPT !.uid = x] EXCEPT !.pc = p]
      /\ [j EXCEPT !.count = x, !.pc = p] = [[j EXCEPT !.count = x] EXCEPT !.pc = p]
      /\ [j EXCEPT !.stamp = x, !.pc = p] = [[j EXCEPT !.stamp = x] EXCEPT !.pc = p]
  OBVIOUS
<1>7. [j EXCEPT !.pc = p] = [pc |-> p, what |-> j.what, uid |-> j.uid,
                           count |-> j.count, stamp |-> j.stamp]
  BY <1>1, <1>2
<1> QED
  BY <1>3, <1>4, <1>5, <1>6, <1>7, Zenon

\* A step that writes only how far a job is.
LEMMA GoesTo ==
  ASSUME TypeOK, NEW w \in Workers, job[w] # NoJob, NEW p \in Pcs, Goto(w, p)
  PROVE  Moves(w, p, job[w].uid, job[w].count, job[w].stamp)
<1>1. job[w] \in Job
  BY InHand
<1>2. [job[w] EXCEPT !.pc = p] = [pc |-> p, what |-> job[w].what, uid |-> job[w].uid,
                                  count |-> job[w].count, stamp |-> job[w].stamp]
  BY <1>1, JobWritten
<1>3. job' = [job EXCEPT ![w] = [pc |-> p, what |-> job[w].what, uid |-> job[w].uid,
                                  count |-> job[w].count, stamp |-> job[w].stamp]]
  BY <1>2 DEF Goto
<1> QED
  BY <1>3, InHand, ChangesJob

\* A step that writes the uid of a job.
LEMMA SetsUid ==
  ASSUME TypeOK, NEW w \in Workers, job[w] # NoJob, NEW p \in Pcs, NEW u \in Nat,
         job' = [job EXCEPT ![w].uid = u, ![w].pc = p]
  PROVE  Moves(w, p, u, job[w].count, job[w].stamp)
<1>1. job[w] \in Job /\ job \in [Workers -> Job \cup {NoJob}]
  BY InHand DEF TypeOK
<1> DEFINE j == [pc |-> p, what |-> job[w].what, uid |-> u,
                 count |-> job[w].count, stamp |-> job[w].stamp]
<1>2. [job[w] EXCEPT !.uid = u, !.pc = p] = j
  BY <1>1, JobWritten
<1>3. job' = [job EXCEPT ![w] = [job[w] EXCEPT !.uid = u, !.pc = p]]
  BY <1>1
<1>4. job' = [job EXCEPT ![w] = j]
  BY <1>2, <1>3
<1> QED
  BY <1>4, InHand, ChangesJob

\* A step that writes the number of sessions into a job.
LEMMA SetsCount ==
  ASSUME TypeOK, NEW w \in Workers, job[w] # NoJob, NEW p \in Pcs, NEW n \in Nat,
         job' = [job EXCEPT ![w].count = n, ![w].pc = p]
  PROVE  Moves(w, p, job[w].uid, n, job[w].stamp)
<1>1. job[w] \in Job /\ job \in [Workers -> Job \cup {NoJob}]
  BY InHand DEF TypeOK
<1> DEFINE j == [pc |-> p, what |-> job[w].what, uid |-> job[w].uid,
                 count |-> n, stamp |-> job[w].stamp]
<1>2. [job[w] EXCEPT !.count = n, !.pc = p] = j
  BY <1>1, JobWritten
<1>3. job' = [job EXCEPT ![w] = [job[w] EXCEPT !.count = n, !.pc = p]]
  BY <1>1
<1>4. job' = [job EXCEPT ![w] = j]
  BY <1>2, <1>3
<1> QED
  BY <1>4, InHand, ChangesJob

\* A step that writes the stamp of a text into a job.
LEMMA SetsStamp ==
  ASSUME TypeOK, NEW w \in Workers, job[w] # NoJob, NEW p \in Pcs, NEW s \in Nat,
         job' = [job EXCEPT ![w].stamp = s, ![w].pc = p]
  PROVE  Moves(w, p, job[w].uid, job[w].count, s)
<1>1. job[w] \in Job /\ job \in [Workers -> Job \cup {NoJob}]
  BY InHand DEF TypeOK
<1> DEFINE j == [pc |-> p, what |-> job[w].what, uid |-> job[w].uid,
                 count |-> job[w].count, stamp |-> s]
<1>2. [job[w] EXCEPT !.stamp = s, !.pc = p] = j
  BY <1>1, JobWritten
<1>3. job' = [job EXCEPT ![w] = [job[w] EXCEPT !.stamp = s, !.pc = p]]
  BY <1>1
<1>4. job' = [job EXCEPT ![w] = j]
  BY <1>2, <1>3
<1> QED
  BY <1>4, InHand, ChangesJob

\* A step that ends a job.
LEMMA LosesJob ==
  ASSUME TypeOK, NEW w \in Workers, job[w] # NoJob, job' = [job EXCEPT ![w] = NoJob]
  PROVE  Ends(w)
BY DEF TypeOK, Ends

\* A step that takes a job from the queue.
LEMMA TakesJob ==
  ASSUME TypeOK, NEW w \in Workers, Pop(w)
  PROVE  /\ Takes(w)
         /\ workersQ # << >> /\ workersQ' = Tail(workersQ)
         /\ Head(workersQ) \in What
<1>1. Head(workersQ) \in What
  BY AtFront DEF TypeOK, Pop
<1> DEFINE j == [pc |-> "start", what |-> Head(workersQ), uid |-> NullUid, count |-> 0, stamp |-> 0]
<1>2. j \in Job /\ j.what = Head(workersQ) /\ j.pc = "start"
  BY <1>1 DEF Job, NullUid
<1> HIDE DEF j
<1>3. job' = [job EXCEPT ![w] = j]
  BY DEF Pop, j
<1>4. job \in [Workers -> Job \cup {NoJob}] /\ j # NoJob
  BY <1>2, NoneAssumption DEF TypeOK
<1> QED
  BY <1>1, <1>2, <1>3, <1>4 DEF Takes, Pop

-----------------------------------------------------------------------------
(* Types *)

\* The parts of TypeOK that are about numbers and queues.
LEMMA TypeFacts ==
  ASSUME TypeOK
  PROVE  /\ \A r \in users : r.uid \in Nat \ {0}
         /\ clock \in Nat
         /\ workersQ \in Seq(What) /\ controllerQ \in Seq(Event) /\ news \in Seq(Event)
         /\ Len(news) \in Nat
         /\ job \in [Workers -> Job \cup {NoJob}]
<1>1. /\ \A r \in users : r.uid \in Nat \ {0}
      /\ clock \in Nat
      /\ workersQ \in Seq(What) /\ controllerQ \in Seq(Event) /\ news \in Seq(Event)
      /\ job \in [Workers -> Job \cup {NoJob}]
  BY Zenon DEF TypeOK
<1>2. Len(news) \in Nat
  BY <1>1
<1> QED
  BY <1>1, <1>2

\* The listed clients are walked once each.
LEMMA ListedAll ==
  ASSUME TypeOK
  PROVE  /\ Listed \in Seq(Clients)
         /\ \A i \in DOMAIN Listed : Listed[i] \in Clients
         /\ \A c \in listed : \E i \in DOMAIN Listed : Listed[i] = c
<1> DEFINE n == Cardinality(listed)
           Good(q) == \A i, j \in DOMAIN q : q[i] = q[j] => i = j
<1>1. listed \subseteq Clients /\ IsFiniteSet(listed)
  BY FiniteAssumption, FS_Subset DEF TypeOK
<1>2. n \in Nat /\ ExistsBijection(1..n, listed)
  BY <1>1, FS_CardinalityType
<1>3. PICK f : f \in Bijection(1..n, listed)
  BY <1>2 DEF ExistsBijection
<1>4. f \in [1..n -> listed] /\ Good(f)
  BY <1>3 DEF Bijection, Injection, IsInjective
<1>5. Listed \in [1..n -> listed] /\ Good(Listed)
  BY <1>4 DEF Listed
<1>6. Listed \in Injection(1..n, listed)
  BY <1>5 DEF Injection, IsInjective
<1>7. IsFiniteSet(1..n) /\ Cardinality(1..n) = n
  BY <1>2, FS_Interval
<1>8. Listed \in Surjection(1..n, listed)
  BY <1>1, <1>6, <1>7, FS_Injection
<1>9. \A c \in listed : \E i \in 1..n : Listed[i] = c
  BY <1>8 DEF Surjection
<1> HIDE DEF n
<1>10. DOMAIN Listed = 1..n /\ \A i \in 1..n : Listed[i] \in Clients
  BY <1>1, <1>5
<1> QED
  BY <1>2, <1>5, <1>1, <1>9, <1>10

\* A user has a natural number of sessions.
LEMMA SessionsType ==
  ASSUME NEW u
  PROVE  Sessions(u) \in Nat
<1>1. {c \in Clients : session[c] = u} \in SUBSET Clients
  OBVIOUS
<1> QED
  BY <1>1, FiniteAssumption, FS_Subset, FS_CardinalityType DEF Sessions

\* What the listener has read when it begins to close a connection.
LEMMA ClosesAt ==
  ASSUME TypeOK, NEW c \in Clients, CountAtClose(c)
  PROVE  /\ session[c] \in Nat
         /\ closing' \in Closing
         /\ closing'.pc = "drop" /\ closing'.of = c /\ closing'.uid = session[c]
         /\ closing'.count = IF session[c] = NullUid THEN 0 ELSE Sessions(session[c])
<1> DEFINE n == IF session[c] = NullUid THEN 0 ELSE Sessions(session[c])
<1>1. session[c] \in Nat
  BY DEF TypeOK, CountAtClose
<1>2. n \in Nat
  BY SessionsType
<1>3. closing' = [pc |-> "drop", of |-> c, uid |-> session[c], count |-> n]
  BY DEF CountAtClose
<1> HIDE DEF n
<1>4. closing' \in Closing
  BY <1>1, <1>2, <1>3 DEF Closing
<1> QED
  BY <1>1, <1>3, <1>4 DEF n

\* What it still has when the connection is dropped.
LEMMA Drops ==
  ASSUME TypeOK, Drop
  PROVE  /\ closing \in Closing /\ closing' \in Closing
         /\ closing'.pc = "announce" /\ closing'.of = closing.of /\ closing'.uid = closing.uid
         /\ closing'.count = closing.count
<1>1. closing \in Closing
  BY DEF TypeOK, Drop
<1> QED
  BY <1>1 DEF Drop, Closing

-----------------------------------------------------------------------------
(* What the steps of a job write to it. *)

\* A login that found its account, or not.
LEMMA Selects ==
  ASSUME TypeOK, RowsOK, NEW w \in Workers, Select(w)
  PROVE  \/ /\ \A r \in users : r.login # Given(w).login
            /\ Register(w)
            /\ Moves(w, "max", job[w].uid, job[w].count, job[w].stamp)
         \/ /\ \E r \in users : r.login = Given(w).login /\ r.password # Given(w).password
            /\ Refuse(w)
            /\ Ends(w)
         \/ \E u \in Nat \ {0} :
              /\ Row(u, Given(w)) \in users
              /\ Moves(w, "count", u, job[w].count, job[w].stamp)
              /\ UNCHANGED <<status, state, busy, crowded>>
<1> DEFINE rows == {r \in users : r.login = Given(w).login}
           fit == {r \in rows : r.password = Given(w).password}
<1>1. job[w] # NoJob
  BY DEF Select, At
<1>2. CASE rows = {} /\ Register(w)
  <2>1. Moves(w, "max", job[w].uid, job[w].count, job[w].stamp)
    BY <1>1, <1>2, GoesTo DEF Register, Pcs
  <2> QED
    BY <1>2, <2>1
<1>3. CASE rows # {} /\ fit = {} /\ Refuse(w)
  <2>1. Ends(w)
    BY <1>1, <1>3, LosesJob DEF Refuse, Done
  <2> QED
    BY <1>3, <2>1
<1>4. CASE /\ fit # {}
           /\ job' = [job EXCEPT ![w].uid = MaxUid(fit), ![w].pc = "count"]
           /\ UNCHANGED <<status, state, busy, crowded>>
  <2>1. IsFiniteSet(fit) /\ \A r \in fit : r.uid \in Nat \ {0}
    <3>1. fit \in SUBSET users
      OBVIOUS
    <3> QED
      BY <3>1, FS_Subset DEF RowsOK, TypeOK
  <2>2. PICK r \in fit : r.uid = MaxUid(fit)
    BY <1>4, <2>1, GreatestUid
  <2>3. r.uid \in Nat \ {0} /\ Row(r.uid, Given(w)) \in users
    BY <2>1 DEF Row, RowsOK
  <2>4. Moves(w, "count", r.uid, job[w].count, job[w].stamp)
    BY <1>1, <1>4, <2>2, <2>3, SetsUid DEF Pcs
  <2> QED
    BY <1>4, <2>3, <2>4
<1> QED
  BY <1>2, <1>3, <1>4 DEF Select

\* A login that is to make its account takes a uid that no row has.
LEMMA SelectsMax ==
  ASSUME TypeOK, RowsOK, NEW w \in Workers, SelectMax(w)
  PROVE  \E u \in Nat \ {0} :
           /\ \A r \in users : r.uid # u
           /\ Moves(w, "insert", u, job[w].count, job[w].stamp)
<1> DEFINE u == MaxUid(users) + 1
<1>1. /\ \A r \in users : r.uid <= MaxUid(users)
      /\ \E r \in users : r.uid = MaxUid(users)
  BY GreatestUid DEF TypeOK, RowsOK
<1>2. u \in Nat \ {0} /\ \A r \in users : r.uid # u
  BY <1>1, TypeFacts
<1>3. Moves(w, "insert", u, job[w].count, job[w].stamp)
  BY <1>2, SetsUid DEF SelectMax, At, Pcs
<1> QED
  BY <1>2, <1>3

\* A client that was refused its registration, or has its account.
LEMMA Inserts ==
  ASSUME TypeOK, RowsOK, NEW w \in Workers, Insert(w)
  PROVE  \/ /\ \E r \in users : r.uid = job[w].uid
            /\ Answer(job[w].what.of, "registration error")
            /\ Done(w)
            /\ users' = users
            /\ Ends(w)
         \/ /\ \A r \in users : r.uid # job[w].uid
            /\ users' = users \cup {Row(job[w].uid, Given(w))}
            /\ Moves(w, "count", job[w].uid, job[w].count, job[w].stamp)
            /\ UNCHANGED <<status, state, busy>>
<1>1. job[w] # NoJob
  BY DEF Insert, At
<1>2. CASE \E r \in users : r.uid = job[w].uid
  <2>1. Ends(w)
    BY <1>1, <1>2, LosesJob DEF Insert, Done
  <2> QED
    BY <1>2, <2>1 DEF Insert
<1>3. CASE ~\E r \in users : r.uid = job[w].uid
  <2>1. Moves(w, "count", job[w].uid, job[w].count, job[w].stamp)
    BY <1>1, <1>3, GoesTo DEF Insert, Pcs
  <2> QED
    BY <1>3, <2>1 DEF Insert
<1> QED
  BY <1>2, <1>3

\* The other steps of a login.
LEMMA LoginMoves ==
  ASSUME TypeOK, NEW w \in Workers
  PROVE  /\ Count(w) => Moves(w, "unlink", job[w].uid, Sessions(job[w].uid), job[w].stamp)
         /\ Unlink(w) => Moves(w, "link", job[w].uid, job[w].count, job[w].stamp)
         /\ Link(w) => Moves(w, "status", job[w].uid, job[w].count, job[w].stamp)
         /\ SendStatus(w) => Moves(w, "announce", job[w].uid, job[w].count, job[w].stamp)
         /\ AnnounceLogin(w) => Ends(w)
<1>1. ASSUME Count(w)
      PROVE  Moves(w, "unlink", job[w].uid, Sessions(job[w].uid), job[w].stamp)
  BY <1>1, SessionsType, SetsCount DEF Count, At, Pcs
<1>2. ASSUME Unlink(w) PROVE Moves(w, "link", job[w].uid, job[w].count, job[w].stamp)
  BY <1>2, GoesTo DEF Unlink, At, Pcs
<1>3. ASSUME Link(w) PROVE Moves(w, "status", job[w].uid, job[w].count, job[w].stamp)
  BY <1>3, GoesTo DEF Link, At, Pcs
<1>4. ASSUME SendStatus(w) PROVE Moves(w, "announce", job[w].uid, job[w].count, job[w].stamp)
  BY <1>4, GoesTo DEF SendStatus, At, Pcs
<1>5. ASSUME AnnounceLogin(w) PROVE Ends(w)
  BY <1>5, LosesJob DEF AnnounceLogin, Done, At
<1> QED
  BY <1>1, <1>2, <1>3, <1>4, <1>5

\* The steps of the other jobs.
LEMMA OtherMoves ==
  ASSUME TypeOK, NEW w \in Workers
  PROVE  /\ StampText(w) => Moves(w, "send", job[w].uid, job[w].count, clock + 1)
         /\ SendText(w) => Ends(w)
         /\ BrowseHistory(w) => Ends(w)
         /\ Deliver(w) => Ends(w)
<1>1. ASSUME StampText(w) PROVE Moves(w, "send", job[w].uid, job[w].count, clock + 1)
  <2>1. clock + 1 \in Nat
    BY TypeFacts
  <2> QED
    BY <1>1, <2>1, SetsStamp DEF StampText, At, Pcs
<1>2. ASSUME SendText(w) PROVE Ends(w)
  BY <1>2, LosesJob DEF SendText, Done, At
<1>3. ASSUME BrowseHistory(w) PROVE Ends(w)
  BY <1>3, LosesJob DEF BrowseHistory, Done, At
<1>4. ASSUME Deliver(w) PROVE Ends(w)
  BY <1>4, LosesJob DEF Deliver, At
<1> QED
  BY <1>1, <1>2, <1>3, <1>4

\* What the steps add to the queues.
LEMMA NewWork ==
  ASSUME NEW c \in Clients, NEW n \in Nat
  PROVE  /\ [type |-> "login", of |-> c] \in What
         /\ [type |-> "history", of |-> c] \in What
         /\ [type |-> "text", of |-> c, n |-> n] \in What
         /\ [type |-> "send", to |-> c, no |-> n] \in What
BY DEF What

\* The events that the steps of a job make.
LEMMA NewEvents ==
  ASSUME TypeOK, NEW w \in Workers, job[w] # NoJob
  PROVE  /\ [kind |-> "in", uid |-> job[w].uid] \in Event
         /\ job[w].what.type = "text" =>
              [kind |-> "text",
               text |-> [of |-> job[w].what.of, n |-> job[w].what.n, stamp |-> job[w].stamp]]
              \in Event
<1>1. job[w].uid \in Nat /\ job[w].stamp \in Nat /\ job[w].what \in What
  BY InHand
<1>2. job[w].what.type = "text" => job[w].what.of \in Clients /\ job[w].what.n \in Nat
  BY <1>1, WhatParts DEF Asks
<1> QED
  BY <1>1, <1>2 DEF Event, Text

\* A walk adds a send job for each listed client, all with the number of this
\* piece of news.
LEMMA WalkAdds ==
  ASSUME TypeOK, Walk
  PROVE  \E new \in Seq(What) :
           /\ workersQ' = workersQ \o new
           /\ \A i \in DOMAIN new : new[i].type = "send" /\ new[i].no = Len(news) + 1
           /\ \A c \in listed : \E i \in DOMAIN new :
                new[i] = [type |-> "send", to |-> c, no |-> Len(news) + 1]
<1> DEFINE new == [i \in DOMAIN Listed |-> [type |-> "send", to |-> Listed[i],
                                            no |-> Len(news) + 1]]
<1>1. Len(news) + 1 \in Nat
  BY TypeFacts
<1>2. /\ Listed \in Seq(Clients)
      /\ \A i \in DOMAIN Listed : Listed[i] \in Clients
      /\ \A c \in listed : \E i \in DOMAIN Listed : Listed[i] = c
  BY ListedAll
<1>3. DOMAIN Listed = 1..Len(Listed) /\ Len(Listed) \in Nat
  BY <1>2
<1>4. \A i \in DOMAIN Listed :
        [type |-> "send", to |-> Listed[i], no |-> Len(news) + 1] \in What
  BY <1>1, <1>2, NewWork
<1>5. new \in [1..Len(Listed) -> What]
  BY <1>3, <1>4
<1>6. new \in Seq(What)
  BY <1>3, <1>5
<1>7. workersQ' = workersQ \o new
  BY DEF Walk
<1>8. \A i \in DOMAIN new : new[i].type = "send" /\ new[i].no = Len(news) + 1
  OBVIOUS
<1>9. \A c \in listed : \E i \in DOMAIN new :
        new[i] = [type |-> "send", to |-> c, no |-> Len(news) + 1]
  BY <1>2
<1> QED
  BY <1>6, <1>7, <1>8, <1>9

\* The answer to a login keeps the types of a client.
LEMMA AnswersType ==
  ASSUME TypeOK, NEW c \in Clients, NEW s \in {"auth error", "registration error", "ok"},
         Answer(c, s)
  PROVE  /\ status' \in [Clients -> {"none", "auth error", "registration error", "ok"}]
         /\ state' \in [Clients -> {"new", "asked", "granted", "in", "refused", "left"}]
BY DEF TypeOK, Answer

\* A step keeps every variable in its type.
LEMMA TypeStep ==
  ASSUME TypeOK, RowsOK, JobRow, StateInv, StoredStamps, [Next]_vars
  PROVE  TypeOK'
<1> USE DEF clientVars, mgrVars, seenVars, ghostVars
<1>q. /\ \A q \in Seq(What), e \in What : Append(q, e) \in Seq(What)
      /\ \A q \in Seq(Event), e \in Event : Append(q, e) \in Seq(Event)
      /\ \A q \in Seq(Nat), e \in Nat : Append(q, e) \in Seq(Nat)
      /\ \A q \in Seq(Event) : q # << >> => Tail(q) \in Seq(Event) /\ Head(q) \in Event
  OBVIOUS
<1>t. workersQ \in Seq(What) /\ controllerQ \in Seq(Event)
  BY TypeFacts
<1>d. ASSUME NEW w \in Workers, job[w] # NoJob, Done(w) PROVE busy' \in [Clients -> BOOLEAN]
  BY <1>d DEF TypeOK, Done
<1>b. ASSUME NEW u \in Nat, Blur(u) PROVE blurred' \subseteq Nat
  BY <1>b DEF TypeOK, Blur
<1>1. ASSUME NEW c \in Clients, AskToLogIn(c) PROVE TypeOK'
  <2>1. workersQ' \in Seq(What)
    BY <1>1, <1>q, <1>t, NewWork DEF AskToLogIn, Request
  <2>2. DOMAIN asked' = Clients
    BY <1>1 DEF AskToLogIn, TypeOK
  <2>3. state' \in [Clients -> {"new", "asked", "granted", "in", "refused", "left"}]
        /\ busy' \in [Clients -> BOOLEAN]
    BY <1>1 DEF AskToLogIn, Request, TypeOK
  <2>4. requests' \in 0..MaxRequests
    <3>1. requests \in 0..MaxRequests /\ requests < MaxRequests /\ requests' = requests + 1
          /\ MaxRequests \in Nat
      BY <1>1, BoundAssumption, Zenon DEF AskToLogIn, TypeOK
    <3> QED
      BY <3>1
  <2> QED
    BY <1>1, <2>1, <2>2, <2>3, <2>4, Zenon DEF AskToLogIn, Request, TypeOK
<1>2. ASSUME NEW c \in Clients, AskForHistory(c) PROVE TypeOK'
  <2>1. workersQ' \in Seq(What)
    BY <1>2, <1>q, <1>t, NewWork DEF AskForHistory, Request
  <2>2. state' \in [Clients -> {"new", "asked", "granted", "in", "refused", "left"}]
        /\ busy' \in [Clients -> BOOLEAN]
    BY <1>2 DEF AskForHistory, Request, TypeOK
  <2>3. history' \in [Clients -> (SUBSET Text) \cup {NotAnswered}]
    BY <1>2 DEF AskForHistory, TypeOK
  <2> QED
    BY <1>2, <2>1, <2>2, <2>3, Zenon DEF AskForHistory, Request, TypeOK
<1>3. ASSUME NEW c \in Clients, Say(c) PROVE TypeOK'
  <2>1. texts' \in [Clients -> Nat] /\ \A b \in Clients : texts'[b] <= MaxTexts[b]
    <3>1. /\ texts \in [Clients -> Nat] /\ \A b \in Clients : texts[b] <= MaxTexts[b]
          /\ MaxTexts \in [Clients -> Nat]
          /\ texts' = [texts EXCEPT ![c] = @ + 1] /\ texts[c] < MaxTexts[c]
      BY <1>3, BoundAssumption, Zenon DEF Say, TypeOK
    <3> QED
      BY <3>1
  <2>2. [type |-> "text", of |-> c, n |-> texts[c] + 1] \in What
    <3>1. texts[c] \in Nat
      BY DEF TypeOK
    <3>2. texts[c] + 1 \in Nat
      BY <3>1
    <3> QED
      BY <3>2, NewWork
  <2>3. workersQ' \in Seq(What)
    BY <1>3, <1>q, <1>t, <2>2 DEF Say, Request
  <2>4. busy' \in [Clients -> BOOLEAN]
    BY <1>3 DEF Say, Request, TypeOK
  <2>5. requests' \in 0..MaxRequests
    <3>1. requests \in 0..MaxRequests /\ requests < MaxRequests /\ requests' = requests + 1
          /\ MaxRequests \in Nat
      BY <1>3, BoundAssumption, Zenon DEF Say, TypeOK
    <3> QED
      BY <3>1
  <2> QED
    BY <1>3, <2>1, <2>3, <2>4, <2>5, Zenon DEF Say, Request, TypeOK
<1>4. ASSUME NEW c \in Clients, Leave(c) PROVE TypeOK'
  BY <1>4 DEF Leave, TypeOK
<1>5. ASSUME NEW w \in Workers, Pop(w) PROVE TypeOK'
  <2>1. workersQ' \in Seq(What)
    BY <1>5, <1>t, AtFront DEF Pop
  <2>2. job' \in [Workers -> Job \cup {NoJob}]
    BY <1>5, TakesJob DEF Takes
  <2> QED
    BY <1>5, <2>1, <2>2 DEF Pop, TypeOK
<1>6. ASSUME NEW w \in Workers, Deliver(w) PROVE TypeOK'
  <2>1. job' \in [Workers -> Job \cup {NoJob}]
    BY <1>6, OtherMoves DEF Ends
  <2>2. live' \in [Clients -> Seq(Nat)]
    <3>1. job[w].what.no \in Nat
      BY <1>6, InHand, WhatParts DEF Deliver, At
    <3> QED
      BY <1>6, <1>q, <3>1 DEF Deliver, TypeOK
  <2> QED
    BY <1>6, <2>1, <2>2 DEF Deliver, TypeOK
<1>7. ASSUME NEW w \in Workers, BrowseHistory(w) PROVE TypeOK'
  <2>1. job' \in [Workers -> Job \cup {NoJob}]
    BY <1>7, OtherMoves DEF Ends
  <2>2. busy' \in [Clients -> BOOLEAN]
    BY <1>7, <1>d DEF BrowseHistory, At
  <2>3. history' \in [Clients -> (SUBSET Text) \cup {NotAnswered}]
    <3>1. Newest(HistoryLength) \in SUBSET Text
      BY DEF Newest, TypeOK
    <3> QED
      BY <1>7, <3>1 DEF BrowseHistory, TypeOK
  <2> QED
    BY <1>7, <2>1, <2>2, <2>3 DEF BrowseHistory, TypeOK
<1>8. ASSUME NEW w \in Workers, StampText(w) PROVE TypeOK'
  <2>1. job' \in [Workers -> Job \cup {NoJob}]
    BY <1>8, OtherMoves DEF Moves
  <2>2. clock' \in Nat
    BY <1>8, TypeFacts DEF StampText
  <2> QED
    BY <1>8, <2>1, <2>2, Zenon DEF StampText, TypeOK
<1>9. ASSUME NEW w \in Workers, SendText(w) PROVE TypeOK'
  <2>1. job' \in [Workers -> Job \cup {NoJob}]
    BY <1>9, OtherMoves DEF Ends
  <2>2. busy' \in [Clients -> BOOLEAN]
    BY <1>9, <1>d DEF SendText, At
  <2>3. controllerQ' \in Seq(Event)
    BY <1>9, <1>q, <1>t, NewEvents DEF SendText, At
  <2> QED
    BY <1>9, <2>1, <2>2, <2>3 DEF SendText, TypeOK
<1>10. ASSUME NEW w \in Workers, Select(w) PROVE TypeOK'
  <2>1. /\ job' \in [Workers -> Job \cup {NoJob}]
        /\ \/ Register(w) \/ Refuse(w) \/ UNCHANGED <<status, state, busy, crowded>>
    BY <1>10, Selects DEF Moves, Ends
  <2>2. job[w] # NoJob /\ job[w].what.of \in Clients
    BY <1>10, InHand DEF Select, At, Asks
  <2>3. /\ status' \in [Clients -> {"none", "auth error", "registration error", "ok"}]
        /\ state' \in [Clients -> {"new", "asked", "granted", "in", "refused", "left"}]
    BY <2>1, <2>2, AnswersType DEF Refuse, Register, TypeOK
  <2>4. busy' \in [Clients -> BOOLEAN]
    BY <2>1, <2>2, <1>d DEF Refuse, Register, TypeOK
  <2> QED
    BY <1>10, <2>1, <2>3, <2>4 DEF Select, TypeOK
<1>11. ASSUME NEW w \in Workers, SelectMax(w) PROVE TypeOK'
  <2>1. job' \in [Workers -> Job \cup {NoJob}]
    BY <1>11, SelectsMax DEF Moves
  <2> QED
    BY <1>11, <2>1 DEF SelectMax, TypeOK
<1>12. ASSUME NEW w \in Workers, Insert(w) PROVE TypeOK'
  <2>1. /\ job' \in [Workers -> Job \cup {NoJob}]
        /\ \/ /\ Answer(job[w].what.of, "registration error")
              /\ Done(w)
              /\ users' = users
           \/ /\ users' = users \cup {Row(job[w].uid, Given(w))}
              /\ UNCHANGED <<status, state, busy>>
    BY <1>12, Inserts DEF Moves, Ends
  <2>2. job[w] # NoJob /\ job[w].what.of \in Clients /\ job[w].uid \in Nat \ {0}
    <3>1. /\ job[w] # NoJob /\ job[w].what.of \in Clients /\ job[w].uid \in Nat
          /\ LogsIn(w, {"insert"})
      BY <1>12, InHand DEF Insert, At, Asks, LogsIn
    <3>2. job[w].uid >= 1
      BY <3>1 DEF JobRow
    <3> QED
      BY <3>1, <3>2
  <2>3. /\ status' \in [Clients -> {"none", "auth error", "registration error", "ok"}]
        /\ state' \in [Clients -> {"new", "asked", "granted", "in", "refused", "left"}]
    BY <2>1, <2>2, AnswersType DEF TypeOK
  <2>4. busy' \in [Clients -> BOOLEAN]
    BY <2>1, <2>2, <1>d DEF TypeOK
  <2>5. \A r \in users' : r.uid \in Nat \ {0}
    <3>1. Row(job[w].uid, Given(w)).uid = job[w].uid
      BY DEF Row
    <3>2. \A r \in users' : r \in users \/ r = Row(job[w].uid, Given(w))
      BY <2>1
    <3> QED
      BY <2>2, <3>1, <3>2, TypeFacts
  <2> QED
    BY <1>12, <2>1, <2>3, <2>4, <2>5 DEF Insert, TypeOK
<1>13. ASSUME NEW w \in Workers, Count(w) PROVE TypeOK'
  <2>1. job' \in [Workers -> Job \cup {NoJob}]
    BY <1>13, LoginMoves DEF Moves
  <2>2. blurred' \subseteq Nat
    BY <1>13, <1>b, InHand DEF Count, At
  <2> QED
    BY <1>13, <2>1, <2>2 DEF Count, TypeOK
<1>14. ASSUME NEW w \in Workers, Unlink(w) PROVE TypeOK'
  <2>1. job' \in [Workers -> Job \cup {NoJob}]
    BY <1>14, LoginMoves DEF Moves
  <2> QED
    BY <1>14, <2>1 DEF Unlink, TypeOK
<1>15. ASSUME NEW w \in Workers, Link(w) PROVE TypeOK'
  <2>1. job' \in [Workers -> Job \cup {NoJob}]
    BY <1>15, LoginMoves DEF Moves
  <2>2. job[w].uid \in Nat /\ job[w].what.of \in Clients
    BY <1>15, InHand DEF Link, At, Asks
  <2>3. session' \in [Clients -> Nat \cup {Absent}] /\ listed' \subseteq Clients
    BY <1>15, <2>2 DEF Link, TypeOK
  <2>4. DOMAIN enteredAs' = Clients
    BY <1>15 DEF Link, TypeOK
  <2>5. session[job[w].what.of] \in Nat
    <3>1. state[job[w].what.of] = "asked"
      BY <1>15 DEF Link, At, StateInv, JobState, JobFits, Before
    <3>2. session \in [Clients -> Nat \cup {Absent}]
      BY Zenon DEF TypeOK
    <3> QED
      BY <2>2, <3>1, <3>2 DEF StateInv, ClientState, ClientFits
  <2>6. blurred' \subseteq Nat
    <3>1. blurred \subseteq Nat
      BY Zenon DEF TypeOK
    <3> QED
      BY <1>15, <2>5, <3>1 DEF Link, Desert
  <2> QED
    BY <1>15, <2>1, <2>3, <2>4, <2>6, Zenon DEF Link, TypeOK
<1>16. ASSUME NEW w \in Workers, SendStatus(w) PROVE TypeOK'
  <2>1. job' \in [Workers -> Job \cup {NoJob}]
    BY <1>16, LoginMoves DEF Moves
  <2>2. job[w].what.of \in Clients
    BY <1>16, InHand DEF SendStatus, At, Asks
  <2>3. /\ status' \in [Clients -> {"none", "auth error", "registration error", "ok"}]
        /\ state' \in [Clients -> {"new", "asked", "granted", "in", "refused", "left"}]
    BY <1>16, <2>2, AnswersType DEF SendStatus
  <2> QED
    BY <1>16, <2>1, <2>3 DEF SendStatus, TypeOK
<1>17. ASSUME NEW w \in Workers, AnnounceLogin(w) PROVE TypeOK'
  <2>1. job' \in [Workers -> Job \cup {NoJob}]
    BY <1>17, LoginMoves DEF Ends
  <2>2. busy' \in [Clients -> BOOLEAN]
    BY <1>17, <1>d DEF AnnounceLogin, At
  <2>3. controllerQ' \in Seq(Event)
    BY <1>17, <1>q, <1>t, NewEvents DEF AnnounceLogin, At
  <2> QED
    BY <1>17, <2>1, <2>2, <2>3 DEF AnnounceLogin, TypeOK
<1>18. ASSUME NEW c \in Clients, CountAtClose(c) PROVE TypeOK'
  <2>1. closing' \in Closing /\ session[c] \in Nat
    BY <1>18, ClosesAt
  <2>2. blurred' \subseteq Nat
    BY <1>18, <1>b, <2>1 DEF CountAtClose
  <2> QED
    BY <1>18, <2>1, <2>2 DEF CountAtClose, TypeOK
<1>19. ASSUME Drop PROVE TypeOK'
  <2>1. closing' \in Closing /\ closing.of \in Clients
    BY <1>19, Drops, ClosingParts
  <2>2. session' \in [Clients -> Nat \cup {Absent}] /\ listed' \subseteq Clients
    BY <1>19, <2>1 DEF Drop, TypeOK
  <2> QED
    BY <1>19, <2>1, <2>2 DEF Drop, TypeOK
<1>20. ASSUME AnnounceLogout PROVE TypeOK'
  <2>1. closing \in Closing
    BY <1>20 DEF AnnounceLogout, TypeOK
  <2>2. [kind |-> "out", uid |-> closing.uid] \in Event
    BY <2>1, ClosingParts DEF Event
  <2>3. controllerQ' \in Seq(Event)
    BY <1>20, <1>q, <1>t, <2>2 DEF AnnounceLogout
  <2> QED
    BY <1>20, <2>3 DEF AnnounceLogout, TypeOK
<1>21. ASSUME Store PROVE TypeOK'
  <2>1. messages' \subseteq Text
    <3>1. Head(controllerQ) \in Event
      BY <1>21, <1>q, <1>t DEF Store
    <3> QED
      BY <1>21, <3>1, EventParts DEF Store, TypeOK
  <2> QED
    BY <1>21, <2>1 DEF Store, TypeOK
<1>22. ASSUME Walk PROVE TypeOK'
  <2>1. workersQ' \in Seq(What)
    <3>1. PICK new \in Seq(What) : workersQ' = workersQ \o new
      BY <1>22, WalkAdds
    <3> QED
      BY <1>t, <3>1, Behind
  <2>2. controllerQ' \in Seq(Event) /\ news' \in Seq(Event)
    BY <1>22, <1>q, TypeFacts DEF Walk, StoredStamps
  <2> QED
    BY <1>22, <2>1, <2>2 DEF Walk, TypeOK
<1>23. ASSUME UNCHANGED vars PROVE TypeOK'
  BY <1>23 DEF vars, TypeOK
<1> QED
  BY <1>1, <1>2, <1>3, <1>4, <1>5, <1>6, <1>7, <1>8, <1>9, <1>10, <1>11, <1>12, <1>13, <1>14,
     <1>15, <1>16, <1>17, <1>18, <1>19, <1>20, <1>21, <1>22, <1>23
     DEF Next, Client, Worker, Listener, Controller

-----------------------------------------------------------------------------
(* A client has one request at a time. *)

\* A client that is not busy adds its only request.
LEMMA OneAsked ==
  ASSUME TypeOK, OneRequest, NEW c \in Clients, NEW j \in What, j.of = c, Asks(j), ~busy[c],
         busy' = [busy EXCEPT ![c] = TRUE], workersQ' = Append(workersQ, j), job' = job
  PROVE  OneRequest'
<1> DEFINE n == Len(workersQ)
<1>1. /\ n \in Nat /\ DOMAIN workersQ = 1..n /\ DOMAIN workersQ' = 1..(n + 1)
      /\ workersQ'[n + 1] = j /\ \A i \in 1..n : workersQ'[i] = workersQ[i]
  BY TypeFacts, AtEnd
<1> HIDE DEF n
<1>2. \A i \in DOMAIN workersQ' : i \in DOMAIN workersQ \/ i = n + 1
  BY <1>1
<1>3. \A i \in DOMAIN workersQ : workersQ[i] \in What /\ workersQ'[i] = workersQ[i]
  BY <1>1, TypeFacts
<1>4. \A i \in DOMAIN workersQ : Asks(workersQ[i]) => workersQ[i].of \in Clients \ {c}
  BY <1>3, WhatParts DEF OneRequest, QueuedOnce
<1>5. \A w \in Workers : ~Serves(w, c)
  BY DEF OneRequest, ServedOnce
<1>6. \A b \in Clients : busy[b] => busy'[b]
  BY DEF TypeOK
<1>7. busy'[c]
  BY DEF TypeOK
<1>8. QueuedOnce'
  <2> SUFFICES ASSUME NEW i \in DOMAIN workersQ', Asks(workersQ'[i])
               PROVE  /\ busy'[workersQ'[i].of]
                      /\ \A k \in DOMAIN workersQ' :
                           Asks(workersQ'[k]) /\ workersQ'[k].of = workersQ'[i].of => k = i
                      /\ \A w \in Workers : ~Serves(w, workersQ'[i].of)
    BY DEF QueuedOnce, Asks, Serves
  <2>1. CASE i = n + 1
    BY <1>1, <1>2, <1>3, <1>4, <1>5, <1>7, <2>1
  <2>2. CASE i \in DOMAIN workersQ
    BY <1>1, <1>2, <1>3, <1>4, <1>6, <2>2 DEF OneRequest, QueuedOnce
  <2> QED
    BY <1>2, <2>1, <2>2
<1>9. ServedOnce'
  BY <1>6 DEF OneRequest, ServedOnce, Serves, Asks
<1> QED
  BY <1>8, <1>9 DEF OneRequest

\* A request that leaves the queue has one worker.
LEMMA OneTaken ==
  ASSUME TypeOK, OneRequest, NEW w \in Workers, Pop(w)
  PROVE  OneRequest'
<1>1. /\ Takes(w) /\ workersQ # << >> /\ workersQ' = Tail(workersQ) /\ Head(workersQ) \in What
      /\ busy' = busy
  BY TakesJob DEF Pop, clientVars
<1>2. /\ Head(workersQ) = workersQ[1] /\ 1 \in DOMAIN workersQ
      /\ \A i \in DOMAIN workersQ' : i + 1 \in DOMAIN workersQ /\ workersQ'[i] = workersQ[i + 1]
      /\ \A i, k \in DOMAIN workersQ' : i + 1 # 1 /\ (i + 1 = k + 1 => i = k)
  BY <1>1, TypeFacts, AtFront
<1>3. \A i \in DOMAIN workersQ : Asks(workersQ[i]) =>
        /\ busy[workersQ[i].of]
        /\ \A k \in DOMAIN workersQ :
             Asks(workersQ[k]) /\ workersQ[k].of = workersQ[i].of => k = i
        /\ \A v \in Workers : ~Serves(v, workersQ[i].of)
  BY DEF OneRequest, QueuedOnce
<1>4. \A v \in Workers, c \in Clients : Serves(v, c)' <=>
        \/ v # w /\ Serves(v, c)
        \/ v = w /\ Asks(workersQ[1]) /\ workersQ[1].of = c
  BY <1>1, <1>2 DEF Takes, Serves, Asks
<1>5. \A v \in Workers, c \in Clients : Serves(v, c) => busy[c] /\ \A x \in Workers : Serves(x, c) => x = v
  BY DEF OneRequest, ServedOnce
<1>6. QueuedOnce'
  <2> SUFFICES ASSUME NEW i \in DOMAIN workersQ', Asks(workersQ'[i])
               PROVE  /\ busy[workersQ'[i].of]
                      /\ \A k \in DOMAIN workersQ' :
                           Asks(workersQ'[k]) /\ workersQ'[k].of = workersQ'[i].of => k = i
                      /\ \A v \in Workers :
                           ~(job'[v] # NoJob /\ Asks(job'[v].what) /\ job'[v].what.of = workersQ'[i].of)
    BY <1>1 DEF QueuedOnce, Asks, Serves
  <2>1. i + 1 \in DOMAIN workersQ /\ workersQ'[i] = workersQ[i + 1] /\ i + 1 # 1
    BY <1>2
  <2>2. \A k \in DOMAIN workersQ' :
          Asks(workersQ'[k]) /\ workersQ'[k].of = workersQ'[i].of => k = i
    BY <1>2, <1>3, <2>1
  <2>3. \A v \in Workers : v # w =>
           ~(job'[v] # NoJob /\ Asks(job'[v].what) /\ job'[v].what.of = workersQ'[i].of)
    BY <1>1, <1>3, <2>1 DEF Takes, Serves
  <2>4. ~(Asks(job'[w].what) /\ job'[w].what.of = workersQ'[i].of)
    BY <1>1, <1>2, <1>3, <2>1 DEF Takes
  <2> QED
    BY <1>3, <2>1, <2>2, <2>3, <2>4
<1>7. ServedOnce'
  <2> SUFFICES ASSUME NEW v \in Workers, NEW c \in Clients, Serves(v, c)'
               PROVE  busy[c] /\ \A x \in Workers : Serves(x, c)' => x = v
    BY <1>1 DEF ServedOnce, Serves, Asks
  <2> QED
    BY <1>2, <1>3, <1>4, <1>5
<1> QED
  BY <1>6, <1>7 DEF OneRequest

\* A worker that is done makes its client free.
LEMMA OneDone ==
  ASSUME TypeOK, OneRequest, NEW w \in Workers, Ends(w), UNCHANGED workersQ,
         \/ job[w].what.type = "send" /\ UNCHANGED busy
         \/ Asks(job[w].what) /\ busy' = [busy EXCEPT ![job[w].what.of] = FALSE]
  PROVE  OneRequest'
<1>1. /\ job[w] # NoJob /\ job'[w] = NoJob
      /\ \A v \in Workers : v # w => job'[v] = job[v]
      /\ Asks(job[w].what) => job[w].what.of \in Clients
  BY InHand DEF Ends
<1>2. \A c \in Clients : busy'[c] \/ Serves(w, c) \/ ~busy[c]
  BY <1>1 DEF TypeOK, Serves
<1>3. \A i \in DOMAIN workersQ : workersQ[i] \in What
  BY TypeFacts
<1>4. QueuedOnce'
  <2> SUFFICES ASSUME NEW i \in DOMAIN workersQ, Asks(workersQ[i])
               PROVE  /\ busy'[workersQ[i].of]
                      /\ \A v \in Workers :
                           ~(job'[v] # NoJob /\ Asks(job'[v].what) /\ job'[v].what.of = workersQ[i].of)
    BY DEF OneRequest, QueuedOnce, Asks, Serves
  <2>1. workersQ[i].of \in Clients
    BY <1>3, WhatParts
  <2> QED
    BY <1>1, <1>2, <2>1 DEF OneRequest, QueuedOnce, Serves
<1>5. ServedOnce'
  <2>1. \A v \in Workers, c \in Clients : Serves(v, c)' => v # w /\ Serves(v, c)
    BY <1>1 DEF Serves, Asks
  <2>2. \A v \in Workers, c \in Clients : Serves(v, c)' =>
          busy'[c] /\ \A x \in Workers : Serves(x, c)' => x = v
    BY <1>2, <2>1 DEF OneRequest, ServedOnce
  <2> QED
    BY <2>2 DEF ServedOnce, Serves, Asks
<1> QED
  BY <1>4, <1>5 DEF OneRequest

\* A step of a job leaves its client to it.
LEMMA OneMoved ==
  ASSUME OneRequest, NEW w \in Workers, Moves(w, job'[w].pc, job'[w].uid, job'[w].count, job'[w].stamp),
         UNCHANGED <<workersQ, busy>>
  PROVE  OneRequest'
<1>1. \A v \in Workers : /\ job'[v] # NoJob <=> job[v] # NoJob
                         /\ job'[v].what = job[v].what
  BY DEF Moves
<1> QED
  BY <1>1 DEF OneRequest, QueuedOnce, ServedOnce, Serves, Asks

\* A walk adds no request.
LEMMA OneWalked ==
  ASSUME TypeOK, OneRequest, Walk
  PROVE  OneRequest'
<1>1. PICK new \in Seq(What) :
        workersQ' = workersQ \o new /\ \A i \in DOMAIN new : new[i].type = "send"
  BY WalkAdds
<1>2. \A i \in DOMAIN workersQ : workersQ'[i] = workersQ[i] /\ i \in DOMAIN workersQ'
  BY <1>1, TypeFacts, Behind
<1>3. \A i \in DOMAIN workersQ' : i \in DOMAIN workersQ \/ ~Asks(workersQ'[i])
  <2> SUFFICES ASSUME NEW i \in DOMAIN workersQ', i \notin DOMAIN workersQ
               PROVE  workersQ'[i].type = "send"
    BY DEF Asks
  <2>1. i - Len(workersQ) \in DOMAIN new /\ workersQ'[i] = new[i - Len(workersQ)]
    BY <1>1, TypeFacts, Behind
  <2> QED
    BY <1>1, <2>1
<1>4. job' = job /\ busy' = busy
  BY DEF Walk, clientVars
<1>5. QueuedOnce'
  BY <1>2, <1>3, <1>4 DEF OneRequest, QueuedOnce, Serves, Asks
<1>6. ServedOnce'
  BY <1>4 DEF OneRequest, ServedOnce, Serves, Asks
<1> QED
  BY <1>5, <1>6 DEF OneRequest

\* A step keeps the requests of a client apart.
LEMMA OneStep ==
  ASSUME TypeOK, RowsOK, OneRequest, [Next]_vars
  PROVE  OneRequest'
<1> USE DEF clientVars, mgrVars, seenVars, ghostVars
<1>m. ASSUME NEW w \in Workers, NEW p, NEW u, NEW n, NEW s, Moves(w, p, u, n, s),
             UNCHANGED <<workersQ, busy>>
      PROVE  OneRequest'
  <2>1. Moves(w, job'[w].pc, job'[w].uid, job'[w].count, job'[w].stamp)
    BY <1>m DEF Moves
  <2> QED
    BY <1>m, <2>1, OneMoved
<1>1. ASSUME NEW c \in Clients, Client(c) PROVE OneRequest'
  <2>1. CASE Leave(c)
    BY <2>1 DEF Leave, OneRequest, QueuedOnce, ServedOnce, Serves, Asks
  <2>2. ASSUME NEW j \in What, j.of = c, Asks(j), Request(c, j) PROVE OneRequest'
    BY <2>2, OneAsked DEF Request
  <2>3. CASE AskToLogIn(c) \/ AskForHistory(c)
    BY <2>2, <2>3, NewWork DEF AskToLogIn, AskForHistory, Asks
  <2>4. CASE Say(c)
    <3>1. texts[c] + 1 \in Nat
      <4>1. texts[c] \in Nat
        BY DEF TypeOK
      <4> QED
        BY <4>1
    <3> QED
      BY <2>2, <2>4, <3>1, NewWork DEF Say, Asks
  <2> QED
    BY <1>1, <2>1, <2>3, <2>4 DEF Client
<1>2. ASSUME NEW w \in Workers, Worker(w) PROVE OneRequest'
  <2>1. CASE Pop(w)
    BY <2>1, OneTaken
  <2>2. CASE Deliver(w)
    BY <2>2, OtherMoves, OneDone DEF Deliver, At
  <2>3. CASE BrowseHistory(w) \/ SendText(w)
    BY <2>3, OtherMoves, OneDone DEF BrowseHistory, SendText, At, Done, Asks
  <2>4. CASE StampText(w)
    BY <2>4, <1>m, OtherMoves DEF StampText
  <2>5. CASE Select(w)
    <3>1. CASE Refuse(w) /\ Ends(w)
      BY <2>5, <3>1, OneDone DEF Select, At, Refuse, Done, Asks
    <3>2. CASE Register(w) /\ Moves(w, "max", job[w].uid, job[w].count, job[w].stamp)
      BY <2>5, <3>2, <1>m DEF Select, Register
    <3>3. CASE \E u \in Nat : Moves(w, "count", u, job[w].count, job[w].stamp) /\ UNCHANGED busy
      BY <2>5, <3>3, <1>m DEF Select
    <3> QED
      BY <2>5, <3>1, <3>2, <3>3, Selects
  <2>6. CASE SelectMax(w)
    BY <2>6, <1>m, SelectsMax DEF SelectMax
  <2>7. CASE Insert(w)
    <3>1. CASE Done(w) /\ Ends(w)
      BY <2>7, <3>1, OneDone DEF Insert, At, Done, Asks
    <3>2. CASE Moves(w, "count", job[w].uid, job[w].count, job[w].stamp) /\ UNCHANGED busy
      BY <2>7, <3>2, <1>m DEF Insert
    <3> QED
      BY <2>7, <3>1, <3>2, Inserts
  <2>8. CASE Count(w) \/ Unlink(w) \/ Link(w)
    BY <2>8, <1>m, LoginMoves DEF Count, Unlink, Link
  <2>9. CASE SendStatus(w)
    BY <2>9, <1>m, LoginMoves DEF SendStatus
  <2>10. CASE AnnounceLogin(w)
    BY <2>10, LoginMoves, OneDone DEF AnnounceLogin, At, Done, Asks
  <2> QED
    BY <1>2, <2>1, <2>2, <2>3, <2>4, <2>5, <2>6, <2>7, <2>8, <2>9, <2>10 DEF Worker
<1>3. CASE Walk
  BY <1>3, OneWalked
<1>4. CASE UNCHANGED <<workersQ, job, busy>>
  BY <1>4 DEF OneRequest, QueuedOnce, ServedOnce, Serves, Asks
<1>5. CASE Listener \/ Store \/ UNCHANGED vars
  BY <1>4, <1>5 DEF Listener, Drop, AnnounceLogout, CountAtClose, Store, vars
<1> QED
  BY <1>1, <1>2, <1>3, <1>5 DEF Next, Controller

-----------------------------------------------------------------------------
(* How far the requests of a client are. *)

\* A worker that does something changes its job.
LEMMA WorkerActs ==
  ASSUME TypeOK, RowsOK, NEW w \in Workers, Worker(w)
  PROVE  /\ job'[w] # job[w]
         /\ \A v \in Workers : v # w => job'[v] = job[v]
<1>a. \A p : At(w, "login", p) => job[w].pc = p
  BY DEF At
<1>1. CASE Pop(w)
  BY <1>1, TakesJob DEF Takes
<1>2. CASE Deliver(w) \/ BrowseHistory(w) \/ SendText(w)
  BY <1>2, OtherMoves DEF Ends
<1>3. CASE StampText(w)
  BY <1>3, OtherMoves DEF Moves, StampText, At
<1>4. CASE Select(w)
  <2>1. job[w].pc = "start"
    BY <1>4 DEF Select, At
  <2>2. Ends(w) \/ \E p \in {"max", "count"}, u, n, s \in Nat : Moves(w, p, u, n, s)
    BY <1>4, Selects, InHand DEF Select, At
  <2> QED
    BY <2>1, <2>2 DEF Ends, Moves
<1>5. CASE SelectMax(w)
  BY <1>5, SelectsMax DEF Moves, SelectMax, At
<1>6. CASE Insert(w)
  BY <1>6, Inserts DEF Moves, Ends, Insert, At
<1>7. CASE Count(w) \/ Unlink(w) \/ Link(w)
  BY <1>7, LoginMoves DEF Moves, Count, Unlink, Link, At
<1>8. CASE SendStatus(w) \/ AnnounceLogin(w)
  BY <1>8, LoginMoves DEF Moves, Ends, SendStatus, At
<1> QED
  BY <1>1, <1>2, <1>3, <1>4, <1>5, <1>6, <1>7, <1>8 DEF Worker

\* The answer to a login.
LEMMA Answers ==
  ASSUME TypeOK, NEW c \in Clients, NEW s, Answer(c, s)
  PROVE  /\ status'[c] = s
         /\ state'[c] = IF s = "ok" THEN "granted" ELSE IF session[c] = NullUid THEN "refused" ELSE "in"
         /\ \A b \in Clients : b # c => status'[b] = status[b] /\ state'[b] = state[b]
BY DEF TypeOK, Answer

\* The state of a client whose request waits changes only when it leaves, and
\* its session does not.
LEMMA Untouched ==
  ASSUME TypeOK, RowsOK, OneRequest, StateInv, [Next]_vars, NEW c \in Clients, busy[c],
         \A w \in Workers : Serves(w, c) => job'[w] = job[w]
  PROVE  /\ session'[c] = session[c]
         /\ state'[c] = state[c] \/ (state'[c] = "left" /\ state[c] # "asked")
<1> USE DEF clientVars, mgrVars, seenVars, ghostVars
<1>1. ASSUME NEW b \in Clients, Client(b) PROVE session'[c] = session[c] /\
             (state'[c] = state[c] \/ (state'[c] = "left" /\ state[c] # "asked"))
  <2>1. CASE Leave(b)
    BY <2>1 DEF Leave, TypeOK
  <2>2. CASE AskToLogIn(b) \/ AskForHistory(b) \/ Say(b)
    <3>1. b # c
      BY <2>2 DEF AskToLogIn, AskForHistory, Say, Request
    <3> QED
      BY <2>2, <3>1 DEF AskToLogIn, AskForHistory, Say, Request, TypeOK
  <2> QED
    BY <1>1, <2>1, <2>2 DEF Client
<1>2. ASSUME NEW w \in Workers, Worker(w) PROVE session'[c] = session[c] /\ state'[c] = state[c]
  <2>1. ~Serves(w, c)
    BY <1>2, WorkerActs
  <2>2. CASE UNCHANGED <<session, state>>
    BY <2>2
  <2>3. CASE /\ job[w] # NoJob /\ Asks(job[w].what)
             /\ \/ UNCHANGED session /\ \E s : Answer(job[w].what.of, s)
                \/ UNCHANGED state /\ session' = [session EXCEPT ![job[w].what.of] = job[w].uid]
    <3>1. job[w].what.of \in Clients /\ job[w].what.of # c
      BY <2>1, <2>3, InHand DEF Serves
    <3>2. CASE UNCHANGED session /\ \E s : Answer(job[w].what.of, s)
      BY <3>1, <3>2, Answers
    <3>3. CASE UNCHANGED state /\ session' = [session EXCEPT ![job[w].what.of] = job[w].uid]
      BY <3>1, <3>3 DEF TypeOK
    <3> QED
      BY <2>3, <3>2, <3>3
  <2>4. CASE Pop(w) \/ Deliver(w) \/ BrowseHistory(w) \/ SendText(w) \/ StampText(w)
             \/ SelectMax(w) \/ Count(w) \/ Unlink(w) \/ AnnounceLogin(w)
    BY <2>2, <2>4 DEF Pop, Deliver, BrowseHistory, SendText, StampText, SelectMax, Count, Unlink,
                      AnnounceLogin
  <2>5. CASE Select(w)
    BY <2>2, <2>3, <2>5 DEF Select, At, Asks, Refuse, Register
  <2>6. CASE Insert(w)
    BY <2>2, <2>3, <2>6 DEF Insert, At, Asks
  <2>7. CASE Link(w) \/ SendStatus(w)
    BY <2>2, <2>3, <2>7 DEF Link, SendStatus, At, Asks
  <2> QED
    BY <1>2, <2>4, <2>5, <2>6, <2>7 DEF Worker
<1>3. CASE Drop
  <2>1. closing.of # c
    BY <1>3 DEF Drop, StateInv, CloseState
  <2> QED
    BY <1>3, <2>1 DEF Drop, TypeOK
<1>4. CASE AnnounceLogout \/ (\E b \in Clients : CountAtClose(b)) \/ Controller \/ UNCHANGED vars
  BY <1>4 DEF AnnounceLogout, CountAtClose, Controller, Store, Walk, vars
<1> QED
  BY <1>1, <1>2, <1>3, <1>4 DEF Next, Listener

\* What is in the queue after a step.
LEMMA QueueSteps ==
  ASSUME TypeOK, [Next]_vars, NEW i \in DOMAIN workersQ'
  PROVE  \/ \E k \in DOMAIN workersQ : workersQ'[i] = workersQ[k]
         \/ workersQ'[i].type \in {"text", "send"}
         \/ \E c \in Clients : /\ workersQ'[i] = [type |-> "login", of |-> c]
                               /\ AskToLogIn(c)
         \/ \E c \in Clients : /\ workersQ'[i] = [type |-> "history", of |-> c]
                               /\ AskForHistory(c)
<1> USE DEF clientVars, mgrVars, seenVars, ghostVars
<1>1. ASSUME NEW c \in Clients, Client(c), NEW j \in What, Request(c, j)
      PROVE  workersQ'[i] = j \/ \E k \in DOMAIN workersQ : workersQ'[i] = workersQ[k]
  <2>1. /\ workersQ' = Append(workersQ, j)
        /\ Len(workersQ) \in Nat /\ DOMAIN workersQ = 1..Len(workersQ)
        /\ DOMAIN Append(workersQ, j) = 1..(Len(workersQ) + 1)
        /\ Append(workersQ, j)[Len(workersQ) + 1] = j
        /\ \A k \in DOMAIN workersQ : Append(workersQ, j)[k] = workersQ[k]
    BY <1>1, TypeFacts, AtEnd DEF Request
  <2>2. i \in DOMAIN workersQ \/ i = Len(workersQ) + 1
    BY <2>1
  <2> QED
    BY <2>1, <2>2
<1>2. ASSUME NEW c \in Clients, Say(c)
      PROVE  \/ workersQ'[i].type = "text"
             \/ \E k \in DOMAIN workersQ : workersQ'[i] = workersQ[k]
  <2>1. texts[c] + 1 \in Nat
    <3>1. texts[c] \in Nat
      BY DEF TypeOK
    <3> QED
      BY <3>1
  <2> DEFINE j == [type |-> "text", of |-> c, n |-> texts[c] + 1]
  <2>2. j \in What /\ j.type = "text"
    BY <2>1, NewWork
  <2>3. Request(c, j) /\ Client(c)
    BY <1>2 DEF Say, Client
  <2> HIDE DEF j
  <2> QED
    BY <1>1, <2>2, <2>3
<1>3. ASSUME NEW w \in Workers, Pop(w)
      PROVE  \E k \in DOMAIN workersQ : workersQ'[i] = workersQ[k]
  <2>1. workersQ # << >> /\ workersQ' = Tail(workersQ)
    BY <1>3 DEF Pop
  <2>2. i + 1 \in DOMAIN workersQ /\ workersQ'[i] = workersQ[i + 1]
    BY <2>1, TypeFacts, AtFront
  <2> QED
    BY <2>2
<1>4. ASSUME Walk
      PROVE  \/ workersQ'[i].type = "send"
             \/ \E k \in DOMAIN workersQ : workersQ'[i] = workersQ[k]
  <2>1. PICK new \in Seq(What) :
          workersQ' = workersQ \o new /\ \A k \in DOMAIN new : new[k].type = "send"
    BY <1>4, WalkAdds
  <2>2. CASE i \in DOMAIN workersQ
    BY <2>1, <2>2, TypeFacts, Behind
  <2>3. CASE i \notin DOMAIN workersQ
    <3>1. i - Len(workersQ) \in DOMAIN new /\ workersQ'[i] = new[i - Len(workersQ)]
      BY <2>1, <2>3, TypeFacts, Behind
    <3> QED
      BY <2>1, <3>1
  <2> QED
    BY <2>2, <2>3
<1>5. CASE UNCHANGED workersQ
  BY <1>5
<1>6. ASSUME NEW c \in Clients, AskToLogIn(c)
      PROVE  \/ workersQ'[i] = [type |-> "login", of |-> c]
             \/ \E k \in DOMAIN workersQ : workersQ'[i] = workersQ[k]
  BY <1>1, <1>6, NewWork DEF AskToLogIn, Client
<1>7. ASSUME NEW c \in Clients, AskForHistory(c)
      PROVE  \/ workersQ'[i] = [type |-> "history", of |-> c]
             \/ \E k \in DOMAIN workersQ : workersQ'[i] = workersQ[k]
  BY <1>1, <1>7, NewWork DEF AskForHistory, Client
<1>8. ASSUME NEW w \in Workers, Worker(w), ~Pop(w) PROVE UNCHANGED workersQ
  BY <1>8 DEF Worker, Deliver, BrowseHistory, StampText, SendText, Select, SelectMax, Insert,
              Count, Unlink, Link, SendStatus, AnnounceLogin
<1>9. ASSUME Listener \/ Store \/ UNCHANGED vars \/ \E c \in Clients : Leave(c)
      PROVE  UNCHANGED workersQ
  BY <1>9 DEF Listener, Drop, AnnounceLogout, CountAtClose, Store, vars, Leave
<1> QED
  BY <1>2, <1>3, <1>4, <1>5, <1>6, <1>7, <1>8, <1>9 DEF Next, Client, Controller

\* A step keeps what the queued requests say of their clients.
LEMMA QueueStateStep ==
  ASSUME TypeOK, RowsOK, OneRequest, StateInv, [Next]_vars
  PROVE  QueueState'
<1> SUFFICES ASSUME NEW i \in DOMAIN workersQ'
             PROVE  /\ workersQ'[i].type = "login" => state'[workersQ'[i].of] = "asked"
                    /\ workersQ'[i].type = "history" => state'[workersQ'[i].of] \in {"in", "left"}
  BY DEF QueueState
<1>1. ASSUME NEW k \in DOMAIN workersQ, workersQ'[i] = workersQ[k], Asks(workersQ[k])
      PROVE  /\ workersQ'[i].type = "login" => state'[workersQ'[i].of] = "asked"
             /\ workersQ'[i].type = "history" => state'[workersQ'[i].of] \in {"in", "left"}
  <2> DEFINE c == workersQ[k].of
  <2>1. c \in Clients
    BY <1>1, TypeFacts, WhatParts
  <2>2. busy[c] /\ \A w \in Workers : ~Serves(w, c)
    BY <1>1 DEF OneRequest, QueuedOnce
  <2>3. /\ session'[c] = session[c]
        /\ state'[c] = state[c] \/ (state'[c] = "left" /\ state[c] # "asked")
    BY <2>1, <2>2, Untouched
  <2> QED
    BY <1>1, <2>3 DEF StateInv, QueueState
<1>2. ASSUME NEW c \in Clients, AskToLogIn(c) PROVE state'[c] = "asked"
  BY <1>2 DEF AskToLogIn, TypeOK
<1>3. ASSUME NEW c \in Clients, AskForHistory(c) PROVE state'[c] = "in"
  BY <1>3 DEF AskForHistory, TypeOK
<1> QED
  BY <1>1, <1>2, <1>3, QueueSteps DEF Asks

\* A step keeps what the jobs say of their clients.
LEMMA JobStateStep ==
  ASSUME TypeOK, RowsOK, OneRequest, StateInv, [Next]_vars
  PROVE  JobState'
<1> USE DEF clientVars, mgrVars, seenVars, ghostVars
<1>a. \A w \in Workers : JobFits(w)
  BY DEF StateInv, JobState, JobFits
<1>b. SUFFICES ASSUME NEW w \in Workers PROVE JobFits(w)'
  BY DEF JobState, JobFits
<1>1. CASE job'[w] = job[w]
  <2> SUFFICES ASSUME job[w] # NoJob, Asks(job[w].what) PROVE JobFits(w)'
    BY <1>1 DEF JobFits, Asks
  <2> DEFINE c == job[w].what.of
  <2>1. c \in Clients
    BY InHand
  <2>2. Serves(w, c)
    BY DEF Serves
  <2>3. busy[c] /\ \A v \in Workers : Serves(v, c) => job'[v] = job[v]
    BY <1>1, <2>1, <2>2 DEF OneRequest, ServedOnce
  <2>4. /\ session'[c] = session[c]
        /\ state'[c] = state[c] \/ (state'[c] = "left" /\ state[c] # "asked")
    BY <2>1, <2>3, Untouched
  <2> QED
    BY <1>1, <1>a, <2>4 DEF JobFits
<1>2. CASE Worker(w)
  <2>1. CASE Pop(w)
    <3>1. /\ job'[w] # NoJob /\ job'[w].what = workersQ[1] /\ job'[w].pc = "start"
          /\ 1 \in DOMAIN workersQ /\ UNCHANGED <<state, session>>
      <4>1. Takes(w) /\ workersQ # << >>
        BY <2>1, TakesJob
      <4> QED
        BY <2>1, <4>1, TypeFacts, AtFront DEF Takes, Pop
    <3> QED
      BY <3>1 DEF JobFits, StateInv, QueueState, Before
  <2>2. CASE Ends(w)
    BY <2>2 DEF Ends, JobFits
  <2>3. CASE /\ At(w, "login", job[w].pc)
             /\ job[w].pc \in Before
             /\ UNCHANGED <<state, session>>
             /\ \E p \in Before, u, n, s \in Nat : Moves(w, p, u, n, s)
    BY <1>a, <2>3 DEF JobFits, At, Moves, Before
  <2>4. CASE StampText(w)
    BY <2>4, OtherMoves DEF StampText, At, Moves, JobFits
  <2>5. CASE Select(w)
    BY <2>2, <2>3, <2>5, Selects, InHand DEF Select, At, Register, Before
  <2>6. CASE SelectMax(w)
    BY <2>3, <2>6, SelectsMax, InHand DEF SelectMax, At, Before
  <2>7. CASE Insert(w)
    BY <2>2, <2>3, <2>7, Inserts, InHand DEF Insert, At, Before
  <2>8. CASE Count(w) \/ Unlink(w)
    BY <2>3, <2>8, LoginMoves, InHand, SessionsType DEF Count, Unlink, At, Before
  <2>9. CASE Link(w)
    <3>1. /\ Moves(w, "status", job[w].uid, job[w].count, job[w].stamp)
          /\ job[w].what.of \in Clients /\ job[w].what.type = "login" /\ job[w].pc = "link"
      BY <2>9, LoginMoves, InHand DEF Link, At, Asks
    <3>2. state' = state /\ session'[job[w].what.of] = job[w].uid
      BY <2>9, <3>1 DEF Link, TypeOK
    <3> QED
      BY <1>a, <3>1, <3>2 DEF Moves, JobFits, Before
  <2>10. CASE SendStatus(w)
    <3>1. /\ Moves(w, "announce", job[w].uid, job[w].count, job[w].stamp)
          /\ job[w] # NoJob
          /\ job[w].what.of \in Clients /\ job[w].what.type = "login" /\ job[w].pc = "status"
      BY <2>10, LoginMoves, InHand DEF SendStatus, At, Asks
    <3>2. session' = session /\ state'[job[w].what.of] \in {"granted", "left"}
      BY <2>10, <3>1, Answers DEF SendStatus
    <3> QED
      BY <1>a, <3>1, <3>2 DEF Moves, JobFits, Before
  <2>11. CASE Deliver(w) \/ BrowseHistory(w) \/ SendText(w) \/ AnnounceLogin(w)
    BY <2>2, <2>11, OtherMoves, LoginMoves
  <2> QED
    BY <1>2, <2>1, <2>4, <2>5, <2>6, <2>7, <2>8, <2>9, <2>10, <2>11 DEF Worker
<1>3. ASSUME NEW v \in Workers, Worker(v), v # w PROVE job'[w] = job[w]
  BY <1>3, WorkerActs
<1>4. CASE UNCHANGED job
  BY <1>1, <1>4
<1>5. CASE (\E c \in Clients : Client(c)) \/ Listener \/ Controller \/ UNCHANGED vars
  BY <1>4, <1>5 DEF Client, AskToLogIn, AskForHistory, Say, Request, Leave, Listener, Drop,
                    AnnounceLogout, CountAtClose, Controller, Store, Walk, vars
<1> QED
  BY <1>1, <1>2, <1>3, <1>5 DEF Next

\* A step keeps what the listener knows of a connection that it closes.
LEMMA CloseStateStep ==
  ASSUME TypeOK, RowsOK, OneRequest, StateInv, [Next]_vars
  PROVE  CloseState'
<1> USE DEF clientVars, mgrVars, seenVars, ghostVars
<1>a. ASSUME closing # NoClose
      PROVE  /\ closing \in Closing /\ closing.of \in Clients
             /\ state[closing.of] = "left" /\ ~busy[closing.of]
             /\ session[closing.of] = IF closing.pc = "drop" THEN closing.uid ELSE Absent
             /\ \A w \in Workers : ~Serves(w, closing.of)
  BY <1>a, ClosingParts DEF TypeOK, StateInv, CloseState, OneRequest, ServedOnce
<1>1. CASE /\ closing' = closing
           /\ closing # NoClose => /\ state'[closing.of] = "left" /\ ~busy'[closing.of]
                                   /\ session'[closing.of] = session[closing.of]
  BY <1>a, <1>1 DEF CloseState
<1>2. ASSUME NEW c \in Clients, Client(c) PROVE CloseState'
  <2>1. CASE AskToLogIn(c) \/ AskForHistory(c) \/ Say(c)
    <3>1. closing # NoClose => closing.of # c
      BY <2>1, <1>a DEF AskToLogIn, AskForHistory, Say
    <3> QED
      BY <1>1, <1>a, <2>1, <3>1 DEF AskToLogIn, AskForHistory, Say, Request, TypeOK
  <2>2. CASE Leave(c)
    BY <1>1, <1>a, <2>2 DEF Leave, TypeOK
  <2> QED
    BY <1>2, <2>1, <2>2 DEF Client
<1>3. ASSUME NEW w \in Workers, Worker(w) PROVE CloseState'
  <2>1. closing' = closing
    BY <1>3 DEF Worker, Pop, Deliver, BrowseHistory, StampText, SendText, Select, SelectMax, Insert,
                Count, Unlink, Link, SendStatus, AnnounceLogin
  <2> SUFFICES ASSUME closing # NoClose PROVE CloseState'
    BY <1>1, <2>1
  <2> DEFINE c == closing.of
  <2>2. c \in Clients /\ state[c] = "left" /\ ~Serves(w, c)
    BY <1>a
  <2>3. job[w] # NoJob /\ Asks(job[w].what) => job[w].what.of \in Clients /\ job[w].what.of # c
    BY <2>2, InHand DEF Serves
  <2>4. busy'[c] <=> busy[c]
    <3>1. CASE UNCHANGED busy
      BY <3>1
    <3>2. CASE job[w] # NoJob /\ Asks(job[w].what) /\ Done(w)
      BY <2>2, <2>3, <3>2 DEF Done, TypeOK
    <3>3. CASE Pop(w) \/ Deliver(w) \/ StampText(w) \/ SelectMax(w) \/ Count(w) \/ Unlink(w)
               \/ Link(w) \/ SendStatus(w)
      BY <3>1, <3>3 DEF Pop, Deliver, StampText, SelectMax, Count, Unlink, Link, SendStatus
    <3>4. CASE BrowseHistory(w) \/ SendText(w) \/ AnnounceLogin(w)
      BY <3>2, <3>4 DEF BrowseHistory, SendText, AnnounceLogin, At, Asks
    <3>5. CASE Select(w)
      BY <3>1, <3>2, <3>5 DEF Select, At, Asks, Refuse, Register
    <3>6. CASE Insert(w)
      BY <3>1, <3>2, <3>6 DEF Insert, At, Asks
    <3> QED
      BY <1>3, <3>3, <3>4, <3>5, <3>6 DEF Worker
  <2>5. session'[c] = session[c]
    <3>1. CASE Link(w)
      BY <2>2, <2>3, <3>1 DEF Link, At, Asks, TypeOK
    <3>2. CASE UNCHANGED session
      BY <3>2
    <3> QED
      BY <1>3, <3>1, <3>2 DEF Worker, Pop, Deliver, BrowseHistory, StampText, SendText, Select,
                SelectMax, Insert, Count, Unlink, SendStatus, AnnounceLogin
  <2>6. state'[c] = "left"
    <3>1. CASE UNCHANGED state
      BY <2>2, <3>1
    <3>2. CASE job[w] # NoJob /\ Asks(job[w].what) /\ \E s : Answer(job[w].what.of, s)
      BY <2>2, <2>3, <3>2, Answers
    <3>3. CASE Pop(w) \/ Deliver(w) \/ StampText(w) \/ SelectMax(w) \/ Count(w) \/ Unlink(w)
               \/ Link(w) \/ BrowseHistory(w) \/ SendText(w) \/ AnnounceLogin(w)
      BY <3>1, <3>3 DEF Pop, Deliver, StampText, SelectMax, Count, Unlink, Link, BrowseHistory,
                        SendText, AnnounceLogin
    <3>4. CASE Select(w)
      BY <3>1, <3>2, <3>4 DEF Select, At, Asks, Refuse, Register
    <3>5. CASE Insert(w)
      BY <3>1, <3>2, <3>5 DEF Insert, At, Asks
    <3>6. CASE SendStatus(w)
      BY <3>2, <3>6 DEF SendStatus, At, Asks
    <3> QED
      BY <1>3, <3>3, <3>4, <3>5, <3>6 DEF Worker
  <2> QED
    BY <1>1, <1>a, <2>1, <2>4, <2>5, <2>6
<1>4. ASSUME NEW c \in Clients, CountAtClose(c) PROVE CloseState'
  BY <1>4, ClosesAt DEF CountAtClose, CloseState
<1>5. CASE Drop
  <2>1. /\ closing'.pc = "announce" /\ closing'.of = closing.of
        /\ closing \in Closing /\ closing.of \in Clients
    BY <1>5, Drops, ClosingParts
  <2>2. session'[closing.of] = Absent /\ UNCHANGED <<state, busy>>
    BY <1>5, <2>1 DEF Drop, TypeOK
  <2> QED
    BY <1>5, <1>a, <2>1, <2>2 DEF Drop, CloseState
<1>6. CASE AnnounceLogout
  BY <1>6 DEF AnnounceLogout, CloseState
<1>7. CASE Controller \/ UNCHANGED vars
  BY <1>1, <1>7, <1>a DEF Controller, Store, Walk, vars
<1> QED
  BY <1>2, <1>3, <1>4, <1>5, <1>6, <1>7 DEF Next, Listener

\* A step keeps what the state of a client says of its other variables.
LEMMA ClientStateStep ==
  ASSUME TypeOK, RowsOK, JobRow, OneRequest, StateInv, [Next]_vars
  PROVE  ClientState'
<1> USE DEF clientVars, mgrVars, seenVars, ghostVars
<1>a. \A c \in Clients : ClientFits(c)
  BY DEF StateInv, ClientState, ClientFits
<1> SUFFICES ASSUME NEW c \in Clients PROVE ClientFits(c)'
  BY DEF ClientState, ClientFits
<1> DEFINE Linking == \E w \in Workers : LogsIn(w, {"link"}) /\ job[w].what.of = c
<1>b. Linking => state[c] = "asked"
  BY DEF StateInv, JobState, JobFits, LogsIn, Before
<1>c. CASE /\ UNCHANGED <<session, history>>
           /\ listed' = listed \/ c \in listed'
           /\ \/ UNCHANGED state
              \/ state'[c] = state[c]
              \/ state'[c] = "left"
           /\ Linking => Linking' \/ c \in listed'
  BY <1>a, <1>c DEF ClientFits
<1>d. ASSUME UNCHANGED job PROVE Linking' <=> Linking
  BY <1>d DEF LogsIn
<1>e. ASSUME NEW w \in Workers, ~LogsIn(w, {"link"}), \A v \in Workers : v # w => job'[v] = job[v]
      PROVE  Linking => Linking'
  BY <1>e DEF LogsIn
<1>1. ASSUME NEW b \in Clients, Client(b) PROVE ClientFits(c)'
  <2>1. CASE Leave(b)
    <3>1. state'[c] = state[c] \/ state'[c] = "left"
      BY <2>1 DEF Leave, TypeOK
    <3>2. UNCHANGED <<session, history, listed, job>>
      BY <2>1 DEF Leave
    <3> QED
      BY <1>c, <1>d, <3>1, <3>2
  <2>2. CASE Say(b)
    BY <1>c, <1>d, <2>2 DEF Say, Request
  <2>3. CASE AskToLogIn(b) \/ AskForHistory(b)
    <3>1. UNCHANGED <<session, listed, job>>
      BY <2>3 DEF AskToLogIn, AskForHistory, Request
    <3>2. CASE b # c
      <4>1. state'[c] = state[c] /\ history'[c] = history[c]
        BY <2>3, <3>2 DEF AskToLogIn, AskForHistory, TypeOK
      <4> QED
        BY <1>a, <1>d, <3>1, <4>1 DEF ClientFits
    <3>3. CASE b = c /\ AskToLogIn(b)
      <4>1. state[c] \in {"new", "refused", "in"} /\ state'[c] = "asked" /\ UNCHANGED history
        BY <3>3 DEF AskToLogIn, TypeOK
      <4> QED
        BY <1>a, <1>b, <3>1, <4>1 DEF ClientFits
    <3>4. CASE b = c /\ AskForHistory(b)
      <4>1. state[c] = "granted" /\ state'[c] = "in" /\ history'[c] = NotAnswered
        BY <3>4 DEF AskForHistory, TypeOK
      <4> QED
        BY <1>a, <1>b, <3>1, <4>1 DEF ClientFits
    <3> QED
      BY <2>3, <3>2, <3>3, <3>4
  <2> QED
    BY <1>1, <2>1, <2>2, <2>3 DEF Client
<1>2. ASSUME NEW w \in Workers, Worker(w) PROVE ClientFits(c)'
  <2>1. \A v \in Workers : v # w => job'[v] = job[v]
    BY <1>2, WorkerActs
  <2>2. CASE BrowseHistory(w)
    <3>1. /\ job[w].what.of \in Clients
          /\ state[job[w].what.of] \in {"in", "left"}
          /\ ~LogsIn(w, {"link"})
      BY <2>2, InHand DEF BrowseHistory, At, Asks, StateInv, JobState, JobFits, LogsIn
    <3>2. c # job[w].what.of => history'[c] = history[c]
      BY <2>2, <3>1 DEF BrowseHistory, TypeOK
    <3>3. UNCHANGED <<session, state, listed>>
      BY <2>2 DEF BrowseHistory
    <3> QED
      BY <1>a, <1>e, <2>1, <3>1, <3>2, <3>3 DEF ClientFits
  <2>3. CASE Pop(w) \/ Deliver(w) \/ StampText(w) \/ SendText(w) \/ SelectMax(w) \/ Count(w)
             \/ AnnounceLogin(w)
    <3>1. ~LogsIn(w, {"link"})
      BY <2>3 DEF Pop, Deliver, StampText, SendText, SelectMax, Count, AnnounceLogin, At, LogsIn
    <3>2. UNCHANGED <<session, history, state, listed>>
      BY <2>3 DEF Pop, Deliver, StampText, SendText, SelectMax, Count, AnnounceLogin
    <3> QED
      BY <1>c, <1>e, <2>1, <3>1, <3>2
  <2>4. ASSUME At(w, "login", job[w].pc), ~LogsIn(w, {"link"}),
               job[w].pc \in Before \cup {"status"}, NEW s \in {"ok", "auth error", "registration error"},
               Answer(job[w].what.of, s), UNCHANGED <<session, history, listed>>,
               s = "ok" => session[job[w].what.of] # NullUid
        PROVE  ClientFits(c)'
    <3>1. job[w].what.of \in Clients /\ state[job[w].what.of] = "asked"
      BY <2>4, InHand DEF At, Asks, StateInv, JobState, JobFits
    <3>2. CASE c # job[w].what.of
      <4>1. state'[c] = state[c]
        BY <2>4, <3>1, <3>2, Answers
      <4> QED
        BY <1>a, <1>e, <2>1, <2>4, <4>1 DEF ClientFits
    <3>3. CASE c = job[w].what.of
      <4>1. state'[c] = IF s = "ok" THEN "granted" ELSE IF session[c] = NullUid THEN "refused" ELSE "in"
        BY <2>4, <3>1, <3>3, Answers
      <4>2. s = "ok" => session[c] # NullUid
        BY <2>4, <3>3
      <4> QED
        BY <1>a, <1>e, <2>1, <2>4, <3>1, <3>3, <4>1, <4>2 DEF ClientFits
    <3> QED
      BY <3>2, <3>3
  <2>5. CASE Select(w)
    <3>1. At(w, "login", job[w].pc) /\ job[w].pc = "start" /\ ~LogsIn(w, {"link"})
      BY <2>5 DEF Select, At, LogsIn
    <3>2. UNCHANGED <<session, history, listed>>
      BY <2>5 DEF Select
    <3>3. CASE Refuse(w)
      BY <2>4, <3>1, <3>2, <3>3 DEF Refuse, Before
    <3>4. CASE Register(w)
      <4>1. UNCHANGED state
        BY <3>4 DEF Register
      <4> QED
        BY <1>c, <1>e, <2>1, <3>1, <3>2, <4>1
    <3>5. CASE UNCHANGED <<status, state, busy, crowded>>
      BY <1>c, <1>e, <2>1, <3>1, <3>2, <3>5
    <3> QED
      BY <2>5, <3>3, <3>4, <3>5 DEF Select
  <2>6. CASE Insert(w)
    <3>1. At(w, "login", job[w].pc) /\ job[w].pc = "insert" /\ ~LogsIn(w, {"link"})
      BY <2>6 DEF Insert, At, LogsIn
    <3>2. UNCHANGED <<session, history, listed>>
      BY <2>6 DEF Insert
    <3>3. CASE Answer(job[w].what.of, "registration error")
      BY <2>4, <3>1, <3>2, <3>3 DEF Before
    <3>4. CASE UNCHANGED <<status, state>>
      BY <1>c, <1>e, <2>1, <3>1, <3>2, <3>4
    <3> QED
      BY <2>6, <3>3, <3>4, Inserts
  <2>7. CASE SendStatus(w)
    <3>1. At(w, "login", job[w].pc) /\ job[w].pc = "status" /\ ~LogsIn(w, {"link"})
      BY <2>7 DEF SendStatus, At, LogsIn
    <3>2. session[job[w].what.of] # NullUid
      <4>1. session[job[w].what.of] = job[w].uid
        BY <2>7 DEF SendStatus, At, StateInv, JobState, JobFits
      <4>2. Row(job[w].uid, Given(w)) \in users
        BY <2>7 DEF SendStatus, At, LogsIn, JobRow
      <4> QED
        BY <4>1, <4>2 DEF Row, TypeOK, NullUid
    <3> QED
      BY <2>4, <2>7, <3>1, <3>2 DEF SendStatus
  <2>8. CASE Unlink(w)
    <3>1. Moves(w, "link", job[w].uid, job[w].count, job[w].stamp)
      BY <2>8, LoginMoves
    <3>2. ~LogsIn(w, {"link"}) /\ job[w].what.type = "login"
      BY <2>8 DEF Unlink, At, LogsIn
    <3>3. job[w].what.of = c => Linking'
      BY <3>1, <3>2 DEF Moves, LogsIn
    <3>4. /\ UNCHANGED <<session, history, state>>
          /\ listed' = listed \ {job[w].what.of}
      BY <2>8 DEF Unlink
    <3> QED
      BY <1>a, <1>e, <2>1, <3>2, <3>3, <3>4 DEF ClientFits
  <2>9. CASE Link(w)
    <3>1. job[w].what.of \in Clients /\ job[w].uid \in Nat /\ state[job[w].what.of] = "asked"
      BY <2>9, InHand DEF Link, At, Asks, StateInv, JobState, JobFits, Before
    <3>2. /\ UNCHANGED <<history, state>>
          /\ listed' = listed \cup {job[w].what.of}
      BY <2>9 DEF Link
    <3>3. CASE c = job[w].what.of
      <4>1. session'[c] = job[w].uid
        BY <2>9, <3>1, <3>3 DEF Link, TypeOK
      <4>2. Row(job[w].uid, Given(w)) \in users
        BY <2>9 DEF Link, At, LogsIn, JobRow
      <4>3. session'[c] \in Nat /\ session'[c] # NullUid
        BY <3>1, <4>1, <4>2 DEF Row, TypeOK, NullUid
      <4> QED
        BY <1>a, <3>1, <3>2, <3>3, <4>3, AbsentAssumption DEF ClientFits
    <3>4. CASE c # job[w].what.of
      <4>1. session'[c] = session[c]
        BY <2>9, <3>1, <3>4 DEF Link, TypeOK
      <4>2. Linking => Linking'
        BY <2>1, <3>4 DEF LogsIn
      <4> QED
        BY <1>a, <3>2, <4>1, <4>2 DEF ClientFits
    <3> QED
      BY <3>3, <3>4
  <2> QED
    BY <1>2, <2>2, <2>3, <2>5, <2>6, <2>7, <2>8, <2>9 DEF Worker
<1>3. CASE Drop
  <2>1. closing.of \in Clients /\ state[closing.of] = "left"
    BY <1>3, Drops, ClosingParts DEF Drop, StateInv, CloseState
  <2>2. c # closing.of => session'[c] = session[c]
    BY <1>3, <2>1 DEF Drop, TypeOK
  <2>3. /\ UNCHANGED <<history, state, job>>
        /\ listed' = listed \ {closing.of}
    BY <1>3 DEF Drop
  <2> QED
    BY <1>a, <1>d, <2>1, <2>2, <2>3 DEF ClientFits
<1>4. CASE AnnounceLogout \/ (\E b \in Clients : CountAtClose(b)) \/ Controller \/ UNCHANGED vars
  BY <1>c, <1>d, <1>4 DEF AnnounceLogout, CountAtClose, Controller, Store, Walk, vars
<1> QED
  BY <1>1, <1>2, <1>3, <1>4 DEF Next, Listener

\* A step keeps all that is said of how far the requests are.
LEMMA StateStep ==
  ASSUME TypeOK, RowsOK, JobRow, OneRequest, StateInv, [Next]_vars
  PROVE  StateInv'
BY QueueStateStep, JobStateStep, ClientStateStep, CloseStateStep DEF StateInv

-----------------------------------------------------------------------------
(* The accounts, and who is in with them. *)

\* Accounts stay, and so does what a client asked for until it asks again.
LEMMA AccountsStay ==
  ASSUME TypeOK, RowsOK, StateInv, [Next]_vars
  PROVE  /\ users \subseteq users'
         /\ crowded \subseteq crowded'
         /\ \A c \in Clients : asked'[c] = asked[c] \/ (AskToLogIn(c) /\ ~busy[c])
         /\ UNCHANGED users \/ \E w \in Workers : Insert(w)
<1> USE DEF clientVars, mgrVars, seenVars, ghostVars
<1>1. ASSUME NEW b \in Clients, Client(b)
      PROVE  /\ UNCHANGED <<users, crowded>>
             /\ \A c \in Clients : asked'[c] = asked[c] \/ (AskToLogIn(c) /\ ~busy[c])
  <2>1. UNCHANGED <<users, crowded>>
    BY <1>1 DEF Client, AskToLogIn, AskForHistory, Say, Request, Leave
  <2>2. ASSUME NEW c \in Clients
        PROVE  asked'[c] = asked[c] \/ (AskToLogIn(c) /\ ~busy[c])
    <3>1. CASE AskToLogIn(b)
      BY <3>1 DEF AskToLogIn, Request, TypeOK
    <3>2. CASE AskForHistory(b) \/ Say(b) \/ Leave(b)
      BY <3>2 DEF AskForHistory, Say, Leave
    <3> QED
      BY <1>1, <3>1, <3>2 DEF Client
  <2> QED
    BY <2>1, <2>2
<1>2. ASSUME NEW w \in Workers, Worker(w), ~Insert(w)
      PROVE  UNCHANGED <<users, asked>> /\ crowded \subseteq crowded'
  <2>1. CASE Select(w)
    BY <2>1 DEF Select, Register, Refuse
  <2>2. CASE ~Select(w)
    BY <1>2, <2>2 DEF Worker, Pop, Deliver, BrowseHistory, StampText, SendText, SelectMax,
                Count, Unlink, Link, SendStatus, AnnounceLogin
  <2> QED
    BY <2>1, <2>2
<1>3. ASSUME NEW w \in Workers, Insert(w)
      PROVE  users \subseteq users' /\ UNCHANGED <<asked, crowded>>
  BY <1>3 DEF Insert
<1>4. CASE Listener \/ Controller \/ UNCHANGED vars
  BY <1>4 DEF Listener, Drop, AnnounceLogout, CountAtClose, Controller, Store, Walk, vars
<1> QED
  BY <1>1, <1>2, <1>3, <1>4 DEF Next

\* What a client whose request is handled asked for stays.
LEMMA AskedStays ==
  ASSUME TypeOK, RowsOK, OneRequest, StateInv, [Next]_vars, NEW c \in Clients, busy[c]
  PROVE  asked'[c] = asked[c]
BY AccountsStay

\* A step keeps one row for a uid.
LEMMA RowsStep ==
  ASSUME TypeOK, RowsOK, StateInv, [Next]_vars
  PROVE  RowsOK'
<1>1. CASE UNCHANGED users
  BY <1>1 DEF RowsOK
<1>2. ASSUME NEW w \in Workers, Insert(w), \A r \in users : r.uid # job[w].uid,
             users' = users \cup {Row(job[w].uid, Given(w))}
      PROVE  RowsOK'
  <2> DEFINE s == Row(job[w].uid, Given(w))
  <2>1. s.uid = job[w].uid /\ s = [uid |-> s.uid, login |-> s.login, password |-> s.password]
    BY DEF Row
  <2>2. IsFiniteSet(users') /\ users' # {}
    BY <1>2, FS_AddElement DEF RowsOK
  <2> HIDE DEF s
  <2>3. \A r \in users' : r = [uid |-> r.uid, login |-> r.login, password |-> r.password]
    BY <1>2, <2>1 DEF RowsOK, s
  <2>4. \A r \in users' : r \in users \/ r = s
    BY <1>2 DEF s
  <2>5. \A r, q \in users' : r.uid = q.uid => r = q
    BY <1>2, <2>1, <2>4 DEF RowsOK
  <2> QED
    BY <2>2, <2>3, <2>5 DEF RowsOK
<1> QED
  BY <1>1, <1>2, AccountsStay, Inserts

\* A step keeps the sessions with the accounts whose names and passwords gave them.
LEMMA SessionRowStep ==
  ASSUME TypeOK, OneRequest, StateInv, AccountInv, [Next]_vars
  PROVE  SessionRow'
<1> USE DEF clientVars, mgrVars, seenVars, ghostVars
<1> SUFFICES ASSUME NEW c \in Clients, session'[c] # NullUid, session'[c] # Absent
             PROVE  Row(session'[c], enteredAs'[c]) \in users'
  BY DEF SessionRow, Row
<1>1. RowsOK /\ SessionRow /\ JobRow
  BY DEF AccountInv
<1>2. users \subseteq users'
  BY <1>1, AccountsStay
<1>3. CASE session'[c] = session[c] /\ enteredAs'[c] = enteredAs[c]
  BY <1>1, <1>2, <1>3 DEF SessionRow
<1>4. ASSUME NEW w \in Workers, Link(w) PROVE Row(session'[c], enteredAs'[c]) \in users'
  <2>1. job[w].what.of \in Clients /\ LogsIn(w, {"count", "unlink", "link", "status", "announce"})
    BY <1>4, InHand DEF Link, At, Asks, LogsIn
  <2>2. CASE c = job[w].what.of
    <3>1. session'[c] = job[w].uid /\ enteredAs'[c] = Given(w)
      BY <1>4, <2>1, <2>2 DEF Link, TypeOK
    <3> QED
      BY <1>1, <1>2, <2>1, <2>2, <3>1 DEF JobRow
  <2>3. CASE c # job[w].what.of
    BY <1>3, <1>4, <2>1, <2>3 DEF Link, TypeOK
  <2> QED
    BY <2>2, <2>3
<1>5. CASE Drop
  <2>1. closing.of \in Clients
    BY <1>5, Drops, ClosingParts
  <2>2. c # closing.of /\ session'[c] = session[c] /\ UNCHANGED enteredAs
    BY <1>5, <2>1 DEF Drop, TypeOK
  <2> QED
    BY <1>3, <2>2
<1>6. CASE UNCHANGED <<session, enteredAs>>
  BY <1>3, <1>6
<1>7. UNCHANGED <<session, enteredAs>> \/ Drop \/ \E w \in Workers : Link(w)
  <2>1. ASSUME NEW b \in Clients, Client(b) PROVE UNCHANGED <<session, enteredAs>>
    BY <2>1 DEF Client, AskToLogIn, AskForHistory, Say, Request, Leave
  <2>2. ASSUME NEW w \in Workers, Worker(w) PROVE UNCHANGED <<session, enteredAs>> \/ Link(w)
    BY <2>2 DEF Worker, Pop, Deliver, BrowseHistory, StampText, SendText, Select, SelectMax,
       Insert, Count, Unlink, SendStatus, AnnounceLogin
  <2>3. CASE Listener
    BY <2>3 DEF Listener, AnnounceLogout, CountAtClose
  <2>4. CASE Controller
    BY <2>4 DEF Controller, Store, Walk
  <2>5. CASE UNCHANGED vars
    BY <2>5 DEF vars
  <2> QED
    BY <2>1, <2>2, <2>3, <2>4, <2>5 DEF Next
<1> QED
  BY <1>4, <1>5, <1>6, <1>7

\* The job of one worker: in keeping with the accounts.
LEMMA JobRowStep ==
  ASSUME TypeOK, OneRequest, StateInv, AccountInv, [Next]_vars
  PROVE  JobRow'
<1> USE DEF clientVars, mgrVars, seenVars, ghostVars
<1>1. RowsOK /\ JobRow
  BY DEF AccountInv
<1>2. users \subseteq users'
  BY <1>1, AccountsStay
<1> DEFINE Late == {"count", "unlink", "link", "status", "announce"}
<1> SUFFICES ASSUME NEW w \in Workers
             PROVE  /\ LogsIn(w, Late)' => Row(job'[w].uid, asked'[job'[w].what.of]) \in users'
                    /\ LogsIn(w, {"insert"})' => job'[w].uid >= 1
  BY DEF JobRow, LogsIn, Given, Row
<1>3. ASSUME LogsIn(w, Late \cup {"start", "max", "insert"}) PROVE asked'[job[w].what.of] = asked[job[w].what.of]
  <2>1. job[w].what.of \in Clients /\ Serves(w, job[w].what.of)
    BY <1>3, InHand DEF LogsIn, Serves, Asks
  <2>2. busy[job[w].what.of]
    BY <2>1 DEF OneRequest, ServedOnce
  <2> QED
    BY <1>1, <2>1, <2>2, AskedStays
<1>4. CASE job'[w] = job[w]
  <2>1. LogsIn(w, Late)' => LogsIn(w, Late)
    BY <1>4 DEF LogsIn
  <2>2. LogsIn(w, {"insert"})' => LogsIn(w, {"insert"})
    BY <1>4 DEF LogsIn
  <2>3. LogsIn(w, Late) => LogsIn(w, Late \cup {"start", "max", "insert"})
    BY DEF LogsIn
  <2> QED
    BY <1>1, <1>2, <1>3, <1>4, <2>1, <2>2, <2>3 DEF JobRow, Given
<1>5. CASE Worker(w)
  <2>1. CASE Ends(w) \/ Pop(w) \/ StampText(w)
    BY <2>1, TakesJob, OtherMoves DEF Ends, Takes, StampText, At, Moves, LogsIn
  <2>2. CASE /\ LogsIn(w, Late)
             /\ \E p \in Late, n, s \in Nat : Moves(w, p, job[w].uid, n, s)
    <3>1. job'[w].what = job[w].what /\ job'[w].uid = job[w].uid /\ ~LogsIn(w, {"insert"})'
      BY <2>2 DEF Moves, LogsIn
    <3>2. LogsIn(w, Late \cup {"start", "max", "insert"})
      BY <2>2 DEF LogsIn
    <3> QED
      BY <1>1, <1>2, <1>3, <2>2, <3>1, <3>2 DEF JobRow, Given
  <2>3. CASE Select(w)
    <3>1. LogsIn(w, Late \cup {"start", "max", "insert"}) /\ asked' = asked
      BY <2>3 DEF Select, At, LogsIn
    <3>2. CASE Moves(w, "max", job[w].uid, job[w].count, job[w].stamp)
      BY <3>2 DEF Moves, LogsIn
    <3>3. ASSUME NEW u \in Nat \ {0}, Row(u, Given(w)) \in users,
                 Moves(w, "count", u, job[w].count, job[w].stamp)
          PROVE  /\ Row(job'[w].uid, asked'[job'[w].what.of]) \in users'
                 /\ ~LogsIn(w, {"insert"})'
      BY <1>2, <3>1, <3>3 DEF Moves, Given, LogsIn
    <3> QED
      BY <1>1, <2>1, <2>3, <3>2, <3>3, Selects
  <2>4. CASE SelectMax(w)
    <3>1. PICK u \in Nat \ {0} : Moves(w, "insert", u, job[w].count, job[w].stamp)
      BY <1>1, <2>4, SelectsMax
    <3> QED
      BY <3>1 DEF Moves, LogsIn
  <2>5. CASE Insert(w)
    <3>1. CASE /\ users' = users \cup {Row(job[w].uid, Given(w))}
               /\ Moves(w, "count", job[w].uid, job[w].count, job[w].stamp)
      <4>1. asked' = asked
        BY <2>5 DEF Insert
      <4> QED
        BY <3>1, <4>1 DEF Moves, Given, LogsIn
    <3> QED
      BY <1>1, <2>1, <2>5, <3>1, Inserts
  <2>6. CASE Count(w) \/ Unlink(w) \/ Link(w) \/ SendStatus(w)
    <3>1. LogsIn(w, Late)
      BY <2>6 DEF Count, Unlink, Link, SendStatus, At, LogsIn
    <3> QED
      BY <2>2, <2>6, <3>1, LoginMoves, InHand, SessionsType DEF LogsIn
  <2>7. CASE Deliver(w) \/ BrowseHistory(w) \/ SendText(w) \/ AnnounceLogin(w)
    BY <2>1, <2>7, OtherMoves, LoginMoves
  <2> QED
    BY <1>5, <2>1, <2>3, <2>4, <2>5, <2>6, <2>7 DEF Worker
<1>6. ASSUME NEW v \in Workers, Worker(v), v # w PROVE job'[w] = job[w]
  BY <1>1, <1>6, WorkerActs
<1>7. CASE (\E c \in Clients : Client(c)) \/ Listener \/ Controller \/ UNCHANGED vars
  BY <1>4, <1>7 DEF Client, AskToLogIn, AskForHistory, Say, Request, Leave, Listener, Drop,
                    AnnounceLogout, CountAtClose, Controller, Store, Walk, vars
<1> QED
  BY <1>4, <1>5, <1>6, <1>7 DEF Next

\* A name that is registered while another is has been crowded from then on.
LEMMA RegistersAlone ==
  ASSUME NEW w \in Workers, Register(w), Given(w).login \notin crowded'
  PROVE  \A v \in Workers : ~LogsIn(v, {"max", "insert"})
<1> SUFFICES ASSUME NEW v \in Workers, LogsIn(v, {"max", "insert"}) PROVE FALSE
  OBVIOUS
<1>1. Given(v).login \in Registering
  BY DEF LogsIn, Registering
<1>2. Given(w).login \in crowded'
  BY <1>1 DEF Register
<1> QED
  BY <1>2

\* A login that comes to register when another does makes both names crowded.
LEMMA RegistersCrowds ==
  ASSUME NEW w \in Workers, Register(w), NEW v \in Workers, LogsIn(v, {"max", "insert"})
  PROVE  Given(v).login \in crowded'
<1>1. Given(v).login \in Registering
  BY DEF LogsIn, Registering
<1> QED
  BY <1>1 DEF Register

\* A worker that comes to register does so by Select and Register.
LEMMA ComesToRegister ==
  ASSUME TypeOK, RowsOK, NEW w \in Workers, Worker(w), LogsIn(w, {"max", "insert"})'
  PROVE  \/ /\ Select(w) /\ Register(w)
            /\ \A r \in users : r.login # Given(w).login
            /\ Moves(w, "max", job[w].uid, job[w].count, job[w].stamp)
         \/ /\ SelectMax(w) /\ LogsIn(w, {"max", "insert"})
            /\ \E u \in Nat : /\ \A r \in users : r.uid # u
                              /\ Moves(w, "insert", u, job[w].count, job[w].stamp)
<1>1. ~Ends(w) /\ ~Pop(w) /\ ~StampText(w)
  BY TakesJob, OtherMoves DEF Ends, Takes, StampText, At, Moves, LogsIn
<1>2. \A u, n, s : ~\E p \in {"count", "unlink", "link", "status", "announce"} : Moves(w, p, u, n, s)
  BY DEF Moves, LogsIn
<1>3. CASE Select(w)
  BY <1>1, <1>2, <1>3, Selects
<1>4. CASE SelectMax(w)
  <2>1. LogsIn(w, {"max", "insert"})
    BY <1>4 DEF SelectMax, At, LogsIn
  <2> QED
    BY <1>4, <2>1, SelectsMax
<1>5. ~Insert(w)
  BY <1>1, <1>2, Inserts
<1>6. ~(Count(w) \/ Unlink(w) \/ Link(w) \/ SendStatus(w))
  BY <1>2, LoginMoves
<1>7. ~(Deliver(w) \/ BrowseHistory(w) \/ SendText(w) \/ AnnounceLogin(w))
  BY <1>1, OtherMoves, LoginMoves
<1> QED
  BY <1>1, <1>3, <1>4, <1>5, <1>6, <1>7 DEF Worker

\* A step keeps what a login that registers alone knows of the accounts.
LEMMA AloneStep ==
  ASSUME TypeOK, OneRequest, StateInv, AccountInv, [Next]_vars
  PROVE  Alone'
<1> USE DEF clientVars, mgrVars, seenVars, ghostVars
<1>1. RowsOK /\ Alone
  BY DEF AccountInv
<1>2. crowded \subseteq crowded'
  BY <1>1, AccountsStay
<1> SUFFICES ASSUME NEW w \in Workers, LogsIn(w, {"max", "insert"})',
                    asked'[job'[w].what.of].login \notin crowded'
             PROVE  /\ \A r \in users' : r.login # asked'[job'[w].what.of].login
                    /\ job'[w].pc = "insert" => \A r \in users' : r.uid # job'[w].uid
                    /\ \A v \in Workers : LogsIn(v, {"max", "insert"})' => v = w
  BY DEF Alone, LogsIn, Given
<1>3. CASE job'[w] = job[w]
  <2> DEFINE c == job[w].what.of
  <2>1. LogsIn(w, {"max", "insert"})
    BY <1>3 DEF LogsIn
  <2>3. asked'[c] = asked[c]
    <3>1. c \in Clients /\ Serves(w, c)
      BY <2>1, InHand DEF LogsIn, Serves, Asks
    <3> QED
      BY <1>1, <3>1, AskedStays DEF OneRequest, ServedOnce
  <2>2. /\ \A r \in users : r.login # asked[c].login
        /\ job[w].pc = "insert" => \A r \in users : r.uid # job[w].uid
        /\ \A v \in Workers : LogsIn(v, {"max", "insert"}) => v = w
    <3>1. asked[c].login \notin crowded
      BY <1>2, <1>3, <2>3
    <3> QED
      BY <1>1, <2>1, <3>1 DEF Alone, Given
  <2>4. users' = users
    <3>1. \A v \in Workers : ~Insert(v)
      <4>1. ASSUME NEW v \in Workers, Insert(v) PROVE FALSE
        <5>1. v = w
          BY <2>2, <4>1 DEF Insert, At, LogsIn
        <5>2. Worker(w)
          BY <4>1, <5>1 DEF Worker
        <5> QED
          BY <1>1, <1>3, <5>2, WorkerActs
      <4> QED
        BY <4>1
    <3> QED
      BY <1>1, <3>1, AccountsStay
  <2>5. ASSUME NEW v \in Workers, LogsIn(v, {"max", "insert"})', v # w PROVE FALSE
    <3>1. ~LogsIn(v, {"max", "insert"})
      BY <2>2, <2>5
    <3>2. job'[v] # job[v]
      BY <2>5, <3>1 DEF LogsIn
    <3>3. Worker(v)
      BY <1>1, <3>2, WorkerActs
         DEF Next, Client, AskToLogIn, AskForHistory, Say, Request, Leave, Listener, Drop,
             AnnounceLogout, CountAtClose, Controller, Store, Walk, vars
    <3>4. Register(v)
      BY <1>1, <2>5, <3>1, <3>3, ComesToRegister
    <3>5. Given(w).login \in crowded'
      BY <2>1, <3>4, RegistersCrowds
    <3> QED
      BY <1>3, <2>3, <3>5 DEF Given
  <2> QED
    BY <1>3, <2>2, <2>3, <2>4, <2>5
<1>4. CASE Worker(w)
  <2>1. \A v \in Workers : v # w => job'[v] = job[v]
    BY <1>1, <1>4, WorkerActs
  <2>2. CASE /\ Select(w) /\ Register(w)
             /\ \A r \in users : r.login # Given(w).login
             /\ Moves(w, "max", job[w].uid, job[w].count, job[w].stamp)
    <3>1. job'[w].what = job[w].what /\ job'[w].pc = "max" /\ UNCHANGED <<users, asked>>
      BY <2>2 DEF Moves, Select
    <3>2. \A v \in Workers : ~LogsIn(v, {"max", "insert"})
      BY <2>2, <3>1, RegistersAlone DEF Given
    <3>3. \A v \in Workers : LogsIn(v, {"max", "insert"})' => v = w
      BY <2>1, <3>2 DEF LogsIn
    <3> QED
      BY <2>2, <3>1, <3>3 DEF Given
  <2>3. CASE /\ SelectMax(w) /\ LogsIn(w, {"max", "insert"})
             /\ \E u \in Nat : /\ \A r \in users : r.uid # u
                               /\ Moves(w, "insert", u, job[w].count, job[w].stamp)
    <3>1. /\ job'[w].what = job[w].what /\ UNCHANGED <<users, asked, crowded>>
          /\ \A r \in users : r.uid # job'[w].uid
      BY <2>3 DEF Moves, SelectMax
    <3>2. /\ \A r \in users : r.login # Given(w).login
          /\ \A v \in Workers : LogsIn(v, {"max", "insert"}) => v = w
      <4>1. Given(w).login \notin crowded
        BY <3>1 DEF Given
      <4> QED
        BY <1>1, <2>3, <4>1 DEF Alone
    <3>3. \A v \in Workers : LogsIn(v, {"max", "insert"})' => v = w
      BY <2>1, <3>2 DEF LogsIn
    <3> QED
      BY <3>1, <3>2, <3>3 DEF Given
  <2> QED
    BY <1>1, <1>4, <2>2, <2>3, ComesToRegister
<1>5. ASSUME NEW v \in Workers, Worker(v), v # w PROVE job'[w] = job[w]
  BY <1>1, <1>5, WorkerActs
<1>6. CASE (\E c \in Clients : Client(c)) \/ Listener \/ Controller \/ UNCHANGED vars
  BY <1>3, <1>6 DEF Client, AskToLogIn, AskForHistory, Say, Request, Leave, Listener, Drop,
                    AnnounceLogout, CountAtClose, Controller, Store, Walk, vars
<1> QED
  BY <1>3, <1>4, <1>5, <1>6 DEF Next

\* A step keeps the names apart, but for those of crowded registrations.
LEMMA NamesStep ==
  ASSUME TypeOK, OneRequest, StateInv, AccountInv, [Next]_vars
  PROVE  NamesUnique'
<1>1. RowsOK /\ Alone /\ NamesUnique
  BY DEF AccountInv
<1>2. crowded \subseteq crowded'
  BY <1>1, AccountsStay
<1>4. \A r, s \in users : r.login = s.login => r = s \/ r.login \in crowded'
  BY <1>1, <1>2 DEF NamesUnique
<1>5. CASE UNCHANGED users
  BY <1>4, <1>5 DEF NamesUnique
<1>6. ASSUME NEW w \in Workers, Insert(w), users' = users \cup {Row(job[w].uid, Given(w))}
      PROVE  NamesUnique'
  <2> DEFINE s == Row(job[w].uid, Given(w))
  <2>1. s.login = asked[job[w].what.of].login
    BY DEF Row, Given
  <2>2. LogsIn(w, {"max", "insert"})
    BY <1>6 DEF Insert, At, LogsIn
  <2> HIDE DEF s
  <2>3. \A r \in users : r.login = s.login => r.login \in crowded'
    BY <1>1, <1>2, <2>1, <2>2 DEF Alone, Given
  <2>4. \A r \in users' : r \in users \/ r = s
    BY <1>6 DEF s
  <2> QED
    BY <1>4, <2>3, <2>4 DEF NamesUnique
<1>7. ASSUME NEW w \in Workers, Insert(w)
      PROVE  UNCHANGED users \/ users' = users \cup {Row(job[w].uid, Given(w))}
  BY <1>7 DEF Insert
<1> QED
  BY <1>1, <1>5, <1>6, <1>7, AccountsStay

\* A step keeps the reasons for which logins were refused.
LEMMA RefusalStep ==
  ASSUME TypeOK, OneRequest, StateInv, AccountInv, [Next]_vars
  PROVE  HonestRefusal'
<1> USE DEF clientVars, mgrVars, seenVars, ghostVars
<1>1. RowsOK /\ Alone /\ HonestRefusal
  BY DEF AccountInv
<1>2. users \subseteq users' /\ crowded \subseteq crowded'
  BY <1>1, AccountsStay
<1> DEFINE Honest(c) ==
      state[c] # "asked" =>
        /\ status[c] = "auth error" =>
             \E r \in users : r.login = asked[c].login /\ r.password # asked[c].password
        /\ status[c] = "registration error" => asked[c].login \in crowded
<1> SUFFICES ASSUME NEW c \in Clients PROVE Honest(c)'
  BY DEF HonestRefusal
<1>3. CASE status'[c] = status[c] /\ (state[c] = "asked" => state'[c] = "asked")
  <2>1. asked'[c] = asked[c] \/ state'[c] = "asked"
    BY <1>1, AccountsStay DEF AskToLogIn, TypeOK
  <2>2. Honest(c)
    BY <1>1 DEF HonestRefusal
  <2> QED
    BY <1>2, <1>3, <2>1, <2>2
<1>4. ASSUME NEW w \in Workers, NEW s \in {"ok", "auth error", "registration error"},
             job[w] # NoJob, job[w].what.type = "login", Answer(job[w].what.of, s),
             asked' = asked,
             s = "auth error" => \E r \in users : r.login = Given(w).login /\ r.password # Given(w).password,
             s = "registration error" => Given(w).login \in crowded
      PROVE  Honest(c)'
  <2>1. job[w].what.of \in Clients
    BY <1>4, InHand DEF Asks
  <2>2. CASE c # job[w].what.of
    BY <1>3, <1>4, <2>1, <2>2, Answers
  <2>3. CASE c = job[w].what.of
    <3>1. status'[c] = s
      BY <1>4, <2>1, <2>3, Answers
    <3> QED
      BY <1>2, <1>4, <2>3, <3>1 DEF Given
  <2> QED
    BY <2>2, <2>3
<1>5. ASSUME NEW w \in Workers, Select(w) PROVE Honest(c)'
  <2>1. job[w] # NoJob /\ job[w].what.type = "login" /\ asked' = asked
    BY <1>5 DEF Select, At
  <2>2. CASE /\ \E r \in users : r.login = Given(w).login /\ r.password # Given(w).password
             /\ Refuse(w)
    BY <1>4, <2>1, <2>2 DEF Refuse
  <2>3. CASE UNCHANGED <<status, state>>
    BY <1>3, <2>3
  <2> QED
    BY <1>1, <1>5, <2>2, <2>3, Selects DEF Register
<1>6. ASSUME NEW w \in Workers, Insert(w) PROVE Honest(c)'
  <2>1. job[w] # NoJob /\ job[w].what.type = "login" /\ job[w].pc = "insert" /\ asked' = asked
    BY <1>6 DEF Insert, At
  <2>2. CASE \E r \in users : r.uid = job[w].uid
    <3>1. Given(w).login \in crowded
      BY <1>1, <2>1, <2>2 DEF Alone, LogsIn
    <3>2. Answer(job[w].what.of, "registration error")
      BY <1>6, <2>2 DEF Insert
    <3> QED
      BY <1>4, <2>1, <3>1, <3>2
  <2>3. CASE ~\E r \in users : r.uid = job[w].uid
    BY <1>3, <1>6, <2>3 DEF Insert
  <2> QED
    BY <2>2, <2>3
<1>7. ASSUME NEW w \in Workers, SendStatus(w) PROVE Honest(c)'
  BY <1>4, <1>7 DEF SendStatus, At
<1>8. ASSUME NEW b \in Clients, Client(b) PROVE Honest(c)'
  <2>1. UNCHANGED status /\ (state[c] = "asked" => state'[c] = "asked")
    BY <1>8 DEF Client, AskToLogIn, AskForHistory, Say, Request, Leave, TypeOK
  <2> QED
    BY <1>3, <2>1
<1>9. ASSUME UNCHANGED <<status, state>> PROVE Honest(c)'
  BY <1>3, <1>9
<1>10. \/ UNCHANGED <<status, state>>
       \/ \E b \in Clients : Client(b)
       \/ \E w \in Workers : Select(w) \/ Insert(w) \/ SendStatus(w)
  BY DEF Next, Worker, Pop, Deliver, BrowseHistory, StampText, SendText, SelectMax, Count, Unlink,
         Link, AnnounceLogin, Listener, Drop, AnnounceLogout, CountAtClose, Controller, Store,
         Walk, vars
<1> QED
  BY <1>5, <1>6, <1>7, <1>8, <1>9, <1>10

\* A step keeps the accounts and who is in with them in agreement.
LEMMA AccountStep ==
  ASSUME TypeOK, OneRequest, StateInv, AccountInv, [Next]_vars
  PROVE  AccountInv'
BY RowsStep, SessionRowStep, JobRowStep, AloneStep, NamesStep, RefusalStep DEF AccountInv

\* The parts of AccountInv say what AccountsAgree says.
LEMMA InvImpliesAgree ==
  ASSUME AccountInv
  PROVE  AccountsAgree
<1>1. ASSUME NEW c \in Clients, session[c] \notin {NullUid, Absent}, NEW r \in users,
             r.uid = session[c]
      PROVE  r.login = enteredAs[c].login
  <2> DEFINE s == Row(session[c], enteredAs[c])
  <2>1. s \in users
    BY <1>1 DEF AccountInv, SessionRow
  <2>2. s.uid = session[c] /\ s.login = enteredAs[c].login
    BY DEF Row
  <2> HIDE DEF s
  <2>3. r = s
    BY <1>1, <2>1, <2>2 DEF AccountInv, RowsOK
  <2> QED
    BY <2>2, <2>3
<1> QED
  BY <1>1 DEF AccountInv, SessionRow, AccountsAgree, RightAccount

-----------------------------------------------------------------------------
(* What is said of comings and goings. *)

\* Here and Alternates, of any feed.
HereIn(F, u, n) ==
    \E i \in DOMAIN F :
      /\ i <= n
      /\ F[i] = [kind |-> "in", uid |-> u]
      /\ \A j \in DOMAIN F : i < j /\ j <= n => F[j].kind = "text" \/ F[j].uid # u
AlternatesIn(F, u) ==
    \A i \in DOMAIN F :
      F[i].kind # "text" /\ F[i].uid = u =>
        F[i].kind = IF HereIn(F, u, i - 1) THEN "out" ELSE "in"

\* Event e is about user u.
About(e, u) == e.kind # "text" /\ e.uid = u

\* What one more event changes.
LEMMA SaysMore ==
  ASSUME NEW F \in Seq(Event), NEW e \in Event, NEW u \in Nat
  PROVE  LET G == Append(F, e) IN
         /\ ~About(e, u) => (HereIn(G, u, Len(G)) <=> HereIn(F, u, Len(F)))
         /\ About(e, u) => (HereIn(G, u, Len(G)) <=> e.kind = "in")
         /\ AlternatesIn(F, u) /\ (About(e, u) => e.kind = IF HereIn(F, u, Len(F)) THEN "out" ELSE "in")
              => AlternatesIn(G, u)
<1> DEFINE G == Append(F, e)
           n == Len(F)
<1>1. /\ n \in Nat /\ DOMAIN F = 1..n /\ DOMAIN G = 1..(n + 1) /\ Len(G) = n + 1
      /\ G[n + 1] = e /\ \A i \in 1..n : G[i] = F[i]
  BY AtEnd
<1>2. e.kind # "text" => e = [kind |-> e.kind, uid |-> e.uid] /\ e.kind \in {"in", "out"}
  BY EventParts
<1>3. e.kind = "text" => \A k : e # [kind |-> "in", uid |-> k]
  OBVIOUS
<1> HIDE DEF G, n
<1>4. \A i \in 1..(n + 1) : i \in 1..n \/ i = n + 1
  BY <1>1
<1>5. \A i \in 1..n : i \in 1..(n + 1) /\ i < n + 1 /\ i <= n + 1 /\ i <= n
  BY <1>1
<1>6. ~(n + 1 <= n) /\ n + 1 \in 1..(n + 1)
  BY <1>1
<1>7. ASSUME NEW m \in Nat, m <= n
      PROVE  HereIn(G, u, m) <=> HereIn(F, u, m)
  <2>1. ASSUME HereIn(F, u, m) PROVE HereIn(G, u, m)
    <3>1. PICK i \in 1..n : /\ i <= m /\ F[i] = [kind |-> "in", uid |-> u]
                            /\ \A j \in 1..n : i < j /\ j <= m => F[j].kind = "text" \/ F[j].uid # u
      BY <1>1, <2>1 DEF HereIn
    <3>2. \A j \in 1..(n + 1) : i < j /\ j <= m => G[j].kind = "text" \/ G[j].uid # u
      <4>1. ~(n + 1 <= m)
        BY <1>1, <1>7
      <4> QED
        BY <1>1, <1>4, <3>1, <4>1
    <3> QED
      BY <1>1, <1>5, <3>1, <3>2 DEF HereIn
  <2>2. ASSUME HereIn(G, u, m) PROVE HereIn(F, u, m)
    <3>1. PICK i \in 1..(n + 1) :
            /\ i <= m /\ G[i] = [kind |-> "in", uid |-> u]
            /\ \A j \in 1..(n + 1) : i < j /\ j <= m => G[j].kind = "text" \/ G[j].uid # u
      BY <1>1, <2>2 DEF HereIn
    <3>2. i \in 1..n
      BY <1>1, <1>7, <3>1
    <3> QED
      BY <1>1, <1>5, <3>1, <3>2 DEF HereIn
  <2> QED
    BY <2>1, <2>2
<1>8. ASSUME ~About(e, u) PROVE HereIn(G, u, n + 1) <=> HereIn(F, u, n)
  <2>1. ASSUME HereIn(F, u, n) PROVE HereIn(G, u, n + 1)
    <3>1. PICK i \in 1..n : /\ F[i] = [kind |-> "in", uid |-> u]
                            /\ \A j \in 1..n : i < j /\ j <= n => F[j].kind = "text" \/ F[j].uid # u
      BY <1>1, <2>1 DEF HereIn
    <3>2. \A j \in 1..(n + 1) : i < j => G[j].kind = "text" \/ G[j].uid # u
      BY <1>1, <1>4, <1>5, <1>8, <3>1 DEF About
    <3> QED
      BY <1>1, <1>5, <3>1, <3>2 DEF HereIn
  <2>2. ASSUME HereIn(G, u, n + 1) PROVE HereIn(F, u, n)
    <3>1. PICK i \in 1..(n + 1) :
            /\ G[i] = [kind |-> "in", uid |-> u]
            /\ \A j \in 1..(n + 1) : i < j /\ j <= n + 1 => G[j].kind = "text" \/ G[j].uid # u
      BY <1>1, <2>2 DEF HereIn
    <3>2. i # n + 1
      BY <1>1, <1>8, <3>1 DEF About
    <3>3. i \in 1..n
      BY <1>4, <3>2
    <3> QED
      BY <1>1, <1>5, <3>1, <3>3 DEF HereIn
  <2> QED
    BY <2>1, <2>2
<1>9. ASSUME About(e, u) PROVE HereIn(G, u, n + 1) <=> e.kind = "in"
  <2>1. ASSUME e.kind = "in" PROVE HereIn(G, u, n + 1)
    <3>1. G[n + 1] = [kind |-> "in", uid |-> u] /\ n + 1 <= n + 1
      BY <1>1, <1>2, <1>9, <2>1 DEF About
    <3>2. \A j \in 1..(n + 1) : ~(n + 1 < j)
      BY <1>1
    <3> QED
      BY <1>1, <1>6, <3>1, <3>2 DEF HereIn
  <2>2. ASSUME HereIn(G, u, n + 1) PROVE e.kind = "in"
    <3>1. PICK i \in 1..(n + 1) :
            /\ G[i] = [kind |-> "in", uid |-> u]
            /\ \A j \in 1..(n + 1) : i < j /\ j <= n + 1 => G[j].kind = "text" \/ G[j].uid # u
      BY <1>1, <2>2 DEF HereIn
    <3>2. i = n + 1
      <4> SUFFICES ASSUME i \in 1..n PROVE FALSE
        BY <1>4
      <4>1. i < n + 1 /\ n + 1 <= n + 1
        BY <1>1, <1>5
      <4> QED
        BY <1>1, <1>6, <1>9, <3>1, <4>1 DEF About
    <3> QED
      BY <1>1, <3>1, <3>2
  <2> QED
    BY <2>1, <2>2
<1>10. ASSUME AlternatesIn(F, u), About(e, u) => e.kind = IF HereIn(F, u, n) THEN "out" ELSE "in"
       PROVE  AlternatesIn(G, u)
  <2> SUFFICES ASSUME NEW i \in 1..(n + 1), About(G[i], u)
               PROVE  G[i].kind = IF HereIn(G, u, i - 1) THEN "out" ELSE "in"
    BY <1>1 DEF AlternatesIn, About
  <2>1. i - 1 \in Nat /\ i - 1 <= n
    BY <1>1
  <2>2. HereIn(G, u, i - 1) <=> HereIn(F, u, i - 1)
    BY <1>7, <2>1
  <2>3. CASE i \in 1..n
    BY <1>1, <1>10, <2>2, <2>3 DEF AlternatesIn, About
  <2>4. CASE i = n + 1
    <3>1. i - 1 = n
      BY <1>1, <2>4
    <3> QED
      BY <1>1, <1>10, <2>2, <2>4, <3>1
  <2> QED
    BY <1>4, <2>3, <2>4
<1> QED
  BY <1>1, <1>8, <1>9, <1>10 DEF G, n

\* The feed is a sequence of events.
LEMMA FeedType ==
  ASSUME TypeOK
  PROVE  Feed \in Seq(Event) /\ Len(Feed) \in Nat
<1>1. Feed \in Seq(Event)
  BY TypeFacts, Behind DEF Feed
<1> QED
  BY <1>1

\* What is queued for the controller joins the feed at its end.
LEMMA FeedGrows ==
  ASSUME TypeOK, NEW e \in Event, controllerQ' = Append(controllerQ, e), UNCHANGED news
  PROVE  Feed' = Append(Feed, e)
<1> DEFINE F == news \o controllerQ
           G == news \o Append(controllerQ, e)
<1>1. news \in Seq(Event) /\ controllerQ \in Seq(Event)
  BY TypeFacts
<1>2. G = Append(F, e)
  BY <1>1
<1> QED
  BY <1>2 DEF Feed

\* A walk moves an event within the feed.
LEMMA FeedWalks ==
  ASSUME TypeOK, Walk, controllerQ # << >>
  PROVE  Feed' = Feed
<1>1. news \in Seq(Event) /\ controllerQ \in Seq(Event)
  BY TypeFacts
<1>2. \A p, q \in Seq(Event) : q # << >> => Append(p, Head(q)) \o Tail(q) = p \o q
  OBVIOUS
<1> QED
  BY <1>1, <1>2 DEF Walk, Feed

\* A login of u that has read the number of its sessions, and one that has joined them.
First(v, u) == LogsIn(v, {"unlink", "link"}) /\ job[v].uid = u
Second(v, u) == LogsIn(v, {"status", "announce"}) /\ job[v].uid = u

\* The two halves of a login, and the feed as a parameter.
LEMMA ChangesForm ==
  ASSUME NEW u
  PROVE  /\ \A v \in Workers : Changes(v, u) <=> First(v, u) \/ Second(v, u)
         /\ \A v \in Workers : Second(v, u) => job[v].pc \notin {"unlink", "link"}
         /\ \A v \in Workers : First(v, u) => job[v].pc \in {"unlink", "link"}
         /\ Changing(u) <=> Closes(u) \/ \E v \in Workers : Changes(v, u)
         /\ Here(u, Len(Feed)) <=> HereIn(Feed, u, Len(Feed))
         /\ Alternates(u) <=> AlternatesIn(Feed, u)
BY DEF Changes, First, Second, LogsIn, Changing, Closes, Here, HereIn, Alternates, AlternatesIn

\* The same of the next state.
LEMMA ChangesFormNext ==
  ASSUME NEW u
  PROVE  /\ \A v \in Workers : Changes(v, u)' <=> First(v, u)' \/ Second(v, u)'
         /\ \A v \in Workers : Second(v, u)' => job'[v].pc \notin {"unlink", "link"}
         /\ \A v \in Workers : First(v, u)' => job'[v].pc \in {"unlink", "link"}
         /\ Changing(u)' <=> Closes(u)' \/ \E v \in Workers : Changes(v, u)'
         /\ Here(u, Len(Feed))' <=> HereIn(Feed', u, Len(Feed'))
         /\ Alternates(u)' <=> AlternatesIn(Feed', u)
BY DEF Changes, First, Second, LogsIn, Changing, Closes, Here, HereIn, Alternates, AlternatesIn

\* Steps that say nothing of user u.
FeedQuiet(u) ==
    /\ Here(u, Len(Feed))' <=> Here(u, Len(Feed))
    /\ Alternates(u) => Alternates(u)'

\* Steps that queue no event of user u.
LEMMA Quiet ==
  ASSUME TypeOK, StoredStamps, NEW u \in Nat,
         \/ UNCHANGED <<news, controllerQ>>
         \/ Walk
         \/ /\ UNCHANGED news
            /\ \E e \in Event : ~About(e, u) /\ controllerQ' = Append(controllerQ, e)
  PROVE  FeedQuiet(u)
<1>1. CASE Feed' = Feed
  BY <1>1, ChangesForm, ChangesFormNext DEF FeedQuiet
<1>2. CASE UNCHANGED <<news, controllerQ>>
  BY <1>1, <1>2 DEF Feed
<1>3. CASE Walk
  BY <1>1, <1>3, FeedWalks DEF Walk, StoredStamps
<1>4. ASSUME UNCHANGED news, NEW e \in Event, ~About(e, u), controllerQ' = Append(controllerQ, e)
      PROVE  FeedQuiet(u)
  <2>1. Feed' = Append(Feed, e)
    BY <1>4, FeedGrows
  <2> QED
    BY <1>4, <2>1, FeedType, SaysMore, ChangesForm, ChangesFormNext DEF FeedQuiet
<1> QED
  BY <1>2, <1>3, <1>4

\* Steps that announce what follows from the number of sessions.
LEMMA Announces ==
  ASSUME TypeOK, NEW u \in Nat, Alternates(u), NEW e \in Event, About(e, u),
         e.kind = IF Here(u, Len(Feed)) THEN "out" ELSE "in",
         controllerQ' = Append(controllerQ, e), UNCHANGED news
  PROVE  /\ Here(u, Len(Feed))' <=> e.kind = "in"
         /\ Alternates(u)'
<1>1. Feed' = Append(Feed, e)
  BY FeedGrows
<1> QED
  BY <1>1, FeedType, SaysMore, ChangesForm, ChangesFormNext

\* Steps in which user u neither comes nor goes.
LEMMA PresenceSame ==
  ASSUME NEW u, PresenceOf(u), FeedQuiet(u), Sessions(u)' = Sessions(u),
         \A v \in Workers : /\ First(v, u)' <=> First(v, u)
                            /\ Second(v, u)' <=> Second(v, u)
                            /\ First(v, u) \/ Second(v, u) => job'[v].count = job[v].count,
         Closes(u)' <=> Closes(u),
         Closes(u) => closing'.pc = closing.pc /\ closing'.count = closing.count
  PROVE  PresenceOf(u)'
<1>1. \A v \in Workers : Changes(v, u)' <=> Changes(v, u)
  BY ChangesForm, ChangesFormNext
<1>2. Changing(u)' <=> Changing(u)
  BY <1>1, ChangesForm, ChangesFormNext
<1>3. \A v \in Workers : Changes(v, u) =>
        /\ job'[v].count = job[v].count
        /\ job'[v].pc \in {"unlink", "link"} <=> job[v].pc \in {"unlink", "link"}
  BY ChangesForm, ChangesFormNext
<1>4. Alternates(u)' /\ (Here(u, Len(Feed))' <=> Here(u, Len(Feed)))
  BY DEF PresenceOf, FeedQuiet
<1>5. OneChange(u)'
  <2>1. \A v \in Workers : Changes(v, u)' =>
          ~Closes(u)' /\ \A w \in Workers : Changes(w, u)' => w = v
    BY <1>1 DEF PresenceOf, OneChange
  <2> QED
    BY <2>1 DEF OneChange, Changes, LogsIn, Closes
<1>6. LoginCounts(u)'
  <2>1. \A v \in Workers : Changes(v, u)' =>
          /\ IF job'[v].pc \in {"unlink", "link"} THEN Sessions(u)' = job'[v].count ELSE Sessions(u)' > 0
          /\ Here(u, Len(Feed))' <=> job'[v].count > 0
    BY <1>1, <1>3, <1>4 DEF PresenceOf, LoginCounts
  <2> QED
    BY <2>1 DEF LoginCounts, Changes, LogsIn
<1>7. CloseCounts(u)'
  BY <1>4 DEF PresenceOf, CloseCounts
<1>8. SettledCounts(u)'
  BY <1>2, <1>4 DEF PresenceOf, SettledCounts
<1> QED
  BY <1>4, <1>5, <1>6, <1>7, <1>8 DEF PresenceOf

\* A user with a session has one at least.
LEMMA SomeSession ==
  ASSUME NEW c \in Clients, NEW u, session[c] = u
  PROVE  Sessions(u) \in Nat /\ Sessions(u) > 0
<1>1. /\ {b \in Clients : session[b] = u} \in SUBSET Clients
      /\ {b \in Clients : session[b] = u} # {}
  OBVIOUS
<1>2. IsFiniteSet({b \in Clients : session[b] = u})
  BY <1>1, FiniteAssumption, FS_Subset
<1>3. Cardinality({b \in Clients : session[b] = u}) \in Nat \ {0}
  BY <1>1, <1>2, FS_CardinalityType, FS_EmptySet
<1> QED
  BY <1>3 DEF Sessions

\* A session is added to those of a user, or taken away.
LEMMA SessionsMove ==
  ASSUME TypeOK, NEW c \in Clients, NEW x, session' = [session EXCEPT ![c] = x], NEW u
  PROVE  /\ (x = u <=> session[c] = u) => Sessions(u)' = Sessions(u)
         /\ x = u /\ session[c] # u => Sessions(u)' = Sessions(u) + 1
         /\ x # u /\ session[c] = u => Sessions(u)' = Sessions(u) - 1 /\ Sessions(u) > 0
<1> DEFINE S == {b \in Clients : session[b] = u}
           T == {b \in Clients : session'[b] = u}
<1>1. session'[c] = x /\ \A b \in Clients : b # c => session'[b] = session[b]
  BY DEF TypeOK
<1>2. IsFiniteSet(S)
  <2>1. S \in SUBSET Clients
    OBVIOUS
  <2> QED
    BY <2>1, FiniteAssumption, FS_Subset
<1>3. Sessions(u) = Cardinality(S) /\ Sessions(u)' = Cardinality(T)
  BY DEF Sessions
<1>4. CASE x # u /\ session[c] # u
  <2>1. T = S
    BY <1>1, <1>4
  <2> QED
    BY <1>3, <1>4, <2>1
<1>5. CASE x = u /\ session[c] # u
  <2>1. T = S \cup {c} /\ c \notin S
    BY <1>1, <1>5
  <2> HIDE DEF S, T
  <2> QED
    BY <1>2, <1>3, <1>5, <2>1, FS_AddElement
<1>6. CASE x # u /\ session[c] = u
  <2>1. T = S \ {c} /\ c \in S
    BY <1>1, <1>6
  <2> HIDE DEF S, T
  <2>2. Cardinality(T) = Cardinality(S) - 1 /\ Cardinality(T) \in Nat /\ Cardinality(S) \in Nat
    BY <1>2, <2>1, FS_RemoveElement, FS_CardinalityType
  <2> QED
    BY <1>3, <1>6, <2>2
<1>7. CASE x = u /\ session[c] = u
  <2>1. T = S
    BY <1>1, <1>7
  <2> QED
    BY <1>3, <1>7, <2>1
<1> QED
  BY <1>4, <1>5, <1>6, <1>7

\* What the step of a worker leaves of the logins of u.
LEMMA JobsSame ==
  ASSUME NEW w \in Workers, \A v \in Workers : v # w => job'[v] = job[v], NEW u,
         \/ ~First(w, u) /\ ~Second(w, u) /\ ~First(w, u)' /\ ~Second(w, u)'
         \/ First(w, u) /\ First(w, u)' /\ job'[w].count = job[w].count
         \/ Second(w, u) /\ Second(w, u)' /\ job'[w].count = job[w].count
  PROVE  \A v \in Workers : /\ First(v, u)' <=> First(v, u)
                            /\ Second(v, u)' <=> Second(v, u)
                            /\ First(v, u) \/ Second(v, u) => job'[v].count = job[v].count
<1>1. ~(First(w, u) /\ Second(w, u)) /\ ~(First(w, u)' /\ Second(w, u)')
  BY DEF First, Second, LogsIn
<1> SUFFICES ASSUME NEW v \in Workers
             PROVE  /\ First(v, u)' <=> First(v, u)
                    /\ Second(v, u)' <=> Second(v, u)
                    /\ First(v, u) \/ Second(v, u) => job'[v].count = job[v].count
  OBVIOUS
<1>2. CASE v = w
  BY <1>1, <1>2
<1>3. CASE v # w
  BY <1>3 DEF First, Second, LogsIn
<1> QED
  BY <1>2, <1>3

\* The number of sessions follows from the sessions.
LEMMA UnchangedSessions ==
  ASSUME UNCHANGED session, NEW u
  PROVE  Sessions(u)' = Sessions(u)
BY DEF Sessions

\* The login of a worker that is not in between.
LEMMA QuietWorker ==
  ASSUME TypeOK, RowsOK, StoredStamps, NEW u \in Nat, PresenceOf(u), NEW w \in Workers, Worker(w),
         ~First(w, u), ~Second(w, u), ~First(w, u)', ~Second(w, u)',
         UNCHANGED <<session, closing>>, FeedQuiet(u)
  PROVE  PresenceOf(u)'
<1>1. \A v \in Workers : v # w => job'[v] = job[v]
  BY WorkerActs
<1>2. Closes(u)' <=> Closes(u)
  BY DEF Closes
<1> QED
  BY <1>1, <1>2, JobsSame, UnchangedSessions, PresenceSame

\* A login of u begins only when no other login or close of u is about.
LEMMA CountPresence ==
  ASSUME TypeOK, RowsOK, StoredStamps, NEW u \in Nat \ {0}, PresenceOf(u), u \notin blurred',
         NEW w \in Workers, Count(w)
  PROVE  PresenceOf(u)'
<1> USE DEF clientVars, mgrVars, seenVars, ghostVars
<1>1. /\ Moves(w, "unlink", job[w].uid, Sessions(job[w].uid), job[w].stamp)
      /\ job[w].what.type = "login" /\ job[w].pc = "count" /\ Worker(w)
      /\ UNCHANGED <<session, closing, news, controllerQ>>
  BY LoginMoves DEF Count, At, Worker
<1>2. ~First(w, u) /\ ~Second(w, u) /\ ~Second(w, u)' /\ (First(w, u)' <=> job[w].uid = u)
  BY <1>1 DEF First, Second, LogsIn, Moves
<1>3. FeedQuiet(u)
  BY <1>1, Quiet
<1>4. CASE job[w].uid # u
  BY <1>1, <1>2, <1>3, <1>4, QuietWorker
<1>5. CASE job[w].uid = u
  <2>1. ~Changing(u)
    BY <1>5 DEF Count, Blur
  <2>2. \A v \in Workers : ~Changes(v, u) /\ ~Closes(u)
    BY <2>1, ChangesForm
  <2>3. \A v \in Workers : Changes(v, u)' <=> v = w
    BY <1>1, <1>2, <1>5, <2>2 DEF Changes, First, LogsIn, Moves
  <2>4. job'[w].count = Sessions(u) /\ job'[w].pc = "unlink" /\ Sessions(u)' = Sessions(u)
    BY <1>1, <1>5, UnchangedSessions DEF Moves
  <2>5. Here(u, Len(Feed))' <=> Sessions(u) > 0
    BY <1>3, <2>1 DEF FeedQuiet, PresenceOf, SettledCounts
  <2>6. ~Closes(u)' /\ Changing(u)'
    BY <1>1, <1>2, <1>5, <2>2, <2>3, ChangesFormNext DEF Closes
  <2>7. OneChange(u)'
    <3>1. \A v \in Workers : Changes(v, u)' =>
            ~Closes(u)' /\ \A x \in Workers : Changes(x, u)' => x = v
      BY <2>3, <2>6
    <3> QED
      BY <3>1 DEF OneChange, Changes, LogsIn, Closes
  <2>8. LoginCounts(u)'
    <3>1. \A v \in Workers : Changes(v, u)' =>
            /\ IF job'[v].pc \in {"unlink", "link"} THEN Sessions(u)' = job'[v].count ELSE Sessions(u)' > 0
            /\ Here(u, Len(Feed))' <=> job'[v].count > 0
      BY <2>3, <2>4, <2>5
    <3> QED
      BY <3>1 DEF LoginCounts, Changes, LogsIn
  <2>9. Alternates(u)' /\ CloseCounts(u)' /\ SettledCounts(u)'
    BY <1>3, <2>6 DEF FeedQuiet, PresenceOf, CloseCounts, SettledCounts
  <2> QED
    BY <2>7, <2>8, <2>9 DEF PresenceOf
<1> QED
  BY <1>4, <1>5

\* A login of u leaves it with a session, and one of another user leaves u as it was or
\* takes away a session that is not the last.
LEMMA LinkPresence ==
  ASSUME TypeOK, RowsOK, StateInv, StoredStamps, NEW u \in Nat \ {0}, PresenceOf(u), u \notin blurred',
         NEW w \in Workers, Link(w)
  PROVE  PresenceOf(u)'
<1> USE DEF clientVars, mgrVars, seenVars, ghostVars
<1> DEFINE c == job[w].what.of
<1>1. /\ Moves(w, "status", job[w].uid, job[w].count, job[w].stamp)
      /\ job[w] # NoJob /\ job[w].what.type = "login" /\ job[w].pc = "link" /\ Worker(w)
      /\ UNCHANGED <<closing, news, controllerQ>>
      /\ c \in Clients /\ job[w].uid \in Nat /\ job[w].count \in Nat
      /\ session' = [session EXCEPT ![c] = job[w].uid]
      /\ Desert(c, job[w].uid)
  BY LoginMoves, InHand DEF Link, At, Worker, Asks
<1>2. /\ ~Second(w, u) /\ ~First(w, u)'
      /\ Second(w, u)' <=> job[w].uid = u
      /\ First(w, u) <=> job[w].uid = u
  BY <1>1 DEF First, Second, LogsIn, Moves
<1>3. FeedQuiet(u)
  BY <1>1, Quiet
<1>4. \A v \in Workers : v # w => job'[v] = job[v]
  BY <1>1 DEF Moves
<1>5. Closes(u)' <=> Closes(u)
  BY <1>1 DEF Closes
<1> HIDE DEF c
<1>6. CASE job[w].uid # u /\ session[c] # u
  <2>1. Sessions(u)' = Sessions(u)
    BY <1>1, <1>6, SessionsMove
  <2> QED
    BY <1>1, <1>2, <1>3, <1>4, <1>5, <1>6, <2>1, JobsSame, PresenceSame
<1>7. CASE job[w].uid # u /\ session[c] = u
  <2>1. ~Changing(u) /\ Sessions(u) # 1
    BY <1>1, <1>7 DEF Desert, NullUid
  <2>2. Sessions(u)' = Sessions(u) - 1 /\ Sessions(u) \in Nat /\ Sessions(u) > 0
    BY <1>1, <1>7, SessionsMove, SomeSession
  <2>3. Sessions(u)' > 0
    BY <2>1, <2>2
  <2>4. Here(u, Len(Feed))' /\ Alternates(u)'
    BY <1>3, <2>1, <2>2 DEF FeedQuiet, PresenceOf, SettledCounts
  <2>5. ~Closes(u)' /\ \A v \in Workers : ~Changes(v, u)'
    <3>1. ~Closes(u) /\ \A v \in Workers : ~Changes(v, u)
      BY <2>1, ChangesForm
    <3>2. \A v \in Workers : v # w => ~Changes(v, u)'
      BY <1>4, <3>1 DEF Changes, LogsIn
    <3>3. ~Changes(w, u)'
      BY <1>2, <1>7, ChangesFormNext
    <3> QED
      BY <1>5, <3>1, <3>2, <3>3
  <2>6. OneChange(u)' /\ LoginCounts(u)'
    BY <2>5 DEF OneChange, LoginCounts, Changes, LogsIn, Closes
  <2>7. CloseCounts(u)' /\ SettledCounts(u)'
    BY <2>3, <2>4, <2>5 DEF CloseCounts, SettledCounts
  <2> QED
    BY <2>4, <2>6, <2>7 DEF PresenceOf
<1>8. CASE job[w].uid = u
  <2>1. Changes(w, u)
    BY <1>2, <1>8, ChangesForm
  <2>2. Sessions(u) = job[w].count /\ (Here(u, Len(Feed)) <=> job[w].count > 0)
    BY <1>1, <2>1 DEF PresenceOf, LoginCounts
  <2>3. Sessions(u)' > 0
    <3>1. CASE session[c] = u
      BY <1>1, <1>8, <3>1, SessionsMove, SomeSession
    <3>2. CASE session[c] # u
      <4>1. Sessions(u)' = Sessions(u) + 1
        BY <1>1, <1>8, <3>2, SessionsMove
      <4> QED
        BY <1>1, <2>2, <4>1
    <3> QED
      BY <3>1, <3>2
  <2>4. ~Closes(u) /\ \A v \in Workers : Changes(v, u) => v = w
    BY <2>1 DEF PresenceOf, OneChange
  <2>5. \A v \in Workers : Changes(v, u)' <=> v = w
    <3>1. Changes(w, u)'
      BY <1>2, <1>8, ChangesFormNext
    <3>2. \A v \in Workers : v # w => ~Changes(v, u)'
      BY <1>4, <2>4 DEF Changes, LogsIn
    <3> QED
      BY <3>1, <3>2
  <2>6. /\ job'[w].count = job[w].count /\ job'[w].pc = "status"
        /\ Here(u, Len(Feed))' <=> Here(u, Len(Feed))
    BY <1>1, <1>3 DEF Moves, FeedQuiet
  <2>7. ~Closes(u)' /\ Changing(u)'
    BY <1>5, <2>4, <2>5, ChangesFormNext
  <2>8. OneChange(u)'
    <3>1. \A v \in Workers : Changes(v, u)' =>
            ~Closes(u)' /\ \A x \in Workers : Changes(x, u)' => x = v
      BY <2>5, <2>7
    <3> QED
      BY <3>1 DEF OneChange, Changes, LogsIn, Closes
  <2>9. LoginCounts(u)'
    <3>1. \A v \in Workers : Changes(v, u)' =>
            /\ IF job'[v].pc \in {"unlink", "link"} THEN Sessions(u)' = job'[v].count ELSE Sessions(u)' > 0
            /\ Here(u, Len(Feed))' <=> job'[v].count > 0
      BY <2>2, <2>3, <2>5, <2>6
    <3> QED
      BY <3>1 DEF LoginCounts, Changes, LogsIn
  <2>10. Alternates(u)' /\ CloseCounts(u)' /\ SettledCounts(u)'
    BY <1>3, <2>7 DEF FeedQuiet, PresenceOf, CloseCounts, SettledCounts
  <2> QED
    BY <2>8, <2>9, <2>10 DEF PresenceOf
<1> QED
  BY <1>6, <1>7, <1>8

\* A login of u says that u came if it found no session.
LEMMA AnnounceLoginPresence ==
  ASSUME TypeOK, RowsOK, StateInv, StoredStamps, NEW u \in Nat \ {0}, PresenceOf(u),
         NEW w \in Workers, AnnounceLogin(w)
  PROVE  PresenceOf(u)'
<1> USE DEF clientVars, mgrVars, seenVars, ghostVars
<1> DEFINE e == [kind |-> "in", uid |-> job[w].uid]
<1>1. /\ Ends(w)
      /\ job[w] # NoJob /\ job[w].what.type = "login" /\ job[w].pc = "announce" /\ Worker(w)
      /\ UNCHANGED <<session, closing, news>>
      /\ job[w].count \in Nat
      /\ e \in Event /\ (About(e, u) <=> job[w].uid = u) /\ e.kind = "in"
      /\ IF job[w].count = 0 THEN controllerQ' = Append(controllerQ, e) ELSE UNCHANGED controllerQ
  BY LoginMoves, InHand, NewEvents DEF AnnounceLogin, At, Worker, About
<1> HIDE DEF e
<1>2. /\ ~First(w, u) /\ ~First(w, u)' /\ ~Second(w, u)'
      /\ Second(w, u) <=> job[w].uid = u
  BY <1>1 DEF First, Second, LogsIn, Ends
<1>3. CASE job[w].uid # u
  <2>1. FeedQuiet(u)
    BY <1>1, <1>3, Quiet
  <2> QED
    BY <1>1, <1>2, <1>3, <2>1, QuietWorker
<1>4. CASE job[w].uid = u
  <2>1. Changes(w, u)
    BY <1>2, <1>4, ChangesForm
  <2>2. ~Closes(u) /\ \A v \in Workers : Changes(v, u) => v = w
    BY <2>1 DEF PresenceOf, OneChange
  <2>3. \A v \in Workers : ~Changes(v, u)'
    <3>1. \A v \in Workers : v # w => ~Changes(v, u)'
      BY <1>1, <2>2 DEF Changes, LogsIn, Ends
    <3> QED
      BY <1>2, <3>1, ChangesFormNext
  <2>4. ~Closes(u)'
    BY <1>1, <2>2 DEF Closes
  <2>5. Sessions(u)' > 0 /\ (Here(u, Len(Feed)) <=> job[w].count > 0) /\ Alternates(u)
    BY <1>1, <2>1, UnchangedSessions DEF PresenceOf, LoginCounts
  <2>6. Here(u, Len(Feed))' /\ Alternates(u)'
    <3>1. CASE job[w].count = 0
      BY <1>1, <1>4, <2>5, <3>1, Announces
    <3>2. CASE job[w].count # 0
      <4>1. FeedQuiet(u)
        BY <1>1, <3>2, Quiet
      <4> QED
        BY <1>1, <2>5, <3>2, <4>1 DEF FeedQuiet
    <3> QED
      BY <3>1, <3>2
  <2>7. OneChange(u)' /\ LoginCounts(u)'
    BY <2>3 DEF OneChange, LoginCounts, Changes, LogsIn, Closes
  <2>8. CloseCounts(u)' /\ SettledCounts(u)'
    BY <2>4, <2>5, <2>6 DEF CloseCounts, SettledCounts
  <2> QED
    BY <2>6, <2>7, <2>8 DEF PresenceOf
<1> QED
  BY <1>3, <1>4

\* A close of u begins only when no login of u is about.
LEMMA CountAtClosePresence ==
  ASSUME TypeOK, StoredStamps, NEW u \in Nat \ {0}, PresenceOf(u), u \notin blurred',
         NEW c \in Clients, CountAtClose(c)
  PROVE  PresenceOf(u)'
<1> USE DEF clientVars, mgrVars, seenVars, ghostVars
<1>1. /\ closing = NoClose /\ closing' \in Closing
      /\ closing'.pc = "drop" /\ closing'.uid = session[c]
      /\ closing'.count = IF session[c] = NullUid THEN 0 ELSE Sessions(session[c])
      /\ UNCHANGED <<session, job, news, controllerQ>>
  BY ClosesAt DEF CountAtClose
<1>2. closing' # NoClose
  BY <1>1, ClosingParts
<1>3. ~Closes(u) /\ (Closes(u)' <=> session[c] = u)
  BY <1>1, <1>2 DEF Closes
<1>4. FeedQuiet(u) /\ Sessions(u)' = Sessions(u)
  BY <1>1, Quiet, UnchangedSessions
<1>5. \A v \in Workers : /\ First(v, u)' <=> First(v, u)
                         /\ Second(v, u)' <=> Second(v, u)
                         /\ job'[v].count = job[v].count
  BY <1>1 DEF First, Second, LogsIn
<1>6. CASE session[c] # u
  BY <1>3, <1>4, <1>5, <1>6, PresenceSame
<1>7. CASE session[c] = u
  <2>1. ~Changing(u)
    BY <1>7 DEF CountAtClose, Blur
  <2>2. \A v \in Workers : ~Changes(v, u)'
    BY <1>5, <2>1, ChangesForm, ChangesFormNext
  <2>3. Sessions(u) > 0
    BY <1>7, SomeSession
  <2>4. Here(u, Len(Feed))' /\ Alternates(u)'
    BY <1>4, <2>1, <2>3 DEF FeedQuiet, PresenceOf, SettledCounts
  <2>5. CloseCounts(u)'
    BY <1>1, <1>4, <1>7, <2>3, <2>4 DEF CloseCounts, NullUid
  <2>6. SettledCounts(u)'
    BY <1>3, <1>7, ChangesFormNext DEF SettledCounts
  <2>7. OneChange(u)' /\ LoginCounts(u)'
    BY <2>2 DEF OneChange, LoginCounts, Changes, LogsIn, Closes
  <2> QED
    BY <2>4, <2>5, <2>6, <2>7 DEF PresenceOf
<1> QED
  BY <1>6, <1>7

\* A close of u that drops its session lowers their number by one.
LEMMA DropPresence ==
  ASSUME TypeOK, StateInv, StoredStamps, NEW u \in Nat \ {0}, PresenceOf(u), Drop
  PROVE  PresenceOf(u)'
<1> USE DEF clientVars, mgrVars, seenVars, ghostVars
<1>1. /\ closing \in Closing /\ closing' \in Closing /\ closing.of \in Clients
      /\ closing.pc = "drop" /\ closing'.pc = "announce"
      /\ closing'.uid = closing.uid /\ closing'.count = closing.count
      /\ closing # NoClose /\ closing' # NoClose
      /\ UNCHANGED <<job, news, controllerQ>>
      /\ session' = [session EXCEPT ![closing.of] = Absent]
  BY Drops, ClosingParts DEF Drop
<1>2. session[closing.of] = closing.uid /\ Absent # u
  BY <1>1, AbsentAssumption DEF StateInv, CloseState
<1>3. (Closes(u) <=> closing.uid = u) /\ (Closes(u)' <=> closing.uid = u)
  BY <1>1 DEF Closes
<1>4. FeedQuiet(u)
  BY <1>1, Quiet
<1>5. \A v \in Workers : /\ First(v, u)' <=> First(v, u)
                         /\ Second(v, u)' <=> Second(v, u)
                         /\ job'[v].count = job[v].count
  BY <1>1 DEF First, Second, LogsIn
<1>6. CASE closing.uid # u
  <2>1. Sessions(u)' = Sessions(u)
    BY <1>1, <1>2, <1>6, SessionsMove
  <2> QED
    BY <1>3, <1>4, <1>5, <1>6, <2>1, PresenceSame
<1>7. CASE closing.uid = u
  <2>1. Sessions(u)' = Sessions(u) - 1
    BY <1>1, <1>2, <1>7, SessionsMove
  <2>2. Sessions(u) = closing.count /\ closing.count > 0 /\ Here(u, Len(Feed))
    BY <1>1, <1>3, <1>7 DEF PresenceOf, CloseCounts
  <2>3. \A v \in Workers : ~Changes(v, u)
    BY <1>3, <1>7 DEF PresenceOf, OneChange
  <2>4. \A v \in Workers : ~Changes(v, u)'
    BY <1>5, <2>3, ChangesForm, ChangesFormNext
  <2>5. CloseCounts(u)'
    BY <1>1, <1>4, <2>1, <2>2 DEF CloseCounts, FeedQuiet
  <2>6. SettledCounts(u)'
    BY <1>3, <1>7, ChangesFormNext DEF SettledCounts
  <2>7. OneChange(u)' /\ LoginCounts(u)'
    BY <2>4 DEF OneChange, LoginCounts, Changes, LogsIn, Closes
  <2>8. Alternates(u)'
    BY <1>4 DEF FeedQuiet, PresenceOf
  <2> QED
    BY <2>5, <2>6, <2>7, <2>8 DEF PresenceOf
<1> QED
  BY <1>6, <1>7

\* A close of u says that u went if it found the last session.
LEMMA AnnounceLogoutPresence ==
  ASSUME TypeOK, StateInv, StoredStamps, NEW u \in Nat \ {0}, PresenceOf(u), AnnounceLogout
  PROVE  PresenceOf(u)'
<1> USE DEF clientVars, mgrVars, seenVars, ghostVars
<1> DEFINE e == [kind |-> "out", uid |-> closing.uid]
<1>1. /\ closing # NoClose /\ closing \in Closing /\ closing.pc = "announce" /\ closing' = NoClose
      /\ UNCHANGED <<job, news, session>>
      /\ IF closing.count = 1 THEN controllerQ' = Append(controllerQ, e) ELSE UNCHANGED controllerQ
  BY DEF AnnounceLogout, TypeOK
<1>2. e \in Event /\ (About(e, u) <=> closing.uid = u) /\ e.kind = "out" /\ closing.count \in Nat
  BY <1>1, ClosingParts DEF Event, About
<1> HIDE DEF e
<1>3. (Closes(u) <=> closing.uid = u) /\ ~Closes(u)'
  BY <1>1 DEF Closes
<1>4. Sessions(u)' = Sessions(u)
  BY <1>1, UnchangedSessions
<1>5. \A v \in Workers : /\ First(v, u)' <=> First(v, u)
                         /\ Second(v, u)' <=> Second(v, u)
                         /\ job'[v].count = job[v].count
  BY <1>1 DEF First, Second, LogsIn
<1>6. CASE closing.uid # u
  <2>1. FeedQuiet(u)
    BY <1>1, <1>2, <1>6, Quiet
  <2> QED
    BY <1>3, <1>4, <1>5, <1>6, <2>1, PresenceSame
<1>7. CASE closing.uid = u
  <2>1. Sessions(u) = closing.count - 1 /\ closing.count > 0 /\ Here(u, Len(Feed)) /\ Alternates(u)
    BY <1>1, <1>3, <1>7 DEF PresenceOf, CloseCounts
  <2>2. \A v \in Workers : ~Changes(v, u)
    BY <1>3, <1>7 DEF PresenceOf, OneChange
  <2>3. \A v \in Workers : ~Changes(v, u)'
    BY <1>5, <2>2, ChangesForm, ChangesFormNext
  <2>4. (Here(u, Len(Feed))' <=> closing.count # 1) /\ Alternates(u)'
    <3>1. CASE closing.count = 1
      BY <1>1, <1>2, <1>7, <2>1, <3>1, Announces
    <3>2. CASE closing.count # 1
      <4>1. FeedQuiet(u)
        BY <1>1, <3>2, Quiet
      <4> QED
        BY <2>1, <3>2, <4>1 DEF FeedQuiet
    <3> QED
      BY <3>1, <3>2
  <2>5. Sessions(u)' > 0 <=> closing.count # 1
    BY <1>2, <1>4, <2>1
  <2>6. OneChange(u)' /\ LoginCounts(u)'
    BY <2>3 DEF OneChange, LoginCounts, Changes, LogsIn, Closes
  <2>7. CloseCounts(u)' /\ SettledCounts(u)'
    BY <1>3, <2>4, <2>5 DEF CloseCounts, SettledCounts
  <2> QED
    BY <2>4, <2>6, <2>7 DEF PresenceOf
<1> QED
  BY <1>6, <1>7

\* A step keeps the announcements in agreement with the sessions.
LEMMA PresenceStep ==
  ASSUME TypeOK, RowsOK, StateInv, StoredStamps, PresenceInv, [Next]_vars
  PROVE  PresenceInv'
<1> USE DEF clientVars, mgrVars, seenVars, ghostVars
<1>a. blurred \subseteq blurred'
  BY DEF Next, Client, AskToLogIn, AskForHistory, Say, Request, Leave, Worker, Pop, Deliver,
         BrowseHistory, StampText, SendText, Select, SelectMax, Insert, Count, Unlink, Link,
         SendStatus, AnnounceLogin, Listener, Drop, AnnounceLogout, CountAtClose, Blur, Desert,
         Controller, Store, Walk, vars
<1>b. SUFFICES ASSUME NEW u \in Nat \ {0}, u \notin blurred' PROVE PresenceOf(u)'
  <2>1. \A u \in (Nat \ {0}) \ blurred' : PresenceOf(u)'
    BY <1>b
  <2> QED
    BY <2>1 DEF PresenceInv, PresenceOf, Alternates, Feed, Here, OneChange, Changes, LogsIn, Closes,
                LoginCounts, CloseCounts, SettledCounts, Sessions, Changing
<1>c. PresenceOf(u)
  BY <1>a, <1>b DEF PresenceInv
<1>1. CASE UNCHANGED <<session, closing, job>> /\ FeedQuiet(u)
  <2>1. \A v \in Workers : /\ First(v, u)' <=> First(v, u)
                           /\ Second(v, u)' <=> Second(v, u)
                           /\ job'[v].count = job[v].count
    BY <1>1 DEF First, Second, LogsIn
  <2>2. Closes(u)' <=> Closes(u)
    BY <1>1 DEF Closes
  <2> QED
    BY <1>1, <1>c, <2>1, <2>2, UnchangedSessions, PresenceSame
<1>2. ASSUME NEW c \in Clients, Client(c) PROVE PresenceOf(u)'
  <2>1. UNCHANGED <<session, closing, job, news, controllerQ>>
    BY <1>2 DEF Client, AskToLogIn, AskForHistory, Say, Request, Leave
  <2> QED
    BY <1>1, <2>1, Quiet
<1>3. ASSUME NEW w \in Workers, Worker(w) PROVE PresenceOf(u)'
  <2>1. CASE Pop(w) \/ StampText(w) \/ BrowseHistory(w) \/ Deliver(w)
    <3>1. UNCHANGED <<session, closing, news, controllerQ>>
      BY <2>1 DEF Pop, StampText, BrowseHistory, Deliver
    <3>2. ~First(w, u) /\ ~Second(w, u) /\ ~First(w, u)' /\ ~Second(w, u)'
      BY <2>1, TakesJob, OtherMoves
         DEF Pop, StampText, BrowseHistory, Deliver, At, Takes, Moves, Ends, First, Second, LogsIn
    <3> QED
      BY <1>3, <1>c, <3>1, <3>2, Quiet, QuietWorker
  <2>2. CASE SendText(w)
    <3> DEFINE e == [kind |-> "text",
                     text |-> [of |-> job[w].what.of, n |-> job[w].what.n, stamp |-> job[w].stamp]]
    <3>1. /\ UNCHANGED <<session, closing, news>> /\ controllerQ' = Append(controllerQ, e)
          /\ e \in Event /\ ~About(e, u)
      BY <2>2, NewEvents DEF SendText, At, About
    <3>2. ~First(w, u) /\ ~Second(w, u) /\ ~First(w, u)' /\ ~Second(w, u)'
      BY <2>2, OtherMoves DEF SendText, At, Ends, First, Second, LogsIn
    <3> HIDE DEF e
    <3> QED
      BY <1>3, <1>c, <3>1, <3>2, Quiet, QuietWorker
  <2>3. CASE Select(w) \/ SelectMax(w) \/ Insert(w)
    <3>1. UNCHANGED <<session, closing, news, controllerQ>>
      BY <2>3 DEF Select, SelectMax, Insert
    <3>2. ~First(w, u) /\ ~Second(w, u)
      BY <2>3 DEF Select, SelectMax, Insert, At, First, Second, LogsIn
    <3>3. Ends(w) \/ \E p \in {"max", "insert", "count"}, x, n, s \in Nat : Moves(w, p, x, n, s)
      BY <2>3, Selects, SelectsMax, Inserts, InHand DEF Select, SelectMax, Insert, At
    <3>4. ~First(w, u)' /\ ~Second(w, u)'
      BY <3>3 DEF Ends, Moves, First, Second, LogsIn
    <3> QED
      BY <1>3, <1>c, <3>1, <3>2, <3>4, Quiet, QuietWorker
  <2>4. CASE Count(w)
    BY <1>b, <1>c, <2>4, CountPresence
  <2>5. CASE Unlink(w) \/ SendStatus(w)
    <3>1. UNCHANGED <<session, closing, news, controllerQ>>
      BY <2>5 DEF Unlink, SendStatus
    <3>2. \/ Unlink(w) /\ Moves(w, "link", job[w].uid, job[w].count, job[w].stamp)
          \/ SendStatus(w) /\ Moves(w, "announce", job[w].uid, job[w].count, job[w].stamp)
      BY <2>5, LoginMoves
    <3>3. \/ ~First(w, u) /\ ~Second(w, u) /\ ~First(w, u)' /\ ~Second(w, u)'
          \/ First(w, u) /\ First(w, u)' /\ job'[w].count = job[w].count
          \/ Second(w, u) /\ Second(w, u)' /\ job'[w].count = job[w].count
      BY <3>2 DEF Unlink, SendStatus, At, Moves, First, Second, LogsIn
    <3>4. \A v \in Workers : /\ First(v, u)' <=> First(v, u)
                             /\ Second(v, u)' <=> Second(v, u)
                             /\ First(v, u) \/ Second(v, u) => job'[v].count = job[v].count
      BY <1>3, <3>3, WorkerActs, JobsSame
    <3>5. Closes(u)' <=> Closes(u)
      BY <3>1 DEF Closes
    <3> QED
      BY <1>c, <3>1, <3>4, <3>5, Quiet, UnchangedSessions, PresenceSame
  <2>6. CASE Link(w)
    BY <1>b, <1>c, <2>6, LinkPresence
  <2>7. CASE AnnounceLogin(w)
    BY <1>c, <2>7, AnnounceLoginPresence
  <2> QED
    BY <1>3, <2>1, <2>2, <2>3, <2>4, <2>5, <2>6, <2>7 DEF Worker
<1>4. ASSUME NEW c \in Clients, CountAtClose(c) PROVE PresenceOf(u)'
  BY <1>b, <1>c, <1>4, CountAtClosePresence
<1>5. CASE Drop
  BY <1>c, <1>5, DropPresence
<1>6. CASE AnnounceLogout
  BY <1>c, <1>6, AnnounceLogoutPresence
<1>7. CASE Store \/ UNCHANGED vars
  <2>1. UNCHANGED <<session, closing, job, news, controllerQ>>
    BY <1>7 DEF Store, vars
  <2> QED
    BY <1>1, <2>1, Quiet
<1>8. CASE Walk
  <2>1. UNCHANGED <<session, closing, job>>
    BY <1>8 DEF Walk
  <2> QED
    BY <1>1, <1>8, <2>1, Quiet
<1> QED
  BY <1>2, <1>3, <1>4, <1>5, <1>6, <1>7, <1>8 DEF Next, Listener, Controller


-----------------------------------------------------------------------------
(* The order in which news arrive. *)

\* A worker keeps the piece of news it holds until it delivers it, and takes
\* another from the queue.
LEMMA HoldSteps ==
  ASSUME TypeOK, RowsOK, [Next]_vars, NEW v \in Workers
  PROVE  /\ Holds(v)' => Pop(v) \/ (Holds(v) /\ job'[v].what = job[v].what)
         /\ Holds(v) => Deliver(v) \/ (Holds(v)' /\ job'[v].what = job[v].what)
<1> USE DEF clientVars, mgrVars, seenVars, ghostVars
<1>1. CASE job'[v] = job[v]
  BY <1>1 DEF Holds
<1>2. ASSUME NEW w \in Workers, Worker(w), v # w PROVE job'[v] = job[v]
  BY <1>2, WorkerActs
<1>3. CASE Worker(v)
  <2>1. CASE Ends(v) /\ (job[v].what.type = "send" => Deliver(v))
    BY <2>1 DEF Ends, Holds
  <2>2. CASE job[v].what.type # "send" /\ \E p, u, n, s : Moves(v, p, u, n, s)
    BY <2>2 DEF Moves, Holds
  <2>3. CASE Pop(v)
    BY <2>3 DEF Pop, Holds
  <2>4. CASE Deliver(v) \/ SendText(v) \/ BrowseHistory(v) \/ AnnounceLogin(v)
    BY <2>1, <2>4, OtherMoves, LoginMoves DEF SendText, BrowseHistory, AnnounceLogin, At
  <2>5. CASE StampText(v)
    BY <2>2, <2>5, OtherMoves DEF StampText, At
  <2>6. CASE Select(v)
    BY <2>1, <2>2, <2>6, Selects DEF Select, At
  <2>7. CASE SelectMax(v)
    BY <2>2, <2>7, SelectsMax DEF SelectMax, At
  <2>8. CASE Insert(v)
    BY <2>1, <2>2, <2>8, Inserts DEF Insert, At
  <2>9. CASE Count(v) \/ Unlink(v) \/ Link(v) \/ SendStatus(v)
    BY <2>2, <2>9, LoginMoves DEF Count, Unlink, Link, SendStatus, At
  <2> QED
    BY <1>3, <2>3, <2>4, <2>5, <2>6, <2>7, <2>8, <2>9 DEF Worker
<1>4. CASE (\E c \in Clients : Client(c)) \/ Listener \/ Controller \/ UNCHANGED vars
  BY <1>1, <1>4 DEF Client, AskToLogIn, AskForHistory, Say, Request, Leave, Listener, Drop,
                    AnnounceLogout, CountAtClose, Controller, Store, Walk, vars
<1> QED
  BY <1>1, <1>2, <1>3, <1>4 DEF Next

\* What is taken from the queue is no older than what is taken already, and no
\* younger than what stays in the queue.
LEMMA OrderTaken ==
  ASSUME TypeOK, RowsOK, OrderInv, [Next]_vars, NEW w \in Workers, Pop(w)
  PROVE  OrderInv'
<1> USE DEF clientVars, mgrVars, seenVars, ghostVars
<1>1. /\ Takes(w) /\ workersQ # << >> /\ workersQ' = Tail(workersQ) /\ UNCHANGED <<live, news>>
  BY TakesJob DEF Pop
<1>2. /\ job[w] = NoJob /\ job'[w].what = workersQ[1] /\ 1 \in DOMAIN workersQ
      /\ \A v \in Workers : v # w => job'[v] = job[v]
      /\ \A i \in DOMAIN workersQ' : /\ i + 1 \in DOMAIN workersQ /\ 1 < i + 1
                                     /\ workersQ'[i] = workersQ[i + 1]
      /\ \A i, k \in DOMAIN workersQ' : i < k => i + 1 < k + 1
  BY <1>1, TypeFacts, AtFront DEF Takes
<1>3. \A v \in Workers : /\ Holds(v) => v # w /\ Holds(v)' /\ job'[v].what = job[v].what
                         /\ Holds(v)' /\ v # w => Holds(v) /\ job'[v].what = job[v].what
                         /\ Holds(w)' => workersQ[1].type = "send" /\ job'[w].what.no = workersQ[1].no
  BY <1>2 DEF Holds
<1> HIDE <1>1
<1>4. QueueOrder'
  <2> SUFFICES ASSUME NEW i \in DOMAIN workersQ', workersQ'[i].type = "send"
               PROVE  /\ workersQ'[i].no \in DOMAIN news'
                      /\ \A k \in DOMAIN workersQ' :
                           workersQ'[k].type = "send" /\ i < k => workersQ'[i].no <= workersQ'[k].no
                      /\ \A v \in Workers : Holds(v)' => job'[v].what.no <= workersQ'[i].no
                      /\ \A c \in Clients : \A k \in DOMAIN live'[c] : live'[c][k] <= workersQ'[i].no
    BY Zenon DEF QueueOrder, Holds
  <2>1. i + 1 \in DOMAIN workersQ /\ workersQ[i + 1].type = "send" /\ workersQ'[i] = workersQ[i + 1]
    BY <1>2
  <2>2. /\ workersQ[i + 1].no \in DOMAIN news
        /\ \A k \in DOMAIN workersQ :
             workersQ[k].type = "send" /\ i + 1 < k => workersQ[i + 1].no <= workersQ[k].no
        /\ \A v \in Workers : Holds(v) => job[v].what.no <= workersQ[i + 1].no
        /\ \A c \in Clients : \A k \in DOMAIN live[c] : live[c][k] <= workersQ[i + 1].no
    BY <2>1 DEF OrderInv, QueueOrder
  <2>3. \A k \in DOMAIN workersQ' :
          workersQ'[k].type = "send" /\ i < k => workersQ'[i].no <= workersQ'[k].no
    BY <1>2, <2>1, <2>2
  <2>4. workersQ[1].type = "send" => workersQ[1].no <= workersQ[i + 1].no
    BY <1>2, <2>1 DEF OrderInv, QueueOrder
  <2>5. \A v \in Workers : Holds(v)' => job'[v].what.no <= workersQ'[i].no
    BY <1>3, <2>1, <2>2, <2>4
  <2> QED
    BY <1>1, <2>1, <2>2, <2>3, <2>5
<1>5. LiveOrder'
  <2>1. \A v \in Workers : Holds(v)' => job'[v].what.no \in DOMAIN news
    BY <1>2, <1>3 DEF OrderInv, QueueOrder, LiveOrder
  <2>2. ASSUME NEW c \in Clients, NEW k \in DOMAIN live[c]
        PROVE  /\ live[c][k] \in DOMAIN news
               /\ \E v \in Workers : Holds(v)' => job'[v].what.no >= live[c][k]
    <3>1. /\ live[c][k] \in DOMAIN news
          /\ \E v \in Workers : Holds(v) => job[v].what.no >= live[c][k]
      BY <2>2 DEF OrderInv, LiveOrder
    <3>2. PICK v \in Workers : Holds(v) => job[v].what.no >= live[c][k]
      BY <3>1
    <3>3. CASE v # w
      BY <1>3, <3>1, <3>2, <3>3
    <3>4. CASE v = w
      <4>1. Holds(w)' => live[c][k] <= job'[w].what.no
        BY <1>2, <1>3 DEF OrderInv, QueueOrder
      <4>2. Holds(w)' => job'[w].what.no \in DOMAIN news
        BY <2>1
      <4>3. DOMAIN news = 1..Len(news) /\ Len(news) \in Nat
        BY TypeFacts
      <4> QED
        BY <3>1, <4>1, <4>2, <4>3
    <3> QED
      BY <3>3, <3>4
  <2> QED
    BY <1>1, <2>1, <2>2 DEF LiveOrder, Holds
<1> QED
  BY <1>4, <1>5 DEF OrderInv

\* The worker that has delivered a piece of news holds nothing.
LEMMA OrderDelivered ==
  ASSUME TypeOK, OrderInv, NEW w \in Workers, Deliver(w)
  PROVE  OrderInv'
<1> USE DEF clientVars, mgrVars, seenVars, ghostVars
<1> DEFINE q == job[w].what
<1>1. /\ Ends(w) /\ Holds(w) /\ q \in What /\ q.to \in Clients /\ q.no \in Nat
      /\ UNCHANGED <<workersQ, news>>
  BY OtherMoves, InHand, WhatParts DEF Deliver, At, Holds
<1>2. /\ ~Holds(w)'
      /\ \A v \in Workers : Holds(v)' => Holds(v) /\ job'[v].what = job[v].what
  BY <1>1 DEF Ends, Holds
<1>3. /\ live' = [live EXCEPT ![q.to] = Append(live[q.to], q.no)]
      /\ live \in [Clients -> Seq(Nat)]
  BY <1>1 DEF Deliver, TypeOK
<1>4. \A c \in Clients : \A k \in DOMAIN live'[c] :
        live'[c][k] = q.no \/ (k \in DOMAIN live[c] /\ live'[c][k] = live[c][k])
  <2> SUFFICES ASSUME NEW c \in Clients, NEW k \in DOMAIN live'[c]
               PROVE  live'[c][k] = q.no \/ (k \in DOMAIN live[c] /\ live'[c][k] = live[c][k])
    OBVIOUS
  <2> HIDE DEF q
  <2>1. CASE c # q.to
    BY <1>3, <2>1
  <2>2. CASE c = q.to
    <3> DEFINE l == live[c]
    <3>1. l \in Seq(Nat) /\ live'[c] = Append(l, q.no)
      BY <1>1, <1>3, <2>2
    <3> HIDE DEF l
    <3>2. \A j \in DOMAIN Append(l, q.no) : j = Len(l) + 1 \/ j \in DOMAIN l
      BY <1>1, <3>1, AtEnd
    <3>3. Append(l, q.no)[Len(l) + 1] = q.no /\ \A j \in DOMAIN l : Append(l, q.no)[j] = l[j]
      BY <1>1, <3>1, AtEnd
    <3> QED
      BY <3>1, <3>2, <3>3 DEF l
  <2> QED
    BY <2>1, <2>2
<1>5. q.no \in DOMAIN news
  BY <1>1 DEF OrderInv, LiveOrder
<1> HIDE DEF q
<1>6. QueueOrder'
  <2> SUFFICES ASSUME NEW i \in DOMAIN workersQ, workersQ[i].type = "send"
               PROVE  /\ workersQ[i].no \in DOMAIN news
                      /\ \A k \in DOMAIN workersQ :
                           workersQ[k].type = "send" /\ i < k => workersQ[i].no <= workersQ[k].no
                      /\ \A v \in Workers : Holds(v)' => job'[v].what.no <= workersQ[i].no
                      /\ \A c \in Clients : \A k \in DOMAIN live'[c] : live'[c][k] <= workersQ[i].no
    BY <1>1, Zenon DEF QueueOrder, Holds
  <2>1. /\ workersQ[i].no \in DOMAIN news
        /\ \A k \in DOMAIN workersQ :
             workersQ[k].type = "send" /\ i < k => workersQ[i].no <= workersQ[k].no
        /\ \A v \in Workers : Holds(v) => job[v].what.no <= workersQ[i].no
        /\ \A c \in Clients : \A k \in DOMAIN live[c] : live[c][k] <= workersQ[i].no
    BY DEF OrderInv, QueueOrder
  <2>2. q.no <= workersQ[i].no
    BY <1>1, <2>1 DEF q
  <2> QED
    BY <1>2, <1>4, <2>1, <2>2
<1>7. LiveOrder'
  <2>1. \A v \in Workers : Holds(v)' => job'[v].what.no \in DOMAIN news
    BY <1>2 DEF OrderInv, LiveOrder
  <2>2. \A c \in Clients : \A k \in DOMAIN live'[c] : live'[c][k] \in DOMAIN news
    BY <1>4, <1>5 DEF OrderInv, LiveOrder
  <2> QED
    BY <1>1, <1>2, <2>1, <2>2 DEF LiveOrder, Holds
<1> QED
  BY <1>6, <1>7 DEF OrderInv

\* A walk queues the newest piece of news behind all others.
LEMMA OrderWalked ==
  ASSUME TypeOK, StoredStamps, OrderInv, Walk
  PROVE  OrderInv'
<1> DEFINE n == Len(news)
<1>1. /\ n \in Nat /\ DOMAIN news = 1..n /\ DOMAIN news' = 1..(n + 1)
      /\ UNCHANGED <<job, live>>
  <2>1. controllerQ # << >> /\ news' = Append(news, Head(controllerQ)) /\ UNCHANGED <<job, live>>
    BY DEF Walk, StoredStamps
  <2> QED
    BY <2>1, TypeFacts, AtFront, AtEnd
<1>2. PICK new \in Seq(What) :
        workersQ' = workersQ \o new /\ \A i \in DOMAIN new : new[i].type = "send" /\ new[i].no = n + 1
  BY WalkAdds
<1> HIDE DEF n
<1>3. \A i \in DOMAIN workersQ' :
        \/ i \in DOMAIN workersQ /\ workersQ'[i] = workersQ[i]
        \/ workersQ'[i].no = n + 1
  BY <1>2, TypeFacts, Behind
<1>4. \A i, k \in DOMAIN workersQ' : i < k /\ k \in DOMAIN workersQ => i \in DOMAIN workersQ
  BY <1>2, TypeFacts, Behind
<1>5. \A i \in DOMAIN news : i <= n + 1 /\ i \in DOMAIN news'
  BY <1>1
<1>6. n + 1 \in DOMAIN news' /\ n + 1 <= n + 1
  BY <1>1
<1>7. \A v \in Workers : Holds(v)' <=> Holds(v)
  BY <1>1 DEF Holds
<1>8. QueueOrder'
  <2> SUFFICES ASSUME NEW i \in DOMAIN workersQ', workersQ'[i].type = "send"
               PROVE  /\ workersQ'[i].no \in DOMAIN news'
                      /\ \A k \in DOMAIN workersQ' :
                           workersQ'[k].type = "send" /\ i < k => workersQ'[i].no <= workersQ'[k].no
                      /\ \A v \in Workers : Holds(v) => job[v].what.no <= workersQ'[i].no
                      /\ \A c \in Clients : \A k \in DOMAIN live[c] : live[c][k] <= workersQ'[i].no
    BY <1>1, <1>7, Zenon DEF QueueOrder
  <2>1. CASE i \in DOMAIN workersQ /\ workersQ'[i] = workersQ[i]
    <3>1. /\ workersQ[i].no \in DOMAIN news
          /\ \A k \in DOMAIN workersQ :
               workersQ[k].type = "send" /\ i < k => workersQ[i].no <= workersQ[k].no
          /\ \A v \in Workers : Holds(v) => job[v].what.no <= workersQ[i].no
          /\ \A c \in Clients : \A k \in DOMAIN live[c] : live[c][k] <= workersQ[i].no
      BY <2>1 DEF OrderInv, QueueOrder
    <3>2. \A k \in DOMAIN workersQ' :
            workersQ'[k].type = "send" /\ i < k => workersQ'[i].no <= workersQ'[k].no
      BY <1>3, <1>5, <2>1, <3>1
    <3> QED
      BY <1>5, <2>1, <3>1, <3>2
  <2>2. CASE ~(i \in DOMAIN workersQ /\ workersQ'[i] = workersQ[i])
    <3>1. workersQ'[i].no = n + 1
      BY <1>3, <2>2
    <3>2. i \notin DOMAIN workersQ
      BY <1>2, <2>2, TypeFacts, Behind
    <3>3. \A k \in DOMAIN workersQ' : i < k => workersQ'[k].no = n + 1
      BY <1>3, <1>4, <3>2
    <3> QED
      BY <1>5, <1>6, <3>1, <3>3 DEF OrderInv, LiveOrder
  <2> QED
    BY <2>1, <2>2
<1>9. LiveOrder'
  BY <1>1, <1>5, <1>7 DEF OrderInv, LiveOrder
<1> QED
  BY <1>8, <1>9 DEF OrderInv

\* Other steps queue nothing that is to be sent.
LEMMA OrderKept ==
  ASSUME OrderInv, UNCHANGED <<news, live>>,
         \A v \in Workers : /\ Holds(v)' <=> Holds(v)
                            /\ Holds(v) => job'[v].what = job[v].what,
         \A i \in DOMAIN workersQ' : workersQ'[i].type = "send" =>
           i \in DOMAIN workersQ /\ workersQ'[i] = workersQ[i]
  PROVE  OrderInv'
<1>1. QueueOrder'
  <2> SUFFICES ASSUME NEW i \in DOMAIN workersQ', workersQ'[i].type = "send"
               PROVE  /\ workersQ'[i].no \in DOMAIN news
                      /\ \A k \in DOMAIN workersQ' :
                           workersQ'[k].type = "send" /\ i < k => workersQ'[i].no <= workersQ'[k].no
                      /\ \A v \in Workers : Holds(v) => job'[v].what.no <= workersQ'[i].no
                      /\ \A c \in Clients : \A k \in DOMAIN live[c] : live[c][k] <= workersQ'[i].no
    BY Zenon DEF QueueOrder
  <2>1. i \in DOMAIN workersQ /\ workersQ'[i] = workersQ[i]
    OBVIOUS
  <2> QED
    BY <2>1 DEF OrderInv, QueueOrder
<1>2. LiveOrder'
  BY DEF OrderInv, LiveOrder
<1> QED
  BY <1>1, <1>2 DEF OrderInv

\* A step keeps the order in which news arrive.
LEMMA OrderStep ==
  ASSUME TypeOK, RowsOK, StoredStamps, OrderInv, [Next]_vars
  PROVE  OrderInv'
<1> USE DEF clientVars, mgrVars, seenVars, ghostVars
<1>1. ASSUME NEW c \in Clients, Client(c), NEW j \in What, Request(c, j), j.type # "send"
      PROVE  OrderInv'
  <2>1. workersQ' = Append(workersQ, j) /\ UNCHANGED <<news, live, job>>
    BY <1>1 DEF Request
  <2>2. \A i \in DOMAIN workersQ' : workersQ'[i].type = "send" =>
           i \in DOMAIN workersQ /\ workersQ'[i] = workersQ[i]
    <3>1. /\ Len(workersQ) \in Nat /\ DOMAIN workersQ = 1..Len(workersQ)
          /\ DOMAIN workersQ' = 1..(Len(workersQ) + 1)
          /\ workersQ'[Len(workersQ) + 1] = j
          /\ \A i \in DOMAIN workersQ : workersQ'[i] = workersQ[i]
      BY <2>1, TypeFacts, AtEnd
    <3>2. \A i \in DOMAIN workersQ' : i \in DOMAIN workersQ \/ i = Len(workersQ) + 1
      BY <3>1
    <3> QED
      BY <1>1, <3>1, <3>2
  <2>3. \A v \in Workers : Holds(v)' <=> Holds(v)
    BY <2>1 DEF Holds
  <2> QED
    BY <2>1, <2>2, <2>3, OrderKept
<1>2. ASSUME NEW c \in Clients, Client(c), UNCHANGED texts PROVE OrderInv'
  <2>1. CASE AskToLogIn(c)
    BY <1>1, <1>2, <2>1, NewWork DEF AskToLogIn
  <2>2. CASE AskForHistory(c)
    BY <1>1, <1>2, <2>2, NewWork DEF AskForHistory
  <2>3. CASE Leave(c)
    <3>1. UNCHANGED <<news, live, job, workersQ>>
      BY <2>3 DEF Leave
    <3>2. \A v \in Workers : Holds(v)' <=> Holds(v)
      BY <3>1 DEF Holds
    <3> QED
      BY <3>1, <3>2, OrderKept
  <2>4. CASE Say(c)
    <3>1. texts[c] \in Nat /\ texts'[c] = texts[c] + 1
      BY <2>4 DEF Say, TypeOK
    <3> QED
      BY <1>2, <3>1
  <2> QED
    BY <1>2, <2>1, <2>2, <2>3, <2>4 DEF Client
<1>3. ASSUME NEW c \in Clients, Say(c) PROVE OrderInv'
  <2>1. texts[c] + 1 \in Nat
    <3>1. texts[c] \in Nat
      BY DEF TypeOK
    <3> QED
      BY <3>1
  <2> QED
    BY <1>1, <1>3, <2>1, NewWork DEF Say, Client
<1>4. ASSUME NEW w \in Workers, Worker(w), ~Pop(w), ~Deliver(w) PROVE OrderInv'
  <2>1. UNCHANGED <<news, live, workersQ>>
    BY <1>4 DEF Worker, BrowseHistory, StampText, SendText, Select, SelectMax, Insert,
                Count, Unlink, Link, SendStatus, AnnounceLogin
  <2>2. \A v \in Workers : v # w => job'[v] = job[v]
    BY <1>4, WorkerActs
  <2>3. \A v \in Workers : /\ Holds(v)' <=> Holds(v)
                           /\ Holds(v) => job'[v].what = job[v].what
    BY <1>4, <2>2, HoldSteps DEF Holds
  <2> QED
    BY <2>1, <2>3, OrderKept
<1>5. CASE Listener \/ Store \/ UNCHANGED vars
  <2>1. UNCHANGED <<news, live, job, workersQ>>
    BY <1>5 DEF Listener, Drop, AnnounceLogout, CountAtClose, Store, vars
  <2>2. \A v \in Workers : Holds(v)' <=> Holds(v)
    BY <2>1 DEF Holds
  <2> QED
    BY <2>1, <2>2, OrderKept
<1>6. ASSUME NEW c \in Clients, Client(c) PROVE UNCHANGED texts \/ Say(c)
  BY <1>6 DEF Client, AskToLogIn, AskForHistory, Leave
<1> QED
  BY <1>2, <1>3, <1>4, <1>5, <1>6, OrderTaken, OrderDelivered, OrderWalked DEF Next, Controller

\* The workers overtake each other by no more than their number: what is to be
\* sent and older than what a client has seen is in the hands of a worker, and
\* one worker holds nothing of the kind.
LEMMA OrderBounds ==
  ASSUME TypeOK, OrderInv
  PROVE  BoundedReordering
<1> SUFFICES ASSUME NEW c \in Clients, NEW k \in DOMAIN live[c]
             PROVE  Cardinality({i \in DOMAIN news : i < live[c][k] /\ Pending(c, i)})
                      <= Cardinality(Workers) - 1
  BY DEF BoundedReordering
<1> DEFINE n == live[c][k]
           late == {i \in DOMAIN news : i < n /\ Pending(c, i)}
           Has(w, i) == job[w] # NoJob /\ job[w].what = [type |-> "send", to |-> c, no |-> i]
<1>1. n \in DOMAIN news /\ DOMAIN news \subseteq Nat
  BY TypeFacts DEF OrderInv, LiveOrder
<1>2. PICK w0 \in Workers : Holds(w0) => job[w0].what.no >= n
  BY DEF OrderInv, LiveOrder
<1>3. \A i \in late : \E w \in Workers \ {w0} : Has(w, i)
  <2> SUFFICES ASSUME NEW i \in late PROVE \E w \in Workers \ {w0} : Has(w, i)
    OBVIOUS
  <2> DEFINE j == [type |-> "send", to |-> c, no |-> i]
  <2>1. i \in Nat /\ n \in Nat /\ i < n /\ Pending(c, i)
    BY <1>1
  <2>2. j.type = "send" /\ j.no = i
    OBVIOUS
  <2>3. ASSUME NEW q \in DOMAIN workersQ, workersQ[q] = j PROVE FALSE
    <3>1. n <= workersQ[q].no
      BY <2>2, <2>3 DEF OrderInv, QueueOrder
    <3> QED
      BY <2>1, <2>2, <2>3, <3>1
  <2>4. PICK w \in Workers : job[w] # NoJob /\ job[w].what = j
    BY <2>1, <2>3 DEF Pending
  <2>5. w # w0
    BY <1>2, <2>1, <2>2, <2>4 DEF Holds
  <2> QED
    BY <2>4, <2>5
<1>4. \A w \in Workers : \A i, l : Has(w, i) /\ Has(w, l) => i = l
  OBVIOUS
<1> HIDE DEF late, Has
<1> DEFINE f == [i \in late |-> CHOOSE w \in Workers \ {w0} : Has(w, i)]
<1>5. f \in [late -> Workers \ {w0}] /\ \A i \in late : Has(f[i], i)
  BY <1>3
<1>6. f \in Injection(late, Workers \ {w0})
  <2>1. \A i, l \in late : f[i] = f[l] => i = l
    BY <1>4, <1>5
  <2> QED
    BY <1>5, <2>1 DEF Injection, IsInjective
<1>7. IsFiniteSet(Workers \ {w0}) /\ Cardinality(Workers \ {w0}) = Cardinality(Workers) - 1
  BY FiniteAssumption, FS_RemoveElement
<1>8. Cardinality(late) <= Cardinality(Workers) - 1
  BY <1>6, <1>7, FS_Injection
<1> QED
  BY <1>8 DEF late

-----------------------------------------------------------------------------
(* The stamps of the texts. *)

\* The texts that are newer than one, and their number.
Newer(m) == {k \in messages : k.stamp > m.stamp}
Rank(m) == Cardinality(Newer(m))

\* Newest: a history that leaves out a text is full of newer ones.
LEMMA NewestFull ==
  ASSUME TypeOK, StoredStamps, NEW n \in Nat \ {0}, NEW m \in messages, m \notin Newest(n)
  PROVE  Cardinality(Newest(n)) = n /\ \A k \in Newest(n) : k.stamp > m.stamp
<1>1. /\ IsFiniteSet(messages)
      /\ \A k, l \in messages : k.stamp = l.stamp => k = l
      /\ \A k \in messages : k.stamp \in Int
  BY TextParts DEF StoredStamps, TypeOK
<1>2. \A k \in messages : IsFiniteSet(Newer(k)) /\ Rank(k) \in Nat
  <2> SUFFICES ASSUME NEW k \in messages PROVE IsFiniteSet(Newer(k)) /\ Rank(k) \in Nat
    OBVIOUS
  <2>1. Newer(k) \in SUBSET messages
    BY DEF Newer
  <2> QED
    BY <1>1, <2>1, FS_Subset, FS_CardinalityType DEF Rank
<1>3. ASSUME NEW k \in messages, NEW l \in messages, k.stamp > l.stamp PROVE Rank(k) < Rank(l)
  <2>1. Newer(k) \in SUBSET Newer(l) /\ k \in Newer(l) /\ k \notin Newer(k)
    BY <1>1, <1>3 DEF Newer
  <2>2. Rank(k) <= Rank(l) /\ Rank(k) # Rank(l)
    BY <1>2, <2>1, FS_Subset DEF Rank
  <2> QED
    BY <1>2, <2>2
<1>4. Newest(n) = {k \in messages : Rank(k) < n}
  BY DEF Newest, Newer, Rank
<1>5. \A k, l \in messages : Rank(k) < Rank(l) => k.stamp > l.stamp
  BY <1>1, <1>2, <1>3
<1>6. \A k \in Newest(n) : \A l \in messages \ Newest(n) : k.stamp > l.stamp
  BY <1>2, <1>4, <1>5
<1>7. Cardinality(Newest(n)) <= n
  <2> DEFINE f == [k \in Newest(n) |-> Rank(k)]
  <2>1. f \in [Newest(n) -> 0..(n - 1)]
    BY <1>2, <1>4
  <2>2. \A k, l \in Newest(n) : f[k] = f[l] => k = l
    BY <1>1, <1>2, <1>3, <1>4
  <2>3. f \in Injection(Newest(n), 0..(n - 1))
    BY <2>1, <2>2 DEF Injection, IsInjective
  <2>4. IsFiniteSet(0..(n - 1)) /\ Cardinality(0..(n - 1)) = n
    BY FS_Interval
  <2> QED
    BY <2>3, <2>4, FS_Injection
<1>8. PICK k \in messages \ Newest(n) : \A l \in messages \ Newest(n) : Rank(k) <= Rank(l)
  <2> DEFINE S == {Rank(l) : l \in messages \ Newest(n)}
  <2>1. S \subseteq Nat /\ S # {}
    BY <1>2
  <2>2. PICK r \in S : \A s \in S : r <= s
    BY <2>1, LeastNatural
  <2> QED
    BY <2>2
<1>9. Newer(k) = Newest(n)
  <2>1. \A l \in Newer(k) : l \in messages /\ Rank(l) < Rank(k)
    BY <1>3 DEF Newer
  <2>2. \A l \in Newer(k) : l \in Newest(n)
    BY <1>2, <1>8, <2>1
  <2>3. \A l \in Newest(n) : l \in Newer(k)
    BY <1>4, <1>6 DEF Newer
  <2> QED
    BY <2>2, <2>3
<1>10. Cardinality(Newest(n)) = Rank(k) /\ Rank(k) >= n
  BY <1>2, <1>4, <1>9 DEF Rank
<1>11. Cardinality(Newest(n)) = n
  BY <1>2, <1>7, <1>10
<1> QED
  BY <1>6, <1>11

\* A worker keeps the stamp it has made.
LEMMA StampSteps ==
  ASSUME TypeOK, RowsOK, [Next]_vars, NEW v \in Workers, Stamped(v)', ~StampText(v)
  PROVE  Stamped(v) /\ job'[v].stamp = job[v].stamp
<1> USE DEF clientVars, mgrVars, seenVars, ghostVars
<1>1. CASE job'[v] = job[v]
  BY <1>1 DEF Stamped
<1>2. ASSUME NEW w \in Workers, Worker(w), v # w PROVE job'[v] = job[v]
  BY <1>2, WorkerActs
<1>3. CASE Worker(v)
  <2>1. CASE job[v].what.type = "login" /\ \E p, u, n, s : Moves(v, p, u, n, s)
    BY <2>1 DEF Moves, Stamped
  <2>2. CASE Ends(v)
    BY <2>2 DEF Ends, Stamped
  <2>3. CASE Pop(v)
    BY <2>3, TakesJob DEF Takes, Stamped
  <2>4. CASE Deliver(v) \/ SendText(v) \/ BrowseHistory(v) \/ AnnounceLogin(v)
    BY <2>2, <2>4, OtherMoves, LoginMoves
  <2>5. CASE Select(v)
    BY <2>1, <2>2, <2>5, Selects DEF Select, At
  <2>6. CASE SelectMax(v)
    BY <2>1, <2>6, SelectsMax DEF SelectMax, At
  <2>7. CASE Insert(v)
    BY <2>1, <2>2, <2>7, Inserts DEF Insert, At
  <2>8. CASE Count(v) \/ Unlink(v) \/ Link(v) \/ SendStatus(v)
    BY <2>1, <2>8, LoginMoves DEF Count, Unlink, Link, SendStatus, At
  <2> QED
    BY <1>3, <2>3, <2>4, <2>5, <2>6, <2>7, <2>8 DEF Worker
<1>4. CASE (\E c \in Clients : Client(c)) \/ Listener \/ Controller \/ UNCHANGED vars
  BY <1>1, <1>4 DEF Client, AskToLogIn, AskForHistory, Say, Request, Leave, Listener, Drop,
                    AnnounceLogout, CountAtClose, Controller, Store, Walk, vars
<1> QED
  BY <1>1, <1>2, <1>3, <1>4 DEF Next

\* Steps that make and queue no text.
LEMMA StampsKept ==
  ASSUME TypeOK, StampInv, UNCHANGED <<messages, clock, storing>>,
         \/ UNCHANGED controllerQ
         \/ \E e \in Event : e.kind # "text" /\ controllerQ' = Append(controllerQ, e),
         \A v \in Workers : Stamped(v)' => Stamped(v) /\ job'[v].stamp = job[v].stamp
  PROVE  StampInv'
<1>1. /\ controllerQ # << >> => controllerQ' # << >>
      /\ \A i \in DOMAIN controllerQ' : controllerQ'[i].kind = "text" =>
           i \in DOMAIN controllerQ /\ controllerQ'[i] = controllerQ[i]
  <2>1. CASE UNCHANGED controllerQ
    BY <2>1
  <2>2. ASSUME NEW e \in Event, e.kind # "text", controllerQ' = Append(controllerQ, e)
        PROVE  <1>1!1 /\ <1>1!2
    <3>1. /\ Len(controllerQ) \in Nat /\ DOMAIN controllerQ = 1..Len(controllerQ)
          /\ DOMAIN controllerQ' = 1..(Len(controllerQ) + 1) /\ controllerQ' # << >>
          /\ controllerQ'[Len(controllerQ) + 1] = e
          /\ \A i \in DOMAIN controllerQ : controllerQ'[i] = controllerQ[i]
      BY <2>2, TypeFacts, AtEnd
    <3>2. \A i \in DOMAIN controllerQ' : i \in DOMAIN controllerQ \/ i = Len(controllerQ) + 1
      BY <3>1
    <3> QED
      BY <2>2, <3>1, <3>2
  <2> QED
    BY <2>1, <2>2
<1>2. StoredStamps'
  BY <1>1 DEF StampInv, StoredStamps
<1>3. QueuedStamps'
  <2> SUFFICES ASSUME NEW i \in DOMAIN controllerQ', controllerQ'[i].kind = "text"
               PROVE  /\ controllerQ'[i].text.stamp <= clock
                      /\ \A k \in DOMAIN controllerQ' :
                           controllerQ'[k].kind = "text"
                           /\ controllerQ'[k].text.stamp = controllerQ'[i].text.stamp => k = i
                      /\ \A m \in messages : m.stamp = controllerQ'[i].text.stamp => i = 1 /\ storing
    BY Zenon DEF QueuedStamps
  <2>1. i \in DOMAIN controllerQ /\ controllerQ'[i] = controllerQ[i]
    BY <1>1
  <2> QED
    BY <1>1, <2>1 DEF StampInv, QueuedStamps
<1>4. MadeStamps'
  <2> SUFFICES ASSUME NEW w \in Workers, Stamped(w)'
               PROVE  /\ job'[w].stamp <= clock
                      /\ \A v \in Workers : Stamped(v)' /\ job'[v].stamp = job'[w].stamp => v = w
                      /\ \A m \in messages : m.stamp # job'[w].stamp
                      /\ \A i \in DOMAIN controllerQ' :
                           controllerQ'[i].kind = "text" => controllerQ'[i].text.stamp # job'[w].stamp
    BY Zenon DEF MadeStamps, Stamped
  <2>1. Stamped(w) /\ job'[w].stamp = job[w].stamp
    OBVIOUS
  <2> QED
    BY <1>1, <2>1 DEF StampInv, MadeStamps
<1> QED
  BY <1>2, <1>3, <1>4 DEF StampInv

\* A new stamp is greater than all others.
LEMMA StampMade ==
  ASSUME TypeOK, RowsOK, StampInv, [Next]_vars, NEW w \in Workers, StampText(w)
  PROVE  StampInv'
<1>1. /\ Moves(w, "send", job[w].uid, job[w].count, clock + 1)
      /\ clock' = clock + 1 /\ clock \in Nat
      /\ UNCHANGED <<messages, controllerQ, storing>>
  BY OtherMoves, TypeFacts DEF StampText
<1>2. job'[w].stamp = clock + 1 /\ \A v \in Workers : v # w => job'[v] = job[v]
  BY <1>1 DEF Moves
<1>3. \A v \in Workers : v # w /\ Stamped(v)' => Stamped(v) /\ job'[v].stamp = job[v].stamp
  BY <1>2 DEF Stamped
<1>4. \A m \in messages : m.stamp \in Int
  BY TextParts DEF TypeOK
<1>5. \A i \in DOMAIN controllerQ : controllerQ[i].kind = "text" => controllerQ[i].text.stamp \in Int
  BY TypeFacts, EventParts, TextParts
<1>6. \A v \in Workers : Stamped(v) => job[v].stamp \in Nat
  BY InHand DEF Stamped
<1>7. \A x \in Int : x <= clock => x <= clock + 1 /\ x # clock + 1
  BY <1>1
<1>8. StoredStamps'
  BY <1>1, <1>4, <1>7 DEF StampInv, StoredStamps
<1>9. QueuedStamps'
  BY <1>1, <1>5, <1>7 DEF StampInv, QueuedStamps
<1>10. MadeStamps'
  <2> SUFFICES ASSUME NEW v \in Workers, Stamped(v)'
               PROVE  /\ job'[v].stamp <= clock'
                      /\ \A u \in Workers : Stamped(u)' /\ job'[u].stamp = job'[v].stamp => u = v
                      /\ \A m \in messages : m.stamp # job'[v].stamp
                      /\ \A i \in DOMAIN controllerQ :
                           controllerQ[i].kind = "text" => controllerQ[i].text.stamp # job'[v].stamp
    BY <1>1, Zenon DEF MadeStamps, Stamped
  <2>1. CASE v = w
    <3>1. /\ \A m \in messages : m.stamp # clock + 1
          /\ \A i \in DOMAIN controllerQ :
               controllerQ[i].kind = "text" => controllerQ[i].text.stamp # clock + 1
          /\ \A u \in Workers : Stamped(u) => job[u].stamp # clock + 1
      BY <1>4, <1>5, <1>6, <1>7 DEF StampInv, StoredStamps, QueuedStamps, MadeStamps
    <3> QED
      BY <1>1, <1>2, <1>3, <2>1, <3>1
  <2>2. CASE v # w
    <3>1. Stamped(v) /\ job'[v].stamp = job[v].stamp
      BY <1>3, <2>2
    <3>2. job[v].stamp <= clock /\ job[v].stamp \in Int
      BY <1>6, <3>1 DEF StampInv, MadeStamps
    <3> QED
      BY <1>1, <1>2, <1>3, <1>7, <2>2, <3>1, <3>2 DEF StampInv, MadeStamps
  <2> QED
    BY <2>1, <2>2
<1> QED
  BY <1>8, <1>9, <1>10 DEF StampInv

\* The stamp of a worker goes with its text into the queue.
LEMMA StampQueued ==
  ASSUME TypeOK, RowsOK, StampInv, [Next]_vars, NEW w \in Workers, SendText(w)
  PROVE  StampInv'
<1> DEFINE m == [of |-> job[w].what.of, n |-> job[w].what.n, stamp |-> job[w].stamp]
           e == [kind |-> "text", text |-> m]
           n == Len(controllerQ)
<1>1. /\ Stamped(w) /\ Ends(w) /\ e \in Event
      /\ controllerQ' = Append(controllerQ, e)
      /\ UNCHANGED <<messages, clock, storing>>
  BY OtherMoves, NewEvents DEF SendText, At, Stamped
<1>2. e.kind = "text" /\ e.text.stamp = job[w].stamp
  OBVIOUS
<1> HIDE DEF e, m
<1>3. /\ n \in Nat /\ DOMAIN controllerQ = 1..n /\ DOMAIN controllerQ' = 1..(n + 1)
      /\ controllerQ' # << >>
      /\ controllerQ'[n + 1] = e /\ \A i \in DOMAIN controllerQ : controllerQ'[i] = controllerQ[i]
  BY <1>1, TypeFacts, AtEnd
<1>4. \A i \in DOMAIN controllerQ' : i \in DOMAIN controllerQ \/ i = n + 1
  BY <1>3
<1>5. /\ job[w].stamp <= clock
      /\ \A v \in Workers : Stamped(v) /\ job[v].stamp = job[w].stamp => v = w
      /\ \A k \in messages : k.stamp # job[w].stamp
      /\ \A i \in DOMAIN controllerQ :
           controllerQ[i].kind = "text" => controllerQ[i].text.stamp # job[w].stamp
  BY <1>1 DEF StampInv, MadeStamps
<1>6. \A v \in Workers : Stamped(v)' => v # w /\ Stamped(v) /\ job'[v].stamp = job[v].stamp
  BY <1>1 DEF Ends, Stamped
<1> HIDE DEF n
<1>7. StoredStamps'
  BY <1>1, <1>3 DEF StampInv, StoredStamps
<1>8. QueuedStamps'
  <2> SUFFICES ASSUME NEW i \in DOMAIN controllerQ', controllerQ'[i].kind = "text"
               PROVE  /\ controllerQ'[i].text.stamp <= clock
                      /\ \A k \in DOMAIN controllerQ' :
                           controllerQ'[k].kind = "text"
                           /\ controllerQ'[k].text.stamp = controllerQ'[i].text.stamp => k = i
                      /\ \A l \in messages : l.stamp = controllerQ'[i].text.stamp => i = 1 /\ storing
    BY <1>1, Zenon DEF QueuedStamps
  <2>1. CASE i \in DOMAIN controllerQ
    BY <1>2, <1>3, <1>4, <1>5, <2>1 DEF StampInv, QueuedStamps
  <2>2. CASE i = n + 1
    BY <1>2, <1>3, <1>4, <1>5, <2>2
  <2> QED
    BY <1>4, <2>1, <2>2
<1>9. MadeStamps'
  <2> SUFFICES ASSUME NEW v \in Workers, Stamped(v)'
               PROVE  /\ job'[v].stamp <= clock
                      /\ \A u \in Workers : Stamped(u)' /\ job'[u].stamp = job'[v].stamp => u = v
                      /\ \A l \in messages : l.stamp # job'[v].stamp
                      /\ \A i \in DOMAIN controllerQ' :
                           controllerQ'[i].kind = "text" => controllerQ'[i].text.stamp # job'[v].stamp
    BY <1>1, Zenon DEF MadeStamps, Stamped
  <2>1. v # w /\ Stamped(v) /\ job'[v].stamp = job[v].stamp
    BY <1>6
  <2>2. job[v].stamp # job[w].stamp
    BY <1>5, <2>1
  <2>3. \A i \in DOMAIN controllerQ' :
          controllerQ'[i].kind = "text" => controllerQ'[i].text.stamp # job[v].stamp
    BY <1>2, <1>3, <1>4, <2>1, <2>2 DEF StampInv, MadeStamps
  <2> QED
    BY <1>6, <2>1, <2>3 DEF StampInv, MadeStamps
<1> QED
  BY <1>7, <1>8, <1>9 DEF StampInv

\* The first of the queue is stored, and then leaves it.
LEMMA StampStored ==
  ASSUME TypeOK, StampInv, Store
  PROVE  StampInv'
<1>1. /\ controllerQ # << >> /\ ~storing /\ storing'
      /\ UNCHANGED <<clock, job, controllerQ>>
      /\ Head(controllerQ) = controllerQ[1] /\ 1 \in DOMAIN controllerQ
  <2>1. /\ controllerQ # << >> /\ ~storing /\ storing'
        /\ UNCHANGED <<clock, job, controllerQ>>
    BY DEF Store
  <2> QED
    BY <2>1, TypeFacts, AtFront
<1>2. messages' = messages \/ (/\ controllerQ[1].kind = "text"
                               /\ messages' = messages \cup {controllerQ[1].text})
  BY <1>1 DEF Store
<1>3. \A m \in messages' : m \in messages \/ (controllerQ[1].kind = "text" /\ m = controllerQ[1].text)
  BY <1>2
<1>4. IsFiniteSet(messages')
  BY <1>2, FS_AddElement DEF StampInv, StoredStamps
<1>5. /\ controllerQ[1].kind = "text" => controllerQ[1].text.stamp <= clock
      /\ \A i \in DOMAIN controllerQ :
           /\ controllerQ[i].kind = "text" => \A m \in messages : m.stamp # controllerQ[i].text.stamp
           /\ /\ controllerQ[i].kind = "text" /\ controllerQ[1].kind = "text"
              /\ controllerQ[i].text.stamp = controllerQ[1].text.stamp
              => i = 1
  BY <1>1 DEF StampInv, QueuedStamps
<1>6. StoredStamps'
  <2>1. \A m \in messages' : m.stamp <= clock
    BY <1>3, <1>5 DEF StampInv, StoredStamps
  <2>2. \A m, k \in messages' : m.stamp = k.stamp => m = k
    BY <1>1, <1>3, <1>5 DEF StampInv, StoredStamps
  <2> QED
    BY <1>1, <1>4, <2>1, <2>2 DEF StoredStamps
<1>7. QueuedStamps'
  BY <1>1, <1>3, <1>5 DEF StampInv, QueuedStamps
<1>8. MadeStamps'
  <2> SUFFICES ASSUME NEW w \in Workers, Stamped(w)
               PROVE  /\ job[w].stamp <= clock
                      /\ \A v \in Workers : Stamped(v) /\ job[v].stamp = job[w].stamp => v = w
                      /\ \A m \in messages' : m.stamp # job[w].stamp
                      /\ \A i \in DOMAIN controllerQ :
                           controllerQ[i].kind = "text" => controllerQ[i].text.stamp # job[w].stamp
    BY <1>1 DEF MadeStamps, Stamped
  <2> QED
    BY <1>1, <1>3 DEF StampInv, MadeStamps
<1> QED
  BY <1>6, <1>7, <1>8 DEF StampInv

\* The walk takes the stored text out of the queue.
LEMMA StampWalked ==
  ASSUME TypeOK, StampInv, Walk
  PROVE  StampInv'
<1>1. /\ controllerQ # << >> /\ ~storing' /\ controllerQ' = Tail(controllerQ)
      /\ UNCHANGED <<clock, job, messages>>
  BY DEF Walk, StampInv, StoredStamps
<1>2. /\ \A i \in DOMAIN controllerQ' : i + 1 \in DOMAIN controllerQ /\ i + 1 # 1
                                        /\ controllerQ'[i] = controllerQ[i + 1]
      /\ \A i, k \in DOMAIN controllerQ' : i + 1 = k + 1 => i = k
  BY <1>1, TypeFacts, AtFront
<1>3. StoredStamps'
  BY <1>1 DEF StampInv, StoredStamps
<1>4. QueuedStamps'
  <2> SUFFICES ASSUME NEW i \in DOMAIN controllerQ', controllerQ'[i].kind = "text"
               PROVE  /\ controllerQ'[i].text.stamp <= clock
                      /\ \A k \in DOMAIN controllerQ' :
                           controllerQ'[k].kind = "text"
                           /\ controllerQ'[k].text.stamp = controllerQ'[i].text.stamp => k = i
                      /\ \A m \in messages : m.stamp # controllerQ'[i].text.stamp
    BY <1>1, Zenon DEF QueuedStamps
  <2>1. i + 1 \in DOMAIN controllerQ /\ i + 1 # 1 /\ controllerQ'[i] = controllerQ[i + 1]
    BY <1>2
  <2>2. /\ controllerQ[i + 1].text.stamp <= clock
        /\ \A k \in DOMAIN controllerQ :
             controllerQ[k].kind = "text" /\ controllerQ[k].text.stamp = controllerQ[i + 1].text.stamp
             => k = i + 1
        /\ \A m \in messages : m.stamp # controllerQ[i + 1].text.stamp
    BY <2>1 DEF StampInv, QueuedStamps
  <2>3. \A k \in DOMAIN controllerQ' :
          controllerQ'[k].kind = "text"
          /\ controllerQ'[k].text.stamp = controllerQ'[i].text.stamp => k + 1 = i + 1
    BY <1>2, <2>1, <2>2
  <2> QED
    BY <1>2, <2>1, <2>2, <2>3
<1>5. MadeStamps'
  <2> SUFFICES ASSUME NEW w \in Workers, Stamped(w)
               PROVE  /\ job[w].stamp <= clock
                      /\ \A v \in Workers : Stamped(v) /\ job[v].stamp = job[w].stamp => v = w
                      /\ \A m \in messages : m.stamp # job[w].stamp
                      /\ \A i \in DOMAIN controllerQ' :
                           controllerQ'[i].kind = "text" => controllerQ'[i].text.stamp # job[w].stamp
    BY <1>1 DEF MadeStamps, Stamped
  <2> QED
    BY <1>2 DEF StampInv, MadeStamps
<1> QED
  BY <1>3, <1>4, <1>5 DEF StampInv

\* A step keeps the stamps apart.
LEMMA StampStep ==
  ASSUME TypeOK, RowsOK, StampInv, [Next]_vars
  PROVE  StampInv'
<1> USE DEF clientVars, mgrVars, seenVars, ghostVars
<1>1. ASSUME NEW w \in Workers, StampText(w) PROVE StampInv'
  BY <1>1, StampMade
<1>2. ASSUME NEW w \in Workers, SendText(w) PROVE StampInv'
  BY <1>2, StampQueued
<1>3. CASE /\ UNCHANGED <<messages, clock, storing>>
           /\ \/ UNCHANGED controllerQ
              \/ \E e \in Event : e.kind # "text" /\ controllerQ' = Append(controllerQ, e)
           /\ \A v \in Workers : ~StampText(v)
  BY <1>3, StampSteps, StampsKept
<1>4. ASSUME NEW w \in Workers, Worker(w), ~StampText(w) PROVE \A v \in Workers : ~StampText(v)
  <2>1. ASSUME NEW v \in Workers, StampText(v) PROVE FALSE
    <3>1. v # w /\ Worker(v) /\ job'[v] = job[v]
      BY <1>4, <2>1, WorkerActs DEF Worker
    <3> QED
      BY <3>1, WorkerActs
  <2> QED
    BY <2>1
<1>5. ASSUME NEW w \in Workers, AnnounceLogin(w) PROVE StampInv'
  <2>1. [kind |-> "in", uid |-> job[w].uid] \in Event /\ ~StampText(w) /\ Worker(w)
    BY <1>5, NewEvents DEF AnnounceLogin, StampText, At, Worker
  <2> QED
    BY <1>3, <1>4, <1>5, <2>1 DEF AnnounceLogin
<1>6. ASSUME NEW w \in Workers, Worker(w), ~StampText(w), ~SendText(w), ~AnnounceLogin(w)
      PROVE  StampInv'
  <2>1. UNCHANGED <<messages, clock, storing, controllerQ>>
    BY <1>6 DEF Worker, Pop, Deliver, BrowseHistory, Select, SelectMax, Insert, Count, Unlink,
                Link, SendStatus
  <2> QED
    BY <1>3, <1>4, <1>6, <2>1
<1>7. UNCHANGED clock => \A v \in Workers : ~StampText(v)
  BY TypeFacts DEF StampText
<1>8. CASE AnnounceLogout
  <2>1. closing \in Closing
    BY <1>8 DEF AnnounceLogout, TypeOK
  <2>2. [kind |-> "out", uid |-> closing.uid] \in Event
    BY <2>1, ClosingParts DEF Event
  <2> QED
    BY <1>3, <1>7, <1>8, <2>2 DEF AnnounceLogout
<1>9. CASE (\E c \in Clients : Client(c)) \/ Drop \/ (\E c \in Clients : CountAtClose(c))
           \/ UNCHANGED vars
  <2>1. UNCHANGED <<messages, clock, storing, controllerQ>>
    BY <1>9 DEF Client, AskToLogIn, AskForHistory, Say, Request, Leave, Drop, CountAtClose, vars
  <2> QED
    BY <1>3, <1>7, <2>1
<1> QED
  BY <1>1, <1>2, <1>5, <1>6, <1>8, <1>9, StampStored, StampWalked DEF Next, Listener, Controller


-----------------------------------------------------------------------------
(* No text is missed. *)

\* The news only grow.
LEMMA NewsStay ==
  ASSUME TypeOK, StoredStamps, [Next]_vars
  PROVE  \A i \in DOMAIN news : i \in DOMAIN news' /\ news'[i] = news[i]
<1> USE DEF clientVars, mgrVars, seenVars, ghostVars
<1>1. CASE UNCHANGED news
  BY <1>1
<1>2. CASE Walk
  <2>1. controllerQ # << >> /\ news' = Append(news, Head(controllerQ))
    BY <1>2 DEF Walk, StoredStamps
  <2>2. Head(controllerQ) \in Event
    BY <2>1, TypeFacts, AtFront
  <2>3. /\ DOMAIN news = 1..Len(news) /\ Len(news) \in Nat /\ DOMAIN news' = 1..(Len(news) + 1)
        /\ \A i \in DOMAIN news : news'[i] = news[i]
    BY <2>1, <2>2, TypeFacts, AtEnd
  <2> QED
    BY <2>3
<1>3. ~Walk => UNCHANGED news
  BY DEF Next, Client, AskToLogIn, AskForHistory, Say, Request, Leave, Worker, Pop, Deliver,
         BrowseHistory, StampText, SendText, Select, SelectMax, Insert, Count, Unlink, Link,
         SendStatus, AnnounceLogin, Listener, Drop, AnnounceLogout, CountAtClose, Controller,
         Store, vars
<1> QED
  BY <1>1, <1>2, <1>3

\* What a client has seen only grows.
LEMMA LiveStays ==
  ASSUME TypeOK, [Next]_vars, NEW c \in Clients
  PROVE  \A i \in DOMAIN live[c] : i \in DOMAIN live'[c] /\ live'[c][i] = live[c][i]
<1> USE DEF clientVars, mgrVars, seenVars, ghostVars
<1>1. CASE UNCHANGED live
  BY <1>1
<1>2. ASSUME NEW w \in Workers, Deliver(w)
      PROVE  \A i \in DOMAIN live[c] : i \in DOMAIN live'[c] /\ live'[c][i] = live[c][i]
  <2> DEFINE q == job[w].what
             l == live[c]
  <2>1. /\ q \in What /\ q.to \in Clients /\ q.no \in Nat
        /\ live \in [Clients -> Seq(Nat)]
        /\ live' = [live EXCEPT ![q.to] = Append(live[q.to], q.no)]
    BY <1>2, InHand, WhatParts DEF Deliver, At, TypeOK
  <2> HIDE DEF q
  <2>2. CASE q.to # c
    BY <2>1, <2>2
  <2>3. CASE q.to = c
    <3>1. l \in Seq(Nat) /\ live'[c] = Append(l, q.no)
      BY <2>1, <2>3
    <3> HIDE DEF l
    <3>2. /\ Len(l) \in Nat /\ DOMAIN l = 1..Len(l) /\ DOMAIN Append(l, q.no) = 1..(Len(l) + 1)
          /\ \A i \in DOMAIN l : Append(l, q.no)[i] = l[i]
      BY <2>1, <3>1, AtEnd
    <3>3. \A i \in DOMAIN l : i \in DOMAIN Append(l, q.no)
      BY <3>2
    <3> QED
      BY <3>1, <3>2, <3>3 DEF l
  <2> QED
    BY <2>2, <2>3
<1>3. (\A w \in Workers : ~Deliver(w)) => UNCHANGED live
  BY DEF Next, Client, AskToLogIn, AskForHistory, Say, Request, Leave, Worker, Pop,
         BrowseHistory, StampText, SendText, Select, SelectMax, Insert, Count, Unlink, Link,
         SendStatus, AnnounceLogin, Listener, Drop, AnnounceLogout, CountAtClose, Controller,
         Store, Walk, vars
<1> QED
  BY <1>1, <1>2, <1>3

\* The event that the controller has stored stays the first until it is walked.
LEMMA HeadStays ==
  ASSUME TypeOK, [Next]_vars, storing, controllerQ # << >>, ~Walk
  PROVE  storing' /\ controllerQ' # << >> /\ Head(controllerQ') = Head(controllerQ)
<1> USE DEF clientVars, mgrVars, seenVars, ghostVars
<1>1. ASSUME NEW e \in Event, controllerQ' = Append(controllerQ, e)
      PROVE  controllerQ' # << >> /\ Head(controllerQ') = Head(controllerQ)
  BY <1>1, TypeFacts
<1>2. UNCHANGED controllerQ \/ \E e \in Event : controllerQ' = Append(controllerQ, e)
  <2>1. ASSUME NEW w \in Workers, SendText(w) PROVE <1>2
    BY <2>1, NewEvents DEF SendText, At
  <2>2. ASSUME NEW w \in Workers, AnnounceLogin(w) PROVE <1>2
    BY <2>2, NewEvents DEF AnnounceLogin, At
  <2>3. CASE AnnounceLogout
    <3>1. closing \in Closing
      BY <2>3 DEF AnnounceLogout, TypeOK
    <3>2. [kind |-> "out", uid |-> closing.uid] \in Event
      BY <3>1, ClosingParts DEF Event
    <3> QED
      BY <2>3, <3>2 DEF AnnounceLogout
  <2>4. \/ UNCHANGED controllerQ \/ AnnounceLogout
        \/ \E w \in Workers : SendText(w) \/ AnnounceLogin(w)
    BY DEF Next, Client, AskToLogIn, AskForHistory, Say, Request, Leave, Worker, Pop, Deliver,
           BrowseHistory, StampText, Select, SelectMax, Insert, Count, Unlink, Link,
           SendStatus, Listener, Drop, CountAtClose, Controller, Store, vars
  <2> QED
    BY <2>1, <2>2, <2>3, <2>4
<1>3. storing'
  BY DEF Next, Client, AskToLogIn, AskForHistory, Say, Request, Leave, Worker, Pop, Deliver,
         BrowseHistory, StampText, SendText, Select, SelectMax, Insert, Count, Unlink, Link,
         SendStatus, AnnounceLogin, Listener, Drop, AnnounceLogout, CountAtClose, Controller,
         Store, vars
<1> QED
  BY <1>1, <1>2, <1>3

\* What is to be sent stays in the queue or with a worker until it is delivered.
LEMMA PendingStep ==
  ASSUME TypeOK, RowsOK, [Next]_vars, NEW c \in Clients, NEW i \in Nat, Pending(c, i)
  PROVE  \/ Pending(c, i)'
         \/ \E w \in Workers : Deliver(w) /\ job[w].what = [type |-> "send", to |-> c, no |-> i]
<1> USE DEF clientVars, mgrVars, seenVars, ghostVars
<1> DEFINE j == [type |-> "send", to |-> c, no |-> i]
<1>1. ASSUME NEW w \in Workers, job[w] # NoJob, job[w].what = j, ~Deliver(w)
      PROVE  Pending(c, i)'
  <2>1. Holds(w)
    BY <1>1 DEF Holds
  <2>2. job'[w] # NoJob /\ job'[w].what = j
    BY <1>1, <2>1, HoldSteps DEF Holds
  <2> QED
    BY <2>2 DEF Pending
<1>2. ASSUME NEW k \in DOMAIN workersQ, workersQ[k] = j, NEW w \in Workers, Pop(w)
      PROVE  Pending(c, i)'
  <2> HIDE DEF j
  <2>1. /\ Takes(w) /\ workersQ # << >> /\ workersQ' = Tail(workersQ)
    BY <1>2, TakesJob
  <2>2. /\ job'[w] # NoJob /\ job'[w].what = workersQ[1]
        /\ Len(workersQ) \in Nat \ {0} /\ DOMAIN workersQ = 1..Len(workersQ)
        /\ DOMAIN workersQ' = 1..(Len(workersQ) - 1)
        /\ \A l \in DOMAIN workersQ' : workersQ'[l] = workersQ[l + 1]
    BY <2>1, TypeFacts, AtFront DEF Takes
  <2>3. CASE k = 1
    BY <1>2, <2>2, <2>3 DEF Pending, j
  <2>4. CASE k # 1
    <3>1. k - 1 \in DOMAIN workersQ' /\ (k - 1) + 1 = k
      BY <2>2, <2>4
    <3>2. workersQ'[k - 1] = j
      BY <1>2, <2>2, <3>1
    <3> QED
      BY <3>1, <3>2 DEF Pending, j
  <2> QED
    BY <2>3, <2>4
<1>3. ASSUME NEW k \in DOMAIN workersQ, workersQ[k] = j,
             \/ UNCHANGED workersQ
             \/ \E q \in What : workersQ' = Append(workersQ, q)
             \/ \E new \in Seq(What) : workersQ' = workersQ \o new
      PROVE  Pending(c, i)'
  <2> HIDE DEF j
  <2>1. k \in DOMAIN workersQ' /\ workersQ'[k] = workersQ[k]
    <3>1. CASE UNCHANGED workersQ
      BY <3>1
    <3>2. ASSUME NEW q \in What, workersQ' = Append(workersQ, q) PROVE <2>1
      <4>1. /\ DOMAIN workersQ = 1..Len(workersQ) /\ Len(workersQ) \in Nat
            /\ DOMAIN workersQ' = 1..(Len(workersQ) + 1) /\ workersQ'[k] = workersQ[k]
        BY <3>2, TypeFacts, AtEnd
      <4> QED
        BY <4>1
    <3>3. ASSUME NEW new \in Seq(What), workersQ' = workersQ \o new PROVE <2>1
      <4>1. /\ DOMAIN workersQ = 1..Len(workersQ) /\ Len(workersQ) \in Nat /\ Len(new) \in Nat
            /\ DOMAIN workersQ' = 1..(Len(workersQ) + Len(new)) /\ workersQ'[k] = workersQ[k]
        BY <3>3, TypeFacts, Behind
      <4> QED
        BY <4>1
    <3> QED
      BY <1>3, <3>1, <3>2, <3>3
  <2> QED
    BY <1>3, <2>1 DEF Pending, j
<1>4. \/ UNCHANGED workersQ
      \/ \E q \in What : workersQ' = Append(workersQ, q)
      \/ \E new \in Seq(What) : workersQ' = workersQ \o new
      \/ \E w \in Workers : Pop(w)
  <2>1. ASSUME NEW b \in Clients, AskToLogIn(b) \/ AskForHistory(b) PROVE <1>4
    BY <2>1, NewWork DEF AskToLogIn, AskForHistory, Request
  <2>2. ASSUME NEW b \in Clients, Say(b) PROVE <1>4
    <3>1. texts[b] \in Nat
      BY DEF TypeOK
    <3>2. texts[b] + 1 \in Nat
      BY <3>1
    <3>3. [type |-> "text", of |-> b, n |-> texts[b] + 1] \in What
      BY <3>2, NewWork
    <3> QED
      BY <2>2, <3>3 DEF Say, Request
  <2>3. CASE Walk
    BY <2>3, WalkAdds
  <2>4. \/ UNCHANGED workersQ \/ Walk \/ \E w \in Workers : Pop(w)
        \/ \E b \in Clients : AskToLogIn(b) \/ AskForHistory(b) \/ Say(b)
    BY DEF Next, Client, Leave, Worker, Deliver,
           BrowseHistory, StampText, SendText, Select, SelectMax, Insert, Count, Unlink, Link,
           SendStatus, AnnounceLogin, Listener, Drop, AnnounceLogout, CountAtClose, Controller,
           Store, vars
  <2> QED
    BY <2>1, <2>2, <2>3, <2>4
<1>5. \/ \E k \in DOMAIN workersQ : workersQ[k] = j
      \/ \E w \in Workers : job[w] # NoJob /\ job[w].what = j
  BY DEF Pending
<1> HIDE DEF j
<1>6. CASE \E k \in DOMAIN workersQ : workersQ[k] = j
  BY <1>2, <1>3, <1>4, <1>6
<1>7. CASE \E w \in Workers : job[w] # NoJob /\ job[w].what = j
  BY <1>1, <1>7 DEF j
<1> QED
  BY <1>5, <1>6, <1>7

\* A client that attends and has a history attended before, for a history is asked for
\* again after each login that succeeds.
LEMMA Attended ==
  ASSUME TypeOK, OneRequest, RowsOK, StateInv, [Next]_vars, NEW c \in Clients,
         Attends(c)', history'[c] # NotAnswered
  PROVE  Attends(c)
<1> USE DEF clientVars, mgrVars, seenVars, ghostVars
<1>1. ASSUME NEW b \in Clients, Client(b) PROVE Attends(c)
  <2>1. UNCHANGED job
    BY <1>1 DEF Client, AskToLogIn, AskForHistory, Say, Request, Leave
  <2>2. (\A w \in Workers : LogsIn(w, {"link", "status"})' => job'[w].what.of # c)
        <=> \A w \in Workers : LogsIn(w, {"link", "status"}) => job[w].what.of # c
    BY <2>1 DEF LogsIn
  <2>3. state \in [Clients -> {"new", "asked", "granted", "in", "refused", "left"}]
        /\ history \in [Clients -> (SUBSET Text) \cup {NotAnswered}]
    BY DEF TypeOK
  <2>4. CASE AskToLogIn(b) /\ b = c
    <3>1. state[c] \in {"new", "refused", "in"} /\ history[c] # NotAnswered
      BY <2>4 DEF AskToLogIn
    <3> QED
      BY <3>1 DEF StateInv, ClientState, ClientFits, Attends
  <2>5. CASE AskForHistory(b) /\ b = c
    BY <2>3, <2>5 DEF AskForHistory
  <2>6. CASE ~(AskToLogIn(b) /\ b = c) /\ ~(AskForHistory(b) /\ b = c)
    <3>1. state'[c] = state[c] \/ state'[c] = "left"
      BY <1>1, <2>3, <2>6 DEF Client, AskToLogIn, AskForHistory, Say, Leave
    <3> QED
      BY <2>2, <3>1 DEF Attends
  <2> QED
    BY <2>4, <2>5, <2>6
<1>2. ASSUME NEW w \in Workers, Worker(w) PROVE Attends(c)
  <2>1. \A v \in Workers : v # w => job'[v] = job[v]
    BY <1>2, WorkerActs
  <2>2. ASSUME ~(LogsIn(w, {"link", "status"}) /\ job[w].what.of = c), state[c] = "asked", state'[c] = "asked"
        PROVE  Attends(c)
    <3>1. \A v \in Workers : v # w => ~(LogsIn(v, {"link", "status"}) /\ job[v].what.of = c)
      BY <2>1, <2>2 DEF Attends, LogsIn
    <3> QED
      BY <2>2, <3>1 DEF Attends
  <2>3. ASSUME Serves(w, c), ~LogsIn(w, {"link", "status"}), state[c] = "asked" PROVE Attends(c)
    <3>1. \A v \in Workers : LogsIn(v, {"link", "status"}) /\ job[v].what.of = c => Serves(v, c)
      BY DEF LogsIn, Serves, Asks
    <3> QED
      BY <2>3, <3>1 DEF OneRequest, ServedOnce, Attends
  <2>4. CASE UNCHANGED state /\ ~(LogsIn(w, {"link", "status"}) /\ job[w].what.of = c)
    BY <2>2, <2>4 DEF Attends
  <2>5. CASE job[w] # NoJob /\ Asks(job[w].what) /\ \E s : Answer(job[w].what.of, s)
             /\ job[w].what.of # c
    <3>1. state'[c] = state[c]
      BY <2>5, InHand, Answers
    <3> QED
      BY <2>2, <2>5, <3>1 DEF Attends
  <2>6. CASE Pop(w) \/ Deliver(w) \/ StampText(w) \/ SelectMax(w) \/ Count(w) \/ Unlink(w)
             \/ BrowseHistory(w) \/ SendText(w) \/ AnnounceLogin(w)
    <3>1. UNCHANGED state
      BY <2>6 DEF Pop, Deliver, StampText, SelectMax, Count, Unlink, BrowseHistory,
                  SendText, AnnounceLogin
    <3>2. ~LogsIn(w, {"link", "status"})
      BY <2>6 DEF Pop, Deliver, StampText, SelectMax, Count, Unlink, BrowseHistory,
                  SendText, AnnounceLogin, At, LogsIn
    <3> QED
      BY <2>4, <3>1, <3>2
  <2>7. CASE Link(w)
    <3>1. UNCHANGED state /\ LogsIn(w, {"link"})
      BY <2>7 DEF Link, At, LogsIn
    <3>2. CASE job[w].what.of # c
      BY <2>4, <3>1, <3>2
    <3>3. CASE job[w].what.of = c
      <4>1. LogsIn(w, {"link", "status"})' /\ job'[w].what.of = c
        BY <2>7, <3>1, <3>3, LoginMoves DEF Moves, LogsIn
      <4>2. state[c] = "asked"
        BY <3>1, <3>3 DEF StateInv, JobState, JobFits, LogsIn, Before
      <4> QED
        BY <3>1, <4>1, <4>2 DEF Attends
    <3> QED
      BY <3>2, <3>3
  <2>8. CASE SendStatus(w)
    <3>1. job[w] # NoJob /\ Asks(job[w].what) /\ Answer(job[w].what.of, "ok")
      BY <2>8 DEF SendStatus, At, Asks
    <3>2. job[w].what.of # c
      <4> SUFFICES ASSUME job[w].what.of = c PROVE FALSE
        OBVIOUS
      <4>1. state'[c] = "granted"
        BY <3>1 DEF Answer, TypeOK
      <4> QED
        BY <4>1 DEF Attends
    <3> QED
      BY <2>5, <3>1, <3>2
  <2>9. CASE Select(w) \/ Insert(w)
    <3>1. /\ job[w] # NoJob /\ Asks(job[w].what) /\ ~LogsIn(w, {"link", "status"})
          /\ job[w].what.type = "login" /\ job[w].pc \in Before
          /\ UNCHANGED state \/ \E s : Answer(job[w].what.of, s)
      BY <2>9 DEF Select, Insert, At, Asks, LogsIn, Before, Register, Refuse
    <3>2. CASE job[w].what.of = c
      <4>1. Serves(w, c) /\ state[c] = "asked"
        BY <3>1, <3>2 DEF Serves, StateInv, JobState, JobFits
      <4> QED
        BY <2>3, <3>1, <4>1
    <3>3. CASE job[w].what.of # c
      BY <2>4, <2>5, <3>1, <3>3
    <3> QED
      BY <3>2, <3>3
  <2> QED
    BY <1>2, <2>6, <2>7, <2>8, <2>9 DEF Worker
<1>3. CASE Listener \/ Controller \/ UNCHANGED vars
  <2>1. UNCHANGED <<state, job>>
    BY <1>3 DEF Listener, Drop, AnnounceLogout, CountAtClose, Controller, Store, Walk, vars
  <2> QED
    BY <2>1 DEF Attends, LogsIn
<1> QED
  BY <1>1, <1>2, <1>3 DEF Next

\* The histories and the texts change by one action each.
LEMMA HistoryStays ==
  ASSUME TypeOK, [Next]_vars, NEW c \in Clients
  PROVE  /\ history'[c] = history[c] \/ history'[c] = NotAnswered
            \/ (history'[c] = Newest(HistoryLength) /\ messages' = messages)
         /\ \A m \in messages' \ messages :
              storing' /\ Head(controllerQ') = [kind |-> "text", text |-> m]
<1> USE DEF clientVars, mgrVars, seenVars, ghostVars
<1>1. ASSUME NEW w \in Workers, BrowseHistory(w)
      PROVE  /\ history'[c] = history[c] \/ history'[c] = Newest(HistoryLength)
             /\ messages' = messages
  <2>1. job[w].what.of \in Clients /\ history \in [Clients -> (SUBSET Text) \cup {NotAnswered}]
    BY <1>1, InHand DEF BrowseHistory, At, Asks, TypeOK
  <2> QED
    BY <1>1, <2>1 DEF BrowseHistory
<1>2. CASE Store
  <2>1. Head(controllerQ) \in Event
    BY <1>2, TypeFacts, AtFront DEF Store
  <2> QED
    BY <1>2, <2>1, EventParts DEF Store
<1>3. ASSUME NEW b \in Clients, AskForHistory(b)
      PROVE  (history'[c] = history[c] \/ history'[c] = NotAnswered) /\ messages' = messages
  <2>1. history \in [Clients -> (SUBSET Text) \cup {NotAnswered}]
    BY DEF TypeOK
  <2> QED
    BY <1>3, <2>1 DEF AskForHistory, Request
<1>4. \/ UNCHANGED <<history, messages>>
      \/ Store
      \/ \E w \in Workers : BrowseHistory(w)
      \/ \E b \in Clients : AskForHistory(b)
  BY DEF Next, Client, AskToLogIn, Say, Request, Leave, Worker, Pop, Deliver,
         StampText, SendText, Select, SelectMax, Insert, Count, Unlink, Link,
         SendStatus, AnnounceLogin, Listener, Drop, AnnounceLogout, CountAtClose, Controller,
         Walk, vars
<1> QED
  BY <1>1, <1>2, <1>3, <1>4

\* What a client was shown stays shown, and what is on its way arrives.
LEMMA Arrives ==
  ASSUME TypeOK, RowsOK, StateInv, OrderInv, StoredStamps, [Next]_vars, NEW c \in Clients, NEW m,
         Attends(c), history'[c] = history[c], Shown(c, m) \/ OnItsWay(c, m)
  PROVE  Shown(c, m)' \/ OnItsWay(c, m)'
<1> DEFINE e == [kind |-> "text", text |-> m]
<1>1. CASE m \in history[c]
  BY <1>1 DEF Shown
<1>2. ASSUME NEW i \in DOMAIN live[c], news[live[c][i]] = e PROVE Shown(c, m)'
  <2> HIDE DEF e
  <2>1. i \in DOMAIN live'[c] /\ live'[c][i] = live[c][i]
    BY LiveStays
  <2>2. live[c][i] \in DOMAIN news
    BY DEF OrderInv, LiveOrder
  <2>3. news'[live'[c][i]] = e
    BY <1>2, <2>1, <2>2, NewsStay
  <2> QED
    BY <2>1, <2>3 DEF Shown, e
<1>3. CASE storing /\ Head(controllerQ) = e /\ ~Walk
  <2>1. controllerQ # << >>
    BY <1>3 DEF StoredStamps
  <2>2. storing' /\ Head(controllerQ') = e
    BY <1>3, <2>1, HeadStays
  <2> QED
    BY <2>2 DEF OnItsWay
<1>4. CASE storing /\ Head(controllerQ) = e /\ Walk
  <2> DEFINE n == Len(news) + 1
  <2> HIDE DEF e
  <2>1. c \in listed
    BY DEF Attends, StateInv, ClientState, ClientFits, JobState, JobFits, LogsIn, Before
  <2>2. PICK new \in Seq(What) :
          /\ workersQ' = workersQ \o new
          /\ \E i \in DOMAIN new : new[i] = [type |-> "send", to |-> c, no |-> n]
    BY <1>4, <2>1, WalkAdds
  <2>3. PICK i \in DOMAIN new : new[i] = [type |-> "send", to |-> c, no |-> n]
    BY <2>2
  <2>4. /\ DOMAIN workersQ' = 1..(Len(workersQ) + Len(new)) /\ Len(workersQ) \in Nat /\ Len(new) \in Nat
        /\ DOMAIN new = 1..Len(new)
        /\ workersQ'[Len(workersQ) + i] = new[i]
    BY <2>2, TypeFacts, Behind
  <2>5. Len(workersQ) + i \in DOMAIN workersQ'
    BY <2>4
  <2>6. controllerQ # << >> /\ news' = Append(news, Head(controllerQ)) /\ Head(controllerQ) \in Event
    <3>1. controllerQ # << >> /\ news' = Append(news, Head(controllerQ))
      BY <1>4 DEF Walk, StoredStamps
    <3> QED
      BY <3>1, TypeFacts, AtFront
  <2>7. n \in DOMAIN news' /\ news'[n] = e
    <3>1. DOMAIN news' = 1..(Len(news) + 1) /\ news'[Len(news) + 1] = Head(controllerQ)
      BY <2>6, TypeFacts, AtEnd
    <3> QED
      BY <1>4, <3>1, TypeFacts
  <2>8. \E k \in DOMAIN workersQ' : workersQ'[k] = [type |-> "send", to |-> c, no |-> n]
    BY <2>3, <2>4, <2>5
  <2> HIDE DEF n
  <2> QED
    BY <2>7, <2>8 DEF OnItsWay, Pending, e
<1>5. ASSUME NEW i \in DOMAIN news, news[i] = e, Pending(c, i)
      PROVE  Shown(c, m)' \/ OnItsWay(c, m)'
  <2> HIDE DEF e
  <2>1. i \in Nat /\ i \in DOMAIN news' /\ news'[i] = e
    BY <1>5, NewsStay, TypeFacts
  <2>2. CASE Pending(c, i)'
    BY <2>1, <2>2 DEF OnItsWay, e
  <2>3. ASSUME NEW w \in Workers, Deliver(w),
               job[w].what = [type |-> "send", to |-> c, no |-> i]
        PROVE  Shown(c, m)'
    <3>1. job[w].what.to = c /\ job[w].what.no = i
      BY <2>3
    <3>2. live' = [live EXCEPT ![c] = Append(live[c], i)] /\ live \in [Clients -> Seq(Nat)]
      BY <2>3, <3>1 DEF Deliver, TypeOK
    <3> DEFINE l == live[c]
    <3>3. l \in Seq(Nat) /\ live'[c] = Append(l, i)
      BY <3>2
    <3> HIDE DEF l
    <3>4. /\ DOMAIN Append(l, i) = 1..(Len(l) + 1) /\ Len(l) \in Nat
          /\ Append(l, i)[Len(l) + 1] = i
      BY <2>1, <3>3, AtEnd
    <3>5. Len(l) + 1 \in DOMAIN live'[c] /\ live'[c][Len(l) + 1] = i
      BY <3>3, <3>4
    <3> QED
      BY <2>1, <3>5 DEF Shown, e
  <2> QED
    BY <1>5, <2>1, <2>2, <2>3, PendingStep
<1> QED
  BY <1>1, <1>2, <1>3, <1>4, <1>5 DEF Shown, OnItsWay

\* A step misses no text.
LEMMA MissedStep ==
  ASSUME TypeOK, OneRequest, RowsOK, StateInv, OrderInv, StoredStamps, AttendsAll, [Next]_vars
  PROVE  AttendsAll'
<1> DEFINE Full(c, m) == /\ Cardinality(history[c]) = HistoryLength
                         /\ \A k \in history[c] : k.stamp > m.stamp
<1> SUFFICES ASSUME NEW c \in Clients, NEW m \in messages',
                    Attends(c)', history'[c] # NotAnswered
             PROVE  Shown(c, m)' \/ OnItsWay(c, m)' \/ Full(c, m)'
  BY Zenon DEF AttendsAll
<1>1. CASE history'[c] # history[c]
  <2>1. history'[c] = Newest(HistoryLength) /\ m \in messages
    BY <1>1, HistoryStays
  <2>2. CASE m \in Newest(HistoryLength)
    BY <2>1, <2>2 DEF Shown
  <2>3. CASE m \notin Newest(HistoryLength)
    <3>1. /\ Cardinality(Newest(HistoryLength)) = HistoryLength
          /\ \A k \in Newest(HistoryLength) : k.stamp > m.stamp
      BY <2>1, <2>3, NewestFull, LengthAssumption
    <3> QED
      BY <2>1, <3>1
  <2> QED
    BY <2>2, <2>3
<1>2. CASE history'[c] = history[c] /\ m \notin messages
  BY <1>2, HistoryStays DEF OnItsWay
<1>3. CASE history'[c] = history[c] /\ m \in messages
  <2>1. Attends(c)
    BY Attended
  <2>2. Shown(c, m) \/ OnItsWay(c, m) \/ Full(c, m)
    BY <1>3, <2>1 DEF AttendsAll
  <2>3. CASE Full(c, m)
    BY <1>3, <2>3
  <2>4. CASE Shown(c, m) \/ OnItsWay(c, m)
    BY <1>3, <2>1, <2>4, Arrives
  <2> QED
    BY <2>2, <2>3, <2>4
<1> QED
  BY <1>1, <1>2, <1>3

-----------------------------------------------------------------------------
(* The invariant. *)

\* IInv holds initially.
LEMMA Initially ==
  ASSUME Init
  PROVE  IInv
<1>1. PICK old \in {{}} \cup {{Row(RootUid + 1, k)} : k \in OldAccounts} :
        users = {Row(RootUid, [login |-> "root", password |-> "root"])} \cup old
  BY DEF Init
<1> DEFINE root == Row(RootUid, [login |-> "root", password |-> "root"])
<1>2. /\ root = [uid |-> 1, login |-> "root", password |-> "root"]
      /\ \/ old = {}
         \/ \E k \in OldAccounts :
              old = {[uid |-> 2, login |-> k.login, password |-> k.password]}
  BY DEF Row, RootUid
<1>3. \A r \in users :
        \/ r = root
        \/ \E k \in OldAccounts :
             /\ r = [uid |-> 2, login |-> k.login, password |-> k.password]
             /\ old = {r}
  BY <1>1, <1>2
<1>4. \A r \in users : r.uid \in Nat \ {0} /\ r = [uid |-> r.uid, login |-> r.login, password |-> r.password]
  BY <1>2, <1>3
<1>5. \A r, s \in users : r.uid = s.uid \/ r.login = s.login => r = s
  BY <1>2, <1>3, OldAssumption
<1>6. IsFiniteSet(users) /\ users # {}
  <2>1. IsFiniteSet(old)
    <3>1. old = {} \/ \E x : old = {x}
      BY <1>2
    <3>2. IsFiniteSet({}) /\ \A x : IsFiniteSet({x})
      BY FS_EmptySet, FS_Singleton
    <3> QED
      BY <3>1, <3>2
  <2>2. IsFiniteSet(old \cup {root})
    BY <2>1, FS_AddElement
  <2>3. users = old \cup {root}
    BY <1>1
  <2> QED
    BY <2>2, <2>3
<1> HIDE DEF root
<1>7. /\ messages = OldMessages /\ clock = 0 /\ session = [c \in Clients |-> NullUid]
      /\ listed = Clients /\ mutex = Free /\ state = [c \in Clients |-> "new"]
      /\ asked = [c \in Clients |-> Nobody] /\ texts = [c \in Clients |-> 0]
      /\ requests = 0 /\ enteredAs = [c \in Clients |-> Nobody]
      /\ busy = [c \in Clients |-> FALSE] /\ job = [w \in Workers |-> NoJob] /\ closing = NoClose
      /\ controllerQ = << >> /\ storing = FALSE /\ workersQ = << >> /\ news = << >>
      /\ live = [c \in Clients |-> << >>] /\ history = [c \in Clients |-> NotAnswered]
      /\ status = [c \in Clients |-> "none"] /\ crowded = {} /\ blurred = {}
  BY DEF Init
<1>8. /\ \A w \in Workers : job[w] = NoJob
      /\ \A c \in Clients : /\ session[c] = NullUid /\ state[c] = "new" /\ status[c] = "none"
                            /\ history[c] = NotAnswered /\ DOMAIN live[c] = {}
      /\ DOMAIN workersQ = {} /\ DOMAIN controllerQ = {} /\ DOMAIN news = {}
      /\ << >> \in Seq(Event) /\ << >> \in Seq(What) /\ << >> \in Seq(Nat)
  BY <1>7
<1>9. TypeOK
  <2>1. texts \in [Clients -> Nat] /\ \A c \in Clients : texts[c] <= MaxTexts[c]
    <3>1. texts \in [Clients -> Nat] /\ \A c \in Clients : texts[c] = 0 /\ MaxTexts[c] \in Nat
      BY <1>7, BoundAssumption
    <3> QED
      BY <3>1
  <2>2. session \in [Clients -> Nat \cup {Absent}] /\ clock \in Nat
    BY <1>7 DEF NullUid
  <2>3. /\ \A r \in users : r.uid \in Nat \ {0}
        /\ messages \subseteq Text /\ listed \subseteq Clients /\ mutex \in Workers \cup {Free}
        /\ state \in [Clients -> {"new", "asked", "granted", "in", "refused", "left"}]
        /\ DOMAIN asked = Clients /\ busy \in [Clients -> BOOLEAN] /\ DOMAIN enteredAs = Clients
    BY <1>4, <1>7, OldAssumption
  <2>4. /\ job \in [Workers -> Job \cup {NoJob}] /\ closing \in Closing \cup {NoClose}
        /\ controllerQ \in Seq(Event) /\ storing \in BOOLEAN /\ workersQ \in Seq(What)
        /\ news \in Seq(Event) /\ live \in [Clients -> Seq(Nat)]
        /\ history \in [Clients -> (SUBSET Text) \cup {NotAnswered}]
        /\ status \in [Clients -> {"none", "auth error", "registration error", "ok"}]
        /\ blurred \subseteq Nat
    BY <1>7, <1>8
  <2>5. requests \in 0..MaxRequests
    BY <1>7, BoundAssumption
  <2> QED
    BY <2>1, <2>2, <2>3, <2>4, <2>5, Zenon DEF TypeOK
<1>10. OneRequest
  BY <1>8 DEF OneRequest, QueuedOnce, ServedOnce, Serves
<1>11. StateInv
  BY <1>7, <1>8, AbsentAssumption DEF StateInv, QueueState, JobState, JobFits, ClientState, ClientFits, CloseState,
                    NullUid
<1>12. AccountInv
  <2>1. RowsOK
    BY <1>4, <1>5, <1>6 DEF RowsOK
  <2>2. SessionRow /\ JobRow /\ Alone
    BY <1>8 DEF SessionRow, JobRow, Alone, LogsIn
  <2>3. NamesUnique
    BY <1>5 DEF NamesUnique
  <2>4. HonestRefusal
    BY <1>8 DEF HonestRefusal
  <2> QED
    BY <2>1, <2>2, <2>3, <2>4 DEF AccountInv
<1>13. PresenceInv
  <2> SUFFICES ASSUME NEW u \in Nat \ {0} PROVE PresenceOf(u)
    BY DEF PresenceInv
  <2>1. DOMAIN Feed = {}
    <3>1. Feed = << >>
      BY <1>7 DEF Feed
    <3> QED
      BY <3>1
  <2>2. Sessions(u) = 0
    <3>1. {c \in Clients : session[c] = u} = {}
      BY <1>8 DEF NullUid
    <3> QED
      BY <3>1, FS_EmptySet DEF Sessions
  <2>3. ~Closes(u) /\ \A v \in Workers : ~Changes(v, u)
    BY <1>7, <1>8 DEF Closes, Changes, LogsIn
  <2>4. ~Here(u, Len(Feed))
    BY <2>1 DEF Here
  <2> QED
    BY <2>1, <2>2, <2>3, <2>4 DEF PresenceOf, Alternates, OneChange, LoginCounts, CloseCounts,
                                  SettledCounts
<1>14. OrderInv
  BY <1>8 DEF OrderInv, QueueOrder, LiveOrder, Holds
<1>15. StampInv
  <2>1. StoredStamps
    BY <1>7, OldAssumption DEF StoredStamps
  <2> QED
    BY <1>8, <2>1 DEF StampInv, QueuedStamps, MadeStamps, Stamped
<1>16. AttendsAll
  BY <1>8 DEF AttendsAll
<1> QED
  BY <1>9, <1>10, <1>11, <1>12, <1>13, <1>14, <1>15, <1>16 DEF IInv

\* IInv is kept by every step.
LEMMA IInvStep ==
  ASSUME IInv, [Next]_vars
  PROVE  IInv'
<1>1. /\ TypeOK /\ OneRequest /\ StateInv /\ AccountInv /\ PresenceInv /\ OrderInv /\ StampInv
      /\ AttendsAll
      /\ RowsOK /\ JobRow /\ StoredStamps
  BY Zenon DEF IInv, AccountInv, StampInv
<1>2. TypeOK'
  BY <1>1, TypeStep
<1>3. OneRequest'
  BY <1>1, OneStep
<1>4. StateInv'
  BY <1>1, StateStep
<1>5. AccountInv'
  BY <1>1, AccountStep
<1>6. PresenceInv'
  BY <1>1, PresenceStep
<1>7. OrderInv'
  BY <1>1, OrderStep
<1>8. StampInv'
  BY <1>1, StampStep
<1>9. AttendsAll'
  BY <1>1, MissedStep
<1> QED
  BY <1>2, <1>3, <1>4, <1>5, <1>6, <1>7, <1>8, <1>9, Zenon DEF IInv

\* PresenceInv says more of more users than PresenceKept.
LEMMA PresenceFollows ==
  ASSUME TypeOK, PresenceInv
  PROVE  PresenceKept
<1> SUFFICES ASSUME NEW u \in {r.uid : r \in users} \ blurred
             PROVE  /\ \A i \in DOMAIN Feed :
                         Feed[i].kind # "text" /\ Feed[i].uid = u =>
                           Feed[i].kind = IF Here(u, i - 1) THEN "out" ELSE "in"
                    /\ Settled(u) => (Sessions(u) > 0 <=> Here(u, Len(Feed)))
  BY Zenon DEF PresenceKept
<1>1. u \in (Nat \ {0}) \ blurred
  BY TypeFacts
<1>2. Alternates(u) /\ SettledCounts(u)
  BY <1>1 DEF PresenceInv, PresenceOf
<1> QED
  BY <1>2 DEF Alternates, SettledCounts, Settled

-----------------------------------------------------------------------------
(* The theorems. *)

\* IInv holds of every state of every run: with it, what each job has read stays
\* true until the job uses it.
THEOREM Invariance == Spec => []IInv
<1>1. Init => IInv
  BY Initially
<1>2. IInv /\ [Next]_vars => IInv'
  BY IInvStep
<1> QED
  BY <1>1, <1>2, PTL DEF Spec

\* Every variable keeps its type: no account has NULL_UID, what waits in a queue is
\* of a known kind, and no count of sessions or stamp of a job is negative.
THEOREM TypeCorrect == Spec => []TypeOK
<1>1. IInv => TypeOK
  BY DEF IInv
<1> QED
  BY <1>1, Invariance, PTL

\* Who is in is in with the account of the name and password it gave in its last
\* login that succeeded, and a name has one account unless it was registered while
\* another login registered (login_or_register, db.c:20-75).
THEOREM AccountsCorrect == Spec => []AccountsAgree
<1>1. IInv => AccountsAgree
  BY InvImpliesAgree DEF IInv
<1> QED
  BY <1>1, Invariance, PTL

\* A login is refused only for a wrong password, or when two logins registered
\* at a time (db.c:20-75).
THEOREM RefusalCorrect == Spec => []HonestRefusal
<1>1. IInv => HonestRefusal
  BY DEF IInv, AccountInv
<1> QED
  BY <1>1, Invariance, PTL

\* That a user has come and has gone is announced in turn, and what was announced
\* last is true of a user of whom no session changes, unless two of its sessions
\* ever changed at a time or the client with its last session logged in as another
\* user (process_message_job.c:106-131, conn_mgr.c:77-93 and close_connection).
THEOREM PresenceCorrect == Spec => []PresenceKept
<1>1. IInv => PresenceKept
  BY PresenceFollows DEF IInv
<1> QED
  BY <1>1, Invariance, PTL

\* Of what was broadcast before a text that a client has seen, at most one piece
\* for each other worker is still to come (send_message_job.c).
THEOREM OrderCorrect == Spec => []BoundedReordering
<1>1. IInv => BoundedReordering
  BY OrderBounds DEF IInv
<1> QED
  BY <1>1, Invariance, PTL

\* A client that is in and has its history misses no text, after each of its logins:
\* it is shown, on its way, or older than a history that is full
\* (broadcast_message_event_handler and the history request).
THEOREM MissedCorrect == Spec => []NothingMissed
<1>1. IInv => NothingMissed
  BY Zenon DEF IInv, AttendsAll, Attends, NothingMissed
<1> QED
  BY <1>1, Invariance, PTL

=============================================================================
