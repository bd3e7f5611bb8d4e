---------------------------- MODULE ConnMgrProofs ----------------------------
(***************************************************************************)
(* Proofs about ConnMgr, for any sets of sockets, users and workers: the   *)
(* index invariant and the implementation of Sessions.                     *)
(***************************************************************************)
EXTENDS ConnMgr, TLAPS

Locked == {"unlink", "leaveOld", "enter", "link"}

\* The mutex is held by the one thread that is inside an operation.
MutexInv ==
    /\ \A t \in Threads : pc[t] \in Locked <=> mutex = t
    /\ pc[Listener] \in {"idle", "unlink"}
    /\ \A w \in Workers : pc[w] # "unlink"

\* A worker logging a user in has made sure that the user has a map.
UserInv == \A w \in Workers : pc[w] # "idle" => HasMap(uid[w])

\* The operation in progress is at the socket s.
At(s) == mutex # Free /\ sid[mutex] = s

\* Both maps agree on every socket but the one of the operation in progress,
IndexInv ==
    \A s \in Sids, u \in Uids :
      ~At(s) => (sidToUid[s] = u <=> HasMap(u) /\ s \in uidToSid[u])

\* which is absent from sid_to_uid until it is entered, and in the old user's
\* map until that is left.
ProgressInv ==
    mutex # Free =>
      /\ sidToUid[sid[mutex]] = IF pc[mutex] = "link" THEN uid[mutex] ELSE Absent
      /\ \A u \in Uids : HasMap(u) /\ sid[mutex] \in uidToSid[u] =>
           pc[mutex] \in {"unlink", "leaveOld"} /\ old[mutex] = u

IInv == TypeOK /\ MutexInv /\ UserInv /\ IndexInv /\ ProgressInv

USE SessionAssumption, ThreadAssumption, MapAssumption

LEMMA InitIInv == Init => IInv
  BY DEF Init, IInv, TypeOK, MutexInv, UserInv, IndexInv, ProgressInv, HasMap,
         At, Locked, Threads

LEMMA TypeStep == IInv /\ [Next]_vars => TypeOK'
<1> SUFFICES ASSUME IInv, [Next]_vars PROVE TypeOK'
  OBVIOUS
<1> USE DEF IInv, TypeOK, Threads
<1>1. ASSUME NEW s \in Sids, AddSid(s) PROVE TypeOK'
  BY <1>1 DEF AddSid
<1>2. ASSUME NEW s \in Sids, DelSid(s) PROVE TypeOK'
  BY <1>2 DEF DelSid
<1>3. CASE Unlink
  BY <1>3 DEF Unlink, Without, HasMap
<1>4. ASSUME NEW w \in Workers, NEW s \in Sids, NEW u \in Uids, AddUid(w, s, u)
      PROVE TypeOK'
  BY <1>4 DEF AddUid
<1>5. ASSUME NEW w \in Workers, Connect(w) PROVE TypeOK'
  BY <1>5 DEF Connect
<1>6. ASSUME NEW w \in Workers, LeaveOld(w) PROVE TypeOK'
  BY <1>6 DEF LeaveOld, Without, HasMap
<1>7. ASSUME NEW w \in Workers, Enter(w) PROVE TypeOK'
  BY <1>7 DEF Enter
<1>8. ASSUME NEW w \in Workers, Link(w) PROVE TypeOK'
  BY <1>8 DEF Link, HasMap
<1>9. CASE UNCHANGED vars
  BY <1>9 DEF vars
<1> QED
  BY <1>1, <1>2, <1>3, <1>4, <1>5, <1>6, <1>7, <1>8, <1>9 DEF Next

LEMMA IInvStep == IInv /\ [Next]_vars => IInv'
<1> SUFFICES ASSUME IInv, [Next]_vars PROVE IInv'
  OBVIOUS
<1>0. TypeOK'
  BY TypeStep
<1> USE DEF MutexInv, UserInv, IndexInv, ProgressInv, HasMap, At, Locked, Threads
<1> DEFINE Rest == MutexInv /\ UserInv /\ IndexInv /\ ProgressInv
<1>1. ASSUME NEW s \in Sids, AddSid(s) PROVE Rest'
  BY <1>0, <1>1 DEF AddSid, IInv, TypeOK
<1>2. ASSUME NEW s \in Sids, DelSid(s) PROVE Rest'
  BY <1>0, <1>2 DEF DelSid, IInv, TypeOK
<1>3. CASE Unlink
  BY <1>0, <1>3 DEF Unlink, Without, IInv, TypeOK
<1>4. ASSUME NEW w \in Workers, NEW s \in Sids, NEW u \in Uids, AddUid(w, s, u)
      PROVE Rest'
  BY <1>0, <1>4 DEF AddUid, IInv, TypeOK
<1>5. ASSUME NEW w \in Workers, Connect(w) PROVE Rest'
  BY <1>0, <1>5 DEF Connect, IInv, TypeOK
<1>6. ASSUME NEW w \in Workers, LeaveOld(w) PROVE Rest'
  BY <1>0, <1>6 DEF LeaveOld, Without, IInv, TypeOK
<1>7. ASSUME NEW w \in Workers, Enter(w) PROVE Rest'
  BY <1>0, <1>7 DEF Enter, IInv, TypeOK
<1>8. ASSUME NEW w \in Workers, Link(w) PROVE Rest'
  BY <1>0, <1>8 DEF Link, IInv, TypeOK
<1>9. CASE UNCHANGED vars
  BY <1>0, <1>9 DEF vars, IInv
<1> QED
  BY <1>0, <1>1, <1>2, <1>3, <1>4, <1>5, <1>6, <1>7, <1>8, <1>9 DEF Next, IInv

LEMMA InvariantHolds == Spec => []IInv
  BY InitIInv, IInvStep, PTL DEF Spec

\* The maps and the threads' variables have their types.
THEOREM TypeCorrect == Spec => []TypeOK
<1>1. IInv => TypeOK
  BY DEF IInv
<1> QED
  BY <1>1, InvariantHolds, PTL

\* Whenever the mutex is free, sid_to_uid and uid_to_sid are each other's
\* index (conn_mgr.c), for any number of threads, sockets and users.
THEOREM IndexCorrect == Spec => []IndexConsistent
<1>1. IInv => IndexConsistent
  BY DEF IInv, IndexInv, IndexConsistent, At, HasMap
<1> QED
  BY <1>1, InvariantHolds, PTL

\* Nor does a walk of uid_to_sid without the mutex ever find one socket in
\* the maps of two users.
THEOREM NeverTwoUsersCorrect == Spec => []NeverTwoUsers
<1>1. IInv => NeverTwoUsers
  BY DEF IInv, TypeOK, IndexInv, ProgressInv, NeverTwoUsers, At, HasMap
<1> QED
  BY <1>1, InvariantHolds, PTL

-----------------------------------------------------------------------------
(* The refinement *)

LEMMA InitAbstract == Init => Abstract!Init
  BY DEF Init, Abstract!Init, Session, InChange, Threads

LEMMA StepAbstract == IInv /\ IInv' /\ [Next]_vars => [Abstract!Next]_Session
<1> SUFFICES ASSUME IInv, IInv', [Next]_vars PROVE [Abstract!Next]_Session
  OBVIOUS
<1> USE DEF IInv, TypeOK, MutexInv, ProgressInv, Session, InChange, Locked, Threads
<1>1. ASSUME NEW s \in Sids, AddSid(s) PROVE Abstract!Register(s)
  BY <1>1 DEF AddSid, Abstract!Register
<1>2. ASSUME NEW s \in Sids, DelSid(s) PROVE Abstract!Drop(s)
  BY <1>2 DEF DelSid, Abstract!Drop
<1>3. ASSUME Unlink PROVE UNCHANGED Session
  BY <1>3 DEF Unlink
<1>4. ASSUME NEW w \in Workers, NEW s \in Sids, NEW u \in Uids, AddUid(w, s, u)
      PROVE UNCHANGED Session
  BY <1>4 DEF AddUid
<1>5. ASSUME NEW w \in Workers, Connect(w) PROVE UNCHANGED Session
  BY <1>5 DEF Connect
<1>6. ASSUME NEW w \in Workers, LeaveOld(w) PROVE UNCHANGED Session
  BY <1>6 DEF LeaveOld
<1>7. ASSUME NEW w \in Workers, Enter(w)
      PROVE sid[w] \in Sids /\ uid[w] \in Uids /\ Abstract!LogIn(sid[w], uid[w])
  <2>1. /\ mutex = w /\ mutex' = w
        /\ sid' = sid /\ sid[w] \in Sids /\ uid[w] \in Uids
        /\ pc[w] = "enter" /\ pc'[w] = "link"
        /\ sidToUid' = [sidToUid EXCEPT ![sid[w]] = uid[w]]
    BY <1>7 DEF Enter
  <2>2. Session[sid[w]] = old[w] /\ old[w] # Absent
    BY <2>1
  <2>3. Session' = [Session EXCEPT ![sid[w]] = uid[w]]
    BY <2>1
  <2> QED
    BY <2>1, <2>2, <2>3 DEF Abstract!LogIn
<1>8. ASSUME NEW w \in Workers, Link(w) PROVE UNCHANGED Session
  BY <1>8 DEF Link
<1>9. ASSUME UNCHANGED vars PROVE UNCHANGED Session
  BY <1>9 DEF vars
<1> HIDE DEF IInv, TypeOK, MutexInv, ProgressInv, Session, InChange, Locked, Threads
<1> QED
  BY <1>1, <1>2, <1>3, <1>4, <1>5, <1>6, <1>7, <1>8, <1>9 DEF Next, Abstract!Next

\* The connection manager implements the table of sessions: every operation
\* of the code is, at one of its steps, one change of one entry.
THEOREM Refinement == Spec => Implements
<1>1. Spec => Abstract!Init /\ [][Abstract!Next]_Session
  BY InitAbstract, StepAbstract, InvariantHolds, PTL DEF Spec
<1> QED
  BY <1>1 DEF Implements, Abstract!Spec

=============================================================================
