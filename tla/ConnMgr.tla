------------------------------- MODULE ConnMgr -------------------------------
(***************************************************************************)
(* The connection manager: two maps that index each other, sid_to_uid and  *)
(* uid_to_sid, changed under one mutex by the listener (accept, close) and *)
(* the workers (login).  A step is one operation of one map, since some    *)
(* readers (a broadcast, a user list) walk the maps without the mutex; a   *)
(* lock is taken with the first of an operation's steps and released with  *)
(* its last.                                                               *)
(*                                                                         *)
(* A definition named ..Slip is the definition that follows it with one    *)
(* plausible mistake; it is used only to see that a property notices.      *)
(***************************************************************************)
EXTENDS FiniteSets, Naturals

CONSTANTS
    Sids,      \* sockets
    Uids,      \* users
    NullUid,   \* uid of a socket nobody has logged in through
    Absent,    \* no entry in sid_to_uid
    NoMap,     \* no entry in uid_to_sid
    Listener,  \* the listener thread
    Workers,   \* the worker threads
    Free       \* the mutex is not held

Threads == Workers \cup {Listener}

ASSUME SessionAssumption == Absent \notin Uids \cup {NullUid} /\ NullUid \notin Uids
ASSUME ThreadAssumption  == Free \notin Threads /\ Listener \notin Workers
ASSUME MapAssumption     == \A S \in SUBSET Sids : S # NoMap

VARIABLES
    mutex,     \* conn_mgr_t.mutex: its holder
    sidToUid,  \* conn_mgr_t.sid_to_uid
    uidToSid,  \* conn_mgr_t.uid_to_sid: for a user, the set of its sockets
    pc,        \* of a thread: the next step of its operation
    sid,       \* of a thread: the socket of its operation
    uid,       \* of a worker: the user logging in
    old        \* of a thread: the uid erased from sid_to_uid

vars == <<mutex, sidToUid, uidToSid, pc, sid, uid, old>>

TypeOK ==
    /\ mutex \in Threads \cup {Free}
    /\ sidToUid \in [Sids -> Uids \cup {NullUid, Absent}]
    /\ uidToSid \in [Uids -> {NoMap} \cup SUBSET Sids]
    /\ pc \in [Threads -> {"idle", "unlink", "connect", "leaveOld", "enter", "link"}]
    /\ sid \in [Threads -> Sids]
    /\ uid \in [Threads -> Uids]
    /\ old \in [Threads -> Uids \cup {NullUid}]

\* prepare_conn_mgr gives every user of the database an empty map.
Init ==
    /\ mutex = Free
    /\ sidToUid = [s \in Sids |-> Absent]
    /\ \E known \in SUBSET Uids :
         uidToSid = [u \in Uids |-> IF u \in known THEN {} ELSE NoMap]
    /\ pc = [t \in Threads |-> "idle"]
    /\ sid \in [Threads -> Sids]
    /\ uid \in [Threads -> Uids]
    /\ old = [t \in Threads |-> NullUid]

HasMap(u) == u \in Uids /\ uidToSid[u] # NoMap

-----------------------------------------------------------------------------
(* The listener: accept_connection and close_connection. *)

AddSid(s) ==
    /\ pc[Listener] = "idle"
    /\ mutex = Free
    /\ sidToUid[s] = Absent   \* accept() returns a closed descriptor
    /\ sidToUid' = [sidToUid EXCEPT ![s] = NullUid]
    /\ UNCHANGED <<mutex, uidToSid, pc, sid, uid, old>>

\* conn_mgr_del_sid, in two steps.
DelSid(s) ==
    /\ pc[Listener] = "idle"
    /\ mutex = Free
    /\ sidToUid[s] # Absent
    /\ mutex' = Listener
    /\ pc' = [pc EXCEPT ![Listener] = "unlink"]
    /\ sid' = [sid EXCEPT ![Listener] = s]
    /\ old' = [old EXCEPT ![Listener] = sidToUid[s]]
    /\ sidToUid' = [sidToUid EXCEPT ![s] = Absent]
    /\ UNCHANGED <<uidToSid, uid>>

Without(u, s) ==
    IF HasMap(u) THEN [uidToSid EXCEPT ![u] = @ \ {s}] ELSE uidToSid

UnlinkSlip ==
    /\ pc[Listener] = "unlink"
    /\ UNCHANGED uidToSid   \* the user's map keeps the socket
    /\ mutex' = Free
    /\ pc' = [pc EXCEPT ![Listener] = "idle"]
    /\ UNCHANGED <<sidToUid, sid, uid, old>>

Unlink ==
    /\ pc[Listener] = "unlink"
    /\ uidToSid' = Without(old[Listener], sid[Listener])
    /\ mutex' = Free
    /\ pc' = [pc EXCEPT ![Listener] = "idle"]
    /\ UNCHANGED <<sidToUid, sid, uid, old>>

-----------------------------------------------------------------------------
(* A worker that handles a login: add_uid, then connect_sid_uid. *)

AddUidSlip(w, s, u) ==
    /\ pc[w] = "idle"
    /\ mutex = Free
    /\ uidToSid' = [uidToSid EXCEPT ![u] = {}]   \* over the map that is there
    /\ pc' = [pc EXCEPT ![w] = "connect"]
    /\ sid' = [sid EXCEPT ![w] = s]
    /\ uid' = [uid EXCEPT ![w] = u]
    /\ UNCHANGED <<mutex, sidToUid, old>>

AddUid(w, s, u) ==
    /\ pc[w] = "idle"
    /\ mutex = Free
    /\ uidToSid' = IF HasMap(u) THEN uidToSid ELSE [uidToSid EXCEPT ![u] = {}]
    /\ pc' = [pc EXCEPT ![w] = "connect"]
    /\ sid' = [sid EXCEPT ![w] = s]
    /\ uid' = [uid EXCEPT ![w] = u]
    /\ UNCHANGED <<mutex, sidToUid, old>>

ConnectSlip(w) ==
    /\ pc[w] = "connect"
    /\ mutex = Free
    /\ mutex' = w   \* ts_map_has not asked: a closed socket is entered again
    /\ pc' = [pc EXCEPT ![w] = "leaveOld"]
    /\ old' = [old EXCEPT ![w] = sidToUid[sid[w]]]
    /\ sidToUid' = [sidToUid EXCEPT ![sid[w]] = Absent]
    /\ UNCHANGED <<uidToSid, sid, uid>>

\* The socket may have been closed since the login was sent.
Connect(w) ==
    /\ pc[w] = "connect"
    /\ mutex = Free
    /\ IF sidToUid[sid[w]] = Absent
       THEN /\ pc' = [pc EXCEPT ![w] = "idle"]
            /\ UNCHANGED <<mutex, sidToUid, old>>
       ELSE /\ mutex' = w
            /\ pc' = [pc EXCEPT ![w] = "leaveOld"]
            /\ old' = [old EXCEPT ![w] = sidToUid[sid[w]]]
            /\ sidToUid' = [sidToUid EXCEPT ![sid[w]] = Absent]
    /\ UNCHANGED <<uidToSid, sid, uid>>

LeaveOld(w) ==
    /\ pc[w] = "leaveOld"
    /\ uidToSid' = Without(old[w], sid[w])
    /\ pc' = [pc EXCEPT ![w] = "enter"]
    /\ UNCHANGED <<mutex, sidToUid, sid, uid, old>>

Enter(w) ==
    /\ pc[w] = "enter"
    /\ sidToUid' = [sidToUid EXCEPT ![sid[w]] = uid[w]]
    /\ pc' = [pc EXCEPT ![w] = "link"]
    /\ UNCHANGED <<mutex, uidToSid, sid, uid, old>>

LinkSlip(w) ==
    /\ pc[w] = "link"
    /\ UNCHANGED uidToSid   \* the map of the old user, whose entry was erased
    /\ mutex' = Free
    /\ pc' = [pc EXCEPT ![w] = "idle"]
    /\ UNCHANGED <<sidToUid, sid, uid, old>>

Link(w) ==
    /\ pc[w] = "link"
    /\ uidToSid' = IF HasMap(uid[w])
                   THEN [uidToSid EXCEPT ![uid[w]] = @ \cup {sid[w]}]
                   ELSE uidToSid
    /\ mutex' = Free
    /\ pc' = [pc EXCEPT ![w] = "idle"]
    /\ UNCHANGED <<sidToUid, sid, uid, old>>

-----------------------------------------------------------------------------
Next ==
    \/ \E s \in Sids : AddSid(s) \/ DelSid(s)
    \/ Unlink
    \/ \E w \in Workers :
         \/ \E s \in Sids, u \in Uids : AddUid(w, s, u)
         \/ Connect(w) \/ LeaveOld(w) \/ Enter(w) \/ Link(w)

Spec == Init /\ [][Next]_vars

-----------------------------------------------------------------------------
(* Properties *)

\* While nobody holds the mutex the two maps are each other's index: a
\* user's map holds exactly the sockets that sid_to_uid gives to that user,
\* so that kicking a user and counting its sessions miss none and invent
\* none (conn_mgr_forall_uid, conn_mgr_get_number_of_sessions).
IndexConsistent ==
    mutex = Free =>
      \A s \in Sids, u \in Uids :
        sidToUid[s] = u <=> HasMap(u) /\ s \in uidToSid[u]

\* At any moment, mutex or not, a user's map holds no socket of another user:
\* a walk without the mutex counts a socket for two users never, and for none
\* only while it is being connected.
NeverTwoUsers ==
    \A u, v \in Uids : u # v /\ HasMap(u) /\ HasMap(v)
      => uidToSid[u] \cap uidToSid[v] = {}

\* The socket of the login that is between the erasure of its old entry in
\* sid_to_uid and the insertion of the new one.
InChange(s) ==
    mutex \in Workers /\ pc[mutex] \in {"leaveOld", "enter"} /\ sid[mutex] = s

\* The table the maps stand for: the entry of a socket in change is still the
\* old one until the new one is inserted.
Session == [s \in Sids |-> IF InChange(s) THEN old[mutex] ELSE sidToUid[s]]

Abstract == INSTANCE Sessions WITH session <- Session

\* The manager implements the table: every operation changes one entry, in
\* one step, and a login through a closed socket changes none.
Implements == Abstract!Spec

=============================================================================
