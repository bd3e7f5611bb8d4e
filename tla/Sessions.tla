------------------------------- MODULE Sessions -------------------------------
(***************************************************************************)
(* What the connection manager promises: a table that gives each           *)
(* registered socket the user logged in through it (or nobody), changed    *)
(* one entry at a time.                                                    *)
(***************************************************************************)
CONSTANTS Sids, Uids, NullUid, Absent

VARIABLE session

TypeOK == session \in [Sids -> Uids \cup {NullUid, Absent}]

Init == session = [s \in Sids |-> Absent]

Register(s) ==
    /\ session[s] = Absent
    /\ session' = [session EXCEPT ![s] = NullUid]

\* A login, the first of the socket or a change of user.
LogIn(s, u) ==
    /\ session[s] # Absent
    /\ session' = [session EXCEPT ![s] = u]

Drop(s) ==
    /\ session[s] # Absent
    /\ session' = [session EXCEPT ![s] = Absent]

Next == \E s \in Sids : Register(s) \/ Drop(s) \/ \E u \in Uids : LogIn(s, u)

Spec == Init /\ [][Next]_session

=============================================================================
