------------------------------ MODULE Dictionary ------------------------------
(***************************************************************************)
(* What the thread-safe map promises: a table from keys to values, whose   *)
(* calls take effect one at a time.  An insertion does not replace; what   *)
(* is looked up or erased is returned; a frozen (destroyed) map takes and  *)
(* gives nothing.                                                          *)
(***************************************************************************)
CONSTANTS Keys, Vals, Nothing, Absent, NoCall

VARIABLES
    dict,    \* key -> value
    frozen,
    call,    \* the call that is to take effect
    answer   \* what the last call that took effect returns

vars == <<dict, frozen, call, answer>>

Names == {"insert", "find", "has", "erase"}

Init ==
    /\ dict = [k \in Keys |-> Absent]
    /\ frozen = FALSE
    /\ call = NoCall
    /\ answer = Nothing

Call(name, k, v) ==
    /\ call = NoCall
    /\ call' = [name |-> name, key |-> k, val |-> v]
    /\ UNCHANGED <<dict, frozen, answer>>

\* The call takes effect and leaves the table d.
Effect(name, d, result) ==
    /\ call # NoCall
    /\ call.name = name
    /\ dict' = d
    /\ answer' = result
    /\ call' = NoCall
    /\ UNCHANGED frozen

Present == dict[call.key] # Absent

Insert ==
    /\ ~frozen
    /\ Effect("insert",
              IF Present THEN dict ELSE [dict EXCEPT ![call.key] = call.val],
              ~Present)

Erase ==
    /\ ~frozen
    /\ Effect("erase", [dict EXCEPT ![call.key] = Absent],
              IF Present THEN dict[call.key] ELSE Nothing)

Find ==
    /\ ~frozen
    /\ Effect("find", dict, IF Present THEN dict[call.key] ELSE Nothing)

Has ==
    /\ ~frozen
    /\ Effect("has", dict, Present)

Refuse ==
    /\ frozen
    /\ Effect("insert", dict, FALSE) \/ Effect("erase", dict, Nothing)

Freeze ==
    /\ call = NoCall
    /\ ~frozen
    /\ frozen' = TRUE
    /\ dict' = [k \in Keys |-> Absent]
    /\ UNCHANGED <<call, answer>>

Next ==
    \/ \E name \in Names, k \in Keys, v \in Vals \cup {Nothing} : Call(name, k, v)
    \/ Insert \/ Erase \/ Find \/ Has \/ Refuse \/ Freeze

Spec == Init /\ [][Next]_vars

=============================================================================
