-------------------------------- MODULE TsQueue --------------------------------
(***************************************************************************)
(* The thread-safe queue of lib/ts_queue: a linked list with pointers to   *)
(* its first and last nodes and a size, behind a mutex.  A node is         *)
(* allocated before the mutex is taken and freed after it is released, so  *)
(* that memory one thread has just freed may be the node another is about  *)
(* to insert.  pop() leaves last pointing to a freed node when the queue   *)
(* becomes empty.                                                          *)
(*                                                                         *)
(* Each critical section is a step, except that destruction, which calls   *)
(* the destructor of every value, takes one step per node.  ts_queue_size  *)
(* and ts_queue_empty change nothing.                                      *)
(*                                                                         *)
(* A definition named ..Slip is the definition that follows it with one    *)
(* plausible mistake; it is used only to see that a property notices.      *)
(***************************************************************************)
EXTENDS Naturals, Sequences

CONSTANTS
    Threads,
    Vals,
    Nodes,   \* addresses malloc may return for a node
    Null,
    Nothing, \* the NULL that pop() returns
    Free     \* the mutex is not held

ASSUME NullAssumption == Null \notin Nodes /\ Nothing \notin Vals /\ Free \notin Threads

VARIABLES
    mutex,     \* ts_queue_t.mutex: its holder between two steps
    first,
    last,
    size,
    frozen,
    next,      \* of a node: node->next
    val,       \* of a node: node->val
    allocated, \* the nodes that are not free memory
    pc,        \* of a thread: where it is in its operation
    node,      \* of a thread: its local variable node
    taken,     \* of a thread: what its last pop returned
    chain      \* history variable: the nodes in the queue, in order

listVars == <<first, last, size, frozen, next>>
vars == <<mutex, listVars, val, allocated, pc, node, taken, chain>>

TypeOK ==
    /\ mutex \in Threads \cup {Free}
    /\ first \in Nodes \cup {Null}
    /\ last \in Nodes \cup {Null}
    /\ size \in Nat
    /\ frozen \in BOOLEAN
    /\ next \in [Nodes -> Nodes \cup {Null}]
    /\ val \in [Nodes -> Vals]
    /\ allocated \in SUBSET Nodes
    /\ pc \in [Threads -> {"idle", "push", "pushInFront", "free", "destroy"}]
    /\ node \in [Threads -> Nodes \cup {Null}]
    /\ taken \in [Threads -> Vals \cup {Nothing}]
    /\ chain \in Seq(Nodes)

Init ==
    /\ mutex = Free
    /\ first = Null
    /\ last = Null
    /\ size = 0
    /\ frozen = FALSE
    /\ next = [n \in Nodes |-> Null]
    /\ val \in [Nodes -> Vals]
    /\ allocated = {}
    /\ pc = [t \in Threads |-> "idle"]
    /\ node = [t \in Threads |-> Null]
    /\ taken = [t \in Threads |-> Nothing]
    /\ chain = << >>

-----------------------------------------------------------------------------
Goto(t, place) == pc' = [pc EXCEPT ![t] = place]

\* calloc() and the assignment of val, by either kind of push.
Allocate(t) ==
    /\ pc[t] = "idle"
    /\ pc' \in {[pc EXCEPT ![t] = "push"], [pc EXCEPT ![t] = "pushInFront"]}
    /\ \E n \in Nodes \ allocated, v \in Vals :
         /\ allocated' = allocated \cup {n}
         /\ node' = [node EXCEPT ![t] = n]
         /\ next' = [next EXCEPT ![n] = Null]
         /\ val' = [val EXCEPT ![n] = v]
    /\ UNCHANGED <<mutex, first, last, size, frozen, taken, chain>>

Inserted(t) ==
    /\ Goto(t, "idle")
    /\ node' = [node EXCEPT ![t] = Null]
    /\ size' = size + 1

PushSlip(t) ==
    /\ pc[t] = "push"
    /\ mutex = Free
    /\ ~frozen
    /\ IF first = Null /\ last = Null   \* for size = 0
       THEN first' = node[t] /\ UNCHANGED next
       ELSE next' = [next EXCEPT ![last] = node[t]] /\ UNCHANGED first
    /\ last' = node[t]
    /\ chain' = Append(chain, node[t])
    /\ Inserted(t)
    /\ UNCHANGED <<mutex, frozen, val, allocated, taken>>

Push(t) ==
    /\ pc[t] = "push"
    /\ mutex = Free
    /\ ~frozen
    /\ IF size = 0
       THEN first' = node[t] /\ UNCHANGED next
       ELSE next' = [next EXCEPT ![last] = node[t]] /\ UNCHANGED first
    /\ last' = node[t]
    /\ chain' = Append(chain, node[t])
    /\ Inserted(t)
    /\ UNCHANGED <<mutex, frozen, val, allocated, taken>>

PushInFrontSlip(t) ==
    /\ pc[t] = "pushInFront"
    /\ mutex = Free
    /\ ~frozen
    /\ IF size = 0
       THEN first' = node[t] /\ UNCHANGED next
       ELSE next' = [next EXCEPT ![last] = node[t]] /\ UNCHANGED first   \* as in push
    /\ last' = node[t]
    /\ chain' = <<node[t]>> \o chain
    /\ Inserted(t)
    /\ UNCHANGED <<mutex, frozen, val, allocated, taken>>

PushInFront(t) ==
    /\ pc[t] = "pushInFront"
    /\ mutex = Free
    /\ ~frozen
    /\ IF size = 0
       THEN last' = node[t] /\ UNCHANGED next
       ELSE next' = [next EXCEPT ![node[t]] = first] /\ UNCHANGED last
    /\ first' = node[t]
    /\ chain' = <<node[t]>> \o chain
    /\ Inserted(t)
    /\ UNCHANGED <<mutex, frozen, val, allocated, taken>>

\* A push into a destroyed queue keeps its node, to free it.
Refuse(t) ==
    /\ pc[t] \in {"push", "pushInFront"}
    /\ mutex = Free
    /\ frozen
    /\ Goto(t, "free")
    /\ UNCHANGED <<mutex, listVars, val, allocated, node, taken, chain>>

Pop(t) ==
    /\ pc[t] = "idle"
    /\ mutex = Free
    /\ ~frozen /\ size > 0
    /\ node' = [node EXCEPT ![t] = first]
    /\ taken' = [taken EXCEPT ![t] = val[first]]
    /\ first' = next[first]
    /\ size' = size - 1
    /\ chain' = Tail(chain)
    /\ Goto(t, "free")
    /\ UNCHANGED <<mutex, last, frozen, next, val, allocated>>

PopNothing(t) ==
    /\ pc[t] = "idle"
    /\ mutex = Free
    /\ frozen \/ size = 0
    /\ taken' = [taken EXCEPT ![t] = Nothing]
    /\ UNCHANGED <<mutex, listVars, val, allocated, pc, node, chain>>

FreeNodeSlip(t) ==
    /\ pc[t] = "free"
    /\ node' = [node EXCEPT ![t] = Null]   \* no free()
    /\ Goto(t, "idle")
    /\ UNCHANGED <<mutex, listVars, val, allocated, taken, chain>>

\* free(node), the mutex released.
FreeNode(t) ==
    /\ pc[t] = "free"
    /\ allocated' = allocated \ {node[t]}
    /\ node' = [node EXCEPT ![t] = Null]
    /\ Goto(t, "idle")
    /\ UNCHANGED <<mutex, listVars, val, taken, chain>>

-----------------------------------------------------------------------------
(* ts_queue_destroy, which is called once. *)

BeginDestroy(t) ==
    /\ pc[t] = "idle"
    /\ mutex = Free
    /\ ~frozen
    /\ mutex' = t
    /\ Goto(t, "destroy")
    /\ UNCHANGED <<listVars, val, allocated, node, taken, chain>>

DestroyNode(t) ==
    /\ pc[t] = "destroy"
    /\ first # Null
    /\ first' = next[first]
    /\ allocated' = allocated \ {first}
    /\ chain' = Tail(chain)
    /\ UNCHANGED <<mutex, last, size, frozen, next, val, pc, node, taken>>

EndDestroy(t) ==
    /\ pc[t] = "destroy"
    /\ first = Null
    /\ frozen' = TRUE
    /\ mutex' = Free
    /\ Goto(t, "idle")
    /\ UNCHANGED <<first, last, size, next, val, allocated, node, taken, chain>>

Step(t) ==
    \/ Allocate(t) \/ Push(t) \/ PushInFront(t) \/ Refuse(t)
    \/ Pop(t) \/ PopNothing(t) \/ FreeNode(t)
    \/ BeginDestroy(t) \/ DestroyNode(t) \/ EndDestroy(t)

Next == \E t \in Threads : Step(t)

Spec == Init /\ [][Next]_vars

-----------------------------------------------------------------------------
(* Properties *)

\* Following next from first visits the nodes of the queue, each once, in
\* order, and ends at NULL; last, when the queue is not empty, is the final
\* one, whatever was freed and allocated again meanwhile; size counts them.
WellLinked ==
    /\ \A i \in DOMAIN chain :
         /\ next[chain[i]] = IF i = Len(chain) THEN Null ELSE chain[i + 1]
         /\ \A j \in DOMAIN chain : chain[i] = chain[j] => i = j
    /\ first = IF chain = << >> THEN Null ELSE chain[1]
    /\ mutex = Free /\ ~frozen =>
         size = Len(chain) /\ (chain # << >> => last = chain[Len(chain)])

\* Every node that is allocated is in the queue or in the hands of exactly one
\* thread, and what is there is allocated: no node leaks, none is freed while
\* it is in use, and none is in two places.
OneHolder ==
    /\ \A n \in Nodes :
         n \in allocated <=> \/ \E i \in DOMAIN chain : chain[i] = n
                             \/ \E t \in Threads : node[t] = n
    /\ \A t \in Threads, i \in DOMAIN chain : node[t] # chain[i]
    /\ \A t, u \in Threads : node[t] = node[u] => t = u \/ node[t] = Null

Queue == [i \in DOMAIN chain |-> val[chain[i]]]

Phase == IF frozen THEN "closed" ELSE IF mutex = Free THEN "open" ELSE "closing"

Abstract == INSTANCE Fifo WITH queue <- Queue, phase <- Phase

\* The list is a first-in first-out queue with urgent entries: for any threads
\* every value pushed is popped once, in order, or discarded at the end.
Implements == Abstract!Spec

=============================================================================
