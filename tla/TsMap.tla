--------------------------------- MODULE TsMap ---------------------------------
(***************************************************************************)
(* The thread-safe map of lib/ts_map: a splay tree with parent pointers,   *)
(* behind a mutex that an operation holds from its first line to its last. *)
(* The operations of different threads therefore follow each other, and    *)
(* the thread is left implicit; inside an operation every descent by one   *)
(* node and every rotation is a step.                                      *)
(*                                                                         *)
(* The two sides of a node are treated alike: child[n]["left"] is          *)
(* n->left, and left_turn and right_turn are one action with a direction.  *)
(*                                                                         *)
(* A definition named ..Slip is the definition that follows it with one    *)
(* plausible mistake; it is used only to see that a property notices.      *)
(***************************************************************************)
EXTENDS Integers, Sequences, FiniteSets

CONSTANTS
    Keys,
    Vals,
    Entries, \* the keys and values that are inserted
    Nodes,   \* addresses calloc may return for a node
    Null,
    Nothing, \* the NULL that find() and erase() return
    Absent,  \* no value: a key that is not in the map
    NoCall

ASSUME KeysAssumption  == Keys \subseteq Nat
ASSUME EntriesAssumption == Entries \subseteq Keys \X Vals
ASSUME NodesAssumption == IsFiniteSet(Nodes) /\ Null \notin Nodes
ASSUME AbsentAssumption == Absent \notin Vals \cup {Nothing}
ASSUME NoCallAssumption ==
    \A name \in {"insert", "find", "has", "erase"}, k \in Keys, v \in Vals \cup {Nothing} :
       NoCall # [name |-> name, key |-> k, val |-> v]

VARIABLES
    root,
    frozen,
    child,   \* of a node: node->left and node->right
    parent,
    key,
    val,
    size,
    nodes,   \* the nodes that are not free memory
    op,      \* the operation: what it is to do with the node that is splayed
    arg,     \* its key
    new,     \* insert(): its value
    pc,      \* "idle", "search" (find, rightest) or "splay"
    cur,     \* the node searched or splayed
    turns,   \* rotations the splay loop has decided on
    other,   \* merge(): the right tree
    answer,  \* what the last operation returned
    below    \* history variable: of a node, the nodes of its subtree

treeVars == <<child, parent, size, below>>
opVars   == <<op, arg, new, pc, cur, turns, other>>
vars == <<root, frozen, treeVars, key, val, nodes, opVars, answer>>

Sides == {"left", "right"}
Opposite(d) == IF d = "left" THEN "right" ELSE "left"
Leaf == [d \in Sides |-> Null]

Ops == {"none", "insert", "split", "find", "has", "erase", "merge"}

TypeOK ==
    /\ root \in Nodes \cup {Null}
    /\ frozen \in BOOLEAN
    /\ child \in [Nodes -> [Sides -> Nodes \cup {Null}]]
    /\ parent \in [Nodes -> Nodes \cup {Null}]
    /\ key \in [Nodes -> Keys \cup {0}]
    /\ val \in [Nodes -> Vals \cup {Nothing}]
    /\ size \in [Nodes -> Nat]
    /\ nodes \in SUBSET Nodes
    /\ op \in Ops
    /\ arg \in Keys \cup {0}
    /\ new \in Vals \cup {Nothing}
    /\ pc \in {"idle", "search", "splay"}
    /\ cur \in Nodes \cup {Null}
    /\ turns \in Seq(Nodes \X Sides)
    /\ other \in Nodes \cup {Null}
    /\ answer \in Vals \cup {Nothing} \cup BOOLEAN
    /\ below \in [Nodes -> SUBSET Nodes]

Init ==
    /\ root = Null
    /\ frozen = FALSE
    /\ child = [n \in Nodes |-> Leaf]
    /\ parent = [n \in Nodes |-> Null]
    /\ key = [n \in Nodes |-> 0]
    /\ val = [n \in Nodes |-> Nothing]
    /\ size = [n \in Nodes |-> 0]
    /\ nodes = {}
    /\ op = "none"
    /\ arg = 0
    /\ new = Nothing
    /\ pc = "idle"
    /\ cur = Null
    /\ turns = << >>
    /\ other = Null
    /\ answer = Nothing
    /\ below = [n \in Nodes |-> {}]

-----------------------------------------------------------------------------
(* Nodes *)

SizeOf(n)  == IF n = Null THEN 0 ELSE size[n]
BelowOf(n) == IF n = Null THEN {} ELSE below[n]

\* The side of n on which keys like k are.
SideOf(k, n) == IF k < key[n] THEN "left" ELSE "right"

\* Which son of its parent n is, as is_left_son finds out.
SonSide(n) == IF child[parent[n]]["left"] = n THEN "left" ELSE "right"

\* The nodes under n in key order: the recursion of forall and of destroy.
Walk[n \in nodes \cup {Null}] ==
    IF n = Null THEN << >>
    ELSE Walk[child[n]["left"]] \o <<n>> \o Walk[child[n]["right"]]

-----------------------------------------------------------------------------
(* The beginning of an operation, which takes the mutex. *)

Finish(result) ==
    /\ answer' = result
    /\ op' = "none"
    /\ arg' = 0
    /\ new' = Nothing
    /\ pc' = "idle"
    /\ cur' = Null

\* find() and has() do not look at frosen and must not be called after destroy.
Begin(name, k, v) ==
    /\ pc = "idle"
    /\ frozen => name \in {"insert", "erase"}
    /\ op' = name
    /\ arg' = k
    /\ new' = v
    /\ pc' = "search"
    /\ cur' = IF frozen THEN Null ELSE root
    /\ UNCHANGED <<root, frozen, treeVars, key, val, nodes, turns, other, answer>>

\* A new node with no sons.
NewRoot(n, k, v) ==
    /\ nodes' = nodes \cup {n}
    /\ key' = [key EXCEPT ![n] = k]
    /\ val' = [val EXCEPT ![n] = v]
    /\ root' = n

\* The nodes gone become free memory, which is 0 when calloc returns it again.
Free(gone) ==
    /\ nodes' = nodes \ gone
    /\ key' = [n \in Nodes |-> IF n \in gone THEN 0 ELSE key[n]]
    /\ val' = [n \in Nodes |-> IF n \in gone THEN Nothing ELSE val[n]]
    /\ child' = [n \in Nodes |-> IF n \in gone THEN Leaf ELSE child[n]]
    /\ size' = [n \in Nodes |-> IF n \in gone THEN 0 ELSE size[n]]
    /\ below' = [n \in Nodes |-> IF n \in gone THEN {} ELSE below[n]]

InsertFirst ==
    /\ pc = "search"
    /\ cur = Null
    /\ ~frozen
    /\ op = "insert"
    /\ \E n \in Nodes \ nodes :
         /\ NewRoot(n, arg, new)
         /\ child' = [child EXCEPT ![n] = Leaf]
         /\ parent' = [parent EXCEPT ![n] = Null]
         /\ size' = [size EXCEPT ![n] = 1]
         /\ below' = [below EXCEPT ![n] = {n}]
    /\ Finish(TRUE)
    /\ UNCHANGED <<frozen, turns, other>>

\* The tree is empty.
AnswerEmpty ==
    /\ pc = "search"
    /\ cur = Null
    /\ ~frozen
    /\ op # "insert"
    /\ Finish(IF op = "has" THEN FALSE ELSE Nothing)
    /\ UNCHANGED <<root, frozen, treeVars, key, val, nodes, turns, other>>

\* A destroyed map refuses insert() and erase().
Refuse ==
    /\ pc = "search"
    /\ frozen
    /\ Finish(IF op = "insert" THEN FALSE ELSE Nothing)
    /\ UNCHANGED <<root, frozen, treeVars, key, val, nodes, turns, other>>

DestroySlip ==
    /\ pc = "idle"
    /\ ~frozen
    /\ frozen' = TRUE
    /\ Free(IF root = Null THEN {} ELSE {root})   \* no recursion
    /\ UNCHANGED <<root, parent, opVars, answer>>

\* Destruction frees the nodes it reaches from the root.
Destroy ==
    /\ pc = "idle"
    /\ ~frozen
    /\ frozen' = TRUE
    /\ Free({Walk[root][i] : i \in DOMAIN Walk[root]})
    /\ parent' = [n \in Nodes |-> Null]
    /\ UNCHANGED <<root, opVars, answer>>

-----------------------------------------------------------------------------
(* find() and rightest(): down the tree to the node to be splayed. *)

DescendSlip ==
    /\ pc = "search"
    /\ cur # Null
    /\ LET d == IF arg <= key[cur] THEN "left" ELSE "right" IN  \* equal keys not met
         IF child[cur][d] = Null
         THEN pc' = "splay" /\ UNCHANGED cur
         ELSE cur' = child[cur][d] /\ UNCHANGED pc
    /\ UNCHANGED <<root, frozen, treeVars, key, val, nodes, op, arg, new, turns,
                   other, answer>>

NextDown == IF op = "merge" THEN "right" ELSE SideOf(arg, cur)

Arrived ==
    \/ op # "merge" /\ arg = key[cur]
    \/ child[cur][NextDown] = Null

Descend ==
    /\ pc = "search"
    /\ cur # Null
    /\ IF Arrived
       THEN pc' = "splay" /\ UNCHANGED cur
       ELSE cur' = child[cur][NextDown] /\ UNCHANGED pc
    /\ UNCHANGED <<root, frozen, treeVars, key, val, nodes, op, arg, new, turns,
                   other, answer>>

-----------------------------------------------------------------------------
(* splay(): one round of its loop decides on one or two rotations. *)

TurnedAwaySlip ==
    /\ pc = "splay"
    /\ turns = << >>
    /\ parent[cur] # Null
    /\ turns' = << <<parent[cur], SonSide(cur)>> >>  \* left_turn for right_turn
    /\ UNCHANGED <<root, frozen, treeVars, key, val, nodes, op, arg, new, pc, cur,
                   other, answer>>

\* <<n, "left">> is left_turn(n).
Plan ==
    /\ pc = "splay"
    /\ turns = << >>
    /\ parent[cur] # Null
    /\ LET p == parent[cur]
           g == parent[p]
           d == SonSide(cur)
       IN turns' = IF g = Null THEN << <<p, Opposite(d)>> >>
                   ELSE IF SonSide(p) = d
                   THEN << <<g, Opposite(d)>>, <<p, Opposite(d)>> >>
                   ELSE << <<p, Opposite(d)>>, <<g, d>> >>
    /\ UNCHANGED <<root, frozen, treeVars, key, val, nodes, op, arg, new, pc, cur,
                   other, answer>>

TurnSlip(n, d) ==
    LET r == child[n][Opposite(d)]
        m == child[r][d]
        p == parent[n]
        moved == [child EXCEPT ![n][Opposite(d)] = m, ![r][d] = n]
    IN /\ child' = IF p = Null THEN moved ELSE [moved EXCEPT ![p][SonSide(n)] = r]
       /\ parent' = [x \in Nodes |-> IF x = n THEN r ELSE IF x = r THEN p
                                     ELSE IF x = m THEN n ELSE parent[x]]
       /\ size' = [size EXCEPT ![n] = 1 + SizeOf(child[n][d]) + SizeOf(m)]  \* not new_root
       /\ below' = [below EXCEPT
                      ![n] = {n} \cup BelowOf(child[n][d]) \cup BelowOf(m),
                      ![r] = below[n]]

\* The son r of n takes the place of n under p, and n becomes its son on side d,
\* with m, which was there.
Relink(n, d, r, m, p) ==
    LET moved == [child EXCEPT ![n][Opposite(d)] = m, ![r][d] = n]
        sizeN == 1 + SizeOf(child[n][d]) + SizeOf(m)
        belowN == {n} \cup BelowOf(child[n][d]) \cup BelowOf(m)
    IN /\ child' = IF p = Null THEN moved ELSE [moved EXCEPT ![p][SonSide(n)] = r]
       /\ parent' = [x \in Nodes |-> IF x = n THEN r ELSE IF x = r THEN p
                                     ELSE IF x = m THEN n ELSE parent[x]]
       /\ size' = [size EXCEPT ![n] = sizeN,
                               ![r] = 1 + sizeN + SizeOf(child[r][Opposite(d)])]
       /\ below' = [below EXCEPT
                      ![n] = belowN,
                      ![r] = {r} \cup belowN \cup BelowOf(child[r][Opposite(d)])]

\* left_turn and right_turn.
Turn(n, d) ==
    LET r == child[n][Opposite(d)] IN Relink(n, d, r, child[r][d], parent[n])

Rotate ==
    /\ pc = "splay"
    /\ turns # << >>
    /\ LET n == turns[1][1]
           d == turns[1][2]
       IN IF child[n][Opposite(d)] = Null THEN UNCHANGED treeVars ELSE Turn(n, d)
    /\ turns' = Tail(turns)
    /\ UNCHANGED <<root, frozen, key, val, nodes, op, arg, new, pc, cur, other, answer>>

-----------------------------------------------------------------------------
(* What the operation does with the node once it is the root. *)

Splayed ==
    /\ pc = "splay"
    /\ turns = << >>
    /\ parent[cur] = Null

\* Nothing more to do: the splayed node is the map's root.
Return(result) ==
    /\ root' = cur
    /\ Finish(result)
    /\ UNCHANGED <<frozen, treeVars, key, val, nodes, turns, other>>

FindReturnsSlip ==
    /\ Splayed
    /\ op = "find"
    /\ Return(val[cur])   \* the root's key not compared

FindReturns ==
    /\ Splayed
    /\ op = "find"
    /\ Return(IF key[cur] = arg THEN val[cur] ELSE Nothing)

HasReturns ==
    /\ Splayed
    /\ op = "has"
    /\ Return(key[cur] = arg)

InsertRefused ==
    /\ Splayed
    /\ op = "insert"
    /\ key[cur] = arg
    /\ Return(FALSE)

EraseMisses ==
    /\ Splayed
    /\ op = "erase"
    /\ key[cur] # arg
    /\ Return(Nothing)

\* The key is new: split() searches for it once more.
InsertSplits ==
    /\ Splayed
    /\ op = "insert"
    /\ key[cur] # arg
    /\ op' = "split"
    /\ pc' = "search"
    /\ UNCHANGED <<root, frozen, treeVars, key, val, nodes, arg, new, cur, turns,
                   other, answer>>

SplitSlip ==
    /\ Splayed
    /\ op = "split"
    /\ \E n \in Nodes \ nodes :
         LET d == IF key[cur] < arg THEN "right" ELSE "left"
             m == child[cur][d]
         IN /\ NewRoot(n, arg, new)
            /\ child' = [child EXCEPT ![n] = [Leaf EXCEPT ![d] = m, ![Opposite(d)] = cur]]
            /\ parent' = [x \in Nodes |-> IF x = n THEN Null
                                          ELSE IF x \in {cur, m} THEN n ELSE parent[x]]
            /\ size' = [size EXCEPT ![n] = 1 + SizeOf(m) + size[cur]]
            /\ below' = [below EXCEPT ![n] = {n} \cup BelowOf(m) \cup below[cur]]
    /\ Finish(TRUE)   \* tree->right not cleared
    /\ UNCHANGED <<frozen, turns, other>>

\* The tree is cut beside the splayed node, whose key is next to the new one,
\* and both parts become subtrees of the new node.
Split ==
    /\ Splayed
    /\ op = "split"
    /\ \E n \in Nodes \ nodes :
         LET d == IF key[cur] < arg THEN "right" ELSE "left"
             m == child[cur][d]
             rest == child[cur][Opposite(d)]
         IN /\ NewRoot(n, arg, new)
            /\ child' = [child EXCEPT
                           ![cur] = [@ EXCEPT ![d] = Null],
                           ![n] = [Leaf EXCEPT ![d] = m, ![Opposite(d)] = cur]]
            /\ parent' = [x \in Nodes |-> IF x = n THEN Null
                                          ELSE IF x \in {cur, m} THEN n ELSE parent[x]]
            /\ size' = [size EXCEPT ![cur] = 1 + SizeOf(rest),
                                    ![n] = 2 + SizeOf(m) + SizeOf(rest)]
            /\ below' = [below EXCEPT
                           ![cur] = {cur} \cup BelowOf(rest),
                           ![n] = {n, cur} \cup BelowOf(m) \cup BelowOf(rest)]
    /\ Finish(TRUE)
    /\ UNCHANGED <<frozen, turns, other>>

\* The node is taken out.  With two subtrees the greatest node of the left one
\* is splayed next.
Detach ==
    /\ Splayed
    /\ op = "erase"
    /\ key[cur] = arg
    /\ LET l == child[cur]["left"]
           r == child[cur]["right"]
       IN /\ parent' = [x \in Nodes |-> IF x \in {l, r} THEN Null ELSE parent[x]]
          /\ IF l # Null /\ r # Null
             THEN /\ op' = "merge"
                  /\ pc' = "search"
                  /\ cur' = l
                  /\ other' = r
                  /\ answer' = val[cur]
                  /\ UNCHANGED <<root, arg, new>>
             ELSE /\ root' = IF l = Null THEN r ELSE l
                  /\ Finish(val[cur])
                  /\ UNCHANGED other
          /\ Free({cur})
    /\ UNCHANGED <<frozen, turns>>

Merge ==
    /\ Splayed
    /\ op = "merge"
    /\ root' = cur
    /\ child' = [child EXCEPT ![cur]["right"] = other]
    /\ parent' = [parent EXCEPT ![other] = cur]
    /\ size' = [size EXCEPT ![cur] = 1 + SizeOf(child[cur]["left"]) + SizeOf(other)]
    /\ below' = [below EXCEPT ![cur] = @ \cup below[other]]
    /\ other' = Null
    /\ Finish(answer)
    /\ UNCHANGED <<frozen, key, val, nodes, turns>>

-----------------------------------------------------------------------------
Step ==
    \/ InsertFirst \/ AnswerEmpty \/ Refuse
    \/ Descend \/ Plan \/ Rotate
    \/ FindReturns \/ HasReturns \/ InsertRefused \/ EraseMisses
    \/ InsertSplits \/ Split \/ Detach \/ Merge

Call ==
    \/ \E e \in Entries : Begin("insert", e[1], e[2])
    \/ \E k \in Keys, name \in {"find", "has", "erase"} : Begin(name, k, new)
    \/ Destroy

Next == Step \/ Call

Spec == Init /\ [][Next]_vars

\* A thread in an operation goes on; nobody has to call one.
FairSpec == Spec /\ WF_vars(Step)

-----------------------------------------------------------------------------
(* Properties *)

\* Sons and parents point to each other, and to nodes that are not freed.
LinksAgree ==
    \A n \in nodes :
      /\ \A d \in Sides : child[n][d] # Null =>
           child[n][d] \in nodes /\ parent[child[n][d]] = n
      /\ parent[n] # Null =>
           parent[n] \in nodes /\ \E d \in Sides : child[parent[n]][d] = n

\* What is on the left of a node has smaller keys, what is on its right greater ones.
Ordered ==
    \A n \in nodes :
      /\ below[n] \subseteq nodes
      /\ below[n] = {n} \cup BelowOf(child[n]["left"]) \cup BelowOf(child[n]["right"])
      /\ \A m \in BelowOf(child[n]["left"]) : key[m] < key[n]
      /\ \A m \in BelowOf(child[n]["right"]) : key[n] < key[m]

KeysUnique == \A m, n \in nodes : key[m] = key[n] => m = n

\* Outside an operation everything is below the root: no node is lost.
RootReachesAll ==
    pc = "idle" =>
      /\ root = Null <=> nodes = {}
      /\ root # Null => root \in nodes /\ parent[root] = Null /\ below[root] = nodes

\* Between any two rotations of any operation the map is a search tree with
\* consistent links, no key is in it twice, and none of its nodes is lost.
WellFormed == ~frozen => LinksAgree /\ Ordered /\ KeysUnique /\ RootReachesAll

\* The size of a node is the number of nodes in its subtree, which is what
\* conn_mgr_get_number_of_sessions reads from the root.
SizesCount == ~frozen => \A n \in nodes : size[n] = Cardinality(below[n])

Dict == [k \in Keys |->
           IF frozen \/ \A n \in nodes : key[n] # k THEN Absent
           ELSE val[CHOOSE n \in nodes : key[n] = k]]

\* forall() visits every entry of the map once, in ascending order of keys,
\* whatever rotations came before (broadcasts, poll sets and user lists).
ForallAscends ==
    pc = "idle" /\ ~frozen =>
      LET walk == Walk[root] IN
        /\ {key[walk[i]] : i \in DOMAIN walk} = {k \in Keys : Dict[k] # Absent}
        /\ \A i, j \in DOMAIN walk : i < j => key[walk[i]] < key[walk[j]]

\* Destruction frees every node.
NothingLeaks == frozen => nodes = {}

\* Every operation comes to its end: the splay loop terminates.
OperationEnds == pc # "idle" ~> pc = "idle"

\* The call that has not had its effect yet.
Pending ==
    IF op \in {"none", "merge"} THEN NoCall
    ELSE [name |-> IF op = "split" THEN "insert" ELSE op, key |-> arg, val |-> new]

Abstract == INSTANCE Dictionary WITH dict <- Dict, call <- Pending

\* The splay tree is a dictionary: every call has the effect and the answer
\* that its key has in a table, with nothing but the calls before it to matter.
Implements == Abstract!Spec

=============================================================================
