------------------------------ MODULE TsMapProofs ------------------------------
(***************************************************************************)
(* TsMap is a search tree in every reachable state, its sizes are exact,   *)
(* and it implements Dictionary, for any keys, values and nodes.           *)
(*                                                                         *)
(* All parts of the inductive invariant but Placed are about a map that is *)
(* not destroyed.  A destroyed one has no node, and every call ends at     *)
(* once.                                                                   *)
(***************************************************************************)
EXTENDS TsMap, FiniteSetTheorems, SequenceTheorems,
        WellFoundedInduction, TLAPS

\* Which variables an operation uses at its step.
Placed ==
    /\ pc # "splay" => turns = << >>
    /\ pc = "idle" <=> op = "none"
    /\ pc = "idle" => cur = Null
    /\ op \notin {"none", "merge"} => arg \in Keys
    /\ op # "merge" => other = Null
    /\ op = "split" => cur # Null
    /\ frozen => pc # "splay" /\ cur = Null /\ op \in {"none", "insert", "erase"}

\* A subtree is closed upwards and downwards.
Up ==
    \A x \in nodes : \A m \in below[x] :
       m # x => parent[m] # Null /\ parent[m] \in below[x]
Down == \A x \in nodes : \A m \in below[x] : below[m] \subseteq below[x]

TreeInv == LinksAgree /\ Ordered /\ KeysUnique /\ Up /\ Down

\* The nodes that are not in the right tree of a merge().
Here == IF op = "merge" THEN nodes \ below[other] ELSE nodes

\* A node without parent is above all others.
Reach == \A n \in nodes : parent[n] = Null => n = other \/ below[n] = Here

PlaceInv ==
    /\ cur = Null =>
         /\ root = Null <=> nodes = {}
         /\ root # Null => root \in nodes /\ parent[root] = Null
    /\ pc # "idle" => IF cur = Null THEN nodes = {} ELSE cur \in Here
    /\ pc = "splay" => cur # Null
    /\ \A i \in DOMAIN turns : turns[i][1] \in Here

\* The search has left aside only nodes on the other side of the key.
SearchInv ==
    pc = "search" /\ cur # Null =>
      \A m \in Here, x \in below[cur] :
         m \notin below[cur] =>
            IF op = "merge" THEN key[m] < key[x]
            ELSE key[m] # arg /\ (key[m] < arg <=> key[m] < key[x])

\* The node that is splayed has the key, or no key is between its own and that
\* one; for merge() it is the greatest.
NearestInv ==
    pc = "splay" =>
      IF op = "merge" THEN \A m \in Here : m # cur => key[m] < key[cur]
      ELSE key[cur] = arg \/ \A m \in nodes :
             key[m] # arg /\ (m # cur => (key[m] < arg <=> key[m] < key[cur]))

\* insert() splits the tree only at a key that is not in it.
NewKeyInv == op = "split" => \A m \in nodes : key[m] # arg

\* The two trees of a merge() are beside each other.
MergeInv ==
    op = "merge" =>
      /\ other \in nodes
      /\ parent[other] = Null
      /\ \A m \in Here, x \in below[other] : key[m] < key[x]

SizesExact == \A n \in nodes : size[n] = Cardinality(below[n])

Live ==
    /\ TreeInv
    /\ SizesExact
    /\ Reach
    /\ PlaceInv
    /\ SearchInv
    /\ NearestInv
    /\ NewKeyInv
    /\ MergeInv

IInv == TypeOK /\ Placed /\ (~frozen => Live)

-----------------------------------------------------------------------------
(* The two sides are alike. *)

\* Key j is on side d of key k.
Beside(d, j, k) == IF d = "left" THEN j < k ELSE k < j

SideOrdered ==
    \A n \in nodes :
      /\ below[n] \subseteq nodes
      /\ \A d \in Sides :
           /\ below[n] = {n} \cup BelowOf(child[n][d]) \cup BelowOf(child[n][Opposite(d)])
           /\ \A x \in BelowOf(child[n][d]) : Beside(d, key[x], key[n])

LEMMA SideFacts ==
  ASSUME NEW d \in Sides
  PROVE  /\ Opposite(d) \in Sides
         /\ Opposite(d) # d
         /\ \A e \in Sides : e = d \/ e = Opposite(d)
         /\ Opposite(Opposite(d)) = d
         /\ \A j, k : Beside(Opposite(d), j, k) <=> Beside(d, k, j)
         /\ \A j \in Nat : ~Beside(d, j, j)
         /\ \A i, j, k \in Nat : Beside(d, i, j) /\ Beside(d, j, k) => Beside(d, i, k)
BY DEF Sides, Opposite, Beside

LEMMA OrderedSides == Ordered <=> SideOrdered
BY DEF Ordered, SideOrdered, Sides, Opposite, Beside

LEMMA OrderedSidesNext == Ordered' <=> SideOrdered'
BY DEF Ordered, SideOrdered, Sides, Opposite, Beside, BelowOf

LEMMA TypeFacts ==
  ASSUME TypeOK
  PROVE  /\ \A n \in Nodes : /\ key[n] \in Nat
                             /\ parent[n] \in Nodes \cup {Null}
                             /\ below[n] \subseteq Nodes
                             /\ size[n] \in Nat
                             /\ \A d \in Sides : child[n][d] \in Nodes \cup {Null}
         /\ \A k \in Keys \cup {0} : k \in Nat
         /\ arg \in Nat
         /\ nodes \subseteq Nodes
         /\ Null \notin Nodes
<1>1. \A k \in Keys \cup {0} : k \in Nat
  BY KeysAssumption
<1>2. \A n \in Nodes, d \in Sides : child[n][d] \in Nodes \cup {Null}
  BY DEF TypeOK
<1>3. \A n \in Nodes : key[n] \in Nat /\ size[n] \in Nat /\ below[n] \subseteq Nodes
  BY <1>1 DEF TypeOK
<1> QED
  BY <1>1, <1>2, <1>3, NodesAssumption DEF TypeOK

\* A node is in its own subtree, below its sons' parents, and on one side only.
LEMMA TreeFacts ==
  ASSUME TypeOK, LinksAgree, SideOrdered, Down, NEW n \in nodes, NEW d \in Sides
  PROVE  /\ n \in below[n]
         /\ n \notin BelowOf(child[n][d])
         /\ BelowOf(child[n][d]) \subseteq below[n]
         /\ BelowOf(child[n][d]) \cap BelowOf(child[n][Opposite(d)]) = {}
         /\ child[n][d] # Null =>
              /\ child[n][d] \in nodes
              /\ parent[child[n][d]] = n
              /\ child[n][d] # n
              /\ child[n][d] \in below[child[n][d]]
              /\ n \notin below[child[n][d]]
              /\ child[n][d] # child[n][Opposite(d)]
<1> USE TypeFacts, SideFacts
<1>1. /\ n \in below[n] /\ BelowOf(child[n][d]) \subseteq below[n]
      /\ below[n] \subseteq nodes
  BY DEF SideOrdered
<1>2. n \notin BelowOf(child[n][d])
  BY <1>1 DEF SideOrdered
<1>3. \A x \in Nodes : ~(Beside(d, key[x], key[n]) /\ Beside(Opposite(d), key[x], key[n]))
  BY DEF Beside, Opposite, Sides
<1>4. BelowOf(child[n][d]) \cap BelowOf(child[n][Opposite(d)]) = {}
  BY <1>1, <1>3 DEF SideOrdered
<1>5. ASSUME child[n][d] # Null
      PROVE  /\ child[n][d] \in nodes
             /\ parent[child[n][d]] = n
             /\ child[n][d] \in below[child[n][d]]
             /\ below[child[n][d]] = BelowOf(child[n][d])
  BY <1>5 DEF LinksAgree, SideOrdered, BelowOf
<1> QED
  BY <1>1, <1>2, <1>4, <1>5 DEF BelowOf

-----------------------------------------------------------------------------
(* A rotation: the son r of n, the son m of r, the parent p of n. *)

\* The node n with its son r on the side away from d, about to be turned.
Turning(n, d, r, m, p) ==
    /\ n \in nodes
    /\ d \in Sides
    /\ r = child[n][Opposite(d)] /\ r # Null
    /\ m = child[r][d]
    /\ p = parent[n]

\* The nodes about it are not confused with each other.
Apart(n, d, r, m, p) ==
    /\ r \in nodes /\ parent[r] = n /\ n # r
    /\ m # Null => m \in nodes /\ parent[m] = r /\ m # n /\ m # r
    /\ p # Null => /\ p \in nodes /\ p # n /\ p # r /\ p # m
                   /\ SonSide(n) \in Sides
                   /\ child[p][SonSide(n)] = n
                   /\ child[p][Opposite(SonSide(n))] # n
    /\ child[n][d] # Null => child[n][d] \notin {n, r, m}
    /\ child[r][Opposite(d)] # Null => child[r][Opposite(d)] \notin {n, r, m}

\* What a rotation changes, node by node.
Turned(n, d, r, m, p) ==
    /\ child' \in [Nodes -> [Sides -> Nodes \cup {Null}]]
    /\ child'[n][d] = child[n][d] /\ child'[n][Opposite(d)] = m
    /\ child'[r][d] = n /\ child'[r][Opposite(d)] = child[r][Opposite(d)]
    /\ p # Null => /\ child'[p][SonSide(n)] = r
                   /\ child'[p][Opposite(SonSide(n))] = child[p][Opposite(SonSide(n))]
    /\ \A x \in Nodes \ {n, r, p} : child'[x] = child[x]
    /\ parent' \in [Nodes -> Nodes \cup {Null}]
    /\ parent'[n] = r /\ parent'[r] = p
    /\ m # Null => parent'[m] = n
    /\ \A x \in Nodes \ {n, r, m} : parent'[x] = parent[x]

LEMMA TurnPlaces ==
  ASSUME TypeOK, LinksAgree, SideOrdered, Down,
         NEW n, NEW d, NEW r, NEW m, NEW p, Turning(n, d, r, m, p)
  PROVE  Apart(n, d, r, m, p)
<1> DEFINE e == Opposite(d)
<1> USE TypeFacts, SideFacts DEF Turning
<1>1. r \in nodes /\ parent[r] = n /\ n # r /\ n \notin below[r] /\ r \in below[n]
  BY TreeFacts DEF BelowOf
<1>2. m # Null => m \in nodes /\ parent[m] = r /\ m # n /\ m # r /\ m \in below[r] /\ n \notin below[m]
  BY <1>1, TreeFacts DEF BelowOf
<1>3. ASSUME p # Null
      PROVE  /\ p \in nodes /\ SonSide(n) \in Sides
             /\ child[p][SonSide(n)] = n
             /\ child[p][Opposite(SonSide(n))] # n
             /\ p # n /\ p \notin below[n] /\ p # r /\ p # m
  <2>1. p \in nodes /\ \E f \in Sides : child[p][f] = n
    BY <1>3 DEF LinksAgree
  <2>2. SonSide(n) \in Sides /\ child[p][SonSide(n)] = n
    BY <2>1 DEF SonSide, Sides
  <2>3. child[p][Opposite(SonSide(n))] # n /\ p # n /\ p \notin below[n]
    BY <2>1, <2>2, TreeFacts
  <2>4. m # Null => m \in below[n]
    BY <1>1, <1>2, TreeFacts DEF Down
  <2> QED
    BY <1>1, <2>1, <2>2, <2>3, <2>4
<1>4. child[n][d] # Null => child[n][d] \notin {n, r, m}
  <2> SUFFICES ASSUME child[n][d] # Null PROVE child[n][d] \notin {n, r, m}
    OBVIOUS
  <2>1. child[n][d] # n /\ child[n][d] # r /\ parent[child[n][d]] = n
    BY TreeFacts
  <2> QED
    BY <1>1, <1>2, <2>1
<1>5. child[r][e] # Null => child[r][e] \notin {n, r, m}
  <2> SUFFICES ASSUME child[r][e] # Null PROVE child[r][e] \notin {n, r, m}
    OBVIOUS
  <2>1. child[r][e] # r /\ child[r][e] # m /\ parent[child[r][e]] = r
    BY <1>1, TreeFacts
  <2>2. child[r][e] \in below[r]
    BY <1>1, TreeFacts DEF BelowOf
  <2> QED
    BY <1>1, <2>1, <2>2
<1> QED
  BY <1>1, <1>2, <1>3, <1>4, <1>5 DEF Apart

LEMMA TurnEffect ==
  ASSUME TypeOK, LinksAgree, SideOrdered, Down,
         NEW n, NEW d, NEW r, NEW m, NEW p, Turning(n, d, r, m, p), Relink(n, d, r, m, p)
  PROVE  Turned(n, d, r, m, p)
<1> USE TypeFacts, SideFacts
<1>0. Apart(n, d, r, m, p)
  BY TurnPlaces
<1>1. n \in Nodes /\ r \in Nodes /\ d \in Sides /\ Opposite(d) \in Sides /\ n # r
      /\ m \in Nodes \cup {Null} /\ p \in Nodes \cup {Null}
      /\ child \in [Nodes -> [Sides -> Nodes \cup {Null}]]
  BY <1>0 DEF Turning, TypeOK, Apart
<1> DEFINE moved == [child EXCEPT ![n][Opposite(d)] = m, ![r][d] = n]
<1>2. /\ moved \in [Nodes -> [Sides -> Nodes \cup {Null}]]
      /\ moved[n][d] = child[n][d] /\ moved[n][Opposite(d)] = m
      /\ moved[r][d] = n /\ moved[r][Opposite(d)] = child[r][Opposite(d)]
      /\ \A x \in Nodes \ {n, r} : moved[x] = child[x]
  <2>1. moved[n] = [child[n] EXCEPT ![Opposite(d)] = m]
    BY <1>1
  <2>2. moved[r] = [child[r] EXCEPT ![d] = n]
    BY <1>1
  <2>3. \A x \in Nodes \ {n, r} : moved[x] = child[x]
    BY <1>1
  <2>4. DOMAIN moved = Nodes /\ moved = [x \in Nodes |-> moved[x]]
    BY <1>1
  <2> HIDE DEF moved
  <2>5. moved[n] \in [Sides -> Nodes \cup {Null}] /\ moved[r] \in [Sides -> Nodes \cup {Null}]
    BY <1>1, <2>1, <2>2
  <2>6. \A x \in Nodes : moved[x] \in [Sides -> Nodes \cup {Null}]
    BY <1>1, <2>3, <2>5
  <2>7. moved \in [Nodes -> [Sides -> Nodes \cup {Null}]]
    BY <2>4, <2>6
  <2> QED
    BY <1>1, <2>1, <2>2, <2>3, <2>7
<1>3. child' = IF p = Null THEN moved ELSE [moved EXCEPT ![p][SonSide(n)] = r]
  BY Zenon DEF Relink
<1>p. /\ parent' \in [Nodes -> Nodes \cup {Null}]
      /\ parent'[n] = r /\ parent'[r] = p
      /\ m # Null => parent'[m] = n
      /\ \A x \in Nodes \ {n, r, m} : parent'[x] = parent[x]
  <2>1. parent' = [x \in Nodes |-> IF x = n THEN r ELSE IF x = r THEN p
                                  ELSE IF x = m THEN n ELSE parent[x]]
    BY Zenon DEF Relink
  <2> QED
    BY <1>0, <1>1, <2>1 DEF Apart
<1>4. CASE p = Null
  <2>1. child' = moved
    BY <1>3, <1>4
  <2> HIDE DEF moved
  <2> QED
    BY <1>1, <1>2, <1>p, <1>4, <2>1 DEF Turned
<1>5. CASE p # Null
  <2>1. child' = [moved EXCEPT ![p][SonSide(n)] = r]
    BY <1>3, <1>5
  <2>2. p \in Nodes /\ p # n /\ p # r /\ SonSide(n) \in Sides
    BY <1>0, <1>5 DEF Turning, Apart
  <2> HIDE DEF moved
  <2>3. /\ child' \in [Nodes -> [Sides -> Nodes \cup {Null}]]
        /\ child'[p][SonSide(n)] = r
        /\ child'[p][Opposite(SonSide(n))] = moved[p][Opposite(SonSide(n))]
        /\ \A x \in Nodes \ {p} : child'[x] = moved[x]
    BY <1>1, <1>2, <2>1, <2>2
  <2>4. moved[p] = child[p]
    BY <1>2, <2>2
  <2> QED
    BY <1>1, <1>2, <1>p, <1>5, <2>2, <2>3, <2>4 DEF Turned
<1> QED
  BY <1>4, <1>5

LEMMA TurnLinks ==
  ASSUME TypeOK, LinksAgree, SideOrdered, Down, nodes' = nodes,
         NEW n, NEW d, NEW r, NEW m, NEW p, Turning(n, d, r, m, p), Relink(n, d, r, m, p)
  PROVE  LinksAgree'
<1> USE TypeFacts, SideFacts
<1>a. Apart(n, d, r, m, p) /\ Turned(n, d, r, m, p)
  BY TurnPlaces, TurnEffect
<1>0. n \in nodes /\ d \in Sides /\ r = child[n][Opposite(d)] /\ r # Null
      /\ m = child[r][d] /\ p = parent[n]
  BY DEF Turning
<1>1. ASSUME NEW x \in nodes, NEW f \in Sides, child'[x][f] # Null
      PROVE  child'[x][f] \in nodes /\ parent'[child'[x][f]] = x
  <2>1. CASE x \in {n, r, p}
    <3>1. CASE x = n
      BY <1>a, <1>0, <1>1, <3>1 DEF LinksAgree, Apart, Turned
    <3>2. CASE x = r
      BY <1>a, <1>0, <1>1, <3>2 DEF LinksAgree, Apart, Turned
    <3>3. CASE x = p
      <4>1. f = SonSide(n) \/ f = Opposite(SonSide(n))
        BY <1>a, <1>1, <3>3 DEF Apart
      <4>2. CASE f = SonSide(n)
        BY <1>a, <1>0, <1>1, <3>3, <4>2 DEF Apart, Turned
      <4>3. CASE f = Opposite(SonSide(n))
        BY <1>a, <1>0, <1>1, <3>3, <4>3 DEF LinksAgree, Apart, Turned
      <4> QED
        BY <4>1, <4>2, <4>3
    <3> QED
      BY <2>1, <3>1, <3>2, <3>3
  <2>2. CASE x \notin {n, r, p}
    BY <1>a, <1>0, <1>1, <2>2 DEF LinksAgree, Turned
  <2> QED
    BY <2>1, <2>2
<1>2. ASSUME NEW x \in nodes, parent'[x] # Null
      PROVE  parent'[x] \in nodes /\ \E f \in Sides : child'[parent'[x]][f] = x
  <2>1. CASE x \in {n, r, m}
    BY <1>a, <1>0, <1>2, <2>1 DEF LinksAgree, Apart, Turned
  <2>2. CASE x \notin {n, r, m}
    <3>1. PICK f \in Sides : parent[x] \in nodes /\ child[parent[x]][f] = x
      BY <1>a, <1>2, <2>2 DEF LinksAgree, Turned
    <3> QED
      BY <1>a, <1>0, <1>2, <2>2, <3>1 DEF Apart, Turned
  <2> QED
    BY <2>1, <2>2
<1> QED
  BY <1>1, <1>2 DEF LinksAgree

\* What it does to the subtrees: that of r is now what that of n was.
TurnedBelow(n, d, r, m) ==
    /\ below' \in [Nodes -> SUBSET Nodes]
    /\ below'[n] = {n} \cup BelowOf(child[n][d]) \cup BelowOf(m)
    /\ below'[r] = below[n]
    /\ below[n] = {r} \cup below'[n] \cup BelowOf(child[r][Opposite(d)])
    /\ below'[n] \subseteq below[n]
    /\ r \notin below'[n]
    /\ r \in below[n] /\ n \notin BelowOf(child[n][d]) \cup below[r]
    /\ r \notin BelowOf(child[n][d]) \cup BelowOf(m) \cup BelowOf(child[r][Opposite(d)])
    /\ BelowOf(m) \cup BelowOf(child[r][Opposite(d)]) \subseteq below[r]
    /\ \A x \in Nodes \ {n, r} : below'[x] = below[x]

LEMMA TurnSubtrees ==
  ASSUME TypeOK, LinksAgree, SideOrdered, Down,
         NEW n, NEW d, NEW r, NEW m, NEW p, Turning(n, d, r, m, p), Relink(n, d, r, m, p)
  PROVE  TurnedBelow(n, d, r, m)
<1> USE TypeFacts, SideFacts
<1>a. Apart(n, d, r, m, p)
  BY TurnPlaces
<1>0. n \in nodes /\ d \in Sides /\ r = child[n][Opposite(d)] /\ r # Null
      /\ m = child[r][d] /\ p = parent[n] /\ n \in Nodes /\ r \in Nodes /\ n # r /\ r \in nodes
  BY <1>a DEF Turning, Apart
<1> DEFINE A == BelowOf(child[n][d])
           M == BelowOf(m)
           B == BelowOf(child[r][Opposite(d)])
<1>1. below[n] = {n} \cup A \cup below[r] /\ below[r] = {r} \cup M \cup B
  BY <1>0 DEF SideOrdered, BelowOf
<1>2. n \notin A /\ n \notin below[r] /\ A \cap below[r] = {} /\ r \in below[r]
  BY <1>0, TreeFacts DEF BelowOf
<1>3. r \notin M \cup B
  BY <1>0, TreeFacts
<1>4. A \in SUBSET Nodes /\ M \in SUBSET Nodes /\ B \in SUBSET Nodes
  BY <1>0, <1>1
<1>5. below' = [below EXCEPT ![n] = {n} \cup A \cup M, ![r] = {r} \cup ({n} \cup A \cup M) \cup B]
  BY Zenon DEF Relink
<1>6. below \in [Nodes -> SUBSET Nodes]
  BY DEF TypeOK
<1> HIDE DEF A, M, B
<1>7. /\ below' \in [Nodes -> SUBSET Nodes]
      /\ below'[n] = {n} \cup A \cup M
      /\ below'[r] = {r} \cup {n} \cup A \cup M \cup B
      /\ \A x \in Nodes \ {n, r} : below'[x] = below[x]
  BY <1>0, <1>4, <1>5, <1>6
<1>8. /\ below'[r] = below[n]
      /\ below[n] = {r} \cup below'[n] \cup B
      /\ below'[n] \subseteq below[n]
      /\ r \notin below'[n] /\ r \notin A
  BY <1>0, <1>1, <1>2, <1>3, <1>7
<1>9. M \cup B \subseteq below[r]
  BY <1>1
<1> QED
  BY <1>1, <1>2, <1>3, <1>7, <1>8, <1>9 DEF TurnedBelow, A, M, B

LEMMA TurnOrdered ==
  ASSUME TypeOK, LinksAgree, SideOrdered, Down, nodes' = nodes, key' = key,
         NEW n, NEW d, NEW r, NEW m, NEW p, Turning(n, d, r, m, p), Relink(n, d, r, m, p)
  PROVE  SideOrdered'
<1> USE TypeFacts, SideFacts
<1>a. Apart(n, d, r, m, p) /\ Turned(n, d, r, m, p) /\ TurnedBelow(n, d, r, m)
  BY TurnPlaces, TurnEffect, TurnSubtrees
<1>0. n \in nodes /\ d \in Sides /\ r = child[n][Opposite(d)] /\ r # Null
      /\ m = child[r][d] /\ p = parent[n] /\ n # r /\ r \in nodes
  BY <1>a DEF Turning, Apart
<1>b. \A x \in Nodes, f \in Sides :
        child'[x][f] \notin {n, r} => BelowOf(child[x][f])' = BelowOf(child'[x][f])
  BY <1>a DEF BelowOf, Turned, TurnedBelow
<1>c. /\ child'[n][d] \notin {n, r} /\ child'[n][Opposite(d)] \notin {n, r}
      /\ child'[r][Opposite(d)] \notin {n, r}
  BY <1>a, <1>0 DEF Apart, Turned
<1> DEFINE Good(x, f) ==
             /\ below'[x] = {x} \cup BelowOf(child[x][f])' \cup BelowOf(child[x][Opposite(f)])'
             /\ \A y \in BelowOf(child[x][f])' : Beside(f, key[y], key[x])
<1> SUFFICES ASSUME NEW x \in nodes
             PROVE  below'[x] \subseteq nodes /\ \A f \in Sides : Good(x, f)
  BY DEF SideOrdered
<1>1. below'[x] \subseteq nodes
  BY <1>a, <1>0 DEF TurnedBelow, SideOrdered
<1>2. CASE x = n
  <2>1. BelowOf(child[n][d])' = BelowOf(child[n][d])
    BY <1>a, <1>b, <1>c, <1>0 DEF Turned
  <2>2. BelowOf(child[n][Opposite(d)])' = BelowOf(m)
    BY <1>a, <1>b, <1>c, <1>0 DEF Turned
  <2>3. \A y \in BelowOf(child[n][d]) : Beside(d, key[y], key[n])
    BY <1>0 DEF SideOrdered
  <2>4. \A y \in BelowOf(m) : Beside(Opposite(d), key[y], key[n])
    BY <1>a, <1>0 DEF SideOrdered, TurnedBelow, BelowOf
  <2>5. Good(n, d) /\ Good(n, Opposite(d))
    BY <1>a, <1>0, <2>1, <2>2, <2>3, <2>4 DEF TurnedBelow
  <2> QED
    BY <1>0, <1>1, <1>2, <2>5
<1>3. CASE x = r
  <2>1. BelowOf(child[r][d])' = below'[n]
    BY <1>a, <1>0 DEF BelowOf, Turned
  <2>2. BelowOf(child[r][Opposite(d)])' = BelowOf(child[r][Opposite(d)])
    BY <1>a, <1>b, <1>c, <1>0 DEF Turned
  <2>3. \A y \in BelowOf(child[r][Opposite(d)]) : Beside(Opposite(d), key[y], key[r])
    BY <1>0 DEF SideOrdered
  <2>4. Beside(d, key[n], key[r])
    <3>1. r \in BelowOf(child[n][Opposite(d)])
      BY <1>0, TreeFacts DEF BelowOf
    <3> QED
      BY <1>0, <3>1 DEF SideOrdered
  <2>5. \A y \in BelowOf(m) : Beside(d, key[y], key[r])
    BY <1>0 DEF SideOrdered
  <2>6. \A y \in BelowOf(child[n][d]) : Beside(d, key[y], key[r])
    <3> SUFFICES ASSUME NEW y \in BelowOf(child[n][d]) PROVE Beside(d, key[y], key[r])
      OBVIOUS
    <3>1. Beside(d, key[y], key[n]) /\ y \in Nodes
      BY <1>0 DEF SideOrdered
    <3> QED
      BY <1>0, <2>4, <3>1
  <2>7. \A y \in below'[n] : Beside(d, key[y], key[r])
    BY <1>a, <2>4, <2>5, <2>6 DEF TurnedBelow
  <2>8. Good(r, d) /\ Good(r, Opposite(d))
    <3>1. below'[r] = {r} \cup below'[n] \cup BelowOf(child[r][Opposite(d)])
      BY <1>a DEF TurnedBelow
    <3> QED
      BY <1>0, <2>1, <2>2, <2>3, <2>7, <3>1
  <2> QED
    BY <1>0, <1>1, <1>3, <2>8
<1>4. CASE x \notin {n, r}
  <2>1. below'[x] = below[x]
    BY <1>a, <1>4 DEF TurnedBelow
  <2>2. \A f \in Sides : BelowOf(child[x][f])' = BelowOf(child[x][f])
    <3> SUFFICES ASSUME NEW f \in Sides PROVE BelowOf(child[x][f])' = BelowOf(child[x][f])
      OBVIOUS
    <3>1. CASE x = p /\ f = SonSide(n)
      <4>1. p # Null /\ child'[x][f] = r /\ child[x][f] = n
        BY <1>a, <1>0, <3>1 DEF Turned, Apart
      <4> QED
        BY <1>a, <1>0, <4>1 DEF BelowOf, TurnedBelow
    <3>2. CASE x # p \/ f # SonSide(n)
      <4>1. child'[x][f] = child[x][f]
        BY <1>a, <1>0, <1>4, <3>2 DEF Turned, Apart
      <4>2. child[x][f] # Null => child[x][f] \in nodes /\ parent[child[x][f]] = x
        BY DEF LinksAgree
      <4>3. child[x][f] # n /\ child[x][f] # r
        BY <1>a, <1>0, <1>4, <3>2, <4>2 DEF Apart
      <4> QED
        BY <1>a, <4>1, <4>2, <4>3 DEF BelowOf, TurnedBelow
    <3> QED
      BY <3>1, <3>2
  <2> QED
    BY <1>1, <2>1, <2>2 DEF SideOrdered
<1> QED
  BY <1>2, <1>3, <1>4

LEMMA TurnDown ==
  ASSUME TypeOK, LinksAgree, SideOrdered, Up, Down, nodes' = nodes,
         NEW n, NEW d, NEW r, NEW m, NEW p, Turning(n, d, r, m, p), Relink(n, d, r, m, p)
  PROVE  Down'
<1>a. Apart(n, d, r, m, p) /\ TurnedBelow(n, d, r, m)
  BY TurnPlaces, TurnSubtrees
<1>0. /\ n \in nodes /\ d \in Sides /\ r = child[n][Opposite(d)] /\ r # Null
      /\ m = child[r][d] /\ n # r /\ r \in nodes /\ parent[r] = n
      /\ nodes \subseteq Nodes /\ Opposite(d) \in Sides
  BY <1>a, TypeFacts, SideFacts DEF Turning, Apart
<1> SUFFICES ASSUME NEW x \in nodes, NEW y \in below'[x] PROVE below'[y] \subseteq below'[x]
  BY DEF Down
<1>1. \A z \in nodes, f \in Sides : child[z][f] # Null => child[z][f] \in nodes
  BY DEF LinksAgree
<1>2. y \in nodes
  BY <1>a, <1>0 DEF SideOrdered, TurnedBelow
<1>4. CASE x \notin {n, r}
  <2>1. below'[x] = below[x]
    BY <1>a, <1>0, <1>4 DEF TurnedBelow
  <2>2. CASE y # r
    <3>1. below'[y] \subseteq below[y]
      BY <1>a, <1>0, <1>2, <2>2 DEF TurnedBelow
    <3> QED
      BY <2>1, <3>1 DEF Down
  <2>3. CASE y = r
    <3>1. n \in below[x]
      BY <1>0, <1>4, <2>1, <2>3 DEF Up
    <3> QED
      BY <1>a, <2>1, <2>3, <3>1 DEF Down, TurnedBelow
  <2> QED
    BY <2>2, <2>3
<1>5. CASE x = n
  <2>1. CASE y = n
    BY <1>5, <2>1
  <2>2. ASSUME NEW c, c = child[n][d] \/ c = m, y \in BelowOf(c)
        PROVE  below'[y] \subseteq below'[x]
    <3>1. c \in nodes /\ y \in below[c] /\ BelowOf(c) = below[c]
      BY <1>0, <1>1, <2>2 DEF BelowOf
    <3>2. below[y] \subseteq BelowOf(c)
      BY <3>1 DEF Down
    <3>3. y # n /\ y # r
      BY <1>a, <2>2 DEF TurnedBelow
    <3> QED
      BY <1>a, <1>0, <1>2, <1>5, <2>2, <3>2, <3>3 DEF TurnedBelow
  <2> QED
    BY <1>a, <1>5, <2>1, <2>2 DEF TurnedBelow
<1>6. CASE x = r
  <2>1. below[y] \subseteq below[n]
    BY <1>a, <1>0, <1>6 DEF Down, TurnedBelow
  <2>2. below'[y] \subseteq below[n]
    BY <1>a, <1>0, <1>2, <2>1 DEF TurnedBelow
  <2> QED
    BY <1>a, <1>6, <2>2 DEF TurnedBelow
<1> QED
  BY <1>4, <1>5, <1>6

LEMMA TurnUp ==
  ASSUME TypeOK, LinksAgree, SideOrdered, Up, Down, nodes' = nodes,
         NEW n, NEW d, NEW r, NEW m, NEW p, Turning(n, d, r, m, p), Relink(n, d, r, m, p)
  PROVE  Up'
<1>a. Apart(n, d, r, m, p) /\ TurnedBelow(n, d, r, m) /\ Turned(n, d, r, m, p)
  BY TurnPlaces, TurnSubtrees, TurnEffect
<1>0. /\ n \in nodes /\ d \in Sides /\ r = child[n][Opposite(d)] /\ r # Null
      /\ m = child[r][d] /\ n # r /\ r \in nodes /\ parent[r] = n /\ p = parent[n]
      /\ nodes \subseteq Nodes /\ Null \notin Nodes /\ Opposite(d) \in Sides
  BY <1>a, TypeFacts, SideFacts DEF Turning, Apart
<1> SUFFICES ASSUME NEW x \in nodes, NEW y \in below'[x], y # x
             PROVE  parent'[y] # Null /\ parent'[y] \in below'[x]
  BY DEF Up
<1>1. \A z \in nodes, f \in Sides : child[z][f] # Null =>
         child[z][f] \in nodes /\ parent[child[z][f]] = z
  BY DEF LinksAgree
<1>2. y \in nodes
  BY <1>a, <1>0 DEF SideOrdered, TurnedBelow
<1>3. r \in below[n] /\ (m # Null => m \in below[r])
  BY <1>a, <1>0, TreeFacts DEF BelowOf, Apart
<1>4. CASE x \notin {n, r}
  <2>1. below'[x] = below[x] /\ parent[y] # Null /\ parent[y] \in below[x]
    BY <1>a, <1>0, <1>4 DEF TurnedBelow, Up
  <2>2. CASE y = n
    <3>1. r \in below[x]
      BY <1>3, <2>1, <2>2 DEF Down
    <3> QED
      BY <1>a, <1>0, <2>1, <2>2, <3>1 DEF Turned
  <2>3. CASE y = r
    <3>1. p # Null /\ p \in below[x]
      BY <1>0, <1>4, <2>1, <2>3 DEF Up
    <3> QED
      BY <1>a, <2>1, <2>3, <3>1 DEF Turned
  <2>4. CASE y = m /\ m # Null
    <3>1. n \in below[x]
      BY <1>a, <1>0, <1>4, <2>1, <2>4 DEF Up, Apart
    <3> QED
      BY <1>a, <1>0, <2>1, <2>4, <3>1 DEF Turned
  <2>5. CASE y \notin {n, r, m}
    BY <1>a, <1>0, <1>2, <2>1, <2>5 DEF Turned
  <2> QED
    BY <1>0, <1>2, <2>2, <2>3, <2>4, <2>5
<1>5. ASSUME y \in below'[n], y # n
      PROVE  parent'[y] # Null /\ parent'[y] \in below'[n]
  <2>1. PICK c : (c = child[n][d] \/ c = m) /\ y \in BelowOf(c)
    BY <1>a, <1>5 DEF TurnedBelow
  <2>2. c \in nodes /\ c # Null /\ y \in below[c] /\ below[c] \subseteq below'[n]
    <3>1. c # Null /\ y \in below[c] /\ BelowOf(c) = below[c]
      BY <2>1 DEF BelowOf
    <3>2. c \in nodes
      BY <1>0, <1>1, <2>1, <3>1
    <3> QED
      BY <1>a, <2>1, <3>1, <3>2 DEF TurnedBelow
  <2>3. parent'[c] = n /\ n \in below'[n]
    BY <1>a, <1>0, <1>1, <2>1, <2>2 DEF Turned, Apart, TurnedBelow
  <2>4. y # r /\ (y = m => c = m)
    <3>1. y # r
      BY <1>a, <1>5 DEF TurnedBelow
    <3>2. ASSUME y = m, c = child[n][d] PROVE FALSE
      <4>1. y # c
        BY <1>a, <1>0, <2>2, <3>2 DEF Apart
      <4>2. parent[y] = r /\ r \in below[c]
        BY <1>a, <1>0, <1>2, <2>2, <3>2, <4>1 DEF Apart, Up
      <4> QED
        BY <1>a, <2>2, <4>2 DEF TurnedBelow
    <3> QED
      BY <2>1, <3>1, <3>2
  <2>5. CASE y = c
    BY <1>0, <2>3, <2>5
  <2>6. CASE y # c
    <3>1. parent[y] # Null /\ parent[y] \in below[c]
      BY <2>2, <2>6 DEF Up
    <3>2. parent'[y] = parent[y]
      BY <1>a, <1>0, <1>2, <1>5, <2>4, <2>6 DEF Turned
    <3> QED
      BY <2>2, <3>1, <3>2
  <2> QED
    BY <2>5, <2>6
<1>6. CASE x = r
  <2>1. CASE y \in below'[n]
    <3>1. y # n => parent'[y] # Null /\ parent'[y] \in below'[n]
      BY <1>5, <2>1
    <3>2. below'[n] \subseteq below'[r] /\ r \in below'[r]
      BY <1>a DEF TurnedBelow
    <3>3. parent'[n] = r /\ r # Null
      BY <1>a, <1>0 DEF Turned
    <3> QED
      BY <1>6, <3>1, <3>2, <3>3
  <2>2. CASE y \notin below'[n]
    <3>1. y \in BelowOf(child[r][Opposite(d)])
      BY <1>a, <1>6, <2>2 DEF TurnedBelow
    <3>2. y \in below[r] /\ y # r /\ y # n
      BY <1>a, <3>1 DEF TurnedBelow
    <3>3. y # m
      <4>1. m # Null => m \in BelowOf(m)
        BY <1>a, <1>0, TreeFacts DEF BelowOf, Apart
      <4> QED
        BY <1>a, <1>0, <1>2, <2>2, <4>1 DEF TurnedBelow
    <3>4. parent[y] # Null /\ parent[y] \in below[r] /\ parent'[y] = parent[y]
      BY <1>a, <1>0, <1>2, <3>2, <3>3 DEF Up, Turned
    <3>5. below[r] \subseteq below'[r]
      BY <1>a, <1>0, <1>3 DEF Down, TurnedBelow
    <3> QED
      BY <1>6, <3>4, <3>5
  <2> QED
    BY <2>1, <2>2
<1> QED
  BY <1>4, <1>5, <1>6

LEMMA SizeOfSubtrees ==
  ASSUME NEW n, NEW A, NEW B, NEW S, S = {n} \cup A \cup B,
         IsFiniteSet(A), IsFiniteSet(B), n \notin A, n \notin B, A \cap B = {}
  PROVE  IsFiniteSet(S) /\ Cardinality(S) = 1 + Cardinality(A) + Cardinality(B)
<1>1. Cardinality(A) \in Nat /\ Cardinality(B) \in Nat
  BY FS_CardinalityType
<1>2. /\ IsFiniteSet(A \cup B)
      /\ Cardinality(A \cup B) = Cardinality(A) + Cardinality(B) - Cardinality(A \cap B)
  BY FS_Union
<1>3. Cardinality(A \cap B) = 0
  BY FS_EmptySet
<1>4. n \notin A \cup B
  OBVIOUS
<1>5. /\ IsFiniteSet((A \cup B) \cup {n})
      /\ Cardinality((A \cup B) \cup {n}) = Cardinality(A \cup B) + 1
  BY <1>2, <1>4, FS_AddElement
<1>6. Cardinality((A \cup B) \cup {n}) = 1 + Cardinality(A) + Cardinality(B)
  BY <1>1, <1>2, <1>3, <1>5
<1>7. S = (A \cup B) \cup {n}
  OBVIOUS
<1> QED
  BY <1>5, <1>6, <1>7, Zenon

LEMMA SonSizes ==
  ASSUME TypeOK, LinksAgree, SizesExact, NEW c, c \in nodes \/ c = Null
  PROVE  SizeOf(c) = Cardinality(BelowOf(c)) /\ IsFiniteSet(BelowOf(c))
<1>1. IsFiniteSet(BelowOf(c))
  BY FS_Subset, FS_EmptySet, NodesAssumption DEF TypeOK, BelowOf
<1>2. SizeOf(c) = Cardinality(BelowOf(c))
  BY FS_EmptySet DEF SizesExact, SizeOf, BelowOf
<1> QED
  BY <1>1, <1>2

LEMMA TurnSizes ==
  ASSUME TypeOK, LinksAgree, SideOrdered, Down, SizesExact, nodes' = nodes,
         NEW n, NEW d, NEW r, NEW m, NEW p, Turning(n, d, r, m, p), Relink(n, d, r, m, p)
  PROVE  SizesExact' /\ size' \in [Nodes -> Nat]
<1>a. Apart(n, d, r, m, p) /\ TurnedBelow(n, d, r, m)
  BY TurnPlaces, TurnSubtrees
<1>0. /\ n \in nodes /\ d \in Sides /\ r = child[n][Opposite(d)] /\ r # Null
      /\ m = child[r][d] /\ n # r /\ r \in nodes
      /\ nodes \subseteq Nodes /\ Opposite(d) \in Sides
      /\ \A z \in nodes, f \in Sides : child[z][f] = Null \/ child[z][f] \in nodes
  BY <1>a, TypeFacts, SideFacts DEF Turning, Apart, LinksAgree
<1> DEFINE A == BelowOf(child[n][d])
           M == BelowOf(m)
           B == BelowOf(child[r][Opposite(d)])
           sizeN == 1 + SizeOf(child[n][d]) + SizeOf(m)
<1>1. /\ SizeOf(child[n][d]) = Cardinality(A) /\ IsFiniteSet(A)
      /\ SizeOf(m) = Cardinality(M) /\ IsFiniteSet(M)
      /\ SizeOf(child[r][Opposite(d)]) = Cardinality(B) /\ IsFiniteSet(B)
  BY <1>0, SonSizes
<1>2. /\ n \notin A /\ n \notin M /\ A \cap M = {} /\ n \notin B
      /\ A \cap B = {} /\ M \cap B = {}
  <2>1. M \cup B \subseteq below[r] /\ n \notin A \cup below[r]
    BY <1>a DEF TurnedBelow
  <2>2. A \cap below[r] = {}
    BY <1>0, TreeFacts DEF BelowOf
  <2>3. M \cap B = {}
    BY <1>0, TreeFacts
  <2> QED
    BY <2>1, <2>2, <2>3
<1>3. below'[n] = {n} \cup A \cup M /\ below'[r] = {r} \cup below'[n] \cup B
      /\ r \notin below'[n] /\ r \notin B
  BY <1>a DEF TurnedBelow
<1>4. IsFiniteSet(below'[n]) /\ Cardinality(below'[n]) = sizeN
  <2> HIDE DEF A, M, B
  <2>1. \A S : S = {n} \cup A \cup M =>
           IsFiniteSet(S) /\ Cardinality(S) = 1 + Cardinality(A) + Cardinality(M)
    BY <1>1, <1>2, SizeOfSubtrees
  <2>2. IsFiniteSet(below'[n]) /\ Cardinality(below'[n]) = 1 + Cardinality(A) + Cardinality(M)
    BY <1>3, <2>1, Zenon
  <2> QED
    BY <1>1, <2>2
<1>5. below'[n] \cap B = {}
  BY <1>2, <1>3
<1>6. Cardinality(below'[r]) = 1 + Cardinality(below'[n]) + Cardinality(B)
  <2> HIDE DEF A, M, B
  <2>0. r \notin below'[n] /\ r \notin B /\ IsFiniteSet(below'[n]) /\ IsFiniteSet(B)
    BY <1>1, <1>3, <1>4
  <2>1. \A S : S = {r} \cup below'[n] \cup B =>
           Cardinality(S) = 1 + Cardinality(below'[n]) + Cardinality(B)
    BY <2>0, <1>5, SizeOfSubtrees
  <2> QED
    BY <1>3, <2>1, Zenon
<1>7. size' = [size EXCEPT ![n] = sizeN, ![r] = 1 + sizeN + SizeOf(child[r][Opposite(d)])]
  BY Zenon DEF Relink
<1>8. sizeN \in Nat /\ SizeOf(child[r][Opposite(d)]) \in Nat
  BY <1>1, FS_CardinalityType
<1> HIDE DEF sizeN, A, M, B
<1>9. /\ size' \in [Nodes -> Nat]
      /\ size'[n] = Cardinality(below'[n])
      /\ size'[r] = Cardinality(below'[r])
      /\ \A x \in Nodes \ {n, r} : size'[x] = size[x] /\ below'[x] = below[x]
  <2> DEFINE sizeR == 1 + sizeN + SizeOf(child[r][Opposite(d)])
  <2>1. sizeR \in Nat /\ size \in [Nodes -> Nat]
    BY <1>8 DEF TypeOK
  <2>2. sizeN = Cardinality(below'[n]) /\ sizeR = Cardinality(below'[r])
    BY <1>1, <1>4, <1>6
  <2> HIDE DEF sizeR
  <2>3. /\ size' \in [Nodes -> Nat] /\ size'[n] = sizeN /\ size'[r] = sizeR
        /\ \A x \in Nodes \ {n, r} : size'[x] = size[x]
    BY <1>0, <1>7, <1>8, <2>1 DEF sizeR
  <2>4. \A x \in Nodes \ {n, r} : below'[x] = below[x]
    BY <1>a DEF TurnedBelow
  <2> QED
    BY <2>2, <2>3, <2>4
<1> QED
  BY <1>0, <1>9 DEF SizesExact

-----------------------------------------------------------------------------
(* Types and places. *)

LEMMA InitIInv == Init => IInv
<1> SUFFICES ASSUME Init PROVE IInv
  OBVIOUS
<1>1. TypeOK
  <2>1. /\ child \in [Nodes -> [Sides -> Nodes \cup {Null}]]
        /\ parent \in [Nodes -> Nodes \cup {Null}]
        /\ key \in [Nodes -> Keys \cup {0}]
        /\ size \in [Nodes -> Nat]
        /\ below \in [Nodes -> SUBSET Nodes]
        /\ val \in [Nodes -> Vals \cup {Nothing}]
    BY DEF Init, Leaf
  <2>2. answer \in Vals \cup {Nothing} \cup BOOLEAN /\ frozen \in BOOLEAN
    BY Zenon DEF Init
  <2> QED
    BY <2>1, <2>2 DEF Init, TypeOK, Ops
<1>2. Placed
  BY DEF Init, Placed
<1>3. TreeInv /\ SizesExact /\ Reach
  BY DEF Init, TreeInv, LinksAgree, Ordered, KeysUnique, Up, Down, SizesExact, Reach
<1>4. PlaceInv /\ SearchInv /\ NearestInv /\ NewKeyInv /\ MergeInv
  BY DEF Init, PlaceInv, SearchInv, NearestInv, NewKeyInv, MergeInv
<1> QED
  BY <1>1, <1>2, <1>3, <1>4 DEF IInv, Live

\* The rotation that is next, if it is one.
LEMMA RotateCases ==
  ASSUME TypeOK, Placed, Live, Rotate
  PROVE  \/ UNCHANGED treeVars
         \/ \E n, d, r, m, p : /\ Turning(n, d, r, m, p) /\ Relink(n, d, r, m, p)
                              /\ n \in Here
<1>1. PICK t \in Nodes \X Sides : t = turns[1] /\ 1 \in DOMAIN turns
  BY DEF Rotate, TypeOK
<1>2. t[1] \in Here /\ t[1] \in nodes /\ t[2] \in Sides
  BY <1>1 DEF Live, PlaceInv, Here
<1>3. IF child[t[1]][Opposite(t[2])] = Null THEN UNCHANGED treeVars ELSE Turn(t[1], t[2])
  BY <1>1, Zenon DEF Rotate
<1>4. ASSUME child[t[1]][Opposite(t[2])] # Null
      PROVE  \E n, d, r, m, p : Turning(n, d, r, m, p) /\ Relink(n, d, r, m, p) /\ n \in Here
  <2>1. \E n, d, r, m, p : /\ n = t[1] /\ d = t[2] /\ r = child[n][Opposite(d)]
                           /\ m = child[r][d] /\ p = parent[n]
    OBVIOUS
  <2>2. PICK n, d, r, m, p : /\ n = t[1] /\ d = t[2] /\ r = child[n][Opposite(d)]
                             /\ m = child[r][d] /\ p = parent[n]
    BY <2>1, Zenon
  <2>3. Turn(n, d) /\ n \in nodes /\ n \in Here /\ d \in Sides /\ r # Null
    BY <1>2, <1>3, <1>4, <2>2, Zenon
  <2>4. Relink(n, d, r, m, p)
    BY <2>2, <2>3, Zenon DEF Turn
  <2>5. Turning(n, d, r, m, p)
    BY <2>2, <2>3, Zenon DEF Turning
  <2> QED
    BY <2>3, <2>4, <2>5, Zenon
<1> QED
  BY <1>3, <1>4, Zenon

LEMMA RotateType ==
  ASSUME TypeOK, Placed, Live, Rotate
  PROVE  /\ child' \in [Nodes -> [Sides -> Nodes \cup {Null}]]
         /\ parent' \in [Nodes -> Nodes \cup {Null}]
         /\ size' \in [Nodes -> Nat]
         /\ below' \in [Nodes -> SUBSET Nodes]
<1>1. CASE UNCHANGED treeVars
  BY <1>1 DEF treeVars, TypeOK
<1>2. ASSUME NEW n, NEW d, NEW r, NEW m, NEW p, Turning(n, d, r, m, p), Relink(n, d, r, m, p)
      PROVE  /\ child' \in [Nodes -> [Sides -> Nodes \cup {Null}]]
             /\ parent' \in [Nodes -> Nodes \cup {Null}]
             /\ size' \in [Nodes -> Nat]
             /\ below' \in [Nodes -> SUBSET Nodes]
  <2>1. LinksAgree /\ SideOrdered /\ Down /\ SizesExact /\ nodes' = nodes
    BY OrderedSides DEF Live, TreeInv, Rotate
  <2>2. Turned(n, d, r, m, p) /\ TurnedBelow(n, d, r, m)
    BY <1>2, <2>1, TurnEffect, TurnSubtrees
  <2>3. size' \in [Nodes -> Nat]
    BY <1>2, <2>1, TurnSizes
  <2> QED
    BY <2>2, <2>3 DEF Turned, TurnedBelow
<1> QED
  BY <1>1, <1>2, RotateCases

LEMMA FreeType ==
  ASSUME TypeOK, NEW gone, Free(gone)
  PROVE  /\ nodes' \in SUBSET Nodes
         /\ key' \in [Nodes -> Keys \cup {0}]
         /\ val' \in [Nodes -> Vals \cup {Nothing}]
         /\ child' \in [Nodes -> [Sides -> Nodes \cup {Null}]]
         /\ size' \in [Nodes -> Nat]
         /\ below' \in [Nodes -> SUBSET Nodes]
BY DEF TypeOK, Free, Leaf

\* What split() does with the new node n, the two parts of the tree being under
\* the splayed node and under m.
Cut(n, d, m, rest) ==
    /\ d = IF key[cur] < arg THEN "right" ELSE "left"
    /\ m = child[cur][d] /\ rest = child[cur][Opposite(d)]
    /\ NewRoot(n, arg, new)
    /\ child' = [child EXCEPT
                   ![cur] = [@ EXCEPT ![d] = Null],
                   ![n] = [Leaf EXCEPT ![d] = m, ![Opposite(d)] = cur]]
    /\ parent' = [x \in Nodes |-> IF x = n THEN Null
                                  ELSE IF x \in {cur, m} THEN n ELSE parent[x]]
    /\ size' = [size EXCEPT ![cur] = 1 + SizeOf(rest),
                            ![n] = 2 + SizeOf(m) + SizeOf(rest)]
    /\ below' = [below EXCEPT
                   ![cur] = {cur} \cup BelowOf(rest),
                   ![n] = {n, cur} \cup BelowOf(m) \cup BelowOf(rest)]

LEMMA SplitCuts ==
  ASSUME Split
  PROVE  \E n \in Nodes \ nodes, d \in Sides : \E m, rest : Cut(n, d, m, rest)
<1>1. PICK d \in Sides : d = IF key[cur] < arg THEN "right" ELSE "left"
  BY DEF Sides
<1>2. \E m, rest : m = child[cur][d] /\ rest = child[cur][Opposite(d)]
  OBVIOUS
<1>3. PICK m, rest : m = child[cur][d] /\ rest = child[cur][Opposite(d)]
  BY <1>2, Zenon
<1>4. PICK n \in Nodes \ nodes :
         LET d_1 == IF key[cur] < arg THEN "right" ELSE "left"
             m_1 == child[cur][d_1]
             rest_1 == child[cur][Opposite(d_1)]
         IN /\ NewRoot(n, arg, new)
            /\ child' = [child EXCEPT
                           ![cur] = [@ EXCEPT ![d_1] = Null],
                           ![n] = [Leaf EXCEPT ![d_1] = m_1, ![Opposite(d_1)] = cur]]
            /\ parent' = [x \in Nodes |-> IF x = n THEN Null
                                          ELSE IF x \in {cur, m_1} THEN n ELSE parent[x]]
            /\ size' = [size EXCEPT ![cur] = 1 + SizeOf(rest_1),
                                    ![n] = 2 + SizeOf(m_1) + SizeOf(rest_1)]
            /\ below' = [below EXCEPT
                           ![cur] = {cur} \cup BelowOf(rest_1),
                           ![n] = {n, cur} \cup BelowOf(m_1) \cup BelowOf(rest_1)]
  BY Zenon DEF Split
<1>5. Cut(n, d, m, rest)
  BY <1>1, <1>3, <1>4, Zenon DEF Cut
<1> QED
  BY <1>5, Zenon

LEMMA TypeStep ==
  ASSUME IInv, Next
  PROVE  TypeOK' /\ Placed'
<1> USE DEF IInv
<1>b. /\ TRUE \in Vals \cup {Nothing} \cup BOOLEAN
      /\ FALSE \in Vals \cup {Nothing} \cup BOOLEAN
      /\ Nothing \in Vals \cup {Nothing} \cup BOOLEAN
  BY Zenon
<1>f. \A result : result \in Vals \cup {Nothing} \cup BOOLEAN /\ Finish(result) =>
        /\ answer' \in Vals \cup {Nothing} \cup BOOLEAN
        /\ op' = "none" /\ pc' = "idle" /\ cur' = Null
        /\ op' \in Ops /\ arg' \in Keys \cup {0} /\ new' \in Vals \cup {Nothing}
        /\ pc' \in {"idle", "search", "splay"} /\ cur' \in Nodes \cup {Null}
  BY DEF Finish, Ops
<1>1. CASE InsertFirst
  <2>1. PICK n \in Nodes \ nodes :
           /\ NewRoot(n, arg, new)
           /\ child' = [child EXCEPT ![n] = Leaf]
           /\ parent' = [parent EXCEPT ![n] = Null]
           /\ size' = [size EXCEPT ![n] = 1]
           /\ below' = [below EXCEPT ![n] = {n}]
    BY <1>1 DEF InsertFirst
  <2>2. Leaf \in [Sides -> Nodes \cup {Null}]
    BY DEF Leaf
  <2>3. child' \in [Nodes -> [Sides -> Nodes \cup {Null}]]
    BY <2>1, <2>2 DEF TypeOK
  <2>4. /\ parent' \in [Nodes -> Nodes \cup {Null}]
        /\ size' \in [Nodes -> Nat]
        /\ below' \in [Nodes -> SUBSET Nodes]
    BY <2>1 DEF TypeOK
  <2>5. /\ nodes' \in SUBSET Nodes /\ key' \in [Nodes -> Keys \cup {0}]
        /\ val' \in [Nodes -> Vals \cup {Nothing}] /\ root' \in Nodes
    BY <2>1 DEF TypeOK, NewRoot
  <2>6. /\ Finish(TRUE) /\ UNCHANGED <<frozen, turns, other>>
        /\ turns = << >> /\ op # "merge" /\ ~frozen
    BY <1>1 DEF InsertFirst, Placed
  <2> QED
    BY <1>b, <1>f, <2>3, <2>4, <2>5, <2>6 DEF TypeOK, Placed
<1>2. CASE AnswerEmpty \/ Refuse
  <2>1. PICK result \in Vals \cup {Nothing} \cup BOOLEAN : Finish(result)
    <3>1. CASE AnswerEmpty
      BY <1>b, <3>1, Zenon DEF AnswerEmpty
    <3>2. CASE Refuse
      BY <1>b, <3>2, Zenon DEF Refuse
    <3> QED
      BY <1>2, <3>1, <3>2
  <2>2. UNCHANGED <<root, frozen, treeVars, key, val, nodes, turns, other>>
    BY <1>2 DEF AnswerEmpty, Refuse
  <2>3. pc # "splay" /\ (op = "merge" => ~frozen)
    BY <1>2 DEF AnswerEmpty, Refuse, Placed
  <2>4. op # "merge"
    BY <1>2, <2>3 DEF AnswerEmpty, Refuse, Live, PlaceInv, MergeInv
  <2> QED
    BY <1>f, <2>1, <2>2, <2>3, <2>4 DEF TypeOK, Placed, treeVars
<1>3. CASE Descend
  <2>1. ~frozen /\ cur \in Nodes /\ NextDown \in Sides
    BY <1>3 DEF Descend, Placed, TypeOK, NextDown, SideOf, Sides
  <2>2. child[cur][NextDown] \in Nodes \cup {Null}
    BY <2>1, TypeFacts
  <2>3. cur' # Null
    BY <1>3 DEF Descend, Arrived
  <2> QED
    BY <1>3, <2>1, <2>2, <2>3 DEF Descend, TypeOK, Placed, treeVars
<1>4. CASE Plan
  <2>1. ~frozen /\ cur \in Nodes /\ parent[cur] \in Nodes
    BY <1>4 DEF Plan, Placed, Live, PlaceInv, TypeOK
  <2>2. turns' \in Seq(Nodes \X Sides)
    <3> DEFINE p == parent[cur]
               g == parent[p]
               d == SonSide(cur)
    <3>1. d \in Sides /\ Opposite(d) \in Sides /\ g \in Nodes \cup {Null}
      BY <2>1 DEF SonSide, Sides, Opposite, TypeOK
    <3>2. turns' = IF g = Null THEN << <<p, Opposite(d)>> >>
                   ELSE IF SonSide(p) = d
                   THEN << <<g, Opposite(d)>>, <<p, Opposite(d)>> >>
                   ELSE << <<p, Opposite(d)>>, <<g, d>> >>
      BY <1>4, Zenon DEF Plan
    <3>3. <<p, Opposite(d)>> \in Nodes \X Sides
      BY <2>1, <3>1
    <3>4. g # Null => <<g, Opposite(d)>> \in Nodes \X Sides /\ <<g, d>> \in Nodes \X Sides
      BY <3>1
    <3>5. \A t, u \in Nodes \X Sides : <<t>> \in Seq(Nodes \X Sides) /\ <<t, u>> \in Seq(Nodes \X Sides)
      OBVIOUS
    <3> HIDE DEF p, g, d
    <3> QED
      BY <3>2, <3>3, <3>4, <3>5
  <2> QED
    BY <1>4, <2>1, <2>2 DEF Plan, TypeOK, Placed, treeVars
<1>5. CASE Rotate
  <2>1. ~frozen
    BY <1>5 DEF Rotate, Placed
  <2>2. Tail(turns) \in Seq(Nodes \X Sides)
    BY <1>5 DEF Rotate, TypeOK
  <2> QED
    BY <1>5, <2>1, <2>2, RotateType DEF Rotate, TypeOK, Placed
<1>6. CASE FindReturns \/ HasReturns \/ InsertRefused \/ EraseMisses
  <2>1. cur \in Nodes /\ ~frozen /\ val[cur] \in Vals \cup {Nothing}
    BY <1>6 DEF FindReturns, HasReturns, InsertRefused, EraseMisses, Splayed, Placed,
                Live, PlaceInv, TypeOK
  <2>2. PICK result \in Vals \cup {Nothing} \cup BOOLEAN : Return(result)
    BY <1>6, <2>1 DEF FindReturns, HasReturns, InsertRefused, EraseMisses
  <2>3. Splayed /\ op # "merge"
    BY <1>6 DEF FindReturns, HasReturns, InsertRefused, EraseMisses
  <2> QED
    BY <1>f, <2>1, <2>2, <2>3 DEF Return, TypeOK, Placed, treeVars, Splayed
<1>7. CASE InsertSplits
  BY <1>7 DEF InsertSplits, Splayed, TypeOK, Placed, treeVars, Ops, Live, PlaceInv
<1>8. CASE Split
  <2>1. cur \in Nodes /\ ~frozen
    BY <1>8 DEF Split, Splayed, Placed, Live, PlaceInv, TypeOK
  <2>p. PICK n \in Nodes \ nodes, d \in Sides : \E m, rest : Cut(n, d, m, rest)
    BY <1>8, SplitCuts
  <2>2. PICK m, rest : Cut(n, d, m, rest)
    BY <2>p, Zenon
  <2>m. m \in Nodes \cup {Null} /\ rest \in Nodes \cup {Null}
    BY <2>1, <2>2, TypeFacts, SideFacts DEF Cut
  <2>3. /\ SizeOf(m) \in Nat /\ SizeOf(rest) \in Nat
        /\ BelowOf(m) \subseteq Nodes /\ BelowOf(rest) \subseteq Nodes
    BY <2>m, TypeFacts DEF SizeOf, BelowOf
  <2>4. [Leaf EXCEPT ![d] = m, ![Opposite(d)] = cur] \in [Sides -> Nodes \cup {Null}]
    BY <2>1, <2>m, SideFacts DEF Leaf
  <2>5. child' \in [Nodes -> [Sides -> Nodes \cup {Null}]]
    <3>1. child' = [child EXCEPT ![cur] = [@ EXCEPT ![d] = Null],
                                 ![n] = [Leaf EXCEPT ![d] = m, ![Opposite(d)] = cur]]
      BY <2>2 DEF Cut
    <3> DEFINE L == [Leaf EXCEPT ![d] = m, ![Opposite(d)] = cur]
               C == [child[cur] EXCEPT ![d] = Null]
    <3>2. C \in [Sides -> Nodes \cup {Null}] /\ L \in [Sides -> Nodes \cup {Null}]
      BY <2>1, <2>4 DEF TypeOK
    <3>3. child' = [child EXCEPT ![cur] = C, ![n] = L]
      BY <3>1
    <3>4. child \in [Nodes -> [Sides -> Nodes \cup {Null}]]
      BY DEF TypeOK
    <3> HIDE DEF L, C
    <3> QED
      BY <2>1, <3>2, <3>3, <3>4
  <2>6. /\ size' \in [Nodes -> Nat] /\ below' \in [Nodes -> SUBSET Nodes]
        /\ parent' \in [Nodes -> Nodes \cup {Null}]
    <3>1. size' \in [Nodes -> Nat]
      BY <2>1, <2>2, <2>3 DEF TypeOK, Cut
    <3>2. below' \in [Nodes -> SUBSET Nodes]
      BY <2>1, <2>2, <2>3 DEF TypeOK, Cut
    <3>3. parent' \in [Nodes -> Nodes \cup {Null}]
      BY <2>1, <2>2, <2>3 DEF TypeOK, Cut
    <3> QED
      BY <3>1, <3>2, <3>3
  <2>7. /\ nodes' \in SUBSET Nodes /\ key' \in [Nodes -> Keys \cup {0}]
        /\ val' \in [Nodes -> Vals \cup {Nothing}] /\ root' \in Nodes
    BY <2>2 DEF TypeOK, Cut, NewRoot
  <2>8. Finish(TRUE) /\ UNCHANGED <<frozen, turns, other>> /\ turns = << >> /\ op # "merge"
    BY <1>8 DEF Split, Splayed
  <2> QED
    BY <1>b, <1>f, <2>1, <2>5, <2>6, <2>7, <2>8 DEF TypeOK, Placed
<1>9. CASE Detach
  <2>1. cur \in Nodes /\ ~frozen /\ val[cur] \in Vals \cup {Nothing}
    BY <1>9 DEF Detach, Splayed, Placed, Live, PlaceInv, TypeOK
  <2>2. PICK l \in Nodes \cup {Null}, r \in Nodes \cup {Null} :
         /\ parent' = [x \in Nodes |-> IF x \in {l, r} THEN Null ELSE parent[x]]
         /\ IF l # Null /\ r # Null
            THEN /\ op' = "merge"
                 /\ pc' = "search"
                 /\ cur' = l
                 /\ other' = r
                 /\ answer' = val[cur]
                 /\ UNCHANGED <<root, arg, new>>
            ELSE /\ root' = IF l = Null THEN r ELSE l
                 /\ Finish(val[cur])
                 /\ UNCHANGED other
         /\ Free({cur})
    <3>1. child[cur]["left"] \in Nodes \cup {Null} /\ child[cur]["right"] \in Nodes \cup {Null}
      BY <2>1, TypeFacts DEF Sides
    <3> QED
      BY <1>9, <3>1, Zenon DEF Detach
  <2>3. parent' \in [Nodes -> Nodes \cup {Null}]
    BY <2>2 DEF TypeOK
  <2>4. UNCHANGED <<frozen, turns>> /\ turns = << >> /\ op = "erase"
    BY <1>9 DEF Detach, Splayed
  <2>5. CASE l # Null /\ r # Null
    BY <2>1, <2>2, <2>3, <2>4, <2>5, FreeType DEF TypeOK, Placed, Ops
  <2>6. CASE ~(l # Null /\ r # Null)
    BY <1>f, <2>1, <2>2, <2>3, <2>4, <2>6, FreeType DEF TypeOK, Placed
  <2> QED
    BY <2>5, <2>6
<1>10. CASE Merge
  <2>1. cur \in Nodes /\ ~frozen /\ other \in Nodes /\ answer \in Vals \cup {Nothing} \cup BOOLEAN
    BY <1>10 DEF Merge, Splayed, Placed, Live, PlaceInv, MergeInv, TypeOK
  <2>2. 1 + SizeOf(child[cur]["left"]) + SizeOf(other) \in Nat
    <3>1. child[cur]["left"] \in Nodes \cup {Null}
      BY <2>1, TypeFacts DEF Sides
    <3> QED
      BY <2>1, <3>1, TypeFacts DEF SizeOf
  <2>3. child' \in [Nodes -> [Sides -> Nodes \cup {Null}]]
    <3>1. child' = [child EXCEPT ![cur]["right"] = other]
      BY <1>10 DEF Merge
    <3>2. child \in [Nodes -> [Sides -> Nodes \cup {Null}]]
      BY DEF TypeOK
    <3> QED
      BY <2>1, <3>1, <3>2
  <2> QED
    BY <1>10, <1>f, <2>1, <2>2, <2>3 DEF Merge, Splayed, TypeOK, Placed
<1>11. ASSUME NEW name \in Ops \ {"none", "merge", "split"}, NEW k \in Keys, NEW v \in Vals \cup {Nothing},
              Begin(name, k, v)
       PROVE  TypeOK' /\ Placed'
  BY <1>11 DEF Begin, TypeOK, Placed, treeVars, Ops
<1>12. CASE Destroy
  BY <1>12, FreeType DEF Destroy, TypeOK, Placed, opVars
<1>13. CASE Call
  <2>1. CASE \E e \in Entries : Begin("insert", e[1], e[2])
    BY <1>11, <2>1, EntriesAssumption DEF Ops
  <2>2. CASE \E k \in Keys, name \in {"find", "has", "erase"} : Begin(name, k, new)
    BY <1>11, <2>2 DEF Ops, TypeOK
  <2> QED
    BY <1>12, <1>13, <2>1, <2>2 DEF Call
<1> QED
  BY <1>1, <1>2, <1>3, <1>4, <1>5, <1>6, <1>7, <1>8, <1>9, <1>10, <1>13 DEF Next, Step

-----------------------------------------------------------------------------
(* Steps that leave the tree as it is. *)

LEMMA ParentFacts ==
  ASSUME TypeOK, Live, NEW n \in nodes, parent[n] # Null
  PROVE  /\ parent[n] \in nodes
         /\ below[n] \subseteq below[parent[n]]
         /\ n \in Here => parent[n] \in Here
<1>1. LinksAgree /\ SideOrdered /\ Down
  BY OrderedSides DEF Live, TreeInv
<1>2. PICK d \in Sides : parent[n] \in nodes /\ child[parent[n]][d] = n
  BY <1>1 DEF LinksAgree
<1>3. BelowOf(n) \subseteq below[parent[n]] /\ n \in below[n] /\ n # Null
  BY <1>1, <1>2, TreeFacts, TypeFacts
<1>4. below[n] \subseteq below[parent[n]]
  BY <1>3 DEF BelowOf
<1>5. op = "merge" /\ parent[n] \in below[other] => n \in below[other]
  BY <1>1, <1>3, <1>4 DEF Down, Live, MergeInv
<1> QED
  BY <1>2, <1>4, <1>5 DEF Here

\* The node that is splayed has become the root of its tree.
LEMMA SplayedFacts ==
  ASSUME IInv, Splayed
  PROVE  /\ ~frozen /\ TypeOK /\ Live
         /\ LinksAgree /\ SideOrdered /\ KeysUnique /\ Up /\ Down
         /\ cur \in nodes /\ cur \in Nodes /\ cur \in Here /\ cur # other
         /\ cur \in below[cur] /\ below[cur] = Here
         /\ op # "merge" => Here = nodes /\ other = Null
         /\ \A x \in nodes : x # cur => cur \notin below[x]
         /\ \A x \in nodes, f \in Sides : child[x][f] # cur
<1>1. ~frozen /\ TypeOK /\ Live /\ Placed
  BY DEF IInv, Splayed, Placed
<1>2. LinksAgree /\ SideOrdered /\ KeysUnique /\ Up /\ Down
  BY <1>1, OrderedSides DEF Live, TreeInv
<1>3. cur \in Here /\ cur \in nodes /\ cur \in Nodes /\ Null \notin Nodes /\ nodes \subseteq Nodes
  BY <1>1, TypeFacts DEF Live, PlaceInv, Splayed, Here
<1>4. \A n \in nodes : n \in below[n]
  BY <1>1, <1>2, TreeFacts DEF Sides
<1>5. cur # other
  BY <1>1, <1>3, <1>4, TypeFacts DEF Here, Live, MergeInv, Placed
<1>6. below[cur] = Here
  BY <1>1, <1>3, <1>5 DEF Live, Reach, Splayed
<1>7. \A x \in nodes : x # cur => cur \notin below[x]
  BY <1>2, <1>3 DEF Up, Splayed
<1>8. \A x \in nodes, f \in Sides : child[x][f] # cur
  BY <1>2, <1>3 DEF LinksAgree, Splayed
<1> QED
  BY <1>1, <1>2, <1>3, <1>4, <1>5, <1>6, <1>7, <1>8 DEF Here, Placed

\* What is about the tree alone, and about the tree and the kind of operation.
LEMMA QuietTree ==
  ASSUME Live, UNCHANGED <<child, parent, size, below, key, nodes>>
  PROVE  TreeInv' /\ SizesExact'
<1>1. LinksAgree' /\ Ordered' /\ KeysUnique' /\ Up' /\ Down' /\ SizesExact'
  BY DEF Live, TreeInv, LinksAgree, Ordered, BelowOf, KeysUnique, Up, Down, SizesExact
<1> QED
  BY <1>1 DEF TreeInv

LEMMA QuietMerge ==
  ASSUME Live, UNCHANGED <<child, parent, size, below, key, nodes, other>>,
         op = "merge" <=> op' = "merge"
  PROVE  Reach' /\ MergeInv' /\ Here' = Here
<1>1. Here' = Here
  BY DEF Here
<1> QED
  BY <1>1 DEF Live, Reach, MergeInv

LEMMA BeginLive ==
  ASSUME IInv, NEW name \in Ops, NEW k, NEW v, Begin(name, k, v), ~frozen',
         name \notin {"merge", "split"}
  PROVE  Live'
<1>1. ~frozen /\ Live /\ Placed /\ TypeOK /\ UNCHANGED <<treeVars, key, nodes, other, turns>>
      /\ pc = "idle" /\ pc' = "search" /\ cur' = root /\ op' = name /\ op = "none"
      /\ cur = Null /\ turns = << >> /\ other = Null
  BY DEF Begin, IInv, Placed
<1>2. TreeInv' /\ SizesExact' /\ Reach' /\ MergeInv' /\ Here' = Here /\ Here = nodes
  BY <1>1, QuietTree, QuietMerge DEF treeVars, Here
<1>3. /\ root = Null => nodes = {}
      /\ root # Null => root \in nodes /\ below[root] = nodes
  BY <1>1, <1>2 DEF Live, PlaceInv, Reach
<1>4. PlaceInv'
  BY <1>1, <1>2, <1>3 DEF PlaceInv, treeVars, Begin
<1>5. SearchInv'
  BY <1>1, <1>2, <1>3 DEF SearchInv, treeVars
<1> QED
  BY <1>1, <1>2, <1>4, <1>5 DEF Live, NearestInv, NewKeyInv

\* The tree is empty, or the splayed node becomes the map's root.
LEMMA ReturnLive ==
  ASSUME IInv, AnswerEmpty \/ FindReturns \/ HasReturns \/ InsertRefused \/ EraseMisses
  PROVE  Live'
<1>1. ~frozen /\ Live /\ Placed /\ TypeOK /\ op # "merge" /\ turns = << >> /\ other = Null
  <2>1. CASE AnswerEmpty
    BY <2>1 DEF AnswerEmpty, IInv, Placed, Live, PlaceInv, MergeInv
  <2>2. CASE ~AnswerEmpty
    BY <2>2 DEF FindReturns, HasReturns, InsertRefused, EraseMisses, Splayed, IInv, Placed
  <2> QED
    BY <2>1, <2>2
<1>2. UNCHANGED <<treeVars, key, nodes, other, turns>> /\ pc' = "idle" /\ cur' = Null /\ op' = "none"
  BY DEF AnswerEmpty, FindReturns, HasReturns, InsertRefused, EraseMisses, Return, Finish
<1>3. TreeInv' /\ SizesExact' /\ Reach' /\ MergeInv'
  BY <1>1, <1>2, QuietTree, QuietMerge DEF treeVars
<1>4. \/ cur = Null /\ root' = root
      \/ Splayed /\ root' = cur
  BY DEF AnswerEmpty, FindReturns, HasReturns, InsertRefused, EraseMisses, Return
<1>5. /\ root' = Null <=> nodes = {}
      /\ root' # Null => root' \in nodes /\ parent[root'] = Null
  <2>1. CASE cur = Null /\ root' = root
    BY <1>1, <2>1 DEF Live, PlaceInv
  <2>2. CASE Splayed /\ root' = cur
    BY <2>2, SplayedFacts, TypeFacts DEF Splayed
  <2> QED
    BY <1>4, <2>1, <2>2
<1>6. PlaceInv'
  BY <1>1, <1>2, <1>5 DEF PlaceInv, treeVars
<1> QED
  BY <1>2, <1>3, <1>6 DEF Live, SearchInv, NearestInv, NewKeyInv

LEMMA InsertSplitsLive ==
  ASSUME IInv, InsertSplits
  PROVE  Live'
<1>1. UNCHANGED <<treeVars, key, nodes, other, turns, cur, arg, root>> /\ Splayed /\ op = "insert"
      /\ op' = "split" /\ pc' = "search" /\ key[cur] # arg
  BY DEF InsertSplits
<1>2. Live /\ cur \in nodes /\ below[cur] = nodes /\ Here = nodes
      /\ cur # Null /\ turns = << >>
  BY <1>1, SplayedFacts, TypeFacts DEF Splayed
<1>3. TreeInv' /\ SizesExact' /\ Reach' /\ MergeInv' /\ Here' = Here
  BY <1>1, <1>2, QuietTree, QuietMerge DEF treeVars
<1>4. PlaceInv' /\ SearchInv'
  BY <1>1, <1>2, <1>3 DEF PlaceInv, SearchInv, treeVars
<1>5. NewKeyInv'
  BY <1>1, <1>2 DEF NewKeyInv, Live, NearestInv, Splayed
<1> QED
  BY <1>1, <1>3, <1>4, <1>5 DEF Live, NearestInv

LEMMA PlanLive ==
  ASSUME IInv, Plan
  PROVE  Live'
<1>1. ~frozen /\ Live /\ TypeOK /\ UNCHANGED <<treeVars, key, nodes, other, cur, arg, root, op, pc>>
      /\ pc = "splay" /\ parent[cur] # Null /\ cur # Null /\ cur \in Here
  BY DEF Plan, IInv, Placed, Live, PlaceInv
<1>2. TreeInv' /\ SizesExact' /\ Reach' /\ MergeInv' /\ Here' = Here
  BY <1>1, QuietTree, QuietMerge DEF treeVars
<1>3. parent[cur] \in Here /\ (parent[parent[cur]] # Null => parent[parent[cur]] \in Here)
  BY <1>1, ParentFacts DEF Here
<1>4. \A i \in DOMAIN turns' : turns'[i][1] \in Here
  <2> DEFINE q == parent[cur]
             g == parent[q]
             d == SonSide(cur)
  <2>1. turns' = IF g = Null THEN << <<q, Opposite(d)>> >>
                 ELSE IF SonSide(q) = d
                 THEN << <<g, Opposite(d)>>, <<q, Opposite(d)>> >>
                 ELSE << <<q, Opposite(d)>>, <<g, d>> >>
    BY Zenon DEF Plan
  <2>2. q \in Here /\ (g # Null => g \in Here)
    BY <1>3
  <2> HIDE DEF q, g, d
  <2> QED
    BY <2>1, <2>2
<1>5. PlaceInv'
  BY <1>1, <1>2, <1>4 DEF PlaceInv, treeVars, Live
<1>6. NearestInv' /\ NewKeyInv' /\ SearchInv'
  BY <1>1, <1>2 DEF NearestInv, NewKeyInv, SearchInv, Live
<1> QED
  BY <1>2, <1>5, <1>6 DEF Live

-----------------------------------------------------------------------------
(* Going down by one node. *)

LEMMA DescendLive ==
  ASSUME IInv, Descend
  PROVE  Live'
<1> DEFINE d == NextDown
           c == child[cur][d]
<1>1. ~frozen /\ Live /\ TypeOK /\ UNCHANGED <<treeVars, key, nodes, other, arg, root, op, turns>>
      /\ pc = "search" /\ cur # Null /\ cur \in Here /\ cur \in nodes
  BY DEF Descend, IInv, Placed, Live, PlaceInv, Here
<1>2. TreeInv' /\ SizesExact' /\ Reach' /\ MergeInv' /\ Here' = Here
  BY <1>1, QuietTree, QuietMerge DEF treeVars
<1>3. LinksAgree /\ SideOrdered /\ Down /\ nodes \subseteq Nodes /\ Here \subseteq nodes
  BY <1>1, OrderedSides, TypeFacts DEF Live, TreeInv, Here
<1>4. d \in Sides
  BY DEF NextDown, SideOf, Sides
<1>5. \/ Arrived /\ pc' = "splay" /\ cur' = cur
      \/ ~Arrived /\ pc' = "search" /\ cur' = c
  BY <1>1 DEF Descend
<1>6. \A x \in nodes : key[x] \in Nat
  BY <1>1, <1>3, TypeFacts
<1>7. arg \in Nat
  BY <1>1, TypeFacts
<1>8. ASSUME ~(op # "merge" /\ arg = key[cur]),
             NEW a \in below[cur], a \notin BelowOf(c)
      PROVE  /\ a \in nodes
             /\ op = "merge" => ~(key[cur] < key[a])
             /\ op # "merge" => key[a] # arg /\ (key[a] < arg <=> d = "right")
  <2>1. a = cur \/ a \in BelowOf(child[cur][Opposite(d)])
    BY <1>1, <1>3, <1>4, <1>8 DEF SideOrdered
  <2>2. a \in nodes
    BY <1>1, <1>3, <1>8 DEF SideOrdered
  <2>3. a = cur \/ Beside(Opposite(d), key[a], key[cur])
    BY <1>1, <1>3, <1>4, <2>1, SideFacts DEF SideOrdered
  <2>4. CASE op = "merge"
    <3>1. d = "right"
      BY <2>4 DEF NextDown
    <3> QED
      BY <1>1, <1>6, <2>2, <2>3, <2>4, <3>1 DEF Beside, Opposite
  <2>5. CASE op # "merge"
    <3>1. d = IF arg < key[cur] THEN "left" ELSE "right"
      BY <2>5 DEF NextDown, SideOf
    <3>2. arg # key[cur]
      BY <1>8, <2>5
    <3> HIDE DEF d
    <3> QED
      BY <1>1, <1>6, <1>7, <2>2, <2>3, <2>5, <3>1, <3>2 DEF Beside, Opposite
  <2> QED
    BY <2>2, <2>4, <2>5
<1>9. CASE Arrived
  <2>1. pc' = "splay" /\ cur' = cur
    BY <1>5, <1>9
  <2>2. PlaceInv' /\ SearchInv' /\ NewKeyInv'
    BY <1>1, <1>2, <2>1 DEF PlaceInv, SearchInv, NewKeyInv, Live, treeVars
  <2>3. CASE op # "merge" /\ arg = key[cur]
    <3>1. NearestInv'
      BY <1>1, <2>1, <2>3 DEF NearestInv
    <3> QED
      BY <1>2, <2>2, <3>1 DEF Live
  <2>4. CASE ~(op # "merge" /\ arg = key[cur])
    <3>1. BelowOf(c) = {}
      BY <1>9, <2>4 DEF Arrived, BelowOf
    <3>2. cur \in below[cur]
      BY <1>1, <1>3, <1>4, TreeFacts
    <3>3. CASE op = "merge"
      <4>1. SUFFICES ASSUME NEW a \in Here, a # cur PROVE key[a] < key[cur]
        BY <1>1, <1>2, <2>1, <2>2, <3>3 DEF NearestInv, Live
      <4>2. CASE a \notin below[cur]
        BY <1>1, <3>2, <3>3, <4>2 DEF Live, SearchInv
      <4>3. CASE a \in below[cur]
        <5>1. ~(key[cur] < key[a]) /\ a \in nodes
          BY <1>8, <2>4, <3>1, <3>3, <4>3
        <5>2. key[a] # key[cur]
          BY <1>1, <4>1, <5>1 DEF Live, TreeInv, KeysUnique
        <5> QED
          BY <1>1, <1>6, <5>1, <5>2
      <4> QED
        BY <4>2, <4>3
    <3>4. CASE op # "merge"
      <4>1. SUFFICES ASSUME NEW a \in nodes
                     PROVE  key[a] # arg /\ (a # cur => (key[a] < arg <=> key[a] < key[cur]))
        BY <1>1, <1>2, <2>1, <2>2, <3>4 DEF NearestInv, Live
      <4>2. CASE a \notin below[cur]
        BY <1>1, <3>2, <3>4, <4>2 DEF Live, SearchInv, Here
      <4>3. CASE a \in below[cur]
        <5>1. key[a] # arg /\ (key[a] < arg <=> d = "right")
          BY <1>8, <2>4, <3>1, <3>4, <4>3
        <5>2. key[cur] # arg /\ (key[cur] < arg <=> d = "right")
          BY <1>8, <2>4, <3>1, <3>2, <3>4
        <5>3. a = cur \/ Beside(Opposite(d), key[a], key[cur])
          BY <1>1, <1>3, <1>4, <3>1, <4>3, SideFacts DEF SideOrdered
        <5> HIDE DEF d
        <5>4. d = "left" \/ d = "right"
          BY <1>4 DEF Sides
        <5> QED
          BY <1>1, <1>6, <1>7, <5>1, <5>2, <5>3, <5>4 DEF Beside, Opposite
      <4> QED
        BY <4>2, <4>3
    <3> QED
      BY <3>3, <3>4
  <2> QED
    BY <2>3, <2>4
<1>10. CASE ~Arrived
  <2>1. pc' = "search" /\ cur' = c /\ c # Null /\ ~(op # "merge" /\ arg = key[cur])
    BY <1>5, <1>10 DEF Arrived
  <2>2. c \in nodes /\ BelowOf(c) = below[c] /\ BelowOf(c) \subseteq below[cur] /\ c \in below[c]
    BY <1>1, <1>3, <1>4, <2>1, TreeFacts DEF BelowOf
  <2>3. c \in Here
    <3>1. CASE op = "merge"
      <4>1. c \notin below[other]
        <5> SUFFICES ASSUME c \in below[other] PROVE FALSE
          OBVIOUS
        <5>1. other \in nodes /\ parent[other] = Null /\ parent[c] = cur /\ cur \notin below[other]
          BY <1>1, <1>3, <1>4, <2>1, <3>1 DEF Live, MergeInv, LinksAgree, Here
        <5>2. c # other
          BY <1>1, <1>3, <5>1, TypeFacts
        <5> QED
          BY <1>1, <5>1, <5>2 DEF Live, TreeInv, Up
      <4> QED
        BY <2>2, <3>1, <4>1 DEF Here
    <3> QED
      BY <2>2, <3>1 DEF Here
  <2>4. PlaceInv'
    BY <1>1, <1>2, <2>1, <2>3 DEF PlaceInv, Live, treeVars
  <2>5. ASSUME NEW a \in Here, NEW x \in below[c], a \notin below[c]
        PROVE  IF op = "merge" THEN key[a] < key[x]
               ELSE key[a] # arg /\ (key[a] < arg <=> key[a] < key[x])
    <3>1. x \in below[cur] /\ x \in nodes /\ Beside(d, key[x], key[cur]) /\ a \in nodes
      BY <1>1, <1>3, <1>4, <2>2 DEF SideOrdered
    <3>2. CASE a \notin below[cur]
      BY <1>1, <3>1, <3>2 DEF Live, SearchInv
    <3>3. CASE a \in below[cur]
      <4>1. a = cur \/ Beside(Opposite(d), key[a], key[cur])
        BY <1>1, <1>3, <1>4, <2>2, <2>5, <3>3, SideFacts DEF SideOrdered
      <4>2. /\ op = "merge" => ~(key[cur] < key[a])
            /\ op # "merge" => key[a] # arg /\ (key[a] < arg <=> d = "right")
        BY <1>8, <2>1, <2>2, <2>5, <3>3
      <4>3. op = "merge" => d = "right"
        BY DEF NextDown
      <4>4. d = "left" \/ d = "right"
        BY <1>4 DEF Sides
      <4> HIDE DEF d
      <4> QED
        BY <1>1, <1>6, <1>7, <3>1, <4>1, <4>2, <4>3, <4>4 DEF Beside, Opposite
    <3> QED
      BY <3>2, <3>3
  <2>6. SearchInv'
    <3>1. UNCHANGED <<below, key, arg, op>>
      BY <1>1 DEF treeVars
    <3> HIDE DEF c, d
    <3> QED
      BY <1>2, <2>1, <2>5, <3>1 DEF SearchInv
  <2>7. NearestInv' /\ NewKeyInv'
    BY <1>1, <2>1 DEF NearestInv, NewKeyInv, Live
  <2> QED
    BY <1>2, <2>4, <2>6, <2>7 DEF Live
<1> QED
  BY <1>9, <1>10

-----------------------------------------------------------------------------
(* A rotation. *)

LEMMA RotateLive ==
  ASSUME IInv, Rotate
  PROVE  Live'
<1>1. ~frozen /\ Live /\ TypeOK /\ Placed /\ UNCHANGED <<key, nodes, other, arg, root, op, pc, cur>>
      /\ pc = "splay" /\ cur # Null /\ cur \in Here /\ turns' = Tail(turns) /\ turns # << >>
  BY DEF Rotate, IInv, Placed, Live, PlaceInv
<1>2. LinksAgree /\ SideOrdered /\ Up /\ Down /\ KeysUnique /\ SizesExact
      /\ nodes \subseteq Nodes /\ Null \notin Nodes
  BY <1>1, OrderedSides, TypeFacts DEF Live, TreeInv
<1>3. \A i \in DOMAIN turns' : turns'[i][1] \in Here
  <2>1. turns \in Seq(Nodes \X Sides)
    BY <1>1 DEF TypeOK
  <2>2. \A i \in DOMAIN turns : turns[i][1] \in Here
    BY <1>1 DEF Live, PlaceInv
  <2>3. SUFFICES ASSUME NEW i \in DOMAIN turns' PROVE turns'[i][1] \in Here
    OBVIOUS
  <2>4. i + 1 \in DOMAIN turns /\ turns'[i] = turns[i + 1]
    BY <1>1, <2>1
  <2> QED
    BY <2>2, <2>4
<1>4. CASE UNCHANGED treeVars
  <2>1. TreeInv' /\ SizesExact' /\ Reach' /\ MergeInv' /\ Here' = Here
    BY <1>1, <1>4, QuietTree, QuietMerge DEF treeVars
  <2>2. PlaceInv'
    BY <1>1, <1>3, <1>4, <2>1 DEF PlaceInv, Live, treeVars
  <2>3. SearchInv' /\ NearestInv' /\ NewKeyInv'
    BY <1>1, <2>1 DEF SearchInv, NearestInv, NewKeyInv, Live
  <2> QED
    BY <2>1, <2>2, <2>3 DEF Live
<1>5. ASSUME NEW n, NEW d, NEW r, NEW m, NEW p,
             Turning(n, d, r, m, p), Relink(n, d, r, m, p), n \in Here
      PROVE  Live'
  <2>a. Apart(n, d, r, m, p) /\ Turned(n, d, r, m, p) /\ TurnedBelow(n, d, r, m)
    BY <1>1, <1>2, <1>5, TurnPlaces, TurnEffect, TurnSubtrees
  <2>b. n \in nodes /\ r \in nodes /\ n # r /\ r # Null /\ p = parent[n] /\ parent[r] = n
        /\ n # Null
    BY <1>2, <1>5, <2>a DEF Turning, Apart
  <2>1. TreeInv'
    <3>1. LinksAgree' /\ SideOrdered' /\ Up' /\ Down'
      BY <1>1, <1>2, <1>5, TurnLinks, TurnOrdered, TurnUp, TurnDown
    <3>2. KeysUnique'
      BY <1>1, <1>2 DEF KeysUnique
    <3> QED
      BY <3>1, <3>2, OrderedSidesNext DEF TreeInv
  <2>2. SizesExact'
    BY <1>1, <1>2, <1>5, TurnSizes
  <2>3. op = "merge" => other \in nodes /\ other \notin {n, r} /\ other # m /\ parent[other] = Null
    <3>1. op = "merge" => other \in nodes /\ parent[other] = Null /\ other \in below[other]
      BY <1>1, <1>2, TreeFacts DEF Live, MergeInv, Sides
    <3> QED
      BY <1>2, <1>5, <2>a, <2>b, <3>1 DEF Here, Apart
  <2>4. op = "merge" => below'[other] = below[other] /\ parent'[other] = Null
    BY <1>2, <2>a, <2>3 DEF Turned, TurnedBelow
  <2>5. Here' = Here
    BY <1>1, <2>4 DEF Here
  <2>6. MergeInv'
    BY <1>1, <2>4, <2>5 DEF MergeInv, Live
  <2>7. Reach'
    <3> SUFFICES ASSUME NEW x \in nodes, parent'[x] = Null PROVE x = other \/ below'[x] = Here
      BY <1>1, <2>5 DEF Reach
    <3>1. n = other => FALSE
      BY <1>1, <1>2, <2>b, <2>3 DEF Placed
    <3>2. CASE x = r
      BY <1>1, <2>a, <2>b, <3>1, <3>2 DEF Turned, TurnedBelow, Live, Reach
    <3>3. CASE x # r
      <4>1. x # n /\ x # m
        BY <2>a, <2>b, <1>2 DEF Turned
      <4> QED
        BY <1>1, <1>2, <2>a, <3>3, <4>1 DEF Turned, TurnedBelow, Live, Reach
    <3> QED
      BY <3>2, <3>3
  <2>8. PlaceInv'
    BY <1>1, <1>3, <2>5 DEF PlaceInv
  <2>9. SearchInv' /\ NearestInv' /\ NewKeyInv'
    BY <1>1, <2>5 DEF SearchInv, NearestInv, NewKeyInv, Live
  <2> QED
    BY <2>1, <2>2, <2>6, <2>7, <2>8, <2>9 DEF Live
<1> QED
  BY <1>1, <1>4, <1>5, RotateCases

-----------------------------------------------------------------------------
(* Steps that change the set of nodes. *)

LEMMA OneNode ==
  ASSUME NEW n
  PROVE  IsFiniteSet({n}) /\ Cardinality({n}) = 1
BY FS_Singleton

LEMMA InsertFirstLive ==
  ASSUME IInv, InsertFirst
  PROVE  Live'
<1>1. PICK n \in Nodes \ nodes :
         /\ NewRoot(n, arg, new)
         /\ child' = [child EXCEPT ![n] = Leaf]
         /\ parent' = [parent EXCEPT ![n] = Null]
         /\ size' = [size EXCEPT ![n] = 1]
         /\ below' = [below EXCEPT ![n] = {n}]
  BY DEF InsertFirst
<1>2. nodes = {} /\ turns' = << >> /\ other' = Null /\ pc' = "idle" /\ cur' = Null /\ op' = "none"
  BY DEF InsertFirst, IInv, Placed, Live, PlaceInv, Finish
<1>3. nodes' = {n} /\ root' = n /\ n # Null
  BY <1>1, <1>2, NodesAssumption DEF NewRoot
<1>4. child'[n] = Leaf /\ parent'[n] = Null /\ size'[n] = 1 /\ below'[n] = {n}
  BY <1>1 DEF IInv, TypeOK
<1>5. \A d \in Sides : child'[n][d] = Null
  BY <1>4 DEF Leaf
<1>6. LinksAgree' /\ SideOrdered' /\ KeysUnique' /\ Up' /\ Down'
  <2>1. LinksAgree'
    BY <1>3, <1>4, <1>5 DEF LinksAgree
  <2>2. SideOrdered'
    BY <1>3, <1>4, <1>5, SideFacts DEF SideOrdered, BelowOf
  <2> QED
    BY <1>3, <1>4, <2>1, <2>2 DEF KeysUnique, Up, Down
<1>7. SizesExact'
  BY <1>3, <1>4, OneNode DEF SizesExact
<1>8. Reach' /\ PlaceInv'
  BY <1>2, <1>3, <1>4 DEF Reach, PlaceInv, Here
<1> QED
  BY <1>2, <1>6, <1>7, <1>8, OrderedSidesNext
     DEF Live, TreeInv, SearchInv, NearestInv, NewKeyInv, MergeInv

\* What split() leaves, node by node.
Parted(n, d, m, rest) ==
    /\ nodes' = nodes \cup {n} /\ root' = n
    /\ key'[n] = arg /\ \A x \in nodes : key'[x] = key[x]
    /\ child'[n][d] = m /\ child'[n][Opposite(d)] = cur
    /\ child'[cur][d] = Null /\ child'[cur][Opposite(d)] = rest
    /\ \A x \in nodes \ {cur} : child'[x] = child[x]
    /\ parent'[n] = Null /\ parent'[cur] = n
    /\ m # Null => parent'[m] = n
    /\ \A x \in nodes \ {cur, m} : parent'[x] = parent[x]
    /\ below'[cur] = {cur} \cup BelowOf(rest)
    /\ below'[n] = nodes'
    /\ nodes = {cur} \cup BelowOf(m) \cup BelowOf(rest)
    /\ \A x \in nodes \ {cur} : below'[x] = below[x]

LEMMA SplitEffect ==
  ASSUME IInv, Split, NEW n \in Nodes \ nodes, NEW d \in Sides, NEW m, NEW rest,
         Cut(n, d, m, rest)
  PROVE  Parted(n, d, m, rest)
<1>1. Splayed /\ op = "split"
  BY DEF Split
<1>2. /\ TypeOK /\ SideOrdered /\ LinksAgree /\ cur \in nodes /\ cur \in Nodes /\ nodes \subseteq Nodes
      /\ below[cur] = nodes /\ n # cur /\ Opposite(d) \in Sides /\ Opposite(d) # d
      /\ Null \notin Nodes /\ parent[cur] = Null
  BY <1>1, SplayedFacts, SideFacts, TypeFacts DEF Splayed
<1>3. m \in nodes \cup {Null} /\ m # cur /\ m # n
  BY <1>2 DEF Cut, LinksAgree
<1>4. nodes' = nodes \cup {n} /\ root' = n /\ key'[n] = arg /\ \A x \in nodes : key'[x] = key[x]
  BY <1>2 DEF Cut, NewRoot, TypeOK
<1>5. /\ child'[n][d] = m /\ child'[n][Opposite(d)] = cur
      /\ child'[cur][d] = Null /\ child'[cur][Opposite(d)] = rest
      /\ \A x \in nodes \ {cur} : child'[x] = child[x]
  <2> DEFINE L == [Leaf EXCEPT ![d] = m, ![Opposite(d)] = cur]
             C == [child[cur] EXCEPT ![d] = Null]
  <2>1. L[d] = m /\ L[Opposite(d)] = cur
    BY <1>2 DEF Leaf
  <2>2. C[d] = Null /\ C[Opposite(d)] = rest
    BY <1>2 DEF Cut, TypeOK
  <2>3. child' = [child EXCEPT ![cur] = C, ![n] = L]
    BY DEF Cut
  <2>4. child \in [Nodes -> [Sides -> Nodes \cup {Null}]]
    BY <1>2 DEF TypeOK
  <2> HIDE DEF L, C
  <2> QED
    BY <1>2, <2>1, <2>2, <2>3, <2>4
<1>6. /\ parent'[n] = Null /\ parent'[cur] = n
      /\ m # Null => parent'[m] = n
      /\ \A x \in nodes \ {cur, m} : parent'[x] = parent[x]
  BY <1>2, <1>3 DEF Cut
<1>7. nodes = {cur} \cup BelowOf(m) \cup BelowOf(rest)
  BY <1>2 DEF Cut, SideOrdered
<1>8. /\ below'[cur] = {cur} \cup BelowOf(rest)
      /\ below'[n] = {n, cur} \cup BelowOf(m) \cup BelowOf(rest)
      /\ \A x \in nodes \ {cur} : below'[x] = below[x]
  BY <1>2 DEF Cut, TypeOK
<1>9. below'[n] = nodes'
  BY <1>4, <1>7, <1>8
<1> QED
  BY <1>4, <1>5, <1>6, <1>7, <1>8, <1>9 DEF Parted

LEMMA SplitLive ==
  ASSUME IInv, Split
  PROVE  Live'
<1>c0. PICK n \in Nodes \ nodes, d \in Sides : \E m, rest : Cut(n, d, m, rest)
  BY SplitCuts
<1>a. PICK m, rest : Cut(n, d, m, rest)
  BY <1>c0, Zenon
<1>b. Parted(n, d, m, rest)
  BY <1>a, SplitEffect
<1>1. /\ Splayed /\ op = "split" /\ TypeOK /\ Live
      /\ LinksAgree /\ SideOrdered /\ KeysUnique /\ Up /\ Down
      /\ cur \in nodes /\ cur \in below[cur] /\ below[cur] = nodes
      /\ parent[cur] = Null
  BY SplayedFacts DEF Split, Splayed
<1>2. \A x \in nodes : x # cur => cur \notin below[x]
  BY SplayedFacts DEF Split
<1>3. \A x \in nodes, f \in Sides : child[x][f] # cur
  BY SplayedFacts DEF Split
<1>4. nodes \subseteq Nodes /\ Null \notin Nodes /\ n # cur /\ n \notin nodes /\ n # Null
      /\ Opposite(d) \in Sides /\ Opposite(d) # d
  BY <1>1, TypeFacts, SideFacts
<1>5. /\ m = child[cur][d] /\ rest = child[cur][Opposite(d)]
      /\ d = IF key[cur] < arg THEN "right" ELSE "left"
  BY <1>a DEF Cut
<1>6. /\ BelowOf(m) \cap BelowOf(rest) = {} /\ cur \notin BelowOf(m) \cup BelowOf(rest)
      /\ m # Null => m \in nodes /\ m # cur /\ m \in BelowOf(m) /\ parent[m] = cur
      /\ rest # Null => rest \in nodes /\ rest # cur /\ rest # m /\ rest \in BelowOf(rest) /\ parent[rest] = cur
  <2>1. /\ BelowOf(m) \cap BelowOf(rest) = {} /\ cur \notin BelowOf(m)
        /\ m # Null => m \in nodes /\ m # cur /\ m \in below[m] /\ parent[m] = cur
    BY <1>1, <1>5, TreeFacts
  <2>2. /\ cur \notin BelowOf(rest)
        /\ rest # Null => rest \in nodes /\ rest # cur /\ rest # m /\ rest \in below[rest] /\ parent[rest] = cur
    BY <1>1, <1>4, <1>5, TreeFacts, SideFacts
  <2> QED
    BY <2>1, <2>2 DEF BelowOf
<1>7. \A x \in nodes : below[x] \subseteq nodes
  BY <1>1 DEF SideOrdered
<1>8. \A x \in nodes, f \in Sides : child[x][f] # Null => child[x][f] \in nodes /\ parent[child[x][f]] = x
  BY <1>1 DEF LinksAgree
<1>p. /\ nodes' = nodes \cup {n} /\ key'[n] = arg
      /\ \A x \in nodes : key'[x] = key[x]
      /\ BelowOf(m) \subseteq nodes /\ BelowOf(rest) \subseteq nodes
  BY <1>b DEF Parted
<1>9. LinksAgree'
  <2>1. ASSUME NEW x \in nodes', NEW f \in Sides, child'[x][f] # Null
        PROVE  child'[x][f] \in nodes' /\ parent'[child'[x][f]] = x
    <3>0. f = d \/ f = Opposite(d)
      BY SideFacts
    <3>1. CASE x = n
      BY <1>b, <1>1, <1>6, <2>1, <3>0, <3>1 DEF Parted
    <3>2. CASE x = cur
      BY <1>b, <1>1, <1>4, <1>6, <2>1, <3>0, <3>2 DEF Parted
    <3>3. CASE x \notin {n, cur}
      <4>1. x \in nodes /\ child'[x][f] = child[x][f] /\ child[x][f] \in nodes /\ child[x][f] # cur
            /\ parent[child[x][f]] = x
        BY <1>b, <1>3, <1>8, <2>1, <3>3 DEF Parted
      <4>2. child[x][f] # m
        BY <1>6, <3>3, <4>1, <1>4
      <4> QED
        BY <1>b, <4>1, <4>2 DEF Parted
    <3> QED
      BY <3>1, <3>2, <3>3
  <2>2. ASSUME NEW x \in nodes', parent'[x] # Null
        PROVE  parent'[x] \in nodes' /\ \E f \in Sides : child'[parent'[x]][f] = x
    <3>1. CASE x \in {n, cur, m}
      BY <1>b, <1>4, <2>2, <3>1 DEF Parted
    <3>2. CASE x \notin {n, cur, m}
      <4>1. x \in nodes /\ parent'[x] = parent[x]
        BY <1>b, <3>2 DEF Parted
      <4>2. PICK f \in Sides : parent[x] \in nodes /\ child[parent[x]][f] = x
        BY <1>1, <2>2, <4>1 DEF LinksAgree
      <4>3. child'[parent[x]][f] = x
        BY <1>b, <1>4, <1>5, <3>2, <4>2, SideFacts DEF Parted
      <4> QED
        BY <1>b, <4>1, <4>2, <4>3 DEF Parted
    <3> QED
      BY <3>1, <3>2
  <2> QED
    BY <2>1, <2>2 DEF LinksAgree
<1>10. \A y \in nodes : /\ y \in BelowOf(m) => Beside(d, key[y], arg)
                        /\ y \notin BelowOf(m) => Beside(Opposite(d), key[y], arg)
  <2> SUFFICES ASSUME NEW y \in nodes
               PROVE  /\ y \in BelowOf(m) => Beside(d, key[y], arg)
                      /\ y \notin BelowOf(m) => Beside(Opposite(d), key[y], arg)
    OBVIOUS
  <2>1. key[y] # arg /\ key[cur] # arg
    BY <1>1 DEF Live, NewKeyInv
  <2>2. y # cur => (key[y] < arg <=> key[y] < key[cur])
    BY <1>1, <2>1 DEF Live, NearestInv, Splayed
  <2>3. key[y] \in Nat /\ key[cur] \in Nat /\ arg \in Nat
    BY <1>1, <1>4, TypeFacts
  <2>4. y \in BelowOf(m) => Beside(d, key[y], key[cur])
    BY <1>1, <1>5 DEF SideOrdered
  <2>5. y \in BelowOf(rest) => Beside(Opposite(d), key[y], key[cur])
    BY <1>1, <1>4, <1>5 DEF SideOrdered
  <2>6. y = cur \/ y \in BelowOf(m) \/ y \in BelowOf(rest)
    BY <1>b DEF Parted
  <2> QED
    BY <1>5, <1>6, <2>1, <2>2, <2>3, <2>4, <2>5, <2>6 DEF Beside, Opposite
<1>11. SideOrdered'
  <2> DEFINE Good(x, f) ==
               /\ below'[x] = {x} \cup BelowOf(child[x][f])' \cup BelowOf(child[x][Opposite(f)])'
               /\ \A y \in BelowOf(child[x][f])' : Beside(f, key'[y], key'[x])
  <2> SUFFICES ASSUME NEW x \in nodes'
               PROVE  below'[x] \subseteq nodes' /\ \A f \in Sides : Good(x, f)
    BY DEF SideOrdered
  <2>0. Good(x, d) /\ Good(x, Opposite(d)) => \A f \in Sides : Good(x, f)
    BY SideFacts
  <2>1. /\ m # Null => below'[m] = below[m]
        /\ rest # Null => below'[rest] = below[rest]
    BY <1>b, <1>6 DEF Parted
  <2>2. CASE x = n
    <3>1. BelowOf(child[n][d])' = BelowOf(m)
      BY <1>b, <2>1 DEF BelowOf, Parted
    <3>2. BelowOf(child[n][Opposite(d)])' = {cur} \cup BelowOf(rest)
      BY <1>b, <1>1, <1>4 DEF BelowOf, Parted
    <3>3. below'[n] = {n} \cup BelowOf(m) \cup ({cur} \cup BelowOf(rest))
      BY <1>b DEF Parted
    <3>4. \A y \in BelowOf(m) : Beside(d, key'[y], key'[n])
      <4>1. ASSUME NEW y \in BelowOf(m)
            PROVE  key'[y] = key[y] /\ Beside(d, key[y], arg)
        <5>1. y \in nodes
          BY <1>p
        <5>2. Beside(d, key[y], arg)
          BY <1>10, <4>1, <5>1, Zenon
        <5> QED
          BY <1>p, <5>1, <5>2, Zenon
      <4>2. key'[n] = arg
        BY <1>p
      <4> QED
        BY <4>1, <4>2, Zenon
    <3>5. \A y \in {cur} \cup BelowOf(rest) : Beside(Opposite(d), key'[y], key'[n])
      BY <1>b, <1>6, <1>10 DEF Parted
    <3>6. Good(n, d) /\ Good(n, Opposite(d))
      BY <3>1, <3>2, <3>3, <3>4, <3>5, SideFacts
    <3>7. below'[n] \subseteq nodes'
      BY <1>b DEF Parted
    <3> QED
      BY <2>0, <2>2, <3>6, <3>7
  <2>3. CASE x = cur
    <3>0. child'[x][d] = Null /\ child'[x][Opposite(d)] = rest
      BY <1>b, <2>3 DEF Parted
    <3>a. BelowOf(child[x][d])' = {}
      BY <3>0 DEF BelowOf
    <3>b. BelowOf(child[x][Opposite(d)])' = BelowOf(rest)
      BY <2>1, <3>0 DEF BelowOf
    <3>2. below'[x] = {x} \cup BelowOf(rest)
      BY <1>b, <2>3 DEF Parted
    <3>3. \A y \in BelowOf(rest) : Beside(Opposite(d), key'[y], key'[x])
      <4>1. \A y \in BelowOf(rest) : y \in nodes /\ Beside(Opposite(d), key[y], key[cur])
        BY <1>b, <1>1, <1>4, <1>5 DEF SideOrdered, Parted
      <4> QED
        BY <1>b, <1>1, <2>3, <4>1 DEF Parted
    <3>4. Good(x, d) /\ Good(x, Opposite(d))
      BY <3>a, <3>b, <3>2, <3>3, SideFacts
    <3>5. below'[cur] \subseteq nodes'
      BY <1>b, <3>2 DEF Parted
    <3> HIDE DEF Good
    <3> QED
      BY <2>0, <2>3, <3>4, <3>5
  <2>4. CASE x \notin {n, cur}
    <3>1. x \in nodes /\ below'[x] = below[x] /\ child'[x] = child[x]
      BY <1>b, <2>4 DEF Parted
    <3>2. \A f \in Sides : BelowOf(child[x][f])' = BelowOf(child[x][f])
      BY <1>b, <1>3, <1>8, <3>1 DEF BelowOf, Parted
    <3>3. \A y \in below[x] : key'[y] = key[y]
      BY <1>b, <1>7, <3>1 DEF Parted
    <3>4. key'[x] = key[x] /\ below[x] \subseteq nodes'
      BY <1>b, <1>7, <3>1 DEF Parted
    <3>5. ASSUME NEW f \in Sides PROVE Good(x, f)
      <4>1. /\ below[x] = {x} \cup BelowOf(child[x][f]) \cup BelowOf(child[x][Opposite(f)])
            /\ \A y \in BelowOf(child[x][f]) : Beside(f, key[y], key[x])
        BY <1>1, <3>1 DEF SideOrdered
      <4>2. /\ BelowOf(child[x][f])' = BelowOf(child[x][f])
            /\ BelowOf(child[x][Opposite(f)])' = BelowOf(child[x][Opposite(f)])
        BY <3>2, SideFacts
      <4>3. \A y \in BelowOf(child[x][f]) : Beside(f, key'[y], key'[x])
        BY <3>3, <3>4, <4>1
      <4> QED
        BY <3>1, <4>1, <4>2, <4>3
    <3> QED
      BY <3>1, <3>4, <3>5
  <2> QED
    BY <2>2, <2>3, <2>4
<1>12. KeysUnique'
  BY <1>b, <1>1 DEF KeysUnique, Parted, Live, NewKeyInv
<1>13. ASSUME NEW y \in BelowOf(rest)
       PROVE  /\ y \in nodes /\ y \notin {n, cur, m} /\ below'[y] = below[y]
              /\ below[y] \subseteq BelowOf(rest)
              /\ parent'[y] # Null /\ parent'[y] \in {cur} \cup BelowOf(rest)
  <2>1. rest # Null /\ rest \in nodes /\ y \in below[rest] /\ BelowOf(rest) = below[rest]
    BY <1>6, <1>13 DEF BelowOf
  <2>2. y \in nodes /\ y \notin {n, cur} /\ y # m
    BY <1>4, <1>6, <1>7, <1>13, <2>1
  <2>3. below'[y] = below[y] /\ parent'[y] = parent[y]
    BY <1>b, <2>2 DEF Parted
  <2>4. below[y] \subseteq below[rest]
    BY <1>1, <2>1 DEF Down
  <2>5. y = rest \/ (parent[y] # Null /\ parent[y] \in below[rest])
    BY <1>1, <2>1 DEF Up
  <2> QED
    BY <1>1, <1>4, <1>6, <2>1, <2>2, <2>3, <2>4, <2>5
<1>14. ASSUME NEW x \in nodes, x # cur, NEW y \in below[x]
       PROVE  /\ y \in nodes /\ y # cur /\ below'[y] = below[y]
              /\ y # x => y # m /\ parent'[y] = parent[y]
  <2>1. y \in nodes /\ y # cur
    BY <1>2, <1>7, <1>14
  <2>2. below'[y] = below[y]
    BY <1>b, <2>1 DEF Parted
  <2>3. y # x => y # m
    BY <1>1, <1>2, <1>4, <1>6, <1>14, <2>1 DEF Up
  <2> QED
    BY <1>b, <2>1, <2>2, <2>3 DEF Parted
<1>15. Up'
  <2> SUFFICES ASSUME NEW x \in nodes', NEW y \in below'[x], y # x
               PROVE  parent'[y] # Null /\ parent'[y] \in below'[x]
    BY DEF Up
  <2>1. CASE x = n
    <3>1. y \in nodes
      BY <1>b, <2>1 DEF Parted
    <3>2. CASE y = cur \/ y = m
      BY <1>b, <1>4, <2>1, <3>1, <3>2 DEF Parted
    <3>3. CASE y # cur /\ y # m
      BY <1>b, <1>1, <2>1, <3>1, <3>3 DEF Parted, Up
    <3> QED
      BY <3>2, <3>3
  <2>2. CASE x = cur
    BY <1>b, <1>13, <2>2 DEF Parted
  <2>3. CASE x \notin {n, cur}
    <3>1. x \in nodes /\ x # cur /\ below'[x] = below[x]
      BY <1>b, <2>3 DEF Parted
    <3> QED
      BY <1>1, <1>14, <3>1 DEF Up
  <2> QED
    BY <2>1, <2>2, <2>3
<1>16. Down'
  <2> SUFFICES ASSUME NEW x \in nodes', NEW y \in below'[x] PROVE below'[y] \subseteq below'[x]
    BY DEF Down
  <2>1. CASE x = n
    <3>1. y \in nodes'
      BY <1>b, <2>1 DEF Parted
    <3>2. below'[y] \subseteq nodes'
      BY <1>11, <3>1 DEF SideOrdered
    <3> QED
      BY <1>b, <2>1, <3>2 DEF Parted
  <2>2. CASE x = cur
    BY <1>b, <1>13, <2>2 DEF Parted
  <2>3. CASE x \notin {n, cur}
    <3>1. x \in nodes /\ x # cur /\ below'[x] = below[x]
      BY <1>b, <2>3 DEF Parted
    <3> QED
      BY <1>1, <1>14, <3>1 DEF Down
  <2> QED
    BY <2>1, <2>2, <2>3
<1>17. SizesExact'
  <2> DEFINE M == BelowOf(m)
             R == BelowOf(rest)
  <2>0. SizesExact
    BY <1>1 DEF Live
  <2>1. /\ SizeOf(m) = Cardinality(M) /\ IsFiniteSet(M)
        /\ SizeOf(rest) = Cardinality(R) /\ IsFiniteSet(R)
    BY <1>1, <1>6, <2>0, SonSizes
  <2>2. /\ below'[cur] = {cur} \cup R /\ below'[n] = {n} \cup M \cup below'[cur]
        /\ cur \notin R /\ cur \notin M /\ n \notin M /\ n \notin below'[cur]
        /\ M \cap R = {} /\ M \cap below'[cur] = {}
    <3>1. below'[n] = {n} \cup M \cup R \cup {cur} /\ below'[cur] = {cur} \cup R
      BY <1>b DEF Parted
    <3>2. n \notin M /\ n \notin R
      BY <1>b, <1>4 DEF Parted
    <3> QED
      BY <1>4, <1>6, <3>1, <3>2
  <2>3. size'[cur] = 1 + SizeOf(rest) /\ size'[n] = 2 + SizeOf(m) + SizeOf(rest)
        /\ \A x \in nodes \ {cur} : size'[x] = size[x]
    BY <1>a, <1>1, <1>4 DEF Cut, TypeOK
  <2>4. SizeOf(m) \in Nat /\ SizeOf(rest) \in Nat
    BY <2>1, FS_CardinalityType
  <2> HIDE DEF M, R
  <2>5. IsFiniteSet(below'[cur]) /\ Cardinality(below'[cur]) = 1 + Cardinality(R)
    <3>1. IsFiniteSet(R \cup {cur}) /\ Cardinality(R \cup {cur}) = Cardinality(R) + 1
      BY <2>1, <2>2, FS_AddElement
    <3>2. below'[cur] = R \cup {cur} /\ Cardinality(R) \in Nat
      BY <2>1, <2>2, FS_CardinalityType
    <3> QED
      BY <3>1, <3>2
  <2>6. Cardinality(below'[n]) = 1 + Cardinality(M) + Cardinality(below'[cur])
    <3>0. /\ n \notin M /\ n \notin below'[cur] /\ M \cap below'[cur] = {}
          /\ IsFiniteSet(M) /\ IsFiniteSet(below'[cur])
      BY <2>1, <2>2, <2>5
    <3>1. \A A, B, S : /\ S = {n} \cup A \cup B /\ IsFiniteSet(A) /\ IsFiniteSet(B)
                       /\ n \notin A /\ n \notin B /\ A \cap B = {}
                       => Cardinality(S) = 1 + Cardinality(A) + Cardinality(B)
      BY SizeOfSubtrees
    <3> QED
      BY <2>2, <3>0, <3>1, Zenon
  <2>7. size'[cur] = Cardinality(below'[cur]) /\ size'[n] = Cardinality(below'[n])
    BY <2>1, <2>3, <2>4, <2>5, <2>6
  <2>8. \A x \in nodes \ {cur} : size'[x] = Cardinality(below'[x])
    BY <1>b, <2>0, <2>3 DEF SizesExact, Parted
  <2> QED
    BY <1>b, <2>7, <2>8 DEF SizesExact, Parted
<1>18. turns' = << >> /\ other' = Null /\ pc' = "idle" /\ cur' = Null /\ op' = "none"
  BY DEF Split, Splayed, Finish, IInv, Placed
<1>19. Reach'
  <2> SUFFICES ASSUME NEW x \in nodes', parent'[x] = Null PROVE below'[x] = nodes'
    BY <1>18 DEF Reach, Here
  <2>1. x = n
    <3> SUFFICES ASSUME x # n PROVE FALSE
      OBVIOUS
    <3>1. x \in nodes /\ x # cur /\ x # m
      BY <1>b, <1>4 DEF Parted
    <3>2. parent[x] = Null
      BY <1>b, <3>1 DEF Parted
    <3> QED
      BY <1>1, <3>1, <3>2 DEF Up
  <2> QED
    BY <1>b, <2>1 DEF Parted
<1>20. PlaceInv'
  BY <1>b, <1>4, <1>18 DEF PlaceInv, Parted
<1>21. TreeInv'
  BY <1>9, <1>11, <1>12, <1>15, <1>16, OrderedSidesNext DEF TreeInv
<1>22. SearchInv' /\ NearestInv' /\ NewKeyInv' /\ MergeInv'
  BY <1>18 DEF SearchInv, NearestInv, NewKeyInv, MergeInv
<1> QED
  BY <1>17, <1>19, <1>20, <1>21, <1>22 DEF Live

LEMMA DetachCases ==
  ASSUME Detach
  PROVE  \E l, r : /\ l = child[cur]["left"] /\ r = child[cur]["right"]
                   /\ parent' = [x \in Nodes |-> IF x \in {l, r} THEN Null ELSE parent[x]]
                   /\ IF l # Null /\ r # Null
                      THEN /\ op' = "merge"
                           /\ pc' = "search"
                           /\ cur' = l
                           /\ other' = r
                           /\ answer' = val[cur]
                           /\ UNCHANGED <<root, arg, new>>
                      ELSE /\ root' = IF l = Null THEN r ELSE l
                           /\ Finish(val[cur])
                           /\ UNCHANGED other
                   /\ Free({cur})
BY Zenon DEF Detach

LEMMA DetachLive ==
  ASSUME IInv, Detach
  PROVE  Live'
<1>a. PICK l, r : /\ l = child[cur]["left"] /\ r = child[cur]["right"]
                  /\ parent' = [x \in Nodes |-> IF x \in {l, r} THEN Null ELSE parent[x]]
                  /\ IF l # Null /\ r # Null
                     THEN /\ op' = "merge"
                          /\ pc' = "search"
                          /\ cur' = l
                          /\ other' = r
                          /\ answer' = val[cur]
                          /\ UNCHANGED <<root, arg, new>>
                     ELSE /\ root' = IF l = Null THEN r ELSE l
                          /\ Finish(val[cur])
                          /\ UNCHANGED other
                  /\ Free({cur})
  BY DetachCases
<1>1. /\ Splayed /\ op = "erase" /\ TypeOK /\ Live
      /\ LinksAgree /\ SideOrdered /\ KeysUnique /\ Up /\ Down
      /\ cur \in nodes /\ cur \in below[cur] /\ below[cur] = nodes
      /\ parent[cur] = Null /\ other = Null /\ turns = << >>
  BY SplayedFacts DEF Detach, Splayed
<1>2. \A x \in nodes : x # cur => cur \notin below[x]
  BY SplayedFacts DEF Detach
<1>3. \A x \in nodes, f \in Sides : child[x][f] # cur
  BY SplayedFacts DEF Detach
<1>4. nodes \subseteq Nodes /\ Null \notin Nodes
  BY <1>1, TypeFacts
<1>5. /\ "left" \in Sides /\ "right" \in Sides
      /\ Opposite("left") = "right" /\ Opposite("right") = "left"
      /\ \A f \in Sides : f = "left" \/ f = "right"
  BY DEF Sides, Opposite
<1>6. /\ nodes = {cur} \cup BelowOf(l) \cup BelowOf(r)
      /\ BelowOf(l) \cap BelowOf(r) = {} /\ cur \notin BelowOf(l) /\ cur \notin BelowOf(r)
      /\ l # Null => l \in nodes /\ l # cur /\ l # r /\ l \in BelowOf(l) /\ parent[l] = cur
      /\ r # Null => r \in nodes /\ r # cur /\ r \in BelowOf(r) /\ parent[r] = cur
      /\ \A y \in BelowOf(l) : key[y] < key[cur]
      /\ \A y \in BelowOf(r) : key[cur] < key[y]
  <2>1. /\ cur \notin BelowOf(l) /\ BelowOf(l) \cap BelowOf(r) = {}
        /\ l # Null => l \in nodes /\ l # cur /\ l # r /\ l \in below[l] /\ parent[l] = cur
    BY <1>a, <1>1, <1>5, TreeFacts
  <2>2. /\ cur \notin BelowOf(r)
        /\ r # Null => r \in nodes /\ r # cur /\ r \in below[r] /\ parent[r] = cur
    BY <1>a, <1>1, <1>5, TreeFacts
  <2>3. nodes = {cur} \cup BelowOf(l) \cup BelowOf(r)
    BY <1>a, <1>1, <1>5 DEF SideOrdered
  <2>4. Ordered
    BY <1>1, OrderedSides
  <2>5. /\ \A y \in BelowOf(l) : key[y] < key[cur]
        /\ \A y \in BelowOf(r) : key[cur] < key[y]
    BY <1>a, <1>1, <2>4 DEF Ordered
  <2> QED
    BY <2>1, <2>2, <2>3, <2>5 DEF BelowOf
<1>7. nodes' = nodes \ {cur} /\ \A x \in nodes' : x \in nodes /\ x # cur /\ x \in Nodes
  BY <1>a, <1>4 DEF Free
<1>8. \A x \in nodes' : /\ key'[x] = key[x] /\ child'[x] = child[x]
                        /\ size'[x] = size[x] /\ below'[x] = below[x]
  BY <1>a, <1>7 DEF Free
<1>9. \A x \in nodes' : parent'[x] = IF x \in {l, r} THEN Null ELSE parent[x]
  BY <1>a, <1>7
<1>10. \A x \in nodes' : below[x] \subseteq nodes'
  BY <1>1, <1>2, <1>7 DEF SideOrdered
<1>11. \A x \in nodes', f \in Sides : child[x][f] # Null =>
          child[x][f] \in nodes' /\ child[x][f] \notin {l, r} /\ parent[child[x][f]] = x
  <2> SUFFICES ASSUME NEW x \in nodes', NEW f \in Sides, child[x][f] # Null
               PROVE  child[x][f] \in nodes' /\ child[x][f] \notin {l, r} /\ parent[child[x][f]] = x
    OBVIOUS
  <2>1. child[x][f] \in nodes /\ parent[child[x][f]] = x
    BY <1>1, <1>7 DEF LinksAgree
  <2> QED
    BY <1>3, <1>6, <1>7, <2>1
<1>12. LinksAgree'
  <2>1. ASSUME NEW x \in nodes', NEW f \in Sides, child'[x][f] # Null
        PROVE  child'[x][f] \in nodes' /\ parent'[child'[x][f]] = x
    BY <1>8, <1>9, <1>11, <2>1
  <2>2. ASSUME NEW x \in nodes', parent'[x] # Null
        PROVE  parent'[x] \in nodes' /\ \E f \in Sides : child'[parent'[x]][f] = x
    <3>1. parent'[x] = parent[x] /\ x \notin {l, r}
      BY <1>9, <2>2
    <3>2. PICK f \in Sides : parent[x] \in nodes /\ child[parent[x]][f] = x
      BY <1>1, <1>7, <2>2, <3>1 DEF LinksAgree
    <3>3. parent[x] # cur
      BY <1>a, <1>5, <3>1, <3>2
    <3> QED
      BY <1>7, <1>8, <3>1, <3>2, <3>3
  <2> QED
    BY <2>1, <2>2 DEF LinksAgree
<1>13. SideOrdered'
  <2> SUFFICES ASSUME NEW x \in nodes'
               PROVE  /\ below'[x] \subseteq nodes'
                      /\ \A f \in Sides :
                           /\ below'[x] = {x} \cup BelowOf(child[x][f])' \cup BelowOf(child[x][Opposite(f)])'
                           /\ \A y \in BelowOf(child[x][f])' : Beside(f, key'[y], key'[x])
    BY DEF SideOrdered
  <2>1. \A f \in Sides : BelowOf(child[x][f])' = BelowOf(child[x][f])
    BY <1>8, <1>11 DEF BelowOf
  <2>2. below'[x] = below[x] /\ key'[x] = key[x] /\ below[x] \subseteq nodes'
        /\ \A y \in below[x] : key'[y] = key[y]
    BY <1>8, <1>10
  <2>3. ASSUME NEW f \in Sides
        PROVE  /\ below'[x] = {x} \cup BelowOf(child[x][f])' \cup BelowOf(child[x][Opposite(f)])'
               /\ \A y \in BelowOf(child[x][f])' : Beside(f, key'[y], key'[x])
    <3>1. /\ below[x] = {x} \cup BelowOf(child[x][f]) \cup BelowOf(child[x][Opposite(f)])
          /\ \A y \in BelowOf(child[x][f]) : Beside(f, key[y], key[x])
      BY <1>1, <1>7 DEF SideOrdered
    <3>2. /\ BelowOf(child[x][f])' = BelowOf(child[x][f])
          /\ BelowOf(child[x][Opposite(f)])' = BelowOf(child[x][Opposite(f)])
      BY <2>1, SideFacts
    <3>3. \A y \in BelowOf(child[x][f]) : Beside(f, key'[y], key'[x])
      BY <2>2, <3>1
    <3> QED
      BY <2>2, <3>1, <3>2, <3>3
  <2> QED
    BY <2>2, <2>3
<1>14. KeysUnique'
  BY <1>1, <1>7, <1>8 DEF KeysUnique
<1>15. Up'
  <2> SUFFICES ASSUME NEW x \in nodes', NEW y \in below'[x], y # x
               PROVE  parent'[y] # Null /\ parent'[y] \in below'[x]
    BY DEF Up
  <2>1. x \in nodes /\ x # cur /\ y \in below[x] /\ y \in nodes' /\ below'[x] = below[x]
    BY <1>7, <1>8, <1>10
  <2>2. parent[y] # Null /\ parent[y] \in below[x]
    BY <1>1, <2>1 DEF Up
  <2>3. y \notin {l, r}
    BY <1>2, <1>4, <1>6, <1>7, <2>1, <2>2
  <2> QED
    BY <1>9, <2>1, <2>2, <2>3
<1>16. Down'
  BY <1>1, <1>7, <1>8, <1>10 DEF Down
<1>17. SizesExact'
  BY <1>1, <1>7, <1>8 DEF SizesExact, Live
<1>18. TreeInv'
  BY <1>12, <1>13, <1>14, <1>15, <1>16, OrderedSidesNext DEF TreeInv
<1>19. \A x \in nodes' : parent'[x] = Null => x \in {l, r}
  BY <1>1, <1>7, <1>9 DEF Up
<1>20. turns' = << >>
  BY <1>1 DEF Detach
<1>21. /\ nodes' = BelowOf(l) \cup BelowOf(r)
       /\ l # Null => BelowOf(l) = below[l] /\ below'[l] = below[l] /\ l \in nodes' /\ parent'[l] = Null
       /\ r # Null => BelowOf(r) = below[r] /\ below'[r] = below[r] /\ r \in nodes' /\ parent'[r] = Null
  <2>1. nodes' = BelowOf(l) \cup BelowOf(r)
    BY <1>6, <1>7
  <2>2. /\ l # Null => BelowOf(l) = below[l] /\ l \in nodes'
        /\ r # Null => BelowOf(r) = below[r] /\ r \in nodes'
    BY <1>6, <1>7 DEF BelowOf
  <2> QED
    BY <1>8, <1>9, <2>1, <2>2
<1>22. CASE l # Null /\ r # Null
  <2>1. op' = "merge" /\ pc' = "search" /\ cur' = l /\ other' = r
    BY <1>a, <1>22
  <2>2. Here' = below[l] /\ below'[l] = below[l] /\ below'[r] = below[r]
    BY <1>6, <1>21, <1>22, <2>1 DEF Here
  <2>3. Reach'
    BY <1>19, <2>1, <2>2 DEF Reach
  <2>4. PlaceInv'
    BY <1>6, <1>20, <1>21, <1>22, <2>1, <2>2 DEF PlaceInv
  <2>5. SearchInv'
    BY <2>1, <2>2 DEF SearchInv
  <2>6. NearestInv' /\ NewKeyInv'
    BY <2>1 DEF NearestInv, NewKeyInv
  <2>7. MergeInv'
    <3>1. ASSUME NEW a \in below[l], NEW x \in below[r] PROVE key'[a] < key'[x]
      <4>1. a \in nodes' /\ x \in nodes' /\ key[a] < key[cur] /\ key[cur] < key[x]
        BY <1>6, <1>21, <1>22
      <4>2. key[a] \in Nat /\ key[cur] \in Nat /\ key[x] \in Nat
        BY <1>1, <1>4, <1>7, <4>1, TypeFacts
      <4>3. key'[a] = key[a] /\ key'[x] = key[x]
        BY <1>8, <4>1
      <4> QED
        BY <4>1, <4>2, <4>3
    <3>2. other' \in nodes' /\ parent'[other'] = Null /\ below'[other'] = below[r]
      BY <1>21, <1>22, <2>1
    <3> QED
      BY <2>2, <3>1, <3>2 DEF MergeInv
  <2> QED
    BY <1>17, <1>18, <2>3, <2>4, <2>5, <2>6, <2>7 DEF Live
<1>23. CASE ~(l # Null /\ r # Null)
  <2>1. /\ root' = IF l = Null THEN r ELSE l
        /\ pc' = "idle" /\ cur' = Null /\ op' = "none" /\ other' = Null
    BY <1>a, <1>1, <1>23 DEF Finish
  <2>2. nodes' = BelowOf(root')
    BY <1>21, <1>23, <2>1 DEF BelowOf
  <2>3. Reach'
    <3>1. ASSUME NEW x \in nodes', parent'[x] = Null PROVE below'[x] = nodes'
      <4>1. x \in {l, r} /\ x # Null
        BY <1>4, <1>7, <1>19, <3>1
      <4> QED
        BY <1>21, <1>23, <2>1, <2>2, <4>1
    <3> QED
      BY <2>1, <3>1 DEF Reach, Here
  <2>4. PlaceInv'
    <3>1. root' = Null => nodes' = {}
      BY <2>2 DEF BelowOf
    <3>2. root' # Null => root' \in nodes' /\ parent'[root'] = Null
      BY <1>21, <2>1
    <3> QED
      BY <1>20, <2>1, <3>1, <3>2 DEF PlaceInv
  <2>5. SearchInv' /\ NearestInv' /\ NewKeyInv' /\ MergeInv'
    BY <2>1 DEF SearchInv, NearestInv, NewKeyInv, MergeInv
  <2> QED
    BY <1>17, <1>18, <2>3, <2>4, <2>5 DEF Live
<1> QED
  BY <1>22, <1>23

LEMMA MergeLive ==
  ASSUME IInv, Merge
  PROVE  Live'
<1> DEFINE l == child[cur]["left"]
<1>1. /\ Splayed /\ op = "merge" /\ TypeOK /\ Live
      /\ LinksAgree /\ SideOrdered /\ KeysUnique /\ Up /\ Down /\ SizesExact
      /\ cur \in nodes /\ cur \in below[cur] /\ below[cur] = Here
      /\ parent[cur] = Null /\ turns = << >> /\ cur # other
      /\ Here = nodes \ below[other]
  BY SplayedFacts DEF Merge, Splayed, Here, Live
<1>2. \A x \in nodes : x # cur => cur \notin below[x]
  BY SplayedFacts DEF Merge
<1>3. \A x \in nodes, f \in Sides : child[x][f] # cur
  BY SplayedFacts DEF Merge
<1>4. nodes \subseteq Nodes /\ Null \notin Nodes /\ cur \in Nodes
  BY <1>1, TypeFacts
<1>5. /\ "left" \in Sides /\ "right" \in Sides
      /\ Opposite("left") = "right" /\ Opposite("right") = "left"
      /\ \A f \in Sides : f = "left" \/ f = "right"
  BY DEF Sides, Opposite
<1>6. /\ other \in nodes /\ parent[other] = Null /\ other \in below[other] /\ other # Null
      /\ \A m \in Here, x \in below[other] : key[m] < key[x]
      /\ below[other] \subseteq nodes
  <2>1. other \in nodes /\ parent[other] = Null /\ \A m \in Here, x \in below[other] : key[m] < key[x]
    BY <1>1 DEF Live, MergeInv
  <2>2. other \in below[other] /\ below[other] \subseteq nodes
    BY <1>1, <1>5, <2>1, TreeFacts DEF SideOrdered
  <2> QED
    BY <1>4, <2>1, <2>2
<1>7. /\ \A x \in nodes : x # other => other \notin below[x]
      /\ \A x \in nodes, f \in Sides : child[x][f] # other
  BY <1>1, <1>4, <1>6 DEF Up, LinksAgree
<1>8. Ordered
  BY <1>1, OrderedSides
<1>9. child[cur]["right"] = Null
  <2> SUFFICES ASSUME child[cur]["right"] # Null PROVE FALSE
    OBVIOUS
  <2> DEFINE y == child[cur]["right"]
  <2>1. y \in below[y] /\ y \in nodes /\ BelowOf(y) = below[y] /\ below[y] \subseteq below[cur] /\ y # cur
    BY <1>1, <1>5, TreeFacts DEF BelowOf
  <2>2. key[cur] < key[y] /\ y \in Here
    BY <1>1, <1>8, <2>1 DEF Ordered
  <2>3. key[y] < key[cur]
    BY <1>1, <2>1, <2>2 DEF Live, NearestInv, Splayed
  <2>4. key[y] \in Nat /\ key[cur] \in Nat
    BY <1>1, <1>4, <2>1, TypeFacts
  <2> QED
    BY <2>2, <2>3, <2>4
<1>10. below[cur] = {cur} \cup BelowOf(l) /\ cur \notin BelowOf(l)
       /\ nodes = below[cur] \cup below[other] /\ below[cur] \cap below[other] = {}
  <2>1. below[cur] = {cur} \cup BelowOf(l)
    BY <1>1, <1>8, <1>9 DEF Ordered, BelowOf
  <2>2. cur \notin BelowOf(l)
    BY <1>1, <1>5, TreeFacts
  <2>3. nodes = below[cur] \cup below[other] /\ below[cur] \cap below[other] = {}
    BY <1>1, <1>6
  <2> QED
    BY <2>1, <2>2, <2>3
<1>11. /\ child'[cur]["right"] = other /\ child'[cur]["left"] = l
       /\ \A x \in nodes \ {cur} : child'[x] = child[x]
  <2>1. child' = [child EXCEPT ![cur]["right"] = other] /\ child \in [Nodes -> [Sides -> Nodes \cup {Null}]]
    BY <1>1 DEF Merge, TypeOK
  <2> QED
    BY <1>4, <1>5, <2>1
<1>12. parent'[other] = cur /\ \A x \in nodes \ {other} : parent'[x] = parent[x]
  BY <1>1, <1>4, <1>6 DEF Merge, TypeOK
<1>13. below'[cur] = nodes /\ \A x \in nodes \ {cur} : below'[x] = below[x]
  BY <1>1, <1>4, <1>10 DEF Merge, TypeOK
<1>14. nodes' = nodes /\ key' = key
  BY DEF Merge
<1>15. LinksAgree'
  <2>1. ASSUME NEW x \in nodes, NEW f \in Sides, child'[x][f] # Null
        PROVE  child'[x][f] \in nodes /\ parent'[child'[x][f]] = x
    <3>1. CASE x = cur /\ f = "right"
      BY <1>6, <1>11, <1>12, <3>1
    <3>2. CASE ~(x = cur /\ f = "right")
      <4>1. child'[x][f] = child[x][f]
        BY <1>5, <1>11, <3>2
      <4>2. child[x][f] \in nodes /\ parent[child[x][f]] = x /\ child[x][f] # other
        BY <1>1, <1>7, <2>1, <4>1 DEF LinksAgree
      <4> QED
        BY <1>12, <4>1, <4>2
    <3> QED
      BY <3>1, <3>2
  <2>2. ASSUME NEW x \in nodes, parent'[x] # Null
        PROVE  parent'[x] \in nodes /\ \E f \in Sides : child'[parent'[x]][f] = x
    <3>1. CASE x = other
      BY <1>1, <1>5, <1>11, <1>12, <3>1
    <3>2. CASE x # other
      <4>1. parent'[x] = parent[x]
        BY <1>12, <3>2
      <4>2. PICK f \in Sides : parent[x] \in nodes /\ child[parent[x]][f] = x
        BY <1>1, <2>2, <4>1 DEF LinksAgree
      <4>3. ~(parent[x] = cur /\ f = "right")
        BY <1>4, <1>9, <4>2
      <4> QED
        BY <1>5, <1>11, <4>1, <4>2, <4>3
    <3> QED
      BY <3>1, <3>2
  <2> QED
    BY <1>14, <2>1, <2>2 DEF LinksAgree
<1>16. Ordered'
  <2>1. ASSUME NEW x \in nodes
        PROVE  /\ below'[x] \subseteq nodes
               /\ below'[x] = {x} \cup BelowOf(child[x]["left"])' \cup BelowOf(child[x]["right"])'
               /\ \A y \in BelowOf(child[x]["left"])' : key[y] < key[x]
               /\ \A y \in BelowOf(child[x]["right"])' : key[x] < key[y]
    <3>1. /\ below[x] \subseteq nodes
          /\ below[x] = {x} \cup BelowOf(child[x]["left"]) \cup BelowOf(child[x]["right"])
          /\ \A y \in BelowOf(child[x]["left"]) : key[y] < key[x]
          /\ \A y \in BelowOf(child[x]["right"]) : key[x] < key[y]
      BY <1>8 DEF Ordered
    <3>2. \A f \in Sides : child[x][f] # Null => below'[child[x][f]] = below[child[x][f]]
      BY <1>1, <1>3, <1>13 DEF LinksAgree
    <3>3. CASE x # cur
      <4>1. /\ BelowOf(child[x]["left"])' = BelowOf(child[x]["left"])
            /\ BelowOf(child[x]["right"])' = BelowOf(child[x]["right"])
        BY <1>5, <1>11, <3>2, <3>3 DEF BelowOf
      <4>2. below'[x] = below[x]
        BY <1>13, <3>3
      <4> QED
        BY <3>1, <4>1, <4>2
    <3>4. CASE x = cur
      <4>1. child'[x]["left"] = child[x]["left"] /\ child'[x]["right"] = other
        BY <1>11, <3>4
      <4>2. below'[other] = below[other]
        BY <1>1, <1>6, <1>13
      <4>3. /\ BelowOf(child[x]["left"])' = BelowOf(child[x]["left"])
            /\ BelowOf(child[x]["right"])' = below[other]
        BY <1>5, <1>6, <3>2, <4>1, <4>2 DEF BelowOf
      <4>4. \A y \in below[other] : key[x] < key[y]
        BY <1>1, <1>6, <3>4
      <4>5. below'[x] = nodes /\ nodes = {x} \cup BelowOf(child[x]["left"]) \cup below[other]
        BY <1>10, <1>13, <3>4
      <4> QED
        BY <3>1, <4>3, <4>4, <4>5
    <3> QED
      BY <3>3, <3>4
  <2> QED
    BY <1>14, <2>1 DEF Ordered
<1>17. KeysUnique'
  BY <1>1, <1>14 DEF KeysUnique
<1>18. Up'
  <2> SUFFICES ASSUME NEW x \in nodes, NEW y \in below'[x], y # x
               PROVE  parent'[y] # Null /\ parent'[y] \in below'[x]
    BY <1>14 DEF Up
  <2>1. CASE x = cur
    <3>1. CASE y = other
      BY <1>1, <1>4, <1>12, <1>13, <2>1, <3>1
    <3>2. CASE y # other
      <4>1. y \in nodes /\ parent'[y] = parent[y]
        BY <1>12, <1>13, <2>1, <3>2
      <4>2. parent[y] # Null
        BY <1>1, <1>10, <2>1, <3>2, <4>1, <1>6 DEF Up
      <4>3. parent[y] \in nodes
        BY <1>1, <4>1, <4>2 DEF LinksAgree
      <4> QED
        BY <1>13, <2>1, <4>1, <4>2, <4>3
    <3> QED
      BY <3>1, <3>2
  <2>2. CASE x # cur
    <3>1. below'[x] = below[x] /\ y \in nodes
      BY <1>1, <1>13, <2>2 DEF SideOrdered
    <3>2. parent[y] # Null /\ parent[y] \in below[x]
      BY <1>1, <3>1 DEF Up
    <3>3. y # other
      BY <1>6, <3>2
    <3> QED
      BY <1>12, <3>1, <3>2, <3>3
  <2> QED
    BY <2>1, <2>2
<1>19. Down'
  <2> SUFFICES ASSUME NEW x \in nodes, NEW y \in below'[x] PROVE below'[y] \subseteq below'[x]
    BY <1>14 DEF Down
  <2>1. \A z \in nodes : below'[z] \subseteq nodes
    BY <1>1, <1>13 DEF SideOrdered
  <2>2. CASE x = cur
    BY <1>13, <2>1, <2>2
  <2>3. CASE x # cur
    <3>1. below'[x] = below[x] /\ y \in nodes /\ y # cur
      BY <1>1, <1>2, <1>13, <2>3 DEF SideOrdered
    <3> QED
      BY <1>1, <1>13, <3>1 DEF Down
  <2> QED
    BY <2>2, <2>3
<1>20. SizesExact'
  <2>1. l \in nodes \cup {Null}
    BY <1>1, <1>5 DEF LinksAgree
  <2>2. /\ SizeOf(l) = Cardinality(BelowOf(l)) /\ IsFiniteSet(BelowOf(l))
        /\ SizeOf(other) = Cardinality(BelowOf(other)) /\ IsFiniteSet(BelowOf(other))
    BY <1>1, <1>6, <2>1, SonSizes
  <2>3. BelowOf(other) = below[other]
    BY <1>6 DEF BelowOf
  <2>4. /\ nodes = {cur} \cup BelowOf(l) \cup BelowOf(other)
        /\ cur \notin BelowOf(l) /\ cur \notin BelowOf(other)
        /\ BelowOf(l) \cap BelowOf(other) = {}
    BY <1>1, <1>10, <2>3
  <2>5. Cardinality(nodes) = 1 + Cardinality(BelowOf(l)) + Cardinality(BelowOf(other))
    <3> DEFINE A == BelowOf(l)
               B == BelowOf(other)
    <3>2. /\ nodes = {cur} \cup A \cup B /\ IsFiniteSet(A) /\ IsFiniteSet(B)
          /\ cur \notin A /\ cur \notin B /\ A \cap B = {}
      BY <2>2, <2>4
    <3> HIDE DEF A, B
    <3>3. \A S : S = {cur} \cup A \cup B => Cardinality(S) = 1 + Cardinality(A) + Cardinality(B)
      BY <3>2, SizeOfSubtrees
    <3>4. Cardinality(nodes) = 1 + Cardinality(A) + Cardinality(B)
      BY <3>2, <3>3, Zenon
    <3> QED
      BY <3>4 DEF A, B
  <2>6. size'[cur] = 1 + SizeOf(l) + SizeOf(other) /\ \A x \in nodes \ {cur} : size'[x] = size[x]
    BY <1>1, <1>4 DEF Merge, TypeOK
  <2>7. size'[cur] = Cardinality(nodes)
    BY <2>2, <2>5, <2>6, FS_CardinalityType
  <2>8. ASSUME NEW x \in nodes PROVE size'[x] = Cardinality(below'[x])
    <3>1. CASE x = cur
      BY <1>13, <2>7, <3>1
    <3>2. CASE x # cur
      BY <1>1, <1>13, <2>6, <3>2 DEF SizesExact
    <3> QED
      BY <3>1, <3>2
  <2> QED
    BY <1>14, <2>8 DEF SizesExact
<1>21. turns' = << >> /\ other' = Null /\ pc' = "idle" /\ cur' = Null /\ op' = "none" /\ root' = cur
  BY <1>1 DEF Merge, Finish
<1>22. Reach'
  <2>1. ASSUME NEW x \in nodes, parent'[x] = Null PROVE below'[x] = nodes
    <3>1. x # other
      BY <1>1, <1>4, <1>12, <2>1
    <3>2. parent[x] = Null
      BY <1>12, <2>1, <3>1
    <3>3. cur \in below[x]
      BY <1>1, <3>1, <3>2 DEF Live, Reach
    <3> QED
      BY <1>2, <1>13, <3>3
  <2> QED
    BY <1>14, <1>21, <2>1 DEF Reach, Here
<1>23. PlaceInv'
  <2>1. cur # Null /\ parent'[cur] = Null
    BY <1>1, <1>4, <1>12
  <2> QED
    BY <1>1, <1>14, <1>21, <2>1 DEF PlaceInv
<1>24. SearchInv' /\ NearestInv' /\ NewKeyInv' /\ MergeInv'
  BY <1>21 DEF SearchInv, NearestInv, NewKeyInv, MergeInv
<1>25. TreeInv'
  BY <1>15, <1>16, <1>17, <1>18, <1>19 DEF TreeInv
<1> QED
  BY <1>20, <1>22, <1>23, <1>24, <1>25 DEF Live

-----------------------------------------------------------------------------
(* The invariant and what follows from it. *)

LEMMA LiveStep ==
  ASSUME IInv, Next, ~frozen'
  PROVE  Live'
<1>1. CASE InsertFirst
  BY <1>1, InsertFirstLive
<1>2. CASE AnswerEmpty
  BY <1>2, ReturnLive
<1>3. CASE Refuse
  BY <1>3 DEF Refuse
<1>4. CASE Descend
  BY <1>4, DescendLive
<1>5. CASE Plan
  BY <1>5, PlanLive
<1>6. CASE Rotate
  BY <1>6, RotateLive
<1>7. CASE FindReturns \/ HasReturns \/ InsertRefused \/ EraseMisses
  BY <1>7, ReturnLive
<1>8. CASE InsertSplits
  BY <1>8, InsertSplitsLive
<1>9. CASE Split
  BY <1>9, SplitLive
<1>10. CASE Detach
  BY <1>10, DetachLive
<1>11. CASE Merge
  BY <1>11, MergeLive
<1>12. CASE Call
  <2>1. CASE \E e \in Entries : Begin("insert", e[1], e[2])
    BY <2>1, BeginLive DEF Ops
  <2>2. CASE \E k \in Keys, name \in {"find", "has", "erase"} : Begin(name, k, new)
    BY <2>2, BeginLive DEF Ops
  <2>3. CASE Destroy
    BY <2>3 DEF Destroy
  <2> QED
    BY <1>12, <2>1, <2>2, <2>3 DEF Call
<1> QED
  BY <1>1, <1>2, <1>3, <1>4, <1>5, <1>6, <1>7, <1>8, <1>9, <1>10, <1>11, <1>12 DEF Next, Step

LEMMA StutterIInv ==
  ASSUME IInv, UNCHANGED vars
  PROVE  IInv'
<1>1. UNCHANGED <<root, frozen, child, parent, size, below, key, val, nodes, op, arg, new,
                  pc, cur, turns, other, answer>>
  BY DEF vars, treeVars, opVars
<1>2. TypeOK' /\ Placed'
  BY <1>1 DEF IInv, TypeOK, Placed
<1>3. CASE frozen
  BY <1>1, <1>2, <1>3 DEF IInv
<1>4. CASE ~frozen
  <2>1. TreeInv' /\ SizesExact' /\ Reach' /\ MergeInv' /\ Here' = Here
    BY <1>1, <1>4, QuietTree, QuietMerge DEF IInv
  <2>2. PlaceInv' /\ SearchInv' /\ NearestInv' /\ NewKeyInv'
    BY <1>1, <1>4, <2>1 DEF IInv, Live, PlaceInv, SearchInv, NearestInv, NewKeyInv
  <2> QED
    BY <1>1, <1>2, <2>1, <2>2 DEF IInv, Live
<1> QED
  BY <1>3, <1>4

THEOREM Invariance == Spec => []IInv
<1>1. Init => IInv
  BY InitIInv
<1>2. IInv /\ [Next]_vars => IInv'
  BY TypeStep, LiveStep, StutterIInv DEF IInv
<1> QED
  BY <1>1, <1>2, PTL DEF Spec

\* The variables keep their types in every state the map reaches.
THEOREM TypeCorrect == Spec => []TypeOK
<1>1. IInv => TypeOK
  BY DEF IInv
<1> QED
  BY <1>1, Invariance, PTL

\* Between two operations the whole tree is below the root.
LEMMA WholeTree ==
  ASSUME IInv, ~frozen, pc = "idle"
  PROVE  /\ root = Null <=> nodes = {}
         /\ root # Null => root \in nodes /\ parent[root] = Null /\ below[root] = nodes
<1>1. /\ cur = Null /\ op = "none" /\ other = Null /\ Here = nodes
      /\ Reach /\ PlaceInv /\ Null \notin nodes
  BY NodesAssumption DEF IInv, TypeOK, Live, Placed, Here
<1> QED
  BY <1>1 DEF PlaceInv, Reach

\* The map is a search tree with consistent links after every rotation of every
\* sequence of operations, and loses no node (WellFormed), whatever the number
\* of keys and of nodes.
THEOREM WellFormedCorrect == Spec => []WellFormed
<1>1. IInv => WellFormed
  <2> SUFFICES ASSUME IInv, ~frozen PROVE LinksAgree /\ Ordered /\ KeysUnique /\ RootReachesAll
    BY DEF WellFormed
  <2>1. LinksAgree /\ Ordered /\ KeysUnique /\ Reach /\ PlaceInv /\ Placed
    BY DEF IInv, Live, TreeInv
  <2>2. RootReachesAll
    BY WholeTree DEF RootReachesAll
  <2> QED
    BY <2>1, <2>2
<1> QED
  BY <1>1, Invariance, PTL

\* The size kept in a node is the number of nodes of its subtree (SizesCount).
THEOREM SizesCorrect == Spec => []SizesCount
<1>1. IInv => SizesCount
  BY DEF IInv, Live, SizesExact, SizesCount
<1> QED
  BY <1>1, Invariance, PTL

-----------------------------------------------------------------------------
(* The walk of forall() and destroy().  That a function exists which satisfies *)
(* the recursion of Walk is shown from the sizes, which decrease downwards; so *)
(* is what the walk visits.                                                    *)

Joined(f, n) == f[child[n]["left"]] \o <<n>> \o f[child[n]["right"]]

\* f is the walk of the nodes in D.
IsWalk(f, D) ==
    /\ f \in [D -> Seq(nodes)]
    /\ \A n \in D : f[n] = IF n = Null THEN << >> ELSE Joined(f, n)

\* The nodes whose subtree has at most m nodes.
UpTo(m) == {Null} \cup {n \in nodes : size[n] <= m}

LEMMA LeastNatural ==
  ASSUME NEW S, S \subseteq Nat, S # {}
  PROVE  \E k \in S : \A j \in S : k <= j
<1>1. PICK k \in S : \A j \in S : <<j, k>> \notin OpToRel(<, Nat)
  BY WFMin, NatLessThanWellFounded, Zenon
<1>2. \A j \in S : ~(j < k)
  BY <1>1, Zenon DEF OpToRel
<1> QED
  BY <1>2

LEMMA SonsAreSmaller ==
  ASSUME IInv, ~frozen
  PROVE  /\ Null \notin nodes
         /\ \A n \in nodes :
              /\ size[n] \in Nat \ {0}
              /\ size[n] <= Cardinality(nodes)
              /\ \A d \in Sides : child[n][d] # Null =>
                   child[n][d] \in nodes /\ size[child[n][d]] < size[n]
         /\ Cardinality(nodes) \in Nat
<1>1. TypeOK /\ LinksAgree /\ SideOrdered /\ Down /\ SizesExact /\ Null \notin nodes
  BY OrderedSides, TypeFacts DEF IInv, Live, TreeInv
<1>2. IsFiniteSet(nodes) /\ Cardinality(nodes) \in Nat
  BY <1>1, FS_Subset, FS_CardinalityType, NodesAssumption DEF TypeOK
<1>3. ASSUME NEW n \in nodes
      PROVE  /\ size[n] \in Nat \ {0}
             /\ size[n] <= Cardinality(nodes)
             /\ \A d \in Sides : child[n][d] # Null =>
                  child[n][d] \in nodes /\ size[child[n][d]] < size[n]
  <2>1. below[n] \subseteq nodes /\ n \in below[n]
    BY <1>1 DEF SideOrdered, Sides
  <2>2. size[n] = Cardinality(below[n]) /\ IsFiniteSet(below[n])
    BY <1>1, <1>2, <2>1, FS_Subset DEF SizesExact
  <2>3. Cardinality(below[n]) \in Nat /\ Cardinality(below[n]) <= Cardinality(nodes)
        /\ Cardinality(below[n]) # 0
    BY <1>2, <2>1, <2>2, FS_Subset, FS_CardinalityType, FS_EmptySet
  <2>4. ASSUME NEW d \in Sides, child[n][d] # Null
        PROVE  child[n][d] \in nodes /\ size[child[n][d]] < size[n]
    <3> DEFINE c == child[n][d]
    <3>1. c \in nodes /\ n \notin below[c] /\ below[c] \subseteq below[n]
      BY <1>1, <2>4, TreeFacts DEF BelowOf
    <3>2. size[c] = Cardinality(below[c])
      BY <1>1, <3>1 DEF SizesExact
    <3>3. Cardinality(below[c]) \in Nat /\ Cardinality(below[c]) <= Cardinality(below[n])
          /\ Cardinality(below[c]) # Cardinality(below[n])
      <4>1. below[c] # below[n]
        BY <2>1, <3>1
      <4> QED
        BY <2>2, <3>1, <4>1, FS_Subset, FS_CardinalityType
    <3> QED
      BY <2>2, <2>3, <3>1, <3>2, <3>3
  <2> QED
    BY <2>2, <2>3, <2>4
<1> QED
  BY <1>1, <1>2, <1>3

LEMMA WalkUpTo ==
  ASSUME IInv, ~frozen, NEW m \in Nat
  PROVE  \E f : IsWalk(f, UpTo(m))
<1> DEFINE Bad == {k \in Nat : ~\E f : IsWalk(f, UpTo(k))}
<1> SUFFICES ASSUME Bad # {} PROVE FALSE
  OBVIOUS
<1>1. PICK k \in Bad : \A j \in Bad : k <= j
  BY LeastNatural
<1>2. \A n \in nodes : n # Null /\ size[n] \in Nat \ {0}
  BY SonsAreSmaller
<1>3. k # 0
  <2> SUFFICES ASSUME k = 0 PROVE FALSE
    OBVIOUS
  <2>1. UpTo(0) = {Null}
    BY <1>2 DEF UpTo
  <2>2. IsWalk([n \in {Null} |-> << >>], {Null})
    BY DEF IsWalk
  <2> QED
    BY <1>1, <2>1, <2>2
<1>4. k - 1 \in Nat /\ k - 1 \notin Bad
  BY <1>1, <1>3
<1>5. PICK f : IsWalk(f, UpTo(k - 1))
  BY <1>4
<1> DEFINE g == [n \in UpTo(k) |-> IF n \in UpTo(k - 1) THEN f[n] ELSE Joined(f, n)]
<1>6. UpTo(k - 1) \subseteq UpTo(k)
  BY <1>1, <1>2 DEF UpTo
<1>7. ASSUME NEW n \in UpTo(k), n # Null, NEW d \in Sides
      PROVE  child[n][d] \in UpTo(k - 1) /\ f[child[n][d]] \in Seq(nodes) /\ n \in nodes
  <2>1. n \in nodes /\ size[n] <= k
    BY <1>7 DEF UpTo
  <2>2. child[n][d] \in UpTo(k - 1)
    BY <1>1, <1>2, <2>1, SonsAreSmaller DEF UpTo
  <2> QED
    BY <1>5, <2>1, <2>2 DEF IsWalk
<1>8. ASSUME NEW n \in UpTo(k), n # Null PROVE Joined(f, n) \in Seq(nodes) /\ Joined(g, n) = Joined(f, n)
  <2>1. "left" \in Sides /\ "right" \in Sides
    BY DEF Sides
  <2>2. /\ f[child[n]["left"]] \in Seq(nodes) /\ f[child[n]["right"]] \in Seq(nodes)
        /\ n \in nodes
    BY <1>7, <1>8, <2>1
  <2>3. /\ g[child[n]["left"]] = f[child[n]["left"]]
        /\ g[child[n]["right"]] = f[child[n]["right"]]
    BY <1>6, <1>7, <1>8, <2>1
  <2>4. <<n>> \in Seq(nodes)
    BY <2>2
  <2> HIDE DEF g
  <2> QED
    BY <2>2, <2>3, <2>4 DEF Joined
<1>9. IsWalk(g, UpTo(k))
  <2>1. ASSUME NEW n \in UpTo(k)
        PROVE  g[n] \in Seq(nodes) /\ g[n] = IF n = Null THEN << >> ELSE Joined(g, n)
    <3>1. CASE n \in UpTo(k - 1)
      <4>1. g[n] = f[n] /\ f[n] \in Seq(nodes) /\ f[n] = IF n = Null THEN << >> ELSE Joined(f, n)
        BY <1>5, <3>1 DEF IsWalk
      <4> HIDE DEF g
      <4> QED
        BY <1>8, <4>1
    <3>2. CASE n \notin UpTo(k - 1)
      <4>1. g[n] = Joined(f, n) /\ n # Null
        BY <3>2 DEF UpTo
      <4> HIDE DEF g
      <4> QED
        BY <1>8, <4>1
    <3> QED
      BY <3>1, <3>2
  <2>2. g = [n \in UpTo(k) |-> g[n]]
    OBVIOUS
  <2> HIDE DEF g
  <2> QED
    BY <2>1, <2>2 DEF IsWalk
<1> QED
  BY <1>1, <1>9

LEMMA WalkUnfolds ==
  ASSUME IInv, ~frozen
  PROVE  /\ Walk[Null] = << >>
         /\ \A n \in nodes : Walk[n] = Joined(Walk, n)
<1>1. UpTo(Cardinality(nodes)) = nodes \cup {Null} /\ Cardinality(nodes) \in Nat
  BY SonsAreSmaller DEF UpTo
<1>2. PICK f : IsWalk(f, nodes \cup {Null})
  BY <1>1, WalkUpTo
<1> DEFINE Unfolding(g) ==
      [n \in nodes \cup {Null} |->
         IF n = Null THEN << >> ELSE g[child[n]["left"]] \o <<n>> \o g[child[n]["right"]]]
<1>3. f = Unfolding(f)
  BY <1>2 DEF IsWalk, Joined
<1>4. Walk = CHOOSE g : g = Unfolding(g)
  BY DEF Walk
<1>5. Walk = Unfolding(Walk)
  BY <1>3, <1>4
<1>6. Null \notin nodes
  BY SonsAreSmaller
<1> HIDE DEF Walk
<1> QED
  BY <1>5, <1>6 DEF Joined

Ascends(walk) == \A i, j \in DOMAIN walk : i < j => key[walk[i]] < key[walk[j]]
Visited(walk) == {walk[i] : i \in DOMAIN walk}

LEMMA JoinedAscends ==
  ASSUME NEW s \in Seq(nodes), NEW t \in Seq(nodes), NEW n \in nodes,
         \A m \in nodes : key[m] \in Nat,
         \A m \in Visited(s) : key[m] < key[n],
         \A m \in Visited(t) : key[n] < key[m],
         Ascends(s), Ascends(t),
         NEW w, w = s \o <<n>> \o t
  PROVE  w \in Seq(nodes) /\ Ascends(w) /\ Visited(w) = {n} \cup Visited(s) \cup Visited(t)
<1>1. /\ Len(s) \in Nat /\ Len(t) \in Nat
      /\ DOMAIN s = 1..Len(s) /\ DOMAIN t = 1..Len(t)
      /\ w \in Seq(nodes) /\ DOMAIN w = 1..(Len(s) + 1 + Len(t))
  OBVIOUS
<1>2. /\ \A i \in DOMAIN s : w[i] = s[i]
      /\ w[Len(s) + 1] = n
      /\ \A i \in DOMAIN t : w[Len(s) + 1 + i] = t[i]
  OBVIOUS
<1>3. ASSUME NEW i \in DOMAIN w
      PROVE  \/ i \in DOMAIN s
             \/ i = Len(s) + 1
             \/ i - (Len(s) + 1) \in DOMAIN t /\ w[i] = t[i - (Len(s) + 1)]
  BY <1>1, <1>2
<1>4. Visited(w) = {n} \cup Visited(s) \cup Visited(t)
  <2>1. \A i \in DOMAIN w : w[i] \in {n} \cup Visited(s) \cup Visited(t)
    BY <1>2, <1>3 DEF Visited
  <2>2. \A i \in DOMAIN s : i \in DOMAIN w /\ s[i] = w[i]
    BY <1>1, <1>2
  <2>3. \A i \in DOMAIN t : Len(s) + 1 + i \in DOMAIN w /\ t[i] = w[Len(s) + 1 + i]
    BY <1>1, <1>2
  <2>4. Len(s) + 1 \in DOMAIN w
    BY <1>1
  <2>5. \A i \in DOMAIN w : w[i] \in Visited(w)
    BY DEF Visited
  <2>6. ASSUME NEW m \in {n} \cup Visited(s) \cup Visited(t) PROVE m \in Visited(w)
    <3>1. CASE m = n
      BY <1>2, <2>4, <2>5, <3>1
    <3>2. CASE m \in Visited(s)
      <4>1. PICK i \in DOMAIN s : m = s[i]
        BY <3>2 DEF Visited
      <4> QED
        BY <2>2, <2>5, <4>1
    <3>3. CASE m \in Visited(t)
      <4>1. PICK i \in DOMAIN t : m = t[i]
        BY <3>3 DEF Visited
      <4> QED
        BY <2>3, <2>5, <4>1
    <3> QED
      BY <3>1, <3>2, <3>3
  <2>7. ASSUME NEW m \in Visited(w) PROVE m \in {n} \cup Visited(s) \cup Visited(t)
    <3>1. PICK i \in DOMAIN w : m = w[i]
      BY DEF Visited
    <3> QED
      BY <2>1, <3>1
  <2> QED
    BY <2>6, <2>7
<1>5. Ascends(w)
  <2> SUFFICES ASSUME NEW i \in DOMAIN w, NEW j \in DOMAIN w, i < j
               PROVE  key[w[i]] < key[w[j]]
    BY DEF Ascends
  <2>1. \A k \in DOMAIN s : s[k] \in Visited(s) /\ s[k] \in nodes
    BY <1>1 DEF Visited
  <2>2. \A k \in DOMAIN t : t[k] \in Visited(t) /\ t[k] \in nodes
    BY <1>1 DEF Visited
  <2>3. CASE i \in DOMAIN s
    <3>1. CASE j \in DOMAIN s
      BY <1>2, <2>3, <3>1 DEF Ascends
    <3>2. CASE j = Len(s) + 1
      BY <1>2, <2>1, <2>3, <3>2
    <3>3. CASE j - (Len(s) + 1) \in DOMAIN t /\ w[j] = t[j - (Len(s) + 1)]
      <4>1. key[w[i]] < key[n] /\ key[n] < key[w[j]] /\ w[i] \in nodes /\ w[j] \in nodes
        BY <1>2, <2>1, <2>2, <2>3, <3>3
      <4>2. key[w[i]] \in Nat /\ key[n] \in Nat /\ key[w[j]] \in Nat
        BY <4>1
      <4>3. \A a, b, c \in Nat : a < b /\ b < c => a < c
        OBVIOUS
      <4> QED
        BY <4>1, <4>2, <4>3, Zenon
    <3> QED
      BY <1>3, <3>1, <3>2, <3>3
  <2>4. CASE i = Len(s) + 1
    <3>1. j - (Len(s) + 1) \in DOMAIN t /\ w[j] = t[j - (Len(s) + 1)]
      BY <1>1, <1>3, <2>4
    <3> QED
      BY <1>2, <2>2, <2>4, <3>1
  <2>5. CASE i - (Len(s) + 1) \in DOMAIN t /\ w[i] = t[i - (Len(s) + 1)]
    <3>1. j - (Len(s) + 1) \in DOMAIN t /\ w[j] = t[j - (Len(s) + 1)]
      BY <1>1, <1>3, <2>5
    <3>2. i - (Len(s) + 1) < j - (Len(s) + 1)
      BY <1>1
    <3> QED
      BY <2>5, <3>1, <3>2 DEF Ascends
  <2> QED
    BY <1>3, <2>3, <2>4, <2>5
<1> QED
  BY <1>1, <1>4, <1>5

LEMMA WalkVisits ==
  ASSUME IInv, ~frozen
  PROVE  \A n \in nodes : Visited(Walk[n]) = below[n] /\ Ascends(Walk[n])
<1> DEFINE Walked(n) == /\ Walk[n] \in Seq(nodes)
                        /\ Visited(Walk[n]) = BelowOf(n)
                        /\ Ascends(Walk[n])
           Bad == {size[n] : n \in {m \in nodes : ~Walked(m)}}  \* induction on the size
<1>1. /\ Null \notin nodes
      /\ \A n \in nodes :
           /\ size[n] \in Nat
           /\ \A d \in Sides : child[n][d] # Null =>
                child[n][d] \in nodes /\ size[child[n][d]] < size[n]
  BY SonsAreSmaller
<1>2. /\ Ordered /\ \A n \in nodes : key[n] \in Nat
  BY TypeFacts DEF IInv, Live, TreeInv
<1>3. \A n \in nodes : Walked(n)
  <2> SUFFICES ASSUME Bad # {} PROVE FALSE
    OBVIOUS
  <2>1. PICK k \in Bad : \A j \in Bad : k <= j
    BY <1>1, LeastNatural
  <2>2. PICK n \in nodes : ~Walked(n) /\ size[n] = k
    OBVIOUS
  <2>3. ASSUME NEW d \in Sides PROVE Walked(child[n][d])
    <3>1. CASE child[n][d] = Null
      <4>1. Walk[child[n][d]] = << >>
        BY <3>1, WalkUnfolds
      <4>2. << >> \in Seq(nodes) /\ Visited(<< >>) = {} /\ Ascends(<< >>)
        BY DEF Visited, Ascends
      <4>3. BelowOf(child[n][d]) = {}
        BY <3>1 DEF BelowOf
      <4> QED
        BY <4>1, <4>2, <4>3
    <3>2. CASE child[n][d] # Null
      <4>1. child[n][d] \in nodes /\ size[child[n][d]] < k /\ size[child[n][d]] \in Nat /\ k \in Nat
        BY <1>1, <2>2, <3>2
      <4>2. size[child[n][d]] \notin Bad
        <5> HIDE DEF Bad
        <5> QED
          BY <2>1, <4>1
      <4>3. ~Walked(child[n][d]) => size[child[n][d]] \in Bad
        BY <4>1
      <4> QED
        BY <4>2, <4>3
    <3> QED
      BY <3>1, <3>2
  <2>4. Walked(child[n]["left"]) /\ Walked(child[n]["right"])
    BY <2>3 DEF Sides
  <2>5. /\ below[n] = {n} \cup BelowOf(child[n]["left"]) \cup BelowOf(child[n]["right"])
        /\ \A m \in BelowOf(child[n]["left"]) : key[m] < key[n]
        /\ \A m \in BelowOf(child[n]["right"]) : key[n] < key[m]
    BY <1>2 DEF Ordered
  <2>6. Walk[n] = Walk[child[n]["left"]] \o <<n>> \o Walk[child[n]["right"]]
    BY WalkUnfolds DEF Joined
  <2>7. Walk[n] \in Seq(nodes) /\ Ascends(Walk[n]) /\ Visited(Walk[n]) = below[n]
    <3> DEFINE s == Walk[child[n]["left"]]
               t == Walk[child[n]["right"]]
    <3>1. /\ s \in Seq(nodes) /\ Visited(s) = BelowOf(child[n]["left"]) /\ Ascends(s)
          /\ t \in Seq(nodes) /\ Visited(t) = BelowOf(child[n]["right"]) /\ Ascends(t)
      BY <2>4
    <3>2. Walk[n] = s \o <<n>> \o t
      BY <2>6
    <3> HIDE DEF s, t
    <3>3. /\ \A m \in Visited(s) : key[m] < key[n]
          /\ \A m \in Visited(t) : key[n] < key[m]
      BY <2>5, <3>1
    <3>4. /\ Walk[n] \in Seq(nodes) /\ Ascends(Walk[n])
          /\ Visited(Walk[n]) = {n} \cup Visited(s) \cup Visited(t)
      BY <1>2, <3>1, <3>2, <3>3, JoinedAscends
    <3> QED
      BY <2>5, <3>1, <3>4
  <2>8. BelowOf(n) = below[n]
    BY <1>1 DEF BelowOf
  <2> QED
    BY <2>2, <2>7, <2>8
<1> QED
  BY <1>1, <1>3 DEF BelowOf

-----------------------------------------------------------------------------
(* The refinement.  A call takes effect where its result is known: at the   *)
(* end of the operation, for erase() before the two subtrees are merged.    *)

Names == {"insert", "find", "has", "erase"}

\* The value of a key is that of the one node that has it.
LEMMA DictAt ==
  ASSUME IInv, ~frozen, NEW n \in nodes, NEW k \in Keys, key[n] = k
  PROVE  Dict[k] = val[n] /\ Dict[k] # Absent
<1>1. KeysUnique
  BY DEF IInv, Live, TreeInv
<1>2. val[n] # Absent
  BY AbsentAssumption DEF IInv, TypeOK
<1>3. (CHOOSE m \in nodes : key[m] = k) = n
  BY <1>1 DEF KeysUnique
<1> QED
  BY <1>2, <1>3 DEF Dict

LEMMA DictAtNext ==
  ASSUME IInv', ~frozen', NEW n \in nodes', NEW k \in Keys, key'[n] = k
  PROVE  Dict'[k] = val'[n]
<1>1. KeysUnique'
  BY DEF IInv, Live, TreeInv
<1>2. (CHOOSE m \in nodes' : key'[m] = k) = n
  BY <1>1 DEF KeysUnique
<1> QED
  BY <1>2 DEF Dict

LEMMA DictMisses ==
  ASSUME NEW k \in Keys, frozen \/ \A n \in nodes : key[n] # k
  PROVE  Dict[k] = Absent
BY DEF Dict

LEMMA DictDomain == DOMAIN Dict = Keys /\ Dict = [k \in Keys |-> Dict[k]]
BY DEF Dict

LEMMA DictSteady ==
  ASSUME UNCHANGED <<frozen, nodes, key, val>>
  PROVE  Dict' = Dict
BY DEF Dict

\* What a search tells about the table.
LEMMA Answered ==
  ASSUME IInv, Splayed, op \notin {"merge", "none"}
  PROVE  /\ arg \in Keys /\ ~frozen
         /\ key[cur] = arg => Dict[arg] = val[cur] /\ Dict[arg] # Absent
         /\ key[cur] # arg => Dict[arg] = Absent
<1>1. arg \in Keys /\ ~frozen /\ cur \in nodes /\ NearestInv
  BY SplayedFacts DEF IInv, Placed, Live
<1>2. key[cur] = arg => Dict[arg] = val[cur] /\ Dict[arg] # Absent
  BY <1>1, DictAt
<1>3. key[cur] # arg => \A m \in nodes : key[m] # arg
  BY <1>1 DEF NearestInv, Splayed
<1> QED
  BY <1>1, <1>2, <1>3, DictMisses

\* The keys in the tree are keys.
KeysKnown == \A n \in nodes : key[n] \in Keys

LEMMA KeysStep ==
  ASSUME IInv, KeysKnown, [Next]_vars
  PROVE  KeysKnown'
<1>1. CASE InsertFirst \/ Split
  <2>1. arg \in Keys
    BY <1>1 DEF InsertFirst, Split, IInv, Placed
  <2>2. PICK n \in Nodes \ nodes : NewRoot(n, arg, new)
    BY <1>1 DEF InsertFirst, Split
  <2> QED
    BY <2>1, <2>2 DEF KeysKnown, NewRoot, IInv, TypeOK
<1>2. CASE Detach \/ Destroy
  <2>1. PICK gone : Free(gone)
    BY <1>2, Zenon DEF Detach, Destroy
  <2> QED
    BY <2>1 DEF KeysKnown, Free, IInv, TypeOK
<1>3. CASE ~(InsertFirst \/ Split \/ Detach \/ Destroy)
  <2>1. UNCHANGED <<nodes, key>>
    BY <1>3 DEF Next, Step, Call, AnswerEmpty, Refuse, Descend, Plan, Rotate, FindReturns,
                HasReturns, InsertRefused, EraseMisses, InsertSplits, Merge, Return, Begin, vars
  <2> QED
    BY <2>1 DEF KeysKnown
<1> QED
  BY <1>1, <1>2, <1>3

\* forall() visits every entry of the map once and in ascending order of keys,
\* whatever was inserted, found and erased before (ts_map_forall_helper, ts_map.c:363-370).
THEOREM ForallCorrect == Spec => []ForallAscends
<1>1. Init => KeysKnown
  BY DEF Init, KeysKnown
<1>2. IInv /\ KeysKnown => ForallAscends
  <2> SUFFICES ASSUME IInv, KeysKnown, pc = "idle", ~frozen
               PROVE  /\ {key[Walk[root][i]] : i \in DOMAIN Walk[root]}
                            = {k \in Keys : Dict[k] # Absent}
                      /\ Ascends(Walk[root])
    BY DEF ForallAscends, Ascends
  <2>1. /\ root = Null <=> nodes = {}
        /\ root # Null => root \in nodes /\ below[root] = nodes
    BY WholeTree
  <2>2. Visited(Walk[root]) = nodes /\ Ascends(Walk[root])
    <3>1. CASE root = Null
      BY <2>1, <3>1, WalkUnfolds DEF Visited, Ascends
    <3>2. CASE root # Null
      BY <2>1, <3>2, WalkVisits
    <3> QED
      BY <3>1, <3>2
  <2>3. {key[Walk[root][i]] : i \in DOMAIN Walk[root]} = {key[n] : n \in nodes}
    BY <2>2 DEF Visited
  <2>4. \A n \in nodes : key[n] \in Keys /\ Dict[key[n]] # Absent
    BY DictAt DEF KeysKnown
  <2>5. \A k \in Keys : Dict[k] # Absent => \E n \in nodes : key[n] = k
    BY DictMisses
  <2>6. {key[n] : n \in nodes} = {k \in Keys : Dict[k] # Absent}
    <3> HIDE DEF Dict
    <3>1. ASSUME NEW k \in Keys, Dict[k] # Absent PROVE k \in {key[n] : n \in nodes}
      BY <2>5, <3>1
    <3>2. ASSUME NEW n \in nodes PROVE key[n] \in {k \in Keys : Dict[k] # Absent}
      BY <2>4
    <3> QED
      BY <3>1, <3>2
  <2> QED
    BY <2>2, <2>3, <2>6
<1> QED
  BY <1>1, <1>2, KeysStep, Invariance, PTL DEF Spec

\* ts_map_destroy() frees every node of the map, and no call brings a node back
\* (ts_map_destroy, ts_map.c:302-305).
THEOREM NothingLeaksCorrect == Spec => []NothingLeaks
<1>1. Init => NothingLeaks
  BY DEF Init, NothingLeaks
<1>2. IInv /\ NothingLeaks /\ [Next]_vars => NothingLeaks'
  <2> SUFFICES ASSUME IInv, NothingLeaks, [Next]_vars, frozen' PROVE nodes' = {}
    BY DEF NothingLeaks
  <2>1. CASE Destroy
    <3>1. pc = "idle" /\ ~frozen /\ Free(Visited(Walk[root]))
      BY <2>1, Zenon DEF Destroy, Visited
    <3>2. /\ root = Null <=> nodes = {}
          /\ root # Null => root \in nodes /\ below[root] = nodes
      BY <3>1, WholeTree
    <3>3. root # Null => Visited(Walk[root]) = nodes
      BY <3>1, <3>2, WalkVisits
    <3> QED
      BY <3>1, <3>2, <3>3 DEF Free
  <2>2. CASE ~Destroy
    <3>1. frozen
      BY <2>2 DEF Next, Step, Call, InsertFirst, AnswerEmpty, Refuse, Descend, Plan, Rotate,
                  FindReturns, HasReturns, InsertRefused, EraseMisses, InsertSplits, Split,
                  Detach, Merge, Return, Begin, vars
    <3>2. nodes = {} /\ pc # "splay"
      BY <3>1 DEF NothingLeaks, IInv, Placed
    <3>3. nodes' = nodes
      BY <2>2, <3>1, <3>2
         DEF Next, Step, Call, InsertFirst, AnswerEmpty, Refuse, Descend, Plan, Rotate,
             FindReturns, HasReturns, InsertRefused, EraseMisses, InsertSplits, Split, Detach,
             Merge, Splayed, Return, Begin, vars
    <3> QED
      BY <3>2, <3>3
  <2> QED
    BY <2>1, <2>2
<1> QED
  BY <1>1, <1>2, Invariance, PTL DEF Spec

\* The call in progress, and its effect on table and answer.
LEMMA PendingCall ==
  ASSUME IInv, op \in {"insert", "split", "find", "has", "erase"}
  PROVE  /\ Pending # NoCall
         /\ Pending.name = IF op = "split" THEN "insert" ELSE op
         /\ Pending.key = arg
         /\ Pending.val = new
<1>1. arg \in Keys /\ new \in Vals \cup {Nothing}
  BY DEF IInv, Placed, TypeOK
<1>2. Pending = [name |-> IF op = "split" THEN "insert" ELSE op, key |-> arg, val |-> new]
  BY DEF Pending
<1>3. (IF op = "split" THEN "insert" ELSE op) \in Names
  BY DEF Names
<1>4. Pending # NoCall
  BY <1>1, <1>2, <1>3, NoCallAssumption, Zenon DEF Names
<1> QED
  BY <1>2, <1>4

LEMMA NothingPending ==
  ASSUME op \in {"none", "merge"}
  PROVE  Pending = NoCall
BY DEF Pending

LEMMA InitAbstract == Init => Abstract!Init
BY DEF Init, Abstract!Init, Dict, Pending

LEMMA BeginAbstract ==
  ASSUME IInv, NEW name \in Names, NEW k \in Keys, NEW v \in Vals \cup {Nothing}, Begin(name, k, v)
  PROVE  Abstract!Call(name, k, v)
<1>1. op = "none" /\ op' = name /\ arg' = k /\ new' = v
      /\ UNCHANGED <<frozen, nodes, key, val, answer>>
  BY DEF Begin, IInv, Placed
<1>2. Pending = NoCall
  BY <1>1, NothingPending
<1>3. Pending' = [name |-> name, key |-> k, val |-> v]
  BY <1>1 DEF Pending, Names
<1>4. Dict' = Dict
  BY <1>1, DictSteady
<1> QED
  BY <1>1, <1>2, <1>3, <1>4 DEF Abstract!Call

\* An answer that leaves the table as it is.
LEMMA SteadyAbstract ==
  ASSUME IInv, AnswerEmpty \/ FindReturns \/ HasReturns \/ InsertRefused \/ EraseMisses
  PROVE  Abstract!Insert \/ Abstract!Erase \/ Abstract!Find \/ Abstract!Has
<1>1. op \in {"insert", "find", "has", "erase"} /\ ~frozen /\ op' = "none"
      /\ UNCHANGED <<frozen, nodes, key, val>>
  <2>1. CASE AnswerEmpty
    BY <2>1 DEF AnswerEmpty, Finish, IInv, TypeOK, Ops, Placed, Live, PlaceInv, MergeInv
  <2>2. CASE ~AnswerEmpty
    BY <2>2, SplayedFacts DEF FindReturns, HasReturns, InsertRefused, EraseMisses, Return, Finish
  <2> QED
    BY <2>1, <2>2
<1>2. Dict' = Dict /\ Pending' = NoCall
  BY <1>1, DictSteady DEF Pending
<1>3. Pending # NoCall /\ Pending.name = op /\ Pending.key = arg /\ arg \in Keys
  BY <1>1, PendingCall DEF IInv, Placed
<1>4. CASE AnswerEmpty
  <2>1. nodes = {} /\ op # "insert" /\ answer' = IF op = "has" THEN FALSE ELSE Nothing
    BY <1>4 DEF AnswerEmpty, Finish, IInv, Live, PlaceInv
  <2>2. Dict[arg] = Absent /\ [Dict EXCEPT ![arg] = Absent] = Dict
    BY <1>3, <2>1, DictMisses, DictDomain
  <2>3. ~Abstract!Present
    BY <1>3, <2>2 DEF Abstract!Present
  <2>4. CASE op = "find"
    BY <1>1, <1>2, <1>3, <2>1, <2>3, <2>4 DEF Abstract!Find, Abstract!Effect
  <2>5. CASE op = "has"
    <3>0. answer' = FALSE
      BY <2>1, <2>5, Zenon
    <3>1. answer' = Abstract!Present
      BY <2>3, <3>0, Zenon DEF Abstract!Present
    <3> QED
      BY <1>1, <1>2, <1>3, <2>5, <3>1, Zenon DEF Abstract!Has, Abstract!Effect
  <2>6. CASE op = "erase"
    BY <1>1, <1>2, <1>3, <2>1, <2>2, <2>3, <2>6 DEF Abstract!Erase, Abstract!Effect
  <2> QED
    BY <1>1, <2>1, <2>4, <2>5, <2>6
<1>5. ASSUME Splayed
      PROVE  /\ key[cur] = arg => Abstract!Present /\ Dict[arg] = val[cur]
             /\ key[cur] # arg => ~Abstract!Present /\ [Dict EXCEPT ![arg] = Absent] = Dict
  <2>1. Abstract!Present <=> Dict[arg] # Absent
    BY <1>3 DEF Abstract!Present
  <2> QED
    BY <1>1, <1>3, <1>5, <2>1, Answered, DictDomain
<1>6. CASE FindReturns
  <2>1. op = "find" /\ Splayed /\ answer' = IF key[cur] = arg THEN val[cur] ELSE Nothing
    BY <1>6 DEF FindReturns, Return, Finish
  <2> QED
    BY <1>1, <1>2, <1>3, <1>5, <2>1 DEF Abstract!Find, Abstract!Effect
<1>7. CASE HasReturns
  <2>1. op = "has" /\ Splayed /\ answer' = (key[cur] = arg)
    BY <1>7, Zenon DEF HasReturns, Return, Finish
  <2>2. answer' = Abstract!Present
    <3>1. (key[cur] = arg) <=> Abstract!Present
      BY <1>5, <2>1
    <3> QED
      BY <2>1, <3>1, Zenon DEF Abstract!Present
  <2> QED
    BY <1>1, <1>2, <1>3, <2>1, <2>2, Zenon DEF Abstract!Has, Abstract!Effect
<1>8. CASE InsertRefused
  <2>1. op = "insert" /\ Splayed /\ key[cur] = arg /\ answer' = FALSE
    BY <1>8, Zenon DEF InsertRefused, Return, Finish
  <2>2. Abstract!Present
    BY <1>5, <2>1
  <2>3. answer' = (~Abstract!Present)
    BY <2>1, <2>2, Zenon
  <2> QED
    BY <1>1, <1>2, <1>3, <2>1, <2>2, <2>3, Zenon DEF Abstract!Insert, Abstract!Effect
<1>9. CASE EraseMisses
  <2>1. op = "erase" /\ Splayed /\ key[cur] # arg /\ answer' = Nothing
    BY <1>9 DEF EraseMisses, Return, Finish
  <2> QED
    BY <1>1, <1>2, <1>3, <1>5, <2>1 DEF Abstract!Erase, Abstract!Effect
<1> QED
  BY <1>4, <1>6, <1>7, <1>8, <1>9

\* A new node adds its key to the table.
LEMMA InsertAbstract ==
  ASSUME IInv, IInv', InsertFirst \/ Split
  PROVE  Abstract!Insert
<1>1. ~frozen /\ op \in {"insert", "split"} /\ op' = "none" /\ frozen' = frozen /\ answer' = TRUE
  BY SplayedFacts DEF InsertFirst, Split, Finish
<1>2. PICK n \in Nodes \ nodes : NewRoot(n, arg, new)
  BY DEF InsertFirst, Split
<1>3. arg \in Keys /\ \A m \in nodes : key[m] # arg
  <2>1. CASE InsertFirst
    BY <2>1 DEF InsertFirst, IInv, Placed, Live, PlaceInv
  <2>2. CASE Split
    BY <1>1, <2>2 DEF Split, IInv, Placed, Live, NewKeyInv
  <2> QED
    BY <2>1, <2>2
<1>4. Dict[arg] = Absent
  BY <1>3, DictMisses
<1>5. Pending # NoCall /\ Pending.name = "insert" /\ Pending.key = arg /\ Pending.val = new
      /\ Pending' = NoCall
  BY <1>1, PendingCall DEF Pending
<1>6. ~Abstract!Present
  BY <1>4, <1>5 DEF Abstract!Present
<1>7. Dict' = [Dict EXCEPT ![arg] = new]
  <2>1. /\ nodes' = nodes \cup {n} /\ key'[n] = arg /\ val'[n] = new /\ n \notin nodes
        /\ \A m \in nodes : key'[m] = key[m] /\ val'[m] = val[m]
    BY <1>2 DEF NewRoot, IInv, TypeOK
  <2>2. \A k \in Keys : Dict'[k] = IF k = arg THEN new ELSE Dict[k]
    <3> SUFFICES ASSUME NEW k \in Keys PROVE Dict'[k] = IF k = arg THEN new ELSE Dict[k]
      OBVIOUS
    <3>0. \A m \in nodes' : key'[m] = k => Dict'[k] = val'[m]
      BY <1>1, DictAtNext
    <3>1. CASE k = arg
      BY <2>1, <3>0, <3>1
    <3>2. ASSUME k # arg, NEW m \in nodes, key[m] = k PROVE Dict'[k] = Dict[k]
      <4>1. Dict[k] = val[m]
        BY <1>1, <3>2, DictAt
      <4> QED
        BY <2>1, <3>0, <3>2, <4>1
    <3>3. CASE k # arg /\ \A m \in nodes : key[m] # k
      <4>1. Dict[k] = Absent
        BY <3>3, DictMisses
      <4>2. Dict'[k] = Absent
        BY <2>1, <3>3 DEF Dict
      <4> QED
        BY <3>3, <4>1, <4>2
    <3> QED
      BY <3>1, <3>2, <3>3
  <2>3. Dict' = [k \in Keys |-> Dict'[k]]
    BY DEF Dict
  <2> HIDE DEF Dict
  <2> QED
    BY <1>3, <2>2, <2>3, DictDomain
<1>8. answer' = (~Abstract!Present)
  BY <1>1, <1>6, Zenon
<1> QED
  BY <1>1, <1>5, <1>6, <1>7, <1>8, Zenon DEF Abstract!Insert, Abstract!Effect

\* A key leaves the table with the node that is taken out.
LEMMA DetachAbstract ==
  ASSUME IInv, Detach
  PROVE  Abstract!Erase
<1>1. /\ op = "erase" /\ Splayed /\ key[cur] = arg /\ op' \in {"none", "merge"}
      /\ answer' = val[cur] /\ frozen' = frozen /\ Free({cur})
  <2>1. op = "erase" /\ Splayed /\ key[cur] = arg /\ frozen' = frozen
    BY DEF Detach
  <2>2. op' \in {"none", "merge"} /\ answer' = val[cur] /\ Free({cur})
    BY DetachCases DEF Finish
  <2> QED
    BY <2>1, <2>2
<1>2. /\ arg \in Keys /\ ~frozen /\ Dict[arg] = val[cur] /\ Dict[arg] # Absent
      /\ cur \in nodes /\ nodes \subseteq Nodes /\ KeysUnique
  BY <1>1, Answered, SplayedFacts, TypeFacts
<1>3. Pending # NoCall /\ Pending.name = "erase" /\ Pending.key = arg /\ Pending' = NoCall
  BY <1>1, PendingCall DEF Pending
<1>4. Abstract!Present
  BY <1>2, <1>3 DEF Abstract!Present
<1>5. Dict' = [Dict EXCEPT ![arg] = Absent]
  <2>1. /\ nodes' = nodes \ {cur}
        /\ \A m \in nodes' : key'[m] = key[m] /\ val'[m] = val[m]
    BY <1>1, <1>2 DEF Free
  <2>2. ASSUME NEW k \in Keys PROVE Dict'[k] = IF k = arg THEN Absent ELSE Dict[k]
    <3>1. CASE k = arg
      <4>1. \A m \in nodes' : key'[m] # arg
        BY <1>1, <1>2, <2>1 DEF KeysUnique
      <4> QED
        BY <3>1, <4>1 DEF Dict
    <3>2. CASE k # arg
      <4>1. \A m : m \in nodes' /\ key'[m] = k <=> m \in nodes /\ key[m] = k
        BY <1>1, <2>1, <3>2
      <4>2. CASE \A m \in nodes : key[m] # k
        BY <3>2, <4>1, <4>2 DEF Dict
      <4>3. ASSUME NEW m \in nodes, key[m] = k PROVE Dict'[k] = Dict[k]
        <5>1. Dict[k] = val[m]
          BY <1>2, <4>3, DictAt
        <5>2. m \in nodes' /\ key'[m] = k /\ \A x \in nodes' : key'[x] = k => x = m
          BY <1>2, <4>1, <4>3 DEF KeysUnique
        <5>3. (CHOOSE x \in nodes' : key'[x] = k) = m
          BY <5>2
        <5>4. Dict'[k] = val'[m]
          BY <1>1, <1>2, <5>2, <5>3 DEF Dict
        <5> QED
          BY <2>1, <5>1, <5>2, <5>4
      <4> QED
        BY <3>2, <4>2, <4>3
    <3> QED
      BY <3>1, <3>2
  <2>3. Dict' = [k \in Keys |-> Dict'[k]]
    BY DEF Dict
  <2> HIDE DEF Dict
  <2> QED
    BY <1>2, <2>2, <2>3, DictDomain
<1> QED
  BY <1>1, <1>2, <1>3, <1>4, <1>5 DEF Abstract!Erase, Abstract!Effect

LEMMA RefuseAbstract ==
  ASSUME IInv, Refuse
  PROVE  Abstract!Refuse
<1>1. frozen /\ op \in {"insert", "erase"} /\ op' = "none" /\ UNCHANGED <<frozen, nodes, key, val>>
      /\ answer' = IF op = "insert" THEN FALSE ELSE Nothing
  BY DEF Refuse, Finish, IInv, Placed
<1>2. Dict' = Dict /\ Pending' = NoCall /\ Pending # NoCall /\ Pending.name = op
  BY <1>1, DictSteady, PendingCall DEF Pending
<1>3. CASE op = "insert"
  <2>1. answer' = FALSE
    BY <1>1, <1>3, Zenon
  <2> QED
    BY <1>1, <1>2, <1>3, <2>1, Zenon DEF Abstract!Refuse, Abstract!Effect
<1>4. CASE op = "erase"
  BY <1>1, <1>2, <1>4 DEF Abstract!Refuse, Abstract!Effect
<1> QED
  BY <1>1, <1>3, <1>4

LEMMA DestroyAbstract ==
  ASSUME IInv, Destroy
  PROVE  Abstract!Freeze
<1>1. op = "none" /\ op' = "none" /\ ~frozen /\ frozen' = TRUE /\ UNCHANGED answer
  BY DEF Destroy, IInv, Placed, opVars
<1>2. Pending = NoCall /\ Pending' = NoCall
  BY <1>1 DEF Pending
<1>3. Dict' = [k \in Keys |-> Absent]
  BY <1>1 DEF Dict
<1> QED
  BY <1>1, <1>2, <1>3 DEF Abstract!Freeze

\* Steps inside an operation.
LEMMA InsideAbstract ==
  ASSUME IInv, Descend \/ Plan \/ Rotate \/ InsertSplits \/ Merge
  PROVE  UNCHANGED <<Dict, frozen, Pending, answer>>
<1>1. UNCHANGED <<frozen, nodes, key, val, answer>>
  BY DEF Descend, Plan, Rotate, InsertSplits, Merge, Finish
<1>2. \/ UNCHANGED <<op, arg, new>>
      \/ op = "insert" /\ op' = "split" /\ UNCHANGED <<arg, new>>
      \/ op = "merge" /\ op' = "none"
  BY DEF Descend, Plan, Rotate, InsertSplits, Merge, Finish
<1>3. Pending' = Pending
  BY <1>2 DEF Pending
<1> QED
  BY <1>1, <1>3, DictSteady

LEMMA StepAbstract ==
  IInv /\ IInv' /\ [Next]_vars => [Abstract!Next]_<<Dict, frozen, Pending, answer>>
<1> SUFFICES ASSUME IInv, IInv', [Next]_vars
             PROVE  Abstract!Next \/ UNCHANGED <<Dict, frozen, Pending, answer>>
  OBVIOUS
<1>1. CASE InsertFirst \/ Split
  BY <1>1, InsertAbstract DEF Abstract!Next
<1>2. CASE AnswerEmpty \/ FindReturns \/ HasReturns \/ InsertRefused \/ EraseMisses
  BY <1>2, SteadyAbstract DEF Abstract!Next
<1>3. CASE Refuse
  BY <1>3, RefuseAbstract DEF Abstract!Next
<1>4. CASE Descend \/ Plan \/ Rotate \/ InsertSplits \/ Merge
  BY <1>4, InsideAbstract
<1>5. CASE Detach
  BY <1>5, DetachAbstract DEF Abstract!Next
<1>6. CASE Destroy
  BY <1>6, DestroyAbstract DEF Abstract!Next
<1>7. ASSUME NEW name \in Names, NEW k \in Keys, NEW v \in Vals \cup {Nothing}, Begin(name, k, v)
      PROVE  Abstract!Next
  BY <1>7, BeginAbstract DEF Abstract!Next, Abstract!Names, Names
<1>8. CASE Call
  <2>1. CASE \E e \in Entries : Begin("insert", e[1], e[2])
    BY <1>7, <2>1, EntriesAssumption DEF Names
  <2>2. CASE \E k \in Keys, name \in {"find", "has", "erase"} : Begin(name, k, new)
    BY <1>7, <2>2 DEF Names, IInv, TypeOK
  <2> QED
    BY <1>6, <1>8, <2>1, <2>2 DEF Call
<1>9. CASE UNCHANGED vars
  <2>1. UNCHANGED <<frozen, nodes, key, val, answer, op, arg, new>>
    BY <1>9 DEF vars, opVars
  <2> QED
    BY <2>1, DictSteady DEF Pending
<1> QED
  BY <1>1, <1>2, <1>3, <1>4, <1>5, <1>6, <1>8, <1>9 DEF Next, Step

\* The splay tree implements a dictionary (Implements): every operation of the
\* code has, at one of its steps, the effect and the answer of its call.
THEOREM Refinement == Spec => Implements
<1>1. Spec => Abstract!Init /\ [][Abstract!Next]_<<Dict, frozen, Pending, answer>>
  BY InitAbstract, StepAbstract, Invariance, PTL DEF Spec
<1> QED
  BY <1>1 DEF Implements, Abstract!Spec, Abstract!vars

=============================================================================
