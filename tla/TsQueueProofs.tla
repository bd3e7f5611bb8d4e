----------------------------- MODULE TsQueueProofs -----------------------------
(***************************************************************************)
(* What the thread-safe queue guarantees for any threads, values and       *)
(* memory: its list stays linked and none of its nodes leaks, and it       *)
(* implements the first-in first-out queue of Fifo.                        *)
(***************************************************************************)
EXTENDS TsQueue, SequenceTheorems, TLAPS

\* The local variable node is set exactly while the thread is between the
\* allocation or the removal of a node and the end of the operation; the
\* mutex is held exactly by the thread that destroys; a node about to be
\* inserted has no successor; a destroyed queue is empty.
PlaceInv ==
    /\ \A t \in Threads :
         /\ pc[t] \in {"push", "pushInFront", "free"} <=> node[t] # Null
         /\ pc[t] = "destroy" <=> mutex = t
         /\ pc[t] \in {"push", "pushInFront"} => next[node[t]] = Null
    /\ frozen => chain = << >> /\ mutex = Free

IInv == TypeOK /\ WellLinked /\ OneHolder /\ PlaceInv

USE NullAssumption

-----------------------------------------------------------------------------
(* Sequences *)

LEMMA AppendFacts ==
  ASSUME NEW S, NEW q \in Seq(S), NEW e \in S
  PROVE  /\ Append(q, e) \in Seq(S)
         /\ Len(Append(q, e)) = Len(q) + 1
         /\ DOMAIN Append(q, e) = 1..(Len(q) + 1)
         /\ DOMAIN q = 1..Len(q) /\ Len(q) \in Nat
         /\ \A i \in DOMAIN q : Append(q, e)[i] = q[i]
         /\ Append(q, e)[Len(q) + 1] = e
         /\ Append(q, e) # << >>
  OBVIOUS

LEMMA ConsFacts ==
  ASSUME NEW S, NEW q \in Seq(S), NEW e \in S
  PROVE  /\ <<e>> \o q \in Seq(S)
         /\ Len(<<e>> \o q) = Len(q) + 1
         /\ DOMAIN (<<e>> \o q) = 1..(Len(q) + 1)
         /\ DOMAIN q = 1..Len(q) /\ Len(q) \in Nat
         /\ \A i \in DOMAIN q : (<<e>> \o q)[i + 1] = q[i]
         /\ (<<e>> \o q)[1] = e
         /\ <<e>> \o q # << >>
  OBVIOUS

LEMMA TailFacts ==
  ASSUME NEW S, NEW q \in Seq(S), q # << >>
  PROVE  /\ Tail(q) \in Seq(S)
         /\ Len(Tail(q)) = Len(q) - 1
         /\ DOMAIN Tail(q) = 1..(Len(q) - 1)
         /\ DOMAIN q = 1..Len(q) /\ Len(q) \in Nat \ {0}
         /\ \A i \in 1..(Len(q) - 1) : Tail(q)[i] = q[i + 1]
         /\ Tail(q) = << >> <=> Len(q) = 1
         /\ Head(q) = q[1]
<1>1. Tail(q) \in Seq(S) /\ Len(Tail(q)) = Len(q) - 1
  BY HeadTailProperties
<1>2. Len(q) \in Nat \ {0} /\ DOMAIN q = 1..Len(q)
  BY EmptySeq, LenProperties
<1>3. DOMAIN Tail(q) = 1..(Len(q) - 1)
  BY <1>1, LenProperties
<1>4. Tail(q) = << >> <=> Len(q) = 1
  BY <1>1, <1>2, EmptySeq
<1>5. \A i \in 1..(Len(q) - 1) : Tail(q)[i] = q[i + 1]
  BY HeadTailProperties
<1>6. Head(q) = q[1]
  OBVIOUS
<1> QED
  BY <1>1, <1>2, <1>3, <1>4, <1>5, <1>6

LEMMA EmptyFacts ==
  ASSUME NEW S, NEW q \in Seq(S)
  PROVE  /\ q = << >> <=> Len(q) = 0
         /\ DOMAIN q = 1..Len(q) /\ Len(q) \in Nat
         /\ \A i \in 1..Len(q) : q[i] \in S
<1>1. Len(q) = 0 => q = << >>
  BY EmptySeq
<1>2. q = << >> => Len(q) = 0
  BY EmptySeq
<1> QED
  BY <1>1, <1>2

-----------------------------------------------------------------------------
LEMMA InitIInv == Init => IInv
<1> SUFFICES ASSUME Init PROVE IInv
  OBVIOUS
<1>1. chain = << >> /\ DOMAIN chain = {} /\ Len(chain) = 0 /\ chain \in Seq(Nodes)
  BY DEF Init
<1>2. TypeOK
  BY <1>1 DEF Init, TypeOK
<1>3. WellLinked /\ OneHolder /\ PlaceInv
  BY <1>1 DEF Init, WellLinked, OneHolder, PlaceInv
<1> QED
  BY <1>2, <1>3 DEF IInv

LEMMA AllocateIInv ==
  ASSUME IInv, NEW t \in Threads, Allocate(t)
  PROVE  IInv'
<1> USE DEF IInv
<1>1. PICK n \in Nodes \ allocated, v \in Vals :
        /\ allocated' = allocated \cup {n}
        /\ node' = [node EXCEPT ![t] = n]
        /\ next' = [next EXCEPT ![n] = Null]
        /\ val' = [val EXCEPT ![n] = v]
  BY DEF Allocate
<1>2. \A i \in DOMAIN chain : chain[i] # n /\ chain[i] \in Nodes
  BY EmptyFacts DEF OneHolder, TypeOK
<1>3. \A u \in Threads : node[u] # n
  BY DEF OneHolder
<1>4. node[t] = Null
  BY DEF Allocate, PlaceInv
<1>5. TypeOK'
  BY <1>1 DEF Allocate, TypeOK
<1>6. WellLinked'
  BY <1>1, <1>2 DEF Allocate, WellLinked, TypeOK
<1>7. OneHolder'
  BY <1>1, <1>2, <1>3, <1>4 DEF Allocate, OneHolder, TypeOK
<1>8. PlaceInv'
  BY <1>1, <1>3, <1>4 DEF Allocate, PlaceInv, TypeOK
<1> QED
  BY <1>5, <1>6, <1>7, <1>8

LEMMA PushIInv ==
  ASSUME IInv, NEW t \in Threads, Push(t)
  PROVE  IInv'
<1> USE DEF IInv
<1> DEFINE n == node[t]
<1>1. n \in Nodes /\ next[n] = Null /\ \A i \in DOMAIN chain : chain[i] # n
  BY DEF Push, PlaceInv, OneHolder, TypeOK
<1>2. /\ chain' \in Seq(Nodes) /\ chain' # << >>
      /\ Len(chain') = Len(chain) + 1 /\ Len(chain) \in Nat
      /\ DOMAIN chain' = 1..(Len(chain) + 1) /\ DOMAIN chain = 1..Len(chain)
      /\ \A i \in DOMAIN chain : chain'[i] = chain[i]
      /\ chain'[Len(chain) + 1] = n
  BY <1>1, AppendFacts DEF Push, TypeOK
<1>3. size = Len(chain) /\ (chain # << >> => last = chain[Len(chain)])
      /\ (chain = << >> <=> Len(chain) = 0)
  BY EmptyFacts DEF Push, WellLinked, TypeOK
<1>4. /\ size # 0 => last \in Nodes /\ last = chain[Len(chain)] /\ last # n
      /\ \A i \in DOMAIN chain : chain[i] \in Nodes
  BY <1>1, <1>2, <1>3, EmptyFacts DEF TypeOK
<1>5. TypeOK'
  BY <1>1, <1>2 DEF Push, Inserted, Goto, TypeOK
<1>6. WellLinked'
  <2>1. \A i, j \in DOMAIN chain' : chain'[i] = chain'[j] => i = j
    BY <1>1, <1>2 DEF WellLinked
  <2>2. \A i \in DOMAIN chain : next'[chain[i]] =
          IF i = Len(chain) THEN n ELSE chain[i + 1]
    BY <1>2, <1>3, <1>4 DEF Push, WellLinked, TypeOK
  <2>3. next'[n] = Null
    BY <1>1, <1>4 DEF Push, TypeOK
  <2>4. \A i \in DOMAIN chain' :
          next'[chain'[i]] = IF i = Len(chain') THEN Null ELSE chain'[i + 1]
    BY <1>2, <2>2, <2>3
  <2>5. first' = chain'[1]
    BY <1>2, <1>3 DEF Push, WellLinked
  <2>6. size' = Len(chain') /\ last' = chain'[Len(chain')]
    BY <1>2, <1>3 DEF Push, Inserted
  <2> QED
    BY <1>2, <2>1, <2>4, <2>5, <2>6 DEF WellLinked
<1>7. OneHolder'
  <2>1. node' = [node EXCEPT ![t] = Null] /\ allocated' = allocated
    BY DEF Push, Inserted
  <2>2. \A m \in Nodes : (\E i \in DOMAIN chain' : chain'[i] = m) <=>
                         (m = n \/ \E i \in DOMAIN chain : chain[i] = m)
    BY <1>2
  <2>3. \A m \in Nodes : (\E u \in Threads : node'[u] = m) <=>
                         (m # n /\ \E u \in Threads : node[u] = m)
    BY <1>1, <2>1 DEF OneHolder, TypeOK
  <2>4. \A u \in Threads, i \in DOMAIN chain' : node'[u] # chain'[i]
    BY <1>1, <1>2, <2>1 DEF OneHolder, TypeOK
  <2>5. n \in allocated
    BY <1>1 DEF OneHolder
  <2> QED
    BY <2>1, <2>2, <2>3, <2>4, <2>5 DEF OneHolder, TypeOK
<1>8. PlaceInv'
  <2>1. \A u \in Threads \ {t} :
          /\ pc'[u] = pc[u] /\ node'[u] = node[u]
          /\ pc[u] \in {"push", "pushInFront"} => next'[node[u]] = next[node[u]]
    <3>1. \A u \in Threads \ {t} : size # 0 => node[u] # last
      BY <1>2, <1>3, <1>4 DEF OneHolder
    <3> QED
      BY <3>1 DEF Push, Inserted, Goto, TypeOK, PlaceInv
  <2>2. pc'[t] = "idle" /\ node'[t] = Null
    BY DEF Push, Inserted, Goto, TypeOK
  <2>3. mutex' = mutex /\ ~frozen' /\ mutex # t
    BY DEF Push
  <2> QED
    BY <2>1, <2>2, <2>3 DEF PlaceInv
<1> QED
  BY <1>5, <1>6, <1>7, <1>8

LEMMA PushInFrontIInv ==
  ASSUME IInv, NEW t \in Threads, PushInFront(t)
  PROVE  IInv'
<1> USE DEF IInv
<1> DEFINE n == node[t]
<1>1. n \in Nodes /\ next[n] = Null /\ \A i \in DOMAIN chain : chain[i] # n
  BY DEF PushInFront, PlaceInv, OneHolder, TypeOK
<1>2. /\ chain' \in Seq(Nodes) /\ chain' # << >>
      /\ Len(chain') = Len(chain) + 1 /\ Len(chain) \in Nat
      /\ DOMAIN chain' = 1..(Len(chain) + 1) /\ DOMAIN chain = 1..Len(chain)
      /\ \A i \in DOMAIN chain : chain'[i + 1] = chain[i]
      /\ chain'[1] = n
  BY <1>1, ConsFacts DEF PushInFront, TypeOK
<1>3. size = Len(chain) /\ (chain # << >> => last = chain[Len(chain)])
      /\ (chain = << >> <=> Len(chain) = 0)
  BY EmptyFacts DEF PushInFront, WellLinked, TypeOK
<1>4. \A i \in DOMAIN chain' \ {1} : i - 1 \in DOMAIN chain /\ chain'[i] = chain[i - 1]
  BY <1>2
<1>5. TypeOK'
  <2>1. next' \in [Nodes -> Nodes \cup {Null}]
    BY <1>1 DEF PushInFront, TypeOK
  <2>2. size' \in Nat /\ pc' \in [Threads -> {"idle", "push", "pushInFront", "free", "destroy"}]
    BY DEF PushInFront, Inserted, Goto, TypeOK
  <2> QED
    BY <1>1, <1>2, <2>1, <2>2 DEF PushInFront, Inserted, TypeOK
<1>6. WellLinked'
  <2>1. \A i, j \in DOMAIN chain' : chain'[i] = chain'[j] => i = j
    <3> SUFFICES ASSUME NEW i \in DOMAIN chain', NEW j \in DOMAIN chain',
                        chain'[i] = chain'[j]
                 PROVE  i = j
      OBVIOUS
    <3>1. CASE i = 1 \/ j = 1
      BY <1>1, <1>2, <1>4, <3>1
    <3>2. CASE i # 1 /\ j # 1
      <4>1. i - 1 = j - 1
        BY <1>4, <3>2 DEF WellLinked
      <4> QED
        BY <1>2, <4>1
    <3> QED
      BY <3>1, <3>2
  <2>2. \A i \in DOMAIN chain : next'[chain[i]] = next[chain[i]]
    BY <1>1 DEF PushInFront, TypeOK
  <2>3. next'[n] = IF Len(chain') = 1 THEN Null ELSE chain'[2]
    <3>1. CASE size = 0
      BY <1>1, <1>2, <1>3, <3>1 DEF PushInFront
    <3>2. CASE size # 0
      <4>1. first = chain[1] /\ 1 \in DOMAIN chain /\ Len(chain') # 1
        BY <1>2, <1>3, <3>2 DEF WellLinked
      <4>2. next'[n] = first
        BY <1>1, <3>2 DEF PushInFront, TypeOK
      <4>3. chain'[1 + 1] = chain[1]
        BY <1>2, <4>1
      <4> QED
        BY <4>1, <4>2, <4>3
    <3> QED
      BY <3>1, <3>2
  <2>4. \A i \in DOMAIN chain' \ {1} :
          next'[chain'[i]] = IF i = Len(chain') THEN Null ELSE chain'[i + 1]
    <3> SUFFICES ASSUME NEW i \in DOMAIN chain' \ {1}
                 PROVE  next'[chain'[i]] = IF i = Len(chain') THEN Null ELSE chain'[i + 1]
      OBVIOUS
    <3>1. i - 1 \in DOMAIN chain /\ chain'[i] = chain[i - 1]
      BY <1>4
    <3>2. next'[chain'[i]] = IF i - 1 = Len(chain) THEN Null ELSE chain[i]
      <4>1. next[chain[i - 1]] = IF i - 1 = Len(chain) THEN Null ELSE chain[(i - 1) + 1]
        BY <3>1 DEF WellLinked
      <4>2. (i - 1) + 1 = i
        BY <1>2
      <4> QED
        BY <2>2, <3>1, <4>1, <4>2
    <3>3. CASE i - 1 = Len(chain)
      BY <1>2, <3>2, <3>3
    <3>4. CASE i - 1 # Len(chain)
      BY <1>2, <3>2, <3>4
    <3> QED
      BY <3>3, <3>4
  <2>5. first' = chain'[1]
    BY <1>2 DEF PushInFront
  <2>6. size' = Len(chain') /\ last' = chain'[Len(chain')]
    <3>1. CASE size = 0
      BY <1>2, <1>3, <3>1 DEF PushInFront, Inserted
    <3>2. CASE size # 0
      <4>1. last' = chain[Len(chain)] /\ Len(chain) \in DOMAIN chain
        BY <1>2, <1>3, <3>2 DEF PushInFront
      <4> QED
        BY <1>2, <1>3, <4>1 DEF PushInFront, Inserted
    <3> QED
      BY <3>1, <3>2
  <2>7. 1 \in DOMAIN chain'
    BY <1>2
  <2> QED
    BY <1>2, <2>1, <2>3, <2>4, <2>5, <2>6, <2>7 DEF WellLinked
<1>7. OneHolder'
  <2>1. node' = [node EXCEPT ![t] = Null] /\ allocated' = allocated
    BY DEF PushInFront, Inserted
  <2>2. \A m \in Nodes : (\E i \in DOMAIN chain' : chain'[i] = m) <=>
                         (m = n \/ \E i \in DOMAIN chain : chain[i] = m)
    BY <1>2, <1>4
  <2>3. \A m \in Nodes : (\E u \in Threads : node'[u] = m) <=>
                         (m # n /\ \E u \in Threads : node[u] = m)
    BY <1>1, <2>1 DEF OneHolder, TypeOK
  <2>4. \A u \in Threads, i \in DOMAIN chain' : node'[u] # chain'[i]
    BY <1>1, <1>2, <1>4, <2>1 DEF OneHolder, TypeOK
  <2>5. n \in allocated
    BY <1>1 DEF OneHolder
  <2> QED
    BY <2>1, <2>2, <2>3, <2>4, <2>5 DEF OneHolder, TypeOK
<1>8. PlaceInv'
  <2>1. \A u \in Threads \ {t} :
          /\ pc'[u] = pc[u] /\ node'[u] = node[u]
          /\ pc[u] \in {"push", "pushInFront"} => next'[node[u]] = next[node[u]]
    <3>1. \A u \in Threads \ {t} : node[u] # n
      BY <1>1 DEF OneHolder
    <3> QED
      BY <3>1 DEF PushInFront, Inserted, Goto, TypeOK, PlaceInv
  <2>2. pc'[t] = "idle" /\ node'[t] = Null
    BY DEF PushInFront, Inserted, Goto, TypeOK
  <2>3. mutex' = mutex /\ ~frozen' /\ mutex # t
    BY DEF PushInFront
  <2> QED
    BY <2>1, <2>2, <2>3 DEF PlaceInv
<1> QED
  BY <1>5, <1>6, <1>7, <1>8

\* The head of the list is taken off, by a pop or by destruction.
LEMMA TailLinked ==
  ASSUME TypeOK, WellLinked, first # Null,
         first' = next[first], chain' = Tail(chain), UNCHANGED <<next, last>>
  PROVE  /\ chain' \in Seq(Nodes)
         /\ first \in Nodes /\ first = chain[1] /\ chain # << >> /\ first' \in Nodes \cup {Null}
         /\ \A i \in DOMAIN chain' : i + 1 \in DOMAIN chain /\ chain'[i] = chain[i + 1]
                                     /\ chain'[i] # first
         /\ \A m \in Nodes : (\E i \in DOMAIN chain : chain[i] = m) <=>
                             (m = first \/ \E i \in DOMAIN chain' : chain'[i] = m)
         /\ Len(chain') = Len(chain) - 1
         /\ \A i, j \in DOMAIN chain' : chain'[i] = chain'[j] => i = j
         /\ \A i \in DOMAIN chain' :
              next'[chain'[i]] = IF i = Len(chain') THEN Null ELSE chain'[i + 1]
         /\ first' = IF chain' = << >> THEN Null ELSE chain'[1]
         /\ last = chain[Len(chain)] /\ chain' # << >> => last = chain'[Len(chain')]
<1>1. chain # << >> /\ first = chain[1] /\ first \in Nodes
  BY DEF WellLinked, TypeOK
<1>2. /\ chain' \in Seq(Nodes) /\ Len(chain') = Len(chain) - 1
      /\ DOMAIN chain' = 1..(Len(chain) - 1) /\ DOMAIN chain = 1..Len(chain)
      /\ Len(chain) \in Nat \ {0}
      /\ \A i \in 1..(Len(chain) - 1) : chain'[i] = chain[i + 1]
      /\ chain' = << >> <=> Len(chain) = 1
  BY <1>1, TailFacts DEF TypeOK
<1>3. \A i \in DOMAIN chain' : i + 1 \in DOMAIN chain /\ i + 1 # 1 /\ i \in Nat
  BY <1>2
<1>4. \A i \in DOMAIN chain' : chain'[i] # first
  BY <1>1, <1>2, <1>3 DEF WellLinked
<1>5. \A i, j \in DOMAIN chain' : chain'[i] = chain'[j] => i = j
  <2> SUFFICES ASSUME NEW i \in DOMAIN chain', NEW j \in DOMAIN chain',
                      chain'[i] = chain'[j]
               PROVE  i = j
    OBVIOUS
  <2>1. i + 1 = j + 1
    BY <1>2, <1>3 DEF WellLinked
  <2> QED
    BY <1>3, <2>1
<1>6. ASSUME NEW i \in DOMAIN chain'
      PROVE  next'[chain'[i]] = IF i = Len(chain') THEN Null ELSE chain'[i + 1]
  <2>1. next[chain[i + 1]] = IF i + 1 = Len(chain) THEN Null ELSE chain[(i + 1) + 1]
    BY <1>3 DEF WellLinked
  <2>2. CASE i + 1 = Len(chain)
    BY <1>2, <1>3, <2>1, <2>2
  <2>3. CASE i + 1 # Len(chain)
    <3>1. i + 1 \in 1..(Len(chain) - 1) /\ i # Len(chain')
      BY <1>2, <1>3, <2>3
    <3>2. chain'[i + 1] = chain[(i + 1) + 1]
      BY <1>2, <3>1
    <3> QED
      BY <1>2, <2>1, <2>3, <3>1, <3>2
  <2> QED
    BY <2>2, <2>3
<1>7. first' = IF chain' = << >> THEN Null ELSE chain'[1]
  <2>1. next[chain[1]] = IF 1 = Len(chain) THEN Null ELSE chain[1 + 1]
    BY <1>2 DEF WellLinked
  <2> QED
    BY <1>1, <1>2, <2>1
<1>8. ASSUME NEW m \in Nodes
      PROVE  (\E i \in DOMAIN chain : chain[i] = m) <=>
             (m = first \/ \E i \in DOMAIN chain' : chain'[i] = m)
  <2>1. \A i \in DOMAIN chain : i # 1 => i - 1 \in DOMAIN chain' /\ chain'[i - 1] = chain[i]
    BY <1>2
  <2>2. ASSUME m = first \/ \E i \in DOMAIN chain' : chain'[i] = m
        PROVE  \E i \in DOMAIN chain : chain[i] = m
    <3>1. CASE m = first
      BY <1>1, <1>2, <3>1
    <3>2. CASE \E i \in DOMAIN chain' : chain'[i] = m
      BY <1>2, <1>3, <3>2
    <3> QED
      BY <2>2, <3>1, <3>2
  <2>3. ASSUME NEW i \in DOMAIN chain, chain[i] = m
        PROVE  m = first \/ \E j \in DOMAIN chain' : chain'[j] = m
    BY <1>1, <2>1, <2>3
  <2> QED
    BY <2>2, <2>3
<1>9. last = chain[Len(chain)] /\ chain' # << >> => last = chain'[Len(chain')]
  BY <1>2
<1>10. first' \in Nodes \cup {Null}
  BY <1>1 DEF TypeOK
<1> QED
  BY <1>1, <1>2, <1>3, <1>4, <1>5, <1>6, <1>7, <1>8, <1>9, <1>10

LEMMA PopIInv ==
  ASSUME IInv, NEW t \in Threads, Pop(t)
  PROVE  IInv'
<1> USE DEF IInv
<1>1. /\ size = Len(chain) /\ Len(chain) > 0
      /\ chain # << >> => last = chain[Len(chain)]
      /\ Len(chain) \in Nat
  BY EmptyFacts DEF Pop, WellLinked, TypeOK
<1>2. chain # << >> /\ first = chain[1] /\ first # Null
  BY <1>1, EmptyFacts DEF WellLinked, TypeOK
<1>3. /\ chain' \in Seq(Nodes)
      /\ first \in Nodes /\ first = chain[1] /\ first' \in Nodes \cup {Null}
      /\ \A i \in DOMAIN chain' : i + 1 \in DOMAIN chain /\ chain'[i] = chain[i + 1]
                                  /\ chain'[i] # first
      /\ \A m \in Nodes : (\E i \in DOMAIN chain : chain[i] = m) <=>
                          (m = first \/ \E i \in DOMAIN chain' : chain'[i] = m)
      /\ Len(chain') = Len(chain) - 1
      /\ \A i, j \in DOMAIN chain' : chain'[i] = chain'[j] => i = j
      /\ \A i \in DOMAIN chain' :
           next'[chain'[i]] = IF i = Len(chain') THEN Null ELSE chain'[i + 1]
      /\ first' = IF chain' = << >> THEN Null ELSE chain'[1]
      /\ last = chain[Len(chain)] /\ chain' # << >> => last = chain'[Len(chain')]
  BY <1>2, TailLinked DEF Pop
<1>4. node[t] = Null /\ mutex # t /\ node' = [node EXCEPT ![t] = first]
  BY DEF Pop, PlaceInv
<1>5. \A u \in Threads : node[u] # first
  BY <1>3, EmptyFacts DEF OneHolder, TypeOK
<1>6. TypeOK'
  BY <1>1, <1>3 DEF Pop, Goto, TypeOK
<1>7. WellLinked'
  <2>1. size' = Len(chain') /\ (chain' # << >> => last' = chain'[Len(chain')])
    BY <1>1, <1>2, <1>3 DEF Pop
  <2> QED
    BY <1>3, <2>1 DEF WellLinked
<1>8. OneHolder'
  <2>1. \A m \in Nodes : (\E u \in Threads : node'[u] = m) <=>
                         (m = first \/ \E u \in Threads : node[u] = m)
    BY <1>3, <1>4 DEF TypeOK
  <2>2. \A u \in Threads, i \in DOMAIN chain' : node'[u] # chain'[i]
    BY <1>3, <1>4 DEF OneHolder, TypeOK
  <2>3. \A u, w \in Threads : node'[u] = node'[w] => u = w \/ node'[u] = Null
    BY <1>4, <1>5 DEF OneHolder, TypeOK
  <2>4. allocated' = allocated
    BY DEF Pop
  <2> QED
    BY <1>3, <2>1, <2>2, <2>3, <2>4 DEF OneHolder
<1>9. PlaceInv'
  <2>1. first # Null /\ pc'[t] = "free" /\ node'[t] = first
    BY <1>2, <1>4 DEF Pop, Goto, TypeOK
  <2>2. \A u \in Threads \ {t} : pc'[u] = pc[u] /\ node'[u] = node[u]
    BY DEF Pop, Goto, TypeOK
  <2>3. mutex' = mutex /\ next' = next /\ ~frozen'
    BY DEF Pop
  <2> QED
    BY <1>4, <2>1, <2>2, <2>3 DEF PlaceInv
<1> QED
  BY <1>6, <1>7, <1>8, <1>9

LEMMA DestroyNodeIInv ==
  ASSUME IInv, NEW t \in Threads, DestroyNode(t)
  PROVE  IInv'
<1> USE DEF IInv
<1>1. mutex = t /\ mutex # Free /\ ~frozen
  BY DEF DestroyNode, PlaceInv
<1>2. /\ chain' \in Seq(Nodes)
      /\ first \in Nodes /\ first = chain[1] /\ first' \in Nodes \cup {Null}
      /\ \A i \in DOMAIN chain' : i + 1 \in DOMAIN chain /\ chain'[i] = chain[i + 1]
                                  /\ chain'[i] # first
      /\ \A m \in Nodes : (\E i \in DOMAIN chain : chain[i] = m) <=>
                          (m = first \/ \E i \in DOMAIN chain' : chain'[i] = m)
      /\ Len(chain') = Len(chain) - 1
      /\ \A i, j \in DOMAIN chain' : chain'[i] = chain'[j] => i = j
      /\ \A i \in DOMAIN chain' :
           next'[chain'[i]] = IF i = Len(chain') THEN Null ELSE chain'[i + 1]
      /\ first' = IF chain' = << >> THEN Null ELSE chain'[1]
  BY TailLinked DEF DestroyNode
<1>3. \A u \in Threads : node[u] # first
  BY <1>2, EmptyFacts DEF OneHolder, TypeOK
<1>4. TypeOK'
  BY <1>2 DEF DestroyNode, TypeOK
<1>5. WellLinked'
  BY <1>1, <1>2 DEF DestroyNode, WellLinked
<1>6. OneHolder'
  <2>1. allocated' = allocated \ {first} /\ node' = node
    BY DEF DestroyNode
  <2>2. \A i \in DOMAIN chain' : chain'[i] # first
    BY <1>2
  <2>3. \A m \in Nodes : m \in allocated' <=>
          (\E i \in DOMAIN chain' : chain'[i] = m) \/ (\E u \in Threads : node'[u] = m)
    BY <1>2, <1>3, <2>1, <2>2 DEF OneHolder
  <2>4. \A u \in Threads, i \in DOMAIN chain' : node'[u] # chain'[i]
    BY <1>2, <2>1 DEF OneHolder
  <2> QED
    BY <2>1, <2>3, <2>4 DEF OneHolder
<1>7. PlaceInv'
  BY <1>1 DEF DestroyNode, PlaceInv
<1> QED
  BY <1>4, <1>5, <1>6, <1>7

LEMMA FreeNodeIInv ==
  ASSUME IInv, NEW t \in Threads, FreeNode(t)
  PROVE  IInv'
<1> USE DEF IInv
<1>1. /\ node' = [node EXCEPT ![t] = Null] /\ pc' = [pc EXCEPT ![t] = "idle"]
      /\ allocated' = allocated \ {node[t]} /\ UNCHANGED chain /\ UNCHANGED mutex
      /\ UNCHANGED listVars
  BY DEF FreeNode, Goto
<1>2. node[t] \in Nodes /\ mutex # t
  BY DEF FreeNode, PlaceInv, TypeOK
<1>3. TypeOK'
  BY <1>1 DEF FreeNode, TypeOK, listVars
<1>4. WellLinked'
  BY <1>1 DEF WellLinked, listVars
<1>5. OneHolder'
  <2>1. \A m \in Nodes : (\E u \in Threads : node'[u] = m) <=>
                         (m # node[t] /\ \E u \in Threads : node[u] = m)
    BY <1>1, <1>2 DEF OneHolder, TypeOK
  <2>2. \A u \in Threads, i \in DOMAIN chain : node'[u] # chain[i]
    BY <1>1, EmptyFacts DEF OneHolder, TypeOK
  <2>3. \A u, w \in Threads : node'[u] = node'[w] => u = w \/ node'[u] = Null
    BY <1>1 DEF OneHolder, TypeOK
  <2> QED
    BY <1>1, <2>1, <2>2, <2>3 DEF OneHolder
<1>6. PlaceInv'
  BY <1>1, <1>2 DEF PlaceInv, TypeOK, listVars
<1> QED
  BY <1>3, <1>4, <1>5, <1>6

LEMMA EndDestroyIInv ==
  ASSUME IInv, NEW t \in Threads, EndDestroy(t)
  PROVE  IInv'
<1> USE DEF IInv
<1>1. chain = << >>
  <2>1. chain # << >> => first \in Nodes
    BY EmptyFacts DEF WellLinked, TypeOK
  <2> QED
    BY <2>1 DEF EndDestroy
<1>2. TypeOK'
  BY DEF EndDestroy, Goto, TypeOK
<1>3. WellLinked'
  BY DEF EndDestroy, WellLinked
<1>4. OneHolder'
  BY DEF EndDestroy, OneHolder
<1>5. PlaceInv'
  BY <1>1 DEF EndDestroy, Goto, PlaceInv, TypeOK
<1> QED
  BY <1>2, <1>3, <1>4, <1>5

LEMMA StepIInv == IInv /\ [Next]_vars => IInv'
<1> SUFFICES ASSUME IInv, [Next]_vars PROVE IInv'
  OBVIOUS
<1>1. CASE UNCHANGED vars
  BY <1>1 DEF IInv, TypeOK, WellLinked, OneHolder, PlaceInv, vars, listVars
<1>2. ASSUME NEW t \in Threads, Refuse(t) PROVE IInv'
  BY <1>2 DEF Refuse, Goto, listVars, IInv, TypeOK, WellLinked, OneHolder, PlaceInv
<1>3. ASSUME NEW t \in Threads, PopNothing(t) PROVE IInv'
  BY <1>3 DEF PopNothing, listVars, IInv, TypeOK, WellLinked, OneHolder, PlaceInv
<1>4. ASSUME NEW t \in Threads, BeginDestroy(t) PROVE IInv'
  BY <1>4 DEF BeginDestroy, Goto, listVars, IInv, TypeOK, WellLinked, OneHolder, PlaceInv
<1> QED
  BY <1>1, <1>2, <1>3, <1>4, AllocateIInv, PushIInv, PushInFrontIInv, PopIInv,
     FreeNodeIInv, DestroyNodeIInv, EndDestroyIInv DEF Next, Step

LEMMA InvariantHolds == Spec => []IInv
<1> QED
  BY InitIInv, StepIInv, PTL DEF Spec

-----------------------------------------------------------------------------
\* Type correctness: the fields of ts_queue_t and of every node keep their
\* ranges whatever the threads that call the queue's operations.
THEOREM TypeCorrect == Spec => []TypeOK
<1>1. IInv => TypeOK
  BY DEF IInv
<1> QED
  BY <1>1, InvariantHolds, PTL

\* The links of ts_queue.c are right whenever the mutex is free: the dangling
\* last that ts_queue_pop leaves behind is never followed.
THEOREM LinkedCorrect == Spec => []WellLinked
<1>1. IInv => WellLinked
  BY DEF IInv
<1> QED
  BY <1>1, InvariantHolds, PTL

\* No node of ts_queue.c leaks, is freed while in use or is in two places,
\* although nodes are allocated and freed outside the mutex.
THEOREM OneHolderCorrect == Spec => []OneHolder
<1>1. IInv => OneHolder
  BY DEF IInv
<1> QED
  BY <1>1, InvariantHolds, PTL

-----------------------------------------------------------------------------
(* The refinement: the values along the list are the abstract queue. *)

LEMMA ValuesFacts ==
  ASSUME NEW c \in Seq(Nodes), NEW f \in [Nodes -> Vals],
         NEW q, q = [i \in DOMAIN c |-> f[c[i]]]
  PROVE  /\ q \in Seq(Vals) /\ Len(q) = Len(c) /\ Len(c) \in Nat
         /\ \A i \in 1..Len(c) : q[i] = f[c[i]]
         /\ q = << >> <=> c = << >>
<1>1. DOMAIN c = 1..Len(c) /\ Len(c) \in Nat
  BY EmptyFacts
<1>2. \A i \in 1..Len(c) : c[i] \in Nodes /\ f[c[i]] \in Vals
  BY <1>1, EmptyFacts
<1>3. q = [i \in 1..Len(c) |-> f[c[i]]]
  BY <1>1
<1>4. q \in Seq(Vals) /\ Len(q) = Len(c)
  BY <1>1, <1>2, <1>3
<1>5. q = << >> <=> c = << >>
  BY <1>4, EmptyFacts
<1> QED
  BY <1>1, <1>2, <1>3, <1>4, <1>5

LEMMA QueueFacts ==
  ASSUME TypeOK
  PROVE  /\ Queue \in Seq(Vals) /\ Len(Queue) = Len(chain) /\ Len(chain) \in Nat
         /\ \A i \in 1..Len(chain) : Queue[i] = val[chain[i]]
         /\ Queue = << >> <=> chain = << >>
<1>1. chain \in Seq(Nodes) /\ val \in [Nodes -> Vals]
  BY DEF TypeOK
<1>2. Queue = [i \in DOMAIN chain |-> val[chain[i]]]
  BY DEF Queue
<1> HIDE DEF Queue
<1> QED
  BY <1>1, <1>2, ValuesFacts

LEMMA NextQueueFacts ==
  ASSUME TypeOK'
  PROVE  /\ Queue' \in Seq(Vals) /\ Len(Queue') = Len(chain')
         /\ \A i \in 1..Len(chain') : Queue'[i] = val'[chain'[i]]
<1>1. chain' \in Seq(Nodes) /\ val' \in [Nodes -> Vals]
  BY DEF TypeOK
<1>2. Queue' = [i \in DOMAIN chain' |-> val'[chain'[i]]]
  BY DEF Queue
<1> HIDE DEF Queue
<1> QED
  BY <1>1, <1>2, ValuesFacts

LEMMA InitAbstract == Init => Abstract!Init
<1> SUFFICES ASSUME Init PROVE Abstract!Init
  OBVIOUS
<1>1. TypeOK /\ chain = << >>
  BY InitIInv DEF Init, IInv
<1>2. Queue = << >>
  BY <1>1, QueueFacts
<1> QED
  BY <1>2 DEF Init, Phase, Abstract!Init

LEMMA PushAbstract ==
  ASSUME IInv, IInv', NEW t \in Threads, Push(t)
  PROVE  Abstract!Push(val[node[t]]) /\ val[node[t]] \in Vals
<1> DEFINE n == node[t]
<1>1. n \in Nodes /\ val' = val /\ val[n] \in Vals
  BY DEF Push, IInv, PlaceInv, TypeOK
<1>2. Queue' = Append(Queue, val[n])
  <2>1. /\ Queue \in Seq(Vals) /\ Len(Queue) = Len(chain) /\ Len(chain) \in Nat
        /\ \A i \in 1..Len(chain) : Queue[i] = val[chain[i]]
    BY QueueFacts DEF IInv
  <2>2. /\ Queue' \in Seq(Vals) /\ Len(Queue') = Len(chain')
        /\ \A i \in 1..Len(chain') : Queue'[i] = val[chain'[i]]
    BY <1>1, NextQueueFacts DEF IInv
  <2>3. /\ Len(chain') = Len(chain) + 1 /\ DOMAIN chain = 1..Len(chain)
        /\ \A i \in DOMAIN chain : chain'[i] = chain[i]
        /\ chain'[Len(chain) + 1] = n
    BY <1>1, AppendFacts DEF Push, IInv, TypeOK
  <2>4. /\ Append(Queue, val[n]) \in Seq(Vals)
        /\ Len(Append(Queue, val[n])) = Len(chain) + 1
        /\ \A i \in 1..Len(chain) : Append(Queue, val[n])[i] = Queue[i]
        /\ Append(Queue, val[n])[Len(chain) + 1] = val[n]
    BY <1>1, <2>1, AppendFacts
  <2> HIDE DEF n
  <2>5. \A i \in 1..Len(Queue') : Queue'[i] = Append(Queue, val[n])[i]
    <3> SUFFICES ASSUME NEW i \in 1..Len(Queue')
                 PROVE  Queue'[i] = Append(Queue, val[n])[i]
      OBVIOUS
    <3>1. CASE i = Len(chain) + 1
      BY <2>2, <2>3, <2>4, <3>1
    <3>2. CASE i \in 1..Len(chain)
      BY <2>1, <2>2, <2>3, <2>4, <3>2
    <3> QED
      BY <2>1, <2>2, <2>3, <3>1, <3>2
  <2> QED
    BY <2>2, <2>3, <2>4, <2>5, SeqEqual
<1>3. Phase = "open" /\ Phase' = "open" /\ taken' = taken
  BY DEF Push, Phase
<1> QED
  BY <1>1, <1>2, <1>3 DEF Abstract!Push

LEMMA PushInFrontAbstract ==
  ASSUME IInv, IInv', NEW t \in Threads, PushInFront(t)
  PROVE  Abstract!PushInFront(val[node[t]]) /\ val[node[t]] \in Vals
<1> DEFINE n == node[t]
<1>1. n \in Nodes /\ val' = val /\ val[n] \in Vals
  BY DEF PushInFront, IInv, PlaceInv, TypeOK
<1>2. Queue' = <<val[n]>> \o Queue
  <2>1. /\ Queue \in Seq(Vals) /\ Len(Queue) = Len(chain) /\ Len(chain) \in Nat
        /\ \A i \in 1..Len(chain) : Queue[i] = val[chain[i]]
    BY QueueFacts DEF IInv
  <2>2. /\ Queue' \in Seq(Vals) /\ Len(Queue') = Len(chain')
        /\ \A i \in 1..Len(chain') : Queue'[i] = val[chain'[i]]
    BY <1>1, NextQueueFacts DEF IInv
  <2>3. /\ Len(chain') = Len(chain) + 1 /\ DOMAIN chain = 1..Len(chain)
        /\ \A i \in DOMAIN chain : chain'[i + 1] = chain[i]
        /\ chain'[1] = n
    BY <1>1, ConsFacts DEF PushInFront, IInv, TypeOK
  <2>4. /\ <<val[n]>> \o Queue \in Seq(Vals)
        /\ Len(<<val[n]>> \o Queue) = Len(chain) + 1
        /\ \A i \in 1..Len(chain) : (<<val[n]>> \o Queue)[i + 1] = Queue[i]
        /\ (<<val[n]>> \o Queue)[1] = val[n]
    BY <1>1, <2>1, ConsFacts
  <2> HIDE DEF n
  <2>5. \A i \in 1..Len(Queue') : Queue'[i] = (<<val[n]>> \o Queue)[i]
    <3> SUFFICES ASSUME NEW i \in 1..Len(Queue')
                 PROVE  Queue'[i] = (<<val[n]>> \o Queue)[i]
      OBVIOUS
    <3>1. CASE i = 1
      BY <2>2, <2>3, <2>4, <3>1
    <3>2. CASE i # 1
      <4>1. PICK j \in 1..Len(chain) : i = j + 1
        <5>1. i - 1 \in 1..Len(chain) /\ i = (i - 1) + 1
          BY <2>1, <2>2, <2>3, <3>2
        <5> QED
          BY <5>1
      <4>2. j + 1 \in 1..Len(chain') /\ j \in DOMAIN chain
        BY <2>1, <2>3, <4>1
      <4>3. chain'[j + 1] = chain[j] /\ Queue'[j + 1] = val[chain'[j + 1]]
        BY <2>2, <2>3, <4>2
      <4>4. (<<val[n]>> \o Queue)[j + 1] = val[chain[j]]
        BY <2>1, <2>4, <4>1
      <4> QED
        BY <4>1, <4>3, <4>4
    <3> QED
      BY <3>1, <3>2
  <2> QED
    BY <2>2, <2>3, <2>4, <2>5, SeqEqual
<1>3. Phase = "open" /\ Phase' = "open" /\ taken' = taken
  BY DEF PushInFront, Phase
<1> QED
  BY <1>1, <1>2, <1>3 DEF Abstract!PushInFront

\* Taking the first node off takes the first value off.
LEMMA TailAbstract ==
  ASSUME IInv, IInv', chain # << >>, chain' = Tail(chain), val' = val
  PROVE  Queue # << >> /\ Queue' = Tail(Queue) /\ Head(Queue) = val[chain[1]]
<1>1. /\ Queue \in Seq(Vals) /\ Len(Queue) = Len(chain) /\ Queue # << >>
      /\ \A i \in 1..Len(chain) : Queue[i] = val[chain[i]]
  BY QueueFacts DEF IInv
<1>2. /\ Queue' \in Seq(Vals) /\ Len(Queue') = Len(chain')
      /\ \A i \in 1..Len(chain') : Queue'[i] = val[chain'[i]]
  BY NextQueueFacts DEF IInv
<1>3. /\ Len(chain') = Len(chain) - 1 /\ Len(chain) \in Nat \ {0}
      /\ \A i \in 1..(Len(chain) - 1) : chain'[i] = chain[i + 1]
  BY TailFacts DEF IInv, TypeOK
<1>4. /\ Tail(Queue) \in Seq(Vals) /\ Len(Tail(Queue)) = Len(chain) - 1
      /\ \A i \in 1..(Len(chain) - 1) : Tail(Queue)[i] = Queue[i + 1]
      /\ Head(Queue) = Queue[1]
  BY <1>1, TailFacts
<1>5. \A i \in 1..Len(Queue') : Queue'[i] = Tail(Queue)[i]
  <2> SUFFICES ASSUME NEW i \in 1..(Len(chain) - 1)
               PROVE  Queue'[i] = Tail(Queue)[i]
    BY <1>2, <1>3
  <2>1. i + 1 \in 1..Len(chain)
    BY <1>3
  <2> QED
    BY <1>1, <1>2, <1>3, <1>4, <2>1
<1>6. Queue' = Tail(Queue)
  BY <1>2, <1>3, <1>4, <1>5, SeqEqual
<1> QED
  BY <1>1, <1>3, <1>4, <1>6

LEMMA StepAbstract == IInv /\ IInv' /\ [Next]_vars => [Abstract!Next]_<<Queue, Phase, taken>>
<1> SUFFICES ASSUME IInv, IInv', [Next]_vars
             PROVE  Abstract!Next \/ UNCHANGED <<Queue, Phase, taken>>
  OBVIOUS
<1>1. CASE UNCHANGED vars
  BY <1>1 DEF vars, listVars, Queue, Phase
<1>2. ASSUME NEW t \in Threads, Allocate(t) PROVE UNCHANGED <<Queue, Phase, taken>>
  <2>1. PICK n \in Nodes \ allocated, v \in Vals : val' = [val EXCEPT ![n] = v]
    BY <1>2 DEF Allocate
  <2>2. \A i \in DOMAIN chain : chain[i] # n /\ chain[i] \in Nodes
    BY EmptyFacts DEF IInv, OneHolder, TypeOK
  <2>3. chain' = chain /\ \A i \in DOMAIN chain : val'[chain[i]] = val[chain[i]]
    BY <1>2, <2>1, <2>2 DEF Allocate, IInv, TypeOK
  <2> QED
    BY <1>2, <2>3 DEF Allocate, Queue, Phase
<1>3. ASSUME NEW t \in Threads, Push(t) PROVE Abstract!Next
  BY <1>3, PushAbstract DEF Abstract!Next
<1>4. ASSUME NEW t \in Threads, PushInFront(t) PROVE Abstract!Next
  BY <1>4, PushInFrontAbstract DEF Abstract!Next
<1>5. ASSUME NEW t \in Threads, Refuse(t) PROVE UNCHANGED <<Queue, Phase, taken>>
  BY <1>5 DEF Refuse, listVars, Queue, Phase
<1>6. ASSUME NEW t \in Threads, Pop(t) PROVE Abstract!Pop(t)
  <2>1. chain # << >> /\ first = chain[1]
    BY <1>6, EmptyFacts DEF Pop, IInv, WellLinked, TypeOK
  <2>2. Queue # << >> /\ Queue' = Tail(Queue) /\ Head(Queue) = val[first]
    BY <1>6, <2>1, TailAbstract DEF Pop
  <2>3. Phase = "open" /\ Phase' = "open" /\ taken' = [taken EXCEPT ![t] = val[first]]
    BY <1>6 DEF Pop, Phase
  <2> QED
    BY <2>2, <2>3 DEF Abstract!Pop
<1>7. ASSUME NEW t \in Threads, PopNothing(t) PROVE Abstract!PopNothing(t)
  <2>1. UNCHANGED <<Queue, Phase>> /\ taken' = [taken EXCEPT ![t] = Nothing]
    BY <1>7 DEF PopNothing, listVars, Queue, Phase
  <2>2. Phase = "closed" \/ (Phase = "open" /\ Queue = << >>)
    BY <1>7, QueueFacts, EmptyFacts DEF PopNothing, Phase, IInv, WellLinked, TypeOK
  <2> QED
    BY <2>1, <2>2 DEF Abstract!PopNothing
<1>8. ASSUME NEW t \in Threads, FreeNode(t) PROVE UNCHANGED <<Queue, Phase, taken>>
  BY <1>8 DEF FreeNode, listVars, Queue, Phase
<1>9. ASSUME NEW t \in Threads, BeginDestroy(t) PROVE Abstract!Close
  <2>1. Phase = "open" /\ Phase' = "closing" /\ UNCHANGED <<Queue, taken>>
    BY <1>9 DEF BeginDestroy, listVars, Queue, Phase
  <2> QED
    BY <2>1 DEF Abstract!Close
<1>10. ASSUME NEW t \in Threads, DestroyNode(t) PROVE Abstract!Discard
  <2>1. chain # << >>
    BY <1>10 DEF DestroyNode, IInv, WellLinked
  <2>2. Queue # << >> /\ Queue' = Tail(Queue)
    BY <1>10, <2>1, TailAbstract DEF DestroyNode
  <2>3. Phase = "closing" /\ UNCHANGED <<Phase, taken>>
    BY <1>10 DEF DestroyNode, Phase, IInv, PlaceInv
  <2> QED
    BY <2>2, <2>3 DEF Abstract!Discard
<1>11. ASSUME NEW t \in Threads, EndDestroy(t) PROVE Abstract!EndClose
  <2>1. chain' = << >> /\ chain' = chain
    BY <1>11 DEF EndDestroy, IInv, PlaceInv
  <2>2. Queue = << >> /\ UNCHANGED <<Queue, taken>>
    BY <1>11, <2>1, QueueFacts DEF EndDestroy, Queue, IInv
  <2>3. Phase = "closing" /\ Phase' = "closed"
    BY <1>11 DEF EndDestroy, Phase, IInv, PlaceInv
  <2> QED
    BY <2>2, <2>3 DEF Abstract!EndClose
<1> QED
  BY <1>1, <1>2, <1>3, <1>4, <1>5, <1>6, <1>7, <1>8, <1>9, <1>10, <1>11
     DEF Next, Step, Abstract!Next

\* The linked list of ts_queue.c implements the first-in first-out queue with
\* urgent entries, under any interleaving of its critical sections and of the
\* allocations and releases of memory around them.
THEOREM Refinement == Spec => Implements
<1>1. Spec => Abstract!Init /\ [][Abstract!Next]_<<Queue, Phase, taken>>
  BY InitAbstract, StepAbstract, InvariantHolds, PTL DEF Spec
<1> QED
  BY <1>1 DEF Implements, Abstract!Spec, Abstract!vars

=============================================================================
