---------------------------- MODULE FramingProofs ----------------------------
(***************************************************************************)
(* Framing delivers messages, for connections of any number and length,    *)
(* messages and packages of any size, and numbers of any width.            *)
(*                                                                         *)
(* First, what the codec computes: packing lays the tokens out one behind  *)
(* the other, and unpacking finds them again.  Then the inductive          *)
(* invariant: every stream is a row of packages of the size they announce, *)
(* and buffers and counters agree with what was read of the next one.      *)
(* Last, the refinement of MessageChannel.                                 *)
(***************************************************************************)
EXTENDS Framing, SequenceTheorems, NaturalsInduction, WellFoundedInduction, TLAPS

-----------------------------------------------------------------------------
(* The codec. *)

\* A set with 0 and with the successors of its members has all numbers.
LEMMA Induction ==
  ASSUME NEW S, 0 \in S, \A n \in Nat : n \in S => n + 1 \in S
  PROVE  \A n \in Nat : n \in S
<1> SUFFICES ASSUME NEW n \in Nat, n \notin S PROVE FALSE
  OBVIOUS
<1> DEFINE Bad == {j \in Nat : j \notin S}
<1>1. PICK k \in Bad : \A j \in Bad : <<j, k>> \notin OpToRel(<, Nat)
  <2>1. Bad \subseteq Nat /\ Bad # {}
    OBVIOUS
  <2> QED
    BY <2>1, WFMin, NatLessThanWellFounded, Zenon
<1>2. \A j \in Bad : ~(j < k)
  BY <1>1, Zenon DEF OpToRel
<1>3. k \in Nat /\ k # 0 /\ k - 1 \notin Bad
  BY <1>2
<1> QED
  BY <1>3

\* FlattenSeq builds its result one sequence after the other.
Flattened(segs, f, i) == IF i = 1 THEN segs[i] ELSE f[i-1] \o segs[i]

LEMMA FlattenFunction ==
  ASSUME NEW segs
  PROVE  \A k \in Nat : \E f : f = [i \in 1..k |-> Flattened(segs, f, i)]
<1> DEFINE Built(k, f) == f = [i \in 1..k |-> Flattened(segs, f, i)]
           S == {k \in Nat : \E f : Built(k, f)}
<1>1. 0 \in S
  <2> DEFINE e == [i \in 1..0 |-> << >>]
  <2>1. Built(0, e)
    OBVIOUS
  <2> HIDE DEF Built, e
  <2> QED
    BY <2>1
<1>2. ASSUME NEW k \in Nat, k \in S PROVE k + 1 \in S
  <2>1. PICK f : Built(k, f)
    BY <1>2
  <2> DEFINE g == [i \in 1..(k+1) |-> Flattened(segs, f, i)]
  <2>2. \A i \in 1..k : g[i] = f[i]
    <3>1. \A i \in 1..k : f[i] = Flattened(segs, f, i)
      BY <2>1, Zenon
    <3> QED
      BY <3>1
  <2> HIDE DEF g
  <2>3. \A i \in 1..(k+1) : Flattened(segs, g, i) = Flattened(segs, f, i)
    BY <2>2 DEF Flattened
  <2>4. Built(k + 1, g)
    BY <2>3 DEF g
  <2> HIDE DEF Built
  <2> QED
    BY <2>4
<1> HIDE DEF S
<1>3. \A k \in Nat : k \in S
  BY <1>1, <1>2, Induction
<1> QED
  BY <1>3 DEF S

\* The parts of Unpack: the tokens from iter on, and whether they end with the
\* body.
TokensFrom(cells, end, f, iter) ==
    IF iter = end \/ NextToken(cells, iter) > end THEN << >>
    ELSE << SubSeq(cells, iter + NumSize + 1, NextToken(cells, iter)) >>
         \o f[NextToken(cells, iter)]

FitsFrom(cells, end, f, iter) ==
    \/ iter = end
    \/ NextToken(cells, iter) <= end /\ f[NextToken(cells, iter)]

LEMMA NextTokenFacts ==
  ASSUME NEW cells \in Seq(Nat), NEW iter \in 0..Len(cells), iter # Len(cells)
  PROVE  NextToken(cells, iter) \in Nat /\ NextToken(cells, iter) > iter
<1>1. NumberAt(cells, iter + 1) \in Nat
  BY DEF NumberAt
<1> QED
  BY <1>1, NumSizeAssumption DEF NextToken

\* Both are well defined: the tokens are found from the end of the body on.
LEMMA TokensFunction ==
  ASSUME NEW cells \in Seq(Nat), NEW end, end = Len(cells)
  PROVE  \E f : f = [iter \in 0..end |-> TokensFrom(cells, end, f, iter)]
<1> DEFINE Built(k, f) == f = [iter \in (end - k)..end |-> TokensFrom(cells, end, f, iter)]
           S == {k \in Nat : k <= end => \E f : Built(k, f)}
<1>1. 0 \in S
  <2> DEFINE e == [iter \in end..end |-> << >>]
  <2>1. e = [iter \in (end - 0)..end |-> TokensFrom(cells, end, e, iter)]
    BY DEF TokensFrom
  <2>2. Built(0, e)
    BY <2>1
  <2> HIDE DEF Built, e
  <2> QED
    BY <2>2
<1>2. ASSUME NEW k \in Nat, k \in S PROVE k + 1 \in S
  <2> SUFFICES ASSUME k + 1 <= end PROVE \E f : Built(k + 1, f)
    OBVIOUS
  <2>1. PICK f : Built(k, f)
    BY <1>2
  <2> DEFINE g == [iter \in (end - (k + 1))..end |-> TokensFrom(cells, end, f, iter)]
  <2>2. \A iter \in (end - k)..end : g[iter] = f[iter]
    <3>1. \A iter \in (end - k)..end : f[iter] = TokensFrom(cells, end, f, iter)
      BY <2>1, Zenon
    <3> QED
      BY <3>1
  <2> HIDE DEF g
  <2>3. ASSUME NEW iter \in (end - (k + 1))..end
        PROVE  TokensFrom(cells, end, g, iter) = TokensFrom(cells, end, f, iter)
    <3>1. iter # end => NextToken(cells, iter) \in Nat /\ NextToken(cells, iter) > iter
      BY NextTokenFacts
    <3>2. CASE iter = end \/ NextToken(cells, iter) > end
      BY <3>2, Zenon DEF TokensFrom
    <3>3. CASE iter # end /\ NextToken(cells, iter) <= end
      <4>1. NextToken(cells, iter) \in (end - k)..end
        BY <3>1, <3>3
      <4>2. g[NextToken(cells, iter)] = f[NextToken(cells, iter)]
        BY <2>2, <4>1, Zenon
      <4> QED
        BY <4>2, Zenon DEF TokensFrom
    <3> QED
      BY <3>1, <3>2, <3>3
  <2>4. Built(k + 1, g)
    BY <2>3 DEF g
  <2> HIDE DEF Built
  <2> QED
    BY <2>4
<1> HIDE DEF S
<1>3. end \in S
  BY <1>1, <1>2, Induction, SMTT(40)
<1>4. PICK f : Built(end, f)
  BY <1>3 DEF S
<1>5. f = [iter \in 0..end |-> TokensFrom(cells, end, f, iter)]
  BY <1>4
<1> QED
  BY <1>5

LEMMA FitsFunction ==
  ASSUME NEW cells \in Seq(Nat), NEW end, end = Len(cells)
  PROVE  \E f : f = [iter \in 0..end |-> FitsFrom(cells, end, f, iter)]
<1> DEFINE Built(k, f) == f = [iter \in (end - k)..end |-> FitsFrom(cells, end, f, iter)]
           S == {k \in Nat : k <= end => \E f : Built(k, f)}
<1>1. 0 \in S
  <2> DEFINE e == [iter \in end..end |-> TRUE]
  <2>1. e = [iter \in (end - 0)..end |-> FitsFrom(cells, end, e, iter)]
    BY DEF FitsFrom
  <2>2. Built(0, e)
    BY <2>1
  <2> HIDE DEF Built, e
  <2> QED
    BY <2>2
<1>2. ASSUME NEW k \in Nat, k \in S PROVE k + 1 \in S
  <2> SUFFICES ASSUME k + 1 <= end PROVE \E f : Built(k + 1, f)
    OBVIOUS
  <2>1. PICK f : Built(k, f)
    BY <1>2
  <2> DEFINE g == [iter \in (end - (k + 1))..end |-> FitsFrom(cells, end, f, iter)]
  <2>2. \A iter \in (end - k)..end : g[iter] = f[iter]
    <3>1. \A iter \in (end - k)..end : f[iter] = FitsFrom(cells, end, f, iter)
      BY <2>1, Zenon
    <3> QED
      BY <3>1
  <2> HIDE DEF g
  <2>3. ASSUME NEW iter \in (end - (k + 1))..end
        PROVE  FitsFrom(cells, end, g, iter) = FitsFrom(cells, end, f, iter)
    <3>1. iter # end => NextToken(cells, iter) \in Nat /\ NextToken(cells, iter) > iter
      BY NextTokenFacts
    <3> QED
      BY <2>2, <3>1 DEF FitsFrom
  <2>4. Built(k + 1, g)
    BY <2>3 DEF g
  <2> HIDE DEF Built
  <2> QED
    BY <2>4
<1> HIDE DEF S
<1>3. end \in S
  BY <1>1, <1>2, Induction, SMTT(40)
<1>4. PICK f : Built(end, f)
  BY <1>3 DEF S
<1>5. f = [iter \in 0..end |-> FitsFrom(cells, end, f, iter)]
  BY <1>4
<1> QED
  BY <1>5

LEMMA FlattenSeqFunction ==
  ASSUME NEW segs, Len(segs) \in Nat \ {0}
  PROVE  \E f : /\ \A i \in 1..Len(segs) : f[i] = Flattened(segs, f, i)
                /\ FlattenSeq(segs) = f[Len(segs)]
<1> DEFINE flatten == CHOOSE f : f = [i \in 1..Len(segs) |->
                                        IF i = 1 THEN segs[i] ELSE f[i-1] \o segs[i]]
<1>1. FlattenSeq(segs) = flatten[Len(segs)]
  BY DEF FlattenSeq
<1>2. flatten = [i \in 1..Len(segs) |-> Flattened(segs, flatten, i)]
  BY FlattenFunction, Zenon DEF Flattened
<1>3. \A i \in 1..Len(segs) : flatten[i] = Flattened(segs, flatten, i)
  BY <1>2, Zenon
<1> HIDE DEF flatten
<1> QED
  BY <1>1, <1>3

LEMMA UnpackFunctions ==
  ASSUME NEW head, NEW cells \in Seq(Nat), SizeOfBody(head) = Len(cells)
  PROVE  LET end == SizeOfBody(head) IN
         \E tokens, fits :
           /\ \A iter \in 0..end : tokens[iter] = TokensFrom(cells, end, tokens, iter)
           /\ \A iter \in 0..end : fits[iter] = FitsFrom(cells, end, fits, iter)
           /\ Unpack(head, cells) = IF fits[0] THEN [type |-> head[1], tokens |-> tokens[0]]
                                    ELSE Corrupt
<1> DEFINE end == SizeOfBody(head)
           tokens == CHOOSE f : f = [iter \in 0..end |-> TokensFrom(cells, end, f, iter)]
           fits == CHOOSE f : f = [iter \in 0..end |-> FitsFrom(cells, end, f, iter)]
<1>1. Unpack(head, cells) = IF fits[0] THEN [type |-> head[1], tokens |-> tokens[0]]
                            ELSE Corrupt
  BY Zenon DEF Unpack, TokensFrom, FitsFrom, NextToken
<1>2. tokens = [iter \in 0..end |-> TokensFrom(cells, end, tokens, iter)]
  BY TokensFunction, Zenon
<1>3. fits = [iter \in 0..end |-> FitsFrom(cells, end, fits, iter)]
  BY FitsFunction, Zenon
<1>4. \A iter \in 0..end : tokens[iter] = TokensFrom(cells, end, tokens, iter)
  BY <1>2, Zenon
<1>5. \A iter \in 0..end : fits[iter] = FitsFrom(cells, end, fits, iter)
  BY <1>3, Zenon
<1> HIDE DEF tokens, fits
<1> QED
  BY <1>1, <1>4, <1>5, Zenon

\* What htonl writes.
LEMMA NumberFacts ==
  ASSUME NEW n \in Int
  PROVE  /\ Number(n) \in Seq(Int)
         /\ n \in Nat => Number(n) \in Seq(Nat)
         /\ Len(Number(n)) = NumSize
         /\ Number(n)[1] = n
<1> DEFINE rest == [i \in 1..(NumSize - 1) |-> 0]
<1>1. NumSize \in Nat /\ NumSize >= 1
  BY NumSizeAssumption
<1>2. rest \in Seq(Nat) /\ rest \in Seq(Int) /\ Len(rest) = NumSize - 1
  BY <1>1
<1>3. << n >> \in Seq(Int) /\ Len(<< n >>) = 1 /\ << n >>[1] = n
  OBVIOUS
<1> HIDE DEF rest
<1>4. /\ << n >> \o rest \in Seq(Int)
      /\ Len(<< n >> \o rest) = NumSize
      /\ (<< n >> \o rest)[1] = << n >>[1]
  BY <1>1, <1>2, <1>3, ConcatProperties
<1>5. ASSUME n \in Nat PROVE << n >> \o rest \in Seq(Nat)
  <2>1. << n >> \in Seq(Nat)
    BY <1>5
  <2> QED
    BY <1>2, <2>1, ConcatProperties
<1> QED
  BY <1>3, <1>4, <1>5, Zenon DEF Number, rest

\* What is flattened first stays where it is.
Kept(f, n) ==
    \A k \in 1..n : /\ f[k] \in Seq(Nat)
                    /\ \A i \in 1..k : /\ Len(f[i]) <= Len(f[k])
                                       /\ \A j \in 1..Len(f[i]) : f[k][j] = f[i][j]

LEMMA FlattenedFacts ==
  ASSUME NEW segs \in Seq(Seq(Nat)),
         NEW f, \A i \in 1..Len(segs) : f[i] = Flattened(segs, f, i)
  PROVE  Kept(f, Len(segs))
<1> DEFINE Good(k) == /\ f[k] \in Seq(Nat)
                      /\ \A i \in 1..k : /\ Len(f[i]) <= Len(f[k])
                                         /\ \A j \in 1..Len(f[i]) : f[k][j] = f[i][j]
           S == {k \in Nat : k \in 1..Len(segs) => Good(k)}
<1>1. \A i \in 1..Len(segs) : f[i] = IF i = 1 THEN segs[i] ELSE f[i-1] \o segs[i]
  BY DEF Flattened
<1>2. 0 \in S
  OBVIOUS
<1>3. ASSUME NEW k \in Nat, k \in S PROVE k + 1 \in S
  <2> SUFFICES ASSUME k + 1 <= Len(segs) PROVE Good(k + 1)
    OBVIOUS
  <2>1. segs[k + 1] \in Seq(Nat)
    OBVIOUS
  <2>2. CASE k = 0
    <3>1. f[1] = segs[1]
      BY <1>1, <2>2, SMTT(40)
    <3> QED
      BY <2>1, <2>2, <3>1
  <2>3. CASE k # 0
    <3>1. Good(k)
      BY <1>3, <2>3
    <3>2. f[k + 1] = f[k] \o segs[k + 1]
      <4>1. k + 1 \in 1..Len(segs) /\ k + 1 # 1 /\ (k + 1) - 1 = k
        BY <2>3
      <4> QED
        BY <1>1, <4>1, Zenon
    <3>3. /\ f[k + 1] \in Seq(Nat)
          /\ Len(f[k]) <= Len(f[k + 1])
          /\ \A j \in 1..Len(f[k]) : f[k + 1][j] = f[k][j]
      <4> DEFINE a == f[k]  b == segs[k + 1]
      <4>1. a \in Seq(Nat) /\ b \in Seq(Nat) /\ f[k + 1] = a \o b
        BY <2>1, <3>1, <3>2
      <4> HIDE DEF a, b
      <4>2. /\ a \o b \in Seq(Nat) /\ Len(a) <= Len(a \o b)
            /\ \A j \in 1..Len(a) : (a \o b)[j] = a[j]
        BY <4>1, ConcatProperties
      <4> QED
        BY <4>1, <4>2 DEF a
    <3>4. ASSUME NEW i \in 1..(k + 1)
          PROVE  /\ Len(f[i]) <= Len(f[k + 1])
                 /\ \A j \in 1..Len(f[i]) : f[k + 1][j] = f[i][j]
      <4>1. CASE i = k + 1
        BY <3>3, <4>1
      <4>2. CASE i # k + 1
        <5>1. i \in 1..k /\ Len(f[i]) <= Len(f[k]) /\ Len(f[k]) \in Nat /\ Len(f[k + 1]) \in Nat
          BY <3>1, <3>3, <4>2
        <5>2. i \in 1..Len(segs) /\ Len(f[i]) \in Int
          BY <5>1
        <5> QED
          BY <3>1, <3>3, <5>1, <5>2, SMTT(40)
      <4> QED
        BY <4>1, <4>2
    <3> QED
      BY <3>3, <3>4
  <2> QED
    BY <2>2, <2>3
<1> HIDE DEF S
<1>4. \A k \in Nat : k \in S
  BY <1>2, <1>3, Induction
<1> QED
  BY <1>4 DEF S, Kept

\* The body of a message: off[i] cells of it are the first i tokens.
Laid(tokens, cells, off) ==
    /\ off \in [0..Len(tokens) -> Nat]
    /\ off[0] = 0
    /\ off[Len(tokens)] = Len(cells)
    /\ \A i \in 1..Len(tokens) :
         /\ off[i] = off[i-1] + NumSize + Len(tokens[i])
         /\ off[i] <= Len(cells)
         /\ cells[off[i-1] + 1] = Len(tokens[i])
         /\ \A j \in 1..Len(tokens[i]) : cells[off[i-1] + NumSize + j] = tokens[i][j]

LEMMA TokenFacts ==
  ASSUME NEW token \in Seq(Nat), NEW cells, cells = Number(Len(token)) \o token
  PROVE  /\ cells \in Seq(Nat)
         /\ Len(cells) = NumSize + Len(token)
         /\ cells[1] = Len(token)
         /\ \A j \in 1..Len(token) : cells[NumSize + j] = token[j]
<1> DEFINE number == Number(Len(token))
<1>1. NumSize \in Nat /\ NumSize >= 1
  BY NumSizeAssumption
<1>2. number \in Seq(Nat) /\ Len(number) = NumSize /\ number[1] = Len(token)
  <2>1. Len(token) \in Nat
    BY LenProperties
  <2> QED
    BY <2>1, NumberFacts
<1> HIDE DEF number
<1>3. /\ number \o token \in Seq(Nat)
      /\ Len(number \o token) = NumSize + Len(token)
      /\ \A i \in 1..(NumSize + Len(token)) :
           (number \o token)[i] = IF i <= NumSize THEN number[i] ELSE token[i - NumSize]
  BY <1>2, ConcatProperties
<1>4. \A j \in 1..Len(token) : (number \o token)[NumSize + j] = token[j]
  <2> DEFINE both == number \o token  m == Len(token)
  <2>1. \A i \in 1..(NumSize + m) :
           both[i] = IF i <= NumSize THEN number[i] ELSE token[i - NumSize]
    BY <1>3
  <2>2. m \in Nat
    BY LenProperties
  <2> HIDE DEF both, m
  <2>3. ASSUME NEW j \in 1..m PROVE both[NumSize + j] = token[j]
    <3>1. /\ NumSize + j \in 1..(NumSize + m) /\ ~(NumSize + j <= NumSize)
          /\ (NumSize + j) - NumSize = j
      BY <1>1, <2>2
    <3> QED
      BY <2>1, <3>1, Zenon
  <2> QED
    BY <2>3 DEF both, m
<1>5. (number \o token)[1] = Len(token)
  <2>1. 1 \in 1..(NumSize + Len(token)) /\ 1 <= NumSize
    BY <1>1, LenProperties
  <2> QED
    BY <1>2, <1>3, <2>1, Zenon
<1> QED
  BY <1>3, <1>4, <1>5 DEF number

LEMMA PackBodyFacts ==
  ASSUME NEW tokens \in Seq(Seq(Nat))
  PROVE  /\ PackBody(tokens) \in Seq(Nat)
         /\ \E off : Laid(tokens, PackBody(tokens), off)
<1> DEFINE n == Len(tokens)
           segs == [i \in DOMAIN tokens |-> Number(Len(tokens[i])) \o tokens[i]]
<1>1. /\ n \in Nat /\ DOMAIN tokens = 1..n
      /\ \A i \in 1..n : tokens[i] \in Seq(Nat) /\ Len(tokens[i]) \in Nat
  OBVIOUS
<1>2. NumSize \in Nat /\ NumSize >= 1
  BY NumSizeAssumption
<1>3. \A i \in 1..n : segs[i] = Number(Len(tokens[i])) \o tokens[i]
  BY <1>1, Zenon
<1>4. \A i \in 1..n : /\ segs[i] \in Seq(Nat)
                      /\ Len(segs[i]) = NumSize + Len(tokens[i])
                      /\ segs[i][1] = Len(tokens[i])
                      /\ \A j \in 1..Len(tokens[i]) : segs[i][NumSize + j] = tokens[i][j]
  BY <1>1, <1>3, TokenFacts
<1>5. segs \in Seq(Seq(Nat)) /\ Len(segs) = n
  <2>1. segs = [i \in 1..n |-> segs[i]]
    BY <1>1
  <2> HIDE DEF segs
  <2> QED
    BY <1>1, <1>4, <2>1, IsASeq
<1>6. PackBody(tokens) = FlattenSeq(segs)
  BY DEF PackBody
<1> HIDE DEF segs, n
<1>7. CASE n = 0
  <2>1. PackBody(tokens) = segs /\ segs = << >>
    BY <1>5, <1>6, <1>7 DEF FlattenSeq
  <2> DEFINE off == [i \in 0..Len(tokens) |-> 0]
  <2>2. Laid(tokens, PackBody(tokens), off)
    BY <1>7, <2>1 DEF Laid, n
  <2> QED
    BY <2>1, <2>2
<1>8. CASE n > 0
  <2>1. PICK f : /\ \A i \in 1..n : f[i] = Flattened(segs, f, i)
                 /\ FlattenSeq(segs) = f[n]
    <3>1. Len(segs) \in Nat \ {0}
      BY <1>1, <1>5, <1>8
    <3>2. \E f : /\ \A i \in 1..Len(segs) : f[i] = Flattened(segs, f, i)
                 /\ FlattenSeq(segs) = f[Len(segs)]
      BY <3>1, FlattenSeqFunction, Zenon
    <3> QED
      BY <1>5, <3>2, Zenon
  <2>2. \A k \in 1..n : /\ f[k] \in Seq(Nat)
                        /\ \A i \in 1..k : /\ Len(f[i]) <= Len(f[k])
                                           /\ \A j \in 1..Len(f[i]) : f[k][j] = f[i][j]
    <3>1. \A i \in 1..Len(segs) : f[i] = Flattened(segs, f, i)
      BY <1>5, <2>1, Zenon
    <3>2. segs \in Seq(Seq(Nat))
      BY <1>5
    <3>3. Kept(f, Len(segs))
      BY <3>1, <3>2, FlattenedFacts, Zenon
    <3> QED
      BY <1>5, <3>3, Zenon DEF Kept
  <2> DEFINE cells == PackBody(tokens)
             off == [i \in 0..n |-> IF i = 0 THEN 0 ELSE Len(f[i])]
  <2>3. cells = f[n] /\ cells \in Seq(Nat)
    <3>1. n \in 1..n
      BY <1>1, <1>8
    <3>2. f[n] \in Seq(Nat)
      BY <2>2, <3>1, Zenon
    <3> QED
      BY <1>6, <2>1, <3>2, Zenon
  <2>4. \A i \in 1..n : Len(f[i]) \in Nat
    <3>1. \A i \in 1..n : f[i] \in Seq(Nat)
      BY <2>2, Zenon
    <3> QED
      BY <3>1, LenProperties, Zenon
  <2>5. /\ off \in [0..n -> Nat] /\ off[0] = 0 /\ off[n] = Len(cells)
        /\ \A i \in 1..n : off[i] = Len(f[i])
    <3>1. \A i \in 1..n : off[i] = Len(f[i])
      BY <1>1
    <3>2. off[0] = 0 /\ off \in [0..n -> Nat]
      BY <1>1, <2>4
    <3>3. n \in 1..n
      BY <1>1, <1>8
    <3> HIDE DEF off, cells
    <3> QED
      BY <2>3, <3>1, <3>2, <3>3
  <2> HIDE DEF off, cells
  <2>6. ASSUME NEW i \in 1..n
        PROVE  /\ off[i] = off[i-1] + Len(segs[i])
               /\ \A j \in 1..Len(segs[i]) : f[i][off[i-1] + j] = segs[i][j]
    <3>1. CASE i = 1
      <4>1. f[i] = segs[i] /\ off[i-1] = 0 /\ off[i] = Len(f[i])
        BY <2>1, <2>5, <3>1 DEF Flattened
      <4> QED
        BY <1>4, <4>1
    <3>2. CASE i # 1
      <4>1. i - 1 \in 1..n
        BY <1>1, <3>2
      <4>6. f[i] = f[i-1] \o segs[i]
        BY <2>1, <3>2, Zenon DEF Flattened
      <4> DEFINE a == f[i-1]  b == segs[i]
      <4>2. a \in Seq(Nat) /\ b \in Seq(Nat) /\ f[i] = a \o b /\ off[i-1] = Len(a)
        BY <1>4, <2>2, <2>5, <4>1, <4>6, Zenon
      <4>3. off[i] = Len(f[i])
        BY <2>5
      <4> HIDE DEF a, b
      <4>4. /\ Len(a \o b) = Len(a) + Len(b) /\ Len(a) \in Nat /\ Len(b) \in Nat
            /\ \A j \in 1..(Len(a) + Len(b)) :
                 (a \o b)[j] = IF j <= Len(a) THEN a[j] ELSE b[j - Len(a)]
        BY <4>2, ConcatProperties
      <4>5. \A j \in 1..Len(b) : (a \o b)[Len(a) + j] = b[j]
        BY <4>4
      <4> QED
        BY <4>2, <4>3, <4>4, <4>5 DEF b
    <3> QED
      BY <3>1, <3>2
  <2>7. ASSUME NEW i \in 1..n
        PROVE  /\ off[i] = off[i-1] + NumSize + Len(tokens[i])
               /\ off[i] <= Len(cells)
               /\ cells[off[i-1] + 1] = Len(tokens[i])
               /\ \A j \in 1..Len(tokens[i]) : cells[off[i-1] + NumSize + j] = tokens[i][j]
    <3>1. i - 1 \in 0..n /\ off[i-1] \in Nat /\ off[i] \in Nat /\ Len(tokens[i]) \in Nat
      BY <1>1, <2>5
    <3>2. off[i] = off[i-1] + NumSize + Len(tokens[i])
      <4>1. Len(segs[i]) = NumSize + Len(tokens[i]) /\ off[i] = off[i-1] + Len(segs[i])
        BY <1>4, <2>6, Zenon
      <4> QED
        BY <1>2, <3>1, <4>1
    <3>3. off[i] <= Len(cells) /\ \A j \in 1..off[i] : cells[j] = f[i][j]
      BY <1>1, <2>2, <2>3, <2>5
    <3>4. \A j \in 1..Len(segs[i]) : cells[off[i-1] + j] = segs[i][j]
      <4>1. \A j \in 1..Len(segs[i]) : off[i-1] + j \in 1..off[i]
        <5>1. Len(segs[i]) = NumSize + Len(tokens[i])
          BY <1>4
        <5> QED
          BY <1>2, <3>1, <3>2, <5>1, SMTT(40)
      <4> QED
        BY <2>6, <3>3, <4>1, Zenon
    <3>5. /\ \A j \in 1..Len(tokens[i]) : NumSize + j \in 1..Len(segs[i])
          /\ 1 \in 1..Len(segs[i])
      <4>1. Len(segs[i]) = NumSize + Len(tokens[i])
        BY <1>4
      <4> QED
        BY <1>2, <3>1, <4>1
    <3>7. \A j \in 1..Len(tokens[i]) : cells[off[i-1] + NumSize + j] = tokens[i][j]
      <4>1. \A j \in 1..Len(tokens[i]) : off[i-1] + NumSize + j = off[i-1] + (NumSize + j)
        BY <1>2, <3>1
      <4> QED
        BY <1>4, <3>4, <3>5, <4>1
    <3>8. cells[off[i-1] + 1] = Len(tokens[i])
      BY <1>4, <3>4, <3>5, Zenon
    <3> QED
      BY <3>2, <3>3, <3>7, <3>8
  <2>8. Laid(tokens, cells, off)
    BY <2>5, <2>7 DEF Laid, n
  <2> QED
    BY <2>3, <2>8 DEF cells
<1> QED
  BY <1>1, <1>7, <1>8

\* unpack_message_2 finds what pack_message wrote.
LEMMA UnpackFinds ==
  ASSUME NEW tokens \in Seq(Seq(Nat)), NEW cells \in Seq(Nat), NEW off,
         Laid(tokens, cells, off),
         NEW head, SizeOfBody(head) = Len(cells)
  PROVE  Unpack(head, cells) = [type |-> head[1], tokens |-> tokens]
<1> DEFINE n == Len(tokens)
           end == Len(cells)
<1>1. n \in Nat /\ end \in Nat /\ NumSize \in Nat /\ NumSize >= 1
  BY NumSizeAssumption
<1>2. PICK toks, fits :
        /\ \A iter \in 0..end : toks[iter] = TokensFrom(cells, end, toks, iter)
        /\ \A iter \in 0..end : fits[iter] = FitsFrom(cells, end, fits, iter)
        /\ Unpack(head, cells) = IF fits[0] THEN [type |-> head[1], tokens |-> toks[0]]
                                 ELSE Corrupt
  <2>1. SizeOfBody(head) = end
    OBVIOUS
  <2> HIDE DEF end
  <2> QED
    BY <2>1, UnpackFunctions
<1>3. /\ off[0] = 0 /\ off[n] = end
      /\ \A i \in 0..n : off[i] \in Nat
      /\ \A i \in 1..n : /\ off[i] = off[i-1] + NumSize + Len(tokens[i])
                         /\ off[i] <= end
                         /\ cells[off[i-1] + 1] = Len(tokens[i])
                         /\ \A j \in 1..Len(tokens[i]) :
                              cells[off[i-1] + NumSize + j] = tokens[i][j]
  BY DEF Laid
<1> HIDE DEF n, end
<1> DEFINE Found(i) == toks[off[i]] = SubSeq(tokens, i + 1, n) /\ fits[off[i]] = TRUE
           S == {k \in Nat : k <= n => Found(n - k)}
<1>4. 0 \in S
  <2>1. end \in 0..end /\ off[n] = end
    BY <1>1, <1>3
  <2>2. toks[end] = << >> /\ fits[end] = TRUE
    BY <1>2, <2>1, Zenon DEF TokensFrom, FitsFrom
  <2>3. SubSeq(tokens, n + 1, n) = << >>
    BY <1>1, SubSeqEmpty
  <2>4. Found(n)
    BY <2>1, <2>2, <2>3
  <2> QED
    BY <1>1, <2>4
<1>5. ASSUME NEW k \in Nat, k \in S PROVE k + 1 \in S
  <2> HIDE DEF Found
  <2> SUFFICES ASSUME k + 1 <= n PROVE Found(n - (k + 1))
    OBVIOUS
  <2> DEFINE i == n - k
             iter == off[i-1]
  <2>1. /\ i \in 1..n /\ i - 1 \in 0..n /\ i \in 0..n /\ n - (k + 1) = i - 1
        /\ n \in i..n /\ i - 1 + 1 = i /\ i \in Int
    BY <1>1
  <2>10. Found(i)
    BY <1>1, <1>5
  <2>11. toks[off[i]] = SubSeq(tokens, i + 1, n) /\ fits[off[i]] = TRUE
    BY <2>10 DEF Found
  <2> HIDE DEF i
  <2>2. tokens[i] \in Seq(Nat) /\ Len(tokens[i]) \in Nat
    BY <2>1 DEF n
  <2>12. /\ iter \in Nat /\ off[i] \in Nat
         /\ off[i] = iter + NumSize + Len(tokens[i])
         /\ off[i] <= end
    BY <1>3, <2>1, Zenon
  <2>13. /\ cells[iter + 1] = Len(tokens[i])
         /\ \A j \in 1..Len(tokens[i]) : cells[iter + NumSize + j] = tokens[i][j]
    BY <1>3, <2>1, Zenon
  <2> DEFINE next == off[i]  len == Len(tokens[i])
  <2>14. /\ iter \in Nat /\ next \in Nat /\ len \in Nat
         /\ next = iter + NumSize + len /\ next <= end
    BY <2>2, <2>12, Zenon
  <2> HIDE DEF iter, next, len
  <2>3. iter \in 0..end /\ iter # end /\ ~(next > end)
    BY <1>1, <2>14
  <2>4. NextToken(cells, iter) = off[i]
    BY <2>12, <2>13, Zenon DEF NextToken, NumberAt
  <2>5. SubSeq(cells, iter + NumSize + 1, off[i]) = tokens[i]
    <3> DEFINE a == iter + NumSize + 1  b == off[i]  cut == SubSeq(cells, a, b)
    <3>1. /\ a \in Int /\ b \in Int /\ b - a + 1 = Len(tokens[i]) /\ 1 <= a /\ b <= end
          /\ \A j \in 1..Len(tokens[i]) : a + j - 1 = iter + NumSize + j
      <4>1. b = next /\ Len(tokens[i]) = len
        BY DEF next, len
      <4> HIDE DEF b
      <4> QED
        BY <1>1, <2>14, <4>1
    <3> HIDE DEF a, b
    <3>2. \A j \in a..b : j \in 1..Len(cells)
      BY <1>1, <3>1 DEF end
    <3>3. \A j \in a..b : cells[j] \in Nat
      BY <3>2, ElementOfSeq, Zenon
    <3>4. /\ cut \in Seq(Nat)
          /\ Len(cut) = IF a <= b THEN b - a + 1 ELSE 0
          /\ \A j \in 1..(b - a + 1) : cut[j] = cells[a + j - 1]
      BY <3>1, <3>3, SubSeqProperties
    <3> HIDE DEF cut
    <3>5. Len(cut) = Len(tokens[i])
      BY <2>2, <3>1, <3>4
    <3>6. \A j \in 1..Len(tokens[i]) : cut[j] = tokens[i][j]
      <4>1. \A j \in 1..Len(tokens[i]) : cut[j] = cells[a + j - 1]
        BY <3>1, <3>4, Zenon
      <4> QED
        BY <2>13, <3>1, <4>1, Zenon
    <3>7. cut = tokens[i]
      BY <2>2, <3>4, <3>5, <3>6, SeqEqual
    <3> QED
      BY <3>7 DEF cut, a, b
  <2>6. toks[iter] = << tokens[i] >> \o SubSeq(tokens, i + 1, n)
    <3>1. ~(iter = end \/ NextToken(cells, iter) > end)
      BY <2>3, <2>4, Zenon DEF next
    <3>2. toks[iter] = << SubSeq(cells, iter + NumSize + 1, NextToken(cells, iter)) >>
                       \o toks[NextToken(cells, iter)]
      BY <1>2, <2>3, <3>1, Zenon DEF TokensFrom
    <3> QED
      BY <2>4, <2>5, <2>11, <3>2, Zenon
  <2>7. fits[iter] = TRUE
    <3>1. fits[iter] = FitsFrom(cells, end, fits, iter)
      BY <1>2, <2>3, Zenon
    <3>2. NextToken(cells, iter) <= end /\ fits[NextToken(cells, iter)]
      BY <2>4, <2>11, <2>12, Zenon
    <3>3. FitsFrom(cells, end, fits, iter) = TRUE
      BY <3>2, Zenon DEF FitsFrom
    <3> QED
      BY <3>1, <3>3, Zenon
  <2>8. SubSeq(tokens, i, n) = << tokens[i] >> \o SubSeq(tokens, i + 1, n)
    <3>1. i \in 1..Len(tokens) /\ n \in i..Len(tokens)
      BY <2>1 DEF n
    <3> QED
      BY <3>1, SubSeqRecursiveFirst
  <2> QED
    BY <2>1, <2>6, <2>7, <2>8, Zenon DEF Found, iter
<1> HIDE DEF S
<1>6. n \in S
  BY <1>1, <1>4, <1>5, Induction
<1>7. Found(0)
  BY <1>1, <1>6 DEF S
<1>8. SubSeq(tokens, 0 + 1, n) = tokens
  BY <1>1, SubSeqFull DEF n
<1> QED
  BY <1>2, <1>3, <1>7, <1>8, Zenon

LEMMA CutConcat ==
  ASSUME NEW S, NEW a \in Seq(S), NEW b \in Seq(S)
  PROVE  /\ SubSeq(a \o b, 1, Len(a)) = a
         /\ SubSeq(a \o b, Len(a) + 1, Len(a \o b)) = b
<1>1. Len(a) \in Nat /\ Len(b) \in Nat /\ Len(a \o b) = Len(a) + Len(b)
  BY ConcatProperties, LenProperties
<1>2. SubSeq(a \o b, 1, Len(a)) = a
  <2>1. CASE Len(a) = 0
    <3>1. a = << >>
      BY <2>1, EmptySeq
    <3> QED
      BY <2>1, <3>1, SubSeqEmpty
  <2>2. CASE Len(a) # 0
    <3>1. 1 \in 1..Len(a) /\ Len(a) \in 1..Len(a)
      BY <1>1, <2>2
    <3> QED
      BY <3>1, SubSeqOfConcat1, SubSeqFull
  <2> QED
    BY <2>1, <2>2
<1>3. SubSeq(a \o b, Len(a) + 1, Len(a \o b)) = b
  <2>1. CASE Len(b) = 0
    <3>1. b = << >>
      BY <2>1, EmptySeq
    <3> QED
      BY <1>1, <2>1, <3>1, SubSeqEmpty
  <2>2. CASE Len(b) # 0
    <3>1. /\ Len(a) + 1 \in (Len(a) + 1)..(Len(a) + Len(b))
          /\ Len(a) + Len(b) \in (Len(a) + 1)..(Len(a) + Len(b))
          /\ Len(a) + 1 - Len(a) = 1
          /\ Len(a) + Len(b) - Len(a) = Len(b)
      BY <1>1, <2>2
    <3>2. SubSeq(a \o b, Len(a) + 1, Len(a) + Len(b)) = SubSeq(b, 1, Len(b))
      BY <3>1, SubSeqOfConcat2
    <3> QED
      BY <1>1, <3>2, SubSeqFull
  <2> QED
    BY <2>1, <2>2
<1> QED
  BY <1>2, <1>3

\* A package that pack_message made says the message it was made of.
LEMMA PackSays ==
  ASSUME NEW m \in Messages
  PROVE  IsPackage([cells |-> Pack(m), msg |-> m])
<1> DEFINE packed == PackBody(m.tokens)
           head == << m.type >> \o Number(Len(packed))
<1>1. /\ m = [type |-> m.type, tokens |-> m.tokens] /\ m # NoMessage
      /\ m.type \in Nat /\ m.tokens \in Seq(Seq(Nat))
  BY MessagesAssumption
<1>2. PICK off : packed \in Seq(Nat) /\ Laid(m.tokens, packed, off)
  BY <1>1, PackBodyFacts
<1>3. Len(packed) \in Nat /\ NumSize \in Nat /\ NumSize >= 1
  BY <1>2, NumSizeAssumption
<1> HIDE DEF packed
<1>4. /\ head \in Seq(Nat) /\ Len(head) = HeaderSize
      /\ head[1] = m.type /\ head[2] = Len(packed)
  <2> DEFINE number == Number(Len(packed))  first == << m.type >>
  <2>1. number \in Seq(Nat) /\ Len(number) = NumSize /\ number[1] = Len(packed)
    <3>1. Len(packed) \in Int
      BY <1>3
    <3> QED
      BY <1>3, <3>1, NumberFacts, Zenon
  <2>2. first \in Seq(Nat) /\ Len(first) = 1 /\ first[1] = m.type
    BY <1>1
  <2> HIDE DEF number, first
  <2>3. /\ first \o number \in Seq(Nat)
        /\ Len(first \o number) = 1 + NumSize
        /\ \A i \in 1..(1 + NumSize) :
             (first \o number)[i] = IF i <= 1 THEN first[i] ELSE number[i - 1]
    <3>1. /\ first \o number \in Seq(Nat)
          /\ Len(first \o number) = Len(first) + Len(number)
          /\ \A i \in 1..(Len(first) + Len(number)) :
               (first \o number)[i] = IF i <= Len(first) THEN first[i]
                                      ELSE number[i - Len(first)]
      <4>1. first \in Seq(Nat) /\ number \in Seq(Nat)
        BY <2>1, <2>2
      <4> QED
        BY <4>1, ConcatProperties
    <3> QED
      BY <2>1, <2>2, <3>1, Zenon
  <2>4. (first \o number)[1] = m.type /\ (first \o number)[2] = Len(packed)
    <3>1. 1 \in 1..(1 + NumSize) /\ 2 \in 1..(1 + NumSize) /\ 1 <= 1 /\ ~(2 <= 1) /\ 2 - 1 = 1
      BY <1>3
    <3> QED
      BY <2>1, <2>2, <2>3, <3>1, Zenon
  <2> QED
    BY <2>3, <2>4 DEF HeaderSize, first, number
<1>5. Pack(m) = head \o packed
  BY Zenon DEF Pack, Package, packed
<1> HIDE DEF head
<1>6. HeaderSize \in Nat /\ HeaderSize >= 2
  BY <1>3 DEF HeaderSize
<1> DEFINE cells == head \o packed
<1>7. /\ cells \in Seq(Nat)
      /\ Len(cells) = HeaderSize + Len(packed)
      /\ cells[2] = head[2]
  <2>1. 2 \in 1..(Len(head) + Len(packed)) /\ 2 <= Len(head)
    BY <1>3, <1>4, <1>6
  <2>2. packed \in Seq(Nat) /\ head \in Seq(Nat) /\ Len(head) = HeaderSize
    BY <1>2, <1>4
  <2>3. /\ head \o packed \in Seq(Nat)
        /\ Len(head \o packed) = Len(head) + Len(packed)
        /\ \A i \in 1..(Len(head) + Len(packed)) :
             (head \o packed)[i] = IF i <= Len(head) THEN head[i] ELSE packed[i - Len(head)]
    BY <2>2, ConcatProperties
  <2> QED
    BY <2>1, <2>2, <2>3, Zenon
<1>8. /\ SubSeq(cells, 1, HeaderSize) = head
      /\ SubSeq(cells, HeaderSize + 1, Len(cells)) = packed
  BY <1>2, <1>4, CutConcat
<1> HIDE DEF cells
<1>9. SizeOfBody(cells) = Len(packed) /\ SizeOfBody(head) = Len(packed)
  BY <1>4, <1>7, Zenon DEF SizeOfBody, NumberAt
<1>10. Unpack(head, packed) = [type |-> head[1], tokens |-> m.tokens]
  BY <1>1, <1>2, <1>9, UnpackFinds
<1>11. Says(cells) = m
  BY <1>1, <1>4, <1>8, <1>10, Zenon DEF Says
<1>12. Pack(m) = cells
  BY <1>5 DEF cells
<1>13. cells \in Seq(Int) /\ Len(cells) >= HeaderSize /\ ~(SizeOfBody(cells) < 0)
  BY <1>3, <1>6, <1>7, <1>9
<1> QED
  BY <1>1, <1>7, <1>9, <1>11, <1>12, <1>13 DEF IsPackage

LEMMA PackageFacts ==
  ASSUME NEW p \in AllPackages
  PROVE  /\ IsPackage(p)
         /\ p.msg \in AllMessages
<1>1. IsPackage(p)
  BY PackSays, PackagesAssumption DEF AllPackages
<1> QED
  BY <1>1 DEF AllMessages

-----------------------------------------------------------------------------
(* The inductive invariant.  In its first part s is a stream and w are the  *)
(* messages on it.                                                          *)

\* Where the message after the first k starts.
Start(w, k) == IF k = 0 THEN 0 ELSE w[k].end

Cells(s, from, n) == [i \in 1..n |-> s[from + i]]

\* The size that the header at this place announces.
SizeAt(s, from) == s[from + 2]

\* The k-th message is a package of the size it announces.
Framed(s, w, k) ==
    LET from == Start(w, k - 1) IN
    /\ SizeAt(s, from) \in Nat
    /\ w[k].end = from + HeaderSize + SizeAt(s, from)
    /\ w[k].end <= Len(s)
    /\ w[k].msg = Unpack(Cells(s, from, HeaderSize),
                         Cells(s, from + HeaderSize, SizeAt(s, from)))

\* A stream is a row of whole messages, with nothing behind them or a package
\* that announces a negative size.
StreamInv(s, w) ==
    LET end == Start(w, Len(w)) IN
    /\ \A k \in DOMAIN w : Framed(s, w, k)
    /\ \A j, k \in DOMAIN w : j < k => w[j].end < w[k].end
    /\ end = Len(s) \/ (end + HeaderSize <= Len(s) /\ SizeAt(s, end) < 0)

\* What has been read of the message at this place of the stream is in the
\* buffers, and the counters say how much that is.
BufferInv(c, from) ==
    /\ header[c] # NoBuffer =>
         /\ Len(header[c]) = HeaderSize
         /\ \A i \in 1..HeaderSize : i <= bytesRead[c] => header[c][i] = stream[c][from + i]
    /\ bytesRead[c] > 0 => header[c] # NoBuffer
    /\ body[c] = NoBuffer => bytesExpected[c] = HeaderSize /\ bytesRead[c] <= HeaderSize
    /\ body[c] # NoBuffer =>
         /\ Len(body[c]) = SizeAt(stream[c], from)
         /\ bytesExpected[c] = HeaderSize + SizeAt(stream[c], from)
         /\ HeaderSize <= bytesRead[c] /\ bytesRead[c] < bytesExpected[c]
         /\ \A i \in DOMAIN body[c] :
              HeaderSize + i <= bytesRead[c] => body[c][i] = stream[c][from + HeaderSize + i]
    /\ at[c] = "header" => header[c] # NoBuffer /\ bytesRead[c] < HeaderSize
    /\ at[c] = "body" => HeaderSize <= bytesRead[c]
    /\ at[c] = "recv" => body[c] # NoBuffer

\* Where the message starts that is read.
From(c) == Start(whole[c], Len(got[c]))

\* Until its deleter runs, the buffers still hold the message that was handed on,
\* whose last cell has been read.
StaleInv(c) ==
    /\ header[c] # NoBuffer /\ SizeOfBody(header[c]) \in Nat
    /\ HeaderSize <= bytesRead[c] /\ bytesRead[c] = bytesExpected[c]
    /\ SizeOfBody(header[c]) > 0 =>
         body[c] # NoBuffer /\ bytesExpected[c] = HeaderSize + Len(body[c])
    /\ at[c] # "header"
    /\ at[c] = "recv" => SizeOfBody(header[c]) > 0
    /\ due[c] < 2 \/ inWorker[c]

\* The reader has taken the first messages, and what it has received since is
\* of the next one.
ReadInv(c) ==
    /\ Len(got[c]) <= Len(whole[c])
    /\ \A k \in DOMAIN got[c] : got[c][k] = whole[c][k].msg
    /\ pos[c] = From(c) + IF due[c] > 0 THEN 0 ELSE bytesRead[c]
    /\ at[c] # "poll" => ~closed[c] /\ ~inWorker[c]
    /\ due[c] = 0 => BufferInv(c, From(c))
    /\ due[c] > 0 => StaleInv(c)

ConnInv(c) ==
    /\ pos[c] <= limit[c]
    /\ limit[c] <= Len(stream[c])
    /\ StreamInv(stream[c], whole[c])
    /\ ReadInv(c)

IInv == TypeOK /\ \A c \in Conns : ConnInv(c)

\* A step leaves a connection alone.
Untouched(c) ==
    /\ stream'[c] = stream[c] /\ limit'[c] = limit[c] /\ whole'[c] = whole[c]
    /\ pos'[c] = pos[c] /\ header'[c] = header[c] /\ body'[c] = body[c]
    /\ bytesRead'[c] = bytesRead[c] /\ bytesExpected'[c] = bytesExpected[c]
    /\ at'[c] = at[c] /\ inWorker'[c] = inWorker[c] /\ due'[c] = due[c]
    /\ closed'[c] = closed[c] /\ got'[c] = got[c]

LEMMA UntouchedInv ==
  ASSUME NEW c, ConnInv(c), Untouched(c)
  PROVE  ConnInv(c)'
<1>1. From(c)' = From(c)
  BY DEF From, Untouched
<1>2. BufferInv(c, From(c)) => BufferInv(c, From(c))'
  BY <1>1 DEF BufferInv, Untouched
<1>3. StaleInv(c)' = StaleInv(c)
  BY DEF StaleInv, Untouched
<1>5. ReadInv(c)'
  BY <1>1, <1>2, <1>3 DEF ConnInv, ReadInv, Untouched
<1>4. StreamInv(stream[c], whole[c])'
  BY DEF ConnInv, Untouched
<1> QED
  BY <1>4, <1>5 DEF ConnInv, Untouched

LEMMA InitInv ==
  ASSUME Init
  PROVE  IInv
<1>1. HeaderSize \in Nat /\ HeaderSize >= 2
  BY NumSizeAssumption DEF HeaderSize
<1>2. TypeOK
  <2>1. << >> \in Seq(Int) /\ << >> \in Seq(AllMessages)
        /\ << >> \in Seq([end : Nat, msg : AllMessages])
    OBVIOUS
  <2> QED
    BY <1>1, <2>1 DEF Init, TypeOK
<1>3. ASSUME NEW c \in Conns PROVE ConnInv(c)
  <2>1. /\ stream[c] = << >> /\ limit[c] = 0 /\ pos[c] = 0 /\ header[c] = NoBuffer
        /\ body[c] = NoBuffer /\ bytesRead[c] = 0 /\ bytesExpected[c] = HeaderSize
        /\ at[c] = "poll" /\ ~inWorker[c] /\ ~closed[c] /\ got[c] = << >> /\ whole[c] = << >>
        /\ due[c] = 0
    BY DEF Init
  <2>2. From(c) = 0 /\ StreamInv(<< >>, << >>)
    BY <2>1 DEF From, Start, StreamInv
  <2>3. BufferInv(c, 0)
    BY <1>1, <2>1 DEF BufferInv
  <2>4. ReadInv(c)
    BY <2>1, <2>2, <2>3 DEF ReadInv
  <2> QED
    BY <2>1, <2>2, <2>4 DEF ConnInv
<1> QED
  BY <1>2, <1>3 DEF IInv

-----------------------------------------------------------------------------
(* The stream. *)

Sent == Seq([end : Nat, msg : AllMessages])

LEMMA HeaderFacts == HeaderSize \in Nat /\ HeaderSize >= 2
  BY NumSizeAssumption DEF HeaderSize

\* The message after the first k is whole and well-formed, or there is none.
LEMMA StreamFacts ==
  ASSUME NEW s \in Seq(Int), NEW w \in Sent, StreamInv(s, w), NEW k \in 0..Len(w)
  PROVE  /\ Start(w, k) \in Nat /\ Start(w, k) <= Len(s)
         /\ k < Len(w) =>
              /\ SizeAt(s, Start(w, k)) \in Nat
              /\ w[k + 1].end = Start(w, k) + HeaderSize + SizeAt(s, Start(w, k))
              /\ w[k + 1].end <= Len(s)
              /\ w[k + 1].msg = Unpack(Cells(s, Start(w, k), HeaderSize),
                                  Cells(s, Start(w, k) + HeaderSize, SizeAt(s, Start(w, k))))
              /\ Start(w, k + 1) = w[k + 1].end
         /\ k = Len(w) =>
              \/ Start(w, k) = Len(s)
              \/ Start(w, k) + HeaderSize <= Len(s) /\ SizeAt(s, Start(w, k)) < 0
<1>1. Len(s) \in Nat /\ Len(w) \in Nat /\ DOMAIN w = 1..Len(w)
  BY DEF Sent
<1>2. \A j \in 1..Len(w) : w[j].end \in Nat /\ w[j].end <= Len(s)
  <2>1. \A j \in 1..Len(w) : w[j].end \in Nat
    <3>1. \A j \in 1..Len(w) : w[j] \in [end : Nat, msg : AllMessages]
      BY ElementOfSeq DEF Sent
    <3> QED
      BY <3>1
  <2>2. \A j \in DOMAIN w : w[j].end <= Len(s)
    BY DEF StreamInv, Framed
  <2> QED
    BY <1>1, <2>1, <2>2
<1>3. Start(w, k) \in Nat /\ Start(w, k) <= Len(s)
  BY <1>1, <1>2 DEF Start
<1>4. ASSUME k < Len(w)
      PROVE  /\ SizeAt(s, Start(w, k)) \in Nat
             /\ w[k + 1].end = Start(w, k) + HeaderSize + SizeAt(s, Start(w, k))
             /\ w[k + 1].end <= Len(s)
             /\ w[k + 1].msg = Unpack(Cells(s, Start(w, k), HeaderSize),
                                 Cells(s, Start(w, k) + HeaderSize, SizeAt(s, Start(w, k))))
             /\ Start(w, k + 1) = w[k + 1].end
  <2>1. k + 1 \in DOMAIN w /\ (k + 1) - 1 = k /\ k + 1 # 0
    BY <1>1, <1>4
  <2>2. Framed(s, w, k + 1)
    BY <2>1 DEF StreamInv
  <2>3. /\ SizeAt(s, Start(w, k)) \in Nat
        /\ w[k + 1].end = Start(w, k) + HeaderSize + SizeAt(s, Start(w, k))
        /\ w[k + 1].end <= Len(s)
        /\ w[k + 1].msg = Unpack(Cells(s, Start(w, k), HeaderSize),
                                 Cells(s, Start(w, k) + HeaderSize, SizeAt(s, Start(w, k))))
    BY <2>1, <2>2, Zenon DEF Framed
  <2>4. Start(w, k + 1) = w[k + 1].end
    BY <2>1 DEF Start
  <2> QED
    BY <2>3, <2>4
<1>5. k = Len(w) => \/ Start(w, k) = Len(s)
                    \/ Start(w, k) + HeaderSize <= Len(s) /\ SizeAt(s, Start(w, k)) < 0
  BY DEF StreamInv
<1> QED
  BY <1>3, <1>4, <1>5

Agree(t, s, m) == \A i \in 1..m : t[i] = s[i]

LEMMA CellsKept ==
  ASSUME NEW s, NEW t, NEW m \in Nat, Agree(t, s, m)
  PROVE  \A from, n \in Nat : from + n <= m => Cells(t, from, n) = Cells(s, from, n)
<1> SUFFICES ASSUME NEW from \in Nat, NEW n \in Nat, from + n <= m
             PROVE  Cells(t, from, n) = Cells(s, from, n)
  OBVIOUS
<1>1. \A i \in 1..n : t[from + i] = s[from + i]
  BY DEF Agree
<1> QED
  BY <1>1 DEF Cells

LEMMA CutAt ==
  ASSUME NEW q \in Seq(Int), NEW from \in Nat, NEW n \in Nat, from + n <= Len(q)
  PROVE  \A i \in 1..n : SubSeq(q, from + 1, from + n)[i] = q[from + i]
  BY SMTT(40)

LEMMA CellsNew ==
  ASSUME NEW s \in Seq(Int), NEW q \in Seq(Int), NEW from \in Nat, NEW n \in Nat,
         from + n <= Len(q)
  PROVE  Cells(s \o q, Len(s) + from, n) = SubSeq(q, from + 1, from + n)
<1>1. \A i \in 1..(Len(s) + Len(q)) : (s \o q)[i] = IF i <= Len(s) THEN s[i] ELSE q[i - Len(s)]
  BY ConcatProperties
<1>2. ASSUME NEW i \in 1..n PROVE (s \o q)[Len(s) + from + i] = q[from + i]
  <2>1. /\ Len(s) + from + i \in 1..(Len(s) + Len(q))
        /\ ~(Len(s) + from + i <= Len(s))
        /\ Len(s) + from + i - Len(s) = from + i
    BY LenProperties
  <2> DEFINE x == Len(s) + from + i
  <2>2. (s \o q)[x] = q[x - Len(s)]
    BY <1>1, <2>1
  <2>3. q[x - Len(s)] = q[from + i]
    BY <2>1
  <2> QED
    BY <2>2, <2>3
<1>3. Cells(s \o q, Len(s) + from, n) = [i \in 1..n |-> q[from + i]]
  BY <1>2 DEF Cells
<1> DEFINE cut == SubSeq(q, from + 1, from + n)
<1>4. cut \in Seq(Int) /\ Len(cut) = n /\ \A i \in 1..n : cut[i] = q[from + i]
  <2>1. cut \in Seq(Int)
    OBVIOUS
  <2>2. Len(cut) = n
    OBVIOUS
  <2>3. \A i \in 1..n : cut[i] = q[from + i]
    BY CutAt, Zenon
  <2> QED
    BY <2>1, <2>2, <2>3
<1> HIDE DEF cut
<1>5. cut = [i \in 1..n |-> cut[i]]
  BY <1>4, LenProperties
<1>6. cut = [i \in 1..n |-> q[from + i]]
  BY <1>4, <1>5
<1> QED
  BY <1>3, <1>6 DEF cut

\* Writing leaves the messages before it alone.
LEMMA FramedKept ==
  ASSUME NEW s \in Seq(Int), NEW w \in Sent, StreamInv(s, w),
         NEW t \in Seq(Int), Len(s) <= Len(t), \A i \in 1..Len(s) : t[i] = s[i],
         NEW v, \A k \in 1..Len(w) : v[k] = w[k],
         NEW k \in 1..Len(w)
  PROVE  Framed(t, v, k) /\ v[k].end <= Len(s)
<1> DEFINE from == Start(w, k - 1)
           size == SizeAt(s, from)
<1>1. /\ k - 1 \in 0..Len(w) /\ k - 1 < Len(w) /\ k - 1 + 1 = k
      /\ Len(s) \in Nat /\ Len(t) \in Nat /\ v[k] = w[k]
  BY LenProperties DEF Sent
<1>2. /\ from \in Nat /\ size \in Nat
      /\ w[k].end = from + HeaderSize + size
      /\ w[k].end <= Len(s)
      /\ w[k].msg = Unpack(Cells(s, from, HeaderSize), Cells(s, from + HeaderSize, size))
  BY <1>1, StreamFacts, Zenon
<1>3. Start(v, k - 1) = from
  <2>1. CASE k - 1 = 0
    BY <2>1 DEF Start
  <2>2. CASE k - 1 # 0
    <3>1. k - 1 \in 1..Len(w)
      BY <1>1, <2>2
    <3> QED
      BY <2>2, <3>1 DEF Start
  <2> QED
    BY <2>1, <2>2
<1> HIDE DEF from
<1>4. from + HeaderSize + size \in Nat /\ from + HeaderSize + size <= Len(s)
  <2>1. from \in Nat /\ size \in Nat /\ HeaderSize \in Nat
    BY <1>2, HeaderFacts
  <2>2. from + HeaderSize + size = w[k].end /\ w[k].end <= Len(s)
    BY <1>2
  <2> HIDE DEF size
  <2>3. from + HeaderSize + size \in Nat
    BY <2>1
  <2> QED
    BY <2>2, <2>3, Zenon
<1> HIDE DEF size
<1>5. /\ from + 2 \in 1..Len(s) /\ from + HeaderSize <= Len(s)
      /\ from + HeaderSize \in Nat
  BY <1>1, <1>2, <1>4, HeaderFacts, SMTT(40)
<1>6. SizeAt(t, from) = size
  BY <1>5 DEF SizeAt, size
<1>7. \A i, j \in Nat : i + j <= Len(s) => Cells(t, i, j) = Cells(s, i, j)
  <2>1. Agree(t, s, Len(s)) /\ Len(s) \in Nat
    BY <1>1 DEF Agree
  <2> QED
    BY <2>1, CellsKept
<1>8. /\ Cells(t, from, HeaderSize) = Cells(s, from, HeaderSize)
      /\ Cells(t, from + HeaderSize, size) = Cells(s, from + HeaderSize, size)
  BY <1>2, <1>4, <1>5, <1>7, HeaderFacts, Zenon
<1>9. w[k].end <= Len(t)
  BY <1>1, <1>2, <1>4
<1> QED
  BY <1>1, <1>2, <1>3, <1>6, <1>8, <1>9, Zenon DEF Framed

\* A stream with a package more.
LEMMA StreamWrite ==
  ASSUME NEW s \in Seq(Int), NEW w \in Sent, StreamInv(s, w), Start(w, Len(w)) = Len(s),
         NEW p \in AllPackages
  PROVE  LET t == s \o p.cells
             v == IF p.msg = NoMessage THEN w
                  ELSE Append(w, [end |-> Len(s) + Len(p.cells), msg |-> p.msg])
         IN /\ t \in Seq(Int) /\ Len(s) <= Len(t)
            /\ \A i \in 1..Len(s) : t[i] = s[i]
            /\ v \in Sent /\ Len(w) <= Len(v)
            /\ \A k \in 1..Len(w) : v[k] = w[k]
            /\ \A k \in 1..Len(v) : k > Len(w) => v[k].end > Len(s)
            /\ StreamInv(t, v)
<1> DEFINE q == p.cells
           m == p.msg
           size == SizeOfBody(q)
           t == s \o q
           e == [end |-> Len(s) + Len(q), msg |-> m]
           v == IF m = NoMessage THEN w ELSE Append(w, e)
           n == Len(w)
           len == Len(s)
<1>1. /\ q \in Seq(Int) /\ Len(q) >= HeaderSize
      /\ IF size < 0 THEN m = NoMessage
         ELSE /\ Len(q) = HeaderSize + size
              /\ m = Says(q) /\ m # NoMessage
      /\ m \in AllMessages
  BY PackageFacts DEF IsPackage
<1>2. SUFFICES /\ t \in Seq(Int) /\ Len(s) <= Len(t)
               /\ \A i \in 1..Len(s) : t[i] = s[i]
               /\ v \in Sent /\ Len(w) <= Len(v)
               /\ \A k \in 1..Len(w) : v[k] = w[k]
               /\ \A k \in 1..Len(v) : k > Len(w) => v[k].end > Len(s)
               /\ StreamInv(t, v)
  OBVIOUS
<1> HIDE DEF q, m
<1>3. len \in Nat /\ Len(q) \in Nat /\ n \in Nat /\ DOMAIN w = 1..n
  BY <1>1 DEF Sent
<1>4. /\ t \in Seq(Int) /\ Len(t) = len + Len(q)
      /\ \A i \in 1..(len + Len(q)) : t[i] = IF i <= len THEN s[i] ELSE q[i - len]
  BY <1>1, ConcatProperties
<1>5. \A k \in 0..Len(w) : Start(w, k) \in Nat
  BY StreamFacts
<1>6. /\ Append(w, e) \in Sent /\ Len(Append(w, e)) = n + 1
      /\ \A k \in 1..n : Append(w, e)[k] = w[k]
      /\ Append(w, e)[n + 1] = e
  <2>1. e \in [end : Nat, msg : AllMessages]
    BY <1>1, <1>3
  <2> HIDE DEF e
  <2> QED
    BY <2>1, AppendProperties DEF Sent
<1> HIDE DEF t
<1>7. len <= Len(t) /\ \A i \in 1..len : t[i] = s[i]
  BY <1>3, <1>4
<1>8. size \in Int /\ SizeAt(t, len) = size
  <2>1. /\ 2 \in 1..Len(q) /\ len + 2 \in 1..(len + Len(q))
        /\ ~(len + 2 <= len) /\ len + 2 - len = 2
    BY <1>1, <1>3, HeaderFacts
  <2>2. t[len + 2] = q[len + 2 - len]
    BY <1>4, <2>1
  <2>3. q[2] \in Int
    BY <1>1, <2>1, ElementOfSeq
  <2> QED
    BY <2>1, <2>2, <2>3, Zenon DEF SizeAt, SizeOfBody, NumberAt
<1> HIDE DEF size
<1>9. CASE m = NoMessage
  <2>1. v = w
    BY <1>9
  <2>2. size < 0
    BY <1>1, <1>9
  <2>3. \A k \in 1..n : Framed(t, w, k)
    BY <1>4, <1>7, FramedKept
  <2>4. Start(w, n) + HeaderSize <= Len(t) /\ SizeAt(t, Start(w, n)) < 0
    <3>1. Start(w, n) = len
      OBVIOUS
    <3>2. len + HeaderSize <= Len(t)
      BY <1>1, <1>3, <1>4, HeaderFacts
    <3> QED
      BY <1>8, <2>2, <3>1, <3>2, Zenon
  <2>5. StreamInv(t, w)
    BY <1>3, <2>3, <2>4 DEF StreamInv
  <2> HIDE DEF v
  <2> QED
    BY <1>3, <1>4, <1>7, <2>1, <2>5
<1>10. CASE m # NoMessage
  <2>1. v = Append(w, e)
    BY <1>10
  <2> HIDE DEF v
  <2>2. v \in Sent /\ Len(v) = n + 1 /\ v[n + 1] = e /\ \A k \in 1..n : v[k] = w[k]
    BY <1>6, <2>1, Zenon
  <2>3. v[n + 1].end = len + Len(q) /\ v[n + 1].msg = m
    BY <2>2
  <2>4. DOMAIN v = 1..(n + 1)
    BY <2>2, LenProperties DEF Sent
  <2>5. size \in Nat /\ Len(q) = HeaderSize + size /\ m = Says(q)
    BY <1>1, <1>8, <1>10
  <2> HIDE DEF e
  <2>6. ASSUME NEW k \in 1..n PROVE Framed(t, v, k) /\ v[k].end <= len
    BY <1>4, <1>7, <2>2, FramedKept
  <2>7. Start(v, n) = len
    <3>1. Start(v, n) = Start(w, n)
      BY <1>3, <2>2 DEF Start
    <3> QED
      BY <3>1
  <2>8. Says(q) = Unpack(Cells(t, len, HeaderSize), Cells(t, len + HeaderSize, size))
    <3>1. 0 + HeaderSize <= Len(q) /\ HeaderSize + size <= Len(q) /\ 0 \in Nat
      BY <1>1, <1>3, <2>5, HeaderFacts
    <3>2. Cells(t, len + 0, HeaderSize) = SubSeq(q, 0 + 1, 0 + HeaderSize)
      BY <1>1, <3>1, HeaderFacts, CellsNew, Zenon DEF t
    <3>3. Cells(t, len + HeaderSize, size) = SubSeq(q, HeaderSize + 1, HeaderSize + size)
      BY <1>1, <2>5, <3>1, HeaderFacts, CellsNew, Zenon DEF t
    <3>4. len + 0 = len /\ 0 + 1 = 1 /\ 0 + HeaderSize = HeaderSize
      BY <1>3, HeaderFacts
    <3> QED
      BY <2>5, <3>2, <3>3, <3>4, Zenon DEF Says
  <2>9. Framed(t, v, n + 1)
    <3>1. v[n + 1].end = len + HeaderSize + size /\ v[n + 1].end <= Len(t)
      BY <1>3, <1>4, <2>3, <2>5, HeaderFacts
    <3>2. Start(v, n + 1 - 1) = len
      BY <1>3, <2>7
    <3>3. v[n + 1].msg = Unpack(Cells(t, len, HeaderSize), Cells(t, len + HeaderSize, size))
      BY <2>3, <2>5, <2>8, Zenon
    <3>4. SizeAt(t, len) = size /\ SizeAt(t, len) \in Nat
      BY <1>8, <2>5
    <3> HIDE DEF len
    <3> QED
      BY <3>1, <3>2, <3>3, <3>4 DEF Framed
  <2>10. ASSUME NEW k \in 1..(n + 1) PROVE k = n + 1 \/ k \in 1..n
    BY <1>3
  <2>11. v[n + 1].end > len /\ v[n + 1].end \in Nat
    BY <1>1, <1>3, <2>3, HeaderFacts
  <2>12. ASSUME NEW i \in 1..(n + 1), NEW j \in 1..(n + 1), i < j PROVE v[i].end < v[j].end
    <3>1. i \in 1..n /\ v[i] = w[i]
      BY <1>3, <2>2, <2>12
    <3>2. w[i].end \in Nat /\ w[i].end <= len
      <4>1. w[i] \in [end : Nat, msg : AllMessages]
        BY <1>3, <3>1, ElementOfSeq DEF Sent
      <4> QED
        BY <2>6, <3>1, <4>1
    <3>3. CASE j = n + 1
      <4> DEFINE x == v[n + 1].end  y == w[i].end
      <4>1. x > len /\ x \in Nat /\ y \in Nat /\ y <= len
        BY <2>11, <3>2
      <4> HIDE DEF x, y
      <4>2. y < x
        BY <1>3, <4>1
      <4> QED
        BY <3>1, <3>3, <4>2, Zenon DEF x, y
    <3>4. CASE j # n + 1
      <4>1. j \in 1..n /\ v[j] = w[j]
        BY <2>2, <2>10, <3>4
      <4>2. w[i].end < w[j].end
        BY <1>3, <2>12, <3>1, <4>1, Zenon DEF StreamInv
      <4> QED
        BY <3>1, <4>1, <4>2, Zenon
    <3> QED
      BY <3>3, <3>4
  <2>13. Start(v, Len(v)) = Len(t)
    <3>1. n + 1 # 0
      BY <1>3
    <3> QED
      BY <1>4, <2>2, <2>3, <3>1, Zenon DEF Start
  <2>14. StreamInv(t, v)
    <3>1. \A k \in DOMAIN v : Framed(t, v, k)
      BY <2>4, <2>6, <2>9, <2>10, Zenon
    <3>2. \A i, j \in DOMAIN v : i < j => v[i].end < v[j].end
      BY <2>4, <2>12, Zenon
    <3> QED
      BY <2>13, <3>1, <3>2, Zenon DEF StreamInv
  <2>15. \A k \in 1..Len(v) : k > n => v[k].end > len
    <3>1. \A k \in 1..(n + 1) : k > n => k = n + 1
      BY <1>3
    <3> QED
      BY <2>2, <2>11, <3>1, Zenon
  <2>16. n <= Len(v)
    BY <1>3, <2>2
  <2> QED
    BY <1>4, <1>7, <2>2, <2>14, <2>15, <2>16
<1> QED
  BY <1>9, <1>10

-----------------------------------------------------------------------------
(* The steps. *)

LEMMA ConnTypes ==
  ASSUME TypeOK, NEW c \in Conns
  PROVE  /\ stream[c] \in Seq(Int) /\ Len(stream[c]) \in Nat
         /\ limit[c] \in Nat /\ pos[c] \in Nat
         /\ header[c] \in Seq(Int) \cup {NoBuffer} /\ body[c] \in Seq(Int) \cup {NoBuffer}
         /\ bytesRead[c] \in Nat /\ bytesExpected[c] \in Nat
         /\ at[c] \in {"poll", "header", "body", "recv"}
         /\ inWorker[c] \in BOOLEAN /\ closed[c] \in BOOLEAN /\ due[c] \in 0..2
         /\ got[c] \in Seq(AllMessages) /\ Len(got[c]) \in Nat
         /\ DOMAIN got[c] = 1..Len(got[c])
         /\ whole[c] \in Sent /\ Len(whole[c]) \in Nat
         /\ DOMAIN whole[c] = 1..Len(whole[c])
<1>1. stream[c] \in Seq(Int) /\ got[c] \in Seq(AllMessages) /\ whole[c] \in Sent
  BY DEF TypeOK, Sent
<1>2. /\ Len(stream[c]) \in Nat /\ Len(got[c]) \in Nat /\ Len(whole[c]) \in Nat
      /\ DOMAIN got[c] = 1..Len(got[c]) /\ DOMAIN whole[c] = 1..Len(whole[c])
  BY <1>1, LenProperties DEF Sent
<1> QED
  BY <1>1, <1>2 DEF TypeOK

\* A step of one connection.
LEMMA OneMoves ==
  ASSUME IInv, TypeOK', NEW c \in Conns, ConnInv(c)',
         \A d \in Conns : d # c => Untouched(d)
  PROVE  IInv'
<1>1. ASSUME NEW d \in Conns PROVE ConnInv(d)'
  BY UntouchedInv DEF IInv
<1> QED
  BY <1>1 DEF IInv

LEMMA BufferKept ==
  ASSUME TypeOK, NEW c \in Conns, NEW from \in Nat, BufferInv(c, from),
         from + bytesRead[c] <= Len(stream[c]),
         \A i \in 1..Len(stream[c]) : stream'[c][i] = stream[c][i],
         header'[c] = header[c], body'[c] = body[c], at'[c] = at[c],
         bytesRead'[c] = bytesRead[c], bytesExpected'[c] = bytesExpected[c]
  PROVE  BufferInv(c, from)'
<1> DEFINE read == bytesRead[c]  s == stream[c]  t == stream'[c]  n == Len(stream[c])
           h == header[c]  b == body[c]
<1>1. read \in Nat /\ n \in Nat /\ from + read <= n /\ HeaderSize \in Nat /\ HeaderSize >= 2
  BY ConnTypes, HeaderFacts
<1>2. b # NoBuffer => DOMAIN b \subseteq Nat \ {0}
  <2>1. b # NoBuffer => b \in Seq(Int)
    BY ConnTypes
  <2> QED
    BY <2>1
<1>3. \A i \in 1..n : t[i] = s[i]
  OBVIOUS
<1> HIDE DEF read, s, t, n
<1>4. \A i \in 1..HeaderSize : i <= read => t[from + i] = s[from + i]
  BY <1>1, <1>3
<1>5. HeaderSize <= read => SizeAt(t, from) = SizeAt(s, from)
  BY <1>1, <1>3 DEF SizeAt
<1>6. b # NoBuffer => \A i \in DOMAIN b : HeaderSize + i <= read =>
        t[from + HeaderSize + i] = s[from + HeaderSize + i]
  BY <1>1, <1>2, <1>3
<1>7. /\ h # NoBuffer => /\ Len(h) = HeaderSize
                         /\ \A i \in 1..HeaderSize : i <= read => h[i] = t[from + i]
      /\ b # NoBuffer =>
         /\ Len(b) = SizeAt(t, from)
         /\ bytesExpected[c] = HeaderSize + SizeAt(t, from)
         /\ HeaderSize <= read /\ read < bytesExpected[c]
         /\ \A i \in DOMAIN b : HeaderSize + i <= read => b[i] = t[from + HeaderSize + i]
  <2>1. /\ h # NoBuffer => /\ Len(h) = HeaderSize
                           /\ \A i \in 1..HeaderSize : i <= read => h[i] = s[from + i]
        /\ b # NoBuffer =>
           /\ Len(b) = SizeAt(s, from)
           /\ bytesExpected[c] = HeaderSize + SizeAt(s, from)
           /\ HeaderSize <= read /\ read < bytesExpected[c]
           /\ \A i \in DOMAIN b : HeaderSize + i <= read => b[i] = s[from + HeaderSize + i]
    BY Zenon DEF BufferInv, read, s
  <2> HIDE DEF h, b
  <2> QED
    BY <1>4, <1>5, <1>6, <2>1, Zenon
<1> QED
  BY <1>7, Zenon DEF BufferInv, read, t, h, b

LEMMA WriteStep ==
  ASSUME IInv, NEW c \in Conns, Write(c)
  PROVE  IInv'
<1> DEFINE s == stream[c]  w == whole[c]
<1>1. TypeOK /\ ConnInv(c) /\ StreamInv(s, w) /\ ReadInv(c)
  BY DEF IInv, ConnInv
<1>2. PICK p \in AllPackages :
        /\ stream' = [stream EXCEPT ![c] = @ \o p.cells]
        /\ whole' = IF p.msg = NoMessage THEN whole
                    ELSE [whole EXCEPT ![c] = Append(@,
                            [end |-> Len(stream[c]) + Len(p.cells), msg |-> p.msg])]
  BY Zenon DEF Write
<1>3. /\ UNCHANGED <<served, limit, finished, pos, header, body, bytesRead, bytesExpected,
                      inWorker, due, at, closed, failed, got>>
      /\ s # << >> => w # << >> /\ Last(w).end = Len(s)
  BY Zenon DEF Write, connVars
<1>4. s \in Seq(Int) /\ w \in Sent /\ Len(s) \in Nat /\ Len(w) \in Nat
  BY <1>1, ConnTypes
<1>5. Start(w, Len(w)) = Len(s)
  <2>1. CASE s = << >>
    <3>1. Len(s) = 0
      BY <2>1
    <3>2. Start(w, Len(w)) \in Nat /\ Start(w, Len(w)) <= Len(s)
      <4>1. Len(w) \in 0..Len(w)
        BY <1>4
      <4> QED
        BY <1>1, <1>4, <4>1, StreamFacts
    <3> QED
      BY <3>1, <3>2
  <2>2. CASE s # << >>
    <3>1. w # << >> /\ Last(w).end = Len(s)
      BY <1>3, <2>2
    <3>2. Len(w) # 0
      BY <1>4, <3>1, EmptySeq DEF Sent
    <3> QED
      BY <3>1, <3>2, Zenon DEF Start, Last
  <2> QED
    BY <2>1, <2>2
<1> DEFINE t == s \o p.cells
           v == IF p.msg = NoMessage THEN w
                ELSE Append(w, [end |-> Len(s) + Len(p.cells), msg |-> p.msg])
<1>6. stream'[c] = t /\ whole'[c] = v
  BY <1>1, <1>2 DEF TypeOK
<1>7. /\ t \in Seq(Int) /\ Len(s) <= Len(t)
      /\ \A i \in 1..Len(s) : t[i] = s[i]
      /\ v \in Sent /\ Len(w) <= Len(v)
      /\ \A k \in 1..Len(w) : v[k] = w[k]
      /\ StreamInv(t, v)
  BY <1>1, <1>4, <1>5, StreamWrite, Zenon
<1> HIDE DEF t, v
<1>8. TypeOK'
  <2>1. stream' = [stream EXCEPT ![c] = t]
    BY <1>2 DEF t
  <2>2. whole' \in [Conns -> Sent]
    <3>1. whole \in [Conns -> Sent] /\ DOMAIN whole = Conns
      BY <1>1 DEF TypeOK, Sent
    <3>2. whole' = whole \/ whole' = [whole EXCEPT ![c] = v]
      BY <1>2 DEF v
    <3> QED
      BY <1>7, <3>1, <3>2
  <2>3. stream' \in [Conns -> Seq(Int)]
    BY <1>1, <1>7, <2>1 DEF TypeOK
  <2> QED
    BY <1>1, <1>3, <2>2, <2>3 DEF TypeOK, Sent
<1>9. ASSUME NEW d \in Conns, d # c PROVE Untouched(d)
  <2>1. stream'[d] = stream[d] /\ whole'[d] = whole[d]
    BY <1>1, <1>2, <1>9 DEF TypeOK
  <2> QED
    BY <1>3, <2>1 DEF Untouched
<1>10. From(c)' = From(c) /\ From(c) \in Nat
  <2>1. Len(got[c]) \in 0..Len(w) /\ got' = got
    BY <1>1, <1>3, <1>4, ConnTypes DEF ReadInv
  <2>2. Start(v, Len(got[c])) = Start(w, Len(got[c]))
    BY <1>4, <1>7, <2>1 DEF Start
  <2>3. Start(w, Len(got[c])) \in Nat
    BY <1>1, <1>4, <2>1, StreamFacts
  <2> QED
    BY <1>6, <2>1, <2>2, <2>3 DEF From
<1>11. ReadInv(c)'
  <2>1. PICK from \in Nat : from = From(c) /\ from = From(c)'
    BY <1>10
  <2>2. ASSUME due[c] = 0 PROVE BufferInv(c, From(c))'
    <3>1. BufferInv(c, from) /\ pos[c] = from + bytesRead[c]
      BY <1>1, <2>1, <2>2 DEF ReadInv
    <3>2. from + bytesRead[c] <= Len(stream[c])
      BY <1>1, <3>1, ConnTypes DEF ConnInv
    <3>3. BufferInv(c, from)'
      BY <1>1, <1>3, <1>6, <1>7, <3>1, <3>2, BufferKept
    <3> QED
      BY <2>1, <3>3
  <2>3. Len(got[c]) <= Len(v) /\ \A k \in DOMAIN got[c] : got[c][k] = v[k].msg
    <3>1. Len(got[c]) \in Nat /\ Len(v) \in Nat /\ DOMAIN got[c] = 1..Len(got[c])
      BY <1>1, <1>7, ConnTypes DEF Sent
    <3>2. Len(got[c]) <= Len(w) /\ \A k \in DOMAIN got[c] : got[c][k] = w[k].msg
      BY <1>1 DEF ReadInv
    <3> QED
      BY <1>4, <1>7, <3>1, <3>2, SMTT(40)
  <2>4. StaleInv(c)' = StaleInv(c)
    BY <1>3 DEF StaleInv
  <2> QED
    BY <1>1, <1>3, <1>6, <1>10, <2>2, <2>3, <2>4 DEF ReadInv
<1>12. ConnInv(c)'
  BY <1>1, <1>3, <1>4, <1>6, <1>7, <1>11, ConnTypes DEF ConnInv
<1> QED
  BY <1>8, <1>9, <1>12, OneMoves

LEMMA ArriveStep ==
  ASSUME IInv, NEW c \in Conns, Arrive(c)
  PROVE  IInv'
<1>1. TypeOK /\ ConnInv(c)
  BY DEF IInv
<1>2. TypeOK'
  <2>1. limit' \in [Conns -> Nat]
    BY <1>1 DEF Arrive, TypeOK
  <2> QED
    BY <1>1, <2>1 DEF Arrive, connVars, TypeOK
<1>3. ASSUME NEW d \in Conns, d # c PROVE Untouched(d)
  BY <1>1, <1>3 DEF Arrive, connVars, TypeOK, Untouched
<1>4. limit'[c] = limit[c] + 1 /\ limit[c] < Len(stream[c])
  BY <1>1 DEF Arrive, TypeOK
<1>5. /\ From(c)' = From(c) /\ BufferInv(c, From(c))' = BufferInv(c, From(c))
      /\ ReadInv(c)' = ReadInv(c)
  BY DEF Arrive, connVars, From, BufferInv, StaleInv, ReadInv
<1>6. stream' = stream /\ whole' = whole /\ pos' = pos
  BY DEF Arrive
<1>7. ConnInv(c)'
  BY <1>1, <1>4, <1>5, <1>6, ConnTypes DEF ConnInv
<1> QED
  BY <1>2, <1>3, <1>7, OneMoves

LEMMA FinishStep ==
  ASSUME IInv, NEW c \in Conns, Finish(c)
  PROVE  IInv'
<1>1. TypeOK /\ ConnInv(c)
  BY DEF IInv
<1>2. TypeOK'
  BY <1>1 DEF Finish, connVars, TypeOK
<1>3. ASSUME NEW d \in Conns PROVE Untouched(d)
  BY <1>1 DEF Finish, connVars, Untouched
<1>4. ConnInv(c)'
  BY <1>1, <1>3, UntouchedInv
<1> QED
  BY <1>2, <1>3, <1>4, OneMoves

\* What a reader's step has to show when it takes no message.
LEMMA ReaderStep ==
  ASSUME IInv, NEW c \in Conns,
         UNCHANGED <<stream, limit, whole, got>>, pos'[c] <= limit[c],
         due'[c] = 0, pos'[c] = From(c) + bytesRead'[c],
         at'[c] # "poll" => ~closed'[c] /\ ~inWorker'[c],
         NEW from, from = From(c), BufferInv(c, from)'
  PROVE  ConnInv(c)'
<1>1. From(c)' = From(c)
  BY DEF From
<1>2. BufferInv(c, From(c))'
  BY <1>1
<1>3. TypeOK /\ ConnInv(c) /\ ReadInv(c)
  BY DEF IInv, ConnInv
<1>4. ReadInv(c)'
  BY <1>1, <1>2, <1>3 DEF ReadInv
<1> QED
  BY <1>3, <1>4, Zenon DEF ConnInv

\* The same while the message before is still in the buffers.
LEMMA StaleStep ==
  ASSUME IInv, NEW c \in Conns,
         UNCHANGED <<stream, limit, whole, got>>, pos'[c] = pos[c],
         due[c] > 0, due'[c] > 0,
         at'[c] # "poll" => ~closed'[c] /\ ~inWorker'[c],
         StaleInv(c)'
  PROVE  ConnInv(c)'
<1>1. From(c)' = From(c)
  BY DEF From
<1>2. TypeOK /\ ConnInv(c) /\ ReadInv(c) /\ ~(due'[c] = 0)
  BY DEF IInv, ConnInv
<1>3. ReadInv(c)'
  BY <1>1, <1>2 DEF ReadInv
<1> QED
  BY <1>2, <1>3, Zenon DEF ConnInv

\* Who asks for more, or finds a size that is negative, reads the next message.
LEMMA Fresh ==
  ASSUME IInv, NEW c \in Conns,
         \/ at[c] = "header"
         \/ bytesRead[c] < bytesExpected[c]
         \/ SizeOfBody(header[c]) < 0
  PROVE  due[c] = 0
<1>1. due[c] \in 0..2 /\ bytesRead[c] \in Nat /\ bytesExpected[c] \in Nat
  BY ConnTypes DEF IInv
<1>2. ASSUME due[c] > 0 PROVE FALSE
  <2>1. StaleInv(c)
    BY <1>2 DEF IInv, ConnInv, ReadInv
  <2> QED
    BY <1>1, <2>1 DEF StaleInv
<1> QED
  BY <1>1, <1>2

\* Where the reader of a connection is when the last message is settled.
LEMMA ReaderFacts ==
  ASSUME IInv, NEW c \in Conns, due[c] = 0
  PROVE  /\ From(c) \in Nat
         /\ pos[c] = From(c) + bytesRead[c]
         /\ pos[c] <= limit[c] /\ limit[c] <= Len(stream[c])
         /\ BufferInv(c, From(c))
         /\ Len(got[c]) \in 0..Len(whole[c])
<1>1. TypeOK /\ ConnInv(c) /\ StreamInv(stream[c], whole[c]) /\ ReadInv(c)
  BY DEF IInv, ConnInv
<1>2. Len(got[c]) \in 0..Len(whole[c])
  BY <1>1, ConnTypes DEF ReadInv
<1>3. From(c) \in Nat
  BY <1>1, <1>2, ConnTypes, StreamFacts DEF From
<1> QED
  BY <1>1, <1>2, <1>3 DEF ConnInv, ReadInv

LEMMA PollStep ==
  ASSUME IInv, NEW c \in Conns, Poll(c)
  PROVE  IInv'
<1>1. TypeOK /\ ConnInv(c) /\ ~inWorker[c] /\ ~closed[c]
  BY DEF IInv, Poll
<1>2. Buffer(HeaderSize) \in Seq(Int) /\ Len(Buffer(HeaderSize)) = HeaderSize
  BY HeaderFacts DEF Buffer, Junk
<1>3. TypeOK'
  <2>1. at' \in [Conns -> {"poll", "header", "body", "recv"}]
    BY <1>1 DEF Poll, TypeOK
  <2>2. header' \in [Conns -> Seq(Int) \cup {NoBuffer}]
    <3> DEFINE new == IF header[c] = NoBuffer THEN Buffer(HeaderSize) ELSE header[c]
    <3>1. header' = [header EXCEPT ![c] = new]
      BY Zenon DEF Poll
    <3>2. header \in [Conns -> Seq(Int) \cup {NoBuffer}]
      BY <1>1, Zenon DEF TypeOK
    <3>3. new \in Seq(Int) \cup {NoBuffer}
      BY <1>2, <3>2
    <3> HIDE DEF new
    <3> QED
      BY <3>1, <3>2, <3>3
  <2> QED
    BY <1>1, <2>1, <2>2, Zenon DEF Poll, writerVars, TypeOK
<1>4. ASSUME NEW d \in Conns, d # c PROVE Untouched(d)
  BY <1>1, <1>4 DEF Poll, writerVars, TypeOK, Untouched
<1>5. /\ at'[c] = IF bytesRead[c] < HeaderSize THEN "header" ELSE "body"
      /\ header'[c] = IF header[c] = NoBuffer THEN Buffer(HeaderSize) ELSE header[c]
  BY <1>1 DEF Poll, TypeOK
<1>6. UNCHANGED <<stream, limit, whole, got, pos, body, bytesRead, bytesExpected,
                  inWorker, due, closed>>
  BY DEF Poll, writerVars
<1>7. PICK from : from = From(c)
  OBVIOUS
<1>8. ASSUME due[c] = 0 PROVE BufferInv(c, from)'
  <2>1. BufferInv(c, from) /\ bytesRead[c] \in Nat
    BY <1>1, <1>7, <1>8, ReaderFacts, ConnTypes
  <2>2. NoBuffer # Buffer(HeaderSize)
    <3>1. NoBuffer \notin Seq(Int)
      BY NoBufferAssumption
    <3> QED
      BY <1>2, <3>1, Zenon
  <2>3. at'[c] \in {"header", "body"} /\ (at'[c] = "header" <=> bytesRead[c] < HeaderSize)
    BY <1>5
  <2>4. header'[c] # NoBuffer
    BY <1>5, <2>2
  <2>5. /\ Len(header'[c]) = HeaderSize
        /\ \A i \in 1..HeaderSize : i <= bytesRead[c] => header'[c][i] = stream[c][from + i]
    <3>1. CASE header[c] = NoBuffer
      <4>1. bytesRead[c] = 0
        BY <2>1, <3>1 DEF BufferInv
      <4> QED
        BY <1>2, <1>5, <3>1, <4>1
    <3>2. CASE header[c] # NoBuffer
      BY <1>5, <2>1, <3>2 DEF BufferInv
    <3> QED
      BY <3>1, <3>2
  <2> QED
    BY <1>6, <2>1, <2>3, <2>4, <2>5, HeaderFacts DEF BufferInv
<1>9. CASE due[c] = 0
  <2>1. ConnInv(c)'
    BY <1>1, <1>6, <1>7, <1>8, <1>9, ReaderFacts, ReaderStep
  <2> QED
    BY <1>3, <1>4, <2>1, OneMoves
<1>10. CASE due[c] > 0
  <2>1. StaleInv(c)
    BY <1>1, <1>10 DEF ConnInv, ReadInv
  <2>2. at'[c] = "body" /\ header'[c] = header[c]
    <3>1. bytesRead[c] \in Nat
      BY <1>1, ConnTypes
    <3> QED
      BY <1>5, <2>1, <3>1, HeaderFacts DEF StaleInv
  <2>3. StaleInv(c)'
    BY <1>6, <2>1, <2>2 DEF StaleInv
  <2>4. ConnInv(c)'
    BY <1>1, <1>6, <1>10, <2>3, StaleStep
  <2> QED
    BY <1>3, <1>4, <2>4, OneMoves
<1>11. due[c] = 0 \/ due[c] > 0
  BY <1>1, ConnTypes
<1> QED
  BY <1>9, <1>10, <1>11

\* A reader that gives up has its buffers as they were.
LEMMA GiveUpStep ==
  ASSUME IInv, NEW c \in Conns, at[c] # "poll", GiveUp(c)
  PROVE  IInv'
<1>0. /\ at' = [at EXCEPT ![c] = "poll"]
      /\ closed' = [closed EXCEPT ![c] = c \in served]
      /\ UNCHANGED <<served, stream, limit, finished, whole, pos, header, body, bytesRead,
                     bytesExpected, inWorker, due, failed, got>>
  BY Zenon DEF GiveUp, writerVars, connVars
<1>1. TypeOK /\ ConnInv(c) /\ ~inWorker[c]
  BY DEF IInv, ConnInv, ReadInv
<1>2. TypeOK'
  <2>1. closed' \in [Conns -> BOOLEAN]
    <3>1. closed \in [Conns -> BOOLEAN]
      BY <1>1 DEF TypeOK
    <3>2. closed' = [closed EXCEPT ![c] = TRUE] \/ closed' = [closed EXCEPT ![c] = FALSE]
      <4>1. (c \in served) = TRUE \/ (c \in served) = FALSE
        OBVIOUS
      <4> QED
        BY <1>0, <4>1, Zenon
    <3> QED
      BY <3>1, <3>2
  <2>2. at' \in [Conns -> {"poll", "header", "body", "recv"}]
    BY <1>0, <1>1 DEF TypeOK
  <2> QED
    BY <1>0, <1>1, <2>1, <2>2, Zenon DEF TypeOK
<1>3. ASSUME NEW d \in Conns, d # c PROVE Untouched(d)
  BY <1>0, <1>1, <1>3 DEF TypeOK, Untouched
<1>4. at'[c] = "poll"
  BY <1>0, <1>1 DEF TypeOK
<1>5. CASE due[c] = 0
  <2>1. PICK from : from = From(c)
    OBVIOUS
  <2>2. BufferInv(c, from)
    BY <1>5, <2>1, ReaderFacts
  <2>3. BufferInv(c, from)'
    BY <1>0, <1>4, <2>2 DEF BufferInv
  <2>4. ConnInv(c)'
    BY <1>0, <1>4, <1>5, <2>1, <2>3, ReaderFacts, ReaderStep
  <2> QED
    BY <1>2, <1>3, <2>4, OneMoves
<1>6. CASE due[c] > 0
  <2>1. StaleInv(c)
    BY <1>6 DEF IInv, ConnInv, ReadInv
  <2>2. StaleInv(c)'
    BY <1>0, <1>4, <2>1 DEF StaleInv
  <2>3. ConnInv(c)'
    BY <1>0, <1>4, <1>6, <2>2, StaleStep
  <2> QED
    BY <1>2, <1>3, <2>3, OneMoves
<1>7. due[c] = 0 \/ due[c] > 0
  BY <1>1, ConnTypes
<1> QED
  BY <1>5, <1>6, <1>7

LEMMA EndOfStreamStep ==
  ASSUME IInv, NEW c \in Conns, EndOfStream(c) \/ RecvNothing(c)
  PROVE  IInv'
<1>1. at[c] # "poll" /\ GiveUp(c)
  BY DEF EndOfStream, RecvNothing
<1> QED
  BY <1>1, GiveUpStep

LEMMA BadSizeStep ==
  ASSUME IInv, NEW c \in Conns, BadSize(c)
  PROVE  IInv'
<1>1. at[c] # "poll" /\ GiveUp(c)
  BY DEF BadSize
<1> QED
  BY <1>1, GiveUpStep

LEMMA ReceivedFacts ==
  ASSUME TypeOK, NEW c \in Conns, NEW buf \in Seq(Int), NEW offset \in Nat, NEW n \in Nat,
         pos[c] + n <= Len(stream[c])
  PROVE  /\ Received(c, buf, offset, n) \in Seq(Int)
         /\ Len(Received(c, buf, offset, n)) = Len(buf)
         /\ \A i \in 1..Len(buf) : Received(c, buf, offset, n)[i] =
              IF i \in (offset + 1)..(offset + n) THEN stream[c][pos[c] + i - offset] ELSE buf[i]
<1> DEFINE Value(i) == IF i \in (offset + 1)..(offset + n)
                       THEN stream[c][pos[c] + i - offset] ELSE buf[i]
<1>1. Len(buf) \in Nat /\ DOMAIN buf = 1..Len(buf) /\ \A i \in 1..Len(buf) : buf[i] \in Int
  BY LenProperties
<1>2. Received(c, buf, offset, n) = [i \in 1..Len(buf) |-> Value(i)]
  BY <1>1, Zenon DEF Received
<1>3. ASSUME NEW i \in 1..Len(buf) PROVE Value(i) \in Int
  <2>1. ASSUME i \in (offset + 1)..(offset + n) PROVE stream[c][pos[c] + i - offset] \in Int
    <3>1. pos[c] \in Nat /\ stream[c] \in Seq(Int) /\ Len(stream[c]) \in Nat
      BY ConnTypes
    <3>2. pos[c] + i - offset \in 1..Len(stream[c])
      BY <2>1, <3>1, SMTT(40)
    <3> QED
      BY <3>1, <3>2, ElementOfSeq
  <2> QED
    BY <1>1, <2>1
<1> HIDE DEF Value
<1>4. /\ [i \in 1..Len(buf) |-> Value(i)] \in Seq(Int)
      /\ Len([i \in 1..Len(buf) |-> Value(i)]) = Len(buf)
  BY <1>1, <1>3
<1> QED
  BY <1>2, <1>4 DEF Value

\* Once the header is read it says how long the message is, and the message is
\* well-formed or the last.
LEMMA HeaderRead ==
  ASSUME IInv, NEW c \in Conns, due[c] = 0, HeaderSize <= bytesRead[c],
         NEW from, from = From(c), NEW size, size = SizeAt(stream[c], from)
  PROVE  /\ header[c] = Cells(stream[c], from, HeaderSize)
         /\ header[c] \in Seq(Int)
         /\ SizeOfBody(header[c]) = size
         /\ size \in Int
         /\ size < 0 => Len(got[c]) = Len(whole[c])
         /\ size >= 0 =>
              /\ Len(got[c]) < Len(whole[c])
              /\ whole[c][Len(got[c]) + 1].end = from + HeaderSize + size
              /\ whole[c][Len(got[c]) + 1].msg =
                   Unpack(header[c], Cells(stream[c], from + HeaderSize, size))
              /\ Start(whole[c], Len(got[c]) + 1) = whole[c][Len(got[c]) + 1].end
<1> DEFINE s == stream[c]  w == whole[c]  k == Len(got[c])  h == header[c]  read == bytesRead[c]
<1>1. TypeOK /\ StreamInv(s, w)
  BY DEF IInv, ConnInv
<1>2. /\ from \in Nat /\ pos[c] = from + read /\ pos[c] <= limit[c] /\ limit[c] <= Len(s)
      /\ BufferInv(c, from) /\ k \in 0..Len(w)
  BY ReaderFacts
<1>3. /\ s \in Seq(Int) /\ w \in Sent /\ Len(s) \in Nat /\ limit[c] \in Nat /\ read \in Nat
      /\ h \in Seq(Int) \cup {NoBuffer} /\ Len(w) \in Nat
  BY <1>1, ConnTypes
<1>4. read > 0 /\ HeaderSize <= read
  BY <1>3, HeaderFacts
<1>5. h \in Seq(Int) /\ Len(h) = HeaderSize /\ \A i \in 1..HeaderSize : h[i] = s[from + i]
  <2>1. /\ h # NoBuffer /\ Len(h) = HeaderSize
        /\ \A i \in 1..HeaderSize : i <= read => h[i] = s[from + i]
    BY <1>2, <1>4 DEF BufferInv
  <2>2. \A i \in 1..HeaderSize : i <= read
    BY <1>3, <1>4, HeaderFacts
  <2> QED
    BY <1>3, <2>1, <2>2
<1> HIDE DEF s, w, k, h, read
<1>6. from + HeaderSize <= Len(s) /\ from + 2 \in 1..Len(s)
  <2> DEFINE n == Len(s)  there == limit[c]  here == pos[c]
  <2>1. /\ n \in Nat /\ there \in Nat /\ from \in Nat /\ read \in Nat
        /\ here = from + read /\ here <= there /\ there <= n /\ HeaderSize <= read
        /\ HeaderSize \in Nat /\ HeaderSize >= 2
    BY <1>2, <1>3, <1>4, HeaderFacts
  <2> HIDE DEF n, there, here
  <2>2. from + HeaderSize <= n /\ from + 2 \in 1..n
    BY <2>1
  <2> QED
    BY <2>2 DEF n
<1>7. h = Cells(s, from, HeaderSize)
  <2>1. h = [i \in 1..HeaderSize |-> h[i]]
    BY <1>5, LenProperties
  <2> QED
    BY <1>5, <2>1 DEF Cells
<1>8. SizeOfBody(h) = size /\ size \in Int
  <2>1. h[2] = s[from + 2]
    BY <1>5, HeaderFacts
  <2>2. s[from + 2] \in Int
    BY <1>3, <1>6, ElementOfSeq
  <2> QED
    BY <2>1, <2>2 DEF SizeOfBody, NumberAt, SizeAt, s
<1>9. from = Start(w, k) /\ size = SizeAt(s, from)
  BY DEF From, w, k, s
<1>10. CASE k < Len(w)
  <2>1. /\ SizeAt(s, Start(w, k)) \in Nat
        /\ w[k + 1].end = Start(w, k) + HeaderSize + SizeAt(s, Start(w, k))
        /\ w[k + 1].msg = Unpack(Cells(s, Start(w, k), HeaderSize),
                            Cells(s, Start(w, k) + HeaderSize, SizeAt(s, Start(w, k))))
        /\ Start(w, k + 1) = w[k + 1].end
    BY <1>1, <1>2, <1>3, <1>10, StreamFacts
  <2>2. size \in Nat
    BY <1>9, <2>1
  <2>3. ~(size < 0)
    BY <2>2
  <2> QED
    BY <1>5, <1>7, <1>8, <1>9, <1>10, <2>1, <2>3, Zenon DEF s, w, k, h
<1>11. CASE ~(k < Len(w))
  <2>1. k = Len(w)
    BY <1>2, <1>3, <1>11
  <2>2. \/ Start(w, k) = Len(s)
        \/ Start(w, k) + HeaderSize <= Len(s) /\ SizeAt(s, Start(w, k)) < 0
    BY <1>1, <1>2, <1>3, <2>1, StreamFacts
  <2>3. size < 0
    BY <1>2, <1>3, <1>6, <1>9, <2>2, HeaderFacts
  <2>4. ~(size >= 0)
    BY <1>8, <2>3
  <2> QED
    BY <1>5, <1>7, <1>8, <2>1, <2>4, Zenon DEF s, w, k, h
<1> QED
  BY <1>10, <1>11

LEMMA RecvHeaderStep ==
  ASSUME IInv, NEW c \in Conns, RecvHeader(c)
  PROVE  IInv'
<1>1. TypeOK /\ ConnInv(c) /\ ~inWorker[c] /\ ~closed[c] /\ due[c] = 0
  BY Fresh DEF IInv, ConnInv, ReadInv, RecvHeader
<1>2. PICK n \in 1..(bytesExpected[c] - bytesRead[c]) :
         /\ n <= Arrived(c)
         /\ header' = [header EXCEPT ![c] = Received(c, @, bytesRead[c], n)]
         /\ pos' = [pos EXCEPT ![c] = @ + n]
         /\ bytesRead' = [bytesRead EXCEPT ![c] = @ + n]
         /\ at' = [at EXCEPT ![c] = IF bytesRead[c] + n < HeaderSize THEN "poll" ELSE "body"]
  BY Zenon DEF RecvHeader
<1>3. UNCHANGED <<served, stream, limit, finished, whole, body, bytesExpected, inWorker,
                  due, closed, failed, got>>
  BY Zenon DEF RecvHeader, writerVars
<1>4. PICK from : from = From(c)
  OBVIOUS
<1> DEFINE h == header[c]  read == bytesRead[c]  s == stream[c]  h2 == Received(c, h, read, n)
<1>5. /\ from \in Nat /\ pos[c] = from + read /\ pos[c] <= limit[c] /\ limit[c] <= Len(s)
      /\ BufferInv(c, from)
  BY <1>1, <1>4, ReaderFacts
<1>6. /\ read \in Nat /\ bytesExpected[c] \in Nat /\ pos[c] \in Nat /\ limit[c] \in Nat
      /\ Len(s) \in Nat /\ h \in Seq(Int) \cup {NoBuffer} /\ body[c] \in Seq(Int) \cup {NoBuffer}
  BY <1>1, ConnTypes
<1>7. at[c] = "header"
  BY DEF RecvHeader
<1>8. /\ h # NoBuffer /\ read < HeaderSize /\ Len(h) = HeaderSize
      /\ \A i \in 1..HeaderSize : i <= read => h[i] = s[from + i]
  BY <1>5, <1>7 DEF BufferInv
<1>9. body[c] = NoBuffer /\ bytesExpected[c] = HeaderSize
  <2>1. ~(HeaderSize <= read)
    BY <1>6, <1>8, HeaderFacts
  <2> QED
    BY <1>5, <2>1 DEF BufferInv
<1>10. n \in Nat /\ n >= 1 /\ read + n <= HeaderSize /\ pos[c] + n <= limit[c]
       /\ pos[c] + n <= Len(s) /\ pos[c] + n \in Nat
  <2>1. n \in 1..(HeaderSize - read) /\ n <= limit[c] - pos[c]
    BY <1>2, <1>9 DEF Arrived
  <2> DEFINE here == pos[c]  there == limit[c]  m == Len(s)
  <2>2. /\ here \in Nat /\ there \in Nat /\ m \in Nat /\ here <= there /\ there <= m
        /\ read \in Nat /\ n <= there - here
    BY <1>5, <1>6, <2>1
  <2> HIDE DEF here, there, m, read
  <2>3. /\ n \in Nat /\ n >= 1 /\ read + n <= HeaderSize /\ here + n <= there
        /\ here + n <= m /\ here + n \in Nat
    BY <2>1, <2>2, HeaderFacts
  <2> QED
    BY <2>3 DEF here, there, m, read
<1>11. /\ h2 \in Seq(Int) /\ Len(h2) = HeaderSize
       /\ \A i \in 1..HeaderSize : h2[i] =
            IF i \in (read + 1)..(read + n) THEN s[pos[c] + i - read] ELSE h[i]
  <2>1. h \in Seq(Int)
    BY <1>6, <1>8
  <2>2. pos[c] + n <= Len(stream[c]) /\ n \in Nat /\ read \in Nat
    BY <1>6, <1>10
  <2>3. /\ h2 \in Seq(Int) /\ Len(h2) = Len(h)
        /\ \A i \in 1..Len(h) : h2[i] =
             IF i \in (read + 1)..(read + n) THEN s[pos[c] + i - read] ELSE h[i]
    <3>1. TypeOK
      BY <1>1
    <3> QED
      BY <2>1, <2>2, <3>1, ReceivedFacts, SMTT(60)
  <2> HIDE DEF h, h2
  <2> QED
    BY <1>8, <2>3, Zenon
<1>12. h2 # NoBuffer
  <2>1. NoBuffer \notin Seq(Int)
    BY NoBufferAssumption
  <2> QED
    BY <1>11, <2>1, Zenon
<1> HIDE DEF h2
<1>13. /\ header'[c] = h2 /\ pos'[c] = pos[c] + n /\ bytesRead'[c] = read + n
       /\ at'[c] = IF read + n < HeaderSize THEN "poll" ELSE "body"
  BY <1>1, <1>2 DEF TypeOK, h2
<1>14. \A i \in 1..HeaderSize : i <= read + n => h2[i] = s[from + i]
  <2> SUFFICES ASSUME NEW i \in 1..HeaderSize, i <= read + n PROVE h2[i] = s[from + i]
    OBVIOUS
  <2>1. CASE i <= read
    <3>1. i \notin (read + 1)..(read + n)
      BY <1>6, <2>1
    <3> QED
      BY <1>8, <1>11, <2>1, <3>1
  <2>2. CASE ~(i <= read)
    <3>1. i \in (read + 1)..(read + n) /\ pos[c] + i - read = from + i
      BY <1>5, <1>6, <1>10, <2>2, HeaderFacts, SMTT(40)
    <3> QED
      BY <1>11, <3>1
  <2> QED
    BY <2>1, <2>2
<1>15. TypeOK'
  <2>1. header' \in [Conns -> Seq(Int) \cup {NoBuffer}]
    BY <1>1, <1>2, <1>11 DEF TypeOK, h2
  <2>2. pos' \in [Conns -> Nat]
    BY <1>1, <1>2, <1>10 DEF TypeOK
  <2>3. bytesRead' \in [Conns -> Nat]
    BY <1>1, <1>2, <1>6, <1>10, SMTT(40) DEF TypeOK
  <2>4. at' \in [Conns -> {"poll", "header", "body", "recv"}]
    BY <1>1, <1>2 DEF TypeOK
  <2> QED
    BY <1>1, <1>3, <2>1, <2>2, <2>3, <2>4 DEF TypeOK
<1>16. ASSUME NEW d \in Conns, d # c PROVE Untouched(d)
  BY <1>1, <1>2, <1>3, <1>16 DEF TypeOK, Untouched
<1>17. BufferInv(c, from)'
  <2>1. /\ Len(header'[c]) = HeaderSize /\ header'[c] # NoBuffer
        /\ \A i \in 1..HeaderSize : i <= bytesRead'[c] => header'[c][i] = stream'[c][from + i]
    BY <1>3, <1>11, <1>12, <1>13, <1>14
  <2>2. body'[c] = NoBuffer /\ bytesExpected'[c] = HeaderSize /\ bytesRead'[c] <= HeaderSize
    BY <1>3, <1>9, <1>10, <1>13
  <2>3. at'[c] # "header" /\ at'[c] # "recv" /\ (at'[c] = "body" => HeaderSize <= bytesRead'[c])
    BY <1>6, <1>10, <1>13, HeaderFacts
  <2> QED
    BY <2>1, <2>2, <2>3 DEF BufferInv
<1>18. ConnInv(c)'
  <2>1. pos'[c] <= limit[c] /\ pos'[c] = From(c) + bytesRead'[c]
    BY <1>4, <1>5, <1>6, <1>10, <1>13
  <2> QED
    BY <1>1, <1>3, <1>4, <1>17, <2>1, ReaderStep
<1> QED
  BY <1>15, <1>16, <1>18, OneMoves

\* Of a message that has been read before there is a buffer, and nothing to read.
LEMMA AllocateStale ==
  ASSUME IInv, NEW c \in Conns, Allocate(c), due[c] > 0
  PROVE  IInv'
<1>1. TypeOK /\ StaleInv(c) /\ ~inWorker[c] /\ ~closed[c]
  BY DEF IInv, ConnInv, ReadInv, Allocate
<1>2. at' = [at EXCEPT ![c] = "recv"] /\ SizeOfBody(header[c]) > 0
  BY DEF Allocate
<1>3. UNCHANGED <<served, stream, limit, finished, whole, pos, header, body, bytesRead,
                  bytesExpected, inWorker, due, closed, failed, got>>
  <2>1. body[c] # NoBuffer
    BY <1>1, <1>2 DEF StaleInv
  <2> QED
    BY <2>1, Zenon DEF Allocate, writerVars
<1>4. TypeOK'
  <2>1. at' \in [Conns -> {"poll", "header", "body", "recv"}]
    BY <1>1, <1>2 DEF TypeOK
  <2> QED
    BY <1>1, <1>3, <2>1, Zenon DEF TypeOK
<1>5. ASSUME NEW d \in Conns, d # c PROVE Untouched(d)
  BY <1>1, <1>2, <1>3, <1>5 DEF TypeOK, Untouched
<1>6. at'[c] = "recv"
  BY <1>1, <1>2 DEF TypeOK
<1>7. StaleInv(c)'
  BY <1>1, <1>2, <1>3, <1>6 DEF StaleInv
<1>8. ConnInv(c)'
  BY <1>1, <1>3, <1>7, StaleStep
<1> QED
  BY <1>4, <1>5, <1>8, OneMoves

LEMMA AllocateFresh ==
  ASSUME IInv, NEW c \in Conns, Allocate(c), due[c] = 0
  PROVE  IInv'
<1>1. TypeOK /\ ConnInv(c) /\ ~inWorker[c] /\ ~closed[c]
  BY DEF IInv, ConnInv, ReadInv, Allocate
<1>2. at[c] = "body" /\ SizeOfBody(header[c]) > 0 /\ at' = [at EXCEPT ![c] = "recv"]
  BY DEF Allocate
<1>3. IF body[c] = NoBuffer
      THEN /\ body' = [body EXCEPT ![c] = Buffer(SizeOfBody(header[c]))]
           /\ bytesExpected' = [bytesExpected EXCEPT ![c] = @ + SizeOfBody(header[c])]
      ELSE UNCHANGED <<body, bytesExpected>>
  BY DEF Allocate
<1>4. UNCHANGED <<served, stream, limit, finished, whole, pos, header, bytesRead, inWorker,
                  due, closed, failed, got>>
  BY Zenon DEF Allocate, writerVars
<1>5. PICK from : from = From(c)
  OBVIOUS
<1> DEFINE size == SizeAt(stream[c], from)
<1>6. BufferInv(c, from) /\ pos[c] = from + bytesRead[c] /\ pos[c] <= limit[c]
  BY <1>1, <1>5, ReaderFacts
<1>7. /\ HeaderSize <= bytesRead[c]
      /\ body[c] = NoBuffer => bytesExpected[c] = HeaderSize /\ bytesRead[c] <= HeaderSize
  BY <1>2, <1>6 DEF BufferInv
<1>8. SizeOfBody(header[c]) = size /\ size \in Int
  BY <1>1, <1>5, <1>7, HeaderRead
<1> HIDE DEF size
<1>9. size > 0 /\ size \in Nat /\ bytesRead[c] \in Nat /\ bytesExpected[c] \in Nat
  BY <1>1, <1>2, <1>8, ConnTypes
<1>10. Buffer(size) \in Seq(Int) /\ Len(Buffer(size)) = size
  BY <1>9 DEF Buffer, Junk
<1>11. Buffer(size) # NoBuffer
  <2>1. NoBuffer \notin Seq(Int)
    BY NoBufferAssumption
  <2> QED
    BY <1>10, <2>1, Zenon
<1>12. /\ at'[c] = "recv"
       /\ body[c] = NoBuffer => body'[c] = Buffer(size) /\ bytesExpected'[c] = HeaderSize + size
       /\ body[c] # NoBuffer => body'[c] = body[c] /\ bytesExpected'[c] = bytesExpected[c]
  BY <1>1, <1>2, <1>3, <1>7, <1>8 DEF TypeOK
<1>13. TypeOK'
  <2>1. body' \in [Conns -> Seq(Int) \cup {NoBuffer}]
    BY <1>1, <1>3, <1>8, <1>10 DEF TypeOK
  <2>2. bytesExpected' \in [Conns -> Nat]
    <3> DEFINE value == bytesExpected[c] + SizeOfBody(header[c])
    <3>1. value \in Nat /\ bytesExpected \in [Conns -> Nat]
      BY <1>1, <1>8, <1>9 DEF TypeOK
    <3>2. bytesExpected' = [bytesExpected EXCEPT ![c] = value] \/ bytesExpected' = bytesExpected
      BY <1>3
    <3> HIDE DEF value
    <3> QED
      BY <3>1, <3>2
  <2>3. at' \in [Conns -> {"poll", "header", "body", "recv"}]
    BY <1>1, <1>2 DEF TypeOK
  <2> QED
    BY <1>1, <1>4, <2>1, <2>2, <2>3 DEF TypeOK
<1>14. ASSUME NEW d \in Conns, d # c PROVE Untouched(d)
  BY <1>1, <1>2, <1>3, <1>4, <1>14 DEF TypeOK, Untouched
<1>15. BufferInv(c, from)'
  <2>1. CASE body[c] = NoBuffer
    <3>1. /\ HeaderSize <= bytesRead[c] /\ bytesRead[c] < HeaderSize + size
          /\ \A i \in DOMAIN Buffer(size) : ~(HeaderSize + i <= bytesRead[c])
      <4>1. bytesRead[c] = HeaderSize
        BY <1>7, <1>9, <2>1, HeaderFacts
      <4>2. DOMAIN Buffer(size) = 1..size
        BY DEF Buffer
      <4> QED
        BY <1>9, <4>1, <4>2, HeaderFacts
    <3>2. /\ body'[c] = Buffer(size) /\ bytesExpected'[c] = HeaderSize + size
          /\ at'[c] = "recv" /\ header'[c] = header[c] /\ stream'[c] = stream[c]
          /\ bytesRead'[c] = bytesRead[c]
      BY <1>4, <1>12, <2>1
    <3> QED
      BY <1>6, <1>10, <1>11, <3>1, <3>2 DEF BufferInv, size
  <2>2. CASE body[c] # NoBuffer
    BY <1>4, <1>6, <1>12, <2>2 DEF BufferInv
  <2> QED
    BY <2>1, <2>2
<1>16. ConnInv(c)'
  BY <1>1, <1>4, <1>5, <1>6, <1>15, ReaderStep
<1> QED
  BY <1>13, <1>14, <1>16, OneMoves

LEMMA AllocateStep ==
  ASSUME IInv, NEW c \in Conns, Allocate(c)
  PROVE  IInv'
<1>1. due[c] = 0 \/ due[c] > 0
  BY ConnTypes DEF IInv
<1> QED
  BY <1>1, AllocateStale, AllocateFresh

LEMMA DispatchAgainStep ==
  ASSUME IInv, NEW c \in Conns, DispatchAgain(c)
  PROVE  IInv'
<1>1. TypeOK /\ StaleInv(c) /\ ~inWorker[c] /\ due[c] > 0
  BY DEF IInv, ConnInv, ReadInv, DispatchAgain
<1>2. /\ inWorker' = [inWorker EXCEPT ![c] = TRUE]
      /\ due' = [due EXCEPT ![c] = @ + 1]
      /\ at' = [at EXCEPT ![c] = "poll"]
      /\ UNCHANGED <<served, stream, limit, finished, whole, pos, header, body, bytesRead,
                     bytesExpected, closed, failed, got>>
  BY Zenon DEF DispatchAgain, writerVars
<1>3. due[c] = 1
  <2>1. due[c] \in 0..2 /\ at[c] = "body"
    BY <1>1, ConnTypes DEF DispatchAgain
  <2> QED
    BY <1>1, <2>1 DEF StaleInv
<1>4. TypeOK'
  <2>1. due' \in [Conns -> 0..2]
    BY <1>1, <1>2, <1>3 DEF TypeOK
  <2>2. /\ at' \in [Conns -> {"poll", "header", "body", "recv"}]
        /\ inWorker' \in [Conns -> BOOLEAN]
    BY <1>1, <1>2 DEF TypeOK
  <2> QED
    BY <1>1, <1>2, <2>1, <2>2, Zenon DEF TypeOK
<1>5. ASSUME NEW d \in Conns, d # c PROVE Untouched(d)
  BY <1>1, <1>2, <1>5 DEF TypeOK, Untouched
<1>6. at'[c] = "poll" /\ due'[c] > 0 /\ (inWorker'[c] = TRUE)
  <2>1. inWorker'[c] = TRUE
    BY <1>1, <1>2, Zenon DEF TypeOK
  <2> QED
    BY <1>1, <1>2, <1>3, <2>1 DEF TypeOK
<1>7. StaleInv(c)'
  BY <1>1, <1>2, <1>6 DEF StaleInv
<1>8. ConnInv(c)'
  BY <1>1, <1>2, <1>6, <1>7, StaleStep
<1> QED
  BY <1>4, <1>5, <1>8, OneMoves

LEMMA ReturnStep ==
  ASSUME IInv, NEW c \in Conns, Return(c)
  PROVE  IInv'
<1>1. TypeOK /\ ConnInv(c) /\ ReadInv(c) /\ inWorker[c]
  BY DEF IInv, ConnInv, Return
<1>2. /\ inWorker' = [inWorker EXCEPT ![c] = FALSE]
      /\ UNCHANGED <<served, stream, limit, finished, whole, pos, header, body, bytesRead,
                     bytesExpected, due, at, closed, failed, got>>
  BY Zenon DEF Return, writerVars
<1>3. TypeOK'
  <2>1. inWorker' \in [Conns -> BOOLEAN]
    BY <1>1, <1>2 DEF TypeOK
  <2> QED
    BY <1>1, <1>2, <2>1, Zenon DEF TypeOK
<1>4. ASSUME NEW d \in Conns, d # c PROVE Untouched(d)
  BY <1>1, <1>2, <1>4 DEF TypeOK, Untouched
<1>5. From(c)' = From(c)
  BY <1>2 DEF From
<1>6. PICK from : from = From(c)
  OBVIOUS
<1>7. BufferInv(c, from)' = BufferInv(c, from)
  BY <1>2 DEF BufferInv
<1>7a. due[c] > 0 => StaleInv(c)'
  <2>1. due[c] < 2 /\ UNCHANGED due
    BY <1>2 DEF Return
  <2>2. due[c] > 0 => StaleInv(c)
    BY <1>1 DEF ReadInv
  <2> QED
    BY <1>2, <2>1, <2>2 DEF StaleInv
<1>8. due[c] = 0 => BufferInv(c, From(c))'
  <2>1. due[c] = 0 => BufferInv(c, from)
    BY <1>1, <1>6 DEF ReadInv
  <2> QED
    BY <1>5, <1>6, <1>7, <2>1
<1>9. at[c] = "poll"
  BY <1>1 DEF ReadInv
<1>10. ReadInv(c)'
  BY <1>1, <1>2, <1>5, <1>7a, <1>8, <1>9 DEF ReadInv
<1>11. ConnInv(c)'
  BY <1>1, <1>2, <1>10, Zenon DEF ConnInv
<1> QED
  BY <1>3, <1>4, <1>11, OneMoves

LEMMA FailTypes ==
  ASSUME TypeOK, NEW c \in Conns, Fail(c)
  PROVE  failed' \subseteq Conns
  BY Zenon DEF Fail, TypeOK

LEMMA ResetStep ==
  ASSUME IInv, NEW c \in Conns, Reset(c)
  PROVE  IInv'
<1>1. TypeOK /\ ConnInv(c) /\ ReadInv(c) /\ due[c] > 0
  BY DEF IInv, ConnInv, Reset
<1>2. UNCHANGED <<served, stream, limit, finished, whole, pos, inWorker, at, closed, got>>
  BY Zenon DEF Reset, writerVars
<1>3. CASE closed[c] \/ at[c] # "poll" \/ due[c] > 1
  <2>1. Fail(c) /\ UNCHANGED <<header, body, bytesRead, bytesExpected, due>>
    BY <1>3, Zenon DEF Reset
  <2>2. failed' \subseteq Conns
    BY <1>1, <2>1, FailTypes
  <2>3. TypeOK'
    BY <1>1, <1>2, <2>1, <2>2, Zenon DEF TypeOK
  <2>4. ASSUME NEW d \in Conns PROVE Untouched(d)
    BY <1>2, <2>1, Zenon DEF Untouched
  <2>5. ConnInv(c)'
    BY <1>1, <2>4, UntouchedInv
  <2> QED
    BY <2>3, <2>4, <2>5, OneMoves
<1>4. CASE ~(closed[c] \/ at[c] # "poll" \/ due[c] > 1)
  <2>1. /\ header' = [header EXCEPT ![c] = NoBuffer]
        /\ body' = [body EXCEPT ![c] = NoBuffer]
        /\ bytesRead' = [bytesRead EXCEPT ![c] = 0]
        /\ bytesExpected' = [bytesExpected EXCEPT ![c] = HeaderSize]
        /\ due' = [due EXCEPT ![c] = 0]
        /\ UNCHANGED failed
    BY <1>4, Zenon DEF Reset
  <2>2. TypeOK'
    <3>1. /\ bytesRead' \in [Conns -> Nat] /\ bytesExpected' \in [Conns -> Nat]
          /\ due' \in [Conns -> 0..2]
      BY <1>1, <2>1, HeaderFacts DEF TypeOK
    <3>2. header' \in [Conns -> Seq(Int) \cup {NoBuffer}] /\ body' \in [Conns -> Seq(Int) \cup {NoBuffer}]
      BY <1>1, <2>1 DEF TypeOK
    <3> QED
      BY <1>1, <1>2, <2>1, <3>1, <3>2, Zenon DEF TypeOK
  <2>3. ASSUME NEW d \in Conns, d # c PROVE Untouched(d)
    BY <1>1, <1>2, <2>1, <2>3 DEF TypeOK, Untouched
  <2>4. /\ header'[c] = NoBuffer /\ body'[c] = NoBuffer /\ due'[c] = 0
        /\ bytesRead'[c] = 0 /\ bytesExpected'[c] = HeaderSize
    BY <1>1, <2>1 DEF TypeOK
  <2>5. at'[c] = "poll" /\ pos[c] = From(c) + 0
    BY <1>1, <1>2, <1>4 DEF ReadInv
  <2>6. From(c)' = From(c)
    BY <1>2 DEF From
  <2>7. PICK from : from = From(c)
    OBVIOUS
  <2>8. BufferInv(c, from)'
    BY <2>4, <2>5, HeaderFacts DEF BufferInv
  <2>9. BufferInv(c, From(c))'
    BY <2>6, <2>7, <2>8
  <2>10. ReadInv(c)'
    BY <1>1, <1>2, <2>4, <2>5, <2>6, <2>9 DEF ReadInv
  <2>11. ConnInv(c)'
    BY <1>1, <1>2, <2>10, Zenon DEF ConnInv
  <2> QED
    BY <2>2, <2>3, <2>11, OneMoves
<1> QED
  BY <1>3, <1>4

\* A message without a body is unpacked without looking at the buffer for it.
LEMMA EmptyBody ==
  ASSUME NEW head, NEW cells, SizeOfBody(head) = 0
  PROVE  Unpack(head, cells) = [type |-> head[1], tokens |-> << >>]
<1> DEFINE end == SizeOfBody(head)
           tokens == CHOOSE f : f = [iter \in 0..end |-> TokensFrom(cells, end, f, iter)]
           fits == CHOOSE f : f = [iter \in 0..end |-> FitsFrom(cells, end, f, iter)]
<1>1. Unpack(head, cells) = IF fits[0] THEN [type |-> head[1], tokens |-> tokens[0]]
                            ELSE Corrupt
  BY Zenon DEF Unpack, TokensFrom, FitsFrom, NextToken
<1>2. 0..end = {0} /\ end = 0
  OBVIOUS
<1> HIDE DEF end
<1>3. tokens = [iter \in 0..end |-> TokensFrom(cells, end, tokens, iter)]
  <2> DEFINE f == [iter \in 0..end |-> << >>]
  <2>1. \A iter \in 0..end : TokensFrom(cells, end, f, iter) = << >>
    BY <1>2, Zenon DEF TokensFrom
  <2>2. f = [iter \in 0..end |-> TokensFrom(cells, end, f, iter)]
    BY <2>1, Zenon
  <2> HIDE DEF f
  <2> QED
    BY <2>2, Zenon
<1>4. fits = [iter \in 0..end |-> FitsFrom(cells, end, fits, iter)]
  <2> DEFINE f == [iter \in 0..end |-> TRUE]
  <2>1. \A iter \in 0..end : FitsFrom(cells, end, f, iter) = TRUE
    BY <1>2, Zenon DEF FitsFrom
  <2>2. f = [iter \in 0..end |-> FitsFrom(cells, end, f, iter)]
    BY <2>1, Zenon
  <2> HIDE DEF f
  <2> QED
    BY <2>2, Zenon
<1> HIDE DEF tokens, fits
<1>5. 0 \in 0..end
  BY <1>2
<1>6. tokens[0] = TokensFrom(cells, end, tokens, 0) /\ fits[0] = FitsFrom(cells, end, fits, 0)
  BY <1>3, <1>4, <1>5, Zenon
<1>7. tokens[0] = << >> /\ fits[0]
  BY <1>2, <1>6, Zenon DEF TokensFrom, FitsFrom
<1> QED
  BY <1>1, <1>7, Zenon

\* The message that the reader takes is the next one, to its last cell; the one
\* before is settled.
Takes(c) ==
    /\ due[c] = 0
    /\ due' = [due EXCEPT ![c] = IF c \in served THEN 1 ELSE 0]
    /\ Len(got[c]) < Len(whole[c])
    /\ got' = [got EXCEPT ![c] = Append(@, whole[c][Len(got[c]) + 1].msg)]
    /\ whole[c][Len(got[c]) + 1].end = pos'[c]
    /\ pos'[c] <= limit[c]

LEMMA DispatchStep ==
  ASSUME IInv, NEW c \in Conns, at[c] # "poll", due[c] = 0, HeaderSize <= bytesRead[c],
         NEW from, from = From(c),
         NEW size \in Nat, size = SizeAt(stream[c], from),
         NEW b \in Seq(Int) \cup {NoBuffer},
         Unpack(header[c], b) = Unpack(header[c], Cells(stream[c], from + HeaderSize, size)),
         NEW here \in Nat, pos' = [pos EXCEPT ![c] = here],
         here = from + HeaderSize + size, here <= limit[c],
         NEW read \in Nat, bytesRead' = [bytesRead EXCEPT ![c] = IF c \in served THEN read ELSE 0],
         read = bytesExpected[c], bytesExpected[c] = HeaderSize + size,
         size > 0 => b # NoBuffer /\ Len(b) = size,
         Dispatch(c, b),
         UNCHANGED <<served, writerVars, closed>>
  PROVE  IInv' /\ Takes(c)
<1> DEFINE w == whole[c]  k == Len(got[c])  m == w[k + 1].msg
<1>1. TypeOK /\ ConnInv(c) /\ ~inWorker[c] /\ ~closed[c] /\ ReadInv(c)
  BY DEF IInv, ConnInv, ReadInv
<1>2. /\ k < Len(w) /\ w[k + 1].end = from + HeaderSize + size
      /\ m = Unpack(header[c], Cells(stream[c], from + HeaderSize, size))
      /\ Start(w, k + 1) = w[k + 1].end
  <2>1. size >= 0
    OBVIOUS
  <2> QED
    BY <1>1, <2>1, HeaderRead
<1>3. /\ k \in Nat /\ Len(w) \in Nat /\ w \in Sent /\ got[c] \in Seq(AllMessages)
      /\ DOMAIN got[c] = 1..k
  BY <1>1, ConnTypes
<1>4. m \in AllMessages
  <2>1. k + 1 \in 1..Len(w)
    BY <1>2, <1>3
  <2> HIDE DEF w, k
  <2>2. w \in Seq([end : Nat, msg : AllMessages])
    BY <1>3 DEF Sent
  <2>3. w[k + 1] \in [end : Nat, msg : AllMessages]
    BY <2>1, <2>2, ElementOfSeq
  <2> QED
    BY <2>3
<1>5. /\ got' = [got EXCEPT ![c] = Append(@, m)]
      /\ at' = [at EXCEPT ![c] = "poll"]
      /\ due' = [due EXCEPT ![c] = IF c \in served THEN 1 ELSE 0]
      /\ body' = [body EXCEPT ![c] = b] \/ body' = [body EXCEPT ![c] = NoBuffer]
      /\ header' = header \/ header' = [header EXCEPT ![c] = NoBuffer]
      /\ bytesExpected' = bytesExpected \/ bytesExpected' = [bytesExpected EXCEPT ![c] = HeaderSize]
      /\ inWorker' = inWorker \/ inWorker' = [inWorker EXCEPT ![c] = TRUE]
      /\ bytesRead' = [bytesRead EXCEPT ![c] = read] \/ bytesRead' = [bytesRead EXCEPT ![c] = 0]
      /\ failed' = failed \/ Fail(c)
  BY <1>2 DEF Dispatch, Unpacked
<1>6. \/ /\ due'[c] = 1 /\ header'[c] = header[c] /\ body'[c] = b
         /\ bytesRead'[c] = read /\ bytesExpected'[c] = bytesExpected[c]
      \/ /\ due'[c] = 0 /\ header'[c] = NoBuffer /\ body'[c] = NoBuffer
         /\ bytesRead'[c] = 0 /\ bytesExpected'[c] = HeaderSize
  <2>1. CASE c \in served
    <3>1. (c \in served) = TRUE
      BY <2>1
    <3>2. /\ due' = [due EXCEPT ![c] = 1] /\ header' = header
          /\ body' = [body EXCEPT ![c] = b] /\ bytesExpected' = bytesExpected
          /\ bytesRead' = [bytesRead EXCEPT ![c] = read]
      BY <3>1, Zenon DEF Dispatch
    <3> QED
      BY <1>1, <3>2 DEF TypeOK
  <2>2. CASE c \notin served
    <3>1. (c \in served) = FALSE
      BY <2>2
    <3>2. /\ due' = [due EXCEPT ![c] = 0] /\ header' = [header EXCEPT ![c] = NoBuffer]
          /\ body' = [body EXCEPT ![c] = NoBuffer]
          /\ bytesExpected' = [bytesExpected EXCEPT ![c] = HeaderSize]
          /\ bytesRead' = [bytesRead EXCEPT ![c] = 0]
      BY <3>1, Zenon DEF Dispatch
    <3> QED
      BY <1>1, <3>2 DEF TypeOK
  <2> QED
    BY <2>1, <2>2
<1> HIDE DEF m
<1>7. TypeOK'
  <2>1. got' \in [Conns -> Seq(AllMessages)]
    <3>1. Append(got[c], m) \in Seq(AllMessages)
      BY <1>3, <1>4, AppendProperties
    <3> QED
      BY <1>1, <1>5, <3>1 DEF TypeOK
  <2>2. /\ pos' \in [Conns -> Nat] /\ bytesRead' \in [Conns -> Nat]
        /\ bytesExpected' \in [Conns -> Nat]
    <3>1. pos' \in [Conns -> Nat]
      BY <1>1, Zenon DEF TypeOK
    <3>2. bytesRead' \in [Conns -> Nat]
      <4> DEFINE value == IF c \in served THEN read ELSE 0
      <4>1. value \in Nat
        OBVIOUS
      <4>2. bytesRead' = [bytesRead EXCEPT ![c] = value]
        OBVIOUS
      <4> HIDE DEF value
      <4> QED
        BY <1>1, <4>1, <4>2, Zenon DEF TypeOK
    <3>3. bytesExpected' \in [Conns -> Nat]
      <4>1. HeaderSize \in Nat /\ bytesExpected \in [Conns -> Nat]
        BY <1>1, HeaderFacts DEF TypeOK
      <4>2. [bytesExpected EXCEPT ![c] = HeaderSize] \in [Conns -> Nat]
        BY <4>1, Zenon
      <4> QED
        BY <1>5, <4>1, <4>2, Zenon
    <3> QED
      BY <3>1, <3>2, <3>3
  <2>3. /\ header' \in [Conns -> Seq(Int) \cup {NoBuffer}]
        /\ body' \in [Conns -> Seq(Int) \cup {NoBuffer}]
    <3> DEFINE Buf == Seq(Int) \cup {NoBuffer}
    <3>1. b \in Buf /\ NoBuffer \in Buf /\ header \in [Conns -> Buf] /\ body \in [Conns -> Buf]
      BY <1>1 DEF TypeOK
    <3> HIDE DEF Buf
    <3>2. header' \in [Conns -> Buf]
      <4>1. [header EXCEPT ![c] = NoBuffer] \in [Conns -> Buf]
        BY <3>1, Zenon
      <4> QED
        BY <1>5, <3>1, <4>1, Zenon
    <3>3. body' \in [Conns -> Buf]
      <4>1. [body EXCEPT ![c] = NoBuffer] \in [Conns -> Buf]
        BY <3>1, Zenon
      <4>2. [body EXCEPT ![c] = b] \in [Conns -> Buf]
        BY <3>1, Zenon
      <4> QED
        BY <1>5, <4>1, <4>2, Zenon
    <3> QED
      BY <3>2, <3>3 DEF Buf
  <2>4. /\ at' \in [Conns -> {"poll", "header", "body", "recv"}]
        /\ inWorker' \in [Conns -> BOOLEAN]
    BY <1>1, <1>5 DEF TypeOK
  <2>5. failed' \subseteq Conns
    BY <1>1, <1>5, FailTypes DEF TypeOK
  <2>6. due' \in [Conns -> 0..2]
    <3> DEFINE value == IF c \in served THEN 1 ELSE 0
    <3>1. value \in 0..2 /\ due' = [due EXCEPT ![c] = value]
      BY <1>5
    <3> HIDE DEF value
    <3> QED
      BY <1>1, <3>1, Zenon DEF TypeOK
  <2> QED
    BY <1>1, <2>1, <2>2, <2>3, <2>4, <2>5, <2>6, Zenon DEF TypeOK, writerVars
<1>8. ASSUME NEW d \in Conns, d # c PROVE Untouched(d)
  BY <1>1, <1>5, <1>8, SMTT(40) DEF TypeOK, Untouched, writerVars
<1>9. /\ got'[c] = Append(got[c], m) /\ pos'[c] = here /\ at'[c] = "poll"
      /\ UNCHANGED <<stream, limit, whole>>
  BY <1>1, <1>5 DEF TypeOK, writerVars
<1>10. /\ Len(got'[c]) = k + 1 /\ DOMAIN got'[c] = 1..(k + 1)
       /\ \A i \in 1..k : got'[c][i] = got[c][i]
       /\ got'[c][k + 1] = m
  <2>1. /\ Append(got[c], m) \in Seq(AllMessages) /\ Len(Append(got[c], m)) = k + 1
        /\ \A i \in 1..k : Append(got[c], m)[i] = got[c][i]
        /\ Append(got[c], m)[k + 1] = m
    BY <1>3, <1>4, AppendProperties
  <2>2. DOMAIN Append(got[c], m) = 1..(k + 1)
    BY <2>1, LenProperties
  <2> QED
    BY <1>9, <2>1, <2>2, Zenon
<1>11. From(c)' = here
  BY <1>2, <1>9, <1>10, Zenon DEF From
<1>12. ReadInv(c)'
  <2>1. Len(got'[c]) <= Len(whole'[c])
    BY <1>2, <1>3, <1>9, <1>10
  <2>2. \A i \in DOMAIN got'[c] : got'[c][i] = whole'[c][i].msg
    <3>1. \A i \in 1..k : got[c][i] = w[i].msg
      BY <1>1, <1>3 DEF ReadInv
    <3>2. \A i \in 1..(k + 1) : i \in 1..k \/ i = k + 1
      BY <1>3
    <3> QED
      BY <1>9, <1>10, <3>1, <3>2, Zenon DEF m
  <2>3. pos'[c] = From(c)' + IF due'[c] > 0 THEN 0 ELSE bytesRead'[c]
    BY <1>6, <1>9, <1>11
  <2>4. due'[c] = 0 => BufferInv(c, here)'
    BY <1>6, <1>9, HeaderFacts DEF BufferInv
  <2>5. due'[c] = 0 => BufferInv(c, From(c))'
    BY <1>11, <2>4
  <2>6. due'[c] > 0 => StaleInv(c)'
    <3>1. SizeOfBody(header[c]) = size
      BY HeaderRead
    <3>2. header[c] # NoBuffer
      <4>1. header[c] \in Seq(Int)
        BY HeaderRead
      <4> QED
        BY <4>1, NoBufferAssumption
    <3>3. HeaderSize <= read
      BY HeaderFacts
    <3> QED
      BY <1>6, <1>9, <3>1, <3>2, <3>3 DEF StaleInv
  <2> QED
    BY <1>9, <2>1, <2>2, <2>3, <2>5, <2>6, Zenon DEF ReadInv
<1>13. ConnInv(c)'
  BY <1>1, <1>9, <1>12, Zenon DEF ConnInv
<1>14. Takes(c)
  BY <1>2, <1>5, <1>9, Zenon DEF Takes, m
<1> QED
  BY <1>7, <1>8, <1>13, <1>14, OneMoves

LEMMA NoBodyStep ==
  ASSUME IInv, NEW c \in Conns, NoBody(c)
  PROVE  IInv' /\ Takes(c)
<1>1. TypeOK /\ due[c] = 0 /\ at[c] = "body" /\ SizeOfBody(header[c]) = 0
  BY DEF IInv, ConnInv, ReadInv, NoBody
<1>2. PICK from : from = From(c)
  OBVIOUS
<1>3. /\ BufferInv(c, from) /\ from \in Nat /\ pos[c] = from + bytesRead[c]
      /\ pos[c] <= limit[c] /\ pos[c] \in Nat /\ bytesRead[c] \in Nat
  BY <1>1, <1>2, ReaderFacts, ConnTypes
<1>4. HeaderSize <= bytesRead[c]
  BY <1>1, <1>3 DEF BufferInv
<1>5. SizeAt(stream[c], from) = 0
  BY <1>1, <1>2, <1>4, HeaderRead
<1>6. body[c] = NoBuffer
  <2>1. body[c] # NoBuffer => bytesRead[c] < HeaderSize + 0
    BY <1>3, <1>5 DEF BufferInv
  <2> QED
    BY <1>3, <1>4, <2>1, HeaderFacts
<1>7. bytesRead[c] = HeaderSize
  BY <1>3, <1>4, <1>6, HeaderFacts DEF BufferInv
<1>8. Unpack(header[c], NoBuffer) = Unpack(header[c], Cells(stream[c], from + HeaderSize, 0))
  BY <1>1, EmptyBody
<1>9. /\ Dispatch(c, NoBuffer)
      /\ bytesRead' = [bytesRead EXCEPT ![c] = IF c \in served THEN bytesRead[c] ELSE 0]
      /\ UNCHANGED <<served, writerVars, pos, closed>>
  BY DEF NoBody
<1>10. pos' = [pos EXCEPT ![c] = pos[c]] /\ pos[c] = from + HeaderSize + 0
  BY <1>1, <1>3, <1>7, <1>9, HeaderFacts DEF TypeOK
<1>11. UNCHANGED <<served, writerVars, closed>>
  BY <1>9
<1> DEFINE here == pos[c]  read == bytesRead[c]
<1>12. /\ here \in Nat /\ pos' = [pos EXCEPT ![c] = here]
       /\ here = from + HeaderSize + 0 /\ here <= limit[c]
       /\ read \in Nat /\ bytesRead' = [bytesRead EXCEPT ![c] = IF c \in served THEN read ELSE 0]
  BY <1>3, <1>9, <1>10
<1>13. NoBuffer \in Seq(Int) \cup {NoBuffer} /\ 0 \in Nat /\ at[c] # "poll"
  BY <1>1
<1>14. read = bytesExpected[c] /\ bytesExpected[c] = HeaderSize + 0 /\ ~(0 > 0)
  BY <1>3, <1>6, <1>7, HeaderFacts DEF BufferInv
<1> HIDE DEF here, read
<1> QED
  BY <1>1, <1>2, <1>4, <1>5, <1>8, <1>9, <1>11, <1>12, <1>13, <1>14, DispatchStep, Zenon

LEMMA BodyReceived ==
  ASSUME IInv, NEW c \in Conns, at[c] = "recv",
         NEW n \in 1..(bytesExpected[c] - bytesRead[c]), n <= Arrived(c),
         NEW from, from = From(c), NEW size, size = SizeAt(stream[c], from),
         NEW b, b = Received(c, body[c], bytesRead[c] - HeaderSize, n)
  PROVE  /\ due[c] = 0 /\ ~inWorker[c] /\ ~closed[c]
         /\ from \in Nat /\ size \in Nat /\ n \in Nat /\ n >= 1
         /\ bytesRead[c] \in Nat /\ HeaderSize <= bytesRead[c]
         /\ bytesExpected[c] = HeaderSize + size /\ bytesRead[c] + n <= bytesExpected[c]
         /\ pos[c] = from + bytesRead[c]
         /\ pos[c] \in Nat /\ pos[c] + n \in Nat /\ pos[c] + n <= limit[c]
         /\ b \in Seq(Int) /\ Len(b) = size
         /\ \A i \in 1..size : HeaderSize + i <= bytesRead[c] + n =>
              b[i] = stream[c][from + HeaderSize + i]
<1> DEFINE buf == body[c]  read == bytesRead[c]  s == stream[c]  offset == read - HeaderSize
<1>0. bytesRead[c] < bytesExpected[c]
  <2>1. bytesRead[c] \in Nat /\ bytesExpected[c] \in Nat
    BY ConnTypes DEF IInv
  <2> QED
    BY <2>1
<1>1. TypeOK /\ ~inWorker[c] /\ ~closed[c] /\ due[c] = 0
  BY <1>0, Fresh DEF IInv, ConnInv, ReadInv
<1>2. /\ from \in Nat /\ pos[c] = from + read /\ pos[c] <= limit[c] /\ limit[c] <= Len(s)
      /\ BufferInv(c, from)
  BY <1>1, ReaderFacts
<1>3. /\ read \in Nat /\ bytesExpected[c] \in Nat /\ pos[c] \in Nat /\ limit[c] \in Nat
      /\ Len(s) \in Nat /\ buf \in Seq(Int) \cup {NoBuffer}
  BY <1>1, ConnTypes
<1>4. /\ buf # NoBuffer /\ Len(buf) = size /\ bytesExpected[c] = HeaderSize + size
      /\ HeaderSize <= read /\ read < bytesExpected[c]
      /\ \A i \in DOMAIN buf : HeaderSize + i <= read => buf[i] = s[from + HeaderSize + i]
  BY <1>2 DEF BufferInv
<1>5. buf \in Seq(Int) /\ size \in Nat /\ DOMAIN buf = 1..size
  <2>1. buf \in Seq(Int)
    BY <1>3, <1>4
  <2> QED
    BY <1>4, <2>1, LenProperties
<1>6. /\ n \in Nat /\ n >= 1 /\ read + n <= bytesExpected[c] /\ pos[c] + n <= limit[c]
      /\ pos[c] + n <= Len(s) /\ pos[c] + n \in Nat /\ offset \in Nat
  <2>1. n \in 1..(bytesExpected[c] - read) /\ n <= limit[c] - pos[c]
    BY DEF Arrived
  <2> DEFINE here == pos[c]  there == limit[c]  m == Len(s)  expected == bytesExpected[c]
  <2>2. /\ here \in Nat /\ there \in Nat /\ m \in Nat /\ here <= there /\ there <= m
        /\ read \in Nat /\ expected \in Nat /\ n <= there - here /\ n \in 1..(expected - read)
        /\ HeaderSize <= read /\ HeaderSize \in Nat
    BY <1>2, <1>3, <1>4, <2>1, HeaderFacts
  <2> HIDE DEF here, there, m, read, expected
  <2>3. /\ n \in Nat /\ n >= 1 /\ read + n <= expected /\ here + n <= there
        /\ here + n <= m /\ here + n \in Nat /\ read - HeaderSize \in Nat
    BY <2>2
  <2> QED
    BY <2>3 DEF here, there, m, read, expected
<1>7. /\ b \in Seq(Int) /\ Len(b) = Len(buf)
      /\ \A i \in 1..Len(buf) : b[i] =
           IF i \in (offset + 1)..(offset + n) THEN s[pos[c] + i - offset] ELSE buf[i]
  <2>1. pos[c] + n <= Len(stream[c]) /\ TypeOK
    BY <1>1, <1>6
  <2> HIDE DEF buf, offset
  <2>2. b = Received(c, buf, offset, n)
    BY Zenon DEF buf, offset, read
  <2>3. /\ Received(c, buf, offset, n) \in Seq(Int) /\ Len(Received(c, buf, offset, n)) = Len(buf)
        /\ \A i \in 1..Len(buf) : Received(c, buf, offset, n)[i] =
             IF i \in (offset + 1)..(offset + n) THEN s[pos[c] + i - offset] ELSE buf[i]
    BY <1>5, <1>6, <2>1, ReceivedFacts, SMTT(60)
  <2> QED
    BY <2>2, <2>3, Zenon
<1>8. \A i \in 1..size : HeaderSize + i <= read + n => b[i] = s[from + HeaderSize + i]
  <2> SUFFICES ASSUME NEW i \in 1..size, HeaderSize + i <= read + n
               PROVE  b[i] = s[from + HeaderSize + i]
    OBVIOUS
  <2> DEFINE here == pos[c]
  <2>1. here = from + read /\ here \in Nat /\ read \in Nat /\ i \in Nat /\ HeaderSize \in Nat
    BY <1>2, <1>3, <1>5, HeaderFacts
  <2>2. i \in DOMAIN buf /\ i \in 1..Len(buf)
    BY <1>4, <1>5
  <2>3. b[i] = IF i \in (offset + 1)..(offset + n) THEN s[here + i - offset] ELSE buf[i]
    BY <1>7, <2>2
  <2>4. HeaderSize + i <= read => buf[i] = s[from + HeaderSize + i]
    BY <1>4, <2>2
  <2> HIDE DEF here, buf, read
  <2>5. CASE HeaderSize + i <= read
    <3>1. i \notin (offset + 1)..(offset + n)
      BY <1>6, <2>1, <2>5
    <3> QED
      BY <2>3, <2>4, <2>5, <3>1
  <2>6. CASE ~(HeaderSize + i <= read)
    <3>1. i \in (offset + 1)..(offset + n) /\ here + i - offset = from + HeaderSize + i
      BY <1>2, <1>6, <2>1, <2>6
    <3> QED
      BY <2>3, <3>1
  <2> QED
    BY <2>5, <2>6
<1> QED
  BY <1>1, <1>2, <1>3, <1>4, <1>5, <1>6, <1>7, <1>8

LEMMA RecvBodyStep ==
  ASSUME IInv, NEW c \in Conns, RecvBody(c)
  PROVE  IInv' /\ (Takes(c) \/ UNCHANGED <<got, due>>)
<1>1. TypeOK /\ at[c] = "recv"
  BY DEF IInv, RecvBody
<1>2. PICK n \in 1..(bytesExpected[c] - bytesRead[c]) :
        LET b == Received(c, body[c], bytesRead[c] - HeaderSize, n) IN
         /\ n <= Arrived(c)
         /\ pos' = [pos EXCEPT ![c] = @ + n]
         /\ IF bytesRead[c] + n = bytesExpected[c]
            THEN /\ Dispatch(c, b)
                 /\ bytesRead' = [bytesRead EXCEPT ![c] = IF c \in served THEN @ + n ELSE 0]
            ELSE /\ body' = [body EXCEPT ![c] = b]
                 /\ bytesRead' = [bytesRead EXCEPT ![c] = @ + n]
                 /\ at' = [at EXCEPT ![c] = "poll"]
                 /\ UNCHANGED <<header, bytesExpected, inWorker, due, failed, got>>
  BY Zenon DEF RecvBody
<1>3. UNCHANGED <<served, writerVars, closed>>
  BY DEF RecvBody
<1>4. PICK from : from = From(c)
  OBVIOUS
<1>5. PICK size : size = SizeAt(stream[c], from)
  OBVIOUS
<1>6. PICK b : b = Received(c, body[c], bytesRead[c] - HeaderSize, n)
  OBVIOUS
<1>7. n <= Arrived(c)
  BY <1>2
<1> DEFINE here == pos[c] + n  read == bytesRead[c] + n
<1>8. /\ due[c] = 0 /\ ~inWorker[c] /\ ~closed[c] /\ from \in Nat /\ size \in Nat
      /\ bytesRead[c] \in Nat /\ n \in Nat /\ n >= 1
      /\ HeaderSize <= bytesRead[c] /\ bytesExpected[c] = HeaderSize + size
      /\ read <= bytesExpected[c] /\ pos[c] = from + bytesRead[c] /\ pos[c] \in Nat
      /\ here \in Nat /\ here <= limit[c] /\ b \in Seq(Int) /\ Len(b) = size
      /\ \A i \in 1..size : HeaderSize + i <= read =>
           b[i] = stream[c][from + HeaderSize + i]
  BY <1>1, <1>4, <1>5, <1>6, <1>7, BodyReceived
<1>9. here = from + read /\ read \in Nat /\ HeaderSize <= read
  <2> DEFINE r == bytesRead[c]  p == pos[c]
  <2>1. /\ p = from + r /\ r \in Nat /\ n \in Nat /\ from \in Nat /\ HeaderSize <= r
        /\ HeaderSize \in Nat
    BY <1>8, HeaderFacts
  <2> HIDE DEF r, p
  <2>2. p + n = from + (r + n) /\ r + n \in Nat /\ HeaderSize <= r + n
    BY <2>1
  <2> QED
    BY <2>2 DEF r, p
<1>10. /\ pos' = [pos EXCEPT ![c] = here]
       /\ bytesRead[c] + n = bytesExpected[c] => /\ Dispatch(c, b)
            /\ bytesRead' = [bytesRead EXCEPT ![c] = IF c \in served THEN read ELSE 0]
       /\ bytesRead[c] + n # bytesExpected[c] =>
            /\ body' = [body EXCEPT ![c] = b]
            /\ bytesRead' = [bytesRead EXCEPT ![c] = read]
            /\ at' = [at EXCEPT ![c] = "poll"]
            /\ UNCHANGED <<header, bytesExpected, inWorker, due, failed, got>>
  BY <1>2, <1>6, Zenon
<1>11. CASE read = bytesExpected[c]
  <2>1. b = Cells(stream[c], from + HeaderSize, size)
    <3>1. \A i \in 1..size : HeaderSize + i <= read
      BY <1>8, <1>11, HeaderFacts
    <3>2. \A i \in 1..size : b[i] = stream[c][from + HeaderSize + i]
      BY <1>8, <3>1
    <3>3. b = [i \in 1..size |-> b[i]]
      BY <1>8, LenProperties
    <3> QED
      BY <3>2, <3>3 DEF Cells
  <2>2. Unpack(header[c], b) = Unpack(header[c], Cells(stream[c], from + HeaderSize, size))
    BY <2>1
  <2>3. Dispatch(c, b) /\ bytesRead' = [bytesRead EXCEPT ![c] = IF c \in served THEN read ELSE 0]
    BY <1>10, <1>11
  <2>4. here = from + HeaderSize + size
    BY <1>8, <1>9, <1>11, HeaderFacts
  <2>5. b \in Seq(Int) \cup {NoBuffer} /\ at[c] # "poll"
    BY <1>1, <1>8
  <2>6. /\ HeaderSize <= bytesRead[c] /\ size \in Nat /\ here \in Nat /\ here <= limit[c]
        /\ read \in Nat /\ read = bytesExpected[c] /\ bytesExpected[c] = HeaderSize + size
        /\ due[c] = 0 /\ Len(b) = size
    BY <1>8, <1>9, <1>11
  <2>9. b # NoBuffer
    BY <1>8, NoBufferAssumption
  <2>7. pos' = [pos EXCEPT ![c] = here]
    BY <1>10
  <2> HIDE DEF here, read
  <2>8. IInv' /\ Takes(c)
    BY <1>3, <1>4, <1>5, <2>2, <2>3, <2>4, <2>5, <2>6, <2>7, <2>9, DispatchStep, Zenon
  <2> QED
    BY <2>8
<1>12. CASE read # bytesExpected[c]
  <2>1. /\ body' = [body EXCEPT ![c] = b]
        /\ bytesRead' = [bytesRead EXCEPT ![c] = read]
        /\ at' = [at EXCEPT ![c] = "poll"]
        /\ UNCHANGED <<header, bytesExpected, inWorker, due, failed, got>>
    BY <1>10, <1>12
  <2>2. /\ body'[c] = b /\ bytesRead'[c] = read /\ at'[c] = "poll" /\ pos'[c] = here
    BY <1>1, <1>10, <2>1 DEF TypeOK
  <2>3. TypeOK'
    <3>1. body' \in [Conns -> Seq(Int) \cup {NoBuffer}]
      BY <1>1, <1>8, <2>1 DEF TypeOK
    <3>2. pos' \in [Conns -> Nat] /\ bytesRead' \in [Conns -> Nat]
      <4> HIDE DEF here, read
      <4> QED
        BY <1>1, <1>8, <1>9, <1>10, <2>1, Zenon DEF TypeOK
    <3>3. at' \in [Conns -> {"poll", "header", "body", "recv"}]
      BY <1>1, <2>1 DEF TypeOK
    <3> QED
      BY <1>1, <1>3, <2>1, <3>1, <3>2, <3>3 DEF TypeOK, writerVars
  <2>4. ASSUME NEW d \in Conns, d # c PROVE Untouched(d)
    BY <1>1, <1>3, <1>10, <2>1, <2>4 DEF TypeOK, Untouched, writerVars
  <2>5. BufferInv(c, from)'
    <3>1. BufferInv(c, from)
      BY <1>4, <1>8, ReaderFacts
    <3>2. /\ header[c] # NoBuffer /\ Len(header[c]) = HeaderSize
          /\ \A i \in 1..HeaderSize : header[c][i] = stream[c][from + i]
      <4>1. bytesRead[c] > 0 /\ \A i \in 1..HeaderSize : i <= bytesRead[c]
        BY <1>8, HeaderFacts, SMTT(40)
      <4> QED
        BY <3>1, <4>1 DEF BufferInv
    <3>3. b # NoBuffer
      <4>1. NoBuffer \notin Seq(Int)
        BY NoBufferAssumption
      <4> QED
        BY <1>8, <4>1, Zenon
    <3>4. read < HeaderSize + size
      <4> DEFINE expected == bytesExpected[c]
      <4>1. /\ read <= expected /\ read # expected /\ expected = HeaderSize + size
            /\ read \in Nat /\ size \in Nat /\ HeaderSize \in Nat
        BY <1>8, <1>9, <1>12, HeaderFacts
      <4> HIDE DEF read, expected
      <4> QED
        BY <4>1
    <3>5. stream' = stream /\ header' = header /\ bytesExpected' = bytesExpected
      BY <1>3, <2>1 DEF writerVars
    <3>6. DOMAIN b = 1..size
      BY <1>8, LenProperties
    <3> HIDE DEF read
    <3>7. \A i \in DOMAIN b : HeaderSize + i <= read => b[i] = stream[c][from + HeaderSize + i]
      BY <1>8, <3>6, Zenon DEF read
    <3> QED
      BY <1>5, <1>8, <1>9, <2>2, <3>2, <3>3, <3>4, <3>5, <3>7, Zenon DEF BufferInv
  <2>6. ConnInv(c)'
    <3>1. pos'[c] <= limit[c] /\ pos'[c] = From(c) + bytesRead'[c]
      BY <1>4, <1>8, <1>9, <2>2
    <3> QED
      BY <1>3, <1>4, <1>8, <2>1, <2>2, <2>5, <3>1, ReaderStep DEF writerVars
  <2> QED
    BY <2>1, <2>3, <2>4, <2>6, OneMoves
<1> QED
  BY <1>11, <1>12

\* Every step keeps it.
LEMMA NextInv == IInv /\ [Next]_vars => IInv'
<1> SUFFICES ASSUME IInv, [Next]_vars PROVE IInv'
  OBVIOUS
<1>1. ASSUME NEW c \in Conns, Process(c) PROVE IInv'
  <2>1. CASE EndOfStream(c)
    BY <2>1, EndOfStreamStep
  <2>7. CASE RecvNothing(c)
    BY <2>7, EndOfStreamStep
  <2>8. CASE DispatchAgain(c)
    BY <2>8, DispatchAgainStep
  <2>2. CASE RecvHeader(c)
    BY <2>2, RecvHeaderStep
  <2>3. CASE NoBody(c)
    BY <2>3, NoBodyStep
  <2>4. CASE BadSize(c)
    BY <2>4, BadSizeStep
  <2>5. CASE Allocate(c)
    BY <2>5, AllocateStep
  <2>6. CASE RecvBody(c)
    BY <2>6, RecvBodyStep
  <2> QED
    BY <1>1, <2>1, <2>2, <2>3, <2>4, <2>5, <2>6, <2>7, <2>8 DEF Process
<1>2. ASSUME NEW c \in Conns, Write(c) PROVE IInv'
  BY <1>2, WriteStep
<1>3. ASSUME NEW c \in Conns, Arrive(c) PROVE IInv'
  BY <1>3, ArriveStep
<1>4. ASSUME NEW c \in Conns, Finish(c) PROVE IInv'
  BY <1>4, FinishStep
<1>5. ASSUME NEW c \in Conns, Poll(c) PROVE IInv'
  BY <1>5, PollStep
<1>6. ASSUME NEW c \in Conns, Return(c) PROVE IInv'
  BY <1>6, ReturnStep
<1>8. ASSUME NEW c \in Conns, Reset(c) PROVE IInv'
  BY <1>8, ResetStep
<1>7. ASSUME UNCHANGED vars PROVE IInv'
  <2>1. ASSUME NEW c \in Conns PROVE Untouched(c)
    BY <1>7 DEF vars, writerVars, connVars, Untouched
  <2>2. ASSUME NEW c \in Conns PROVE ConnInv(c)'
    BY <2>1, UntouchedInv DEF IInv
  <2>3. TypeOK'
    BY <1>7 DEF IInv, TypeOK, vars, writerVars, connVars
  <2> QED
    BY <2>2, <2>3 DEF IInv
<1> QED
  BY <1>1, <1>2, <1>3, <1>4, <1>5, <1>6, <1>7, <1>8 DEF Next

\* The inductive invariant holds of every behaviour.
THEOREM InvariantHolds == Spec => []IInv
<1>1. Init => IInv
  BY InitInv
<1>2. IInv /\ [Next]_vars => IInv'
  BY NextInv
<1> QED
  BY <1>1, <1>2, PTL DEF Spec

\* The variables of Framing keep their types.
THEOREM TypeCorrect == Spec => []TypeOK
<1>1. IInv => TypeOK
  BY DEF IInv
<1> QED
  BY <1>1, InvariantHolds, PTL

\* No call of recv() in process_connection is told to write more than the rest
\* of its buffer, however the network cuts the messages and whatever size a
\* package claims; and it is told to write nothing only when the connection was
\* returned and its buffers still hold the last message.
THEOREM FitsBufferCorrect == Spec => []FitsBuffer
<1> DEFINE Fits(c) ==
      LET left == bytesExpected[c] - bytesRead[c] IN
        /\ at[c] = "header" => left > 0 /\ bytesRead[c] + left <= Len(header[c])
        /\ at[c] = "recv" => /\ left > 0 \/ (left = 0 /\ due[c] > 0)
                            /\ bytesRead[c] - HeaderSize + left <= Len(body[c])
<1>1. ASSUME IInv, NEW c \in Conns, due[c] = 0 PROVE Fits(c)
  <2>1. TypeOK
    BY <1>1 DEF IInv
  <2>2. /\ BufferInv(c, From(c)) /\ bytesRead[c] \in Nat /\ bytesExpected[c] \in Nat
    BY <1>1, <2>1, ReaderFacts, ConnTypes
  <2>3. CASE at[c] = "header"
    <3>1. header[c] # NoBuffer /\ bytesRead[c] < HeaderSize /\ Len(header[c]) = HeaderSize
      BY <2>2, <2>3 DEF BufferInv
    <3>2. bytesExpected[c] = HeaderSize
      BY <2>2, <3>1, HeaderFacts DEF BufferInv
    <3> QED
      BY <2>2, <2>3, <3>1, <3>2, HeaderFacts
  <2>4. CASE at[c] = "recv"
    <3>1. /\ bytesRead[c] < bytesExpected[c] /\ bytesExpected[c] = HeaderSize + Len(body[c])
      BY <2>2, <2>4 DEF BufferInv
    <3>2. Len(body[c]) \in Nat
      <4>1. body[c] # NoBuffer /\ body[c] \in Seq(Int) \cup {NoBuffer}
        BY <2>1, <2>2, <2>4, ConnTypes DEF BufferInv
      <4> QED
        BY <4>1, LenProperties
    <3> QED
      BY <2>2, <2>4, <3>1, <3>2, HeaderFacts
  <2> QED
    BY <2>3, <2>4
<1>2. ASSUME IInv, NEW c \in Conns, due[c] > 0 PROVE Fits(c)
  <2>1. TypeOK /\ StaleInv(c)
    BY <1>2 DEF IInv, ConnInv, ReadInv
  <2>2. at[c] # "header" /\ bytesRead[c] = bytesExpected[c] /\ bytesExpected[c] \in Nat
    BY <2>1, ConnTypes DEF StaleInv
  <2>3. at[c] = "recv" => /\ bytesExpected[c] = HeaderSize + Len(body[c])
                          /\ Len(body[c]) \in Nat
    <3>1. at[c] = "recv" => body[c] # NoBuffer /\ bytesExpected[c] = HeaderSize + Len(body[c])
      BY <2>1 DEF StaleInv
    <3>2. body[c] # NoBuffer => Len(body[c]) \in Nat
      BY <2>1, ConnTypes, LenProperties
    <3> QED
      BY <3>1, <3>2
  <2> QED
    BY <1>2, <2>2, <2>3, HeaderFacts
<1>3. ASSUME IInv, NEW c \in Conns PROVE Fits(c)
  <2>1. due[c] = 0 \/ due[c] > 0
    BY <1>3, ConnTypes DEF IInv
  <2> HIDE DEF Fits
  <2> QED
    BY <1>1, <1>2, <1>3, <2>1
<1>4. IInv => FitsBuffer
  BY <1>3 DEF FitsBuffer
<1> QED
  BY <1>4, InvariantHolds, PTL

\* What unpack_message_2 makes of what pack_message made of a message is the
\* message, with all its tokens.
THEOREM RoundTrip == \A m \in Messages : Says(Pack(m)) = m
<1>1. ASSUME NEW m \in Messages PROVE IsPackage([cells |-> Pack(m), msg |-> m])
  BY PackSays
<1>2. ASSUME NEW m \in Messages PROVE Says(Pack(m)) = m
  <2>1. m # NoMessage
    BY MessagesAssumption
  <2>2. IsPackage([cells |-> Pack(m), msg |-> m])
    BY <1>1
  <2> DEFINE cells == Pack(m)
  <2> HIDE DEF cells
  <2>3. IsPackage([cells |-> cells, msg |-> m])
    BY <2>2 DEF cells
  <2>4. IF SizeOfBody(cells) < 0 THEN m = NoMessage ELSE m = Says(cells)
    BY <2>3 DEF IsPackage
  <2> QED
    BY <2>1, <2>4 DEF cells
<1> QED
  BY <1>2

LEMMA JoinedThree ==
  ASSUME NEW a \in Seq(Int), NEW b \in Seq(Int), NEW c \in Seq(Int)
  PROVE  (a \o b) \o c = a \o (b \o c)
  BY SMTT(40)

\* The package that send_status_code puts together by hand is the one that
\* pack_message makes of the same status.
THEOREM StatusPacked ==
  \A type, status \in Nat :
    PackStatus(type, status) = Pack([type |-> type, tokens |-> << Number(status) >>])
<1> SUFFICES ASSUME NEW type \in Nat, NEW status \in Nat
             PROVE  PackStatus(type, status)
                      = Pack([type |-> type, tokens |-> << Number(status) >>])
  OBVIOUS
<1> DEFINE token == Number(status)  size == Number(NumSize)  tokens == << token >>
           segs == [i \in DOMAIN tokens |-> Number(Len(tokens[i])) \o tokens[i]]
<1>1. NumSize \in Nat /\ NumSize \in Int
  BY NumSizeAssumption
<1>2. /\ token \in Seq(Int) /\ Len(token) = NumSize
      /\ size \in Seq(Int) /\ Len(size) = NumSize
  BY <1>1, NumberFacts
<1> HIDE DEF token, size
<1>3. segs = << size \o token >>
  <2>1. DOMAIN tokens = 1..1 /\ tokens[1] = token /\ Len(token) = NumSize
    BY <1>2
  <2>2. \A i \in 1..1 : Number(Len(tokens[i])) \o tokens[i] = size \o token
    <3>1. \A i \in 1..1 : i = 1
      OBVIOUS
    <3> HIDE DEF tokens
    <3> QED
      BY <2>1, <3>1, Zenon DEF size
  <2> HIDE DEF tokens
  <2>3. segs = [i \in 1..1 |-> size \o token]
    BY <2>1, <2>2, Zenon
  <2> DEFINE one == size \o token
  <2> HIDE DEF segs, one
  <2>4. [i \in 1..1 |-> one] = << one >>
    OBVIOUS
  <2> QED
    BY <2>3, <2>4 DEF one
<1>4. FlattenSeq(segs) = size \o token
  <2>1. Len(segs) = 1 /\ segs[1] = size \o token
    BY <1>3
  <2> HIDE DEF segs
  <2>2. PICK f : f[1] = Flattened(segs, f, 1) /\ FlattenSeq(segs) = f[1]
    <3>1. Len(segs) \in Nat \ {0} /\ 1 \in 1..Len(segs)
      BY <2>1
    <3> QED
      BY <2>1, <3>1, FlattenSeqFunction
  <2> QED
    BY <2>1, <2>2, Zenon DEF Flattened
<1>5. PackBody(tokens) = size \o token
  BY <1>4 DEF PackBody
<1>6. size \o token \in Seq(Int) /\ Len(size \o token) = 2 * NumSize
  <2>1. Len(size \o token) = Len(size) + Len(token) /\ size \o token \in Seq(Int)
    BY <1>2, ConcatProperties
  <2>2. NumSize + NumSize = 2 * NumSize
    BY <1>1
  <2> QED
    BY <1>2, <2>1, <2>2, Zenon
<1> DEFINE whose == << type >>  length == Number(2 * NumSize)
<1>7. whose \in Seq(Int) /\ length \in Seq(Int)
  <2>1. 2 * NumSize \in Int
    BY <1>1
  <2> QED
    BY <2>1, NumberFacts
<1>8. Pack([type |-> type, tokens |-> tokens]) = whose \o length \o (size \o token)
  <2> HIDE DEF tokens, token
  <2>1. Pack([type |-> type, tokens |-> tokens]) = Package(type, PackBody(tokens))
    BY DEF Pack
  <2>2. Package(type, PackBody(tokens))
          = << type >> \o Number(Len(PackBody(tokens))) \o PackBody(tokens)
    BY Zenon DEF Package
  <2> QED
    BY <1>5, <1>6, <2>1, <2>2, Zenon
<1>9. PackStatus(type, status) = whose \o length \o size \o token
  BY DEF PackStatus, size, token
<1> HIDE DEF whose, length
<1>10. whose \o length \in Seq(Int)
  BY <1>7, ConcatProperties
<1>11. whose \o length \o (size \o token) = whose \o length \o size \o token
  <2> DEFINE start == whose \o length
  <2>1. start \in Seq(Int)
    BY <1>10
  <2> HIDE DEF start
  <2>2. (start \o size) \o token = start \o (size \o token)
    BY <1>2, <2>1, JoinedThree, Zenon
  <2> QED
    BY <2>2, Zenon DEF start
<1>12. PackStatus(type, status) = Pack([type |-> type, tokens |-> tokens])
  BY <1>8, <1>9, <1>11, Zenon
<1> QED
  BY <1>12, Zenon DEF token

-----------------------------------------------------------------------------
(* The refinement. *)

Ascending(w) == \A j, k \in DOMAIN w : j < k => w[j].end < w[k].end

\* Of the messages in w, those that end within l cells are the first n.
Arrived1(w, l, n) ==
    /\ n \in 0..Len(w)
    /\ \A i \in 1..Len(w) : w[i].end <= l <=> i <= n

SentTo(w, l) == CHOOSE n \in 0..Len(w) : \A i \in DOMAIN w : w[i].end <= l <=> i <= n

LEMMA SentTypes ==
  ASSUME NEW w \in Sent
  PROVE  /\ Len(w) \in Nat /\ DOMAIN w = 1..Len(w)
         /\ \A i \in 1..Len(w) : w[i].end \in Nat /\ w[i].msg \in AllMessages
<1>1. Len(w) \in Nat /\ DOMAIN w = 1..Len(w)
  BY LenProperties DEF Sent
<1>2. \A i \in 1..Len(w) : w[i] \in [end : Nat, msg : AllMessages]
  BY ElementOfSeq DEF Sent
<1> QED
  BY <1>1, <1>2

LEMMA SentToFacts ==
  ASSUME NEW w \in Sent, Ascending(w), NEW l \in Nat
  PROVE  Arrived1(w, l, SentTo(w, l))
<1> DEFINE len == Len(w)  End(i) == w[i].end
           Prefix(j, n) == \A i \in 1..j : End(i) <= l <=> i <= n
           S == {j \in Nat : j <= len => \E n \in 0..j : Prefix(j, n)}
<1>1. len \in Nat /\ DOMAIN w = 1..len /\ \A i \in 1..len : End(i) \in Nat
  BY SentTypes
<1>2. \A j, k \in 1..len : j < k => End(j) < End(k)
  BY <1>1 DEF Ascending
<1> HIDE DEF len, End
<1>3. 0 \in S
  <2>1. Prefix(0, 0) /\ 0 \in 0..0
    OBVIOUS
  <2> QED
    BY <2>1, Zenon
<1>4. ASSUME NEW j \in Nat, j \in S PROVE j + 1 \in S
  <2> SUFFICES ASSUME j + 1 <= len PROVE \E n \in 0..(j + 1) : Prefix(j + 1, n)
    OBVIOUS
  <2>1. PICK n \in 0..j : Prefix(j, n)
    BY <1>1, <1>4
  <2>2. \A i \in 1..(j + 1) : i \in 1..j \/ i = j + 1
    OBVIOUS
  <2>3. j + 1 \in 1..len /\ End(j + 1) \in Nat
    BY <1>1
  <2>4. CASE n < j
    <3>1. End(n + 1) \in Nat /\ n + 1 \in 1..j /\ n + 1 \in 1..len /\ n + 1 < j + 1
      BY <1>1, <2>4
    <3>2. ~(End(n + 1) <= l) /\ End(n + 1) < End(j + 1)
      BY <1>2, <2>1, <2>3, <3>1
    <3>3. ~(End(j + 1) <= l)
      BY <2>3, <3>1, <3>2
    <3>4. Prefix(j + 1, n)
      BY <2>1, <2>2, <2>4, <3>3
    <3> QED
      BY <3>4
  <2>5. CASE n = j /\ End(j + 1) <= l
    <3>1. Prefix(j + 1, j + 1)
      BY <2>1, <2>2, <2>5
    <3> QED
      BY <3>1
  <2>6. CASE n = j /\ ~(End(j + 1) <= l)
    <3>1. Prefix(j + 1, j)
      BY <2>1, <2>2, <2>6
    <3> QED
      BY <3>1
  <2> QED
    BY <2>1, <2>4, <2>5, <2>6
<1> HIDE DEF S
<1>5. \A j \in Nat : j \in S
  BY <1>3, <1>4, Induction
<1>6. \E n \in 0..len : Prefix(len, n)
  <2> HIDE DEF Prefix
  <2>1. len \in S /\ len <= len
    BY <1>1, <1>5
  <2> QED
    BY <2>1, Zenon DEF S
<1>7. \E n \in 0..Len(w) : \A i \in DOMAIN w : w[i].end <= l <=> i <= n
  BY <1>1, <1>6, Zenon DEF len, End
<1>8. SentTo(w, l) \in 0..Len(w) /\ \A i \in DOMAIN w : w[i].end <= l <=> i <= SentTo(w, l)
  BY <1>7, Zenon DEF SentTo
<1> QED
  BY <1>1, <1>8, Zenon DEF Arrived1, len

LEMMA SentToIs ==
  ASSUME NEW w \in Sent, Ascending(w), NEW l \in Nat, NEW n, Arrived1(w, l, n)
  PROVE  SentTo(w, l) = n
<1> DEFINE m == SentTo(w, l)  len == Len(w)
<1>1. /\ m \in 0..len /\ n \in 0..len /\ len \in Nat
      /\ \A i \in 1..len : (w[i].end <= l <=> i <= m) /\ (w[i].end <= l <=> i <= n)
  BY SentToFacts, SentTypes DEF Arrived1
<1> HIDE DEF m, len
<1>2. \A i \in 1..len : i <= m <=> i <= n
  BY <1>1, Zenon
<1>3. m = n
  BY <1>1, <1>2
<1> QED
  BY <1>3 DEF m

\* Messages that end beyond what has arrived do not count.
LEMMA SentToKept ==
  ASSUME NEW w \in Sent, NEW v \in Sent, Ascending(w), Ascending(v), NEW l \in Nat,
         Len(w) <= Len(v), \A k \in 1..Len(w) : v[k] = w[k],
         \A k \in 1..Len(v) : k > Len(w) => v[k].end > l
  PROVE  SentTo(v, l) = SentTo(w, l)
<1> DEFINE n == SentTo(w, l)  long == Len(v)  short == Len(w)
<1>1. /\ n \in 0..short /\ short \in Nat /\ long \in Nat /\ short <= long
      /\ \A i \in 1..short : w[i].end <= l <=> i <= n
      /\ \A i \in 1..long : v[i].end \in Nat
  BY SentToFacts, SentTypes DEF Arrived1
<1>2. \A i \in 1..short : v[i] = w[i]
  OBVIOUS
<1>3. \A i \in 1..long : i > short => v[i].end > l
  OBVIOUS
<1> HIDE DEF n, long, short
<1>4. \A i \in 1..long : v[i].end <= l <=> i <= n
  <2> SUFFICES ASSUME NEW i \in 1..long PROVE v[i].end <= l <=> i <= n
    OBVIOUS
  <2>1. CASE i \in 1..short
    BY <1>1, <1>2, <2>1
  <2>2. CASE i > short
    BY <1>1, <1>3, <2>2
  <2> QED
    BY <1>1, <2>1, <2>2
<1>5. n \in 0..long
  BY <1>1
<1>6. Arrived1(v, l, n)
  BY <1>4, <1>5 DEF Arrived1, long
<1> QED
  BY <1>6, SentToIs DEF n

\* One more cell completes at most one message.
LEMMA SentToNext ==
  ASSUME NEW w \in Sent, Ascending(w), NEW l \in Nat
  PROVE  \/ SentTo(w, l + 1) = SentTo(w, l)
         \/ SentTo(w, l) < Len(w) /\ SentTo(w, l + 1) = SentTo(w, l) + 1
<1> DEFINE n == SentTo(w, l)  m == SentTo(w, l + 1)  len == Len(w)  End(i) == w[i].end
<1>1. l + 1 \in Nat
  OBVIOUS
<1>2. /\ n \in 0..len /\ m \in 0..len /\ len \in Nat
      /\ \A i \in 1..len : (End(i) <= l <=> i <= n) /\ (End(i) <= l + 1 <=> i <= m)
      /\ \A i \in 1..len : End(i) \in Nat
  BY <1>1, SentToFacts, SentTypes DEF Arrived1
<1>3. \A j, k \in 1..len : j < k => End(j) < End(k)
  BY SentTypes DEF Ascending
<1> HIDE DEF n, m, len, End
<1>4. n <= m
  <2> SUFFICES ASSUME m < n PROVE FALSE
    BY <1>2
  <2>1. n \in 1..len
    BY <1>2
  <2>2. End(n) <= l /\ ~(End(n) <= l + 1) /\ End(n) \in Nat
    BY <1>2, <2>1
  <2> QED
    BY <2>2
<1>5. m <= n + 1
  <2> SUFFICES ASSUME m > n + 1 PROVE FALSE
    BY <1>2
  <2>1. n + 1 \in 1..len /\ m \in 1..len /\ n + 1 < m
    BY <1>2
  <2>2. End(m) <= l + 1 /\ ~(End(n + 1) <= l) /\ End(n + 1) < End(m)
    BY <1>2, <1>3, <2>1
  <2> QED
    BY <1>2, <2>1, <2>2
<1>6. m = n \/ (n < len /\ m = n + 1)
  BY <1>2, <1>4, <1>5
<1> QED
  BY <1>6 DEF n, m, len

\* What the abstract specification sees of a connection.
Msgs(w, n) == [i \in 1..n |-> w[i].msg]

SentOf == [c \in Conns |-> [i \in 1..WholeSent(c) |-> whole[c][i].msg]]
OpenOf == [c \in Conns |-> ~closed[c]]
SettledOf == [c \in Conns |-> due[c] = 0]

LEMMA SentOfIs ==
  /\ SentOf = [c \in Conns |-> Msgs(whole[c], SentTo(whole[c], limit[c]))]
  /\ SentOf' = [c \in Conns |-> Msgs(whole'[c], SentTo(whole'[c], limit'[c]))]
<1>1. \A c \in Conns : WholeSent(c) = SentTo(whole[c], limit[c])
  BY Zenon DEF WholeSent, SentTo
<1>2. \A c \in Conns : WholeSent(c)' = SentTo(whole'[c], limit'[c])
  BY Zenon DEF WholeSent, SentTo
<1>3. SentOf = [c \in Conns |-> Msgs(whole[c], SentTo(whole[c], limit[c]))]
  BY <1>1, Zenon DEF SentOf, Msgs
<1>4. SentOf' = [c \in Conns |-> Msgs(whole'[c], SentTo(whole'[c], limit'[c]))]
  BY <1>2, Zenon DEF SentOf, Msgs
<1> QED
  BY <1>3, <1>4

\* Where a reader is, in the terms of the abstract specification: it has taken
\* some of the messages that have arrived.
LEMMA AbstractFacts ==
  ASSUME IInv, NEW c \in Conns, NEW n, n = SentTo(whole[c], limit[c])
  PROVE  /\ whole[c] \in Sent /\ limit[c] \in Nat /\ Ascending(whole[c])
         /\ Arrived1(whole[c], limit[c], n)
         /\ n \in Nat /\ n <= Len(whole[c])
         /\ Len(got[c]) \in Nat /\ Len(got[c]) <= Len(whole[c])
         /\ got[c] = Msgs(whole[c], Len(got[c]))
         /\ Len(got[c]) <= n
         /\ Len(Msgs(whole[c], n)) = n
<1> DEFINE w == whole[c]  k == Len(got[c])  l == limit[c]
<1>1. TypeOK /\ ConnInv(c) /\ StreamInv(stream[c], w) /\ ReadInv(c)
  BY DEF IInv, ConnInv
<1>2. w \in Sent /\ l \in Nat /\ Ascending(w) /\ Len(w) \in Nat
  BY <1>1, ConnTypes DEF StreamInv, Ascending
<1>3. Arrived1(w, l, n)
  BY <1>2, SentToFacts
<1>4. n \in 0..Len(w) /\ \A i \in 1..Len(w) : w[i].end <= l <=> i <= n
  BY <1>3, Zenon DEF Arrived1
<1>5. n \in Nat /\ n <= Len(w)
  BY <1>2, <1>4
<1>6. /\ k \in Nat /\ k <= Len(w) /\ DOMAIN got[c] = 1..k /\ got[c] \in Seq(AllMessages)
      /\ \A i \in 1..k : got[c][i] = w[i].msg
  BY <1>1, ConnTypes DEF ReadInv
<1>7. got[c] = Msgs(w, k)
  <2>1. got[c] = [i \in 1..k |-> got[c][i]]
    BY <1>6
  <2> QED
    BY <1>6, <2>1, Zenon DEF Msgs
<1>8. k <= n
  <2>1. From(c) <= l
    <3>1. /\ pos[c] \in Nat /\ bytesRead[c] \in Nat /\ pos[c] <= l
          /\ pos[c] = From(c) + IF due[c] > 0 THEN 0 ELSE bytesRead[c]
      BY <1>1, ConnTypes DEF ConnInv, ReadInv
    <3>2. From(c) \in Nat
      BY <1>1, <1>2, <1>6, ConnTypes, StreamFacts DEF From
    <3> HIDE DEF l
    <3> QED
      BY <1>2, <3>1, <3>2
  <2>2. CASE k = 0
    BY <1>5, <2>2
  <2>3. CASE k # 0
    <3>1. w[k].end <= l /\ k \in 1..Len(w)
      BY <1>2, <1>6, <2>1, <2>3 DEF From, Start
    <3> QED
      BY <1>4, <3>1
  <2> QED
    BY <2>2, <2>3
<1>9. Len(Msgs(w, n)) = n
  BY <1>5 DEF Msgs
<1> QED
  BY <1>2, <1>3, <1>5, <1>6, <1>7, <1>8, <1>9

LEMMA InitRefines == Init => Channel!Init
<1> SUFFICES ASSUME Init PROVE Channel!Init
  OBVIOUS
<1>1. SentOf = [c \in Conns |-> << >>]
  <2>1. ASSUME NEW c \in Conns PROVE Msgs(whole[c], SentTo(whole[c], limit[c])) = << >>
    <3>1. SentTo(whole[c], limit[c]) \in 0..Len(whole[c]) /\ Len(whole[c]) = 0
      <4>1. whole[c] = << >>
        BY DEF Init
      <4>2. SentTo(<< >>, limit[c]) \in 0..0
        BY DEF SentTo
      <4> QED
        BY <4>1, <4>2
    <3>2. SentTo(whole[c], limit[c]) = 0
      BY <3>1
    <3>3. Msgs(whole[c], 0) = << >>
      BY DEF Msgs
    <3> QED
      BY <3>2, <3>3
  <2> QED
    BY <2>1, SentOfIs, Zenon
<1>2. OpenOf = [c \in Conns |-> TRUE]
  BY DEF Init, OpenOf
<1>3. got = [c \in Conns |-> << >>]
  BY DEF Init
<1>4. SettledOf = [c \in Conns |-> TRUE]
  BY DEF Init, SettledOf
<1> QED
  BY <1>1, <1>2, <1>3, <1>4, Zenon DEF Channel!Init, SentOf, OpenOf, SettledOf

\* A step that neither writes a message nor lets a cell arrive.
LEMMA SameSent ==
  ASSUME UNCHANGED <<whole, limit>>
  PROVE  SentOf' = SentOf
<1>1. SentOf' = [c \in Conns |-> Msgs(whole[c], SentTo(whole[c], limit[c]))]
  BY SentOfIs, Zenon
<1> QED
  BY <1>1, SentOfIs, Zenon

LEMMA Stutter ==
  ASSUME SentOf' = SentOf, closed' = closed, got' = got, SettledOf' = SettledOf
  PROVE  UNCHANGED Channel!vars
<1>1. OpenOf' = OpenOf
  BY DEF OpenOf
<1> QED
  BY <1>1, Zenon DEF Channel!vars, SentOf, OpenOf, SettledOf

LEMMA SameSettled ==
  ASSUME due' = due
  PROVE  SettledOf' = SettledOf
  BY DEF SettledOf

\* send() of a package: nothing of it has arrived.
LEMMA WriteRefines ==
  ASSUME IInv, IInv', NEW c \in Conns, Write(c)
  PROVE  UNCHANGED Channel!vars
<1> DEFINE w == whole[c]
<1>1. PICK p \in AllPackages :
         whole' = IF p.msg = NoMessage THEN whole
                  ELSE [whole EXCEPT ![c] = Append(@,
                          [end |-> Len(stream[c]) + Len(p.cells), msg |-> p.msg])]
  BY Zenon DEF Write
<1>2. limit' = limit /\ got' = got /\ closed' = closed /\ due' = due
  BY Zenon DEF Write, connVars
<1>3. SentTo(whole'[c], limit[c]) = SentTo(w, limit[c]) /\ (\A k \in 1..Len(w) : whole'[c][k] = w[k])
  <2>1. CASE whole' = whole
    BY <2>1
  <2>2. CASE whole' # whole
    <3> DEFINE v == whole'[c]  l == limit[c]  e == Len(stream[c]) + Len(p.cells)
               last == [end |-> e, msg |-> p.msg]
    <3>1. w \in Sent /\ l \in Nat /\ Ascending(w) /\ Len(w) \in Nat
      BY AbstractFacts, SentTypes
    <3>2. v \in Sent /\ Ascending(v)
      <4>1. TypeOK' /\ StreamInv(stream'[c], whole'[c])
        BY DEF IInv, ConnInv
      <4> QED
        BY <4>1 DEF TypeOK, Sent, StreamInv, Ascending
    <3>3. v = Append(w, last)
      <4>1. whole' = [whole EXCEPT ![c] = Append(@, last)]
        BY <1>1, <2>2
      <4>2. DOMAIN whole = Conns
        BY DEF IInv, TypeOK
      <4> QED
        BY <4>1, <4>2, Zenon
    <3>4. e > l /\ e \in Nat
      <4>1. /\ l <= Len(stream[c]) /\ Len(stream[c]) \in Nat
        BY ConnTypes DEF IInv, ConnInv
      <4>2. IsPackage(p)
        BY PackageFacts
      <4>3. p.cells \in Seq(Int) /\ Len(p.cells) >= HeaderSize
        BY <4>2, Zenon DEF IsPackage
      <4>4. Len(p.cells) \in Nat
        BY <4>3, LenProperties
      <4> DEFINE long == Len(stream[c])  more == Len(p.cells)
      <4>5. /\ l \in Nat /\ long \in Nat /\ more \in Nat /\ l <= long /\ more >= 2
        BY <3>1, <4>1, <4>3, <4>4, HeaderFacts
      <4> HIDE DEF l, long, more
      <4>6. long + more > l /\ long + more \in Nat
        BY <4>5
      <4> QED
        BY <4>6 DEF long, more
    <3> HIDE DEF e
    <3>5. /\ Len(v) = Len(w) + 1
          /\ \A k \in 1..Len(w) : v[k] = w[k]
          /\ v[Len(w) + 1] = last
      BY <3>1, <3>3, AppendProperties DEF Sent
    <3>6. Len(w) <= Len(v) /\ \A k \in 1..Len(v) : k > Len(w) => v[k].end > l
      <4>1. \A k \in 1..(Len(w) + 1) : k > Len(w) => k = Len(w) + 1
        BY <3>1
      <4>2. v[Len(w) + 1].end > l
        BY <3>4, <3>5
      <4> HIDE DEF v, l
      <4> QED
        BY <3>1, <3>5, <4>1, <4>2
    <3> HIDE DEF v, l, w
    <3>7. SentTo(v, l) = SentTo(w, l)
      BY <3>1, <3>2, <3>5, <3>6, SentToKept
    <3> QED
      BY <3>5, <3>7 DEF v, l, w
  <2> QED
    BY <2>1, <2>2
<1>4. ASSUME NEW d \in Conns
      PROVE  Msgs(whole'[d], SentTo(whole'[d], limit'[d])) = Msgs(whole[d], SentTo(whole[d], limit[d]))
  <2>1. CASE d = c
    <3>1. SentTo(w, limit[c]) \in Nat /\ SentTo(w, limit[c]) <= Len(w) /\ Len(w) \in Nat
      BY AbstractFacts, SentTypes
    <3>2. \A k \in 1..SentTo(w, limit[c]) : whole'[c][k] = w[k]
      BY <1>3, <3>1
    <3> QED
      BY <1>2, <1>3, <2>1, <3>2 DEF Msgs
  <2>2. CASE d # c
    <3>1. whole'[d] = whole[d]
      BY <1>1, <2>2 DEF IInv, TypeOK
    <3> QED
      BY <1>2, <3>1
  <2> QED
    BY <2>1, <2>2
<1>5. SentOf' = SentOf
  BY <1>4, SentOfIs, Zenon
<1> QED
  BY <1>2, <1>5, SameSettled, Stutter

\* The last cell of a message arrives, or another one.
LEMMA ArriveRefines ==
  ASSUME IInv, NEW c \in Conns, Arrive(c)
  PROVE  Channel!Next \/ UNCHANGED Channel!vars
<1> DEFINE w == whole[c]  n == SentTo(w, limit[c])
<1>1. /\ limit' = [limit EXCEPT ![c] = @ + 1] /\ whole' = whole /\ got' = got /\ closed' = closed
      /\ limit \in [Conns -> Nat] /\ due' = due
  BY DEF Arrive, IInv, TypeOK, connVars
<1>2. w \in Sent /\ limit[c] \in Nat /\ Ascending(w) /\ n \in Nat /\ n <= Len(w) /\ Len(w) \in Nat
  BY AbstractFacts, SentTypes
<1>3. limit'[c] = limit[c] + 1 /\ \A d \in Conns : d # c => limit'[d] = limit[d]
  BY <1>1
<1>4. SentTo(w, limit'[c]) = n \/ (n < Len(w) /\ SentTo(w, limit'[c]) = n + 1)
  BY <1>2, <1>3, SentToNext
<1>5. CASE SentTo(w, limit'[c]) = n
  <2>1. \A d \in Conns :
          Msgs(whole'[d], SentTo(whole'[d], limit'[d])) = Msgs(whole[d], SentTo(whole[d], limit[d]))
    BY <1>1, <1>3, <1>5, Zenon
  <2>2. SentOf' = SentOf
    BY <2>1, SentOfIs, Zenon
  <2> QED
    BY <1>1, <2>2, SameSettled, Stutter
<1>6. CASE n < Len(w) /\ SentTo(w, limit'[c]) = n + 1
  <2>1. PICK m \in AllMessages : m = w[n + 1].msg
    BY <1>2, <1>6, SentTypes
  <2>2. Msgs(w, n + 1) = Append(Msgs(w, n), m)
    <3> HIDE DEF n, w
    <3>1. \A i \in 1..(n + 1) : i \in 1..n \/ i = n + 1
      BY <1>2
    <3>2. Len(Msgs(w, n)) = n
      BY <1>2 DEF Msgs
    <3> QED
      BY <1>2, <2>1, <3>1, <3>2 DEF Msgs
  <2>3. SentOf' = [SentOf EXCEPT ![c] = Append(@, m)]
    <3> DEFINE old(d) == Msgs(whole[d], SentTo(whole[d], limit[d]))
               new(d) == Msgs(whole'[d], SentTo(whole'[d], limit'[d]))
    <3>1. \A d \in Conns : d # c => new(d) = old(d)
      BY <1>1, <1>3, Zenon
    <3>2. new(c) = Append(old(c), m)
      BY <1>1, <1>6, <2>2, Zenon
    <3>3. SentOf = [d \in Conns |-> old(d)] /\ SentOf' = [d \in Conns |-> new(d)]
      BY SentOfIs, Zenon
    <3> HIDE DEF old, new
    <3>4. [[d \in Conns |-> old(d)] EXCEPT ![c] = Append(@, m)] = [d \in Conns |-> new(d)]
      BY <3>1, <3>2
    <3> QED
      BY <3>3, <3>4, Zenon
  <2>4. OpenOf' = OpenOf
    BY <1>1 DEF OpenOf
  <2>5. Channel!Send(c, m)
    BY <1>1, <2>3, <2>4, SameSettled, Zenon DEF Channel!Send, SentOf, OpenOf, SettledOf
  <2>6. Channel!Next
    BY <2>5, Zenon DEF Channel!Next
  <2> QED
    BY <2>6
<1> QED
  BY <1>4, <1>5, <1>6

\* A message is taken when it is the next and has arrived.
LEMMA TakeRefines ==
  ASSUME IInv, NEW c \in Conns, Takes(c), at[c] # "poll",
         UNCHANGED <<whole, limit, closed>>
  PROVE  Channel!Next
<1> DEFINE w == whole[c]  k == Len(got[c])  n == SentTo(w, limit[c])
<1>1. /\ k < Len(w) /\ w[k + 1].end <= limit[c] /\ got' = [got EXCEPT ![c] = Append(@, w[k + 1].msg)]
  BY Zenon DEF Takes
<1>2. /\ Arrived1(w, limit[c], n) /\ n \in Nat /\ k \in Nat /\ Len(Msgs(w, n)) = n
      /\ n <= Len(w) /\ Len(w) \in Nat
  BY AbstractFacts, SentTypes
<1>3. k + 1 \in 1..Len(w)
  BY <1>1, <1>2
<1>4. k + 1 <= n
  BY <1>1, <1>2, <1>3, Zenon DEF Arrived1
<1>5. SentOf[c] = Msgs(w, n)
  BY SentOfIs, Zenon
<1>6. Msgs(w, n)[k + 1] = w[k + 1].msg /\ k < Len(Msgs(w, n))
  BY <1>2, <1>4 DEF Msgs
<1>7. OpenOf' = OpenOf /\ OpenOf[c]
  <2>1. ~closed[c]
    BY DEF IInv, ConnInv, ReadInv
  <2> QED
    BY <2>1 DEF OpenOf
<1>8. SentOf' = SentOf
  BY SameSent
<1>9. got' = [got EXCEPT ![c] = Append(@, SentOf[c][Len(@) + 1])] /\ Len(got[c]) < Len(SentOf[c])
  <2>1. SentOf[c][Len(got[c]) + 1] = w[k + 1].msg
    BY <1>5, <1>6, Zenon
  <2> QED
    BY <1>1, <1>5, <1>6, <2>1, Zenon
<1>10. SettledOf[c] /\ \E now \in BOOLEAN : SettledOf' = [SettledOf EXCEPT ![c] = now]
  <2> DEFINE value == IF c \in served THEN 1 ELSE 0
             now == value = 0
  <2>1. due[c] = 0 /\ due' = [due EXCEPT ![c] = value] /\ DOMAIN due = Conns
    BY DEF Takes, IInv, TypeOK
  <2>2. now \in BOOLEAN
    OBVIOUS
  <2> HIDE DEF value
  <2>3. SettledOf' = [SettledOf EXCEPT ![c] = now]
    BY <2>1 DEF SettledOf
  <2>4. SettledOf[c]
    BY <2>1 DEF SettledOf
  <2> HIDE DEF now
  <2> QED
    BY <2>2, <2>3, <2>4, Zenon
<1>11. Channel!Take(c)
  BY <1>7, <1>8, <1>9, <1>10, Zenon DEF Channel!Take, SentOf, OpenOf, SettledOf
<1> QED
  BY <1>11, Zenon DEF Channel!Next

\* The server closes a connection, or a client leaves its round.
LEMMA GiveUpRefines ==
  ASSUME IInv, NEW c \in Conns, at[c] # "poll",
         due[c] = 0 => Len(got[c]) >= SentTo(whole[c], limit[c]),
         GiveUp(c)
  PROVE  Channel!Next \/ UNCHANGED Channel!vars
<1> DEFINE w == whole[c]  k == Len(got[c])  n == SentTo(w, limit[c])
<1>0. /\ closed' = [closed EXCEPT ![c] = c \in served]
      /\ UNCHANGED <<whole, limit, got, due>>
  BY Zenon DEF GiveUp, writerVars, connVars
<1>1. got[c] = Msgs(w, k) /\ k <= n /\ k \in Nat /\ n \in Nat
  BY AbstractFacts
<1>2. SettledOf[c] => got[c] = SentOf[c]
  <2> SUFFICES ASSUME SettledOf[c] PROVE got[c] = SentOf[c]
    OBVIOUS
  <2>0. due[c] = 0
    <3>1. SettledOf[c] = (due[c] = 0)
      BY Zenon DEF SettledOf
    <3> QED
      BY <3>1, Zenon
  <2>1. k = n
    BY <1>1, <2>0
  <2>2. SentOf[c] = Msgs(w, n)
    BY SentOfIs, Zenon
  <2> QED
    BY <1>1, <2>1, <2>2
<1>3. SentOf' = SentOf /\ SettledOf' = SettledOf
  BY <1>0, SameSent, SameSettled
<1>4. closed \in [Conns -> BOOLEAN] /\ closed[c] = FALSE
  <2>1. closed \in [Conns -> BOOLEAN] /\ ~closed[c]
    BY DEF IInv, TypeOK, ConnInv, ReadInv
  <2> QED
    BY <2>1
<1>5. CASE c \in served
  <2>0. (c \in served) = TRUE
    BY <1>5
  <2>1. closed' = [closed EXCEPT ![c] = TRUE]
    BY <1>0, <2>0, Zenon
  <2>2. OpenOf' = [OpenOf EXCEPT ![c] = FALSE]
    BY <1>4, <2>1 DEF OpenOf
  <2>3. Channel!Close(c)
    BY <1>0, <1>2, <1>3, <2>2, Zenon DEF Channel!Close, SentOf, OpenOf, SettledOf
  <2>4. Channel!Next
    BY <2>3, Zenon DEF Channel!Next
  <2> QED
    BY <2>4
<1>6. CASE c \notin served
  <2>1. (c \in served) = FALSE
    BY <1>6
  <2>2. closed' = [closed EXCEPT ![c] = FALSE]
    BY <1>0, <2>1, Zenon
  <2>3. closed' = closed
    BY <1>4, <2>2
  <2> QED
    BY <1>0, <1>3, <2>3, Stutter
<1> QED
  BY <1>5, <1>6

\* A listener that asks for something finds the end of a stream only between two
\* messages or in one that does not arrive whole, and a bad size only behind the
\* last message.
LEMMA EndOfStreamRefines ==
  ASSUME IInv, NEW c \in Conns, EndOfStream(c)
  PROVE  Channel!Next \/ UNCHANGED Channel!vars
<1> DEFINE w == whole[c]  k == Len(got[c])  l == limit[c]  n == SentTo(w, l)
           read == bytesRead[c]  s == stream[c]
<1>1. /\ at[c] \in {"header", "recv"} /\ at[c] # "poll" /\ limit[c] - pos[c] = 0
      /\ bytesRead[c] < bytesExpected[c] /\ GiveUp(c)
  BY DEF EndOfStream, Arrived
<1>2. TypeOK /\ due[c] = 0 /\ StreamInv(s, w)
  BY <1>1, Fresh DEF IInv, ConnInv, ReadInv
<1>3. PICK from : from = From(c)
  OBVIOUS
<1>4. /\ from \in Nat /\ pos[c] = from + read /\ BufferInv(c, from) /\ k \in 0..Len(w)
      /\ read \in Nat /\ pos[c] \in Nat
  BY <1>2, <1>3, ReaderFacts, ConnTypes
<1>5. /\ w \in Sent /\ Arrived1(w, l, n) /\ n \in Nat /\ k \in Nat /\ l \in Nat /\ n <= Len(w)
      /\ s \in Seq(Int) /\ body[c] \in Seq(Int) \cup {NoBuffer} /\ Len(w) \in Nat
  BY <1>2, AbstractFacts, SentTypes, ConnTypes
<1>6. l = from + read
  BY <1>1, <1>4, <1>5
<1>7. k >= n
  <2> SUFFICES ASSUME k < n PROVE FALSE
    BY <1>5
  <2>1. k + 1 <= n /\ k + 1 \in 1..Len(w) /\ k < Len(w)
    BY <1>5
  <2>2. w[k + 1].end <= l
    BY <1>5, <2>1, Zenon DEF Arrived1
  <2>3. PICK size : size = SizeAt(s, from)
    OBVIOUS
  <2>4. size \in Nat /\ w[k + 1].end = from + HeaderSize + size
    <3>1. from = Start(w, k)
      BY <1>3 DEF From
    <3> QED
      BY <1>2, <1>4, <1>5, <2>1, <2>3, <3>1, StreamFacts
  <2>5. read < HeaderSize + size
    <3>1. CASE at[c] = "header"
      <4>1. read < HeaderSize
        BY <1>4, <3>1 DEF BufferInv
      <4> QED
        BY <1>4, <2>4, <4>1, HeaderFacts
    <3>2. CASE at[c] = "recv"
      <4>1. read < HeaderSize + SizeAt(s, from)
        BY <1>4, <3>2 DEF BufferInv
      <4> QED
        BY <2>3, <4>1
    <3> QED
      BY <1>1, <3>1, <3>2
  <2> HIDE DEF l, read
  <2> QED
    BY <1>4, <1>5, <1>6, <2>2, <2>4, <2>5, HeaderFacts
<1> QED
  BY <1>1, <1>7, GiveUpRefines

\* A recv() of nothing may lose what has arrived, but not on a settled connection.
LEMMA RecvNothingRefines ==
  ASSUME IInv, NEW c \in Conns, RecvNothing(c)
  PROVE  Channel!Next \/ UNCHANGED Channel!vars
<1>1. at[c] = "recv" /\ bytesRead[c] = bytesExpected[c] /\ at[c] # "poll" /\ GiveUp(c)
  BY DEF RecvNothing
<1>2. ASSUME due[c] = 0 PROVE FALSE
  <2>1. BufferInv(c, From(c))
    BY <1>2, ReaderFacts
  <2>2. bytesRead[c] < bytesExpected[c]
    BY <1>1, <2>1 DEF BufferInv
  <2>3. bytesRead[c] \in Nat
    BY ConnTypes DEF IInv
  <2> QED
    BY <1>1, <2>2, <2>3
<1> QED
  BY <1>1, <1>2, GiveUpRefines

LEMMA BadSizeRefines ==
  ASSUME IInv, NEW c \in Conns, BadSize(c)
  PROVE  Channel!Next \/ UNCHANGED Channel!vars
<1>1. at[c] = "body" /\ SizeOfBody(header[c]) < 0 /\ at[c] # "poll" /\ GiveUp(c)
  BY DEF BadSize
<1>2. due[c] = 0 /\ TypeOK
  BY <1>1, Fresh DEF IInv
<1>3. HeaderSize <= bytesRead[c]
  BY <1>1, <1>2, ReaderFacts DEF BufferInv
<1>4. Len(got[c]) = Len(whole[c])
  BY <1>1, <1>2, <1>3, HeaderRead
<1>5. /\ SentTo(whole[c], limit[c]) \in Nat /\ SentTo(whole[c], limit[c]) <= Len(whole[c])
      /\ Len(got[c]) \in Nat
  BY AbstractFacts
<1>6. Len(got[c]) >= SentTo(whole[c], limit[c])
  BY <1>4, <1>5
<1> QED
  BY <1>1, <1>6, GiveUpRefines

\* The deleter of the input event.
LEMMA ResetRefines ==
  ASSUME IInv, NEW c \in Conns, Reset(c)
  PROVE  Channel!Next \/ UNCHANGED Channel!vars
<1>1. UNCHANGED <<whole, limit, closed, got>>
  BY DEF Reset, writerVars
<1>2. SentOf' = SentOf /\ OpenOf' = OpenOf
  BY <1>1, SameSent DEF OpenOf
<1>3. CASE due' = due
  BY <1>1, <1>2, <1>3, SameSettled, Stutter
<1>4. CASE due' # due
  <2>1. due' = [due EXCEPT ![c] = 0] /\ DOMAIN due = Conns
    BY <1>4 DEF Reset, IInv, TypeOK
  <2>2. SettledOf' = [SettledOf EXCEPT ![c] = TRUE]
    BY <2>1 DEF SettledOf
  <2>3. Channel!Settle(c)
    BY <1>1, <1>2, <2>2, Zenon DEF Channel!Settle, SentOf, OpenOf, SettledOf
  <2> QED
    BY <2>3, Zenon DEF Channel!Next
<1> QED
  BY <1>3, <1>4

LEMMA DispatchAgainRefines ==
  ASSUME IInv, NEW c \in Conns, DispatchAgain(c)
  PROVE  UNCHANGED Channel!vars
<1>1. /\ UNCHANGED <<whole, limit, closed, got>> /\ due[c] > 0
      /\ due' = [due EXCEPT ![c] = @ + 1]
  BY DEF DispatchAgain, writerVars
<1>2. due \in [Conns -> 0..2]
  BY DEF IInv, TypeOK
<1>3. SettledOf' = SettledOf
  <2>1. \A d \in Conns : due'[d] = 0 <=> due[d] = 0
    BY <1>1, <1>2
  <2> QED
    BY <2>1 DEF SettledOf
<1> QED
  BY <1>1, <1>3, SameSent, Stutter

LEMMA NextRefines ==
  ASSUME IInv, IInv', [Next]_vars
  PROVE  [Channel!Next]_(Channel!vars)
<1>1. ASSUME UNCHANGED <<whole, limit, closed, got, due>> PROVE UNCHANGED Channel!vars
  BY <1>1, SameSent, SameSettled, Stutter
<1>2. ASSUME NEW c \in Conns, Process(c) PROVE Channel!Next \/ UNCHANGED Channel!vars
  <2>1. CASE EndOfStream(c)
    BY <2>1, EndOfStreamRefines
  <2>2. CASE RecvHeader(c)
    <3>1. UNCHANGED <<whole, limit, closed, got, due>>
      BY <2>2 DEF RecvHeader, writerVars
    <3> QED
      BY <1>1, <3>1
  <2>3. CASE NoBody(c)
    <3>1. at[c] # "poll" /\ UNCHANGED <<whole, limit, closed>>
      BY <2>3 DEF NoBody, writerVars
    <3> QED
      BY <2>3, <3>1, NoBodyStep, TakeRefines
  <2>4. CASE BadSize(c)
    BY <2>4, BadSizeRefines
  <2>5. CASE Allocate(c)
    <3>1. UNCHANGED <<whole, limit, closed, got, due>>
      BY <2>5 DEF Allocate, writerVars
    <3> QED
      BY <1>1, <3>1
  <2>6. CASE RecvBody(c)
    <3>1. at[c] # "poll" /\ UNCHANGED <<whole, limit, closed>>
      BY <2>6 DEF RecvBody, writerVars
    <3>2. Takes(c) \/ UNCHANGED <<got, due>>
      BY <2>6, RecvBodyStep
    <3> QED
      BY <1>1, <3>1, <3>2, TakeRefines
  <2>7. CASE RecvNothing(c)
    BY <2>7, RecvNothingRefines
  <2>8. CASE DispatchAgain(c)
    BY <2>8, DispatchAgainRefines
  <2> QED
    BY <1>2, <2>1, <2>2, <2>3, <2>4, <2>5, <2>6, <2>7, <2>8 DEF Process
<1>3. ASSUME NEW c \in Conns, Write(c) PROVE UNCHANGED Channel!vars
  BY <1>3, WriteRefines
<1>4. ASSUME NEW c \in Conns, Arrive(c) PROVE Channel!Next \/ UNCHANGED Channel!vars
  BY <1>4, ArriveRefines
<1>5. ASSUME NEW c \in Conns, Finish(c) \/ Poll(c) \/ Return(c) PROVE UNCHANGED Channel!vars
  <2>1. UNCHANGED <<whole, limit, closed, got, due>>
    BY <1>5 DEF Finish, Poll, Return, writerVars, connVars
  <2> QED
    BY <1>1, <2>1
<1>6. ASSUME NEW c \in Conns, Reset(c) PROVE Channel!Next \/ UNCHANGED Channel!vars
  BY <1>6, ResetRefines
<1>7. ASSUME UNCHANGED vars PROVE UNCHANGED Channel!vars
  BY <1>1, <1>7 DEF vars, writerVars, connVars
<1> HIDE DEF Channel!Next, Channel!vars
<1>8. Channel!Next \/ UNCHANGED Channel!vars
  BY <1>2, <1>3, <1>4, <1>5, <1>6, <1>7, Zenon DEF Next
<1> QED
  BY <1>8

\* Framing implements MessageChannel: in the eyes of its user a connection
\* carries whole messages, in order and once each, however send() and recv()
\* cut them.  What has arrived whole is given up by process_connection only
\* while the last message is taken and not settled.
THEOREM Refinement == Spec => DeliversMessages
<1>1. Init => Channel!Init
  BY InitRefines
<1>2. IInv /\ IInv' /\ [Next]_vars => [Channel!Next]_(Channel!vars)
  BY NextRefines
<1> QED
  BY <1>1, <1>2, InvariantHolds, PTL DEF Spec, DeliversMessages, Channel!Spec

=============================================================================
