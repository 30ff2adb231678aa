---------------------------- MODULE StreamLemmas ----------------------------
(***************************************************************************)
(* Facts that several of the proofs use: induction on numbers, and streams *)
(* of bytes that move through a row of buffers.                            *)
(***************************************************************************)
EXTENDS Streams, SequencesExt, SequenceTheorems, WellFoundedInduction, NaturalsInduction, TLAPS

(* Induction on the natural numbers in the form of a set.                   *)
Below == {p \in Nat \X Nat : p[1] < p[2]}

LEMMA SmallestOf ==
  ASSUME NEW T, T \subseteq Nat, T # {}
  PROVE  \E x \in T : \A y \in T : x <= y
<1>1. OpToRel(<, Nat) = Below
  BY DEF OpToRel, Below
<1>2. IsWellFoundedOn(Below, Nat)
  BY <1>1, NatLessThanWellFounded
<1>3. PICK x \in T : \A y \in T : ~(<<y, x>> \in Below)
  BY <1>2, WFMin
<1>4. ASSUME NEW y \in T PROVE x <= y
  <2>1. x \in Nat /\ y \in Nat
    OBVIOUS
  <2>2. <<y, x>> \in Nat \X Nat /\ <<y, x>>[1] = y /\ <<y, x>>[2] = x
    BY <2>1
  <2>3. ~(y < x)
    BY <1>3, <2>2 DEF Below
  <2>4. QED BY <2>1, <2>3
<1>5. QED BY <1>4

LEMMA Induction ==
  ASSUME NEW T, 0 \in T, \A n \in Nat : n \in T => n + 1 \in T
  PROVE  Nat \subseteq T
<1> SUFFICES ASSUME ~(Nat \subseteq T) PROVE FALSE
  OBVIOUS
<1> DEFINE U == Nat \ T
<1>1. PICK x \in U : \A y \in U : x <= y
  BY SmallestOf
<1>2. x \in Nat /\ x # 0
  OBVIOUS
<1>3. x - 1 \in Nat /\ ~(x <= x - 1) /\ (x - 1) + 1 = x
  BY <1>2
<1>4. x - 1 \in T
  BY <1>1, <1>3
<1>5. QED BY <1>3, <1>4

(* Cutting a sequence in two and joining the parts gives it back.           *)
LEMMA Split ==
  ASSUME NEW S, NEW s \in Seq(S), NEW n \in 0..Len(s)
  PROVE  /\ First(s, n) \in Seq(S) /\ Len(First(s, n)) = n
         /\ From(s, n) \in Seq(S)  /\ Len(From(s, n)) = Len(s) - n
         /\ First(s, n) \o From(s, n) = s
<1>1. Len(s) \in Nat /\ \A i \in 1..Len(s) : s[i] \in S
  BY LenProperties, ElementOfSeq
<1>2. /\ First(s, n) \in Seq(S) /\ Len(First(s, n)) = n
      /\ From(s, n) \in Seq(S)  /\ Len(From(s, n)) = Len(s) - n
  <2>1. (\A i \in 1..n : s[i] \in S) /\ (\A i \in (n+1)..Len(s) : s[i] \in S)
    BY <1>1
  <2>2. /\ SubSeq(s, 1, n) \in Seq(S)
        /\ Len(SubSeq(s, 1, n)) = IF 1 <= n THEN n - 1 + 1 ELSE 0
    BY <1>1, <2>1, SubSeqProperties
  <2>3. /\ SubSeq(s, n + 1, Len(s)) \in Seq(S)
        /\ Len(SubSeq(s, n + 1, Len(s)))
             = IF n + 1 <= Len(s) THEN Len(s) - (n + 1) + 1 ELSE 0
    <3>1. n + 1 \in Int /\ Len(s) \in Int
      BY <1>1
    <3>2. QED BY <1>1, <2>1, <3>1, SubSeqProperties
  <2>4. QED BY <1>1, <2>2, <2>3 DEF First, From
<1>3. First(s, n) \o From(s, n) = SubSeq(s, 1, Len(s))
  <2>1. 1 \in 1..(Len(s) + 1) /\ n \in (1 - 1)..Len(s) /\ Len(s) \in n..Len(s)
    BY <1>1
  <2>2. QED BY <2>1, ConcatAdjacentSubSeq DEF First, From
<1>4. QED BY <1>2, <1>3, SubSeqFull

(* The cut points the workers and the kernel use are within the sequence.   *)
LEMMA LeastInRange ==
  ASSUME NEW a \in Nat, NEW b \in Nat
  PROVE  /\ Least(a, b) \in 0..a /\ Least(a, b) \in 0..b
         /\ Least(a, b) = a \/ Least(a, b) = b
BY DEF Least

(* Concatenation and appending with their definitions hidden: the provers   *)
(* then see nothing of them but the laws below.                             *)
Cat(s, t) == s \o t
Add(s, e) == Append(s, e)

LEMMA Monoid ==
  ASSUME NEW S
  PROVE  /\ <<>> \in Seq(S)
         /\ \A a, b \in Seq(S) : Cat(a, b) \in Seq(S)
         /\ \A a, b, c \in Seq(S) : Cat(Cat(a, b), c) = Cat(a, Cat(b, c))
         /\ \A a \in Seq(S) : Cat(a, <<>>) = a /\ Cat(<<>>, a) = a
BY EmptySeq, ConcatProperties, ConcatAssociative, ConcatEmptySeq DEF Cat

(* A cut in the form the proofs use it.                                     *)
LEMMA Cut ==
  ASSUME NEW S, NEW s \in Seq(S), NEW n \in 0..Len(s)
  PROVE  /\ First(s, n) \in Seq(S) /\ Len(First(s, n)) = n
         /\ From(s, n) \in Seq(S)  /\ Len(From(s, n)) = Len(s) - n
         /\ s = Cat(First(s, n), From(s, n))
BY Split DEF Cat

LEMMA CatLength ==
  ASSUME NEW S, NEW s \in Seq(S), NEW t \in Seq(S)
  PROVE  Cat(s, t) \in Seq(S) /\ Len(Cat(s, t)) = Len(s) + Len(t)
BY ConcatProperties DEF Cat

(* A row of which only some buffers hold anything.                          *)
LEMMA OnlyLast ==
  ASSUME NEW S, NEW s \in Seq(S)
  PROVE  Row(<<>>, <<>>, <<>>, s) = s
<1>1. Cat(Cat(Cat(<<>>, <<>>), <<>>), s) = s
  <2>1. Cat(<<>>, <<>>) = <<>> /\ Cat(<<>>, s) = s  BY Monoid
  <2> QED BY <2>1
<1>2. QED BY <1>1 DEF Row, Cat

LEMMA OnlyFirst ==
  ASSUME NEW S, NEW s \in Seq(S)
  PROVE  Row(s, <<>>, <<>>, <<>>) = s
<1>1. Cat(Cat(Cat(s, <<>>), <<>>), <<>>) = s
  BY Monoid
<1>2. QED BY <1>1 DEF Row, Cat

LEMMA FirstTwo ==
  ASSUME NEW S, NEW s \in Seq(S), NEW t \in Seq(S)
  PROVE  Row(s, t, <<>>, <<>>) = Cat(s, t)
<1>1. Cat(Cat(Cat(s, t), <<>>), <<>>) = Cat(s, t)
  BY Monoid
<1>2. QED BY <1>1 DEF Row, Cat

LEMMA FirstAndLast ==
  ASSUME NEW S, NEW s \in Seq(S), NEW t \in Seq(S)
  PROVE  Row(s, <<>>, <<>>, t) = Cat(s, t)
<1>1. Cat(Cat(Cat(s, <<>>), <<>>), t) = Cat(s, t)
  BY Monoid
<1>2. QED BY <1>1 DEF Row, Cat

(* Four buffers in a row hold one stream.  It does not change when bytes    *)
(* move from the front of the last to the back of the second, and what does *)
(* not fit there to the empty third;                                        *)
LEMMA HandOver ==
  ASSUME NEW S, NEW d \in Seq(S), NEW w \in Seq(S), NEW f \in Seq(S),
         NEW r \in Seq(S), NEW t \in Seq(S)
  PROVE  Row(d, w, <<>>, Cat(Cat(f, r), t)) = Row(d, Cat(w, f), r, t)
<1>1. Cat(Cat(Cat(d, w), <<>>), Cat(Cat(f, r), t))
        = Cat(Cat(Cat(d, Cat(w, f)), r), t)
  BY Monoid
<1>2. QED BY <1>1 DEF Row, Cat

LEMMA HandOverAll ==
  ASSUME NEW S, NEW d \in Seq(S), NEW w \in Seq(S), NEW f \in Seq(S),
         NEW t \in Seq(S)
  PROVE  Row(d, w, <<>>, Cat(f, t)) = Row(d, Cat(w, f), <<>>, t)
<1>1. Cat(Cat(Cat(d, w), <<>>), Cat(f, t))
        = Cat(Cat(Cat(d, Cat(w, f)), <<>>), t)
  BY Monoid
<1>2. QED BY <1>1 DEF Row, Cat

LEMMA HandOverFirst ==
  ASSUME NEW S, NEW d \in Seq(S), NEW w \in Seq(S), NEW f \in Seq(S),
         NEW r \in Seq(S)
  PROVE  Row(d, w, <<>>, Cat(f, r)) = Row(d, Cat(w, f), r, <<>>)
<1>1. Cat(f, r) \in Seq(S) /\ Cat(Cat(f, r), <<>>) = Cat(f, r)
  BY Monoid
<1> DEFINE none == <<>>
<1>2. none \in Seq(S)
  BY Monoid
<1> HIDE DEF none
<1>3. Row(d, w, <<>>, Cat(Cat(f, r), none)) = Row(d, Cat(w, f), r, none)
  BY <1>2, HandOver
<1>4. QED BY <1>1, <1>3 DEF none

(* when the third is emptied into the second;                               *)
LEMMA Merge ==
  ASSUME NEW S, NEW d \in Seq(S), NEW w \in Seq(S), NEW f \in Seq(S),
         NEW t \in Seq(S)
  PROVE  Row(d, w, f, t) = Row(d, Cat(w, f), <<>>, t)
<1>1. Cat(Cat(Cat(d, w), f), t) = Cat(Cat(Cat(d, Cat(w, f)), <<>>), t)
  BY Monoid
<1>2. QED BY <1>1 DEF Row, Cat

(* when the second and the third, seen as one, are divided anew and the     *)
(* front of them is taken into the first;                                   *)
LEMMA Middle ==
  ASSUME NEW S, NEW d \in Seq(S), NEW w \in Seq(S), NEW r \in Seq(S),
         NEW q \in Seq(S)
  PROVE  Row(d, w, r, q) = Cat(Cat(d, Cat(w, r)), q)
<1>1. Cat(Cat(Cat(d, w), r), q) = Cat(Cat(d, Cat(w, r)), q)
  BY Monoid
<1>2. QED BY <1>1 DEF Row, Cat

LEMMA TakeOut ==
  ASSUME NEW S, NEW d \in Seq(S), NEW q \in Seq(S),
         NEW x \in Seq(S), NEW y \in Seq(S), NEW z \in Seq(S)
  PROVE  Cat(Cat(d, Cat(x, Cat(y, z))), q) = Row(Cat(d, x), y, z, q)
<1>1. Cat(y, z) \in Seq(S) /\ Cat(d, x) \in Seq(S)
  BY Monoid
<1>2. Cat(d, Cat(x, Cat(y, z))) = Cat(Cat(d, x), Cat(y, z))
  BY <1>1, Monoid
<1>3. Row(Cat(d, x), y, z, q) = Cat(Cat(Cat(d, x), Cat(y, z)), q)
  BY <1>1, Middle
<1>4. QED BY <1>2, <1>3

(* and appending to the last buffer appends to the stream.                  *)
LEMMA AddLast ==
  ASSUME NEW S, NEW a \in Seq(S), NEW b \in Seq(S), NEW c \in Seq(S),
         NEW d \in Seq(S), NEW e \in S
  PROVE  Row(a, b, c, Add(d, e)) = Add(Row(a, b, c, d), e)
<1>1. <<e>> \in Seq(S) /\ Cat(Cat(a, b), c) \in Seq(S)
  BY Monoid
<1>2. Cat(Cat(Cat(a, b), c), Cat(d, <<e>>))
        = Cat(Cat(Cat(Cat(a, b), c), d), <<e>>)
  <2> DEFINE x == Cat(Cat(a, b), c)
             y == <<e>>
  <2>1. x \in Seq(S) /\ y \in Seq(S)
    BY <1>1
  <2> HIDE DEF x, y
  <2>2. Cat(x, Cat(d, y)) = Cat(Cat(x, d), y)
    BY <2>1, Monoid
  <2>3. QED BY <2>2 DEF x, y
<1>3. Add(d, e) = Cat(d, <<e>>)
  BY AppendIsConcat DEF Cat, Add
<1>4. Add(Row(a, b, c, d), e) = Cat(Cat(Cat(Cat(a, b), c), d), <<e>>)
  <2>1. Cat(Cat(Cat(a, b), c), d) \in Seq(S)
    BY <1>1, Monoid
  <2>2. Row(a, b, c, d) = Cat(Cat(Cat(a, b), c), d)
    BY DEF Row, Cat
  <2>3. QED BY <2>1, <2>2, AppendIsConcat DEF Cat, Add
<1>5. Row(a, b, c, Add(d, e)) = Cat(Cat(Cat(a, b), c), Add(d, e))
  BY DEF Row, Cat
<1>6. QED BY <1>2, <1>3, <1>4, <1>5

LEMMA AddThird ==
  ASSUME NEW S, NEW a \in Seq(S), NEW b \in Seq(S), NEW e \in S
  PROVE  Row(a, b, <<e>>, <<>>) = Add(Row(a, b, <<>>, <<>>), e)
<1>1. Cat(Cat(Cat(a, b), <<e>>), <<>>) = Cat(Cat(a, b), <<e>>)
  <2> DEFINE y == <<e>>
  <2>1. y \in Seq(S)
    OBVIOUS
  <2> HIDE DEF y
  <2>2. Cat(Cat(Cat(a, b), y), <<>>) = Cat(Cat(a, b), y)
    BY <2>1, Monoid
  <2>3. QED BY <2>2 DEF y
<1>2. Row(a, b, <<e>>, <<>>) = Cat(Cat(Cat(a, b), <<e>>), <<>>)
  BY DEF Row, Cat
<1>3. Cat(a, b) \in Seq(S)
  BY Monoid
<1>4. Add(Cat(a, b), e) = Cat(Cat(a, b), <<e>>)
  BY <1>3, AppendIsConcat DEF Cat, Add
<1>5. QED BY <1>1, <1>2, <1>4, FirstTwo

(* The front of a stream is what was put there first, however much follows. *)
LEMMA Prefix ==
  ASSUME NEW S, NEW s \in Seq(S), NEW t \in Seq(S)
  PROVE  /\ First(Cat(s, t), Len(s)) = s
         /\ Len(Cat(s, t)) - Len(t) = Len(s)
         /\ Len(s) \in Nat /\ Len(t) \in Nat
<1>1. /\ Len(s) \in Nat /\ Len(t) \in Nat
      /\ s \o t \in Seq(S) /\ Len(s \o t) = Len(s) + Len(t)
      /\ \A i \in 1..Len(s) : (s \o t)[i] = s[i]
  BY ConcatProperties, LenProperties
<1>2. /\ SubSeq(s \o t, 1, Len(s)) \in Seq(S)
      /\ Len(SubSeq(s \o t, 1, Len(s))) = Len(s)
      /\ \A i \in 1..Len(s) : SubSeq(s \o t, 1, Len(s))[i] = (s \o t)[i]
  <2>1. \A i \in 1..Len(s) : (s \o t)[i] \in S
    BY <1>1, ElementOfSeq
  <2>2. QED BY <1>1, <2>1, SubSeqProperties
<1>3. SubSeq(s \o t, 1, Len(s)) = s
  BY <1>1, <1>2, SeqEqual
<1>4. QED BY <1>1, <1>3 DEF First, Cat

(* Cutting off the last of three buffers.                                   *)
LEMMA WithoutLast ==
  ASSUME NEW S, NEW d \in Seq(S), NEW w \in Seq(S), NEW q \in Seq(S)
  PROVE  LET all == Row(d, w, <<>>, q)
         IN  First(all, Len(all) - Len(q)) = Cat(d, w)
<1>1. Cat(d, w) \in Seq(S)
  BY Monoid
<1>2. Row(d, w, <<>>, q) = Cat(Cat(d, w), q)
  <2>1. Cat(Cat(Cat(d, w), <<>>), q) = Cat(Cat(d, w), q)
    BY <1>1, Monoid
  <2>2. QED BY <2>1 DEF Row, Cat
<1>3. QED BY <1>1, <1>2, Prefix

(* What the first of four buffers holds is the front of the row.            *)
LEMMA RowAhead ==
  ASSUME NEW S, NEW d \in Seq(S), NEW w \in Seq(S), NEW r \in Seq(S),
         NEW q \in Seq(S)
  PROVE  \E ahead \in Seq(S) : Row(d, w, r, q) = Cat(d, ahead)
<1>1. Cat(w, r) \in Seq(S)
  BY Monoid
<1>2. Cat(Cat(w, r), q) \in Seq(S)
  BY <1>1, Monoid
<1>3. Row(d, w, r, q) = Cat(d, Cat(Cat(w, r), q))
  BY <1>1, Middle, Monoid
<1>4. QED BY <1>2, <1>3

-----------------------------------------------------------------------------
(* Texts put together one after the other.                                  *)
Joins(F, seqs, n) ==
  /\ F[0] = <<>>
  /\ \A i \in 1..n : F[i] = Cat(F[i - 1], seqs[i])

LEMMA JoinsExist ==
  ASSUME NEW S, NEW seqs, NEW n \in Nat, \A i \in 1..n : seqs[i] \in Seq(S)
  PROVE  \E F : Joins(F, seqs, n) /\ \A i \in 0..n : F[i] \in Seq(S)
<1> DEFINE Texts == Seq(S)
           Part(i, F) == Joins(F, seqs, i) /\ \A j \in 0..i : F[j] \in Texts
           T == {i \in Nat : i <= n => \E F : Part(i, F)}
<1>1. /\ <<>> \in Texts /\ \A a, b \in Texts : Cat(a, b) \in Texts
      /\ \A i \in 1..n : seqs[i] \in Texts
  BY Monoid
<1> HIDE DEF Texts
<1>2. 0 \in T
  <2> DEFINE e == <<>>
             F == [j \in {0} |-> e]
  <2>1. F[0] = <<>> /\ F[0] \in Texts
    BY <1>1
  <2> HIDE DEF F
  <2>2. Part(0, F)
    BY <2>1 DEF Joins
  <2>3. QED BY <2>2
<1>3. ASSUME NEW i \in Nat, i \in T PROVE i + 1 \in T
  <2> SUFFICES ASSUME i + 1 <= n PROVE \E F : Part(i + 1, F)
    OBVIOUS
  <2>1. PICK F : Part(i, F)
    BY <1>3
  <2> DEFINE x == Cat(F[i], seqs[i + 1])
             G == [j \in 0..(i + 1) |-> IF j <= i THEN F[j] ELSE x]
  <2>2. x \in Texts
    BY <1>1, <2>1
  <2>3. \A j \in 0..(i + 1) : G[j] = IF j <= i THEN F[j] ELSE x
    OBVIOUS
  <2> HIDE DEF G
  <2>4. ASSUME NEW j \in 1..(i + 1) PROVE G[j] = Cat(G[j - 1], seqs[j])
    <3>1. CASE j <= i
      <4>1. j \in 1..i /\ G[j] = F[j] /\ G[j - 1] = F[j - 1]
        BY <2>3, <3>1
      <4>2. QED BY <2>1, <4>1 DEF Joins
    <3>2. CASE j = i + 1
      <4>1. G[j] = x /\ G[j - 1] = F[i]
        BY <2>3, <3>2
      <4>2. QED BY <3>2, <4>1
    <3>3. QED BY <3>1, <3>2
  <2> HIDE DEF x
  <2>5. G[0] = <<>>
    BY <2>1, <2>3 DEF Joins
  <2>6. \A j \in 0..(i + 1) : G[j] \in Texts
    BY <2>1, <2>2, <2>3
  <2>7. QED BY <2>4, <2>5, <2>6 DEF Joins
<1> HIDE DEF T
<1>4. Nat \subseteq T
  BY <1>2, <1>3, Induction
<1>5. QED BY <1>4 DEF T, Texts

LEMMA JoinsFlattened ==
  ASSUME NEW S, NEW seqs \in Seq(Seq(S)), NEW F, Joins(F, seqs, Len(seqs))
  PROVE  FlattenSeq(seqs) = F[Len(seqs)]
<1> DEFINE n == Len(seqs)
           Texts == Seq(S)
<1>1. n \in Nat /\ \A i \in 1..n : seqs[i] \in Texts
  BY LenProperties, ElementOfSeq
<1>2. \A a \in Texts : Cat(<<>>, a) = a
  BY Monoid
<1>3. CASE n = 0
  <2>1. seqs = <<>>
    BY <1>3, EmptySeq
  <2>2. FlattenSeq(seqs) = seqs
    BY <1>3 DEF FlattenSeq
  <2>3. QED BY <1>3, <2>1, <2>2 DEF Joins
<1>4. CASE n # 0
  <2> DEFINE Is(h) == h = [i \in 1..n |-> IF i = 1 THEN seqs[i] ELSE h[i - 1] \o seqs[i]]
             flatten == CHOOSE h : Is(h)
  <2>1. FlattenSeq(seqs) = flatten[n]
    BY <1>4 DEF FlattenSeq
  <2>2. \A h : Is(h) <=> h = [i \in 1..n |-> IF i = 1 THEN seqs[i] ELSE Cat(h[i - 1], seqs[i])]
    BY DEF Cat
  <2> HIDE DEF n, Texts
  <2>3. Is(flatten)
    <3> DEFINE g == [i \in 1..n |-> F[i]]
    <3>1. ASSUME NEW i \in 1..n
          PROVE  F[i] = IF i = 1 THEN seqs[i] ELSE Cat(F[i - 1], seqs[i])
      <4>1. F[i] = Cat(F[i - 1], seqs[i])
        BY DEF Joins, n
      <4>2. CASE i = 1
        <5>1. F[i] = Cat(<<>>, seqs[1]) /\ seqs[1] \in Texts
          BY <1>1, <4>1, <4>2 DEF Joins
        <5>2. QED BY <1>2, <4>2, <5>1
      <4>3. QED BY <4>1, <4>2
    <3>2. ASSUME NEW i \in 1..n
          PROVE  g[i] = IF i = 1 THEN seqs[i] ELSE Cat(g[i - 1], seqs[i])
      BY <1>1, <3>1
    <3>3. g = [i \in 1..n |-> IF i = 1 THEN seqs[i] ELSE Cat(g[i - 1], seqs[i])]
      BY <3>2
    <3> HIDE DEF g, Is
    <3>4. Is(g)
      BY <2>2, <3>3
    <3>5. QED BY <3>4
  <2>4. \A i \in 1..n :
          flatten[i] = IF i = 1 THEN seqs[i] ELSE Cat(flatten[i - 1], seqs[i])
    <3> HIDE DEF flatten, Is
    <3>1. flatten = [i \in 1..n |-> IF i = 1 THEN seqs[i] ELSE Cat(flatten[i - 1], seqs[i])]
      BY <2>2, <2>3
    <3>2. QED BY <3>1
  <2> HIDE DEF flatten, Is
  <2> DEFINE U == {i \in Nat : i + 1 <= n => flatten[i + 1] = F[i + 1]}
  <2>5. 0 \in U
    <3>1. ASSUME 1 <= n PROVE flatten[1] = F[1]
      <4>1. /\ 1 \in 1..n /\ seqs[1] \in Texts /\ F[1] = Cat(<<>>, seqs[1])
        BY <1>1, <3>1 DEF Joins, n
      <4>2. flatten[1] = seqs[1]
        BY <2>4, <4>1
      <4>3. QED BY <1>2, <4>1, <4>2
    <3>2. QED BY <3>1
  <2>6. ASSUME NEW i \in Nat, i \in U PROVE i + 1 \in U
    <3>1. ASSUME (i + 1) + 1 <= n PROVE flatten[(i + 1) + 1] = F[(i + 1) + 1]
      <4>1. /\ (i + 1) + 1 \in 1..n /\ (i + 1) + 1 # 1 /\ ((i + 1) + 1) - 1 = i + 1
            /\ flatten[i + 1] = F[i + 1]
        BY <1>1, <2>6, <3>1
      <4>2. F[(i + 1) + 1] = Cat(F[i + 1], seqs[(i + 1) + 1])
        BY <4>1 DEF Joins, n
      <4>3. flatten[(i + 1) + 1] = Cat(flatten[i + 1], seqs[(i + 1) + 1])
        BY <2>4, <4>1
      <4>4. QED BY <4>1, <4>2, <4>3
    <3>2. QED BY <3>1
  <2> HIDE DEF U
  <2>7. Nat \subseteq U
    BY <2>5, <2>6, Induction
  <2>8. flatten[n] = F[n]
    <3>1. n - 1 \in U /\ (n - 1) + 1 = n
      BY <1>1, <1>4, <2>7
    <3>2. QED BY <1>1, <3>1 DEF U
  <2>9. QED BY <2>1, <2>8 DEF n
<1>5. QED BY <1>3, <1>4

=============================================================================
