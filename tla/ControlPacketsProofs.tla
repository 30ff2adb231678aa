----------------------- MODULE ControlPacketsProofs -----------------------
(***************************************************************************)
(* Proofs about ControlPackets, for any requests, sizes of buffers and     *)
(* ways to cut the stream: where each packet is read and written as a      *)
(* whole, packets stay whole, and an agent that waits has a read           *)
(* outstanding.                                                            *)
(*                                                                         *)
(* The argument: what is in inQueue and in the pipe is a slice of the      *)
(* stream of all requests, which begins where a packet does, so that the   *)
(* size that is peeked is that packet's; and so for the replies.           *)
(***************************************************************************)
EXTENDS ControlPackets, StreamLemmas

-----------------------------------------------------------------------------
(* Slices of a stream, from behind position i up to j.                      *)
Slice(s, i, j) == SubSeq(s, i + 1, j)

LEMMA SliceIs ==
  ASSUME NEW S, NEW s \in Seq(S), NEW i \in Nat, NEW j \in Nat,
         i <= j, j <= Len(s)
  PROVE  /\ Slice(s, i, j) \in Seq(S) /\ Len(Slice(s, i, j)) = j - i
         /\ \A x \in 1..(j - i) : Slice(s, i, j)[x] = s[i + x]
<1>1. Len(s) \in Nat /\ (\A x \in 1..Len(s) : s[x] \in S)
  BY LenProperties, ElementOfSeq
<1>2. i + 1 \in Int /\ j \in Int /\ \A x \in (i + 1)..j : s[x] \in S
  BY <1>1
<1>3. /\ SubSeq(s, i + 1, j) \in Seq(S)
      /\ Len(SubSeq(s, i + 1, j)) = IF i + 1 <= j THEN j - (i + 1) + 1 ELSE 0
      /\ \A x \in 1..(j - (i + 1) + 1) :
           SubSeq(s, i + 1, j)[x] = s[(i + 1) + x - 1]
  BY <1>2, SubSeqProperties
<1>4. /\ (IF i + 1 <= j THEN j - (i + 1) + 1 ELSE 0) = j - i
      /\ j - (i + 1) + 1 = j - i
      /\ \A x \in 1..(j - i) : (i + 1) + x - 1 = i + x
  BY <1>1
<1>5. QED BY <1>3, <1>4 DEF Slice

LEMMA SlicesJoin ==
  ASSUME NEW S, NEW s \in Seq(S), NEW i \in Nat, NEW j \in Nat, NEW k \in Nat,
         i <= j, j <= k, k <= Len(s)
  PROVE  Cat(Slice(s, i, j), Slice(s, j, k)) = Slice(s, i, k)
<1>1. Len(s) \in Nat
  BY LenProperties
<1>2. /\ i + 1 \in 1..(Len(s) + 1) /\ j \in ((i + 1) - 1)..Len(s)
      /\ k \in j..Len(s)
  BY <1>1
<1>3. QED BY <1>2, ConcatAdjacentSubSeq DEF Cat, Slice

LEMMA SliceCut ==
  ASSUME NEW S, NEW s \in Seq(S), NEW i \in Nat, NEW j \in Nat, NEW k \in Nat,
         i <= j, j <= k, k <= Len(s)
  PROVE  /\ First(Slice(s, i, k), j - i) = Slice(s, i, j)
         /\ From(Slice(s, i, k), j - i) = Slice(s, j, k)
<1> DEFINE t == Slice(s, i, k)
<1>1. /\ s \in Seq(S) /\ i \in Nat /\ j \in Nat /\ k \in Nat /\ Len(s) \in Nat
      /\ i <= j /\ j <= k /\ i <= k /\ j <= Len(s) /\ k <= Len(s)
  BY LenProperties
<1>2. /\ t \in Seq(S) /\ Len(t) = k - i
      /\ \A x \in 1..(k - i) : t[x] = s[i + x]
  BY ONLY <1>1, SliceIs
<1>3. /\ Slice(s, i, j) \in Seq(S) /\ Len(Slice(s, i, j)) = j - i
      /\ \A x \in 1..(j - i) : Slice(s, i, j)[x] = s[i + x]
  BY ONLY <1>1, SliceIs
<1>4. /\ Slice(s, j, k) \in Seq(S) /\ Len(Slice(s, j, k)) = k - j
      /\ \A x \in 1..(k - j) : Slice(s, j, k)[x] = s[j + x]
  BY ONLY <1>1, SliceIs
<1> HIDE DEF t
<1> DEFINE n == j - i
           m == Len(t)
<1>5. /\ n \in Nat /\ m \in Nat /\ n <= m /\ n = j - i /\ n - 0 = n
      /\ m = Len(t) /\ m - n = k - j
  BY <1>1, <1>2
<1> HIDE DEF n, m
<1>6. /\ Slice(t, 0, n) \in Seq(S) /\ Len(Slice(t, 0, n)) = n
      /\ \A x \in 1..n : Slice(t, 0, n)[x] = t[0 + x]
  <2>1. t \in Seq(S) /\ n \in Nat /\ 0 \in Nat /\ 0 <= n /\ n <= Len(t)
    BY <1>2, <1>5
  <2>2. /\ Slice(t, 0, n) \in Seq(S) /\ Len(Slice(t, 0, n)) = n - 0
        /\ \A x \in 1..(n - 0) : Slice(t, 0, n)[x] = t[0 + x]
    BY ONLY <2>1, SliceIs
  <2>3. QED BY <1>5, <2>2
<1>7. /\ Slice(t, n, m) \in Seq(S) /\ Len(Slice(t, n, m)) = m - n
      /\ \A x \in 1..(m - n) : Slice(t, n, m)[x] = t[n + x]
  <2>1. t \in Seq(S) /\ n \in Nat /\ m \in Nat /\ n <= m /\ m <= Len(t)
    BY <1>2, <1>5
  <2>2. QED BY ONLY <2>1, SliceIs
<1>8. First(t, n) = Slice(t, 0, n) /\ From(t, n) = Slice(t, n, m)
  BY <1>5 DEF First, From, Slice
<1>9. Slice(t, 0, n) = Slice(s, i, j)
  <2>1. \A x \in 1..n : Slice(t, 0, n)[x] = Slice(s, i, j)[x]
    <3> SUFFICES ASSUME NEW x \in 1..n
                 PROVE  Slice(t, 0, n)[x] = Slice(s, i, j)[x]
      OBVIOUS
    <3>1. x \in 1..(j - i) /\ 0 + x = x /\ x \in 1..(k - i)
      BY <1>1, <1>5
    <3>2. QED BY <1>2, <1>3, <1>6, <3>1
  <2>2. Len(Slice(t, 0, n)) = Len(Slice(s, i, j))
    BY <1>3, <1>5, <1>6
  <2>3. QED BY <1>3, <1>6, <2>1, <2>2, SeqEqual
<1>10. Slice(t, n, m) = Slice(s, j, k)
  <2>1. \A x \in 1..(m - n) : Slice(t, n, m)[x] = Slice(s, j, k)[x]
    <3> SUFFICES ASSUME NEW x \in 1..(m - n)
                 PROVE  Slice(t, n, m)[x] = Slice(s, j, k)[x]
      OBVIOUS
    <3>1. n + x \in 1..(k - i) /\ i + (n + x) = j + x /\ x \in 1..(k - j)
      BY <1>1, <1>5
    <3>2. QED BY <1>2, <1>4, <1>7, <3>1
  <2>2. Len(Slice(t, n, m)) = Len(Slice(s, j, k))
    BY <1>4, <1>5, <1>7
  <2>3. QED BY <1>4, <1>7, <2>1, <2>2, SeqEqual
<1>11. QED BY <1>5, <1>8, <1>9, <1>10 DEF t

(* Cutting the first of two buffers is cutting what they hold together.     *)
LEMMA CutFirst ==
  ASSUME NEW S, NEW q \in Seq(S), NEW w \in Seq(S), NEW n \in 0..Len(q)
  PROVE  /\ First(Cat(q, w), n) = First(q, n)
         /\ From(Cat(q, w), n) = Cat(From(q, n), w)
<1> DEFINE a == First(q, n)
           b == From(q, n)
<1>1. a \in Seq(S) /\ b \in Seq(S) /\ Len(a) = n /\ q = Cat(a, b)
  BY Cut
<1> HIDE DEF a, b
<1>2. Cat(q, w) = Cat(a, Cat(b, w)) /\ Cat(b, w) \in Seq(S)
  BY <1>1, Monoid
<1>3. First(Cat(q, w), n) = a
  BY <1>1, <1>2, Prefix
<1>4. From(Cat(q, w), n) = Cat(b, w)
  <2> DEFINE c == Cat(b, w)
             d == Cat(a, c)
  <2>1. c \in Seq(S) /\ d \in Seq(S) /\ Len(d) = Len(a) + Len(c)
        /\ Len(c) \in Nat /\ Len(a) \in Nat
    BY <1>1, <1>2, CatLength, LenProperties
  <2> HIDE DEF c
  <2>2. \A x \in 1..Len(c) : d[Len(a) + x] = c[x]
    BY <1>1, <2>1, ConcatProperties DEF Cat
  <2> HIDE DEF d
  <2>3. /\ d \in Seq(S) /\ n \in Nat /\ Len(d) \in Nat /\ n <= Len(d)
        /\ Len(d) <= Len(d)
    BY <1>1, <2>1
  <2>4. /\ Slice(d, n, Len(d)) \in Seq(S) /\ Len(Slice(d, n, Len(d))) = Len(d) - n
        /\ \A x \in 1..(Len(d) - n) : Slice(d, n, Len(d))[x] = d[n + x]
    BY ONLY <2>3, SliceIs
  <2>5. Len(d) - n = Len(c)
    BY <1>1, <2>1
  <2>6. Slice(d, n, Len(d)) = c
    BY <1>1, <2>1, <2>2, <2>4, <2>5, SeqEqual
  <2>7. QED BY <1>2, <2>6 DEF From, Slice, c, d
<1>5. QED BY <1>3, <1>4 DEF a, b

(* Slices of two buffers that lie in one of them, and of a slice.           *)
LEMMA SliceOfCat ==
  ASSUME NEW S, NEW s \in Seq(S), NEW t \in Seq(S)
  PROVE  /\ Slice(Cat(s, t), Len(s), Len(s) + Len(t)) = t
         /\ \A i, j \in Nat : i <= j /\ j <= Len(s) =>
              Slice(Cat(s, t), i, j) = Slice(s, i, j)
<1> DEFINE d == Cat(s, t)
           n == Len(s)
           m == Len(t)
<1>1. /\ n \in Nat /\ m \in Nat /\ d \in Seq(S) /\ Len(d) = n + m
      /\ \A x \in 1..n : d[x] = s[x]
      /\ \A x \in 1..m : d[n + x] = t[x]
  <2>1. /\ n \in Nat /\ m \in Nat /\ d \in Seq(S) /\ Len(d) = n + m
        /\ \A x \in 1..(n + m) : d[x] = IF x <= n THEN s[x] ELSE t[x - n]
    BY LenProperties, ConcatProperties DEF Cat
  <2> HIDE DEF d, n, m
  <2>2. \A x \in 1..n : x \in 1..(n + m) /\ x <= n
    BY <2>1
  <2>3. \A x \in 1..m : n + x \in 1..(n + m) /\ ~(n + x <= n) /\ (n + x) - n = x
    BY <2>1
  <2>4. QED BY <2>1, <2>2, <2>3
<1>2. Len(s) = n /\ Len(t) = m
  OBVIOUS
<1> HIDE DEF d, n, m
<1>3. Slice(d, n, n + m) = t
  <2>1. /\ d \in Seq(S) /\ n \in Nat /\ n + m \in Nat /\ n <= n + m
        /\ n + m <= Len(d) /\ (n + m) - n = m
    BY <1>1
  <2>2. /\ Slice(d, n, n + m) \in Seq(S) /\ Len(Slice(d, n, n + m)) = (n + m) - n
        /\ \A x \in 1..((n + m) - n) : Slice(d, n, n + m)[x] = d[n + x]
    BY ONLY <2>1, SliceIs
  <2>3. QED BY <1>1, <1>2, <2>1, <2>2, SeqEqual
<1>4. ASSUME NEW i \in Nat, NEW j \in Nat, i <= j, j <= n
      PROVE  Slice(d, i, j) = Slice(s, i, j)
  <2>1. d \in Seq(S) /\ j <= Len(d) /\ j <= Len(s)
    BY <1>1, <1>2, <1>4
  <2>2. /\ Slice(d, i, j) \in Seq(S) /\ Len(Slice(d, i, j)) = j - i
        /\ \A x \in 1..(j - i) : Slice(d, i, j)[x] = d[i + x]
    BY <1>4, <2>1, SliceIs
  <2>3. /\ Slice(s, i, j) \in Seq(S) /\ Len(Slice(s, i, j)) = j - i
        /\ \A x \in 1..(j - i) : Slice(s, i, j)[x] = s[i + x]
    BY <1>4, <2>1, SliceIs
  <2>4. \A x \in 1..(j - i) : i + x \in 1..n
    BY <1>1, <1>4
  <2>5. \A x \in 1..(j - i) : Slice(d, i, j)[x] = Slice(s, i, j)[x]
    BY <1>1, <2>2, <2>3, <2>4
  <2>6. QED BY <2>2, <2>3, <2>5, SeqEqual
<1>5. QED BY <1>2, <1>3, <1>4 DEF d

LEMMA SliceOfSlice ==
  ASSUME NEW S, NEW s \in Seq(S), NEW n \in Nat, NEW i \in Nat, NEW j \in Nat,
         NEW m \in Nat, n <= i, i <= j, j <= m, m <= Len(s)
  PROVE  Slice(Slice(s, n, m), i - n, j - n) = Slice(s, i, j)
<1> DEFINE t == Slice(s, n, m)
           a == i - n
           b == j - n
<1>1. /\ n <= m /\ a \in Nat /\ b \in Nat /\ a <= b /\ j <= Len(s)
      /\ b <= m - n /\ b - a = j - i /\ n + a = i
  BY LenProperties
<1>2. /\ t \in Seq(S) /\ Len(t) = m - n
      /\ \A x \in 1..(m - n) : t[x] = s[n + x]
  <2>1. s \in Seq(S) /\ n \in Nat /\ m \in Nat /\ n <= m /\ m <= Len(s)
    BY <1>1
  <2>2. QED BY ONLY <2>1, SliceIs
<1> HIDE DEF t, a, b
<1>3. /\ Slice(t, a, b) \in Seq(S) /\ Len(Slice(t, a, b)) = b - a
      /\ \A x \in 1..(b - a) : Slice(t, a, b)[x] = t[a + x]
  <2>1. t \in Seq(S) /\ a \in Nat /\ b \in Nat /\ a <= b /\ b <= Len(t)
    BY <1>1, <1>2
  <2>2. QED BY ONLY <2>1, SliceIs, ZenonT(60)
<1>4. /\ Slice(s, i, j) \in Seq(S) /\ Len(Slice(s, i, j)) = j - i
      /\ \A x \in 1..(j - i) : Slice(s, i, j)[x] = s[i + x]
  <2>1. s \in Seq(S) /\ i \in Nat /\ j \in Nat /\ i <= j /\ j <= Len(s)
    BY <1>1
  <2>2. QED BY ONLY <2>1, SliceIs
<1>5. ASSUME NEW x \in 1..(j - i) PROVE Slice(t, a, b)[x] = Slice(s, i, j)[x]
  <2>1. x \in 1..(b - a) /\ a + x \in 1..(m - n) /\ n + (a + x) = i + x
    BY <1>1
  <2>2. QED BY <1>2, <1>3, <1>4, <2>1
<1>6. Slice(t, a, b) = Slice(s, i, j)
  BY <1>1, <1>3, <1>4, <1>5, SeqEqual
<1>7. QED BY <1>6 DEF t, a, b

-----------------------------------------------------------------------------
(* Steps taken one after the other from x.                                  *)
Steps(step, n, V) == \A i \in 1..n : \A y \in V : step[i][y] \in V

Chain(f, x, step, n, V) ==
  /\ f[0] = x /\ \A i \in 0..n : f[i] \in V
  /\ \A i \in 1..n : f[i] = step[i][f[i - 1]]

LEMMA ChainExists ==
  ASSUME NEW V, NEW x \in V, NEW n \in Nat, NEW step, Steps(step, n, V)
  PROVE  \E f : Chain(f, x, step, n, V)
<1> USE DEF Steps, Chain
<1> DEFINE Upto(m, f) == /\ f[0] = x /\ \A i \in 0..m : f[i] \in V
                         /\ \A i \in 1..m : f[i] = step[i][f[i - 1]]
           T == {m \in Nat : m <= n => \E f : Upto(m, f)}
<1>1. 0 \in T
  <2> DEFINE f == [i \in {0} |-> x]
  <2>1. f[0] = x
    OBVIOUS
  <2> HIDE DEF f
  <2>2. Upto(0, f)
    BY <2>1
  <2>3. QED BY <2>2
<1>2. ASSUME NEW m \in Nat, m \in T PROVE m + 1 \in T
  <2> SUFFICES ASSUME m + 1 <= n PROVE \E f : Upto(m + 1, f)
    OBVIOUS
  <2>1. PICK f : Upto(m, f)
    BY <1>2
  <2> DEFINE y == step[m + 1][f[m]]
             g == [i \in 0..(m + 1) |-> IF i <= m THEN f[i] ELSE y]
  <2>2. y \in V
    BY <2>1
  <2>3. \A i \in 0..(m + 1) : g[i] = IF i <= m THEN f[i] ELSE y
    OBVIOUS
  <2> HIDE DEF g
  <2>4. ASSUME NEW i \in 1..(m + 1) PROVE g[i] = step[i][g[i - 1]]
    <3>1. CASE i <= m
      <4>1. i \in 1..m /\ g[i] = f[i] /\ g[i - 1] = f[i - 1]
        BY <2>3, <3>1
      <4>2. QED BY <2>1, <4>1
    <3>2. CASE i = m + 1
      <4>1. g[i] = y /\ g[i - 1] = f[m]
        BY <2>3, <3>2
      <4>2. QED BY <3>2, <4>1
    <3>3. QED BY <3>1, <3>2
  <2> HIDE DEF y
  <2>5. g[0] = x /\ \A i \in 0..(m + 1) : g[i] \in V
    BY <2>1, <2>2, <2>3
  <2>6. QED BY <2>4, <2>5
<1> HIDE DEF T
<1>3. n \in T
  BY <1>1, <1>2, Induction
<1>4. PICK f : Upto(n, f)
  BY <1>3 DEF T
<1>5. QED BY <1>4

-----------------------------------------------------------------------------
(* Numbers and their bytes.                                                 *)
LEMMA Bytes == Base \in Nat /\ Base > 2 /\ Base \in Int
BY CodecAssumption

LEMMA Shifts ==
  ASSUME NEW v \in Nat, NEW w \in Nat
  PROVE  /\ Shifted(v, w)[0] = v
         /\ \A i \in 0..w : Shifted(v, w)[i] \in Nat
         /\ \A i \in 1..w : Shifted(v, w)[i] = Shifted(v, w)[i - 1] \div Base
<1> DEFINE step == [i \in 1..w |-> [y \in Nat |-> y \div Base]]
           Is(h) == h = [i \in 0..w |-> IF i = 0 THEN v ELSE h[i - 1] \div Base]
           right == CHOOSE h : Is(h)
<1>1. \A i \in 1..w : \A y \in Nat : step[i][y] = y \div Base /\ step[i][y] \in Nat
  BY Bytes
<1> HIDE DEF step
<1>2. PICK f : /\ f[0] = v /\ \A i \in 0..w : f[i] \in Nat
               /\ \A i \in 1..w : f[i] = step[i][f[i - 1]]
  <2>1. Steps(step, w, Nat)
    BY <1>1 DEF Steps
  <2>2. \E f : Chain(f, v, step, w, Nat)
    BY <2>1, ChainExists
  <2>3. QED BY <2>2 DEF Chain
<1>3. \E h : Is(h)
  <2> DEFINE g == [i \in 0..w |-> f[i]]
  <2>1. \A i \in 0..w : g[i] = f[i]
    OBVIOUS
  <2>2. ASSUME NEW i \in 0..w
        PROVE  f[i] = IF i = 0 THEN v ELSE g[i - 1] \div Base
    <3>1. CASE i = 0
      BY <1>2, <3>1
    <3>2. CASE i # 0
      <4>1. i \in 1..w /\ f[i - 1] \in Nat /\ g[i - 1] = f[i - 1]
        BY <1>2, <2>1, <3>2
      <4>2. QED BY <1>1, <1>2, <3>2, <4>1
    <3>3. QED BY <3>1, <3>2
  <2>3. Is(g)
    BY <2>2
  <2> HIDE DEF g, Is
  <2>4. QED BY <2>3
<1> HIDE DEF Is
<1>4. Is(right)
  BY <1>3
<1>5. right = [i \in 0..w |-> IF i = 0 THEN v ELSE right[i - 1] \div Base]
  BY <1>4 DEF Is
<1>6. Shifted(v, w) = right
  BY DEF Shifted, Is
<1> HIDE DEF right
<1>7. right[0] = v /\ \A i \in 1..w : right[i] = right[i - 1] \div Base
  <2>1. \A i \in 0..w : right[i] = IF i = 0 THEN v ELSE right[i - 1] \div Base
    BY <1>5
  <2>2. QED BY <2>1
<1>8. \A i \in 0..w : right[i] \in Nat
  <2> DEFINE T == {i \in Nat : i <= w => right[i] \in Nat}
  <2>1. 0 \in T
    BY <1>7
  <2>2. ASSUME NEW i \in Nat, i \in T PROVE i + 1 \in T
    <3>1. ASSUME i + 1 <= w PROVE right[i + 1] \in Nat
      <4>1. right[i] \in Nat /\ right[i + 1] = right[i] \div Base
        BY <1>7, <2>2, <3>1
      <4>2. QED BY <4>1, Bytes
    <3>2. QED BY <3>1
  <2> HIDE DEF T
  <2>3. Nat \subseteq T
    BY <2>1, <2>2, Induction
  <2>4. QED BY <2>3 DEF T
<1>9. QED BY <1>6, <1>7, <1>8

LEMMA Divided ==
  ASSUME NEW v \in Nat
  PROVE  /\ v = (v % Base) + Base * (v \div Base)
         /\ v % Base \in Byte /\ v \div Base \in Nat
         /\ v < Base => v \div Base = 0
         /\ \A u \in Nat : u <= v => u \div Base <= v \div Base
<1>1. v = (v % Base) + Base * (v \div Base)
  BY Bytes
<1>2. v % Base \in Byte /\ v \div Base \in Nat
  BY Bytes DEF Byte
<1>3. v < Base => v \div Base = 0
  BY Bytes
<1>4. ASSUME NEW u \in Nat, u <= v PROVE u \div Base <= v \div Base
  BY <1>4, Bytes
<1>5. QED BY <1>1, <1>2, <1>3, <1>4

(* What fits and what is less fits.                                         *)
LEMMA LessFits ==
  ASSUME NEW v, NEW w \in Nat, Fits(v, w), NEW u \in Nat, u <= v
  PROVE  Fits(u, w)
<1>1. v \in Nat /\ Shifted(v, w)[w] = 0
  BY DEF Fits
<1> DEFINE f == Shifted(v, w)
           g == Shifted(u, w)
           T == {i \in Nat : i <= w => g[i] <= f[i]}
<1>2. /\ f[0] = v /\ \A i \in 0..w : f[i] \in Nat
      /\ \A i \in 1..w : f[i] = f[i - 1] \div Base
  BY <1>1, Shifts
<1>3. /\ g[0] = u /\ \A i \in 0..w : g[i] \in Nat
      /\ \A i \in 1..w : g[i] = g[i - 1] \div Base
  BY Shifts
<1> HIDE DEF f, g
<1>4. 0 \in T
  BY <1>2, <1>3
<1>5. ASSUME NEW i \in Nat, i \in T PROVE i + 1 \in T
  <2>1. ASSUME i + 1 <= w PROVE g[i + 1] <= f[i + 1]
    <3>1. /\ g[i] \in Nat /\ f[i] \in Nat /\ g[i] <= f[i]
          /\ g[i + 1] = g[i] \div Base /\ f[i + 1] = f[i] \div Base
      BY <1>2, <1>3, <1>5, <2>1
    <3>2. QED BY <3>1, Divided
  <2>2. QED BY <2>1
<1> HIDE DEF T
<1>6. w \in T
  BY <1>4, <1>5, Induction
<1>7. g[w] <= f[w] /\ g[w] \in Nat /\ f[w] = 0
  BY <1>1, <1>3, <1>6 DEF T, f
<1>8. QED BY <1>7 DEF Fits, g

(* One byte is enough for what is less than Base.                           *)
LEMMA SmallFits ==
  ASSUME NEW v \in Nat, v < Base, NEW w \in Nat \ {0}
  PROVE  Fits(v, w)
<1> DEFINE f == Shifted(v, w)
           T == {i \in Nat : i + 1 <= w => f[i + 1] = 0}
<1>1. f[0] = v /\ \A i \in 1..w : f[i] = f[i - 1] \div Base
  BY Shifts
<1> HIDE DEF f
<1>2. v \div Base = 0 /\ 0 \div Base = 0
  BY Divided, Bytes
<1>3. 0 \in T
  BY <1>1, <1>2
<1>4. ASSUME NEW i \in Nat, i \in T PROVE i + 1 \in T
  <2>1. ASSUME (i + 1) + 1 <= w PROVE f[(i + 1) + 1] = 0
    <3>1. f[i + 1] = 0 /\ f[(i + 1) + 1] = f[i + 1] \div Base
      BY <1>1, <1>4, <2>1
    <3>2. QED BY <1>2, <3>1
  <2>2. QED BY <2>1
<1> HIDE DEF T
<1>5. w - 1 \in T
  BY <1>3, <1>4, Induction
<1>6. f[w] = 0
  BY <1>5 DEF T
<1>7. QED BY <1>6 DEF Fits, f

(* What has been written is what is read.                                   *)
LEMMA LittleEndianIs ==
  ASSUME NEW v \in Nat, NEW w \in Nat
  PROVE  /\ LittleEndian(v, w) \in Seq(Byte) /\ LittleEndian(v, w) \in Seq(Nat)
         /\ Len(LittleEndian(v, w)) = w
         /\ \A i \in 1..w : LittleEndian(v, w)[i] = Shifted(v, w)[i - 1] % Base
<1> DEFINE f == Shifted(v, w)
           s == [i \in 1..w |-> f[i - 1] % Base]
<1>1. \A i \in 0..w : f[i] \in Nat
  BY Shifts
<1>2. LittleEndian(v, w) = s
  BY DEF LittleEndian
<1> HIDE DEF f
<1>3. \A i \in 1..w : f[i - 1] % Base \in Byte /\ f[i - 1] % Base \in Nat
  <2> SUFFICES ASSUME NEW i \in 1..w PROVE f[i - 1] % Base \in Byte
    BY Bytes DEF Byte
  <2>1. f[i - 1] \in Nat
    BY <1>1
  <2>2. QED BY <2>1, Divided
<1>4. s \in Seq(Byte) /\ s \in Seq(Nat) /\ Len(s) = w /\ \A i \in 1..w : s[i] = f[i - 1] % Base
  BY <1>3
<1>5. QED BY <1>2, <1>4 DEF f

LEMMA NumberIs ==
  ASSUME NEW s \in Seq(Nat)
  PROVE  \E f : /\ f[0] = 0 /\ f[Len(s)] = Number(s)
                /\ \A k \in 0..Len(s) : f[k] \in Nat
                /\ \A k \in 1..Len(s) : f[k] = s[Len(s) + 1 - k] + Base * f[k - 1]
<1> DEFINE n == Len(s)
           step == [k \in 1..n |-> [y \in Nat |-> s[n + 1 - k] + Base * y]]
           Is(h) == h = [k \in 0..n |-> IF k = 0 THEN 0 ELSE s[n + 1 - k] + Base * h[k - 1]]
           last == CHOOSE h : Is(h)
<1>1. n \in Nat /\ \A k \in 1..n : n + 1 - k \in 1..n /\ s[n + 1 - k] \in Nat
  BY LenProperties, ElementOfSeq
<1>2. Number(s) = last[n]
  BY DEF Number
<1>3. \A k \in 1..n : \A y \in Nat : s[n + 1 - k] + Base * y \in Nat
  BY <1>1, Bytes
<1> HIDE DEF n
<1>4. \A k \in 1..n : \A y \in Nat :
        step[k][y] = s[n + 1 - k] + Base * y /\ step[k][y] \in Nat
  BY <1>3
<1> HIDE DEF step
<1>5. PICK f : /\ f[0] = 0 /\ \A k \in 0..n : f[k] \in Nat
               /\ \A k \in 1..n : f[k] = step[k][f[k - 1]]
  <2>1. Steps(step, n, Nat) /\ 0 \in Nat
    BY <1>4 DEF Steps
  <2>2. \E f : Chain(f, 0, step, n, Nat)
    BY <1>1, <2>1, ChainExists
  <2>3. QED BY <2>2 DEF Chain
<1>6. \E h : Is(h)
  <2> DEFINE g == [k \in 0..n |-> f[k]]
  <2>1. \A k \in 0..n : g[k] = f[k]
    OBVIOUS
  <2>2. ASSUME NEW k \in 0..n
        PROVE  f[k] = IF k = 0 THEN 0 ELSE s[n + 1 - k] + Base * g[k - 1]
    <3>1. CASE k = 0
      BY <1>5, <3>1
    <3>2. CASE k # 0
      <4>1. k \in 1..n /\ f[k - 1] \in Nat /\ g[k - 1] = f[k - 1]
        BY <1>1, <1>5, <2>1, <3>2
      <4>2. QED BY <1>4, <1>5, <3>2, <4>1
    <3>3. QED BY <3>1, <3>2
  <2>3. Is(g)
    BY <2>2
  <2> HIDE DEF g, Is
  <2>4. QED BY <2>3
<1> HIDE DEF Is
<1>7. Is(last)
  BY <1>6
<1>8. last = [k \in 0..n |-> IF k = 0 THEN 0 ELSE s[n + 1 - k] + Base * last[k - 1]]
  BY <1>7 DEF Is
<1> HIDE DEF last
<1>9. last[0] = 0 /\ \A k \in 1..n : last[k] = s[n + 1 - k] + Base * last[k - 1]
  <2>1. \A k \in 0..n : last[k] = IF k = 0 THEN 0 ELSE s[n + 1 - k] + Base * last[k - 1]
    BY <1>8
  <2>2. QED BY <1>1, <2>1
<1>10. \A k \in 0..n : last[k] \in Nat
  <2> DEFINE T == {k \in Nat : k <= n => last[k] \in Nat}
  <2>1. 0 \in T
    BY <1>9
  <2>2. ASSUME NEW k \in Nat, k \in T PROVE k + 1 \in T
    <3>1. ASSUME k + 1 <= n PROVE last[k + 1] \in Nat
      <4>1. k + 1 \in 1..n /\ last[k] \in Nat /\ (k + 1) - 1 = k
        BY <1>1, <2>2, <3>1
      <4>2. last[k + 1] = s[n + 1 - (k + 1)] + Base * last[k]
        BY <1>9, <4>1
      <4>3. QED BY <1>3, <4>1, <4>2
    <3>2. QED BY <3>1
  <2> HIDE DEF T
  <2>3. Nat \subseteq T
    BY <2>1, <2>2, Induction
  <2>4. QED BY <2>3 DEF T
<1>11. QED BY <1>2, <1>9, <1>10 DEF n

LEMMA NumberRead ==
  ASSUME NEW v, NEW w \in Nat, Fits(v, w)
  PROVE  Number(LittleEndian(v, w)) = v
<1> DEFINE s == LittleEndian(v, w)
           f == Shifted(v, w)
<1>1. v \in Nat /\ f[w] = 0
  BY DEF Fits
<1>2. s \in Seq(Nat) /\ Len(s) = w /\ \A i \in 1..w : s[i] = f[i - 1] % Base
  BY <1>1, LittleEndianIs
<1>3. /\ f[0] = v /\ \A i \in 0..w : f[i] \in Nat
      /\ \A i \in 1..w : f[i] = f[i - 1] \div Base
  BY <1>1, Shifts
<1>4. PICK g : /\ g[0] = 0 /\ g[w] = Number(s)
               /\ \A k \in 1..w : g[k] = s[w + 1 - k] + Base * g[k - 1]
  <2> HIDE DEF s, f
  <2>1. \E g : /\ g[0] = 0 /\ g[Len(s)] = Number(s)
               /\ \A k \in 1..Len(s) : g[k] = s[Len(s) + 1 - k] + Base * g[k - 1]
    <3>1. \E g : /\ g[0] = 0 /\ g[Len(s)] = Number(s)
                 /\ \A k \in 0..Len(s) : g[k] \in Nat
                 /\ \A k \in 1..Len(s) : g[k] = s[Len(s) + 1 - k] + Base * g[k - 1]
      BY <1>2, NumberIs
    <3>2. QED BY ONLY <3>1
  <2>2. QED BY <1>2, <2>1
<1> HIDE DEF s, f
<1> DEFINE T == {k \in Nat : k <= w => g[k] = f[w - k]}
<1>5. 0 \in T
  BY <1>1, <1>4
<1>6. ASSUME NEW k \in Nat, k \in T PROVE k + 1 \in T
  <2>1. ASSUME k + 1 <= w PROVE g[k + 1] = f[w - (k + 1)]
    <3> DEFINE i == w - k
    <3>1. /\ i \in 1..w /\ i - 1 = w - (k + 1) /\ w + 1 - (k + 1) = i
          /\ k + 1 \in 1..w /\ (k + 1) - 1 = k /\ i - 1 \in 0..w
      BY <2>1
    <3>2. g[k] = f[i]
      BY <1>6, <2>1
    <3> HIDE DEF i
    <3>3. g[k + 1] = s[i] + Base * g[k]
      BY <1>4, <3>1
    <3>4. s[i] = f[i - 1] % Base /\ f[i] = f[i - 1] \div Base /\ f[i - 1] \in Nat
      BY <1>2, <1>3, <3>1
    <3>5. f[i - 1] = (f[i - 1] % Base) + Base * (f[i - 1] \div Base)
      BY <3>4, Divided
    <3>6. QED BY <3>1, <3>2, <3>3, <3>4, <3>5
  <2>2. QED BY <2>1
<1> HIDE DEF T
<1>7. w \in T
  BY <1>5, <1>6, Induction
<1>8. g[w] = f[w - w] /\ w - w = 0
  BY <1>7 DEF T
<1>9. QED BY <1>3, <1>4, <1>8 DEF s

-----------------------------------------------------------------------------
(* Pieces: what is put is got.                                              *)
IsPiece(p) ==
  \/ p.type = "Int32" /\ Fits(p.v, Width.Int32)
  \/ p.type = "Int64" /\ Fits(p.v, Width.Int64)
  \/ p.type = "WString" /\ p.v \in Text /\ Fits(Len(p.v), Width.Size)

LEMMA Widths ==
  /\ Width.Size \in Nat \ {0} /\ Width.Int32 \in Nat \ {0} /\ Width.Int64 \in Nat \ {0}
  /\ Width["Int32"] \in Nat \ {0} /\ Width["Int64"] \in Nat \ {0}
BY CodecAssumption

(* A piece as the code sees it: a tag, a number, and the string if it has   *)
(* one.                                                                     *)
NumberOf(p) == IF p.type = "WString" THEN Len(p.v) ELSE p.v
StringOf(p) == IF p.type = "WString" THEN p.v ELSE <<>>

LEMMA TextIsNumbers ==
  ASSUME NEW s \in Text
  PROVE  s \in Seq(Nat)
<1>1. Byte \subseteq Nat
  BY Bytes DEF Byte
<1>2. Len(s) \in Nat /\ (\A i \in 1..Len(s) : s[i] \in Nat) /\ s = [i \in 1..Len(s) |-> s[i]]
  BY <1>1 DEF Text
<1>3. QED BY <1>2

LEMMA PutIs ==
  ASSUME NEW p, IsPiece(p)
  PROVE  LET head == LittleEndian(NumberOf(p), HeadOf(p.type))
             tag  == <<Tag[p.type]>>
         IN  /\ Put(p) = Cat(tag, Cat(head, StringOf(p)))
             /\ tag \in Seq(Nat) /\ Len(tag) = 1
             /\ head \in Seq(Nat) /\ Len(head) = HeadOf(p.type)
             /\ Number(head) = NumberOf(p) /\ HeadOf(p.type) \in Nat
             /\ NumberOf(p) \in Nat
             /\ StringOf(p) \in Seq(Nat)
             /\ p.type = "WString" => Len(StringOf(p)) = NumberOf(p)
<1> DEFINE n == NumberOf(p)
           w == HeadOf(p.type)
           head == LittleEndian(n, w)
           tag  == <<Tag[p.type]>>
<1>1. p.type \in {"Int32", "Int64", "WString"}
  BY DEF IsPiece
<1>2. tag \in Seq(Nat) /\ Len(tag) = 1
  BY <1>1 DEF Tag
<1>3. w \in Nat /\ Fits(n, w)
  BY Widths DEF IsPiece, HeadOf, NumberOf
<1>4. n \in Nat
  BY <1>3 DEF Fits
<1>5. head \in Seq(Nat) /\ Len(head) = w
  BY <1>3, <1>4, LittleEndianIs
<1>6. Number(head) = n
  BY <1>3, NumberRead
<1>7. StringOf(p) \in Seq(Nat)
  <2>1. CASE p.type = "WString"
    <3>1. p.v \in Text
      BY <2>1 DEF IsPiece
    <3>2. QED BY <2>1, <3>1, TextIsNumbers DEF StringOf
  <2>2. CASE p.type # "WString"
    BY <2>2 DEF StringOf
  <2>3. QED BY <2>1, <2>2
<1>8. Put(p) = Cat(tag, Cat(head, StringOf(p)))
  <2>1. CASE p.type = "WString"
    BY <2>1 DEF Put, Cat, StringOf, NumberOf, HeadOf
  <2>2. CASE p.type # "WString"
    <3>1. Put(p) = Cat(tag, head)
      BY <2>2 DEF Put, Cat, NumberOf, HeadOf
    <3>2. Cat(head, <<>>) = head
      BY <1>5, Monoid
    <3>3. QED BY <2>2, <3>1, <3>2 DEF StringOf
  <2>3. QED BY <2>1, <2>2
<1>9. p.type = "WString" => Len(StringOf(p)) = n
  BY DEF StringOf, NumberOf
<1>10. QED BY <1>2, <1>3, <1>4, <1>5, <1>6, <1>7, <1>8, <1>9

LEMMA FromCat ==
  ASSUME NEW S, NEW s \in Seq(S), NEW t \in Seq(S)
  PROVE  From(Cat(s, t), Len(s)) = t /\ First(Cat(s, t), Len(s)) = s
<1>1. Len(Cat(s, t)) = Len(s) + Len(t)
  BY CatLength
<1>2. Slice(Cat(s, t), Len(s), Len(s) + Len(t)) = t
  BY SliceOfCat
<1>3. QED BY <1>1, <1>2, Prefix DEF Slice, From

LEMMA GetPut ==
  ASSUME NEW p, IsPiece(p), NEW rest \in Seq(Nat), NEW in,
         in.buf = Cat(Put(p), rest), in.bad = FALSE
  PROVE  Get(in, p.type) = [buf |-> rest, bad |-> FALSE, got |-> Append(in.got, p.v)]
<1> DEFINE n == NumberOf(p)
           w == HeadOf(p.type)
           head == LittleEndian(n, w)
           tag  == <<Tag[p.type]>>
           x    == StringOf(p)
           more == Cat(x, rest)
           body == Cat(head, more)
<1>1. /\ Put(p) = Cat(tag, Cat(head, x)) /\ tag \in Seq(Nat) /\ Len(tag) = 1
      /\ head \in Seq(Nat) /\ Len(head) = w /\ Number(head) = n /\ w \in Nat /\ n \in Nat
      /\ x \in Seq(Nat) /\ (p.type = "WString" => Len(x) = n)
  BY PutIs
<1>2. p.type # "WString" => x = <<>> /\ n = p.v
  BY DEF StringOf, NumberOf
<1>3. p.type = "WString" => x = p.v
  BY DEF StringOf
<1> HIDE DEF n, w, head, x, tag
<1>4. more \in Seq(Nat) /\ body \in Seq(Nat) /\ in.buf = Cat(tag, body)
  <2>1. Cat(head, x) \in Seq(Nat) /\ more \in Seq(Nat) /\ body \in Seq(Nat)
    BY <1>1, Monoid
  <2>2. in.buf = Cat(tag, Cat(Cat(head, x), rest))
    BY <1>1, <2>1, Monoid
  <2>3. Cat(Cat(head, x), rest) = body
    BY <1>1, Monoid
  <2>4. QED BY <2>1, <2>2, <2>3
<1>5. First(in.buf, 1) = tag /\ From(in.buf, 1) = body /\ in.buf # <<>>
  <2> HIDE DEF body
  <2>1. First(in.buf, 1) = tag /\ From(in.buf, 1) = body
    <3>1. /\ First(Cat(tag, body), Len(tag)) = tag
          /\ From(Cat(tag, body), Len(tag)) = body
      BY <1>1, <1>4, FromCat
    <3>2. QED BY <1>1, <1>4, <3>1
  <2>2. Len(in.buf) = 1 + Len(body) /\ Len(body) \in Nat
    BY <1>1, <1>4, CatLength, LenProperties
  <2>3. in.buf # <<>>
    BY <2>2
  <2>4. QED BY <2>1, <2>3
<1>6. First(body, w) = head /\ Number(First(body, w)) = n /\ From(body, w) = more
  BY <1>1, <1>4, FromCat
<1>7. Len(body) = w + Len(more) /\ Len(more) = Len(x) + Len(rest)
      /\ Len(x) \in Nat /\ Len(rest) \in Nat
  BY <1>1, <1>4, CatLength, LenProperties
<1> DEFINE whole == IF p.type = "WString" THEN w + n ELSE w
<1>8. whole = w + Len(x) /\ Len(body) >= w /\ Len(body) >= whole
  <2> HIDE DEF body, more
  <2>1. whole = w + Len(x)
    <3>1. CASE p.type = "WString"
      BY <1>1, <3>1
    <3>2. CASE p.type # "WString"
      <4>1. Len(x) = 0 /\ w + 0 = w
        BY <1>1, <1>2, <3>2
      <4>2. QED BY <3>2, <4>1
    <3>3. QED BY <3>1, <3>2
  <2>2. w \in Nat
    BY <1>1
  <2> HIDE DEF whole
  <2>3. QED BY ONLY <1>7, <2>1, <2>2
<1>9. SubSeq(body, w + 1, w + Len(x)) = x /\ From(body, w + Len(x)) = rest
  <2>1. Cat(head, x) \in Seq(Nat) /\ Len(Cat(head, x)) = w + Len(x)
        /\ body = Cat(Cat(head, x), rest)
    <3>1. Cat(head, x) \in Seq(Nat) /\ Len(Cat(head, x)) = Len(head) + Len(x)
      BY <1>1, CatLength
    <3>2. body = Cat(Cat(head, x), rest)
      BY <1>1, Monoid
    <3>3. QED BY <1>1, <3>1, <3>2
  <2>2. From(body, w + Len(x)) = rest
    BY <2>1, FromCat
  <2>3. Slice(body, w, w + Len(x)) = Slice(Cat(head, x), w, w + Len(x))
    <3> DEFINE y == Cat(head, x)
    <3> HIDE DEF y, body
    <3>1. /\ y \in Seq(Nat) /\ w \in Nat /\ w + Len(x) \in Nat
          /\ w <= w + Len(x) /\ w + Len(x) <= Len(y)
      BY <1>1, <1>7, <2>1 DEF y
    <3>2. Slice(Cat(y, rest), w, w + Len(x)) = Slice(y, w, w + Len(x))
      BY <3>1, SliceOfCat
    <3>3. QED BY <2>1, <3>2 DEF y
  <2>4. Slice(Cat(head, x), w, w + Len(x)) = x
    <3>1. head \in Seq(Nat) /\ x \in Seq(Nat)
      BY <1>1
    <3>2. Slice(Cat(head, x), Len(head), Len(head) + Len(x)) = x
      BY ONLY <3>1, SliceOfCat
    <3>3. QED BY <1>1, <3>2
  <2>5. QED BY <2>2, <2>3, <2>4 DEF Slice
<1> HIDE DEF body, more
<1>10. Get(in, p.type) =
         [buf |-> From(body, whole), bad |-> FALSE,
          got |-> Append(in.got, IF p.type = "WString" THEN SubSeq(body, w + 1, whole) ELSE n)]
  <2>1. /\ From(in.buf, 1) = body /\ HeadOf(p.type) = w /\ Number(First(body, w)) = n
        /\ ~(\/ in.bad \/ in.buf = <<>> \/ First(in.buf, 1) # <<Tag[p.type]>>
             \/ Len(body) < w \/ Len(body) < whole)
    BY <1>1, <1>5, <1>6, <1>7, <1>8, LenProperties, <1>4 DEF w, tag
  <2>2. QED BY <2>1 DEF Get
<1>11. QED BY <1>2, <1>3, <1>8, <1>9, <1>10

-----------------------------------------------------------------------------
(* Pieces in a row: after each, what is left begins with the next.          *)
AreMany(ops, n) ==
  n \in Nat /\ DOMAIN ops = 1..n /\ Len(ops) = n /\ ops = [i \in 1..n |-> ops[i]]
ArePieces(ops, n)  == AreMany(ops, n) /\ \A i \in 1..n : IsPiece(ops[i])
ArePuttable(ops, n) == AreMany(ops, n) /\ \A i \in 1..n : Put(ops[i]) \in Seq(Nat)

Puts(ops) == [i \in DOMAIN ops |-> Put(ops[i])]

LEMMA PieceIsPut ==
  ASSUME NEW p, IsPiece(p)
  PROVE  Put(p) \in Seq(Nat)
<1> DEFINE head == LittleEndian(NumberOf(p), HeadOf(p.type))
           tag  == <<Tag[p.type]>>
<1>1. /\ Put(p) = Cat(tag, Cat(head, StringOf(p)))
      /\ tag \in Seq(Nat) /\ head \in Seq(Nat) /\ StringOf(p) \in Seq(Nat)
  BY PutIs
<1> HIDE DEF head, tag
<1>2. QED BY <1>1, Monoid

LEMMA PiecesArePut ==
  ASSUME NEW ops, NEW n, ArePieces(ops, n)
  PROVE  ArePuttable(ops, n)
BY PieceIsPut DEF ArePieces, ArePuttable

LEMMA PutsAre ==
  ASSUME NEW ops, NEW n, ArePuttable(ops, n)
  PROVE  /\ Puts(ops) \in Seq(Seq(Nat)) /\ Len(Puts(ops)) = n
         /\ \A i \in 1..n : Puts(ops)[i] = Put(ops[i]) /\ Put(ops[i]) \in Seq(Nat)
         /\ \A i \in 1..n : Puts(ops)[i] \in Seq(Nat)
<1> DEFINE Texts == Seq(Nat)
<1>1. \A i \in 1..n : Put(ops[i]) \in Texts
  BY DEF ArePuttable
<1>2. Puts(ops) = [i \in 1..n |-> Put(ops[i])] /\ n \in Nat
  BY DEF Puts, ArePuttable, AreMany
<1> HIDE DEF Texts
<1>3. /\ Puts(ops) \in Seq(Texts) /\ Len(Puts(ops)) = n
      /\ \A i \in 1..n : Puts(ops)[i] = Put(ops[i])
  BY <1>1, <1>2
<1>4. QED BY <1>1, <1>3 DEF Texts

LEMMA PayloadIs ==
  ASSUME NEW ops, NEW n, ArePuttable(ops, n)
  PROVE  \E F : /\ Joins(F, Puts(ops), n) /\ F[n] = Payload(ops)
                /\ \A i \in 0..n : F[i] \in Seq(Nat)
<1>1. n \in Nat
  BY DEF ArePuttable, AreMany
<1>2. /\ Puts(ops) \in Seq(Seq(Nat)) /\ Len(Puts(ops)) = n
      /\ \A i \in 1..n : Puts(ops)[i] \in Seq(Nat)
  BY PutsAre
<1>3. PICK F : Joins(F, Puts(ops), n) /\ \A i \in 0..n : F[i] \in Seq(Nat)
  BY <1>1, <1>2, JoinsExist
<1>4. FlattenSeq(Puts(ops)) = F[n]
  BY <1>2, <1>3, JoinsFlattened
<1>5. QED BY <1>3, <1>4 DEF Payload, Puts

(* All pieces but the first are a payload too.                              *)
LEMMA PayloadBegins ==
  ASSUME NEW p, Put(p) \in Seq(Nat), NEW ops, NEW n, ArePuttable(ops, n)
  PROVE  /\ ArePuttable(<<p>> \o ops, n + 1)
         /\ Payload(<<p>> \o ops) = Cat(Put(p), Payload(ops))
         /\ Put(p) \in Seq(Nat) /\ Payload(ops) \in Seq(Nat)
<1> DEFINE all == <<p>> \o ops
<1>1. /\ n \in Nat /\ DOMAIN ops = 1..n /\ Len(ops) = n
      /\ \A i \in 1..n : Put(ops[i]) \in Seq(Nat)
  BY DEF ArePuttable, AreMany
<1>2. /\ DOMAIN all = 1..(n + 1) /\ Len(all) = n + 1
      /\ all = [i \in 1..(n + 1) |-> all[i]]
      /\ all[1] = p /\ \A i \in 1..n : all[i + 1] = ops[i]
  <2> DEFINE V == {p} \cup {ops[i] : i \in 1..n}
  <2>1. ops \in Seq(V) /\ <<p>> \in Seq(V) /\ Len(<<p>>) = 1 /\ <<p>>[1] = p
    <3>1. ops = [i \in 1..n |-> ops[i]]
      BY DEF ArePuttable, AreMany
    <3>2. QED BY <1>1, <3>1
  <2> HIDE DEF V
  <2> DEFINE one == <<p>>
  <2>2. one \in Seq(V) /\ Len(one) = 1 /\ one[1] = p
    BY <2>1
  <2> HIDE DEF one
  <2>8. ops \in Seq(V) /\ one \in Seq(V) /\ Len(one) = 1 /\ Len(ops) = n
    BY <1>1, <2>1, <2>2
  <2>3. /\ one \o ops \in Seq(V) /\ Len(one \o ops) = 1 + n
        /\ \A i \in 1..(1 + n) : (one \o ops)[i] = IF i <= 1 THEN one[i] ELSE ops[i - 1]
    <3>1. /\ one \o ops \in Seq(V) /\ Len(one \o ops) = Len(one) + Len(ops)
          /\ \A i \in 1..(Len(one) + Len(ops)) :
               (one \o ops)[i] = IF i <= Len(one) THEN one[i] ELSE ops[i - Len(one)]
      BY ONLY <2>8, ConcatProperties
    <3>2. QED BY <2>8, <3>1
  <2> DEFINE both == one \o ops
  <2>6. both \in Seq(V) /\ Len(both) = n + 1
    BY <1>1, <2>3
  <2> HIDE DEF both
  <2>7. DOMAIN both = 1..(n + 1) /\ both = [i \in 1..(n + 1) |-> both[i]]
    BY ONLY <1>1, <2>6
  <2>4. DOMAIN (one \o ops) = 1..(n + 1)
        /\ one \o ops = [i \in 1..(n + 1) |-> (one \o ops)[i]]
    BY <2>7 DEF both
  <2>5. QED BY <1>1, <2>2, <2>3, <2>4 DEF one
<1> HIDE DEF all
<1>3. ArePuttable(all, n + 1)
  <2>1. ASSUME NEW i \in 1..(n + 1) PROVE Put(all[i]) \in Seq(Nat)
    <3>1. CASE i = 1
      BY <1>2, <3>1
    <3>2. CASE i # 1
      <4>1. i - 1 \in 1..n /\ (i - 1) + 1 = i
        BY <1>1, <3>2
      <4>2. QED BY <1>1, <1>2, <4>1
    <3>3. QED BY <3>1, <3>2
  <2>2. QED BY <1>1, <1>2, <2>1 DEF ArePuttable, AreMany
<1>4. PICK F : /\ Joins(F, Puts(all), n + 1) /\ F[n + 1] = Payload(all)
               /\ \A i \in 0..(n + 1) : F[i] \in Seq(Nat)
  BY <1>3, PayloadIs
<1>5. PICK G : /\ Joins(G, Puts(ops), n) /\ G[n] = Payload(ops)
               /\ \A i \in 0..n : G[i] \in Seq(Nat)
  BY PayloadIs
<1>6. /\ Puts(all)[1] = Put(p) /\ Put(p) \in Seq(Nat)
      /\ \A i \in 1..n : /\ Puts(all)[i + 1] = Puts(ops)[i]
                         /\ Puts(ops)[i] \in Seq(Nat)
  <2>1. \A i \in 1..(n + 1) : Puts(all)[i] = Put(all[i]) /\ Put(all[i]) \in Seq(Nat)
    BY <1>3, PutsAre
  <2>2. \A i \in 1..n : Puts(ops)[i] = Put(ops[i]) /\ Puts(ops)[i] \in Seq(Nat)
    BY PutsAre
  <2>3. ASSUME NEW i \in 1..n PROVE Puts(all)[i + 1] = Puts(ops)[i]
    <3>1. i + 1 \in 1..(n + 1)
      BY <1>1
    <3>2. QED BY <1>2, <2>1, <2>2, <3>1
  <2>4. 1 \in 1..(n + 1)
    BY <1>1
  <2>5. QED BY <1>2, <2>1, <2>2, <2>3, <2>4
<1> DEFINE first == Put(p)
           T == {i \in Nat : i <= n => F[i + 1] = Cat(first, G[i])}
<1> HIDE DEF first
<1>7. 0 \in T
  <2>1. F[0] = <<>> /\ G[0] = <<>> /\ F[1] = Cat(F[0], Puts(all)[1])
    <3>1. 1 \in 1..(n + 1) /\ 1 - 1 = 0
      BY <1>1
    <3>2. QED BY <1>4, <1>5, <3>1 DEF Joins
  <2>2. Cat(<<>>, first) = first /\ Cat(first, <<>>) = first
    BY <1>6, Monoid DEF first
  <2>3. QED BY <1>6, <2>1, <2>2 DEF first
<1>8. ASSUME NEW i \in Nat, i \in T PROVE i + 1 \in T
  <2>1. ASSUME i + 1 <= n PROVE F[(i + 1) + 1] = Cat(first, G[i + 1])
    <3>1. /\ i + 1 \in 1..n /\ (i + 1) + 1 \in 1..(n + 1) /\ i \in 0..n
          /\ ((i + 1) + 1) - 1 = i + 1 /\ (i + 1) - 1 = i
      BY <1>1, <2>1
    <3>2. F[i + 1] = Cat(first, G[i])
      BY <1>8, <3>1
    <3>3. /\ F[(i + 1) + 1] = Cat(F[i + 1], Puts(ops)[i + 1])
          /\ G[i + 1] = Cat(G[i], Puts(ops)[i + 1])
      BY <1>4, <1>5, <1>6, <3>1 DEF Joins
    <3>4. /\ first \in Seq(Nat) /\ G[i] \in Seq(Nat) /\ Puts(ops)[i + 1] \in Seq(Nat)
      BY <1>5, <1>6, <3>1 DEF first
    <3> DEFINE g == G[i]
               q == Puts(ops)[i + 1]
    <3> HIDE DEF g, q
    <3>5. first \in Seq(Nat) /\ g \in Seq(Nat) /\ q \in Seq(Nat)
      BY <3>4 DEF g, q
    <3>6. Cat(Cat(first, g), q) = Cat(first, Cat(g, q))
      BY ONLY <3>5, Monoid
    <3>7. QED BY <3>2, <3>3, <3>6 DEF g, q
  <2>2. QED BY <2>1
<1> HIDE DEF T
<1>9. n \in T
  BY <1>1, <1>7, <1>8, Induction
<1>10. F[n + 1] = Cat(first, G[n]) /\ n \in 0..n
  BY <1>1, <1>9 DEF T
<1>11. QED BY <1>3, <1>4, <1>5, <1>6, <1>10 DEF all, first

(* No piece is longer than all of them.                                     *)
LEMMA PieceIsShorter ==
  ASSUME NEW ops, NEW n, ArePuttable(ops, n), NEW i \in 1..n
  PROVE  Len(Put(ops[i])) <= Len(Payload(ops))
<1>1. n \in Nat
  BY DEF ArePuttable, AreMany
<1>2. PICK F : /\ Joins(F, Puts(ops), n) /\ F[n] = Payload(ops)
               /\ \A k \in 0..n : F[k] \in Seq(Nat)
  BY PayloadIs
<1>3. \A k \in 1..n : Puts(ops)[k] = Put(ops[k]) /\ Put(ops[k]) \in Seq(Nat)
  BY PutsAre
<1> DEFINE len == [k \in 0..n |-> Len(F[k])]
           put == [k \in 1..n |-> Len(Put(ops[k]))]
<1>4. ASSUME NEW k \in 1..n
      PROVE  /\ len[k] = len[k - 1] + put[k] /\ len[k] \in Nat
             /\ len[k - 1] \in Nat /\ put[k] \in Nat
  <2> DEFINE a == F[k - 1]
             b == Put(ops[k])
  <2>1. k \in 0..n /\ k - 1 \in 0..n
    BY <1>1
  <2>2. a \in Seq(Nat) /\ b \in Seq(Nat) /\ F[k] = Cat(a, b)
    BY <1>2, <1>3, <2>1 DEF Joins
  <2>3. len[k] = Len(F[k]) /\ len[k - 1] = Len(a) /\ put[k] = Len(b)
    BY <2>1
  <2> HIDE DEF a, b, len, put
  <2>4. Len(Cat(a, b)) = Len(a) + Len(b) /\ Len(a) \in Nat /\ Len(b) \in Nat
    BY <2>2, CatLength, LenProperties
  <2>5. QED BY <2>2, <2>3, <2>4
<1>5. len[n] = Len(Payload(ops)) /\ put[i] = Len(Put(ops[i]))
  BY <1>1, <1>2
<1> HIDE DEF len, put
<1> DEFINE T == {k \in Nat : i + k <= n => put[i] <= len[i + k]}
<1>6. 0 \in T
  BY <1>1, <1>4
<1>7. ASSUME NEW k \in Nat, k \in T PROVE k + 1 \in T
  <2>1. ASSUME i + (k + 1) <= n PROVE put[i] <= len[i + (k + 1)]
    <3> DEFINE m == i + (k + 1)
    <3>1. m \in 1..n /\ m - 1 = i + k /\ i + k <= n
      BY <1>1, <2>1
    <3>2. put[i] <= len[i + k]
      BY <1>7, <3>1
    <3> HIDE DEF m
    <3>3. len[m] = len[m - 1] + put[m] /\ len[m - 1] \in Nat /\ put[m] \in Nat
      BY <1>4, <3>1
    <3>4. put[i] \in Nat
      BY <1>4
    <3>5. put[i] <= len[m]
      BY <3>1, <3>2, <3>3, <3>4
    <3>6. QED BY <3>5 DEF m
  <2>2. QED BY <2>1
<1> HIDE DEF T
<1>8. n - i \in T
  <2>1. n - i \in Nat
    BY <1>1
  <2>2. Nat \subseteq T
    BY <1>6, <1>7, Induction
  <2>3. QED BY <2>1, <2>2
<1>9. i + (n - i) = n /\ n <= n
  BY <1>1
<1>10. put[i] <= len[n]
  BY <1>8, <1>9 DEF T
<1>11. QED BY <1>5, <1>10

(* What is left after some of the pieces.                                   *)
LEMMA RestIs ==
  ASSUME NEW ops, NEW n, ArePieces(ops, n)
  PROVE  \E R : /\ R[0] = Payload(ops) /\ R[n] = <<>>
                /\ \A k \in 0..n : R[k] \in Seq(Nat)
                /\ \A k \in 1..n : R[k - 1] = Cat(Put(ops[k]), R[k])
<1>1. n \in Nat /\ ArePuttable(ops, n)
  BY PiecesArePut DEF ArePieces, AreMany
<1>2. PICK F : /\ Joins(F, Puts(ops), n) /\ F[n] = Payload(ops)
               /\ \A i \in 0..n : F[i] \in Seq(Nat)
  BY <1>1, PayloadIs
<1>3. \A i \in 1..n : Puts(ops)[i] = Put(ops[i]) /\ Put(ops[i]) \in Seq(Nat)
  BY <1>1, PutsAre
<1> DEFINE T == {j \in Nat : j <= n => \E r \in Seq(Nat) : F[n] = Cat(F[n - j], r)}
<1>4. 0 \in T
  <2>1. F[n] \in Seq(Nat) /\ n - 0 = n /\ <<>> \in Seq(Nat)
    BY <1>1, <1>2
  <2>2. F[n] = Cat(F[n - 0], <<>>)
    BY <2>1, Monoid
  <2>3. QED BY <2>1, <2>2
<1>5. ASSUME NEW j \in Nat, j \in T PROVE j + 1 \in T
  <2>1. ASSUME j + 1 <= n PROVE \E r \in Seq(Nat) : F[n] = Cat(F[n - (j + 1)], r)
    <3> DEFINE k == n - j
    <3>1. k \in 1..n /\ k - 1 = n - (j + 1) /\ k \in 0..n /\ k - 1 \in 0..n
      BY <1>1, <2>1
    <3>0. j <= n
      BY <1>1, <2>1
    <3>2. PICK r \in Seq(Nat) : F[n] = Cat(F[k], r)
      BY <1>5, <3>0
    <3> HIDE DEF k
    <3> DEFINE a == F[k - 1]
               b == Put(ops[k])
    <3>3. a \in Seq(Nat) /\ b \in Seq(Nat) /\ F[k] = Cat(a, b)
      BY <1>2, <1>3, <3>1 DEF Joins
    <3> HIDE DEF a, b
    <3>4. F[n] = Cat(a, Cat(b, r)) /\ Cat(b, r) \in Seq(Nat)
      BY <3>2, <3>3, Monoid
    <3>5. QED BY <3>1, <3>4 DEF a
  <2>2. QED BY <2>1
<1> HIDE DEF T
<1>6. Nat \subseteq T
  BY <1>4, <1>5, Induction
<1>7. ASSUME NEW k \in 0..n PROVE \E r \in Seq(Nat) : F[n] = Cat(F[k], r)
  <2>1. n - k \in Nat /\ n - (n - k) = k /\ n - k <= n
    BY <1>1
  <2>2. n - k \in T
    BY <1>6, <2>1
  <2>3. QED BY <2>1, <2>2 DEF T
<1> DEFINE R == [k \in 0..n |-> From(F[n], Len(F[k]))]
<1>8. \A k \in 0..n : R[k] = From(F[n], Len(F[k]))
  OBVIOUS
<1> HIDE DEF R
<1>9. ASSUME NEW k \in 0..n PROVE R[k] \in Seq(Nat) /\ F[n] = Cat(F[k], R[k])
  <2>1. PICK r \in Seq(Nat) : F[n] = Cat(F[k], r)
    BY <1>7
  <2>2. F[k] \in Seq(Nat)
    BY <1>2
  <2>3. From(Cat(F[k], r), Len(F[k])) = r
    BY <2>2, FromCat
  <2>4. QED BY <1>8, <2>1, <2>3
<1>10. ASSUME NEW k \in 1..n PROVE R[k - 1] = Cat(Put(ops[k]), R[k])
  <2> DEFINE a == F[k - 1]
             b == Put(ops[k])
             c == R[k]
  <2>1. k \in 0..n /\ k - 1 \in 0..n
    BY <1>1
  <2>2. a \in Seq(Nat) /\ b \in Seq(Nat) /\ c \in Seq(Nat) /\ F[k] = Cat(a, b)
    BY <1>2, <1>3, <1>9, <2>1 DEF Joins
  <2>3. F[n] = Cat(F[k], c) /\ R[k - 1] = From(F[n], Len(a))
    BY <1>8, <1>9, <2>1
  <2> HIDE DEF a, b, c
  <2>4. F[n] = Cat(a, Cat(b, c)) /\ Cat(b, c) \in Seq(Nat)
    BY <2>2, <2>3, Monoid
  <2>5. From(Cat(a, Cat(b, c)), Len(a)) = Cat(b, c)
    BY <2>2, <2>4, FromCat
  <2>6. QED BY <2>3, <2>4, <2>5 DEF b, c
<1>11. R[0] = F[n]
  <2>1. 0 \in 0..n /\ F[0] = <<>>
    BY <1>1, <1>2 DEF Joins
  <2>2. R[0] \in Seq(Nat) /\ F[n] = Cat(<<>>, R[0])
    BY <1>9, <2>1
  <2>3. QED BY <2>2, Monoid
<1>12. R[n] = <<>>
  <2>1. n \in 0..n
    BY <1>1
  <2>2. R[n] \in Seq(Nat) /\ F[n] \in Seq(Nat) /\ F[n] = Cat(F[n], R[n])
    BY <1>2, <1>9, <2>1
  <2>3. Len(Cat(F[n], R[n])) = Len(F[n]) + Len(R[n]) /\ Len(F[n]) \in Nat /\ Len(R[n]) \in Nat
    BY <2>2, CatLength, LenProperties
  <2> DEFINE a == Len(F[n])
             b == Len(R[n])
  <2>6. a \in Nat /\ b \in Nat /\ a = a + b
    BY <2>2, <2>3
  <2> HIDE DEF a, b
  <2>7. b = 0
    BY ONLY <2>6
  <2>4. Len(R[n]) = 0
    BY <2>7 DEF b
  <2>5. QED BY <2>2, <2>4, EmptySeq
<1>13. QED BY <1>2, <1>9, <1>10, <1>11, <1>12

-----------------------------------------------------------------------------
Typed(types, ops, n) == Len(types) = n /\ \A i \in 1..n : types[i] = ops[i].type

Values(ops, k) == [i \in 1..k |-> ops[i].v]

LEMMA ValuesAppend ==
  ASSUME NEW ops, NEW k \in Nat
  PROVE  Append(Values(ops, k), ops[k + 1].v) = Values(ops, k + 1)
<1> DEFINE V == {ops[i].v : i \in 1..(k + 1)}
           s == Values(ops, k)
           x == ops[k + 1].v
           t == Append(s, x)
<1>1. s \in Seq(V) /\ Len(s) = k /\ (\A i \in 1..k : s[i] = ops[i].v) /\ x \in V
  BY DEF Values
<1> HIDE DEF s, x, V
<1>2. t \in Seq(V) /\ Len(t) = k + 1 /\ t[k + 1] = x /\ \A i \in 1..k : t[i] = s[i]
  BY <1>1, AppendProperties
<1> HIDE DEF t
<1>3. \A i \in 1..(k + 1) : t[i] = ops[i].v
  BY <1>1, <1>2 DEF x
<1>4. t = [i \in 1..(k + 1) |-> t[i]]
  BY <1>2
<1>5. t = Values(ops, k + 1)
  BY <1>3, <1>4 DEF Values
<1>6. QED BY <1>5 DEF t, s, x

(* All that was put is got, and nothing is left.                            *)
LEMMA GetsAll ==
  ASSUME NEW ops, NEW n, ArePieces(ops, n),
         NEW types, Typed(types, ops, n)
  PROVE  GetAll([buf |-> Payload(ops), bad |-> FALSE, got |-> <<>>], types) =
           [buf |-> <<>>, bad |-> FALSE, got |-> Values(ops, n)]
<1> DEFINE in == [buf |-> Payload(ops), bad |-> FALSE, got |-> <<>>]
           Is(h) == h = [k \in 0..n |-> IF k = 0 THEN in ELSE Get(h[k - 1], types[k])]
           upTo == CHOOSE h : Is(h)
<1>1. /\ n \in Nat /\ Len(types) = n
      /\ \A i \in 1..n : IsPiece(ops[i]) /\ types[i] = ops[i].type
  BY DEF ArePieces, AreMany, Typed
<1>2. PICK R : /\ R[0] = Payload(ops) /\ R[n] = <<>>
               /\ \A k \in 0..n : R[k] \in Seq(Nat)
               /\ \A k \in 1..n : R[k - 1] = Cat(Put(ops[k]), R[k])
  BY RestIs
<1> DEFINE At(k) == [buf |-> R[k], bad |-> FALSE, got |-> Values(ops, k)]
<1>3. in = At(0)
  <2>1. Values(ops, 0) = <<>>
    BY DEF Values
  <2>2. QED BY <1>2, <2>1
<1>4. ASSUME NEW k \in 1..n PROVE Get(At(k - 1), types[k]) = At(k)
  <2> DEFINE p == ops[k]
             before == At(k - 1)
  <2>1. /\ IsPiece(p) /\ types[k] = p.type /\ R[k] \in Seq(Nat)
        /\ before.buf = Cat(Put(p), R[k]) /\ before.bad = FALSE
        /\ before.got = Values(ops, k - 1)
    BY <1>1, <1>2
  <2>2. Append(Values(ops, k - 1), p.v) = Values(ops, k)
    <3>1. k - 1 \in Nat /\ (k - 1) + 1 = k
      BY <1>1
    <3>2. Append(Values(ops, k - 1), ops[(k - 1) + 1].v) = Values(ops, (k - 1) + 1)
      BY ONLY <3>1, ValuesAppend
    <3>3. QED BY <3>1, <3>2
  <2> HIDE DEF p, before
  <2>3. Get(before, p.type) = [buf |-> R[k], bad |-> FALSE, got |-> Append(before.got, p.v)]
    BY <2>1, GetPut
  <2>4. QED BY <2>1, <2>2, <2>3 DEF before
<1> HIDE DEF At, in
<1>5. \E h : Is(h)
  <2> DEFINE g == [k \in 0..n |-> At(k)]
  <2>1. \A k \in 0..n : g[k] = At(k)
    OBVIOUS
  <2>2. ASSUME NEW k \in 0..n
        PROVE  At(k) = IF k = 0 THEN in ELSE Get(g[k - 1], types[k])
    <3>1. CASE k = 0
      BY <1>3, <3>1
    <3>2. CASE k # 0
      <4>1. k \in 1..n /\ k - 1 \in 0..n
        BY <1>1, <3>2
      <4>2. g[k - 1] = At(k - 1)
        BY <2>1, <4>1
      <4>3. QED BY <1>4, <3>2, <4>1, <4>2
    <3>3. QED BY <3>1, <3>2
  <2>3. Is(g)
    BY <2>2
  <2> HIDE DEF g, Is
  <2>4. QED BY <2>3
<1> HIDE DEF Is
<1>6. Is(upTo)
  BY <1>5
<1>7. GetAll(in, types) = upTo[n]
  BY <1>1 DEF GetAll, Is
<1> HIDE DEF upTo
<1>8. \A k \in 0..n : upTo[k] = IF k = 0 THEN in ELSE Get(upTo[k - 1], types[k])
  BY <1>6 DEF Is
<1> DEFINE T == {k \in Nat : k <= n => upTo[k] = At(k)}
<1>9. 0 \in T
  BY <1>1, <1>3, <1>8
<1>10. ASSUME NEW k \in Nat, k \in T PROVE k + 1 \in T
  <2>1. ASSUME k + 1 <= n PROVE upTo[k + 1] = At(k + 1)
    <3>1. k + 1 \in 0..n /\ k + 1 \in 1..n /\ (k + 1) - 1 = k /\ k + 1 # 0 /\ k <= n
      BY <1>1, <2>1
    <3>2. upTo[k + 1] = Get(upTo[k], types[k + 1])
      BY <1>8, <3>1
    <3>3. upTo[k] = At(k)
      BY <1>10, <3>1
    <3>4. Get(At((k + 1) - 1), types[k + 1]) = At(k + 1)
      BY <1>4, <3>1
    <3>5. QED BY <3>1, <3>2, <3>3, <3>4
  <2>2. QED BY <2>1
<1> HIDE DEF T
<1>11. n \in T
  BY <1>1, <1>9, <1>10, Induction
<1>12. upTo[n] = At(n)
  BY <1>1, <1>11 DEF T
<1>13. QED BY <1>2, <1>7, <1>12 DEF At, in

-----------------------------------------------------------------------------
(* A packet: its size, then its pieces.                                     *)
LEMMA PacketIs ==
  ASSUME NEW ops, NEW n, ArePuttable(ops, n), PacketFits(ops)
  PROVE  /\ Framed(Packet(ops)) /\ From(Packet(ops), Width.Size) = Payload(ops)
         /\ SkipSize(Packet(ops)) = Reading(Payload(ops))
<1> DEFINE w == Width.Size
           body == Payload(ops)
           size == w + Len(body)
           head == LittleEndian(size, w)
           all  == Packet(ops)
<1>1. w \in Nat
  BY Widths
<1>2. body \in Seq(Nat)
  <2>1. \E F : F[n] = body /\ \A i \in 0..n : F[i] \in Seq(Nat)
    BY PayloadIs
  <2>2. n \in 0..n
    BY DEF ArePuttable, AreMany
  <2>3. QED BY <2>1, <2>2
<1>3. Fits(size, w)
  BY DEF PacketFits
<1>4. all = Cat(head, body)
  BY DEF Packet, Cat
<1> HIDE DEF body, all, w
<1>5. size \in Nat /\ Len(body) \in Nat
  BY <1>1, <1>2, LenProperties
<1> HIDE DEF size
<1>6. head \in Seq(Nat) /\ Len(head) = w /\ Number(head) = size
  BY <1>1, <1>3, <1>5, LittleEndianIs, NumberRead
<1> HIDE DEF head
<1>7. all \in Seq(Nat) /\ Len(all) = size
  <2>1. all \in Seq(Nat) /\ Len(all) = Len(head) + Len(body)
    BY <1>2, <1>4, <1>6, CatLength
  <2>2. QED BY <1>6, <2>1 DEF size
<1>8. From(all, w) = body /\ First(all, w) = head
  <2>1. From(Cat(head, body), Len(head)) = body /\ First(Cat(head, body), Len(head)) = head
    BY <1>2, <1>6, FromCat
  <2>2. QED BY <1>4, <1>6, <2>1
<1>9. Len(all) >= w /\ ~(Len(all) < w)
  BY <1>1, <1>5, <1>7 DEF size
<1>10. Framed(all)
  BY <1>6, <1>7, <1>8, <1>9 DEF Framed, w
<1>11. SkipSize(all) = Reading(body)
  BY <1>8, <1>9 DEF SkipSize, w
<1>12. QED BY <1>8, <1>10, <1>11 DEF all, body, w

(* A payload is read piece by piece: the first, then the others.            *)
LEMMA PayloadIsRead ==
  ASSUME NEW p, IsPiece(p), NEW ops, NEW n, ArePieces(ops, n),
         NEW types, Typed(types, ops, n)
  PROVE  LET first == Get(Reading(Payload(<<p>> \o ops)), p.type)
         IN  /\ first.bad = FALSE /\ first.got = <<p.v>>
             /\ AssertEof(GetAll(Reading(first.buf), types)) =
                  [buf |-> <<>>, bad |-> FALSE, got |-> Values(ops, n)]
<1> DEFINE in    == Reading(Payload(<<p>> \o ops))
           first == Get(in, p.type)
<1>1. Put(p) \in Seq(Nat) /\ ArePuttable(ops, n)
  BY PieceIsPut, PiecesArePut
<1>2. Payload(<<p>> \o ops) = Cat(Put(p), Payload(ops)) /\ Payload(ops) \in Seq(Nat)
  BY <1>1, PayloadBegins
<1>3. in.buf = Cat(Put(p), Payload(ops)) /\ in.bad = FALSE /\ in.got = <<>>
  BY <1>2 DEF Reading
<1> HIDE DEF in
<1>4. first = [buf |-> Payload(ops), bad |-> FALSE, got |-> Append(<<>>, p.v)]
  <2>1. Get(in, p.type) = [buf |-> Payload(ops), bad |-> FALSE, got |-> Append(in.got, p.v)]
    BY <1>2, <1>3, GetPut
  <2>2. QED BY <1>3, <2>1
<1>5. Append(<<>>, p.v) = <<p.v>>
  OBVIOUS
<1> HIDE DEF first
<1>6. Reading(first.buf) = [buf |-> Payload(ops), bad |-> FALSE, got |-> <<>>]
  BY <1>4 DEF Reading
<1>7. GetAll(Reading(first.buf), types) =
        [buf |-> <<>>, bad |-> FALSE, got |-> Values(ops, n)]
  BY <1>6, GetsAll
<1>8. AssertEof([buf |-> <<>>, bad |-> FALSE, got |-> Values(ops, n)]) =
        [buf |-> <<>>, bad |-> FALSE, got |-> Values(ops, n)]
  BY DEF AssertEof
<1>9. first.bad = FALSE /\ first.got = <<p.v>>
  BY <1>4, <1>5
<1>10. QED BY <1>7, <1>8, <1>9 DEF first, in

(* Numbers that are written as they are.                                    *)
LEMMA SmallPieces ==
  /\ \A m \in {0, 1, 2} : IsPiece(Int32(m))
  /\ \A b \in BOOLEAN : IsPiece(Flag(b)) /\ (Flag(b).v # 0) = b
  /\ \A m : Fits(m, Width.Int32) => IsPiece(Int32(m))
  /\ \A m : Fits(m, Width.Int64) => IsPiece(Int64(m))
<1>1. ASSUME NEW m \in {0, 1, 2} PROVE Fits(m, Width.Int32)
  <2>1. m \in Nat /\ m < Base /\ Width.Int32 \in Nat \ {0}
    BY Bytes, Widths
  <2>2. QED BY <2>1, SmallFits
<1>2. \A m : Fits(m, Width.Int32) => IsPiece(Int32(m))
  BY DEF IsPiece, Int32
<1>3. \A m : Fits(m, Width.Int64) => IsPiece(Int64(m))
  BY DEF IsPiece, Int64
<1>4. ASSUME NEW b \in BOOLEAN PROVE IsPiece(Flag(b)) /\ (Flag(b).v # 0) = b
  <2>1. CASE b = TRUE
    <3>1. Flag(b) = Int32(1) /\ Int32(1).v = 1 /\ 1 # 0
      BY <2>1 DEF Flag, Int32
    <3>2. Flag(b).v # 0
      BY <3>1
    <3>3. (Flag(b).v # 0) = b
      BY <2>1, <3>2, Zenon
    <3>4. QED BY <1>1, <1>2, <3>1, <3>3
  <2>2. CASE b = FALSE
    <3>1. Flag(b) = Int32(0) /\ Int32(0).v = 0
      BY <2>2 DEF Flag, Int32
    <3>2. Flag(b).v = 0
      BY <3>1
    <3>3. (Flag(b).v # 0) = b
      BY <2>2, <3>2, Zenon
    <3>4. QED BY <1>1, <1>2, <3>1, <3>3
  <2>3. QED BY <2>1, <2>2
<1>5. QED BY <1>1, <1>2, <1>3, <1>4

LEMMA FewPieces ==
  ASSUME NEW a, NEW b
  PROVE  /\ AreMany(<<>>, 0) /\ AreMany(<<a>>, 1) /\ AreMany(<<a, b>>, 2)
         /\ IsPiece(a) => ArePieces(<<a>>, 1)
         /\ IsPiece(a) /\ IsPiece(b) => ArePieces(<<a, b>>, 2)
         /\ ArePieces(<<>>, 0)
<1>1. AreMany(<<>>, 0)
  BY DEF AreMany
<1>2. AreMany(<<a>>, 1)
  BY DEF AreMany
<1>3. AreMany(<<a, b>>, 2)
  BY DEF AreMany
<1>4. QED BY <1>1, <1>2, <1>3 DEF ArePieces

-----------------------------------------------------------------------------
(* The walk over an environment block: reading b leads from x to y.         *)
Walk(f, b, x, y) ==
  /\ f[0] = x /\ f[Len(b)] = y
  /\ \A i \in 1..Len(b) : f[i] = Walked(f[i - 1], b[i])
Passes(b, x, y) == \E f : Walk(f, b, x, y)

LEMMA PassesNothing ==
  ASSUME NEW x
  PROVE  Passes(<<>>, x, x)
<1> DEFINE f == [i \in {0} |-> x]
<1>1. f[0] = x
  OBVIOUS
<1> HIDE DEF f
<1>2. Walk(f, <<>>, x, x)
  BY <1>1 DEF Walk
<1>3. QED BY <1>2 DEF Passes

LEMMA PassesOne ==
  ASSUME NEW x, NEW c
  PROVE  Passes(<<c>>, x, Walked(x, c))
<1> DEFINE y == Walked(x, c)
           b == <<c>>
           f == [i \in 0..1 |-> IF i = 0 THEN x ELSE y]
<1>1. f[0] = x /\ f[1] = y
  OBVIOUS
<1>2. Len(b) = 1 /\ b[1] = c
  OBVIOUS
<1> HIDE DEF f, b
<1>3. ASSUME NEW i \in 1..1 PROVE f[i] = Walked(f[i - 1], b[i])
  <2>1. i = 1 /\ 1 - 1 = 0
    OBVIOUS
  <2>2. f[1] = Walked(f[1 - 1], b[1])
    BY <1>1, <1>2, <2>1
  <2>3. QED BY <2>1, <2>2
<1>4. Walk(f, b, x, y)
  BY <1>1, <1>2, <1>3 DEF Walk
<1>5. QED BY <1>4 DEF Passes, b, y

LEMMA PassesBoth ==
  ASSUME NEW a \in Seq(Nat), NEW b \in Seq(Nat), NEW x, NEW y, NEW z,
         Passes(a, x, y), Passes(b, y, z)
  PROVE  Passes(Cat(a, b), x, z)
<1>1. PICK f : Walk(f, a, x, y)
  BY DEF Passes
<1>2. PICK g : Walk(g, b, y, z)
  BY DEF Passes
<1> DEFINE m == Len(a)
           n == Len(b)
           c == Cat(a, b)
           h == [i \in 0..(m + n) |-> IF i <= m THEN f[i] ELSE g[i - m]]
<1>3. /\ m \in Nat /\ n \in Nat /\ Len(c) = m + n
      /\ \A i \in 1..(m + n) : c[i] = IF i <= m THEN a[i] ELSE b[i - m]
  BY ConcatProperties, LenProperties DEF Cat
<1>4. f[0] = x /\ f[m] = y /\ \A i \in 1..m : f[i] = Walked(f[i - 1], a[i])
  BY <1>1 DEF Walk
<1>5. g[0] = y /\ g[n] = z /\ \A i \in 1..n : g[i] = Walked(g[i - 1], b[i])
  BY <1>2 DEF Walk
<1> HIDE DEF m, n, c
<1>6. \A i \in 0..(m + n) : h[i] = IF i <= m THEN f[i] ELSE g[i - m]
  BY <1>3
<1> HIDE DEF h
<1>7. h[0] = x
  BY <1>3, <1>4, <1>6
<1>8. \A i \in 0..n : h[m + i] = g[i]
  <2> SUFFICES ASSUME NEW i \in 0..n PROVE h[m + i] = g[i]
    OBVIOUS
  <2>1. m + i \in 0..(m + n) /\ (m + i) - m = i /\ (m + i <= m <=> i = 0) /\ m + 0 = m
    BY <1>3
  <2>2. CASE i = 0
    BY <1>3, <1>4, <1>5, <1>6, <2>1, <2>2
  <2>3. CASE i # 0
    <3>1. h[m + i] = g[(m + i) - m]
      BY <1>6, <2>1, <2>3
    <3>2. QED BY <2>1, <3>1
  <2>4. QED BY <2>2, <2>3
<1>9. h[m + n] = z
  BY <1>3, <1>5, <1>8
<1>10. ASSUME NEW i \in 1..(m + n) PROVE h[i] = Walked(h[i - 1], c[i])
  <2>1. CASE i <= m
    <3>1. i \in 1..m /\ i \in 0..(m + n) /\ i - 1 \in 0..(m + n) /\ i - 1 <= m
      BY <1>3, <2>1
    <3>2. h[i] = f[i] /\ h[i - 1] = f[i - 1] /\ c[i] = a[i]
      BY <1>3, <1>6, <2>1, <3>1
    <3>3. f[i] = Walked(f[i - 1], a[i])
      BY <1>4, <3>1
    <3>4. QED BY <3>2, <3>3
  <2>2. CASE ~(i <= m)
    <3> DEFINE j == i - m
    <3>1. j \in 1..n /\ j \in 0..n /\ j - 1 \in 0..n /\ m + j = i /\ m + (j - 1) = i - 1
      BY <1>3, <2>2
    <3>2. c[i] = b[j]
      BY <1>3, <2>2
    <3> HIDE DEF j
    <3>3. h[m + j] = g[j] /\ h[m + (j - 1)] = g[j - 1]
      BY <1>8, <3>1
    <3>4. g[j] = Walked(g[j - 1], b[j])
      BY <1>5, <3>1
    <3>5. QED BY <3>1, <3>2, <3>3, <3>4
  <2>3. QED BY <2>1, <2>2
<1>11. Walk(h, c, x, z)
  BY <1>3, <1>7, <1>9, <1>10 DEF Walk
<1>12. QED BY <1>11 DEF Passes, c

LEMMA EnvStringsIs ==
  ASSUME NEW b \in Seq(Nat), NEW y, Passes(b, NoStrings, y)
  PROVE  EnvStrings(b) = y.strings
<1> DEFINE n == Len(b)
           Is(h) == h = [i \in 0..n |-> IF i = 0 THEN NoStrings ELSE Walked(h[i - 1], b[i])]
           walk == CHOOSE h : Is(h)
<1>1. PICK f : Walk(f, b, NoStrings, y)
  BY DEF Passes
<1>2. f[0] = NoStrings /\ f[n] = y /\ \A i \in 1..n : f[i] = Walked(f[i - 1], b[i])
  BY <1>1 DEF Walk
<1>3. EnvStrings(b) = walk[n].strings
  BY DEF EnvStrings, Is
<1>4. n \in Nat
  BY LenProperties
<1> HIDE DEF n
<1>5. \E h : Is(h)
  <2> DEFINE g == [i \in 0..n |-> f[i]]
  <2>1. \A i \in 0..n : g[i] = f[i]
    OBVIOUS
  <2>2. ASSUME NEW i \in 0..n
        PROVE  f[i] = IF i = 0 THEN NoStrings ELSE Walked(g[i - 1], b[i])
    <3>1. CASE i = 0
      BY <1>2, <3>1
    <3>2. CASE i # 0
      <4>1. i \in 1..n /\ i - 1 \in 0..n
        BY <1>4, <3>2
      <4>2. f[i] = Walked(f[i - 1], b[i]) /\ g[i - 1] = f[i - 1]
        BY <1>2, <2>1, <4>1
      <4>3. QED BY <3>2, <4>2
    <3>3. QED BY <3>1, <3>2
  <2>3. Is(g)
    BY <2>2
  <2> HIDE DEF g, Is
  <2>4. QED BY <2>3
<1> HIDE DEF Is
<1>6. Is(walk)
  BY <1>5
<1> HIDE DEF walk
<1>7. \A i \in 0..n : walk[i] = IF i = 0 THEN NoStrings ELSE Walked(walk[i - 1], b[i])
  BY <1>6 DEF Is
<1> DEFINE T == {i \in Nat : i <= n => walk[i] = f[i]}
<1>8. 0 \in T
  BY <1>2, <1>4, <1>7
<1>9. ASSUME NEW i \in Nat, i \in T PROVE i + 1 \in T
  <2>1. ASSUME i + 1 <= n PROVE walk[i + 1] = f[i + 1]
    <3>1. i + 1 \in 0..n /\ i + 1 \in 1..n /\ (i + 1) - 1 = i /\ i + 1 # 0 /\ i <= n
      BY <1>4, <2>1
    <3>2. walk[i] = f[i]
      BY <1>9, <3>1
    <3>3. walk[i + 1] = Walked(walk[i], b[i + 1]) /\ f[i + 1] = Walked(f[i], b[i + 1])
      BY <1>2, <1>7, <3>1
    <3>4. QED BY <3>2, <3>3
  <2>2. QED BY <2>1
<1> HIDE DEF T
<1>10. n \in T
  BY <1>4, <1>8, <1>9, Induction
<1>11. walk[n] = f[n]
  BY <1>4, <1>10 DEF T
<1>12. QED BY <1>2, <1>3, <1>11

-----------------------------------------------------------------------------
LEMMA Grows ==
  ASSUME NEW S, NEW s \in Seq(S), NEW k \in Nat, k + 1 <= Len(s)
  PROVE  /\ First(s, k) \in Seq(S) /\ s[k + 1] \in S
         /\ First(s, k + 1) = Append(First(s, k), s[k + 1])
         /\ First(s, k + 1) = Cat(First(s, k), <<s[k + 1]>>)
<1>1. Len(s) \in Nat /\ k \in 0..Len(s) /\ k + 1 \in 1..Len(s)
  BY LenProperties
<1>2. First(s, k) \in Seq(S) /\ s[k + 1] \in S
  BY <1>1, Split, ElementOfSeq
<1>3. SubSeq(s, 1, k + 1) = SubSeq(s, 1, (k + 1) - 1) \o << s[k + 1] >>
  <2>1. 1 \in 1..Len(s) /\ k + 1 \in 1..Len(s)
    BY <1>1
  <2>2. QED BY <2>1, SubSeqRecursiveSecond
<1>4. (k + 1) - 1 = k
  OBVIOUS
<1>5. First(s, k + 1) = Cat(First(s, k), <<s[k + 1]>>)
  BY <1>3, <1>4 DEF First, Cat
<1>6. Append(First(s, k), s[k + 1]) = Cat(First(s, k), <<s[k + 1]>>)
  BY <1>2, AppendIsConcat DEF Cat
<1>7. QED BY <1>2, <1>5, <1>6

LEMMA FirstIs ==
  ASSUME NEW S, NEW s \in Seq(S)
  PROVE  First(s, Len(s)) = s /\ First(s, 0) = <<>>
<1>1. First(s, Len(s)) = s
  BY SubSeqFull DEF First
<1>2. 0 \in Int /\ 1 \in Int /\ 0 < 1
  OBVIOUS
<1>3. First(s, 0) = <<>>
  BY <1>2, SubSeqEmpty DEF First
<1>4. QED BY <1>1, <1>3

Between(ss, str) == [strings |-> ss, string |-> str, ended |-> FALSE]

LEMMA WalkedChar ==
  ASSUME NEW ss, NEW str, NEW c, c # 0
  PROVE  Walked(Between(ss, str), c) = Between(ss, Append(str, c))
<1> DEFINE at == Between(ss, str)
<1>1. at.ended = FALSE
  BY DEF Between
<1>2. Walked(at, c) = [at EXCEPT !.string = Append(@, c)]
  BY <1>1 DEF Walked
<1>3. QED BY <1>2 DEF Between

LEMMA WalkedNul ==
  ASSUME NEW ss, NEW str
  PROVE  /\ str # <<>> => Walked(Between(ss, str), 0) = Between(Append(ss, str), <<>>)
         /\ Walked(Between(ss, <<>>), 0).strings = ss
         /\ Walked(Between(ss, <<>>), 0).ended = TRUE
<1> DEFINE at == Between(ss, str)
<1>1. at.ended = FALSE /\ at.string = str /\ at.strings = ss
  BY DEF Between
<1>2. ASSUME str # <<>> PROVE Walked(at, 0) = Between(Append(ss, str), <<>>)
  BY <1>1, <1>2 DEF Walked, Between
<1>3. /\ Walked(Between(ss, <<>>), 0).strings = ss
      /\ Walked(Between(ss, <<>>), 0).ended = TRUE
  <2> DEFINE a == Between(ss, <<>>)
  <2>1. Walked(a, 0) = [a EXCEPT !.ended = TRUE]
    BY DEF Walked, Between
  <2>2. QED BY <2>1 DEF Between
<1>4. QED BY <1>2, <1>3

-----------------------------------------------------------------------------
LEMMA SettingIs ==
  ASSUME NEW str \in Setting
  PROVE  /\ str \in Seq(Byte \ {0}) /\ str \in Text /\ str \in Seq(Nat) /\ str # <<>>
         /\ \A i \in 1..Len(str) : str[i] # 0
<1>1. str \in Seq(Byte \ {0}) /\ str # <<>>
  BY DEF Setting
<1>2. /\ Len(str) \in Nat /\ \A i \in 1..Len(str) : str[i] \in Byte \ {0}
      /\ str = [i \in 1..Len(str) |-> str[i]]
  BY <1>1
<1>3. str \in Seq(Byte)
  BY <1>2
<1>4. str \in Text
  BY <1>3 DEF Text
<1>5. str \in Seq(Nat)
  BY <1>4, TextIsNumbers
<1>6. QED BY <1>1, <1>2, <1>4, <1>5

LEMMA StringPasses ==
  ASSUME NEW str \in Setting, NEW ss
  PROVE  Passes(Cat(str, <<0>>), Between(ss, <<>>), Between(Append(ss, str), <<>>))
<1> DEFINE n == Len(str)
           before == Between(ss, <<>>)
           T == {j \in Nat : j <= n => Passes(First(str, j), before, Between(ss, First(str, j)))}
<1>1. str \in Seq(Nat) /\ str # <<>> /\ (\A i \in 1..n : str[i] # 0) /\ n \in Nat
  BY SettingIs, LenProperties
<1>2. First(str, n) = str /\ First(str, 0) = <<>>
  BY <1>1, FirstIs
<1>3. 0 \in T
  BY <1>2, PassesNothing
<1> HIDE DEF before
<1>4. ASSUME NEW j \in Nat, j \in T PROVE j + 1 \in T
  <2>1. ASSUME j + 1 <= n
        PROVE  Passes(First(str, j + 1), before, Between(ss, First(str, j + 1)))
    <3> DEFINE a == First(str, j)
               c == str[j + 1]
    <3>1. /\ a \in Seq(Nat) /\ c \in Nat /\ First(str, j + 1) = Append(a, c)
          /\ First(str, j + 1) = Cat(a, <<c>>)
      BY <1>1, <2>1, Grows
    <3>2. c # 0
      BY <1>1, <2>1
    <3>3. Passes(a, before, Between(ss, a))
      BY <1>1, <1>4, <2>1
    <3> HIDE DEF a, c
    <3>4. Walked(Between(ss, a), c) = Between(ss, Append(a, c))
      BY <3>2, WalkedChar, Zenon
    <3>5. Passes(<<c>>, Between(ss, a), Between(ss, Append(a, c)))
      BY <3>4, PassesOne
    <3>6. <<c>> \in Seq(Nat)
      BY <3>1
    <3>7. Passes(Cat(a, <<c>>), before, Between(ss, Append(a, c)))
      BY <3>1, <3>3, <3>5, <3>6, PassesBoth
    <3>8. QED BY <3>1, <3>7
  <2>2. QED BY <2>1
<1> HIDE DEF T
<1>5. n \in T
  BY <1>1, <1>3, <1>4, Induction
<1>6. Passes(str, before, Between(ss, str))
  BY <1>1, <1>2, <1>5 DEF T
<1>7. Passes(<<0>>, Between(ss, str), Between(Append(ss, str), <<>>))
  <2>1. Walked(Between(ss, str), 0) = Between(Append(ss, str), <<>>)
    BY <1>1, WalkedNul
  <2>2. QED BY <2>1, PassesOne
<1>8. <<0>> \in Seq(Nat)
  OBVIOUS
<1>9. QED BY <1>1, <1>6, <1>7, <1>8, PassesBoth DEF before

(* The strings of an environment, each with its NUL.                        *)
Strings(env) == [i \in DOMAIN env[1] |-> env[1][i] \o <<0>>]

LEMMA StringsPass ==
  ASSUME NEW strings \in Seq(Setting)
  PROVE  LET n    == Len(strings)
             puts == [i \in DOMAIN strings |-> strings[i] \o <<0>>]
             all  == FlattenSeq(puts)
         IN  /\ n \in Nat /\ all \in Text /\ all \in Seq(Nat)
             /\ Passes(all, NoStrings, Between(strings, <<>>))
             /\ n = 0 => all = <<>>
             /\ n # 0 => Len(all) >= 1 /\ all[Len(all)] = 0
<1> DEFINE n    == Len(strings)
           puts == [i \in DOMAIN strings |-> strings[i] \o <<0>>]
           all  == FlattenSeq(puts)
           Texts == Seq(Byte)
           Ints  == Seq(Nat)
<1>1. n \in Nat /\ DOMAIN strings = 1..n /\ \A i \in 1..n : strings[i] \in Setting
  BY LenProperties, ElementOfSeq
<1>2. ASSUME NEW i \in 1..n
      PROVE  /\ puts[i] = Cat(strings[i], <<0>>) /\ puts[i] \in Texts /\ puts[i] \in Ints
  <2> DEFINE str == strings[i]
             nul == <<0>>
  <2>1. str \in Seq(Byte) /\ str \in Seq(Nat)
    BY <1>1, SettingIs DEF Text
  <2>2. nul \in Seq(Byte) /\ nul \in Seq(Nat)
    BY Bytes DEF Byte
  <2> HIDE DEF str, nul
  <2>3. Cat(str, nul) \in Seq(Byte) /\ Cat(str, nul) \in Seq(Nat)
    BY <2>1, <2>2, Monoid
  <2>4. puts[i] = Cat(str, nul)
    BY <1>1 DEF Cat, str, nul
  <2>5. QED BY <2>3, <2>4 DEF str, nul
<1>3. Len(puts) = n /\ puts = [i \in 1..n |-> puts[i]]
  BY <1>1
<1> HIDE DEF n, puts, Texts, Ints
<1>4. puts \in Seq(Texts)
  BY <1>1, <1>2, <1>3
<1>5. PICK F : Joins(F, puts, n) /\ \A i \in 0..n : F[i] \in Texts
  BY <1>1, <1>2, JoinsExist DEF Texts
<1>6. all = F[n]
  BY <1>3, <1>4, <1>5, JoinsFlattened DEF Texts
<1> HIDE DEF all
<1>7. \A i \in 0..n : F[i] \in Ints
  <2>1. \A t \in Seq(Byte) : t \in Seq(Nat)
    BY TextIsNumbers DEF Text
  <2>2. QED BY <1>5, <2>1 DEF Texts, Ints
<1> DEFINE T == {k \in Nat : k <= n => Passes(F[k], NoStrings, Between(First(strings, k), <<>>))}
<1>8. First(strings, n) = strings /\ First(strings, 0) = <<>>
  BY FirstIs DEF n
<1>9. F[0] = <<>>
  BY <1>5 DEF Joins
<1>10. 0 \in T
  <2>1. NoStrings = Between(<<>>, <<>>)
    BY DEF NoStrings, Between
  <2>2. Passes(<<>>, NoStrings, NoStrings)
    BY PassesNothing
  <2>3. QED BY <1>8, <1>9, <2>1, <2>2
<1>11. ASSUME NEW k \in Nat, k \in T PROVE k + 1 \in T
  <2>1. ASSUME k + 1 <= n
        PROVE  Passes(F[k + 1], NoStrings, Between(First(strings, k + 1), <<>>))
    <3> DEFINE ss  == First(strings, k)
               str == strings[k + 1]
               f   == F[k]
               q   == puts[k + 1]
    <3>1. k + 1 \in 1..n /\ k \in 0..n /\ (k + 1) - 1 = k /\ k <= n
      BY <1>1, <2>1
    <3>2. str \in Setting /\ First(strings, k + 1) = Append(ss, str)
      BY <1>1, <2>1, Grows DEF n
    <3>3. Passes(f, NoStrings, Between(ss, <<>>))
      BY <1>11, <3>1
    <3>4. F[k + 1] = Cat(f, q)
      BY <1>5, <3>1 DEF Joins
    <3>5. f \in Seq(Nat) /\ q \in Seq(Nat) /\ q = Cat(str, <<0>>)
      BY <1>2, <1>7, <3>1 DEF Ints
    <3> HIDE DEF ss, str, f, q
    <3>6. Passes(q, Between(ss, <<>>), Between(Append(ss, str), <<>>))
      BY <3>2, <3>5, StringPasses
    <3>7. Passes(Cat(f, q), NoStrings, Between(Append(ss, str), <<>>))
      BY <3>3, <3>5, <3>6, PassesBoth
    <3>8. QED BY <3>2, <3>4, <3>7
  <2>2. QED BY <2>1
<1> HIDE DEF T
<1>12. n \in T
  BY <1>1, <1>10, <1>11, Induction
<1>13. Passes(all, NoStrings, Between(strings, <<>>))
  BY <1>1, <1>6, <1>8, <1>12 DEF T
<1>14. all \in Text /\ all \in Seq(Nat)
  BY <1>1, <1>5, <1>6, <1>7 DEF Texts, Ints, Text
<1>15. n = 0 => all = <<>>
  BY <1>6, <1>9
<1>16. ASSUME n # 0 PROVE Len(all) >= 1 /\ all[Len(all)] = 0
  <2> DEFINE f   == F[n - 1]
             str == strings[n]
             nul == <<0>>
  <2>1. n \in 1..n /\ n - 1 \in 0..n
    BY <1>1, <1>16
  <2>2. all = Cat(f, Cat(str, nul))
    BY <1>2, <1>5, <1>6, <2>1 DEF Joins
  <2>3. f \in Seq(Nat) /\ str \in Seq(Nat)
    BY <1>1, <1>7, <2>1, SettingIs DEF Ints
  <2>4. nul \in Seq(Nat) /\ Len(nul) = 1 /\ nul[1] = 0
    OBVIOUS
  <2> HIDE DEF f, str, nul
  <2> DEFINE a == Cat(f, str)
  <2>5. a \in Seq(Nat) /\ all = Cat(a, nul)
    BY <2>2, <2>3, <2>4, Monoid
  <2> HIDE DEF a
  <2>6. Len(a) \in Nat /\ Len(Cat(a, nul)) = Len(a) + 1 /\ Cat(a, nul)[Len(a) + 1] = 0
    <3>1. /\ Len(a \o nul) = Len(a) + Len(nul)
          /\ \A i \in 1..(Len(a) + Len(nul)) :
               (a \o nul)[i] = IF i <= Len(a) THEN a[i] ELSE nul[i - Len(a)]
      BY <2>4, <2>5, ConcatProperties
    <3>2. Len(a) \in Nat
      BY <2>5, LenProperties
    <3> DEFINE m == Len(a)
    <3> HIDE DEF m
    <3>3. m \in Nat /\ m + 1 \in 1..(m + 1) /\ ~(m + 1 <= m) /\ (m + 1) - m = 1
      BY <3>2 DEF m
    <3>4. /\ Len(a \o nul) = m + 1
          /\ \A i \in 1..(m + 1) : (a \o nul)[i] = IF i <= m THEN a[i] ELSE nul[i - m]
      BY <2>4, <3>1 DEF m
    <3>5. (a \o nul)[m + 1] = nul[(m + 1) - m]
      BY <3>3, <3>4
    <3>6. QED BY <2>4, <3>3, <3>4, <3>5 DEF m, Cat
  <2>7. QED BY <2>5, <2>6
<1>17. QED BY <1>1, <1>13, <1>14, <1>15, <1>16 DEF n, all, puts

LEMMA EnvIsRead ==
  ASSUME NEW env \in Environment
  PROVE  LET b == EnvBlock(env)
         IN  /\ b \in Text
             /\ env = <<>> => b = <<>>
             /\ env # <<>> => b # <<>> /\ DoublyTerminated(b) /\ <<EnvStrings(b)>> = env
<1>1. CASE env = <<>>
  <2>1. EnvBlock(env) = <<>>
    BY <1>1 DEF EnvBlock
  <2>2. <<>> \in Text
    BY DEF Text
  <2>3. QED BY <1>1, <2>1, <2>2
<1>2. CASE env # <<>>
  <2> DEFINE strings == env[1]
             n    == Len(strings)
             puts == [i \in DOMAIN strings |-> strings[i] \o <<0>>]
             all  == FlattenSeq(puts)
             tail == IF strings = <<>> THEN <<0, 0>> ELSE <<0>>
             b    == EnvBlock(env)
             nul  == <<0>>
  <2>1. strings \in Seq(Setting) /\ env = <<strings>>
    <3>1. env \in [{1} -> Seq(Setting)]
      BY <1>2 DEF Environment
    <3>2. QED BY <3>1
  <2>2. b = Cat(all, tail)
    BY <1>2 DEF EnvBlock, Cat
  <2>3. /\ n \in Nat /\ all \in Text /\ all \in Seq(Nat)
        /\ Passes(all, NoStrings, Between(strings, <<>>))
        /\ n = 0 => all = <<>>
        /\ n # 0 => Len(all) >= 1 /\ all[Len(all)] = 0
    BY <2>1, StringsPass
  <2>4. strings = <<>> <=> n = 0
    BY <2>1, EmptySeq
  <2> HIDE DEF strings, n, puts, all, b
  <2>5. nul \in Seq(Nat) /\ nul \in Text /\ Len(nul) = 1 /\ nul[1] = 0
    BY Bytes DEF Text, Byte
  <2> DEFINE ended == Walked(Between(strings, <<>>), 0)
  <2>6. Passes(nul, Between(strings, <<>>), ended)
    BY PassesOne
  <2>7. ended.strings = strings /\ ended.ended = TRUE
    BY WalkedNul
  <2>8. tail \in Seq(Nat) /\ tail \in Text
    <3>1. 0 \in Byte
      BY Bytes DEF Byte
    <3>2. <<0>> \in Seq(Nat) /\ <<0, 0>> \in Seq(Nat)
      OBVIOUS
    <3>3. <<0>> \in Seq(Byte) /\ <<0, 0>> \in Seq(Byte)
      BY <3>1
    <3>4. QED BY <3>2, <3>3 DEF Text
  <2>9. b \in Text /\ b \in Seq(Nat) /\ Len(b) = Len(all) + Len(tail)
    <3> HIDE DEF tail
    <3>1. b \in Seq(Nat) /\ Len(b) = Len(all) + Len(tail)
      BY <2>2, <2>3, <2>8, CatLength
    <3>2. b \in Seq(Byte)
      BY <2>2, <2>3, <2>8, Monoid DEF Text
    <3>3. QED BY <3>1, <3>2 DEF Text
  <2> HIDE DEF ended, nul
  <2>10. ASSUME strings = <<>>
         PROVE  Passes(b, NoStrings, ended) /\ DoublyTerminated(b)
    <3>1. b = <<0, 0>> /\ <<0, 0>> = Cat(nul, nul)
      <4>1. all = <<>> /\ Cat(<<>>, tail) = tail
        BY <2>3, <2>4, <2>8, <2>10, Monoid
      <4>2. b = tail
        BY <2>2, <4>1
      <4>3. QED BY <2>10, <4>2 DEF nul, Cat
    <3>2. Passes(nul, ended, ended)
      <4>1. Walked(ended, 0) = ended
        BY <2>7 DEF Walked
      <4>2. QED BY <4>1, PassesOne DEF nul
    <3>3. Passes(<<>>, NoStrings, Between(strings, <<>>)) /\ <<>> \in Seq(Nat)
      BY <2>3, <2>4, <2>10
    <3>4. Passes(nul, NoStrings, ended)
      <4>1. Passes(Cat(<<>>, nul), NoStrings, ended) /\ Cat(<<>>, nul) = nul
        BY <2>5, <2>6, <3>3, PassesBoth, Monoid
      <4>2. QED BY <4>1
    <3>5. Passes(Cat(nul, nul), NoStrings, ended)
      BY <2>5, <3>2, <3>4, PassesBoth
    <3>6. DoublyTerminated(<<0, 0>>)
      BY DEF DoublyTerminated
    <3>7. QED BY <3>1, <3>5, <3>6
  <2>11. ASSUME strings # <<>>
         PROVE  Passes(b, NoStrings, ended) /\ DoublyTerminated(b)
    <3>1. b = Cat(all, nul)
      BY <2>2, <2>11 DEF nul
    <3>2. Passes(Cat(all, nul), NoStrings, ended)
      BY <2>3, <2>5, <2>6, PassesBoth
    <3>3. Len(all) >= 1 /\ all[Len(all)] = 0 /\ Len(all) \in Nat
      BY <2>3, <2>4, <2>11, LenProperties
    <3>4. /\ Len(b) = Len(all) + Len(nul)
          /\ \A i \in 1..(Len(all) + Len(nul)) :
               b[i] = IF i <= Len(all) THEN all[i] ELSE nul[i - Len(all)]
      <4>1. all \in Seq(Nat) /\ nul \in Seq(Nat) /\ b = all \o nul
        BY <2>3, <2>5, <3>1 DEF Cat
      <4>2. QED BY ONLY <4>1, ConcatProperties
    <3> DEFINE m == Len(all)
    <3>5. m \in Nat /\ m >= 1 /\ all[m] = 0 /\ Len(b) = m + 1
          /\ \A i \in 1..(m + 1) : b[i] = IF i <= m THEN all[i] ELSE nul[i - m]
      BY <2>5, <3>3, <3>4
    <3> HIDE DEF m
    <3>6. b[m] = 0
      BY <3>5
    <3>7. b[m + 1] = 0
      <4>1. m + 1 \in 1..(m + 1) /\ ~(m + 1 <= m) /\ (m + 1) - m = 1
        BY <3>5
      <4>2. b[m + 1] = nul[(m + 1) - m]
        BY <3>5, <4>1
      <4>3. QED BY <2>5, <4>1, <4>2
    <3>8. Len(b) >= 2 /\ Len(b) - 1 = m
      BY <3>5
    <3>9. DoublyTerminated(b)
      BY <3>5, <3>6, <3>7, <3>8 DEF DoublyTerminated
    <3>10. QED BY <3>1, <3>2, <3>9
  <2>12. EnvStrings(b) = strings
    <3>1. Passes(b, NoStrings, ended)
      BY <2>10, <2>11
    <3>2. QED BY <2>7, <2>9, <3>1, EnvStringsIs
  <2>13. DoublyTerminated(b)
    BY <2>10, <2>11
  <2>14. b # <<>>
    BY <2>13 DEF DoublyTerminated
  <2>15. QED BY <1>2, <2>1, <2>9, <2>12, <2>13, <2>14 DEF b
<1>3. QED BY <1>1, <1>2

-----------------------------------------------------------------------------
(* What is made of a request.                                               *)
LEMMA UnderstoodIs ==
  ASSUME NEW m \in {0, 1, 2}, NEW ops, NEW n, ArePieces(ops, n),
         Typed(Operands(m), ops, n),
         PacketFits(<<Int32(m)>> \o ops)
  PROVE  LET bytes == Packet(<<Int32(m)>> \o ops)
         IN  Framed(bytes) /\ Understood(bytes) = Meaning(m, Values(ops, n))
<1> DEFINE p     == Int32(m)
           all   == <<p>> \o ops
           bytes == Packet(all)
           types == Operands(m)
           in    == Get(SkipSize(bytes), "Int32")
           end   == AssertEof(GetAll(Reading(in.buf), types))
<1>1. IsPiece(p) /\ p.type = "Int32" /\ p.v = m
  BY SmallPieces DEF Int32
<1> HIDE DEF p
<1>2. ArePuttable(all, n + 1)
  BY <1>1, PieceIsPut, PiecesArePut, PayloadBegins
<1>3. PacketFits(all)
  BY DEF p
<1> HIDE DEF types
<1>4. Framed(bytes) /\ SkipSize(bytes) = Reading(Payload(all))
  BY <1>2, <1>3, PacketIs
<1>5. /\ in.bad = FALSE /\ in.got = <<m>>
      /\ end = [buf |-> <<>>, bad |-> FALSE, got |-> Values(ops, n)]
  <2> HIDE DEF all, bytes
  <2> DEFINE first == Get(Reading(Payload(<<p>> \o ops)), p.type)
  <2>1. Typed(types, ops, n)
    BY DEF types
  <2>2. /\ first.bad = FALSE /\ first.got = <<p.v>>
        /\ AssertEof(GetAll(Reading(first.buf), types)) =
             [buf |-> <<>>, bad |-> FALSE, got |-> Values(ops, n)]
    BY <1>1, <2>1, PayloadIsRead
  <2>3. in = first
    BY <1>1, <1>4 DEF all
  <2> HIDE DEF in, first
  <2>4. QED BY <1>1, <2>2, <2>3
<1>6. Last(in.got) = m
  <2>1. Last(<<m>>) = m
    BY DEF Last
  <2>2. QED BY <1>5, <2>1
<1>7. Understood(bytes) = IF in.bad \/ end.bad THEN DecodeError ELSE Meaning(m, end.got)
  <2> HIDE DEF bytes
  <2>1. Understood(bytes) =
          LET type == Last(in.got)
              e    == AssertEof(GetAll(Reading(in.buf), Operands(type)))
          IN IF in.bad \/ e.bad THEN DecodeError ELSE Meaning(type, e.got)
    BY DEF Understood
  <2>2. QED BY <1>6, <2>1 DEF types
<1> HIDE DEF in, end
<1>8. end.bad = FALSE /\ end.got = Values(ops, n)
  BY <1>5
<1>9. Understood(bytes) = Meaning(m, Values(ops, n))
  BY <1>5, <1>7, <1>8
<1>10. QED BY <1>4, <1>9 DEF p

Faithful(r) ==
  /\ Framed(Packet(RequestPieces(r))) /\ Understood(Packet(RequestPieces(r))) = r
  /\ r.op # "decode error"

LEMMA ListRequest ==
  ASSUME NEW r, IsRequest(r), r.op = "list"
  PROVE  Faithful(r)
<1>1. r \in [op : {"list"}] /\ r = [op |-> "list"]
  BY DEF IsRequest
<1>2. PacketFits(RequestPieces(r)) /\ RequestPieces(r) = <<Int32(2)>> \o <<>>
  BY <1>1 DEF IsRequest, RequestPieces, AgentMsg
<1>3. ArePieces(<<>>, 0)
  BY FewPieces
<1>4. Operands(2) = <<>> /\ Len(<<>>) = 0
  BY DEF Operands, AgentMsg
<1>5. Typed(Operands(2), <<>>, 0)
  BY <1>4 DEF Typed
<1>6. /\ Framed(Packet(RequestPieces(r)))
      /\ Understood(Packet(RequestPieces(r))) = Meaning(2, Values(<<>>, 0))
  BY <1>2, <1>3, <1>5, UnderstoodIs
<1>7. Meaning(2, Values(<<>>, 0)) = [op |-> "list"]
  BY DEF Meaning, AgentMsg
<1>8. QED BY <1>1, <1>6, <1>7 DEF Faithful

LEMMA SizeRequest ==
  ASSUME NEW r, IsRequest(r), r.op = "size"
  PROVE  Faithful(r)
<1> DEFINE a == Int32(r.cols)
           b == Int32(r.rows)
           ops == <<a, b>>
<1>1. /\ r = [op |-> "size", cols |-> r.cols, rows |-> r.rows]
      /\ Fits(r.cols, Width.Int32) /\ Fits(r.rows, Width.Int32)
  BY DEF IsRequest
<1>2. PacketFits(RequestPieces(r)) /\ RequestPieces(r) = <<Int32(1)>> \o ops
  BY <1>1 DEF IsRequest, RequestPieces, AgentMsg
<1>3. /\ IsPiece(a) /\ IsPiece(b) /\ a.v = r.cols /\ b.v = r.rows
      /\ a.type = "Int32" /\ b.type = "Int32"
  BY <1>1, SmallPieces DEF Int32
<1> HIDE DEF a, b
<1>4. ArePieces(ops, 2) /\ ops[1] = a /\ ops[2] = b
  BY <1>3, FewPieces
<1>5. Operands(1) = <<"Int32", "Int32">>
  BY DEF Operands, AgentMsg
<1>6. Typed(Operands(1), ops, 2)
  <2>1. Operands(1)[1] = "Int32" /\ Operands(1)[2] = "Int32" /\ Len(Operands(1)) = 2
    BY <1>5
  <2>2. QED BY <1>3, <1>4, <2>1 DEF Typed
<1> HIDE DEF ops
<1>7. /\ Framed(Packet(RequestPieces(r)))
      /\ Understood(Packet(RequestPieces(r))) = Meaning(1, Values(ops, 2))
  BY <1>2, <1>4, <1>6, UnderstoodIs
<1>8. Values(ops, 2)[1] = r.cols /\ Values(ops, 2)[2] = r.rows
  BY <1>3, <1>4 DEF Values
<1>9. Meaning(1, Values(ops, 2)) = r
  BY <1>1, <1>8 DEF Meaning, AgentMsg
<1>10. QED BY <1>1, <1>7, <1>9 DEF Faithful

-----------------------------------------------------------------------------
LEMMA TextPut ==
  ASSUME NEW s \in Text
  PROVE  /\ Put(WString(s)) \in Seq(Nat) /\ Len(s) \in Nat
         /\ Len(s) <= Len(Put(WString(s)))
         /\ WString(s).v = s /\ WString(s).type = "WString"
<1> DEFINE w    == Width.Size
           head == LittleEndian(Len(s), w)
           tag  == <<Tag["WString"]>>
           p    == WString(s)
<1>1. p.v = s /\ p.type = "WString"
  BY DEF WString
<1>2. s \in Seq(Nat) /\ Len(s) \in Nat /\ w \in Nat
  BY TextIsNumbers, LenProperties, Widths
<1>3. tag \in Seq(Nat) /\ Len(tag) = 1
  BY DEF Tag
<1>4. head \in Seq(Nat) /\ Len(head) = w
  BY <1>2, LittleEndianIs
<1>5. Put(p) = Cat(tag, Cat(head, s))
  BY <1>1 DEF Put, Cat
<1> HIDE DEF tag, head, w, p
<1>6. Cat(head, s) \in Seq(Nat) /\ Len(Cat(head, s)) = w + Len(s)
  <2>1. Cat(head, s) \in Seq(Nat) /\ Len(Cat(head, s)) = Len(head) + Len(s)
    BY <1>2, <1>4, CatLength
  <2>2. QED BY <1>4, <2>1
<1>7. Put(p) \in Seq(Nat) /\ Len(Put(p)) = 1 + (w + Len(s))
  <2>1. Put(p) \in Seq(Nat) /\ Len(Put(p)) = Len(tag) + Len(Cat(head, s))
    BY <1>3, <1>5, <1>6, CatLength
  <2>2. QED BY <1>3, <1>6, <2>1
<1>8. QED BY <1>1, <1>2, <1>7 DEF p

LEMMA EightPieces ==
  ASSUME NEW a, NEW b, NEW c, NEW d, NEW e, NEW f, NEW g, NEW h
  PROVE  LET ops == <<a, b, c, d, e, f, g, h>>
         IN  /\ AreMany(ops, 8)
             /\ ops[1] = a /\ ops[2] = b /\ ops[3] = c /\ ops[4] = d
             /\ ops[5] = e /\ ops[6] = f /\ ops[7] = g /\ ops[8] = h
BY DEF AreMany

LEMMA SpawnRequest ==
  ASSUME NEW r, IsRequest(r), r.op = "spawn"
  PROVE  Faithful(r)
<1> DEFINE block == EnvBlock(r.env)
           a == Int64(r.flags)
           b == Flag(r.wantProcess)
           c == Flag(r.wantThread)
           d == WString(r.program)
           e == WString(r.cmdline)
           f == WString(r.cwd)
           g == WString(block)
           h == WString(r.desktop)
           ops == <<a, b, c, d, e, f, g, h>>
           p == Int32(0)
           w == Width.Size
<1>1. /\ r \in [op : {"spawn"}, flags : Nat, wantProcess : BOOLEAN,
                wantThread : BOOLEAN, program : Text, cmdline : Text,
                cwd : Text, env : Environment, desktop : Text]
      /\ Fits(r.flags, Width.Int64)
  BY DEF IsRequest
<1>2. PacketFits(RequestPieces(r)) /\ RequestPieces(r) = <<p>> \o ops
  <2>1. SpawnConfig(r).env = block
    BY <1>1 DEF SpawnConfig
  <2>2. PacketFits(RequestPieces(r))
    BY DEF IsRequest
  <2> HIDE DEF block
  <2>3. RequestPieces(r) = <<p>> \o ops
    BY <2>1 DEF RequestPieces, AgentMsg
  <2>4. QED BY <2>2, <2>3
<1>3. /\ block \in Text
      /\ r.env = <<>> => block = <<>>
      /\ r.env # <<>> => block # <<>> /\ DoublyTerminated(block) /\ <<EnvStrings(block)>> = r.env
  BY <1>1, EnvIsRead
<1>4. /\ r.program \in Text /\ r.cmdline \in Text /\ r.cwd \in Text /\ r.desktop \in Text
      /\ r.wantProcess \in BOOLEAN /\ r.wantThread \in BOOLEAN
  BY <1>1
<1> HIDE DEF block
<1>5. /\ IsPiece(a) /\ a.type = "Int64" /\ a.v = r.flags
      /\ IsPiece(b) /\ b.type = "Int32" /\ (b.v # 0) = r.wantProcess
      /\ IsPiece(c) /\ c.type = "Int32" /\ (c.v # 0) = r.wantThread
  <2>1. IsPiece(a) /\ a.type = "Int64" /\ a.v = r.flags
    BY <1>1, SmallPieces DEF Int64
  <2>2. b.type = "Int32" /\ c.type = "Int32"
    BY DEF Flag, Int32
  <2>3. \A x \in BOOLEAN : IsPiece(Flag(x)) /\ (Flag(x).v # 0) = x
    BY SmallPieces
  <2>4. IsPiece(b) /\ (b.v # 0) = r.wantProcess
    BY <1>4, <2>3
  <2>5. IsPiece(c) /\ (c.v # 0) = r.wantThread
    BY <1>4, <2>3
  <2>6. QED BY ONLY <2>1, <2>2, <2>4, <2>5
<1> DEFINE IsText(x, s) == /\ Put(x) \in Seq(Nat) /\ Len(s) \in Nat /\ Len(s) <= Len(Put(x))
                           /\ x.v = s /\ x.type = "WString" /\ s \in Text
<1>6. /\ IsText(d, r.program) /\ IsText(e, r.cmdline) /\ IsText(f, r.cwd)
      /\ IsText(g, block) /\ IsText(h, r.desktop)
  BY <1>3, <1>4, TextPut
<1> HIDE DEF a, b, c, d, e, f, g, h
<1>7. /\ AreMany(ops, 8)
      /\ ops[1] = a /\ ops[2] = b /\ ops[3] = c /\ ops[4] = d
      /\ ops[5] = e /\ ops[6] = f /\ ops[7] = g /\ ops[8] = h
  BY EightPieces
<1> HIDE DEF ops
<1>8. ArePuttable(ops, 8)
  <2>1. Put(a) \in Seq(Nat) /\ Put(b) \in Seq(Nat) /\ Put(c) \in Seq(Nat)
    BY <1>5, PieceIsPut
  <2>2. /\ Put(d) \in Seq(Nat) /\ Put(e) \in Seq(Nat) /\ Put(f) \in Seq(Nat)
        /\ Put(g) \in Seq(Nat) /\ Put(h) \in Seq(Nat)
    BY <1>6
  <2>3. ASSUME NEW i \in 1..8 PROVE Put(ops[i]) \in Seq(Nat)
    <3>1. \/ i = 1 \/ i = 2 \/ i = 3 \/ i = 4 \/ i = 5 \/ i = 6 \/ i = 7 \/ i = 8
      OBVIOUS
    <3>2. QED BY ONLY <1>7, <2>1, <2>2, <3>1
  <2>4. QED BY <1>7, <2>3 DEF ArePuttable
<1>9. /\ IsPiece(p) /\ p.type = "Int32" /\ p.v = 0 /\ Put(p) \in Seq(Nat)
      /\ w \in Nat
  <2>1. IsPiece(p)
    BY SmallPieces
  <2>2. p.type = "Int32" /\ p.v = 0
    BY DEF Int32
  <2>3. QED BY <2>1, <2>2, PieceIsPut, Widths
<1> HIDE DEF p, w
<1>10. /\ Payload(<<p>> \o ops) = Cat(Put(p), Payload(ops))
       /\ Payload(ops) \in Seq(Nat)
  BY <1>8, <1>9, PayloadBegins
<1>11. \A i \in 1..8 : Len(Put(ops[i])) <= Len(Payload(ops))
  BY <1>8, PieceIsShorter
<1>12. \E total \in Nat : Fits(total, w) /\ Len(Payload(ops)) <= total
  <2> DEFINE total == w + Len(Payload(<<p>> \o ops))
  <2>1. Fits(total, w)
    BY <1>2 DEF PacketFits, w
  <2>2. /\ Len(Payload(<<p>> \o ops)) = Len(Put(p)) + Len(Payload(ops))
        /\ Len(Put(p)) \in Nat /\ Len(Payload(ops)) \in Nat
    BY <1>9, <1>10, CatLength, LenProperties
  <2>3. total \in Nat /\ Len(Payload(ops)) <= total
    BY <1>9, <2>2
  <2> HIDE DEF total
  <2>4. QED BY <2>1, <2>3
<1> DEFINE Is(i, x, s) == i \in 1..8 /\ ops[i] = x /\ IsText(x, s)
<1>13. ASSUME NEW x, NEW s, NEW i, Is(i, x, s) PROVE IsPiece(x)
  <2>1. PICK total \in Nat : Fits(total, w) /\ Len(Payload(ops)) <= total
    BY <1>12
  <2>2. /\ Len(s) <= Len(Put(x)) /\ Len(s) \in Nat /\ x.v = s /\ x.type = "WString"
        /\ s \in Text /\ Len(Put(x)) \in Nat
    BY <1>13, LenProperties
  <2>3. Len(Put(x)) <= Len(Payload(ops)) /\ Len(Payload(ops)) \in Nat
    BY <1>10, <1>11, <1>13, LenProperties
  <2>4. Len(s) <= total
    BY <2>1, <2>2, <2>3
  <2>5. Fits(Len(s), w)
    BY <1>9, <2>1, <2>2, <2>4, LessFits
  <2>6. QED BY <2>2, <2>5 DEF IsPiece, w
<1>14. IsPiece(d) /\ IsPiece(e) /\ IsPiece(f) /\ IsPiece(g) /\ IsPiece(h)
  <2>1. /\ Is(4, d, r.program) /\ Is(5, e, r.cmdline) /\ Is(6, f, r.cwd)
        /\ Is(7, g, block) /\ Is(8, h, r.desktop)
    <3> HIDE DEF IsText
    <3>1. QED BY <1>6, <1>7
  <2> HIDE DEF Is
  <2>2. QED BY <1>13, <2>1
<1>15. /\ a.v = r.flags /\ d.v = r.program /\ e.v = r.cmdline /\ f.v = r.cwd
       /\ g.v = block /\ h.v = r.desktop
       /\ d.type = "WString" /\ e.type = "WString" /\ f.type = "WString"
       /\ g.type = "WString" /\ h.type = "WString"
  BY <1>5, <1>6
<1> HIDE DEF IsText
<1>16. ArePieces(ops, 8)
  <2>1. ASSUME NEW i \in 1..8 PROVE IsPiece(ops[i])
    BY <1>5, <1>7, <1>14
  <2>2. QED BY <1>7, <2>1 DEF ArePieces
<1>17. Typed(Operands(0), ops, 8)
  <2> DEFINE types == Operands(0)
  <2>1. types = <<"Int64", "Int32", "Int32", "WString", "WString", "WString", "WString", "WString">>
    BY DEF Operands, AgentMsg
  <2>2. /\ Len(types) = 8 /\ types[1] = "Int64" /\ types[2] = "Int32" /\ types[3] = "Int32"
        /\ types[4] = "WString" /\ types[5] = "WString" /\ types[6] = "WString"
        /\ types[7] = "WString" /\ types[8] = "WString"
    BY <2>1
  <2> HIDE DEF types
  <2>3. ASSUME NEW i \in 1..8 PROVE types[i] = ops[i].type
    BY <1>5, <1>7, <1>15, <2>2
  <2>4. QED BY <2>2, <2>3 DEF Typed, types
<1>18. /\ Framed(Packet(RequestPieces(r)))
       /\ Understood(Packet(RequestPieces(r))) = Meaning(0, Values(ops, 8))
  BY <1>2, <1>16, <1>17, UnderstoodIs DEF p
<1> DEFINE v == Values(ops, 8)
<1>19. /\ v[1] = r.flags /\ v[2] = b.v /\ v[3] = c.v /\ v[4] = r.program
       /\ v[5] = r.cmdline /\ v[6] = r.cwd /\ v[7] = block /\ v[8] = r.desktop
  <2>1. \A i \in 1..8 : v[i] = ops[i].v
    BY DEF Values
  <2> HIDE DEF v
  <2>2. QED BY <1>7, <1>15, <2>1
<1> HIDE DEF v
<1> DEFINE env == IF block = <<>> THEN <<>> ELSE <<EnvStrings(block)>>
<1>20. env = r.env /\ ~(block # <<>> /\ ~DoublyTerminated(block))
  BY <1>3
<1> HIDE DEF env
<1>21. Meaning(0, v) =
         [op |-> "spawn", flags |-> r.flags, wantProcess |-> v[2] # 0,
          wantThread |-> v[3] # 0, program |-> r.program, cmdline |-> r.cmdline,
          cwd |-> r.cwd, env |-> env, desktop |-> r.desktop]
  BY <1>19, <1>20 DEF Meaning, AgentMsg, env
<1>22. (v[2] # 0) = r.wantProcess /\ (v[3] # 0) = r.wantThread
  BY <1>5, <1>19
<1>23. r = [op |-> "spawn", flags |-> r.flags, wantProcess |-> r.wantProcess,
            wantThread |-> r.wantThread, program |-> r.program, cmdline |-> r.cmdline,
            cwd |-> r.cwd, env |-> r.env, desktop |-> r.desktop]
  BY <1>1
<1>24. Meaning(0, v) = r
  BY <1>20, <1>21, <1>22, <1>23
<1>25. QED BY <1>18, <1>24 DEF Faithful, v

-----------------------------------------------------------------------------
(* What is made of a reply.                                                 *)
Opened(pieces, m, types, got) ==
  LET bytes   == Packet(pieces)
      payload == From(bytes, Width.Size)
      first   == Get(Reading(payload), "Int32")
  IN  /\ Framed(bytes) /\ first.bad = FALSE /\ first.got[1] = m
      /\ AssertEof(GetAll(Reading(first.buf), types)) =
           [buf |-> <<>>, bad |-> FALSE, got |-> got]

LEMMA ReplyIs ==
  ASSUME NEW m, Fits(m, Width.Int32), NEW ops, NEW n, ArePieces(ops, n),
         NEW types, Typed(types, ops, n), PacketFits(<<Int32(m)>> \o ops)
  PROVE  Opened(<<Int32(m)>> \o ops, m, types, Values(ops, n))
<1> DEFINE p       == Int32(m)
           all     == <<p>> \o ops
           bytes   == Packet(all)
           payload == From(bytes, Width.Size)
           first   == Get(Reading(payload), "Int32")
<1>1. IsPiece(p) /\ p.type = "Int32" /\ p.v = m
  BY SmallPieces DEF Int32
<1>2. PacketFits(all)
  OBVIOUS
<1> HIDE DEF p
<1>3. ArePuttable(all, n + 1)
  BY <1>1, PieceIsPut, PiecesArePut, PayloadBegins
<1>4. Framed(bytes) /\ payload = Payload(all)
  BY <1>2, <1>3, PacketIs
<1>5. /\ first.bad = FALSE /\ first.got = <<m>>
      /\ AssertEof(GetAll(Reading(first.buf), types)) =
           [buf |-> <<>>, bad |-> FALSE, got |-> Values(ops, n)]
  <2> HIDE DEF all, bytes, payload
  <2> DEFINE other == Get(Reading(Payload(<<p>> \o ops)), p.type)
  <2>1. /\ other.bad = FALSE /\ other.got = <<p.v>>
        /\ AssertEof(GetAll(Reading(other.buf), types)) =
             [buf |-> <<>>, bad |-> FALSE, got |-> Values(ops, n)]
    BY <1>1, PayloadIsRead
  <2>2. first = other
    BY <1>1, <1>4 DEF all
  <2> HIDE DEF first, other
  <2>3. QED BY <1>1, <2>1, <2>2
<1> HIDE DEF first
<1>6. first.got[1] = m
  BY <1>5
<1>7. QED BY <1>4, <1>5, <1>6 DEF p, first, Opened

Answered(r, o) ==
  /\ Framed(Packet(ReplyPieces(o)))
  /\ Answer(r, From(Packet(ReplyPieces(o)), Width.Size)) = o

LEMMA SizedReply ==
  ASSUME NEW r, r.op = "size", NEW o, o \in Outcomes(r), PacketFits(ReplyPieces(o))
  PROVE  Answered(r, o)
<1>1. o = [result |-> "sized"]
  BY DEF Outcomes
<1>2. ReplyPieces(o) = <<>>
  BY <1>1 DEF ReplyPieces
<1>3. ArePuttable(<<>>, 0)
  BY DEF ArePuttable, AreMany
<1>4. Payload(<<>>) = <<>>
  <2>1. PICK F : Joins(F, Puts(<<>>), 0) /\ F[0] = Payload(<<>>)
    BY <1>3, PayloadIs
  <2>2. QED BY <2>1 DEF Joins
<1>5. /\ Framed(Packet(ReplyPieces(o)))
      /\ From(Packet(ReplyPieces(o)), Width.Size) = <<>>
  BY <1>2, <1>3, <1>4, PacketIs
<1>6. Answer(r, <<>>) = [result |-> "sized"]
  BY DEF Answer
<1>7. QED BY <1>1, <1>5, <1>6 DEF Answered

(* The answer to a request other than set_size: the first number, m, tells  *)
(* which pieces follow.                                                     *)
Replies(r, o, m, types, ops, n) ==
  /\ r.op # "size" /\ Fits(m, Width.Int32) /\ ArePieces(ops, n)
  /\ ReplyPieces(o) = <<Int32(m)>> \o ops /\ PacketFits(ReplyPieces(o))
  /\ Typed(types, ops, n)
  /\ types = IF r.op = "list" THEN [i \in 1..m |-> "Int32"]
             ELSE IF m = StartProcessResult.created THEN <<"Int64", "Int64">> ELSE <<"Int32">>

Given(r, m, got) ==
  IF r.op = "list" THEN [result |-> "listed", processes |-> got]
  ELSE IF m = StartProcessResult.created
    THEN [result |-> "created", process |-> got[1], thread |-> got[2]]
  ELSE [result |-> "failed", error |-> got[1]]

LEMMA AnswerIs ==
  ASSUME NEW r, NEW o, NEW m, NEW types, NEW ops, NEW n, Replies(r, o, m, types, ops, n),
         Given(r, m, Values(ops, n)) = o
  PROVE  Answered(r, o)
<1> DEFINE bytes   == Packet(<<Int32(m)>> \o ops)
           payload == From(bytes, Width.Size)
           first   == Get(Reading(payload), "Int32")
           all     == AssertEof(GetAll(Reading(first.buf), types))
<1>0. /\ Fits(m, Width.Int32) /\ ArePieces(ops, n) /\ Typed(types, ops, n)
      /\ PacketFits(<<Int32(m)>> \o ops) /\ ReplyPieces(o) = <<Int32(m)>> \o ops
      /\ r.op # "size"
  BY DEF Replies
<1>1. /\ Framed(bytes) /\ first.bad = FALSE /\ first.got[1] = m
      /\ all = [buf |-> <<>>, bad |-> FALSE, got |-> Values(ops, n)]
  <2>1. Opened(<<Int32(m)>> \o ops, m, types, Values(ops, n))
    BY ONLY <1>0, ReplyIs
  <2>2. QED BY <2>1 DEF Opened
<1>5. types = IF r.op = "list" THEN [i \in 1..m |-> "Int32"]
              ELSE IF m = StartProcessResult.created THEN <<"Int64", "Int64">> ELSE <<"Int32">>
  BY DEF Replies
<1> HIDE DEF payload
<1>2. Answer(r, payload) =
        IF first.bad \/ all.bad THEN [result |-> "decode error"]
        ELSE IF r.op = "list" THEN [result |-> "listed", processes |-> all.got]
        ELSE IF m = StartProcessResult.created
          THEN [result |-> "created", process |-> all.got[1], thread |-> all.got[2]]
        ELSE [result |-> "failed", error |-> all.got[1]]
  <2>1. Answer(r, payload) =
          LET k  == first.got[1]
              ts == IF r.op = "list" THEN [i \in 1..k |-> "Int32"]
                    ELSE IF k = StartProcessResult.created THEN <<"Int64", "Int64">>
                    ELSE <<"Int32">>
              a  == AssertEof(GetAll(Reading(first.buf), ts))
          IN IF first.bad \/ a.bad THEN [result |-> "decode error"]
             ELSE IF r.op = "list" THEN [result |-> "listed", processes |-> a.got]
             ELSE IF k = StartProcessResult.created
               THEN [result |-> "created", process |-> a.got[1], thread |-> a.got[2]]
             ELSE [result |-> "failed", error |-> a.got[1]]
    BY <1>0 DEF Answer
  <2> HIDE DEF first
  <2>2. QED BY <1>0, <1>1, <1>5, <2>1
<1> HIDE DEF first, all
<1>3. all.bad = FALSE /\ all.got = Values(ops, n)
  BY <1>1
<1>4. Answer(r, payload) = Given(r, m, Values(ops, n))
  BY <1>1, <1>2, <1>3 DEF Given
<1>6. QED BY <1>0, <1>1, <1>4 DEF payload, Answered

-----------------------------------------------------------------------------
LEMMA ListedReply ==
  ASSUME NEW r, r.op = "list", NEW o, o \in Outcomes(r), PacketFits(ReplyPieces(o))
  PROVE  Answered(r, o)
<1> DEFINE q     == o.processes
           n     == Len(q)
           ops   == [i \in DOMAIN q |-> Int32(q[i])]
           types == [i \in 1..n |-> "Int32"]
<1>1. o = [result |-> "listed", processes |-> q] /\ q \in Processes
  BY DEF Outcomes
<1>2. q \in Seq(Nat) /\ Fits(n, Width.Int32) /\ \A i \in DOMAIN q : Fits(q[i], Width.Int32)
  BY <1>1, CodecAssumption
<1>3. n \in Nat /\ DOMAIN q = 1..n /\ q = [i \in 1..n |-> q[i]]
  <2>1. q \in Seq(Nat)
    BY <1>2
  <2> HIDE DEF q
  <2>2. QED BY ONLY <2>1
<1>4. ReplyPieces(o) = <<Int32(n)>> \o ops
  BY <1>1 DEF ReplyPieces
<1> HIDE DEF q, n
<1>5. \A i \in 1..n : ops[i] = Int32(q[i])
  BY <1>3
<1>6. AreMany(ops, n)
  BY <1>3 DEF AreMany
<1> HIDE DEF ops
<1>7. \A i \in 1..n : IsPiece(ops[i]) /\ ops[i].type = "Int32" /\ ops[i].v = q[i]
  <2> SUFFICES ASSUME NEW i \in 1..n
               PROVE  IsPiece(ops[i]) /\ ops[i].type = "Int32" /\ ops[i].v = q[i]
    OBVIOUS
  <2>1. Fits(q[i], Width.Int32)
    BY <1>2, <1>3
  <2>2. IsPiece(Int32(q[i]))
    BY <2>1, SmallPieces
  <2>3. Int32(q[i]).type = "Int32" /\ Int32(q[i]).v = q[i]
    BY DEF Int32
  <2>4. QED BY <1>5, <2>2, <2>3
<1>8. ArePieces(ops, n)
  BY <1>6, <1>7 DEF ArePieces
<1>9. Typed(types, ops, n)
  BY <1>3, <1>7 DEF Typed
<1>10. Values(ops, n) = q
  BY <1>3, <1>7 DEF Values
<1>11. /\ r.op # "size"
       /\ types = IF r.op = "list" THEN [i \in 1..n |-> "Int32"]
                  ELSE IF n = StartProcessResult.created THEN <<"Int64", "Int64">> ELSE <<"Int32">>
  OBVIOUS
<1> HIDE DEF types
<1>12. Replies(r, o, n, types, ops, n)
  BY <1>2, <1>4, <1>8, <1>9, <1>11 DEF Replies
<1>13. Given(r, n, q) = o
  BY <1>1 DEF Given
<1>14. QED BY <1>10, <1>12, <1>13, AnswerIs

LEMMA FailedReply ==
  ASSUME NEW r, r.op = "spawn", NEW o, o \in Outcomes(r), o.result = "failed",
         PacketFits(ReplyPieces(o))
  PROVE  Answered(r, o)
<1> DEFINE e     == Int32(o.error)
           ops   == <<e>>
           types == <<"Int32">>
<1>1. o = [result |-> "failed", error |-> o.error] /\ o.error \in Errors
  BY DEF Outcomes
<1>2. IsPiece(e) /\ e.type = "Int32" /\ e.v = o.error
  BY <1>1, CodecAssumption, SmallPieces DEF Int32
<1>3. Fits(0, Width.Int32)
  BY Bytes, Widths, SmallFits
<1>4. ReplyPieces(o) = <<Int32(0)>> \o ops
  BY <1>1 DEF ReplyPieces, StartProcessResult
<1> HIDE DEF e
<1>5. ArePieces(ops, 1)
  BY <1>2, FewPieces
<1>6. Typed(types, ops, 1) /\ Values(ops, 1)[1] = o.error
  BY <1>2 DEF Typed, Values
<1>7. /\ r.op # "size"
      /\ types = IF r.op = "list" THEN [i \in 1..0 |-> "Int32"]
                 ELSE IF 0 = StartProcessResult.created THEN <<"Int64", "Int64">> ELSE <<"Int32">>
  BY DEF StartProcessResult
<1> HIDE DEF ops, types
<1>8. Replies(r, o, 0, types, ops, 1)
  BY <1>3, <1>4, <1>5, <1>6, <1>7 DEF Replies
<1>9. Given(r, 0, Values(ops, 1)) = o
  BY <1>1, <1>6 DEF Given, StartProcessResult
<1>10. QED BY <1>8, <1>9, AnswerIs

LEMMA HandlesFit ==
  ASSUME NEW want, NEW h \in HandleFor(want)
  PROVE  IsPiece(Int64(h)) /\ Int64(h).type = "Int64" /\ Int64(h).v = h
<1>1. Fits(h, Width.Int64)
  <2>1. Fits(0, Width.Int64)
    BY Bytes, Widths, SmallFits
  <2>2. h \in Handles \/ h = 0
    BY DEF HandleFor
  <2>3. QED BY <2>1, <2>2, CodecAssumption
<1>2. QED BY <1>1, SmallPieces DEF Int64

LEMMA CreatedReply ==
  ASSUME NEW r, r.op = "spawn", NEW o, o \in Outcomes(r), o.result = "created",
         PacketFits(ReplyPieces(o))
  PROVE  Answered(r, o)
<1> DEFINE a     == Int64(o.process)
           b     == Int64(o.thread)
           ops   == <<a, b>>
           types == <<"Int64", "Int64">>
<1>1. /\ o = [result |-> "created", process |-> o.process, thread |-> o.thread]
      /\ o.process \in HandleFor(r.wantProcess) /\ o.thread \in HandleFor(r.wantThread)
  BY DEF Outcomes
<1>2. /\ IsPiece(a) /\ a.type = "Int64" /\ a.v = o.process
      /\ IsPiece(b) /\ b.type = "Int64" /\ b.v = o.thread
  BY <1>1, HandlesFit
<1>3. Fits(1, Width.Int32)
  BY Bytes, Widths, SmallFits
<1>4. ReplyPieces(o) = <<Int32(1)>> \o ops
  BY <1>1 DEF ReplyPieces, StartProcessResult
<1> HIDE DEF a, b
<1>5. ArePieces(ops, 2)
  BY <1>2, FewPieces
<1>6. Typed(types, ops, 2) /\ Values(ops, 2)[1] = o.process /\ Values(ops, 2)[2] = o.thread
  <2>1. ops[1] = a /\ ops[2] = b /\ types[1] = "Int64" /\ types[2] = "Int64" /\ Len(types) = 2
    OBVIOUS
  <2> HIDE DEF ops, types
  <2>2. QED BY <1>2, <2>1 DEF Typed, Values
<1>7. /\ r.op # "size"
      /\ types = IF r.op = "list" THEN [i \in 1..1 |-> "Int32"]
                 ELSE IF 1 = StartProcessResult.created THEN <<"Int64", "Int64">> ELSE <<"Int32">>
  BY DEF StartProcessResult
<1> HIDE DEF ops, types
<1>8. Replies(r, o, 1, types, ops, 2)
  BY <1>3, <1>4, <1>5, <1>6, <1>7 DEF Replies
<1>9. Given(r, 1, Values(ops, 2)) = o
  BY <1>1, <1>6 DEF Given, StartProcessResult
<1>10. QED BY <1>8, <1>9, AnswerIs

(* Every request is understood as the one that was made, and every reply to *)
(* it as the outcome: the codec of WriteBuffer and ReadBuffer loses nothing, *)
(* and frames every packet, for any base, widths, numbers and texts.        *)
THEOREM CodecFaithful == CodecIsFaithful
<1> SUFFICES ASSUME NEW k \in 1..Len(Requests)
             PROVE  /\ Framed(Request(k)) /\ Understood(Request(k)) = Requests[k]
                    /\ Requests[k].op # "decode error"
                    /\ \A o \in Outcomes(Requests[k]) :
                         /\ Framed(Reply(o))
                         /\ Answer(Requests[k], From(Reply(o), Width.Size)) = o
  BY DEF CodecIsFaithful
<1> DEFINE r == Requests[k]
<1>1. IsRequest(r)
  BY PacketsAssumption
<1> HIDE DEF r
<1>2. r.op = "list" \/ r.op = "size" \/ r.op = "spawn"
  BY <1>1 DEF IsRequest
<1>3. Faithful(r)
  BY <1>1, <1>2, ListRequest, SizeRequest, SpawnRequest
<1>4. ASSUME NEW o \in Outcomes(r) PROVE Answered(r, o)
  <2>1. PacketFits(ReplyPieces(o))
    BY <1>1 DEF IsRequest
  <2>2. CASE r.op = "size"
    BY <2>1, <2>2, SizedReply
  <2>3. CASE r.op = "list"
    BY <2>1, <2>3, ListedReply
  <2>4. CASE r.op = "spawn"
    <3>1. o.result = "created" \/ o.result = "failed"
      BY <2>4 DEF Outcomes
    <3>2. QED BY <2>1, <2>4, <3>1, CreatedReply, FailedReply
  <2>5. QED BY <1>2, <2>2, <2>3, <2>4
<1>5. QED BY <1>3, <1>4 DEF Faithful, Answered, Request, Reply, r

-----------------------------------------------------------------------------
(* The requests in a row are a stream, however many they are.               *)
Part(n, s, start) ==
  /\ s \in Seq(Nat) /\ start \in [1..(n + 1) -> 0..Len(s)]
  /\ start[1] = 0 /\ start[n + 1] = Len(s)
  /\ \A k \in 1..n : /\ start[k + 1] = start[k] + Len(Request(k))
                     /\ Request(k) = Slice(s, start[k], start[k + 1])

LEMMA LongerPart ==
  ASSUME NEW n \in Nat, NEW s, NEW start, Part(n, s, start),
         Request(n + 1) \in Seq(Nat)
  PROVE  \E t, u : Part(n + 1, t, u)
<1> DEFINE b == Request(n + 1)
           t == Cat(s, b)
           u == [k \in 1..(n + 2) |-> IF k <= n + 1 THEN start[k] ELSE Len(t)]
<1>1. /\ s \in Seq(Nat) /\ start \in [1..(n + 1) -> 0..Len(s)]
      /\ start[1] = 0 /\ start[n + 1] = Len(s)
      /\ \A k \in 1..n : /\ start[k + 1] = start[k] + Len(Request(k))
                         /\ Request(k) = Slice(s, start[k], start[k + 1])
  BY DEF Part
<1>2. /\ t \in Seq(Nat) /\ Len(t) = Len(s) + Len(b)
      /\ Len(s) \in Nat /\ Len(b) \in Nat
  BY <1>1, CatLength, LenProperties
<1>3. /\ Slice(t, Len(s), Len(s) + Len(b)) = b
      /\ \A i, j \in Nat : i <= j /\ j <= Len(s) => Slice(t, i, j) = Slice(s, i, j)
  BY <1>1, SliceOfCat
<1> HIDE DEF b, t
<1>4. u \in [1..(n + 2) -> 0..Len(t)]
  <2>1. \A k \in 1..(n + 2) : k <= n + 1 => start[k] \in 0..Len(s)
    BY <1>1
  <2>2. QED BY <1>2, <2>1
<1>5. u[1] = 0 /\ u[n + 2] = Len(t) /\ u[n + 1] = Len(s)
  BY <1>1
<1>6. ASSUME NEW k \in 1..n
      PROVE  /\ u[k + 1] = u[k] + Len(Request(k))
             /\ Request(k) = Slice(t, u[k], u[k + 1])
  <2>1. u[k] = start[k] /\ u[k + 1] = start[k + 1]
    OBVIOUS
  <2>2. /\ start[k] \in 0..Len(s) /\ start[k + 1] \in 0..Len(s)
        /\ start[k + 1] = start[k] + Len(Request(k))
        /\ Request(k) = Slice(s, start[k], start[k + 1])
    BY <1>1
  <2>3. Len(Request(k)) \in Nat
    <3>1. start[k] \in Nat /\ start[k + 1] \in Nat /\ start[k + 1] <= Len(s)
      BY <1>2, <2>2
    <3>2. CASE start[k] <= start[k + 1]
      <4>1. Slice(s, start[k], start[k + 1]) \in Seq(Nat)
        BY <1>1, <3>1, <3>2, SliceIs
      <4>2. QED BY <2>2, <4>1, LenProperties
    <3>3. CASE ~(start[k] <= start[k + 1])
      <4>1. start[k + 1] < start[k] + 1 /\ start[k] + 1 \in Int
            /\ start[k + 1] \in Int
        BY <3>1, <3>3
      <4>2. Slice(s, start[k], start[k + 1]) = <<>>
        BY <4>1, SubSeqEmpty DEF Slice
      <4>3. QED BY <2>2, <4>2, EmptySeq
    <3>4. QED BY <3>2, <3>3
  <2>4. /\ start[k] \in Nat /\ start[k + 1] \in Nat
        /\ start[k] <= start[k + 1] /\ start[k + 1] <= Len(s)
    BY <1>2, <2>2, <2>3
  <2>5. Slice(t, start[k], start[k + 1]) = Slice(s, start[k], start[k + 1])
    BY <1>3, <2>4
  <2>6. QED BY <2>1, <2>2, <2>5
<1>7. /\ u[(n + 1) + 1] = u[n + 1] + Len(Request(n + 1))
      /\ Request(n + 1) = Slice(t, u[n + 1], u[(n + 1) + 1])
  <2>1. (n + 1) + 1 = n + 2 /\ u[n + 2] = Len(s) + Len(b) /\ u[n + 1] = Len(s)
    BY <1>2, <1>5
  <2> HIDE DEF u
  <2>2. u[(n + 1) + 1] = Len(s) + Len(b)
    BY <2>1
  <2>3. b = Slice(t, u[n + 1], u[(n + 1) + 1])
    BY <1>3, <2>1, <2>2
  <2>4. u[(n + 1) + 1] = u[n + 1] + Len(b)
    BY <2>1, <2>2
  <2>5. QED BY <2>3, <2>4 DEF b
<1> HIDE DEF u
<1>8. \A k \in 1..(n + 1) : /\ u[k + 1] = u[k] + Len(Request(k))
                            /\ Request(k) = Slice(t, u[k], u[k + 1])
  <2>1. \A k \in 1..(n + 1) : k \in 1..n \/ k = n + 1
    OBVIOUS
  <2>2. QED BY ONLY <1>6, <1>7, <2>1
<1>9. Part(n + 1, t, u)
  BY <1>2, <1>4, <1>5, <1>8 DEF Part
<1>10. QED BY <1>9

LEMMA StreamExists ==
  \E s, start : IsStream(s, start)
<1> DEFINE N == Len(Requests)
           T == {n \in Nat : n <= N => \E s, start : Part(n, s, start)}
<1>1. N \in Nat
  BY PacketsAssumption
<1>2. 0 \in T
  <2> DEFINE s == <<>>
             u == [k \in 1..1 |-> 0]
  <2>1. s \in Seq(Nat) /\ Len(s) = 0 /\ u \in [1..1 -> 0..Len(s)] /\ u[1] = 0
    OBVIOUS
  <2> HIDE DEF s, u
  <2>2. Part(0, s, u)
    BY <2>1 DEF Part
  <2>3. QED BY <2>2
<1>3. ASSUME NEW n \in Nat, n \in T PROVE n + 1 \in T
  <2> SUFFICES ASSUME n + 1 <= N PROVE \E s, start : Part(n + 1, s, start)
    OBVIOUS
  <2>1. PICK s, start : Part(n, s, start)
    BY <1>1, <1>3
  <2>2. Request(n + 1) \in Seq(Nat)
    <3>1. n + 1 \in 1..N
      BY <1>1
    <3>2. QED BY <3>1, CodecFaithful DEF CodecIsFaithful, Framed
  <2>3. QED BY <2>1, <2>2, LongerPart
<1> HIDE DEF T
<1>4. Nat \subseteq T
  BY <1>2, <1>3, Induction
<1>5. PICK s, start : Part(N, s, start)
  BY <1>1, <1>4 DEF T
<1>6. IsStream(s, start)
  BY <1>5 DEF IsStream, Part, Slice
<1>7. QED BY <1>6

-----------------------------------------------------------------------------
(* What is used of the stream: where its packets are and what they hold.    *)
Header == Width.Size

LEMMA HeaderWidth == Width.Size = Header /\ Header \in Nat /\ Header >= 1
BY CodecAssumption DEF Header

LEMMA StreamFacts ==
  ASSUME NEW s, NEW start, IsStream(s, start)
  PROVE  /\ Len(Requests) \in Nat /\ s \in Seq(Nat) /\ Len(s) \in Nat
         /\ start[1] = 0 /\ start[Len(Requests) + 1] = Len(s)
         /\ \A k \in 1..(Len(Requests) + 1) : start[k] \in Nat /\ start[k] <= Len(s)
         /\ \A k \in 1..Len(Requests) :
              /\ start[k + 1] = start[k] + Len(Request(k))
              /\ start[k] \in Nat /\ start[k + 1] \in Nat /\ start[k + 1] <= Len(s)
              /\ Request(k) \in Seq(Nat) /\ Len(Request(k)) \in Nat
              /\ Len(Request(k)) >= Header
              /\ Number(First(Request(k), Header)) = Len(Request(k))
              /\ Request(k) = Slice(s, start[k], start[k + 1])
<1> DEFINE N == Len(Requests)
<1>1. /\ N \in Nat /\ s \in Seq(Nat) /\ Len(s) \in Nat
      /\ start \in [1..(N + 1) -> 0..Len(s)]
      /\ start[1] = 0 /\ start[N + 1] = Len(s)
  BY PacketsAssumption, LenProperties DEF IsStream
<1>2. \A k \in 1..(N + 1) : start[k] \in Nat /\ start[k] <= Len(s)
  BY <1>1
<1>3. ASSUME NEW k \in 1..N
      PROVE  /\ start[k + 1] = start[k] + Len(Request(k))
             /\ start[k] \in Nat /\ start[k + 1] \in Nat /\ start[k + 1] <= Len(s)
             /\ Request(k) \in Seq(Nat) /\ Len(Request(k)) \in Nat
             /\ Len(Request(k)) >= Header
             /\ Number(First(Request(k), Header)) = Len(Request(k))
             /\ Request(k) = Slice(s, start[k], start[k + 1])
  <2>1. Framed(Request(k))
    BY CodecFaithful DEF CodecIsFaithful
  <2>2. /\ Request(k) \in Seq(Nat) /\ Len(Request(k)) >= Header
        /\ Number(First(Request(k), Header)) = Len(Request(k))
    BY <2>1, HeaderWidth DEF Framed
  <2>3. Len(Request(k)) \in Nat
    BY <2>2, LenProperties
  <2>4. /\ start[k + 1] = start[k] + Len(Request(k))
        /\ Request(k) = Slice(s, start[k], start[k + 1])
    BY DEF IsStream, Slice
  <2>5. k \in 1..(N + 1) /\ k + 1 \in 1..(N + 1)
    BY <1>1
  <2>6. QED BY <1>2, <2>2, <2>3, <2>4, <2>5
<1>4. QED BY <1>1, <1>2, <1>3

(* A slice of a stream, divided over two buffers, that begins with the      *)
(* packet b: once the first buffer holds the size, it reads as b's, and     *)
(* when it holds that many bytes, they are b.                               *)
AheadIs(s, i, j, e, b, q, w) ==
  /\ s \in Seq(Nat) /\ i \in Nat /\ j \in Nat /\ e \in Nat
  /\ i <= j /\ j <= Len(s) /\ e <= Len(s)
  /\ b \in Seq(Nat) /\ Len(b) >= Header /\ Number(First(b, Header)) = Len(b)
  /\ e = i + Len(b) /\ b = Slice(s, i, e)
  /\ q \in Seq(Nat) /\ w \in Seq(Nat) /\ Cat(q, w) = Slice(s, i, j)
  /\ Len(q) >= Header

Whole(s, j, e, b, q, w) ==
  /\ Number(First(q, Header)) = Len(b)
  /\ Len(q) >= Len(b) => /\ First(q, Len(b)) = b /\ e <= j
                         /\ From(q, Len(b)) \in Seq(Nat)
                         /\ Cat(From(q, Len(b)), w) = Slice(s, e, j)

LEMMA PacketAhead ==
  ASSUME NEW s, NEW i, NEW j, NEW e, NEW b, NEW q, NEW w,
         AheadIs(s, i, j, e, b, q, w)
  PROVE  Whole(s, j, e, b, q, w)
<1> USE DEF AheadIs
<1> DEFINE n == Len(b)
           m == Len(q)
<1>1. n \in Nat /\ m \in Nat /\ Len(s) \in Nat /\ Len(w) \in Nat
  BY LenProperties
<1>2. m + Len(w) = j - i
  <2>1. Len(Cat(q, w)) = m + Len(w)
    BY CatLength
  <2>2. Len(Slice(s, i, j)) = j - i
    BY SliceIs
  <2>3. QED BY <2>1, <2>2
<1>3. /\ s \in Seq(Nat) /\ i \in Nat /\ i + Header \in Nat /\ j \in Nat /\ e \in Nat
      /\ i <= i + Header /\ i + Header <= j /\ j <= Len(s) /\ i + Header <= e /\ e <= Len(s)
      /\ (i + Header) - i = Header /\ Header \in 0..m
  BY <1>1, <1>2, HeaderWidth
<1>4. First(q, Header) = First(b, Header)
  <2>1. First(Cat(q, w), Header) = First(q, Header)
    BY <1>3, CutFirst
  <2>2. First(Slice(s, i, j), Header) = Slice(s, i, i + Header)
    <3>1. First(Slice(s, i, j), (i + Header) - i) = Slice(s, i, i + Header)
      BY ONLY <1>3, SliceCut
    <3>2. QED BY <1>3, <3>1
  <2>3. First(Slice(s, i, e), Header) = Slice(s, i, i + Header)
    <3>1. First(Slice(s, i, e), (i + Header) - i) = Slice(s, i, i + Header)
      BY ONLY <1>3, SliceCut
    <3>2. QED BY <1>3, <3>1
  <2>4. QED BY <2>1, <2>2, <2>3
<1>5. ASSUME m >= n
      PROVE  /\ First(q, n) = b /\ e <= j /\ From(q, n) \in Seq(Nat)
             /\ Cat(From(q, n), w) = Slice(s, e, j)
  <2>1. n \in 0..m /\ e <= j /\ i <= e /\ e - i = n
    <3>1. e = i + n
      OBVIOUS
    <3> HIDE DEF n, m
    <3>2. QED BY ONLY <1>1, <1>2, <1>5, <3>1, i \in Nat, j \in Nat, e \in Nat
  <2>2. /\ First(Cat(q, w), n) = First(q, n)
        /\ From(Cat(q, w), n) = Cat(From(q, n), w)
    BY <2>1, CutFirst
  <2>3. /\ First(Slice(s, i, j), e - i) = Slice(s, i, e)
        /\ From(Slice(s, i, j), e - i) = Slice(s, e, j)
    <3>1. /\ s \in Seq(Nat) /\ i \in Nat /\ e \in Nat /\ j \in Nat
          /\ i <= e /\ e <= j /\ j <= Len(s)
      BY <2>1
    <3>2. QED BY ONLY <3>1, SliceCut
  <2>4. From(q, n) \in Seq(Nat)
    BY <2>1, Cut
  <2> HIDE DEF n
  <2>5. QED BY <2>1, <2>2, <2>3, <2>4
<1>6. QED BY <1>4, <1>5 DEF Whole

-----------------------------------------------------------------------------
(* The invariant that locates the packets, step by step.                    *)
LEMMA InitInv ==
  ASSUME NEW s, NEW start, IsStream(s, start), Init
  PROVE  PacketsInv(s, start)
<1> USE DEF Init
<1>1. /\ Len(inQueue) = 0 /\ Len(handled) = 0 /\ Len(answered) = 0
      /\ Len(replies) = 0
  OBVIOUS
<1>2. PacketTypes
  <2>1. inQueue \in Seq(Nat) /\ wire \in Seq(Nat) /\ replies \in Seq(Nat)
    BY EmptySeq
  <2>2. /\ handled \in Seq([request : {Requests[k] : k \in 1..Len(Requests)},
                 outcome : UNION {Outcomes(Requests[k]) : k \in 1..Len(Requests)}])
        /\ answered \in Seq(Seq(Nat))
    BY EmptySeq
  <2>3. readBufferSize \in Nat
    BY PacketsAssumption
  <2>4. QED BY <2>1, <2>2, <2>3 DEF PacketTypes
<1>3. RightSoFar
  BY <1>1 DEF RightSoFar
<1>4. RequestsAligned(s, start)
  <2>1. /\ Len(Requests) \in Nat /\ start[1] = 0 /\ Len(s) \in Nat
        /\ s \in Seq(Nat)
    BY StreamFacts
  <2>2. Written(start) = 0 /\ Handled(start) = 0
    BY <1>1, <2>1 DEF Written, Handled
  <2>3. SubSeq(s, Handled(start) + 1, Written(start)) = <<>>
    BY <2>1, <2>2, SubSeqEmpty
  <2>4. inQueue \o wire = <<>>
    OBVIOUS
  <2>5. sent \in (1..(Len(Requests) + 1)) \X Nat
    BY <2>1
  <2>6. QED BY <1>1, <2>1, <2>2, <2>3, <2>4, <2>5 DEF RequestsAligned
<1>5. \E end \in [0..Len(handled) -> 0..Len(replies)] : RepliesAligned(end)
  <2> DEFINE end == [k \in 0..0 |-> 0]
  <2>1. end \in [0..Len(handled) -> 0..Len(replies)]
    BY <1>1
  <2>2. RepliesAligned(end)
    BY <1>1 DEF RepliesAligned
  <2>3. QED BY <2>1, <2>2
<1>6. QED BY <1>2, <1>3, <1>4, <1>5 DEF PacketsInv

(* The parts of it that a step leaves alone.                                *)
LEMMA SameReplies ==
  ASSUME UNCHANGED <<replies, handled, answered>>,
         \E end \in [0..Len(handled) -> 0..Len(replies)] : RepliesAligned(end)
  PROVE  (\E end \in [0..Len(handled) -> 0..Len(replies)] : RepliesAligned(end))'
BY DEF RepliesAligned

LEMMA SameRequests ==
  ASSUME NEW s, NEW start, RequestsAligned(s, start),
         UNCHANGED <<inQueue, wire, sent, handled>>
  PROVE  RequestsAligned(s, start)'
BY DEF RequestsAligned, Written, Handled

LEMMA SameRight ==
  ASSUME RightSoFar, UNCHANGED <<handled, answered>>, pc' # "failed"
  PROVE  RightSoFar'
BY DEF RightSoFar

(* The bytes that move from the pipe to inQueue are still the same bytes.   *)
LEMMA ReadDataInv ==
  ASSUME NEW s, NEW start, PacketsInv(s, start), ReadData
  PROVE  PacketsInv(s, start)'
<1> DEFINE n == Least(Len(wire), IoSize)
           f == First(wire, n)
           r == From(wire, n)
<1>1. /\ PacketTypes /\ RightSoFar /\ RequestsAligned(s, start)
      /\ \E end \in [0..Len(handled) -> 0..Len(replies)] : RepliesAligned(end)
  BY DEF PacketsInv
<1>2. inQueue \in Seq(Nat) /\ wire \in Seq(Nat) /\ Len(wire) \in Nat /\ IoSize \in Nat
  BY <1>1, PacketsAssumption, LenProperties DEF PacketTypes
<1>3. n \in 0..Len(wire)
  BY <1>2, LeastInRange
<1> HIDE DEF n
<1>4. f \in Seq(Nat) /\ r \in Seq(Nat) /\ wire = Cat(f, r)
  BY <1>2, <1>3, Cut
<1>5. /\ inQueue' = Cat(inQueue, f) /\ wire' = r /\ pending' = FALSE
      /\ didSomething' = TRUE
      /\ UNCHANGED <<pc, readBufferSize, sent, replies, handled, answered>>
  BY DEF ReadData, Cat, n
<1> HIDE DEF f, r
<1>6. Cat(inQueue', wire') = Cat(inQueue, wire) /\ inQueue' \in Seq(Nat)
  BY <1>2, <1>4, <1>5, Monoid
<1>7. PacketTypes'
  BY <1>1, <1>4, <1>5, <1>6 DEF PacketTypes
<1>8. RequestsAligned(s, start)'
  BY <1>1, <1>5, <1>6 DEF RequestsAligned, Written, Handled, Cat
<1>9. RightSoFar'
  BY <1>1, <1>5, SameRight DEF RightSoFar
<1>10. (\E end \in [0..Len(handled) -> 0..Len(replies)] : RepliesAligned(end))'
  BY <1>1, <1>5, SameReplies
<1>11. QED BY <1>7, <1>8, <1>9, <1>10 DEF PacketsInv

(* What is peeked is the size of the next request.                          *)
LEMMA NextRequest ==
  ASSUME NEW s, NEW start, IsStream(s, start),
         PacketsInv(s, start), Len(inQueue) >= Width.Size
  PROVE  LET h == Len(handled)
             b == Request(h + 1)
         IN  /\ h \in Nat /\ h + 1 \in 1..Len(Requests)
             /\ PacketSize = Len(b) /\ Len(b) \in Nat /\ Len(b) >= Header
             /\ Len(inQueue) >= PacketSize =>
                  /\ First(inQueue, PacketSize) = b
                  /\ From(inQueue, PacketSize) \in Seq(Nat)
                  /\ start[h + 2] <= Written(start)
                  /\ Cat(From(inQueue, PacketSize), wire)
                       = Slice(s, start[h + 2], Written(start))
<1> DEFINE N == Len(Requests)
           h == Len(handled)
           b == Request(h + 1)
           i == start[h + 1]
           j == Written(start)
           e == start[h + 2]
<1>1. /\ inQueue \in Seq(Nat) /\ wire \in Seq(Nat) /\ h \in Nat
      /\ Len(inQueue) \in Nat /\ Len(wire) \in Nat /\ Len(inQueue) >= Header
  BY HeaderWidth, LenProperties DEF PacketsInv, PacketTypes
<1>2. /\ N \in Nat /\ s \in Seq(Nat) /\ Len(s) \in Nat /\ start[N + 1] = Len(s)
      /\ \A k \in 1..(N + 1) : start[k] \in Nat /\ start[k] <= Len(s)
  BY StreamFacts
<1>3. /\ sent \in (1..(N + 1)) \X Nat /\ j <= Len(s) /\ h <= N /\ i <= j
      /\ Cat(inQueue, wire) = Slice(s, i, j)
  BY DEF PacketsInv, RequestsAligned, Handled, Cat, Slice
<1>4. j \in Nat
  BY <1>2, <1>3 DEF Written
<1>5. i \in Nat /\ (h = N => i = Len(s))
  <2>1. h + 1 \in 1..(N + 1) /\ (h = N => h + 1 = N + 1)
    BY <1>1, <1>2, <1>3
  <2> HIDE DEF h, j, N
  <2>2. QED BY <1>2, <2>1
<1> HIDE DEF i, j
<1>6. Len(inQueue) + Len(wire) = j - i
  <2>1. Len(Cat(inQueue, wire)) = Len(inQueue) + Len(wire)
    BY <1>1, CatLength
  <2>2. Len(Slice(s, i, j)) = j - i
    <3>1. /\ s \in Seq(Nat) /\ i \in Nat /\ j \in Nat /\ i <= j /\ j <= Len(s)
      BY <1>2, <1>3, <1>4, <1>5
    <3>2. QED BY ONLY <3>1, SliceIs
  <2>3. QED BY <1>3, <2>1, <2>2
<1>7. h + 1 \in 1..N
  <2>1. h # N
    BY <1>1, <1>2, <1>3, <1>4, <1>5, <1>6, HeaderWidth
  <2>2. QED BY <1>1, <1>2, <1>3, <2>1
<1>8. (h + 1) + 1 = h + 2
  BY <1>1
<1>9. /\ e = i + Len(b) /\ e \in Nat /\ e <= Len(s)
      /\ b \in Seq(Nat) /\ Len(b) \in Nat /\ Len(b) >= Header
      /\ Number(First(b, Header)) = Len(b) /\ b = Slice(s, i, e)
  <2> DEFINE k == h + 1
  <2>1. /\ start[k + 1] = start[k] + Len(Request(k))
        /\ start[k + 1] \in Nat /\ start[k + 1] <= Len(s)
        /\ Request(k) \in Seq(Nat) /\ Len(Request(k)) \in Nat
        /\ Len(Request(k)) >= Header
        /\ Number(First(Request(k), Header)) = Len(Request(k))
        /\ Request(k) = Slice(s, start[k], start[k + 1])
    <3>1. k \in 1..N
      BY <1>7
    <3> HIDE DEF k
    <3>2. QED BY <3>1, StreamFacts
  <2>2. k + 1 = h + 2
    BY <1>8
  <2>3. QED BY <2>1, <2>2 DEF i
<1> HIDE DEF e, b, h
<1>10. /\ Number(First(inQueue, Header)) = Len(b)
       /\ Len(inQueue) >= Len(b) =>
            /\ First(inQueue, Len(b)) = b /\ e <= j
            /\ From(inQueue, Len(b)) \in Seq(Nat)
            /\ Cat(From(inQueue, Len(b)), wire) = Slice(s, e, j)
  <2>1. AheadIs(s, i, j, e, b, inQueue, wire)
    BY <1>1, <1>2, <1>3, <1>4, <1>5, <1>9 DEF AheadIs
  <2>2. Whole(s, j, e, b, inQueue, wire)
    BY ONLY <2>1, PacketAhead
  <2>3. QED BY <2>2 DEF Whole
<1>11. PacketSize = Len(b)
  BY <1>10, HeaderWidth DEF PacketSize
<1>12. QED BY <1>1, <1>7, <1>9, <1>10, <1>11 DEF b, e, h, j

LEMMA ScheduleInv ==
  ASSUME NEW s, NEW start, IsStream(s, start),
         PacketsInv(s, start), ServiceEnd \/ PollEnd \/ WakeUp
  PROVE  PacketsInv(s, start)'
<1>1. /\ PacketTypes /\ RightSoFar /\ RequestsAligned(s, start)
      /\ \E end \in [0..Len(handled) -> 0..Len(replies)] : RepliesAligned(end)
  BY DEF PacketsInv
<1>2. UNCHANGED <<inQueue, wire, sent, replies, handled, answered>>
  BY DEF ServiceEnd, PollEnd, WakeUp
<1>3. pc' \in {"service", "callback", "wait"}
  BY DEF ServiceEnd, PollEnd, WakeUp
<1>4. didSomething' \in BOOLEAN /\ pending' \in BOOLEAN
  BY <1>1, Zenon DEF ServiceEnd, PollEnd, WakeUp, PacketTypes
<1>5. readBufferSize' \in Nat
  <2>1. readBufferSize \in Nat
    BY <1>1 DEF PacketTypes
  <2>2. CASE readBufferSize' = readBufferSize
    BY <2>1, <2>2
  <2>3. CASE Len(inQueue) >= Width.Size /\ readBufferSize' = Raised
    <3>1. PacketSize \in Nat
      BY <2>3, NextRequest
    <3>2. QED BY <2>1, <2>3, <3>1 DEF Raised
  <2>4. QED BY <2>2, <2>3 DEF ServiceEnd, PollEnd, WakeUp
<1>6. PacketTypes'
  BY <1>1, <1>2, <1>3, <1>4, <1>5 DEF PacketTypes
<1>7. RightSoFar'
  BY <1>1, <1>2, <1>3, SameRight
<1>8. QED BY <1>1, <1>2, <1>6, <1>7, SameReplies, SameRequests DEF PacketsInv

(* The agent takes the next request off the stream, and nothing else.       *)
LEMMA HandlesNext ==
  ASSUME NEW s, NEW start, IsStream(s, start),
         PacketsInv(s, start), HandlePacket
  PROVE  LET h == Len(handled)
         IN  /\ h \in Nat /\ h + 1 \in 1..Len(Requests)
             /\ inQueue' \in Seq(Nat) /\ start[h + 2] <= Written(start)
             /\ Cat(inQueue', wire) = Slice(s, start[h + 2], Written(start))
             /\ \E o \in Outcomes(Requests[h + 1]) :
                  /\ handled' = Append(handled, [request |-> Requests[h + 1], outcome |-> o])
                  /\ replies' = replies \o Reply(o)
             /\ UNCHANGED <<pc, didSomething, readBufferSize, pending, wire, sent,
                            answered>>
<1> DEFINE k == Len(handled) + 1
           b == Request(k)
<1>1. Len(inQueue) >= Width.Size
  BY DEF HandlePacket
<1>2. /\ Len(handled) \in Nat /\ k \in 1..Len(Requests)
      /\ PacketSize = Len(b) /\ Len(b) \in Nat /\ Len(b) >= Header
      /\ Len(inQueue) >= PacketSize =>
           /\ First(inQueue, PacketSize) = b
           /\ From(inQueue, PacketSize) \in Seq(Nat)
           /\ start[Len(handled) + 2] <= Written(start)
           /\ Cat(From(inQueue, PacketSize), wire)
                = Slice(s, start[Len(handled) + 2], Written(start))
  BY <1>1, NextRequest
<1>3. Len(inQueue) >= PacketSize
  BY <1>2, HeaderWidth DEF HandlePacket
<1>4. First(inQueue, PacketSize) = b
  BY <1>2, <1>3
<1>5. Understood(b) = Requests[k] /\ Requests[k].op # "decode error"
  BY <1>2, CodecFaithful DEF CodecIsFaithful
<1> HIDE DEF k, b
<1>6. PICK p \in Packets :
        /\ p.bytes = b
        /\ \E o \in p.outcomes :
             /\ handled' = Append(handled, [request |-> p.request, outcome |-> o.outcome])
             /\ replies' = replies \o o.bytes
        /\ inQueue' = From(inQueue, PacketSize)
        /\ UNCHANGED pc
  <2>1. \E p \in Packets : p.bytes = b /\ p.request.op # "decode error"
    <3> DEFINE p == LET request == Understood(Request(k))
                    IN [k |-> k, bytes |-> Request(k), request |-> request,
                        outcomes |-> {[outcome |-> o, bytes |-> Reply(o)] : o \in Outcomes(request)}]
    <3>1. p \in Packets
      BY <1>2, PacketsAssumption DEF Packets
    <3>2. p.bytes = Request(k) /\ p.request = Understood(Request(k))
      OBVIOUS
    <3> HIDE DEF p
    <3>3. p.bytes = b /\ p.request = Requests[k]
      BY <1>5, <3>2 DEF b
    <3>4. QED BY <1>5, <3>1, <3>3
  <2>2. QED BY <1>4, <2>1 DEF HandlePacket
<1>7. p.request = Requests[k]
      /\ p.outcomes = {[outcome |-> o, bytes |-> Reply(o)] : o \in Outcomes(Requests[k])}
  <2>1. PICK i \in DOMAIN Requests :
          p = LET request == Understood(Request(i))
              IN [k |-> i, bytes |-> Request(i), request |-> request,
                  outcomes |-> {[outcome |-> o, bytes |-> Reply(o)] : o \in Outcomes(request)}]
    BY <1>6 DEF Packets
  <2>2. /\ p.bytes = Request(i) /\ p.request = Understood(Request(i))
        /\ p.outcomes = {[outcome |-> o, bytes |-> Reply(o)] : o \in Outcomes(p.request)}
    BY <2>1
  <2>3. p.request = Requests[k]
    BY <1>5, <1>6, <2>2
  <2>4. QED BY <2>2, <2>3
<1>8. \E o \in Outcomes(Requests[k]) :
        /\ handled' = Append(handled, [request |-> Requests[k], outcome |-> o])
        /\ replies' = replies \o Reply(o)
  <2>1. PICK r \in p.outcomes :
          /\ handled' = Append(handled, [request |-> p.request, outcome |-> r.outcome])
          /\ replies' = replies \o r.bytes
    BY <1>6
  <2>2. PICK o \in Outcomes(Requests[k]) : r = [outcome |-> o, bytes |-> Reply(o)]
    BY <1>7, <2>1
  <2>3. r.outcome = o /\ r.bytes = Reply(o)
    BY <2>2
  <2>4. QED BY <1>7, <2>1, <2>3
<1>9. /\ inQueue' = From(inQueue, PacketSize)
      /\ UNCHANGED <<pc, didSomething, readBufferSize, pending, wire, sent, answered>>
  BY <1>6 DEF HandlePacket
<1>10. /\ Len(handled) \in Nat /\ k \in 1..Len(Requests)
       /\ From(inQueue, PacketSize) \in Seq(Nat)
       /\ start[Len(handled) + 2] <= Written(start)
       /\ Cat(From(inQueue, PacketSize), wire)
            = Slice(s, start[Len(handled) + 2], Written(start))
  BY <1>2, <1>3
<1>11. QED BY <1>8, <1>9, <1>10 DEF k

(* Its reply goes to the end of the replies.                                *)
LEMMA ReplySent ==
  ASSUME NEW S, handled \in Seq(S), replies \in Seq(Nat), Len(answered) \in Nat,
         Len(answered) <= Len(handled), NEW e \in S, Reply(e.outcome) \in Seq(Nat),
         handled' = Append(handled, e), replies' = replies \o Reply(e.outcome),
         answered' = answered,
         \E end \in [0..Len(handled) -> 0..Len(replies)] : RepliesAligned(end)
  PROVE  (\E end \in [0..Len(handled) -> 0..Len(replies)] : RepliesAligned(end))'
<1> DEFINE h == Len(handled)
           a == Len(answered)
           n == Len(replies)
           r == Reply(e.outcome)
           m == Len(r)
<1>1. PICK end \in [0..h -> 0..n] : RepliesAligned(end)
  OBVIOUS
<1>2. /\ h \in Nat /\ a \in Nat /\ n \in Nat /\ m \in Nat /\ a <= h
  BY LenProperties
<1>3. /\ Len(handled') = h + 1 /\ handled'[h + 1] = e
      /\ \A x \in 1..h : handled'[x] = handled[x]
  BY AppendProperties
<1>4. replies' = Cat(replies, r) /\ Len(replies') = n + m
  BY CatLength DEF Cat
<1>5. /\ Slice(replies', n, n + m) = r
      /\ \A i, j \in Nat : i <= j /\ j <= n => Slice(replies', i, j) = Slice(replies, i, j)
  BY <1>4, SliceOfCat
<1> HIDE DEF h, a, n, m, r
<1> DEFINE u == [x \in 0..(h + 1) |-> IF x <= h THEN end[x] ELSE n + m]
<1>6. /\ end[a] = 0 /\ end[h] = n
      /\ \A j, k \in a..h : j <= k => end[j] <= end[k]
      /\ \A k \in (a + 1)..h :
           /\ end[k] = end[k - 1] + Len(Reply(handled[k].outcome))
           /\ Reply(handled[k].outcome) = Slice(replies, end[k - 1], end[k])
  BY <1>1 DEF RepliesAligned, h, a, n, Slice
<1>7. \A x \in 0..h : end[x] \in Nat /\ end[x] <= n
  BY <1>1, <1>2
<1>8. PICK v : /\ v \in [0..(h + 1) -> 0..(n + m)]
                /\ \A x \in 0..h : v[x] = end[x]
                /\ v[h + 1] = n + m
  <2>1. \A x \in 0..h : x \in 0..(h + 1) /\ x <= h /\ end[x] \in 0..(n + m)
    BY <1>2, <1>7
  <2>2. h + 1 \in 0..(h + 1) /\ ~(h + 1 <= h) /\ n + m \in 0..(n + m)
    BY <1>2
  <2>3. \A x \in 0..(h + 1) : x \in 0..h \/ x = h + 1
    BY <1>2
  <2>4. /\ u \in [0..(h + 1) -> 0..(n + m)]
        /\ \A x \in 0..h : u[x] = end[x]
        /\ u[h + 1] = n + m
    BY <2>1, <2>2, <2>3
  <2> HIDE DEF u
  <2>5. QED BY <2>4
<1>9. v[a] = 0 /\ v[h + 1] = n + m
  BY <1>2, <1>6, <1>8
<1>10. ASSUME NEW j \in a..(h + 1), NEW k \in a..(h + 1), j <= k
       PROVE  v[j] <= v[k]
  <2>1. CASE k <= h
    <3>1. j \in a..h /\ k \in a..h /\ j \in 0..h /\ k \in 0..h
      BY <1>2, <1>10, <2>1
    <3>2. QED BY <1>6, <1>8, <1>10, <3>1
  <2>2. CASE k = h + 1
    <3>1. j \in 0..h \/ j = h + 1
      BY <1>2, <1>10
    <3>2. v[j] <= n + m
      BY <1>2, <1>7, <1>8, <3>1
    <3>3. v[k] = n + m
      BY ONLY <1>9, <2>2
    <3>4. QED BY <3>2, <3>3
  <2>3. QED BY <1>2, <2>1, <2>2
<1>11. ASSUME NEW k \in (a + 1)..(h + 1)
       PROVE  /\ v[k] = v[k - 1] + Len(Reply(handled'[k].outcome))
              /\ Reply(handled'[k].outcome) = Slice(replies', v[k - 1], v[k])
  <2> HIDE DEF u
  <2>1. CASE k <= h
    <3>1. /\ k \in (a + 1)..h /\ k \in a..h /\ k - 1 \in a..h /\ k \in 1..h
          /\ k \in 0..h /\ k - 1 \in 0..h /\ k - 1 <= k
      BY <1>2, <2>1
    <3>2. end[k - 1] \in Nat /\ end[k] \in Nat /\ end[k - 1] <= end[k] /\ end[k] <= n
      BY <1>6, <1>7, <3>1
    <3>3. Slice(replies', end[k - 1], end[k]) = Slice(replies, end[k - 1], end[k])
      BY <1>5, <3>2
    <3>4. v[k] = end[k] /\ v[k - 1] = end[k - 1] /\ handled'[k] = handled[k]
      BY <1>3, <1>8, <3>1
    <3>5. QED BY <1>6, <3>1, <3>3, <3>4
  <2>2. CASE k = h + 1
    <3>1. k - 1 = h /\ h \in 0..h
      BY <1>2, <2>2
    <3>2. v[k] = n + m /\ v[k - 1] = n /\ handled'[k] = e
      BY <1>3, <1>6, <1>8, <2>2, <3>1
    <3>3. QED BY <1>5, <3>2 DEF r, m
  <2>3. k <= h \/ k = h + 1
    BY <1>2
  <2>4. QED BY <2>1, <2>2, <2>3
<1>12. RepliesAligned(v)'
  <2>1. /\ Len(answered)' = a /\ Len(handled)' = h + 1 /\ Len(replies)' = n + m
    BY <1>3, <1>4 DEF a
  <2>2. v[Len(answered)'] = 0 /\ v[Len(handled)'] = Len(replies)'
    BY ONLY <1>9, <2>1
  <2>3. \A j, k \in Len(answered)'..Len(handled)' : j <= k => v[j] <= v[k]
    BY <1>10, <2>1
  <2>4. \A k \in (Len(answered)' + 1)..Len(handled)' :
          /\ v[k] = v[k - 1] + Len(Reply(handled'[k].outcome))
          /\ Reply(handled'[k].outcome) = SubSeq(replies', v[k - 1] + 1, v[k])
    BY <1>11, <2>1 DEF Slice
  <2>5. QED BY <2>2, <2>3, <2>4 DEF RepliesAligned
<1>13. v \in [0..Len(handled') -> 0..Len(replies')]
  BY <1>3, <1>4, <1>8
<1>14. QED BY <1>12, <1>13

LEMMA HandlePacketInv ==
  ASSUME NEW s, NEW start, IsStream(s, start),
         PacketsInv(s, start), HandlePacket
  PROVE  PacketsInv(s, start)'
<1> DEFINE h == Len(handled)
           N == Len(Requests)
           S == [request : {Requests[k] : k \in 1..N},
                 outcome : UNION {Outcomes(Requests[k]) : k \in 1..N}]
<1>1. /\ PacketTypes /\ RightSoFar /\ RequestsAligned(s, start)
      /\ \E end \in [0..Len(handled) -> 0..Len(replies)] : RepliesAligned(end)
  BY DEF PacketsInv
<1>2. /\ h \in Nat /\ h + 1 \in 1..N
      /\ inQueue' \in Seq(Nat) /\ start[h + 2] <= Written(start)
      /\ Cat(inQueue', wire) = Slice(s, start[h + 2], Written(start))
      /\ \E o \in Outcomes(Requests[h + 1]) :
           /\ handled' = Append(handled, [request |-> Requests[h + 1], outcome |-> o])
           /\ replies' = replies \o Reply(o)
      /\ UNCHANGED <<pc, didSomething, readBufferSize, pending, wire, sent, answered>>
  BY HandlesNext
<1>3. PICK o \in Outcomes(Requests[h + 1]) :
        /\ handled' = Append(handled, [request |-> Requests[h + 1], outcome |-> o])
        /\ replies' = replies \o Reply(o)
  BY <1>2
<1> DEFINE e == [request |-> Requests[h + 1], outcome |-> o]
<1>4. e \in S /\ e.outcome = o /\ e.request = Requests[h + 1]
  <2>1. Requests[h + 1] \in {Requests[k] : k \in 1..N}
    BY <1>2
  <2>2. o \in UNION {Outcomes(Requests[k]) : k \in 1..N}
    BY <1>2
  <2>3. QED BY <2>1, <2>2
<1>5. Reply(o) \in Seq(Nat)
  BY <1>2, CodecFaithful DEF CodecIsFaithful, Framed
<1>6. handled \in Seq(S) /\ replies \in Seq(Nat) /\ answered \in Seq(Seq(Nat))
  BY <1>1 DEF PacketTypes
<1>7. handled' = Append(handled, e)
  BY <1>3
<1> HIDE DEF S, e
<1>8. /\ handled' \in Seq(S) /\ Len(handled') = h + 1 /\ handled'[h + 1] = e
      /\ \A x \in 1..h : handled'[x] = handled[x]
  BY <1>4, <1>6, <1>7, AppendProperties
<1>9. replies' \in Seq(Nat)
  BY <1>3, <1>5, <1>6, CatLength DEF Cat
<1>10. PacketTypes'
  <2>1. /\ pc' \in {"service", "callback", "wait", "failed"}
        /\ {didSomething', pending'} \subseteq BOOLEAN
        /\ readBufferSize' \in Nat /\ wire' \in Seq(Nat)
        /\ answered' \in Seq(Seq(Nat))
    BY <1>1, <1>2 DEF PacketTypes
  <2>2. QED BY <1>2, <1>8, <1>9, <2>1 DEF PacketTypes, S
<1>11. RightSoFar'
  <2>1. /\ pc' # "failed" /\ Len(answered)' = Len(answered)
        /\ Len(answered) <= h /\ Len(answered) \in Nat
    BY <1>1, <1>2, <1>6, LenProperties DEF RightSoFar
  <2>2. ASSUME NEW k \in 1..(h + 1)
        PROVE  handled'[k].request = Requests[k]
               /\ handled'[k].outcome \in Outcomes(Requests[k])
    <3>1. CASE k \in 1..h
      BY <1>1, <1>8, <3>1 DEF RightSoFar
    <3>2. CASE k = h + 1
      BY <1>4, <1>8, <3>2
    <3>3. k \in 1..h \/ k = h + 1
      BY <1>2
    <3>4. QED BY <3>1, <3>2, <3>3
  <2>3. ASSUME NEW k \in 1..Len(answered)
        PROVE  Answer(Requests[k], answered'[k]) = handled'[k].outcome
    <3>1. k \in 1..h
      BY <1>2, <2>1
    <3>2. QED BY <1>1, <1>2, <1>8, <3>1 DEF RightSoFar
  <2>4. /\ Len(handled') = h + 1 /\ Len(answered)' <= h + 1
        /\ 1..Len(answered)' = 1..Len(answered)
    BY <1>2, <1>8, <2>1
  <2>5. QED BY <2>1, <2>2, <2>3, <2>4 DEF RightSoFar
<1>12. RequestsAligned(s, start)'
  <2>1. sent \in (1..(N + 1)) \X Nat /\ Written(start) <= Len(s)
    BY <1>1 DEF RequestsAligned
  <2>2. Written(start)' = Written(start) /\ Handled(start)' = start[h + 2]
    <3>1. (h + 1) + 1 = h + 2
      BY <1>2
    <3>2. QED BY <1>2, <1>8, <3>1 DEF Written, Handled
  <2>3. h + 1 <= N
    BY <1>2, PacketsAssumption
  <2>4. QED BY <1>2, <1>8, <2>1, <2>2, <2>3 DEF RequestsAligned, Cat, Slice
<1>13. (\E end \in [0..Len(handled) -> 0..Len(replies)] : RepliesAligned(end))'
  <2>1. /\ handled \in Seq(S) /\ replies \in Seq(Nat) /\ Len(answered) \in Nat
        /\ Len(answered) <= Len(handled) /\ e \in S /\ Reply(e.outcome) \in Seq(Nat)
        /\ handled' = Append(handled, e) /\ replies' = replies \o Reply(e.outcome)
        /\ answered' = answered
    BY <1>1, <1>2, <1>3, <1>4, <1>5, <1>6, <1>7, LenProperties DEF RightSoFar
  <2>2. QED BY <1>1, <2>1, ReplySent
<1>14. QED BY <1>10, <1>11, <1>12, <1>13 DEF PacketsInv

(* What the client writes are the next bytes of the stream.                 *)
LEMMA ClientWritesInv ==
  ASSUME NEW s, NEW start, IsStream(s, start),
         PacketsInv(s, start), ClientWrites
  PROVE  PacketsInv(s, start)'
<1> DEFINE k == sent[1]
           i == sent[2]
           N == Len(Requests)
           b == Request(k)
<1>1. /\ PacketTypes /\ RightSoFar /\ RequestsAligned(s, start)
      /\ \E end \in [0..Len(handled) -> 0..Len(replies)] : RepliesAligned(end)
  BY DEF PacketsInv
<1>2. /\ sent \in (1..(N + 1)) \X Nat /\ Handled(start) <= Written(start)
      /\ Written(start) <= Len(s)
      /\ Len(handled) <= N
      /\ Cat(inQueue, wire) = Slice(s, Handled(start), Written(start))
  BY <1>1 DEF RequestsAligned, Cat, Slice
<1>3. N \in Nat /\ s \in Seq(Nat) /\ Len(s) \in Nat
      /\ \A x \in 1..(N + 1) : start[x] \in Nat /\ start[x] <= Len(s)
  BY StreamFacts
<1>4. k \in 1..N /\ i \in Nat
  BY <1>2, <1>3 DEF ClientWrites
<1>5. /\ start[k + 1] = start[k] + Len(b)
      /\ start[k] \in Nat /\ start[k + 1] \in Nat /\ start[k + 1] <= Len(s)
      /\ b \in Seq(Nat) /\ Len(b) \in Nat /\ b = Slice(s, start[k], start[k + 1])
  <2>1. \A x \in 1..N :
          /\ start[x + 1] = start[x] + Len(Request(x))
          /\ start[x] \in Nat /\ start[x + 1] \in Nat /\ start[x + 1] <= Len(s)
          /\ Request(x) \in Seq(Nat) /\ Len(Request(x)) \in Nat
          /\ Request(x) = Slice(s, start[x], start[x + 1])
    BY StreamFacts
  <2> HIDE DEF k, N
  <2>2. QED BY ONLY <1>4, <2>1 DEF b
<1>6. UNCHANGED <<pc, didSomething, readBufferSize, pending, inQueue, replies, handled,
                  answered>>
  BY DEF ClientWrites
<1>7. PICK n \in 1..Least(Quota - Len(wire), Len(b) - i) :
        /\ wire' = wire \o SubSeq(b, i + 1, i + n)
        /\ sent' = IF i + n = Len(b) THEN <<k + 1, 0>> ELSE <<k, i + n>>
  <2>1. PICK p \in Packets :
          /\ p.k = k
          /\ \E n \in 1..Least(Quota - Len(wire), Len(p.bytes) - i) :
               /\ wire' = wire \o SubSeq(p.bytes, i + 1, i + n)
               /\ sent' = IF i + n = Len(p.bytes) THEN <<k + 1, 0>> ELSE <<k, i + n>>
    BY DEF ClientWrites
  <2>2. p.bytes = Request(p.k)
    BY DEF Packets
  <2>3. QED BY <2>1, <2>2
<1>8. /\ wire \in Seq(Nat) /\ inQueue \in Seq(Nat) /\ Len(wire) \in Nat
      /\ Quota \in Nat
  BY <1>1, PacketsAssumption, LenProperties DEF PacketTypes
<1>9. n \in Nat /\ i + n <= Len(b)
  <2> DEFINE x == Quota - Len(wire)
             y == Len(b) - i
  <2>1. x \in Int /\ y \in Int /\ n \in 1..Least(x, y)
    BY <1>4, <1>5, <1>8
  <2>2. y = Len(b) - i /\ i \in Nat /\ Len(b) \in Nat
    BY <1>4, <1>5
  <2> HIDE DEF x, y, i, b
  <2>3. Least(x, y) \in Int /\ Least(x, y) <= y
    BY ONLY <2>1 DEF Least
  <2>4. QED BY ONLY <2>1, <2>2, <2>3
<1> DEFINE f == SubSeq(b, i + 1, i + n)
           v == start[k] + i
           w == start[k] + (i + n)
<1>10. /\ v \in Nat /\ w \in Nat /\ v <= w /\ w <= start[k + 1] /\ w <= Len(s)
       /\ start[k] <= v /\ v - start[k] = i /\ w - start[k] = i + n
  <2> DEFINE x == start[k]
             y == start[k + 1]
             m == Len(b)
             l == Len(s)
  <2>1. /\ x \in Nat /\ y \in Nat /\ m \in Nat /\ l \in Nat /\ i \in Nat /\ n \in Nat
        /\ y = x + m /\ i + n <= m /\ y <= l
    BY <1>3, <1>4, <1>5, <1>9
  <2>2. v = x + i /\ w = x + (i + n)
    OBVIOUS
  <2> HIDE DEF x, y, m, l, i, b, k, v, w
  <2>3. /\ v \in Nat /\ w \in Nat /\ v <= w /\ w <= y /\ w <= l
        /\ x <= v /\ v - x = i /\ w - x = i + n
    BY ONLY <2>1, <2>2
  <2>4. QED BY <2>3 DEF x, y, l
<1>11. Written(start) = v
  BY DEF Written
<1>12. f = Slice(s, v, w)
  <2> DEFINE x == start[k]
             y == start[k + 1]
  <2>1. /\ s \in Seq(Nat) /\ x \in Nat /\ v \in Nat /\ w \in Nat /\ y \in Nat
        /\ x <= v /\ v <= w /\ w <= y /\ y <= Len(s)
    BY <1>3, <1>5, <1>10
  <2>2. v - x = i /\ w - x = i + n /\ b = Slice(s, x, y)
    BY <1>5, <1>10
  <2>3. f = Slice(b, i, i + n)
    BY DEF Slice
  <2> HIDE DEF x, y, v, w, f, b, i
  <2>4. Slice(Slice(s, x, y), v - x, w - x) = Slice(s, v, w)
    BY ONLY <2>1, SliceOfSlice
  <2>5. QED BY <2>2, <2>3, <2>4
<1> HIDE DEF v, w, f
<1>13. wire' = Cat(wire, f)
  BY <1>7 DEF Cat, f
<1>14. Handled(start) \in Nat
  <2>1. Len(handled) + 1 \in 1..(N + 1)
    BY <1>1, <1>2, <1>3, LenProperties DEF PacketTypes
  <2>2. QED BY <1>3, <2>1 DEF Handled
<1>15. f \in Seq(Nat)
  <2>1. v <= w /\ w <= Len(s)
    BY <1>10
  <2>2. QED BY <1>3, <1>10, <1>12, <2>1, SliceIs
<1>16. Cat(inQueue, wire') = Slice(s, Handled(start), w)
  <2> DEFINE g == Handled(start)
  <2>1. Cat(inQueue, wire') = Cat(Cat(inQueue, wire), f)
    BY <1>8, <1>13, <1>15, Monoid
  <2>2. Cat(inQueue, wire) = Slice(s, g, v)
    BY <1>2, <1>11
  <2>3. /\ s \in Seq(Nat) /\ g \in Nat /\ v \in Nat /\ w \in Nat
        /\ g <= v /\ v <= w /\ w <= Len(s)
    BY <1>2, <1>3, <1>10, <1>11, <1>14
  <2> HIDE DEF g
  <2>4. Cat(Slice(s, g, v), Slice(s, v, w)) = Slice(s, g, w)
    BY ONLY <2>3, SlicesJoin
  <2>5. QED BY <1>12, <2>1, <2>2, <2>4 DEF g
<1>17. Written(start)' = w /\ sent' \in (1..(N + 1)) \X Nat
  <2>1. CASE i + n = Len(b)
    <3>1. sent' = <<k + 1, 0>>
      BY <1>7, <2>1
    <3>2. start[k + 1] + 0 = w
      BY <1>5, <2>1 DEF w
    <3>3. k + 1 \in 1..(N + 1)
      BY <1>3, <1>4
    <3>4. QED BY <3>1, <3>2, <3>3 DEF Written
  <2>2. CASE i + n # Len(b)
    <3>1. sent' = <<k, i + n>>
      BY <1>7, <2>2
    <3>2. k \in 1..(N + 1) /\ i + n \in Nat
      BY <1>3, <1>4, <1>9
    <3>3. QED BY <3>1, <3>2 DEF Written, w
  <2>3. QED BY <2>1, <2>2
<1>18. RequestsAligned(s, start)'
  <2>1. Handled(start)' = Handled(start) /\ Handled(start) <= w
    <3>1. Handled(start)' = Handled(start)
      BY <1>6, <1>10, <1>11, <1>14 DEF Handled
    <3>2. Handled(start) <= w
      BY <1>2, <1>6, <1>10, <1>11, <1>14 DEF Handled
    <3>3. QED BY <3>1, <3>2
  <2>2. QED BY <1>2, <1>6, <1>10, <1>16, <1>17, <2>1 DEF RequestsAligned, Cat, Slice
<1>19. PacketTypes'
  <2>1. wire' \in Seq(Nat)
    BY <1>8, <1>13, <1>15, Monoid
  <2>2. QED BY <1>1, <1>6, <2>1 DEF PacketTypes
<1>20. RightSoFar'
  BY <1>1, <1>6, SameRight DEF RightSoFar
<1>21. QED BY <1>1, <1>6, <1>18, <1>19, <1>20, SameReplies DEF PacketsInv

(* What the client reads is the reply to the request that is next.          *)
LEMMA ReadsNext ==
  ASSUME RightSoFar, Len(handled) <= Len(Requests),
         PacketTypes, ClientReads,
         NEW end \in [0..Len(handled) -> 0..Len(replies)], RepliesAligned(end)
  PROVE  LET k == Len(answered) + 1
             o == handled[k].outcome
             m == Len(Reply(o))
         IN  /\ k \in 1..Len(handled) /\ m \in Nat /\ end[k] = m /\ m <= Len(replies)
             /\ \E payload \in Seq(Nat) :
                  /\ answered' = Append(answered, payload)
                  /\ Answer(Requests[k], payload) = o
             /\ replies' = Slice(replies, m, Len(replies))
<1> DEFINE a == Len(answered)
           h == Len(handled)
           n == Len(replies)
           k == a + 1
           o == handled[k].outcome
           b == Reply(o)
           m == Len(b)
<1>1. /\ a \in Nat /\ h \in Nat /\ n \in Nat /\ replies \in Seq(Nat) /\ a <= h
  BY LenProperties DEF RightSoFar, PacketTypes
<1>2. n >= Header
  BY HeaderWidth DEF ClientReads
<1>3. /\ end[a] = 0 /\ end[h] = n
      /\ \A x \in (a + 1)..h :
           /\ end[x] = end[x - 1] + Len(Reply(handled[x].outcome))
           /\ Reply(handled[x].outcome) = Slice(replies, end[x - 1], end[x])
  BY DEF RepliesAligned, Slice
<1>4. k \in 1..h /\ k \in (a + 1)..h /\ k - 1 = a
  <2>1. a # h
    BY <1>1, <1>2, <1>3, HeaderWidth
  <2>2. QED BY <1>1, <2>1
<1>5. k \in 0..h /\ end[k] \in 0..n
  BY <1>1, <1>4
<1>6. o \in Outcomes(Requests[k]) /\ k \in 1..Len(Requests)
  <2>1. o \in Outcomes(Requests[k])
    BY <1>4 DEF RightSoFar
  <2>2. Len(handled) <= Len(Requests)
    OBVIOUS
  <2>3. QED BY <1>1, <1>4, <2>1, <2>2, PacketsAssumption
<1>7. /\ b \in Seq(Nat) /\ m \in Nat /\ m >= Header /\ Number(First(b, Header)) = m
      /\ Answer(Requests[k], From(b, Header)) = o
  <2>1. Framed(Reply(o)) /\ Answer(Requests[k], From(Reply(o), Width.Size)) = o
    BY <1>6, CodecFaithful DEF CodecIsFaithful
  <2>2. QED BY <2>1, HeaderWidth, LenProperties DEF Framed
<1>8. end[k] = m /\ b = Slice(replies, 0, m) /\ m <= n
  <2>1. end[k] = end[a] + m /\ b = Slice(replies, end[a], end[k])
    BY <1>3, <1>4
  <2>2. end[k] = m
    BY <1>3, <1>7, <2>1
  <2>3. QED BY <1>1, <1>3, <1>5, <2>1, <2>2
<1> HIDE DEF b, m, o, k, h, a
<1>9. First(replies, Header) = First(b, Header) /\ From(b, Header) = Slice(replies, Header, m)
  <2>1. /\ replies \in Seq(Nat) /\ 0 \in Nat /\ Header \in Nat /\ m \in Nat
        /\ 0 <= Header /\ Header <= m /\ m <= Len(replies)
    BY <1>1, <1>7, <1>8, HeaderWidth
  <2>2. /\ First(Slice(replies, 0, m), Header - 0) = Slice(replies, 0, Header)
        /\ From(Slice(replies, 0, m), Header - 0) = Slice(replies, Header, m)
    BY ONLY <2>1, SliceCut
  <2>3. First(replies, Header) = Slice(replies, 0, Header) /\ Header - 0 = Header
    BY DEF First, Slice
  <2>4. QED BY <1>8, <2>2, <2>3
<1>10. Number(First(replies, Width.Size)) = m
  BY <1>7, <1>9, HeaderWidth
<1>11. /\ answered' = Append(answered, SubSeq(replies, Width.Size + 1, m))
       /\ replies' = From(replies, m)
  BY <1>10 DEF ClientReads
<1>12. /\ SubSeq(replies, Width.Size + 1, m) = Slice(replies, Header, m)
       /\ From(replies, m) = Slice(replies, m, n)
  BY HeaderWidth DEF Slice, From
<1>13. Slice(replies, Header, m) \in Seq(Nat)
  <2>1. replies \in Seq(Nat) /\ Header \in Nat /\ m \in Nat /\ Header <= m /\ m <= Len(replies)
    BY <1>1, <1>7, <1>8, HeaderWidth
  <2>2. QED BY ONLY <2>1, SliceIs
<1>14. \E payload \in Seq(Nat) : /\ answered' = Append(answered, payload)
                                 /\ Answer(Requests[k], payload) = o
  BY <1>7, <1>9, <1>11, <1>12, <1>13
<1>15. replies' = Slice(replies, m, n)
  BY <1>11, <1>12
<1>16. QED BY <1>4, <1>7, <1>8, <1>14, <1>15 DEF k, o, b, m, h, a

(* The replies that are left begin with the next one.                       *)
LEMMA ReplyRead ==
  ASSUME replies \in Seq(Nat), Len(answered) \in Nat, Len(handled) \in Nat,
         NEW end \in [0..Len(handled) -> 0..Len(replies)], RepliesAligned(end),
         NEW m \in Nat, Len(answered) + 1 \in 1..Len(handled),
         end[Len(answered) + 1] = m, m <= Len(replies),
         replies' = Slice(replies, m, Len(replies)), handled' = handled,
         Len(answered') = Len(answered) + 1
  PROVE  (\E y \in [0..Len(handled) -> 0..Len(replies)] : RepliesAligned(y))'
<1> DEFINE h == Len(handled)
           a == Len(answered)
           n == Len(replies)
<1>1. h \in Nat /\ a \in Nat /\ n \in Nat /\ a + 1 <= h
  BY LenProperties
<1>2. /\ end[a] = 0 /\ end[h] = n
      /\ \A j, k \in a..h : j <= k => end[j] <= end[k]
      /\ \A k \in (a + 1)..h :
           /\ end[k] = end[k - 1] + Len(Reply(handled[k].outcome))
           /\ Reply(handled[k].outcome) = Slice(replies, end[k - 1], end[k])
  BY DEF RepliesAligned, Slice
<1>3. end[a + 1] = m /\ m <= n
  OBVIOUS
<1>4. replies' \in Seq(Nat) /\ Len(replies') = n - m
  <2>1. replies \in Seq(Nat) /\ m \in Nat /\ n \in Nat /\ m <= n /\ n <= Len(replies)
    BY <1>1
  <2>2. Slice(replies, m, n) \in Seq(Nat) /\ Len(Slice(replies, m, n)) = n - m
    BY ONLY <2>1, SliceIs
  <2>3. replies' = Slice(replies, m, n)
    OBVIOUS
  <2>4. QED BY ONLY <2>2, <2>3
<1>5. /\ Len(handled)' = h /\ Len(answered)' = a + 1 /\ Len(replies)' = n - m
  BY <1>4
<1>6. \A k \in 0..h : end[k] \in Nat /\ end[k] <= n
  <2>1. end \in [0..h -> 0..n]
    OBVIOUS
  <2> HIDE DEF h, n
  <2>2. QED BY ONLY <1>1, <2>1
<1>7. replies' = Slice(replies, m, n)
  OBVIOUS
<1> HIDE DEF h, a, n
<1>8. \A k \in (a + 1)..h : m <= end[k] /\ end[k] <= n /\ end[k] - m \in 0..(n - m)
  <2> SUFFICES ASSUME NEW k \in (a + 1)..h
               PROVE  m <= end[k] /\ end[k] <= n /\ end[k] - m \in 0..(n - m)
    OBVIOUS
  <2>1. a + 1 \in a..h /\ k \in a..h /\ a + 1 <= k /\ k \in 0..h
    BY <1>1
  <2>2. end[a + 1] <= end[k]
    BY <1>2, <2>1
  <2>3. end[k] \in Nat /\ end[k] <= n
    BY <1>6, <2>1
  <2>4. QED BY <1>1, <1>3, <2>2, <2>3
<1>9. PICK v : /\ v \in [0..h -> 0..(n - m)]
               /\ \A k \in (a + 1)..h : v[k] = end[k] - m
  <2> DEFINE u == [k \in 0..h |-> IF k <= a THEN 0 ELSE end[k] - m]
  <2>1. \A k \in 0..h : k <= a \/ k \in (a + 1)..h
    BY <1>1
  <2>2. 0 \in 0..(n - m)
    BY <1>1, <1>3
  <2>3. u \in [0..h -> 0..(n - m)]
    BY <1>8, <2>1, <2>2
  <2>4. \A k \in (a + 1)..h : k \in 0..h /\ ~(k <= a)
    BY <1>1
  <2>5. \A k \in (a + 1)..h : u[k] = end[k] - m
    BY <2>4
  <2> HIDE DEF u
  <2>6. QED BY <2>3, <2>5
<1>10. v[a + 1] = 0 /\ v[h] = n - m
  <2>1. a + 1 \in (a + 1)..h /\ h \in (a + 1)..h
    BY <1>1
  <2>2. v[a + 1] = end[a + 1] - m /\ v[h] = end[h] - m
    BY <1>9, <2>1
  <2>3. QED BY <1>2, <1>3, <2>2
<1>11. ASSUME NEW j \in (a + 1)..h, NEW k \in (a + 1)..h, j <= k PROVE v[j] <= v[k]
  <2>1. /\ j \in a..h /\ k \in a..h /\ j \in 0..h /\ k \in 0..h
    BY <1>1
  <2>2. end[j] <= end[k] /\ end[j] \in Nat /\ end[k] \in Nat
    BY <1>2, <1>6, <1>11, <2>1
  <2>3. v[j] = end[j] - m /\ v[k] = end[k] - m
    BY <1>9
  <2>4. QED BY <2>2, <2>3
<1>12. ASSUME NEW k \in (a + 2)..h
       PROVE  /\ v[k] = v[k - 1] + Len(Reply(handled[k].outcome))
              /\ Reply(handled[k].outcome) = Slice(replies', v[k - 1], v[k])
  <2> DEFINE i == end[k - 1]
             j == end[k]
             l == Len(Reply(handled[k].outcome))
  <2>1. /\ k \in (a + 1)..h /\ k - 1 \in (a + 1)..h /\ k \in a..h /\ k - 1 \in a..h
        /\ k - 1 <= k
    BY <1>1
  <2>2. /\ v[k] = j - m /\ v[k - 1] = i - m
        /\ m <= i /\ j <= n /\ i <= j
        /\ j = i + l
        /\ Reply(handled[k].outcome) = Slice(replies, i, j)
    BY <1>2, <1>8, <1>9, <2>1
  <2>3. i \in Nat /\ j \in Nat
    BY <1>1, <1>6, <2>1
  <2> HIDE DEF i, j, l
  <2>4. l = j - i
    <3>1. replies \in Seq(Nat) /\ j <= Len(replies) /\ i <= j
      BY <2>2 DEF n
    <3>2. Len(Slice(replies, i, j)) = j - i
      BY <2>3, <3>1, SliceIs
    <3>3. QED BY <2>2, <3>2 DEF l
  <2>5. v[k] = v[k - 1] + l
    BY <2>2, <2>3, <2>4
  <2>6. Slice(Slice(replies, m, n), i - m, j - m) = Slice(replies, i, j)
    <3>1. /\ replies \in Seq(Nat) /\ m \in Nat /\ i \in Nat /\ j \in Nat /\ n \in Nat
          /\ m <= i /\ i <= j /\ j <= n /\ n <= Len(replies)
      BY <1>1, <2>2, <2>3 DEF n
    <3>2. QED BY ONLY <3>1, SliceOfSlice
  <2>7. QED BY <1>7, <2>2, <2>5, <2>6 DEF l
<1>13. RepliesAligned(v)'
  <2>1. v[Len(answered)'] = 0 /\ v[Len(handled)'] = Len(replies)'
    BY ONLY <1>5, <1>10
  <2>2. \A j, k \in Len(answered)'..Len(handled)' : j <= k => v[j] <= v[k]
    BY <1>5, <1>11
  <2>3. \A k \in (Len(answered)' + 1)..Len(handled)' :
          /\ v[k] = v[k - 1] + Len(Reply(handled'[k].outcome))
          /\ Reply(handled'[k].outcome) = SubSeq(replies', v[k - 1] + 1, v[k])
    <3>1. Len(answered)' + 1 = a + 2
      BY ONLY <1>1, <1>5
    <3>2. QED BY <1>5, <1>12, <3>1 DEF Slice
  <2>4. QED BY <2>1, <2>2, <2>3 DEF RepliesAligned
<1>14. v \in [0..Len(handled') -> 0..Len(replies')]
  BY <1>5, <1>9
<1>15. QED BY <1>13, <1>14

LEMMA ClientReadsInv ==
  ASSUME NEW s, NEW start, PacketsInv(s, start), ClientReads
  PROVE  PacketsInv(s, start)'
<1> DEFINE a == Len(answered)
           h == Len(handled)
           n == Len(replies)
           k == a + 1
           o == handled[k].outcome
           m == Len(Reply(o))
<1>1. /\ PacketTypes /\ RightSoFar /\ RequestsAligned(s, start)
      /\ Len(handled) <= Len(Requests)
  BY DEF PacketsInv, RequestsAligned
<1>2. PICK end \in [0..h -> 0..n] : RepliesAligned(end)
  BY DEF PacketsInv
<1>3. /\ k \in 1..h /\ m \in Nat /\ end[k] = m /\ m <= n
      /\ \E payload \in Seq(Nat) : /\ answered' = Append(answered, payload)
                                    /\ Answer(Requests[k], payload) = o
      /\ replies' = Slice(replies, m, n)
  BY <1>1, <1>2, ReadsNext
<1>4. PICK payload \in Seq(Nat) : /\ answered' = Append(answered, payload)
                                  /\ Answer(Requests[k], payload) = o
  BY <1>3
<1>5. UNCHANGED <<pc, didSomething, readBufferSize, pending, inQueue, wire, sent, handled>>
  BY DEF ClientReads
<1>6. /\ answered \in Seq(Seq(Nat)) /\ a \in Nat /\ h \in Nat /\ n \in Nat
      /\ replies \in Seq(Nat)
  BY <1>1, LenProperties DEF PacketTypes
<1>7. /\ answered' \in Seq(Seq(Nat)) /\ Len(answered') = a + 1
      /\ answered'[a + 1] = payload /\ \A x \in 1..a : answered'[x] = answered[x]
  BY <1>4, <1>6, AppendProperties
<1>8. replies' \in Seq(Nat)
  <2> HIDE DEF m
  <2>1. replies \in Seq(Nat) /\ m \in Nat /\ n \in Nat /\ m <= n /\ n <= Len(replies)
    BY <1>3, <1>6
  <2>2. QED BY <1>3, <2>1, SliceIs
<1>9. PacketTypes'
  BY <1>1, <1>5, <1>7, <1>8 DEF PacketTypes
<1>10. RightSoFar'
  <2>1. ASSUME NEW x \in 1..(a + 1)
        PROVE  Answer(Requests[x], answered'[x]) = handled[x].outcome
    <3>1. CASE x \in 1..a
      BY <1>1, <1>7, <3>1 DEF RightSoFar
    <3>2. CASE x = a + 1
      BY <1>4, <1>7, <3>2
    <3>3. x \in 1..a \/ x = a + 1
      BY <1>6
    <3>4. QED BY <3>1, <3>2, <3>3
  <2>2. Len(answered)' <= Len(handled) /\ Len(answered)' = a + 1
    BY <1>3, <1>6, <1>7
  <2>3. handled' = handled /\ pc' = pc
    BY <1>5
  <2>4. QED BY <1>1, <2>1, <2>2, <2>3 DEF RightSoFar
<1>11. RequestsAligned(s, start)'
  BY <1>1, <1>5, SameRequests
<1>12. (\E y \in [0..Len(handled) -> 0..Len(replies)] : RepliesAligned(y))'
  <2> HIDE DEF m
  <2>1. /\ replies \in Seq(Nat) /\ Len(answered) \in Nat /\ Len(handled) \in Nat
        /\ end \in [0..Len(handled) -> 0..Len(replies)] /\ RepliesAligned(end)
        /\ m \in Nat /\ Len(answered) + 1 \in 1..Len(handled)
        /\ end[Len(answered) + 1] = m /\ m <= Len(replies)
        /\ replies' = Slice(replies, m, Len(replies)) /\ handled' = handled
        /\ Len(answered') = Len(answered) + 1
    BY <1>2, <1>3, <1>5, <1>6, <1>7
  <2>2. QED BY <2>1, ReplyRead
<1>13. QED BY <1>9, <1>10, <1>11, <1>12 DEF PacketsInv

LEMMA PacketsStep ==
  ASSUME NEW s, NEW start, IsStream(s, start),
         PacketsInv(s, start), [Next]_vars
  PROVE  PacketsInv(s, start)'
<1>1. CASE ReadData
  BY <1>1, ReadDataInv
<1>2. CASE ServiceEnd \/ PollEnd \/ WakeUp
  BY <1>2, ScheduleInv
<1>3. CASE HandlePacket
  BY <1>3, HandlePacketInv
<1>4. CASE ClientWrites
  BY <1>4, ClientWritesInv
<1>5. CASE ClientReads
  BY <1>5, ClientReadsInv
<1>6. CASE UNCHANGED vars
  <2>1. UNCHANGED <<pc, didSomething, readBufferSize, pending, inQueue, wire, sent,
                    replies, handled, answered>>
    BY <1>6 DEF vars
  <2>2. PacketTypes'
    BY <2>1 DEF PacketsInv, PacketTypes
  <2>3. RightSoFar'
    BY <2>1, SameRight DEF PacketsInv, RightSoFar
  <2>4. QED BY <2>1, <2>2, <2>3, SameRequests, SameReplies DEF PacketsInv
<1>7. QED BY <1>1, <1>2, <1>3, <1>4, <1>5, <1>6 DEF Next, Agent

-----------------------------------------------------------------------------
(* A round that has seen nothing leaves a read outstanding.                 *)
LEMMA KeepsReadingStep ==
  ASSUME NEW s, NEW start, IsStream(s, start),
         PacketsInv(s, start), KeepsReading, [Next]_vars
  PROVE  KeepsReading'
<1>1. readBufferSize \in Nat /\ readBufferSize >= Header /\ Len(inQueue) \in Nat
  BY HeaderWidth, LenProperties DEF KeepsReading, PacketsInv, PacketTypes
<1>2. CASE ReadData
  BY <1>2 DEF ReadData, KeepsReading
<1>3. CASE ServiceEnd
  BY <1>3 DEF ServiceEnd, KeepsReading
<1>4. CASE HandlePacket
  BY <1>4 DEF HandlePacket, KeepsReading
<1>5. CASE PollEnd
  <2>1. pc' = "service" /\ UNCHANGED <<pending, inQueue>>
    BY <1>5 DEF PollEnd
  <2>2. CASE Len(inQueue) < Width.Size /\ UNCHANGED readBufferSize
    BY <1>1, <2>1, <2>2, HeaderWidth DEF KeepsReading
  <2>3. CASE /\ Len(inQueue) >= Width.Size
             /\ PacketSize >= Width.Size /\ Len(inQueue) < PacketSize
             /\ readBufferSize' = Raised
    <3>1. PacketSize \in Nat
      BY <2>3, NextRequest
    <3>2. readBufferSize' >= Header /\ Len(inQueue) < readBufferSize'
      BY <1>1, <2>3, <3>1, HeaderWidth DEF Raised
    <3>3. QED BY <2>1, <3>2, HeaderWidth DEF KeepsReading
  <2>4. QED BY <1>5, <2>2, <2>3 DEF PollEnd
<1>6. CASE WakeUp
  BY <1>6 DEF WakeUp, KeepsReading
<1>7. CASE ClientWrites \/ ClientReads \/ UNCHANGED vars
  BY <1>7 DEF ClientWrites, ClientReads, vars, KeepsReading
<1>8. QED BY <1>2, <1>3, <1>4, <1>5, <1>6, <1>7 DEF Next, Agent

(* The inductive invariant.                                                 *)
IInv ==
  /\ KeepsReading
  /\ \E s, start : IsStream(s, start) /\ PacketsInv(s, start)

(* For any requests, any size of a read and any limit: inQueue followed by the pipe is, at every step of                 *)
(* pollControlPipe, a row of whole packets cut at its ends.                 *)
THEOREM PacketsInvariance == Spec => []IInv
<1>1. Init => IInv
  <2> SUFFICES ASSUME Init PROVE IInv
    OBVIOUS
  <2>1. PICK s, start : IsStream(s, start)
    BY StreamExists
  <2>2. PacketsInv(s, start)
    BY <2>1, InitInv
  <2>3. KeepsReading
    <3>1. Len(inQueue) = 0 /\ readBufferSize \in Nat /\ readBufferSize >= Header
      BY PacketsAssumption, HeaderWidth DEF Init
    <3>2. QED BY <3>1, HeaderWidth DEF Init, KeepsReading
  <2>4. QED BY <2>1, <2>2, <2>3 DEF IInv
<1>2. IInv /\ [Next]_vars => IInv'
  <2> SUFFICES ASSUME IInv, [Next]_vars PROVE IInv'
    OBVIOUS
  <2>1. PICK s, start : IsStream(s, start) /\ PacketsInv(s, start)
    BY DEF IInv
  <2>2. PacketsInv(s, start)'
    BY <2>1, PacketsStep
  <2>3. KeepsReading'
    BY <2>1, KeepsReadingStep DEF IInv
  <2>4. QED BY <2>1, <2>2, <2>3 DEF IInv
<1>3. QED BY <1>1, <1>2, PTL DEF Spec

(* Where each packet is written and read as a whole, the agent carries out  *)
(* the requests that were made, in order, and never fails on one, however   *)
(* the bytes are cut on their way; and every call gets the reply to its     *)
(* own request.                                                             *)
THEOREM PacketsStayIntact == Spec => []PacketsIntact
<1>1. Spec => []IInv
  BY PacketsInvariance
<1>2. IInv => PacketsIntact
  BY DEF IInv, PacketsInv, RightSoFar, RequestsAligned, PacketsIntact
<1>3. QED BY <1>1, <1>2, PTL

(* While the agent waits, a read of the control pipe is outstanding: even   *)
(* when a packet does not fit into the buffer, the limit has been raised    *)
(* before the agent goes to sleep, so that the rest can arrive.             *)
THEOREM AgentKeepsReading == Spec => []KeepsReading
<1>1. Spec => []IInv
  BY PacketsInvariance
<1>2. IInv => KeepsReading
  BY DEF IInv
<1>3. QED BY <1>1, <1>2, PTL
=============================================================================
