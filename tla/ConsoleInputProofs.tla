------------------------- MODULE ConsoleInputProofs -------------------------
(***************************************************************************)
(* The mouse, for any scripts, modes and sizes of the window, and however  *)
(* the input is cut: a double click is the second of two presses.          *)
(***************************************************************************)
EXTENDS ConsoleInput, StreamLemmas

IsSeq(s) == \E S : s \in Seq(S)

(* Two sequences in a row.                                                  *)
LEMMA InARow ==
  ASSUME NEW s, IsSeq(s), NEW t, IsSeq(t)
  PROVE  /\ IsSeq(s \o t) /\ Len(s) \in Nat /\ Len(t) \in Nat
         /\ DOMAIN s = 1..Len(s) /\ DOMAIN t = 1..Len(t)
         /\ DOMAIN (s \o t) = 1..(Len(s) + Len(t))
         /\ \A k \in 1..Len(s) : (s \o t)[k] = s[k]
         /\ \A k \in 1..Len(t) : (s \o t)[Len(s) + k] = t[k]
<1>1. PICK S : s \in Seq(S)
  BY DEF IsSeq
<1>2. PICK T : t \in Seq(T)
  BY DEF IsSeq
<1> DEFINE U == S \cup T
<1>3. s \in Seq(U) /\ t \in Seq(U)
  BY <1>1, <1>2
<1> HIDE DEF U
<1>4. s \o t \in Seq(U) /\ Len(s \o t) = Len(s) + Len(t)
  BY <1>3, ConcatProperties
<1>5. IsSeq(s \o t)
  BY <1>4 DEF IsSeq
<1>6. /\ Len(s) \in Nat /\ Len(t) \in Nat /\ DOMAIN s = 1..Len(s) /\ DOMAIN t = 1..Len(t)
      /\ DOMAIN (s \o t) = 1..Len(s \o t)
  BY <1>3, <1>4, LenProperties
<1>7. \A k \in 1..(Len(s) + Len(t)) : (s \o t)[k] = IF k <= Len(s) THEN s[k] ELSE t[k - Len(s)]
  BY <1>3, ConcatProperties
<1>8. \A k \in 1..Len(s) : (s \o t)[k] = s[k]
  BY <1>6, <1>7
<1>9. ASSUME NEW k \in 1..Len(t) PROVE (s \o t)[Len(s) + k] = t[k]
  <2>1. Len(s) + k \in 1..(Len(s) + Len(t)) /\ ~(Len(s) + k <= Len(s)) /\ (Len(s) + k) - Len(s) = k
    BY <1>6
  <2>2. (s \o t)[Len(s) + k] = t[(Len(s) + k) - Len(s)]
    BY <1>7, <2>1
  <2>3. QED BY <2>1, <2>2
<1>10. QED BY <1>4, <1>5, <1>6, <1>8, <1>9

LEMMA RowsOfThree ==
  ASSUME NEW s, IsSeq(s), NEW t, IsSeq(t), NEW u, IsSeq(u)
  PROVE  (s \o t) \o u = s \o (t \o u) /\ s \o <<>> = s /\ <<>> \o s = s
<1>1. PICK S, T, V : s \in Seq(S) /\ t \in Seq(T) /\ u \in Seq(V)
  BY DEF IsSeq
<1> DEFINE W == S \cup T \cup V
<1>2. s \in Seq(W) /\ t \in Seq(W) /\ u \in Seq(W)
  BY <1>1
<1> HIDE DEF W
<1>3. QED BY <1>2, ConcatAssociative, ConcatEmptySeq

LEMMA ShortIsSeq ==
  /\ IsSeq(<<>>) /\ Len(<<>>) = 0
  /\ \A a : IsSeq(<<a>>) /\ Len(<<a>>) = 1 /\ <<a>>[1] = a
  /\ \A a, b : IsSeq(<<a, b>>) /\ Len(<<a, b>>) = 2 /\ <<a, b>>[1] = a /\ <<a, b>>[2] = b
<1>1. IsSeq(<<>>) /\ Len(<<>>) = 0
  BY EmptySeq DEF IsSeq
<1>2. ASSUME NEW a PROVE IsSeq(<<a>>) /\ Len(<<a>>) = 1 /\ <<a>>[1] = a
  <2>1. <<a>> \in Seq({a})
    OBVIOUS
  <2>2. QED BY <2>1 DEF IsSeq
<1>3. ASSUME NEW a, NEW b
      PROVE  IsSeq(<<a, b>>) /\ Len(<<a, b>>) = 2 /\ <<a, b>>[1] = a /\ <<a, b>>[2] = b
  <2>1. <<a, b>> \in Seq({a, b})
    OBVIOUS
  <2>2. QED BY <2>1 DEF IsSeq
<1>4. QED BY <1>1, <1>2, <1>3

LEMMA ListIsSeq ==
  ASSUME NEW n \in Nat, NEW f, f = [i \in 1..n |-> f[i]]
  PROVE  IsSeq(f) /\ Len(f) = n /\ DOMAIN f = 1..n
<1>1. f \in Seq({f[i] : i \in 1..n})
  OBVIOUS
<1>2. IsSeq(f)
  BY <1>1 DEF IsSeq
<1>3. DOMAIN f = 1..n
  OBVIOUS
<1>4. Len(f) \in Nat /\ DOMAIN f = 1..Len(f)
  BY <1>1, LenProperties
<1>5. QED BY <1>2, <1>3, <1>4

-----------------------------------------------------------------------------
(* What the members know of the mouse records that have been made: which    *)
(* buttons are down in the last one, and which press may be the first of a  *)
(* double click.                                                            *)
Latest(heard, i) == \A j \in MouseRecords(heard) : j <= i

ButtonsKnown(heard, down) ==
  \/ MouseRecords(heard) = {} /\ down = {}
  \/ \E i \in MouseRecords(heard) : Latest(heard, i) /\ heard[i].buttons = down

ClickKnown(heard, down, last) ==
  last # NoClick =>
    \E first \in MouseRecords(heard) :
      /\ ~heard[first].double /\ Presses(heard, first) = {last.button}
      /\ heard[first].x = Within(last.x, Width) /\ heard[first].y = Within(last.y, Height)
      /\ last.button \in down \/ \E up \in MouseRecords(heard) : first < up

MouseKnown(heard, down, last) ==
  /\ IsSeq(heard) /\ TwoPresses(heard)
  /\ ButtonsKnown(heard, down) /\ ClickKnown(heard, down, last)

(* Records behind those there were: the presses before stay what they were. *)
LEMMA PressesStay ==
  ASSUME NEW s, IsSeq(s), NEW t, IsSeq(t)
  PROVE  /\ MouseRecords(s) = {k \in MouseRecords(s \o t) : k <= Len(s)}
         /\ \A k \in MouseRecords(s) :
              /\ k \in 1..Len(s) /\ (s \o t)[k] = s[k]
              /\ Presses(s \o t, k) = Presses(s, k)
<1> DEFINE u == s \o t
<1>1. /\ Len(s) \in Nat /\ Len(t) \in Nat /\ DOMAIN s = 1..Len(s)
      /\ DOMAIN u = 1..(Len(s) + Len(t)) /\ \A k \in 1..Len(s) : u[k] = s[k]
  BY InARow
<1> HIDE DEF u
<1>2. MouseRecords(s) = {k \in MouseRecords(u) : k <= Len(s)}
  <2>1. ASSUME NEW k \in MouseRecords(s) PROVE k \in MouseRecords(u) /\ k <= Len(s)
    <3>1. k \in 1..Len(s) /\ s[k].type = "mouse"
      BY <1>1 DEF MouseRecords
    <3>2. u[k] = s[k] /\ k \in DOMAIN u /\ k <= Len(s)
      BY <1>1, <3>1
    <3>3. QED BY <3>1, <3>2 DEF MouseRecords
  <2>2. ASSUME NEW k \in MouseRecords(u), k <= Len(s) PROVE k \in MouseRecords(s)
    <3>1. k \in DOMAIN u /\ u[k].type = "mouse"
      BY DEF MouseRecords
    <3>2. k \in 1..Len(s)
      BY <1>1, <2>2, <3>1
    <3>3. QED BY <1>1, <3>1, <3>2 DEF MouseRecords
  <2>3. QED BY <2>1, <2>2
<1>3. ASSUME NEW k \in MouseRecords(s)
      PROVE  k \in 1..Len(s) /\ u[k] = s[k] /\ Presses(u, k) = Presses(s, k)
  <2>1. k \in 1..Len(s) /\ u[k] = s[k]
    BY <1>1 DEF MouseRecords
  <2>2. \A i \in MouseRecords(u) : i < k => i \in MouseRecords(s)
    <3>1. \A i \in MouseRecords(u) : i \in Int
      BY <1>1 DEF MouseRecords
    <3>2. QED BY <1>1, <1>2, <2>1, <3>1
  <2>3. ASSUME NEW i \in MouseRecords(s)
        PROVE  (Precedes(u, i, k) <=> Precedes(s, i, k)) /\ u[i] = s[i]
    <3>1. u[i] = s[i]
      BY <1>1 DEF MouseRecords
    <3>2. MouseRecords(s) \subseteq MouseRecords(u)
      BY <1>2
    <3>3. QED BY <2>2, <3>1, <3>2 DEF Precedes
  <2>4. \A i \in MouseRecords(u) : Precedes(u, i, k) => i \in MouseRecords(s)
    BY <2>2 DEF Precedes
  <2>5. MouseRecords(s) \subseteq MouseRecords(u)
    BY <1>2
  <2>6. \A b : (\A i \in MouseRecords(u) : Precedes(u, i, k) => b \notin u[i].buttons)
                 <=> (\A i \in MouseRecords(s) : Precedes(s, i, k) => b \notin s[i].buttons)
    BY <2>3, <2>4, <2>5
  <2>7. Presses(u, k) = Presses(s, k)
    BY <2>1, <2>6 DEF Presses
  <2>8. QED BY <2>1, <2>7
<1>4. QED BY <1>2, <1>3 DEF u

(* What was so before stays so, of any records that follow.                 *)
LEMMA FirstOfStays ==
  ASSUME NEW s, IsSeq(s), NEW t, IsSeq(t), NEW first \in MouseRecords(s),
         NEW second \in MouseRecords(s), IsFirstOf(s, first, second)
  PROVE  IsFirstOf(s \o t, first, second)
<1> DEFINE u == s \o t
<1>1. /\ u[first] = s[first] /\ u[second] = s[second]
      /\ Presses(u, first) = Presses(s, first) /\ Presses(u, second) = Presses(s, second)
      /\ MouseRecords(s) \subseteq MouseRecords(u)
  BY PressesStay
<1> HIDE DEF u
<1>2. IsFirstOf(u, first, second)
  BY <1>1 DEF IsFirstOf
<1>3. QED BY <1>2 DEF u

(* Records of another kind.                                                 *)
LEMMA OthersKeepMouse ==
  ASSUME NEW heard, NEW down, NEW last, MouseKnown(heard, down, last),
         NEW t, IsSeq(t), MouseRecords(t) = {}
  PROVE  MouseKnown(heard \o t, down, last)
<1> DEFINE u == heard \o t
<1>1. /\ IsSeq(u) /\ Len(heard) \in Nat /\ Len(t) \in Nat /\ DOMAIN t = 1..Len(t)
      /\ DOMAIN u = 1..(Len(heard) + Len(t)) /\ \A k \in 1..Len(t) : u[Len(heard) + k] = t[k]
  BY InARow DEF MouseKnown
<1>2. /\ MouseRecords(heard) = {k \in MouseRecords(u) : k <= Len(heard)}
      /\ \A k \in MouseRecords(heard) :
           k \in 1..Len(heard) /\ u[k] = heard[k] /\ Presses(u, k) = Presses(heard, k)
  BY PressesStay DEF MouseKnown
<1>3. \A i, k \in MouseRecords(heard) : IsFirstOf(heard, i, k) => IsFirstOf(u, i, k)
  BY FirstOfStays DEF MouseKnown
<1> HIDE DEF u
<1>4. MouseRecords(u) = MouseRecords(heard)
  <2> SUFFICES ASSUME NEW k \in MouseRecords(u), ~(k <= Len(heard)) PROVE FALSE
    BY <1>2
  <2>1. k \in 1..(Len(heard) + Len(t)) /\ u[k].type = "mouse"
    BY <1>1 DEF MouseRecords
  <2>2. k - Len(heard) \in 1..Len(t) /\ Len(heard) + (k - Len(heard)) = k
    BY <1>1, <2>1
  <2>3. u[k] = t[k - Len(heard)]
    BY <1>1, <2>2
  <2>4. k - Len(heard) \in MouseRecords(t)
    BY <1>1, <2>1, <2>2, <2>3 DEF MouseRecords
  <2>5. QED BY <2>4
<1>5. TwoPresses(u)
  BY <1>2, <1>3, <1>4 DEF TwoPresses, MouseKnown
<1>6. ButtonsKnown(u, down)
  BY <1>2, <1>4 DEF ButtonsKnown, MouseKnown, Latest
<1>7. ClickKnown(u, down, last)
  BY <1>2, <1>4 DEF ClickKnown, MouseKnown
<1>8. QED BY <1>1, <1>5, <1>6, <1>7 DEF MouseKnown, u

(* The mouse record that scanMouseInput makes of a report.                  *)
LEMMA ReportKeepsMouse ==
  ASSUME NEW heard, NEW down, NEW last, MouseKnown(heard, down, last),
         NEW r, r.type = "mouse", NEW down2, r.buttons = down2, NEW last2,
         \/ ~r.double /\ last2 \in {NoClick, last}
         \/ /\ r.double /\ last2 = NoClick /\ last # NoClick
            /\ last.button \notin down /\ down2 = down \cup {last.button}
            /\ r.x = Within(last.x, Width) /\ r.y = Within(last.y, Height)
         \/ /\ ~r.double /\ last2 # NoClick
            /\ last2.button \notin down /\ down2 = down \cup {last2.button}
            /\ r.x = Within(last2.x, Width) /\ r.y = Within(last2.y, Height)
  PROVE  MouseKnown(heard \o <<r>>, down2, last2)
<1> DEFINE u == heard \o <<r>>
           n == Len(heard)
<1>1. /\ IsSeq(u) /\ n \in Nat /\ DOMAIN u = 1..(n + 1) /\ u[n + 1] = r
  <2>1. IsSeq(<<r>>) /\ Len(<<r>>) = 1 /\ <<r>>[1] = r
    BY ShortIsSeq
  <2>2. QED BY <2>1, InARow DEF MouseKnown
<1>2. /\ MouseRecords(heard) = {k \in MouseRecords(u) : k <= n}
      /\ \A k \in MouseRecords(heard) :
           k \in 1..n /\ u[k] = heard[k] /\ Presses(u, k) = Presses(heard, k)
  BY PressesStay, ShortIsSeq DEF MouseKnown
<1>3. \A i, k \in MouseRecords(heard) : IsFirstOf(heard, i, k) => IsFirstOf(u, i, k)
  BY FirstOfStays, ShortIsSeq DEF MouseKnown
<1> HIDE DEF u, n
<1>4. MouseRecords(u) = MouseRecords(heard) \cup {n + 1}
  <2>1. n + 1 \in MouseRecords(u)
    BY <1>1 DEF MouseRecords
  <2>2. ASSUME NEW k \in MouseRecords(u) PROVE k <= n \/ k = n + 1
    BY <1>1 DEF MouseRecords
  <2>3. QED BY <1>2, <2>1, <2>2
<1>5. ButtonsKnown(u, down2)
  <2>1. Latest(u, n + 1)
    BY <1>1, <1>2, <1>4 DEF Latest
  <2>2. QED BY <1>1, <1>4, <2>1 DEF ButtonsKnown
<1>6. ASSUME NEW b, b \notin down, down2 = down \cup {b} PROVE Presses(u, n + 1) = {b}
  <2>1. CASE MouseRecords(heard) = {} /\ down = {}
    <3>1. \A i \in MouseRecords(u) : ~Precedes(u, i, n + 1)
      BY <1>1, <1>4, <2>1 DEF Precedes
    <3>2. QED BY <1>1, <1>6, <2>1, <3>1 DEF Presses
  <2>2. CASE \E i \in MouseRecords(heard) : Latest(heard, i) /\ heard[i].buttons = down
    <3>1. PICK i \in MouseRecords(heard) : Latest(heard, i) /\ heard[i].buttons = down
      BY <2>2
    <3>2. i \in MouseRecords(u) /\ Precedes(u, i, n + 1) /\ u[i].buttons = down
      BY <1>1, <1>2, <1>4, <3>1 DEF Precedes, Latest
    <3>3. ASSUME NEW j \in MouseRecords(u), Precedes(u, j, n + 1) PROVE j = i
      <4>1. j \in MouseRecords(heard) /\ i \in MouseRecords(u)
        BY <1>1, <1>2, <1>4, <3>2, <3>3 DEF Precedes
      <4>2. j <= i /\ i <= j
        BY <3>1, <3>2, <3>3, <4>1 DEF Latest, Precedes
      <4>3. i \in Int /\ j \in Int
        BY <1>2, <4>1
      <4>4. QED BY <4>2, <4>3
    <3>4. \A c : (\A j \in MouseRecords(u) : Precedes(u, j, n + 1) => c \notin u[j].buttons)
                   <=> c \notin down
      BY <3>2, <3>3
    <3>5. Presses(u, n + 1) = {c \in down2 : c \notin down}
      BY <1>1, <3>4 DEF Presses
    <3>6. QED BY <1>6, <3>5
  <2>3. QED BY <2>1, <2>2 DEF MouseKnown, ButtonsKnown
<1>7. ASSUME last # NoClick
      PROVE  \E first \in MouseRecords(heard) :
               /\ ~u[first].double /\ Presses(u, first) = {last.button}
               /\ u[first].x = Within(last.x, Width) /\ u[first].y = Within(last.y, Height)
               /\ last.button \in down \/ \E up \in MouseRecords(heard) : first < up
  BY <1>2, <1>7 DEF MouseKnown, ClickKnown
<1>8. TwoPresses(u)
  <2>1. ASSUME NEW second \in MouseRecords(heard), u[second].double
        PROVE  \E first \in MouseRecords(u) : IsFirstOf(u, first, second)
    <3>1. \E first \in MouseRecords(heard) : IsFirstOf(heard, first, second)
      BY <1>2, <2>1 DEF MouseKnown, TwoPresses
    <3>2. QED BY <1>3, <1>4, <3>1
  <2>2. ASSUME r.double PROVE \E first \in MouseRecords(u) : IsFirstOf(u, first, n + 1)
    <3>1. /\ last # NoClick /\ last.button \notin down /\ down2 = down \cup {last.button}
          /\ r.x = Within(last.x, Width) /\ r.y = Within(last.y, Height)
      BY <2>2
    <3>2. PICK first \in MouseRecords(heard) :
            /\ ~u[first].double /\ Presses(u, first) = {last.button}
            /\ u[first].x = Within(last.x, Width) /\ u[first].y = Within(last.y, Height)
            /\ \E up \in MouseRecords(heard) : first < up
      BY <1>7, <3>1
    <3>3. Presses(u, n + 1) = {last.button}
      BY <1>6, <3>1
    <3>4. \E up \in MouseRecords(u) : first < up /\ up < n + 1
      BY <1>1, <1>2, <1>4, <3>2
    <3>5. IsFirstOf(u, first, n + 1)
      BY <1>1, <3>1, <3>2, <3>3, <3>4 DEF IsFirstOf
    <3>6. QED BY <1>4, <3>5
  <2>3. QED BY <1>1, <1>4, <2>1, <2>2 DEF TwoPresses
<1>9. ClickKnown(u, down2, last2)
  <2> SUFFICES ASSUME last2 # NoClick
               PROVE  \E first \in MouseRecords(u) :
                        /\ ~u[first].double /\ Presses(u, first) = {last2.button}
                        /\ u[first].x = Within(last2.x, Width)
                        /\ u[first].y = Within(last2.y, Height)
                        /\ \/ last2.button \in down2
                           \/ \E up \in MouseRecords(u) : first < up
    BY DEF ClickKnown
  <2>1. CASE last2 = last
    <3>1. PICK first \in MouseRecords(heard) :
            /\ ~u[first].double /\ Presses(u, first) = {last.button}
            /\ u[first].x = Within(last.x, Width) /\ u[first].y = Within(last.y, Height)
      BY <1>7, <2>1
    <3>2. first < n + 1
      BY <1>1, <1>2
    <3>3. QED BY <1>4, <2>1, <3>1, <3>2
  <2>2. CASE /\ ~r.double
             /\ last2.button \notin down /\ down2 = down \cup {last2.button}
             /\ r.x = Within(last2.x, Width) /\ r.y = Within(last2.y, Height)
    <3>1. Presses(u, n + 1) = {last2.button}
      BY <1>6, <2>2
    <3>2. QED BY <1>1, <1>4, <2>2, <3>1
  <2>3. QED BY <2>1, <2>2
<1>10. QED BY <1>1, <1>5, <1>8, <1>9 DEF MouseKnown, u

-----------------------------------------------------------------------------
(* One call of doWrite: what it has told the console and what it has not    *)
(* flushed yet are one row of records.                                      *)
StFields == {"records", "console", "dsrSent", "buttons", "click", "unheard", "quick",
             "flags", "mode"}

Told(st) == st.console \o st.records

Right(st) ==
  /\ DOMAIN st = StFields /\ IsSeq(st.console) /\ IsSeq(st.records)
  /\ st.unheard \/ MouseKnown(Told(st), st.buttons, st.click)

(* A step that adds records of other kinds.                                 *)
AddsOthers(st, u) ==
  /\ DOMAIN u = StFields /\ IsSeq(u.console) /\ IsSeq(u.records)
  /\ u.unheard = st.unheard /\ u.buttons = st.buttons /\ u.click = st.click
  /\ \E t : IsSeq(t) /\ MouseRecords(t) = {} /\ Told(u) = Told(st) \o t

LEMMA AddingIsRight ==
  ASSUME NEW st, Right(st), NEW u, AddsOthers(st, u)
  PROVE  Right(u)
<1>1. PICK t : IsSeq(t) /\ MouseRecords(t) = {} /\ Told(u) = Told(st) \o t
  BY DEF AddsOthers
<1>2. ASSUME MouseKnown(Told(st), st.buttons, st.click)
      PROVE  MouseKnown(Told(u), u.buttons, u.click)
  BY <1>1, <1>2, OthersKeepMouse DEF AddsOthers
<1>3. QED BY <1>2 DEF Right, AddsOthers

LEMMA AddingNothing ==
  ASSUME NEW st, Right(st), NEW u, DOMAIN u = StFields, IsSeq(u.console), IsSeq(u.records),
         u.unheard = st.unheard, u.buttons = st.buttons, u.click = st.click,
         Told(u) = Told(st)
  PROVE  AddsOthers(st, u)
<1>1. IsSeq(<<>>) /\ MouseRecords(<<>>) = {}
  BY ShortIsSeq DEF MouseRecords
<1>2. IsSeq(Told(st))
  BY InARow DEF Right, Told
<1>3. Told(u) = Told(st) \o <<>>
  BY <1>2, RowsOfThree, ShortIsSeq
<1>4. QED BY <1>1, <1>3 DEF AddsOthers

LEMMA AddingTwice ==
  ASSUME NEW st, Right(st), NEW u, AddsOthers(st, u), NEW v, AddsOthers(u, v)
  PROVE  AddsOthers(st, v)
<1>1. PICK t : IsSeq(t) /\ MouseRecords(t) = {} /\ Told(u) = Told(st) \o t
  BY DEF AddsOthers
<1>2. PICK w : IsSeq(w) /\ MouseRecords(w) = {} /\ Told(v) = Told(u) \o w
  BY DEF AddsOthers
<1>3. IsSeq(Told(st))
  BY InARow DEF Right, Told
<1>4. Told(v) = Told(st) \o (t \o w)
  BY <1>1, <1>2, <1>3, RowsOfThree
<1>5. IsSeq(t \o w) /\ MouseRecords(t \o w) = {}
  <2>1. /\ IsSeq(t \o w) /\ Len(t) \in Nat /\ Len(w) \in Nat /\ DOMAIN t = 1..Len(t)
        /\ DOMAIN w = 1..Len(w) /\ DOMAIN (t \o w) = 1..(Len(t) + Len(w))
        /\ \A k \in 1..Len(t) : (t \o w)[k] = t[k]
        /\ \A k \in 1..Len(w) : (t \o w)[Len(t) + k] = w[k]
    BY <1>1, <1>2, InARow
  <2> DEFINE x == t \o w
  <2> HIDE DEF x
  <2>2. ASSUME NEW k \in DOMAIN x PROVE x[k].type # "mouse"
    <3>1. CASE k <= Len(t)
      <4>1. k \in 1..Len(t) /\ x[k] = t[k]
        BY <2>1, <2>2, <3>1 DEF x
      <4>2. QED BY <1>1, <2>1, <4>1 DEF MouseRecords
    <3>2. CASE ~(k <= Len(t))
      <4>1. k \in 1..(Len(t) + Len(w))
        BY <2>1, <2>2 DEF x
      <4>2. k - Len(t) \in 1..Len(w) /\ Len(t) + (k - Len(t)) = k
        BY <2>1, <3>2, <4>1
      <4>3. x[k] = w[k - Len(t)]
        BY <2>1, <4>2 DEF x
      <4>4. QED BY <1>2, <2>1, <4>2, <4>3 DEF MouseRecords
    <3>3. QED BY <3>1, <3>2
  <2>3. QED BY <2>1, <2>2 DEF MouseRecords, x
<1>6. QED BY <1>4, <1>5 DEF AddsOthers

(* Records that are not the mouse's.                                        *)
LEMMA PuttingIsRight ==
  ASSUME NEW st, Right(st), NEW more, IsSeq(more), MouseRecords(more) = {}
  PROVE  AddsOthers(st, Put(st, more))
<1> DEFINE u == Put(st, more)
<1>1. /\ DOMAIN u = StFields /\ u.console = st.console /\ u.records = st.records \o more
      /\ u.unheard = st.unheard /\ u.buttons = st.buttons /\ u.click = st.click
  <2>1. DOMAIN st = StFields
    BY DEF Right
  <2> DEFINE r == st.records \o more
  <2>2. u = [st EXCEPT !.records = r]
    BY DEF Put
  <2>3. r = st.records \o more
    OBVIOUS
  <2> HIDE DEF r, u
  <2>4. /\ DOMAIN u = StFields /\ u.console = st.console /\ u.records = r
        /\ u.unheard = st.unheard /\ u.buttons = st.buttons /\ u.click = st.click
    BY <2>1, <2>2 DEF StFields
  <2>5. QED BY <2>3, <2>4
<1> HIDE DEF u
<1>2. IsSeq(u.console) /\ IsSeq(u.records)
  BY <1>1, InARow DEF Right
<1>3. Told(u) = Told(st) \o more
  <2>1. IsSeq(st.console) /\ IsSeq(st.records)
    BY DEF Right
  <2>2. (st.console \o st.records) \o more = st.console \o (st.records \o more)
    <3> DEFINE a == st.console
               b == st.records
    <3>1. IsSeq(a) /\ IsSeq(b)
      BY <2>1
    <3> HIDE DEF a, b
    <3>2. (a \o b) \o more = a \o (b \o more)
      BY <3>1, RowsOfThree
    <3>3. QED BY <3>2 DEF a, b
  <2>3. QED BY <1>1, <2>2 DEF Told
<1>4. AddsOthers(st, u)
  BY <1>1, <1>2, <1>3 DEF AddsOthers
<1>5. QED BY <1>4 DEF u

LEMMA FlushingIsRight ==
  ASSUME NEW st, Right(st)
  PROVE  LET u == flushInputRecords(st)
         IN AddsOthers(st, u) /\ u.records = <<>> /\ u.console = Told(st)
<1> DEFINE u == flushInputRecords(st)
<1>1. /\ DOMAIN u = StFields /\ u.console = Told(st) /\ u.records = <<>>
      /\ u.unheard = st.unheard /\ u.buttons = st.buttons /\ u.click = st.click
  BY DEF Right, StFields, flushInputRecords, Told
<1> HIDE DEF u
<1>2. IsSeq(Told(st))
  BY InARow DEF Right, Told
<1>3. IsSeq(u.records) /\ Told(u) = Told(st)
  BY <1>1, <1>2, ShortIsSeq, RowsOfThree DEF Told
<1>4. AddsOthers(st, u)
  BY <1>1, <1>2, <1>3, AddingNothing
<1>5. QED BY <1>1, <1>4 DEF u

(* What is written to the console past the records.                         *)
LEMMA WritingIsRight ==
  ASSUME NEW st, Right(st), NEW t, IsSeq(t), MouseRecords(t) = {}
  PROVE  LET f == flushInputRecords(st)
         IN AddsOthers(st, [f EXCEPT !.console = @ \o t])
<1> DEFINE f == flushInputRecords(st)
           u == [f EXCEPT !.console = @ \o t]
<1>1. AddsOthers(st, f) /\ f.records = <<>> /\ f.console = Told(st)
  BY FlushingIsRight
<1> HIDE DEF f
<1>2. /\ DOMAIN u = StFields /\ u.console = f.console \o t /\ u.records = <<>>
      /\ u.unheard = f.unheard /\ u.buttons = f.buttons /\ u.click = f.click
  BY <1>1 DEF AddsOthers, StFields
<1> HIDE DEF u
<1>3. IsSeq(Told(st)) /\ IsSeq(Told(st) \o t)
  BY InARow DEF Right, Told
<1>4. IsSeq(u.records) /\ IsSeq(u.console) /\ Told(u) = Told(st) \o t
  BY <1>1, <1>2, <1>3, ShortIsSeq, RowsOfThree DEF Told
<1>5. AddsOthers(st, u)
  BY <1>1, <1>2, <1>4 DEF AddsOthers
<1>6. QED BY <1>5 DEF u, f

-----------------------------------------------------------------------------
(* The records of a key.                                                    *)
LEMMA KeyIsNoMouse ==
  \A down, vk, ch, state : KeyRecord(down, vk, ch, state).type # "mouse"
BY DEF KeyRecord

LEMMA TogetherNoMouse ==
  ASSUME NEW s, IsSeq(s), MouseRecords(s) = {}, NEW t, IsSeq(t), MouseRecords(t) = {}
  PROVE  IsSeq(s \o t) /\ MouseRecords(s \o t) = {}
<1> DEFINE x == s \o t
<1>1. /\ IsSeq(x) /\ Len(s) \in Nat /\ Len(t) \in Nat /\ DOMAIN s = 1..Len(s)
      /\ DOMAIN t = 1..Len(t) /\ DOMAIN x = 1..(Len(s) + Len(t))
      /\ \A k \in 1..Len(s) : x[k] = s[k]
      /\ \A k \in 1..Len(t) : x[Len(s) + k] = t[k]
  BY InARow
<1> HIDE DEF x
<1>2. ASSUME NEW k \in DOMAIN x PROVE x[k].type # "mouse"
  <2>1. CASE k <= Len(s)
    <3>1. k \in 1..Len(s) /\ x[k] = s[k]
      BY <1>1, <1>2, <2>1
    <3>2. QED BY <1>1, <3>1 DEF MouseRecords
  <2>2. CASE ~(k <= Len(s))
    <3>1. k \in 1..(Len(s) + Len(t))
      BY <1>1, <1>2
    <3>2. k - Len(s) \in 1..Len(t) /\ Len(s) + (k - Len(s)) = k
      BY <1>1, <2>2, <3>1
    <3>3. x[k] = t[k - Len(s)]
      BY <1>1, <3>2
    <3>4. QED BY <1>1, <3>2, <3>3 DEF MouseRecords
  <2>3. QED BY <2>1, <2>2
<1>3. MouseRecords(x) = {}
  BY <1>2 DEF MouseRecords
<1>4. QED BY <1>1, <1>3 DEF x

LEMMA ListOfKeys ==
  ASSUME NEW n \in Nat, NEW f, f = [i \in 1..n |-> f[i]], \A i \in 1..n : f[i].type = "key"
  PROVE  IsSeq(f) /\ MouseRecords(f) = {}
<1>1. IsSeq(f) /\ DOMAIN f = 1..n
  BY ListIsSeq
<1>2. QED BY <1>1 DEF MouseRecords

LEMMA UnitsAreSeq ==
  ASSUME NEW code
  PROVE  IsSeq(encodeUtf16(code)) /\ Len(encodeUtf16(code)) \in Nat
<1>1. IsSeq(encodeUtf16(code))
  BY ShortIsSeq DEF encodeUtf16
<1>2. QED BY <1>1, InARow, ShortIsSeq

LEMMA CharsAreSeq ==
  ASSUME NEW vk, NEW code, NEW state
  PROVE  Len(EscapeChars(vk, code, state)) \in Nat
<1> DEFINE bits == {m \in DOMAIN ModifierBit : m \in state}
           mod  == 1 + (IF "shift" \in bits THEN 1 ELSE 0)
                     + (IF "alt" \in bits THEN 2 ELSE 0)
                     + (IF "ctrl" \in bits THEN 4 ELSE 0)
           semi == IF bits = {} THEN <<>> ELSE <<59, 48 + mod>>
           alt  == IF "alt" \in state THEN <<ESC>> ELSE <<>>
           numbered == <<ESC, 91>> \o decOfInt(EscapeNumber[vk]) \o semi \o <<126>>
           lettered == <<ESC, 91>> \o (IF bits = {} THEN <<>> ELSE <<49>>) \o semi
                         \o <<EscapeLetter[vk]>>
<1>1. \A s, t : IsSeq(s) /\ IsSeq(t) => IsSeq(s \o t)
  BY InARow
<1>2. IsSeq(semi) /\ IsSeq(alt) /\ IsSeq(decOfInt(EscapeNumber[vk]))
      /\ IsSeq(IF bits = {} THEN <<>> ELSE <<49>>)
  <2>1. IsSeq(semi)
    BY ShortIsSeq
  <2>2. IsSeq(alt)
    BY ShortIsSeq
  <2>3. IsSeq(decOfInt(EscapeNumber[vk]))
    BY ShortIsSeq DEF decOfInt
  <2>4. IsSeq(IF bits = {} THEN <<>> ELSE <<49>>)
    BY ShortIsSeq
  <2>5. QED BY <2>1, <2>2, <2>3, <2>4
<1>3. IsSeq(numbered)
  <2> HIDE DEF semi
  <2>1. IsSeq(<<ESC, 91>>) /\ IsSeq(<<126>>)
    BY ShortIsSeq
  <2>2. IsSeq(<<ESC, 91>> \o decOfInt(EscapeNumber[vk]))
    BY <1>1, <1>2, <2>1
  <2>3. IsSeq((<<ESC, 91>> \o decOfInt(EscapeNumber[vk])) \o semi)
    BY <1>1, <1>2, <2>2
  <2>4. QED BY <1>1, <2>1, <2>3
<1>4. IsSeq(lettered)
  <2> HIDE DEF semi
  <2> DEFINE one == IF bits = {} THEN <<>> ELSE <<49>>
  <2>1. IsSeq(<<ESC, 91>>) /\ IsSeq(<<EscapeLetter[vk]>>) /\ IsSeq(one)
    BY <1>2, ShortIsSeq
  <2> HIDE DEF one
  <2>2. IsSeq(<<ESC, 91>> \o one)
    BY <1>1, <2>1
  <2>3. IsSeq((<<ESC, 91>> \o one) \o semi)
    BY <1>1, <1>2, <2>2
  <2>4. IsSeq(((<<ESC, 91>> \o one) \o semi) \o <<EscapeLetter[vk]>>)
    BY <1>1, <2>1, <2>3
  <2>5. QED BY <2>4 DEF one
<1>5. IsSeq(alt \o <<127>>) /\ IsSeq(alt \o encodeUtf16(code)) /\ IsSeq(<<>>)
  <2> HIDE DEF alt
  <2>1. IsSeq(<<127>>) /\ IsSeq(encodeUtf16(code)) /\ IsSeq(<<>>)
    BY ShortIsSeq, UnitsAreSeq
  <2>2. QED BY <1>1, <1>2, <2>1
<1>6. IsSeq(<<ESC, 91, 90>>)
  <2>1. <<ESC, 91, 90>> \in Seq({ESC, 91, 90})
    OBVIOUS
  <2>2. QED BY <2>1 DEF IsSeq
<1>7. EscapeChars(vk, code, state) \in
        {numbered, lettered, alt \o <<127>>, <<ESC, 91, 90>>, <<>>, alt \o encodeUtf16(code)}
  <2> DEFINE last == IF vk = "BACK" THEN alt \o <<127>>
                     ELSE IF vk = "TAB" /\ "shift" \in state THEN <<ESC, 91, 90>>
                     ELSE IF code = 0 THEN <<>>
                     ELSE alt \o encodeUtf16(code)
  <2>1. EscapeChars(vk, code, state) = IF vk \in DOMAIN EscapeNumber THEN numbered
                                       ELSE IF vk \in DOMAIN EscapeLetter THEN lettered
                                       ELSE last
    BY DEF EscapeChars
  <2> HIDE DEF numbered, lettered, alt
  <2>2. QED BY <2>1
<1> HIDE DEF numbered, lettered, alt
<1>8. IsSeq(EscapeChars(vk, code, state))
  BY <1>3, <1>4, <1>5, <1>6, <1>7
<1>9. QED BY <1>8, InARow, ShortIsSeq

LEMMA HeldAreMany ==
  ASSUME NEW state
  PROVE  Len(Held(state)) \in Nat
<1> DEFINE one(m) == IF m \in state THEN <<m>> ELSE <<>>
<1>1. Held(state) = ((one("ctrl") \o one("alt")) \o one("ralt")) \o one("shift")
  BY DEF Held
<1>2. \A m : IsSeq(one(m))
  BY ShortIsSeq
<1> HIDE DEF one
<1>3. \A s, t : IsSeq(s) /\ IsSeq(t) => IsSeq(s \o t)
  BY InARow
<1>4. IsSeq(one("ctrl") \o one("alt"))
  BY <1>2, <1>3
<1>5. IsSeq((one("ctrl") \o one("alt")) \o one("ralt"))
  BY <1>2, <1>3, <1>4
<1>6. IsSeq(Held(state))
  BY <1>1, <1>2, <1>3, <1>5
<1>7. QED BY <1>6, InARow, ShortIsSeq

LEMMA KeyRecordsAreNoMouse ==
  ASSUME NEW down, NEW vk, NEW code, NEW state
  PROVE  /\ IsSeq(CPRecords(down, vk, code, state))
         /\ MouseRecords(CPRecords(down, vk, code, state)) = {}
         /\ IsSeq(EscapeRecords(vk, code, state))
         /\ MouseRecords(EscapeRecords(vk, code, state)) = {}
         /\ IsSeq(ModifiersDown(state)) /\ MouseRecords(ModifiersDown(state)) = {}
         /\ IsSeq(ModifiersUp(state)) /\ MouseRecords(ModifiersUp(state)) = {}
<1>1. IsSeq(CPRecords(down, vk, code, state)) /\ MouseRecords(CPRecords(down, vk, code, state)) = {}
  <2> DEFINE units == encodeUtf16(code)
             f == [i \in 1..Len(units) |-> KeyRecord(down, vk, units[i], state)]
  <2>1. Len(units) \in Nat
    BY UnitsAreSeq
  <2> HIDE DEF units
  <2>2. f = [i \in 1..Len(units) |-> f[i]] /\ \A i \in 1..Len(units) : f[i].type = "key"
    BY DEF KeyRecord
  <2> HIDE DEF f
  <2>3. IsSeq(f) /\ MouseRecords(f) = {}
    BY <2>1, <2>2, ListOfKeys
  <2>4. QED BY <2>3 DEF CPRecords, f, units
<1>2. IsSeq(EscapeRecords(vk, code, state)) /\ MouseRecords(EscapeRecords(vk, code, state)) = {}
  <2> DEFINE chars == EscapeChars(vk, code, state)
             f == [i \in 1..Len(chars) |-> KeyRecord(TRUE, "none", chars[i], {})]
  <2>1. Len(chars) \in Nat
    BY CharsAreSeq
  <2> HIDE DEF chars
  <2>2. f = [i \in 1..Len(chars) |-> f[i]] /\ \A i \in 1..Len(chars) : f[i].type = "key"
    BY DEF KeyRecord
  <2> HIDE DEF f
  <2>3. IsSeq(f) /\ MouseRecords(f) = {}
    BY <2>1, <2>2, ListOfKeys
  <2>4. QED BY <2>3 DEF EscapeRecords, f, chars
<1>3. IsSeq(ModifiersDown(state)) /\ MouseRecords(ModifiersDown(state)) = {}
  <2> DEFINE held == Held(state)
             f == [i \in 1..Len(held) |-> ModifierRecord(TRUE, held, i, i)]
  <2>1. Len(held) \in Nat
    BY HeldAreMany
  <2> HIDE DEF held
  <2>2. f = [i \in 1..Len(held) |-> f[i]] /\ \A i \in 1..Len(held) : f[i].type = "key"
    BY DEF KeyRecord, ModifierRecord
  <2> HIDE DEF f
  <2>3. IsSeq(f) /\ MouseRecords(f) = {}
    BY <2>1, <2>2, ListOfKeys
  <2>4. QED BY <2>3 DEF ModifiersDown, f, held
<1>4. IsSeq(ModifiersUp(state)) /\ MouseRecords(ModifiersUp(state)) = {}
  <2> DEFINE held == Held(state)
             n == Len(held)
             f == [i \in 1..n |-> ModifierRecord(FALSE, held, n + 1 - i, n - i)]
  <2>1. n \in Nat
    BY HeldAreMany
  <2> HIDE DEF held, n
  <2>2. f = [i \in 1..n |-> f[i]] /\ \A i \in 1..n : f[i].type = "key"
    BY DEF KeyRecord, ModifierRecord
  <2> HIDE DEF f
  <2>3. IsSeq(f) /\ MouseRecords(f) = {}
    BY <2>1, <2>2, ListOfKeys
  <2>4. QED BY <2>3 DEF ModifiersUp, f, n, held
<1>5. QED BY <1>1, <1>2, <1>3, <1>4

-----------------------------------------------------------------------------
(* What a key press adds.                                                   *)
LEMMA KeyPressAddsOthers ==
  ASSUME NEW st, Right(st), NEW vk, NEW chDown, NEW chUp, NEW state, NEW code, NEW vtState
  PROVE  AddsOthers(st, appendKeyPress(st, vk, chDown, chUp, state, code, vtState))
<1> DEFINE escapes == "escape" \in st.flags
           middle  == IF escapes THEN EscapeRecords(vk, code, vtState)
                      ELSE CPRecords(TRUE, vk, chDown, state)
           all == ((ModifiersDown(state) \o middle) \o CPRecords(FALSE, vk, chUp, state))
                    \o ModifiersUp(state)
           two == <<Message(TRUE, vk), Message(FALSE, vk)>>
           navigates == escapes /\ Navigates(vk) /\ Held(state) = <<>>
           u == appendKeyPress(st, vk, chDown, chUp, state, code, vtState)
<1>1. IsSeq(middle) /\ MouseRecords(middle) = {}
  BY KeyRecordsAreNoMouse
<1>2. /\ IsSeq(CPRecords(FALSE, vk, chUp, state))
      /\ MouseRecords(CPRecords(FALSE, vk, chUp, state)) = {}
      /\ IsSeq(ModifiersDown(state)) /\ MouseRecords(ModifiersDown(state)) = {}
      /\ IsSeq(ModifiersUp(state)) /\ MouseRecords(ModifiersUp(state)) = {}
  BY KeyRecordsAreNoMouse
<1>3. u = IF navigates THEN [flushInputRecords(st) EXCEPT !.console = @ \o two]
          ELSE Put(st, all)
  BY DEF appendKeyPress
<1> HIDE DEF middle
<1>4. IsSeq(all) /\ MouseRecords(all) = {}
  <2>1. IsSeq(ModifiersDown(state) \o middle) /\ MouseRecords(ModifiersDown(state) \o middle) = {}
    BY <1>1, <1>2, TogetherNoMouse
  <2>2. /\ IsSeq((ModifiersDown(state) \o middle) \o CPRecords(FALSE, vk, chUp, state))
        /\ MouseRecords((ModifiersDown(state) \o middle) \o CPRecords(FALSE, vk, chUp, state)) = {}
    BY <1>2, <2>1, TogetherNoMouse
  <2>3. QED BY <1>2, <2>2, TogetherNoMouse
<1>5. IsSeq(two) /\ MouseRecords(two) = {}
  <2> DEFINE a == Message(TRUE, vk)
             b == Message(FALSE, vk)
  <2>1. a.type = "message" /\ b.type = "message"
    BY DEF Message
  <2> HIDE DEF a, b
  <2>2. IsSeq(<<a, b>>)
    BY ShortIsSeq
  <2>3. MouseRecords(<<a, b>>) = {}
    BY <2>1 DEF MouseRecords
  <2>4. QED BY <2>2, <2>3 DEF a, b
<1> HIDE DEF all, two, navigates, u
<1>6. CASE navigates
  <2>1. AddsOthers(st, [flushInputRecords(st) EXCEPT !.console = @ \o two])
    BY <1>5, WritingIsRight
  <2>2. QED BY <1>3, <1>6, <2>1 DEF u
<1>7. CASE ~navigates
  <2>1. AddsOthers(st, Put(st, all))
    BY <1>4, PuttingIsRight
  <2>2. QED BY <1>3, <1>7, <2>1 DEF u
<1>8. QED BY <1>6, <1>7

LEMMA CharacterIsRight ==
  ASSUME NEW st, Right(st), NEW s, NEW altEscape
  PROVE  Right(appendUtf8Char(st, s, altEscape))
<1> DEFINE u == appendUtf8Char(st, s, altEscape)
<1>1. \A vk, chDown, chUp, state, code, vtState :
        Right(appendKeyPress(st, vk, chDown, chUp, state, code, vtState))
  BY KeyPressAddsOthers, AddingIsRight
<1>2. u = st \/ \E vk, chDown, chUp, state, code, vtState :
                  u = appendKeyPress(st, vk, chDown, chUp, state, code, vtState)
  BY DEF appendUtf8Char
<1> HIDE DEF u
<1>3. Right(u)
  BY <1>1, <1>2
<1>4. QED BY <1>3 DEF u

LEMMA MatchIsRight ==
  ASSUME NEW st, Right(st), NEW key
  PROVE  Right(appendMatch(st, key))
<1> DEFINE u == appendMatch(st, key)
<1>1. \A vk, chDown, chUp, state, code, vtState :
        Right(appendKeyPress(st, vk, chDown, chUp, state, code, vtState))
  BY KeyPressAddsOthers, AddingIsRight
<1>2. \E vk, chDown, chUp, state, code, vtState :
        u = appendKeyPress(st, vk, chDown, chUp, state, code, vtState)
  BY DEF appendMatch
<1> HIDE DEF u
<1>3. Right(u)
  BY <1>1, <1>2
<1>4. QED BY <1>3 DEF u

(* Ctrl-C goes past the records, which are flushed.                         *)
LEMMA CtrlCIsRight ==
  ASSUME NEW st, Right(st)
  PROVE  Right(CtrlC(flushInputRecords(st)))
<1> DEFINE f == flushInputRecords(st)
           r == [type |-> "ctrl-c"]
           t == <<r>>
<1>1. IsSeq(t) /\ MouseRecords(t) = {}
  <2>1. r.type = "ctrl-c"
    OBVIOUS
  <2> HIDE DEF r
  <2>2. IsSeq(t) /\ MouseRecords(t) = {}
    BY <2>1, ShortIsSeq DEF MouseRecords
  <2>3. QED BY <2>2
<1>2. IsSeq(f.console)
  <2>1. AddsOthers(st, f)
    BY FlushingIsRight
  <2> HIDE DEF f
  <2>2. QED BY <2>1 DEF AddsOthers
<1>3. Append(f.console, r) = f.console \o t
  <2> HIDE DEF f, r
  <2>1. PICK S : f.console \in Seq(S)
    BY <1>2 DEF IsSeq
  <2>2. f.console \in Seq(S \cup {r}) /\ r \in S \cup {r}
    BY <2>1
  <2>3. QED BY <2>2, AppendIsConcat
<1>4. CtrlC(f) = [f EXCEPT !.console = @ \o t]
  <2> HIDE DEF f, t
  <2>1. QED BY <1>3 DEF CtrlC
<1>5. AddsOthers(st, [f EXCEPT !.console = @ \o t])
  <2> HIDE DEF t
  <2>1. QED BY <1>1, WritingIsRight
<1>6. Right([f EXCEPT !.console = @ \o t])
  <2> HIDE DEF f, t
  <2>1. QED BY <1>5, AddingIsRight
<1> HIDE DEF f, t
<1>7. Right(CtrlC(f))
  BY <1>4, <1>6
<1>8. QED BY <1>7 DEF f

LEMMA ReplyIsRight ==
  ASSUME NEW st, Right(st)
  PROVE  Right(GotReply(st))
<1> DEFINE u == GotReply(st)
<1>1. /\ DOMAIN u = StFields /\ u.console = st.console /\ u.records = st.records
      /\ u.unheard = st.unheard /\ u.buttons = st.buttons /\ u.click = st.click
  BY DEF Right, StFields, GotReply
<1> HIDE DEF u
<1>2. Right(u)
  BY <1>1 DEF Right, Told
<1>3. QED BY <1>2 DEF u

(* A mouse report: recorded, or unheard.                                    *)
LEMMA ReportIsRight ==
  ASSUME NEW st, Right(st), NEW m
  PROVE  Right(scanMouseInput(st, m))
<1> DEFINE wheel  == Bit(m.flags, 64)
           clicked == Clicked(st, m)
           new    == IF wheel THEN st ELSE clicked
           double == ~wheel /\ DoubleClicks(st, m)
           record == MouseRecord(new, m, double, wheel)
           button == m.flags % 4
<1>1. /\ DOMAIN clicked = StFields /\ clicked.console = st.console
      /\ clicked.records = st.records /\ clicked.unheard = st.unheard
      /\ clicked.buttons = IF button = 3 THEN {} ELSE IF m.release THEN st.buttons \ {button}
                           ELSE st.buttons \cup {button}
      /\ clicked.click = IF button # 3 /\ m.release /\ button # st.click.button THEN NoClick
                         ELSE IF ~NewlyPressed(st, m) THEN st.click
                         ELSE IF DoubleClicks(st, m) THEN NoClick
                         ELSE [button |-> button, x |-> m.x, y |-> m.y]
  <2>1. DOMAIN st = StFields
    BY DEF Right
  <2> DEFINE h == IF button = 3 THEN {} ELSE IF m.release THEN st.buttons \ {button}
                  ELSE st.buttons \cup {button}
             n == IF button # 3 /\ m.release /\ button # st.click.button THEN NoClick
                  ELSE IF ~NewlyPressed(st, m) THEN st.click
                  ELSE IF DoubleClicks(st, m) THEN NoClick
                  ELSE [button |-> button, x |-> m.x, y |-> m.y]
  <2>2. clicked = [st EXCEPT !.buttons = h, !.click = n]
    BY DEF Clicked
  <2> HIDE DEF h, n, clicked
  <2>3. /\ DOMAIN clicked = StFields /\ clicked.console = st.console
        /\ clicked.records = st.records /\ clicked.unheard = st.unheard
        /\ clicked.buttons = h /\ clicked.click = n
    BY <2>1, <2>2 DEF StFields
  <2>4. QED BY <2>3 DEF h, n
<1> HIDE DEF clicked
<1>2. /\ DOMAIN new = StFields /\ new.console = st.console
      /\ new.records = st.records /\ new.unheard = st.unheard
  BY <1>1 DEF Right
<1>3. record.type = "mouse" /\ record.buttons = new.buttons /\ record.double = double
      /\ record.x = Within(m.x, Width) /\ record.y = Within(m.y, Height)
  <2> HIDE DEF new, double, wheel
  <2>1. QED BY DEF MouseRecord
<1>4. \/ ~double /\ new.click \in {NoClick, st.click}
      \/ /\ double /\ new.click = NoClick /\ st.click # NoClick
         /\ st.click.button \notin st.buttons
         /\ new.buttons = st.buttons \cup {st.click.button}
         /\ record.x = Within(st.click.x, Width) /\ record.y = Within(st.click.y, Height)
      \/ /\ ~double /\ new.click # NoClick
         /\ new.click.button \notin st.buttons
         /\ new.buttons = st.buttons \cup {new.click.button}
         /\ record.x = Within(new.click.x, Width) /\ record.y = Within(new.click.y, Height)
  <2> HIDE DEF record
  <2> DEFINE pressed == [button |-> button, x |-> m.x, y |-> m.y]
  <2>1. pressed.button = button /\ pressed.x = m.x /\ pressed.y = m.y /\ pressed # NoClick
    <3>1. "x" \in DOMAIN pressed /\ "x" \notin DOMAIN NoClick
      BY DEF NoClick
    <3>2. QED BY <3>1
  <2>2. CASE wheel
    BY <2>2
  <2>3. CASE ~wheel /\ ~NewlyPressed(st, m)
    BY <1>1, <2>3 DEF DoubleClicks
  <2>4. CASE ~wheel /\ NewlyPressed(st, m)
    <3>1. button # 3 /\ ~m.release /\ button \notin st.buttons
      BY <2>4 DEF NewlyPressed
    <3>2. /\ new = clicked /\ clicked.buttons = st.buttons \cup {button}
          /\ clicked.click = IF DoubleClicks(st, m) THEN NoClick ELSE pressed
          /\ double = DoubleClicks(st, m)
      BY <1>1, <2>4, <3>1 DEF DoubleClicks
    <3>3. DoubleClicks(st, m) => st.click = pressed
      BY DEF DoubleClicks
    <3> HIDE DEF pressed, new, button, double
    <3>4. /\ new.buttons = st.buttons \cup {button} /\ button \notin st.buttons
          /\ new.click = IF double THEN NoClick ELSE pressed
      BY <3>1, <3>2
    <3>5. record.x = Within(pressed.x, Width) /\ record.y = Within(pressed.y, Height)
      BY <1>3, <2>1
    <3>6. CASE double
      <4>1. st.click = pressed
        BY <3>2, <3>3, <3>6
      <4>2. st.click # NoClick /\ st.click.button = button
        BY <2>1, <4>1
      <4>3. record.x = Within(st.click.x, Width) /\ record.y = Within(st.click.y, Height)
        BY <3>5, <4>1
      <4>4. QED BY <3>4, <3>6, <4>2, <4>3
    <3>7. CASE ~double
      <4>1. new.click = pressed
        BY <3>4, <3>7
      <4>2. new.click # NoClick /\ new.click.button = button
        BY <2>1, <4>1
      <4>3. record.x = Within(new.click.x, Width) /\ record.y = Within(new.click.y, Height)
        BY <3>5, <4>1
      <4>4. QED BY <3>4, <3>7, <4>2, <4>3
    <3>8. QED BY <3>6, <3>7
  <2>5. QED BY <2>2, <2>3, <2>4
<1>5. CASE wheel /\ m.flags % 4 > 1
  BY <1>5 DEF scanMouseInput, clicked
<1>6. CASE ~(wheel /\ m.flags % 4 > 1) /\ "mouse" \in st.flags /\ "quickEdit" \notin st.flags
  <2>1. scanMouseInput(st, m) = Put(new, <<record>>)
    BY <1>6 DEF scanMouseInput, clicked
  <2> HIDE DEF new, record, double, wheel, button
  <2> DEFINE rs == st.records \o <<record>>
             u == Put(new, <<record>>)
  <2>2. u = [new EXCEPT !.records = rs]
    BY <1>2 DEF Put
  <2>3. rs = st.records \o <<record>>
    OBVIOUS
  <2>4. IsSeq(<<record>>)
    BY ShortIsSeq
  <2>5. IsSeq(st.console) /\ IsSeq(st.records)
    BY DEF Right
  <2>6. IsSeq(rs)
    BY <2>4, <2>5, InARow
  <2>7. st.console \o rs = Told(st) \o <<record>>
    <3> DEFINE a == st.console
               b == st.records
    <3>1. IsSeq(a) /\ IsSeq(b)
      BY <2>5
    <3> HIDE DEF a, b
    <3>2. (a \o b) \o <<record>> = a \o (b \o <<record>>)
      BY <2>4, <3>1, RowsOfThree
    <3>3. QED BY <3>2 DEF a, b, Told
  <2> HIDE DEF rs, u
  <2>8. /\ DOMAIN u = StFields /\ u.console = st.console /\ u.records = rs
        /\ u.unheard = st.unheard /\ u.buttons = new.buttons /\ u.click = new.click
    BY <1>2, <2>2 DEF StFields
  <2>9. Told(u) = Told(st) \o <<record>>
    BY <2>7, <2>8 DEF Told
  <2>10. ASSUME MouseKnown(Told(st), st.buttons, st.click)
         PROVE  MouseKnown(Told(st) \o <<record>>, new.buttons, new.click)
    <3> DEFINE heard == Told(st)
               down == st.buttons
               last == st.click
               down2 == new.buttons
               last2 == new.click
               r == record
    <3>1. MouseKnown(heard, down, last)
      BY <2>10
    <3>2. /\ r.type = "mouse" /\ r.buttons = down2
          /\ \/ ~r.double /\ last2 \in {NoClick, last}
             \/ /\ r.double /\ last2 = NoClick /\ last # NoClick
                /\ last.button \notin down /\ down2 = down \cup {last.button}
                /\ r.x = Within(last.x, Width) /\ r.y = Within(last.y, Height)
             \/ /\ ~r.double /\ last2 # NoClick
                /\ last2.button \notin down /\ down2 = down \cup {last2.button}
                /\ r.x = Within(last2.x, Width) /\ r.y = Within(last2.y, Height)
      BY <1>3, <1>4
    <3> HIDE DEF heard, down, last, down2, last2, r
    <3>3. MouseKnown(heard \o <<r>>, down2, last2)
      BY <3>1, <3>2, ReportKeepsMouse
    <3>4. QED BY <3>3 DEF heard, down, last, down2, last2, r
  <2>11. Right(u)
    <3>1. Right(st)
      OBVIOUS
    <3>2. QED BY <2>5, <2>6, <2>8, <2>9, <2>10, <3>1 DEF Right
  <2>12. QED BY <2>1, <2>11 DEF u
<1>7. CASE /\ ~(wheel /\ m.flags % 4 > 1)
           /\ ~("mouse" \in st.flags /\ "quickEdit" \notin st.flags)
  <2>1. scanMouseInput(st, m) = [new EXCEPT !.unheard = TRUE]
    BY <1>7 DEF scanMouseInput, clicked
  <2> HIDE DEF new, record, double, wheel, button
  <2> DEFINE u == [new EXCEPT !.unheard = TRUE]
  <2>2. /\ DOMAIN u = StFields /\ u.console = st.console /\ u.records = st.records
        /\ u.unheard = TRUE
    BY <1>2 DEF StFields
  <2> HIDE DEF u
  <2>3. IsSeq(st.console) /\ IsSeq(st.records)
    BY DEF Right
  <2>4. Right(u)
    BY <2>2, <2>3 DEF Right
  <2>5. QED BY <2>1, <2>4 DEF u
<1>8. QED BY <1>5, <1>6, <1>7

-----------------------------------------------------------------------------
(* Lengths of matches are numbers.                                          *)
LEMMA SmallestIsIn ==
  ASSUME NEW T, T \subseteq Nat, T # {}
  PROVE  Min(T) \in T
<1>1. \E x \in T : \A y \in T : x <= y
  BY SmallestOf
<1>2. QED BY <1>1 DEF Min

LEMMA LargestIsIn ==
  ASSUME NEW n \in Nat, NEW T, T \subseteq 0..n, T # {}
  PROVE  Max(T) \in T
<1> DEFINE U == {n - x : x \in T}
<1>1. U \subseteq Nat /\ U # {}
  <2>1. \A x \in T : n - x \in Nat
    OBVIOUS
  <2>2. QED BY <2>1
<1>2. \E u \in U : \A v \in U : u <= v
  <2> HIDE DEF U
  <2>1. QED BY <1>1, SmallestOf
<1>3. PICK x \in T : \A v \in U : n - x <= v
  BY <1>2
<1>4. ASSUME NEW y \in T PROVE x >= y
  <2>1. n - x <= n - y
    BY <1>3
  <2>2. QED BY <2>1
<1>5. QED BY <1>3, <1>4 DEF Max

LEMMA AfterRunIsInt ==
  ASSUME NEW run, run.most \in Nat, NEW s, Len(s) \in Nat, NEW at \in Int
  PROVE  AfterRun(run, s, at) \in Int
<1> DEFINE T == {run.most} \cup
                {i \in 0..run.most : at + i > Len(s) \/ s[at + i] \notin run.of}
           n == Min(T)
<1>1. T \subseteq Nat /\ T # {}
  OBVIOUS
<1>2. n \in Nat
  <2> HIDE DEF T
  <2>1. QED BY <1>1, SmallestIsIn
<1>3. AfterRun(run, s, at) = IF at <= 0 THEN at
                             ELSE IF at > Len(s) THEN -1
                             ELSE IF n < run.least THEN 0 ELSE at + n
  BY DEF AfterRun
<1> HIDE DEF n
<1>4. QED BY <1>2, <1>3

LEMMA MatchIsInt ==
  ASSUME NEW pattern, Len(pattern) \in Nat, \A k \in 1..Len(pattern) : pattern[k].most \in Nat,
         NEW s, Len(s) \in Nat
  PROVE  Match(pattern, s) \in Int
<1> DEFINE At(g, m) == g = [k \in 0..m |-> IF k = 0 THEN 1
                                           ELSE AfterRun(pattern[k], s, g[k - 1])]
           Ints(g, m) == \A k \in 0..m : g[k] \in Int
           n == Len(pattern)
           g0 == CHOOSE g : At(g, n)
           T == {m \in Nat : m <= n => \E g : At(g, m)}
<1>1. Match(pattern, s) = IF g0[n] > 0 THEN g0[n] - 1 ELSE g0[n]
  BY DEF Match
<1>2. 0 \in T
  <2> DEFINE g == [k \in 0..0 |-> 1]
  <2>1. At(g, 0)
    OBVIOUS
  <2>2. QED BY <2>1
<1>3. ASSUME NEW m \in Nat, m \in T PROVE m + 1 \in T
  <2> SUFFICES ASSUME m + 1 <= n PROVE \E g : At(g, m + 1)
    OBVIOUS
  <2>1. PICK g : At(g, m)
    BY <1>3
  <2> DEFINE h == [k \in 0..(m + 1) |-> IF k <= m THEN g[k]
                                        ELSE AfterRun(pattern[m + 1], s, g[m])]
  <2>2. ASSUME NEW k \in 0..(m + 1)
        PROVE  h[k] = IF k = 0 THEN 1 ELSE AfterRun(pattern[k], s, h[k - 1])
    <3>1. CASE k = 0
      BY <2>1, <3>1
    <3>2. CASE k # 0 /\ k <= m
      <4>1. g[k] = AfterRun(pattern[k], s, g[k - 1])
        BY <2>1, <3>2
      <4>2. h[k] = g[k] /\ h[k - 1] = g[k - 1]
        BY <3>2
      <4> HIDE DEF h
      <4>3. QED BY <3>2, <4>1, <4>2
    <3>3. CASE k = m + 1
      <4>1. h[k] = AfterRun(pattern[m + 1], s, g[m]) /\ h[k - 1] = g[m] /\ k # 0
        BY <3>3
      <4> HIDE DEF h
      <4>2. QED BY <3>3, <4>1
    <3>4. QED BY <3>1, <3>2, <3>3
  <2>3. At(h, m + 1)
    <3>1. h = [k \in 0..(m + 1) |-> h[k]]
      OBVIOUS
    <3> HIDE DEF h
    <3>2. QED BY <2>2, <3>1
  <2> HIDE DEF h, At
  <2>4. QED BY <2>3
<1> HIDE DEF T
<1>4. n \in T
  BY <1>2, <1>3, Induction
<1>5. At(g0, n)
  <2>1. \E g : At(g, n)
    BY <1>4 DEF T
  <2> HIDE DEF At
  <2>2. QED BY <2>1
<1> HIDE DEF g0
<1> DEFINE U == {m \in Nat : m <= n => g0[m] \in Int}
<1>6. 0 \in U
  BY <1>5
<1>7. ASSUME NEW m \in Nat, m \in U PROVE m + 1 \in U
  <2> SUFFICES ASSUME m + 1 <= n PROVE g0[m + 1] \in Int
    OBVIOUS
  <2>1. m + 1 \in 0..n /\ m + 1 # 0 /\ (m + 1) - 1 = m /\ m + 1 \in 1..n
    OBVIOUS
  <2>2. g0[m + 1] = AfterRun(pattern[m + 1], s, g0[m])
    BY <1>5, <2>1
  <2>3. g0[m] \in Int /\ pattern[m + 1].most \in Nat
    BY <1>7, <2>1
  <2>4. QED BY <2>2, <2>3, AfterRunIsInt
<1> HIDE DEF U
<1>8. n \in U
  BY <1>6, <1>7, Induction
<1>9. g0[n] \in Int
  BY <1>8 DEF U
<1>10. QED BY <1>1, <1>9

LEMMA MatchesAreInts ==
  ASSUME NEW s, Len(s) \in Nat
  PROVE  /\ matchDsr(s) \in Int /\ Match(Mouse1006, s) \in Int
         /\ Match(Mouse1015, s) \in Int /\ Match(MouseDefault, s) \in Int
<1>1. \A b : One(b).most \in Nat
  BY DEF One, Run
<1>2. Number.most \in Nat /\ Sign.most \in Nat /\ AnyByte.most \in Nat
      /\ Run({77, 109}, 1, 1).most \in Nat
  BY DEF Number, Sign, AnyByte, Run
<1> DEFINE R == {One(ESC), One(91), One(59), One(60), One(77), One(82), Number, Sign, AnyByte,
                 Run({77, 109}, 1, 1)}
<1>3. \A r \in R : r.most \in Nat
  BY <1>1, <1>2
<1>4. /\ Dsr \in Seq(R) /\ Mouse1006 \in Seq(R) /\ Mouse1015 \in Seq(R)
      /\ MouseDefault \in Seq(R)
  BY DEF Dsr, Mouse1006, Mouse1015, MouseDefault
<1> HIDE DEF R
<1>5. ASSUME NEW p \in Seq(R) PROVE Match(p, s) \in Int
  <2>1. Len(p) \in Nat /\ \A k \in 1..Len(p) : p[k] \in R
    OBVIOUS
  <2>2. QED BY <1>3, <2>1, MatchIsInt
<1>6. QED BY <1>4, <1>5 DEF matchDsr

LEMMA ReportsAreInts ==
  ASSUME NEW s, Len(s) \in Nat
  PROVE  matchMouseRecord(s).len \in Int
<1> DEFINE m06 == Match(Mouse1006, s)
           m15 == Match(Mouse1015, s)
           m0  == Match(MouseDefault, s)
           r   == matchMouseRecord(s)
<1>1. m06 \in Int /\ m15 \in Int /\ m0 \in Int
  BY MatchesAreInts
<1>2. r.len \in {m06, m15, m0, -1}
  <2> HIDE DEF m06, m15, m0
  <2>1. QED BY DEF matchMouseRecord, Report, m06, m15, m0
<1>3. QED BY <1>1, <1>2

LEMMA LookupIsInt ==
  ASSUME NEW s, Len(s) \in Nat
  PROVE  lookupKey(s).len \in Int
<1> DEFINE T == {0} \cup {i \in 1..Len(s) : SubSeq(s, 1, i) \in DOMAIN inputMap}
<1>1. T \subseteq 0..Len(s) /\ T # {}
  OBVIOUS
<1> DEFINE key == IF Max(T) = 0 THEN NoKey ELSE inputMap[SubSeq(s, 1, Max(T))]
           more == s \in InnerNodes
<1>2. lookupKey(s) = [len |-> Max(T), key |-> key, incomplete |-> more]
  BY DEF lookupKey
<1> HIDE DEF T, key, more
<1>3. Max(T) \in Int
  <2>1. Max(T) \in T
    BY <1>1, LargestIsIn
  <2>2. Max(T) \in 0..Len(s)
    BY <1>1, <2>1, Zenon
  <2>3. QED BY <2>2
<1>4. QED BY <1>2, <1>3

-----------------------------------------------------------------------------
(* One scan: a number of bytes, and a state that is right.                  *)
Scanned(r) == r.used \in Int /\ Right(r.st)

LEMMA TookAndMore ==
  ASSUME NEW st, Right(st), NEW n \in Int
  PROVE  Scanned(Took(n, st)) /\ Scanned(More(st))
BY DEF Scanned, Took, More

LEMMA CharIsScanned ==
  ASSUME NEW st, Right(st), NEW s, Len(s) \in Nat
  PROVE  Scanned(ScanChar(st, s))
<1> DEFINE alt == AltLength(s)
           len == utf8CharLength(s[1])
           one == appendUtf8Char(st, SubSeq(s, 2, 1 + alt), TRUE)
           two == appendUtf8Char(st, SubSeq(s, 1, len), FALSE)
           u   == ScanChar(st, s)
<1>1. \A b : utf8CharLength(b) \in Int
  BY DEF utf8CharLength
<1>2. alt \in Int /\ len \in Int
  BY <1>1 DEF AltLength
<1>3. Right(one) /\ Right(two)
  BY CharacterIsRight
<1>4. u = IF alt > 0 THEN IF 1 + alt > Len(s) THEN More(st) ELSE Took(1 + alt, one)
          ELSE IF len = 0 THEN Took(1, st)
          ELSE IF len > Len(s) THEN More(st)
          ELSE Took(len, two)
  BY DEF ScanChar
<1> HIDE DEF alt, len, one, two, u
<1>5. Scanned(Took(1 + alt, one)) /\ Scanned(Took(1, st)) /\ Scanned(Took(len, two))
      /\ Scanned(More(st))
  BY <1>2, <1>3, TookAndMore
<1>6. Scanned(u)
  BY <1>4, <1>5
<1>7. QED BY <1>6 DEF u

LEMMA MapIsScanned ==
  ASSUME NEW st, Right(st), NEW s, Len(s) \in Nat, NEW isEof
  PROVE  Scanned(ScanMap(st, s, isEof))
<1> DEFINE found == lookupKey(s)
           u == ScanMap(st, s, isEof)
<1>1. found.len \in Int
  BY LookupIsInt
<1>2. Right(appendMatch(st, found.key))
  BY MatchIsRight
<1>3. u = IF found.incomplete /\ ~isEof THEN More(st)
          ELSE IF found.len > 0 THEN Took(found.len, appendMatch(st, found.key))
          ELSE ScanChar(st, s)
  BY DEF ScanMap
<1> HIDE DEF found, u
<1>4. Scanned(More(st)) /\ Scanned(Took(found.len, appendMatch(st, found.key)))
      /\ Scanned(ScanChar(st, s))
  BY <1>1, <1>2, TookAndMore, CharIsScanned
<1>5. Scanned(u)
  BY <1>3, <1>4
<1>6. QED BY <1>5 DEF u

LEMMA InputIsScanned ==
  ASSUME NEW st, Right(st), NEW s, Len(s) \in Nat, NEW isEof
  PROVE  Scanned(scanInput(st, s, isEof))
<1> DEFINE dsr   == matchDsr(s)
           mouse == matchMouseRecord(s)
           ctrlC == s[1] = 3 /\ "processed" \in st.mode
           u == scanInput(st, s, isEof)
<1>1. dsr \in Int /\ mouse.len \in Int
  BY MatchesAreInts, ReportsAreInts
<1>2. Right(CtrlC(flushInputRecords(st))) /\ Right(GotReply(st)) /\ Right(scanMouseInput(st, mouse))
  BY CtrlCIsRight, ReplyIsRight, ReportIsRight
<1>3. u = IF ctrlC THEN Took(1, CtrlC(flushInputRecords(st)))
          ELSE IF dsr > 0 THEN Took(dsr, GotReply(st))
          ELSE IF dsr = -1 /\ ~isEof THEN More(st)
          ELSE IF mouse.len > 0 THEN Took(mouse.len, scanMouseInput(st, mouse))
          ELSE IF mouse.len = -1 /\ ~isEof THEN More(st)
          ELSE ScanMap(st, s, isEof)
  BY DEF scanInput
<1> HIDE DEF dsr, mouse, ctrlC, u
<1>4. /\ Scanned(Took(1, CtrlC(flushInputRecords(st)))) /\ Scanned(Took(dsr, GotReply(st)))
      /\ Scanned(More(st)) /\ Scanned(Took(mouse.len, scanMouseInput(st, mouse)))
      /\ Scanned(ScanMap(st, s, isEof))
  <2>1. 1 \in Int
    OBVIOUS
  <2>2. QED BY <1>1, <1>2, <2>1, TookAndMore, MapIsScanned
<1>5. Scanned(u)
  BY <1>3, <1>4
<1>6. QED BY <1>5 DEF u

(* The scans of one call.                                                   *)
Sound(done) ==
  DOMAIN done = {"st", "rest", "more"} /\ Right(done.st) /\ IsSeq(done.rest)

LEMMA RestIsSeq ==
  ASSUME NEW s, IsSeq(s), NEW n \in Int
  PROVE  IsSeq(SubSeq(s, n + 1, Len(s)))
         /\ (n \in 0..Len(s) => IsSeq(SubSeq(s, 1, n)))
<1>1. PICK S : s \in Seq(S)
  BY DEF IsSeq
<1> DEFINE T == {s[i] : i \in (n + 1)..Len(s)} \cup {s[i] : i \in 1..n}
<1>2. Len(s) \in Int /\ n + 1 \in Int /\ 1 \in Int
  BY <1>1
<1>3. (\A i \in (n + 1)..Len(s) : s[i] \in T) /\ \A i \in 1..n : s[i] \in T
  OBVIOUS
<1> HIDE DEF T
<1>4. SubSeq(s, n + 1, Len(s)) \in Seq(T) /\ SubSeq(s, 1, n) \in Seq(T)
  BY <1>2, <1>3, SubSeqProperties
<1>5. QED BY <1>4 DEF IsSeq

LEMMA ScanningIsSound ==
  ASSUME NEW done, Sound(done), NEW isEof
  PROVE  Sound(ScanOne(done, isEof))
<1> DEFINE r == scanInput(done.st, done.rest, isEof)
           rest == SubSeq(done.rest, r.used + 1, Len(done.rest))
           u == ScanOne(done, isEof)
<1>1. DOMAIN done = {"st", "rest", "more"} /\ Right(done.st) /\ IsSeq(done.rest)
  BY DEF Sound
<1>2. Len(done.rest) \in Nat
  BY <1>1, InARow
<1>3. r.used \in Int /\ Right(r.st)
  BY <1>1, <1>2, InputIsScanned DEF Scanned
<1>4. IsSeq(rest)
  <2> HIDE DEF r
  <2>1. QED BY <1>1, <1>3, RestIsSeq
<1>5. u \in {done, [done EXCEPT !.more = TRUE], [done EXCEPT !.st = r.st, !.rest = rest]}
  <2> HIDE DEF r
  <2>1. u \in {done, Advance(done, r)}
    BY DEF ScanOne, r
  <2>2. Advance(done, r) = IF r.used = -1 THEN [done EXCEPT !.more = TRUE]
                           ELSE [done EXCEPT !.st = r.st, !.rest = rest]
    BY <1>1 DEF Advance
  <2>3. QED BY <2>1, <2>2
<1> HIDE DEF r, rest, u
<1>6. Sound([done EXCEPT !.more = TRUE])
  BY <1>1 DEF Sound
<1>7. Sound([done EXCEPT !.st = r.st, !.rest = rest])
  BY <1>1, <1>3, <1>4 DEF Sound
<1>8. Sound(u)
  BY <1>5, <1>6, <1>7
<1>9. QED BY <1>8 DEF u

LEMMA ScanIsSound ==
  ASSUME NEW st, Right(st), NEW s, IsSeq(s), NEW isEof
  PROVE  LET done == Scan(st, s, isEof)
         IN Right(done.st) /\ IsSeq(done.rest) /\ done.st.records = <<>>
<1> DEFINE start == [st |-> st, rest |-> s, more |-> FALSE]
           After(g, m) == g = [n \in 0..m |-> IF n = 0 THEN start
                                              ELSE ScanOne(g[n - 1], isEof)]
           last == Len(s)
           g0 == CHOOSE g : After(g, last)
           T == {m \in Nat : \E g : After(g, m)}
<1>1. Scan(st, s, isEof) = [g0[last] EXCEPT !.st = flushInputRecords(@)]
  BY DEF Scan
<1>2. last \in Nat
  BY InARow
<1>3. 0 \in T
  <2> DEFINE g == [n \in 0..0 |-> start]
  <2>1. After(g, 0)
    OBVIOUS
  <2>2. QED BY <2>1
<1>4. ASSUME NEW m \in Nat, m \in T PROVE m + 1 \in T
  <2>1. PICK g : After(g, m)
    BY <1>4
  <2> DEFINE h == [n \in 0..(m + 1) |-> IF n <= m THEN g[n] ELSE ScanOne(g[m], isEof)]
  <2>2. ASSUME NEW n \in 0..(m + 1)
        PROVE  h[n] = IF n = 0 THEN start ELSE ScanOne(h[n - 1], isEof)
    <3> HIDE DEF start
    <3>1. CASE n = 0
      <4>1. g[0] = start
        BY <2>1
      <4>2. QED BY <3>1, <4>1
    <3>2. CASE n # 0 /\ n <= m
      <4>1. g[n] = ScanOne(g[n - 1], isEof)
        BY <2>1, <3>2
      <4>2. h[n] = g[n] /\ h[n - 1] = g[n - 1]
        BY <3>2
      <4> HIDE DEF h
      <4>3. QED BY <3>2, <4>1, <4>2
    <3>3. CASE n = m + 1
      <4>1. h[n] = ScanOne(g[m], isEof) /\ h[n - 1] = g[m] /\ n # 0
        BY <3>3
      <4> HIDE DEF h
      <4>2. QED BY <3>3, <4>1
    <3>4. QED BY <3>1, <3>2, <3>3
  <2>3. After(h, m + 1)
    <3>1. h = [n \in 0..(m + 1) |-> h[n]]
      OBVIOUS
    <3> HIDE DEF h, start
    <3>2. QED BY <2>2, <3>1
  <2> HIDE DEF h, After
  <2>4. \E f : After(f, m + 1)
    BY <2>3
  <2>5. QED BY <2>4
<1> HIDE DEF T
<1>5. last \in T
  BY <1>2, <1>3, <1>4, Induction
<1>6. After(g0, last)
  <2>1. \E g : After(g, last)
    BY <1>5 DEF T
  <2> HIDE DEF After
  <2>2. QED BY <2>1
<1> HIDE DEF g0, last
<1> DEFINE U == {m \in Nat : m <= last => Sound(g0[m])}
<1>7. 0 \in U
  <2>1. g0[0] = start
    BY <1>2, <1>6
  <2>2. Sound(start)
    BY DEF Sound
  <2> HIDE DEF start
  <2>3. QED BY <2>1, <2>2
<1>8. ASSUME NEW m \in Nat, m \in U PROVE m + 1 \in U
  <2> SUFFICES ASSUME m + 1 <= last PROVE Sound(g0[m + 1])
    OBVIOUS
  <2>1. m + 1 \in 0..last /\ m + 1 # 0 /\ (m + 1) - 1 = m
    BY <1>2
  <2>2. g0[m + 1] = ScanOne(g0[m], isEof)
    <3> HIDE DEF start
    <3>1. QED BY <1>6, <2>1
  <2>3. Sound(g0[m])
    BY <1>2, <1>8
  <2>4. QED BY <2>2, <2>3, ScanningIsSound
<1> HIDE DEF U
<1>9. last \in U
  BY <1>2, <1>7, <1>8, Induction
<1>10. Sound(g0[last])
  BY <1>2, <1>9 DEF U
<1> DEFINE end == g0[last]
           flushed == flushInputRecords(end.st)
           done == Scan(st, s, isEof)
<1>11. done = [end EXCEPT !.st = flushed]
  BY <1>1
<1> HIDE DEF end, done, After
<1>12. DOMAIN end = {"st", "rest", "more"} /\ Right(end.st) /\ IsSeq(end.rest)
  BY <1>10 DEF Sound, end
<1>13. Right(flushed) /\ flushed.records = <<>>
  <2>1. AddsOthers(end.st, flushed) /\ flushed.records = <<>>
    BY <1>12, FlushingIsRight
  <2> HIDE DEF flushed
  <2>2. QED BY <1>12, <2>1, AddingIsRight
<1> HIDE DEF flushed
<1>14. done.st = flushed /\ done.rest = end.rest
  BY <1>11, <1>12
<1>15. QED BY <1>12, <1>13, <1>14 DEF done

-----------------------------------------------------------------------------
(* The invariant: the input is rows of bytes, and the members know the      *)
(* mouse as the console has heard it.                                       *)
BytesCarried ==
  script \in Seq(Units) /\ replies \subseteq Units /\ IsSeq(wire) /\ IsSeq(byteQueue)

MouseHeard(heard, down, last, missed) ==
  IsSeq(heard) /\ (missed \/ MouseKnown(heard, down, last))

HeardInv == BytesCarried /\ MouseHeard(console, buttons, click, unheard)

LEMMA WrittenIsHeard ==
  ASSUME HeardInv, NEW s, IsSeq(s), NEW isEof, NEW quick, NEW nowFlags
  PROVE  LET done == doWrite(s, isEof, quick, nowFlags)
         IN /\ IsSeq(done.rest)
            /\ MouseHeard(done.st.console, done.st.buttons, done.st.click, done.st.unheard)
<1> DEFINE st == [records |-> <<>>, console |-> console, dsrSent |-> dsrSent,
                  buttons |-> buttons, click |-> click, unheard |-> unheard, quick |-> quick,
                  flags |-> nowFlags, mode |-> mode]
           done == doWrite(s, isEof, quick, nowFlags)
           u == done.st
<1>1. IsSeq(console) /\ (unheard \/ MouseKnown(console, buttons, click))
  BY DEF HeardInv, MouseHeard
<1>2. /\ DOMAIN st = StFields /\ st.console = console /\ st.records = <<>>
      /\ st.unheard = unheard /\ st.buttons = buttons /\ st.click = click
  BY DEF StFields
<1>3. done = Scan(st, s, isEof)
  BY DEF doWrite
<1> HIDE DEF st, done
<1>4. Told(st) = console /\ IsSeq(st.records)
  BY <1>1, <1>2, ShortIsSeq, RowsOfThree DEF Told
<1>5. Right(st)
  BY <1>1, <1>2, <1>4 DEF Right
<1>6. Right(u) /\ IsSeq(done.rest) /\ u.records = <<>>
  BY <1>3, <1>5, ScanIsSound
<1>7. Told(u) = u.console
  <2>1. IsSeq(u.console)
    BY <1>6 DEF Right
  <2>2. QED BY <1>6, <2>1, ShortIsSeq, RowsOfThree DEF Told
<1>8. MouseHeard(u.console, u.buttons, u.click, u.unheard)
  BY <1>6, <1>7 DEF Right, MouseHeard
<1>9. QED BY <1>6, <1>8 DEF done

LEMMA NothingIsHeard == MouseHeard(<<>>, {}, NoClick, FALSE)
<1>1. IsSeq(<<>>) /\ MouseRecords(<<>>) = {}
  BY ShortIsSeq DEF MouseRecords
<1>2. QED BY <1>1 DEF MouseHeard, MouseKnown, TwoPresses, ButtonsKnown, ClickKnown

LEMMA InitIsHeard == Init => HeardInv
<1> SUFFICES ASSUME Init PROVE HeardInv
  OBVIOUS
<1>1. script \in Seq(Units) /\ replies \subseteq Units
  BY InputAssumption DEF Init, Units
<1>2. IsSeq(wire) /\ IsSeq(byteQueue)
  BY ShortIsSeq DEF Init
<1>3. MouseHeard(console, buttons, click, unheard)
  BY NothingIsHeard DEF Init
<1>4. QED BY <1>1, <1>2, <1>3 DEF HeardInv, BytesCarried

LEMMA UnitsAreBytes == \A u \in Units : IsSeq(u.bytes)
BY InputAssumption DEF IsSeq

LEMMA TypeIsHeard ==
  ASSUME HeardInv, Type PROVE HeardInv'
<1>1. /\ script # <<>> /\ script \in Seq(Units) /\ replies \subseteq Units
      /\ IsSeq(wire) /\ IsSeq(byteQueue)
  BY DEF HeardInv, BytesCarried, Type
<1>2. Head(script) \in Units /\ Tail(script) \in Seq(Units)
  BY <1>1, HeadTailProperties
<1>3. script' = Tail(script) /\ replies' = replies /\ wire' = wire \o Head(script).bytes /\ UNCHANGED inputVars
  BY DEF Type
<1>4. IsSeq(Head(script).bytes)
  BY <1>2, UnitsAreBytes
<1>5. IsSeq(wire')
  BY <1>1, <1>3, <1>4, InARow
<1>6. BytesCarried'
  BY <1>1, <1>2, <1>3, <1>5 DEF BytesCarried, inputVars
<1>7. QED BY <1>3, <1>6 DEF HeardInv, inputVars

LEMMA ReplyIsHeard ==
  ASSUME HeardInv, Reply PROVE HeardInv'
<1>1. script \in Seq(Units) /\ replies \subseteq Units /\ IsSeq(wire) /\ IsSeq(byteQueue)
  BY DEF HeardInv, BytesCarried
<1>2. PICK unit \in replies : wire' = wire \o unit.bytes
  BY DEF Reply
<1>3. IsSeq(unit.bytes)
  <2>1. unit \in Units
    BY <1>1
  <2>2. QED BY <2>1, UnitsAreBytes
<1>4. IsSeq(wire')
  BY <1>1, <1>2, <1>3, InARow
<1>5. script' = script /\ replies' = replies /\ UNCHANGED inputVars
  BY DEF Reply
<1>6. BytesCarried'
  BY <1>1, <1>4, <1>5 DEF BytesCarried, inputVars
<1>7. QED BY <1>5, <1>6 DEF HeardInv, inputVars

LEMMA PollConinIsHeard ==
  ASSUME HeardInv, pollConinPipe PROVE HeardInv'
<1>1. script \in Seq(Units) /\ replies \subseteq Units /\ IsSeq(wire) /\ IsSeq(byteQueue)
  BY DEF HeardInv, BytesCarried
<1>2. PICK n \in 1..Len(wire), quick \in Quick :
        writeInput(SubSeq(wire, 1, n), quick) /\ wire' = SubSeq(wire, n + 1, Len(wire))
  BY DEF pollConinPipe
<1> DEFINE input == byteQueue \o SubSeq(wire, 1, n)
           done == doWrite(input, FALSE, quick, flags)
           u == done.st
<1>3. Len(wire) \in Nat /\ n \in Int /\ n \in 0..Len(wire)
  BY <1>1, InARow
<1>4. IsSeq(wire') /\ IsSeq(SubSeq(wire, 1, n))
  BY <1>1, <1>2, <1>3, RestIsSeq
<1>5. IsSeq(input)
  BY <1>1, <1>4, InARow
<1>6. IsSeq(done.rest) /\ MouseHeard(u.console, u.buttons, u.click, u.unheard)
  <2> HIDE DEF input
  <2>1. QED BY <1>5, WrittenIsHeard
<1>7. Written(u) /\ byteQueue' = done.rest
  BY <1>2 DEF writeInput
<1>8. script' = script /\ replies' = replies
  BY DEF pollConinPipe, terminalVars
<1> HIDE DEF done
<1>9. MouseHeard(console', buttons', click', unheard')
  BY <1>6, <1>7 DEF Written
<1>10. BytesCarried'
  BY <1>1, <1>4, <1>6, <1>7, <1>8 DEF BytesCarried
<1>11. QED BY <1>9, <1>10 DEF HeardInv

LEMMA PollTimeoutIsHeard ==
  ASSUME HeardInv, PollTimeout PROVE HeardInv'
<1>1. script \in Seq(Units) /\ replies \subseteq Units /\ IsSeq(wire) /\ IsSeq(byteQueue)
  BY DEF HeardInv, BytesCarried
<1>2. script' = script /\ replies' = replies /\ wire' = wire
  BY DEF PollTimeout, terminalVars
<1>3. CASE FlushDue
  <2>1. PICK quick \in Quick :
          Written(doWrite(byteQueue, TRUE, quick, mode).st) /\ byteQueue' = <<>>
    BY <1>3 DEF PollTimeout
  <2> DEFINE u == doWrite(byteQueue, TRUE, quick, mode).st
  <2>2. MouseHeard(u.console, u.buttons, u.click, u.unheard)
    BY <1>1, WrittenIsHeard
  <2>3. Written(u)
    BY <2>1
  <2> HIDE DEF u
  <2>4. MouseHeard(console', buttons', click', unheard')
    BY <2>2, <2>3 DEF Written
  <2>5. BytesCarried'
    BY <1>1, <1>2, <2>1, ShortIsSeq DEF BytesCarried
  <2>6. QED BY <2>4, <2>5 DEF HeardInv
<1>4. CASE ~FlushDue
  <2>1. UNCHANGED inputVars
    BY <1>4 DEF PollTimeout
  <2>2. BytesCarried'
    BY <1>1, <1>2, <2>1 DEF BytesCarried, inputVars
  <2>3. QED BY <2>1, <2>2 DEF HeardInv, inputVars
<1>5. QED BY <1>3, <1>4

LEMMA OthersAreHeard ==
  ASSUME HeardInv, Tick \/ SetMode \/ UNCHANGED vars PROVE HeardInv'
<1>1. script' = script /\ replies' = replies /\ wire' = wire /\ byteQueue' = byteQueue
      /\ UNCHANGED <<buttons, click, console, unheard>>
  BY DEF Tick, SetMode, vars, terminalVars, inputVars
<1>2. QED BY <1>1 DEF HeardInv, BytesCarried

LEMMA NextIsHeard == HeardInv /\ [Next]_vars => HeardInv'
<1> SUFFICES ASSUME HeardInv, [Next]_vars PROVE HeardInv'
  OBVIOUS
<1>1. CASE Type
  BY <1>1, TypeIsHeard
<1>2. CASE Reply
  BY <1>2, ReplyIsHeard
<1>3. CASE pollConinPipe
  BY <1>3, PollConinIsHeard
<1>4. CASE PollTimeout
  BY <1>4, PollTimeoutIsHeard
<1>5. CASE Tick \/ SetMode \/ UNCHANGED vars
  BY <1>5, OthersAreHeard
<1>6. QED BY <1>1, <1>2, <1>3, <1>4, <1>5 DEF Next

(* HeardInv is inductive.                                                   *)
THEOREM MouseInvariance == Spec => []HeardInv
<1>1. QED BY InitIsHeard, NextIsHeard, PTL DEF Spec

(* Of any reports, wherever the bytes are cut and however the child changes *)
(* its modes: a record marked as a double click is the second of two        *)
(* presses of one button at one place, with the mouse heard in between.     *)
THEOREM DoubleClickIsRight == Spec => []DoubleClickIsTwoPresses
<1>1. HeardInv => DoubleClickIsTwoPresses
  BY DEF HeardInv, MouseHeard, MouseKnown, DoubleClickIsTwoPresses
<1>2. QED BY <1>1, MouseInvariance, PTL
=============================================================================
