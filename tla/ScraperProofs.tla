---------------------------- MODULE ScraperProofs ----------------------------
(***************************************************************************)
(* The scraper, for any sizes of the terminal, the window and the buffer,  *)
(* and any texts: no call of a resize is refused and the window ends with  *)
(* the terminal's size; what a scrape reads lies inside the buffer; when   *)
(* all is told, the terminal's cursor is where the console's is.           *)
(***************************************************************************)
EXTENDS Scraper, StreamLemmas

(* The greatest and the least of a few numbers, or of many below a bound.   *)
LEMMA MaxOf ==
  ASSUME NEW a \in Int, NEW b \in Int
  PROVE  /\ Max({a, b}) = IF a >= b THEN a ELSE b
         /\ Min({a, b}) = IF a <= b THEN a ELSE b
<1>1. Max({a, b}) = IF a >= b THEN a ELSE b
  <2> DEFINE m == IF a >= b THEN a ELSE b
             Is(x) == \A y \in {a, b} : x >= y
  <2>1. m \in {a, b} /\ Is(m)
    OBVIOUS
  <2>2. \A x \in {a, b} : Is(x) => x = m
    OBVIOUS
  <2>3. Max({a, b}) = CHOOSE x \in {a, b} : Is(x)
    BY DEF Max
  <2> HIDE DEF Is, m
  <2>4. QED BY <2>1, <2>2, <2>3 DEF m
<1>2. Min({a, b}) = IF a <= b THEN a ELSE b
  <2> DEFINE m == IF a <= b THEN a ELSE b
             Is(x) == \A y \in {a, b} : x <= y
  <2>1. m \in {a, b} /\ Is(m)
    OBVIOUS
  <2>2. \A x \in {a, b} : Is(x) => x = m
    OBVIOUS
  <2>3. Min({a, b}) = CHOOSE x \in {a, b} : Is(x)
    BY DEF Min
  <2> HIDE DEF Is, m
  <2>4. QED BY <2>1, <2>2, <2>3 DEF m
<1>3. QED BY <1>1, <1>2

LEMMA MaxExists ==
  ASSUME NEW S, S \subseteq Int, S # {}, NEW b \in Int, \A x \in S : x <= b
  PROVE  Max(S) \in S
<1> DEFINE T == {b - x : x \in S}
<1>1. T \subseteq Nat /\ T # {}
  <2>1. ASSUME NEW x \in S PROVE b - x \in Nat
    OBVIOUS
  <2>2. QED BY <2>1
<1>2. PICK t \in T : \A u \in T : t <= u
  BY <1>1, SmallestOf
<1>3. PICK x \in S : t = b - x
  BY <1>2
<1>4. \A y \in S : x >= y
  BY <1>2, <1>3
<1>5. QED BY <1>4 DEF Max

LEMMA MinExists ==
  ASSUME NEW S, S \subseteq Int, NEW m \in S, \A x \in S : m <= x
  PROVE  Min(S) = m
<1> DEFINE Is(x) == \A y \in S : x <= y
<1>1. Is(m) /\ \A x \in S : Is(x) => x = m
  OBVIOUS
<1>2. Min(S) = CHOOSE x \in S : Is(x)
  BY DEF Min
<1> HIDE DEF Is
<1>3. QED BY <1>1, <1>2

-----------------------------------------------------------------------------
(* A console's window and cursor are in its buffer, and its window is lower *)
(* than a buffer that is tracked.                                           *)
ConFields == {"modern", "w", "h", "rows", "top", "winW", "winH", "x", "y", "visible"}

Window(c) ==
  /\ c.w \in Int /\ c.h \in Int /\ c.top \in Int /\ c.winW \in Int /\ c.winH \in Int
  /\ c.y \in Int
  /\ 0 <= c.top /\ c.top + c.winH <= c.h
  /\ 0 <= c.y /\ c.y < c.h
  /\ 1 <= c.winW /\ 1 <= c.winH
  /\ c.winW <= c.w /\ c.winH < BUFFER_LINE_COUNT

Console(c) == DOMAIN c = ConFields /\ Window(c)

(* Other cells in the same buffer.                                          *)
SameShape(c, d) ==
  /\ DOMAIN d = DOMAIN c /\ d.w = c.w /\ d.h = c.h /\ d.top = c.top
  /\ d.winW = c.winW /\ d.winH = c.winH /\ d.y = c.y

LEMMA ShapeIsEnough ==
  ASSUME NEW c, NEW d, Console(c), SameShape(c, d)
  PROVE  Console(d)
BY DEF Console, Window, SameShape

LEMMA ClearingKeepsShape ==
  ASSUME NEW c, Console(c), NEW first, NEW count
  PROVE  SameShape(c, clearLines(c, first, count))
BY DEF Console, SameShape, clearLines, ConFields

LEMMA InfoIsWindow ==
  ASSUME NEW c, Console(c)
  PROVE  /\ Window(Info(c)) /\ Info(c).h = c.h /\ Info(c).top = c.top
         /\ Info(c).winW = c.winW /\ Info(c).winH = c.winH
BY DEF Console, Window, Info

(* The scraper's members: no line is dirty behind the buffer's end, and     *)
(* there is no marker in direct mode.                                       *)
ScrFields == {"lines", "syncRow", "counter", "scraped", "scrolled", "maxBuffered",
              "dirtyTop", "dirty", "directMode", "ptySize"}

Members(s) ==
  /\ DOMAIN s = ScrFields
  /\ s.syncRow \in Int /\ s.scraped \in Int /\ s.scrolled \in Int
  /\ s.dirtyTop \in Int /\ s.dirty \in Int
  /\ s.ptySize \in Sizes /\ s.directMode \in BOOLEAN
  /\ s.dirty <= BUFFER_LINE_COUNT
  /\ s.syncRow >= -1 /\ (s.directMode => s.syncRow = -1)

(* What was scraped last lies in the buffer still, and neither it nor the   *)
(* window has been above the marker: when the marker has moved up by some   *)
(* lines, so have they, and they are in the buffer still.                   *)
Ahead(s) ==
  /\ 0 <= s.scraped - s.scrolled
  /\ s.syncRow <= s.scraped - s.scrolled /\ s.syncRow <= s.dirtyTop

(* A round.  After a CLS in its middle the marker may be anywhere.          *)
RoundFields == {"con", "scr", "term", "base", "erased", "missed", "misled", "blind"}

Well(rd) ==
  /\ DOMAIN rd = RoundFields
  /\ Console(rd.con) /\ Members(rd.scr)
  /\ rd.misled \in BOOLEAN

Led(rd) == rd.misled \/ Ahead(rd.scr)

(* The parts of a round leave the terminal's size and the mode alone.       *)
SameMode(s, t) == t.ptySize = s.ptySize /\ t.directMode = s.directMode

LEMMA ResetIsWell ==
  ASSUME NEW rd, Well(rd), NEW n \in Int, 0 <= n
  PROVE  LET r == resetConsoleTracking(rd, n)
         IN /\ Well(r) /\ Led(r) /\ r.con = rd.con /\ SameMode(rd.scr, r.scr)
            /\ r.scr.syncRow = -1 /\ r.scr.dirtyTop = -1 /\ ~r.misled
<1> DEFINE r == resetConsoleTracking(rd, n)
<1>1. /\ DOMAIN r = RoundFields /\ r.con = rd.con /\ r.misled = FALSE
      /\ r.scr = Tracking(rd.scr, n)
  BY DEF resetConsoleTracking, Well, RoundFields
<1> HIDE DEF r
<1> DEFINE s == rd.scr
           t == Tracking(s, n)
<1>2. DOMAIN s = ScrFields /\ s.ptySize \in Sizes /\ s.directMode \in BOOLEAN
  BY DEF Well, Members
<1> HIDE DEF s
<1>3. /\ DOMAIN t = ScrFields /\ t.syncRow = -1 /\ t.scraped = n /\ t.scrolled = 0
      /\ t.dirtyTop = -1 /\ t.dirty = 0
      /\ t.ptySize = s.ptySize /\ t.directMode = s.directMode
  BY <1>2 DEF Tracking, ScrFields, NoMarker
<1> HIDE DEF t
<1>4. Members(t) /\ Ahead(t) /\ SameMode(s, t)
  BY <1>2, <1>3, ScraperAssumption DEF Members, Ahead, SameMode
<1>5. QED BY <1>1, <1>3, <1>4 DEF Well, Led, s, t, r

LEMMA MarkerPlace ==
  ASSUME NEW c, NEW s, s.syncRow \in Int
  PROVE  LET row == findSyncMarker(c, s)
         IN row \in Int /\ (row = -1 \/ (0 <= row /\ row <= s.syncRow))
<1> DEFINE S == {i \in 0..s.syncRow :
                   \A j \in 0..(SYNC_MARKER_LEN - 1) : ReadRow(c, i + j)[1] = Marker(s)}
           U == {NoMarker} \cup S
           b == IF s.syncRow >= 0 THEN s.syncRow ELSE 0
<1>1. findSyncMarker(c, s) = Max(U)
  BY DEF findSyncMarker
<1>2. S \subseteq 0..s.syncRow
  OBVIOUS
<1> HIDE DEF S
<1>3. U \subseteq Int /\ U # {} /\ b \in Int /\ \A x \in U : x <= b
  BY <1>2 DEF NoMarker
<1>4. Max(U) \in U
  BY ONLY <1>3, MaxExists
<1> DEFINE row == findSyncMarker(c, s)
<1>5. row = -1 \/ row \in 0..s.syncRow
  BY <1>1, <1>2, <1>4 DEF NoMarker
<1> HIDE DEF row
<1>6. row \in Int /\ (row = -1 \/ (0 <= row /\ row <= s.syncRow))
  BY <1>5
<1>7. QED BY <1>6 DEF row

LEMMA DirtyIs ==
  ASSUME NEW s, Members(s), NEW n \in Int, n <= BUFFER_LINE_COUNT
  PROVE  LET t == WithDirty(s, n)
         IN /\ Members(t) /\ SameMode(s, t) /\ t.dirty >= n /\ t.dirty >= s.dirty
            /\ t.syncRow = s.syncRow /\ t.scraped = s.scraped /\ t.scrolled = s.scrolled
            /\ t.dirtyTop = s.dirtyTop
<1> DEFINE t == WithDirty(s, n)
           m == Max({s.dirty, n})
<1>1. s.dirty \in Int
  BY DEF Members
<1>2. m = IF s.dirty >= n THEN s.dirty ELSE n
  BY <1>1, MaxOf
<1>3. t = [s EXCEPT !.dirty = m]
  BY DEF WithDirty
<1> HIDE DEF t, m
<1>4. QED BY <1>1, <1>2, <1>3 DEF Members, ScrFields, SameMode, t

(* The marker is looked for.                                                *)
LEMMA FollowingIsWell ==
  ASSUME NEW rd, Well(rd), ~rd.scr.directMode, NEW i, Window(i),
         i.h = BUFFER_LINE_COUNT, NEW tentative \in BOOLEAN,
         FollowMarker(rd, i, tentative).ok
  PROVE  LET r == FollowMarker(rd, i, tentative).rd
         IN /\ Well(r) /\ r.con = rd.con /\ SameMode(rd.scr, r.scr)
            /\ Led(rd) => Led(r)
            /\ r.misled => rd.misled
<1> DEFINE f == FollowMarker(rd, i, tentative)
           s == rd.scr
           row == findSyncMarker(rd.con, s)
           t == [s EXCEPT !.scrolled = @ + s.syncRow - row, !.syncRow = row]
           u == markEntireWindowDirty(t, i)
<1>1. Members(s) /\ DOMAIN s = ScrFields /\ s.syncRow \in Int /\ s.scrolled \in Int
  BY DEF Well, Members
<1>2. row \in Int /\ (row = -1 \/ (0 <= row /\ row <= s.syncRow))
  BY <1>1, MarkerPlace
<1>3. i.top \in Int /\ 0 <= i.top /\ i.top + i.winH \in Int
      /\ i.top + i.winH <= BUFFER_LINE_COUNT
  BY DEF Window
<1>4. CASE s.syncRow = NoMarker \/ row = s.syncRow
  <2>1. f = Ok(rd)
    BY <1>4 DEF FollowMarker
  <2>2. f.rd = rd
    BY <2>1 DEF Ok
  <2>3. QED BY <2>2 DEF SameMode
<1>5. CASE ~(s.syncRow = NoMarker \/ row = s.syncRow) /\ row = NoMarker
  <2>1. ~tentative
    <3> SUFFICES ASSUME tentative PROVE FALSE
      OBVIOUS
    <3>1. f = Fail
      BY <1>5 DEF FollowMarker
    <3>2. f.ok
      OBVIOUS
    <3> HIDE DEF f
    <3>3. QED BY <3>1, <3>2 DEF Fail
  <2>2. f = Ok(resetConsoleTracking(rd, i.top))
    BY <1>5, <2>1 DEF FollowMarker
  <2>3. f.rd = resetConsoleTracking(rd, i.top)
    BY <2>2 DEF Ok
  <2>4. QED BY <1>3, <2>3, ResetIsWell
<1>6. CASE ~(s.syncRow = NoMarker \/ row = s.syncRow) /\ row # NoMarker
  <2>1. f = Ok([rd EXCEPT !.scr = u])
    BY <1>6 DEF FollowMarker
  <2>2. f.rd = [rd EXCEPT !.scr = u]
    BY <2>1 DEF Ok
  <2> HIDE DEF f
  <2>3. 0 <= row /\ row < s.syncRow
    BY <1>1, <1>2, <1>6 DEF NoMarker
  <2> HIDE DEF row
  <2>4. /\ DOMAIN t = ScrFields /\ t.syncRow = row
        /\ t.scrolled = s.scrolled + s.syncRow - row
        /\ t.scraped = s.scraped /\ t.dirtyTop = s.dirtyTop /\ t.dirty = s.dirty
        /\ t.ptySize = s.ptySize /\ t.directMode = s.directMode
    BY <1>1 DEF ScrFields
  <2> HIDE DEF t
  <2>5. Members(t) /\ (Ahead(s) => Ahead(t))
    BY <1>1, <1>2, <2>3, <2>4 DEF Members, Ahead
  <2>6. /\ Members(u) /\ SameMode(t, u) /\ u.syncRow = t.syncRow
        /\ u.scraped = t.scraped /\ u.scrolled = t.scrolled /\ u.dirtyTop = t.dirtyTop
    BY <1>3, <2>5, DirtyIs DEF markEntireWindowDirty
  <2> HIDE DEF u
  <2>7. Ahead(t) => Ahead(u)
    BY <2>6 DEF Ahead
  <2>8. SameMode(s, u)
    BY <2>4, <2>6 DEF SameMode
  <2>9. /\ DOMAIN f.rd = RoundFields /\ f.rd.con = rd.con /\ f.rd.scr = u
        /\ f.rd.misled = rd.misled
    BY <2>2 DEF Well, RoundFields
  <2>10. Well(f.rd) /\ (Led(rd) => Led(f.rd))
    BY <2>5, <2>6, <2>7, <2>9 DEF Well, Led, s
  <2>11. QED BY <2>8, <2>9, <2>10 DEF f, s
<1>7. QED BY <1>4, <1>5, <1>6

(* Then the window's move is looked at.                                     *)
LEMMA DirtyingIsWell ==
  ASSUME NEW rd, Well(rd), NEW i, Window(i), i.h = BUFFER_LINE_COUNT
  PROVE  LET r == Dirtied(rd, i)
         IN /\ Well(r) /\ r.con = rd.con /\ SameMode(rd.scr, r.scr)
            /\ r.scr.dirtyTop = i.top /\ r.scr.dirty >= 1
            /\ Led(rd) => Led(r)
            /\ r.misled => rd.misled
<1> DEFINE m == MoveDirt(rd, i)
           s == m.scr
           t == [s EXCEPT !.dirtyTop = i.top]
           n == Max({i.y + 1, i.top})
           u == WithDirty(t, n)
           r == Dirtied(rd, i)
<1>1. /\ i.top \in Int /\ 0 <= i.top /\ i.top + i.winH \in Int
      /\ i.top + i.winH <= BUFFER_LINE_COUNT /\ i.top <= BUFFER_LINE_COUNT
      /\ i.y + 1 \in Int /\ 1 <= i.y + 1 /\ i.y + 1 <= BUFFER_LINE_COUNT
  BY ScraperAssumption DEF Window
<1>2. /\ Well(m) /\ m.con = rd.con /\ SameMode(rd.scr, s)
      /\ Led(rd) => m.misled \/ Ahead(t)
      /\ m.misled => rd.misled
  <2>1. CASE rd.scr.dirtyTop = -1
    <3>1. m = rd
      BY <2>1 DEF MoveDirt
    <3>2. Members(s)
      BY <3>1 DEF Well
    <3> HIDE DEF m
    <3>3. t.syncRow = s.syncRow /\ t.scraped = s.scraped /\ t.scrolled = s.scrolled
          /\ t.dirtyTop = i.top
      BY <3>2 DEF Members, ScrFields
    <3>4. s = rd.scr /\ s.syncRow \in Int
      BY <3>1, <3>2 DEF Members
    <3> HIDE DEF s, t
    <3>5. Ahead(s) => Ahead(t)
      BY <1>1, <2>1, <3>3, <3>4 DEF Ahead
    <3>6. QED BY <3>1, <3>4, <3>5 DEF Led, SameMode
  <2>2. CASE rd.scr.dirtyTop # -1 /\ i.top > rd.scr.dirtyTop
    <3>1. m = [rd EXCEPT !.scr = markEntireWindowDirty(@, i)]
      BY <2>2 DEF MoveDirt
    <3>2. /\ DOMAIN m = RoundFields /\ m.con = rd.con /\ m.misled = rd.misled
          /\ s = WithDirty(rd.scr, i.top + i.winH)
      BY <3>1 DEF Well, RoundFields, markEntireWindowDirty
    <3> HIDE DEF m, s
    <3>3. Members(rd.scr)
      BY DEF Well
    <3>4. /\ Members(s) /\ SameMode(rd.scr, s)
          /\ s.syncRow = rd.scr.syncRow /\ s.scraped = rd.scr.scraped
          /\ s.scrolled = rd.scr.scrolled
      BY <1>1, <3>2, <3>3, DirtyIs
    <3>5. t.syncRow = s.syncRow /\ t.scraped = s.scraped /\ t.scrolled = s.scrolled
          /\ t.dirtyTop = i.top
      BY <3>4 DEF Members, ScrFields
    <3>6. rd.scr.syncRow \in Int /\ rd.scr.dirtyTop \in Int
      BY <3>3 DEF Members
    <3> HIDE DEF t
    <3>7. Ahead(rd.scr) => Ahead(t)
      BY <1>1, <2>2, <3>4, <3>5, <3>6 DEF Ahead
    <3>8. QED BY <3>2, <3>4, <3>7 DEF Well, Led, s
  <2>3. CASE rd.scr.dirtyTop # -1 /\ i.top < rd.scr.dirtyTop
    <3>1. m = resetConsoleTracking(rd, i.top)
      BY <1>1, <2>3 DEF MoveDirt, Well, Members
    <3>2. /\ Well(m) /\ Led(m) /\ m.con = rd.con /\ SameMode(rd.scr, s)
          /\ s.syncRow = -1 /\ ~m.misled
      BY <1>1, <3>1, ResetIsWell
    <3> HIDE DEF m
    <3>3. t.syncRow = s.syncRow /\ t.scraped = s.scraped /\ t.scrolled = s.scrolled
          /\ t.dirtyTop = i.top
      BY <3>2 DEF Well, Members, ScrFields
    <3> HIDE DEF t
    <3>4. Ahead(s) => Ahead(t)
      BY <1>1, <3>2, <3>3 DEF Ahead
    <3>5. QED BY <3>2, <3>4 DEF Led
  <2>4. CASE rd.scr.dirtyTop # -1 /\ i.top = rd.scr.dirtyTop
    <3>1. m = rd
      BY <1>1, <2>4 DEF MoveDirt
    <3>2. Members(s)
      BY <3>1 DEF Well
    <3>3. s = rd.scr
      BY <3>1
    <3> HIDE DEF m
    <3>4. t.syncRow = s.syncRow /\ t.scraped = s.scraped /\ t.scrolled = s.scrolled
          /\ t.dirtyTop = i.top
      BY <3>2 DEF Members, ScrFields
    <3> HIDE DEF s, t
    <3>5. Ahead(s) => Ahead(t)
      BY <2>4, <3>3, <3>4 DEF Ahead
    <3>6. QED BY <3>1, <3>3, <3>5 DEF Led, SameMode
  <2>5. rd.scr.dirtyTop \in Int
    BY DEF Well, Members
  <2>6. QED BY <1>1, <2>1, <2>2, <2>3, <2>4, <2>5
<1>3. r = [m EXCEPT !.scr = u]
  BY DEF Dirtied
<1>4. n \in Int /\ 1 <= n /\ n <= BUFFER_LINE_COUNT
  BY <1>1, MaxOf
<1> HIDE DEF m, n
<1>5. DOMAIN s = ScrFields /\ Members(s)
  BY <1>2 DEF Well, Members
<1>6. /\ DOMAIN t = ScrFields /\ t.dirtyTop = i.top
      /\ t.syncRow = s.syncRow /\ t.scraped = s.scraped /\ t.scrolled = s.scrolled
      /\ t.dirty = s.dirty /\ t.ptySize = s.ptySize /\ t.directMode = s.directMode
  BY <1>5 DEF ScrFields
<1> HIDE DEF s, t
<1>7. Members(t) /\ SameMode(s, t)
  BY <1>1, <1>5, <1>6 DEF Members, SameMode
<1>8. /\ Members(u) /\ SameMode(t, u) /\ u.dirty >= n /\ u.syncRow = t.syncRow
      /\ u.scraped = t.scraped /\ u.scrolled = t.scrolled /\ u.dirtyTop = t.dirtyTop
  BY <1>4, <1>7, DirtyIs
<1> HIDE DEF u
<1>9. Ahead(t) => Ahead(u)
  BY <1>8 DEF Ahead
<1>10. /\ DOMAIN r = RoundFields /\ r.con = m.con /\ r.scr = u /\ r.misled = m.misled
  BY <1>2, <1>3 DEF Well, RoundFields
<1> HIDE DEF r
<1>11. u.dirty >= 1 /\ u.dirtyTop = i.top
  BY <1>4, <1>6, <1>8 DEF Members
<1>12. Well(r) /\ (Led(rd) => Led(r))
  BY <1>2, <1>8, <1>9, <1>10 DEF Well, Led
<1>13. SameMode(rd.scr, u)
  BY <1>2, <1>7, <1>8 DEF SameMode
<1>14. QED BY <1>2, <1>10, <1>11, <1>12, <1>13 DEF r

LEMMA PreparingIsWell ==
  ASSUME NEW rd, Well(rd), ~rd.scr.directMode, NEW i, Window(i),
         i.h = BUFFER_LINE_COUNT, NEW tentative \in BOOLEAN,
         Prepare(rd, i, tentative).ok
  PROVE  LET r == Prepare(rd, i, tentative).rd
         IN /\ Well(r) /\ r.con = rd.con /\ SameMode(rd.scr, r.scr)
            /\ r.scr.dirtyTop = i.top /\ r.scr.dirty >= 1
            /\ Led(rd) => Led(r)
            /\ r.misled => rd.misled
<1> DEFINE f == FollowMarker(rd, i, tentative)
           p == Prepare(rd, i, tentative)
<1>1. p.ok
  OBVIOUS
<1>2. f.ok /\ p = Ok(Dirtied(f.rd, i))
  <2>1. p = Fail \/ (f.ok /\ p = Ok(Dirtied(f.rd, i)))
    BY DEF Prepare
  <2> HIDE DEF p
  <2>2. Fail.ok = FALSE
    BY DEF Fail
  <2>3. QED BY <1>1, <2>1, <2>2
<1>3. p.rd = Dirtied(f.rd, i)
  BY <1>2 DEF Ok
<1>4. /\ Well(f.rd) /\ f.rd.con = rd.con /\ SameMode(rd.scr, f.rd.scr)
      /\ Led(rd) => Led(f.rd)
      /\ f.rd.misled => rd.misled
  BY <1>2, FollowingIsWell
<1> HIDE DEF p, f
<1> DEFINE g == f.rd
           r == Dirtied(g, i)
<1>5. /\ Well(r) /\ r.con = g.con /\ SameMode(g.scr, r.scr)
      /\ r.scr.dirtyTop = i.top /\ r.scr.dirty >= 1
      /\ Led(g) => Led(r)
      /\ r.misled => g.misled
  BY <1>4, DirtyingIsWell
<1>6. QED BY <1>3, <1>4, <1>5 DEF SameMode, p

(* Where the console is frozen nothing can fail.                            *)
LEMMA FrozenPrepares ==
  ASSUME NEW rd, NEW i
  PROVE  Prepare(rd, i, FALSE).ok
<1>1. FollowMarker(rd, i, FALSE).ok
  BY DEF FollowMarker, Ok
<1>2. QED BY <1>1 DEF Prepare, Ok

(* A marker is put down.                                                    *)
LEMMA MarkingIsWell ==
  ASSUME NEW rd, Well(rd), ~rd.scr.directMode, NEW row \in Int, 0 <= row
  PROVE  LET r == createSyncMarker(rd, row)
         IN /\ Well(r) /\ SameShape(rd.con, r.con) /\ r.misled = rd.misled
            /\ SameMode(rd.scr, r.scr) /\ r.scr.syncRow = row
            /\ r.scr.scraped = rd.scr.scraped /\ r.scr.scrolled = rd.scr.scrolled
            /\ r.scr.dirtyTop = rd.scr.dirtyTop /\ r.scr.dirty = rd.scr.dirty
<1> DEFINE r == createSyncMarker(rd, row)
           c == clearLines(rd.con, row - 1, SYNC_MARKER_LEN + 1)
           s == [rd.scr EXCEPT !.counter = @ + 1, !.syncRow = row]
           lines == [q \in DOMAIN c.rows |->
                       IF q \in row..(row + SYNC_MARKER_LEN - 1)
                         THEN [c.rows[q] EXCEPT ![1] = Marker(s)] ELSE c.rows[q]]
           d == [c EXCEPT !.rows = lines]
<1>1. SameShape(rd.con, c) /\ DOMAIN rd.con = ConFields
  BY ClearingKeepsShape DEF Well, Console
<1>2. r = [rd EXCEPT !.scr = s, !.con = d,
                     !.erased = @ \cup {gone + q : q \in (row - 1)..(row + SYNC_MARKER_LEN - 1)}]
  BY DEF createSyncMarker
<1> HIDE DEF lines, c
<1>3. SameShape(rd.con, d)
  BY <1>1 DEF SameShape, ConFields
<1> HIDE DEF d
<1>4. Members(rd.scr) /\ DOMAIN rd.scr = ScrFields
  BY DEF Well, Members
<1>5. /\ DOMAIN s = ScrFields /\ s.syncRow = row /\ s.scraped = rd.scr.scraped
      /\ s.scrolled = rd.scr.scrolled /\ s.dirtyTop = rd.scr.dirtyTop
      /\ s.dirty = rd.scr.dirty /\ s.ptySize = rd.scr.ptySize
      /\ s.directMode = rd.scr.directMode
  BY <1>4 DEF ScrFields
<1> HIDE DEF s
<1>6. Members(s) /\ SameMode(rd.scr, s)
  BY <1>4, <1>5 DEF Members, SameMode
<1>7. /\ DOMAIN r = RoundFields /\ r.con = d /\ r.scr = s /\ r.misled = rd.misled
  BY <1>2 DEF Well, RoundFields
<1> HIDE DEF r
<1>8. Console(d)
  BY <1>3, ShapeIsEnough DEF Well
<1>9. Well(r)
  BY <1>6, <1>7, <1>8 DEF Well
<1>10. QED BY <1>3, <1>5, <1>6, <1>7, <1>9 DEF r

(* The lines are sent: only what is dirty is scanned for on the way.        *)
LEMMA ScanningIs ==
  ASSUME NEW s, Members(s), NEW i, Window(i), i.h = BUFFER_LINE_COUNT, NEW buf
  PROVE  LET t == scanForDirtyLines(s, i, buf)
         IN /\ Members(t) /\ SameMode(s, t)
            /\ t.syncRow = s.syncRow /\ t.scrolled = s.scrolled
            /\ t.dirtyTop = s.dirtyTop
<1> DEFINE S == {r \in s.dirty..(i.top + i.winH - 1) :
                   ~isLineBlank(buf[r], 1, i.w, Attr(buf[r - 1][i.w]))}
           U == {-1} \cup S
           b == IF i.top + i.winH - 1 >= -1 THEN i.top + i.winH - 1 ELSE -1
           n == 1 + Max(U)
<1>1. scanForDirtyLines(s, i, buf) = WithDirty(s, n)
  BY DEF scanForDirtyLines
<1>2. /\ s.dirty \in Int /\ i.top + i.winH - 1 \in Int
      /\ i.top \in Int /\ i.winH \in Int
      /\ i.top + i.winH <= BUFFER_LINE_COUNT /\ BUFFER_LINE_COUNT \in Nat
  BY ScraperAssumption DEF Members, Window
<1>3. S \subseteq s.dirty..(i.top + i.winH - 1)
  OBVIOUS
<1> HIDE DEF S
<1>4. U \subseteq Int /\ U # {} /\ b \in Int /\ \A x \in U : x <= b
  BY <1>2, <1>3
<1>5. Max(U) \in U
  BY ONLY <1>4, MaxExists
<1>6. n \in Int /\ n <= BUFFER_LINE_COUNT
  <2>1. Max(U) \in Int /\ Max(U) <= b
    BY <1>4, <1>5
  <2>2. b \in Int /\ b <= BUFFER_LINE_COUNT - 1
    BY <1>2
  <2>3. PICK x : x = Max(U)
    OBVIOUS
  <2>4. n = 1 + x
    BY <2>3
  <2> HIDE DEF n, b
  <2>5. QED BY <1>2, <2>1, <2>2, <2>3, <2>4
<1> HIDE DEF n
<1>7. QED BY <1>1, <1>6, DirtyIs

LEMMA SendingIsWell ==
  ASSUME NEW rd, Well(rd), NEW i, Window(i), i.h = BUFFER_LINE_COUNT, NEW buf
  PROVE  LET r == Send(rd, i, buf)
         IN /\ Well(r) /\ r.con = rd.con /\ SameMode(rd.scr, r.scr)
            /\ r.misled = rd.misled
            /\ r.scr.syncRow = rd.scr.syncRow /\ r.scr.dirtyTop = rd.scr.dirtyTop
            /\ r.scr.scraped - r.scr.scrolled = i.top
<1> DEFINE r == Send(rd, i, buf)
           s == scanForDirtyLines(rd.scr, i, buf)
<1>1. PICK lines, maxBuffered, t :
        r = [rd EXCEPT !.scr = [s EXCEPT !.lines = lines, !.maxBuffered = maxBuffered,
                                         !.scraped = i.top + s.scrolled],
                       !.term = t]
  BY DEF Send
<1> HIDE DEF r
<1>2. /\ Members(s) /\ SameMode(rd.scr, s) /\ s.syncRow = rd.scr.syncRow
      /\ s.scrolled = rd.scr.scrolled /\ s.dirtyTop = rd.scr.dirtyTop
  BY ScanningIs DEF Well
<1> HIDE DEF s
<1> DEFINE u == [s EXCEPT !.lines = lines, !.maxBuffered = maxBuffered,
                          !.scraped = i.top + s.scrolled]
<1>3. DOMAIN s = ScrFields /\ s.scrolled \in Int /\ i.top \in Int
  BY <1>2 DEF Members, Window
<1>4. /\ DOMAIN u = ScrFields /\ u.scraped = i.top + s.scrolled
      /\ u.scrolled = s.scrolled /\ u.syncRow = s.syncRow /\ u.dirtyTop = s.dirtyTop
      /\ u.dirty = s.dirty /\ u.ptySize = s.ptySize /\ u.directMode = s.directMode
  BY <1>3 DEF ScrFields
<1>5. /\ DOMAIN r = RoundFields /\ r.con = rd.con /\ r.scr = u /\ r.misled = rd.misled
  BY <1>1 DEF Well, RoundFields
<1> HIDE DEF u
<1>6. Members(u) /\ SameMode(s, u) /\ u.scraped - u.scrolled = i.top
  BY <1>2, <1>3, <1>4 DEF Members, SameMode
<1>7. Well(r)
  BY <1>5, <1>6 DEF Well
<1>8. SameMode(rd.scr, u)
  BY <1>2, <1>6 DEF SameMode
<1>9. QED BY <1>2, <1>4, <1>5, <1>6, <1>7, <1>8 DEF r

LEMMA FrozenIsWell ==
  ASSUME NEW rd, Well(rd), ~rd.scr.directMode, NEW i, Window(i),
         i.h = BUFFER_LINE_COUNT
  PROVE  LET r == ScrapeFrozen(rd, i)
         IN /\ Well(r) /\ SameShape(rd.con, r.con) /\ SameMode(rd.scr, r.scr)
            /\ r.scr.dirtyTop = i.top
            /\ Led(rd) => Led(r)
<1> DEFINE p == Prepare(rd, i, FALSE).rd
           buf == Read(p.con, p.scr, i)
           n == NewSyncRow(i)
           m == IF ShouldCreateSyncRow(p.scr, i) THEN createSyncMarker(p, n) ELSE p
           r == Send(m, i, buf)
<1>1. ScrapeFrozen(rd, i) = r
  BY DEF ScrapeFrozen
<1>2. /\ Well(p) /\ p.con = rd.con /\ SameMode(rd.scr, p.scr)
      /\ p.scr.dirtyTop = i.top
      /\ Led(rd) => Led(p)
  BY FrozenPrepares, PreparingIsWell
<1> HIDE DEF p, buf
<1>3. /\ p.scr.syncRow \in Int /\ p.scr.syncRow >= -1 /\ ~p.scr.directMode
      /\ i.top \in Int /\ 0 <= i.top
  BY <1>2 DEF Well, Members, SameMode, Window
<1>4. /\ Well(m) /\ SameShape(p.con, m.con) /\ SameMode(p.scr, m.scr)
      /\ m.misled = p.misled /\ m.scr.dirtyTop = i.top
      /\ m.scr.syncRow <= i.top \/ m.scr.syncRow = p.scr.syncRow
  <2>1. CASE ShouldCreateSyncRow(p.scr, i)
    <3>1. n \in Int /\ 0 <= n /\ n <= i.top
      <4>1. /\ SYNC_MARKER_LEN \in Int /\ 1 <= SYNC_MARKER_LEN
            /\ SYNC_MARKER_MARGIN \in Int /\ 0 <= SYNC_MARKER_MARGIN
        BY ScraperAssumption
      <4>2. n = i.top - SYNC_MARKER_LEN - SYNC_MARKER_MARGIN
        BY DEF NewSyncRow
      <4>3. n >= p.scr.syncRow + SYNC_MARKER_LEN + SYNC_MARKER_MARGIN
        BY <2>1 DEF ShouldCreateSyncRow
      <4> HIDE DEF n
      <4>4. QED BY ONLY <1>3, <4>1, <4>2, <4>3
    <3>2. m = createSyncMarker(p, n)
      BY <2>1
    <3> HIDE DEF n, m
    <3> DEFINE k == createSyncMarker(p, n)
    <3>3. /\ Well(k) /\ SameShape(p.con, k.con) /\ k.misled = p.misled
          /\ SameMode(p.scr, k.scr) /\ k.scr.syncRow = n
          /\ k.scr.dirtyTop = p.scr.dirtyTop
      BY <1>2, <1>3, <3>1, MarkingIsWell
    <3> HIDE DEF k
    <3>4. QED BY <1>2, <3>1, <3>2, <3>3 DEF k
  <2>2. CASE ~ShouldCreateSyncRow(p.scr, i)
    <3>1. m = p
      BY <2>2
    <3> HIDE DEF m
    <3>2. QED BY <1>2, <3>1 DEF SameShape, SameMode
  <2>3. QED BY <2>1, <2>2
<1> HIDE DEF m
<1>5. /\ Well(r) /\ r.con = m.con /\ SameMode(m.scr, r.scr) /\ r.misled = m.misled
      /\ r.scr.syncRow = m.scr.syncRow /\ r.scr.dirtyTop = m.scr.dirtyTop
      /\ r.scr.scraped - r.scr.scrolled = i.top
  BY <1>4, SendingIsWell
<1> HIDE DEF r
<1>6. ASSUME Led(rd) PROVE Led(r)
  <2>1. p.misled \/ p.scr.syncRow <= i.top
    BY <1>2, <1>6 DEF Led, Ahead
  <2>2. r.misled \/ r.scr.syncRow <= i.top
    BY <1>4, <1>5, <2>1
  <2>3. QED BY <1>3, <1>4, <1>5, <2>2 DEF Led, Ahead
<1>7. SameShape(rd.con, r.con) /\ SameMode(rd.scr, r.scr)
  BY <1>2, <1>4, <1>5 DEF SameShape, SameMode
<1>8. QED BY <1>1, <1>4, <1>5, <1>6, <1>7

LEMMA DirectIsWell ==
  ASSUME NEW rd, Well(rd), NEW i
  PROVE  LET r == ScrapeDirect(rd, i)
         IN /\ Well(r) /\ r.con = rd.con /\ SameMode(rd.scr, r.scr)
            /\ Led(rd) => Led(r)
<1> DEFINE r == ScrapeDirect(rd, i)
           s == rd.scr
<1>1. PICK lines, t : r = [rd EXCEPT !.scr = [s EXCEPT !.lines = lines], !.term = t]
  BY DEF ScrapeDirect
<1> HIDE DEF r
<1> DEFINE u == [s EXCEPT !.lines = lines]
<1>2. Members(s) /\ DOMAIN s = ScrFields
  BY DEF Well, Members
<1>3. /\ DOMAIN u = ScrFields /\ u.scraped = s.scraped
      /\ u.scrolled = s.scrolled /\ u.syncRow = s.syncRow /\ u.dirtyTop = s.dirtyTop
      /\ u.dirty = s.dirty /\ u.ptySize = s.ptySize /\ u.directMode = s.directMode
  BY <1>2 DEF ScrFields
<1>4. /\ DOMAIN r = RoundFields /\ r.con = rd.con /\ r.scr = u /\ r.misled = rd.misled
  BY <1>1 DEF Well, RoundFields
<1> HIDE DEF u, s
<1>5. Members(u) /\ SameMode(s, u) /\ (Ahead(s) => Ahead(u))
  BY <1>2, <1>3 DEF Members, SameMode, Ahead
<1>6. QED BY <1>4, <1>5 DEF Well, Led, r, s

(* What the round reads lies inside the buffer.                             *)
LEMMA ReadingIsInside ==
  ASSUME NEW s, Members(s), Ahead(s), NEW i, Window(i), i.h = BUFFER_LINE_COUNT,
         s.dirty >= 1, NEW c
  PROVE  LET rows == DOMAIN Read(c, s, i)
         IN /\ rows \subseteq 0..(i.h - 1)
            /\ FirstVirtLine(s, i) - s.scrolled \in rows
<1> DEFINE v == FirstVirtLine(s, i)
           first == Min({v - s.scrolled, s.dirty - 1})
           stop == Max({i.top + i.winH, s.dirty})
<1>1. DOMAIN Read(c, s, i) = first..(stop - 1)
  BY DEF Read
<1>2. /\ s.scraped \in Int /\ s.scrolled \in Int /\ s.dirty \in Int
      /\ s.dirty <= BUFFER_LINE_COUNT /\ 0 <= s.scraped - s.scrolled
      /\ i.top \in Int /\ i.winH \in Int /\ 0 <= i.top /\ 1 <= i.winH
      /\ i.top + i.winH <= BUFFER_LINE_COUNT /\ BUFFER_LINE_COUNT \in Nat
  BY ScraperAssumption DEF Members, Ahead, Window
<1>3. v = IF s.scraped <= i.top + s.scrolled THEN s.scraped ELSE i.top + s.scrolled
  <2>1. v = Min({s.scraped, i.top + s.scrolled})
    BY DEF FirstVirtLine
  <2>2. s.scraped \in Int /\ i.top + s.scrolled \in Int
    BY <1>2
  <2> HIDE DEF v
  <2>3. QED BY ONLY <2>1, <2>2, MaxOf
<1> HIDE DEF v
<1>4. v \in Int /\ 0 <= v - s.scrolled /\ v - s.scrolled <= i.top
  BY <1>2, <1>3
<1>5. first = IF v - s.scrolled <= s.dirty - 1 THEN v - s.scrolled ELSE s.dirty - 1
  <2>1. v - s.scrolled \in Int /\ s.dirty - 1 \in Int
    BY <1>2, <1>4
  <2>2. QED BY ONLY <2>1, MaxOf
<1>6. stop = IF i.top + i.winH >= s.dirty THEN i.top + i.winH ELSE s.dirty
  <2>1. i.top + i.winH \in Int /\ s.dirty \in Int
    BY <1>2
  <2>2. QED BY ONLY <2>1, MaxOf
<1> HIDE DEF first, stop
<1>7. /\ first \in Int /\ stop \in Int /\ 0 <= first /\ stop <= BUFFER_LINE_COUNT
      /\ first <= v - s.scrolled /\ v - s.scrolled <= stop - 1
  BY <1>2, <1>4, <1>5, <1>6
<1>8. /\ first..(stop - 1) \subseteq 0..(i.h - 1)
      /\ v - s.scrolled \in first..(stop - 1)
  BY <1>2, <1>4, <1>7
<1>9. QED BY <1>1, <1>8 DEF v

-----------------------------------------------------------------------------
(* The console.  What the child writes moves its window down at most.       *)
MovedDown(c, d) ==
  /\ Console(d) /\ d.h = c.h /\ d.w = c.w /\ d.winW = c.winW /\ d.winH = c.winH
  /\ c.top <= d.top

LEMMA PuttingIsConsole ==
  ASSUME NEW c, Console(c), NEW ch
  PROVE  MovedDown(c, PutChar(c, ch))
<1> DEFINE next == ch = NL \/ c.x + 1 = c.w
           y == IF next /\ c.y + 1 < c.h THEN c.y + 1 ELSE c.y
           top == IF y >= c.top + c.winH THEN y - c.winH + 1 ELSE c.top
           d == PutChar(c, ch)
<1>1. PICK rows, x : d = [c EXCEPT !.rows = rows, !.x = x, !.y = y, !.top = top]
  BY DEF PutChar
<1>2. DOMAIN c = ConFields /\ Window(c)
  BY DEF Console
<1>3. y \in Int /\ 0 <= y /\ y < c.h
  BY <1>2 DEF Window
<1> HIDE DEF y
<1>4. top \in Int /\ c.top <= top /\ top + c.winH <= c.h
  BY <1>2, <1>3 DEF Window
<1> HIDE DEF top, d
<1>5. /\ DOMAIN d = ConFields /\ d.y = y /\ d.top = top /\ d.h = c.h /\ d.w = c.w
      /\ d.winW = c.winW /\ d.winH = c.winH
  BY <1>1, <1>2 DEF ConFields
<1>6. Window(d)
  BY <1>2, <1>3, <1>4, <1>5 DEF Window
<1>7. QED BY <1>2, <1>4, <1>5, <1>6 DEF Console, MovedDown, d, Window

LEMMA MovingDownTwice ==
  ASSUME NEW c, NEW d, NEW e, Console(c), MovedDown(c, d), MovedDown(d, e)
  PROVE  MovedDown(c, e)
BY DEF MovedDown, Console, Window

(* A text is written character by character.                                *)
OneByOne(g, text) ==
  /\ g[0] = [con |-> con, paper |-> paper, missed |-> missed]
  /\ \A n \in Nat : n + 1 <= Len(text) => g[n + 1] = Typed(g[n], text[n + 1])

LEMMA TypingIsOneByOne ==
  ASSUME NEW text, Len(text) \in Nat
  PROVE  \E g : OneByOne(g, text) /\ Typing(text) = g[Len(text)]
<1> DEFINE start == [con |-> con, paper |-> paper, missed |-> missed]
           After(g, m) == g = [n \in 0..m |-> IF n = 0 THEN start
                                              ELSE Typed(g[n - 1], text[n])]
           g0 == CHOOSE g : After(g, Len(text))
           T == {m \in Nat : \E g : After(g, m)}
<1>1. Typing(text) = g0[Len(text)]
  BY DEF Typing
<1>2. 0 \in T
  <2> DEFINE g == [n \in 0..0 |-> start]
  <2>1. After(g, 0)
    OBVIOUS
  <2>2. QED BY <2>1
<1>3. ASSUME NEW m \in Nat, m \in T PROVE m + 1 \in T
  <2>1. PICK g : After(g, m)
    BY <1>3
  <2> DEFINE h == [n \in 0..(m + 1) |-> IF n <= m THEN g[n]
                                        ELSE Typed(g[m], text[m + 1])]
  <2>2. ASSUME NEW n \in 0..(m + 1)
        PROVE  h[n] = IF n = 0 THEN start ELSE Typed(h[n - 1], text[n])
    <3> HIDE DEF start
    <3>1. CASE n = 0
      <4>1. g[0] = start
        BY <2>1
      <4>2. QED BY <3>1, <4>1
    <3>2. CASE n # 0 /\ n <= m
      <4>1. g[n] = Typed(g[n - 1], text[n])
        BY <2>1, <3>2
      <4>2. h[n] = g[n] /\ h[n - 1] = g[n - 1]
        BY <3>2
      <4> HIDE DEF h
      <4>3. QED BY <3>2, <4>1, <4>2
    <3>3. CASE n = m + 1
      <4>1. h[n] = Typed(g[m], text[m + 1]) /\ h[n - 1] = g[m] /\ n # 0
        BY <3>3
      <4> HIDE DEF h
      <4>2. QED BY <3>3, <4>1
    <3>4. QED BY <3>1, <3>2, <3>3
  <2>3. After(h, m + 1)
    <3>1. h = [n \in 0..(m + 1) |-> h[n]]
      OBVIOUS
    <3> HIDE DEF h, start
    <3>2. QED BY <2>2, <3>1
  <2> HIDE DEF h, After
  <2>4. \E f : After(f, m + 1)
    BY <2>3
  <2>5. QED BY <2>4
<1> HIDE DEF T
<1>4. Len(text) \in T
  BY <1>2, <1>3, Induction
<1>5. After(g0, Len(text))
  <2>1. \E g : After(g, Len(text))
    BY <1>4 DEF T
  <2> HIDE DEF After
  <2>2. QED BY <2>1
<1> HIDE DEF g0
<1>6. g0[0] = start
  BY <1>5
<1>7. ASSUME NEW n \in Nat, n + 1 <= Len(text)
      PROVE  g0[n + 1] = Typed(g0[n], text[n + 1])
  <2>1. n + 1 \in 0..Len(text) /\ n + 1 # 0 /\ (n + 1) - 1 = n
    BY <1>7
  <2> HIDE DEF start
  <2>2. QED BY <1>5, <2>1
<1> HIDE DEF After
<1>8. OneByOne(g0, text)
  BY <1>6, <1>7 DEF OneByOne
<1>9. QED BY <1>1, <1>8

LEMMA TypingIsConsole ==
  ASSUME NEW text, Len(text) \in Nat, Console(con)
  PROVE  MovedDown(con, Typing(text).con)
<1>1. PICK g : OneByOne(g, text) /\ Typing(text) = g[Len(text)]
  BY TypingIsOneByOne
<1> DEFINE U == {m \in Nat : m <= Len(text) => MovedDown(con, g[m].con)}
<1>2. 0 \in U
  <2>1. MovedDown(con, con)
    BY DEF MovedDown, Console, Window
  <2>2. g[0].con = con
    BY <1>1 DEF OneByOne
  <2>3. QED BY <2>1, <2>2
<1>3. ASSUME NEW n \in Nat, n \in U PROVE n + 1 \in U
  <2> SUFFICES ASSUME n + 1 <= Len(text) PROVE MovedDown(con, g[n + 1].con)
    OBVIOUS
  <2>1. MovedDown(con, g[n].con)
    BY <1>3
  <2>2. g[n + 1].con = PutChar(g[n].con, text[n + 1])
    <3>1. g[n + 1] = Typed(g[n], text[n + 1])
      BY <1>1 DEF OneByOne
    <3>2. QED BY <3>1 DEF Typed
  <2>3. MovedDown(g[n].con, g[n + 1].con)
    <3>1. Console(g[n].con)
      BY <2>1 DEF MovedDown
    <3>2. QED BY <2>2, <3>1, PuttingIsConsole
  <2>4. QED BY <2>1, <2>3, MovingDownTwice
<1> HIDE DEF U
<1>4. Len(text) \in U
  BY <1>2, <1>3, Induction
<1>5. QED BY <1>1, <1>4 DEF U

(* Resizing.                                                                *)
LEMMA WindowMoves ==
  ASSUME NEW c, Console(c), NEW rect, CanMove(c, rect),
         rect.top \in Int, rect.w \in Int, rect.h \in Int,
         1 <= rect.w, 1 <= rect.h, rect.h < BUFFER_LINE_COUNT
  PROVE  LET d == moveWindow(c, rect)
         IN /\ Console(d) /\ d.top = rect.top /\ d.winW = rect.w /\ d.winH = rect.h
            /\ d.w = c.w /\ d.h = c.h
<1> DEFINE d == moveWindow(c, rect)
<1>1. d = [c EXCEPT !.top = rect.top, !.winW = rect.w, !.winH = rect.h]
  BY DEF moveWindow
<1>2. DOMAIN c = ConFields /\ Window(c)
  BY DEF Console
<1>3. /\ DOMAIN d = ConFields /\ d.top = rect.top /\ d.winW = rect.w /\ d.winH = rect.h
      /\ d.w = c.w /\ d.h = c.h /\ d.y = c.y
  BY <1>1, <1>2 DEF ConFields
<1> HIDE DEF d
<1>4. QED BY <1>2, <1>3 DEF Console, Window, CanMove, d

LEMMA CursorIsKept ==
  ASSUME NEW c, Console(c), NEW top \in Int, NEW w \in Int, NEW h \in Int,
         0 <= top, 1 <= h, top + h <= c.h
  PROVE  LET r == WithCursor([top |-> top, w |-> w, h |-> h], Info(c))
         IN /\ r.w = w /\ r.h = h /\ r.top \in Int
            /\ 0 <= r.top /\ r.top + h <= c.h
            /\ r.top >= top \/ r.top >= c.top
<1> DEFINE y == c.y
           rect == [top |-> top, w |-> w, h |-> h]
           r == WithCursor(rect, Info(c))
<1> SUFFICES /\ r.w = w /\ r.h = h /\ r.top \in Int
             /\ 0 <= r.top /\ r.top + h <= c.h
             /\ r.top >= top \/ r.top >= c.top
  OBVIOUS
<1>1. /\ y \in Int /\ 0 <= y /\ y < c.h /\ c.h \in Int /\ c.top \in Int
      /\ Info(c).y = y /\ Info(c).top = c.top /\ Info(c).winH = c.winH
  BY DEF Console, Window, Info
<1>2. CASE ~cursorInWindow(Info(c))
  <2>1. r = rect
    BY <1>2 DEF WithCursor
  <2>2. QED BY <2>1
<1>3. CASE cursorInWindow(Info(c)) /\ y < top
  <2>1. r = [rect EXCEPT !.top = y]
    BY <1>1, <1>3 DEF WithCursor, ensureLineIncluded
  <2>2. r.w = w /\ r.h = h /\ r.top = y
    BY <2>1
  <2> HIDE DEF r
  <2>3. y >= c.top
    BY <1>1, <1>3 DEF cursorInWindow
  <2>4. QED BY <1>1, <1>3, <2>2, <2>3
<1>4. CASE cursorInWindow(Info(c)) /\ ~(y < top) /\ y >= top + h
  <2>1. r = [rect EXCEPT !.top = y - h + 1]
    BY <1>1, <1>4 DEF WithCursor, ensureLineIncluded
  <2>2. r.w = w /\ r.h = h /\ r.top = y - h + 1
    BY <2>1
  <2> HIDE DEF r
  <2>3. QED BY <1>1, <1>4, <2>2
<1>5. CASE cursorInWindow(Info(c)) /\ ~(y < top) /\ ~(y >= top + h)
  <2>1. r = rect
    BY <1>1, <1>5 DEF WithCursor, ensureLineIncluded
  <2>2. QED BY <2>1
<1>6. QED BY <1>2, <1>3, <1>4, <1>5

LEMMA BufferIsResized ==
  ASSUME NEW c, Console(c), NEW w \in Int, NEW h \in Int, CanResize(c, w, h)
  PROVE  LET d == resizeBufferRange(c, w, h)
         IN /\ Console(d) /\ d.w = w /\ d.h = h
            /\ d.winW = c.winW /\ d.winH = c.winH
            /\ h >= c.h => d.top = c.top
<1> DEFINE widths == {v \in w..Max({w, 20}) : CanResize(c, v, h)}
<1>1. w \in widths /\ widths \subseteq Int /\ \A x \in widths : w <= x
  <2>1. Max({w, 20}) = IF w >= 20 THEN w ELSE 20
    BY MaxOf
  <2>2. w \in w..Max({w, 20})
    BY <2>1
  <2>3. QED BY <2>1, <2>2
<1>2. Min(widths) = w
  BY ONLY <1>1, MinExists
<1>3. resizeBufferRange(c, w, h) = ResizeTo(c, w, h)
  BY <1>1, <1>2 DEF resizeBufferRange
<1> DEFINE cut == Max({0, c.y + 1 - h})
           low == Min({c.top - cut, h - c.winH})
           top == Max({0, low})
           d == ResizeTo(c, w, h)
<1>4. PICK rows, x :
        d = [c EXCEPT !.w = w, !.h = h, !.rows = rows, !.top = top, !.x = x,
                      !.y = @ - cut]
  BY DEF ResizeTo
<1>5. DOMAIN c = ConFields /\ Window(c)
  BY DEF Console
<1>6. /\ c.y \in Int /\ c.top \in Int /\ c.winH \in Int /\ c.h \in Int
      /\ 0 <= c.y /\ c.y < c.h /\ 0 <= c.top /\ c.top + c.winH <= c.h /\ 1 <= c.winH
      /\ h >= c.winH /\ w >= c.winW
  BY <1>5 DEF Window, CanResize
<1>7. cut = IF 0 >= c.y + 1 - h THEN 0 ELSE c.y + 1 - h
  <2>1. c.y + 1 - h \in Int
    BY <1>6
  <2>2. QED BY ONLY <2>1, MaxOf
<1> HIDE DEF cut
<1>8. cut \in Int /\ 0 <= cut /\ cut <= c.y /\ c.y - cut < h
      /\ (h >= c.h => cut = 0)
  BY <1>6, <1>7
<1>9. low = IF c.top - cut <= h - c.winH THEN c.top - cut ELSE h - c.winH
  <2>1. c.top - cut \in Int /\ h - c.winH \in Int
    BY <1>6, <1>8
  <2>2. QED BY ONLY <2>1, MaxOf
<1> HIDE DEF low
<1>10. low \in Int /\ low <= h - c.winH /\ (h >= c.h => low = c.top)
  BY <1>6, <1>8, <1>9
<1>11. top = IF 0 >= low THEN 0 ELSE low
  BY <1>10, MaxOf
<1> HIDE DEF top
<1>12. top \in Int /\ 0 <= top /\ top + c.winH <= h /\ (h >= c.h => top = c.top)
  BY <1>6, <1>10, <1>11
<1> HIDE DEF d
<1>13. /\ DOMAIN d = ConFields /\ d.w = w /\ d.h = h /\ d.top = top /\ d.y = c.y - cut
       /\ d.winW = c.winW /\ d.winH = c.winH
  BY <1>4, <1>5 DEF ConFields
<1>14. Window(d)
  BY <1>5, <1>6, <1>8, <1>12, <1>13 DEF Window
<1>15. QED BY <1>3, <1>12, <1>13, <1>14 DEF Console, d

-----------------------------------------------------------------------------
(* The invariant.                                                           *)
Scrolling == {"scroll", "read", "check", "check marker"}
Resizing  == {"shrink", "buffer", "expand"}
Places    == {"idle", "info", "mode", "erase", "direct", "end"} \cup Scrolling \cup Resizing

ScraperTypeOK ==
  /\ pc \in Places
  /\ frozen \in BOOLEAN /\ force \in BOOLEAN /\ moved \in BOOLEAN
  /\ cleared \in BOOLEAN /\ misled \in BOOLEAN /\ newW10 \in BOOLEAN
  /\ Console(con) /\ Members(scr)
  /\ saved = <<>> \/ \E c : saved = <<c>> /\ Console(c)

(* What a round knows of the console: its buffer's height is as it was, and *)
(* in a tracked buffer only a CLS moves the window up.                      *)
InfoKnown ==
  /\ pc \notin {"idle", "info"} => Window(info)
  /\ pc \notin {"idle", "info", "mode"} =>
       (scr.directMode <=> info.h # BUFFER_LINE_COUNT)
  /\ pc \in Scrolling => ~scr.directMode
  /\ pc \in Scrolling \cup {"mode", "erase", "shrink", "buffer"} => con.h = info.h
  /\ pc \in {"read", "check", "check marker"} => scr.dirtyTop = info.top
  /\ pc = "erase" /\ ~scr.directMode => scr.dirtyTop = info.top
  /\ pc \in Scrolling \cup {"mode", "erase"} => cleared \/ con.top >= info.top

(* How far a resize has got; the child may go on until the window grows.    *)
ResizeKnown ==
  /\ pc \in {"buffer", "expand"} =>
       con.winW <= visibleCols /\ con.winH <= visibleRows
  /\ pc = "expand" =>
       con.w = finalBufferSize[1] /\ con.h = finalBufferSize[2]
  /\ pc \in {"direct", "end"} /\ force =>
       frozen /\ con.winW = visibleCols /\ con.winH = visibleRows
  /\ ~refused

(* The marker is above the window, and stays so when that moves.            *)
MarkerAbove ==
  \/ cleared \/ misled
  \/ /\ Ahead(scr)
     /\ pc \in Resizing => /\ scr.syncRow <= con.top
                           /\ scr.syncRow <= finalBufferSize[2] - visibleRows

ScraperInv == ScraperTypeOK /\ InfoKnown /\ ResizeKnown /\ MarkerAbove

LEMMA SizesAre ==
  ASSUME NEW size \in Sizes
  PROVE  /\ size[1] \in Int /\ size[2] \in Int /\ 1 <= size[1] /\ 1 <= size[2]
         /\ size[2] + SYNC_MARKER_LEN + SYNC_MARKER_MARGIN < BUFFER_LINE_COUNT
         /\ Largest[1] \in Int /\ Largest[2] \in Int /\ 1 <= Largest[1] /\ 1 <= Largest[2]
         /\ SYNC_MARKER_LEN \in Int /\ 1 <= SYNC_MARKER_LEN
         /\ SYNC_MARKER_MARGIN \in Int /\ 0 <= SYNC_MARKER_MARGIN
         /\ BUFFER_LINE_COUNT \in Int
<1>1. size \in (Nat \ {0}) \X (Nat \ {0}) /\ Largest \in (Nat \ {0}) \X (Nat \ {0})
  BY ScraperAssumption
<1>2. QED BY <1>1, ScraperAssumption

(* What is visible fits the terminal, the screen and a tracked buffer.      *)
LEMMA VisibleIs ==
  ASSUME Members(scr)
  PROVE  /\ visibleCols \in Int /\ 1 <= visibleCols
         /\ visibleCols <= scr.ptySize[1] /\ visibleCols <= Largest[1]
         /\ visibleRows \in Int /\ 1 <= visibleRows
         /\ visibleRows <= scr.ptySize[2] /\ visibleRows <= Largest[2]
         /\ visibleRows < BUFFER_LINE_COUNT
<1>1. scr.ptySize \in Sizes
  BY DEF Members
<1>2. /\ scr.ptySize[1] \in Int /\ scr.ptySize[2] \in Int
      /\ 1 <= scr.ptySize[1] /\ 1 <= scr.ptySize[2]
      /\ scr.ptySize[2] < BUFFER_LINE_COUNT /\ BUFFER_LINE_COUNT \in Int
      /\ Largest[1] \in Int /\ Largest[2] \in Int /\ 1 <= Largest[1] /\ 1 <= Largest[2]
  BY <1>1, SizesAre
<1>3. /\ visibleCols = IF scr.ptySize[1] <= Largest[1] THEN scr.ptySize[1] ELSE Largest[1]
      /\ visibleRows = IF scr.ptySize[2] <= Largest[2] THEN scr.ptySize[2] ELSE Largest[2]
  <2>1. /\ scr.ptySize[1] \in Int /\ scr.ptySize[2] \in Int
        /\ Largest[1] \in Int /\ Largest[2] \in Int
    BY <1>2
  <2>2. QED BY ONLY <2>1, MaxOf DEF visibleCols, visibleRows
<1>4. QED BY <1>2, <1>3

LEMMA FinalSizeIs ==
  ASSUME Members(scr), Window(info)
  PROVE  /\ finalBufferSize[1] = scr.ptySize[1]
         /\ finalBufferSize[1] \in Int /\ finalBufferSize[2] \in Int
         /\ finalBufferSize[2] >= scr.ptySize[2] /\ scr.ptySize[2] \in Int
         /\ info.h = BUFFER_LINE_COUNT => finalBufferSize[2] = BUFFER_LINE_COUNT
<1> DEFINE rows == scr.ptySize[2]
           h == IF info.winH = info.h THEN rows ELSE Max({rows, info.h})
<1>1. scr.ptySize \in Sizes
  BY DEF Members
<1>2. /\ scr.ptySize[1] \in Int /\ rows \in Int /\ rows < BUFFER_LINE_COUNT
      /\ BUFFER_LINE_COUNT \in Int
  BY <1>1, SizesAre
<1>3. info.h \in Int /\ info.winH < BUFFER_LINE_COUNT /\ info.winH \in Int
  BY DEF Window
<1>4. finalBufferSize[1] = scr.ptySize[1] /\ finalBufferSize[2] = h
  BY DEF finalBufferSize
<1>5. Max({rows, info.h}) = IF rows >= info.h THEN rows ELSE info.h
  BY <1>2, <1>3, MaxOf
<1>6. h \in Int /\ h >= rows /\ (info.h = BUFFER_LINE_COUNT => h = BUFFER_LINE_COUNT)
  BY <1>2, <1>3, <1>5
<1>7. QED BY <1>2, <1>4, <1>6

LEMMA VisibleStays ==
  ASSUME SameMode(scr, scr')
  PROVE  /\ visibleCols' = visibleCols /\ visibleRows' = visibleRows
         /\ info' = info => finalBufferSize' = finalBufferSize
BY DEF SameMode, visibleCols, visibleRows, finalBufferSize

-----------------------------------------------------------------------------
(* The child's steps.                                                       *)
LEMMA ChildIsSafe ==
  ASSUME ScraperInv, Child, misled' = misled, cleared' \in BOOLEAN,
         cleared => cleared', Console(con)',
         (saved = <<>> \/ \E c : saved = <<c>> /\ Console(c))',
         pc # "idle" => MovedDown(con, con') \/ (/\ cleared' \/ pc = "info"
                                                /\ con'.w = con.w /\ con'.h = con.h
                                                /\ con'.winW = con.winW
                                                /\ con'.winH = con.winH)
  PROVE  ScraperInv'
<1>1. /\ UNCHANGED <<frozen, newW10, scr, pc, info, force, refused>>
      /\ ~frozen /\ moved' \in BOOLEAN
  BY DEF Child
<1>2. ScraperTypeOK'
  BY <1>1 DEF ScraperInv, ScraperTypeOK
<1>3. SameMode(scr, scr')
  BY <1>1 DEF SameMode
<1>4. /\ visibleCols' = visibleCols /\ visibleRows' = visibleRows
      /\ finalBufferSize' = finalBufferSize
  BY <1>1, <1>3, VisibleStays
<1>5. pc # "idle" =>
        /\ con'.w = con.w /\ con'.h = con.h
        /\ con'.winW = con.winW /\ con'.winH = con.winH
        /\ cleared' \/ pc = "info" \/ con'.top >= con.top
  BY DEF MovedDown
<1>6. con.top \in Int /\ con'.top \in Int
  BY <1>2 DEF ScraperInv, ScraperTypeOK, Console, Window
<1>7. pc \notin {"idle", "info"} => info.top \in Int
  BY DEF ScraperInv, InfoKnown, Window
<1>8. InfoKnown'
  <2>1. InfoKnown
    BY DEF ScraperInv
  <2>2. ASSUME pc \in Scrolling \cup {"mode", "erase"} PROVE cleared' \/ con'.top >= info.top
    <3>1. cleared \/ con.top >= info.top
      BY <2>1, <2>2 DEF InfoKnown
    <3>2. pc \notin {"idle", "info"}
      BY <2>2 DEF Scrolling
    <3>3. cleared' \/ con'.top >= con.top
      BY <1>5, <3>2
    <3>4. info.top \in Int
      BY <1>7, <3>2
    <3>5. CASE cleared
      BY <3>5
    <3>6. CASE con.top >= info.top
      BY <1>6, <3>3, <3>4, <3>6
    <3>7. QED BY <3>1, <3>5, <3>6
  <2>3. pc \in Scrolling \cup {"mode", "erase", "shrink", "buffer"} => con'.h = info.h
    BY <1>5, <2>1 DEF InfoKnown, Scrolling
  <2>4. QED BY <1>1, <2>1, <2>2, <2>3 DEF InfoKnown
<1>9. ResizeKnown'
  BY <1>1, <1>4, <1>5 DEF ScraperInv, ResizeKnown
<1>10. pc \in Resizing /\ ~cleared /\ ~misled =>
         scr.syncRow <= con.top /\ scr.syncRow \in Int
  BY DEF ScraperInv, MarkerAbove, ScraperTypeOK, Members
<1>11. MarkerAbove'
  BY <1>1, <1>4, <1>5, <1>6, <1>10 DEF ScraperInv, MarkerAbove, Resizing
<1>12. QED BY <1>2, <1>8, <1>9, <1>11 DEF ScraperInv

LEMMA WritingIsSafe == ScraperInv /\ Write => ScraperInv'
<1> SUFFICES ASSUME ScraperInv, Write PROVE ScraperInv'
  OBVIOUS
<1>1. PICK text \in Texts : con' = Typing(text).con
  BY DEF Write
<1>2. Console(con) /\ Len(text) \in Nat
  BY ScraperAssumption DEF ScraperInv, ScraperTypeOK
<1>3. MovedDown(con, con')
  BY <1>1, <1>2, TypingIsConsole
<1>4. Child /\ UNCHANGED <<saved, cleared, misled>>
  BY DEF Write, Child
<1>5. Console(con)'
  BY <1>3 DEF MovedDown
<1>6. /\ (saved = <<>> \/ \E c : saved = <<c>> /\ Console(c))'
      /\ cleared' \in BOOLEAN
  BY <1>4 DEF ScraperInv, ScraperTypeOK
<1>7. QED BY <1>3, <1>4, <1>5, <1>6, ChildIsSafe

(* The cursor goes into the window, or is hidden.                           *)
LEMMA TouchingIsSafe == ScraperInv /\ (Home \/ ShowOrHide) => ScraperInv'
<1> SUFFICES ASSUME ScraperInv, Home \/ ShowOrHide PROVE ScraperInv'
  OBVIOUS
<1>1. DOMAIN con = ConFields /\ Window(con)
  BY DEF ScraperInv, ScraperTypeOK, Console
<1>2. /\ DOMAIN con' = ConFields /\ con'.w = con.w /\ con'.h = con.h /\ con'.top = con.top
      /\ con'.winW = con.winW /\ con'.winH = con.winH
      /\ con'.y = con.y \/ con'.y = con.top
  <2>1. CASE Home
    BY <1>1, <2>1 DEF Home, ConFields
  <2>2. CASE ShowOrHide
    BY <1>1, <2>2 DEF ShowOrHide, ConFields
  <2>3. QED BY <2>1, <2>2
<1>3. Console(con')
  BY <1>1, <1>2 DEF Console, Window
<1>4. MovedDown(con, con')
  BY <1>1, <1>2, <1>3 DEF MovedDown, Window
<1>5. Child /\ UNCHANGED <<saved, cleared, misled>>
  BY DEF Home, ShowOrHide, Child
<1>6. /\ (saved = <<>> \/ \E c : saved = <<c>> /\ Console(c))'
      /\ cleared' \in BOOLEAN
  BY <1>5 DEF ScraperInv, ScraperTypeOK
<1>7. Console(con)'
  BY <1>3
<1>8. QED BY <1>4, <1>5, <1>6, <1>7, ChildIsSafe

LEMMA ClearingIsSafe == ScraperInv /\ ClearScreen => ScraperInv'
<1> SUFFICES ASSUME ScraperInv, ClearScreen PROVE ScraperInv'
  OBVIOUS
<1> DEFINE d == clearLines(con, 0, con.h)
<1>1. Console(con) /\ cleared \in BOOLEAN /\ pc \in Places
  BY DEF ScraperInv, ScraperTypeOK
<1>2. SameShape(con, d)
  BY <1>1, ClearingKeepsShape
<1>3. con' = [d EXCEPT !.x = 0, !.y = 0, !.top = 0]
  BY DEF ClearScreen
<1>4. DOMAIN con = ConFields /\ Window(con)
  BY <1>1 DEF Console
<1> HIDE DEF d
<1>5. /\ DOMAIN con' = ConFields /\ con'.w = con.w /\ con'.h = con.h /\ con'.top = 0
      /\ con'.winW = con.winW /\ con'.winH = con.winH /\ con'.y = 0
  BY <1>2, <1>3, <1>4 DEF SameShape, ConFields
<1>6. Console(con)'
  BY <1>4, <1>5 DEF Console, Window
<1>7. /\ Child /\ UNCHANGED <<saved, misled>>
      /\ cleared' = (cleared \/ pc \notin {"idle", "info"})
  BY DEF ClearScreen, Child
<1>8. (saved = <<>> \/ \E c : saved = <<c>> /\ Console(c))'
  BY <1>7 DEF ScraperInv, ScraperTypeOK
<1>9. cleared' \in BOOLEAN /\ (cleared => cleared')
  BY <1>1, <1>7
<1>10. pc # "idle" => cleared' \/ pc = "info"
  BY <1>7
<1>11. QED BY <1>5, <1>6, <1>7, <1>8, <1>9, <1>10, ChildIsSafe

LEMMA SwitchingIsSafe == ScraperInv /\ (Enter \/ Leave) => ScraperInv'
<1> SUFFICES ASSUME ScraperInv, Enter \/ Leave PROVE ScraperInv'
  OBVIOUS
<1>1. /\ Console(con) /\ cleared \in BOOLEAN
      /\ saved = <<>> \/ \E c : saved = <<c>> /\ Console(c)
  BY DEF ScraperInv, ScraperTypeOK
<1>2. /\ Console(con)' /\ (saved = <<>> \/ \E c : saved = <<c>> /\ Console(c))'
      /\ pc = "idle" /\ cleared' = cleared
  <2>1. CASE Enter
    <3>1. con' = NewConsole(con.modern, con.winW, con.winH, con.winW, con.winH)
      BY <2>1 DEF Enter
    <3>2. Console(con')
      BY <1>1, <3>1 DEF NewConsole, Console, Window, ConFields
    <3>3. saved' = <<con>> /\ pc = "idle" /\ cleared' = cleared
      BY <2>1 DEF Enter
    <3>4. \E c : saved' = <<c>> /\ Console(c)
      BY <1>1, <3>3
    <3>5. QED BY <3>2, <3>3, <3>4
  <2>2. CASE Leave
    <3>1. con' = saved[1] /\ saved' = <<>> /\ saved # <<>> /\ pc = "idle"
          /\ cleared' = cleared
      BY <2>2 DEF Leave
    <3>2. PICK c : saved = <<c>> /\ Console(c)
      BY <1>1, <3>1
    <3>3. QED BY <3>1, <3>2
  <2>3. QED BY <2>1, <2>2
<1>3. Child /\ misled' = misled
  BY DEF Enter, Leave, Child
<1>4. cleared' \in BOOLEAN /\ (cleared => cleared')
  BY <1>1, <1>2
<1>5. QED BY <1>2, <1>3, <1>4, ChildIsSafe

-----------------------------------------------------------------------------
(* A round begins.                                                          *)
LEMMA BeginningIsSafe ==
  ScraperInv /\ (Scrape \/ \E size \in Sizes : Resize(size)) => ScraperInv'
<1> SUFFICES ASSUME ScraperInv, Scrape \/ \E size \in Sizes : Resize(size)
             PROVE  ScraperInv'
  OBVIOUS
<1>1. /\ pc = "idle" /\ pc' = "info"
      /\ force' \in BOOLEAN /\ frozen' \in BOOLEAN
      /\ UNCHANGED <<con, saved, newW10, moved, cleared, misled, refused>>
  BY DEF ScraperInv, ScraperTypeOK, Scrape, Resize, Begin, Goto, historyVars
<1>2. /\ Members(scr) /\ DOMAIN scr = ScrFields
  BY DEF ScraperInv, ScraperTypeOK, Members
<1>3. Members(scr)' /\ (Ahead(scr) => Ahead(scr)')
  <2>1. CASE Scrape
    <3>1. scr' = scr
      BY <2>1 DEF Scrape
    <3>2. QED BY <1>2, <3>1
  <2>2. CASE \E size \in Sizes : Resize(size)
    <3>1. PICK size \in Sizes : scr' = [scr EXCEPT !.ptySize = size]
      BY <2>2 DEF Resize
    <3>2. /\ DOMAIN scr' = ScrFields /\ scr'.scraped = scr.scraped
          /\ scr'.scrolled = scr.scrolled /\ scr'.syncRow = scr.syncRow
          /\ scr'.dirtyTop = scr.dirtyTop /\ scr'.dirty = scr.dirty
          /\ scr'.ptySize = size /\ scr'.directMode = scr.directMode
      BY <1>2, <3>1 DEF ScrFields
    <3>3. Members(scr') /\ (Ahead(scr) => Ahead(scr'))
      BY <1>2, <3>2 DEF Members, Ahead
    <3>4. QED BY <3>3
  <2>3. QED BY <2>1, <2>2
<1>4. ScraperTypeOK'
  BY <1>1, <1>3 DEF ScraperInv, ScraperTypeOK, Places
<1>5. InfoKnown'
  BY <1>1 DEF InfoKnown, Scrolling
<1>6. ResizeKnown'
  BY <1>1 DEF ScraperInv, ResizeKnown
<1>7. MarkerAbove'
  BY <1>1, <1>3 DEF ScraperInv, MarkerAbove, Resizing
<1>8. QED BY <1>4, <1>5, <1>6, <1>7 DEF ScraperInv

LEMMA ReadingInfoIsSafe == ScraperInv /\ ReadInfo => ScraperInv'
<1> SUFFICES ASSUME ScraperInv, ReadInfo PROVE ScraperInv'
  OBVIOUS
<1>1. /\ pc = "info" /\ pc' = "mode" /\ info' = Info(con)
      /\ UNCHANGED <<saved, newW10, moved, cleared, refused, con, scr, misled, frozen, force>>
  BY DEF ReadInfo, Goto, agentIdle
<1>2. Console(con)
  BY DEF ScraperInv, ScraperTypeOK
<1>3. Window(info') /\ info'.h = con.h /\ info'.top = con.top
  BY <1>1, <1>2, InfoIsWindow
<1>4. ScraperTypeOK'
  BY <1>1 DEF ScraperInv, ScraperTypeOK, Places
<1>5. InfoKnown'
  <2>1. con.top \in Int
    BY <1>2 DEF Console, Window
  <2>2. con'.top >= info'.top
    BY <1>1, <1>3, <2>1
  <2>3. Window(info)'
    BY <1>3
  <2>4. QED BY <1>1, <1>3, <2>2, <2>3 DEF InfoKnown, Scrolling
<1>6. ResizeKnown'
  BY <1>1 DEF ScraperInv, ResizeKnown
<1>7. MarkerAbove'
  BY <1>1 DEF ScraperInv, MarkerAbove, Resizing
<1>8. QED BY <1>4, <1>5, <1>6, <1>7 DEF ScraperInv

-----------------------------------------------------------------------------
(* The parts of a round.                                                    *)
LEMMA RoundIs ==
  ASSUME ScraperInv
  PROVE  /\ Well(Round) /\ Round.con = con /\ Round.scr = scr
         /\ Round.misled = misled
<1>1. /\ DOMAIN Round = RoundFields /\ Round.con = con /\ Round.scr = scr
      /\ Round.misled = misled
  BY DEF Round, RoundFields
<1>2. Console(con) /\ Members(scr) /\ misled \in BOOLEAN
  BY DEF ScraperInv, ScraperTypeOK
<1> HIDE DEF Round
<1>3. QED BY <1>1, <1>2 DEF Well

LEMMA ApplyIs ==
  ASSUME NEW r, Well(r), Apply(r)
  PROVE  /\ con' = r.con /\ scr' = r.scr /\ misled' = r.misled
         /\ Console(con)' /\ Members(scr)' /\ misled' \in BOOLEAN
         /\ Led(r) <=> misled' \/ Ahead(scr')
BY DEF Apply, Well, Led

LEMMA SettingModeIsSafe == ScraperInv /\ SetMode => ScraperInv'
<1> SUFFICES ASSUME ScraperInv, SetMode PROVE ScraperInv'
  OBVIOUS
<1> DEFINE direct == info.h # BUFFER_LINE_COUNT
           switch == direct # scr.directMode
           back == switch /\ ~direct
           n == IF direct THEN 0 ELSE info.top
           rd == resetConsoleTracking(Round, n)
           r == IF switch THEN [rd EXCEPT !.scr.directMode = direct] ELSE Round
<1>1. /\ pc = "mode" /\ Apply(r)
      /\ frozen' = (frozen \/ back) /\ force' = (force \/ back)
      /\ pc' = IF ~direct THEN "scroll" ELSE IF force THEN "erase" ELSE "direct"
      /\ UNCHANGED <<saved, newW10, moved, cleared, refused, info>>
  BY DEF SetMode, Goto, agentIdle
<1>2. /\ Well(Round) /\ Round.con = con /\ Round.scr = scr /\ Round.misled = misled
      /\ scr.directMode \in BOOLEAN
  BY RoundIs DEF ScraperInv, ScraperTypeOK, Members
<1>3. Window(info) /\ n \in Int /\ 0 <= n
  BY <1>1 DEF ScraperInv, InfoKnown, Window
<1> HIDE DEF n
<1>4. /\ Well(r) /\ r.con = con /\ r.scr.directMode = direct
      /\ Led(r) \/ (r.misled = misled /\ r.scr = scr)
  <2>1. CASE switch
    <3>1. /\ Well(rd) /\ rd.con = con /\ Led(rd)
          /\ rd.scr.syncRow = -1
      BY <1>2, <1>3, ResetIsWell
    <3>2. r = [rd EXCEPT !.scr.directMode = direct]
      BY <2>1
    <3> HIDE DEF rd
    <3> DEFINE s == rd.scr
               t == [s EXCEPT !.directMode = direct]
    <3>3. /\ DOMAIN r = RoundFields /\ r.con = rd.con /\ r.scr = t
          /\ r.misled = rd.misled
      BY <3>1, <3>2 DEF Well, RoundFields
    <3>4. Members(s) /\ DOMAIN s = ScrFields
      BY <3>1 DEF Well, Members
    <3>5. /\ DOMAIN t = ScrFields /\ t.scraped = s.scraped
          /\ t.scrolled = s.scrolled /\ t.syncRow = s.syncRow /\ t.dirtyTop = s.dirtyTop
          /\ t.dirty = s.dirty /\ t.ptySize = s.ptySize /\ t.directMode = direct
      BY <3>4 DEF ScrFields
    <3>6. direct \in BOOLEAN
      OBVIOUS
    <3> HIDE DEF t, direct
    <3>7. Members(t) /\ (Ahead(s) => Ahead(t))
      BY <3>1, <3>4, <3>5, <3>6 DEF Members, Ahead
    <3> HIDE DEF r
    <3>8. Well(r) /\ Led(r)
      BY <3>1, <3>3, <3>7 DEF Well, Led
    <3>9. QED BY <3>1, <3>3, <3>5, <3>8
  <2>2. CASE ~switch
    <3>1. r = Round /\ scr.directMode = direct
      BY <1>2, <2>2
    <3>2. QED BY <1>2, <3>1
  <2>3. QED BY <2>1, <2>2
<1> HIDE DEF r
<1>5. /\ con' = con /\ scr' = r.scr /\ misled' = r.misled
      /\ Console(con)' /\ Members(scr)' /\ misled' \in BOOLEAN
      /\ Led(r) <=> misled' \/ Ahead(scr')
  BY <1>1, <1>4, ApplyIs
<1>6. ScraperTypeOK'
  <2>1. pc' \in Places /\ frozen' \in BOOLEAN /\ force' \in BOOLEAN
    BY <1>1 DEF ScraperInv, ScraperTypeOK, Places, Scrolling
  <2> HIDE DEF direct, switch, back
  <2>2. QED BY <1>1, <1>5, <2>1 DEF ScraperInv, ScraperTypeOK
<1>7. InfoKnown'
  <2>1. scr'.directMode <=> direct
    BY <1>4, <1>5
  <2>2. con.h = info.h /\ (cleared \/ con.top >= info.top)
    BY <1>1 DEF ScraperInv, InfoKnown
  <2>3. Window(info)'
    BY <1>1, <1>3
  <2>4. \/ ~direct /\ pc' = "scroll"
        \/ direct /\ pc' \in {"erase", "direct"}
    BY <1>1
  <2>5. QED BY <1>1, <1>5, <2>1, <2>2, <2>3, <2>4 DEF InfoKnown, Scrolling
<1>8. ResizeKnown'
  <2>1. pc' \in {"scroll", "erase"} \/ (pc' = "direct" /\ ~force')
    BY <1>1
  <2>2. QED BY <1>1, <2>1 DEF ScraperInv, ResizeKnown
<1>9. MarkerAbove'
  <2>1. cleared \/ misled' \/ Ahead(scr')
    BY <1>2, <1>4, <1>5 DEF ScraperInv, MarkerAbove
  <2>2. pc' \notin Resizing
    BY <1>1 DEF Resizing
  <2>3. QED BY <1>1, <2>1, <2>2 DEF MarkerAbove
<1>10. QED BY <1>6, <1>7, <1>8, <1>9 DEF ScraperInv

LEMMA MirroringIsSafe == ScraperInv /\ Direct => ScraperInv'
<1> SUFFICES ASSUME ScraperInv, Direct PROVE ScraperInv'
  OBVIOUS
<1> DEFINE r == ScrapeDirect(Round, info)
<1>1. /\ pc = "direct" /\ pc' = "end" /\ Apply(r)
      /\ UNCHANGED <<saved, newW10, moved, cleared, refused, frozen, info, force>>
  BY DEF Direct, Goto, agentIdle
<1>2. /\ Well(Round) /\ Round.con = con /\ Round.scr = scr /\ Round.misled = misled
  BY RoundIs
<1>3. /\ Well(r) /\ r.con = con /\ SameMode(scr, r.scr)
      /\ Led(Round) => Led(r)
  BY <1>2, DirectIsWell
<1> HIDE DEF r
<1>4. /\ con' = con /\ scr' = r.scr /\ misled' = r.misled
      /\ Console(con)' /\ Members(scr)' /\ misled' \in BOOLEAN
      /\ Led(r) <=> misled' \/ Ahead(scr')
  BY <1>1, <1>3, ApplyIs
<1>5. ScraperTypeOK'
  BY <1>1, <1>4 DEF ScraperInv, ScraperTypeOK, Places
<1>6. SameMode(scr, scr')
  BY <1>3, <1>4
<1>7. InfoKnown'
  BY <1>1, <1>4, <1>6 DEF ScraperInv, InfoKnown, Scrolling, SameMode
<1>8. ResizeKnown'
  BY <1>1, <1>4, <1>6, VisibleStays DEF ScraperInv, ResizeKnown
<1>9. MarkerAbove'
  <2>1. Led(Round) <=> misled \/ Ahead(scr)
    BY <1>2 DEF Led
  <2>2. QED BY <1>1, <1>3, <1>4, <2>1 DEF ScraperInv, MarkerAbove, Resizing
<1>10. QED BY <1>5, <1>7, <1>8, <1>9 DEF ScraperInv

(* The places of the tracked buffer's scrape, from what they have in common. *)
LEMMA ScrollingStep ==
  ASSUME ScraperInv, pc \in Scrolling, pc' \in Scrolling \cup {"erase", "end"},
         UNCHANGED <<saved, newW10, moved, cleared, refused, info, force>>,
         frozen' \in BOOLEAN,
         NEW r, Well(r), Apply(r), SameShape(con, r.con), SameMode(scr, r.scr),
         misled \/ Ahead(scr) => Led(r),
         pc' # "scroll" => r.scr.dirtyTop = info.top,
         pc' = "end" => ~force
  PROVE  ScraperInv'
<1>1. /\ con' = r.con /\ scr' = r.scr /\ misled' = r.misled
      /\ Console(con)' /\ Members(scr)' /\ misled' \in BOOLEAN
      /\ Led(r) <=> misled' \/ Ahead(scr')
  BY ApplyIs
<1>2. ScraperTypeOK'
  BY <1>1 DEF ScraperInv, ScraperTypeOK, Places
<1>3. SameMode(scr, scr') /\ SameShape(con, con')
  BY <1>1
<1>4. pc \notin {"idle", "info", "mode"} /\ pc' \notin {"idle", "info", "mode"}
  BY DEF Scrolling
<1>5. InfoKnown'
  <2>1. /\ Window(info) /\ (scr.directMode <=> info.h # BUFFER_LINE_COUNT)
        /\ ~scr.directMode /\ con.h = info.h /\ (cleared \/ con.top >= info.top)
    BY <1>4 DEF ScraperInv, InfoKnown
  <2>2. scr'.directMode = scr.directMode /\ con'.h = con.h /\ con'.top = con.top
    BY <1>3 DEF SameMode, SameShape
  <2>3. pc' # "scroll" => scr'.dirtyTop = info.top
    BY <1>1
  <2>4. Window(info)'
    BY <2>1
  <2>5. QED BY <1>4, <2>1, <2>2, <2>3, <2>4 DEF InfoKnown, Scrolling
<1>6. ResizeKnown'
  BY DEF ScraperInv, ResizeKnown, Scrolling
<1>7. MarkerAbove'
  <2>1. cleared \/ misled' \/ Ahead(scr')
    BY <1>1 DEF ScraperInv, MarkerAbove
  <2>2. pc' \notin Resizing
    BY DEF Resizing, Scrolling
  <2>3. QED BY <2>1, <2>2 DEF MarkerAbove
<1>8. QED BY <1>2, <1>5, <1>6, <1>7 DEF ScraperInv

(* A step that leaves the scraper as it is, from which a scrape may start   *)
(* over.                                                                    *)
LEMMA IdlingRound ==
  ASSUME ScraperInv, UNCHANGED <<con, scr, misled, term, base, erased, missed, blind>>
  PROVE  /\ Apply(Round) /\ SameShape(con, Round.con) /\ SameMode(scr, Round.scr)
         /\ Well(Round) /\ Round.scr = scr
         /\ misled \/ Ahead(scr) => Led(Round)
<1>1. Apply(Round)
  BY DEF Apply, Round
<1>2. QED BY <1>1, RoundIs DEF SameShape, SameMode, Led

LEMMA StartingOverIsSafe ==
  ASSUME ScraperInv, pc \in Scrolling, StartOver
  PROVE  ScraperInv'
<1>1. /\ frozen' = TRUE /\ pc' = "scroll"
      /\ UNCHANGED <<saved, newW10, moved, cleared, refused, info, force>>
      /\ UNCHANGED <<con, scr, misled, term, base, erased, missed, blind>>
  BY DEF StartOver, Goto, agentIdle
<1>2. pc' \in Scrolling \cup {"erase", "end"} /\ pc' # "end" /\ frozen' \in BOOLEAN
  BY <1>1 DEF Scrolling
<1> DEFINE r == Round
<1>3. /\ Apply(r) /\ SameShape(con, r.con) /\ SameMode(scr, r.scr)
      /\ Well(r) /\ (misled \/ Ahead(scr) => Led(r))
  BY <1>1, IdlingRound
<1> HIDE DEF r
<1>4. QED BY <1>1, <1>2, <1>3, ScrollingStep

LEMMA ScrollingFrozenIsSafe == ScraperInv /\ ScrollFrozen => ScraperInv'
<1> SUFFICES ASSUME ScraperInv, ScrollFrozen PROVE ScraperInv'
  OBVIOUS
<1> DEFINE r == ScrapeFrozen(Round, info)
<1>1. /\ pc = "scroll" /\ pc' = (IF force THEN "erase" ELSE "end") /\ Apply(r)
      /\ UNCHANGED <<saved, newW10, moved, cleared, refused, frozen, info, force>>
  BY DEF ScrollFrozen, Goto, agentIdle, AfterScrape
<1>2. /\ Well(Round) /\ Round.con = con /\ Round.scr = scr /\ Round.misled = misled
  BY RoundIs
<1>3. Window(info) /\ info.h = BUFFER_LINE_COUNT /\ ~scr.directMode
  BY <1>1 DEF ScraperInv, InfoKnown, Scrolling
<1>4. /\ Well(r) /\ SameShape(con, r.con) /\ SameMode(scr, r.scr)
      /\ r.scr.dirtyTop = info.top
      /\ Led(Round) => Led(r)
  BY <1>2, <1>3, FrozenIsWell
<1>5. misled \/ Ahead(scr) => Led(r)
  BY <1>2, <1>4 DEF Led
<1> HIDE DEF r
<1>6. /\ pc \in Scrolling /\ pc' \in Scrolling \cup {"erase", "end"}
      /\ pc' = "end" => ~force
      /\ frozen' \in BOOLEAN
  BY <1>1 DEF Scrolling, ScraperInv, ScraperTypeOK
<1>7. QED BY <1>1, <1>4, <1>5, <1>6, ScrollingStep

LEMMA FindingMarkerIsSafe == ScraperInv /\ FindMarker => ScraperInv'
<1> SUFFICES ASSUME ScraperInv, FindMarker PROVE ScraperInv'
  OBVIOUS
<1> DEFINE p == Prepare(Round, info, TRUE)
           r == p.rd
<1>1. /\ pc = "scroll" /\ pc \in Scrolling
      /\ \/ /\ p.ok /\ Apply(r) /\ pc' = "read"
            /\ UNCHANGED <<saved, newW10, moved, cleared, refused, frozen, info, force>>
         \/ StartOver
  BY DEF FindMarker, Goto, agentIdle, Scrolling
<1>2. CASE StartOver
  BY <1>1, <1>2, StartingOverIsSafe
<1>3. CASE ~StartOver
  <2>1. /\ Well(Round) /\ Round.con = con /\ Round.scr = scr /\ Round.misled = misled
    BY RoundIs
  <2>2. Window(info) /\ info.h = BUFFER_LINE_COUNT /\ ~scr.directMode
    BY <1>1 DEF ScraperInv, InfoKnown, Scrolling
  <2>3. p.ok
    BY <1>1, <1>3
  <2>4. /\ Well(r) /\ r.con = con /\ SameMode(scr, r.scr)
        /\ r.scr.dirtyTop = info.top
        /\ Led(Round) => Led(r)
    BY <2>1, <2>2, <2>3, PreparingIsWell
  <2>5. misled \/ Ahead(scr) => Led(r)
    BY <2>1, <2>4 DEF Led
  <2>6. SameShape(con, r.con)
    BY <2>4 DEF SameShape
  <2>7. /\ Apply(r) /\ pc' = "read"
        /\ UNCHANGED <<saved, newW10, moved, cleared, refused, frozen, info, force>>
    BY <1>1, <1>3
  <2> HIDE DEF r
  <2>8. pc' \in Scrolling \cup {"erase", "end"} /\ pc' # "end" /\ frozen' \in BOOLEAN
    BY <2>7 DEF Scrolling, ScraperInv, ScraperTypeOK
  <2>9. QED BY <1>1, <2>4, <2>5, <2>6, <2>7, <2>8, ScrollingStep
<1>4. QED BY <1>2, <1>3

LEMMA ReadingIsSafe == ScraperInv /\ (ReadLines \/ CheckInfo) => ScraperInv'
<1> SUFFICES ASSUME ScraperInv, ReadLines \/ CheckInfo PROVE ScraperInv'
  OBVIOUS
<1>1. pc \in {"read", "check"} /\ pc \in Scrolling
  BY DEF ReadLines, CheckInfo, Scrolling
<1>2. CASE StartOver
  BY <1>1, <1>2, StartingOverIsSafe
<1>3. CASE ~StartOver
  <2>1. /\ pc' \in {"check", "check marker"}
        /\ UNCHANGED <<saved, newW10, moved, cleared, refused, info, force, frozen>>
        /\ UNCHANGED <<con, scr, misled, term, base, erased, missed, blind>>
    <3>1. CASE ReadLines
      BY <3>1 DEF ReadLines, Goto, agentIdle
    <3>2. CASE CheckInfo
      BY <1>3, <3>2 DEF CheckInfo, Goto, agentIdle
    <3>3. QED BY <3>1, <3>2
  <2> DEFINE r == Round
  <2>2. /\ Apply(r) /\ SameShape(con, r.con) /\ SameMode(scr, r.scr)
        /\ Well(r) /\ r.scr = scr /\ (misled \/ Ahead(scr) => Led(r))
    BY <2>1, IdlingRound
  <2> HIDE DEF r
  <2>3. r.scr.dirtyTop = info.top
    BY <1>1, <2>2 DEF ScraperInv, InfoKnown
  <2>4. pc' \in Scrolling \cup {"erase", "end"} /\ pc' # "end" /\ frozen' \in BOOLEAN
    BY <2>1 DEF Scrolling, ScraperInv, ScraperTypeOK
  <2>5. QED BY <1>1, <2>1, <2>2, <2>3, <2>4, ScrollingStep
<1>4. QED BY <1>2, <1>3

LEMMA CheckingMarkerIsSafe == ScraperInv /\ CheckMarker => ScraperInv'
<1> SUFFICES ASSUME ScraperInv, CheckMarker PROVE ScraperInv'
  OBVIOUS
<1> DEFINE r == Send(Round, info, readBuf)
<1>1. pc = "check marker" /\ pc \in Scrolling
  BY DEF CheckMarker, Scrolling
<1>2. CASE StartOver
  BY <1>1, <1>2, StartingOverIsSafe
<1>3. CASE ~StartOver
  <2>1. /\ Apply(r) /\ pc' = IF force THEN "erase" ELSE "end"
        /\ UNCHANGED <<saved, newW10, moved, cleared, refused, frozen, info, force>>
    BY <1>3 DEF CheckMarker, Goto, agentIdle, AfterScrape
  <2>2. /\ Well(Round) /\ Round.con = con /\ Round.scr = scr /\ Round.misled = misled
    BY RoundIs
  <2>3. Window(info) /\ info.h = BUFFER_LINE_COUNT /\ scr.dirtyTop = info.top
    BY <1>1 DEF ScraperInv, InfoKnown, Scrolling
  <2>4. /\ Well(r) /\ r.con = con /\ SameMode(scr, r.scr) /\ r.misled = misled
        /\ r.scr.syncRow = scr.syncRow /\ r.scr.dirtyTop = scr.dirtyTop
        /\ r.scr.scraped - r.scr.scrolled = info.top
    BY <2>2, <2>3, SendingIsWell
  <2> HIDE DEF r
  <2>5. ASSUME misled \/ Ahead(scr) PROVE Led(r)
    <3>1. info.top \in Int /\ 0 <= info.top
      BY <2>3 DEF Window
    <3>2. Ahead(scr) => Ahead(r.scr)
      BY <2>3, <2>4, <3>1 DEF Ahead
    <3>3. QED BY <2>4, <2>5, <3>2 DEF Led
  <2>6. SameShape(con, r.con) /\ r.scr.dirtyTop = info.top
    BY <2>3, <2>4 DEF SameShape
  <2>7. /\ pc' \in Scrolling \cup {"erase", "end"} /\ (pc' = "end" => ~force)
        /\ frozen' \in BOOLEAN
    BY <2>1 DEF Scrolling, ScraperInv, ScraperTypeOK
  <2>8. QED BY <1>1, <2>1, <2>4, <2>5, <2>6, <2>7, ScrollingStep
<1>4. QED BY <1>2, <1>3

-----------------------------------------------------------------------------
(* The resize.  The lines above the window are erased, and the marker moves *)
(* up as far as the terminal's size asks for.                               *)
LEMMA ErasingIsWell ==
  ASSUME NEW rd, Well(rd), ~rd.scr.directMode, NEW i
  PROVE  LET r == EraseAbove(rd, i)
         IN /\ Well(r) /\ SameShape(rd.con, r.con) /\ SameMode(rd.scr, r.scr)
            /\ r.misled = rd.misled
            /\ r.scr.syncRow <= rd.scr.syncRow
            /\ r.scr.syncRow <= BUFFER_LINE_COUNT - rd.scr.ptySize[2]
            /\ r.scr.scraped = rd.scr.scraped /\ r.scr.scrolled = rd.scr.scrolled
            /\ r.scr.dirtyTop = rd.scr.dirtyTop
<1> DEFINE c == clearLines(rd.con, 0, i.top)
           s == clearBufferLines(rd.scr, i.top)
           e == [rd EXCEPT !.con = clearLines(@, 0, i.top),
                           !.scr = clearBufferLines(@, i.top),
                           !.erased = @ \cup {gone + q : q \in 0..(i.top - 1)}]
           last == BUFFER_LINE_COUNT - rd.scr.ptySize[2] - SYNC_MARKER_LEN
                     - SYNC_MARKER_MARGIN
           row == Min({rd.scr.syncRow, last})
           r == EraseAbove(rd, i)
<1>1. r = IF rd.scr.syncRow = NoMarker THEN e ELSE createSyncMarker(e, row)
  BY DEF EraseAbove
<1>2. Members(rd.scr) /\ DOMAIN rd.scr = ScrFields /\ rd.scr.ptySize \in Sizes
      /\ rd.scr.syncRow \in Int /\ rd.scr.syncRow >= -1
      /\ Console(rd.con) /\ DOMAIN rd = RoundFields /\ rd.misled \in BOOLEAN
  BY DEF Well, Members
<1>3. SameShape(rd.con, c) /\ Console(c)
  BY <1>2, ClearingKeepsShape, ShapeIsEnough
<1>4. /\ DOMAIN s = ScrFields /\ s.syncRow = rd.scr.syncRow /\ s.scraped = rd.scr.scraped
      /\ s.scrolled = rd.scr.scrolled /\ s.dirtyTop = rd.scr.dirtyTop
      /\ s.dirty = rd.scr.dirty /\ s.ptySize = rd.scr.ptySize
      /\ s.directMode = rd.scr.directMode
  BY <1>2 DEF clearBufferLines, ScrFields
<1>5. /\ DOMAIN e = RoundFields /\ e.con = c /\ e.scr = s /\ e.misled = rd.misled
  BY <1>2 DEF RoundFields
<1> HIDE DEF c, s, e, r
<1>6. Members(s) /\ SameMode(rd.scr, s)
  BY <1>2, <1>4 DEF Members, SameMode
<1>7. Well(e)
  BY <1>2, <1>3, <1>5, <1>6 DEF Well
<1>8. /\ rd.scr.ptySize[2] \in Int /\ BUFFER_LINE_COUNT \in Int
      /\ last \in Int /\ 0 <= last /\ last <= BUFFER_LINE_COUNT - rd.scr.ptySize[2]
  BY <1>2, SizesAre
<1>9. row = IF rd.scr.syncRow <= last THEN rd.scr.syncRow ELSE last
  <2>1. rd.scr.syncRow \in Int /\ last \in Int
    BY <1>2, <1>8
  <2> HIDE DEF last
  <2>2. QED BY ONLY <2>1, MaxOf
<1> HIDE DEF row, last
<1>10. CASE rd.scr.syncRow = NoMarker
  <2>1. r = e
    BY <1>1, <1>10
  <2>2. -1 <= BUFFER_LINE_COUNT - rd.scr.ptySize[2]
    BY <1>8
  <2>3. rd.scr.syncRow = -1
    BY <1>10 DEF NoMarker
  <2>4. QED BY <1>3, <1>4, <1>5, <1>6, <1>7, <2>1, <2>2, <2>3 DEF r
<1>11. CASE rd.scr.syncRow # NoMarker
  <2> DEFINE m == createSyncMarker(e, row)
  <2>1. r = m
    BY <1>1, <1>11
  <2>2. /\ row \in Int /\ 0 <= row /\ row <= rd.scr.syncRow
        /\ row <= BUFFER_LINE_COUNT - rd.scr.ptySize[2]
    BY <1>2, <1>8, <1>9, <1>11 DEF NoMarker
  <2>3. ~e.scr.directMode
    BY <1>4, <1>5
  <2>4. /\ Well(m) /\ SameShape(e.con, m.con) /\ m.misled = e.misled
        /\ SameMode(e.scr, m.scr) /\ m.scr.syncRow = row
        /\ m.scr.scraped = e.scr.scraped /\ m.scr.scrolled = e.scr.scrolled
        /\ m.scr.dirtyTop = e.scr.dirtyTop /\ m.scr.dirty = e.scr.dirty
    BY <1>7, <2>2, <2>3, MarkingIsWell
  <2> HIDE DEF m
  <2>5. SameShape(rd.con, m.con) /\ SameMode(rd.scr, m.scr)
    BY <1>3, <1>5, <1>6, <2>4 DEF SameShape, SameMode
  <2>6. QED BY <1>4, <1>5, <2>1, <2>2, <2>4, <2>5 DEF r
<1>12. QED BY <1>10, <1>11

LEMMA ErasingIsSafe == ScraperInv /\ EraseForResize => ScraperInv'
<1> SUFFICES ASSUME ScraperInv, EraseForResize PROVE ScraperInv'
  OBVIOUS
<1> DEFINE q == [Round EXCEPT !.scr.lines = [k \in DOMAIN @ |-> NoLine]]
           r == IF scr.directMode THEN q ELSE EraseAbove(Round, info)
<1>1. /\ pc = "erase" /\ pc' = "shrink" /\ frozen' = FALSE /\ Apply(r)
      /\ UNCHANGED <<saved, newW10, moved, cleared, refused, info, force>>
  BY DEF EraseForResize, Goto, agentIdle
<1>2. /\ Well(Round) /\ Round.con = con /\ Round.scr = scr /\ Round.misled = misled
      /\ Members(scr) /\ DOMAIN scr = ScrFields /\ scr.syncRow \in Int
      /\ scr.syncRow >= -1 /\ scr.ptySize \in Sizes
      /\ scr.directMode => scr.syncRow = -1
  BY RoundIs DEF ScraperInv, ScraperTypeOK, Members
<1>3. /\ Window(info) /\ con.h = info.h
      /\ scr.directMode <=> info.h # BUFFER_LINE_COUNT
      /\ ~scr.directMode => scr.dirtyTop = info.top
      /\ cleared \/ con.top >= info.top
  BY <1>1 DEF ScraperInv, InfoKnown, Scrolling
<1>4. scr.ptySize[2] \in Int /\ scr.ptySize[2] < BUFFER_LINE_COUNT
      /\ BUFFER_LINE_COUNT \in Int
  BY <1>2, SizesAre
<1>5. /\ Well(r) /\ SameShape(con, r.con) /\ SameMode(scr, r.scr)
      /\ r.misled = misled /\ r.scr.syncRow <= scr.syncRow
      /\ info.h = BUFFER_LINE_COUNT =>
           r.scr.syncRow <= BUFFER_LINE_COUNT - scr.ptySize[2]
      /\ r.scr.scraped = scr.scraped /\ r.scr.scrolled = scr.scrolled
      /\ r.scr.dirtyTop = scr.dirtyTop
  <2>1. CASE scr.directMode
    <3> DEFINE lines == [k \in DOMAIN scr.lines |-> NoLine]
               s == [scr EXCEPT !.lines = lines]
    <3>1. q = [Round EXCEPT !.scr = s]
      BY <1>2
    <3>2. /\ DOMAIN s = ScrFields /\ s.syncRow = scr.syncRow /\ s.scraped = scr.scraped
          /\ s.scrolled = scr.scrolled /\ s.dirtyTop = scr.dirtyTop
          /\ s.dirty = scr.dirty /\ s.ptySize = scr.ptySize
          /\ s.directMode = scr.directMode
      BY <1>2 DEF ScrFields
    <3> HIDE DEF s, q
    <3>3. /\ DOMAIN q = RoundFields /\ q.con = con /\ q.scr = s /\ q.misled = misled
      BY <1>2, <3>1 DEF Well, RoundFields
    <3>4. Members(s) /\ SameMode(scr, s)
      BY <1>2, <3>2 DEF Members, SameMode
    <3>5. Well(q)
      BY <1>2, <3>3, <3>4 DEF Well
    <3>6. SameShape(con, q.con)
      BY <3>3 DEF SameShape
    <3>7. q.scr.syncRow <= scr.syncRow /\ info.h # BUFFER_LINE_COUNT
      BY <1>2, <1>3, <2>1, <3>2, <3>3
    <3>8. r = q
      BY <2>1
    <3> HIDE DEF r
    <3>9. QED BY <3>2, <3>3, <3>4, <3>5, <3>6, <3>7, <3>8
  <2>2. CASE ~scr.directMode
    <3> DEFINE m == EraseAbove(Round, info)
    <3>1. /\ Well(m) /\ SameShape(Round.con, m.con) /\ SameMode(Round.scr, m.scr)
          /\ m.misled = Round.misled
          /\ m.scr.syncRow <= Round.scr.syncRow
          /\ m.scr.syncRow <= BUFFER_LINE_COUNT - Round.scr.ptySize[2]
          /\ m.scr.scraped = Round.scr.scraped /\ m.scr.scrolled = Round.scr.scrolled
          /\ m.scr.dirtyTop = Round.scr.dirtyTop
      BY <1>2, <2>2, ErasingIsWell
    <3>2. r = m
      BY <2>2
    <3> HIDE DEF m, r
    <3>3. QED BY <1>2, <3>1, <3>2
  <2>3. QED BY <1>2, <2>1, <2>2
<1> HIDE DEF r, q
<1>6. /\ con' = r.con /\ scr' = r.scr /\ misled' = r.misled
      /\ Console(con)' /\ Members(scr)' /\ misled' \in BOOLEAN
  BY <1>1, <1>5, ApplyIs
<1>7. /\ con'.h = con.h /\ con'.top = con.top /\ SameMode(scr, scr')
      /\ scr'.directMode = scr.directMode /\ scr'.ptySize = scr.ptySize
      /\ scr'.syncRow \in Int
  BY <1>5, <1>6 DEF SameShape, SameMode, Members
<1>8. ScraperTypeOK'
  BY <1>1, <1>6 DEF ScraperInv, ScraperTypeOK, Places, Resizing
<1>9. InfoKnown'
  <2>1. Window(info)'
    BY <1>1, <1>3
  <2>2. QED BY <1>1, <1>3, <1>7, <2>1 DEF InfoKnown, Scrolling
<1>10. ResizeKnown'
  BY <1>1 DEF ScraperInv, ResizeKnown
<1>11. ASSUME ~cleared, ~misled
       PROVE  /\ Ahead(scr)' /\ scr'.syncRow <= con'.top
              /\ scr'.syncRow <= (finalBufferSize[2] - visibleRows)'
  <2>1. Ahead(scr)
    BY <1>11 DEF ScraperInv, MarkerAbove
  <2>2. scr.scraped \in Int /\ scr.scrolled \in Int /\ scr.dirtyTop \in Int
    BY <1>2 DEF Members
  <2>3. Ahead(scr')
    BY <1>2, <1>5, <1>6, <1>7, <2>1, <2>2 DEF Ahead
  <2>4. scr'.syncRow <= con'.top
    <3>1. con.top \in Int /\ info.top \in Int /\ 0 <= con.top
      BY <1>3 DEF ScraperInv, ScraperTypeOK, Console, Window
    <3>2. CASE scr.directMode
      BY <1>2, <1>5, <1>6, <1>7, <3>1, <3>2
    <3>3. CASE ~scr.directMode
      <4>1. scr.syncRow <= con.top
        BY <1>2, <1>3, <1>11, <2>1, <3>1, <3>3 DEF Ahead
      <4>2. QED BY <1>2, <1>5, <1>6, <1>7, <3>1, <4>1
    <3>4. QED BY <1>2, <3>2, <3>3
  <2>5. /\ visibleRows' = visibleRows /\ finalBufferSize' = finalBufferSize
    BY <1>1, <1>7, VisibleStays
  <2>6. /\ visibleRows \in Int /\ visibleRows <= scr.ptySize[2]
        /\ finalBufferSize[2] \in Int /\ finalBufferSize[2] >= scr.ptySize[2]
        /\ info.h = BUFFER_LINE_COUNT => finalBufferSize[2] = BUFFER_LINE_COUNT
    BY <1>2, <1>3, VisibleIs, FinalSizeIs
  <2>7. scr'.syncRow <= finalBufferSize[2] - visibleRows
    <3>1. CASE scr.directMode
      <4>1. scr'.syncRow <= -1
        BY <1>2, <1>5, <1>6, <3>1
      <4>2. QED BY <1>4, <1>7, <2>6, <4>1
    <3>2. CASE ~scr.directMode
      <4>1. scr'.syncRow <= BUFFER_LINE_COUNT - scr.ptySize[2]
            /\ finalBufferSize[2] = BUFFER_LINE_COUNT
        BY <1>3, <1>5, <1>6, <2>6, <3>2
      <4>2. QED BY <1>4, <1>7, <2>6, <4>1
    <3>3. QED BY <1>2, <3>1, <3>2
  <2>8. QED BY <2>3, <2>4, <2>5, <2>7
<1>12. MarkerAbove'
  <2>1. cleared' = cleared /\ misled' = misled
    BY <1>1, <1>5, <1>6
  <2>2. QED BY <1>11, <2>1 DEF MarkerAbove
<1>13. QED BY <1>8, <1>9, <1>10, <1>12 DEF ScraperInv

(* What the three steps of the resize know.                                 *)
LEMMA ResizingKnows ==
  ASSUME ScraperInv, pc \in Resizing
  PROVE  /\ Console(con) /\ Window(con) /\ Members(scr) /\ Window(info)
         /\ con.top \in Int /\ con.h \in Int /\ con.w \in Int /\ con.winW \in Int
         /\ con.winH \in Int
         /\ 0 <= con.top /\ 1 <= con.winW /\ 1 <= con.winH
         /\ con.winW <= con.w /\ con.top + con.winH <= con.h
         /\ scr.syncRow \in Int /\ scr.dirty \in Int /\ scr.dirty <= BUFFER_LINE_COUNT
         /\ visibleCols \in Int /\ 1 <= visibleCols /\ visibleCols <= Largest[1]
         /\ visibleRows \in Int /\ 1 <= visibleRows /\ visibleRows <= Largest[2]
         /\ visibleRows < BUFFER_LINE_COUNT
         /\ finalBufferSize[1] \in Int /\ finalBufferSize[2] \in Int
         /\ visibleCols <= finalBufferSize[1] /\ visibleRows <= finalBufferSize[2]
         /\ scr.directMode =>
              info.h # BUFFER_LINE_COUNT /\ scr.syncRow = -1
         /\ ~scr.directMode =>
              info.h = BUFFER_LINE_COUNT /\ finalBufferSize[2] = BUFFER_LINE_COUNT
<1>1. Console(con) /\ Window(con) /\ Members(scr)
  BY DEF ScraperInv, ScraperTypeOK, Console
<1>2. Window(info) /\ (scr.directMode <=> info.h # BUFFER_LINE_COUNT)
  BY DEF ScraperInv, InfoKnown, Resizing
<1>3. /\ con.top \in Int /\ con.h \in Int /\ con.w \in Int /\ con.winW \in Int
      /\ con.winH \in Int
      /\ 0 <= con.top /\ 1 <= con.winW /\ 1 <= con.winH
      /\ con.winW <= con.w /\ con.top + con.winH <= con.h
  BY <1>1 DEF Window
<1>4. /\ scr.syncRow \in Int /\ scr.dirty \in Int /\ scr.dirty <= BUFFER_LINE_COUNT
      /\ scr.directMode => scr.syncRow = -1
      /\ scr.ptySize \in Sizes
  BY <1>1 DEF Members
<1>5. scr.ptySize[1] \in Int /\ scr.ptySize[2] \in Int
  BY <1>4, SizesAre
<1>6. /\ visibleCols \in Int /\ 1 <= visibleCols
      /\ visibleCols <= scr.ptySize[1] /\ visibleCols <= Largest[1]
      /\ visibleRows \in Int /\ 1 <= visibleRows
      /\ visibleRows <= scr.ptySize[2] /\ visibleRows <= Largest[2]
      /\ visibleRows < BUFFER_LINE_COUNT
  BY <1>1, VisibleIs
<1>7. /\ finalBufferSize[1] = scr.ptySize[1]
      /\ finalBufferSize[1] \in Int /\ finalBufferSize[2] \in Int
      /\ finalBufferSize[2] >= scr.ptySize[2]
      /\ info.h = BUFFER_LINE_COUNT => finalBufferSize[2] = BUFFER_LINE_COUNT
  BY <1>1, <1>2, FinalSizeIs
<1>8. visibleCols <= finalBufferSize[1] /\ visibleRows <= finalBufferSize[2]
  BY <1>5, <1>6, <1>7
<1>9. QED BY <1>1, <1>2, <1>3, <1>4, <1>6, <1>7, <1>8

LEMMA ShrinkingIsSafe == ScraperInv /\ ShrinkWindow => ScraperInv'
<1> SUFFICES ASSUME ScraperInv, ShrinkWindow PROVE ScraperInv'
  OBVIOUS
<1> DEFINE w == Min({con.w, visibleCols})
           h == Min({con.h, visibleRows})
           top == Min({con.h - h, con.top})
           rect == WithCursor([top |-> top, w |-> w, h |-> h], Info(con))
<1>1. /\ pc = "shrink" /\ pc' = "buffer" /\ frozen' = FALSE
      /\ con' = moveWindow(con, rect)
      /\ refused' = (refused \/ (~CanMove(con, rect) /\ ~moved))
      /\ UNCHANGED <<saved, newW10, moved, cleared, misled, info, force, scr>>
  BY DEF ShrinkWindow, Goto, Refuse, resizeIdle
<1>2. pc \in Resizing
  BY <1>1 DEF Resizing
<1>3. /\ Console(con) /\ Members(scr) /\ Window(info)
      /\ con.top \in Int /\ con.h \in Int /\ con.w \in Int /\ con.winW \in Int
      /\ con.winH \in Int
      /\ 0 <= con.top /\ 1 <= con.winW /\ 1 <= con.winH
      /\ con.winW <= con.w /\ con.top + con.winH <= con.h
      /\ scr.syncRow \in Int
      /\ visibleCols \in Int /\ 1 <= visibleCols /\ visibleCols <= Largest[1]
      /\ visibleRows \in Int /\ 1 <= visibleRows /\ visibleRows <= Largest[2]
      /\ visibleRows < BUFFER_LINE_COUNT
      /\ finalBufferSize[2] \in Int
      /\ scr.directMode => scr.syncRow = -1
      /\ ~scr.directMode =>
           info.h = BUFFER_LINE_COUNT /\ finalBufferSize[2] = BUFFER_LINE_COUNT
  BY <1>2, ResizingKnows
<1>4. /\ w = IF con.w <= visibleCols THEN con.w ELSE visibleCols
      /\ h = IF con.h <= visibleRows THEN con.h ELSE visibleRows
  <2>1. con.w \in Int /\ con.h \in Int /\ visibleCols \in Int /\ visibleRows \in Int
    BY <1>3
  <2>2. QED BY ONLY <2>1, MaxOf
<1> HIDE DEF w, h
<1>5. /\ w \in Int /\ 1 <= w /\ w <= con.w /\ w <= visibleCols /\ w <= Largest[1]
      /\ h \in Int /\ 1 <= h /\ h <= con.h /\ h <= visibleRows /\ h <= Largest[2]
      /\ h < BUFFER_LINE_COUNT
  <2>1. Largest[1] \in Int /\ Largest[2] \in Int /\ BUFFER_LINE_COUNT \in Int
    BY <1>3, SizesAre DEF Members
  <2>2. QED BY <1>3, <1>4, <2>1
<1>6. top = IF con.h - h <= con.top THEN con.h - h ELSE con.top
  <2>1. con.h - h \in Int /\ con.top \in Int
    BY <1>3, <1>5
  <2>2. QED BY ONLY <2>1, MaxOf
<1> HIDE DEF top
<1>7. /\ top \in Int /\ 0 <= top /\ top + h <= con.h /\ top <= con.top
  BY <1>3, <1>5, <1>6
<1>8. /\ rect.w = w /\ rect.h = h /\ rect.top \in Int
      /\ 0 <= rect.top /\ rect.top + h <= con.h
      /\ rect.top >= top \/ rect.top >= con.top
  BY <1>3, <1>5, <1>7, CursorIsKept
<1> HIDE DEF rect
<1>9. CanMove(con, rect)
  BY <1>5, <1>8 DEF CanMove
<1>10. /\ Console(con') /\ con'.top = rect.top /\ con'.winW = w /\ con'.winH = h
       /\ con'.w = con.w /\ con'.h = con.h
  <2>1. rect.h < BUFFER_LINE_COUNT /\ 1 <= rect.w /\ 1 <= rect.h
        /\ rect.w \in Int /\ rect.h \in Int
    BY <1>5, <1>8
  <2>2. QED BY <1>1, <1>3, <1>8, <1>9, <2>1, WindowMoves
<1>11. SameMode(scr, scr')
  BY <1>1 DEF SameMode
<1>12. /\ visibleCols' = visibleCols /\ visibleRows' = visibleRows
       /\ finalBufferSize' = finalBufferSize
  BY <1>1, <1>11, VisibleStays
<1>13. ScraperTypeOK'
  BY <1>1, <1>10 DEF ScraperInv, ScraperTypeOK, Places, Resizing
<1>14. InfoKnown'
  <2>1. Window(info)'
    BY <1>1, <1>3
  <2>2. con.h = info.h /\ (scr.directMode <=> info.h # BUFFER_LINE_COUNT)
    BY <1>1 DEF ScraperInv, InfoKnown
  <2>3. QED BY <1>1, <1>10, <2>1, <2>2 DEF InfoKnown, Scrolling
<1>15. ResizeKnown'
  <2>1. con'.winW <= visibleCols' /\ con'.winH <= visibleRows'
    BY <1>5, <1>10, <1>12
  <2>2. ~refused'
    BY <1>1, <1>9 DEF ScraperInv, ResizeKnown
  <2>3. QED BY <1>1, <2>1, <2>2 DEF ResizeKnown
<1>16. MarkerAbove'
  <2> SUFFICES ASSUME ~cleared, ~misled
               PROVE  /\ Ahead(scr)' /\ scr'.syncRow <= con'.top
                      /\ scr'.syncRow <= (finalBufferSize[2] - visibleRows)'
    BY <1>1 DEF MarkerAbove
  <2>1. /\ Ahead(scr) /\ scr.syncRow <= con.top
        /\ scr.syncRow <= finalBufferSize[2] - visibleRows
    BY <1>2 DEF ScraperInv, MarkerAbove
  <2>2. scr.syncRow <= top
    <3>1. CASE scr.directMode
      BY <1>3, <1>7, <3>1
    <3>2. CASE ~scr.directMode
      <4>1. con.h = BUFFER_LINE_COUNT /\ finalBufferSize[2] = con.h
        BY <1>1, <1>3, <3>2 DEF ScraperInv, InfoKnown
      <4>2. QED BY <1>3, <1>5, <1>6, <2>1, <4>1
    <3>3. QED BY <3>1, <3>2
  <2>3. scr.syncRow <= con'.top
    BY <1>3, <1>7, <1>8, <1>10, <2>2
  <2>4. QED BY <1>1, <1>12, <2>1, <2>3
<1>17. QED BY <1>13, <1>14, <1>15, <1>16 DEF ScraperInv

LEMMA ResizingIsSafe == ScraperInv /\ ResizeBuffer => ScraperInv'
<1> SUFFICES ASSUME ScraperInv, ResizeBuffer PROVE ScraperInv'
  OBVIOUS
<1> DEFINE w == finalBufferSize[1]
           h == finalBufferSize[2]
<1>1. /\ pc = "buffer" /\ pc' = "expand" /\ frozen' = frozen
      /\ con' = resizeBufferRange(con, w, h)
      /\ refused' = (refused \/ (~CanResize(con, w, h) /\ ~moved))
      /\ UNCHANGED <<saved, newW10, moved, cleared, misled, info, force, scr>>
  BY DEF ResizeBuffer, Goto, Refuse, resizeIdle
<1>2. pc \in Resizing
  BY <1>1 DEF Resizing
<1>3. /\ Console(con) /\ Members(scr) /\ Window(info)
      /\ con.top \in Int /\ con.h \in Int /\ con.winW \in Int /\ con.winH \in Int
      /\ 0 <= con.top
      /\ visibleCols \in Int /\ visibleRows \in Int
      /\ w \in Int /\ h \in Int /\ visibleCols <= w /\ visibleRows <= h
      /\ scr.directMode => scr.syncRow = -1
      /\ ~scr.directMode => info.h = BUFFER_LINE_COUNT /\ h = BUFFER_LINE_COUNT
  BY <1>2, ResizingKnows
<1>4. con.winW <= visibleCols /\ con.winH <= visibleRows
  BY <1>1 DEF ScraperInv, ResizeKnown
<1>5. con.h = info.h /\ (scr.directMode <=> info.h # BUFFER_LINE_COUNT)
  BY <1>1 DEF ScraperInv, InfoKnown
<1> HIDE DEF w, h
<1>6. CanResize(con, w, h)
  BY <1>3, <1>4 DEF CanResize
<1>7. /\ Console(con') /\ con'.w = w /\ con'.h = h
      /\ con'.winW = con.winW /\ con'.winH = con.winH
      /\ h >= con.h => con'.top = con.top
  BY <1>1, <1>3, <1>6, BufferIsResized
<1>8. SameMode(scr, scr')
  BY <1>1 DEF SameMode
<1>9. /\ visibleCols' = visibleCols /\ visibleRows' = visibleRows
      /\ finalBufferSize' = finalBufferSize
  BY <1>1, <1>8, VisibleStays
<1>10. ScraperTypeOK'
  BY <1>1, <1>7 DEF ScraperInv, ScraperTypeOK, Places, Resizing
<1>11. InfoKnown'
  <2>1. Window(info)'
    BY <1>1, <1>3
  <2>2. QED BY <1>1, <1>5, <2>1 DEF InfoKnown, Scrolling
<1>12. ResizeKnown'
  <2>1. con'.winW <= visibleCols' /\ con'.winH <= visibleRows'
    BY <1>4, <1>7, <1>9
  <2>2. ~refused'
    BY <1>1, <1>6 DEF ScraperInv, ResizeKnown
  <2>3. con'.w = finalBufferSize[1]' /\ con'.h = finalBufferSize[2]'
    BY <1>7, <1>9 DEF w, h
  <2>4. QED BY <1>1, <2>1, <2>2, <2>3 DEF ResizeKnown
<1>13. MarkerAbove'
  <2> SUFFICES ASSUME ~cleared, ~misled
               PROVE  /\ Ahead(scr)' /\ scr'.syncRow <= con'.top
                      /\ scr'.syncRow <= (finalBufferSize[2] - visibleRows)'
    BY <1>1 DEF MarkerAbove
  <2>1. /\ Ahead(scr) /\ scr.syncRow <= con.top
        /\ scr.syncRow <= finalBufferSize[2] - visibleRows
    BY <1>2 DEF ScraperInv, MarkerAbove
  <2>2. scr.syncRow <= con'.top
    <3>1. CASE scr.directMode
      <4>1. con'.top \in Int /\ 0 <= con'.top
        BY <1>7 DEF Console, Window
      <4>2. QED BY <1>3, <3>1, <4>1
    <3>2. CASE ~scr.directMode
      <4>1. con'.top = con.top
        BY <1>3, <1>5, <1>7, <3>2
      <4>2. QED BY <2>1, <4>1
    <3>3. QED BY <3>1, <3>2
  <2>3. QED BY <1>1, <1>9, <2>1, <2>2
<1>14. QED BY <1>10, <1>11, <1>12, <1>13 DEF ScraperInv

LEMMA ExpandingIsSafe == ScraperInv /\ ExpandWindow => ScraperInv'
<1> SUFFICES ASSUME ScraperInv, ExpandWindow PROVE ScraperInv'
  OBVIOUS
<1> DEFINE top == Min({con.h - visibleRows, con.top})
           fit == IF ~scr.directMode /\ scr.dirty > top + visibleRows
                    THEN scr.dirty - visibleRows ELSE top
           rect == WithCursor([top |-> fit, w |-> visibleCols, h |-> visibleRows],
                              Info(con))
<1>1. /\ pc = "expand" /\ pc' = (IF scr.directMode THEN "direct" ELSE "end")
      /\ con' = moveWindow(con, rect)
      /\ refused' = (refused \/ (~CanMove(con, rect) /\ ~moved))
      /\ scr' = [scr EXCEPT !.dirtyTop = rect.top]
      /\ UNCHANGED <<saved, newW10, moved, cleared, misled, info, force>>
      /\ frozen' = TRUE
  BY DEF ExpandWindow, Goto, Refuse, resizeIdle
<1>2. pc \in Resizing
  BY <1>1 DEF Resizing
<1>3. /\ Console(con) /\ Members(scr) /\ Window(info)
      /\ con.top \in Int /\ con.h \in Int /\ 0 <= con.top
      /\ scr.syncRow \in Int /\ scr.dirty \in Int /\ scr.dirty <= BUFFER_LINE_COUNT
      /\ visibleCols \in Int /\ 1 <= visibleCols /\ visibleCols <= Largest[1]
      /\ visibleRows \in Int /\ 1 <= visibleRows /\ visibleRows <= Largest[2]
      /\ visibleRows < BUFFER_LINE_COUNT
      /\ visibleCols <= finalBufferSize[1] /\ visibleRows <= finalBufferSize[2]
      /\ scr.directMode => scr.syncRow = -1
      /\ ~scr.directMode =>
           info.h = BUFFER_LINE_COUNT /\ finalBufferSize[2] = BUFFER_LINE_COUNT
  BY <1>2, ResizingKnows
<1>4. con.w = finalBufferSize[1] /\ con.h = finalBufferSize[2]
  BY <1>1 DEF ScraperInv, ResizeKnown
<1>5. scr.directMode \in BOOLEAN /\ (scr.directMode <=> info.h # BUFFER_LINE_COUNT)
  BY <1>1, <1>3 DEF ScraperInv, InfoKnown, Members
<1>6. top = IF con.h - visibleRows <= con.top THEN con.h - visibleRows ELSE con.top
  <2>1. con.h - visibleRows \in Int /\ con.top \in Int
    BY <1>3
  <2>2. QED BY ONLY <2>1, MaxOf
<1> HIDE DEF top
<1>7. /\ top \in Int /\ 0 <= top /\ top + visibleRows <= con.h /\ top <= con.top
  BY <1>3, <1>4, <1>6
<1>8. /\ fit \in Int /\ top <= fit /\ fit + visibleRows <= con.h
  <2>1. CASE ~scr.directMode /\ scr.dirty > top + visibleRows
    BY <1>3, <1>4, <1>7, <2>1
  <2>2. CASE ~(~scr.directMode /\ scr.dirty > top + visibleRows)
    <3>1. fit = top
      BY <2>2
    <3> HIDE DEF fit
    <3>2. QED BY <1>3, <1>7, <3>1
  <2>3. QED BY <2>1, <2>2
<1> HIDE DEF fit
<1>9. /\ rect.w = visibleCols /\ rect.h = visibleRows /\ rect.top \in Int
      /\ 0 <= rect.top /\ rect.top + visibleRows <= con.h
      /\ rect.top >= fit \/ rect.top >= con.top
  <2>1. 0 <= fit
    BY <1>7, <1>8
  <2>2. QED BY <1>3, <1>8, <2>1, CursorIsKept
<1> HIDE DEF rect
<1>10. CanMove(con, rect)
  BY <1>3, <1>4, <1>9 DEF CanMove
<1>11. /\ Console(con') /\ con'.winW = visibleCols /\ con'.winH = visibleRows
       /\ con'.h = con.h
  <2>1. rect.h < BUFFER_LINE_COUNT /\ 1 <= rect.w /\ 1 <= rect.h
        /\ rect.w \in Int /\ rect.h \in Int
    BY <1>3, <1>9
  <2>2. QED BY <1>1, <1>3, <1>9, <1>10, <2>1, WindowMoves
<1>12. DOMAIN scr = ScrFields
  BY <1>3 DEF Members
<1>13. /\ DOMAIN scr' = ScrFields /\ scr'.syncRow = scr.syncRow
       /\ scr'.scraped = scr.scraped /\ scr'.scrolled = scr.scrolled
       /\ scr'.dirtyTop = rect.top /\ scr'.dirty = scr.dirty
       /\ scr'.ptySize = scr.ptySize /\ scr'.directMode = scr.directMode
  BY <1>1, <1>12 DEF ScrFields
<1>14. Members(scr') /\ SameMode(scr, scr')
  BY <1>3, <1>9, <1>13 DEF Members, SameMode
<1>15. /\ visibleCols' = visibleCols /\ visibleRows' = visibleRows
       /\ finalBufferSize' = finalBufferSize
  BY <1>1, <1>14, VisibleStays
<1>16. pc' \in {"direct", "end"}
  BY <1>1
<1>17. ScraperTypeOK'
  BY <1>1, <1>11, <1>14, <1>16 DEF ScraperInv, ScraperTypeOK, Places
<1>18. InfoKnown'
  <2>1. Window(info)'
    BY <1>1, <1>3
  <2>2. (scr.directMode <=> info.h # BUFFER_LINE_COUNT)'
    BY <1>1, <1>5, <1>13
  <2>3. QED BY <1>16, <2>1, <2>2 DEF InfoKnown, Scrolling
<1>19. ResizeKnown'
  <2>1. ~refused'
    BY <1>1, <1>10 DEF ScraperInv, ResizeKnown
  <2>2. frozen' /\ con'.winW = visibleCols' /\ con'.winH = visibleRows'
    BY <1>1, <1>4, <1>11, <1>15
  <2>3. QED BY <1>16, <2>1, <2>2 DEF ResizeKnown
<1>20. MarkerAbove'
  <2>1. pc' \notin Resizing
    BY <1>16 DEF Resizing
  <2> SUFFICES ASSUME ~cleared, ~misled PROVE Ahead(scr')
    BY <1>1, <2>1 DEF MarkerAbove
  <2>2. /\ Ahead(scr) /\ scr.syncRow <= con.top
        /\ scr.syncRow <= finalBufferSize[2] - visibleRows
    BY <1>2 DEF ScraperInv, MarkerAbove
  <2>3. scr.syncRow <= top
    BY <1>3, <1>4, <1>6, <2>2
  <2>4. scr.syncRow <= rect.top
    BY <1>3, <1>7, <1>8, <1>9, <2>3
  <2>5. QED BY <1>13, <2>2, <2>4 DEF Ahead
<1>21. QED BY <1>17, <1>18, <1>19, <1>20 DEF ScraperInv

(* The round ends.                                                          *)
LEMMA EndingIsSafe == ScraperInv /\ EndRound => ScraperInv'
<1> SUFFICES ASSUME ScraperInv, EndRound PROVE ScraperInv'
  OBVIOUS
<1>1. /\ pc = "end" /\ pc' = "idle" /\ frozen' = FALSE /\ force' = FALSE
      /\ moved' = FALSE /\ cleared' = FALSE /\ misled' = (misled \/ cleared)
      /\ UNCHANGED <<con, saved, newW10, scr, refused>>
  BY DEF EndRound, Goto
<1>2. ScraperTypeOK'
  BY <1>1 DEF ScraperInv, ScraperTypeOK, Places
<1>3. InfoKnown'
  BY <1>1 DEF InfoKnown, Scrolling
<1>4. ResizeKnown'
  BY <1>1 DEF ScraperInv, ResizeKnown
<1>5. MarkerAbove'
  BY <1>1 DEF ScraperInv, MarkerAbove, Resizing
<1>6. QED BY <1>2, <1>3, <1>4, <1>5 DEF ScraperInv

-----------------------------------------------------------------------------
(* At the start the window is in an empty buffer, and has the size that is  *)
(* visible.                                                                 *)
LEMMA InitIsScraperInv == Init => ScraperInv
<1> SUFFICES ASSUME Init PROVE ScraperInv
  OBVIOUS
<1>1. PICK size \in Sizes, modern \in BOOLEAN, before8 \in BOOLEAN, window \in Windows :
        /\ newW10 = detectNewWindows10Console(modern, before8, window)
        /\ scr = NewScraper(size)
        /\ con = NewConsole(modern, size[1], BUFFER_LINE_COUNT,
                            Min({size[1], Largest[1]}), Min({size[2], Largest[2]}))
  BY DEF Init
<1>2. /\ saved = <<>> /\ frozen = FALSE /\ pc = "idle" /\ force = FALSE
      /\ misled = FALSE /\ moved = FALSE /\ cleared = FALSE /\ refused = FALSE
  BY DEF Init
<1>3. newW10 \in BOOLEAN
  BY <1>1 DEF detectNewWindows10Console
<1>4. /\ size[1] \in Int /\ size[2] \in Int /\ 1 <= size[1] /\ 1 <= size[2]
      /\ size[2] < BUFFER_LINE_COUNT /\ BUFFER_LINE_COUNT \in Int
      /\ Largest[1] \in Int /\ Largest[2] \in Int /\ 1 <= Largest[1] /\ 1 <= Largest[2]
  BY SizesAre
<1> DEFINE w == Min({size[1], Largest[1]})
           h == Min({size[2], Largest[2]})
<1>5. /\ w = IF size[1] <= Largest[1] THEN size[1] ELSE Largest[1]
      /\ h = IF size[2] <= Largest[2] THEN size[2] ELSE Largest[2]
  <2>1. size[1] \in Int /\ size[2] \in Int /\ Largest[1] \in Int /\ Largest[2] \in Int
    BY <1>4
  <2>2. QED BY ONLY <2>1, MaxOf
<1>6. con = NewConsole(modern, size[1], BUFFER_LINE_COUNT, w, h)
  BY <1>1
<1> HIDE DEF w, h
<1>7. /\ w \in Int /\ h \in Int /\ 1 <= w /\ 1 <= h /\ w <= size[1] /\ h <= size[2]
  BY <1>4, <1>5
<1>8. /\ DOMAIN con = ConFields /\ con.w = size[1] /\ con.h = BUFFER_LINE_COUNT
      /\ con.top = 0 /\ con.winW = w /\ con.winH = h /\ con.y = 0
  BY <1>6 DEF NewConsole, ConFields
<1>9. Console(con)
  BY <1>4, <1>7, <1>8 DEF Console, Window
<1> DEFINE s == [lines |-> <<>>, syncRow |-> NoMarker, counter |-> 0, scraped |-> 0,
                 scrolled |-> 0, maxBuffered |-> -1, dirtyTop |-> -1, dirty |-> 0,
                 directMode |-> FALSE, ptySize |-> size]
<1>10. scr = Tracking(s, 0)
  BY <1>1 DEF NewScraper
<1>11. DOMAIN s = ScrFields /\ s.ptySize = size /\ s.directMode = FALSE
  BY DEF ScrFields
<1> HIDE DEF s
<1>12. /\ DOMAIN scr = ScrFields /\ scr.syncRow = -1 /\ scr.scraped = 0 /\ scr.scrolled = 0
       /\ scr.dirtyTop = -1 /\ scr.dirty = 0
       /\ scr.ptySize = size /\ scr.directMode = FALSE
  BY <1>10, <1>11 DEF Tracking, ScrFields, NoMarker
<1>13. Members(scr) /\ Ahead(scr)
  <2>1. scr.directMode \in BOOLEAN /\ ~scr.directMode
    BY <1>12
  <2>2. scr.dirty <= BUFFER_LINE_COUNT
    BY <1>4, <1>12
  <2>3. scr.scraped - scr.scrolled = 0
    BY <1>12
  <2>4. Ahead(scr)
    BY ONLY <1>12, <2>3 DEF Ahead
  <2>5. Members(scr)
    BY ONLY <1>12, <2>1, <2>2 DEF Members
  <2>6. QED BY <2>4, <2>5
<1>14. ScraperTypeOK
  BY <1>2, <1>3, <1>9, <1>13 DEF ScraperTypeOK, Places
<1>15. InfoKnown /\ ResizeKnown
  BY <1>2 DEF InfoKnown, ResizeKnown, Scrolling
<1>16. MarkerAbove
  BY <1>2, <1>13 DEF MarkerAbove, Resizing
<1>17. QED BY <1>14, <1>15, <1>16 DEF ScraperInv

LEMMA ScraperStutters == ScraperInv /\ UNCHANGED vars => ScraperInv'
<1> SUFFICES ASSUME ScraperInv, UNCHANGED vars PROVE ScraperInv'
  OBVIOUS
<1>1. UNCHANGED <<con, saved, frozen, newW10, scr, pc, info, force, misled, moved,
                  cleared, refused>>
  BY DEF vars, historyVars
<1>2. ScraperTypeOK'
  BY <1>1 DEF ScraperInv, ScraperTypeOK
<1>3. SameMode(scr, scr')
  BY <1>1 DEF SameMode
<1>4. /\ visibleCols' = visibleCols /\ visibleRows' = visibleRows
      /\ finalBufferSize' = finalBufferSize
  BY <1>1, <1>3, VisibleStays
<1>5. InfoKnown'
  BY <1>1 DEF ScraperInv, InfoKnown
<1>6. ResizeKnown'
  BY <1>1, <1>4 DEF ScraperInv, ResizeKnown
<1>7. MarkerAbove'
  BY <1>1, <1>4 DEF ScraperInv, MarkerAbove
<1>8. QED BY <1>2, <1>5, <1>6, <1>7 DEF ScraperInv

(* The scraper's types, what a round and a resize know of the console while *)
(* the child goes on using it, and that the marker, the window and the last *)
(* line scraped move together (Scraper::scrapeBuffer, resizeImpl and        *)
(* scrollingScrapeOutput).                                                  *)
THEOREM ScraperInvariance == Spec => []ScraperInv
<1>1. ASSUME ScraperInv, [Next]_vars PROVE ScraperInv'
  <2>1. CASE Scrape \/ \E size \in Sizes : Resize(size)
    BY <1>1, <2>1, BeginningIsSafe
  <2>2. CASE ReadInfo
    BY <1>1, <2>2, ReadingInfoIsSafe
  <2>3. CASE SetMode
    BY <1>1, <2>3, SettingModeIsSafe
  <2>4. CASE Direct
    BY <1>1, <2>4, MirroringIsSafe
  <2>5. CASE ScrollFrozen
    BY <1>1, <2>5, ScrollingFrozenIsSafe
  <2>6. CASE FindMarker
    BY <1>1, <2>6, FindingMarkerIsSafe
  <2>7. CASE ReadLines \/ CheckInfo
    BY <1>1, <2>7, ReadingIsSafe
  <2>8. CASE CheckMarker
    BY <1>1, <2>8, CheckingMarkerIsSafe
  <2>9. CASE EraseForResize
    BY <1>1, <2>9, ErasingIsSafe
  <2>10. CASE ShrinkWindow
    BY <1>1, <2>10, ShrinkingIsSafe
  <2>11. CASE ResizeBuffer
    BY <1>1, <2>11, ResizingIsSafe
  <2>12. CASE ExpandWindow
    BY <1>1, <2>12, ExpandingIsSafe
  <2>13. CASE EndRound
    BY <1>1, <2>13, EndingIsSafe
  <2>14. CASE Write
    BY <1>1, <2>14, WritingIsSafe
  <2>15. CASE Home \/ ShowOrHide
    BY <1>1, <2>15, TouchingIsSafe
  <2>16. CASE ClearScreen
    BY <1>1, <2>16, ClearingIsSafe
  <2>17. CASE Enter \/ Leave
    BY <1>1, <2>17, SwitchingIsSafe
  <2>18. CASE UNCHANGED vars
    BY <1>1, <2>18, ScraperStutters
  <2>19. QED BY <1>1, <2>1, <2>2, <2>3, <2>4, <2>5, <2>6, <2>7, <2>8, <2>9, <2>10, <2>11,
                <2>12, <2>13, <2>14, <2>15, <2>16, <2>17, <2>18 DEF Next, Agent
<1>2. QED BY <1>1, InitIsScraperInv, PTL DEF Spec

(* No call of resizeImpl that sets a size fails, unless the child has moved *)
(* the console under it; then the window has the terminal's size, as far as *)
(* the screen allows.                                                       *)
THEOREM ResizeIsFitting == Spec => []ResizeFits
<1>1. ScraperInv => ResizeFits
  BY DEF ScraperInv, ResizeKnown, ResizeFits
<1>2. QED BY <1>1, ScraperInvariance, PTL

(* What scrollingScrapeOutput reads lies in the buffer and holds the first  *)
(* line that it has to send: its assertions hold in every round but those   *)
(* that a CLS has upset.                                                    *)
THEOREM ReadsAreInside == Spec => []ReadsInsideBuffer
<1>1. ScraperInv => ReadsInsideBuffer
  <2> DEFINE p == Prepare(Round, info, ~frozen)
             s == p.rd.scr
             rows == DOMAIN Read(con, s, info)
  <2> SUFFICES ASSUME ScraperInv, pc = "scroll", ~cleared, ~misled, p.ok
               PROVE  /\ rows \subseteq 0..(con.h - 1)
                      /\ FirstVirtLine(s, info) - s.scrolled \in rows
                      /\ s.dirty >= 1
    BY DEF ReadsInsideBuffer
  <2>1. /\ Well(Round) /\ Round.con = con /\ Round.scr = scr /\ Round.misled = misled
    BY RoundIs
  <2>2. Window(info) /\ info.h = BUFFER_LINE_COUNT /\ ~scr.directMode /\ con.h = info.h
    BY DEF ScraperInv, InfoKnown, Scrolling
  <2>3. Ahead(scr) /\ (~frozen) \in BOOLEAN
    BY DEF ScraperInv, MarkerAbove
  <2>4. Led(Round)
    BY <2>1, <2>3 DEF Led
  <2>5. ~Round.scr.directMode
    BY <2>1, <2>2
  <2>6. /\ Well(p.rd) /\ s.dirty >= 1
        /\ Led(Round) => Led(p.rd)
        /\ p.rd.misled => Round.misled
    BY <2>1, <2>2, <2>3, <2>5, PreparingIsWell
  <2>7. Members(s) /\ Ahead(s)
    BY <2>1, <2>4, <2>6 DEF Well, Led
  <2> HIDE DEF s
  <2>8. QED BY <2>2, <2>6, <2>7, ReadingIsInside
<1>2. QED BY <1>1, ScraperInvariance, PTL

(***************************************************************************)
(* The cursor.  First, what the escapes of Terminal.cc do to the terminal, *)
(* line by line and scrape by scrape.                                      *)
(***************************************************************************)
(* The terminal and the agent's picture of it: the agent knows the column,  *)
(* and whether the cursor is hidden.                                        *)
TermFields == {"rows", "x", "y", "top", "width", "height", "shown", "stopped", "sgr", "color",
               "line", "column", "data", "valid", "hidden"}

Pictured(t) ==
  /\ DOMAIN t = TermFields
  /\ t.line \in Int /\ t.y \in Int /\ t.top \in Int /\ t.height \in Int
  /\ t.hidden \in BOOLEAN /\ t.shown \in BOOLEAN /\ t.stopped \in BOOLEAN
  /\ t.column \in Nat /\ t.x = t.column
  /\ t.valid \in BOOLEAN /\ (t.valid => Len(t.data) = t.column)
  /\ t.hidden => ~t.shown

(* The row of the terminal that a line is on, if the agent knows its place. *)
RowOf(t, line) == line + t.y - t.line

(* What drawing leaves alone, as long as the top of the screen does not     *)
(* stop the cursor.                                                         *)
Draws(t, u) ==
  /\ Pictured(u) /\ u.height = t.height
  /\ ~u.stopped => ~t.stopped /\ u.y - u.line = t.y - t.line
  /\ t.hidden \/ t.shown => u.hidden \/ u.shown

(* ... and it does not stop the cursor if the line is on the screen, of     *)
(* which this line is then the last or one before.                          *)
Reaches(t, u, line) ==
  /\ u.line = line
  /\ ~t.stopped /\ t.top <= RowOf(t, line) => ~u.stopped
  /\ u.top = t.top \/ u.top <= RowOf(t, line) + 1 - t.height

LEMMA HidingIs ==
  ASSUME NEW t, Pictured(t)
  PROVE  LET u == hideTerminalCursor(t)
         IN /\ Pictured(u) /\ u.hidden = TRUE /\ u.shown = FALSE
            /\ u.line = t.line /\ u.y = t.y /\ u.top = t.top /\ u.height = t.height
            /\ u.stopped = t.stopped /\ u.column = t.column /\ u.x = t.x
            /\ u.data = t.data /\ u.valid = t.valid
BY DEF hideTerminalCursor, Pictured, TermFields

(* Down.                                                                    *)
Moved(t, u, n) ==
  /\ DOMAIN u = TermFields
  /\ u.line = t.line /\ u.height = t.height /\ u.hidden = t.hidden /\ u.shown = t.shown
  /\ u.stopped = t.stopped /\ u.y = t.y + n /\ u.top \in Int
  /\ u.x = IF n = 0 THEN t.x ELSE 0
  /\ u.top = t.top \/ u.top <= t.y + n + 1 - t.height

LEMMA NewLineMoves ==
  ASSUME NEW t, Pictured(t), NEW n \in Nat, NEW u, Moved(t, u, n)
  PROVE  Moved(t, NewLine(u), n + 1)
<1> DEFINE a == u.y + 2 - u.height
           top == Max({u.top, a})
           v == NewLine(u)
<1>1. u.y \in Int /\ u.top \in Int /\ u.height \in Int /\ t.y \in Int /\ t.height \in Int
  BY DEF Pictured, Moved
<1>2. top = IF u.top >= a THEN u.top ELSE a
  BY <1>1, MaxOf
<1>3. PICK rows : v = [u EXCEPT !.x = 0, !.y = u.y + 1, !.top = top, !.rows = rows]
  BY DEF NewLine
<1> HIDE DEF v
<1>4. /\ DOMAIN v = TermFields /\ v.x = 0 /\ v.y = u.y + 1 /\ v.top = top
      /\ v.line = u.line /\ v.height = u.height /\ v.hidden = u.hidden
      /\ v.shown = u.shown /\ v.stopped = u.stopped
  BY <1>3 DEF Moved, TermFields
<1> HIDE DEF top
<1>5. top \in Int /\ (top = t.top \/ top <= t.y + (n + 1) + 1 - t.height)
  <2>1. u.y = t.y + n /\ u.height = t.height
    BY DEF Moved
  <2>2. u.top = t.top \/ u.top <= t.y + n + 1 - t.height
    BY DEF Moved
  <2>3. CASE u.top >= a
    BY <1>1, <1>2, <2>2, <2>3
  <2>4. CASE ~(u.top >= a)
    BY <1>1, <1>2, <2>1, <2>4
  <2>5. QED BY <2>3, <2>4
<1>6. v.y = t.y + (n + 1)
  BY <1>1, <1>4 DEF Moved
<1>7. QED BY <1>4, <1>5, <1>6 DEF Moved, v

LEMMA NewLinesMove ==
  ASSUME NEW t, Pictured(t), NEW n \in Nat
  PROVE  Moved(t, NewLines(t, n), n)
<1> DEFINE Down(g, m) == g = [k \in 0..m |-> IF k = 0 THEN t ELSE NewLine(g[k - 1])]
           g0 == CHOOSE g : Down(g, n)
           T == {m \in Nat : \E g : Down(g, m)}
           U == {m \in Nat : m <= n => Moved(t, g0[m], m)}
<1>1. NewLines(t, n) = g0[n]
  BY DEF NewLines
<1>2. 0 \in T
  <2> DEFINE g == [k \in 0..0 |-> t]
  <2>1. Down(g, 0)
    OBVIOUS
  <2>2. QED BY <2>1
<1>3. ASSUME NEW m \in Nat, m \in T PROVE m + 1 \in T
  <2>1. PICK g : Down(g, m)
    BY <1>3
  <2> DEFINE h == [k \in 0..(m + 1) |-> IF k <= m THEN g[k] ELSE NewLine(g[m])]
  <2>2. ASSUME NEW k \in 0..(m + 1)
        PROVE  h[k] = IF k = 0 THEN t ELSE NewLine(h[k - 1])
    <3>1. CASE k = 0
      <4>1. g[0] = t
        BY <2>1
      <4>2. QED BY <3>1, <4>1
    <3>2. CASE k # 0 /\ k <= m
      <4>1. g[k] = NewLine(g[k - 1])
        BY <2>1, <3>2
      <4>2. h[k] = g[k] /\ h[k - 1] = g[k - 1]
        BY <3>2
      <4> HIDE DEF h
      <4>3. QED BY <3>2, <4>1, <4>2
    <3>3. CASE k = m + 1
      <4>1. h[k] = NewLine(g[m]) /\ h[k - 1] = g[m] /\ k # 0
        BY <3>3
      <4> HIDE DEF h
      <4>2. QED BY <3>3, <4>1
    <3>4. QED BY <3>1, <3>2, <3>3
  <2>3. Down(h, m + 1)
    <3>1. h = [k \in 0..(m + 1) |-> h[k]]
      OBVIOUS
    <3> HIDE DEF h
    <3>2. QED BY <2>2, <3>1
  <2> HIDE DEF h, Down
  <2>4. \E f : Down(f, m + 1)
    BY <2>3
  <2>5. QED BY <2>4
<1> HIDE DEF T
<1>4. n \in T
  BY <1>2, <1>3, Induction
<1>5. Down(g0, n)
  <2>1. \E g : Down(g, n)
    BY <1>4 DEF T
  <2> HIDE DEF Down
  <2>2. QED BY <2>1
<1> HIDE DEF g0
<1>6. g0[0] = t
  BY <1>5
<1>7. ASSUME NEW m \in Nat, m + 1 <= n PROVE g0[m + 1] = NewLine(g0[m])
  <2>1. m + 1 \in 0..n /\ m + 1 # 0 /\ (m + 1) - 1 = m
    BY <1>7
  <2>2. QED BY <1>5, <2>1
<1> HIDE DEF Down
<1>8. 0 \in U
  <2>1. Moved(t, t, 0)
    BY DEF Moved, Pictured
  <2>2. QED BY <1>6, <2>1
<1>9. ASSUME NEW m \in Nat, m \in U PROVE m + 1 \in U
  <2> SUFFICES ASSUME m + 1 <= n PROVE Moved(t, g0[m + 1], m + 1)
    OBVIOUS
  <2>1. Moved(t, g0[m], m)
    BY <1>9
  <2>2. QED BY <1>7, <2>1, NewLineMoves
<1> HIDE DEF U
<1>10. n \in U
  BY <1>8, <1>9, Induction
<1>11. QED BY <1>1, <1>10 DEF U

(* To a line: down by newlines, up as far as the screen goes.               *)
Lands(t, v, line) ==
  /\ DOMAIN v = TermFields /\ v.height = t.height
  /\ v.hidden = TRUE /\ v.shown = FALSE /\ v.stopped \in BOOLEAN
  /\ v.x = 0 /\ v.y \in Int /\ v.top \in Int
  /\ ~v.stopped => ~t.stopped /\ v.y = RowOf(t, line)
  /\ ~t.stopped /\ t.top <= RowOf(t, line) => ~v.stopped
  /\ v.top = t.top \/ v.top <= RowOf(t, line) + 1 - t.height

LEMMA LandingIs ==
  ASSUME NEW t, Pictured(t), NEW line \in Int, NEW v, Lands(t, v, line)
  PROVE  LET u == [v EXCEPT !.line = line, !.valid = TRUE, !.data = <<>>, !.column = 0]
         IN Draws(t, u) /\ Reaches(t, u, line) /\ ~u.shown
<1> DEFINE u == [v EXCEPT !.line = line, !.valid = TRUE, !.data = <<>>, !.column = 0]
<1>1. t.height \in Int /\ t.y \in Int /\ t.line \in Int
  BY DEF Pictured
<1>2. /\ DOMAIN u = TermFields /\ u.line = line /\ u.valid = TRUE /\ u.data = <<>>
      /\ u.column = 0 /\ u.x = 0 /\ u.y = v.y /\ u.top = v.top /\ u.height = t.height
      /\ u.hidden = TRUE /\ u.shown = FALSE /\ u.stopped = v.stopped
  BY DEF TermFields, Lands
<1> HIDE DEF u
<1>3. Pictured(u) /\ u.hidden /\ ~u.shown
  <2>1. Len(u.data) = 0
    BY <1>2
  <2>2. u.line \in Int /\ u.y \in Int /\ u.top \in Int /\ u.height \in Int
    BY <1>1, <1>2 DEF Lands
  <2>3. u.hidden \in BOOLEAN /\ u.shown \in BOOLEAN /\ u.stopped \in BOOLEAN
    <3>1. v.stopped \in BOOLEAN
      BY DEF Lands
    <3>2. QED BY <1>2, <3>1, Zenon
  <2>4. u.column \in Nat /\ u.x = u.column /\ Len(u.data) = u.column
    BY <1>2, <2>1
  <2>5. u.hidden /\ ~u.shown /\ u.valid \in BOOLEAN
    BY <1>2, Zenon
  <2>6. QED BY <1>2, <2>2, <2>3, <2>4, <2>5 DEF Pictured
<1>4. ~u.stopped => ~t.stopped /\ u.y - u.line = t.y - t.line
  BY <1>1, <1>2 DEF RowOf, Lands
<1>5. Reaches(t, u, line)
  BY <1>2 DEF Reaches, Lands
<1>6. QED BY <1>2, <1>3, <1>4, <1>5 DEF Draws, u

LEMMA MovingIs ==
  ASSUME NEW t, Pictured(t), NEW line \in Int
  PROVE  LET u == moveTerminalToLine(t, line)
         IN /\ Draws(t, u) /\ Reaches(t, u, line)
            /\ ~t.shown => ~u.shown
<1> DEFINE u == moveTerminalToLine(t, line)
           h == hideTerminalCursor(t)
<1>1. CASE line = t.line
  BY <1>1 DEF moveTerminalToLine, Draws, Reaches, Pictured, RowOf
<1>2. /\ Pictured(h) /\ h.y = t.y /\ h.top = t.top /\ h.stopped = t.stopped
      /\ h.line = t.line /\ h.height = t.height /\ h.hidden = TRUE /\ h.shown = FALSE
  BY HidingIs
<1>3. /\ t.line \in Int /\ t.y \in Int /\ t.top \in Int /\ t.height \in Int
      /\ DOMAIN h = TermFields /\ h.hidden \in BOOLEAN /\ h.shown \in BOOLEAN
      /\ h.stopped \in BOOLEAN
  BY <1>2 DEF Pictured
<1>4. CASE line < t.line
  <2> DEFINE n == t.line - line
             a == h.y - n
             v == Up(Return(h), n)
  <2>1. u = [v EXCEPT !.line = line, !.valid = TRUE, !.data = <<>>, !.column = 0]
    BY <1>3, <1>4 DEF moveTerminalToLine
  <2> HIDE DEF h
  <2>2. a = RowOf(t, line) /\ a \in Int
    BY <1>2, <1>3 DEF RowOf
  <2> HIDE DEF a
  <2> DEFINE y == Max({h.top, a})
  <2>3. v = [[h EXCEPT !.x = 0] EXCEPT !.y = y, !.stopped = @ \/ a < h.top]
    BY <1>3 DEF Up, Return, TermFields, a
  <2>4. y = IF h.top >= a THEN h.top ELSE a
    BY <1>2, <1>3, <2>2, MaxOf
  <2> HIDE DEF y, v
  <2>5. /\ DOMAIN v = TermFields /\ v.height = h.height /\ v.hidden = h.hidden
        /\ v.shown = h.shown /\ v.x = 0 /\ v.y = y /\ v.top = h.top
        /\ v.stopped = (h.stopped \/ a < h.top)
    BY <1>3, <2>3 DEF TermFields
  <2>6. v.y \in Int /\ v.top \in Int /\ v.stopped \in BOOLEAN
    BY <1>2, <1>3, <2>2, <2>4, <2>5
  <2>7. ASSUME ~v.stopped PROVE ~t.stopped /\ v.y = RowOf(t, line)
    <3>1. ~h.stopped /\ ~(a < h.top)
      BY <2>5, <2>7, Zenon
    <3>2. QED BY <1>2, <1>3, <2>2, <2>4, <2>5, <3>1
  <2>8. ~t.stopped /\ t.top <= RowOf(t, line) => ~v.stopped
    BY <1>2, <1>3, <2>2, <2>5
  <2>9. Lands(t, v, line)
    BY <1>2, <1>3, <2>5, <2>6, <2>7, <2>8 DEF Lands
  <2> DEFINE w == [v EXCEPT !.line = line, !.valid = TRUE, !.data = <<>>, !.column = 0]
  <2>10. Draws(t, w) /\ Reaches(t, w, line) /\ ~w.shown
    BY <2>9, LandingIs
  <2>11. u = w
    BY <2>1
  <2> HIDE DEF u, w
  <2>12. QED BY <2>10, <2>11 DEF u
<1>5. CASE line > t.line
  <2> DEFINE n == line - t.line
             v == NewLines(h, n)
  <2>1. u = [v EXCEPT !.line = line, !.valid = TRUE, !.data = <<>>, !.column = 0]
    <3>1. line # t.line /\ ~(line < t.line)
      BY <1>3, <1>5
    <3>2. QED BY <3>1 DEF moveTerminalToLine
  <2> HIDE DEF h
  <2>2. n \in Nat /\ n # 0 /\ t.y + n = RowOf(t, line)
    BY <1>3, <1>5 DEF RowOf
  <2>3. Moved(h, v, n)
    BY <1>2, <2>2, NewLinesMove
  <2> HIDE DEF n, v
  <2>4. /\ DOMAIN v = TermFields /\ v.height = h.height /\ v.hidden = h.hidden
        /\ v.shown = h.shown /\ v.stopped = h.stopped /\ v.y = t.y + n /\ v.top \in Int
        /\ v.x = 0 /\ (v.top = h.top \/ v.top <= h.y + n + 1 - h.height)
    BY <1>2, <2>2, <2>3 DEF Moved
  <2>5. v.top = t.top \/ v.top <= RowOf(t, line) + 1 - t.height
    BY <1>2, <2>2, <2>4
  <2>6. v.y \in Int
    BY <1>3, <2>2, <2>4
  <2>7. Lands(t, v, line)
    BY <1>2, <1>3, <2>2, <2>4, <2>5, <2>6 DEF Lands
  <2> DEFINE w == [v EXCEPT !.line = line, !.valid = TRUE, !.data = <<>>, !.column = 0]
  <2>8. Draws(t, w) /\ Reaches(t, w, line) /\ ~w.shown
    BY <2>7, LandingIs
  <2>9. u = w
    BY <2>1
  <2> HIDE DEF u, w
  <2>10. QED BY <2>8, <2>9 DEF u
<1>6. line = t.line \/ line < t.line \/ line > t.line
  BY <1>3
<1> HIDE DEF u
<1>7. QED BY <1>1, <1>4, <1>5, <1>6 DEF u

(* What is printed: the row and the colour change, and the column.          *)
Printed(t, u, column) ==
  /\ DOMAIN u = TermFields /\ u.x = column
  /\ u.line = t.line /\ u.y = t.y /\ u.top = t.top /\ u.height = t.height
  /\ u.stopped = t.stopped /\ u.hidden = t.hidden /\ u.shown = t.shown
  /\ u.valid = t.valid

LEMMA PrintingIs ==
  ASSUME NEW t, DOMAIN t = TermFields
  PROVE  /\ Printed(t, t, t.x)
         /\ \A cells : Printed(t, Put(t, cells), t.x + Len(cells))
         /\ \A width : Printed(t, Erase(t, width), t.x)
         /\ \A sgr : Printed(t, [t EXCEPT !.sgr = sgr], t.x)
<1>1. Printed(t, t, t.x)
  BY DEF Printed
<1>2. ASSUME NEW cells PROVE Printed(t, Put(t, cells), t.x + Len(cells))
  <2>1. PICK row : Put(t, cells) = [[t EXCEPT !.rows[t.y] = row] EXCEPT !.x = t.x + Len(cells)]
    BY DEF Put, SetRow
  <2>2. QED BY <2>1 DEF Printed, TermFields
<1>3. ASSUME NEW width PROVE Printed(t, Erase(t, width), t.x)
  <2>1. PICK row : Erase(t, width) = [t EXCEPT !.rows[t.y] = row]
    BY DEF Erase, SetRow
  <2>2. QED BY <2>1 DEF Printed, TermFields
<1>4. ASSUME NEW sgr PROVE Printed(t, [t EXCEPT !.sgr = sgr], t.x)
  BY DEF Printed, TermFields
<1>5. QED BY <1>1, <1>2, <1>3, <1>4

LEMMA PrintingOn ==
  ASSUME NEW t, NEW u, NEW v, NEW a, NEW b, Printed(t, u, a), Printed(u, v, b)
  PROVE  Printed(t, v, b)
BY DEF Printed

LEMMA LengthIs ==
  ASSUME NEW s, NEW n \in Nat, s = [i \in 1..n |-> s[i]]
  PROVE  Len(s) = n
<1> DEFINE S == {s[i] : i \in 1..n}
<1>1. s \in [1..n -> S]
  OBVIOUS
<1>2. s \in Seq(S)
  BY <1>1
<1>3. Len(s) \in Nat /\ DOMAIN s = 1..Len(s)
  BY <1>2, LenProperties
<1>4. DOMAIN s = 1..n
  BY <1>1
<1> HIDE DEF S
<1>5. 1..Len(s) = 1..n
  BY <1>3, <1>4
<1>6. Len(s) = n
  <2>1. \A i \in Int : i \in 1..n <=> i \in 1..Len(s)
    BY <1>5
  <2>2. n \in 1..n <=> n \in 1..Len(s)
    BY <2>1
  <2>3. Len(s) \in 1..n <=> Len(s) \in 1..Len(s)
    BY <1>3, <2>1
  <2>4. QED BY <1>3, <2>2, <2>3
<1>7. QED BY <1>6

(* The cells of a line, behind those that stay.                             *)
LEMMA CellsAreSent ==
  ASSUME NEW t, Pictured(t), NEW cells, NEW width \in Nat, cells = [i \in 1..width |-> cells[i]],
         Len(t.data) = t.column, t.column <= width, NEW cursorColumn
  PROVE  LET u == SendCells(t, cells, cursorColumn)
         IN /\ Pictured(u) /\ (~t.shown => ~u.shown) /\ (t.hidden \/ t.shown => u.hidden \/ u.shown)
            /\ u.line = t.line /\ u.y = t.y /\ u.top = t.top /\ u.height = t.height
            /\ u.stopped = t.stopped
<1> DEFINE from == Len(t.data) + 1
           changes == {i \in from..width :
                    IF i = from THEN t.color # <<Attr(cells[i])>>
                                ELSE Attr(cells[i - 1]) # Attr(cells[i])}
           S == {from - 1} \cup {i \in from..width : ~IsBlank(cells[i])}
                     \cup {i - 1 : i \in changes}
           last  == Max(S)
           sgr(i)     == IF \E j \in changes : j <= i THEN outputSetColor(Attr(cells[i]))
                         ELSE t.sgr
           part(i, j) == [k \in 1..(j - i + 1) |->
                       <<fixSpecialCharacters(Cell(cells[i + k - 1]).ch), sgr(i + k - 1)>>]
           h     == IF cursorColumn # -1 /\ last > cursorColumn
                      THEN hideTerminalCursor(t) ELSE t
           painted(u) == [u EXCEPT !.sgr = sgr(width)]
           a == Put(h, part(from, last - 1))
           b == Erase(painted(a), width)
           c == Put(b, part(last, last))
           d == Put(h, part(from, last))
           e == Erase(painted(d), width)
           out   == IF from <= last /\ last = width THEN c ELSE e
           w == [out EXCEPT !.data = SubSeq(cells, 1, last), !.column = last,
                 !.color = <<Attr(cells[width])>>]
<1>1. Len(cells) = width
  <2>1. QED BY LengthIs
<1>2. SendCells(t, cells, cursorColumn) = w
  BY <1>1 DEF SendCells
<1>3. from \in Nat /\ from - 1 = t.column /\ t.column \in Nat
  BY DEF Pictured
<1>4. last \in Nat /\ from - 1 <= last /\ last <= width
  <2> HIDE DEF from
  <2>1. ASSUME NEW x \in S PROVE x \in Int /\ from - 1 <= x /\ x <= width
    <3>1. CASE x = from - 1
      BY <1>3, <3>1
    <3>2. CASE x \in from..width
      BY <1>3, <3>2
    <3>3. ASSUME NEW i \in from..width, x = i - 1 PROVE x \in Int /\ from - 1 <= x /\ x <= width
      BY <1>3, <3>3
    <3>4. QED BY <2>1, <3>1, <3>2, <3>3
  <2>2. from - 1 \in S
    OBVIOUS
  <2> HIDE DEF S
  <2>3. S \subseteq Int /\ \A x \in S : x <= width
    BY <2>1
  <2>4. last \in S
    BY <2>2, <2>3, MaxExists
  <2>5. QED BY <1>3, <2>1, <2>4
<1> HIDE DEF last, S
<1>5. /\ Len(part(last, last)) = 1
      /\ from <= last => Len(part(from, last - 1)) = last - from
      /\ Len(part(from, last)) = last - from + 1
  <2> HIDE DEF from
  <2>1. ASSUME NEW i \in Int, NEW j \in Int, i <= j + 1 PROVE Len(part(i, j)) = j - i + 1
    <3> DEFINE p == part(i, j)
               n == j - i + 1
    <3>1. n \in Nat
      BY <2>1
    <3>2. p = [k \in 1..n |-> p[k]]
      OBVIOUS
    <3> HIDE DEF p, n
    <3>3. Len(p) = n
      BY <3>1, <3>2, LengthIs
    <3>4. QED BY <3>3 DEF p, n
  <2> HIDE DEF part
  <2>2. from \in Int /\ last \in Int
    BY <1>3, <1>4
  <2>3. Len(part(last, last)) = last - last + 1
    BY <2>1, <2>2
  <2>4. from <= last => Len(part(from, last - 1)) = (last - 1) - from + 1
    BY <2>1, <2>2
  <2>5. Len(part(from, last)) = last - from + 1
    BY <1>4, <2>1, <2>2
  <2>6. QED BY <2>2, <2>3, <2>4, <2>5
<1>6. /\ DOMAIN h = TermFields /\ Pictured(h) /\ h.x = t.column
      /\ h.line = t.line /\ h.y = t.y /\ h.top = t.top /\ h.height = t.height
      /\ h.stopped = t.stopped /\ h.valid = t.valid
      /\ (~t.shown => ~h.shown) /\ (t.hidden \/ t.shown => h.hidden \/ h.shown)
  <2>1. CASE h = t
    BY <2>1 DEF Pictured
  <2>2. CASE h = hideTerminalCursor(t)
    <3>1. h.hidden /\ ~h.shown
      BY <2>2, HidingIs
    <3>2. Pictured(h)
      BY <2>2, HidingIs
    <3>3. QED BY <2>2, <3>1, <3>2, HidingIs DEF Pictured
  <2>3. QED BY <2>1, <2>2
<1> HIDE DEF h, part, from, sgr
<1>7. Printed(h, out, last)
  <2>1. CASE from <= last /\ last = width
    <3>1. Printed(h, a, h.x + (last - from))
      BY <1>5, <1>6, <2>1, PrintingIs
    <3> HIDE DEF a
    <3>2. DOMAIN a = TermFields /\ a.x = h.x + (last - from)
      BY <3>1 DEF Printed
    <3> DEFINE p == painted(a)
    <3>3. Printed(a, p, a.x)
      BY <3>2, PrintingIs
    <3> HIDE DEF p
    <3>4. DOMAIN p = TermFields /\ p.x = a.x
      BY <3>3 DEF Printed
    <3>5. Printed(p, b, p.x)
      BY <3>4, PrintingIs DEF p
    <3>6. DOMAIN b = TermFields /\ b.x = p.x
      BY <3>5 DEF Printed
    <3> HIDE DEF b
    <3>7. Printed(b, c, b.x + 1)
      BY <1>5, <3>6, PrintingIs
    <3>8. b.x + 1 = last
      BY <1>3, <1>4, <1>6, <3>2, <3>4, <3>6
    <3> HIDE DEF c
    <3>9. Printed(h, c, last)
      BY <3>1, <3>3, <3>5, <3>7, <3>8, PrintingOn
    <3>10. out = c
      BY <2>1
    <3>11. QED BY <3>9, <3>10
  <2>2. CASE ~(from <= last /\ last = width)
    <3>1. Printed(h, d, h.x + (last - from + 1))
      BY <1>5, <1>6, PrintingIs
    <3> HIDE DEF d
    <3>2. DOMAIN d = TermFields /\ d.x = h.x + (last - from + 1)
      BY <3>1 DEF Printed
    <3> DEFINE p == painted(d)
    <3>3. Printed(d, p, d.x)
      BY <3>2, PrintingIs
    <3> HIDE DEF p
    <3>4. DOMAIN p = TermFields /\ p.x = d.x
      BY <3>3 DEF Printed
    <3>5. Printed(p, e, p.x)
      BY <3>4, PrintingIs DEF p
    <3>6. p.x = last
      BY <1>3, <1>4, <1>6, <3>2, <3>4
    <3> HIDE DEF e
    <3>7. Printed(h, e, last)
      BY <3>1, <3>3, <3>5, <3>6, PrintingOn
    <3>8. out = e
      BY <2>2
    <3>9. QED BY <3>7, <3>8
  <2>3. QED BY <2>1, <2>2
<1> HIDE DEF out
<1>8. /\ DOMAIN w = TermFields /\ w.x = last /\ w.column = last
      /\ w.data = SubSeq(cells, 1, last)
      /\ w.line = out.line /\ w.y = out.y /\ w.top = out.top /\ w.height = out.height
      /\ w.stopped = out.stopped /\ w.hidden = out.hidden /\ w.shown = out.shown
      /\ w.valid = out.valid
  BY <1>7 DEF Printed, TermFields
<1>9. Len(w.data) = last
  <2> DEFINE D == {cells[i] : i \in 1..width}
  <2>1. \A i \in 1..last : cells[i] \in D
    BY <1>4
  <2> HIDE DEF D
  <2>2. Len(SubSeq(cells, 1, last)) = IF 1 <= last THEN last - 1 + 1 ELSE 0
    BY <1>4, <2>1, SubSeqProperties
  <2>3. QED BY <1>4, <1>8, <2>2
<1> HIDE DEF w
<1>10. /\ w.line = h.line /\ w.y = h.y /\ w.top = h.top /\ w.height = h.height
       /\ w.stopped = h.stopped /\ w.hidden = h.hidden /\ w.shown = h.shown
       /\ w.valid = h.valid
  BY <1>7, <1>8 DEF Printed
<1>11. Pictured(w)
  BY <1>4, <1>6, <1>8, <1>9, <1>10 DEF Pictured
<1>12. QED BY <1>2, <1>6, <1>10, <1>11

LEMMA DrawingOn ==
  ASSUME NEW t, NEW u, NEW v, Draws(t, u), Draws(u, v)
  PROVE  Draws(t, v)
<1>1. Pictured(v) /\ v.height = t.height
  BY DEF Draws
<1>2. ASSUME ~v.stopped PROVE ~t.stopped /\ v.y - v.line = t.y - t.line
  BY <1>2 DEF Draws
<1>3. ASSUME t.hidden \/ t.shown PROVE v.hidden \/ v.shown
  BY <1>3 DEF Draws
<1>4. QED BY <1>1, <1>2, <1>3 DEF Draws

LEMMA LineIsSent ==
  ASSUME NEW t, Pictured(t), NEW line \in Int, NEW cells, NEW width \in Nat,
         cells = [i \in 1..width |-> cells[i]], NEW cursorColumn
  PROVE  LET u == sendLine(t, line, cells, cursorColumn)
         IN Draws(t, u) /\ Reaches(t, u, line) /\ (~t.shown => ~u.shown)
<1> DEFINE m == moveTerminalToLine(t, line)
           k == hideTerminalCursor(m)
           fresh == [Return(k) EXCEPT !.valid = TRUE, !.data = <<>>, !.column = 0]
           s == IF Reusable(m, cells) THEN m ELSE fresh
           u == SendCells(s, cells, cursorColumn)
<1>1. sendLine(t, line, cells, cursorColumn) = u
  BY DEF sendLine
<1>2. Draws(t, m) /\ Reaches(t, m, line) /\ (~t.shown => ~m.shown)
  BY MovingIs
<1>3. Pictured(m)
  BY <1>2 DEF Draws
<1> HIDE DEF m
<1>4. /\ Pictured(s) /\ Len(s.data) = s.column /\ s.column <= width
      /\ (~m.shown => ~s.shown) /\ (m.hidden \/ m.shown => s.hidden \/ s.shown)
      /\ s.line = m.line /\ s.y = m.y /\ s.top = m.top /\ s.height = m.height
      /\ s.stopped = m.stopped
  <2>1. CASE Reusable(m, cells)
    <3>1. s = m
      BY <2>1
    <3>2. Len(cells) = width
      BY LengthIs
    <3>3. /\ m.valid /\ m.column \in Nat
          /\ m.column > 0 => Len(cells) > Len(m.data)
      BY <1>3, <2>1 DEF Reusable, Pictured
    <3>4. Len(m.data) = m.column
      BY <1>3, <3>3 DEF Pictured
    <3>5. m.column <= width
      BY <3>2, <3>3, <3>4
    <3>6. QED BY <1>3, <3>1, <3>4, <3>5
  <2>2. CASE ~Reusable(m, cells)
    <3>1. s = fresh
      BY <2>2
    <3>2. /\ Pictured(k) /\ k.hidden = TRUE /\ k.shown = FALSE /\ k.line = m.line
          /\ k.y = m.y /\ k.top = m.top /\ k.height = m.height /\ k.stopped = m.stopped
      BY <1>3, HidingIs
    <3> HIDE DEF k
    <3>3. DOMAIN k = TermFields
      BY <3>2 DEF Pictured
    <3>4. /\ DOMAIN fresh = TermFields /\ fresh.x = 0 /\ fresh.column = 0
          /\ fresh.valid = TRUE /\ fresh.data = <<>> /\ fresh.hidden = k.hidden
          /\ fresh.shown = k.shown /\ fresh.line = k.line /\ fresh.y = k.y
          /\ fresh.top = k.top /\ fresh.height = k.height /\ fresh.stopped = k.stopped
      BY <3>3 DEF Return, TermFields
    <3> HIDE DEF fresh
    <3>5. Len(fresh.data) = 0
      BY <3>4
    <3>6. Pictured(fresh)
      <4>1. fresh.hidden = TRUE /\ fresh.shown = FALSE
        BY <3>2, <3>4
      <4>2. /\ fresh.hidden \in BOOLEAN /\ fresh.shown \in BOOLEAN /\ ~fresh.shown
            /\ fresh.valid \in BOOLEAN
        BY <3>4, <4>1, Zenon
      <4>3. QED BY <3>2, <3>4, <3>5, <4>2 DEF Pictured
    <3>7. fresh.hidden /\ ~fresh.shown
      <4>1. fresh.hidden = TRUE /\ fresh.shown = FALSE
        BY <3>2, <3>4
      <4>2. QED BY <4>1, Zenon
    <3>8. QED BY <3>1, <3>2, <3>4, <3>5, <3>6, <3>7
  <2>3. QED BY <2>1, <2>2
<1> HIDE DEF s
<1>5. /\ Pictured(u) /\ (~s.shown => ~u.shown) /\ (s.hidden \/ s.shown => u.hidden \/ u.shown)
      /\ u.line = s.line /\ u.y = s.y /\ u.top = s.top /\ u.height = s.height
      /\ u.stopped = s.stopped
  BY <1>4, CellsAreSent
<1> HIDE DEF u
<1>6. Draws(m, u)
  BY <1>4, <1>5 DEF Draws
<1>7. Draws(t, u)
  BY <1>2, <1>6, DrawingOn
<1>8. Reaches(t, u, line)
  BY <1>2, <1>4, <1>5 DEF Reaches
<1>9. QED BY <1>1, <1>2, <1>4, <1>5, <1>7, <1>8

LEMMA CursorIsShown ==
  ASSUME NEW t, Pictured(t), NEW column \in Nat, NEW line \in Int
  PROVE  LET u == showTerminalCursor(t, column, line)
         IN /\ Draws(t, u) /\ Reaches(t, u, line)
            /\ u.x = column /\ (t.hidden \/ t.shown => u.shown)
<1> DEFINE m == moveTerminalToLine(t, line)
           c == IF m.column = column THEN m
                ELSE [m EXCEPT !.x = column, !.valid = (column = 0), !.data = <<>>,
                               !.column = column]
           u == IF c.hidden THEN [c EXCEPT !.hidden = FALSE, !.shown = TRUE] ELSE c
<1>1. showTerminalCursor(t, column, line) = u
  BY DEF showTerminalCursor
<1>2. Draws(t, m) /\ Reaches(t, m, line)
  BY MovingIs
<1>3. Pictured(m)
  BY <1>2 DEF Draws
<1> HIDE DEF m
<1>4. /\ Pictured(c) /\ c.x = column /\ c.hidden = m.hidden /\ c.shown = m.shown
      /\ c.line = m.line /\ c.y = m.y /\ c.top = m.top /\ c.height = m.height
      /\ c.stopped = m.stopped
  <2>1. CASE m.column = column
    BY <1>3, <2>1 DEF Pictured
  <2>2. CASE m.column # column
    <3>1. c = [m EXCEPT !.x = column, !.valid = (column = 0), !.data = <<>>,
                        !.column = column]
      BY <2>2
    <3>2. DOMAIN m = TermFields
      BY <1>3 DEF Pictured
    <3> HIDE DEF c
    <3>3. /\ DOMAIN c = TermFields /\ c.x = column /\ c.column = column /\ c.data = <<>>
          /\ c.hidden = m.hidden /\ c.shown = m.shown
          /\ c.line = m.line /\ c.y = m.y /\ c.top = m.top /\ c.height = m.height
          /\ c.stopped = m.stopped
      BY <3>1, <3>2 DEF TermFields
    <3>4. c.valid = (column = 0)
      BY <3>1, <3>2 DEF TermFields
    <3>5. c.valid \in BOOLEAN /\ (c.valid => column = 0)
      BY <3>4
    <3>6. Len(c.data) = 0
      BY <3>3
    <3>7. QED BY <1>3, <3>3, <3>5, <3>6 DEF Pictured
  <2>3. QED BY <2>1, <2>2
<1> HIDE DEF c
<1>5. /\ Pictured(u) /\ u.x = column /\ (c.hidden \/ c.shown => u.shown)
      /\ u.line = c.line /\ u.y = c.y /\ u.top = c.top /\ u.height = c.height
      /\ u.stopped = c.stopped
  <2>1. CASE c.hidden
    <3>1. u = [c EXCEPT !.hidden = FALSE, !.shown = TRUE] /\ DOMAIN c = TermFields
      BY <1>4, <2>1 DEF Pictured
    <3> HIDE DEF u
    <3>2. /\ DOMAIN u = TermFields /\ u.x = c.x /\ u.column = c.column /\ u.data = c.data
          /\ u.hidden = FALSE /\ u.shown = TRUE
          /\ u.line = c.line /\ u.y = c.y /\ u.top = c.top /\ u.height = c.height
          /\ u.stopped = c.stopped /\ u.valid = c.valid
      BY <3>1 DEF TermFields
    <3>3. u.hidden \in BOOLEAN /\ u.shown \in BOOLEAN /\ ~u.hidden /\ u.shown
      BY <3>2, Zenon
    <3>4. QED BY <1>4, <3>2, <3>3 DEF Pictured
  <2>2. CASE ~c.hidden
    BY <1>4, <2>2
  <2>3. QED BY <2>1, <2>2
<1> HIDE DEF u
<1>6. Draws(m, u)
  BY <1>4, <1>5 DEF Draws
<1>7. Draws(t, u)
  BY <1>2, <1>6, DrawingOn
<1>8. Reaches(t, u, line)
  BY <1>2, <1>4, <1>5 DEF Reaches
<1>9. t.hidden \/ t.shown => u.shown
  BY <1>2, <1>4, <1>5 DEF Draws
<1>10. QED BY <1>1, <1>5, <1>7, <1>8, <1>9

(* Lines are sent in a row, from a first one that is on the screen, down to *)
(* the end of a window that is not higher than the screen.                  *)
Lines(buf, from, stop, width) ==
  \A r \in from..(stop - 1) : buf[r] = [k \in 1..width |-> buf[r][k]]

AccFields == {"lines", "maxBuffered", "term", "saw"}

OnScreen(t, first, top, height) ==
  /\ ~t.stopped /\ t.top <= RowOf(t, first) /\ first <= top /\ height <= t.height

Sent(t, u, first, n, top, height) ==
  /\ Draws(t, u) /\ (~t.shown => ~u.shown)
  /\ OnScreen(t, first, top, height) =>
       ~u.stopped /\ u.top <= RowOf(t, first + n) /\ u.top <= RowOf(t, top)

LEMMA OneMoreIsSent ==
  ASSUME NEW t, Pictured(t), NEW first \in Int, NEW n \in Nat, NEW top \in Int,
         NEW height \in Int, 1 <= height, first + n <= top + height - 1,
         NEW u, Sent(t, u, first, n, top, height),
         NEW v, v = u \/ (Draws(u, v) /\ Reaches(u, v, first + n) /\ (~u.shown => ~v.shown))
  PROVE  Sent(t, v, first, n + 1, top, height)
<1>1. t.line \in Int /\ t.y \in Int /\ t.top \in Int /\ t.height \in Int
  BY DEF Pictured
<1>2. Draws(t, u) /\ Pictured(u) /\ u.height = t.height
  BY DEF Sent, Draws
<1>3. u.line \in Int /\ u.y \in Int /\ u.top \in Int
  BY <1>2 DEF Pictured
<1>4. CASE v = u
  <2>1. ASSUME OnScreen(t, first, top, height)
        PROVE  ~v.stopped /\ v.top <= RowOf(t, first + (n + 1)) /\ v.top <= RowOf(t, top)
    <3>1. ~u.stopped /\ u.top <= RowOf(t, first + n) /\ u.top <= RowOf(t, top)
      BY <2>1 DEF Sent
    <3>2. RowOf(t, first + n) <= RowOf(t, first + (n + 1))
          /\ RowOf(t, first + n) \in Int /\ RowOf(t, first + (n + 1)) \in Int
      BY <1>1 DEF RowOf
    <3>3. QED BY <1>3, <1>4, <3>1, <3>2
  <2>2. QED BY <1>2, <1>4, <2>1 DEF Sent
<1>5. ASSUME Draws(u, v), Reaches(u, v, first + n), ~u.shown => ~v.shown
      PROVE  Sent(t, v, first, n + 1, top, height)
  <2>1. Draws(t, v)
    BY <1>2, <1>5, DrawingOn
  <2>2. ASSUME OnScreen(t, first, top, height)
        PROVE  ~v.stopped /\ v.top <= RowOf(t, first + (n + 1)) /\ v.top <= RowOf(t, top)
    <3>1. ~u.stopped /\ u.top <= RowOf(t, first + n) /\ u.top <= RowOf(t, top)
      BY <2>2 DEF Sent
    <3>2. height <= t.height
      BY <2>2 DEF OnScreen
    <3>3. u.y - u.line = t.y - t.line
      BY <1>2, <3>1 DEF Draws
    <3>4. RowOf(u, first + n) = RowOf(t, first + n)
      BY <1>1, <1>3, <3>3 DEF RowOf
    <3>5. ~v.stopped
      BY <1>5, <3>1, <3>4 DEF Reaches
    <3>6. v.top = u.top \/ v.top <= RowOf(t, first + n) + 1 - t.height
      BY <1>2, <1>5, <3>4 DEF Reaches
    <3>7. v.top \in Int
      BY <1>5 DEF Draws, Pictured
    <3>8. /\ RowOf(t, first + n) \in Int /\ RowOf(t, top) \in Int
          /\ RowOf(t, first + (n + 1)) = RowOf(t, first + n) + 1
          /\ RowOf(t, first + n) <= RowOf(t, top) + height - 1
      BY <1>1 DEF RowOf
    <3>9. CASE v.top = u.top
      BY <1>3, <3>1, <3>5, <3>8, <3>9
    <3>10. CASE v.top <= RowOf(t, first + n) + 1 - t.height
      BY <1>1, <3>2, <3>5, <3>7, <3>8, <3>10
    <3>11. QED BY <3>6, <3>9, <3>10
  <2>3. ~t.shown => ~v.shown
    BY <1>5 DEF Sent
  <2>4. QED BY <2>1, <2>2, <2>3 DEF Sent
<1>6. QED BY <1>4, <1>5

LEMMA SendingOneMore ==
  ASSUME NEW t, Pictured(t), NEW first \in Int, NEW n \in Nat, NEW i, Window(i),
         NEW scrolled \in Int, NEW stop \in Int, first + n < stop,
         stop <= i.top + scrolled + i.winH, NEW buf,
         Lines(buf, first - scrolled, stop - scrolled, i.w),
         NEW acc, DOMAIN acc = AccFields,
         Sent(t, acc.term, first, n, i.top + scrolled, i.winH)
  PROVE  LET b == SendOne(acc, first + n, i, buf, scrolled)
         IN DOMAIN b = AccFields /\ Sent(t, b.term, first, n + 1, i.top + scrolled, i.winH)
<1> DEFINE v == first + n
           cells == buf[v - scrolled]
           send == acc.saw \/ v > acc.maxBuffered
                     \/ detectChange(acc.lines[v % BUFFER_LINE_COUNT], cells)
           column == IF i.visible /\ cursorInside(i) /\ v = i.y + scrolled THEN i.x ELSE -1
           sent == sendLine(acc.term, v, cells, column)
           b == SendOne(acc, v, i, buf, scrolled)
<1>1. DOMAIN b = AccFields /\ b.term = IF send THEN sent ELSE acc.term
  BY DEF SendOne, AccFields
<1> HIDE DEF b
<1>2. i.w \in Nat /\ i.top \in Int /\ i.winH \in Int /\ 1 <= i.winH
  BY DEF Window
<1>3. cells = [k \in 1..i.w |-> cells[k]]
  <2>1. v - scrolled \in (first - scrolled)..((stop - scrolled) - 1)
    OBVIOUS
  <2>2. QED BY <2>1 DEF Lines
<1>4. Pictured(acc.term)
  BY DEF Sent, Draws
<1>10. v \in Int /\ i.top + scrolled \in Int
  BY <1>2
<1> HIDE DEF cells, column, send
<1> DEFINE line == v
<1>11. line = v
  OBVIOUS
<1> HIDE DEF line
<1>12. sent = sendLine(acc.term, line, cells, column) /\ line \in Int
  BY <1>10, <1>11
<1>5. Draws(acc.term, sent) /\ Reaches(acc.term, sent, v) /\ (~acc.term.shown => ~sent.shown)
  <2> DEFINE w == sendLine(acc.term, line, cells, column)
  <2>1. Draws(acc.term, w) /\ Reaches(acc.term, w, line) /\ (~acc.term.shown => ~w.shown)
    BY <1>2, <1>3, <1>4, <1>12, LineIsSent
  <2> HIDE DEF w, sent, v
  <2>2. sent = w
    BY <1>12 DEF w
  <2>3. QED BY <1>11, <2>1, <2>2
<1> HIDE DEF sent
<1>6. \/ b.term = acc.term
      \/ Draws(acc.term, b.term) /\ Reaches(acc.term, b.term, v)
           /\ (~acc.term.shown => ~b.term.shown)
  BY <1>1, <1>5
<1>7. v <= i.top + scrolled + i.winH - 1
  BY <1>2
<1>8. Sent(t, b.term, first, n + 1, i.top + scrolled, i.winH)
  <2> DEFINE top == i.top + scrolled
  <2>1. top \in Int /\ first + n <= top + i.winH - 1
    BY <1>7, <1>10
  <2> HIDE DEF top
  <2>2. Sent(t, acc.term, first, n, top, i.winH)
    BY DEF top
  <2>3. Sent(t, b.term, first, n + 1, top, i.winH)
    BY <1>2, <1>6, <2>1, <2>2, OneMoreIsSent
  <2>4. QED BY <2>3 DEF top
<1>9. QED BY <1>1, <1>8 DEF b

LEMMA LinesAreSent ==
  ASSUME NEW t, Pictured(t), NEW start, DOMAIN start = AccFields, start.term = t,
         NEW first \in Int, NEW i, Window(i), NEW scrolled \in Int, NEW stop \in Int,
         first <= i.top + scrolled, stop <= i.top + scrolled + i.winH, NEW buf,
         Lines(buf, first - scrolled, stop - scrolled, i.w)
  PROVE  LET b == SendLines(start, first, stop, i, buf, scrolled)
         IN DOMAIN b = AccFields /\
            \E n \in Nat : Sent(t, b.term, first, n, i.top + scrolled, i.winH)
<1> DEFINE count == Max({0, stop - first})
           After(g, m) == g = [n \in 0..m |->
              IF n = 0 THEN start ELSE SendOne(g[n - 1], first + n - 1, i, buf, scrolled)]
           g0 == CHOOSE g : After(g, count)
           Good(b, n) == DOMAIN b = AccFields
                           /\ Sent(t, b.term, first, n, i.top + scrolled, i.winH)
           T == {m \in Nat : \E g : After(g, m)}
           U == {m \in Nat : m <= count => Good(g0[m], m)}
<1>1. SendLines(start, first, stop, i, buf, scrolled) = g0[count]
  BY DEF SendLines
<1>2. 0 \in T
  <2> DEFINE g == [n \in 0..0 |-> start]
  <2>1. After(g, 0)
    OBVIOUS
  <2>2. QED BY <2>1
<1>3. ASSUME NEW m \in Nat, m \in T PROVE m + 1 \in T
  <2>1. PICK g : After(g, m)
    BY <1>3
  <2> DEFINE h == [n \in 0..(m + 1) |->
                     IF n <= m THEN g[n] ELSE SendOne(g[m], first + m, i, buf, scrolled)]
  <2>2. ASSUME NEW n \in 0..(m + 1)
        PROVE  h[n] = IF n = 0 THEN start ELSE SendOne(h[n - 1], first + n - 1, i, buf, scrolled)
    <3>1. CASE n = 0
      <4>1. g[0] = start
        BY <2>1
      <4>2. QED BY <3>1, <4>1
    <3>2. CASE n # 0 /\ n <= m
      <4>1. g[n] = SendOne(g[n - 1], first + n - 1, i, buf, scrolled)
        BY <2>1, <3>2
      <4>2. h[n] = g[n] /\ h[n - 1] = g[n - 1]
        BY <3>2
      <4> HIDE DEF h
      <4>3. QED BY <3>2, <4>1, <4>2
    <3>3. CASE n = m + 1
      <4>1. h[n] = SendOne(g[m], first + m, i, buf, scrolled) /\ h[n - 1] = g[m] /\ n # 0
        BY <3>3
      <4>2. first + m = first + n - 1
        BY <3>3
      <4> HIDE DEF h
      <4>3. QED BY <3>3, <4>1, <4>2
    <3>4. QED BY <3>1, <3>2, <3>3
  <2>3. After(h, m + 1)
    <3>1. h = [n \in 0..(m + 1) |-> h[n]]
      OBVIOUS
    <3> HIDE DEF h
    <3>2. QED BY <2>2, <3>1
  <2> HIDE DEF h, After
  <2>4. \E f : After(f, m + 1)
    BY <2>3
  <2>5. QED BY <2>4
<1> HIDE DEF T
<1>4. /\ count = IF 0 >= stop - first THEN 0 ELSE stop - first
      /\ count \in Nat
  <2>1. count = IF 0 >= stop - first THEN 0 ELSE stop - first
    BY MaxOf
  <2> HIDE DEF count
  <2>2. QED BY <2>1
<1> HIDE DEF count
<1>5. count \in T
  BY <1>2, <1>3, <1>4, Induction
<1>6. After(g0, count)
  <2>1. \E g : After(g, count)
    BY <1>5 DEF T
  <2> HIDE DEF After
  <2>2. QED BY <2>1
<1> HIDE DEF g0
<1>7. g0[0] = start
  BY <1>4, <1>6
<1>8. ASSUME NEW m \in Nat, m + 1 <= count
      PROVE  g0[m + 1] = SendOne(g0[m], first + m, i, buf, scrolled)
  <2>1. m + 1 \in 0..count /\ m + 1 # 0 /\ (m + 1) - 1 = m /\ first + (m + 1) - 1 = first + m
    BY <1>4, <1>8
  <2>2. QED BY <1>6, <2>1
<1> HIDE DEF After
<1>9. i.top \in Int /\ i.winH \in Int /\ 1 <= i.winH
  BY DEF Window
<1>10. 0 \in U
  <2>1. Draws(t, t)
    BY DEF Draws
  <2>2. RowOf(t, first + 0) = RowOf(t, first)
    BY DEF RowOf
  <2>3. RowOf(t, first) \in Int /\ RowOf(t, i.top + scrolled) \in Int /\ t.top \in Int
        /\ RowOf(t, first) <= RowOf(t, i.top + scrolled)
    <3>1. t.line \in Int /\ t.y \in Int /\ t.top \in Int
      BY DEF Pictured
    <3>2. QED BY <1>9, <3>1 DEF RowOf
  <2>4. Sent(t, t, first, 0, i.top + scrolled, i.winH)
    BY <2>1, <2>2, <2>3 DEF Sent, OnScreen
  <2>5. Good(start, 0)
    BY <2>4
  <2>6. QED BY <1>7, <2>5
<1>11. ASSUME NEW m \in Nat, m \in U PROVE m + 1 \in U
  <2> SUFFICES ASSUME m + 1 <= count PROVE Good(g0[m + 1], m + 1)
    OBVIOUS
  <2>1. Good(g0[m], m)
    BY <1>4, <1>11
  <2>2. first + m < stop
    BY <1>4
  <2>3. QED BY <1>8, <2>1, <2>2, SendingOneMore
<1>12. count \in U
  <2> HIDE DEF U
  <2>1. QED BY <1>4, <1>10, <1>11, Induction
<1> HIDE DEF g0
<1>13. Good(g0[count], count)
  BY <1>4, <1>12
<1>14. QED BY <1>1, <1>4, <1>13

(* The members and the round, without what sending changes.                 *)
SameTracking(s, u) ==
  /\ u.syncRow = s.syncRow /\ u.counter = s.counter /\ u.scrolled = s.scrolled
  /\ u.dirtyTop = s.dirtyTop /\ u.ptySize = s.ptySize /\ u.directMode = s.directMode

SameHistory(rd, r) ==
  /\ r.base = rd.base /\ r.missed = rd.missed /\ r.misled = rd.misled /\ r.blind = rd.blind

LEMMA ScanningKeeps ==
  ASSUME NEW s, DOMAIN s = ScrFields, NEW i, NEW buf
  PROVE  LET u == scanForDirtyLines(s, i, buf)
         IN DOMAIN u = ScrFields /\ SameTracking(s, u) /\ u.scraped = s.scraped
BY DEF scanForDirtyLines, WithDirty, SameTracking, ScrFields

(* The cursor, where the console has it.                                    *)
CursorDrawn(t, u, i, shown, line) ==
  IF shown
    THEN u.x = i.x /\ u.line = line /\ (t.hidden \/ t.shown => u.shown)
    ELSE ~u.shown

LEMMA SendingDraws ==
  ASSUME NEW rd, Well(rd), Pictured(rd.term), NEW i, Window(i), i.h = BUFFER_LINE_COUNT,
         i.x \in Nat, NEW buf,
         Lines(buf, FirstVirtLine(rd.scr, i) - rd.scr.scrolled, i.top + i.winH, i.w)
  PROVE  LET r   == Send(rd, i, buf)
             top == i.top + rd.scr.scrolled
         IN /\ Draws(rd.term, r.term)
            /\ CursorDrawn(rd.term, r.term, i, i.visible /\ cursorInside(i), i.y + rd.scr.scrolled)
            /\ OnScreen(rd.term, FirstVirtLine(rd.scr, i), top, i.winH) =>
                 ~r.term.stopped /\ r.term.top <= RowOf(rd.term, top)
            /\ SameTracking(rd.scr, r.scr) /\ r.scr.scraped = top
            /\ SameHistory(rd, r) /\ r.con = rd.con
<1> DEFINE t     == rd.term
           s     == scanForDirtyLines(rd.scr, i, buf)
           first == FirstVirtLine(s, i)
           low   == Min({s.dirty, i.top + i.winH})
           stop  == low + s.scrolled
           h     == HideCursor(t, i)
           start == [lines |-> s.lines, maxBuffered |-> s.maxBuffered,
                     term |-> h, saw |-> FALSE]
           sent  == SendLines(start, first, stop, i, buf, s.scrolled)
           u     == ShowCursor(sent.term, i, s.scrolled)
           r     == Send(rd, i, buf)
           top   == i.top + s.scrolled
<1>1. r = [rd EXCEPT !.scr = [s EXCEPT !.lines = sent.lines, !.maxBuffered = sent.maxBuffered,
                                  !.scraped = i.top + s.scrolled],
                !.term = u]
  BY DEF Send
<1> HIDE DEF r
<1>2. DOMAIN rd = RoundFields /\ Members(rd.scr) /\ DOMAIN rd.scr = ScrFields
  BY DEF Well, Members
<1>3. DOMAIN s = ScrFields /\ SameTracking(rd.scr, s) /\ s.scraped = rd.scr.scraped
  BY <1>2, ScanningKeeps
<1>4. Members(s)
  BY <1>2, ScanningIs
<1> HIDE DEF s
<1>5. /\ i.top \in Int /\ i.winH \in Int /\ 1 <= i.winH /\ s.scraped \in Int
      /\ s.scrolled \in Int /\ s.dirty \in Int /\ i.y \in Int
  BY <1>4 DEF Members, Window
<1>6. top \in Int /\ i.top + i.winH \in Int
  BY <1>5
<1>7. first = FirstVirtLine(rd.scr, i) /\ first \in Int /\ first <= top
  <2>1. first = FirstVirtLine(rd.scr, i)
    BY <1>3 DEF FirstVirtLine, SameTracking
  <2>2. first = IF s.scraped <= top THEN s.scraped ELSE top
    BY <1>5, <1>6, MaxOf DEF FirstVirtLine
  <2> HIDE DEF first, top
  <2>3. QED BY <1>5, <1>6, <2>1, <2>2
<1>8. stop \in Int /\ stop <= top + i.winH
  <2>1. low = IF s.dirty <= i.top + i.winH THEN s.dirty ELSE i.top + i.winH
    BY <1>5, <1>6, MaxOf
  <2>2. low \in Int /\ low <= i.top + i.winH
    BY <1>5, <2>1
  <2> HIDE DEF low
  <2>3. QED BY <1>5, <2>2
<1> HIDE DEF first, stop
<1>9. Lines(buf, first - s.scrolled, stop - s.scrolled, i.w)
  <2>1. s.scrolled = rd.scr.scrolled
    BY <1>3 DEF SameTracking
  <2>2. Lines(buf, first - s.scrolled, i.top + i.winH, i.w)
    BY <1>7, <2>1
  <2>3. ASSUME NEW q \in (first - s.scrolled)..((stop - s.scrolled) - 1)
        PROVE  q \in (first - s.scrolled)..((i.top + i.winH) - 1)
    BY <1>5, <1>7, <1>8
  <2>4. QED BY <2>2, <2>3 DEF Lines
<1>10. /\ Pictured(h) /\ Draws(t, h) /\ h.line = t.line /\ h.y = t.y /\ h.top = t.top
       /\ h.height = t.height /\ h.stopped = t.stopped
       /\ i.visible /\ cursorInside(i) => h = t
       /\ ~(i.visible /\ cursorInside(i)) => ~h.shown
  <2>1. CASE i.visible /\ cursorInside(i)
    <3>1. h = t
      BY <2>1 DEF HideCursor
    <3>2. QED BY <2>1, <3>1 DEF Draws
  <2>2. CASE ~(i.visible /\ cursorInside(i))
    <3>1. h = hideTerminalCursor(t)
      BY <2>2 DEF HideCursor
    <3>2. /\ Pictured(h) /\ h.line = t.line /\ h.y = t.y /\ h.top = t.top
          /\ h.height = t.height /\ h.stopped = t.stopped /\ h.hidden /\ ~h.shown
      <4> DEFINE g == hideTerminalCursor(t)
      <4>1. /\ Pictured(g) /\ g.line = t.line /\ g.y = t.y /\ g.top = t.top
            /\ g.height = t.height /\ g.stopped = t.stopped /\ g.hidden /\ ~g.shown
        BY HidingIs
      <4>2. h = g
        BY <3>1
      <4> HIDE DEF g, h
      <4>3. QED BY <4>1, <4>2
    <3>3. QED BY <2>2, <3>2 DEF Draws
  <2>3. QED BY <2>1, <2>2
<1> HIDE DEF h
<1>11. DOMAIN start = AccFields /\ start.term = h
  BY DEF AccFields
<1> HIDE DEF start
<1>12. PICK n \in Nat : Sent(h, sent.term, first, n, top, i.winH)
  <2>1. first <= i.top + s.scrolled /\ stop <= i.top + s.scrolled + i.winH
    BY <1>7, <1>8
  <2>2. QED BY <1>5, <1>7, <1>8, <1>9, <1>10, <1>11, <2>1, LinesAreSent
<1> HIDE DEF sent
<1> DEFINE w == sent.term
<1>13. /\ Draws(h, w) /\ (~h.shown => ~w.shown)
       /\ OnScreen(h, first, top, i.winH) => ~w.stopped /\ w.top <= RowOf(h, top)
  BY <1>12 DEF Sent
<1>14. Pictured(w) /\ w.height = t.height
  BY <1>10, <1>13 DEF Draws
<1> HIDE DEF w
<1>15. /\ Draws(w, u)
       /\ CursorDrawn(t, u, i, i.visible /\ cursorInside(i), i.y + s.scrolled)
       /\ OnScreen(t, first, top, i.winH) => ~u.stopped /\ u.top <= RowOf(t, top)
  <2>1. OnScreen(t, first, top, i.winH) =>
          OnScreen(h, first, top, i.winH) /\ ~w.stopped /\ w.top <= RowOf(t, top)
    BY <1>10, <1>13 DEF OnScreen, RowOf
  <2>2. CASE i.visible /\ cursorInside(i)
    <3> DEFINE line == i.y + s.scrolled
    <3>1. u = showTerminalCursor(w, i.x, line)
      BY <2>2 DEF ShowCursor, w
    <3>2. line \in Int
      BY <1>5
    <3>3. /\ Draws(w, u) /\ Reaches(w, u, line) /\ u.x = i.x
          /\ (w.hidden \/ w.shown => u.shown)
      BY <1>14, <3>1, <3>2, CursorIsShown
    <3>4. t.hidden \/ t.shown => w.hidden \/ w.shown
      BY <1>10, <1>13, <2>2 DEF Draws
    <3>5. CursorDrawn(t, u, i, TRUE, line)
      BY <3>3, <3>4 DEF CursorDrawn, Reaches
    <3>6. top <= line /\ line <= top + i.winH - 1
      BY <1>5, <2>2 DEF cursorInside, cursorInWindow
    <3>7. ASSUME OnScreen(t, first, top, i.winH)
          PROVE  ~u.stopped /\ u.top <= RowOf(t, top)
      <4>1. ~w.stopped /\ w.top <= RowOf(t, top) /\ i.winH <= t.height
        BY <2>1, <3>7 DEF OnScreen
      <4>2. w.y - w.line = t.y - t.line
        BY <1>10, <1>13, <4>1 DEF Draws
      <4>3. /\ t.line \in Int /\ t.y \in Int /\ t.height \in Int /\ w.line \in Int
            /\ w.y \in Int /\ w.top \in Int
        BY <1>14 DEF Pictured
      <4> HIDE DEF u, line, top
      <4>4. RowOf(w, line) = RowOf(t, line) /\ RowOf(t, line) \in Int /\ RowOf(t, top) \in Int
        BY <1>6, <3>2, <4>2, <4>3 DEF RowOf
      <4>5. RowOf(t, top) <= RowOf(t, line) /\ RowOf(t, line) <= RowOf(t, top) + i.winH - 1
        BY <1>5, <1>6, <3>2, <3>6, <4>3 DEF RowOf
      <4>6. ~u.stopped
        BY <3>3, <4>1, <4>3, <4>4, <4>5 DEF Reaches
      <4>7. u.top \in Int /\ (u.top = w.top \/ u.top <= RowOf(t, line) + 1 - t.height)
        BY <1>14, <3>3, <4>4 DEF Reaches, Draws, Pictured
      <4>8. QED BY <1>5, <4>1, <4>3, <4>4, <4>5, <4>6, <4>7
    <3> HIDE DEF u, line
    <3>8. QED BY <2>2, <3>3, <3>5, <3>7 DEF line
  <2>3. CASE ~(i.visible /\ cursorInside(i))
    <3>1. u = w
      BY <2>3 DEF ShowCursor, w
    <3>2. ~u.shown
      BY <1>10, <1>13, <2>3, <3>1
    <3>3. Draws(w, w)
      BY <1>14 DEF Draws
    <3>4. CursorDrawn(t, u, i, FALSE, i.y + s.scrolled)
      BY <3>2 DEF CursorDrawn
    <3>5. QED BY <2>1, <2>3, <3>1, <3>3, <3>4
  <2>4. QED BY <2>2, <2>3
<1> HIDE DEF u
<1>16. Draws(t, u)
  BY <1>10, <1>13, <1>15, DrawingOn
<1>17. /\ DOMAIN r = RoundFields /\ r.term = u /\ r.con = rd.con /\ SameHistory(rd, r)
       /\ r.scr = [s EXCEPT !.lines = sent.lines, !.maxBuffered = sent.maxBuffered,
                            !.scraped = i.top + s.scrolled]
  BY <1>1, <1>2 DEF RoundFields, SameHistory
<1>18. SameTracking(s, r.scr) /\ r.scr.scraped = top
  BY <1>3, <1>17 DEF ScrFields, SameTracking
<1>19. SameTracking(rd.scr, r.scr) /\ s.scrolled = rd.scr.scrolled
  BY <1>3, <1>18 DEF SameTracking
<1>20. QED BY <1>7, <1>15, <1>16, <1>17, <1>18, <1>19 DEF r

DirectWidth(i)  == Min({i.winW, scr.ptySize[1]})
DirectHeight(i) == Min({i.winH, scr.ptySize[2]})
DirectShows(i)  == i.visible /\ i.x < DirectWidth(i)
                     /\ i.y >= i.top /\ i.y < i.top + DirectHeight(i)

DirectFields == {"lines", "w", "show", "term"}

DrawnOneByOne(g, start, m, i, c) ==
  g = [n \in 0..m |-> IF n = 0 THEN start ELSE DirectOne(g[n - 1], n - 1, i, c)]

LEMMA DrawingDirectly ==
  ASSUME NEW t, Pictured(t), NEW start, DOMAIN start = DirectFields, start.term = t,
         NEW w \in Nat, start.w = w, NEW h \in Nat, 1 <= h, NEW i, NEW c,
         NEW after, DrawnOneByOne(after, start, h, i, c)
  PROVE  LET b == after[h] IN DOMAIN b = DirectFields /\ Sent(t, b.term, 0, h, 0, h)
<1> DEFINE Good(b, n) == DOMAIN b = DirectFields /\ b.w = w /\ Sent(t, b.term, 0, n, 0, h)
           U == {m \in Nat : m <= h => Good(after[m], m)}
<1>1. 0 \in U
  <2>1. after[0] = start
    BY DEF DrawnOneByOne
  <2>2. Draws(t, t)
    BY DEF Draws
  <2>3. RowOf(t, 0 + 0) = RowOf(t, 0)
    OBVIOUS
  <2>4. Sent(t, t, 0, 0, 0, h)
    BY <2>2, <2>3 DEF Sent, OnScreen
  <2>5. QED BY <2>1, <2>4
<1>2. ASSUME NEW m \in Nat, m \in U PROVE m + 1 \in U
  <2> SUFFICES ASSUME m + 1 <= h PROVE Good(after[m + 1], m + 1)
    OBVIOUS
  <2> DEFINE acc == after[m]
             cells == ReadCells(c, i.top + m, acc.w)
             column == IF acc.show /\ m = i.y - i.top THEN i.x ELSE -1
             b == DirectOne(acc, m, i, c)
             sent == sendLine(acc.term, m, cells, column)
  <2>1. Good(acc, m)
    BY <1>2
  <2>2. after[m + 1] = b
    <3>1. m + 1 \in 0..h /\ m + 1 # 0 /\ (m + 1) - 1 = m
      OBVIOUS
    <3>2. QED BY <3>1 DEF DrawnOneByOne
  <2> HIDE DEF acc
  <2>3. /\ DOMAIN b = DirectFields /\ b.w = acc.w
        /\ b.term = IF detectChange(acc.lines[m], cells) THEN sent ELSE acc.term
    BY <2>1 DEF DirectOne, DirectFields
  <2> HIDE DEF b
  <2>4. cells = [k \in 1..w |-> cells[k]]
    BY <2>1 DEF ReadCells, Masked
  <2> HIDE DEF cells, column
  <2>5. Pictured(acc.term)
    BY <2>1 DEF Sent, Draws
  <2>6. Draws(acc.term, sent) /\ Reaches(acc.term, sent, m) /\ (~acc.term.shown => ~sent.shown)
    BY <2>4, <2>5, LineIsSent
  <2> HIDE DEF sent
  <2>7. \/ b.term = acc.term
        \/ Draws(acc.term, b.term) /\ Reaches(acc.term, b.term, 0 + m)
             /\ (~acc.term.shown => ~b.term.shown)
    BY <2>3, <2>6
  <2>8. Sent(t, acc.term, 0, m, 0, h)
    BY <2>1
  <2>9. Sent(t, b.term, 0, m + 1, 0, h)
    <3> DEFINE z == 0
               n == h
    <3>1. z \in Int /\ z + m <= z + n - 1 /\ n \in Int /\ 1 <= n
      OBVIOUS
    <3>2. z + m = 0 + m
      OBVIOUS
    <3> HIDE DEF z
    <3>3. \/ b.term = acc.term
          \/ Draws(acc.term, b.term) /\ Reaches(acc.term, b.term, z + m)
               /\ (~acc.term.shown => ~b.term.shown)
      BY <2>7, <3>2
    <3>4. Sent(t, acc.term, z, m, z, n)
      BY <2>8 DEF z
    <3> HIDE DEF n
    <3>5. Sent(t, b.term, z, m + 1, z, n)
      BY <3>1, <3>3, <3>4, OneMoreIsSent
    <3>6. QED BY <3>5 DEF z, n
  <2>10. QED BY <2>1, <2>2, <2>3, <2>9
<1> HIDE DEF U
<1>3. h \in U
  BY <1>1, <1>2, Induction
<1>4. QED BY <1>3 DEF U

LEMMA DirectlyDraws ==
  ASSUME NEW rd, Well(rd), rd.scr = scr, Pictured(rd.term), NEW i, Window(i), i.x \in Nat
  PROVE  LET r == ScrapeDirect(rd, i)
         IN /\ Draws(rd.term, r.term)
            /\ CursorDrawn(rd.term, r.term, i, DirectShows(i), i.y - i.top)
            /\ OnScreen(rd.term, 0, 0, DirectHeight(i)) =>
                 ~r.term.stopped /\ r.term.top <= RowOf(rd.term, 0)
            /\ SameTracking(rd.scr, r.scr) /\ r.scr.scraped = rd.scr.scraped
            /\ SameHistory(rd, r) /\ r.con = rd.con
<1> DEFINE t == rd.term
           w == DirectWidth(i)
           h == DirectHeight(i)
           show == DirectShows(i)
           k == IF show THEN t ELSE hideTerminalCursor(t)
           start == [lines |-> rd.scr.lines, w |-> w, show |-> show, term |-> k]
           After(g, m) == g = [n \in 0..m |-> IF n = 0 THEN start
                                              ELSE DirectOne(g[n - 1], n - 1, i, rd.con)]
           g0 == CHOOSE g : After(g, h)
           T == {m \in Nat : \E g : After(g, m)}
           sent == g0[h]
           u == IF show THEN showTerminalCursor(sent.term, i.x, i.y - i.top) ELSE sent.term
           r == ScrapeDirect(rd, i)
<1>1. r = [rd EXCEPT !.scr.lines = sent.lines, !.term = u]
  BY DEF ScrapeDirect, DirectWidth, DirectHeight, DirectShows
<1> HIDE DEF r
<1>2. DOMAIN rd = RoundFields /\ Members(rd.scr) /\ DOMAIN rd.scr = ScrFields
  BY DEF Well, Members
<1>3. /\ i.winW \in Int /\ i.winH \in Int /\ 1 <= i.winW /\ 1 <= i.winH
      /\ i.y \in Int /\ i.top \in Int
  BY DEF Window
<1>4. /\ scr.ptySize[1] \in Int /\ scr.ptySize[2] \in Int
      /\ 1 <= scr.ptySize[1] /\ 1 <= scr.ptySize[2]
  BY <1>2, SizesAre DEF Members
<1>5. w \in Nat /\ h \in Nat /\ 1 <= h
  <2>1. /\ w = IF i.winW <= scr.ptySize[1] THEN i.winW ELSE scr.ptySize[1]
        /\ h = IF i.winH <= scr.ptySize[2] THEN i.winH ELSE scr.ptySize[2]
    BY <1>3, <1>4, MaxOf DEF DirectWidth, DirectHeight
  <2> HIDE DEF w, h
  <2>2. QED BY <1>3, <1>4, <2>1
<1>6. show => i.y - i.top \in 0..(h - 1)
  <2> HIDE DEF h
  <2>1. show => i.y >= i.top /\ i.y < i.top + h
    BY DEF DirectShows, h
  <2>2. QED BY <1>3, <1>5, <2>1
<1> HIDE DEF w, h, show
<1>7. /\ Pictured(k) /\ Draws(t, k) /\ k.line = t.line /\ k.y = t.y /\ k.top = t.top
      /\ k.height = t.height /\ k.stopped = t.stopped
      /\ show => k = t
      /\ ~show => ~k.shown
  <2>1. CASE show
    <3>1. k = t
      BY <2>1
    <3>2. QED BY <2>1, <3>1 DEF Draws
  <2>2. CASE ~show
    <3>1. k = hideTerminalCursor(t)
      BY <2>2
    <3>2. /\ Pictured(k) /\ k.line = t.line /\ k.y = t.y /\ k.top = t.top
          /\ k.height = t.height /\ k.stopped = t.stopped /\ k.hidden /\ ~k.shown
      BY <3>1, HidingIs
    <3>3. QED BY <2>2, <3>2 DEF Draws
  <2>3. QED BY <2>1, <2>2
<1> HIDE DEF k
<1>8. DOMAIN start = DirectFields /\ start.term = k /\ start.w = w
  BY DEF DirectFields
<1> HIDE DEF start
<1>9. 0 \in T
  <2> DEFINE g == [n \in 0..0 |-> start]
  <2>1. After(g, 0)
    OBVIOUS
  <2>2. QED BY <2>1
<1>10. ASSUME NEW m \in Nat, m \in T PROVE m + 1 \in T
  <2>1. PICK g : After(g, m)
    BY <1>10
  <2> DEFINE f == [n \in 0..(m + 1) |-> IF n <= m THEN g[n] ELSE DirectOne(g[m], m, i, rd.con)]
  <2>2. ASSUME NEW n \in 0..(m + 1)
        PROVE  f[n] = IF n = 0 THEN start ELSE DirectOne(f[n - 1], n - 1, i, rd.con)
    <3>1. CASE n = 0
      <4>1. g[0] = start
        BY <2>1
      <4>2. QED BY <3>1, <4>1
    <3>2. CASE n # 0 /\ n <= m
      <4>1. g[n] = DirectOne(g[n - 1], n - 1, i, rd.con)
        BY <2>1, <3>2
      <4>2. f[n] = g[n] /\ f[n - 1] = g[n - 1]
        BY <3>2
      <4> HIDE DEF f
      <4>3. QED BY <3>2, <4>1, <4>2
    <3>3. CASE n = m + 1
      <4>1. f[n] = DirectOne(g[m], m, i, rd.con) /\ f[n - 1] = g[m] /\ n # 0 /\ n - 1 = m
        BY <3>3
      <4> HIDE DEF f
      <4>2. QED BY <3>3, <4>1
    <3>4. QED BY <3>1, <3>2, <3>3
  <2>3. After(f, m + 1)
    <3>1. f = [n \in 0..(m + 1) |-> f[n]]
      OBVIOUS
    <3> HIDE DEF f
    <3>2. QED BY <2>2, <3>1
  <2> HIDE DEF f, After
  <2>4. \E g1 : After(g1, m + 1)
    BY <2>3
  <2>5. QED BY <2>4
<1> HIDE DEF T
<1>11. h \in T
  BY <1>5, <1>9, <1>10, Induction
<1>12. After(g0, h)
  <2>1. \E g : After(g, h)
    BY <1>11 DEF T
  <2> HIDE DEF After
  <2>2. QED BY <2>1
<1> HIDE DEF g0
<1>13. DOMAIN sent = DirectFields /\ Sent(k, sent.term, 0, h, 0, h)
  <2>1. DrawnOneByOne(g0, start, h, i, rd.con)
    BY <1>12 DEF DrawnOneByOne
  <2> HIDE DEF After
  <2>2. QED BY <1>5, <1>7, <1>8, <2>1, DrawingDirectly
<1> HIDE DEF sent, After
<1> DEFINE v == sent.term
<1>14. /\ Draws(k, v) /\ (~k.shown => ~v.shown)
       /\ OnScreen(k, 0, 0, h) => ~v.stopped /\ v.top <= RowOf(k, 0)
  BY <1>13 DEF Sent
<1>15. Pictured(v) /\ v.height = t.height
  BY <1>7, <1>14 DEF Draws
<1> HIDE DEF v
<1>16. /\ Draws(v, u)
       /\ CursorDrawn(t, u, i, show, i.y - i.top)
       /\ OnScreen(t, 0, 0, h) => ~u.stopped /\ u.top <= RowOf(t, 0)
  <2>1. OnScreen(t, 0, 0, h) =>
          OnScreen(k, 0, 0, h) /\ ~v.stopped /\ v.top <= RowOf(t, 0)
    BY <1>7, <1>14 DEF OnScreen, RowOf
  <2>2. CASE show
    <3> DEFINE line == i.y - i.top
    <3>1. u = showTerminalCursor(v, i.x, line)
      BY <2>2 DEF v
    <3>2. line \in Int
      BY <1>3
    <3>3. /\ Draws(v, u) /\ Reaches(v, u, line) /\ u.x = i.x
          /\ (v.hidden \/ v.shown => u.shown)
      BY <1>15, <3>1, <3>2, CursorIsShown
    <3>4. t.hidden \/ t.shown => v.hidden \/ v.shown
      BY <1>7, <1>14, <2>2 DEF Draws
    <3>5. CursorDrawn(t, u, i, TRUE, line)
      BY <3>3, <3>4 DEF CursorDrawn, Reaches
    <3>6. 0 <= line /\ line <= h - 1
      BY <1>6, <2>2
    <3>7. ASSUME OnScreen(t, 0, 0, h)
          PROVE  ~u.stopped /\ u.top <= RowOf(t, 0)
      <4>1. ~v.stopped /\ v.top <= RowOf(t, 0) /\ h <= t.height
        BY <2>1, <3>7 DEF OnScreen
      <4>2. v.y - v.line = t.y - t.line
        BY <1>7, <1>14, <4>1 DEF Draws
      <4>3. /\ t.line \in Int /\ t.y \in Int /\ t.height \in Int /\ v.line \in Int
            /\ v.y \in Int /\ v.top \in Int
        BY <1>15 DEF Pictured
      <4> HIDE DEF u, line
      <4>4. RowOf(v, line) = RowOf(t, line) /\ RowOf(t, line) \in Int /\ RowOf(t, 0) \in Int
        BY <3>2, <4>2, <4>3 DEF RowOf
      <4>5. RowOf(t, 0) <= RowOf(t, line) /\ RowOf(t, line) <= RowOf(t, 0) + h - 1
        BY <1>5, <3>2, <3>6, <4>3 DEF RowOf
      <4>6. ~u.stopped
        BY <3>3, <4>1, <4>3, <4>4, <4>5 DEF Reaches
      <4>7. u.top \in Int /\ (u.top = v.top \/ u.top <= RowOf(t, line) + 1 - t.height)
        BY <1>15, <3>3, <4>4 DEF Reaches, Draws, Pictured
      <4>8. QED BY <1>5, <4>1, <4>3, <4>4, <4>5, <4>6, <4>7
    <3> HIDE DEF u, line
    <3>8. QED BY <2>2, <3>3, <3>5, <3>7 DEF line
  <2>3. CASE ~show
    <3>1. u = v
      BY <2>3 DEF v
    <3>2. ~u.shown
      BY <1>7, <1>14, <2>3, <3>1
    <3>3. Draws(v, v)
      BY <1>15 DEF Draws
    <3> HIDE DEF u
    <3>4. CursorDrawn(t, u, i, show, i.y - i.top)
      BY <2>3, <3>2 DEF CursorDrawn
    <3>5. QED BY <2>1, <2>3, <3>1, <3>3, <3>4
  <2>4. QED BY <2>2, <2>3
<1> HIDE DEF u
<1>17. Draws(t, u)
  BY <1>7, <1>14, <1>16, DrawingOn
<1>18. /\ DOMAIN r = RoundFields /\ r.term = u /\ r.con = rd.con /\ SameHistory(rd, r)
       /\ r.scr = [rd.scr EXCEPT !.lines = sent.lines]
  BY <1>1, <1>2 DEF RoundFields, SameHistory
<1>19. SameTracking(rd.scr, r.scr) /\ r.scr.scraped = rd.scr.scraped
  BY <1>2, <1>18 DEF ScrFields, SameTracking
<1>20. QED BY <1>16, <1>17, <1>18, <1>19 DEF r, h, show

(***************************************************************************)
(* The marker, by which the agent knows how far the buffer has scrolled.   *)
(***************************************************************************)
(* What the child writes does not look like a marker, and no marker looks   *)
(* like another.                                                            *)
MarkersDiffer ==
  /\ \A n \in Nat : MarkerText(n) # Blank
  /\ \A m, n \in Nat : m # n => MarkerText(m) # MarkerText(n)
  /\ \A text \in Texts, n \in Nat : \A k \in 1..Len(text) : text[k] # MarkerText(n)

(* No row starts with a marker that has not been written yet.               *)
Rows(c, n) ==
  /\ DOMAIN c.rows = 0..(c.h - 1)
  /\ \A r \in 0..(c.h - 1) :
       1 \in DOMAIN c.rows[r] /\ \A m \in Nat : m > n => c.rows[r][1] # MarkerText(m)

(* The rows that start with the last one, if it has gone up by slid rows.   *)
MarkedAt(c, s, slid) ==
  \A r \in 0..(c.h - 1) :
    c.rows[r][1] = Marker(s) =>
      s.syncRow <= r + slid /\ r + slid <= s.syncRow + SYNC_MARKER_LEN - 1

Seen(rd) ==
  /\ Pictured(rd.term) /\ rd.term.height = rd.scr.ptySize[2]
  /\ rd.base \in Int /\ rd.scr.counter \in Nat
  /\ rd.missed \in BOOLEAN /\ rd.blind \in BOOLEAN
  /\ rd.blind \/ rd.term.hidden \/ rd.term.shown
  /\ Rows(rd.con, rd.scr.counter)

(* How many lines have been pushed out that the scraper has not counted:    *)
(* base and the cursor's row say which line the cursor is on.               *)
Slid(rd) == gone - rd.scr.scrolled - (rd.base + rd.term.y - 1 - rd.term.line)

Lost(rd) == rd.missed \/ rd.misled \/ rd.term.stopped

Counts(c, s, slid) ==
  /\ slid >= 0 /\ (s.syncRow = -1 => slid = 0)
  /\ s.syncRow # -1 => MarkedAt(c, s, slid)

Tracks(rd) == Lost(rd) \/ Counts(rd.con, rd.scr, Slid(rd))
Still(rd)  == Lost(rd) \/ Slid(rd) = 0

(* The line that was scraped last is on the screen, and not below the top   *)
(* of the window then; top is that of a window that none was scraped before.*)
OnTop(rd, top) ==
  \/ rd.missed \/ rd.misled
  \/ /\ ~rd.term.stopped /\ rd.term.top <= RowOf(rd.term, rd.scr.scraped)
     /\ rd.scr.scraped - rd.scr.scrolled <= IF rd.scr.dirtyTop = -1 THEN top ELSE rd.scr.dirtyTop

SameTerminal(rd, r) == r.term = rd.term /\ SameHistory(rd, r)

LEMMA SlidIs ==
  ASSUME gone \in Nat, NEW rd, Well(rd), Seen(rd)
  PROVE  /\ Slid(rd) \in Int
         /\ Slid(rd) = gone - rd.scr.scrolled - (rd.base + rd.term.y - 1 - rd.term.line)
         /\ Slid(rd) = 0 =>
              \A line \in Int : RowOf(rd.term, line) = line - rd.scr.scrolled - rd.base + gone + 1
<1>1. /\ rd.scr.scrolled \in Int /\ rd.base \in Int /\ rd.term.y \in Int
      /\ rd.term.line \in Int
  BY DEF Well, Members, Seen, Pictured
<1>2. Slid(rd) = gone - rd.scr.scrolled - (rd.base + rd.term.y - 1 - rd.term.line)
  BY DEF Slid
<1>3. ASSUME Slid(rd) = 0, NEW line \in Int
      PROVE  RowOf(rd.term, line) = line - rd.scr.scrolled - rd.base + gone + 1
  <2>1. RowOf(rd.term, line) = line + rd.term.y - rd.term.line
    BY DEF RowOf
  <2>2. gone - rd.scr.scrolled - (rd.base + rd.term.y - 1 - rd.term.line) = 0
    BY <1>2, <1>3
  <2>3. gone \in Int
    OBVIOUS
  <2>4. QED BY ONLY <1>1, <2>1, <2>2, <2>3, line \in Int
<1>4. Slid(rd) \in Int
  BY <1>1, <1>2
<1>5. QED BY <1>2, <1>3, <1>4

(* The tracking starts over: from an empty terminal.                        *)
LEMMA ResetStarts ==
  ASSUME gone \in Nat, NEW rd, Well(rd), Seen(rd), NEW n \in Int, 0 <= n
  PROVE  LET r == resetConsoleTracking(rd, n)
         IN /\ Seen(r) /\ Tracks(r) /\ Still(r) /\ ~Lost(r)
            /\ \A top \in Int : n <= top => OnTop(r, top)
            /\ r.term.y = 1 /\ r.term.line = n /\ r.term.top = 1
            /\ r.scr.counter = rd.scr.counter
<1> DEFINE r == resetConsoleTracking(rd, n)
           t == rd.term
           u == reset(t, TRUE, n)
           s == rd.scr
           v == Tracking(s, n)
<1>1. /\ DOMAIN r = RoundFields /\ r.scr = v /\ r.term = u /\ r.base = n + gone
      /\ r.missed = FALSE /\ r.misled = FALSE /\ r.blind = (rd.blind \/ ~t.shown)
      /\ r.con = rd.con
  BY DEF resetConsoleTracking, Well, RoundFields
<1>2. Pictured(t) /\ DOMAIN t = TermFields
  BY DEF Seen, Pictured
<1>3. DOMAIN s = ScrFields
  BY DEF Well, Members
<1>4. /\ DOMAIN u = TermFields /\ u.x = 0 /\ u.y = 1 /\ u.top = 1 /\ u.height = t.height
      /\ u.shown = t.shown /\ u.stopped = FALSE /\ u.line = n /\ u.column = 0
      /\ u.data = <<>> /\ u.valid = t.valid /\ u.hidden = FALSE
  BY <1>2 DEF reset, Clear, TermFields
<1>5. /\ v.syncRow = -1 /\ v.scraped = n /\ v.scrolled = 0 /\ v.dirtyTop = -1
      /\ v.counter = s.counter /\ v.ptySize = s.ptySize
  BY <1>3 DEF Tracking, ScrFields, NoMarker
<1> HIDE DEF u, v, r
<1>6. Pictured(u)
  <2>1. /\ t.height \in Int /\ t.shown \in BOOLEAN /\ t.valid \in BOOLEAN
    BY <1>2 DEF Pictured
  <2>2. Len(u.data) = u.column
    BY <1>4
  <2>3. u.hidden \in BOOLEAN /\ u.shown \in BOOLEAN /\ u.stopped \in BOOLEAN
        /\ u.valid \in BOOLEAN /\ ~u.hidden
    BY <1>4, <2>1, Zenon
  <2>4. QED BY <1>4, <2>1, <2>2, <2>3 DEF Pictured
<1>7. Seen(r)
  <2>1. /\ rd.blind \in BOOLEAN /\ t.shown \in BOOLEAN /\ t.height = s.ptySize[2]
        /\ s.counter \in Nat /\ Rows(rd.con, s.counter)
    BY DEF Seen, Pictured
  <2>2. r.missed \in BOOLEAN /\ r.blind \in BOOLEAN /\ (r.blind \/ u.shown)
    BY <1>1, <1>4, <2>1, Zenon
  <2>3. r.base \in Int
    BY <1>1
  <2> HIDE DEF t, s
  <2>4. QED BY <1>1, <1>4, <1>5, <1>6, <2>1, <2>2, <2>3 DEF Seen
<1>8. Slid(r) = 0
  <2>1. Slid(r) = gone - 0 - ((n + gone) + 1 - 1 - n)
    BY <1>1, <1>4, <1>5 DEF Slid
  <2>2. QED BY <2>1
<1>9. ~Lost(r)
  BY <1>1, <1>4 DEF Lost
<1>10. Tracks(r) /\ Still(r)
  BY <1>1, <1>5, <1>8 DEF Tracks, Still, Counts
<1>11. ASSUME NEW top \in Int, n <= top PROVE OnTop(r, top)
  BY <1>1, <1>4, <1>5, <1>11 DEF OnTop, RowOf
<1>12. QED BY <1>1, <1>4, <1>5, <1>7, <1>9, <1>10, <1>11 DEF r

(* The marker is found where it has gone to, if it is found.                *)
LEMMA MarkerFound ==
  ASSUME MarkersDiffer, NEW c, Console(c), NEW s, s.syncRow \in Int, s.counter \in Nat,
         Rows(c, s.counter), NEW slid \in Int, MarkedAt(c, s, slid)
  PROVE  findSyncMarker(c, s) = -1 \/ findSyncMarker(c, s) = s.syncRow - slid
<1> DEFINE S == {i \in 0..s.syncRow :
                   \A j \in 0..(SYNC_MARKER_LEN - 1) : ReadRow(c, i + j)[1] = Marker(s)}
           U == {NoMarker} \cup S
           b == IF s.syncRow >= 0 THEN s.syncRow ELSE 0
           row == findSyncMarker(c, s)
<1>1. row = Max(U)
  BY DEF findSyncMarker
<1>2. S \subseteq 0..s.syncRow
  OBVIOUS
<1> SUFFICES ASSUME row # -1 PROVE row = s.syncRow - slid
  OBVIOUS
<1>3. row \in S
  <2> HIDE DEF S
  <2>1. U \subseteq Int /\ U # {} /\ b \in Int /\ \A x \in U : x <= b
    BY <1>2 DEF NoMarker
  <2>2. Max(U) \in U
    BY ONLY <2>1, MaxExists
  <2>3. QED BY <1>1, <2>2 DEF NoMarker
<1> HIDE DEF row
<1>4. /\ row \in Int
      /\ \A j \in 0..(SYNC_MARKER_LEN - 1) : ReadRow(c, row + j)[1] = Marker(s)
  BY <1>3
<1>5. SYNC_MARKER_LEN \in Nat /\ 1 <= SYNC_MARKER_LEN
  BY ScraperAssumption
<1>6. ASSUME NEW q \in Int, ReadRow(c, q)[1] = Marker(s)
      PROVE  q \in 0..(c.h - 1) /\ c.rows[q][1] = Marker(s)
  <2>1. c.w \in Int /\ 1 <= c.w
    BY DEF Console, Window
  <2>2. Blanks(c.w)[1] = Blank
    BY <2>1 DEF Blanks
  <2>3. Marker(s) # Blank
    BY DEF MarkersDiffer, Marker
  <2>4. DOMAIN c.rows = 0..(c.h - 1)
    BY DEF Rows
  <2>5. q \in DOMAIN c.rows
    BY <1>6, <2>2, <2>3 DEF ReadRow
  <2>6. QED BY <1>6, <2>4, <2>5 DEF ReadRow
<1>7. s.syncRow <= row + slid
  <2>1. 0 \in 0..(SYNC_MARKER_LEN - 1) /\ row + 0 = row
    BY <1>4, <1>5
  <2>2. ReadRow(c, row)[1] = Marker(s)
    BY <1>4, <2>1
  <2>3. QED BY <1>4, <1>6, <2>2 DEF MarkedAt
<1>8. row + slid <= s.syncRow
  <2> DEFINE q == row + (SYNC_MARKER_LEN - 1)
  <2>1. SYNC_MARKER_LEN - 1 \in 0..(SYNC_MARKER_LEN - 1) /\ q \in Int
    BY <1>4, <1>5
  <2>2. ReadRow(c, q)[1] = Marker(s)
    BY <1>4, <2>1
  <2>3. q = row + SYNC_MARKER_LEN - 1
    BY <1>4, <1>5
  <2> HIDE DEF q
  <2>4. q + slid <= s.syncRow + SYNC_MARKER_LEN - 1
    BY <1>6, <2>1, <2>2 DEF MarkedAt
  <2>5. QED BY <1>4, <1>5, <2>3, <2>4
<1>9. QED BY <1>4, <1>7, <1>8 DEF row

LEMMA DirtKeeps ==
  ASSUME NEW s, DOMAIN s = ScrFields, NEW n
  PROVE  LET u == WithDirty(s, n)
         IN DOMAIN u = ScrFields /\ SameTracking(s, u) /\ u.scraped = s.scraped
BY DEF WithDirty, SameTracking, ScrFields

(* Other members, the same terminal.                                        *)
LEMMA SameIsSeen ==
  ASSUME gone \in Nat, NEW rd, Well(rd), Seen(rd), NEW r, Well(r), SameTerminal(rd, r),
         r.con = rd.con, r.misled = rd.misled,
         r.scr.counter = rd.scr.counter, r.scr.ptySize = rd.scr.ptySize
  PROVE  /\ Seen(r) /\ (Lost(r) <=> Lost(rd))
         /\ Slid(r) = Slid(rd) + rd.scr.scrolled - r.scr.scrolled
<1>1. /\ r.term = rd.term /\ r.base = rd.base /\ r.missed = rd.missed
      /\ r.blind = rd.blind
  BY DEF SameTerminal, SameHistory
<1>2. Seen(r)
  BY <1>1 DEF Seen
<1>3. Lost(r) <=> Lost(rd)
  BY <1>1 DEF Lost
<1>4. /\ rd.scr.scrolled \in Int /\ r.scr.scrolled \in Int /\ rd.base \in Int
      /\ rd.term.y \in Int /\ rd.term.line \in Int
  BY DEF Well, Members, Seen, Pictured
<1>5. Slid(r) = gone - r.scr.scrolled - (rd.base + rd.term.y - 1 - rd.term.line)
  BY <1>1 DEF Slid
<1>6. Slid(rd) = gone - rd.scr.scrolled - (rd.base + rd.term.y - 1 - rd.term.line)
  BY DEF Slid
<1>7. gone \in Int
  OBVIOUS
<1>8. Slid(r) = Slid(rd) + rd.scr.scrolled - r.scr.scrolled
  BY ONLY <1>4, <1>5, <1>6, <1>7
<1>9. QED BY <1>2, <1>3, <1>8

LEMMA FollowingTracks ==
  ASSUME MarkersDiffer, gone \in Nat, NEW rd, Well(rd), Seen(rd), ~rd.scr.directMode,
         NEW i, Window(i), i.h = BUFFER_LINE_COUNT, NEW tentative \in BOOLEAN,
         FollowMarker(rd, i, tentative).ok
  PROVE  LET r == FollowMarker(rd, i, tentative).rd
         IN /\ Seen(r) /\ r.scr.counter = rd.scr.counter
            /\ Tracks(rd) => Tracks(r) /\ Still(r)
            /\ OnTop(rd, i.top) => OnTop(r, i.top)
            /\ tentative => SameTerminal(rd, r)
<1> DEFINE f == FollowMarker(rd, i, tentative)
           s == rd.scr
           row == findSyncMarker(rd.con, s)
           t == [s EXCEPT !.scrolled = @ + s.syncRow - row, !.syncRow = row]
           u == markEntireWindowDirty(t, i)
           slid == Slid(rd)
<1>1. /\ DOMAIN s = ScrFields /\ s.syncRow \in Int /\ s.scrolled \in Int
      /\ s.scraped \in Int /\ s.dirtyTop \in Int /\ Console(rd.con)
      /\ s.counter \in Nat /\ Rows(rd.con, s.counter)
  BY DEF Well, Members, Seen
<1>2. row \in Int /\ (row = -1 \/ (0 <= row /\ row <= s.syncRow))
  BY <1>1, MarkerPlace
<1>3. slid \in Int
  BY SlidIs
<1>4. ASSUME ~Lost(rd), Tracks(rd)
      PROVE  /\ slid >= 0
             /\ s.syncRow = -1 => slid = 0
             /\ s.syncRow # -1 => MarkedAt(rd.con, s, slid) /\ (row = -1 \/ row = s.syncRow - slid)
  <2>1. /\ slid >= 0 /\ (s.syncRow = -1 => slid = 0)
        /\ s.syncRow # -1 => MarkedAt(rd.con, s, slid)
    BY <1>4 DEF Tracks, Counts
  <2>2. QED BY <1>1, <1>3, <2>1, MarkerFound
<1>5. i.top \in Int /\ 0 <= i.top
  BY DEF Window
<1>6. CASE s.syncRow = NoMarker \/ row = s.syncRow
  <2>1. f = Ok(rd)
    BY <1>6 DEF FollowMarker
  <2>2. f.rd = rd
    BY <2>1 DEF Ok
  <2> HIDE DEF slid, row, f
  <2>3. ASSUME ~Lost(rd), Tracks(rd) PROVE slid = 0
    BY <1>1, <1>2, <1>3, <1>4, <1>6, <2>3 DEF NoMarker
  <2>4. Tracks(rd) => Still(rd)
    BY <2>3 DEF Still, slid
  <2>5. QED BY <2>2, <2>4 DEF SameTerminal, SameHistory, f
<1>7. CASE ~(s.syncRow = NoMarker \/ row = s.syncRow) /\ row = NoMarker
  <2>1. ~tentative
    <3> SUFFICES ASSUME tentative PROVE FALSE
      OBVIOUS
    <3>1. f = Fail
      BY <1>7 DEF FollowMarker
    <3>2. f.ok
      OBVIOUS
    <3> HIDE DEF f
    <3>3. QED BY <3>1, <3>2 DEF Fail
  <2>2. f = Ok(resetConsoleTracking(rd, i.top))
    BY <1>7, <2>1 DEF FollowMarker
  <2>3. f.rd = resetConsoleTracking(rd, i.top)
    BY <2>2 DEF Ok
  <2>4. /\ Seen(f.rd) /\ Tracks(f.rd) /\ Still(f.rd) /\ f.rd.scr.counter = s.counter
        /\ \A top \in Int : i.top <= top => OnTop(f.rd, top)
    BY <1>5, <2>3, ResetStarts
  <2> HIDE DEF f
  <2>5. OnTop(f.rd, i.top)
    BY <1>5, <2>4
  <2>6. QED BY <2>1, <2>4, <2>5 DEF f
<1>8. CASE ~(s.syncRow = NoMarker \/ row = s.syncRow) /\ row # NoMarker
  <2>1. f = Ok([rd EXCEPT !.scr = u])
    BY <1>8 DEF FollowMarker
  <2>2. f.rd = [rd EXCEPT !.scr = u]
    BY <2>1 DEF Ok
  <2>3. Well(f.rd)
    BY FollowingIsWell
  <2> DEFINE r == f.rd
  <2>4. Well(r)
    BY <2>3
  <2> HIDE DEF f
  <2>5. /\ r.con = rd.con /\ r.scr = u /\ SameTerminal(rd, r) /\ r.misled = rd.misled
    BY <2>2 DEF Well, RoundFields, SameTerminal, SameHistory
  <2> HIDE DEF r
  <2>6. 0 <= row /\ row < s.syncRow /\ row # -1 /\ s.syncRow # -1
    BY <1>1, <1>2, <1>8 DEF NoMarker
  <2> HIDE DEF row
  <2>7. /\ DOMAIN t = ScrFields /\ t.syncRow = row
        /\ t.scrolled = s.scrolled + s.syncRow - row
        /\ t.scraped = s.scraped /\ t.dirtyTop = s.dirtyTop /\ t.counter = s.counter
        /\ t.ptySize = s.ptySize
    BY <1>1 DEF ScrFields
  <2> HIDE DEF t
  <2>8. SameTracking(t, u) /\ u.scraped = t.scraped
    BY <2>7, DirtKeeps DEF markEntireWindowDirty
  <2> HIDE DEF u
  <2>9. /\ u.syncRow = row /\ u.scrolled = s.scrolled + s.syncRow - row
        /\ u.scraped = s.scraped /\ u.dirtyTop = s.dirtyTop /\ u.counter = s.counter
        /\ u.ptySize = s.ptySize
    BY <2>7, <2>8 DEF SameTracking
  <2>10. /\ Seen(r) /\ (Lost(r) <=> Lost(rd))
         /\ Slid(r) = slid + s.scrolled - u.scrolled
    BY <2>4, <2>5, <2>9, SameIsSeen
  <2> HIDE DEF slid, s
  <2>11. Slid(r) = slid - (s.syncRow - row)
    BY <1>1, <1>2, <1>3, <2>9, <2>10
  <2>12. ASSUME Tracks(rd), ~Lost(r) PROVE Slid(r) = 0 /\ Counts(r.con, r.scr, Slid(r))
    <3>1. MarkedAt(rd.con, s, slid) /\ row = s.syncRow - slid
      BY <1>4, <2>6, <2>10, <2>12
    <3>2. Slid(r) = 0
      BY <1>1, <1>2, <1>3, <2>11, <3>1
    <3>3. MarkedAt(r.con, u, 0)
      <4> SUFFICES ASSUME NEW q \in 0..(rd.con.h - 1), rd.con.rows[q][1] = Marker(u)
                   PROVE  row <= q + 0 /\ q + 0 <= row + SYNC_MARKER_LEN - 1
        BY <2>5, <2>9 DEF MarkedAt
      <4>1. Marker(u) = Marker(s)
        BY <2>9 DEF Marker
      <4>2. s.syncRow <= q + slid /\ q + slid <= s.syncRow + SYNC_MARKER_LEN - 1
        BY <3>1, <4>1 DEF MarkedAt
      <4>3. SYNC_MARKER_LEN \in Int
        BY ScraperAssumption
      <4>4. QED BY <1>1, <1>2, <1>3, <3>1, <4>2, <4>3
    <3>4. QED BY <2>5, <3>2, <3>3 DEF Counts
  <2>13. Tracks(rd) => Tracks(r) /\ Still(r)
    BY <2>12 DEF Tracks, Still
  <2>14. ASSUME OnTop(rd, i.top) PROVE OnTop(r, i.top)
    <3>1. /\ r.term = rd.term /\ r.missed = rd.missed
      BY <2>5 DEF SameTerminal, SameHistory
    <3> DEFINE limit == IF s.dirtyTop = -1 THEN i.top ELSE s.dirtyTop
    <3>2. limit \in Int
      BY <1>1, <1>5
    <3>3. u.scraped - u.scrolled <= s.scraped - s.scrolled
      BY <1>1, <1>2, <2>6, <2>9
    <3>4. u.scraped - u.scrolled \in Int
      BY <1>1, <1>2, <2>9
    <3>5. s.scraped - s.scrolled <= limit => u.scraped - u.scrolled <= limit
      <4> HIDE DEF limit
      <4>1. s.scraped - s.scrolled \in Int
        BY <1>1
      <4>2. QED BY <3>2, <3>3, <3>4, <4>1
    <3>6. QED BY <2>5, <2>9, <2>14, <3>1, <3>5 DEF OnTop, s
  <2>15. QED BY <2>5, <2>9, <2>10, <2>13, <2>14 DEF f, r, s
<1>9. QED BY <1>6, <1>7, <1>8

(* The members by which lines are counted.                                  *)
SameCount(s, u) ==
  /\ u.syncRow = s.syncRow /\ u.counter = s.counter /\ u.scrolled = s.scrolled
  /\ u.ptySize = s.ptySize

LEMMA SameCountTracks ==
  ASSUME gone \in Nat, NEW rd, Well(rd), Seen(rd), NEW r, Well(r), SameTerminal(rd, r),
         r.con = rd.con, r.misled = rd.misled, SameCount(rd.scr, r.scr)
  PROVE  Seen(r) /\ (Tracks(rd) => Tracks(r)) /\ (Still(rd) => Still(r))
<1>1. /\ Seen(r) /\ (Lost(r) <=> Lost(rd))
      /\ Slid(r) = Slid(rd) + rd.scr.scrolled - r.scr.scrolled
  BY SameIsSeen DEF SameCount
<1>2. Slid(rd) \in Int /\ rd.scr.scrolled \in Int /\ r.scr.scrolled = rd.scr.scrolled
  BY SlidIs DEF Well, Members, SameCount
<1>3. Slid(r) = Slid(rd)
  BY <1>1, <1>2
<1>4. ASSUME Counts(rd.con, rd.scr, Slid(rd)) PROVE Counts(r.con, r.scr, Slid(r))
  BY <1>3, <1>4 DEF Counts, MarkedAt, Marker, SameCount
<1>5. QED BY <1>1, <1>3, <1>4 DEF Tracks, Still

LEMMA DirtyingTracks ==
  ASSUME gone \in Nat, NEW rd, Well(rd), Seen(rd), NEW i, Window(i), i.h = BUFFER_LINE_COUNT
  PROVE  LET r == Dirtied(rd, i)
         IN /\ Seen(r) /\ r.scr.counter = rd.scr.counter
            /\ Tracks(rd) => Tracks(r)
            /\ Still(rd) => Still(r)
            /\ OnTop(rd, i.top) => OnTop(r, i.top)
            /\ rd.scr.dirtyTop = -1 \/ ~(i.top < rd.scr.dirtyTop) => SameTerminal(rd, r)
<1> DEFINE m == MoveDirt(rd, i)
           s == m.scr
           t == [s EXCEPT !.dirtyTop = i.top]
           n == Max({i.y + 1, i.top})
           u == WithDirty(t, n)
           r == Dirtied(rd, i)
           d == rd.scr.dirtyTop
           again == d # -1 /\ i.top < d
<1>1. /\ i.top \in Int /\ 0 <= i.top /\ d \in Int /\ rd.scr.scraped \in Int
      /\ rd.scr.scrolled \in Int /\ DOMAIN rd.scr = ScrFields
  BY DEF Window, Well, Members
<1>2. CASE ~again
  <2>1. /\ DOMAIN m = RoundFields /\ m.con = rd.con /\ m.misled = rd.misled
        /\ SameTerminal(rd, m)
        /\ s = rd.scr \/ s = markEntireWindowDirty(rd.scr, i)
    <3>1. CASE d # -1 /\ i.top > d
      <4>1. m = [rd EXCEPT !.scr = markEntireWindowDirty(@, i)]
        BY <3>1 DEF MoveDirt
      <4> HIDE DEF m
      <4>2. QED BY <4>1 DEF Well, RoundFields, SameTerminal, SameHistory
    <3>2. CASE ~(d # -1 /\ i.top > d)
      <4>1. m = rd
        BY <1>1, <1>2, <3>2 DEF MoveDirt
      <4> HIDE DEF m
      <4>2. QED BY <4>1 DEF Well, SameTerminal, SameHistory
    <3>3. QED BY <3>1, <3>2
  <2>2. DOMAIN s = ScrFields /\ SameTracking(rd.scr, s) /\ s.scraped = rd.scr.scraped
    BY <1>1, <2>1, DirtKeeps DEF markEntireWindowDirty, SameTracking
  <2>4. r = [m EXCEPT !.scr = u]
    BY DEF Dirtied
  <2>5. Well(r)
    BY DirtyingIsWell
  <2> HIDE DEF m, s
  <2>6. /\ DOMAIN t = ScrFields /\ t.dirtyTop = i.top /\ t.syncRow = s.syncRow
        /\ t.counter = s.counter /\ t.scrolled = s.scrolled /\ t.ptySize = s.ptySize
        /\ t.scraped = s.scraped
    BY <2>2 DEF ScrFields
  <2> HIDE DEF t, n
  <2>7. SameTracking(t, u) /\ u.scraped = t.scraped
    BY <2>6, DirtKeeps
  <2> HIDE DEF u, r
  <2>8. /\ r.con = rd.con /\ r.misled = rd.misled /\ r.scr = u /\ SameTerminal(rd, r)
    BY <2>1, <2>4 DEF RoundFields, SameTerminal, SameHistory
  <2>9. /\ SameCount(rd.scr, u) /\ u.scraped = rd.scr.scraped /\ u.dirtyTop = i.top
        /\ u.counter = rd.scr.counter /\ u.scrolled = rd.scr.scrolled
    BY <2>2, <2>6, <2>7 DEF SameTracking, SameCount
  <2>10. Seen(r) /\ (Tracks(rd) => Tracks(r)) /\ (Still(rd) => Still(r))
    BY <2>5, <2>8, <2>9, SameCountTracks
  <2>11. ASSUME OnTop(rd, i.top) PROVE OnTop(r, i.top)
    <3>1. r.term = rd.term /\ r.missed = rd.missed
      BY <2>8 DEF SameTerminal, SameHistory
    <3> DEFINE back == rd.scr.scraped - rd.scr.scrolled
    <3>2. back <= (IF d = -1 THEN i.top ELSE d) => back <= i.top
      <4>1. back \in Int
        BY <1>1
      <4> HIDE DEF back
      <4>2. QED BY <1>1, <1>2, <4>1
    <3>3. i.top # -1
      BY <1>1
    <3>4. CASE rd.missed \/ rd.misled
      BY <2>8, <3>1, <3>4 DEF OnTop
    <3>5. CASE ~(rd.missed \/ rd.misled)
      <4>1. ~rd.term.stopped /\ rd.term.top <= RowOf(rd.term, rd.scr.scraped) /\ back <= i.top
        BY <2>11, <3>2, <3>5 DEF OnTop
      <4>2. QED BY <2>8, <2>9, <3>1, <3>3, <4>1 DEF OnTop
    <3>6. QED BY <3>4, <3>5
  <2>12. QED BY <2>8, <2>9, <2>10, <2>11 DEF r
<1>3. CASE again
  <2>1. m = resetConsoleTracking(rd, i.top)
    BY <1>1, <1>3 DEF MoveDirt
  <2>2. /\ Seen(m) /\ Tracks(m) /\ Still(m) /\ m.scr.counter = rd.scr.counter
        /\ \A top \in Int : i.top <= top => OnTop(m, top)
    BY <1>1, <2>1, ResetStarts
  <2>3. Well(m) /\ m.con = rd.con /\ s.dirtyTop = -1
    BY <1>1, <2>1, ResetIsWell
  <2>4. r = [m EXCEPT !.scr = u]
    BY DEF Dirtied
  <2>5. Well(r)
    BY DirtyingIsWell
  <2> HIDE DEF m
  <2>6. /\ DOMAIN s = ScrFields /\ s.scraped \in Int /\ s.scrolled \in Int
    BY <2>3 DEF Well, Members
  <2>7. /\ DOMAIN t = ScrFields /\ t.dirtyTop = i.top /\ t.syncRow = s.syncRow
        /\ t.counter = s.counter /\ t.scrolled = s.scrolled /\ t.ptySize = s.ptySize
        /\ t.scraped = s.scraped
    BY <2>6 DEF ScrFields
  <2> HIDE DEF t, n
  <2>8. SameTracking(t, u) /\ u.scraped = t.scraped
    BY <2>7, DirtKeeps
  <2> HIDE DEF u, r
  <2>9. /\ r.con = m.con /\ r.misled = m.misled /\ r.scr = u /\ SameTerminal(m, r)
    BY <2>3, <2>4 DEF Well, RoundFields, SameTerminal, SameHistory
  <2>10. /\ SameCount(s, u) /\ u.scraped = s.scraped /\ u.dirtyTop = i.top
         /\ u.counter = s.counter /\ u.scrolled = s.scrolled
    BY <2>7, <2>8 DEF SameTracking, SameCount
  <2>11. Seen(r) /\ Tracks(r) /\ Still(r)
    BY <2>2, <2>3, <2>5, <2>9, <2>10, SameCountTracks
  <2>12. OnTop(r, i.top)
    <3>1. r.term = m.term /\ r.missed = m.missed
      BY <2>9 DEF SameTerminal, SameHistory
    <3>2. OnTop(m, i.top)
      BY <1>1, <2>2
    <3>3. QED BY <1>1, <2>3, <2>9, <2>10, <3>1, <3>2 DEF OnTop
  <2>13. QED BY <1>3, <2>2, <2>9, <2>10, <2>11, <2>12 DEF r
<1>4. QED BY <1>2, <1>3

LEMMA PreparingTracks ==
  ASSUME MarkersDiffer, gone \in Nat, NEW rd, Well(rd), Seen(rd), ~rd.scr.directMode,
         NEW i, Window(i), i.h = BUFFER_LINE_COUNT, NEW tentative \in BOOLEAN,
         Prepare(rd, i, tentative).ok
  PROVE  LET r == Prepare(rd, i, tentative).rd
         IN /\ Seen(r) /\ r.scr.counter = rd.scr.counter
            /\ Tracks(rd) => Tracks(r) /\ Still(r)
            /\ OnTop(rd, i.top) => OnTop(r, i.top)
            /\ tentative => SameTerminal(rd, r)
<1> DEFINE f == FollowMarker(rd, i, tentative)
           p == Prepare(rd, i, tentative)
<1>1. p.ok
  OBVIOUS
<1>2. /\ f.ok /\ p = Ok(Dirtied(f.rd, i))
      /\ tentative => f.rd.scr.dirtyTop = -1 \/ ~(i.top < f.rd.scr.dirtyTop)
  <2>1. \/ p = Fail
        \/ /\ f.ok /\ p = Ok(Dirtied(f.rd, i))
           /\ tentative => f.rd.scr.dirtyTop = -1 \/ ~(i.top < f.rd.scr.dirtyTop)
    BY DEF Prepare
  <2> HIDE DEF p
  <2>2. Fail.ok = FALSE
    BY DEF Fail
  <2>3. QED BY <1>1, <2>1, <2>2
<1>3. p.rd = Dirtied(f.rd, i)
  BY <1>2 DEF Ok
<1>4. /\ Well(f.rd) /\ Seen(f.rd) /\ f.rd.scr.counter = rd.scr.counter
      /\ Tracks(rd) => Tracks(f.rd) /\ Still(f.rd)
      /\ OnTop(rd, i.top) => OnTop(f.rd, i.top)
      /\ tentative => SameTerminal(rd, f.rd)
  BY <1>2, FollowingIsWell, FollowingTracks
<1> HIDE DEF p, f
<1> DEFINE g == f.rd
           r == Dirtied(g, i)
<1>5. /\ Seen(r) /\ r.scr.counter = g.scr.counter
      /\ Tracks(g) => Tracks(r)
      /\ Still(g) => Still(r)
      /\ OnTop(g, i.top) => OnTop(r, i.top)
      /\ g.scr.dirtyTop = -1 \/ ~(i.top < g.scr.dirtyTop) => SameTerminal(g, r)
  BY <1>4, DirtyingTracks
<1> HIDE DEF r
<1>6. tentative => SameTerminal(rd, r)
  BY <1>2, <1>4, <1>5 DEF SameTerminal, SameHistory
<1>7. QED BY <1>3, <1>4, <1>5, <1>6 DEF r, p

(* The same buffer with other cells, in which the cursor stays.             *)
SameCursor(c, d) == d.x = c.x /\ d.visible = c.visible

LEMMA ClearingRows ==
  ASSUME MarkersDiffer, NEW c, Console(c), NEW n \in Nat, Rows(c, n), NEW first, NEW count
  PROVE  LET d == clearLines(c, first, count)
         IN /\ Rows(d, n) /\ SameCursor(c, d) /\ d.h = c.h
            /\ \A r \in 0..(c.h - 1) :
                 d.rows[r] = IF r >= first /\ r < first + count THEN Blanks(c.w) ELSE c.rows[r]
            /\ \A r \in 0..(c.h - 1) : d.rows[r][1] = Blank \/ d.rows[r] = c.rows[r]
<1> DEFINE d == clearLines(c, first, count)
           rows == [r \in DOMAIN c.rows |-> IF r >= first /\ r < first + count
                                              THEN Blanks(c.w) ELSE c.rows[r]]
<1>1. d = [c EXCEPT !.rows = rows]
  BY DEF clearLines
<1> HIDE DEF rows, d
<1>2. d.rows = rows /\ d.h = c.h /\ SameCursor(c, d)
  BY <1>1 DEF Console, ConFields, SameCursor
<1>3. DOMAIN c.rows = 0..(c.h - 1)
  BY DEF Rows
<1>4. 1 \in DOMAIN Blanks(c.w) /\ Blanks(c.w)[1] = Blank
  <2>1. c.w \in Int /\ 1 <= c.w
    BY DEF Console, Window
  <2>2. QED BY <2>1 DEF Blanks
<1>5. ASSUME NEW r \in 0..(c.h - 1)
      PROVE  /\ rows[r] = IF r >= first /\ r < first + count THEN Blanks(c.w) ELSE c.rows[r]
             /\ rows[r] = Blanks(c.w) \/ rows[r] = c.rows[r]
  BY <1>3 DEF rows
<1>6. DOMAIN rows = 0..(c.h - 1)
  BY <1>3 DEF rows
<1>7. ASSUME NEW r \in 0..(c.h - 1)
      PROVE  1 \in DOMAIN rows[r] /\ \A m \in Nat : m > n => rows[r][1] # MarkerText(m)
  <2>1. CASE rows[r] = Blanks(c.w)
    BY <1>4, <2>1 DEF MarkersDiffer
  <2>2. CASE rows[r] = c.rows[r]
    BY <2>2 DEF Rows
  <2>3. QED BY <1>5, <2>1, <2>2
<1>8. Rows(d, n)
  BY <1>2, <1>6, <1>7 DEF Rows
<1>9. \A r \in 0..(c.h - 1) : d.rows[r][1] = Blank \/ d.rows[r] = c.rows[r]
  BY <1>2, <1>4, <1>5
<1>10. \A r \in 0..(c.h - 1) :
         d.rows[r] = IF r >= first /\ r < first + count THEN Blanks(c.w) ELSE c.rows[r]
  BY <1>2, <1>5
<1>11. QED BY <1>2, <1>8, <1>9, <1>10 DEF d

LEMMA MarkingTracks ==
  ASSUME MarkersDiffer, gone \in Nat, NEW rd, Well(rd), Seen(rd), ~rd.scr.directMode,
         NEW row \in Int, 0 <= row
  PROVE  LET r == createSyncMarker(rd, row)
         IN /\ Seen(r) /\ SameTerminal(rd, r) /\ SameCursor(rd.con, r.con)
            /\ Still(rd) => Tracks(r) /\ Still(r)
            /\ \A top : OnTop(rd, top) => OnTop(r, top)
<1> DEFINE r == createSyncMarker(rd, row)
           c == clearLines(rd.con, row - 1, SYNC_MARKER_LEN + 1)
           s == [rd.scr EXCEPT !.counter = @ + 1, !.syncRow = row]
           lines == [q \in DOMAIN c.rows |->
                       IF q \in row..(row + SYNC_MARKER_LEN - 1)
                         THEN [c.rows[q] EXCEPT ![1] = Marker(s)] ELSE c.rows[q]]
           d == [c EXCEPT !.rows = lines]
           n == rd.scr.counter
           h == rd.con.h
<1>1. Console(rd.con) /\ DOMAIN rd.con = ConFields /\ DOMAIN rd.scr = ScrFields
  BY DEF Well, Console, Members
<1>2. r = [rd EXCEPT !.scr = s, !.con = d,
                     !.erased = @ \cup {gone + q : q \in (row - 1)..(row + SYNC_MARKER_LEN - 1)}]
  BY DEF createSyncMarker
<1>3. n \in Nat /\ Rows(rd.con, n) /\ rd.missed \in BOOLEAN
  BY DEF Seen
<1>4. Rows(c, n) /\ SameCursor(rd.con, c) /\ c.h = h /\ DOMAIN c = ConFields
  <2>1. DOMAIN c = ConFields
    BY <1>1, ClearingKeepsShape DEF SameShape
  <2> DEFINE first == row - 1
             count == SYNC_MARKER_LEN + 1
  <2> HIDE DEF first, count
  <2>2. LET e == clearLines(rd.con, first, count)
        IN Rows(e, n) /\ SameCursor(rd.con, e) /\ e.h = h
    BY ONLY MarkersDiffer, <1>1, <1>3, ClearingRows
  <2>3. QED BY <2>1, <2>2 DEF first, count
<1> HIDE DEF c, lines
<1>5. /\ DOMAIN d = ConFields /\ d.rows = lines /\ d.h = h /\ SameCursor(rd.con, d)
  BY <1>4 DEF ConFields, SameCursor
<1>6. /\ s.counter = n + 1 /\ s.syncRow = row /\ s.scraped = rd.scr.scraped
      /\ s.scrolled = rd.scr.scrolled /\ s.dirtyTop = rd.scr.dirtyTop
      /\ s.ptySize = rd.scr.ptySize
  BY <1>1 DEF ScrFields
<1> HIDE DEF d
<1>7. /\ r.con = d /\ r.scr = s /\ r.misled = rd.misled
      /\ r.term = rd.term /\ SameHistory(rd, r)
  BY <1>2 DEF Well, RoundFields, SameHistory
<1>8. Marker(s) = MarkerText(n + 1)
  BY <1>6 DEF Marker
<1> HIDE DEF s, r
<1>9. DOMAIN c.rows = 0..(h - 1)
  BY <1>4 DEF Rows
<1>10. ASSUME NEW q \in 0..(h - 1)
       PROVE  /\ 1 \in DOMAIN lines[q]
              /\ \A m \in Nat : m > n + 1 => lines[q][1] # MarkerText(m)
              /\ lines[q][1] = Marker(s) => q \in row..(row + SYNC_MARKER_LEN - 1)
  <2>1. 1 \in DOMAIN c.rows[q] /\ \A m \in Nat : m > n => c.rows[q][1] # MarkerText(m)
    BY <1>4 DEF Rows
  <2>2. lines[q] = IF q \in row..(row + SYNC_MARKER_LEN - 1)
                     THEN [c.rows[q] EXCEPT ![1] = Marker(s)] ELSE c.rows[q]
    BY <1>9 DEF lines
  <2>3. CASE q \in row..(row + SYNC_MARKER_LEN - 1)
    <3>1. lines[q] = [c.rows[q] EXCEPT ![1] = Marker(s)]
      BY <2>2, <2>3
    <3>2. 1 \in DOMAIN lines[q] /\ lines[q][1] = Marker(s)
      BY <2>1, <3>1
    <3>3. ASSUME NEW m \in Nat, m > n + 1 PROVE MarkerText(n + 1) # MarkerText(m)
      <4>1. n + 1 \in Nat /\ n + 1 # m
        BY <1>3, <3>3
      <4>2. QED BY <4>1 DEF MarkersDiffer
    <3>4. QED BY <1>8, <2>3, <3>2, <3>3
  <2>4. CASE q \notin row..(row + SYNC_MARKER_LEN - 1)
    <3>1. lines[q] = c.rows[q]
      BY <2>2, <2>4
    <3>2. n + 1 \in Nat /\ n + 1 > n /\ \A m \in Nat : m > n + 1 => m > n
      BY <1>3
    <3>3. QED BY <1>8, <2>1, <3>1, <3>2
  <2>5. QED BY <2>3, <2>4
<1>11. Rows(d, n + 1)
  <2>1. DOMAIN lines = 0..(h - 1)
    BY <1>9 DEF lines
  <2>2. QED BY <1>5, <1>10, <2>1 DEF Rows
<1>12. Seen(r)
  <2>1. n + 1 \in Nat
    BY <1>3
  <2>2. /\ r.base = rd.base /\ r.missed = rd.missed /\ r.blind = rd.blind
    BY <1>7 DEF SameHistory
  <2>3. QED BY <1>6, <1>7, <1>11, <2>1, <2>2 DEF Seen
<1>13. Slid(r) = Slid(rd) /\ (Lost(r) <=> Lost(rd))
  BY <1>6, <1>7 DEF Slid, Lost, SameHistory
<1>14. ASSUME Still(rd), ~Lost(r) PROVE Slid(r) = 0 /\ Counts(r.con, r.scr, Slid(r))
  <2>1. Slid(r) = 0
    BY <1>13, <1>14 DEF Still
  <2>2. MarkedAt(d, s, 0)
    <3> SUFFICES ASSUME NEW q \in 0..(h - 1), lines[q][1] = Marker(s)
                 PROVE  row <= q + 0 /\ q + 0 <= row + SYNC_MARKER_LEN - 1
      BY <1>5, <1>6 DEF MarkedAt
    <3>1. q \in row..(row + SYNC_MARKER_LEN - 1)
      BY <1>10
    <3>2. QED BY <3>1
  <2>3. row # -1
    OBVIOUS
  <2>4. QED BY <1>6, <1>7, <2>1, <2>2, <2>3 DEF Counts
<1>15. Still(rd) => Tracks(r) /\ Still(r)
  BY <1>14 DEF Tracks, Still
<1>16. ASSUME NEW top, OnTop(rd, top) PROVE OnTop(r, top)
  <2>1. r.missed = rd.missed
    BY <1>7 DEF SameHistory
  <2>2. QED BY <1>6, <1>7, <1>16, <2>1 DEF OnTop
<1>17. QED BY <1>5, <1>7, <1>12, <1>15, <1>16 DEF r, SameTerminal

(* The cursor is in this place of the terminal, whose first row is the line *)
(* first, or it is hidden.                                                  *)
CursorAt(r, i, shown, first) ==
  IF shown
    THEN /\ r.term.shown \/ r.blind
         /\ r.term.x = i.x /\ r.term.y = i.y - first + 1
    ELSE ~r.term.shown

(* What is drawn where the tracking is right leaves it right.               *)
LEMMA DrawnIsSeen ==
  ASSUME gone \in Nat, NEW rd, Well(rd), Seen(rd), NEW r, Well(r), Draws(rd.term, r.term),
         SameTracking(rd.scr, r.scr), SameHistory(rd, r), r.con = rd.con,
         r.misled = rd.misled
  PROVE  /\ Seen(r)
         /\ ~r.term.stopped => ~rd.term.stopped /\ Slid(r) = Slid(rd)
         /\ Tracks(rd) => Tracks(r)
         /\ Still(rd) => Still(r)
<1>1. /\ r.base = rd.base /\ r.missed = rd.missed /\ r.blind = rd.blind
  BY DEF SameHistory
<1>2. /\ r.scr.counter = rd.scr.counter /\ r.scr.ptySize = rd.scr.ptySize
      /\ r.scr.scrolled = rd.scr.scrolled /\ r.scr.syncRow = rd.scr.syncRow
  BY DEF SameTracking
<1>3. Seen(r)
  BY <1>1, <1>2 DEF Seen, Draws
<1>4. ASSUME ~r.term.stopped PROVE ~rd.term.stopped /\ Slid(r) = Slid(rd)
  <2>1. ~rd.term.stopped /\ r.term.y - r.term.line = rd.term.y - rd.term.line
    BY <1>4 DEF Draws
  <2>2. /\ rd.scr.scrolled \in Int /\ rd.base \in Int /\ rd.term.y \in Int
        /\ rd.term.line \in Int /\ r.term.y \in Int /\ r.term.line \in Int
    BY <1>3 DEF Well, Members, Seen, Pictured
  <2>3. Slid(r) = gone - rd.scr.scrolled - (rd.base + r.term.y - 1 - r.term.line)
    BY <1>1, <1>2 DEF Slid
  <2>4. Slid(rd) = gone - rd.scr.scrolled - (rd.base + rd.term.y - 1 - rd.term.line)
    BY DEF Slid
  <2>5. gone \in Int
    OBVIOUS
  <2>6. Slid(r) = Slid(rd)
    BY ONLY <2>1, <2>2, <2>3, <2>4, <2>5
  <2>7. QED BY <2>1, <2>6
<1>5. ASSUME ~Lost(r) PROVE ~Lost(rd) /\ Slid(r) = Slid(rd)
  BY <1>1, <1>4, <1>5 DEF Lost
<1>6. ASSUME Counts(rd.con, rd.scr, Slid(rd)), ~Lost(r) PROVE Counts(r.con, r.scr, Slid(r))
  BY <1>2, <1>5, <1>6 DEF Counts, MarkedAt, Marker
<1>7. QED BY <1>3, <1>4, <1>5, <1>6 DEF Tracks, Still

LEMMA SendingTracks ==
  ASSUME gone \in Nat, NEW rd, Well(rd), Seen(rd), NEW i, Window(i), i.h = BUFFER_LINE_COUNT,
         i.x \in Nat, NEW buf,
         Lines(buf, FirstVirtLine(rd.scr, i) - rd.scr.scrolled, i.top + i.winH, i.w)
  PROVE  LET r == Send(rd, i, buf)
         IN /\ Seen(r) /\ (Tracks(rd) => Tracks(r)) /\ (Still(rd) => Still(r))
            /\ OnTop(rd, i.top) /\ rd.scr.dirtyTop = i.top /\ i.winH <= rd.term.height =>
                 OnTop(r, i.top)
            /\ Still(rd) /\ ~Lost(r) =>
                 CursorAt(r, i, i.visible /\ cursorInside(i), r.base - gone)
<1> DEFINE r   == Send(rd, i, buf)
           s   == rd.scr
           top == i.top + s.scrolled
           shown == i.visible /\ cursorInside(i)
           line == i.y + s.scrolled
           first == FirstVirtLine(s, i)
<1>1. /\ Draws(rd.term, r.term)
      /\ CursorDrawn(rd.term, r.term, i, shown, line)
      /\ OnScreen(rd.term, first, top, i.winH) =>
           ~r.term.stopped /\ r.term.top <= RowOf(rd.term, top)
      /\ SameTracking(s, r.scr) /\ r.scr.scraped = top
      /\ SameHistory(rd, r) /\ r.con = rd.con
  BY SendingDraws DEF Seen
<1>2. Well(r) /\ r.misled = rd.misled
  BY SendingIsWell
<1> HIDE DEF r
<1>3. /\ Seen(r) /\ (Tracks(rd) => Tracks(r)) /\ (Still(rd) => Still(r))
      /\ ~r.term.stopped => ~rd.term.stopped /\ Slid(r) = Slid(rd)
  BY <1>1, <1>2, DrawnIsSeen
<1>4. /\ i.top \in Int /\ 0 <= i.top /\ i.y \in Int /\ s.scrolled \in Int
      /\ s.scraped \in Int /\ s.dirtyTop \in Int
  BY DEF Window, Well, Members
<1>5. top \in Int /\ line \in Int
  BY <1>4
<1>6. /\ r.scr.scrolled = s.scrolled /\ r.scr.dirtyTop = s.dirtyTop
      /\ r.base = rd.base /\ r.missed = rd.missed /\ r.blind = rd.blind
  BY <1>1 DEF SameTracking, SameHistory
<1>7. ASSUME OnTop(rd, i.top), s.dirtyTop = i.top, i.winH <= rd.term.height PROVE OnTop(r, i.top)
  <2>1. CASE rd.missed \/ rd.misled
    BY <1>2, <1>6, <2>1 DEF OnTop
  <2>2. CASE ~(rd.missed \/ rd.misled)
    <3>1. i.top # -1
      BY <1>4
    <3>2. /\ ~rd.term.stopped /\ rd.term.top <= RowOf(rd.term, s.scraped)
          /\ s.scraped - s.scrolled <= i.top
      BY <1>7, <2>2, <3>1 DEF OnTop
    <3>3. first = s.scraped /\ first <= top
      <4>1. first = Min({s.scraped, top})
        BY DEF FirstVirtLine
      <4>2. Min({s.scraped, top}) = IF s.scraped <= top THEN s.scraped ELSE top
        BY ONLY <1>4, <1>5, MaxOf
      <4> HIDE DEF first
      <4>3. s.scraped <= top
        BY <1>4, <3>2
      <4>4. QED BY <1>4, <1>5, <4>1, <4>2, <4>3
    <3> HIDE DEF first
    <3>4. OnScreen(rd.term, first, top, i.winH)
      BY <1>7, <3>2, <3>3 DEF OnScreen
    <3>5. ~r.term.stopped /\ r.term.top <= RowOf(rd.term, top)
      BY <1>1, <3>4
    <3>6. RowOf(r.term, top) = RowOf(rd.term, top)
      <4>1. r.term.y - r.term.line = rd.term.y - rd.term.line
        BY <1>1, <3>5 DEF Draws
      <4>2. /\ rd.term.y \in Int /\ rd.term.line \in Int
            /\ r.term.y \in Int /\ r.term.line \in Int
        BY <1>3 DEF Seen, Pictured
      <4> HIDE DEF top
      <4>3. QED BY <1>5, <4>1, <4>2 DEF RowOf
    <3>7. r.scr.scraped - r.scr.scrolled <= i.top
      BY <1>1, <1>4, <1>6
    <3>8. r.scr.scraped = top /\ r.scr.dirtyTop = i.top
      BY <1>1, <1>6, <1>7
    <3>9. r.term.top <= RowOf(r.term, r.scr.scraped)
      BY <3>5, <3>6, <3>8
    <3>10. QED BY <3>1, <3>5, <3>7, <3>8, <3>9 DEF OnTop
  <2>3. QED BY <2>1, <2>2
<1>8. ASSUME Still(rd), ~Lost(r) PROVE CursorAt(r, i, shown, r.base - gone)
  <2> HIDE DEF shown
  <2>1. CASE shown
    <3>1. /\ r.term.x = i.x /\ r.term.line = line
          /\ rd.term.hidden \/ rd.term.shown => r.term.shown
      BY <1>1, <2>1 DEF CursorDrawn
    <3>2. r.term.shown \/ r.blind
      BY <1>6, <3>1 DEF Seen
    <3>3. ~r.term.stopped /\ Slid(r) = 0 /\ ~Lost(rd)
      BY <1>3, <1>6, <1>2, <1>8 DEF Still, Lost
    <3>4. Slid(r) = gone - s.scrolled - (rd.base + r.term.y - 1 - r.term.line)
      BY <1>6 DEF Slid
    <3>5. /\ rd.base \in Int /\ r.term.y \in Int /\ gone \in Int
      BY <1>3 DEF Seen, Pictured
    <3>6. r.term.y = i.y - (r.base - gone) + 1
      <4>1. r.base = rd.base /\ r.term.line = i.y + s.scrolled
        BY <1>6, <3>1
      <4>2. 0 = gone - s.scrolled - (rd.base + r.term.y - 1 - r.term.line)
        BY <3>3, <3>4
      <4>3. /\ i.y \in Int /\ s.scrolled \in Int /\ r.base \in Int /\ r.term.line \in Int
        BY <1>4, <3>5, <4>1
      <4>4. 0 = gone - s.scrolled - (r.base + r.term.y - 1 - (i.y + s.scrolled))
        BY <4>1, <4>2
      <4> DEFINE y == r.term.y
                 b == r.base
                 k == s.scrolled
                 z == i.y
                 g == gone
      <4>5. /\ y \in Int /\ b \in Int /\ k \in Int /\ z \in Int /\ g \in Int
            /\ 0 = g - k - (b + y - 1 - (z + k))
        BY <3>5, <4>3, <4>4
      <4> HIDE DEF y, b, k, z, g
      <4>6. y = z - (b - g) + 1
        BY ONLY <4>5
      <4>7. QED BY <4>6 DEF y, b, k, z, g
    <3>7. QED BY <2>1, <3>1, <3>2, <3>6 DEF CursorAt
  <2>2. CASE ~shown
    <3>1. ~r.term.shown
      BY <1>1, <2>2 DEF CursorDrawn
    <3>2. QED BY <2>2, <3>1 DEF CursorAt
  <2>3. QED BY <2>1, <2>2
<1>9. QED BY <1>3, <1>7, <1>8 DEF r

LEMMA LinesAreRead ==
  ASSUME NEW c, NEW s, Members(s), NEW i, Window(i)
  PROVE  Lines(Read(c, s, i), FirstVirtLine(s, i) - s.scrolled, i.top + i.winH, i.w)
<1> DEFINE a == FirstVirtLine(s, i) - s.scrolled
           b == i.top + i.winH
           d == s.dirty
           lo == Min({a, d - 1})
           hi == Max({b, d})
           buf == Read(c, s, i)
<1>1. buf = [r \in lo..(hi - 1) |-> ReadCells(c, r, i.w)]
  BY DEF Read
<1>2. a \in Int /\ b \in Int /\ d \in Int
  <2>1. /\ s.scraped \in Int /\ i.top + s.scrolled \in Int /\ s.scrolled \in Int
        /\ s.dirty \in Int /\ i.top \in Int /\ i.winH \in Int
    BY DEF Members, Window
  <2>2. FirstVirtLine(s, i) \in Int
    <3> DEFINE x == s.scraped
               y == i.top + s.scrolled
    <3>1. x \in Int /\ y \in Int /\ FirstVirtLine(s, i) = Min({x, y})
      BY <2>1 DEF FirstVirtLine
    <3> HIDE DEF x, y
    <3>2. QED BY <3>1, MaxOf
  <2>3. QED BY <2>1, <2>2
<1> HIDE DEF a, b, d, buf
<1>3. lo <= a /\ b <= hi /\ lo \in Int /\ hi \in Int
  <2>1. d - 1 \in Int
    BY <1>2
  <2>2. /\ lo = IF a <= d - 1 THEN a ELSE d - 1
        /\ hi = IF b >= d THEN b ELSE d
    BY ONLY <1>2, <2>1, MaxOf
  <2> HIDE DEF lo, hi
  <2>3. QED BY <1>2, <2>1, <2>2
<1> HIDE DEF lo, hi
<1>4. ASSUME NEW r \in a..(b - 1) PROVE buf[r] = [k \in 1..i.w |-> buf[r][k]]
  <2>1. r \in lo..(hi - 1)
    BY <1>2, <1>3
  <2>2. buf[r] = ReadCells(c, r, i.w)
    BY <1>1, <2>1
  <2>3. QED BY <2>2 DEF ReadCells, Masked
<1>5. QED BY <1>4 DEF Lines, a, b, buf

(* A frozen scrape.                                                         *)
LEMMA FrozenTracks ==
  ASSUME MarkersDiffer, gone \in Nat, NEW rd, Well(rd), Seen(rd), ~rd.scr.directMode,
         NEW i, Window(i), i.h = BUFFER_LINE_COUNT, i.x \in Nat
  PROVE  LET r == ScrapeFrozen(rd, i)
         IN /\ Seen(r) /\ SameCursor(rd.con, r.con)
            /\ Tracks(rd) => Tracks(r) /\ Still(r)
            /\ OnTop(rd, i.top) /\ i.winH <= rd.scr.ptySize[2] => OnTop(r, i.top)
            /\ Tracks(rd) /\ ~Lost(r) =>
                 CursorAt(r, i, i.visible /\ cursorInside(i), r.base - gone)
<1> DEFINE p == Prepare(rd, i, FALSE).rd
           buf == Read(p.con, p.scr, i)
           n == NewSyncRow(i)
           m == IF ShouldCreateSyncRow(p.scr, i) THEN createSyncMarker(p, n) ELSE p
           r == Send(m, i, buf)
<1>1. ScrapeFrozen(rd, i) = r
  BY DEF ScrapeFrozen
<1>2. /\ Well(p) /\ p.con = rd.con /\ SameMode(rd.scr, p.scr) /\ p.scr.dirtyTop = i.top
  BY FrozenPrepares, PreparingIsWell
<1>3. /\ Seen(p)
      /\ Tracks(rd) => Tracks(p) /\ Still(p)
      /\ OnTop(rd, i.top) => OnTop(p, i.top)
  BY FrozenPrepares, PreparingTracks
<1>4. Lines(buf, FirstVirtLine(p.scr, i) - p.scr.scrolled, i.top + i.winH, i.w)
  BY <1>2, LinesAreRead DEF Well
<1> HIDE DEF p, buf
<1>5. /\ p.scr.syncRow \in Int /\ p.scr.syncRow >= -1 /\ ~p.scr.directMode
      /\ i.top \in Int /\ 0 <= i.top
  BY <1>2 DEF Well, Members, SameMode, Window
<1>6. /\ Well(m) /\ Seen(m) /\ SameCursor(rd.con, m.con) /\ SameMode(p.scr, m.scr)
      /\ Tracks(rd) => Tracks(m) /\ Still(m)
      /\ OnTop(rd, i.top) => OnTop(m, i.top)
      /\ m.scr.scraped = p.scr.scraped /\ m.scr.scrolled = p.scr.scrolled
      /\ m.scr.dirtyTop = i.top
  <2>1. CASE ShouldCreateSyncRow(p.scr, i)
    <3>1. n \in Int /\ 0 <= n
      <4>1. /\ SYNC_MARKER_LEN \in Int /\ 1 <= SYNC_MARKER_LEN
            /\ SYNC_MARKER_MARGIN \in Int /\ 0 <= SYNC_MARKER_MARGIN
        BY ScraperAssumption
      <4>2. n = i.top - SYNC_MARKER_LEN - SYNC_MARKER_MARGIN
        BY DEF NewSyncRow
      <4>3. n >= p.scr.syncRow + SYNC_MARKER_LEN + SYNC_MARKER_MARGIN
        BY <2>1 DEF ShouldCreateSyncRow
      <4> HIDE DEF n
      <4>4. QED BY ONLY <1>5, <4>1, <4>2, <4>3
    <3>2. m = createSyncMarker(p, n)
      BY <2>1
    <3> HIDE DEF n, m
    <3> DEFINE k == createSyncMarker(p, n)
    <3>3. /\ Well(k) /\ SameMode(p.scr, k.scr) /\ k.scr.scraped = p.scr.scraped
          /\ k.scr.scrolled = p.scr.scrolled /\ k.scr.dirtyTop = p.scr.dirtyTop
      BY <1>2, <1>5, <3>1, MarkingIsWell
    <3>4. /\ Seen(k) /\ SameCursor(p.con, k.con)
          /\ Still(p) => Tracks(k) /\ Still(k)
          /\ OnTop(p, i.top) => OnTop(k, i.top)
      BY <1>2, <1>3, <1>5, <3>1, MarkingTracks
    <3> HIDE DEF k
    <3>5. k = m
      BY <3>2 DEF k
    <3>6. QED BY <1>2, <1>3, <3>3, <3>4, <3>5
  <2>2. CASE ~ShouldCreateSyncRow(p.scr, i)
    <3>1. m = p
      BY <2>2
    <3> HIDE DEF m
    <3>2. QED BY <1>2, <1>3, <3>1 DEF SameCursor, SameMode
  <2>3. QED BY <2>1, <2>2
<1> HIDE DEF m
<1>7. Lines(buf, FirstVirtLine(m.scr, i) - m.scr.scrolled, i.top + i.winH, i.w)
  <2>1. FirstVirtLine(m.scr, i) = FirstVirtLine(p.scr, i)
    BY <1>6 DEF FirstVirtLine
  <2>2. QED BY <1>4, <1>6, <2>1
<1>8. /\ Seen(r) /\ (Tracks(m) => Tracks(r)) /\ (Still(m) => Still(r))
      /\ OnTop(m, i.top) /\ m.scr.dirtyTop = i.top /\ i.winH <= m.term.height =>
           OnTop(r, i.top)
      /\ Still(m) /\ ~Lost(r) =>
           CursorAt(r, i, i.visible /\ cursorInside(i), r.base - gone)
  BY <1>6, <1>7, SendingTracks
<1>9. Well(r) /\ r.con = m.con
  BY <1>6, SendingIsWell
<1> HIDE DEF r
<1>10. m.term.height = rd.scr.ptySize[2]
  BY <1>2, <1>6 DEF Seen, SameMode
<1>11. SameCursor(rd.con, r.con)
  BY <1>6, <1>9
<1>12. QED BY <1>1, <1>6, <1>8, <1>10, <1>11

(* Direct mode: a line of the terminal for each of the window.              *)
DirectPlace(rd) == ~rd.term.stopped => rd.term.y = rd.term.line + 1

LEMMA DirectTracks ==
  ASSUME gone \in Nat, NEW rd, Well(rd), Seen(rd), rd.scr = scr, NEW i, Window(i), i.x \in Nat
  PROVE  LET r == ScrapeDirect(rd, i)
         IN /\ Seen(r) /\ SameHistory(rd, r)
            /\ DirectPlace(rd) => DirectPlace(r)
            /\ DirectPlace(rd) /\ ~rd.term.stopped /\ rd.term.top <= 1 =>
                 ~r.term.stopped /\ r.term.top <= 1
            /\ DirectPlace(rd) /\ ~r.term.stopped => CursorAt(r, i, DirectShows(i), i.top)
<1> DEFINE r == ScrapeDirect(rd, i)
           line == i.y - i.top
           h == DirectHeight(i)
<1>1. /\ Draws(rd.term, r.term)
      /\ CursorDrawn(rd.term, r.term, i, DirectShows(i), line)
      /\ OnScreen(rd.term, 0, 0, h) =>
           ~r.term.stopped /\ r.term.top <= RowOf(rd.term, 0)
      /\ SameTracking(rd.scr, r.scr) /\ r.scr.scraped = rd.scr.scraped
      /\ SameHistory(rd, r) /\ r.con = rd.con
  BY DirectlyDraws DEF Seen
<1>2. Well(r)
  BY DirectIsWell
<1> HIDE DEF r
<1>3. Seen(r)
  <2>1. r.misled = rd.misled
    BY <1>1 DEF SameHistory
  <2>2. QED BY <1>1, <1>2, <2>1, DrawnIsSeen
<1>4. /\ rd.term.y \in Int /\ rd.term.line \in Int
      /\ r.term.y \in Int /\ r.term.line \in Int
      /\ i.y \in Int /\ i.top \in Int
  BY <1>3 DEF Seen, Pictured, Window
<1>5. ASSUME DirectPlace(rd), ~r.term.stopped PROVE r.term.y = r.term.line + 1
  <2>1. ~rd.term.stopped /\ r.term.y - r.term.line = rd.term.y - rd.term.line
    BY <1>1, <1>5 DEF Draws
  <2>2. rd.term.y = rd.term.line + 1
    BY <1>5, <2>1 DEF DirectPlace
  <2>3. QED BY ONLY <1>4, <2>1, <2>2
<1>6. ASSUME DirectPlace(rd), ~rd.term.stopped, rd.term.top <= 1
      PROVE  ~r.term.stopped /\ r.term.top <= 1
  <2>1. rd.term.y = rd.term.line + 1
    BY <1>6 DEF DirectPlace
  <2>2. RowOf(rd.term, 0) = 1
    BY <1>4, <2>1 DEF RowOf
  <2>3. h <= rd.term.height
    <3>1. rd.term.height = scr.ptySize[2]
      BY DEF Seen
    <3>2. scr.ptySize[2] \in Int /\ i.winH \in Int
      BY SizesAre DEF Well, Members, Window
    <3> DEFINE a == i.winH
               b == scr.ptySize[2]
    <3>3. a \in Int /\ b \in Int /\ h = Min({a, b})
      BY <3>2 DEF DirectHeight
    <3> HIDE DEF a, b, h
    <3>4. h <= b
      <4>1. Min({a, b}) = IF a <= b THEN a ELSE b
        BY ONLY <3>3, MaxOf
      <4>2. QED BY ONLY <3>3, <4>1
    <3>5. QED BY <3>1, <3>4 DEF b
  <2>4. OnScreen(rd.term, 0, 0, h)
    BY <1>6, <2>2, <2>3 DEF OnScreen
  <2>5. QED BY <1>1, <2>2, <2>4
<1>7. ASSUME DirectPlace(rd), ~r.term.stopped PROVE CursorAt(r, i, DirectShows(i), i.top)
  <2>1. CASE DirectShows(i)
    <3>1. /\ r.term.x = i.x /\ r.term.line = line
          /\ rd.term.hidden \/ rd.term.shown => r.term.shown
      BY <1>1, <2>1 DEF CursorDrawn
    <3>2. r.blind = rd.blind
      BY <1>1 DEF SameHistory
    <3>3. r.term.shown \/ r.blind
      BY <3>1, <3>2 DEF Seen
    <3>4. r.term.y = i.y - i.top + 1
      BY <1>5, <1>7, <3>1
    <3>5. QED BY <2>1, <3>1, <3>3, <3>4 DEF CursorAt
  <2>2. CASE ~DirectShows(i)
    BY <1>1, <2>2 DEF CursorDrawn, CursorAt
  <2>3. QED BY <2>1, <2>2
<1>8. QED BY <1>1, <1>3, <1>5, <1>6, <1>7 DEF r, DirectPlace

(***************************************************************************)
(* The invariant, and each step of the agent and of the child.             *)
(***************************************************************************)
(* The buffer whose lines are tracked.                                      *)
Tabled == IF saved = <<>> THEN con ELSE saved[1]

IsPaper(p) == \E S : p \in Seq(S)

(* What the terminal, the agent's picture of it and the console's rows are  *)
(* like at any time.                                                        *)
Pieces ==
  /\ IsPaper(paper)
  /\ Seen(Round) /\ con.x \in Nat /\ resizes \in Nat
  /\ saved # <<>> =>
       Rows(saved[1], scr.counter) /\ saved[1].x \in Nat /\ con.h # BUFFER_LINE_COUNT
  /\ Tabled.h = BUFFER_LINE_COUNT
  /\ pc \notin {"idle", "info"} => info.x \in Nat
  /\ pc \in {"check", "check marker"} =>
       Lines(readBuf, FirstVirtLine(scr, info) - scr.scrolled, info.top + info.winH, info.w)

(* The scraper knows where the lines are; in direct mode, which row the     *)
(* cursor is on.                                                            *)
KnowsLines ==
  /\ ~scr.directMode => cleared \/ Lost(Round) \/ Counts(Tabled, scr, Slid(Round))
  /\ ~scr.directMode /\ pc = "erase" => cleared \/ Still(Round)
  /\ scr.directMode => DirectPlace(Round)

(* How a round goes.                                                        *)
Going ==
  /\ force /\ pc \in {"info", "mode", "erase"} \cup Scrolling => frozen
  /\ pc \in {"erase"} \cup Resizing => force
  /\ pc \notin {"idle", "info", "mode"} \/ synced => (scr.directMode <=> saved # <<>>)
  /\ pc = "direct" => scr.directMode
  /\ synced => ~moved /\ ~force
  /\ cleared => moved
  /\ pc = "idle" => ~moved /\ ~force
  /\ pc \notin {"idle", "info"} /\ ~moved /\ ~force => info = Info(con)

(* Before any resize the cursor has not met the top of the screen, for the  *)
(* window is not higher.                                                    *)
Unresized ==
  resizes = 0 =>
    /\ con.winH <= term.height /\ Tabled.winH = visibleRows
    /\ pc \notin {"idle", "info"} => info.winH <= term.height
    /\ ~cleared /\ ~missed /\ ~misled =>
         IF scr.directMode THEN ~term.stopped /\ term.top <= 1
         ELSE /\ OnTop(Round, IF pc \in Scrolling THEN info.top ELSE 0)
              /\ pc \in Resizing => scr.scraped - scr.scrolled <= con.top

(* The property, and that it holds before the round has ended.              *)
Placed ==
  /\ synced \/ (pc = "end" /\ ~moved /\ ~force)
  /\ ~missed /\ ~misled /\ ~(term.stopped /\ resizes > 0)
  => CursorPlaced

CursorInv == Pieces /\ KnowsLines /\ Going /\ Unresized /\ Placed

(* The lines above the window are erased; the marker is written anew.       *)
LEMMA ErasingTracks ==
  ASSUME MarkersDiffer, gone \in Nat, NEW rd, Well(rd), Seen(rd), ~rd.scr.directMode, NEW i
  PROVE  LET r == EraseAbove(rd, i)
         IN /\ Seen(r) /\ SameTerminal(rd, r) /\ SameCursor(rd.con, r.con)
            /\ Still(rd) => Tracks(r)
            /\ \A top : OnTop(rd, top) => OnTop(r, top)
<1> DEFINE c == clearLines(rd.con, 0, i.top)
           s == clearBufferLines(rd.scr, i.top)
           e == [rd EXCEPT !.con = clearLines(@, 0, i.top),
                           !.scr = clearBufferLines(@, i.top),
                           !.erased = @ \cup {gone + q : q \in 0..(i.top - 1)}]
           last == BUFFER_LINE_COUNT - rd.scr.ptySize[2] - SYNC_MARKER_LEN
                     - SYNC_MARKER_MARGIN
           row == Min({rd.scr.syncRow, last})
           r == EraseAbove(rd, i)
           n == rd.scr.counter
<1>1. r = IF rd.scr.syncRow = NoMarker THEN e ELSE createSyncMarker(e, row)
  BY DEF EraseAbove
<1>2. /\ Members(rd.scr) /\ DOMAIN rd.scr = ScrFields /\ rd.scr.ptySize \in Sizes
      /\ rd.scr.syncRow \in Int /\ rd.scr.syncRow >= -1
      /\ Console(rd.con) /\ DOMAIN rd = RoundFields /\ rd.misled \in BOOLEAN
      /\ n \in Nat /\ Rows(rd.con, n)
  BY DEF Well, Members, Seen
<1>3. /\ SameShape(rd.con, c) /\ Console(c)
      /\ Rows(c, n) /\ SameCursor(rd.con, c)
  <2>1. SameShape(rd.con, c) /\ Console(c)
    BY <1>2, ClearingKeepsShape, ShapeIsEnough
  <2> DEFINE k == i.top
             d == rd.con
  <2> HIDE DEF k, d
  <2>2. Console(d) /\ Rows(d, n)
    BY <1>2 DEF d
  <2> HIDE DEF n
  <2>3. LET x == clearLines(d, 0, k) IN Rows(x, n) /\ SameCursor(d, x)
    BY ONLY MarkersDiffer, <1>2, <2>2, ClearingRows
  <2>4. QED BY <2>1, <2>3 DEF k, d
<1>4. /\ DOMAIN s = ScrFields /\ s.syncRow = rd.scr.syncRow /\ s.scraped = rd.scr.scraped
      /\ s.scrolled = rd.scr.scrolled /\ s.dirtyTop = rd.scr.dirtyTop
      /\ s.dirty = rd.scr.dirty /\ s.ptySize = rd.scr.ptySize
      /\ s.directMode = rd.scr.directMode /\ s.counter = n
  BY <1>2 DEF clearBufferLines, ScrFields
<1>5. /\ DOMAIN e = RoundFields /\ e.con = c /\ e.scr = s /\ e.misled = rd.misled
      /\ e.term = rd.term /\ SameHistory(rd, e)
  BY <1>2 DEF RoundFields, SameHistory
<1> HIDE DEF c, s, e, r
<1>6. Members(s)
  BY <1>2, <1>4 DEF Members
<1>7. Well(e)
  BY <1>2, <1>3, <1>5, <1>6 DEF Well
<1>8. Seen(e)
  BY <1>3, <1>4, <1>5 DEF Seen, SameHistory
<1>9. /\ Slid(e) = Slid(rd) /\ (Lost(e) <=> Lost(rd))
      /\ \A top : OnTop(rd, top) => OnTop(e, top)
  BY <1>4, <1>5 DEF Slid, Lost, OnTop, SameHistory
<1>10. CASE rd.scr.syncRow = NoMarker
  <2>1. r = e
    BY <1>1, <1>10
  <2>2. Still(rd) => Tracks(e)
    <3>1. s.syncRow = -1
      BY <1>4, <1>10 DEF NoMarker
    <3>2. QED BY <1>5, <1>9, <3>1 DEF Still, Tracks, Counts
  <2>3. QED BY <1>3, <1>5, <1>8, <1>9, <2>1, <2>2 DEF r, SameTerminal
<1>11. CASE rd.scr.syncRow # NoMarker
  <2> DEFINE m == createSyncMarker(e, row)
  <2>1. r = m
    BY <1>1, <1>11
  <2>2. row \in Int /\ 0 <= row
    <3>1. last \in Int /\ 0 <= last
      BY <1>2, SizesAre
    <3>2. row = IF rd.scr.syncRow <= last THEN rd.scr.syncRow ELSE last
      <4>1. rd.scr.syncRow \in Int /\ last \in Int
        BY <1>2, <3>1
      <4> HIDE DEF last
      <4>2. QED BY ONLY <4>1, MaxOf
    <3> HIDE DEF last, row
    <3>3. QED BY <1>2, <1>11, <3>1, <3>2 DEF NoMarker
  <2>3. ~e.scr.directMode
    BY <1>4, <1>5
  <2> HIDE DEF row
  <2>4. /\ Seen(m) /\ SameTerminal(e, m) /\ SameCursor(e.con, m.con)
        /\ Still(e) => Tracks(m) /\ Still(m)
        /\ \A top : OnTop(e, top) => OnTop(m, top)
    BY <1>7, <1>8, <2>2, <2>3, MarkingTracks
  <2> HIDE DEF m
  <2>5. SameTerminal(rd, m) /\ SameCursor(rd.con, m.con)
    BY <1>3, <1>5, <2>4 DEF SameTerminal, SameHistory, SameCursor
  <2>6. Still(rd) => Still(e)
    BY <1>9 DEF Still
  <2>7. QED BY <1>9, <2>1, <2>4, <2>5, <2>6 DEF r
<1>12. QED BY <1>10, <1>11

(* A character that the child writes: no row starts with a marker that did  *)
(* not, and if the buffer scrolls all rows have gone up by one.             *)
ShiftedBy(c, d, k, n) ==
  \A r \in 0..(c.h - 1) :
    d.rows[r][1] = MarkerText(n) =>
      r + k \in 0..(c.h - 1) /\ c.rows[r + k][1] = MarkerText(n)

LEMMA PuttingShifts ==
  ASSUME MarkersDiffer, NEW c, Console(c), c.x \in Nat, NEW n \in Nat, Rows(c, n),
         NEW ch, \A m \in Nat : ch # MarkerText(m)
  PROVE  LET d == PutChar(c, ch)
         IN /\ Rows(d, n) /\ d.x \in Nat /\ d.h = c.h
            /\ \A m \in Nat : ShiftedBy(c, d, IF Scrolls(c, ch) THEN 1 ELSE 0, m)
<1> DEFINE put  == IF ch = NL THEN c.rows ELSE [c.rows EXCEPT ![c.y][c.x + 1] = ch]
           next == ch = NL \/ c.x + 1 = c.w
           y    == IF next /\ c.y + 1 < c.h THEN c.y + 1 ELSE c.y
           rows == IF Scrolls(c, ch)
                     THEN [r \in DOMAIN put |->
                             IF r + 1 < c.h THEN put[r + 1] ELSE Blanks(c.w)]
                     ELSE put
           x    == IF next THEN 0 ELSE c.x + 1
           d    == PutChar(c, ch)
           dom  == 0..(c.h - 1)
<1>1. DOMAIN c = ConFields /\ Window(c) /\ c.h \in Int
  BY DEF Console, Window
<1>2. d.rows = rows /\ d.x = x /\ d.h = c.h
  <2>1. PICK top : d = [c EXCEPT !.rows = rows, !.x = x, !.y = y, !.top = top]
    BY DEF PutChar
  <2> HIDE DEF rows, x, y, d
  <2>2. QED BY <1>1, <2>1 DEF ConFields
<1>3. x \in Nat
  OBVIOUS
<1>4. DOMAIN c.rows = dom /\ \A r \in dom : 1 \in DOMAIN c.rows[r]
  BY DEF Rows
<1>5. DOMAIN put = dom
  BY <1>4
<1>6. ASSUME NEW r \in dom
      PROVE  1 \in DOMAIN put[r] /\ (put[r][1] = c.rows[r][1] \/ put[r][1] = ch)
  <2>1. CASE ch = NL
    BY <1>4, <2>1
  <2>2. CASE ch # NL
    <3> DEFINE line == [c.rows[c.y] EXCEPT ![c.x + 1] = ch]
    <3>1. put[r] = IF r = c.y THEN line ELSE c.rows[r]
      BY <1>4, <2>2
    <3>2. CASE r = c.y
      <4>1. 1 \in DOMAIN line /\ (line[1] = c.rows[c.y][1] \/ line[1] = ch)
        BY <1>4, <3>2
      <4>2. QED BY <3>1, <3>2, <4>1
    <3>3. CASE r # c.y
      BY <1>4, <3>1, <3>3
    <3>4. QED BY <3>2, <3>3
  <2>3. QED BY <2>1, <2>2
<1> HIDE DEF put
<1>7. ASSUME NEW r \in dom, NEW m \in Nat, put[r][1] = MarkerText(m)
      PROVE  c.rows[r][1] = MarkerText(m)
  BY <1>6, <1>7
<1>8. 1 \in DOMAIN Blanks(c.w) /\ \A m \in Nat : Blanks(c.w)[1] # MarkerText(m)
  <2>1. c.w \in Int /\ 1 <= c.w
    BY DEF Console, Window
  <2>2. 1 \in DOMAIN Blanks(c.w) /\ Blanks(c.w)[1] = Blank
    BY <2>1 DEF Blanks
  <2>3. QED BY <2>2 DEF MarkersDiffer
<1> DEFINE k == IF Scrolls(c, ch) THEN 1 ELSE 0
<1>9. DOMAIN rows = dom
  BY <1>5
<1>10. ASSUME NEW r \in dom
       PROVE  /\ 1 \in DOMAIN rows[r]
              /\ \A m \in Nat : rows[r][1] = MarkerText(m) =>
                   r + k \in dom /\ c.rows[r + k][1] = MarkerText(m)
  <2>1. CASE Scrolls(c, ch)
    <3>1. k = 1 /\ rows[r] = IF r + 1 < c.h THEN put[r + 1] ELSE Blanks(c.w)
      BY <1>5, <2>1
    <3> HIDE DEF k, rows
    <3>2. CASE r + 1 < c.h
      <4>1. r + 1 \in dom /\ rows[r] = put[r + 1]
        BY <1>1, <3>1, <3>2
      <4>2. QED BY <1>6, <1>7, <3>1, <4>1
    <3>3. CASE ~(r + 1 < c.h)
      BY <1>8, <3>1, <3>3
    <3>4. QED BY <3>2, <3>3
  <2>2. CASE ~Scrolls(c, ch)
    <3>1. k = 0 /\ rows[r] = put[r]
      BY <2>2
    <3> HIDE DEF k, rows
    <3>2. r + k = r
      BY <3>1
    <3>3. QED BY <1>6, <1>7, <3>1, <3>2
  <2>3. QED BY <2>1, <2>2
<1> HIDE DEF rows, k
<1>11. ASSUME NEW m \in Nat PROVE ShiftedBy(c, d, k, m)
  BY <1>2, <1>10 DEF ShiftedBy
<1>12. Rows(d, n)
  <2>1. ASSUME NEW r \in dom, NEW m \in Nat, m > n PROVE rows[r][1] # MarkerText(m)
    <3>1. ASSUME rows[r][1] = MarkerText(m) PROVE FALSE
      <4>1. r + k \in dom /\ c.rows[r + k][1] = MarkerText(m)
        BY <1>10, <3>1
      <4>2. QED BY <2>1, <4>1 DEF Rows
    <3>2. QED BY <3>1
  <2>2. QED BY <1>2, <1>9, <1>10, <2>1 DEF Rows
<1> HIDE DEF x, d
<1>13. QED BY <1>2, <1>3, <1>11, <1>12 DEF d, k

LEMMA PaperGrows ==
  ASSUME NEW p, IsPaper(p), NEW line
  PROVE  IsPaper(Append(p, line)) /\ Len(p) \in Nat /\ Len(Append(p, line)) = Len(p) + 1
<1>1. PICK S : p \in Seq(S)
  BY DEF IsPaper
<1> DEFINE T == S \cup {line}
<1>2. p \in Seq(T) /\ line \in T
  BY <1>1
<1> HIDE DEF T
<1>3. Append(p, line) \in Seq(T) /\ Len(p) \in Nat /\ Len(Append(p, line)) = Len(p) + 1
  BY <1>2
<1>4. QED BY <1>3 DEF IsPaper

(* How far a text has got: the rows of a tracked buffer have gone up by as  *)
(* many as the paper has grown.                                             *)
TypedFields == {"con", "paper", "missed"}

Grown(a) == Len(a.paper) - gone

Follows(a) ==
  /\ DOMAIN a = TypedFields /\ MovedDown(con, a.con)
  /\ Rows(a.con, scr.counter) /\ a.con.x \in Nat
  /\ IsPaper(a.paper) /\ a.missed \in BOOLEAN /\ (missed => a.missed)
  /\ ~Tracked => a.paper = paper /\ a.missed = missed
  /\ Grown(a) \in Nat
  /\ Tracked /\ ~a.missed /\ scr.syncRow = -1 => Grown(a) = 0
  /\ Tracked => ShiftedBy(con, a.con, Grown(a), scr.counter)

LEMMA OneMoreFollows ==
  ASSUME MarkersDiffer, Console(con), scr.counter \in Nat, gone \in Nat,
         NEW a, Follows(a), NEW ch, \A m \in Nat : ch # MarkerText(m)
  PROVE  Follows(Typed(a, ch))
<1> DEFINE out == Tracked /\ Scrolls(a.con, ch)
           b == Typed(a, ch)
           d == PutChar(a.con, ch)
           n == scr.counter
           k == IF Scrolls(a.con, ch) THEN 1 ELSE 0
<1>1. /\ DOMAIN b = TypedFields /\ b.con = d
      /\ b.paper = (IF out THEN Append(a.paper, a.con.rows[0]) ELSE a.paper)
      /\ b.missed = (a.missed \/ (out /\ scr.syncRow = NoMarker))
  BY DEF Typed, TypedFields
<1>2. /\ MovedDown(con, a.con) /\ Console(a.con) /\ a.con.h = con.h
      /\ Rows(a.con, n) /\ a.con.x \in Nat
      /\ IsPaper(a.paper) /\ a.missed \in BOOLEAN /\ (missed => a.missed)
      /\ Grown(a) \in Nat
  BY DEF Follows, MovedDown
<1>3. MovedDown(con, d)
  BY <1>2, PuttingIsConsole, MovingDownTwice
<1>4. /\ Rows(d, n) /\ d.x \in Nat
      /\ \A m \in Nat : ShiftedBy(a.con, d, k, m)
  BY <1>2, PuttingShifts
<1> HIDE DEF d, b
<1>5. /\ IsPaper(b.paper) /\ Grown(b) = Grown(a) + (IF out THEN 1 ELSE 0)
  <2>1. Len(a.paper) \in Nat
    BY <1>2, PaperGrows
  <2>2. CASE out
    <3>1. b.paper = Append(a.paper, a.con.rows[0])
      BY <1>1, <2>2
    <3>2. IsPaper(b.paper) /\ Len(b.paper) = Len(a.paper) + 1
      BY <1>2, <3>1, PaperGrows
    <3>3. QED BY <2>1, <2>2, <3>2 DEF Grown
  <2>3. CASE ~out
    <3>1. b.paper = a.paper
      BY <1>1, <2>3
    <3>2. Grown(a) + 0 = Grown(a)
      BY <1>2
    <3>3. QED BY <1>2, <2>3, <3>1, <3>2 DEF Grown
  <2>4. QED BY <2>2, <2>3
<1>6. Grown(b) \in Nat
  BY <1>2, <1>5
<1>7. b.missed \in BOOLEAN /\ (missed => b.missed) /\ (a.missed => b.missed)
  <2> HIDE DEF out
  <2>1. b.missed \in BOOLEAN
    BY <1>1
  <2>2. a.missed => b.missed
    BY <1>1
  <2>3. QED BY <1>2, <2>1, <2>2
<1>8. ASSUME ~Tracked PROVE b.paper = paper /\ b.missed = missed
  <2>1. a.paper = paper /\ a.missed = missed /\ ~out
    BY <1>8 DEF Follows
  <2>2. out = FALSE
    BY <2>1
  <2> HIDE DEF out
  <2>3. b.missed = a.missed
    BY <1>1, <1>2, <2>2, Zenon
  <2>4. b.paper = a.paper
    BY <1>1, <2>2
  <2>5. QED BY <2>1, <2>3, <2>4
<1>9. ASSUME Tracked, ~b.missed, scr.syncRow = -1 PROVE Grown(b) = 0
  <2>1. ~out
    BY <1>1, <1>9 DEF NoMarker
  <2>2. ~a.missed
    BY <1>7, <1>9
  <2>3. Grown(a) = 0
    BY <1>9, <2>2 DEF Follows
  <2>4. QED BY <1>5, <2>1, <2>3
<1>10. ASSUME Tracked PROVE ShiftedBy(con, d, Grown(b), n)
  <2>1. ShiftedBy(con, a.con, Grown(a), n)
    BY <1>10 DEF Follows
  <2>2. Grown(b) = Grown(a) + k
    BY <1>5, <1>10
  <2>3. k \in Int /\ Grown(a) \in Int /\ con.h \in Int
    BY <1>2 DEF Console, Window
  <2> DEFINE g == Grown(a)
             l == Grown(b)
  <2>4. ShiftedBy(a.con, d, k, n) /\ a.con.h = con.h
    BY <1>2, <1>4
  <2> HIDE DEF k, g, l
  <2> SUFFICES ASSUME NEW r \in 0..(con.h - 1), d.rows[r][1] = MarkerText(n)
               PROVE  r + l \in 0..(con.h - 1) /\ con.rows[r + l][1] = MarkerText(n)
    BY DEF ShiftedBy, l
  <2>5. r + k \in 0..(con.h - 1) /\ a.con.rows[r + k][1] = MarkerText(n)
    BY <2>4 DEF ShiftedBy
  <2>6. (r + k) + g \in 0..(con.h - 1) /\ con.rows[(r + k) + g][1] = MarkerText(n)
    BY <2>1, <2>5 DEF ShiftedBy, g
  <2>7. (r + k) + g = r + l
    BY <2>2, <2>3 DEF g, l
  <2>8. QED BY <2>6, <2>7
<1> HIDE DEF out
<1>11. /\ MovedDown(con, b.con) /\ Rows(b.con, n) /\ b.con.x \in Nat
       /\ Tracked => ShiftedBy(con, b.con, Grown(b), n)
  BY <1>1, <1>3, <1>4, <1>10
<1>12. Follows(b)
  BY ONLY <1>1, <1>5, <1>6, <1>7, <1>8, <1>9, <1>11 DEF Follows
<1>13. QED BY <1>12 DEF b

LEMMA TypingFollows ==
  ASSUME MarkersDiffer, NEW text \in Texts, Console(con), con.x \in Nat,
         scr.counter \in Nat, Rows(con, scr.counter), IsPaper(paper), missed \in BOOLEAN
  PROVE  Follows(Typing(text))
<1>1. Len(text) \in Nat /\ gone \in Nat
  <2>1. Len(paper) \in Nat
    BY PaperGrows
  <2>2. QED BY <2>1, ScraperAssumption DEF gone
<1>2. PICK g : OneByOne(g, text) /\ Typing(text) = g[Len(text)]
  BY <1>1, TypingIsOneByOne
<1> DEFINE U == {m \in Nat : m <= Len(text) => Follows(g[m])}
           start == [con |-> con, paper |-> paper, missed |-> missed]
<1>3. 0 \in U
  <2>1. g[0] = start
    BY <1>2 DEF OneByOne
  <2>2. /\ DOMAIN start = TypedFields /\ start.con = con /\ start.paper = paper
        /\ start.missed = missed
    BY DEF TypedFields
  <2> HIDE DEF start
  <2>3. MovedDown(con, con)
    BY DEF MovedDown, Console, Window
  <2>4. Grown(start) = 0
    BY <1>1, <2>2 DEF Grown, gone
  <2>5. ShiftedBy(con, start.con, Grown(start), scr.counter)
    <3> SUFFICES ASSUME NEW r \in 0..(con.h - 1)
                 PROVE  r + 0 = r
      BY <2>2, <2>4 DEF ShiftedBy
    <3>1. QED OBVIOUS
  <2>6. Follows(start)
    BY <2>2, <2>3, <2>4, <2>5 DEF Follows
  <2>7. QED BY <2>1, <2>6
<1>4. ASSUME NEW n \in Nat, n \in U PROVE n + 1 \in U
  <2> SUFFICES ASSUME n + 1 <= Len(text) PROVE Follows(g[n + 1])
    OBVIOUS
  <2>1. Follows(g[n])
    BY <1>4
  <2>2. \A m \in Nat : text[n + 1] # MarkerText(m)
    <3>1. n + 1 \in 1..Len(text)
      BY <1>1
    <3>2. QED BY <3>1 DEF MarkersDiffer
  <2> DEFINE ch == text[n + 1]
             a == g[n]
  <2>3. g[n + 1] = Typed(a, ch)
    BY <1>2 DEF OneByOne
  <2> HIDE DEF ch, a
  <2>4. Follows(a) /\ \A m \in Nat : ch # MarkerText(m)
    BY <2>1, <2>2 DEF a, ch
  <2>5. Follows(Typed(a, ch))
    BY <1>1, <2>4, OneMoreFollows
  <2>6. QED BY <2>3, <2>5
<1> HIDE DEF U
<1>5. Len(text) \in U
  BY <1>1, <1>3, <1>4, Induction
<1>6. QED BY <1>1, <1>2, <1>5 DEF U

LEMMA PiecesAre ==
  ASSUME ScraperInv, CursorInv
  PROVE  /\ gone \in Nat /\ Seen(Round) /\ Well(Round) /\ Round.con = con /\ Round.scr = scr
         /\ Round.term = term /\ Round.base = base /\ Round.missed = missed
         /\ Round.misled = misled /\ Round.blind = blind
         /\ Pictured(term) /\ term.height = scr.ptySize[2] /\ base \in Int
         /\ scr.counter \in Nat /\ missed \in BOOLEAN /\ blind \in BOOLEAN
         /\ blind \/ term.hidden \/ term.shown
         /\ Rows(con, scr.counter) /\ Console(con) /\ Members(scr)
         /\ saved = <<>> <=> con.h = BUFFER_LINE_COUNT
         /\ saved = <<>> => Tabled = con
<1>1. Well(Round) /\ Round.con = con /\ Round.scr = scr /\ Round.misled = misled
  BY RoundIs
<1>2. /\ Round.term = term /\ Round.base = base /\ Round.missed = missed
      /\ Round.blind = blind
  BY DEF Round
<1>3. IsPaper(paper) /\ Seen(Round)
  BY DEF CursorInv, Pieces
<1>4. Len(paper) \in Nat
  BY <1>3, PaperGrows
<1>5. gone \in Nat
  BY <1>4 DEF gone
<1>6. Console(con) /\ Members(scr)
  BY DEF ScraperInv, ScraperTypeOK
<1>7. saved = <<>> <=> con.h = BUFFER_LINE_COUNT
  BY DEF CursorInv, Pieces, Tabled
<1> HIDE DEF Round
<1>8. QED BY <1>1, <1>2, <1>3, <1>5, <1>6, <1>7 DEF Seen, Tabled

(* The child's steps: rows go up by as many as the paper grows.             *)
LEMMA ChildTracks ==
  ASSUME ScraperInv, CursorInv, Child, saved' = saved,
         con'.h = con.h, con'.winH = con.winH, Rows(con', scr.counter), con'.x \in Nat,
         Console(con)', IsPaper(paper'), missed' \in BOOLEAN, missed => missed',
         cleared => cleared', pc = "idle" => cleared' = cleared,
         NEW k \in Nat, gone' = gone + k, saved # <<>> => k = 0,
         saved = <<>> /\ ~missed' =>
           \A slid \in Int : Counts(con, scr, slid) => Counts(con', scr, slid + k),
         con.top <= con'.top \/ cleared' \/ pc \in {"idle", "info"}
  PROVE  CursorInv'
<1>1. /\ UNCHANGED <<frozen, scr, term, pc, info, readBuf, force, resizes, base, misled,
                     blind, refused>>
      /\ ~frozen /\ moved' = (pc # "idle") /\ synced' = FALSE
  BY DEF Child
<1>2. /\ gone \in Nat /\ Seen(Round) /\ Well(Round)
      /\ scr.scrolled \in Int /\ Rows(con, scr.counter) /\ Console(con)
      /\ Pictured(term) /\ base \in Int
  BY PiecesAre DEF Members
<1>3. Pieces /\ KnowsLines /\ Going /\ Unresized
  BY DEF CursorInv
<1>4. Pieces'
  <2>1. Seen(Round)'
    BY <1>1, <1>2 DEF Seen, Round
  <2>2. /\ saved' # <<>> => Rows(saved[1], scr.counter)' /\ saved'[1].x \in Nat
                            /\ con'.h # BUFFER_LINE_COUNT
        /\ Tabled'.h = BUFFER_LINE_COUNT
    BY <1>1, <1>3 DEF Pieces, Tabled
  <2>3. /\ resizes' \in Nat /\ (pc \notin {"idle", "info"} => info'.x \in Nat)
    BY <1>1, <1>3 DEF Pieces
  <2>4. pc' \in {"check", "check marker"} =>
          Lines(readBuf, FirstVirtLine(scr, info) - scr.scrolled, info.top + info.winH, info.w)'
    BY <1>1, <1>3 DEF Pieces
  <2>5. QED BY <1>1, <2>1, <2>2, <2>3, <2>4 DEF Pieces
<1>5. Slid(Round)' = Slid(Round) + k /\ Slid(Round) \in Int /\ (Lost(Round) => Lost(Round)')
  <2>1. Slid(Round) \in Int /\ Slid(Round) = gone - scr.scrolled - (base + term.y - 1 - term.line)
    BY <1>2, SlidIs DEF Round
  <2>2. Slid(Round)' = gone' - scr.scrolled - (base + term.y - 1 - term.line)
    BY <1>1 DEF Slid, Round
  <2>3. Lost(Round) => Lost(Round)'
    BY <1>1 DEF Lost, Round
  <2>4. term.y \in Int /\ term.line \in Int /\ scr.scrolled \in Int
    BY <1>2 DEF Pictured, Members
  <2>5. gone \in Int /\ gone' = gone + k /\ base \in Int
    BY <1>2
  <2>6. Slid(Round)' = Slid(Round) + k
    <3> DEFINE row == base + term.y - 1 - term.line
    <3>1. row \in Int
      BY <2>4, <2>5
    <3>2. Slid(Round) = gone - scr.scrolled - row /\ Slid(Round)' = gone' - scr.scrolled - row
      BY <2>1, <2>2
    <3> HIDE DEF row
    <3>3. QED BY <2>4, <2>5, <3>1, <3>2
  <2>7. QED BY <2>1, <2>3, <2>6
<1>6. KnowsLines'
  <2>1. ASSUME ~scr.directMode, ~cleared', ~Lost(Round)'
        PROVE  Counts(Tabled, scr, Slid(Round))'
    <3>1. Counts(Tabled, scr, Slid(Round)) /\ ~missed'
      BY <1>3, <1>5, <2>1 DEF KnowsLines, Lost, Round
    <3>2. CASE saved = <<>>
      <4>1. Tabled = con /\ Tabled' = con'
        BY <3>2 DEF Tabled
      <4>2. Counts(con', scr, Slid(Round) + k)
        BY <1>5, <3>1, <3>2, <4>1
      <4>3. QED BY <1>1, <1>5, <4>1, <4>2
    <3>3. CASE saved # <<>>
      <4>1. Tabled' = Tabled
        BY <3>3 DEF Tabled
      <4>2. Slid(Round)' = Slid(Round)
        BY <1>5, <3>3
      <4>3. QED BY <1>1, <3>1, <4>1, <4>2
    <3>4. QED BY <3>2, <3>3
  <2>2. pc # "erase"
    BY <1>1, <1>3 DEF Going
  <2>3. scr.directMode => DirectPlace(Round)'
    BY <1>1, <1>3 DEF KnowsLines, DirectPlace, Round
  <2>4. QED BY <1>1, <2>1, <2>2, <2>3 DEF KnowsLines
<1>7. Going'
  <2>1. pc = "idle" => ~moved' /\ ~cleared' /\ ~force
    BY <1>1, <1>3 DEF Going
  <2>2. pc # "idle" => moved'
    BY <1>1
  <2>3. ~synced' /\ (cleared' => moved')
    BY <1>1, <2>1, <2>2
  <2>4. /\ force' /\ pc' \in {"info", "mode", "erase"} \cup Scrolling => frozen'
        /\ pc' \in {"erase"} \cup Resizing => force'
        /\ pc' \notin {"idle", "info", "mode"} => (scr'.directMode <=> saved' # <<>>)
        /\ pc' = "direct" => scr'.directMode
    BY <1>1, <1>3 DEF Going
  <2>5. pc' \notin {"idle", "info"} => moved'
    BY <1>1, <2>2
  <2>6. QED BY <1>1, <2>1, <2>3, <2>4, <2>5 DEF Going
<1>8. Unresized'
  <2> SUFFICES ASSUME resizes = 0
               PROVE  /\ con'.winH <= term.height /\ Tabled'.winH = visibleRows'
                      /\ pc \notin {"idle", "info"} => info.winH <= term.height
                      /\ ~cleared' /\ ~missed' /\ ~misled =>
                           IF scr.directMode THEN ~term.stopped /\ term.top <= 1
                           ELSE /\ OnTop(Round, IF pc \in Scrolling THEN info.top ELSE 0)'
                                /\ pc \in Resizing => scr.scraped - scr.scrolled <= con'.top
    BY <1>1 DEF Unresized
  <2>1. /\ con.winH <= term.height /\ Tabled.winH = visibleRows
        /\ pc \notin {"idle", "info"} => info.winH <= term.height
        /\ ~cleared /\ ~missed /\ ~misled =>
             IF scr.directMode THEN ~term.stopped /\ term.top <= 1
             ELSE /\ OnTop(Round, IF pc \in Scrolling THEN info.top ELSE 0)
                  /\ pc \in Resizing => scr.scraped - scr.scrolled <= con.top
    BY <1>3 DEF Unresized
  <2>2. visibleRows' = visibleRows /\ Tabled'.winH = Tabled.winH
    BY <1>1 DEF visibleRows, Tabled
  <2>3. ASSUME ~cleared', ~missed', ~misled, ~scr.directMode
        PROVE  /\ OnTop(Round, IF pc \in Scrolling THEN info.top ELSE 0)'
               /\ pc \in Resizing => scr.scraped - scr.scrolled <= con'.top
    <3>1. /\ OnTop(Round, IF pc \in Scrolling THEN info.top ELSE 0)
          /\ pc \in Resizing => scr.scraped - scr.scrolled <= con.top
      BY <2>1, <2>3
    <3>2. OnTop(Round, IF pc \in Scrolling THEN info.top ELSE 0)'
      BY <1>1, <2>3, <3>1 DEF OnTop, Round
    <3>3. ASSUME pc \in Resizing PROVE scr.scraped - scr.scrolled <= con'.top
      <4>1. /\ con.top <= con'.top /\ con.top \in Int /\ con'.top \in Int
            /\ scr.scraped \in Int /\ scr.scrolled \in Int
        <5>1. con.top <= con'.top
          BY <2>3, <3>3 DEF Resizing
        <5>2. QED BY <1>2, <5>1, PiecesAre DEF Members, Console, Window
      <4>2. scr.scraped - scr.scrolled <= con.top
        BY <3>1, <3>3
      <4>3. QED BY <4>1, <4>2
    <3>4. QED BY <3>2, <3>3
  <2>4. QED BY <2>1, <2>2, <2>3
<1>9. Placed'
  BY <1>1 DEF Placed
<1>10. QED BY <1>4, <1>6, <1>7, <1>8, <1>9 DEF CursorInv

LEMMA WritingTracks == MarkersDiffer /\ ScraperInv /\ CursorInv /\ Write => CursorInv'
<1> SUFFICES ASSUME MarkersDiffer, ScraperInv, CursorInv, Write PROVE CursorInv'
  OBVIOUS
<1> DEFINE n == scr.counter
<1>1. PICK text \in Texts :
        /\ con' = Typing(text).con /\ paper' = Typing(text).paper
        /\ missed' = Typing(text).missed
  BY DEF Write
<1>2. /\ gone \in Nat /\ Rows(con, n) /\ Console(con) /\ n \in Nat /\ missed \in BOOLEAN
      /\ saved = <<>> <=> con.h = BUFFER_LINE_COUNT
  BY PiecesAre
<1>3. con.x \in Nat /\ IsPaper(paper)
  BY DEF CursorInv, Pieces
<1> DEFINE a == Typing(text)
           k == Grown(a)
<1>4. Follows(a)
  BY <1>2, <1>3, TypingFollows
<1> HIDE DEF a
<1>5. /\ MovedDown(con, a.con) /\ Rows(a.con, n) /\ a.con.x \in Nat
      /\ IsPaper(a.paper) /\ a.missed \in BOOLEAN /\ (missed => a.missed)
      /\ ~Tracked => a.paper = paper /\ a.missed = missed
      /\ k \in Nat
      /\ Tracked /\ ~a.missed /\ scr.syncRow = -1 => k = 0
      /\ Tracked => ShiftedBy(con, a.con, k, n)
  BY <1>4 DEF Follows
<1>6. con' = a.con /\ paper' = a.paper /\ missed' = a.missed
  BY <1>1 DEF a
<1>7. /\ Console(con)' /\ con'.h = con.h /\ con'.winH = con.winH /\ con.top <= con'.top
  BY <1>5, <1>6 DEF MovedDown
<1>8. gone' = gone + k
  <2>1. Len(a.paper) \in Nat
    BY <1>5, PaperGrows
  <2>2. gone' = Len(a.paper) /\ k = Len(a.paper) - gone
    BY <1>6 DEF gone, Grown
  <2> HIDE DEF k
  <2>3. QED BY <1>2, <2>1, <2>2
<1>9. ASSUME saved # <<>> PROVE k = 0
  <2>1. a.paper = paper
    BY <1>2, <1>5, <1>9 DEF Tracked
  <2>2. QED BY <1>2, <2>1 DEF Grown, gone
<1> HIDE DEF k
<1>10. ASSUME saved = <<>>, ~missed', NEW slid \in Int, Counts(con, scr, slid)
       PROVE  Counts(con', scr, slid + k)
  <2>1. Tracked
    BY <1>2, <1>10 DEF Tracked
  <2>2. slid >= 0 /\ (scr.syncRow = -1 => slid = 0)
        /\ (scr.syncRow # -1 => MarkedAt(con, scr, slid))
    BY <1>10 DEF Counts
  <2>3. slid + k >= 0
    BY <1>5, <2>2
  <2>4. scr.syncRow = -1 => slid + k = 0
    BY <1>5, <1>6, <1>10, <2>1, <2>2
  <2>5. ASSUME scr.syncRow # -1, NEW r \in 0..(con'.h - 1), con'.rows[r][1] = Marker(scr)
        PROVE  scr.syncRow <= r + (slid + k)
               /\ r + (slid + k) <= scr.syncRow + SYNC_MARKER_LEN - 1
    <3>1. r + k \in 0..(con.h - 1) /\ con.rows[r + k][1] = Marker(scr)
      BY <1>5, <1>6, <1>7, <2>1, <2>5 DEF ShiftedBy, Marker
    <3>2. scr.syncRow <= (r + k) + slid
          /\ (r + k) + slid <= scr.syncRow + SYNC_MARKER_LEN - 1
      BY <2>2, <2>5, <3>1 DEF MarkedAt
    <3>3. (r + k) + slid = r + (slid + k)
      BY <1>5
    <3>4. QED BY <3>2, <3>3
  <2>6. scr.syncRow # -1 => MarkedAt(con', scr, slid + k)
    BY <2>5 DEF MarkedAt
  <2>7. QED BY <2>3, <2>4, <2>6 DEF Counts
<1>11. Child /\ saved' = saved /\ cleared' = cleared
  BY DEF Write
<1>12. Rows(con', n) /\ con'.x \in Nat /\ IsPaper(paper') /\ missed' \in BOOLEAN
       /\ (missed => missed')
  BY <1>5, <1>6
<1>13. QED BY <1>5, <1>7, <1>8, <1>9, <1>10, <1>11, <1>12, ChildTracks

LEMMA TouchingTracks ==
  MarkersDiffer /\ ScraperInv /\ CursorInv /\ (Home \/ ShowOrHide) => CursorInv'
<1> SUFFICES ASSUME ScraperInv, CursorInv, Home \/ ShowOrHide PROVE CursorInv'
  OBVIOUS
<1> DEFINE n == scr.counter
<1>1. /\ gone \in Nat /\ Rows(con, n) /\ Console(con) /\ n \in Nat /\ missed \in BOOLEAN
      /\ DOMAIN con = ConFields /\ Window(con)
  BY PiecesAre DEF Console
<1>2. con.x \in Nat /\ IsPaper(paper)
  BY DEF CursorInv, Pieces
<1>3. /\ DOMAIN con' = ConFields /\ con'.w = con.w /\ con'.h = con.h /\ con'.top = con.top
      /\ con'.winW = con.winW /\ con'.winH = con.winH /\ con'.rows = con.rows
      /\ con'.y = con.y \/ con'.y = con.top
      /\ con'.x \in Nat
  <2>1. CASE Home
    BY <1>1, <1>2, <2>1 DEF Home, ConFields
  <2>2. CASE ShowOrHide
    BY <1>1, <1>2, <2>2 DEF ShowOrHide, ConFields
  <2>3. QED BY <2>1, <2>2
<1>4. Child /\ saved' = saved /\ cleared' = cleared /\ paper' = paper /\ missed' = missed
  BY DEF Home, ShowOrHide
<1>5. Console(con)'
  BY <1>1, <1>3 DEF Console, Window
<1>6. Rows(con', n)
  BY <1>1, <1>3 DEF Rows
<1>7. gone' = gone + 0
  BY <1>1, <1>4 DEF gone
<1>8. ASSUME NEW slid \in Int, Counts(con, scr, slid) PROVE Counts(con', scr, slid + 0)
  <2>1. slid + 0 = slid
    OBVIOUS
  <2>2. QED BY <1>3, <1>8, <2>1 DEF Counts, MarkedAt
<1>9. con.top <= con'.top
  BY <1>1, <1>3 DEF Window
<1>10. IsPaper(paper') /\ missed' \in BOOLEAN
  BY <1>1, <1>2, <1>4
<1>11. 0 \in Nat
  OBVIOUS
<1>12. QED BY <1>3, <1>4, <1>5, <1>6, <1>7, <1>8, <1>9, <1>10, <1>11, ChildTracks

LEMMA ClearingTracks ==
  MarkersDiffer /\ ScraperInv /\ CursorInv /\ ClearScreen => CursorInv'
<1> SUFFICES ASSUME MarkersDiffer, ScraperInv, CursorInv, ClearScreen PROVE CursorInv'
  OBVIOUS
<1> DEFINE n == scr.counter
           h == con.h
           d == clearLines(con, 0, h)
<1>1. /\ gone \in Nat /\ Rows(con, n) /\ Console(con) /\ n \in Nat /\ missed \in BOOLEAN
      /\ DOMAIN con = ConFields /\ Window(con) /\ con.h \in Int
  BY PiecesAre DEF Console, Window
<1>2. con.x \in Nat /\ IsPaper(paper)
  BY DEF CursorInv, Pieces
<1>3. /\ Rows(d, n) /\ d.h = con.h
      /\ \A r \in 0..(con.h - 1) :
           d.rows[r] = IF r >= 0 /\ r < 0 + h THEN Blanks(con.w) ELSE con.rows[r]
  <2> HIDE DEF h
  <2>1. QED BY <1>1, ClearingRows
<1>4. SameShape(con, d)
  BY <1>1, ClearingKeepsShape
<1>5. con' = [d EXCEPT !.x = 0, !.y = 0, !.top = 0]
  BY DEF ClearScreen
<1>6. \A r \in 0..(con.h - 1) : d.rows[r] = Blanks(con.w)
  <2> HIDE DEF d
  <2>1. QED BY <1>1, <1>3
<1> HIDE DEF d
<1>7. /\ DOMAIN con' = ConFields /\ con'.w = con.w /\ con'.h = con.h /\ con'.top = 0
      /\ con'.winW = con.winW /\ con'.winH = con.winH /\ con'.y = 0 /\ con'.x = 0
      /\ con'.rows = d.rows
  BY <1>1, <1>4, <1>5 DEF SameShape, ConFields
<1>8. Console(con)'
  BY <1>1, <1>7 DEF Console, Window
<1>9. Rows(con', n)
  BY <1>3, <1>7 DEF Rows
<1>10. /\ Child /\ saved' = saved /\ paper' = paper /\ missed' = missed
       /\ cleared' = (cleared \/ pc \notin {"idle", "info"})
  BY DEF ClearScreen
<1>11. gone' = gone + 0
  BY <1>1, <1>10 DEF gone
<1>12. ASSUME NEW slid \in Int, Counts(con, scr, slid) PROVE Counts(con', scr, slid + 0)
  <2>1. slid + 0 = slid
    OBVIOUS
  <2>2. ASSUME NEW r \in 0..(con'.h - 1) PROVE con'.rows[r][1] # Marker(scr)
    <3>1. con'.rows[r] = Blanks(con.w) /\ con.w \in Int /\ 1 <= con.w
      BY <1>1, <1>6, <1>7 DEF Window
    <3>2. con'.rows[r][1] = Blank
      BY <3>1 DEF Blanks
    <3>3. QED BY <1>1, <3>2 DEF MarkersDiffer, Marker
  <2>3. MarkedAt(con', scr, slid)
    BY <2>2 DEF MarkedAt
  <2>4. QED BY <1>12, <2>1, <2>3 DEF Counts
<1>13. /\ cleared => cleared'
       /\ pc = "idle" => cleared' = cleared
       /\ cleared' \/ pc \in {"idle", "info"}
  <2>1. cleared \in BOOLEAN
    BY DEF ScraperInv, ScraperTypeOK
  <2>2. QED BY <1>10, <2>1
<1>14. IsPaper(paper') /\ missed' \in BOOLEAN /\ con'.x \in Nat
  BY <1>1, <1>2, <1>7, <1>10
<1>15. 0 \in Nat
  OBVIOUS
<1>16. QED BY <1>7, <1>8, <1>9, <1>10, <1>11, <1>12, <1>13, <1>14, <1>15, ChildTracks

LEMMA SwitchingTracks ==
  MarkersDiffer /\ ScraperInv /\ CursorInv /\ (Enter \/ Leave) => CursorInv'
<1> SUFFICES ASSUME MarkersDiffer, ScraperInv, CursorInv, Enter \/ Leave PROVE CursorInv'
  OBVIOUS
<1> DEFINE n == scr.counter
<1>1. /\ UNCHANGED <<frozen, scr, term, pc, info, readBuf, force, resizes, base, misled,
                     blind, refused, paper, missed, cleared>>
      /\ ~frozen /\ moved' = (pc # "idle") /\ synced' = FALSE /\ pc = "idle"
  BY DEF Child, Enter, Leave
<1>2. /\ gone \in Nat /\ Seen(Round) /\ n \in Nat /\ Rows(con, n) /\ Console(con)
      /\ Members(scr) /\ term.height = scr.ptySize[2]
      /\ saved = <<>> <=> con.h = BUFFER_LINE_COUNT
      /\ Window(con)
  BY PiecesAre DEF Console
<1>3. Pieces /\ KnowsLines /\ Going /\ Unresized
  BY DEF CursorInv
<1>4. /\ Rows(con', n) /\ con'.x \in Nat /\ Tabled' = Tabled
      /\ saved' # <<>> =>
           Rows(saved'[1], n) /\ saved'[1].x \in Nat /\ con'.h # BUFFER_LINE_COUNT
      /\ con'.winH = con.winH \/ con'.winH = Tabled.winH
  <2>1. CASE Enter
    <3> DEFINE rows == [r \in 0..(con.winH - 1) |-> Blanks(con.winW)]
    <3>1. /\ con' = NewConsole(con.modern, con.winW, con.winH, con.winW, con.winH)
          /\ saved = <<>> /\ saved' = <<con>>
      BY <2>1 DEF Enter
    <3>2. con'.h = con.winH /\ con'.x = 0 /\ con'.winH = con.winH /\ con'.rows = rows
      BY <3>1 DEF NewConsole
    <3>3. con.winH # BUFFER_LINE_COUNT /\ con.winW \in Int /\ 1 <= con.winW
      BY <1>2, ScraperAssumption DEF Window
    <3>4. 1 \in DOMAIN Blanks(con.winW) /\ Blanks(con.winW)[1] = Blank
      BY <3>3 DEF Blanks
    <3>5. Rows(con', n)
      BY <3>2, <3>4 DEF Rows, MarkersDiffer
    <3>6. Tabled' = con /\ Tabled = con /\ saved'[1] = con
      BY <3>1 DEF Tabled
    <3>7. con.x \in Nat
      BY <1>3 DEF Pieces
    <3>8. QED BY <1>2, <3>2, <3>3, <3>5, <3>6, <3>7
  <2>2. CASE Leave
    <3>1. saved # <<>> /\ saved' = <<>> /\ con' = saved[1]
      BY <2>2 DEF Leave
    <3>2. Tabled' = con' /\ Tabled = con'
      BY <3>1 DEF Tabled
    <3>3. Rows(saved[1], n) /\ saved[1].x \in Nat
      BY <1>3, <3>1 DEF Pieces
    <3>4. QED BY <3>1, <3>2, <3>3
  <2>3. QED BY <2>1, <2>2
<1>5. Pieces'
  <2>1. Seen(Round)'
    BY <1>1, <1>2, <1>4 DEF Seen, Round
  <2>2. IsPaper(paper') /\ resizes' \in Nat /\ Tabled'.h = BUFFER_LINE_COUNT
    BY <1>1, <1>3, <1>4 DEF Pieces
  <2>3. QED BY <1>1, <1>4, <2>1, <2>2 DEF Pieces
<1>6. Slid(Round)' = Slid(Round) /\ Lost(Round)' = Lost(Round)
  BY <1>1 DEF Slid, Lost, Round, gone
<1>7. KnowsLines'
  <2>1. ASSUME ~scr.directMode PROVE cleared \/ Lost(Round)' \/ Counts(Tabled, scr, Slid(Round))'
    <3>1. cleared \/ Lost(Round) \/ Counts(Tabled, scr, Slid(Round))
      BY <1>3, <2>1 DEF KnowsLines
    <3>2. QED BY <1>1, <1>4, <1>6, <3>1
  <2>2. scr.directMode => DirectPlace(Round)'
    BY <1>1, <1>3 DEF KnowsLines, DirectPlace, Round
  <2>3. QED BY <1>1, <2>1, <2>2 DEF KnowsLines
<1>8. Going'
  <2>1. ~moved' /\ ~cleared' /\ ~force'
    BY <1>1, <1>3 DEF Going
  <2>2. QED BY <1>1, <2>1 DEF Going, Resizing, Scrolling
<1>9. Unresized'
  <2>1. visibleRows' = visibleRows /\ visibleRows \in Int /\ visibleRows <= scr.ptySize[2]
    <3>1. visibleRows' = visibleRows
      BY <1>1 DEF visibleRows
    <3>2. QED BY <1>2, <3>1, VisibleIs
  <2> SUFFICES ASSUME resizes = 0
               PROVE  /\ con'.winH <= term.height /\ Tabled'.winH = visibleRows'
                      /\ ~cleared /\ ~missed /\ ~misled =>
                           IF scr.directMode THEN ~term.stopped /\ term.top <= 1
                           ELSE OnTop(Round, 0)'
    BY <1>1 DEF Unresized, Scrolling, Resizing
  <2>2. /\ con.winH <= term.height /\ Tabled.winH = visibleRows
        /\ ~cleared /\ ~missed /\ ~misled =>
             IF scr.directMode THEN ~term.stopped /\ term.top <= 1
             ELSE OnTop(Round, 0)
    BY <1>1, <1>3 DEF Unresized, Scrolling, Resizing
  <2>3. con'.winH <= term.height /\ Tabled'.winH = visibleRows'
    BY <1>2, <1>4, <2>1, <2>2
  <2>4. OnTop(Round, 0) => OnTop(Round, 0)'
    BY <1>1 DEF OnTop, Round
  <2>5. QED BY <2>2, <2>3, <2>4
<1>10. Placed'
  BY <1>1 DEF Placed
<1>11. QED BY <1>5, <1>7, <1>8, <1>9, <1>10 DEF CursorInv

(* A round begins.                                                          *)
LEMMA ScrapeTracks == ScraperInv /\ CursorInv /\ Scrape => CursorInv'
<1> SUFFICES ASSUME ScraperInv, CursorInv, Scrape PROVE CursorInv'
  OBVIOUS
<1>1. /\ UNCHANGED <<con, saved, scr, term, info, readBuf, resizes, base, erased, missed,
                     misled, blind, paper, moved, cleared, synced>>
      /\ pc = "idle" /\ pc' = "info" /\ force' = FALSE /\ frozen' = (FALSE \/ ~newW10)
  BY DEF Scrape, Begin, Goto, historyVars
<1>2. Pieces /\ KnowsLines /\ Going /\ Unresized /\ Placed
  BY DEF CursorInv
<1>3. /\ Round' = Round /\ Tabled' = Tabled /\ gone' = gone /\ visibleRows' = visibleRows
  BY <1>1 DEF Round, Tabled, gone, visibleRows
<1>4. Slid(Round)' = Slid(Round)
  BY <1>3 DEF Slid
<1>5. Pieces'
  BY <1>1, <1>2, <1>3 DEF Pieces
<1>6. KnowsLines'
  BY <1>1, <1>2, <1>3, <1>4 DEF KnowsLines, Lost, DirectPlace
<1>7. Going'
  BY <1>1, <1>2 DEF Going, Resizing, Scrolling
<1>8. Unresized'
  BY <1>1, <1>2, <1>3 DEF Unresized, Scrolling, Resizing, OnTop
<1>9. CursorPlaced' = CursorPlaced
  BY <1>1 DEF CursorPlaced, mirrorCols, mirrorRows, cursorInside, cursorInWindow, Info, gone
<1>10. Placed'
  BY <1>1, <1>2, <1>9 DEF Placed
<1>11. QED BY <1>5, <1>6, <1>7, <1>8, <1>10 DEF CursorInv

LEMMA ResizeTracks ==
  ScraperInv /\ CursorInv /\ (\E size \in Sizes : Resize(size)) => CursorInv'
<1> SUFFICES ASSUME ScraperInv, CursorInv, NEW size \in Sizes, Resize(size) PROVE CursorInv'
  OBVIOUS
<1> DEFINE u == Resized(term, size)
           v == [scr EXCEPT !.ptySize = size]
<1>1. /\ UNCHANGED <<con, saved, info, readBuf, base, erased, missed,
                     misled, blind, paper, moved, cleared>>
      /\ pc = "idle" /\ pc' = "info" /\ force' = TRUE /\ frozen' = (TRUE \/ ~newW10)
      /\ synced' = FALSE /\ resizes' = resizes + 1 /\ scr' = v /\ term' = u
  BY DEF Resize, Begin, Goto, historyVars
<1>2. Pieces /\ KnowsLines /\ Going
  BY DEF CursorInv
<1>3. /\ gone \in Nat /\ Seen(Round) /\ Pictured(term) /\ Members(scr)
      /\ Rows(con, scr.counter) /\ base \in Int /\ scr.counter \in Nat
      /\ missed \in BOOLEAN /\ blind \in BOOLEAN
      /\ blind \/ term.hidden \/ term.shown
  BY PiecesAre
<1>4. DOMAIN scr = ScrFields
  BY <1>3 DEF Members
<1>5. /\ v.syncRow = scr.syncRow /\ v.counter = scr.counter /\ v.scrolled = scr.scrolled
      /\ v.ptySize = size /\ v.directMode = scr.directMode
  <2>1. v.syncRow = scr.syncRow /\ v.counter = scr.counter
    BY <1>4 DEF ScrFields
  <2>2. v.scrolled = scr.scrolled /\ v.directMode = scr.directMode
    BY <1>4 DEF ScrFields
  <2>3. v.ptySize = size
    BY <1>4 DEF ScrFields
  <2>4. QED BY <2>1, <2>2, <2>3
<1> DEFINE a == term.y + 1 - size[2]
           top == Max({term.top, a})
<1>6. size[2] \in Int /\ top \in Int
  <2>1. size[2] \in Int
    BY SizesAre
  <2>2. term.y \in Int /\ term.top \in Int
    BY <1>3 DEF Pictured
  <2>3. a \in Int
    BY <2>1, <2>2
  <2> HIDE DEF a
  <2>4. Max({term.top, a}) \in Int
    BY <2>2, <2>3, MaxOf
  <2>5. QED BY <2>1, <2>4
<1>7. u = [term EXCEPT !.width = size[1], !.height = size[2], !.top = top]
  BY DEF Resized
<1> HIDE DEF top, a, u, v
<1>8. /\ DOMAIN u = TermFields /\ u.height = size[2] /\ u.top = top
      /\ u.line = term.line /\ u.y = term.y /\ u.hidden = term.hidden
      /\ u.shown = term.shown /\ u.stopped = term.stopped /\ u.column = term.column
      /\ u.x = term.x /\ u.data = term.data /\ u.valid = term.valid
  BY <1>3, <1>7 DEF Pictured, TermFields
<1>9. Pictured(u)
  BY <1>3, <1>6, <1>8 DEF Pictured
<1>10. Pieces'
  <2>1. Seen(Round)'
    BY <1>1, <1>3, <1>5, <1>8, <1>9 DEF Seen, Round
  <2>2. /\ resizes' \in Nat /\ Tabled' = Tabled
        /\ IsPaper(paper') /\ con'.x \in Nat
    BY <1>1, <1>2 DEF Pieces, Tabled
  <2>3. QED BY <1>1, <1>2, <1>5, <2>1, <2>2 DEF Pieces
<1>11. Slid(Round)' = Slid(Round) /\ Lost(Round)' = Lost(Round)
  BY <1>1, <1>5, <1>8 DEF Slid, Lost, Round, gone
<1>12. KnowsLines'
  <2>1. \A slid \in Int : Counts(Tabled, scr, slid) => Counts(Tabled, scr', slid)
    BY <1>1, <1>5 DEF Counts, MarkedAt, Marker
  <2>2. Slid(Round) \in Int
    BY <1>3, PiecesAre, SlidIs
  <2>3. Tabled' = Tabled
    BY <1>1 DEF Tabled
  <2>4. scr.directMode => DirectPlace(Round)'
    BY <1>1, <1>2, <1>8 DEF KnowsLines, DirectPlace, Round
  <2>5. QED BY <1>1, <1>2, <1>5, <1>11, <2>1, <2>2, <2>3, <2>4 DEF KnowsLines
<1>13. Going'
  BY <1>1, <1>2, <1>5 DEF Going, Resizing, Scrolling
<1>14. Unresized'
  BY <1>1, <1>2 DEF Unresized, Pieces
<1>15. Placed'
  BY <1>1 DEF Placed
<1>16. QED BY <1>10, <1>12, <1>13, <1>14, <1>15 DEF CursorInv

(* A step of the agent that only looks.                                     *)
LEMMA LookingTracks ==
  ASSUME ScraperInv, CursorInv,
         UNCHANGED <<con, saved, scr, term, base, erased, missed, misled, blind, paper,
                     resizes, moved, cleared, synced>>,
         pc' \in Scrolling \cup {"mode"}, info'.x \in Nat,
         pc' \in Scrolling => pc \in Scrolling /\ info' = info,
         pc' = "mode" => pc = "info" /\ info' = Info(con),
         force' = force, force => frozen',
         pc' \in {"check", "check marker"} =>
           Lines(readBuf, FirstVirtLine(scr, info) - scr.scrolled, info.top + info.winH, info.w)'
  PROVE  CursorInv'
<1>1. Pieces /\ KnowsLines /\ Going /\ Unresized /\ Placed
  BY DEF CursorInv
<1>2. /\ Round' = Round /\ Tabled' = Tabled /\ gone' = gone /\ visibleRows' = visibleRows
  BY DEF Round, Tabled, gone, visibleRows
<1>3. Slid(Round)' = Slid(Round)
  BY <1>2 DEF Slid
<1>4. Pieces'
  BY <1>1, <1>2 DEF Pieces
<1>5. pc' \notin {"idle", "info", "erase", "direct", "end"} \cup Resizing
  BY DEF Scrolling, Resizing
<1>6. KnowsLines'
  BY <1>1, <1>2, <1>3, <1>5 DEF KnowsLines, Lost, DirectPlace
<1>7. Info(con)' = Info(con)
  BY DEF Info
<1>8. Going'
  <2>1. pc' \notin {"idle", "info", "mode"} => pc \in Scrolling
    BY <1>5 DEF Scrolling
  <2>2. pc' \notin {"idle", "info", "mode"} => (scr'.directMode <=> saved' # <<>>)
    BY <1>1, <2>1 DEF Going, Scrolling
  <2>3. synced' => ~moved' /\ ~force' /\ (scr'.directMode <=> saved' # <<>>)
    BY <1>1 DEF Going
  <2>4. cleared' => moved'
    BY <1>1 DEF Going
  <2>5. ~moved' /\ ~force' => info' = Info(con)'
    BY <1>1, <1>7 DEF Going, Scrolling
  <2>6. QED BY <1>5, <2>2, <2>3, <2>4, <2>5 DEF Going
<1>9. Unresized'
  <2> SUFFICES ASSUME resizes = 0
               PROVE  /\ con.winH <= term.height /\ Tabled.winH = visibleRows
                      /\ info'.winH <= term.height
                      /\ ~cleared /\ ~missed /\ ~misled =>
                           IF scr.directMode THEN ~term.stopped /\ term.top <= 1
                           ELSE OnTop(Round, IF pc' \in Scrolling THEN info'.top ELSE 0)
    BY <1>2, <1>5 DEF Unresized, OnTop
  <2>1. /\ con.winH <= term.height /\ Tabled.winH = visibleRows
        /\ pc \notin {"idle", "info"} => info.winH <= term.height
        /\ ~cleared /\ ~missed /\ ~misled =>
             IF scr.directMode THEN ~term.stopped /\ term.top <= 1
             ELSE OnTop(Round, IF pc \in Scrolling THEN info.top ELSE 0)
    BY <1>1 DEF Unresized
  <2>2. CASE pc' \in Scrolling
    <3>1. pc \in Scrolling /\ pc \notin {"idle", "info"} /\ info' = info
      BY <2>2 DEF Scrolling
    <3>2. QED BY <2>1, <2>2, <3>1
  <2>3. CASE pc' \notin Scrolling
    <3>1. pc' = "mode"
      BY <2>3
    <3>2. pc = "info" /\ info' = Info(con)
      BY <3>1
    <3>3. info'.winH = con.winH
      BY <3>2 DEF Info
    <3>4. pc \notin Scrolling
      BY <3>2 DEF Scrolling
    <3>5. QED BY <2>1, <2>3, <3>3, <3>4
  <2>4. QED BY <2>2, <2>3
<1>10. CursorPlaced' = CursorPlaced
  BY DEF CursorPlaced, mirrorCols, mirrorRows, cursorInside, cursorInWindow, Info, gone
<1>11. Placed'
  BY <1>1, <1>5, <1>10 DEF Placed
<1>12. QED BY <1>4, <1>6, <1>8, <1>9, <1>11 DEF CursorInv

LEMMA ReadingInfoTracks == ScraperInv /\ CursorInv /\ ReadInfo => CursorInv'
<1> SUFFICES ASSUME ScraperInv, CursorInv, ReadInfo PROVE CursorInv'
  OBVIOUS
<1>1. /\ pc = "info" /\ pc' = "mode" /\ info' = Info(con)
      /\ UNCHANGED <<con, saved, scr, term, base, erased, missed, misled, blind, paper,
                     resizes, moved, cleared, synced, frozen, force>>
  BY DEF ReadInfo, Goto, agentIdle
<1>2. con.x \in Nat /\ (force => frozen)
  BY <1>1 DEF CursorInv, Pieces, Going
<1>3. info'.x \in Nat
  BY <1>1, <1>2 DEF Info
<1>4. pc' \notin Scrolling
  BY <1>1 DEF Scrolling
<1>5. QED BY <1>1, <1>2, <1>3, <1>4, LookingTracks

LEMMA StartingOverTracks ==
  ASSUME ScraperInv, CursorInv, pc \in Scrolling, StartOver
  PROVE  CursorInv'
<1>1. /\ pc' = "scroll" /\ frozen'
      /\ UNCHANGED <<con, saved, scr, term, base, erased, missed, misled, blind, paper,
                     resizes, moved, cleared, synced, info, force>>
  BY DEF StartOver, Goto, agentIdle
<1>2. info.x \in Nat
  BY DEF CursorInv, Pieces, Scrolling
<1>3. pc' \in Scrolling
  BY <1>1 DEF Scrolling
<1>4. QED BY <1>1, <1>2, <1>3, LookingTracks

LEMMA ReadingTracks == ScraperInv /\ CursorInv /\ (ReadLines \/ CheckInfo) => CursorInv'
<1> SUFFICES ASSUME ScraperInv, CursorInv, ReadLines \/ CheckInfo PROVE CursorInv'
  OBVIOUS
<1>1. pc \in {"read", "check"} /\ pc \in Scrolling
  BY DEF ReadLines, CheckInfo, Scrolling
<1>2. CASE StartOver
  BY <1>1, <1>2, StartingOverTracks
<1>3. CASE ~StartOver
  <2>1. info.x \in Nat /\ (force => frozen)
    BY <1>1 DEF CursorInv, Pieces, Going
  <2>2. Members(scr) /\ Window(info)
    BY <1>1 DEF ScraperInv, ScraperTypeOK, InfoKnown
  <2>3. /\ pc' \in {"check", "check marker"}
        /\ UNCHANGED <<con, saved, scr, term, base, erased, missed, misled, blind, paper,
                       resizes, moved, cleared, synced, info, force, frozen>>
        /\ Lines(readBuf', FirstVirtLine(scr, info) - scr.scrolled, info.top + info.winH, info.w)
    <3>1. CASE ReadLines
      <4>1. readBuf' = Read(con, scr, info)
        BY <3>1 DEF ReadLines
      <4>2. Lines(readBuf', FirstVirtLine(scr, info) - scr.scrolled, info.top + info.winH,
                  info.w)
        BY <2>2, <4>1, LinesAreRead
      <4>3. QED BY <3>1, <4>2 DEF ReadLines, Goto, agentIdle
    <3>2. CASE CheckInfo
      <4>1. pc = "check" /\ readBuf' = readBuf
        BY <1>3, <3>2 DEF CheckInfo
      <4>2. Lines(readBuf', FirstVirtLine(scr, info) - scr.scrolled, info.top + info.winH,
                  info.w)
        BY <4>1 DEF CursorInv, Pieces
      <4>3. QED BY <1>3, <3>2, <4>2 DEF CheckInfo, Goto, agentIdle
    <3>3. QED BY <3>1, <3>2
  <2>4. pc' \in Scrolling
    BY <2>3 DEF Scrolling
  <2>5. Lines(readBuf, FirstVirtLine(scr, info) - scr.scrolled, info.top + info.winH, info.w)'
    BY <2>3
  <2>6. pc' # "mode"
    BY <2>3
  <2>7. QED BY <1>1, <2>1, <2>3, <2>4, <2>5, <2>6, LookingTracks
<1>4. QED BY <1>2, <1>3

LEMMA CursorStutters == CursorInv /\ UNCHANGED vars => CursorInv'
<1> SUFFICES ASSUME CursorInv, UNCHANGED vars PROVE CursorInv'
  OBVIOUS
<1>1. UNCHANGED <<con, saved, frozen, scr, term, pc, info, readBuf, force, resizes, paper,
                  base, erased, missed, misled, blind, moved, cleared, synced>>
  BY DEF vars, historyVars
<1>2. Pieces /\ KnowsLines /\ Going /\ Unresized /\ Placed
  BY DEF CursorInv
<1>3. /\ Round' = Round /\ Tabled' = Tabled /\ gone' = gone /\ visibleRows' = visibleRows
      /\ Info(con)' = Info(con)
  BY <1>1 DEF Round, Tabled, gone, visibleRows, Info
<1>4. Slid(Round)' = Slid(Round)
  BY <1>3 DEF Slid
<1>5. Pieces'
  BY <1>1, <1>2, <1>3 DEF Pieces
<1>6. KnowsLines'
  <2>1. /\ Lost(Round)' <=> Lost(Round)
        /\ DirectPlace(Round)' <=> DirectPlace(Round)
        /\ Still(Round)' <=> Still(Round)
    <3>1. Round' = Round /\ Slid(Round)' = Slid(Round)
      BY <1>3, <1>4
    <3>2. Lost(Round)' <=> Lost(Round)
      BY ONLY <3>1 DEF Lost
    <3>3. DirectPlace(Round)' <=> DirectPlace(Round)
      BY ONLY <3>1 DEF DirectPlace
    <3>4. Still(Round)' <=> Still(Round)
      BY ONLY <3>1, <3>2 DEF Still
    <3>5. QED BY <3>2, <3>3, <3>4
  <2>2. Counts(Tabled, scr, Slid(Round))' <=> Counts(Tabled, scr, Slid(Round))
    <3>1. scr' = scr /\ Tabled' = Tabled /\ Slid(Round)' = Slid(Round)
      BY <1>1, <1>3, <1>4
    <3>2. QED BY ONLY <3>1, Zenon
  <2>3. (scr'.directMode <=> scr.directMode) /\ (cleared' <=> cleared) /\ pc' = pc
    BY <1>1, Zenon
  <2>4. QED BY <1>2, <2>1, <2>2, <2>3 DEF KnowsLines
<1>7. Going'
  BY <1>1, <1>2, <1>3 DEF Going
<1>8. Unresized'
  BY <1>1, <1>2, <1>3 DEF Unresized, OnTop
<1>9. CursorPlaced' = CursorPlaced
  BY <1>1 DEF CursorPlaced, mirrorCols, mirrorRows, cursorInside, cursorInWindow, Info, gone
<1>10. Placed'
  BY <1>1, <1>2, <1>9 DEF Placed
<1>11. QED BY <1>5, <1>6, <1>7, <1>8, <1>10 DEF CursorInv

LEMMA EndingTracks == ScraperInv /\ CursorInv /\ EndRound => CursorInv'
<1> SUFFICES ASSUME ScraperInv, CursorInv, EndRound PROVE CursorInv'
  OBVIOUS
<1>1. /\ pc = "end" /\ pc' = "idle" /\ frozen' = FALSE /\ force' = FALSE
      /\ synced' = (~moved /\ ~force) /\ moved' = FALSE /\ cleared' = FALSE
      /\ blind' = (blind /\ ~term.shown) /\ misled' = (misled \/ cleared)
      /\ UNCHANGED <<con, saved, scr, term, resizes, paper, base, erased, missed>>
  BY DEF EndRound, Goto
<1>2. Pieces /\ KnowsLines /\ Going /\ Unresized /\ Placed
  BY DEF CursorInv
<1>3. /\ Seen(Round) /\ Pictured(term) /\ base \in Int /\ scr.counter \in Nat
      /\ missed \in BOOLEAN /\ blind \in BOOLEAN /\ Rows(con, scr.counter)
      /\ blind \/ term.hidden \/ term.shown
      /\ term.height = scr.ptySize[2]
  BY PiecesAre
<1>4. /\ Tabled' = Tabled /\ gone' = gone /\ visibleRows' = visibleRows
  BY <1>1 DEF Tabled, gone, visibleRows
<1>5. term.shown \in BOOLEAN /\ misled \in BOOLEAN /\ cleared \in BOOLEAN
  BY <1>3 DEF Pictured, ScraperInv, ScraperTypeOK
<1>6. blind' \in BOOLEAN /\ (blind' \/ term.hidden \/ term.shown)
  BY <1>1, <1>3, <1>5, Zenon
<1>7. Pieces'
  <2>1. Seen(Round)'
    BY <1>1, <1>3, <1>6 DEF Seen, Round
  <2>2. QED BY <1>1, <1>2, <1>4, <2>1 DEF Pieces
<1>8. Slid(Round)' = Slid(Round) /\ (cleared \/ Lost(Round) => Lost(Round)')
  BY <1>1 DEF Slid, Lost, Round, gone
<1>9. KnowsLines'
  <2>1. scr.directMode => DirectPlace(Round)'
    BY <1>1, <1>2 DEF KnowsLines, DirectPlace, Round
  <2>2. QED BY <1>1, <1>2, <1>4, <1>8, <2>1 DEF KnowsLines
<1>10. Going'
  BY <1>1, <1>2 DEF Going, Resizing, Scrolling
<1>11. ~misled' => ~misled /\ ~cleared
  BY <1>1
<1>12. Unresized'
  <2> SUFFICES ASSUME resizes = 0
               PROVE  /\ con.winH <= term.height /\ Tabled.winH = visibleRows
                      /\ ~missed /\ ~misled' =>
                           IF scr.directMode THEN ~term.stopped /\ term.top <= 1
                           ELSE OnTop(Round, 0)'
    BY <1>1, <1>4 DEF Unresized, Scrolling, Resizing
  <2>1. /\ con.winH <= term.height /\ Tabled.winH = visibleRows
        /\ ~cleared /\ ~missed /\ ~misled =>
             IF scr.directMode THEN ~term.stopped /\ term.top <= 1 ELSE OnTop(Round, 0)
    BY <1>1, <1>2 DEF Unresized, Scrolling
  <2>2. OnTop(Round, 0) => OnTop(Round, 0)'
    BY <1>1 DEF OnTop, Round
  <2>3. QED BY <1>11, <2>1, <2>2
<1>13. Placed'
  <2> SUFFICES ASSUME synced', ~missed, ~misled', ~(term.stopped /\ resizes > 0)
               PROVE  CursorPlaced'
    BY <1>1 DEF Placed
  <2>1. CursorPlaced
    BY <1>1, <1>2, <1>11 DEF Placed
  <2>2. term.shown \/ blind => term.shown \/ blind'
    BY <1>1, <1>5
  <2> DEFINE first  == IF scr.directMode THEN con.top ELSE base - gone
             inside == IF scr.directMode
                         THEN con.x < mirrorCols
                              /\ con.y \in con.top..(con.top + mirrorRows - 1)
                         ELSE cursorInside(Info(con))
  <2>3. IF con.visible /\ inside
          THEN /\ term.shown \/ blind
               /\ term.x = con.x /\ term.y = con.y - first + 1
          ELSE ~term.shown
    BY <2>1 DEF CursorPlaced
  <2>4. inside' = inside /\ first' = first
    BY <1>1 DEF mirrorCols, mirrorRows, cursorInside, cursorInWindow, Info, gone
  <2>5. IF con'.visible /\ inside'
          THEN /\ term'.shown \/ blind'
               /\ term'.x = con'.x /\ term'.y = con'.y - first' + 1
          ELSE ~term'.shown
    <3> HIDE DEF inside, first
    <3>1. con' = con /\ term' = term
      BY <1>1
    <3>2. QED BY <2>2, <2>3, <2>4, <3>1
  <2>6. QED BY <2>5 DEF CursorPlaced
<1>14. QED BY <1>7, <1>9, <1>10, <1>12, <1>13 DEF CursorInv

(* The cursor is where the tracking says, by what the round knows.          *)
CursorSeen(r, i) == IF r.scr.directMode THEN DirectShows(i) ELSE i.visible /\ cursorInside(i)
CursorDrawnAt(r, i) ==
  CursorAt(r, i, CursorSeen(r, i), IF r.scr.directMode THEN i.top ELSE r.base - gone)

LEMMA PlacedIsDrawn ==
  ASSUME ScraperInv, CursorPlaced, NEW r, r.term = term, r.base = base, r.blind = blind,
         r.scr.directMode = scr.directMode
  PROVE  CursorDrawnAt(r, Info(con))
<1>1. /\ con.top \in Int /\ con.y \in Int /\ con.winW \in Int /\ con.winH \in Int
      /\ Members(scr)
  BY DEF ScraperInv, ScraperTypeOK, Console, Window
<1>2. mirrorRows \in Int
  <2>1. scr.ptySize[2] \in Int
    BY <1>1, SizesAre DEF Members
  <2>2. QED BY <1>1, <2>1, MaxOf DEF mirrorRows
<1>3. DEFINE i == Info(con)
<1>4. /\ i.top = con.top /\ i.y = con.y /\ i.x = con.x /\ i.visible = con.visible
      /\ i.winW = con.winW /\ i.winH = con.winH
  BY DEF Info
<1>5. DirectWidth(i) = mirrorCols /\ DirectHeight(i) = mirrorRows
  BY <1>4 DEF DirectWidth, DirectHeight, mirrorCols, mirrorRows
<1>6. CASE scr.directMode
  <2>1. CursorSeen(r, i) <=>
          con.visible /\ con.x < mirrorCols /\ con.y \in con.top..(con.top + mirrorRows - 1)
    BY <1>1, <1>2, <1>4, <1>5, <1>6 DEF CursorSeen, DirectShows
  <2>2. IF con.visible /\ con.x < mirrorCols /\ con.y \in con.top..(con.top + mirrorRows - 1)
          THEN /\ term.shown \/ blind
               /\ term.x = con.x /\ term.y = con.y - con.top + 1
          ELSE ~term.shown
    BY <1>6 DEF CursorPlaced
  <2> HIDE DEF i
  <2>3. QED BY <1>4, <1>6, <2>1, <2>2 DEF CursorDrawnAt, CursorAt, i
<1>7. CASE ~scr.directMode
  <2>1. CursorSeen(r, i) <=> con.visible /\ cursorInside(i)
    BY <1>4, <1>7 DEF CursorSeen
  <2>2. IF con.visible /\ cursorInside(i)
          THEN /\ term.shown \/ blind
               /\ term.x = con.x /\ term.y = con.y - (base - gone) + 1
          ELSE ~term.shown
    BY <1>7 DEF CursorPlaced
  <2> HIDE DEF i
  <2>3. QED BY <1>4, <1>7, <2>1, <2>2 DEF CursorDrawnAt, CursorAt, i
<1>8. QED BY <1>6, <1>7

LEMMA DrawnIsPlaced ==
  ASSUME ScraperInv, NEW r, Apply(r), paper' = paper, SameShape(con, r.con),
         SameCursor(con, r.con), r.scr.ptySize = scr.ptySize, CursorDrawnAt(r, Info(con))
  PROVE  CursorPlaced'
<1>1. /\ con.top \in Int /\ con.y \in Int /\ con.winW \in Int /\ con.winH \in Int
      /\ Members(scr)
  BY DEF ScraperInv, ScraperTypeOK, Console, Window
<1>2. mirrorRows \in Int
  <2>1. scr.ptySize[2] \in Int
    BY <1>1, SizesAre DEF Members
  <2>2. QED BY <1>1, <2>1, MaxOf DEF mirrorRows
<1>3. DEFINE i == Info(con)
<1>4. /\ i.top = con.top /\ i.y = con.y /\ i.x = con.x /\ i.visible = con.visible
      /\ i.winW = con.winW /\ i.winH = con.winH
  BY DEF Info
<1>5. DirectWidth(i) = mirrorCols /\ DirectHeight(i) = mirrorRows
  BY <1>4 DEF DirectWidth, DirectHeight, mirrorCols, mirrorRows
<1>6. /\ con' = r.con /\ scr' = r.scr /\ term' = r.term /\ base' = r.base /\ blind' = r.blind
      /\ gone' = gone
  BY DEF Apply, gone
<1>7. /\ con'.top = con.top /\ con'.y = con.y /\ con'.x = con.x /\ con'.visible = con.visible
      /\ con'.winW = con.winW /\ con'.winH = con.winH
  BY <1>6 DEF SameShape, SameCursor
<1>8. /\ mirrorCols' = mirrorCols /\ mirrorRows' = mirrorRows
      /\ cursorInside(Info(con)') <=> cursorInside(i)
  BY <1>6, <1>7 DEF mirrorCols, mirrorRows, cursorInside, cursorInWindow, Info
<1>9. CASE r.scr.directMode
  <2>1. CursorSeen(r, i) <=>
          con.visible /\ con.x < mirrorCols /\ con.y \in con.top..(con.top + mirrorRows - 1)
    BY <1>1, <1>2, <1>4, <1>5, <1>9 DEF CursorSeen, DirectShows
  <2>2. CursorAt(r, i, CursorSeen(r, i), con.top)
    BY <1>4, <1>9 DEF CursorDrawnAt
  <2>3. IF con.visible /\ con.x < mirrorCols /\ con.y \in con.top..(con.top + mirrorRows - 1)
          THEN /\ r.term.shown \/ r.blind
               /\ r.term.x = con.x /\ r.term.y = con.y - con.top + 1
          ELSE ~r.term.shown
    BY <1>4, <2>1, <2>2 DEF CursorAt
  <2>4. QED BY <1>6, <1>7, <1>8, <1>9, <2>3 DEF CursorPlaced
<1>10. CASE ~r.scr.directMode
  <2>1. CursorSeen(r, i) <=> con.visible /\ cursorInside(i)
    BY <1>4, <1>10 DEF CursorSeen
  <2>2. CursorAt(r, i, CursorSeen(r, i), r.base - gone)
    BY <1>10 DEF CursorDrawnAt
  <2>3. IF con.visible /\ cursorInside(i)
          THEN /\ r.term.shown \/ r.blind
               /\ r.term.x = con.x /\ r.term.y = con.y - (r.base - gone) + 1
          ELSE ~r.term.shown
    BY <1>4, <2>1, <2>2 DEF CursorAt
  <2>4. QED BY <1>6, <1>7, <1>8, <1>10, <2>3 DEF CursorPlaced
<1>11. QED BY <1>9, <1>10

LEMMA AppliedTracks ==
  ASSUME NEW r, Seen(r), Apply(r), paper' = paper
  PROVE  /\ Seen(Round)' /\ gone' = gone /\ Slid(Round)' = Slid(r)
         /\ Lost(Round)' <=> Lost(r)
         /\ Tracks(r) => Lost(Round)' \/ Counts(con', scr', Slid(Round)')
         /\ Still(r) => Still(Round)'
         /\ \A top : OnTop(r, top) => OnTop(Round, top)'
         /\ DirectPlace(r) => DirectPlace(Round)'
<1>1. /\ con' = r.con /\ scr' = r.scr /\ term' = r.term /\ base' = r.base /\ gone' = gone
      /\ missed' = r.missed /\ misled' = r.misled /\ blind' = r.blind
  BY DEF Apply, gone
<1>2. /\ Round'.con = r.con /\ Round'.scr = r.scr /\ Round'.term = r.term
      /\ Round'.base = r.base /\ Round'.missed = r.missed /\ Round'.misled = r.misled
      /\ Round'.blind = r.blind
  BY <1>1 DEF Round
<1> HIDE DEF Round
<1>3. Seen(Round)'
  BY <1>2 DEF Seen
<1>4. Slid(Round)' = Slid(r)
  BY <1>1, <1>2 DEF Slid
<1>5. Lost(Round)' <=> Lost(r)
  BY <1>2 DEF Lost
<1>6. Tracks(r) => Lost(Round)' \/ Counts(con', scr', Slid(Round)')
  BY <1>1, <1>4, <1>5 DEF Tracks
<1>7. Still(r) => Still(Round)'
  BY <1>4, <1>5 DEF Still
<1>8. ASSUME NEW top, OnTop(r, top) PROVE OnTop(Round, top)'
  BY <1>2, <1>8 DEF OnTop
<1>9. DirectPlace(r) => DirectPlace(Round)'
  BY <1>2 DEF DirectPlace
<1>10. QED BY <1>1, <1>3, <1>4, <1>5, <1>6, <1>7, <1>8, <1>9

(* A part of a round that changes neither the window nor the cursor.        *)
LEMMA PartTracks ==
  ASSUME ScraperInv, CursorInv, NEW r, Seen(r), Well(r), Apply(r),
         UNCHANGED <<saved, resizes, paper, moved, cleared, synced, info>>,
         pc \notin {"idle", "info"}, pc' \notin {"idle", "info", "mode", "check", "check marker"},
         SameShape(con, r.con), SameCursor(con, r.con), r.scr.ptySize = scr.ptySize,
         r.scr.directMode <=> saved # <<>>,
         saved # <<>> => r.scr.counter = scr.counter,
         force => force', synced => ~force',
         pc' \in {"erase"} \cup Scrolling /\ force' => frozen',
         pc' \in {"erase"} \cup Resizing => force', pc' = "direct" => r.scr.directMode,
         ~r.scr.directMode => cleared \/ Tracks(r),
         ~r.scr.directMode /\ pc' = "erase" => cleared \/ Still(r),
         r.scr.directMode => DirectPlace(r),
         resizes = 0 /\ ~cleared /\ ~r.missed /\ ~r.misled =>
           IF r.scr.directMode THEN ~r.term.stopped /\ r.term.top <= 1
           ELSE /\ OnTop(r, IF pc' \in Scrolling THEN info.top ELSE 0)
                /\ pc' \in Resizing => r.scr.scraped - r.scr.scrolled <= con.top,
         info = Info(con) /\ ~moved /\ ~force' /\ (synced \/ pc' = "end") /\ ~Lost(r) =>
           CursorDrawnAt(r, info)
  PROVE  CursorInv'
<1>1. /\ con' = r.con /\ scr' = r.scr /\ term' = r.term /\ base' = r.base
      /\ missed' = r.missed /\ misled' = r.misled /\ blind' = r.blind
  BY DEF Apply
<1>2. /\ Seen(Round)' /\ gone' = gone /\ Slid(Round)' = Slid(r)
      /\ Lost(Round)' <=> Lost(r)
      /\ Tracks(r) => Lost(Round)' \/ Counts(con', scr', Slid(Round)')
      /\ Still(r) => Still(Round)'
      /\ \A top : OnTop(r, top) => OnTop(Round, top)'
      /\ DirectPlace(r) => DirectPlace(Round)'
  BY AppliedTracks
<1>3. Pieces /\ KnowsLines /\ Going /\ Unresized /\ Placed
  BY DEF CursorInv
<1>4. /\ saved = <<>> <=> con.h = BUFFER_LINE_COUNT
      /\ saved = <<>> => Tabled = con
      /\ term.height = scr.ptySize[2]
  BY PiecesAre
<1>5. /\ con'.h = con.h /\ con'.winH = con.winH /\ con'.winW = con.winW /\ con'.w = con.w
      /\ con'.top = con.top /\ con'.y = con.y /\ con'.x = con.x /\ con'.visible = con.visible
  BY <1>1 DEF SameShape, SameCursor
<1>6. /\ saved = <<>> => Tabled' = con'
      /\ saved # <<>> => Tabled' = Tabled
      /\ Tabled'.h = Tabled.h /\ Tabled'.winH = Tabled.winH
  BY <1>4, <1>5 DEF Tabled
<1>7. Pieces'
  <2>1. IsPaper(paper)' /\ con'.x \in Nat /\ resizes' \in Nat /\ info'.x \in Nat
    BY <1>3, <1>5 DEF Pieces
  <2>2. saved' # <<>> => Rows(saved[1], scr.counter)' /\ saved'[1].x \in Nat
                          /\ con'.h # BUFFER_LINE_COUNT
    BY <1>1, <1>3, <1>5 DEF Pieces
  <2>3. Tabled'.h = BUFFER_LINE_COUNT
    BY <1>3, <1>6 DEF Pieces
  <2>4. QED BY <1>2, <2>1, <2>2, <2>3 DEF Pieces
<1>8. KnowsLines'
  <2>1. ASSUME ~scr'.directMode
        PROVE  cleared' \/ Lost(Round)' \/ Counts(Tabled, scr, Slid(Round))'
    <3>1. saved = <<>> /\ (cleared \/ Tracks(r))
      BY <1>1, <2>1
    <3>2. Tabled' = con'
      BY <1>6, <3>1
    <3>3. cleared \/ Lost(Round)' \/ Counts(con', scr', Slid(Round)')
      BY <1>2, <3>1
    <3>4. QED BY <3>2, <3>3
  <2>2. ~scr'.directMode /\ pc' = "erase" => cleared' \/ Still(Round)'
    BY <1>1, <1>2
  <2>3. scr'.directMode => DirectPlace(Round)'
    BY <1>1, <1>2
  <2>4. QED BY <2>1, <2>2, <2>3 DEF KnowsLines
<1>9. Info(con)' = Info(con)
  BY <1>5 DEF Info
<1>10. Going'
  <2>1. /\ force' /\ pc' \in {"info", "mode", "erase"} \cup Scrolling => frozen'
        /\ pc' \in {"erase"} \cup Resizing => force'
    OBVIOUS
  <2>2. (scr'.directMode <=> saved' # <<>>) /\ (pc' = "direct" => scr'.directMode)
    BY <1>1
  <2>3. synced' => ~moved' /\ ~force'
    BY <1>3 DEF Going
  <2>4. cleared' => moved'
    BY <1>3 DEF Going
  <2>5. ~moved' /\ ~force' => info' = Info(con)'
    BY <1>3, <1>9 DEF Going
  <2>6. QED BY <2>1, <2>2, <2>3, <2>4, <2>5 DEF Going
<1>11. Unresized'
  <2>1. visibleRows' = visibleRows /\ term'.height = term.height
    <3>1. r.term.height = r.scr.ptySize[2]
      BY DEF Seen
    <3>2. QED BY <1>1, <1>4, <3>1 DEF visibleRows
  <2> SUFFICES ASSUME resizes = 0
               PROVE  /\ con'.winH <= term'.height /\ Tabled'.winH = visibleRows'
                      /\ info'.winH <= term'.height
                      /\ ~cleared' /\ ~missed' /\ ~misled' =>
                           IF scr'.directMode THEN ~term'.stopped /\ term'.top <= 1
                           ELSE /\ OnTop(Round, IF pc \in Scrolling THEN info.top ELSE 0)'
                                /\ pc' \in Resizing => scr'.scraped - scr'.scrolled <= con'.top
    BY DEF Unresized
  <2>2. /\ con.winH <= term.height /\ Tabled.winH = visibleRows /\ info.winH <= term.height
    BY <1>3 DEF Unresized
  <2>3. ASSUME ~cleared', ~missed', ~misled'
        PROVE  IF scr'.directMode THEN ~term'.stopped /\ term'.top <= 1
               ELSE /\ OnTop(Round, IF pc \in Scrolling THEN info.top ELSE 0)'
                    /\ pc' \in Resizing => scr'.scraped - scr'.scrolled <= con'.top
    <3> DEFINE top == IF pc' \in Scrolling THEN info.top ELSE 0
    <3>1. IF r.scr.directMode THEN ~r.term.stopped /\ r.term.top <= 1
          ELSE /\ OnTop(r, top)
               /\ pc' \in Resizing => r.scr.scraped - r.scr.scrolled <= con.top
      BY <1>1, <2>3
    <3>2. OnTop(r, top) => OnTop(Round, IF pc \in Scrolling THEN info.top ELSE 0)'
      BY <1>1 DEF OnTop, Round
    <3> HIDE DEF top
    <3>3. QED BY <1>1, <1>5, <3>1, <3>2
  <2>4. QED BY <1>5, <1>6, <2>1, <2>2, <2>3
<1>12. Placed'
  <2> SUFFICES ASSUME synced' \/ (pc' = "end" /\ ~moved' /\ ~force'),
                      ~missed', ~misled', ~(term'.stopped /\ resizes' > 0)
               PROVE  CursorPlaced'
    BY DEF Placed
  <2>1. ~moved /\ ~force' /\ (synced \/ pc' = "end") /\ ~cleared
    BY <1>3 DEF Going
  <2>2. info = Info(con)
    BY <1>3, <2>1 DEF Going
  <2>3. ~r.term.stopped
    <3>1. CASE resizes = 0
      <4>1. IF r.scr.directMode THEN ~r.term.stopped /\ r.term.top <= 1
            ELSE OnTop(r, IF pc' \in Scrolling THEN info.top ELSE 0)
        BY <1>1, <2>1, <3>1
      <4>2. ~r.missed /\ ~r.misled
        BY <1>1
      <4>3. OnTop(r, IF pc' \in Scrolling THEN info.top ELSE 0) => ~r.term.stopped
        BY <4>2 DEF OnTop
      <4>4. QED BY <4>1, <4>3
    <3>2. CASE resizes # 0
      <4>1. resizes \in Nat
        BY <1>3 DEF Pieces
      <4>2. resizes' = resizes /\ resizes > 0
        BY ONLY <3>2, <4>1, UNCHANGED resizes
      <4>3. QED BY <1>1, <4>2
    <3>3. QED BY <3>1, <3>2
  <2>4. ~Lost(r)
    BY <1>1, <2>3 DEF Lost
  <2>5. CursorDrawnAt(r, Info(con))
    BY <2>1, <2>2, <2>4
  <2>6. QED BY <2>5, DrawnIsPlaced
<1>13. QED BY <1>7, <1>8, <1>10, <1>11, <1>12 DEF CursorInv

LEMMA MirroringTracks == ScraperInv /\ CursorInv /\ Direct => CursorInv'
<1> SUFFICES ASSUME ScraperInv, CursorInv, Direct PROVE CursorInv'
  OBVIOUS
<1> DEFINE r == ScrapeDirect(Round, info)
<1>1. /\ pc = "direct" /\ pc' = "end" /\ Apply(r)
      /\ UNCHANGED <<saved, resizes, paper, moved, cleared, synced, info, force>>
  BY DEF Direct, Goto, agentIdle
<1>2. /\ gone \in Nat /\ Seen(Round) /\ Well(Round) /\ Round.con = con /\ Round.scr = scr
      /\ Round.term = term /\ Round.missed = missed /\ Round.misled = misled
      /\ Pictured(Round.term)
  BY PiecesAre
<1>3. KnowsLines /\ Going /\ Unresized /\ info.x \in Nat
  BY <1>1 DEF CursorInv, Pieces
<1>4. Window(info)
  BY <1>1 DEF ScraperInv, InfoKnown
<1>5. /\ Well(r) /\ r.con = con /\ r.scr.ptySize = scr.ptySize
      /\ r.scr.directMode = scr.directMode
  BY <1>2, DirectIsWell DEF SameMode
<1>6. SameTracking(scr, r.scr)
  BY <1>2, <1>3, <1>4, DirectlyDraws
<1>7. /\ Seen(r) /\ SameHistory(Round, r)
      /\ DirectPlace(Round) => DirectPlace(r)
      /\ DirectPlace(Round) /\ ~term.stopped /\ term.top <= 1 =>
           ~r.term.stopped /\ r.term.top <= 1
      /\ DirectPlace(Round) /\ ~r.term.stopped => CursorAt(r, info, DirectShows(info), info.top)
  BY <1>2, <1>3, <1>4, DirectTracks
<1>8. scr.directMode
  BY <1>1, <1>3 DEF Going
<1> HIDE DEF r
<1>9. r.scr.directMode /\ r.scr.counter = scr.counter /\ DirectPlace(Round)
  BY <1>3, <1>5, <1>6, <1>8 DEF SameTracking, KnowsLines
<1>10. saved # <<>> /\ (synced => ~force)
  BY <1>1, <1>3, <1>8 DEF Going
<1>11. SameShape(con, r.con) /\ SameCursor(con, r.con)
  BY <1>5 DEF SameShape, SameCursor
<1>12. ASSUME resizes = 0, ~cleared, ~r.missed, ~r.misled
       PROVE  ~r.term.stopped /\ r.term.top <= 1
  <2>1. ~missed /\ ~misled
    BY <1>2, <1>7, <1>12 DEF SameHistory
  <2>2. ~term.stopped /\ term.top <= 1
    BY <1>3, <1>8, <1>12, <2>1 DEF Unresized
  <2>3. QED BY <1>7, <1>9, <2>2
<1>13. ASSUME ~Lost(r) PROVE CursorDrawnAt(r, info)
  <2>1. CursorAt(r, info, DirectShows(info), info.top)
    BY <1>7, <1>9, <1>13 DEF Lost
  <2>2. CursorSeen(r, info) <=> DirectShows(info)
    BY <1>9 DEF CursorSeen
  <2>3. QED BY <1>9, <2>1, <2>2 DEF CursorDrawnAt, CursorAt
<1>14. pc' \notin {"erase"} \cup Scrolling \cup Resizing
  BY <1>1 DEF Scrolling, Resizing
<1>15. QED BY <1>1, <1>5, <1>7, <1>9, <1>10, <1>11, <1>12, <1>13, <1>14, PartTracks

LEMMA ScrollingFrozenTracks ==
  MarkersDiffer /\ ScraperInv /\ CursorInv /\ ScrollFrozen => CursorInv'
<1> SUFFICES ASSUME MarkersDiffer, ScraperInv, CursorInv, ScrollFrozen PROVE CursorInv'
  OBVIOUS
<1> DEFINE r == ScrapeFrozen(Round, info)
<1>1. /\ pc = "scroll" /\ pc' = (IF force THEN "erase" ELSE "end") /\ Apply(r) /\ frozen
      /\ UNCHANGED <<saved, resizes, paper, moved, cleared, synced, info, force, frozen>>
  BY DEF ScrollFrozen, Goto, agentIdle, AfterScrape
<1>2. /\ gone \in Nat /\ Seen(Round) /\ Well(Round) /\ Round.con = con /\ Round.scr = scr
      /\ Round.term = term /\ Round.missed = missed /\ Round.misled = misled
      /\ term.height = scr.ptySize[2]
      /\ saved = <<>> <=> con.h = BUFFER_LINE_COUNT
      /\ saved = <<>> => Tabled = con
  BY PiecesAre
<1>3. KnowsLines /\ Going /\ Unresized /\ info.x \in Nat
  BY <1>1 DEF CursorInv, Pieces
<1>4. pc \in Scrolling /\ pc' \notin Scrolling \cup Resizing
  BY <1>1 DEF Scrolling, Resizing
<1>5. /\ Window(info) /\ info.h = BUFFER_LINE_COUNT /\ ~scr.directMode
      /\ con.h = info.h
  BY <1>1, <1>4 DEF ScraperInv, InfoKnown
<1>6. /\ Well(r) /\ SameShape(con, r.con) /\ r.scr.ptySize = scr.ptySize
      /\ r.scr.directMode = scr.directMode
      /\ r.scr.dirtyTop = info.top
  BY <1>2, <1>5, FrozenIsWell DEF SameMode
<1>7. /\ Seen(r) /\ SameCursor(con, r.con)
      /\ Tracks(Round) => Tracks(r) /\ Still(r)
      /\ OnTop(Round, info.top) /\ info.winH <= scr.ptySize[2] => OnTop(r, info.top)
      /\ Tracks(Round) /\ ~Lost(r) =>
           CursorAt(r, info, info.visible /\ cursorInside(info), r.base - gone)
  BY <1>2, <1>3, <1>5, FrozenTracks
<1> HIDE DEF r
<1>8. /\ ~r.scr.directMode /\ saved = <<>> /\ (synced => ~force)
  BY <1>2, <1>3, <1>5, <1>6 DEF Going
<1>9. cleared \/ Tracks(Round)
  BY <1>2, <1>3, <1>5, <1>8 DEF KnowsLines, Tracks
<1>10. ASSUME resizes = 0, ~cleared PROVE OnTop(r, 0)
  <2>1. info.winH <= scr.ptySize[2]
    BY <1>1, <1>2, <1>3, <1>10 DEF Unresized
  <2>2. ~missed /\ ~misled => OnTop(Round, info.top)
    BY <1>3, <1>4, <1>5, <1>10 DEF Unresized
  <2>3. OnTop(Round, info.top)
    BY <1>2, <2>2 DEF OnTop
  <2>4. OnTop(r, info.top)
    BY <1>7, <2>1, <2>3
  <2>5. info.top # -1
    BY <1>5 DEF Window
  <2>6. QED BY <1>6, <2>4, <2>5 DEF OnTop
<1>11. ASSUME ~moved, ~Lost(r) PROVE CursorDrawnAt(r, info)
  <2>1. ~cleared
    BY <1>3, <1>11 DEF Going
  <2>2. CursorAt(r, info, info.visible /\ cursorInside(info), r.base - gone)
    BY <1>7, <1>9, <1>11, <2>1
  <2>3. CursorSeen(r, info) <=> info.visible /\ cursorInside(info)
    BY <1>8 DEF CursorSeen
  <2>4. QED BY <1>8, <2>2, <2>3 DEF CursorDrawnAt, CursorAt
<1>12. cleared \/ (Tracks(r) /\ Still(r))
  BY <1>7, <1>9
<1>13. pc' \in {"erase"} => force'
  BY <1>1
<1>14. pc' \notin {"idle", "info", "mode", "check", "check marker"}
  BY <1>1
<1>15. QED BY <1>1, <1>4, <1>6, <1>7, <1>8, <1>10, <1>11, <1>12, <1>13, <1>14, PartTracks

(* Where the cursor is as long as the terminal is not touched.              *)
LEMMA PlacedStays ==
  ASSUME ScraperInv, CursorInv, synced, info = Info(con), NEW r, SameTerminal(Round, r),
         ~Lost(r), r.scr.directMode = scr.directMode
  PROVE  CursorDrawnAt(r, info)
<1>1. /\ Round.term = term /\ Round.base = base /\ Round.missed = missed
      /\ Round.misled = misled /\ Round.blind = blind
  BY PiecesAre
<1>2. /\ r.term = term /\ r.base = base /\ r.missed = missed /\ r.misled = misled
      /\ r.blind = blind
  BY <1>1 DEF SameTerminal, SameHistory
<1>3. ~missed /\ ~misled /\ ~term.stopped
  BY <1>2 DEF Lost
<1>4. CursorPlaced
  BY <1>3 DEF CursorInv, Placed
<1>5. QED BY <1>2, <1>4, PlacedIsDrawn

LEMMA FindingMarkerTracks ==
  MarkersDiffer /\ ScraperInv /\ CursorInv /\ FindMarker => CursorInv'
<1> SUFFICES ASSUME MarkersDiffer, ScraperInv, CursorInv, FindMarker PROVE CursorInv'
  OBVIOUS
<1> DEFINE p == Prepare(Round, info, TRUE)
           r == p.rd
<1>1. /\ pc = "scroll" /\ pc \in Scrolling
      /\ \/ /\ p.ok /\ Apply(r) /\ pc' = "read"
            /\ UNCHANGED <<saved, resizes, paper, moved, cleared, synced, info, force, frozen>>
         \/ StartOver
  BY DEF FindMarker, Goto, agentIdle, Scrolling
<1>2. CASE StartOver
  BY <1>1, <1>2, StartingOverTracks
<1>3. CASE ~StartOver
  <2>1. /\ p.ok /\ Apply(r) /\ pc' = "read"
        /\ UNCHANGED <<saved, resizes, paper, moved, cleared, synced, info, force, frozen>>
    BY <1>1, <1>3
  <2>2. /\ gone \in Nat /\ Seen(Round) /\ Well(Round) /\ Round.con = con /\ Round.scr = scr
        /\ Round.term = term /\ Round.missed = missed /\ Round.misled = misled
        /\ saved = <<>> <=> con.h = BUFFER_LINE_COUNT
        /\ saved = <<>> => Tabled = con
    BY PiecesAre
  <2>3. KnowsLines /\ Going /\ Unresized
    BY DEF CursorInv
  <2>4. /\ Window(info) /\ info.h = BUFFER_LINE_COUNT /\ ~scr.directMode
        /\ con.h = info.h
    BY <1>1 DEF ScraperInv, InfoKnown, Scrolling
  <2>5. /\ Well(r) /\ r.con = con /\ r.scr.ptySize = scr.ptySize
        /\ r.scr.directMode = scr.directMode
    BY <2>1, <2>2, <2>4, PreparingIsWell DEF SameMode
  <2>6. /\ Seen(r) /\ r.scr.counter = scr.counter
        /\ Tracks(Round) => Tracks(r) /\ Still(r)
        /\ OnTop(Round, info.top) => OnTop(r, info.top)
        /\ SameTerminal(Round, r)
    BY <2>1, <2>2, <2>4, PreparingTracks
  <2> HIDE DEF r, p
  <2>7. saved = <<>> /\ ~r.scr.directMode /\ (synced => ~force)
    BY <2>2, <2>3, <2>4, <2>5 DEF Going
  <2>8. cleared \/ Tracks(Round)
    BY <2>2, <2>3, <2>4, <2>7 DEF KnowsLines, Tracks
  <2>9. ASSUME resizes = 0, ~cleared PROVE OnTop(r, info.top)
    <3>1. ~missed /\ ~misled => OnTop(Round, info.top)
      BY <1>1, <2>3, <2>4, <2>9 DEF Unresized
    <3>2. OnTop(Round, info.top)
      BY <2>2, <3>1 DEF OnTop
    <3>3. QED BY <2>6, <3>2
  <2>10. ASSUME synced, ~Lost(r), info = Info(con) PROVE CursorDrawnAt(r, info)
    BY <2>5, <2>6, <2>10, PlacedStays
  <2>11. SameShape(con, r.con) /\ SameCursor(con, r.con)
    BY <2>5 DEF SameShape, SameCursor
  <2>12. /\ pc \notin {"idle", "info"}
         /\ pc' \notin {"idle", "info", "mode", "check", "check marker", "end", "erase", "direct"}
         /\ pc' \in Scrolling /\ pc' \notin Resizing
    BY <1>1, <2>1 DEF Scrolling, Resizing
  <2>13. force' => frozen'
    BY <1>1, <2>1, <2>3 DEF Going
  <2>14. QED
    BY <2>1, <2>5, <2>6, <2>7, <2>8, <2>9, <2>10, <2>11, <2>12, <2>13, PartTracks
<1>4. QED BY <1>2, <1>3

LEMMA CheckingMarkerTracks ==
  MarkersDiffer /\ ScraperInv /\ CursorInv /\ CheckMarker => CursorInv'
<1> SUFFICES ASSUME MarkersDiffer, ScraperInv, CursorInv, CheckMarker PROVE CursorInv'
  OBVIOUS
<1> DEFINE r == Send(Round, info, readBuf)
<1>1. pc = "check marker" /\ pc \in Scrolling
  BY DEF CheckMarker, Scrolling
<1>2. CASE StartOver
  BY <1>1, <1>2, StartingOverTracks
<1>3. CASE ~StartOver
  <2>1. /\ Apply(r) /\ pc' = (IF force THEN "erase" ELSE "end")
        /\ UNCHANGED <<saved, resizes, paper, moved, cleared, synced, info, force, frozen>>
        /\ scr.syncRow = NoMarker \/ scr.syncRow = findSyncMarker(con, scr)
    BY <1>3 DEF CheckMarker, Goto, agentIdle, AfterScrape
  <2>2. /\ gone \in Nat /\ Seen(Round) /\ Well(Round) /\ Round.con = con /\ Round.scr = scr
        /\ Round.term = term /\ Round.missed = missed /\ Round.misled = misled
        /\ saved = <<>> <=> con.h = BUFFER_LINE_COUNT
        /\ saved = <<>> => Tabled = con
        /\ Console(con) /\ Members(scr) /\ scr.counter \in Nat /\ Rows(con, scr.counter)
        /\ term.height = scr.ptySize[2]
    BY PiecesAre
  <2>3. /\ KnowsLines /\ Going /\ Unresized /\ info.x \in Nat
        /\ Lines(readBuf, FirstVirtLine(scr, info) - scr.scrolled, info.top + info.winH, info.w)
    BY <1>1 DEF CursorInv, Pieces
  <2>4. /\ Window(info) /\ info.h = BUFFER_LINE_COUNT /\ ~scr.directMode
        /\ con.h = info.h /\ scr.dirtyTop = info.top
    BY <1>1 DEF ScraperInv, InfoKnown, Scrolling
  <2>5. /\ Well(r) /\ r.con = con /\ r.scr.ptySize = scr.ptySize
        /\ r.scr.directMode = scr.directMode /\ r.scr.dirtyTop = scr.dirtyTop
    BY <2>2, <2>4, SendingIsWell DEF SameMode
  <2>6. /\ Seen(r) /\ (Tracks(Round) => Tracks(r)) /\ (Still(Round) => Still(r))
        /\ OnTop(Round, info.top) /\ info.winH <= term.height => OnTop(r, info.top)
        /\ Still(Round) /\ ~Lost(r) =>
             CursorAt(r, info, info.visible /\ cursorInside(info), r.base - gone)
    BY <2>2, <2>3, <2>4, SendingTracks
  <2> HIDE DEF r
  <2>7. saved = <<>> /\ ~r.scr.directMode /\ (synced => ~force)
    BY <2>2, <2>3, <2>4, <2>5 DEF Going
  <2>8. cleared \/ Tracks(Round)
    BY <2>2, <2>3, <2>4, <2>7 DEF KnowsLines, Tracks
  <2>9. cleared \/ Still(Round)
    <3>1. SUFFICES ASSUME Counts(con, scr, Slid(Round)) PROVE Slid(Round) = 0
      BY <2>2, <2>8 DEF Tracks, Still
    <3>2. Slid(Round) \in Int /\ scr.syncRow \in Int
      BY <2>2, SlidIs DEF Members
    <3>3. CASE scr.syncRow = -1
      BY <3>1, <3>3 DEF Counts
    <3>4. CASE scr.syncRow # -1
      <4>1. MarkedAt(con, scr, Slid(Round))
        BY <3>1, <3>4 DEF Counts
      <4>2. findSyncMarker(con, scr) = -1 \/ findSyncMarker(con, scr) = scr.syncRow - Slid(Round)
        BY <2>2, <3>2, <4>1, MarkerFound
      <4>3. scr.syncRow = findSyncMarker(con, scr)
        BY <2>1, <3>4 DEF NoMarker
      <4>4. QED BY <3>2, <3>4, <4>2, <4>3
    <3>5. QED BY <3>3, <3>4
  <2>10. ASSUME resizes = 0, ~cleared PROVE OnTop(r, 0)
    <3>1. info.winH <= term.height
      BY <1>1, <2>3, <2>10 DEF Unresized
    <3>2. ~missed /\ ~misled => OnTop(Round, info.top)
      BY <1>1, <2>3, <2>4, <2>10 DEF Unresized
    <3>3. OnTop(Round, info.top)
      BY <2>2, <3>2 DEF OnTop
    <3>4. OnTop(r, info.top)
      BY <2>6, <3>1, <3>3
    <3>5. info.top # -1
      BY <2>4 DEF Window
    <3>6. QED BY <2>4, <2>5, <3>4, <3>5 DEF OnTop
  <2>11. ASSUME ~moved, ~Lost(r) PROVE CursorDrawnAt(r, info)
    <3>1. ~cleared
      BY <2>3, <2>11 DEF Going
    <3>2. CursorAt(r, info, info.visible /\ cursorInside(info), r.base - gone)
      BY <2>6, <2>9, <2>11, <3>1
    <3>3. CursorSeen(r, info) <=> info.visible /\ cursorInside(info)
      BY <2>7 DEF CursorSeen
    <3>4. QED BY <2>7, <3>2, <3>3 DEF CursorDrawnAt, CursorAt
  <2>12. SameShape(con, r.con) /\ SameCursor(con, r.con)
    BY <2>5 DEF SameShape, SameCursor
  <2>13. /\ pc \notin {"idle", "info"} /\ pc' \in {"erase", "end"}
         /\ pc' \notin Scrolling \cup Resizing
    BY <1>1, <2>1 DEF Scrolling, Resizing
  <2>14. (pc' = "erase" => force') /\ (force' => frozen')
    BY <1>1, <2>1, <2>3 DEF Going
  <2>15. QED
    BY <2>1, <2>5, <2>6, <2>7, <2>8, <2>9, <2>10, <2>11, <2>12, <2>13, <2>14, PartTracks
<1>4. QED BY <1>2, <1>3

LEMMA SettingModeTracks == ScraperInv /\ CursorInv /\ SetMode => CursorInv'
<1> SUFFICES ASSUME ScraperInv, CursorInv, SetMode PROVE CursorInv'
  OBVIOUS
<1> DEFINE direct == info.h # BUFFER_LINE_COUNT
           switch == direct # scr.directMode
           back == switch /\ ~direct
           n == IF direct THEN 0 ELSE info.top
           rd == resetConsoleTracking(Round, n)
           r == IF switch THEN [rd EXCEPT !.scr.directMode = direct] ELSE Round
<1>1. /\ pc = "mode" /\ Apply(r)
      /\ frozen' = (frozen \/ back) /\ force' = (force \/ back)
      /\ pc' = IF ~direct THEN "scroll" ELSE IF force THEN "erase" ELSE "direct"
      /\ UNCHANGED <<saved, resizes, paper, moved, cleared, synced, info>>
  BY DEF SetMode, Goto, agentIdle
<1>2. /\ gone \in Nat /\ Seen(Round) /\ Well(Round) /\ Round.con = con /\ Round.scr = scr
      /\ Round.term = term /\ Round.missed = missed /\ Round.misled = misled
      /\ saved = <<>> <=> con.h = BUFFER_LINE_COUNT
      /\ saved = <<>> => Tabled = con
      /\ scr.directMode \in BOOLEAN
  BY PiecesAre DEF Members
<1>3. KnowsLines /\ Going /\ Unresized
  BY DEF CursorInv
<1>4. Window(info) /\ n \in Int /\ 0 <= n /\ con.h = info.h
      /\ info.top \in Int /\ 0 <= info.top /\ n <= info.top
  BY <1>1 DEF ScraperInv, InfoKnown, Window
<1>5. direct <=> saved # <<>>
  BY <1>2, <1>4
<1>6. /\ pc \notin {"idle", "info"}
      /\ pc' \notin {"idle", "info", "mode", "check", "check marker", "end"}
      /\ pc' \notin Resizing
      /\ IF direct THEN pc' \notin Scrolling ELSE pc' \in Scrolling
      /\ pc' = "direct" => direct
      /\ pc' = "erase" => force /\ direct
  BY <1>1 DEF Scrolling, Resizing
<1>7. force' => frozen'
  BY <1>1, <1>3 DEF Going
<1>8. force => force'
  BY <1>1
<1>9. CASE ~switch
  <2>1. Apply(Round) /\ (force' <=> force)
    BY <1>1, <1>9
  <2>2. (scr.directMode <=> direct) /\ (synced => ~force)
    BY <1>2, <1>3, <1>9 DEF Going
  <2>3. ~direct => cleared \/ Tracks(Round)
    BY <1>2, <1>3, <1>5, <2>2 DEF KnowsLines, Tracks
  <2>4. direct => DirectPlace(Round)
    BY <1>3, <2>2 DEF KnowsLines
  <2>5. ASSUME resizes = 0, ~cleared, ~missed, ~misled
        PROVE  IF direct THEN ~term.stopped /\ term.top <= 1 ELSE OnTop(Round, info.top)
    <3>1. IF scr.directMode THEN ~term.stopped /\ term.top <= 1 ELSE OnTop(Round, 0)
      BY <1>1, <1>3, <2>5 DEF Unresized, Scrolling
    <3>2. OnTop(Round, 0) => OnTop(Round, info.top)
      <4>1. scr.scraped - scr.scrolled \in Int
        BY <1>2 DEF Well, Members
      <4>2. QED BY <1>2, <1>4, <4>1 DEF OnTop
    <3>3. QED BY <2>2, <3>1, <3>2
  <2>6. ASSUME synced, ~Lost(Round), info = Info(con) PROVE CursorDrawnAt(Round, info)
    <3>1. SameTerminal(Round, Round)
      BY DEF SameTerminal, SameHistory
    <3>2. QED BY <1>2, <2>6, <3>1, PlacedStays
  <2>7. SameShape(con, Round.con) /\ SameCursor(con, Round.con)
    BY <1>2 DEF SameShape, SameCursor
  <2>8. pc' = "erase" => force'
    BY <1>6, <1>8
  <2> HIDE DEF direct, switch, back, n, rd, r
  <2>9. QED
    BY <1>1, <1>2, <1>5, <1>6, <1>7, <1>8, <2>1, <2>2, <2>3, <2>4, <2>5, <2>6, <2>7, <2>8,
       PartTracks
<1>10. CASE switch
  <2>1. ~synced
    BY <1>2, <1>3, <1>5, <1>10 DEF Going
  <2> HIDE DEF n
  <2>2. /\ Well(rd) /\ rd.con = con /\ rd.scr.ptySize = scr.ptySize /\ rd.scr.syncRow = -1
    BY <1>2, <1>4, ResetIsWell DEF SameMode
  <2>3. /\ Seen(rd) /\ Tracks(rd) /\ ~Lost(rd)
        /\ \A top \in Int : n <= top => OnTop(rd, top)
        /\ rd.term.y = 1 /\ rd.term.line = n /\ rd.term.top = 1
        /\ rd.scr.counter = scr.counter
    BY <1>2, <1>4, ResetStarts
  <2>4. r = [rd EXCEPT !.scr.directMode = direct]
    BY <1>10
  <2> HIDE DEF rd
  <2> DEFINE s == rd.scr
             t == [s EXCEPT !.directMode = direct]
  <2>5. /\ DOMAIN r = RoundFields /\ r.con = rd.con /\ r.scr = t /\ r.misled = rd.misled
        /\ r.term = rd.term /\ r.base = rd.base /\ r.missed = rd.missed /\ r.blind = rd.blind
    BY <2>2, <2>4 DEF Well, RoundFields
  <2>6. Members(s) /\ DOMAIN s = ScrFields
    BY <2>2 DEF Well, Members
  <2>7. /\ DOMAIN t = ScrFields /\ t.scraped = s.scraped
        /\ t.scrolled = s.scrolled /\ t.syncRow = s.syncRow /\ t.dirtyTop = s.dirtyTop
        /\ t.dirty = s.dirty /\ t.ptySize = s.ptySize /\ t.directMode = direct
        /\ t.counter = s.counter
    BY <2>6 DEF ScrFields
  <2>8. direct \in BOOLEAN
    OBVIOUS
  <2> HIDE DEF t, direct
  <2>9. Members(t)
    BY <2>2, <2>6, <2>7, <2>8 DEF Members
  <2> HIDE DEF r
  <2>10. Well(r)
    BY <2>2, <2>5, <2>9 DEF Well
  <2>11. Seen(r) /\ Slid(r) = Slid(rd) /\ ~Lost(r)
    BY <2>3, <2>5, <2>7 DEF Seen, Slid, Lost
  <2>12. Tracks(r)
    <3>1. Counts(rd.con, rd.scr, Slid(rd))
      BY <2>3 DEF Tracks
    <3>2. Slid(rd) >= 0 /\ r.scr.syncRow = -1
      BY <2>2, <2>5, <2>7, <3>1 DEF Counts
    <3>3. Slid(rd) = 0
      BY <2>2, <3>1 DEF Counts
    <3>4. QED BY <2>11, <3>2, <3>3 DEF Tracks, Counts
  <2>13. /\ SameShape(con, r.con) /\ SameCursor(con, r.con) /\ r.scr.ptySize = scr.ptySize
         /\ r.scr.counter = scr.counter /\ r.scr.directMode = direct
    BY <2>2, <2>3, <2>5, <2>7 DEF SameShape, SameCursor
  <2>14. direct => DirectPlace(r)
    BY <1>4, <2>3, <2>5 DEF DirectPlace, n
  <2>15. IF direct THEN ~r.term.stopped /\ r.term.top <= 1 ELSE OnTop(r, info.top)
    <3>1. ~r.term.stopped /\ r.term.top <= 1
      BY <2>3, <2>5, <2>11 DEF Lost
    <3>2. OnTop(rd, info.top)
      BY <1>4, <2>3
    <3>3. OnTop(r, info.top)
      BY <2>5, <2>7, <3>2 DEF OnTop
    <3>4. QED BY <3>1, <3>3
  <2>16. pc' = "erase" => force'
    BY <1>6, <1>8
  <2> HIDE DEF switch, back
  <2>17. QED
    BY <1>1, <1>5, <1>6, <1>7, <1>8, <2>1, <2>10, <2>11, <2>12, <2>13, <2>14, <2>15, <2>16,
       PartTracks
<1>11. QED BY <1>9, <1>10

LEMMA ErasingForResizeTracks ==
  MarkersDiffer /\ ScraperInv /\ CursorInv /\ EraseForResize => CursorInv'
<1> SUFFICES ASSUME MarkersDiffer, ScraperInv, CursorInv, EraseForResize PROVE CursorInv'
  OBVIOUS
<1> DEFINE q == [Round EXCEPT !.scr.lines = [k \in DOMAIN @ |-> NoLine]]
           m == EraseAbove(Round, info)
<1>1. /\ pc = "erase" /\ pc' = "shrink" /\ Apply(IF scr.directMode THEN q ELSE m)
      /\ UNCHANGED <<saved, resizes, paper, moved, cleared, synced, info, force>>
  BY DEF EraseForResize, Goto, agentIdle
<1>2. /\ gone \in Nat /\ Seen(Round) /\ Well(Round) /\ Round.con = con /\ Round.scr = scr
      /\ Round.term = term /\ Round.missed = missed /\ Round.misled = misled
      /\ Round.base = base /\ Round.blind = blind
      /\ Members(scr) /\ Console(con)
  BY PiecesAre
<1>3. KnowsLines /\ Going /\ Unresized
  BY DEF CursorInv
<1>4. /\ force /\ ~synced /\ (scr.directMode <=> saved # <<>>)
  BY <1>1, <1>3 DEF Going
<1>5. /\ pc \notin {"idle", "info"} /\ pc' \notin Scrolling
      /\ pc' \notin {"idle", "info", "mode", "check", "check marker", "end", "erase", "direct"}
  BY <1>1 DEF Scrolling
<1>6. CASE scr.directMode
  <2> DEFINE lines == [k \in DOMAIN scr.lines |-> NoLine]
             s == [scr EXCEPT !.lines = lines]
  <2>1. q = [Round EXCEPT !.scr = s]
    BY <1>2
  <2>2. DOMAIN scr = ScrFields
    BY <1>2 DEF Members
  <2>3. /\ DOMAIN s = ScrFields /\ s.syncRow = scr.syncRow /\ s.scraped = scr.scraped
        /\ s.scrolled = scr.scrolled /\ s.dirtyTop = scr.dirtyTop
        /\ s.dirty = scr.dirty /\ s.ptySize = scr.ptySize
        /\ s.directMode = scr.directMode /\ s.counter = scr.counter
    BY <2>2 DEF ScrFields
  <2>4. Apply(q)
    BY <1>1, <1>6
  <2> HIDE DEF s, q
  <2>5. /\ DOMAIN q = RoundFields /\ q.con = con /\ q.scr = s /\ q.misled = misled
        /\ q.term = term /\ q.base = base /\ q.missed = missed /\ q.blind = blind
    BY <1>2, <2>1 DEF Well, RoundFields
  <2>6. Members(s)
    BY <1>2, <2>3 DEF Members
  <2>7. Well(q)
    BY <1>2, <2>5, <2>6 DEF Well
  <2>8. Seen(q)
    BY <1>2, <2>3, <2>5 DEF Seen
  <2>9. DirectPlace(q)
    <3>1. DirectPlace(Round)
      BY <1>3, <1>6 DEF KnowsLines
    <3>2. QED BY <1>2, <2>5, <3>1 DEF DirectPlace
  <2>10. ASSUME resizes = 0, ~cleared, ~q.missed, ~q.misled
         PROVE  ~q.term.stopped /\ q.term.top <= 1
    BY <1>3, <1>6, <2>5, <2>10 DEF Unresized
  <2>11. /\ SameShape(con, q.con) /\ SameCursor(con, q.con) /\ q.scr.ptySize = scr.ptySize
         /\ q.scr.counter = scr.counter /\ q.scr.directMode = scr.directMode
    BY <2>3, <2>5 DEF SameShape, SameCursor
  <2>12. QED
    BY <1>1, <1>4, <1>5, <1>6, <2>4, <2>7, <2>8, <2>9, <2>10, <2>11, PartTracks
<1>7. CASE ~scr.directMode
  <2>1. Apply(m)
    BY <1>1, <1>7
  <2>2. /\ Well(m) /\ SameShape(con, m.con) /\ m.scr.ptySize = scr.ptySize
        /\ m.scr.directMode = scr.directMode
        /\ m.scr.scraped = scr.scraped /\ m.scr.scrolled = scr.scrolled
    BY <1>2, <1>7, ErasingIsWell DEF SameMode
  <2>3. /\ Seen(m) /\ SameTerminal(Round, m) /\ SameCursor(con, m.con)
        /\ Still(Round) => Tracks(m)
        /\ \A top : OnTop(Round, top) => OnTop(m, top)
    BY <1>2, <1>7, ErasingTracks
  <2> HIDE DEF m, q
  <2>4. cleared \/ Tracks(m)
    BY <1>1, <1>3, <1>7, <2>3 DEF KnowsLines
  <2>5. ASSUME resizes = 0, ~cleared, ~m.missed, ~m.misled
        PROVE  OnTop(m, 0) /\ m.scr.scraped - m.scr.scrolled <= con.top
    <3>1. ~missed /\ ~misled
      BY <1>2, <2>3, <2>5 DEF SameTerminal, SameHistory
    <3>2. OnTop(Round, 0)
      BY <1>1, <1>3, <1>7, <2>5, <3>1 DEF Unresized, Scrolling
    <3>3. scr.dirtyTop = info.top /\ Window(info) /\ con.top >= info.top
      BY <1>1, <1>7, <2>5 DEF ScraperInv, InfoKnown
    <3>4. info.top \in Int /\ info.top # -1 /\ con.top \in Int
      BY <1>2, <3>3 DEF Window, Console
    <3>5. scr.scraped - scr.scrolled <= info.top
      BY <1>2, <3>1, <3>2, <3>3, <3>4 DEF OnTop
    <3>6. scr.scraped - scr.scrolled \in Int
      BY <1>2 DEF Members
    <3>7. QED BY <2>2, <2>3, <3>2, <3>3, <3>4, <3>5, <3>6
  <2>6. QED
    BY <1>1, <1>4, <1>5, <1>7, <2>1, <2>2, <2>3, <2>4, <2>5, PartTracks
<1>8. QED BY <1>6, <1>7

(* A part of the resize: the lines stay, the window may move.               *)
LEMMA ResizingTracks ==
  ASSUME ScraperInv, CursorInv, pc \in Resizing, pc' \in {"buffer", "expand", "direct", "end"},
         UNCHANGED <<saved, term, base, erased, missed, misled, blind, info, force, resizes,
                     paper, moved, cleared, synced>>,
         scr'.syncRow = scr.syncRow, scr'.scrolled = scr.scrolled, scr'.scraped = scr.scraped,
         scr'.counter = scr.counter, scr'.ptySize = scr.ptySize,
         scr'.directMode = scr.directMode,
         Rows(con', scr.counter), con'.x \in Nat,
         saved = <<>> <=> con'.h = BUFFER_LINE_COUNT,
         saved = <<>> => \A slid \in Int : Counts(con, scr, slid) => Counts(con', scr', slid),
         pc' = "direct" => scr.directMode,
         con'.winH = con.winH \/ con'.winH <= visibleRows,
         resizes = 0 /\ saved = <<>> /\ con.winH = visibleRows => con'.winH = visibleRows,
         resizes = 0 /\ saved = <<>> /\ con.winH = visibleRows /\ ~cleared =>
           con'.top >= con.top /\ (scr'.dirtyTop = scr.dirtyTop \/ scr'.dirtyTop >= con.top),
         con'.top \in Int, con'.winH \in Int, scr'.dirtyTop \in Int
  PROVE  CursorInv'
<1>1. /\ gone \in Nat /\ Seen(Round) /\ Well(Round) /\ Round.con = con /\ Round.scr = scr
      /\ Round.term = term /\ Round.base = base /\ Round.missed = missed
      /\ Round.misled = misled /\ Round.blind = blind
      /\ saved = <<>> <=> con.h = BUFFER_LINE_COUNT
      /\ saved = <<>> => Tabled = con
      /\ term.height = scr.ptySize[2] /\ Members(scr) /\ Console(con)
      /\ Rows(con, scr.counter)
  BY PiecesAre
<1>2. Pieces /\ KnowsLines /\ Going /\ Unresized
  BY DEF CursorInv
<1>3. /\ pc \notin {"idle", "info", "mode"} /\ pc \notin Scrolling
      /\ pc' \notin {"idle", "info", "mode", "erase", "check", "check marker"} \cup Scrolling
  BY DEF Resizing, Scrolling
<1>4. force /\ ~synced /\ (scr.directMode <=> saved # <<>>)
  BY <1>2, <1>3 DEF Going
<1>5. /\ Round'.con = con' /\ Round'.scr = scr' /\ Round'.term = term /\ Round'.base = base
      /\ Round'.missed = missed /\ Round'.misled = misled /\ Round'.blind = blind
      /\ gone' = gone
  BY DEF Round, gone
<1> HIDE DEF Round
<1>6. Seen(Round)'
  BY <1>1, <1>5 DEF Seen
<1>7. /\ Slid(Round)' = Slid(Round) /\ Slid(Round) \in Int
      /\ Lost(Round)' <=> Lost(Round)
      /\ DirectPlace(Round)' <=> DirectPlace(Round)
  <2>1. Slid(Round)' = Slid(Round)
    BY <1>1, <1>5 DEF Slid
  <2>2. Slid(Round) \in Int
    BY <1>1, SlidIs
  <2>3. Lost(Round)' <=> Lost(Round)
    BY <1>1, <1>5 DEF Lost
  <2>4. DirectPlace(Round)' <=> DirectPlace(Round)
    BY <1>1, <1>5 DEF DirectPlace
  <2>5. QED BY <2>1, <2>2, <2>3, <2>4
<1>8. /\ saved = <<>> => Tabled' = con'
      /\ saved # <<>> => Tabled' = Tabled
  BY DEF Tabled
<1>9. Pieces'
  <2>1. Tabled'.h = BUFFER_LINE_COUNT
    BY <1>2, <1>8 DEF Pieces
  <2>2. IsPaper(paper)' /\ resizes' \in Nat /\ info'.x \in Nat
    BY <1>2, <1>3 DEF Pieces
  <2>3. saved' # <<>> => Rows(saved[1], scr.counter)' /\ saved'[1].x \in Nat
                          /\ con'.h # BUFFER_LINE_COUNT
    BY <1>2 DEF Pieces
  <2>4. QED BY <1>3, <1>6, <2>1, <2>2, <2>3 DEF Pieces
<1>10. KnowsLines'
  <2>1. ASSUME ~scr'.directMode, ~cleared', ~Lost(Round)'
        PROVE  Counts(Tabled, scr, Slid(Round))'
    <3>1. saved = <<>> /\ Tabled = con /\ Tabled' = con'
      BY <1>1, <1>4, <1>8, <2>1
    <3>2. Counts(con, scr, Slid(Round))
      BY <1>2, <1>7, <2>1, <3>1 DEF KnowsLines
    <3>3. Counts(con', scr', Slid(Round))
      BY <1>7, <3>1, <3>2
    <3>4. QED BY <1>7, <3>1, <3>3
  <2>2. scr'.directMode => DirectPlace(Round)'
    BY <1>2, <1>7 DEF KnowsLines
  <2>3. QED BY <1>3, <2>1, <2>2 DEF KnowsLines
<1>11. Going'
  <2>1. force' /\ ~synced' /\ (scr'.directMode <=> saved' # <<>>)
    BY <1>4
  <2>2. cleared' => moved'
    BY <1>2 DEF Going
  <2>3. pc' = "direct" => scr'.directMode
    OBVIOUS
  <2>4. QED BY <1>3, <2>1, <2>2, <2>3 DEF Going
<1>12. Unresized'
  <2>1. visibleRows' = visibleRows /\ visibleRows \in Int /\ visibleRows <= term.height
        /\ con.winH \in Int /\ con.top \in Int
    <3>1. visibleRows' = visibleRows
      BY DEF visibleRows
    <3>2. visibleRows \in Int /\ visibleRows <= scr.ptySize[2]
      BY <1>1, VisibleIs
    <3>3. QED BY <1>1, <3>1, <3>2 DEF Console, Window
  <2> SUFFICES ASSUME resizes = 0
               PROVE  /\ con'.winH <= term.height /\ Tabled'.winH = visibleRows
                      /\ info.winH <= term.height
                      /\ ~cleared /\ ~missed /\ ~misled =>
                           IF scr.directMode THEN ~term.stopped /\ term.top <= 1
                           ELSE /\ OnTop(Round, IF pc \in Scrolling THEN info.top ELSE 0)'
                                /\ pc' \in Resizing => scr.scraped - scr.scrolled <= con'.top
    BY <2>1 DEF Unresized
  <2>2. /\ con.winH <= term.height /\ Tabled.winH = visibleRows /\ info.winH <= term.height
        /\ ~cleared /\ ~missed /\ ~misled =>
             IF scr.directMode THEN ~term.stopped /\ term.top <= 1
             ELSE OnTop(Round, 0) /\ scr.scraped - scr.scrolled <= con.top
    BY <1>2, <1>3 DEF Unresized
  <2>3. con'.winH <= term.height /\ Tabled'.winH = visibleRows
    <3>1. con'.winH <= term.height
      <4>1. CASE con'.winH = con.winH
        BY <2>2, <4>1
      <4>2. CASE con'.winH <= visibleRows
        <5>1. scr.ptySize[2] \in Int /\ con'.winH \in Int
          BY <1>1, SizesAre DEF Members
        <5>2. QED BY <1>1, <2>1, <4>2, <5>1
      <4>3. QED BY <4>1, <4>2
    <3>2. Tabled'.winH = visibleRows
      BY <1>1, <1>8, <2>2
    <3>3. QED BY <3>1, <3>2
  <2>4. ASSUME ~cleared, ~missed, ~misled, ~scr.directMode
        PROVE  /\ OnTop(Round, IF pc \in Scrolling THEN info.top ELSE 0)'
               /\ scr.scraped - scr.scrolled <= con'.top
    <3>1. OnTop(Round, 0) /\ scr.scraped - scr.scrolled <= con.top
      BY <2>2, <2>4
    <3>2. con'.top >= con.top /\ (scr'.dirtyTop = scr.dirtyTop \/ scr'.dirtyTop >= con.top)
      BY <1>1, <1>4, <2>2, <2>4
    <3>3. scr.scraped - scr.scrolled \in Int /\ con.top >= 0
      <4>1. scr.scraped - scr.scrolled \in Int
        BY <1>1 DEF Members
      <4>2. con.top >= 0
        BY <1>1 DEF Console, Window
      <4>3. QED BY <4>1, <4>2
    <3>4. /\ ~term.stopped /\ term.top <= RowOf(term, scr.scraped)
          /\ scr.scraped - scr.scrolled <= IF scr.dirtyTop = -1 THEN 0 ELSE scr.dirtyTop
      BY <1>1, <2>4, <3>1 DEF OnTop
    <3>5. scr.scraped - scr.scrolled <= IF scr'.dirtyTop = -1 THEN 0 ELSE scr'.dirtyTop
      BY <2>1, <3>1, <3>2, <3>3, <3>4
    <3>6. OnTop(Round, IF pc \in Scrolling THEN info.top ELSE 0)'
      BY <1>3, <1>5, <3>4, <3>5 DEF OnTop
    <3>7. scr.scraped - scr.scrolled <= con'.top
      BY <2>1, <3>1, <3>2, <3>3
    <3>8. QED BY <3>6, <3>7
  <2>5. QED BY <2>2, <2>3, <2>4
<1>13. Placed'
  <2>1. force' /\ ~synced'
    BY <1>4
  <2>2. QED BY <2>1 DEF Placed
<1>14. QED BY <1>9, <1>10, <1>11, <1>12, <1>13 DEF CursorInv

LEMMA MovingTheWindow ==
  ASSUME NEW c, Console(c), NEW rect
  PROVE  LET d == moveWindow(c, rect)
         IN /\ d.rows = c.rows /\ d.x = c.x /\ d.h = c.h
            /\ d.top = c.top \/ d.top = rect.top
            /\ d.winH = c.winH \/ d.winH = rect.h
<1>1. DOMAIN c = ConFields
  BY DEF Console
<1>2. QED BY <1>1 DEF moveWindow, ConFields

LEMMA RowsAreKept ==
  ASSUME NEW c, NEW d, d.rows = c.rows, d.h = c.h, NEW n, Rows(c, n), NEW s, NEW t,
         t.syncRow = s.syncRow, t.counter = s.counter
  PROVE  /\ Rows(d, n)
         /\ \A slid \in Int : Counts(c, s, slid) => Counts(d, t, slid)
<1>1. Rows(d, n)
  BY DEF Rows
<1>2. ASSUME NEW slid \in Int, MarkedAt(c, s, slid) PROVE MarkedAt(d, t, slid)
  BY <1>2 DEF MarkedAt, Marker
<1>3. QED BY <1>1, <1>2 DEF Counts

LEMMA ShrinkingTracks == ScraperInv /\ CursorInv /\ ShrinkWindow => CursorInv'
<1> SUFFICES ASSUME ScraperInv, CursorInv, ShrinkWindow PROVE CursorInv'
  OBVIOUS
<1> DEFINE w == Min({con.w, visibleCols})
           h == Min({con.h, visibleRows})
           top == Min({con.h - h, con.top})
           rect == WithCursor([top |-> top, w |-> w, h |-> h], Info(con))
<1>1. /\ pc = "shrink" /\ pc' = "buffer" /\ con' = moveWindow(con, rect)
      /\ UNCHANGED <<saved, term, base, erased, missed, misled, blind, info, force, resizes,
                     paper, moved, cleared, synced, scr>>
  BY DEF ShrinkWindow, Goto, Refuse, resizeIdle
<1>2. pc \in Resizing
  BY <1>1 DEF Resizing
<1>3. /\ Console(con) /\ Members(scr)
      /\ con.top \in Int /\ con.h \in Int /\ con.w \in Int /\ con.winH \in Int
      /\ 0 <= con.top /\ con.top + con.winH <= con.h /\ 1 <= con.winH
      /\ visibleCols \in Int /\ visibleRows \in Int /\ 1 <= visibleRows
  BY <1>2, ResizingKnows
<1>4. /\ Rows(con, scr.counter)
      /\ saved = <<>> <=> con.h = BUFFER_LINE_COUNT
  BY PiecesAre
<1>5. con.x \in Nat
  BY DEF CursorInv, Pieces
<1>6. w \in Int /\ h = IF con.h <= visibleRows THEN con.h ELSE visibleRows
  <2>1. con.w \in Int /\ con.h \in Int /\ visibleCols \in Int /\ visibleRows \in Int
    BY <1>3
  <2>2. w = IF con.w <= visibleCols THEN con.w ELSE visibleCols
    BY ONLY <2>1, MaxOf
  <2>3. h = IF con.h <= visibleRows THEN con.h ELSE visibleRows
    BY ONLY <2>1, MaxOf
  <2> HIDE DEF w, h
  <2>4. QED BY <2>1, <2>2, <2>3
<1> HIDE DEF w, h
<1>7. h \in Int /\ 1 <= h /\ h <= con.h /\ h <= visibleRows
  BY <1>3, <1>6
<1>8. top = IF con.h - h <= con.top THEN con.h - h ELSE con.top
  <2>1. con.h - h \in Int /\ con.top \in Int
    BY <1>3, <1>7
  <2>2. QED BY ONLY <2>1, MaxOf
<1> HIDE DEF top
<1>9. top \in Int /\ 0 <= top /\ top + h <= con.h
  BY <1>3, <1>7, <1>8
<1>10. rect.h = h /\ rect.top \in Int /\ (rect.top >= top \/ rect.top >= con.top)
  BY <1>3, <1>6, <1>7, <1>9, CursorIsKept
<1> HIDE DEF rect
<1>11. /\ con'.rows = con.rows /\ con'.x = con.x /\ con'.h = con.h
       /\ con'.top = con.top \/ con'.top = rect.top
       /\ con'.winH = con.winH \/ con'.winH = h
  BY <1>1, <1>3, <1>10, MovingTheWindow
<1>12. /\ Rows(con', scr.counter)
       /\ \A slid \in Int : Counts(con, scr, slid) => Counts(con', scr, slid)
  BY <1>4, <1>11, RowsAreKept
<1>13. con.winH = visibleRows => con'.winH = visibleRows /\ con'.top >= con.top
  BY <1>3, <1>6, <1>7, <1>8, <1>10, <1>11
<1>14. con'.winH \in Int /\ con'.top \in Int /\ scr.dirtyTop \in Int
  BY <1>3, <1>7, <1>10, <1>11 DEF Members
<1>15. con'.winH = con.winH \/ con'.winH <= visibleRows
  BY <1>7, <1>11
<1>16. QED
  BY <1>1, <1>2, <1>4, <1>5, <1>11, <1>12, <1>13, <1>14, <1>15, ResizingTracks

LEMMA ExpandingTracks == ScraperInv /\ CursorInv /\ ExpandWindow => CursorInv'
<1> SUFFICES ASSUME ScraperInv, CursorInv, ExpandWindow PROVE CursorInv'
  OBVIOUS
<1> DEFINE top == Min({con.h - visibleRows, con.top})
           fit == IF ~scr.directMode /\ scr.dirty > top + visibleRows
                    THEN scr.dirty - visibleRows ELSE top
           rect == WithCursor([top |-> fit, w |-> visibleCols, h |-> visibleRows],
                              Info(con))
<1>1. /\ pc = "expand" /\ pc' = (IF scr.directMode THEN "direct" ELSE "end")
      /\ con' = moveWindow(con, rect)
      /\ scr' = [scr EXCEPT !.dirtyTop = rect.top]
      /\ UNCHANGED <<saved, term, base, erased, missed, misled, blind, info, force, resizes,
                     paper, moved, cleared, synced>>
  BY DEF ExpandWindow, Goto, Refuse, resizeIdle
<1>2. pc \in Resizing
  BY <1>1 DEF Resizing
<1>3. /\ Console(con) /\ Members(scr)
      /\ con.top \in Int /\ con.h \in Int /\ con.w \in Int /\ con.winH \in Int
      /\ 0 <= con.top /\ con.top + con.winH <= con.h /\ 1 <= con.winH
      /\ scr.dirty \in Int /\ scr.dirty <= BUFFER_LINE_COUNT
      /\ visibleCols \in Int /\ visibleRows \in Int /\ 1 <= visibleRows
      /\ visibleRows <= finalBufferSize[2]
      /\ ~scr.directMode => finalBufferSize[2] = BUFFER_LINE_COUNT
  BY <1>2, ResizingKnows
<1>4. /\ Rows(con, scr.counter)
      /\ saved = <<>> <=> con.h = BUFFER_LINE_COUNT
  BY PiecesAre
<1>5. con.x \in Nat
  BY DEF CursorInv, Pieces
<1>6. con.h = finalBufferSize[2]
  BY <1>1 DEF ScraperInv, ResizeKnown
<1>7. top = IF con.h - visibleRows <= con.top THEN con.h - visibleRows ELSE con.top
  <2>1. con.h - visibleRows \in Int /\ con.top \in Int
    BY <1>3
  <2>2. QED BY ONLY <2>1, MaxOf
<1> HIDE DEF top
<1>8. /\ top \in Int /\ 0 <= top /\ top + visibleRows <= con.h
  BY <1>3, <1>6, <1>7
<1>9. fit \in Int /\ top <= fit /\ fit + visibleRows <= con.h
  <2>1. CASE ~scr.directMode /\ scr.dirty > top + visibleRows
    BY <1>3, <1>6, <1>8, <2>1
  <2>2. CASE ~(~scr.directMode /\ scr.dirty > top + visibleRows)
    <3>1. fit = top
      BY <2>2
    <3> HIDE DEF fit
    <3>2. QED BY <1>3, <1>8, <3>1
  <2>3. QED BY <2>1, <2>2
<1> HIDE DEF fit
<1>10. rect.h = visibleRows /\ rect.top \in Int /\ (rect.top >= fit \/ rect.top >= con.top)
  <2>1. 0 <= fit
    BY <1>8, <1>9
  <2>2. QED BY <1>3, <1>9, <2>1, CursorIsKept
<1> HIDE DEF rect
<1>11. /\ con'.rows = con.rows /\ con'.x = con.x /\ con'.h = con.h
       /\ con'.top = con.top \/ con'.top = rect.top
       /\ con'.winH = con.winH \/ con'.winH = visibleRows
  BY <1>1, <1>3, <1>10, MovingTheWindow
<1>12. DOMAIN scr = ScrFields
  BY <1>3 DEF Members
<1>13. /\ scr'.syncRow = scr.syncRow
       /\ scr'.scraped = scr.scraped /\ scr'.scrolled = scr.scrolled
       /\ scr'.dirtyTop = rect.top /\ scr'.counter = scr.counter
       /\ scr'.ptySize = scr.ptySize /\ scr'.directMode = scr.directMode
  BY <1>1, <1>12 DEF ScrFields
<1>14. /\ Rows(con', scr.counter)
       /\ \A slid \in Int : Counts(con, scr, slid) => Counts(con', scr', slid)
  BY <1>4, <1>11, <1>13, RowsAreKept
<1>15. con.winH = visibleRows =>
         con'.winH = visibleRows /\ con'.top >= con.top /\ rect.top >= con.top
  BY <1>3, <1>7, <1>9, <1>10, <1>11
<1>16. con'.winH \in Int /\ con'.top \in Int /\ scr'.dirtyTop \in Int
  BY <1>3, <1>10, <1>11, <1>13
<1>17. con'.winH = con.winH \/ con'.winH <= visibleRows
  BY <1>3, <1>11
<1>18. pc' \in {"direct", "end"} /\ (pc' = "direct" => scr.directMode)
  BY <1>1
<1>19. QED
  BY <1>1, <1>2, <1>4, <1>5, <1>11, <1>13, <1>14, <1>15, <1>16, <1>17, <1>18, ResizingTracks

(* In a buffer of another size every row still starts as it did, but for    *)
(* those that are lost.                                                     *)
LEMMA ResizedRowsAre ==
  ASSUME MarkersDiffer, NEW c, Console(c), NEW w \in Int, NEW h \in Int, CanResize(c, w, h),
         NEW n \in Nat, Rows(c, n), c.x \in Nat
  PROVE  LET d == resizeBufferRange(c, w, h)
         IN /\ Rows(d, n) /\ d.x \in Nat
            /\ h = c.h => \A s : \A slid \in Int : Counts(c, s, slid) => Counts(d, s, slid)
<1> DEFINE widths == {v \in w..Max({w, 20}) : CanResize(c, v, h)}
<1>1. w \in widths /\ widths \subseteq Int /\ \A x \in widths : w <= x
  <2>1. Max({w, 20}) = IF w >= 20 THEN w ELSE 20
    BY MaxOf
  <2>2. w \in w..Max({w, 20})
    BY <2>1
  <2>3. QED BY <2>1, <2>2
<1>2. Min(widths) = w
  BY ONLY <1>1, MinExists
<1>3. resizeBufferRange(c, w, h) = ResizeTo(c, w, h)
  BY <1>1, <1>2 DEF resizeBufferRange
<1> DEFINE cut == Max({0, c.y + 1 - h})
           rows == [r \in 0..(h - 1) |-> [i \in 1..w |-> CellAt(ReadRow(c, r + cut), i)]]
           x == Min({c.x, w - 1})
           d == ResizeTo(c, w, h)
<1>4. PICK top, y :
        d = [c EXCEPT !.w = w, !.h = h, !.rows = rows, !.top = top, !.x = x, !.y = y]
  BY DEF ResizeTo
<1>5. DOMAIN c = ConFields /\ Window(c)
  BY DEF Console
<1>6. /\ c.y \in Int /\ c.y < c.h /\ c.h \in Int /\ 1 <= w
  BY <1>5 DEF Window, CanResize
<1> HIDE DEF rows, x
<1>7. d.h = h /\ d.rows = rows /\ d.x = x
  BY <1>4, <1>5 DEF ConFields
<1>8. cut \in Int /\ (h = c.h => cut = 0)
  <2>1. c.y + 1 - h \in Int
    BY <1>6
  <2>2. cut = IF 0 >= c.y + 1 - h THEN 0 ELSE c.y + 1 - h
    BY ONLY <2>1, MaxOf
  <2> HIDE DEF cut
  <2>3. QED BY <1>6, <2>1, <2>2
<1> HIDE DEF cut, d
<1>9. x \in Nat
  <2>1. w - 1 \in Int /\ c.x \in Int
    BY <1>6
  <2>2. x = IF c.x <= w - 1 THEN c.x ELSE w - 1
    BY ONLY <2>1, MaxOf DEF x
  <2>3. QED BY <1>6, <2>2
<1>10. ASSUME NEW r \in 0..(h - 1)
       PROVE  /\ 1 \in DOMAIN rows[r]
              /\ rows[r][1] = IF r + cut \in 0..(c.h - 1) THEN c.rows[r + cut][1] ELSE Blank
  <2>1. /\ 1 \in DOMAIN rows[r] /\ rows[r][1] = CellAt(ReadRow(c, r + cut), 1)
    BY <1>6 DEF rows
  <2>2. CASE r + cut \in 0..(c.h - 1)
    <3>1. ReadRow(c, r + cut) = c.rows[r + cut] /\ 1 \in DOMAIN c.rows[r + cut]
      BY <2>2 DEF ReadRow, Rows
    <3>2. QED BY <2>1, <2>2, <3>1 DEF CellAt
  <2>3. CASE r + cut \notin 0..(c.h - 1)
    <3>1. ReadRow(c, r + cut) = Blanks(c.w)
      BY <2>3 DEF ReadRow, Rows
    <3>2. CellAt(Blanks(c.w), 1) = Blank
      BY DEF CellAt, Blanks
    <3>3. QED BY <2>1, <2>3, <3>1, <3>2
  <2>4. QED BY <2>2, <2>3
<1>11. Rows(d, n)
  <2>1. DOMAIN d.rows = 0..(d.h - 1)
    BY <1>7 DEF rows
  <2>2. ASSUME NEW r \in 0..(h - 1), NEW m \in Nat, m > n PROVE rows[r][1] # MarkerText(m)
    <3>1. CASE r + cut \in 0..(c.h - 1)
      <4> DEFINE q == r + cut
      <4>1. q \in 0..(c.h - 1) /\ rows[r][1] = c.rows[q][1]
        BY <1>10, <3>1
      <4> HIDE DEF q
      <4>2. QED BY <2>2, <4>1 DEF Rows
    <3>2. CASE r + cut \notin 0..(c.h - 1)
      BY <1>10, <3>2 DEF MarkersDiffer
    <3>3. QED BY <3>1, <3>2
  <2>3. QED BY <1>7, <1>10, <2>1, <2>2 DEF Rows
<1>12. ASSUME h = c.h, NEW s, NEW slid \in Int, Counts(c, s, slid)
       PROVE  Counts(d, s, slid)
  <2>1. ASSUME NEW r \in 0..(c.h - 1) PROVE d.rows[r][1] = c.rows[r][1]
    <3>1. cut = 0 /\ r \in 0..(h - 1) /\ r + cut = r
      BY <1>8, <1>12
    <3>2. QED BY <1>7, <1>10, <2>1, <3>1
  <2>2. MarkedAt(c, s, slid) => MarkedAt(d, s, slid)
    BY <1>7, <1>12, <2>1 DEF MarkedAt
  <2>3. QED BY <1>12, <2>2 DEF Counts
<1>13. QED BY <1>3, <1>7, <1>9, <1>11, <1>12 DEF d

LEMMA OtherBufferStaysOther ==
  ASSUME Members(scr), Window(info), info.h # BUFFER_LINE_COUNT
  PROVE  finalBufferSize[2] # BUFFER_LINE_COUNT
<1> DEFINE rows == scr.ptySize[2]
<1>1. scr.ptySize \in Sizes
  BY DEF Members
<1>2. rows \in Int /\ rows < BUFFER_LINE_COUNT /\ BUFFER_LINE_COUNT \in Int
  BY <1>1, SizesAre
<1>3. info.h \in Int
  BY DEF Window
<1> HIDE DEF rows
<1>4. Max({rows, info.h}) = IF rows >= info.h THEN rows ELSE info.h
  BY <1>2, <1>3, MaxOf
<1>5. finalBufferSize[2] = IF info.winH = info.h THEN rows ELSE Max({rows, info.h})
  BY DEF finalBufferSize, rows
<1>6. QED BY <1>2, <1>4, <1>5

LEMMA ResizingBufferTracks ==
  MarkersDiffer /\ ScraperInv /\ CursorInv /\ ResizeBuffer => CursorInv'
<1> SUFFICES ASSUME MarkersDiffer, ScraperInv, CursorInv, ResizeBuffer PROVE CursorInv'
  OBVIOUS
<1> DEFINE w == finalBufferSize[1]
           h == finalBufferSize[2]
<1>1. /\ pc = "buffer" /\ pc' = "expand" /\ con' = resizeBufferRange(con, w, h)
      /\ UNCHANGED <<saved, term, base, erased, missed, misled, blind, info, force, resizes,
                     paper, moved, cleared, synced, scr>>
  BY DEF ResizeBuffer, Goto, Refuse, resizeIdle
<1>2. pc \in Resizing
  BY <1>1 DEF Resizing
<1>3. /\ Console(con) /\ Members(scr) /\ Window(info)
      /\ con.top \in Int /\ con.winW \in Int /\ con.winH \in Int /\ con.h \in Int
      /\ visibleCols \in Int /\ visibleRows \in Int
      /\ w \in Int /\ h \in Int /\ visibleCols <= w /\ visibleRows <= h
      /\ ~scr.directMode => h = BUFFER_LINE_COUNT
  BY <1>2, ResizingKnows
<1>4. con.winW <= visibleCols /\ con.winH <= visibleRows
  BY <1>1 DEF ScraperInv, ResizeKnown
<1>5. con.h = info.h
  BY <1>1 DEF ScraperInv, InfoKnown
<1>6. /\ Rows(con, scr.counter) /\ scr.counter \in Nat
      /\ saved = <<>> <=> con.h = BUFFER_LINE_COUNT
  BY PiecesAre
<1>7. con.x \in Nat /\ (scr.directMode <=> saved # <<>>)
  BY <1>1 DEF CursorInv, Pieces, Going
<1>8. saved # <<>> => h # BUFFER_LINE_COUNT
  BY <1>3, <1>5, <1>6, OtherBufferStaysOther
<1> HIDE DEF w, h
<1>9. CanResize(con, w, h)
  BY <1>3, <1>4 DEF CanResize
<1>10. /\ Console(con') /\ con'.h = h /\ con'.winH = con.winH
       /\ h >= con.h => con'.top = con.top
  BY <1>1, <1>3, <1>9, BufferIsResized
<1>11. /\ Rows(con', scr.counter) /\ con'.x \in Nat
       /\ h = con.h => \A s : \A slid \in Int : Counts(con, s, slid) => Counts(con', s, slid)
  BY <1>1, <1>3, <1>6, <1>7, <1>9, ResizedRowsAre
<1>12. /\ saved = <<>> => h = con.h
       /\ saved = <<>> <=> con'.h = BUFFER_LINE_COUNT
  BY <1>3, <1>6, <1>7, <1>8, <1>10
<1>13. saved = <<>> => \A slid \in Int : Counts(con, scr, slid) => Counts(con', scr, slid)
  BY <1>11, <1>12
<1>14. saved = <<>> => con'.top >= con.top
  BY <1>3, <1>10, <1>12
<1>15. con'.top \in Int /\ con'.winH \in Int /\ scr.dirtyTop \in Int
  BY <1>3, <1>10 DEF Console, Window, Members
<1>16. QED
  BY <1>1, <1>2, <1>10, <1>11, <1>12, <1>13, <1>14, <1>15, ResizingTracks

LEMMA InitIsCursorInv == MarkersDiffer /\ Init => CursorInv
<1> SUFFICES ASSUME MarkersDiffer, Init PROVE CursorInv
  OBVIOUS
<1>1. PICK size \in Sizes, modern \in BOOLEAN :
        /\ scr = NewScraper(size)
        /\ con = NewConsole(modern, size[1], BUFFER_LINE_COUNT,
                            Min({size[1], Largest[1]}), Min({size[2], Largest[2]}))
        /\ term = NewTerminal(size)
  BY DEF Init
<1>2. /\ saved = <<>> /\ pc = "idle" /\ force = FALSE /\ resizes = 0 /\ paper = <<>> /\ base = 0
      /\ missed = FALSE /\ misled = FALSE /\ blind = FALSE
      /\ moved = FALSE /\ cleared = FALSE /\ synced = FALSE
  BY DEF Init
<1>3. /\ size[1] \in Int /\ size[2] \in Int /\ 1 <= size[1] /\ 1 <= size[2]
      /\ BUFFER_LINE_COUNT \in Int
      /\ Largest[1] \in Int /\ Largest[2] \in Int
  BY SizesAre
<1> DEFINE w == Min({size[1], Largest[1]})
           h == Min({size[2], Largest[2]})
<1>4. h \in Int /\ h <= size[2]
  <2>1. size[2] \in Int /\ Largest[2] \in Int
    BY <1>3
  <2>2. h = IF size[2] <= Largest[2] THEN size[2] ELSE Largest[2]
    BY ONLY <2>1, MaxOf
  <2> HIDE DEF h
  <2>3. QED BY <2>1, <2>2
<1>5. con = NewConsole(modern, size[1], BUFFER_LINE_COUNT, w, h)
  BY <1>1
<1>6. scr.ptySize = size => visibleRows = h
  BY DEF visibleRows
<1> HIDE DEF w, h
<1>7. /\ con.h = BUFFER_LINE_COUNT /\ con.winH = h /\ con.x = 0
      /\ con.rows = [r \in 0..(BUFFER_LINE_COUNT - 1) |-> Blanks(size[1])]
  BY <1>5 DEF NewConsole
<1> DEFINE s == [lines |-> <<>>, syncRow |-> NoMarker, counter |-> 0, scraped |-> 0,
                 scrolled |-> 0, maxBuffered |-> -1, dirtyTop |-> -1, dirty |-> 0,
                 directMode |-> FALSE, ptySize |-> size]
<1>8. scr = Tracking(s, 0)
  BY <1>1 DEF NewScraper
<1>9. /\ DOMAIN s = ScrFields /\ s.ptySize = size /\ s.directMode = FALSE /\ s.counter = 0
  BY DEF ScrFields
<1> HIDE DEF s
<1>10. /\ scr.syncRow = -1 /\ scr.scraped = 0 /\ scr.scrolled = 0 /\ scr.counter = 0
       /\ scr.dirtyTop = -1 /\ scr.ptySize = size /\ scr.directMode = FALSE
  BY <1>8, <1>9 DEF Tracking, ScrFields, NoMarker
<1>11. /\ DOMAIN term = TermFields /\ term.x = 0 /\ term.y = 1 /\ term.top = 1
       /\ term.height = size[2] /\ term.shown = TRUE /\ term.stopped = FALSE
       /\ term.line = 0 /\ term.column = 0 /\ term.data = <<>> /\ term.valid = TRUE
       /\ term.hidden = FALSE
  BY <1>1 DEF NewTerminal, TermFields
<1>12. Pictured(term)
  <2>1. Len(term.data) = 0
    BY <1>11
  <2>2. /\ term.hidden \in BOOLEAN /\ term.shown \in BOOLEAN /\ term.stopped \in BOOLEAN
        /\ term.valid \in BOOLEAN /\ ~term.hidden
    BY <1>11
  <2>3. /\ term.line \in Int /\ term.y \in Int /\ term.top \in Int /\ term.height \in Int
        /\ term.column \in Nat /\ term.x = term.column
    BY <1>3, <1>11
  <2>4. QED BY <1>11, <2>1, <2>2, <2>3 DEF Pictured
<1>13. Rows(con, 0)
  <2>1. 1 \in DOMAIN Blanks(size[1]) /\ Blanks(size[1])[1] = Blank
    BY <1>3 DEF Blanks
  <2>2. \A r \in 0..(BUFFER_LINE_COUNT - 1) : con.rows[r] = Blanks(size[1])
    BY <1>7
  <2>3. DOMAIN con.rows = 0..(BUFFER_LINE_COUNT - 1)
    BY <1>7
  <2>4. QED BY <1>7, <2>1, <2>2, <2>3 DEF Rows, MarkersDiffer
<1>14. gone = 0 /\ IsPaper(paper)
  <2>1. Len(<<>>) = 0 /\ <<>> \in Seq({})
    OBVIOUS
  <2>2. QED BY <1>2, <2>1 DEF gone, IsPaper
<1>15. /\ Round.con = con /\ Round.scr = scr /\ Round.term = term /\ Round.base = base
       /\ Round.missed = missed /\ Round.misled = misled /\ Round.blind = blind
  BY DEF Round
<1> HIDE DEF Round
<1>16. Tabled = con
  BY <1>2 DEF Tabled
<1>17. Pieces
  <2>1. Seen(Round)
    <3>1. /\ Pictured(Round.term) /\ Round.term.height = Round.scr.ptySize[2]
          /\ Rows(Round.con, Round.scr.counter)
      BY <1>10, <1>11, <1>12, <1>13, <1>15
    <3>2. Round.base \in Int /\ Round.scr.counter \in Nat
      BY <1>2, <1>10, <1>15
    <3>3. Round.missed \in BOOLEAN /\ Round.blind \in BOOLEAN /\ Round.term.shown
      BY <1>2, <1>11, <1>15
    <3>4. QED BY <3>1, <3>2, <3>3 DEF Seen
  <2>2. QED BY <1>2, <1>7, <1>14, <1>16, <2>1 DEF Pieces
<1>18. KnowsLines
  <2>1. Slid(Round) = 0
    BY <1>2, <1>10, <1>11, <1>14, <1>15 DEF Slid
  <2>2. Counts(Tabled, scr, Slid(Round))
    BY <1>10, <2>1 DEF Counts
  <2>3. QED BY <1>2, <1>10, <2>2 DEF KnowsLines
<1>19. Going
  BY <1>2, <1>10 DEF Going, Scrolling, Resizing
<1>20. Unresized
  <2>1. con.winH <= term.height /\ Tabled.winH = visibleRows
    BY <1>4, <1>6, <1>7, <1>10, <1>11, <1>16
  <2>2. RowOf(Round.term, Round.scr.scraped) = 1
    BY <1>10, <1>11, <1>15 DEF RowOf
  <2>3. OnTop(Round, 0)
    BY <1>10, <1>11, <1>15, <2>2 DEF OnTop
  <2>4. QED BY <1>2, <1>10, <2>1, <2>3 DEF Unresized, Scrolling, Resizing
<1>21. Placed
  BY <1>2 DEF Placed
<1>22. QED BY <1>17, <1>18, <1>19, <1>20, <1>21 DEF CursorInv

LEMMA CursorInvariance ==
  ASSUME MarkersDiffer
  PROVE  Spec => []CursorInv
<1>1. ASSUME ScraperInv, CursorInv, [Next]_vars PROVE CursorInv'
  <2>1. CASE Scrape
    BY <1>1, <2>1, ScrapeTracks
  <2>2. CASE \E size \in Sizes : Resize(size)
    BY <1>1, <2>2, ResizeTracks
  <2>3. CASE ReadInfo
    BY <1>1, <2>3, ReadingInfoTracks
  <2>4. CASE SetMode
    BY <1>1, <2>4, SettingModeTracks
  <2>5. CASE Direct
    BY <1>1, <2>5, MirroringTracks
  <2>6. CASE ScrollFrozen
    BY <1>1, <2>6, ScrollingFrozenTracks
  <2>7. CASE FindMarker
    BY <1>1, <2>7, FindingMarkerTracks
  <2>8. CASE ReadLines \/ CheckInfo
    BY <1>1, <2>8, ReadingTracks
  <2>9. CASE CheckMarker
    BY <1>1, <2>9, CheckingMarkerTracks
  <2>10. CASE EraseForResize
    BY <1>1, <2>10, ErasingForResizeTracks
  <2>11. CASE ShrinkWindow
    BY <1>1, <2>11, ShrinkingTracks
  <2>12. CASE ResizeBuffer
    BY <1>1, <2>12, ResizingBufferTracks
  <2>13. CASE ExpandWindow
    BY <1>1, <2>13, ExpandingTracks
  <2>14. CASE EndRound
    BY <1>1, <2>14, EndingTracks
  <2>15. CASE Write
    BY <1>1, <2>15, WritingTracks
  <2>16. CASE Home \/ ShowOrHide
    BY <1>1, <2>16, TouchingTracks
  <2>17. CASE ClearScreen
    BY <1>1, <2>17, ClearingTracks
  <2>18. CASE Enter \/ Leave
    BY <1>1, <2>18, SwitchingTracks
  <2>19. CASE UNCHANGED vars
    BY <1>1, <2>19, CursorStutters
  <2>20. QED BY <1>1, <2>1, <2>2, <2>3, <2>4, <2>5, <2>6, <2>7, <2>8, <2>9, <2>10, <2>11,
                <2>12, <2>13, <2>14, <2>15, <2>16, <2>17, <2>18, <2>19 DEF Next, Agent
<1>2. Init => CursorInv
  BY InitIsCursorInv
<1>3. QED BY <1>1, <1>2, ScraperInvariance, PTL DEF Spec

(* The terminal's cursor is where the console's is, or hidden as that is,   *)
(* however far the buffer has scrolled: what the marker tells is the place  *)
(* of every line (syncConsoleContentAndSize, Terminal::showTerminalCursor). *)
THEOREM CursorIsRight ==
  ASSUME MarkersDiffer
  PROVE  Spec => []CursorShown
<1>1. CursorInv => CursorShown
  BY DEF CursorInv, Placed, CursorShown, InSync
<1>2. QED BY <1>1, CursorInvariance, PTL
=============================================================================
