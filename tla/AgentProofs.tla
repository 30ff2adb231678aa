----------------------------- MODULE AgentProofs -----------------------------
(***************************************************************************)
(* Proofs about Agent: how a session ends, for every flag, quota and       *)
(* bound.  What the scrapes have seen is counted through the pipe's        *)
(* buffers, which hand it over without looking at it; IInv adds that       *)
(* shutting down begins with the child's exit, that one more scrape        *)
(* follows, and that a pipe is closed when it is empty or its client gone. *)
(* With IInv each step is one of ByteStream, for each output pipe.         *)
(***************************************************************************)
EXTENDS Agent, StreamLemmas, FiniteSetTheorems, FunctionTheorems

-----------------------------------------------------------------------------
(* What is in two buffers in a row: the pieces of text add up,              *)
LEMMA CountIsNat ==
  ASSUME NEW s \in Seq(Item)
  PROVE  /\ IsFiniteSet({i \in 1..Len(s) : s[i] = "text"})
         /\ TextCount(s) = Cardinality({i \in 1..Len(s) : s[i] = "text"})
         /\ TextCount(s) \in Nat
<1>1. Len(s) \in Nat /\ DOMAIN s = 1..Len(s)
  BY LenProperties
<1>2. IsFiniteSet(1..Len(s))
  BY <1>1, FS_Interval
<1>3. IsFiniteSet({i \in 1..Len(s) : s[i] = "text"})
  BY <1>2, FS_Subset
<1>4. QED BY <1>1, <1>3, FS_CardinalityType DEF TextCount

LEMMA CountOfCat ==
  ASSUME NEW s \in Seq(Item), NEW t \in Seq(Item)
  PROVE  /\ TextCount(Cat(s, t)) = TextCount(s) + TextCount(t)
         /\ TextCount(s) \in Nat /\ TextCount(t) \in Nat
<1> DEFINE n == Len(s)
           m == Len(t)
           c == Cat(s, t)
           A == {i \in 1..n : s[i] = "text"}
           B == {i \in 1..m : t[i] = "text"}
           C == {i \in 1..Len(c) : c[i] = "text"}
           shift == [i \in B |-> i + n]
           D == {i \in (n + 1)..(n + m) : t[i - n] = "text"}
<1>1. /\ n \in Nat /\ m \in Nat /\ c \in Seq(Item) /\ Len(c) = n + m
      /\ \A i \in 1..(n + m) : c[i] = IF i <= n THEN s[i] ELSE t[i - n]
  BY LenProperties, ConcatProperties DEF Cat
<1>2. IsFiniteSet(A) /\ IsFiniteSet(B)
  BY CountIsNat
<1>3. shift \in Bijection(B, D)
  <2>1. /\ shift \in [B -> D]
        /\ \A a, b \in B : shift[a] = shift[b] => a = b
        /\ \A d \in D : \E b \in B : shift[b] = d
    <3>1. \A i \in B : i + n \in D
      BY <1>1
    <3>2. \A d \in D : d - n \in B /\ (d - n) + n = d
      BY <1>1
    <3>3. QED BY <1>1, <3>1, <3>2
  <2> HIDE DEF shift, B, D
  <2>2. QED BY <2>1, Fun_IsBij
<1>4. IsFiniteSet(D) /\ Cardinality(D) = Cardinality(B)
  BY <1>2, <1>3, FS_Bijection DEF ExistsBijection
<1>5. C = A \cup D /\ A \cap D = {}
  BY <1>1
<1>6. Cardinality(C) = Cardinality(A) + Cardinality(D) - Cardinality({})
  <2> HIDE DEF A, C, D
  <2>1. Cardinality(A \cup D)
          = Cardinality(A) + Cardinality(D) - Cardinality(A \cap D)
    BY <1>2, <1>4, FS_Union
  <2>2. QED BY <1>5, <2>1
<1>7. /\ TextCount(s) = Cardinality(A) /\ TextCount(s) \in Nat
      /\ TextCount(t) = Cardinality(B) /\ TextCount(t) \in Nat
      /\ TextCount(c) = Cardinality(C)
  BY <1>1, CountIsNat
<1> HIDE DEF A, B, C, D, n, m, c, shift
<1>8. QED BY <1>4, <1>6, <1>7, FS_EmptySet DEF c

(* and the later buffer has the last word on the mouse mode, if any.        *)
NoMouse(s) == \A i \in 1..Len(s) : s[i] \notin {"on", "off"}

LEMMA MouseOfCat ==
  ASSUME NEW s \in Seq(Item), NEW t \in Seq(Item)
  PROVE  /\ NoMouse(t) => (MouseLeftOn(Cat(s, t)) <=> MouseLeftOn(s))
         /\ t = <<"on">> => MouseLeftOn(Cat(s, t))
         /\ t = <<"off">> => ~MouseLeftOn(Cat(s, t))
<1> DEFINE n == Len(s)
           m == Len(t)
           c == Cat(s, t)
<1>1. /\ n \in Nat /\ m \in Nat /\ c \in Seq(Item) /\ Len(c) = n + m
      /\ \A i \in 1..(n + m) : c[i] = IF i <= n THEN s[i] ELSE t[i - n]
      /\ DOMAIN c = 1..(n + m) /\ DOMAIN s = 1..n
  BY LenProperties, ConcatProperties DEF Cat
<1> HIDE DEF c
<1>2. ASSUME NoMouse(t), MouseLeftOn(c) PROVE MouseLeftOn(s)
  <2>1. PICK i \in 1..(n + m) :
          c[i] = "on" /\ \A j \in i..(n + m) : c[j] # "off"
    BY <1>1, <1>2 DEF MouseLeftOn
  <2>2. i <= n
    <3> SUFFICES ASSUME i > n PROVE FALSE
      BY <1>1
    <3>1. i - n \in 1..m /\ c[i] = t[i - n]
      BY <1>1
    <3>2. QED BY <1>2, <2>1, <3>1 DEF NoMouse
  <2>3. i \in 1..n /\ s[i] = "on"
    BY <1>1, <2>1, <2>2
  <2>4. \A j \in i..n : s[j] # "off"
    BY <1>1, <2>1, <2>2
  <2>5. QED BY <1>1, <2>3, <2>4 DEF MouseLeftOn
<1>3. ASSUME NoMouse(t), MouseLeftOn(s) PROVE MouseLeftOn(c)
  <2>1. PICK i \in 1..n : s[i] = "on" /\ \A j \in i..n : s[j] # "off"
    BY <1>1, <1>3 DEF MouseLeftOn
  <2>2. ASSUME NEW j \in i..(n + m) PROVE c[j] # "off"
    <3>1. CASE j <= n
      BY <1>1, <2>1, <3>1
    <3>2. CASE j > n
      <4>1. j - n \in 1..m /\ c[j] = t[j - n]
        BY <1>1, <3>2
      <4>2. QED BY <1>3, <4>1 DEF NoMouse
    <3>3. QED BY <1>1, <3>1, <3>2
  <2>3. i \in 1..(n + m) /\ c[i] = "on"
    BY <1>1, <2>1
  <2>4. QED BY <1>1, <2>2, <2>3 DEF MouseLeftOn
<1>4. ASSUME NEW x, t = <<x>> PROVE m = 1 /\ c[n + 1] = x
  BY <1>1, <1>4
<1>5. ASSUME t = <<"on">> PROVE MouseLeftOn(c)
  <2>1. m = 1 /\ c[n + 1] = "on"
    BY <1>4, <1>5
  <2>2. n + 1 \in 1..(n + m) /\ \A j \in (n + 1)..(n + m) : j = n + 1
    BY <1>1, <2>1
  <2>3. "on" # "off"
    OBVIOUS
  <2>4. QED BY <1>1, <2>1, <2>2, <2>3 DEF MouseLeftOn
<1>6. ASSUME t = <<"off">> PROVE ~MouseLeftOn(c)
  <2>1. m = 1 /\ c[n + 1] = "off"
    BY <1>4, <1>6
  <2>2. ASSUME NEW i \in 1..(n + m), \A j \in i..(n + m) : c[j] # "off"
        PROVE  FALSE
    <3>1. n + 1 \in i..(n + m)
      BY <1>1, <2>1
    <3>2. QED BY <2>1, <2>2, <3>1
  <2>3. QED BY <1>1, <2>2 DEF MouseLeftOn
<1>7. QED BY <1>2, <1>3, <1>5, <1>6 DEF c

(* What a scrape writes: as much text as is new, and no mouse mode; and the *)
(* other items of a poll.                                                   *)
LEMMA SomeText ==
  ASSUME NEW n \in Nat
  PROVE  LET t == [i \in 1..n |-> "text"]
         IN  t \in Seq(Item) /\ Len(t) = n /\ TextCount(t) = n /\ NoMouse(t)
<1> DEFINE t == [i \in 1..n |-> "text"]
<1>1. t \in Seq(Item) /\ Len(t) = n
  BY DEF Item
<1>2. {i \in 1..n : t[i] = "text"} = 1..n
  OBVIOUS
<1>3. Cardinality(1..n) = n
  BY FS_Interval
<1>4. TextCount(t) = n
  BY <1>2, <1>3 DEF TextCount
<1>5. \A i \in 1..n : t[i] \notin {"on", "off"}
  OBVIOUS
<1>6. NoMouse(t)
  BY <1>1, <1>5 DEF NoMouse
<1>7. QED BY <1>1, <1>4, <1>6

LEMMA NoText ==
  ASSUME NEW s \in Seq(Item), \A i \in 1..Len(s) : s[i] # "text"
  PROVE  TextCount(s) = 0
<1>1. {i \in 1..Len(s) : s[i] = "text"} = {}
  OBVIOUS
<1>2. QED BY <1>1, CountIsNat, FS_EmptySet

LEMMA OtherItems ==
  /\ <<>> \in Seq(Item) /\ TextCount(<<>>) = 0 /\ NoMouse(<<>>)
  /\ ~MouseLeftOn(<<>>)
  /\ <<"title">> \in Seq(Item) /\ TextCount(<<"title">>) = 0
  /\ NoMouse(<<"title">>)
  /\ <<"on">> \in Seq(Item) /\ TextCount(<<"on">>) = 0
  /\ <<"off">> \in Seq(Item) /\ TextCount(<<"off">>) = 0
<1>1. <<>> \in Seq(Item) /\ Len(<<>>) = 0
  BY EmptySeq
<1>2. ASSUME NEW x \in Item, x # "text"
      PROVE  /\ <<x>> \in Seq(Item) /\ TextCount(<<x>>) = 0
             /\ \A i \in 1..Len(<<x>>) : <<x>>[i] = x
  <2>1. <<x>> \in Seq(Item) /\ Len(<<x>>) = 1 /\ <<x>>[1] = x
    OBVIOUS
  <2>2. \A i \in 1..Len(<<x>>) : <<x>>[i] = x
    BY <2>1
  <2>3. QED BY <1>2, <2>1, <2>2, NoText
<1>3. TextCount(<<>>) = 0 /\ NoMouse(<<>>) /\ ~MouseLeftOn(<<>>)
  <2>1. TextCount(<<>>) = 0
    <3> DEFINE none == <<>>
    <3>1. none \in Seq(Item) /\ Len(none) = 0
      BY <1>1
    <3> HIDE DEF none
    <3>2. \A i \in 1..Len(none) : none[i] # "text"
      BY <3>1
    <3>3. TextCount(none) = 0
      BY <3>1, <3>2, NoText
    <3>4. QED BY <3>3 DEF none
  <2>2. QED BY <1>1, <2>1 DEF NoMouse, MouseLeftOn
<1>4. {"title", "on", "off"} \subseteq Item /\ "text" \notin {"title", "on", "off"}
  BY DEF Item
<1>5. NoMouse(<<"title">>)
  <2>1. "title" \in Item /\ "title" # "text" /\ "title" \notin {"on", "off"}
    BY DEF Item
  <2>2. \A i \in 1..Len(<<"title">>) : <<"title">>[i] = "title"
    BY <1>2, <2>1
  <2>3. QED BY <2>1, <2>2 DEF NoMouse
<1>6. QED BY <1>1, <1>2, <1>3, <1>4, <1>5

(* The four buffers of a pipe as one row: what it holds,                    *)
LEMMA RowItems ==
  ASSUME NEW g \in Seq(Item), NEW w \in Seq(Item), NEW r \in Seq(Item),
         NEW q \in Seq(Item)
  PROVE  /\ Row(g, w, r, q) \in Seq(Item)
         /\ TextCount(Row(g, w, r, q))
              = TextCount(g) + TextCount(w) + TextCount(r) + TextCount(q)
         /\ {TextCount(g), TextCount(w), TextCount(r), TextCount(q)}
              \subseteq Nat
<1> DEFINE gw == Cat(g, w)
           gwr == Cat(gw, r)
<1>1. Row(g, w, r, q) = Cat(gwr, q)
  BY DEF Row, Cat
<1>2. gw \in Seq(Item)
  BY Monoid
<1>3. TextCount(gw) = TextCount(g) + TextCount(w)
      /\ TextCount(g) \in Nat /\ TextCount(w) \in Nat
  BY CountOfCat
<1> HIDE DEF gw
<1>4. gwr \in Seq(Item)
  BY <1>2, Monoid
<1>5. TextCount(gwr) = TextCount(gw) + TextCount(r) /\ TextCount(r) \in Nat
  BY <1>2, CountOfCat
<1> HIDE DEF gwr
<1>6. Cat(gwr, q) \in Seq(Item)
  BY <1>4, Monoid
<1>7. TextCount(Cat(gwr, q)) = TextCount(gwr) + TextCount(q)
      /\ TextCount(q) \in Nat
  BY <1>4, CountOfCat
<1>8. QED BY <1>1, <1>3, <1>5, <1>6, <1>7

(* what is queued behind it,                                                *)
LEMMA RowGrows ==
  ASSUME NEW g \in Seq(Item), NEW w \in Seq(Item), NEW r \in Seq(Item),
         NEW q \in Seq(Item), NEW x \in Seq(Item)
  PROVE  /\ Cat(q, x) \in Seq(Item)
         /\ Row(g, w, r, Cat(q, x)) = Cat(Row(g, w, r, q), x)
<1> DEFINE gwr == Cat(Cat(g, w), r)
<1>1. Cat(g, w) \in Seq(Item)
  BY Monoid
<1>2. gwr \in Seq(Item)
  BY <1>1, Monoid
<1>3. /\ Row(g, w, r, Cat(q, x)) = Cat(gwr, Cat(q, x))
      /\ Row(g, w, r, q) = Cat(gwr, q)
  BY DEF Row, Cat
<1> HIDE DEF gwr
<1>4. QED BY <1>2, <1>3, Monoid

(* and what leaves it at the front.                                         *)
LEMMA RowIsRead ==
  ASSUME NEW g \in Seq(Item), NEW w \in Seq(Item), NEW r \in Seq(Item),
         NEW q \in Seq(Item), Cat(w, r) # <<>>,
         NEW more \in 1..Len(Cat(w, r))
  PROVE  LET all == Cat(w, r)
         IN  /\ Head(all) \in Item
             /\ Tail(First(all, more)) \in Seq(Item)
             /\ From(all, more) \in Seq(Item)
             /\ Row(g, w, r, q) = Row(Add(g, Head(all)), Tail(First(all, more)),
                                      From(all, more), q)
<1> DEFINE all == Cat(w, r)
           y == Tail(First(all, more))
           z == From(all, more)
           x == <<Head(all)>>
<1>1. all \in Seq(Item) /\ Len(all) \in Nat /\ more \in 0..Len(all)
  BY Monoid, LenProperties
<1> HIDE DEF all
<1>2. /\ First(all, more) \in Seq(Item) /\ Len(First(all, more)) = more
      /\ z \in Seq(Item) /\ all = Cat(First(all, more), z)
  BY <1>1, Cut
<1>3. Head(all) \in Item /\ all[1] = Head(all)
  BY <1>1, HeadTailProperties DEF all
<1>4. First(all, more) = Cat(x, y) /\ y \in Seq(Item)
  <2>1. First(all, more) # <<>>
    BY <1>1, <1>2, EmptySeq
  <2>2. y \in Seq(Item)
    BY <1>2, <2>1, HeadTailProperties
  <2>3. 1 \in 1..Len(all) /\ more \in 1..Len(all)
    BY <1>1 DEF all
  <2>4. Tail(SubSeq(all, 1, more)) = SubSeq(all, 2, more)
    BY <1>1, <2>3, HeadTailOfSubSeq
  <2>5. SubSeq(all, 1, more) = <<all[1]>> \o SubSeq(all, 2, more)
    BY <1>1, <2>3, SubSeqRecursiveFirst
  <2>6. QED BY <1>3, <2>2, <2>4, <2>5 DEF First, Cat
<1>5. x \in Seq(Item)
  BY <1>3
<1>6. Cat(x, Cat(y, z)) = all
  <2> DEFINE f == First(all, more)
  <2>1. all = Cat(f, z) /\ f = Cat(x, y)
    BY <1>2, <1>4
  <2> HIDE DEF x, y, z, f
  <2>2. Cat(x, Cat(y, z)) = Cat(Cat(x, y), z)
    BY <1>2, <1>4, <1>5, Monoid
  <2>3. QED BY <2>1, <2>2
<1>7. Row(g, w, r, q) = Cat(Cat(g, all), q)
  BY Middle DEF all
<1>8. Add(g, Head(all)) = Cat(g, x)
  BY <1>3, AppendIsConcat DEF Cat, Add
<1> HIDE DEF x, y, z
<1>9. Cat(Cat(g, Cat(x, Cat(y, z))), q) = Row(Cat(g, x), y, z, q)
  BY <1>2, <1>4, <1>5, TakeOut
<1>10. Row(g, w, r, q) = Row(Add(g, Head(all)), y, z, q)
  BY <1>6, <1>7, <1>8, <1>9
<1>11. QED BY <1>2, <1>3, <1>4, <1>10 DEF all, y, z

-----------------------------------------------------------------------------
(* What a poll puts in the queues is items.                                 *)
LEMMA ScrapeIsTyped ==
  ASSUME TypeOK, NEW p \in OutPipes, scraped[p] <= output[p]
  PROVE  /\ Scraped(p) \in Seq(Item) /\ NoMouse(Scraped(p))
         /\ TextCount(Scraped(p)) = output[p] - scraped[p]
         /\ scraped[p] = output[p] => Scraped(p) = <<>>
<1>1. output[p] - scraped[p] \in Nat
  BY DEF TypeOK
<1>2. /\ Scraped(p) \in Seq(Item) /\ NoMouse(Scraped(p))
      /\ TextCount(Scraped(p)) = output[p] - scraped[p]
      /\ Len(Scraped(p)) = output[p] - scraped[p]
  BY <1>1, SomeText DEF Scraped
<1>3. scraped[p] = output[p] => Len(Scraped(p)) = 0
  BY <1>1, <1>2 DEF TypeOK
<1>4. QED BY <1>2, <1>3, EmptySeq

LEMMA PollIsTyped ==
  ASSUME TypeOK, NEW p \in OutPipes, scraped[p] <= output[p]
  PROVE  /\ TitleItems \in Seq(Item) /\ MouseItems \in Seq(Item)
         /\ ScrapedItems(p) \in Seq(Item)
         /\ NoMouse(TitleItems) /\ NoMouse(ScrapedItems(p))
         /\ TextCount(TitleItems) = 0 /\ TextCount(MouseItems) = 0
         /\ TextCount(ScrapedItems(p))
              = IF scrapeContent THEN output[p] - scraped[p] ELSE 0
<1>1. TitleItems = <<>> \/ TitleItems = <<"title">>
  BY DEF TitleItems
<1>2. MouseItems = <<>> \/ MouseItems = <<"on">> \/ MouseItems = <<"off">>
  BY DEF MouseItems
<1>3. IF scrapeContent THEN ScrapedItems(p) = Scraped(p)
                       ELSE ScrapedItems(p) = <<>>
  BY DEF ScrapedItems
<1> DEFINE title == TitleItems
           mouse == MouseItems
<1>4. title \in Seq(Item) /\ NoMouse(title) /\ TextCount(title) = 0
  BY <1>1, OtherItems
<1>5. mouse \in Seq(Item) /\ TextCount(mouse) = 0
  BY <1>2, OtherItems
<1>6. CASE scrapeContent
  BY <1>3, <1>4, <1>5, <1>6, ScrapeIsTyped
<1>7. CASE ~scrapeContent
  BY <1>3, <1>4, <1>5, <1>7, OtherItems
<1>8. QED BY <1>6, <1>7

LEMMA Polling ==
  ASSUME TypeOK, NEW p \in OutPipes, scraped[p] <= output[p]
  PROVE  /\ Polled[p] \in Seq(Item)
         /\ p = "conout" =>
              Polled[p] = Cat(Cat(Cat(outQueue[p], TitleItems),
                                  ScrapedItems(p)), MouseItems)
         /\ p # "conout" => Polled[p] = Cat(outQueue[p], ScrapedItems(p))
<1>1. /\ p = "conout" =>
           Polled[p] = Cat(Cat(Cat(outQueue[p], TitleItems),
                               ScrapedItems(p)), MouseItems)
      /\ p # "conout" => Polled[p] = Cat(outQueue[p], ScrapedItems(p))
  BY DEF Polled, Row, Cat
<1>2. outQueue[p] \in Seq(Item)
  BY DEF TypeOK
<1>3. /\ TitleItems \in Seq(Item) /\ MouseItems \in Seq(Item)
      /\ ScrapedItems(p) \in Seq(Item)
  BY PollIsTyped
<1>4. Cat(outQueue[p], TitleItems) \in Seq(Item)
  BY <1>2, <1>3, Monoid
<1>5. Cat(Cat(outQueue[p], TitleItems), ScrapedItems(p)) \in Seq(Item)
  BY <1>3, <1>4, Monoid
<1>6. Cat(Cat(Cat(outQueue[p], TitleItems), ScrapedItems(p)), MouseItems)
        \in Seq(Item)
  BY <1>3, <1>5, Monoid
<1>7. Cat(outQueue[p], ScrapedItems(p)) \in Seq(Item)
  BY <1>2, <1>3, Monoid
<1>8. QED BY <1>1, <1>6, <1>7

-----------------------------------------------------------------------------
(* Every variable keeps to its type.                                        *)
Bounded == \A p \in OutPipes : scraped[p] <= output[p]

LEMMA InitIsTyped == Init => TypeOK
<1> SUFFICES ASSUME Init PROVE TypeOK
  OBVIOUS
<1>1. /\ [p \in OutPipes |-> 0] \in [OutPipes -> Nat]
      /\ [p \in OutPipes |-> <<>>] \in [OutPipes -> Seq(Item)]
      /\ [p \in OutPipes |-> FALSE] \in [OutPipes -> BOOLEAN]
      /\ conn \in [OutPipes -> {"connecting", "connected", "closed"}]
      /\ client \in [OutPipes -> {"none", "open", "eof", "closed"}]
  BY OtherItems DEF Init
<1>2. /\ {outQueue, rest, wire, got} \subseteq [OutPipes -> Seq(Item)]
      /\ {output, scraped} \subseteq [OutPipes -> Nat]
      /\ pending \in [OutPipes -> BOOLEAN]
  BY <1>1 DEF Init
<1>3. /\ {requests, packets} \subseteq Seq(Request)
      /\ {replies, answers} \subseteq Seq({"created", "failed", "sized"})
  BY EmptySeq DEF Init
<1>4. /\ pc = "service" /\ turn = "control" /\ control = "connected"
      /\ session = "open" /\ child = "none" /\ events = 0 /\ calls = 0
      /\ flushed = {}
  BY DEF Init
<1>5. /\ {didSomething, exiting, elapsed, childHandle, autoShutdown,
          exitAfterShutdown, closingOutputPipes, mouseModeEnabled,
          activateMouse, scrapeContent, wantsMouse, newTitle, asserted}
           \subseteq BOOLEAN
  BY DEF Init
<1>6. QED BY <1>1, <1>2, <1>3, <1>4, <1>5 DEF TypeOK

(* The requests: the control pipe and what its packets ask for.             *)
LEMMA ControlKeepsType ==
  ASSUME TypeOK, ServiceControl \/ PollControlPipe
  PROVE  TypeOK'
<1>1. /\ Cat(answers, replies) \in Seq({"created", "failed", "sized"})
      /\ Cat(packets, requests) \in Seq(Request)
      /\ <<>> \in Seq(Request) /\ <<>> \in Seq({"created", "failed", "sized"})
  BY Monoid DEF TypeOK
<1>2. /\ answers \o replies = Cat(answers, replies)
      /\ packets \o requests = Cat(packets, requests)
  BY DEF Cat
<1>3. CASE ServiceControl
  <2>1. turn' \in {"control"} \cup OutPipes
    BY <1>3 DEF ServiceControl, Advance, NextPipe, OutPipes, TypeOK
  <2>2. /\ pc' \in {"service", "callback", "timer"}
        /\ didSomething' \in BOOLEAN /\ control' \in {"connected", "closed"}
    BY <1>3 DEF ServiceControl, Advance, TypeOK
  <2>3. /\ {requests', packets'} \subseteq Seq(Request)
        /\ {replies', answers'} \subseteq Seq({"created", "failed", "sized"})
    BY <1>1, <1>2, <1>3 DEF ServiceControl, TypeOK
  <2>4. UNCHANGED <<exiting, elapsed, agentVars, pollVars, pipeVars,
                    consoleVars, clientVars, history>>
    BY <1>3 DEF ServiceControl
  <2>5. QED
    BY <2>1, <2>2, <2>3, <2>4
    DEF TypeOK, agentVars, pollVars, pipeVars, consoleVars, clientVars, history
<1>4. CASE PollControlPipe
  <2>1. turn' \in {"control"} \cup OutPipes
    BY <1>4 DEF PollControlPipe, Advance, NextPipe, OutPipes, TypeOK
  <2>2. /\ pc' \in {"service", "timer"} /\ exiting' \in BOOLEAN
    BY <1>4 DEF PollControlPipe, Advance, TypeOK
  <2>3. UNCHANGED <<didSomething, elapsed, agentVars, pollVars, pipeVars,
                    controlVars, consoleVars, clientVars, history>>
    BY <1>4 DEF PollControlPipe
  <2>4. QED
    BY <2>1, <2>2, <2>3 DEF TypeOK, agentVars, pollVars, pipeVars, controlVars,
                            consoleVars, clientVars, history
<1>5. QED BY <1>3, <1>4

LEMMA PacketKeepsType ==
  ASSUME TypeOK, Bounded, StartProcess \/ StartProcessAsserts \/ SetSize
  PROVE  TypeOK'
<1>1. /\ packets' \in Seq(Request)
      /\ Head(packets).op = "spawn" =>
           {Head(packets).auto, Head(packets).exit} \subseteq BOOLEAN
  <2>1. packets \in Seq(Request) /\ packets # <<>> /\ packets' = Tail(packets)
    BY DEF StartProcess, StartProcessAsserts, SetSize, Packet, TypeOK
  <2>2. Head(packets) \in Request /\ Tail(packets) \in Seq(Request)
    BY <2>1, HeadTailProperties
  <2>3. QED BY <2>1, <2>2 DEF Request
<1>2. \A x \in {"created", "failed", "sized"} :
        Append(replies, x) \in Seq({"created", "failed", "sized"})
  BY DEF TypeOK
<1>3. CASE StartProcess
  <2>1. replies' \in Seq({"created", "failed", "sized"})
    BY <1>2, <1>3 DEF StartProcess
  <2>2. /\ {childHandle', autoShutdown', exitAfterShutdown'} \subseteq BOOLEAN
        /\ child' \in {"none", "running", "exited", "killed"}
    BY <1>1, <1>3 DEF StartProcess, Packet, TypeOK
  <2>3. UNCHANGED <<loopVars, closingOutputPipes, pollVars, pipeVars, control,
                    requests, answers, output, scraped, wantsMouse, newTitle,
                    events, clientVars, history>>
    BY <1>3 DEF StartProcess
  <2>4. QED
    BY <1>1, <2>1, <2>2, <2>3 DEF TypeOK, loopVars, pollVars, pipeVars,
                                  clientVars, history
<1>4. CASE StartProcessAsserts
  BY <1>1, <1>4 DEF StartProcessAsserts, TypeOK, agentVars, pollVars, pipeVars,
                    consoleVars, clientVars
<1>5. CASE SetSize
  <2>1. replies' \in Seq({"created", "failed", "sized"})
    BY <1>2, <1>5 DEF SetSize
  <2>2. ASSUME NEW p \in OutPipes
        PROVE  outQueue[p] \o Scraped(p) \in Seq(Item)
    <3>1. outQueue[p] \in Seq(Item) /\ Scraped(p) \in Seq(Item)
      BY ScrapeIsTyped DEF TypeOK, Bounded
    <3>2. QED BY <3>1, ConcatProperties
  <2>3. outQueue' \in [OutPipes -> Seq(Item)] /\ scraped' \in [OutPipes -> Nat]
    BY <1>5, <2>2 DEF SetSize, TypeOK
  <2>4. UNCHANGED <<loopVars, agentVars, pollVars, conn, pending, rest, wire,
                    client, got, control, requests, answers, child, output,
                    wantsMouse, newTitle, events, clientVars, history>>
    BY <1>5 DEF SetSize
  <2>5. QED
    BY <1>1, <2>1, <2>3, <2>4 DEF TypeOK, loopVars, agentVars, pollVars,
                                  clientVars, history
<1>6. QED BY <1>3, <1>4, <1>5

(* The output pipes and the poll.                                           *)
LEMMA HandedOverInRange ==
  ASSUME TypeOK, NEW p \in OutPipes
  PROVE  /\ HandedOver(p) \in 0..Len(outQueue[p])
         /\ First(outQueue[p], HandedOver(p)) \in Seq(Item)
         /\ From(outQueue[p], HandedOver(p)) \in Seq(Item)
         /\ outQueue[p] = Cat(First(outQueue[p], HandedOver(p)),
                              From(outQueue[p], HandedOver(p)))
         /\ From(outQueue[p], HandedOver(p)) # <<>> =>
              Len(outQueue[p]) > HandedOver(p)
<1>1. outQueue[p] \in Seq(Item) /\ wire[p] \in Seq(Item)
  BY DEF TypeOK
<1>2. Len(outQueue[p]) \in Nat /\ Len(wire[p]) \in Nat /\ Quota \in Nat
  BY <1>1, LenProperties, AgentAssumption
<1>3. Room(p) \in Nat
  BY <1>2 DEF Room
<1>4. HandedOver(p) \in 0..Len(outQueue[p])
  BY <1>2, <1>3, LeastInRange DEF HandedOver
<1>5. /\ First(outQueue[p], HandedOver(p)) \in Seq(Item)
      /\ From(outQueue[p], HandedOver(p)) \in Seq(Item)
      /\ Len(From(outQueue[p], HandedOver(p)))
           = Len(outQueue[p]) - HandedOver(p)
      /\ outQueue[p] = Cat(First(outQueue[p], HandedOver(p)),
                           From(outQueue[p], HandedOver(p)))
  BY <1>1, <1>4, Cut
<1>6. From(outQueue[p], HandedOver(p)) # <<>> =>
        Len(From(outQueue[p], HandedOver(p))) > 0
  BY <1>5, EmptySeq
<1>7. QED BY <1>2, <1>4, <1>5, <1>6

(* A pipe's turn: it has nothing to do, its write fails, or it hands over.  *)
OutputBreaks(p) ==
  /\ OutputFails(p)
  /\ conn' = [conn EXCEPT ![p] = "closed"]
  /\ pending' = [pending EXCEPT ![p] = FALSE]
  /\ \/ outQueue' = outQueue /\ pending[p] = TRUE
     \/ outQueue' = [outQueue EXCEPT ![p] = <<>>]
  /\ rest' = [rest EXCEPT ![p] = <<>>]
  /\ UNCHANGED wire

OutputHandsOver(p) ==
  /\ ~OutputFails(p) /\ ~OutputIdle(p)
  /\ conn' = [conn EXCEPT ![p] = "connected"]
  /\ wire' = [wire EXCEPT ![p] = Cat(@, First(outQueue[p], HandedOver(p)))]
  /\ rest' = [rest EXCEPT ![p] = From(outQueue[p], HandedOver(p))]
  /\ pending' = [pending EXCEPT ![p] = Len(outQueue[p]) > HandedOver(p)]
  /\ outQueue' = [outQueue EXCEPT ![p] = <<>>]

LEMMA ServiceCases ==
  ASSUME TypeOK, NEW p \in OutPipes, ServiceOutput(p)
  PROVE  /\ pc = "service" /\ turn = p /\ pc' \in {"service", "callback", "timer"}
         /\ \/ UNCHANGED <<conn, outQueue, pending, rest, wire>>
            \/ OutputBreaks(p) /\ conn[p] # "closed"
            \/ OutputHandsOver(p) /\ conn[p] # "closed"
         /\ UNCHANGED <<exiting, elapsed, agentVars, pollVars, client, got,
                        controlVars, consoleVars, clientVars, history>>
<1>1. /\ pc = "service" /\ turn = p /\ pc' \in {"service", "callback", "timer"}
      /\ UNCHANGED <<exiting, elapsed, agentVars, pollVars, client, got,
                     controlVars, consoleVars, clientVars, history>>
  BY DEF ServiceOutput, Advance
<1>2. CASE OutputIdle(p)
  BY <1>1, <1>2 DEF ServiceOutput
<1>3. CASE ~OutputIdle(p) /\ OutputFails(p)
  <2>1. pending[p] = TRUE \/ pending[p] = FALSE
    BY DEF TypeOK
  <2>2. /\ conn' = [conn EXCEPT ![p] = "closed"]
        /\ pending' = [pending EXCEPT ![p] = FALSE]
        /\ outQueue' = IF pending[p]
                         THEN outQueue ELSE [outQueue EXCEPT ![p] = <<>>]
        /\ rest' = [rest EXCEPT ![p] = <<>>]
        /\ UNCHANGED wire
    BY <1>3 DEF ServiceOutput
  <2>3. OutputBreaks(p)
    BY <1>3, <2>1, <2>2 DEF OutputBreaks
  <2>4. conn[p] # "closed"
    BY <1>3 DEF OutputIdle
  <2>5. QED BY <1>1, <2>3, <2>4
<1>4. CASE ~OutputIdle(p) /\ ~OutputFails(p)
  <2>1. OutputHandsOver(p)
    BY <1>4 DEF ServiceOutput, OutputHandsOver, Cat
  <2>2. conn[p] # "closed"
    BY <1>4 DEF OutputIdle
  <2>3. QED BY <1>1, <2>1, <2>2
<1>5. QED BY <1>2, <1>3, <1>4

LEMMA OtherPipe ==
  ASSUME TypeOK, NEW p \in OutPipes, NEW q \in OutPipes, p # q,
         ServiceOutput(q)
  PROVE  /\ conn'[p] = conn[p] /\ pending'[p] = pending[p]
         /\ rest'[p] = rest[p] /\ wire'[p] = wire[p]
         /\ outQueue'[p] = outQueue[p]
<1>1. /\ conn \in [OutPipes -> {"connecting", "connected", "closed"}]
      /\ pending \in [OutPipes -> BOOLEAN]
      /\ outQueue \in [OutPipes -> Seq(Item)]
      /\ rest \in [OutPipes -> Seq(Item)]
      /\ wire \in [OutPipes -> Seq(Item)]
  BY DEF TypeOK
<1>2. CASE UNCHANGED <<conn, outQueue, pending, rest, wire>>
  BY <1>2
<1>3. CASE OutputBreaks(q)
  BY <1>1, <1>3 DEF OutputBreaks
<1>4. CASE OutputHandsOver(q)
  <2>1. conn'[p] = conn[p] /\ outQueue'[p] = outQueue[p]
    BY <1>1, <1>4 DEF OutputHandsOver
  <2>2. pending'[p] = pending[p] /\ rest'[p] = rest[p]
    BY <1>1, <1>4 DEF OutputHandsOver
  <2>3. wire'[p] = wire[p]
    BY <1>1, <1>4 DEF OutputHandsOver
  <2>4. QED BY <2>1, <2>2, <2>3
<1>5. QED BY <1>2, <1>3, <1>4, ServiceCases

LEMMA ServiceKeepsType ==
  ASSUME TypeOK, NEW p \in OutPipes, ServiceOutput(p)
  PROVE  TypeOK'
<1> DEFINE ahead == Cat(wire[p], First(outQueue[p], HandedOver(p)))
           left == From(outQueue[p], HandedOver(p))
           more == Len(outQueue[p]) > HandedOver(p)
<1>1. /\ ahead \in Seq(Item) /\ left \in Seq(Item) /\ <<>> \in Seq(Item)
      /\ more \in BOOLEAN
  <2>1. wire[p] \in Seq(Item) /\ outQueue[p] \in Seq(Item)
    BY DEF TypeOK
  <2>2. ahead \in Seq(Item) /\ left \in Seq(Item) /\ <<>> \in Seq(Item)
    BY <2>1, HandedOverInRange, Monoid
  <2>3. Len(outQueue[p]) \in Nat /\ HandedOver(p) \in 0..Len(outQueue[p])
    BY <2>1, HandedOverInRange, LenProperties
  <2>4. more \in BOOLEAN
    BY <2>3
  <2>5. QED BY <2>2, <2>4
<1>2. /\ turn' \in {"control"} \cup OutPipes
      /\ pc' \in {"service", "callback", "timer"} /\ didSomething' \in BOOLEAN
  BY DEF ServiceOutput, Advance, NextPipe, OutPipes, TypeOK
<1>3. /\ conn' \in [OutPipes -> {"connecting", "connected", "closed"}]
      /\ pending' \in [OutPipes -> BOOLEAN]
      /\ outQueue' \in [OutPipes -> Seq(Item)]
      /\ rest' \in [OutPipes -> Seq(Item)]
      /\ wire' \in [OutPipes -> Seq(Item)]
  <2>1. /\ conn \in [OutPipes -> {"connecting", "connected", "closed"}]
        /\ pending \in [OutPipes -> BOOLEAN]
        /\ outQueue \in [OutPipes -> Seq(Item)]
        /\ rest \in [OutPipes -> Seq(Item)]
        /\ wire \in [OutPipes -> Seq(Item)]
    BY DEF TypeOK
  <2>2. CASE UNCHANGED <<conn, outQueue, pending, rest, wire>>
    BY <2>1, <2>2
  <2>3. CASE OutputBreaks(p)
    BY <1>1, <2>1, <2>3 DEF OutputBreaks
  <2>4. CASE OutputHandsOver(p)
    <3>1. /\ conn' = [conn EXCEPT ![p] = "connected"]
          /\ wire' = [wire EXCEPT ![p] = ahead]
          /\ rest' = [rest EXCEPT ![p] = left]
          /\ pending' = [pending EXCEPT ![p] = more]
          /\ outQueue' = [outQueue EXCEPT ![p] = <<>>]
      BY <2>1, <2>4 DEF OutputHandsOver
    <3> HIDE DEF ahead, left, more
    <3>2. QED BY <1>1, <2>1, <3>1
  <2>5. QED BY <2>2, <2>3, <2>4, ServiceCases
<1>4. UNCHANGED <<exiting, elapsed, agentVars, pollVars, client, got,
                  controlVars, consoleVars, clientVars, history>>
  BY ServiceCases
<1>5. QED
  BY <1>2, <1>3, <1>4
  DEF TypeOK, agentVars, pollVars, controlVars, consoleVars, clientVars, history

LEMMA PollKeepsType ==
  ASSUME TypeOK, Bounded, OnOutputIo \/ ScrapeAndClose
  PROVE  TypeOK'
<1>1. ASSUME NEW queue, NEW closing, autoClosePipes(queue, closing)
      PROVE  /\ conn' \in [OutPipes -> {"connecting", "connected", "closed"}]
             /\ flushed' \subseteq OutPipes
  BY <1>1 DEF autoClosePipes, Closable, TypeOK
<1>2. ASSUME NEW queue, NEW closing, autoClosePipes(queue, closing)
      PROVE  exiting' \in BOOLEAN
  BY <1>2 DEF autoClosePipes, TypeOK
<1>3. CASE OnOutputIo
  <2>1. /\ conn' \in [OutPipes -> {"connecting", "connected", "closed"}]
        /\ flushed' \subseteq OutPipes /\ exiting' \in BOOLEAN
    BY <1>1, <1>2, <1>3 DEF OnOutputIo
  <2>2. /\ turn' \in {"control"} \cup OutPipes
        /\ pc' \in {"service", "timer"}
    BY <1>3 DEF OnOutputIo, Advance, NextPipe, OutPipes, TypeOK
  <2>3. UNCHANGED <<didSomething, elapsed, agentVars, pollVars, outQueue,
                    pending, rest, wire, client, got, controlVars, consoleVars,
                    clientVars, asserted>>
    BY <1>3 DEF OnOutputIo
  <2>4. QED
    BY <2>1, <2>2, <2>3 DEF TypeOK, agentVars, pollVars, controlVars,
                            consoleVars, clientVars
<1>4. CASE ScrapeAndClose
  <2>1. /\ conn' \in [OutPipes -> {"connecting", "connected", "closed"}]
        /\ flushed' \subseteq OutPipes /\ exiting' \in BOOLEAN
    BY <1>1, <1>2, <1>4 DEF ScrapeAndClose
  <2>2. /\ pc' \in {"exiting", "service"} /\ didSomething' = FALSE
        /\ elapsed' = FALSE
    BY <1>4 DEF ScrapeAndClose, NewRound
  <2>3. /\ outQueue' = Polled /\ Polled = [p \in OutPipes |-> Polled[p]]
    BY <1>4 DEF ScrapeAndClose, Polled
  <2>4. outQueue' \in [OutPipes -> Seq(Item)]
    <3>1. \A p \in OutPipes : Polled[p] \in Seq(Item)
      BY Polling DEF Bounded
    <3> HIDE DEF Polled
    <3>2. QED BY <2>3, <3>1
  <2>5. scraped' \in [OutPipes -> Nat] /\ newTitle' \in BOOLEAN
    BY <1>4 DEF ScrapeAndClose, TypeOK
  <2>6. mouseModeEnabled' \in BOOLEAN
    BY <1>4 DEF ScrapeAndClose, MouseMode, TypeOK
  <2>7. UNCHANGED <<turn, agentVars, activateMouse, scrapeContent, pending,
                    rest, wire, client, got, controlVars, child, output,
                    wantsMouse, events, clientVars, asserted>>
    BY <1>4 DEF ScrapeAndClose
  <2>8. UNCHANGED <<turn, childHandle, autoShutdown, exitAfterShutdown,
                    closingOutputPipes, activateMouse, scrapeContent, pending,
                    rest, wire, client, got, control, requests, packets,
                    replies, answers, child, output, wantsMouse, events,
                    session, calls, asserted>>
    BY <2>7 DEF agentVars, controlVars, clientVars
  <2>9. QED BY <2>1, <2>2, <2>4, <2>5, <2>6, <2>8 DEF TypeOK
<1>5. QED BY <1>3, <1>4

LEMMA RoundKeepsType ==
  ASSUME TypeOK,
         \/ UpdateInputFlags \/ CheckChildExit \/ RoundEnd \/ WakeUp
         \/ AgentExit
  PROVE  TypeOK'
<1> USE DEF loopVars, agentVars, pollVars, pipeVars, controlVars, consoleVars,
            clientVars, history
<1>1. CASE UpdateInputFlags
  <2>1. activateMouse' \in BOOLEAN
    BY <1>1, AgentAssumption DEF UpdateInputFlags
  <2>2. scrapeContent' \in BOOLEAN /\ pc' = "exitcheck"
    BY <1>1 DEF UpdateInputFlags
  <2>3. UNCHANGED <<turn, didSomething, exiting, elapsed, agentVars,
                    mouseModeEnabled, pipeVars, controlVars, consoleVars,
                    clientVars, history>>
    BY <1>1 DEF UpdateInputFlags
  <2>4. QED BY <2>1, <2>2, <2>3 DEF TypeOK
<1>2. CASE CheckChildExit
  <2>1. /\ childHandle' \in BOOLEAN /\ closingOutputPipes' \in BOOLEAN
        /\ pc' = "scrape"
    BY <1>2 DEF CheckChildExit, TypeOK
  <2>2. UNCHANGED <<turn, didSomething, exiting, elapsed, autoShutdown,
                    exitAfterShutdown, pollVars, pipeVars, controlVars,
                    consoleVars, clientVars, history>>
    BY <1>2 DEF CheckChildExit
  <2>3. QED BY <2>1, <2>2 DEF TypeOK
<1>3. CASE RoundEnd \/ WakeUp
  <2>1. pc' \in {"exiting", "service", "wait"}
    BY <1>3 DEF RoundEnd, WakeUp, NewRound
  <2>2. didSomething' \in BOOLEAN
    BY <1>3 DEF RoundEnd, WakeUp, NewRound, TypeOK
  <2>3. UNCHANGED <<turn, exiting, elapsed, agentVars, pollVars, pipeVars,
                    controlVars, consoleVars, clientVars, history>>
    BY <1>3 DEF RoundEnd, WakeUp
  <2>4. QED BY <2>1, <2>2, <2>3 DEF TypeOK
<1>4. CASE AgentExit
  <2>1. /\ {requests', packets'} \subseteq Seq(Request)
        /\ replies' \in Seq({"created", "failed", "sized"})
    BY <1>4, EmptySeq DEF AgentExit
  <2>2. {rest', outQueue'} \subseteq [OutPipes -> Seq(Item)]
    BY <1>4, EmptySeq DEF AgentExit
  <2>3. /\ pc' = "exited" /\ control' = "closed"
        /\ conn' \in [OutPipes -> {"connecting", "connected", "closed"}]
        /\ pending' \in [OutPipes -> BOOLEAN]
        /\ child' \in {"none", "running", "exited", "killed"}
    BY <1>4 DEF AgentExit, TypeOK
  <2>4. UNCHANGED <<turn, didSomething, exiting, elapsed, agentVars, pollVars,
                    wire, client, got, answers, output, scraped, wantsMouse,
                    newTitle, events, clientVars, history>>
    BY <1>4 DEF AgentExit
  <2>5. QED BY <2>1, <2>2, <2>3, <2>4 DEF TypeOK
<1>5. QED BY <1>1, <1>2, <1>3, <1>4

(* The clock, the child and the client.                                     *)
LEMMA ReadAmount ==
  ASSUME NEW s \in Seq(Item), s # <<>>
  PROVE  Least(Quota + 1, Len(s)) \in 1..Len(s)
<1>1. Len(s) \in Nat \ {0} /\ Quota + 1 \in Nat \ {0}
  BY EmptySeq, AgentAssumption
<1>2. QED BY <1>1 DEF Least

LEMMA WorldKeepsType ==
  ASSUME TypeOK, Environment
  PROVE  TypeOK'
<1> USE DEF TypeOK, loopVars, agentVars, pollVars, pipeVars, controlVars,
            consoleVars, clientVars, history
<1>1. CASE Tick BY <1>1 DEF Tick
<1>2. ASSUME NEW p \in OutPipes, ChildWrites(p) PROVE TypeOK'
  <2>1. output' \in [OutPipes -> Nat]
    BY <1>2 DEF ChildWrites
  <2>2. QED BY <1>2, <2>1 DEF ChildWrites
<1>3. ASSUME NEW p \in OutPipes, ClientCloses(p) PROVE TypeOK'
  <2>1. wire' \in [OutPipes -> Seq(Item)]
        /\ client' \in [OutPipes -> {"none", "open", "eof", "closed"}]
    BY <1>3, EmptySeq DEF ClientCloses
  <2>2. QED BY <1>3, <2>1 DEF ClientCloses
<1>4. CASE ChildConsole
  <2>1. wantsMouse' \in BOOLEAN /\ newTitle' \in BOOLEAN
    BY <1>4 DEF ChildConsole
  <2>2. QED BY <1>4, <2>1 DEF ChildConsole
<1>5. CASE ChildExits BY <1>5 DEF ChildExits
<1>6. ASSUME NEW r \in Request, Send(r) PROVE TypeOK'
  BY <1>6 DEF Send
<1>7. CASE ClientSpawns
  <2>1. PICK auto \in BOOLEAN, exit \in BOOLEAN :
          Send([op |-> "spawn", auto |-> auto, exit |-> exit])
    BY <1>7 DEF ClientSpawns
  <2>2. [op |-> "spawn", auto |-> auto, exit |-> exit] \in Request
    BY DEF Request
  <2> HIDE DEF TypeOK
  <2>3. QED BY <1>6, <2>1, <2>2
<1>8. CASE ClientResizes
  <2>1. [op |-> "size"] \in Request
    BY DEF Request
  <2> HIDE DEF TypeOK
  <2>2. QED BY <1>6, <1>8, <2>1 DEF ClientResizes
<1>9. CASE ClientFrees BY <1>9 DEF ClientFrees
<1>10. ASSUME NEW p \in OutPipes, ClientConnects(p) PROVE TypeOK'
  BY <1>10 DEF ClientConnects
<1>11. ASSUME NEW p \in OutPipes, ClientReads(p) PROVE TypeOK'
  <2> DEFINE all == Cat(wire[p], rest[p])
             more == Least(Quota + 1, Len(all))
             h == Head(all)
             t == Tail(First(all, more))
             f == From(all, more)
  <2>1. /\ wire[p] \in Seq(Item) /\ rest[p] \in Seq(Item)
        /\ got[p] \in Seq(Item) /\ outQueue[p] \in Seq(Item)
    OBVIOUS
  <2>2. all # <<>> /\ more \in 1..Len(all)
    <3>1. all # <<>>
      BY <1>11 DEF ClientReads, Cat
    <3>2. all \in Seq(Item)
      BY <2>1, Monoid
    <3> HIDE DEF all
    <3>3. QED BY <3>1, <3>2, ReadAmount
  <2>3. h \in Item /\ t \in Seq(Item) /\ f \in Seq(Item)
    BY <2>1, <2>2, RowIsRead
  <2>4. /\ got' = [got EXCEPT ![p] = Append(@, h)]
        /\ wire' = [wire EXCEPT ![p] = t]
        /\ rest' = [rest EXCEPT ![p] = f]
    BY <1>11 DEF ClientReads, Cat
  <2> HIDE DEF all, more, h, t, f
  <2>5. Append(got[p], h) \in Seq(Item)
    BY <2>1, <2>3
  <2>6. {got', wire', rest'} \subseteq [OutPipes -> Seq(Item)]
    BY <2>3, <2>4, <2>5
  <2>7. UNCHANGED <<loopVars, agentVars, pollVars, conn, outQueue, pending,
                    client, controlVars, consoleVars, clientVars, history>>
    BY <1>11 DEF ClientReads
  <2>8. QED BY <2>6, <2>7
<1>12. ASSUME NEW p \in OutPipes, ClientReadsEof(p) PROVE TypeOK'
  BY <1>12 DEF ClientReadsEof
<1> HIDE DEF TypeOK
<1>13. QED
  BY <1>1, <1>2, <1>3, <1>4, <1>5, <1>7, <1>8, <1>9, <1>10, <1>11, <1>12
  DEF Environment, ClientActs

LEMMA TypeIsKept ==
  ASSUME TypeOK, Bounded, [Next]_vars
  PROVE  TypeOK'
<1>1. CASE Loop
  BY <1>1, ControlKeepsType, PacketKeepsType, ServiceKeepsType, PollKeepsType,
     RoundKeepsType
  DEF Loop
<1>2. CASE Environment
  BY <1>2, WorldKeepsType
<1>3. CASE UNCHANGED vars
  BY <1>3 DEF TypeOK, vars, loopVars, agentVars, pollVars, pipeVars,
              controlVars, consoleVars, clientVars, history
<1>4. QED BY <1>1, <1>2, <1>3 DEF Next

-----------------------------------------------------------------------------
(* The end of a session, conjunct by conjunct.  Initially there is nothing  *)
(* in the pipes and nothing has ended.                                      *)
LEMMA InitHasInvariant == Init => IInv
<1> SUFFICES ASSUME Init PROVE IInv
  OBVIOUS
<1>1. TypeOK
  BY InitIsTyped
<1>2. ChildKnown /\ LastScrape /\ Ending
  BY DEF Init, ChildKnown, LastScrape, Ending
<1>3. ASSUME NEW p \in OutPipes PROVE PipeState(p)
  <2>1. wire[p] = <<>> /\ Len(wire[p]) = 0 /\ Quota \in Nat
    BY AgentAssumption, EmptySeq DEF Init
  <2>2. QED BY <2>1 DEF Init, PipeState
<1>4. ASSUME NEW p \in OutPipes PROVE Accounted(p)
  <2>1. /\ got[p] = <<>> /\ wire[p] = <<>> /\ rest[p] = <<>>
        /\ outQueue[p] = <<>> /\ output[p] = 0 /\ scraped[p] = 0
        /\ mouseModeEnabled = FALSE
    BY DEF Init
  <2>2. InPipe(p) = <<>>
    BY <2>1, OnlyLast, OtherItems DEF InPipe
  <2>3. TextCount(InPipe(p)) = 0 /\ ~MouseLeftOn(InPipe(p))
    BY <2>2, OtherItems
  <2>4. QED BY <2>1, <2>3 DEF Accounted
<1>5. QED BY <1>1, <1>2, <1>3, <1>4 DEF IInv

(* The steps that have nothing to do with the child's life,                 *)
Apart ==
  \/ ServiceControl \/ PollControlPipe \/ StartProcessAsserts \/ SetSize
  \/ \E p \in OutPipes : ServiceOutput(p)
  \/ OnOutputIo \/ UpdateInputFlags \/ ScrapeAndClose \/ RoundEnd \/ WakeUp

LEMMA ApartFromTheChild ==
  ASSUME Apart
  PROVE  UNCHANGED <<childHandle, autoShutdown, closingOutputPipes, child,
                     output>>
<1> USE DEF agentVars, consoleVars
<1>1. CASE ServiceControl \/ PollControlPipe
  BY <1>1 DEF ServiceControl, PollControlPipe
<1>2. CASE StartProcessAsserts \/ SetSize
  BY <1>2 DEF StartProcessAsserts, SetSize
<1>3. ASSUME NEW p \in OutPipes, ServiceOutput(p)
      PROVE  UNCHANGED <<agentVars, consoleVars>>
  BY <1>3 DEF ServiceOutput
<1>4. CASE OnOutputIo \/ UpdateInputFlags
  BY <1>4 DEF OnOutputIo, UpdateInputFlags
<1>5. CASE ScrapeAndClose
  BY <1>5 DEF ScrapeAndClose
<1>6. CASE RoundEnd \/ WakeUp
  BY <1>6 DEF RoundEnd, WakeUp
<1>7. QED BY <1>1, <1>2, <1>3, <1>4, <1>5, <1>6 DEF Apart

(* and the clock and the client, which change nothing of the agent's.       *)
Outside ==
  \/ Tick \/ ClientSpawns \/ ClientResizes \/ ClientFrees
  \/ \E p \in OutPipes :
       \/ ClientConnects(p) \/ ClientReads(p) \/ ClientReadsEof(p)
       \/ ClientCloses(p)

LEMMA OutsideTheAgent ==
  ASSUME Outside
  PROVE  /\ UNCHANGED <<pc, turn, exiting, agentVars, pollVars, conn, outQueue,
                        pending, control, child, output, scraped, history>>
         /\ session' \in {session, "freed"}
<1> USE DEF loopVars, controlVars, consoleVars, clientVars, history
<1>1. CASE Tick
  BY <1>1 DEF Tick, pipeVars
<1>2. ASSUME NEW r, Send(r)
      PROVE  /\ UNCHANGED <<loopVars, agentVars, pollVars, pipeVars, control,
                            consoleVars, session, history>>
  BY <1>2 DEF Send
<1>3. CASE ClientSpawns \/ ClientResizes
  BY <1>2, <1>3 DEF ClientSpawns, ClientResizes, pipeVars
<1>4. CASE ClientFrees
  BY <1>4 DEF ClientFrees, pipeVars
<1>5. ASSUME NEW p \in OutPipes,
             ClientConnects(p) \/ ClientReads(p) \/ ClientReadsEof(p)
               \/ ClientCloses(p)
      PROVE  UNCHANGED <<loopVars, agentVars, pollVars, conn, outQueue, pending,
                         controlVars, consoleVars, clientVars, history>>
  BY <1>5 DEF ClientConnects, ClientReads, ClientReadsEof, ClientCloses
<1>6. QED BY <1>1, <1>3, <1>4, <1>5 DEF Outside

LEMMA NextCases ==
  ASSUME [Next]_vars
  PROVE  \/ Apart \/ StartProcess \/ CheckChildExit \/ AgentExit
         \/ Outside \/ ChildConsole \/ ChildExits
         \/ \E p \in OutPipes : ChildWrites(p)
         \/ UNCHANGED vars
BY DEF Next, Loop, Environment, ClientActs, Apart, Outside

(* Shutting down begins with the child's exit.                              *)
LEMMA ChildKnownIsKept ==
  ASSUME TypeOK, ChildKnown, [Next]_vars
  PROVE  ChildKnown'
<1> USE DEF ChildKnown, agentVars, consoleVars
<1>1. CASE Apart
  BY <1>1, ApartFromTheChild
<1>2. CASE StartProcess
  BY <1>2 DEF StartProcess
<1>3. CASE CheckChildExit
  BY <1>3 DEF CheckChildExit
<1>4. CASE AgentExit
  BY <1>4 DEF AgentExit
<1>5. CASE Outside
  BY <1>5, OutsideTheAgent
<1>6. CASE ChildConsole \/ ChildExits
  BY <1>6 DEF ChildConsole, ChildExits
<1>7. ASSUME NEW p \in OutPipes, ChildWrites(p) PROVE ChildKnown'
  BY <1>7 DEF ChildWrites
<1>8. CASE UNCHANGED vars
  BY <1>8 DEF vars
<1>9. QED BY <1>1, <1>2, <1>3, <1>4, <1>5, <1>6, <1>7, <1>8, NextCases

(* One more scrape follows, and leaves nothing new.                         *)
LEMMA LastScrapeIsKept ==
  ASSUME TypeOK, ChildKnown, LastScrape, [Next]_vars
  PROVE  LastScrape'
<1> USE DEF LastScrape, NothingNew, loopVars, agentVars, pollVars, consoleVars
<1>1. CASE ServiceControl
  BY <1>1 DEF ServiceControl, Advance
<1>2. CASE PollControlPipe
  BY <1>2 DEF PollControlPipe, Advance
<1>3. CASE StartProcess
  BY <1>3 DEF StartProcess, Packet
<1>4. CASE StartProcessAsserts
  BY <1>4 DEF StartProcessAsserts, Packet
<1>5. CASE SetSize
  BY <1>5 DEF SetSize, Packet
<1>6. ASSUME NEW p \in OutPipes, ServiceOutput(p) PROVE LastScrape'
  BY <1>6, ServiceCases
<1>7. CASE OnOutputIo
  BY <1>7 DEF OnOutputIo, Advance
<1>8. CASE UpdateInputFlags
  <2>1. closingOutputPipes = TRUE \/ closingOutputPipes = FALSE
    BY DEF TypeOK
  <2>2. /\ pc = "timer" /\ pc' = "exitcheck"
        /\ scrapeContent' = ~closingOutputPipes
        /\ UNCHANGED <<closingOutputPipes, mouseModeEnabled, scraped, output>>
    BY <1>8 DEF UpdateInputFlags
  <2>3. QED BY <2>1, <2>2
<1>9. CASE CheckChildExit
  <2>1. closingOutputPipes = TRUE \/ closingOutputPipes = FALSE
    BY DEF TypeOK
  <2>2. QED BY <1>9, <2>1 DEF CheckChildExit
<1>10. CASE ScrapeAndClose
  <2>1. closingOutputPipes => NothingNew'
    <3>1. /\ scraped' = IF scrapeContent THEN output ELSE scraped
          /\ output' = output
          /\ mouseModeEnabled' = (activateMouse /\ ~closingOutputPipes)
          /\ closingOutputPipes => scrapeContent \/ scraped = output
      BY <1>10 DEF ScrapeAndClose, MouseMode
    <3>2. QED BY <3>1
  <2>2. pc' \in {"service", "exiting"}
        /\ closingOutputPipes' = closingOutputPipes
    BY <1>10 DEF ScrapeAndClose, NewRound
  <2>3. QED BY <2>1, <2>2
<1>11. CASE RoundEnd \/ WakeUp
  BY <1>11 DEF RoundEnd, WakeUp, NewRound
<1>12. CASE AgentExit
  BY <1>12 DEF AgentExit
<1>13. CASE Outside
  BY <1>13, OutsideTheAgent
<1>14. CASE ChildConsole \/ ChildExits
  BY <1>14 DEF ChildConsole, ChildExits
<1>15. ASSUME NEW p \in OutPipes, ChildWrites(p) PROVE LastScrape'
  BY <1>15 DEF ChildWrites, ChildKnown
<1>16. CASE UNCHANGED vars
  BY <1>16 DEF vars
<1>17. QED
  BY <1>1, <1>2, <1>3, <1>4, <1>5, <1>6, <1>7, <1>8, <1>9, <1>10, <1>11, <1>12,
     <1>13, <1>14, <1>15, <1>16, NextCases
  DEF Apart

(* What has ended stays so: the session, and each pipe.                     *)
LEMMA EndsAreFinal ==
  ASSUME TypeOK, [Next]_vars
  PROVE  /\ session = "freed" => session' = "freed"
         /\ asserted => asserted'
         /\ \A p \in OutPipes : conn[p] = "closed" => conn'[p] = "closed"
<1> USE DEF pipeVars, clientVars, history
<1>1. CASE ServiceControl \/ PollControlPipe
  BY <1>1 DEF ServiceControl, PollControlPipe
<1>2. CASE StartProcess \/ StartProcessAsserts \/ SetSize
  BY <1>2 DEF StartProcess, StartProcessAsserts, SetSize
<1>3. ASSUME NEW q \in OutPipes, ServiceOutput(q)
      PROVE  /\ UNCHANGED <<session, asserted>>
             /\ \A p \in OutPipes : conn[p] = "closed" => conn'[p] = "closed"
  <2>1. UNCHANGED <<session, asserted>>
    BY <1>3, ServiceCases
  <2>2. ASSUME conn[q] = "closed" PROVE conn'[q] = "closed"
    BY <1>3, <2>2, ServiceCases
  <2>3. ASSUME NEW p \in OutPipes, p # q PROVE conn'[p] = conn[p]
    BY <1>3, <2>3, OtherPipe
  <2>4. QED BY <2>1, <2>2, <2>3
<1>4. CASE OnOutputIo
  <2>1. UNCHANGED <<session, asserted>> /\ autoClosePipes(outQueue, closingOutputPipes)
    BY <1>4 DEF OnOutputIo
  <2>2. QED BY <2>1 DEF autoClosePipes
<1>5. CASE ScrapeAndClose
  <2>1. UNCHANGED <<session, asserted>> /\ autoClosePipes(Polled, closingOutputPipes)
    BY <1>5 DEF ScrapeAndClose
  <2>2. QED BY <2>1 DEF autoClosePipes
<1>6. CASE UpdateInputFlags \/ CheckChildExit \/ RoundEnd \/ WakeUp
  BY <1>6 DEF UpdateInputFlags, CheckChildExit, RoundEnd, WakeUp
<1>7. CASE AgentExit
  BY <1>7 DEF AgentExit
<1>8. CASE Outside
  BY <1>8, OutsideTheAgent
<1>9. CASE ChildConsole \/ ChildExits
  BY <1>9 DEF ChildConsole, ChildExits
<1>10. ASSUME NEW p \in OutPipes, ChildWrites(p)
       PROVE  UNCHANGED <<pipeVars, clientVars, history>>
  BY <1>10 DEF ChildWrites
<1>11. CASE UNCHANGED vars
  BY <1>11 DEF vars
<1>12. QED
  BY <1>1, <1>2, <1>3, <1>4, <1>5, <1>6, <1>7, <1>8, <1>9, <1>10, <1>11,
     NextCases
  DEF Apart

(* The loop begins to end because the client has gone, an assertion has     *)
(* failed, or every pipe is closed.                                         *)
Leaving == exiting \/ pc \in {"exiting", "exited"}

LEMMA WhyTheLoopEnds ==
  ASSUME TypeOK, [Next]_vars, ~Leaving, Leaving'
  PROVE  \/ control = "closed" /\ pc # "exited" /\ session' = session
         \/ asserted'
         \/ \A p \in OutPipes : conn'[p] = "closed"
<1> USE DEF Leaving, loopVars, clientVars
<1>1. CASE ServiceControl
  BY <1>1 DEF ServiceControl, Advance
<1>2. CASE PollControlPipe
  BY <1>2 DEF PollControlPipe, Advance
<1>3. CASE StartProcess \/ SetSize
  BY <1>3 DEF StartProcess, SetSize
<1>4. CASE StartProcessAsserts
  BY <1>4 DEF StartProcessAsserts
<1>5. ASSUME NEW q \in OutPipes, ServiceOutput(q) PROVE FALSE
  BY <1>5, ServiceCases
<1>6. CASE OnOutputIo
  <2>1. pc' \in {"service", "timer"} /\ autoClosePipes(outQueue, closingOutputPipes)
    BY <1>6 DEF OnOutputIo, Advance
  <2>2. exiting' /\ ~exiting
    BY <2>1
  <2>3. AllClosed
    BY <2>1, <2>2 DEF autoClosePipes
  <2>4. QED BY <2>3 DEF AllClosed
<1>7. CASE ScrapeAndClose
  <2>1. /\ pc' = IF exiting' THEN "exiting" ELSE "service"
        /\ autoClosePipes(Polled, closingOutputPipes)
    BY <1>7 DEF ScrapeAndClose, NewRound
  <2>2. exiting' /\ ~exiting
    BY <2>1
  <2>3. AllClosed
    BY <2>1, <2>2 DEF autoClosePipes
  <2>4. QED BY <2>3 DEF AllClosed
<1>8. CASE UpdateInputFlags \/ CheckChildExit
  BY <1>8 DEF UpdateInputFlags, CheckChildExit
<1>9. CASE RoundEnd \/ WakeUp
  BY <1>9 DEF RoundEnd, WakeUp, NewRound
<1>10. CASE AgentExit
  BY <1>10 DEF AgentExit
<1>11. CASE Outside
  BY <1>11, OutsideTheAgent
<1>12. CASE ChildConsole \/ ChildExits
  BY <1>12 DEF ChildConsole, ChildExits
<1>13. ASSUME NEW p \in OutPipes, ChildWrites(p) PROVE FALSE
  BY <1>13 DEF ChildWrites
<1>14. CASE UNCHANGED vars
  BY <1>14 DEF vars
<1>15. QED
  BY <1>1, <1>2, <1>3, <1>4, <1>5, <1>6, <1>7, <1>8, <1>9, <1>10, <1>11, <1>12,
     <1>13, <1>14, NextCases
  DEF Apart

(* And the control pipe is only closed by the client or at the very end.    *)
LEMMA ControlIsClosed ==
  ASSUME TypeOK, [Next]_vars
  PROVE  /\ control' = "closed" /\ control # "closed" =>
              session' = "freed" \/ pc' = "exited"
         /\ pc = "exited" => pc' = "exited"
<1> USE DEF loopVars, controlVars, clientVars
<1>1. CASE ServiceControl
  BY <1>1 DEF ServiceControl
<1>2. CASE PollControlPipe
  BY <1>2 DEF PollControlPipe
<1>3. CASE StartProcess \/ StartProcessAsserts \/ SetSize
  BY <1>3 DEF StartProcess, StartProcessAsserts, SetSize, Packet
<1>4. ASSUME NEW q \in OutPipes, ServiceOutput(q)
      PROVE  pc = "service" /\ control' = control
  BY <1>4, ServiceCases
<1>5. CASE OnOutputIo \/ ScrapeAndClose
  BY <1>5 DEF OnOutputIo, ScrapeAndClose
<1>6. CASE UpdateInputFlags \/ CheckChildExit \/ RoundEnd \/ WakeUp
  BY <1>6 DEF UpdateInputFlags, CheckChildExit, RoundEnd, WakeUp
<1>7. CASE AgentExit
  BY <1>7 DEF AgentExit
<1>8. CASE Outside
  BY <1>8, OutsideTheAgent
<1>9. CASE ChildConsole \/ ChildExits
  BY <1>9 DEF ChildConsole, ChildExits
<1>10. ASSUME NEW p \in OutPipes, ChildWrites(p)
       PROVE  UNCHANGED <<loopVars, controlVars>>
  BY <1>10 DEF ChildWrites
<1>11. CASE UNCHANGED vars
  BY <1>11 DEF vars
<1>12. QED
  BY <1>1, <1>2, <1>3, <1>4, <1>5, <1>6, <1>7, <1>8, <1>9, <1>10, <1>11,
     NextCases
  DEF Apart

LEMMA EndingIsKept ==
  ASSUME TypeOK, Ending, [Next]_vars
  PROVE  Ending'
<1>1. control' = "closed" => session' = "freed" \/ pc' = "exited"
  BY ControlIsClosed, EndsAreFinal DEF Ending
<1>2. ASSUME Leaving'
      PROVE  ~Undisturbed' \/ \A p \in OutPipes : conn'[p] = "closed"
  <2>1. CASE Leaving
    BY <2>1, EndsAreFinal DEF Ending, Leaving, Undisturbed, TypeOK
  <2>2. CASE ~Leaving
    BY <1>2, <2>2, WhyTheLoopEnds DEF Ending, Undisturbed
  <2>3. QED BY <2>1, <2>2
<1>3. QED BY <1>1, <1>2 DEF Ending, Leaving

-----------------------------------------------------------------------------
(* Once nothing is new, it stays so: the child has exited.                  *)
LEMMA NothingNewIsFinal ==
  ASSUME TypeOK, ChildKnown, closingOutputPipes, NothingNew, [Next]_vars
  PROVE  closingOutputPipes' /\ NothingNew'
<1> DEFINE Still == /\ closingOutputPipes' = TRUE
                   /\ mouseModeEnabled' = FALSE /\ scraped' = output'
<1>0. /\ closingOutputPipes = TRUE /\ mouseModeEnabled = FALSE
      /\ scraped = output /\ child = "exited"
  BY DEF TypeOK, NothingNew, ChildKnown
<1> SUFFICES Still
  BY DEF NothingNew
<1> USE DEF agentVars, pollVars, consoleVars
<1>1. CASE ServiceControl \/ PollControlPipe
  BY <1>0, <1>1 DEF ServiceControl, PollControlPipe
<1>2. CASE StartProcess \/ StartProcessAsserts \/ SetSize
  BY <1>0, <1>2 DEF StartProcess, StartProcessAsserts, SetSize
<1>3. ASSUME NEW q \in OutPipes, ServiceOutput(q)
      PROVE  Still
  BY <1>0, <1>3, ServiceCases
<1>4. CASE OnOutputIo \/ UpdateInputFlags
  BY <1>0, <1>4 DEF OnOutputIo, UpdateInputFlags
<1>5. CASE ScrapeAndClose
  <2>1. /\ scraped' = IF scrapeContent THEN output ELSE scraped
        /\ output' = output /\ closingOutputPipes' = closingOutputPipes
        /\ mouseModeEnabled' = (activateMouse /\ ~closingOutputPipes)
    BY <1>5 DEF ScrapeAndClose, MouseMode
  <2>2. QED BY <1>0, <2>1
<1>6. CASE CheckChildExit
  BY <1>0, <1>6 DEF CheckChildExit
<1>7. CASE RoundEnd \/ WakeUp \/ AgentExit
  BY <1>0, <1>7 DEF RoundEnd, WakeUp, AgentExit
<1>8. CASE Outside
  BY <1>0, <1>8, OutsideTheAgent
<1>9. CASE ChildConsole \/ ChildExits
  BY <1>0, <1>9 DEF ChildConsole, ChildExits
<1>10. ASSUME NEW q \in OutPipes, ChildWrites(q) PROVE FALSE
  BY <1>0, <1>10 DEF ChildWrites
<1>11. CASE UNCHANGED vars
  BY <1>0, <1>11 DEF vars
<1>12. QED
  BY <1>1, <1>2, <1>3, <1>4, <1>5, <1>6, <1>7, <1>8, <1>9, <1>10, <1>11,
     NextCases
  DEF Apart

(* A step that leaves a pipe alone.                                         *)
LEMMA PipeLeftAlone ==
  ASSUME TypeOK, ChildKnown, NEW p \in OutPipes, PipeState(p), [Next]_vars,
         conn'[p] = conn[p], pending'[p] = pending[p], rest'[p] = rest[p],
         wire'[p] = wire[p], client'[p] = client[p],
         outQueue'[p] = outQueue[p] \/ p \notin flushed,
         flushed' = flushed
  PROVE  PipeState(p)'
<1>1. p \in flushed => closingOutputPipes' /\ NothingNew'
  BY NothingNewIsFinal DEF PipeState
<1>2. pc = "exited" /\ ~Undisturbed => pc' = "exited" /\ ~Undisturbed'
  BY ControlIsClosed, EndsAreFinal DEF Undisturbed, TypeOK
<1>3. QED BY <1>1, <1>2 DEF PipeState

(* Each pipe is in a proper state after its own turn,                       *)
LEMMA ServiceKeepsPipe ==
  ASSUME TypeOK, ChildKnown, NEW p \in OutPipes, PipeState(p), [Next]_vars,
         NEW q \in OutPipes, ServiceOutput(q)
  PROVE  PipeState(p)'
<1>1. UNCHANGED <<client, flushed>>
  BY ServiceCases DEF history
<1>2. CASE UNCHANGED <<conn, outQueue, pending, rest, wire>>
  BY <1>1, <1>2, PipeLeftAlone
<1>3. CASE p # q
  <2>1. /\ conn'[p] = conn[p] /\ pending'[p] = pending[p] /\ rest'[p] = rest[p]
        /\ wire'[p] = wire[p] /\ outQueue'[p] = outQueue[p]
    BY <1>3, OtherPipe
  <2>2. QED BY <1>1, <2>1, PipeLeftAlone
<1>4. CASE p = q /\ OutputBreaks(p) /\ conn[p] # "closed"
  <2>1. /\ conn'[p] = "closed" /\ pending'[p] = FALSE /\ rest'[p] = <<>>
        /\ wire'[p] = wire[p] /\ client'[p] = "closed" /\ client[p] = "closed"
    BY <1>1, <1>4 DEF OutputBreaks, OutputFails, TypeOK
  <2>2. p \notin flushed'
    BY <1>1, <1>4 DEF PipeState
  <2>3. QED BY <2>1, <2>2 DEF PipeState
<1>5. CASE p = q /\ OutputHandsOver(p) /\ conn[p] # "closed"
  <2> DEFINE n == HandedOver(p)
             queue == outQueue[p]
  <2>1. /\ n \in 0..Len(queue) /\ First(queue, n) \in Seq(Item)
        /\ From(queue, n) # <<>> => Len(queue) > n
        /\ queue \in Seq(Item) /\ wire[p] \in Seq(Item)
    BY HandedOverInRange DEF TypeOK
  <2>2. /\ conn'[p] = "connected" /\ wire'[p] = Cat(wire[p], First(queue, n))
        /\ rest'[p] = From(queue, n) /\ (pending'[p] <=> Len(queue) > n)
    BY <1>5 DEF OutputHandsOver, TypeOK
  <2>3. Len(wire'[p]) <= Quota
    <3>1. /\ Len(First(queue, n)) = n
          /\ Len(Cat(wire[p], First(queue, n)))
               = Len(wire[p]) + Len(First(queue, n))
      BY <2>1, Cut, CatLength
    <3>2. Len(wire[p]) \in Nat /\ Len(queue) \in Nat /\ Quota \in Nat
      BY <2>1, LenProperties, AgentAssumption
    <3>3. Room(p) \in Nat /\ Len(wire[p]) + Room(p) <= Quota
      <4> DEFINE l == Len(wire[p])
      <4>1. l <= Quota
        BY DEF PipeState
      <4>2. Room(p) = IF l < Quota THEN Quota - l ELSE 0
        BY DEF Room
      <4>3. l \in Nat /\ Quota \in Nat
        BY <3>2
      <4> HIDE DEF l
      <4>4. Room(p) \in Nat /\ l + Room(p) <= Quota
        BY ONLY <4>1, <4>2, <4>3
      <4>5. QED BY <4>4 DEF l
    <3>4. n <= Room(p)
      BY <3>2, <3>3 DEF HandedOver, Least
    <3>5. Len(wire'[p]) = Len(wire[p]) + n
      BY <2>2, <3>1
    <3>6. QED BY <2>1, <3>2, <3>3, <3>4, <3>5
  <2>4. p \notin flushed' /\ client'[p] # "eof"
    BY <1>1, <1>5 DEF PipeState
  <2> HIDE DEF n, queue
  <2>5. QED BY <2>1, <2>2, <2>3, <2>4 DEF PipeState
<1>6. QED BY <1>2, <1>3, <1>4, <1>5, ServiceCases

(* after a poll or a resize has queued what is new,                         *)
LEMMA FlushedStaysEmpty ==
  ASSUME TypeOK, NEW p \in OutPipes, PipeState(p), p \in flushed
  PROVE  Polled[p] = <<>> /\ Scraped(p) = <<>>
<1>1. /\ closingOutputPipes /\ scraped = output /\ mouseModeEnabled = FALSE
      /\ conn[p] = "closed" /\ outQueue[p] = <<>>
  BY DEF PipeState, NothingNew, TypeOK
<1>2. scraped[p] <= output[p]
  BY <1>1 DEF TypeOK
<1>3. Scraped(p) = <<>>
  BY <1>1, <1>2, ScrapeIsTyped
<1>4. ScrapedItems(p) = <<>>
  BY <1>3 DEF ScrapedItems
<1>5. MouseItems = <<>>
  <2>1. MouseMode = FALSE
    BY <1>1 DEF MouseMode
  <2>2. QED BY <1>1, <2>1 DEF MouseItems
<1>6. p = "conout" => TitleItems = <<>>
  BY <1>1 DEF TitleItems
<1>7. Cat(<<>>, <<>>) = <<>>
  BY Monoid
<1>8. /\ p = "conout" =>
           Polled[p] = Cat(Cat(Cat(outQueue[p], TitleItems),
                               ScrapedItems(p)), MouseItems)
      /\ p # "conout" => Polled[p] = Cat(outQueue[p], ScrapedItems(p))
  BY <1>2, Polling
<1>9. QED BY <1>1, <1>3, <1>4, <1>5, <1>6, <1>7, <1>8

(* and after the pipes that have nothing left are closed;                   *)
LEMMA ClosingKeepsPipe ==
  ASSUME TypeOK, ChildKnown, NEW p \in OutPipes, PipeState(p), [Next]_vars,
         NEW queue, autoClosePipes(queue, closingOutputPipes),
         queue[p] = outQueue'[p],
         closingOutputPipes => closingOutputPipes' /\ NothingNew',
         p \in flushed => outQueue'[p] = <<>>,
         UNCHANGED <<pending, rest, wire, client>>, pc # "exited"
  PROVE  PipeState(p)'
<1> DEFINE closed == IF closingOutputPipes THEN Closable(queue) ELSE {}
<1>1. /\ conn'[p] = IF p \in closed THEN "closed" ELSE conn[p]
      /\ flushed' = flushed \cup closed
  BY DEF autoClosePipes
<1>2. p \in closed => /\ closingOutputPipes /\ conn[p] = "connected"
                      /\ queue[p] = <<>> /\ ~pending[p]
  BY DEF Closable
<1> HIDE DEF closed
<1>3. CASE p \in closed
  BY <1>1, <1>2, <1>3 DEF PipeState
<1>4. CASE p \notin closed
  BY <1>1, <1>4 DEF PipeState
<1>5. QED BY <1>3, <1>4

LEMMA PollKeepsPipe ==
  ASSUME TypeOK, ChildKnown, LastScrape, NEW p \in OutPipes, PipeState(p),
         [Next]_vars, SetSize \/ OnOutputIo \/ ScrapeAndClose
  PROVE  PipeState(p)'
<1>1. CASE SetSize
  <2>1. UNCHANGED <<conn, pending, rest, wire, client, flushed>>
    BY <1>1 DEF SetSize, history
  <2>2. p \in flushed => outQueue'[p] = outQueue[p]
    <3>1. outQueue'[p] = Cat(outQueue[p], Scraped(p))
      BY <1>1 DEF SetSize, Cat
    <3>2. p \in flushed => outQueue[p] = <<>> /\ Scraped(p) = <<>>
      BY FlushedStaysEmpty DEF PipeState
    <3>3. Cat(<<>>, <<>>) = <<>>
      BY Monoid
    <3>4. QED BY <3>1, <3>2, <3>3
  <2>3. QED BY <2>1, <2>2, PipeLeftAlone
<1>2. CASE OnOutputIo
  <2>1. /\ pc = "callback" /\ autoClosePipes(outQueue, closingOutputPipes)
        /\ UNCHANGED <<agentVars, pollVars, consoleVars, outQueue, pending,
                       rest, wire, client>>
    BY <1>2 DEF OnOutputIo
  <2>2. closingOutputPipes => NothingNew
    BY <2>1 DEF LastScrape
  <2>3. closingOutputPipes => closingOutputPipes' /\ NothingNew'
    BY <2>2, NothingNewIsFinal
  <2>4. p \in flushed => outQueue'[p] = <<>>
    BY <2>1 DEF PipeState
  <2>5. QED BY <2>1, <2>3, <2>4, ClosingKeepsPipe
<1>3. CASE ScrapeAndClose
  <2>1. /\ pc = "scrape" /\ autoClosePipes(Polled, closingOutputPipes)
        /\ outQueue' = Polled /\ closingOutputPipes' = closingOutputPipes
        /\ UNCHANGED <<pending, rest, wire, client>>
    BY <1>3 DEF ScrapeAndClose, agentVars
  <2>2. closingOutputPipes => NothingNew'
    <3>1. /\ scraped' = IF scrapeContent THEN output ELSE scraped
          /\ output' = output
          /\ mouseModeEnabled' = (activateMouse /\ ~closingOutputPipes)
      BY <1>3 DEF ScrapeAndClose, MouseMode
    <3>2. closingOutputPipes => scraped = output \/ scrapeContent
      BY DEF LastScrape, NothingNew
    <3>3. QED BY <3>1, <3>2 DEF NothingNew
  <2>3. p \in flushed => outQueue'[p] = <<>>
    BY <2>1, FlushedStaysEmpty
  <2>4. QED BY <2>1, <2>2, <2>3, ClosingKeepsPipe
<1>4. QED BY <1>1, <1>2, <1>3

(* at the agent's end,                                                      *)
LEMMA ExitKeepsPipe ==
  ASSUME TypeOK, ChildKnown, Ending, NEW p \in OutPipes, PipeState(p),
         [Next]_vars, AgentExit
  PROVE  PipeState(p)'
<1>1. /\ pc = "exiting" /\ pc' = "exited" /\ conn'[p] = "closed"
      /\ pending'[p] = FALSE /\ rest'[p] = <<>> /\ outQueue'[p] = <<>>
      /\ wire'[p] = wire[p] /\ client'[p] = client[p] /\ flushed' = flushed
      /\ session' = session /\ asserted' = asserted
  BY DEF AgentExit, clientVars, history
<1>2. p \in flushed => closingOutputPipes' /\ NothingNew'
  BY NothingNewIsFinal DEF PipeState
<1>3. p \in flushed' \/ client'[p] = "closed" \/ ~Undisturbed'
  <2>1. CASE ~Undisturbed
    BY <1>1, <2>1 DEF Undisturbed
  <2>2. CASE Undisturbed
    <3>1. conn[p] = "closed"
      BY <1>1, <2>2 DEF Ending
    <3>2. QED BY <1>1, <3>1 DEF PipeState
  <2>3. QED BY <2>1, <2>2
<1>4. Len(wire'[p]) <= Quota /\ (client'[p] = "eof" => wire'[p] = <<>>)
  BY <1>1 DEF PipeState
<1>5. QED BY <1>1, <1>2, <1>3, <1>4 DEF PipeState

(* and whatever the client does.                                            *)
LEMMA ClientKeepsPipe ==
  ASSUME TypeOK, ChildKnown, NEW p \in OutPipes, PipeState(p), [Next]_vars,
         NEW q \in OutPipes,
         \/ ClientConnects(q) \/ ClientReads(q) \/ ClientReadsEof(q)
         \/ ClientCloses(q)
  PROVE  PipeState(p)'
<1>1. Outside
  BY DEF Outside
<1>2. /\ UNCHANGED <<pc, conn, outQueue, pending, flushed>>
      /\ pc = "exited" /\ ~Undisturbed => ~Undisturbed'
      /\ p \in flushed => closingOutputPipes' /\ NothingNew'
  <2>1. UNCHANGED <<pc, conn, outQueue, pending, flushed>>
    BY <1>1, OutsideTheAgent DEF history
  <2>2. ~Undisturbed => ~Undisturbed'
    BY EndsAreFinal DEF Undisturbed, TypeOK
  <2>3. p \in flushed => closingOutputPipes' /\ NothingNew'
    BY NothingNewIsFinal DEF PipeState
  <2>4. QED BY <2>1, <2>2, <2>3
<1>3. CASE p # q
  <2>1. /\ client'[p] = client[p] /\ wire'[p] = wire[p] /\ rest'[p] = rest[p]
    BY <1>3 DEF ClientConnects, ClientReads, ClientReadsEof, ClientCloses, TypeOK
  <2>2. QED BY <1>2, <2>1, PipeLeftAlone
<1>4. CASE p = q /\ ClientConnects(p)
  <2>1. /\ conn[p] = "connecting" /\ client'[p] = "open"
        /\ UNCHANGED <<wire, rest>>
    BY <1>4 DEF ClientConnects, TypeOK
  <2>2. QED BY <1>2, <2>1 DEF PipeState
<1>5. CASE p = q /\ ClientReads(p)
  <2> DEFINE all == Cat(wire[p], rest[p])
             more == Least(Quota + 1, Len(all))
  <2>1. /\ wire[p] \in Seq(Item) /\ rest[p] \in Seq(Item)
        /\ got[p] \in Seq(Item) /\ outQueue[p] \in Seq(Item)
    BY DEF TypeOK
  <2>2. /\ client[p] = "open" /\ client'[p] = "open" /\ all # <<>>
        /\ wire'[p] = Tail(First(all, more)) /\ rest'[p] = From(all, more)
    BY <1>5 DEF ClientReads, Cat, TypeOK
  <2>3. all \in Seq(Item)
    BY <2>1, Monoid
  <2>4. Len(all) = Len(wire[p]) + Len(rest[p])
    BY <2>1, CatLength
  <2>5. more \in 1..Len(all) /\ more <= Quota + 1
    <3> HIDE DEF all
    <3>1. Len(all) \in Nat /\ Quota + 1 \in Nat
      BY <2>3, LenProperties, AgentAssumption
    <3>2. QED BY <2>2, <2>3, <3>1, ReadAmount DEF Least
  <2> HIDE DEF all
  <2>6. Len(wire'[p]) <= Quota
    <3>1. First(all, more) \in Seq(Item) /\ Len(First(all, more)) = more
      BY <2>3, <2>5, Cut
    <3>2. First(all, more) # <<>>
      BY <2>5, <3>1, EmptySeq
    <3>3. Len(Tail(First(all, more))) = more - 1
      BY <3>1, <3>2, HeadTailProperties
    <3>4. QED BY <2>2, <2>5, <3>3, AgentAssumption
  <2>7. rest[p] = <<>> => rest'[p] = <<>>
    <3> SUFFICES ASSUME rest[p] = <<>> PROVE rest'[p] = <<>>
      OBVIOUS
    <3>1. Len(rest[p]) = 0 /\ Len(wire[p]) \in Nat /\ Len(wire[p]) <= Quota
      BY <2>1, EmptySeq, LenProperties DEF PipeState
    <3>2. more = Len(all)
      BY <2>4, <3>1, AgentAssumption DEF Least
    <3> HIDE DEF more
    <3>3. From(all, more) \in Seq(Item)
          /\ Len(From(all, more)) = Len(all) - more
      <4>1. more \in 0..Len(all)
        BY <2>5
      <4>2. QED BY <2>3, <4>1, Cut
    <3>4. Len(From(all, more)) = 0
      BY <2>5, <3>2, <3>3
    <3>5. QED BY <2>2, <3>3, <3>4, EmptySeq
  <2>8. QED BY <1>2, <2>2, <2>6, <2>7 DEF PipeState
<1>6. CASE p = q /\ ClientReadsEof(p)
  <2>1. /\ client[p] = "open" /\ client'[p] = "eof" /\ conn[p] = "closed"
        /\ wire[p] = <<>> /\ UNCHANGED <<wire, rest>>
    BY <1>6 DEF ClientReadsEof, TypeOK
  <2>2. QED BY <1>2, <2>1 DEF PipeState
<1>7. CASE p = q /\ ClientCloses(p)
  <2>1. /\ client'[p] = "closed" /\ wire'[p] = <<>> /\ rest' = rest
    BY <1>7 DEF ClientCloses, TypeOK
  <2>2. Len(wire'[p]) <= Quota
    BY <2>1, EmptySeq, AgentAssumption
  <2>3. QED BY <1>2, <2>1, <2>2 DEF PipeState
<1>8. QED BY <1>3, <1>4, <1>5, <1>6, <1>7

LEMMA PipeStateIsKept ==
  ASSUME TypeOK, ChildKnown, LastScrape, Ending, NEW p \in OutPipes,
         PipeState(p), [Next]_vars
  PROVE  PipeState(p)'
<1> DEFINE Alone == UNCHANGED <<conn, pending, rest, wire, client, outQueue,
                                flushed>>
<1>1. Alone => PipeState(p)'
  BY PipeLeftAlone
<1> USE DEF pipeVars, history
<1>2. CASE ServiceControl \/ PollControlPipe
  BY <1>1, <1>2 DEF ServiceControl, PollControlPipe
<1>3. CASE StartProcess \/ StartProcessAsserts
  BY <1>1, <1>3 DEF StartProcess, StartProcessAsserts
<1>4. CASE SetSize \/ OnOutputIo \/ ScrapeAndClose
  BY <1>4, PollKeepsPipe
<1>5. ASSUME NEW q \in OutPipes, ServiceOutput(q) PROVE PipeState(p)'
  BY <1>5, ServiceKeepsPipe
<1>6. CASE UpdateInputFlags \/ CheckChildExit \/ RoundEnd \/ WakeUp
  BY <1>1, <1>6 DEF UpdateInputFlags, CheckChildExit, RoundEnd, WakeUp
<1>7. CASE AgentExit
  BY <1>7, ExitKeepsPipe
<1>8. CASE Tick \/ ClientFrees
  BY <1>1, <1>8 DEF Tick, ClientFrees
<1>9. CASE ClientSpawns \/ ClientResizes
  BY <1>1, <1>9 DEF ClientSpawns, ClientResizes, Send
<1>10. ASSUME NEW q \in OutPipes,
              \/ ClientConnects(q) \/ ClientReads(q) \/ ClientReadsEof(q)
              \/ ClientCloses(q)
       PROVE  PipeState(p)'
  BY <1>10, ClientKeepsPipe
<1>11. CASE ChildConsole \/ ChildExits
  BY <1>1, <1>11 DEF ChildConsole, ChildExits
<1>12. ASSUME NEW q \in OutPipes, ChildWrites(q) PROVE PipeState(p)'
  BY <1>1, <1>12 DEF ChildWrites
<1>13. CASE UNCHANGED vars
  BY <1>1, <1>13 DEF vars
<1>14. QED
  BY <1>2, <1>3, <1>4, <1>5, <1>6, <1>7, <1>8, <1>9, <1>10, <1>11, <1>12,
     <1>13, NextCases
  DEF Apart, Outside

-----------------------------------------------------------------------------
(* What the scrapes have seen is accounted for: it does not change while    *)
(* the pipe moves it,                                                       *)
LEMMA Buffers ==
  ASSUME TypeOK, NEW p \in OutPipes
  PROVE  /\ got[p] \in Seq(Item) /\ wire[p] \in Seq(Item)
         /\ rest[p] \in Seq(Item) /\ outQueue[p] \in Seq(Item)
         /\ InPipe(p) \in Seq(Item) /\ TextCount(InPipe(p)) \in Nat
         /\ TextCount(InPipe(p)) = TextCount(got[p]) + TextCount(wire[p])
                                   + TextCount(rest[p]) + TextCount(outQueue[p])
         /\ {TextCount(got[p]), TextCount(wire[p]), TextCount(rest[p]),
             TextCount(outQueue[p])} \subseteq Nat
         /\ output[p] \in Nat /\ scraped[p] \in Nat
<1>1. /\ got[p] \in Seq(Item) /\ wire[p] \in Seq(Item)
      /\ rest[p] \in Seq(Item) /\ outQueue[p] \in Seq(Item)
      /\ output[p] \in Nat /\ scraped[p] \in Nat
  BY DEF TypeOK
<1>2. /\ InPipe(p) \in Seq(Item)
      /\ TextCount(InPipe(p)) = TextCount(got[p]) + TextCount(wire[p])
                                + TextCount(rest[p]) + TextCount(outQueue[p])
      /\ {TextCount(got[p]), TextCount(wire[p]), TextCount(rest[p]),
          TextCount(outQueue[p])} \subseteq Nat
  BY <1>1, RowItems DEF InPipe
<1>3. TextCount(InPipe(p)) \in Nat
  BY <1>2
<1>4. QED BY <1>1, <1>2, <1>3

LEMMA BuffersNext ==
  ASSUME TypeOK', NEW p \in OutPipes
  PROVE  /\ got'[p] \in Seq(Item) /\ wire'[p] \in Seq(Item)
         /\ rest'[p] \in Seq(Item) /\ outQueue'[p] \in Seq(Item)
         /\ InPipe(p)' = Row(got'[p], wire'[p], rest'[p], outQueue'[p])
         /\ InPipe(p)' \in Seq(Item) /\ TextCount(InPipe(p)') \in Nat
         /\ TextCount(InPipe(p)')
              = TextCount(got'[p]) + TextCount(wire'[p])
                + TextCount(rest'[p]) + TextCount(outQueue'[p])
<1>1. /\ got'[p] \in Seq(Item) /\ wire'[p] \in Seq(Item)
      /\ rest'[p] \in Seq(Item) /\ outQueue'[p] \in Seq(Item)
  BY DEF TypeOK
<1>2. InPipe(p)' = Row(got'[p], wire'[p], rest'[p], outQueue'[p])
  BY DEF InPipe
<1> DEFINE g == got'[p]
           w == wire'[p]
           r == rest'[p]
           o == outQueue'[p]
           row == Row(g, w, r, o)
<1>3. row \in Seq(Item)
      /\ TextCount(row)
           = TextCount(g) + TextCount(w) + TextCount(r) + TextCount(o)
  <2> HIDE DEF g, w, r, o
  <2>1. g \in Seq(Item) /\ w \in Seq(Item) /\ r \in Seq(Item)
        /\ o \in Seq(Item)
    BY <1>1 DEF g, w, r, o
  <2>2. QED BY <2>1, RowItems
<1>4. TextCount(row) \in Nat
  BY <1>3, CountIsNat
<1> HIDE DEF row
<1>5. QED BY <1>1, <1>2, <1>3, <1>4 DEF row

LEMMA NothingMoves ==
  ASSUME NEW p \in OutPipes, Accounted(p), InPipe(p)' = InPipe(p),
         scraped'[p] = scraped[p], output'[p] = output[p],
         mouseModeEnabled' = mouseModeEnabled, Lossless(p)' => Lossless(p)
  PROVE  Accounted(p)'
BY DEF Accounted

(* What is lost stays lost, at least while the agent runs and the client    *)
(* has not closed the pipe.                                                 *)
LEMMA LossesLast ==
  ASSUME TypeOK, NEW p \in OutPipes, [Next]_vars, pc' # "exited",
         \/ client'[p] = client[p]
         \/ client'[p] # "closed" /\ client[p] # "closed"
  PROVE  Lossless(p)' => Lossless(p)
<1>1. pc # "exited"
  BY ControlIsClosed
<1>2. QED BY <1>1 DEF Lossless

LEMMA LossyPipe ==
  ASSUME NEW p \in OutPipes, Accounted(p), ~Lossless(p)',
         TextCount(InPipe(p)') <= TextCount(InPipe(p)),
         TextCount(InPipe(p)') \in Nat, TextCount(InPipe(p)) \in Nat,
         scraped[p] \in Nat, output[p] \in Nat,
         scraped'[p] = scraped[p], output'[p] = output[p]
  PROVE  Accounted(p)'
BY DEF Accounted

LEMMA DroppedItems ==
  ASSUME TypeOK, TypeOK', NEW p \in OutPipes, Accounted(p), ~Lossless(p)',
         got'[p] = got[p], wire'[p] \in {wire[p], <<>>},
         rest'[p] \in {rest[p], <<>>}, outQueue'[p] \in {outQueue[p], <<>>},
         scraped'[p] = scraped[p], output'[p] = output[p]
  PROVE  Accounted(p)'
<1> DEFINE g == TextCount(got[p])
           w == TextCount(wire[p])
           r == TextCount(rest[p])
           o == TextCount(outQueue[p])
           w1 == TextCount(wire'[p])
           r1 == TextCount(rest'[p])
           o1 == TextCount(outQueue'[p])
<1>1. /\ TextCount(InPipe(p)) = g + w + r + o /\ TextCount(InPipe(p)) \in Nat
      /\ g \in Nat /\ w \in Nat /\ r \in Nat /\ o \in Nat
      /\ scraped[p] \in Nat /\ output[p] \in Nat
  BY Buffers
<1>2. w1 \in {w, 0} /\ r1 \in {r, 0} /\ o1 \in {o, 0}
  BY OtherItems
<1>3. /\ TextCount(InPipe(p)') = g + w1 + r1 + o1
      /\ TextCount(InPipe(p)') \in Nat
  BY BuffersNext
<1> HIDE DEF g, w, r, o, w1, r1, o1
<1>4. TextCount(InPipe(p)') <= TextCount(InPipe(p))
  BY <1>1, <1>2, <1>3
<1>5. QED BY <1>1, <1>3, <1>4, LossyPipe

LEMMA ServiceAccounts ==
  ASSUME TypeOK, TypeOK', NEW p \in OutPipes, PipeState(p), Accounted(p),
         [Next]_vars, NEW q \in OutPipes, ServiceOutput(q)
  PROVE  Accounted(p)'
<1>1. /\ UNCHANGED <<got, client, output, scraped, mouseModeEnabled, flushed>>
      /\ pc' # "exited" /\ pc # "exited"
  BY ServiceCases DEF consoleVars, pollVars, history
<1>2. Lossless(p)' => Lossless(p)
  BY <1>1 DEF Lossless
<1>3. CASE UNCHANGED <<conn, outQueue, pending, rest, wire>>
  BY <1>1, <1>2, <1>3, NothingMoves DEF InPipe
<1>4. CASE p # q
  <2>1. /\ rest'[p] = rest[p] /\ wire'[p] = wire[p]
        /\ outQueue'[p] = outQueue[p]
    BY <1>4, OtherPipe
  <2>2. InPipe(p)' = InPipe(p)
    BY <1>1, <2>1 DEF InPipe
  <2>3. QED BY <1>1, <1>2, <2>2, NothingMoves
<1>5. CASE p = q /\ OutputBreaks(p)
  <2>1. /\ client'[p] = "closed" /\ wire'[p] = wire[p] /\ got'[p] = got[p]
        /\ rest'[p] = <<>> /\ outQueue'[p] \in {outQueue[p], <<>>}
    BY <1>1, <1>5 DEF OutputBreaks, OutputFails, TypeOK
  <2>2. ~Lossless(p)'
    BY <2>1 DEF Lossless
  <2>3. QED BY <1>1, <2>1, <2>2, DroppedItems
<1>6. CASE p = q /\ OutputHandsOver(p)
  <2> DEFINE n == HandedOver(p)
  <2>1. /\ wire'[p] = Cat(wire[p], First(outQueue[p], n))
        /\ rest'[p] = From(outQueue[p], n) /\ outQueue'[p] = <<>>
    BY <1>6 DEF OutputHandsOver, TypeOK
  <2>2. rest[p] = <<>>
    <3>1. CASE pending[p]
      <4>1. conn[p] = "connected" /\ WriteEnds(p)
        BY <1>6, <3>1 DEF OutputHandsOver, OutputIdle, PipeState
      <4>2. QED
        BY <1>6, <3>1, <4>1 DEF OutputHandsOver, OutputFails, WriteEnds
    <3>2. CASE ~pending[p]
      BY <3>2 DEF PipeState
    <3>3. QED BY <3>1, <3>2
  <2>3. /\ First(outQueue[p], n) \in Seq(Item)
        /\ From(outQueue[p], n) \in Seq(Item)
        /\ outQueue[p] = Cat(First(outQueue[p], n), From(outQueue[p], n))
    BY HandedOverInRange
  <2>4. got[p] \in Seq(Item) /\ wire[p] \in Seq(Item)
    BY Buffers
  <2>5. InPipe(p) = Row(got[p], wire[p], <<>>, outQueue[p])
    BY <2>2 DEF InPipe
  <2>6. InPipe(p)' = Row(got[p], Cat(wire[p], First(outQueue[p], n)),
                         From(outQueue[p], n), <<>>)
    BY <1>1, <2>1 DEF InPipe
  <2>7. InPipe(p)' = InPipe(p)
    <3> DEFINE f == First(outQueue[p], n)
               r == From(outQueue[p], n)
    <3>1. f \in Seq(Item) /\ r \in Seq(Item) /\ outQueue[p] = Cat(f, r)
      BY <2>3
    <3> HIDE DEF f, r
    <3>2. /\ Row(got[p], wire[p], <<>>, Cat(f, r))
               = Row(got[p], Cat(wire[p], f), r, <<>>)
      BY <2>4, <3>1, HandOverFirst
    <3>3. QED BY <2>5, <2>6, <3>1, <3>2 DEF f, r
  <2>8. QED BY <1>1, <1>2, <2>7, NothingMoves
<1>7. QED BY <1>3, <1>4, <1>5, <1>6, ServiceCases

(* it grows by what a scrape finds new,                                     *)
LEMMA MoreText ==
  ASSUME TypeOK, NEW p \in OutPipes, Accounted(p),
         NEW x \in Seq(Item), NoMouse(x),
         TextCount(x) = output[p] - scraped[p],
         InPipe(p)' = Cat(InPipe(p), x), scraped'[p] = output[p],
         output'[p] = output[p], mouseModeEnabled' = mouseModeEnabled,
         Lossless(p)' => Lossless(p)
  PROVE  Accounted(p)'
<1> DEFINE all == InPipe(p)
           next == InPipe(p)'
<1>1. all \in Seq(Item) /\ output[p] \in Nat /\ scraped[p] \in Nat
  BY Buffers
<1>2. /\ TextCount(next) = TextCount(all) + TextCount(x)
      /\ TextCount(all) \in Nat
      /\ MouseLeftOn(next) <=> MouseLeftOn(all)
  <2> HIDE DEF all
  <2>1. next = Cat(all, x)
    BY DEF all
  <2> HIDE DEF next
  <2>2. QED BY <1>1, <2>1, CountOfCat, MouseOfCat
<1>3. /\ TextCount(all) <= scraped[p] /\ scraped[p] <= output[p]
      /\ Lossless(p) => TextCount(all) = scraped[p]
      /\ Lossless(p) /\ p = "conout" =>
           (MouseLeftOn(all) <=> mouseModeEnabled)
  BY DEF Accounted
<1> HIDE DEF all, next
<1>4. /\ TextCount(next) <= output[p]
      /\ Lossless(p)' => TextCount(next) = output[p]
  BY <1>1, <1>2, <1>3
<1>5. Lossless(p)' /\ p = "conout" =>
        (MouseLeftOn(next) <=> mouseModeEnabled')
  BY <1>2, <1>3
<1>6. QED BY <1>1, <1>4, <1>5 DEF Accounted, next

LEMMA SetSizeAccounts ==
  ASSUME TypeOK, NEW p \in OutPipes, Accounted(p), SetSize
  PROVE  Accounted(p)'
<1>1. /\ UNCHANGED <<pc, got, wire, rest, client, output, mouseModeEnabled,
                     flushed>>
      /\ scraped' = output
      /\ outQueue'[p] = Cat(outQueue[p], Scraped(p))
  BY DEF SetSize, loopVars, pollVars, history, Cat
<1>2. scraped[p] <= output[p]
  BY DEF Accounted
<1>3. /\ Scraped(p) \in Seq(Item) /\ NoMouse(Scraped(p))
      /\ TextCount(Scraped(p)) = output[p] - scraped[p]
  BY <1>2, ScrapeIsTyped
<1>4. Row(got[p], wire[p], rest[p], Cat(outQueue[p], Scraped(p)))
        = Cat(Row(got[p], wire[p], rest[p], outQueue[p]), Scraped(p))
  <2> DEFINE g == got[p]
             w == wire[p]
             r == rest[p]
             o == outQueue[p]
             x == Scraped(p)
  <2>1. /\ g \in Seq(Item) /\ w \in Seq(Item) /\ r \in Seq(Item)
        /\ o \in Seq(Item) /\ x \in Seq(Item)
    BY <1>3, Buffers
  <2> HIDE DEF g, w, r, o, x
  <2>2. Row(g, w, r, Cat(o, x)) = Cat(Row(g, w, r, o), x)
    BY <2>1, RowGrows
  <2>3. QED BY <2>2 DEF g, w, r, o, x
<1>5. InPipe(p)' = Cat(InPipe(p), Scraped(p))
  <2>1. InPipe(p)' = Row(got[p], wire[p], rest[p], outQueue'[p])
    BY <1>1 DEF InPipe
  <2>2. QED BY <1>1, <1>4, <2>1 DEF InPipe
<1>6. Lossless(p)' => Lossless(p)
  BY <1>1 DEF Lossless
<1> HIDE DEF Scraped
<1>7. QED BY <1>1, <1>3, <1>5, <1>6, MoreText

(* and by the mouse mode a poll sets;                                       *)
LEMMA PollGrowsRow ==
  ASSUME NEW s \in Seq(Item), NEW t \in Seq(Item), NEW x \in Seq(Item),
         NEW m \in Seq(Item), NoMouse(t), NoMouse(x),
         TextCount(t) = 0, TextCount(m) = 0
  PROVE  LET all == Cat(Cat(Cat(s, t), x), m)
         IN  /\ TextCount(all) = TextCount(s) + TextCount(x)
             /\ m = <<>> => (MouseLeftOn(all) <=> MouseLeftOn(s))
             /\ m = <<"on">> => MouseLeftOn(all)
             /\ m = <<"off">> => ~MouseLeftOn(all)
<1> DEFINE st == Cat(s, t)
           stx == Cat(st, x)
<1>1. st \in Seq(Item)
  BY Monoid
<1>2. /\ TextCount(st) = TextCount(s) + TextCount(t)
      /\ MouseLeftOn(st) <=> MouseLeftOn(s)
      /\ TextCount(s) \in Nat
  BY CountOfCat, MouseOfCat
<1> HIDE DEF st
<1>3. stx \in Seq(Item)
  BY <1>1, Monoid
<1>4. /\ TextCount(stx) = TextCount(st) + TextCount(x)
      /\ MouseLeftOn(stx) <=> MouseLeftOn(st)
      /\ TextCount(x) \in Nat
  BY <1>1, CountOfCat, MouseOfCat
<1> HIDE DEF stx
<1>5. /\ TextCount(Cat(stx, m)) = TextCount(stx) + TextCount(m)
      /\ m = <<"on">> => MouseLeftOn(Cat(stx, m))
      /\ m = <<"off">> => ~MouseLeftOn(Cat(stx, m))
  BY <1>3, CountOfCat, MouseOfCat
<1>6. m = <<>> => (MouseLeftOn(Cat(stx, m)) <=> MouseLeftOn(stx))
  <2>1. m = <<>> => Cat(stx, m) = stx
    BY <1>3, Monoid
  <2>2. QED BY <2>1
<1>7. TextCount(Cat(stx, m)) = TextCount(s) + TextCount(x)
  BY <1>2, <1>4, <1>5
<1>8. /\ m = <<>> => (MouseLeftOn(Cat(stx, m)) <=> MouseLeftOn(s))
      /\ m = <<"on">> => MouseLeftOn(Cat(stx, m))
      /\ m = <<"off">> => ~MouseLeftOn(Cat(stx, m))
  BY <1>2, <1>4, <1>5, <1>6
<1>9. QED BY <1>7, <1>8 DEF st, stx

LEMMA PollAccounts ==
  ASSUME TypeOK, NEW p \in OutPipes, Accounted(p), ScrapeAndClose,
         Lossless(p)' => Lossless(p)
  PROVE  Accounted(p)'
<1>1. /\ UNCHANGED <<got, wire, rest, client, output>>
      /\ scraped' = IF scrapeContent THEN output ELSE scraped
      /\ outQueue'[p] = Polled[p] /\ mouseModeEnabled' = MouseMode
  BY DEF ScrapeAndClose
<1>2. scraped[p] <= output[p] /\ output[p] \in Nat /\ scraped[p] \in Nat
  BY Buffers DEF Accounted
<1> DEFINE all == InPipe(p)
           next == InPipe(p)'
           t == TitleItems
           x == ScrapedItems(p)
           m == MouseItems
<1>3. /\ t \in Seq(Item) /\ x \in Seq(Item) /\ m \in Seq(Item)
      /\ NoMouse(t) /\ NoMouse(x) /\ TextCount(t) = 0 /\ TextCount(m) = 0
      /\ TextCount(x) = IF scrapeContent THEN output[p] - scraped[p] ELSE 0
  BY <1>2, PollIsTyped
<1>4. /\ got[p] \in Seq(Item) /\ wire[p] \in Seq(Item)
      /\ rest[p] \in Seq(Item) /\ outQueue[p] \in Seq(Item)
      /\ all \in Seq(Item) /\ TextCount(all) \in Nat
  BY Buffers
<1>5. all = Row(got[p], wire[p], rest[p], outQueue[p])
      /\ next = Row(got[p], wire[p], rest[p], outQueue'[p])
  BY <1>1 DEF InPipe
<1>6. /\ p = "conout" => outQueue'[p] = Cat(Cat(Cat(outQueue[p], t), x), m)
      /\ p # "conout" => outQueue'[p] = Cat(outQueue[p], x)
  BY <1>1, <1>2, Polling
<1>7. m = IF mouseModeEnabled = MouseMode THEN <<>>
          ELSE IF MouseMode THEN <<"on">> ELSE <<"off">>
  BY DEF MouseItems
<1>8. /\ TextCount(all) <= scraped[p] /\ scraped[p] <= output[p]
      /\ Lossless(p) => TextCount(all) = scraped[p]
      /\ Lossless(p) /\ p = "conout" =>
           (MouseLeftOn(all) <=> mouseModeEnabled)
  BY DEF Accounted
<1>9. Accounted(p)' <=>
        /\ TextCount(next) <= scraped'[p] /\ scraped'[p] <= output'[p]
        /\ Lossless(p)' => TextCount(next) = scraped'[p]
        /\ Lossless(p)' /\ p = "conout" =>
             (MouseLeftOn(next) <=> mouseModeEnabled')
  BY DEF Accounted
<1> HIDE DEF all, next, t, x, m
<1>10. /\ p = "conout" => next = Cat(Cat(Cat(all, t), x), m)
       /\ p # "conout" => next = Cat(all, x)
  <2> DEFINE g == got[p]
             w == wire[p]
             r == rest[p]
             o == outQueue[p]
             o1 == outQueue'[p]
  <2>1. /\ g \in Seq(Item) /\ w \in Seq(Item) /\ r \in Seq(Item)
        /\ o \in Seq(Item) /\ all = Row(g, w, r, o) /\ next = Row(g, w, r, o1)
        /\ p = "conout" => o1 = Cat(Cat(Cat(o, t), x), m)
        /\ p # "conout" => o1 = Cat(o, x)
    BY <1>4, <1>5, <1>6
  <2> HIDE DEF g, w, r, o, o1
  <2>2. Row(g, w, r, Cat(Cat(Cat(o, t), x), m)) = Cat(Cat(Cat(all, t), x), m)
    <3>1. /\ g \in Seq(Item) /\ w \in Seq(Item) /\ r \in Seq(Item)
          /\ o \in Seq(Item) /\ t \in Seq(Item) /\ x \in Seq(Item)
          /\ m \in Seq(Item)
      BY <1>3, <2>1
    <3>2. /\ Cat(o, t) \in Seq(Item)
          /\ Row(g, w, r, Cat(o, t)) = Cat(Row(g, w, r, o), t)
      BY <3>1, RowGrows
    <3>3. /\ Cat(Cat(o, t), x) \in Seq(Item)
          /\ Row(g, w, r, Cat(Cat(o, t), x)) = Cat(Row(g, w, r, Cat(o, t)), x)
      BY <3>1, <3>2, RowGrows
    <3>4. Row(g, w, r, Cat(Cat(Cat(o, t), x), m))
            = Cat(Row(g, w, r, Cat(Cat(o, t), x)), m)
      BY <3>1, <3>3, RowGrows
    <3>5. QED BY <2>1, <3>2, <3>3, <3>4
  <2>3. Row(g, w, r, Cat(o, x)) = Cat(all, x)
    BY <1>3, <2>1, RowGrows
  <2>4. QED BY <2>1, <2>2, <2>3
<1>11. /\ TextCount(next) = TextCount(all) + TextCount(x)
       /\ p = "conout" =>
            /\ m = <<>> => (MouseLeftOn(next) <=> MouseLeftOn(all))
            /\ m = <<"on">> => MouseLeftOn(next)
            /\ m = <<"off">> => ~MouseLeftOn(next)
  <2>1. CASE p = "conout"
    BY <1>3, <1>4, <1>10, <2>1, PollGrowsRow
  <2>2. CASE p # "conout"
    BY <1>3, <1>4, <1>10, <2>2, CountOfCat
  <2>3. QED BY <2>1, <2>2
<1>12. /\ TextCount(next) <= scraped'[p] /\ scraped'[p] <= output'[p]
       /\ Lossless(p)' => TextCount(next) = scraped'[p]
  <2> DEFINE before == TextCount(all)
             after == TextCount(next)
             new == TextCount(x)
             seen == scraped[p]
             shown == output[p]
  <2>1. /\ before \in Nat /\ seen \in Nat /\ shown \in Nat
        /\ after = before + new /\ before <= seen /\ seen <= shown
        /\ output'[p] = shown
        /\ \/ new = shown - seen /\ scraped'[p] = shown
           \/ new = 0 /\ scraped'[p] = seen
        /\ Lossless(p)' => before = seen
    BY <1>1, <1>2, <1>3, <1>4, <1>8, <1>11
  <2> HIDE DEF before, after, new, seen, shown
  <2>2. /\ after <= scraped'[p] /\ scraped'[p] <= output'[p]
        /\ Lossless(p)' => after = scraped'[p]
    BY <2>1
  <2>3. QED BY <2>2 DEF after
<1>13. Lossless(p)' /\ p = "conout" =>
         (MouseLeftOn(next) <=> mouseModeEnabled')
  <2> SUFFICES ASSUME Lossless(p)', p = "conout"
               PROVE  MouseLeftOn(next) <=> mouseModeEnabled'
    OBVIOUS
  <2>1. mouseModeEnabled \in BOOLEAN
    BY DEF TypeOK
  <2>2. MouseMode \in BOOLEAN
    BY DEF MouseMode
  <2>3. MouseLeftOn(all) <=> mouseModeEnabled
    BY <1>8
  <2>4. CASE mouseModeEnabled = MouseMode
    <3>1. m = <<>>
      BY <1>7, <2>4
    <3>2. MouseLeftOn(next) <=> MouseLeftOn(all)
      BY <1>11, <3>1
    <3>3. mouseModeEnabled' = mouseModeEnabled
      BY <1>1, <2>4
    <3>4. QED BY <2>3, <3>2, <3>3
  <2>5. CASE mouseModeEnabled # MouseMode /\ MouseMode = TRUE
    <3>1. m = <<"on">>
      BY <1>7, <2>5
    <3>2. MouseLeftOn(next)
      BY <1>11, <3>1
    <3>3. QED BY <1>1, <2>5, <3>2
  <2>6. CASE mouseModeEnabled # MouseMode /\ MouseMode = FALSE
    <3>1. m = <<"off">>
      BY <1>7, <2>6
    <3>2. ~MouseLeftOn(next)
      BY <1>11, <3>1
    <3>3. QED BY <1>1, <2>6, <3>2
  <2>7. QED BY <2>2, <2>4, <2>5, <2>6
<1>14. QED BY <1>9, <1>12, <1>13

(* it moves to the client when it reads, and is dropped when the client     *)
(* closes the pipe or the agent ends;                                       *)
LEMMA ReadAccounts ==
  ASSUME TypeOK, NEW p \in OutPipes, Accounted(p), ClientReads(p),
         Lossless(p)' => Lossless(p)
  PROVE  Accounted(p)'
<1> DEFINE g == got[p]
           w == wire[p]
           r == rest[p]
           o == outQueue[p]
           all == Cat(w, r)
           more == Least(Quota + 1, Len(all))
<1>1. /\ got'[p] = Add(g, Head(all)) /\ wire'[p] = Tail(First(all, more))
      /\ rest'[p] = From(all, more) /\ outQueue'[p] = o /\ all # <<>>
      /\ UNCHANGED <<output, scraped, mouseModeEnabled>>
  BY DEF ClientReads, Cat, Add, TypeOK, consoleVars, pollVars
<1>2. /\ InPipe(p) = Row(g, w, r, o)
      /\ InPipe(p)' = Row(got'[p], wire'[p], rest'[p], outQueue'[p])
  BY DEF InPipe
<1>3. /\ g \in Seq(Item) /\ w \in Seq(Item) /\ r \in Seq(Item)
      /\ o \in Seq(Item)
  BY Buffers
<1> HIDE DEF g, w, r, o
<1>4. all \in Seq(Item)
  BY <1>3, Monoid
<1>5. more \in 1..Len(all)
  <2> HIDE DEF all
  <2>1. QED BY <1>1, <1>4, ReadAmount
<1> HIDE DEF more
<1>6. Row(g, w, r, o) = Row(Add(g, Head(all)), Tail(First(all, more)),
                            From(all, more), o)
  BY <1>1, <1>3, <1>5, RowIsRead
<1>7. InPipe(p)' = InPipe(p)
  BY <1>1, <1>2, <1>6
<1>8. QED BY <1>1, <1>7, NothingMoves

LEMMA ClientAccounts ==
  ASSUME TypeOK, TypeOK', NEW p \in OutPipes, Accounted(p), [Next]_vars,
         NEW q \in OutPipes,
         \/ ClientConnects(q) \/ ClientReads(q) \/ ClientReadsEof(q)
         \/ ClientCloses(q)
  PROVE  Accounted(p)'
<1>1. UNCHANGED <<pc, pollVars, outQueue, output, scraped, flushed>>
  BY OutsideTheAgent DEF Outside, history
<1>3. CASE p # q
  <2>1. /\ client'[p] = client[p] /\ wire'[p] = wire[p] /\ rest'[p] = rest[p]
        /\ got'[p] = got[p]
    <3>1. CASE ClientReads(q)
      BY <1>3, <3>1 DEF ClientReads, TypeOK
    <3>2. CASE ClientConnects(q) \/ ClientReadsEof(q) \/ ClientCloses(q)
      BY <1>3, <3>2 DEF ClientConnects, ClientReadsEof, ClientCloses, TypeOK
    <3>3. QED BY <3>1, <3>2
  <2>2. Lossless(p)' => Lossless(p)
    BY <1>1, <2>1 DEF Lossless
  <2>3. InPipe(p)' = InPipe(p)
    BY <1>1, <2>1 DEF InPipe
  <2>4. QED BY <1>1, <2>2, <2>3, NothingMoves DEF pollVars
<1>4. CASE p = q /\ (ClientConnects(p) \/ ClientReadsEof(p))
  <2>1. client[p] # "closed" /\ UNCHANGED <<wire, rest, got>>
    BY <1>4 DEF ClientConnects, ClientReadsEof
  <2>2. Lossless(p)' => Lossless(p)
    BY <1>1, <2>1 DEF Lossless
  <2>3. InPipe(p)' = InPipe(p)
    BY <1>1, <2>1 DEF InPipe
  <2>4. QED BY <1>1, <2>2, <2>3, NothingMoves DEF pollVars
<1>5. CASE p = q /\ ClientReads(p)
  <2>1. client[p] # "closed"
    BY <1>5 DEF ClientReads
  <2>2. Lossless(p)' => Lossless(p)
    BY <1>1, <2>1 DEF Lossless
  <2>3. QED BY <1>5, <2>2, ReadAccounts
<1>6. CASE p = q /\ ClientCloses(p)
  <2>1. /\ client'[p] = "closed" /\ wire'[p] = <<>> /\ rest'[p] = rest[p]
        /\ got'[p] = got[p] /\ outQueue'[p] = outQueue[p]
    BY <1>1, <1>6 DEF ClientCloses, TypeOK
  <2>2. ~Lossless(p)'
    BY <2>1 DEF Lossless
  <2>3. QED BY <1>1, <2>1, <2>2, DroppedItems
<1>7. QED BY <1>3, <1>4, <1>5, <1>6

LEMMA ExitAccounts ==
  ASSUME TypeOK, TypeOK', NEW p \in OutPipes, PipeState(p), Accounted(p),
         AgentExit
  PROVE  Accounted(p)'
<1>1. /\ pc = "exiting" /\ pc' = "exited" /\ rest'[p] = <<>>
      /\ outQueue'[p] = <<>>
      /\ UNCHANGED <<wire, client, got, output, scraped, mouseModeEnabled,
                     flushed>>
  BY DEF AgentExit, pollVars, history
<1>2. CASE Lossless(p)'
  <2>1. Lossless(p) /\ p \in flushed
    BY <1>1, <1>2 DEF Lossless
  <2>2. rest[p] = <<>> /\ outQueue[p] = <<>>
    BY <2>1 DEF PipeState
  <2>3. InPipe(p)' = InPipe(p)
    BY <1>1, <2>2 DEF InPipe
  <2>4. QED BY <1>1, <2>1, <2>3, NothingMoves
<1>3. CASE ~Lossless(p)'
  BY <1>1, <1>3, DroppedItems
<1>4. QED BY <1>2, <1>3

(* and nothing else touches it.                                             *)
LEMMA ChildWritesAccounts ==
  ASSUME TypeOK, NEW p \in OutPipes, Accounted(p), NEW q \in OutPipes,
         ChildWrites(q)
  PROVE  Accounted(p)'
<1>1. /\ UNCHANGED <<pc, got, wire, rest, outQueue, client, scraped,
                     mouseModeEnabled, flushed>>
      /\ output' = [output EXCEPT ![q] = @ + 1]
  BY DEF ChildWrites, loopVars, pollVars, pipeVars, history
<1>2. output[p] \in Nat /\ scraped[p] \in Nat /\ output'[p] >= output[p]
      /\ output'[p] \in Nat
  <2>1. output \in [OutPipes -> Nat] /\ scraped[p] \in Nat
    BY DEF TypeOK
  <2>2. output'[p] = IF p = q THEN output[p] + 1 ELSE output[p]
    BY <1>1, <2>1
  <2>3. output[p] \in Nat
    BY <2>1
  <2>4. QED BY <2>1, <2>2, <2>3
<1>3. InPipe(p)' = InPipe(p) /\ (Lossless(p)' <=> Lossless(p))
  BY <1>1 DEF InPipe, Lossless
<1>4. /\ TextCount(InPipe(p)) <= scraped[p] /\ scraped[p] <= output[p]
      /\ Lossless(p) => TextCount(InPipe(p)) = scraped[p]
      /\ Lossless(p) /\ p = "conout" =>
           (MouseLeftOn(InPipe(p)) <=> mouseModeEnabled)
  BY DEF Accounted
<1>5. scraped'[p] = scraped[p] /\ scraped'[p] <= output'[p]
  BY <1>1, <1>2, <1>4
<1>6. QED BY <1>1, <1>3, <1>4, <1>5 DEF Accounted

LEMMA AccountedIsKept ==
  ASSUME TypeOK, TypeOK', NEW p \in OutPipes, PipeState(p), Accounted(p),
         [Next]_vars
  PROVE  Accounted(p)'
<1> DEFINE Still == UNCHANGED <<pipeVars, output, scraped, mouseModeEnabled,
                                flushed>>
<1>1. pc = "exited" => pc' = "exited"
  BY ControlIsClosed
<1>2. Still => Accounted(p)'
  <2> SUFFICES ASSUME Still PROVE Accounted(p)'
    OBVIOUS
  <2>1. InPipe(p)' = InPipe(p)
    BY DEF InPipe, pipeVars
  <2>2. Lossless(p)' => Lossless(p)
    BY <1>1 DEF Lossless, pipeVars
  <2>3. QED BY <2>1, <2>2, NothingMoves
<1> USE DEF pollVars, consoleVars, history
<1>4. CASE ServiceControl \/ PollControlPipe
  BY <1>2, <1>4 DEF ServiceControl, PollControlPipe
<1>5. CASE StartProcess \/ StartProcessAsserts
  BY <1>2, <1>5 DEF StartProcess, StartProcessAsserts
<1>6. CASE SetSize
  BY <1>6, SetSizeAccounts
<1>7. ASSUME NEW q \in OutPipes, ServiceOutput(q) PROVE Accounted(p)'
  BY <1>7, ServiceAccounts
<1>8. CASE OnOutputIo
  <2>1. /\ pc # "exited"
        /\ UNCHANGED <<outQueue, rest, wire, client, got, output, scraped,
                       mouseModeEnabled>>
    BY <1>8 DEF OnOutputIo
  <2>2. InPipe(p)' = InPipe(p)
    BY <2>1 DEF InPipe
  <2>3. Lossless(p)' => Lossless(p)
    BY <2>1 DEF Lossless
  <2>4. QED BY <2>1, <2>2, <2>3, NothingMoves
<1>9. CASE ScrapeAndClose
  <2>1. pc # "exited" /\ client' = client
    BY <1>9 DEF ScrapeAndClose
  <2>2. Lossless(p)' => Lossless(p)
    BY <2>1 DEF Lossless
  <2>3. QED BY <1>9, <2>2, PollAccounts
<1>10. CASE UpdateInputFlags \/ CheckChildExit \/ RoundEnd \/ WakeUp
  BY <1>2, <1>10 DEF UpdateInputFlags, CheckChildExit, RoundEnd, WakeUp
<1>11. CASE AgentExit
  BY <1>11, ExitAccounts
<1>12. CASE Tick \/ ClientFrees
  BY <1>2, <1>12 DEF Tick, ClientFrees
<1>13. CASE ClientSpawns \/ ClientResizes
  BY <1>2, <1>13 DEF ClientSpawns, ClientResizes, Send
<1>14. ASSUME NEW q \in OutPipes,
              \/ ClientConnects(q) \/ ClientReads(q) \/ ClientReadsEof(q)
              \/ ClientCloses(q)
       PROVE  Accounted(p)'
  BY <1>14, ClientAccounts
<1>15. CASE ChildConsole \/ ChildExits
  BY <1>2, <1>15 DEF ChildConsole, ChildExits
<1>16. ASSUME NEW q \in OutPipes, ChildWrites(q) PROVE Accounted(p)'
  BY <1>16, ChildWritesAccounts
<1>17. CASE UNCHANGED vars
  BY <1>2, <1>17 DEF vars
<1>18. QED
  BY <1>4, <1>5, <1>6, <1>7, <1>8, <1>9, <1>10, <1>11, <1>12, <1>13, <1>14,
     <1>15, <1>16, <1>17, NextCases
  DEF Apart, Outside

-----------------------------------------------------------------------------
(* The inductive invariant.                                                 *)
LEMMA InvariantIsKept == IInv /\ [Next]_vars => IInv'
<1> SUFFICES ASSUME IInv, [Next]_vars PROVE IInv'
  OBVIOUS
<1>1. /\ TypeOK /\ ChildKnown /\ LastScrape /\ Ending
      /\ \A p \in OutPipes : PipeState(p) /\ Accounted(p)
  BY DEF IInv
<1>2. TypeOK'
  <2>1. Bounded
    BY <1>1 DEF Bounded, Accounted
  <2>2. QED BY <1>1, <2>1, TypeIsKept
<1>3. ChildKnown' /\ LastScrape' /\ Ending'
  BY <1>1, ChildKnownIsKept, LastScrapeIsKept, EndingIsKept
<1>4. ASSUME NEW p \in OutPipes PROVE PipeState(p)' /\ Accounted(p)'
  BY <1>1, <1>2, PipeStateIsKept, AccountedIsKept
<1>5. QED BY <1>2, <1>3, <1>4 DEF IInv

(* Every reachable state satisfies it: shutting down begins with the        *)
(* child's exit and one more scrape, pipes are closed empty, and what the   *)
(* scrapes have seen is accounted for.                                      *)
THEOREM SessionInvariance == Spec => []IInv
<1>1. Init => IInv
  BY InitHasInvariant
<1>2. QED BY <1>1, InvariantIsKept, PTL DEF Spec

(* Every variable keeps to its type.                                        *)
THEOREM TypeCorrect == Spec => []TypeOK
<1>1. IInv => TypeOK
  BY DEF IInv
<1>2. QED BY <1>1, SessionInvariance, PTL

(* The comment in Agent::onPollTimeout: mouse mode is off before CONOUT is  *)
(* closed, so that a terminal that is read to its end is not left in it.    *)
THEOREM MouseIsOffAtEof == Spec => []MouseOffAtEof
<1>1. IInv => MouseOffAtEof
  <2> SUFFICES ASSUME IInv, client["conout"] = "eof", "conout" \in flushed
               PROVE  ~MouseLeftOn(got["conout"])
    BY DEF MouseOffAtEof
  <2> DEFINE p == "conout"
  <2>1. p \in OutPipes
    BY DEF OutPipes
  <2>2. TypeOK /\ PipeState(p) /\ Accounted(p)
    BY <2>1 DEF IInv
  <2>3. /\ wire[p] = <<>> /\ rest[p] = <<>> /\ outQueue[p] = <<>>
        /\ ~mouseModeEnabled
    BY <2>2 DEF PipeState, NothingNew
  <2>4. ~MouseLeftOn(InPipe(p))
    BY <2>2, <2>3 DEF Accounted, Lossless
  <2>5. InPipe(p) = got[p]
    <3>1. got[p] \in Seq(Item)
      BY <2>1, <2>2 DEF TypeOK
    <3>2. Row(got[p], <<>>, <<>>, <<>>) = got[p]
      BY <3>1, OnlyFirst
    <3>3. QED BY <2>3, <3>2 DEF InPipe
  <2>6. QED BY <2>4, <2>5
<1>2. QED BY <1>1, SessionInvariance, PTL

(* EXIT_AFTER_SHUTDOWN: an agent that ends by itself has written all the    *)
(* child has shown.                                                         *)
THEOREM AgentExitsFlushed == Spec => []ExitsFlushed
<1>1. IInv => ExitsFlushed
  <2> SUFFICES ASSUME IInv, pc = "exited", Undisturbed, NEW p \in OutPipes,
                      client[p] # "closed"
               PROVE  TextCount(got[p] \o wire[p]) = output[p]
    BY DEF ExitsFlushed
  <2>1. TypeOK /\ Ending /\ PipeState(p) /\ Accounted(p)
    BY DEF IInv
  <2>2. conn[p] = "closed"
    BY <2>1 DEF Ending
  <2>3. p \in flushed
    BY <2>1, <2>2 DEF PipeState
  <2>4. rest[p] = <<>> /\ outQueue[p] = <<>> /\ scraped[p] = output[p]
    BY <2>1, <2>3 DEF PipeState, NothingNew
  <2>5. TextCount(InPipe(p)) = output[p]
    BY <2>1, <2>3, <2>4 DEF Accounted, Lossless
  <2>6. InPipe(p) = got[p] \o wire[p]
    <3>1. got[p] \in Seq(Item) /\ wire[p] \in Seq(Item)
      BY <2>1 DEF TypeOK
    <3>2. QED BY <2>4, <3>1, FirstTwo DEF InPipe, Cat
  <2>7. QED BY <2>5, <2>6
<1>2. QED BY <1>1, SessionInvariance, PTL

-----------------------------------------------------------------------------
(* Each output pipe implements the abstract stream.  Runs of text, as the   *)
(* refinement mapping writes them,                                          *)
Run(n) == [i \in 1..n |-> "text"]

LEMMA Runs ==
  ASSUME NEW n \in Nat
  PROVE  /\ Run(n) \in Seq({"text"}) /\ Len(Run(n)) = n
         /\ \A i \in 1..n : Run(n)[i] = "text"
BY DEF Run

LEMMA LongerRun ==
  ASSUME NEW n \in Nat
  PROVE  Run(n + 1) = Append(Run(n), "text")
<1>1. /\ Run(n) \in Seq({"text"}) /\ Len(Run(n)) = n
      /\ \A i \in 1..n : Run(n)[i] = "text"
  BY Runs
<1>2. /\ Run(n + 1) \in Seq({"text"}) /\ Len(Run(n + 1)) = n + 1
      /\ \A i \in 1..(n + 1) : Run(n + 1)[i] = "text"
  <2>1. n + 1 \in Nat
    OBVIOUS
  <2>2. QED BY <2>1, Runs
<1>3. /\ Append(Run(n), "text") \in Seq({"text"})
      /\ Len(Append(Run(n), "text")) = n + 1
      /\ \A i \in 1..(n + 1) : Append(Run(n), "text")[i] = "text"
  BY <1>1
<1>4. QED BY <1>2, <1>3, SeqEqual

LEMMA ShorterRun ==
  ASSUME NEW n \in Nat, NEW m \in 0..n
  PROVE  Run(m) = SubSeq(Run(n), 1, m)
<1>1. /\ Run(n) \in Seq({"text"}) /\ Len(Run(n)) = n
      /\ \A i \in 1..n : Run(n)[i] = "text"
  BY Runs
<1>2. /\ Run(m) \in Seq({"text"}) /\ Len(Run(m)) = m
      /\ \A i \in 1..m : Run(m)[i] = "text"
  BY Runs
<1>3. /\ SubSeq(Run(n), 1, m) \in Seq({"text"})
      /\ Len(SubSeq(Run(n), 1, m)) = m
      /\ \A i \in 1..m : SubSeq(Run(n), 1, m)[i] = "text"
  <2>1. \A i \in 1..m : Run(n)[i] \in {"text"}
    BY <1>1
  <2>2. /\ SubSeq(Run(n), 1, m) \in Seq({"text"})
        /\ Len(SubSeq(Run(n), 1, m)) = IF 1 <= m THEN m - 1 + 1 ELSE 0
        /\ \A i \in 1..(m - 1 + 1) : SubSeq(Run(n), 1, m)[i] = Run(n)[1 + i - 1]
    BY <1>1, <2>1, SubSeqProperties
  <2>3. \A i \in 1..m : i \in 1..(m - 1 + 1) /\ 1 + i - 1 \in 1..n
                        /\ 1 + i - 1 = i
    OBVIOUS
  <2>4. QED BY <1>1, <2>2, <2>3
<1>4. QED BY <1>2, <1>3, SeqEqual

(* and the steps of ByteStream for the pipe p.                              *)
Received(p) == Texts(got[p])

StreamStays(p) == UNCHANGED <<Shown(p), Received(p), Status(p)>>

StreamSends(p) ==
  /\ Status(p) = "open"
  /\ Shown(p)' = Append(Shown(p), "text")
  /\ UNCHANGED <<Received(p), Status(p)>>

StreamReceives(p) ==
  /\ Status(p) # "eof"
  /\ \E n \in (Len(Received(p)) + 1)..Len(Shown(p)) :
       Received(p)' = SubSeq(Shown(p), 1, n)
  /\ UNCHANGED <<Shown(p), Status(p)>>

StreamEnds(p) ==
  /\ Status(p) = "open" /\ Status(p)' = "ended"
  /\ UNCHANGED <<Shown(p), Received(p)>>

StreamSeesEof(p) ==
  /\ Status(p) = "ended" /\ Received(p) = Shown(p) /\ Status(p)' = "eof"
  /\ UNCHANGED <<Shown(p), Received(p)>>

StreamBreaks(p) ==
  /\ Status(p) \in {"open", "ended", "broken"} /\ Status(p)' = "broken"
  /\ Shown(p)' \in Seq({"text"})
  /\ UNCHANGED Received(p)

StreamStep(p) ==
  \/ StreamStays(p) \/ StreamSends(p) \/ StreamReceives(p)
  \/ StreamEnds(p) \/ StreamSeesEof(p) \/ StreamBreaks(p)

(* The client has no more than the child has shown.                         *)
LEMMA ReceivedIsShown ==
  ASSUME IInv, NEW p \in OutPipes
  PROVE  /\ TextCount(got[p]) \in Nat /\ output[p] \in Nat
         /\ TextCount(got[p]) <= output[p]
         /\ Received(p) = Run(TextCount(got[p])) /\ Shown(p) = Run(output[p])
<1>1. TypeOK /\ Accounted(p)
  BY DEF IInv
<1>2. TextCount(InPipe(p)) <= scraped[p] /\ scraped[p] <= output[p]
  BY <1>1 DEF Accounted
<1>3. /\ TextCount(InPipe(p)) = TextCount(got[p]) + TextCount(wire[p])
                                + TextCount(rest[p]) + TextCount(outQueue[p])
      /\ {TextCount(got[p]), TextCount(wire[p]), TextCount(rest[p]),
          TextCount(outQueue[p])} \subseteq Nat
      /\ output[p] \in Nat /\ scraped[p] \in Nat
  BY <1>1, Buffers
<1>4. TextCount(got[p]) <= output[p]
  BY <1>2, <1>3
<1>5. QED BY <1>3, <1>4 DEF Received, Texts, Shown, Run

(* A pipe whose state, as the stream has it, a step leaves alone.           *)
LEMMA StatusStays ==
  ASSUME NEW p \in OutPipes, UNCHANGED <<got, client, output>>,
         conn'[p] = "closed" <=> conn[p] = "closed",
         p \in flushed' <=> p \in flushed,
         child' = "exited" /\ autoShutdown' <=> child = "exited" /\ autoShutdown
  PROVE  StreamStays(p)
<1>1. UNCHANGED <<Shown(p), Received(p)>>
  BY DEF Shown, Received
<1>2. UNCHANGED Status(p)
  BY DEF Status
<1>3. QED BY <1>1, <1>2 DEF StreamStays

(* The agent's steps,                                                       *)
LEMMA LoopStays ==
  ASSUME IInv, NEW p \in OutPipes, Loop, ~AgentExit
  PROVE  StreamStays(p)
<1>1. TypeOK /\ ChildKnown /\ PipeState(p)
  BY DEF IInv
<1> USE DEF agentVars, pipeVars, consoleVars, history
<1>2. CASE ServiceControl \/ PollControlPipe
  BY <1>2, StatusStays DEF ServiceControl, PollControlPipe
<1>3. CASE StartProcess
  <2>1. child = "none"
    BY <1>1, <1>3 DEF StartProcess, ChildKnown
  <2>2. /\ UNCHANGED <<got, client, output, conn, flushed>>
        /\ child' # "exited"
    BY <1>3, <2>1 DEF StartProcess
  <2>3. QED BY <2>1, <2>2, StatusStays
<1>4. CASE StartProcessAsserts \/ SetSize
  BY <1>4, StatusStays DEF StartProcessAsserts, SetSize
<1>5. ASSUME NEW q \in OutPipes, ServiceOutput(q) PROVE StreamStays(p)
  <2>1. /\ UNCHANGED <<got, client, output, child, autoShutdown, flushed>>
    BY <1>1, <1>5, ServiceCases
  <2>2. CASE conn'[p] = "closed" <=> conn[p] = "closed"
    BY <2>1, <2>2, StatusStays
  <2>3. CASE ~(conn'[p] = "closed" <=> conn[p] = "closed")
    <3>1. p = q
      BY <1>1, <1>5, <2>3, OtherPipe
    <3>2. CASE OutputBreaks(p)
      <4>1. client[p] = "closed"
        BY <3>2 DEF OutputBreaks, OutputFails
      <4>2. QED BY <2>1, <4>1 DEF StreamStays, Shown, Received, Status
    <3>3. CASE OutputHandsOver(p) /\ conn[p] # "closed"
      <4>1. conn'[p] = "connected"
        BY <1>1, <3>3 DEF OutputHandsOver, TypeOK
      <4>2. QED BY <2>3, <3>3, <4>1
    <3>4. QED BY <1>1, <1>5, <2>3, <3>1, <3>2, <3>3, ServiceCases
  <2>4. QED BY <2>2, <2>3
<1>6. ASSUME NEW queue, autoClosePipes(queue, closingOutputPipes),
             UNCHANGED <<got, client, output, child, autoShutdown>>
      PROVE  StreamStays(p)
  <2> DEFINE closed == IF closingOutputPipes THEN Closable(queue) ELSE {}
  <2>1. /\ conn'[p] = IF p \in closed THEN "closed" ELSE conn[p]
        /\ flushed' = flushed \cup closed
    BY <1>6 DEF autoClosePipes
  <2>2. p \in closed => conn[p] = "connected"
    BY DEF Closable
  <2> HIDE DEF closed
  <2>3. CASE p \in closed
    <3>1. conn'[p] = "closed" /\ p \in flushed' /\ conn[p] # "closed"
      BY <2>1, <2>2, <2>3
    <3>2. UNCHANGED Status(p)
      BY <1>6, <3>1 DEF Status
    <3>3. QED BY <1>6, <3>2 DEF StreamStays, Shown, Received
  <2>4. CASE p \notin closed
    BY <1>6, <2>1, <2>4, StatusStays
  <2>5. QED BY <2>3, <2>4
<1>7. CASE OnOutputIo
  BY <1>6, <1>7 DEF OnOutputIo
<1>8. CASE ScrapeAndClose
  BY <1>6, <1>8 DEF ScrapeAndClose
<1>9. CASE UpdateInputFlags \/ CheckChildExit \/ RoundEnd \/ WakeUp
  BY <1>9, StatusStays DEF UpdateInputFlags, CheckChildExit, RoundEnd, WakeUp
<1>10. QED BY <1>2, <1>3, <1>4, <1>5, <1>7, <1>8, <1>9 DEF Loop

LEMMA ExitStreams ==
  ASSUME IInv, NEW p \in OutPipes, AgentExit
  PROVE  StreamStep(p)
<1>1. PipeState(p) /\ ChildKnown
  BY DEF IInv
<1>2. /\ conn'[p] = "closed" /\ child' = IF child = "running" THEN "killed"
                                                              ELSE child
      /\ UNCHANGED <<got, client, output, autoShutdown, flushed>>
      /\ UNCHANGED <<Shown(p), Received(p)>>
  BY DEF AgentExit, agentVars, history, Shown, Received
<1>3. Shown(p) \in Seq({"text"})
  BY ReceivedIsShown, Runs
<1>4. CASE p \in flushed
  <2>1. conn[p] = "closed" /\ child = "exited"
    BY <1>1, <1>4 DEF PipeState, ChildKnown
  <2>2. UNCHANGED Status(p)
    BY <1>2, <1>4, <2>1 DEF Status
  <2>3. QED BY <1>2, <2>2 DEF StreamStep, StreamStays
<1>5. CASE p \notin flushed
  <2>1. Status(p)' = "broken"
    BY <1>2, <1>5 DEF Status
  <2>2. Status(p) \in {"open", "ended", "broken"}
    BY <1>1, <1>5 DEF Status, PipeState
  <2>3. QED BY <1>2, <1>3, <2>1, <2>2 DEF StreamStep, StreamBreaks
<1>6. QED BY <1>4, <1>5

(* the child's,                                                             *)
LEMMA ChildStreams ==
  ASSUME IInv, NEW p \in OutPipes,
         ChildExits \/ ChildConsole \/ \E q \in OutPipes : ChildWrites(q)
  PROVE  StreamStep(p)
<1>1. PipeState(p) /\ ChildKnown /\ TypeOK
  BY DEF IInv
<1>2. /\ child = "running" /\ UNCHANGED <<got, client, conn, autoShutdown, flushed>>
      /\ UNCHANGED Received(p)
  BY DEF ChildExits, ChildConsole, ChildWrites, agentVars, pipeVars, history,
         Received
<1>3. Status(p) \in {"open", "broken"}
  BY <1>1, <1>2 DEF Status, PipeState, ChildKnown
<1>4. CASE ChildConsole
  <2>1. UNCHANGED <<child, output>>
    BY <1>4 DEF ChildConsole
  <2>2. QED BY <1>2, <2>1, StatusStays DEF StreamStep
<1>5. CASE ChildExits
  <2>1. child' = "exited" /\ UNCHANGED output
    BY <1>5 DEF ChildExits
  <2>2. UNCHANGED Shown(p)
    BY <2>1 DEF Shown
  <2>3. CASE Status(p)' = Status(p)
    BY <1>2, <2>2, <2>3 DEF StreamStep, StreamStays
  <2>4. CASE Status(p)' # Status(p)
    <3>1. Status(p) = "open" /\ Status(p)' = "ended"
      BY <1>2, <1>3, <2>1, <2>4 DEF Status
    <3>2. QED BY <1>2, <2>2, <3>1 DEF StreamStep, StreamEnds
  <2>5. QED BY <2>3, <2>4
<1>6. ASSUME NEW q \in OutPipes, ChildWrites(q) PROVE StreamStep(p)
  <2>1. UNCHANGED child /\ output' = [output EXCEPT ![q] = @ + 1]
    BY <1>6 DEF ChildWrites
  <2>2. UNCHANGED Status(p)
    BY <1>2, <2>1 DEF Status
  <2>3. CASE p # q
    <3>1. output'[p] = output[p]
      BY <1>1, <2>1, <2>3 DEF TypeOK
    <3>2. UNCHANGED Shown(p)
      BY <3>1 DEF Shown
    <3>3. QED BY <1>2, <2>2, <3>2 DEF StreamStep, StreamStays
  <2>4. CASE p = q
    <3>1. output'[p] = output[p] + 1 /\ output[p] \in Nat
      BY <1>1, <2>1, <2>4 DEF TypeOK
    <3>2. Shown(p) = Run(output[p]) /\ Shown(p)' = Run(output'[p])
      BY DEF Shown, Run
    <3>3. Run(output[p] + 1) = Append(Run(output[p]), "text")
      BY <3>1, LongerRun
    <3>4. Shown(p)' = Append(Shown(p), "text")
      BY <3>1, <3>2, <3>3
    <3>5. Append(Shown(p), "text") \in Seq({"text"})
      <4>1. Run(output[p]) \in Seq({"text"})
        BY <3>1, Runs
      <4>2. QED BY <3>2, <4>1
    <3>6. CASE Status(p) = "open"
      BY <1>2, <2>2, <3>4, <3>6 DEF StreamStep, StreamSends
    <3>7. CASE Status(p) = "broken"
      BY <1>2, <2>2, <3>4, <3>5, <3>7 DEF StreamStep, StreamBreaks
    <3>8. QED BY <1>3, <3>6, <3>7
  <2>5. QED BY <2>3, <2>4
<1>7. QED BY <1>4, <1>5, <1>6

(* and the client's: what it reads next is the stream's if it is text.      *)
LEMMA CountOfAdd ==
  ASSUME NEW s \in Seq(Item), NEW e \in Item
  PROVE  /\ TextCount(s) \in Nat
         /\ TextCount(Append(s, e))
              = IF e = "text" THEN TextCount(s) + 1 ELSE TextCount(s)
<1> DEFINE t == <<e>>
<1>1. t \in Seq(Item) /\ Len(t) = 1 /\ t[1] = e
  OBVIOUS
<1>2. Cat(s, t) = Append(s, e)
  <2>1. s \o <<e>> = Append(s, e)
    BY AppendProperties, ConcatProperties, SeqEqual
  <2>2. QED BY <2>1 DEF Cat
<1>3. TextCount(t) = IF e = "text" THEN 1 ELSE 0
  <2>1. CASE e = "text"
    <3>1. {i \in 1..Len(t) : t[i] = "text"} = {1}
      BY <1>1, <2>1
    <3>2. TextCount(t) = Cardinality({i \in 1..Len(t) : t[i] = "text"})
      BY <1>1, CountIsNat
    <3>3. QED BY <2>1, <3>1, <3>2, FS_Singleton
  <2>2. CASE e # "text"
    <3>1. \A i \in 1..Len(t) : t[i] # "text"
      BY <1>1, <2>2
    <3>2. QED BY <1>1, <2>2, <3>1, NoText
  <2>3. QED BY <2>1, <2>2
<1> HIDE DEF t
<1>4. /\ TextCount(Cat(s, t)) = TextCount(s) + TextCount(t)
      /\ TextCount(s) \in Nat
  BY <1>1, CountOfCat
<1>5. QED BY <1>2, <1>3, <1>4

LEMMA ReadStreams ==
  ASSUME IInv, IInv', NEW p \in OutPipes, ClientReads(p)
  PROVE  StreamStep(p)
<1> DEFINE h == Head(wire[p] \o rest[p])
           n == TextCount(got[p])
           m == TextCount(got'[p])
<1>1. /\ client[p] = "open" /\ got'[p] = Append(got[p], h)
      /\ UNCHANGED <<client, conn, output, flushed, child, autoShutdown>>
  BY DEF ClientReads, IInv, TypeOK, agentVars, consoleVars, history
<1>2. got[p] \in Seq(Item) /\ h \in Item
  <2>1. /\ got[p] \in Seq(Item) /\ wire[p] \in Seq(Item)
        /\ rest[p] \in Seq(Item)
    BY DEF IInv, TypeOK
  <2>2. wire[p] \o rest[p] \in Seq(Item) /\ wire[p] \o rest[p] # <<>>
    BY <2>1 DEF ClientReads
  <2>3. QED BY <2>1, <2>2, HeadTailProperties
<1> HIDE DEF h
<1>3. n \in Nat /\ m = IF h = "text" THEN n + 1 ELSE n
  BY <1>1, <1>2, CountOfAdd
<1>4. /\ n <= output[p] /\ output[p] \in Nat
      /\ Received(p) = Run(n) /\ Shown(p) = Run(output[p])
  BY ReceivedIsShown
<1>5. m <= output[p]
  <2>1. TypeOK' /\ Accounted(p)'
    BY DEF IInv
  <2>2. TextCount(InPipe(p)') <= scraped'[p] /\ scraped'[p] <= output'[p]
    BY <2>1 DEF Accounted
  <2>3. /\ scraped'[p] \in Nat /\ output'[p] \in Nat
        /\ got'[p] \in Seq(Item) /\ wire'[p] \in Seq(Item)
        /\ rest'[p] \in Seq(Item) /\ outQueue'[p] \in Seq(Item)
    BY <2>1 DEF TypeOK
  <2>4. TextCount(InPipe(p)')
          = TextCount(got'[p]) + TextCount(wire'[p])
            + TextCount(rest'[p]) + TextCount(outQueue'[p])
    BY <2>1, BuffersNext
  <2>5. /\ TextCount(got'[p]) \in Nat /\ TextCount(wire'[p]) \in Nat
        /\ TextCount(rest'[p]) \in Nat /\ TextCount(outQueue'[p]) \in Nat
    BY <2>3, CountIsNat
  <2>6. TextCount(got'[p]) <= output'[p]
    BY <2>2, <2>3, <2>4, <2>5
  <2>7. QED BY <1>1, <2>6
<1>6. Received(p)' = Run(m)
  BY DEF Received, Texts, Run
<1>7. UNCHANGED Shown(p) /\ UNCHANGED Status(p)
  BY <1>1 DEF Shown, Status
<1>8. Status(p) # "eof"
  BY <1>1 DEF Status
<1> HIDE DEF n, m
<1>9. CASE h = "text"
  <2>1. m \in 0..output[p] /\ m = n + 1
    BY <1>3, <1>4, <1>5, <1>9
  <2>2. Run(m) = SubSeq(Run(output[p]), 1, m)
    BY <1>4, <2>1, ShorterRun
  <2>3. Len(Received(p)) = n /\ Len(Shown(p)) = output[p]
    BY <1>3, <1>4, Runs
  <2>4. m \in (Len(Received(p)) + 1)..Len(Shown(p))
    BY <1>3, <1>4, <2>1, <2>3
  <2>5. Received(p)' = SubSeq(Shown(p), 1, m)
    BY <1>4, <1>6, <2>2
  <2>6. QED BY <1>7, <1>8, <2>4, <2>5 DEF StreamStep, StreamReceives
<1>10. CASE h # "text"
  BY <1>3, <1>4, <1>6, <1>7, <1>10 DEF StreamStep, StreamStays
<1>11. QED BY <1>9, <1>10

LEMMA EofStreams ==
  ASSUME IInv, NEW p \in OutPipes, ClientReadsEof(p)
  PROVE  StreamStep(p)
<1>1. TypeOK /\ ChildKnown /\ PipeState(p) /\ Accounted(p)
  BY DEF IInv
<1>2. /\ client[p] = "open" /\ client'[p] = "eof" /\ conn[p] = "closed"
      /\ wire[p] = <<>>
      /\ UNCHANGED <<got, conn, output, flushed, child, autoShutdown>>
      /\ UNCHANGED <<Shown(p), Received(p)>>
  BY <1>1 DEF ClientReadsEof, TypeOK, agentVars, consoleVars, history, Shown,
     Received
<1>3. CASE p \notin flushed
  <2>1. UNCHANGED Status(p)
    BY <1>2, <1>3 DEF Status
  <2>2. QED BY <1>2, <2>1 DEF StreamStep, StreamStays
<1>4. CASE p \in flushed
  <2>1. /\ outQueue[p] = <<>> /\ rest[p] = <<>> /\ scraped = output
        /\ child = "exited" /\ autoShutdown
    BY <1>1, <1>2, <1>4 DEF PipeState, NothingNew, ChildKnown
  <2>2. Status(p) = "ended" /\ Status(p)' = "eof"
    BY <1>2, <1>4, <2>1 DEF Status
  <2>3. TextCount(got[p]) = output[p]
    <3>1. TextCount(InPipe(p)) = output[p]
      BY <1>1, <1>2, <1>4, <2>1 DEF Accounted, Lossless
    <3>2. InPipe(p) = got[p]
      <4>1. got[p] \in Seq(Item)
        BY <1>1 DEF TypeOK
      <4>2. QED BY <1>2, <2>1, <4>1, OnlyFirst DEF InPipe
    <3>3. QED BY <3>1, <3>2
  <2>4. Received(p) = Shown(p)
    BY <2>3, ReceivedIsShown
  <2>5. QED BY <1>2, <2>2, <2>4 DEF StreamStep, StreamSeesEof
<1>5. QED BY <1>3, <1>4

LEMMA ClientStreams ==
  ASSUME IInv, IInv', NEW p \in OutPipes, NEW q \in OutPipes,
         \/ ClientConnects(q) \/ ClientReads(q) \/ ClientReadsEof(q)
         \/ ClientCloses(q)
  PROVE  StreamStep(p)
<1>1. TypeOK /\ PipeState(p)
  BY DEF IInv
<1>2. UNCHANGED <<conn, output, flushed, child, autoShutdown>>
  BY DEF ClientConnects, ClientReads, ClientReadsEof, ClientCloses, agentVars,
     consoleVars, history
<1>3. CASE p # q
  <2>1. client'[p] = client[p] /\ got'[p] = got[p]
    BY <1>1, <1>3
    DEF ClientConnects, ClientReads, ClientReadsEof, ClientCloses, TypeOK
  <2>2. UNCHANGED <<Shown(p), Received(p), Status(p)>>
    BY <1>2, <2>1 DEF Shown, Received, Status
  <2>3. QED BY <2>2 DEF StreamStep, StreamStays
<1>4. CASE p = q /\ ClientConnects(p)
  <2>1. client[p] = "none" /\ client'[p] = "open" /\ UNCHANGED got
    BY <1>1, <1>4 DEF ClientConnects, TypeOK
  <2>2. UNCHANGED <<Shown(p), Received(p), Status(p)>>
    BY <1>2, <2>1 DEF Shown, Received, Status
  <2>3. QED BY <2>2 DEF StreamStep, StreamStays
<1>5. CASE p = q /\ ClientCloses(p)
  <2>1. client[p] = "open" /\ client'[p] = "closed" /\ UNCHANGED got
    BY <1>1, <1>5 DEF ClientCloses, TypeOK
  <2>2. UNCHANGED <<Shown(p), Received(p)>> /\ Status(p)' = "broken"
    BY <1>2, <2>1 DEF Shown, Received, Status
  <2>3. Status(p) \in {"open", "ended", "broken"}
    BY <2>1 DEF Status
  <2>4. Shown(p) \in Seq({"text"})
    BY ReceivedIsShown, Runs
  <2>5. QED BY <2>2, <2>3, <2>4 DEF StreamStep, StreamBreaks
<1>6. QED BY <1>3, <1>4, <1>5, ReadStreams, EofStreams

LEMMA EveryStepStreams ==
  ASSUME IInv, IInv', [Next]_vars, NEW p \in OutPipes
  PROVE  StreamStep(p)
<1>1. CASE UNCHANGED vars
  <2>1. UNCHANGED <<got, client, output, conn, flushed, child, autoShutdown>>
    BY <1>1 DEF vars, pipeVars, consoleVars, agentVars, history
  <2>2. QED BY <2>1, StatusStays DEF StreamStep
<1>2. CASE Loop
  BY <1>2, LoopStays, ExitStreams DEF StreamStep
<1>3. CASE Tick \/ ClientSpawns \/ ClientResizes \/ ClientFrees
  <2>1. UNCHANGED <<got, client, output, conn, flushed, child, autoShutdown>>
    BY <1>3 DEF Tick, ClientSpawns, ClientResizes, ClientFrees, Send, pipeVars,
       consoleVars, agentVars, history
  <2>2. QED BY <2>1, StatusStays DEF StreamStep
<1>4. CASE ChildExits \/ ChildConsole \/ \E q \in OutPipes : ChildWrites(q)
  BY <1>4, ChildStreams
<1>5. CASE \E q \in OutPipes : \/ ClientConnects(q) \/ ClientReads(q)
                               \/ ClientReadsEof(q) \/ ClientCloses(q)
  BY <1>5, ClientStreams
<1>6. QED
  BY <1>1, <1>2, <1>3, <1>4, <1>5 DEF Next, Environment, ClientActs

(* Nothing is shown and nothing received before the child is there.         *)
LEMMA StreamsBegin ==
  ASSUME Init, NEW p \in OutPipes
  PROVE  /\ Shown(p) \in Seq({"text"}) /\ Received(p) = <<>>
         /\ Status(p) = "open"
<1>1. /\ got[p] = <<>> /\ output[p] = 0 /\ client[p] = "none"
      /\ conn[p] = "connecting" /\ child = "none"
  BY DEF Init
<1>2. TextCount(got[p]) = 0
  <2> DEFINE s == got[p]
  <2>1. s \in Seq(Item) /\ Len(s) = 0
    BY <1>1
  <2> HIDE DEF s
  <2>2. QED BY <2>1, NoText DEF s
<1>3. Run(0) \in Seq({"text"}) /\ Run(0) = <<>>
  BY Runs, EmptySeq
<1>4. Shown(p) = Run(0) /\ Received(p) = Run(0)
  BY <1>1, <1>2 DEF Shown, Received, Texts, Run
<1>5. QED BY <1>1, <1>3, <1>4 DEF Status

(* From the child to the client, each output pipe is a byte stream: text    *)
(* arrives in order, and its end only after the child's exit and after      *)
(* everything the child has shown (onPollTimeout and                        *)
(* autoClosePipesForShutdown).                                              *)
THEOREM OutputIsAStream == Spec => ConoutStream!Spec
<1>1. Init => ConoutStream!Init
  <2> SUFFICES ASSUME Init PROVE ConoutStream!Init
    OBVIOUS
  <2>1. "conout" \in OutPipes
    BY DEF OutPipes
  <2>2. /\ Shown("conout") \in Seq({"text"}) /\ Received("conout") = <<>>
        /\ Status("conout") = "open"
    BY <2>1, StreamsBegin
  <2>3. QED BY <2>2 DEF ConoutStream!Init, Received
<1>2. IInv /\ IInv' /\ [Next]_vars => [ConoutStream!Next]_ConoutStream!vars
  <2> SUFFICES ASSUME IInv, IInv', [Next]_vars
               PROVE  ConoutStream!Next \/ UNCHANGED ConoutStream!vars
    OBVIOUS
  <2>1. StreamStep("conout")
    BY EveryStepStreams DEF OutPipes
  <2>2. QED
    BY <2>1
    DEF StreamStep, StreamStays, StreamSends, StreamReceives, StreamEnds,
        StreamSeesEof, StreamBreaks, Received, ConoutStream!Next,
        ConoutStream!Send, ConoutStream!Receive, ConoutStream!End,
        ConoutStream!SeeEof, ConoutStream!Break, ConoutStream!vars
<1>3. QED BY <1>1, <1>2, SessionInvariance, PTL DEF Spec, ConoutStream!Spec

(* With CONERR there are two of them (the abstract behaviour that the runs  *)
(* check; without the flag, the pipe does not exist).                       *)
THEOREM OutputsAreStreams == UseConerr => (Spec => OutputsAreByteStreams)
<1> SUFFICES ASSUME UseConerr PROVE Spec => OutputsAreByteStreams
  OBVIOUS
<1>1. "conerr" \in OutPipes
  BY DEF OutPipes
<1>2. Init => ConerrStream!Init
  <2> SUFFICES ASSUME Init PROVE ConerrStream!Init
    OBVIOUS
  <2>1. /\ Shown("conerr") \in Seq({"text"}) /\ Received("conerr") = <<>>
        /\ Status("conerr") = "open"
    BY <1>1, StreamsBegin
  <2>2. QED BY <2>1 DEF ConerrStream!Init, Received
<1>3. IInv /\ IInv' /\ [Next]_vars => [ConerrStream!Next]_ConerrStream!vars
  <2> SUFFICES ASSUME IInv, IInv', [Next]_vars
               PROVE  ConerrStream!Next \/ UNCHANGED ConerrStream!vars
    OBVIOUS
  <2>1. StreamStep("conerr")
    BY <1>1, EveryStepStreams
  <2>2. QED
    BY <2>1
    DEF StreamStep, StreamStays, StreamSends, StreamReceives, StreamEnds,
        StreamSeesEof, StreamBreaks, Received, ConerrStream!Next,
        ConerrStream!Send, ConerrStream!Receive, ConerrStream!End,
        ConerrStream!SeeEof, ConerrStream!Break, ConerrStream!vars
<1>4. Spec => ConerrStream!Spec
  BY <1>2, <1>3, SessionInvariance, PTL DEF Spec, ConerrStream!Spec
<1>5. QED BY <1>4, OutputIsAStream, PTL DEF OutputsAreByteStreams
=============================================================================
