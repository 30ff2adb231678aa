----------------------------- MODULE ConsoleFont -----------------------------
(***************************************************************************)
(* ConsoleFont: the font the agent gives the console, so that a large      *)
(* terminal fits the screen and a small one is no narrower than a window   *)
(* may be.  Windows counts a character's columns by code page, face and    *)
(* size, which is why each East Asian code page has a face and a table of  *)
(* sizes of its own.                                                       *)
(***************************************************************************)
EXTENDS Integers, Sequences, FiniteSets

MinWidth == 160  \* no window is narrower than so many pixels

isJapanese(cp)           == cp \in {932, 10001, 20932}
isSimplifiedChinese(cp)  == cp \in {936, 10008, 20936}
isTraditionalChinese(cp) == cp = 950 \/ cp \in 20000..20005 \/ cp = 10002
isKorean(cp)             == cp \in {949, 1361, 10003, 51949}

isEastAsian(cp) ==
  cp \in {932, 936, 949, 950, 1361, 10001, 10002, 10003, 10008} \cup
         (20000..20005) \cup {20932, 20936, 51949}

(* The tables: <<height, width>>.                                           *)
Lucida == << <<5, 3>>, <<6, 4>>, <<8, 5>>, <<10, 6>>, <<12, 7>>, <<14, 8>>,
             <<16, 10>>, <<18, 11>>, <<20, 12>>, <<36, 22>>, <<48, 29>>,
             <<60, 36>>, <<72, 43>> >>

GothicVista == << <<6, 3>>, <<8, 4>>, <<10, 5>>, <<12, 6>>, <<13, 7>>, <<15, 8>>,
                  <<17, 9>>, <<19, 10>>, <<21, 11>> >>

ExtraLarge == << <<36, 18>>, <<48, 24>>, <<60, 30>>, <<72, 36>> >>

GothicWin8 == << <<5, 3>>, <<7, 4>>, <<9, 5>>, <<11, 6>>, <<13, 7>>, <<15, 8>>,
                 <<17, 9>>, <<20, 10>>, <<22, 11>>, <<24, 12>> >> \o ExtraLarge

EvenSizes == [i \in 1..10 |-> <<2 * i + 4, i + 2>>]

GothicWin10 == EvenSizes \o ExtraLarge
SimSun      == EvenSizes \o ExtraLarge
GulimChe    == EvenSizes \o ExtraLarge
MingLight   == EvenSizes \o ExtraLarge

(* The face and the table for a code page on a version of Windows:          *)
(* "vista" (and 7), "8", or "10" with the new console.                      *)
FaceAndTable(cp, windows) ==
  CASE isJapanese(cp) ->
         [face |-> "MS Gothic",
          table |-> CASE windows = "10" -> GothicWin10
                      [] windows = "8"  -> GothicWin8
                      [] OTHER          -> GothicVista]
    [] isSimplifiedChinese(cp)  -> [face |-> "NSimSun", table |-> SimSun]
    [] isKorean(cp)             -> [face |-> "GulimChe", table |-> GulimChe]
    [] isTraditionalChinese(cp) -> [face |-> "MingLight", table |-> MingLight]
    [] OTHER                    -> [face |-> "Lucida Console", table |-> Lucida]

(* The score of a font: first whether so many columns are wide enough, and  *)
(* still are when they are cut in half (but to no less than 40); then the   *)
(* smaller one wins, or, where none is wide enough, the larger.             *)
halfColumns(columns) ==
  LET half == IF columns \div 2 > 40 THEN columns \div 2 ELSE 40
  IN IF columns < half THEN columns ELSE half

Score(width, columns) ==
  IF width * halfColumns(columns) >= MinWidth THEN <<2, -(width * columns)>>
  ELSE IF width * columns >= MinWidth THEN <<1, -(width * columns)>>
  ELSE <<0, width * columns>>

Better(a, b) == a[1] > b[1] \/ (a[1] = b[1] /\ a[2] > b[2])

selectSmallFont(cp, columns, windows) ==
  LET ft == FaceAndTable(cp, windows)
      score(i) == Score(ft.table[i][2], columns)
      best == CHOOSE i \in DOMAIN ft.table :   \* the first of the best
                \A j \in DOMAIN ft.table \ {i} :
                  IF j < i THEN Better(score(i), score(j))
                  ELSE ~Better(score(j), score(i))
  IN [face |-> ft.face, size |-> ft.table[best][1], width |-> ft.table[best][2]]

NoFont == [face |-> "none", size |-> 0, width |-> 0]

(* setFontVista: the face must have been taken.  If an East Asian one was   *)
(* not, the default one is tried.                                           *)
BugSetSmallFontVista(cp, columns, windows, installed) ==   \* no early return
  LET first == selectSmallFont(cp, columns, windows)
      fallback == selectSmallFont(0, columns, windows)
  IN IF isEastAsian(cp) /\ fallback.face \in installed THEN fallback
     ELSE IF first.face \in installed THEN first
     ELSE NoFont

setSmallFontVista(cp, columns, windows, installed) ==
  LET first == selectSmallFont(cp, columns, windows)
      fallback == selectSmallFont(0, columns, windows)
  IN IF first.face \in installed THEN first
     ELSE IF isEastAsian(cp) /\ fallback.face \in installed THEN fallback
     ELSE NoFont

(* Windows XP: the fonts of the console's own table (<<X, Y>>) from small   *)
(* to large, the narrow ones aside, until one is taken.  Those of one size  *)
(* come in any order.                                                       *)
setSmallFontXP(table, taken) ==
  LET usable == {i \in DOMAIN table : table[i][1] >= 4 /\ i \in taken}
      Area(i) == table[i][1] + table[i][2]
      smallest == {i \in usable : \A j \in usable : Area(i) <= Area(j)}
  IN IF smallest = {} THEN {NoFont}
     ELSE {[face |-> "raster", size |-> table[i][2], width |-> table[i][1]] : i \in smallest}

(* setSmallFont: by the API the system has.                                 *)
setSmallFont(cp, columns, windows, installed, table, taken) ==
  CASE windows = "none" -> {NoFont}
    [] windows = "xp"   -> setSmallFontXP(table, taken)
    [] OTHER            -> {setSmallFontVista(cp, columns, windows, installed)}

-----------------------------------------------------------------------------
(* What the choice is for: the smallest font whose columns are as wide as   *)
(* a window must be, with half of them still being so if any font allows    *)
(* it; the largest font there is where none is wide enough.                 *)
RightWidth(w, widths, columns) ==
  LET wide  == {v \in widths : v * columns >= MinWidth}
      roomy == {v \in widths : v * halfColumns(columns) >= MinWidth}
      Least(s) == \A v \in s : w <= v
  IN CASE roomy # {} -> w \in roomy /\ Least(roomy)
       [] roomy = {} /\ wide # {} -> w \in wide /\ Least(wide)
       [] OTHER -> w \in widths /\ \A v \in widths : w >= v
=============================================================================
