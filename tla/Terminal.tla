------------------------------ MODULE Terminal ------------------------------
(***************************************************************************)
(* Terminal: how the agent draws lines of console cells on a terminal that *)
(* can move up, erase and hide its cursor, and that terminal.              *)
(*                                                                         *)
(* A state t has both sides.  The agent's: line, column, data, valid and   *)
(* hidden are m_remoteLine, m_remoteColumn, m_lineData, m_lineDataValid    *)
(* and m_cursorHidden.  The terminal's: rows, all that it has shown since  *)
(* it was cleared, of which its screen is height rows from top on, the     *)
(* cursor's row y and column x, whether it shows the cursor, whether the   *)
(* cursor has once been stopped by the top of the screen, and the          *)
(* parameters sgr of the colour it writes in; the agent knows it as color  *)
(* (m_remoteColor).  Lines and columns count from 0, rows from 1.  What    *)
(* the agent writes takes effect at once, and in order.                    *)
(*                                                                         *)
(* A cell of the console is a name for its CHAR_INFO.  A cell of the       *)
(* terminal is a character and the sgr parameters it was written in.       *)
(***************************************************************************)
EXTENDS Integers, Sequences, FiniteSetsExt, SequencesExt

CONSTANT Colored   \* cells in colours of their own: [name -> [ch, attr]]

Blank == " "

Blanks(n) == [i \in 1..n |-> Blank]

-----------------------------------------------------------------------------
(* Colours: sets of flags.                                                  *)
Flag == [red |-> 1, green |-> 2, blue |-> 4, bright |-> 8]
ColorNumber(color) == MapThenSumSet(LAMBDA f : Flag[f], color)

BLACK  == {}
DKGRAY == {"bright"}
LTGRAY == {"red", "green", "blue"}
WHITE  == LTGRAY \cup DKGRAY

kDefaultAttributes == [fore |-> LTGRAY, back |-> BLACK, reverse |-> FALSE, under |-> FALSE]

(* The name of any other cell is its character.                             *)
Cell(name) == IF name \in DOMAIN Colored THEN Colored[name]
              ELSE [ch |-> name, attr |-> kDefaultAttributes]
IsBlank(name) == Cell(name).ch = Blank
Attr(name)    == Cell(name).attr

(* A bright colour comes after a plain one, for terminals that know no      *)
(* other.                                                                   *)
SGR_FORE == 30
SGR_BACK == 40
SGR_HI   == 60

outputSetColorSgrParams(base, color) ==
  LET plain == base + ColorNumber(color \ DKGRAY)
  IN IF "bright" \in color THEN <<plain, plain + SGR_HI>> ELSE <<plain>>

(* Black and white backgrounds become the terminal's own two colours, which *)
(* may be light on dark or dark on light.                                   *)
OnBlack(fore) ==
  CASE fore = LTGRAY -> <<>>
    [] fore = WHITE  -> <<1>>
    [] fore = DKGRAY -> <<37, 90>>
    [] OTHER         -> outputSetColorSgrParams(SGR_FORE, fore)

OnWhite(fore) ==
  IF fore \in {LTGRAY, BLACK} THEN <<7>>
  ELSE <<7>> \o outputSetColorSgrParams(SGR_BACK, fore)

Fore(attr) == IF attr.reverse THEN attr.back ELSE attr.fore
Back(attr) == IF attr.reverse THEN attr.fore ELSE attr.back

outputSetColor(attr) ==
  LET fore == Fore(attr)
      back == Back(attr)
  IN <<0>> \o (IF back = BLACK THEN OnBlack(fore)
               ELSE IF back = WHITE THEN OnWhite(fore)
               ELSE outputSetColorSgrParams(SGR_FORE, fore)
                      \o outputSetColorSgrParams(SGR_BACK, back))
           \o (IF fore = back THEN <<8>> ELSE <<>>)
           \o (IF attr.under THEN <<4>> ELSE <<>>)

-----------------------------------------------------------------------------
(* The terminal.                                                            *)
Plain == <<0>>
NoCells(n) == [i \in 1..n |-> <<Blank, Plain>>]
Filled(row, n) == row \o NoCells(Max({0, n - Len(row)}))

SetRow(t, row) == [t EXCEPT !.rows[t.y] = row]

Put(t, cells) ==
  LET row == Filled(t.rows[t.y], t.x)
  IN [SetRow(t, SubSeq(row, 1, t.x) \o cells
                  \o SubSeq(row, t.x + Len(cells) + 1, Len(row)))
        EXCEPT !.x = t.x + Len(cells)]

(* CSI 0K, in the colour the terminal writes in, of a terminal as wide as   *)
(* its size or what it is sent.  Behind the last column it erases that      *)
(* column (as many terminals do), and it leaves what a narrower window      *)
(* hides (as mintty and jediterm do).                                       *)
Erase(t, sent) ==
  LET width == Max({t.width, sent})
      row   == Filled(t.rows[t.y], width)
      from  == Min({t.x, width - 1})
  IN SetRow(t, SubSeq(row, 1, from) \o [i \in 1..(width - from) |-> <<Blank, t.sgr>>]
                 \o SubSeq(row, width + 1, Len(row)))

Return(t) == [t EXCEPT !.x = 0]

NewLine(t) ==
  [t EXCEPT !.x = 0, !.y = t.y + 1, !.top = Max({@, t.y + 2 - t.height}),
            !.rows = IF t.y = Len(@) THEN Append(@, <<>>) ELSE @]

NewLines(t, n) ==
  LET down[k \in 0..n] == IF k = 0 THEN t ELSE NewLine(down[k - 1])
  IN down[n]

(* CSI nA, which stops at the first row of the screen.                      *)
Up(t, n) == [t EXCEPT !.y = Max({t.top, t.y - n}), !.stopped = @ \/ t.y - n < t.top]

Clear(t) == [t EXCEPT !.rows = <<<<>>>>, !.x = 0, !.y = 1, !.top = 1,
                      !.stopped = FALSE, !.sgr = Plain]

(* A screen that gets shorter loses its last rows, but not the cursor.      *)
Resized(t, size) ==
  [t EXCEPT !.width = size[1], !.height = size[2],
            !.top = Max({@, t.y + 1 - size[2]})]

NewTerminal(size) ==
  [rows |-> <<<<>>>>, x |-> 0, y |-> 1, top |-> 1, shown |-> TRUE,
   width |-> size[1], height |-> size[2],
   stopped |-> FALSE, sgr |-> Plain, color |-> <<>>,
   line |-> 0, column |-> 0, data |-> <<>>, valid |-> TRUE, hidden |-> FALSE]

-----------------------------------------------------------------------------
(* The agent.                                                               *)
reset(t, sendClear, newLine) ==
  [IF sendClear THEN Clear(t) ELSE t
     EXCEPT !.line = newLine, !.column = 0, !.data = <<>>, !.hidden = FALSE,
            !.color = <<>>]

hideTerminalCursor(t) ==
  IF t.hidden THEN t ELSE [t EXCEPT !.hidden = TRUE, !.shown = FALSE]

BugMoveTerminalToLine(t, line) ==   \* one line short on the way up
  IF line = t.line THEN t
  ELSE LET h == hideTerminalCursor(t)
           moved == IF line < t.line
                      THEN Up(Return(h), Max({1, t.line - line - 1}))
                      ELSE NewLines(h, line - t.line)
       IN [moved EXCEPT !.line = line, !.valid = TRUE, !.data = <<>>, !.column = 0]

moveTerminalToLine(t, line) ==
  IF line = t.line THEN t
  ELSE LET h == hideTerminalCursor(t)
           moved == IF line < t.line THEN Up(Return(h), t.line - line)
                    ELSE NewLines(h, line - t.line)
       IN [moved EXCEPT !.line = line, !.valid = TRUE, !.data = <<>>, !.column = 0]

(* What the terminal shows of the line may stay, if it is a prefix of the   *)
(* new content that leaves room for the erase command.                      *)
Reusable(t, cells) ==
  t.valid /\ (t.column > 0 => /\ Len(cells) > Len(t.data)
                              /\ SubSeq(cells, 1, Len(t.data)) = t.data)

(* A console cell may hold an escape character, which the terminal must     *)
(* not see.                                                                 *)
Escape == "esc"
fixSpecialCharacters(ch) == IF ch = Escape THEN "?" ELSE ch

(* The colour is sent where it changes, and a change makes the blanks       *)
(* before it count.  Trailing blanks are erased, not printed - before the   *)
(* last column is.                                                          *)
SendCells(t, cells, cursorColumn) ==
  LET width == Len(cells)
      from  == Len(t.data) + 1
      changes == {i \in from..width :
                    IF i = from THEN t.color # <<Attr(cells[i])>>
                                ELSE Attr(cells[i - 1]) # Attr(cells[i])}
      last  == Max({from - 1} \cup {i \in from..width : ~IsBlank(cells[i])}
                     \cup {i - 1 : i \in changes})
      sgr(i)     == IF \E j \in changes : j <= i THEN outputSetColor(Attr(cells[i]))
                    ELSE t.sgr
      part(i, j) == [k \in 1..(j - i + 1) |->
                       <<fixSpecialCharacters(Cell(cells[i + k - 1]).ch), sgr(i + k - 1)>>]
      h     == IF cursorColumn # -1 /\ last > cursorColumn
                 THEN hideTerminalCursor(t) ELSE t
      painted(u) == [u EXCEPT !.sgr = sgr(width)]
      out   == IF from <= last /\ last = width
                 THEN Put(Erase(painted(Put(h, part(from, last - 1))), width),
                            part(last, last))
               ELSE Erase(painted(Put(h, part(from, last))), width)
  IN [out EXCEPT !.data = SubSeq(cells, 1, last), !.column = last,
                 !.color = <<Attr(cells[width])>>]

sendLine(t, line, cells, cursorColumn) ==
  LET m == moveTerminalToLine(t, line)
      fresh == [Return(hideTerminalCursor(m))
                  EXCEPT !.valid = TRUE, !.data = <<>>, !.column = 0]
  IN SendCells(IF Reusable(m, cells) THEN m ELSE fresh, cells, cursorColumn)

showTerminalCursor(t, column, line) ==
  LET m == moveTerminalToLine(t, line)
      c == IF m.column = column THEN m
           ELSE [m EXCEPT !.x = column, !.valid = (column = 0), !.data = <<>>,
                          !.column = column]
  IN IF c.hidden THEN [c EXCEPT !.hidden = FALSE, !.shown = TRUE] ELSE c
=============================================================================
