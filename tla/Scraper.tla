------------------------------ MODULE Scraper ------------------------------
(***************************************************************************)
(* Scraper: the agent reads a console that a child writes to, and draws    *)
(* what has changed on the terminal.                                       *)
(*                                                                         *)
(* The console's buffer has BUFFER_LINE_COUNT lines; the window is at its  *)
(* end once it has been filled, and from then on each new line pushes the  *)
(* first one out, which nothing in the console tells.  The scraper writes  *)
(* a marker into a line above the window and looks where it has gone.  On  *)
(* Windows 10 it reads while the child goes on writing, checks that what   *)
(* it has read belongs together, and freezes the console to start over if  *)
(* it does not.  In a buffer of another size it only mirrors the window    *)
(* (direct mode).                                                          *)
(*                                                                         *)
(* One action is the code between two points at which the child may run.   *)
(* Rows and columns count from 0 as in the code; a line of cells is a      *)
(* sequence.                                                               *)
(***************************************************************************)
EXTENDS Integers, Sequences, FiniteSets, TLC, Terminal

CONSTANTS
  BUFFER_LINE_COUNT, SYNC_MARKER_LEN, SYNC_MARKER_MARGIN,
  Sizes,      \* the sizes of the terminal: <<columns, rows>>
  Windows,    \* the sizes of the console's window at the start
  Largest,    \* GetLargestConsoleWindowSize
  ConsoleModes, \* which of "cjk", "grid" and "vt" the console is set to
  Texts,      \* what the child may write: sequences of cells and newlines
  MaxSteps,   \* bound: steps of the child
  MaxResizes, \* bound: resizes
  MarkerText(_) \* what the marker with this number looks like

(* libwinpty asserts that a size is positive, and the agent cuts it to      *)
(* MAX_CONSOLE_HEIGHT rows, which leaves room for the marker.               *)
ASSUME ScraperAssumption ==
  /\ BUFFER_LINE_COUNT \in Nat
  /\ SYNC_MARKER_LEN \in Nat \ {0} /\ SYNC_MARKER_MARGIN \in Nat
  /\ Sizes \cup {Largest} \subseteq (Nat \ {0}) \X (Nat \ {0})
  /\ \A t \in Texts : Len(t) \in Nat
  /\ \A s \in Sizes : s[2] + SYNC_MARKER_LEN + SYNC_MARKER_MARGIN < BUFFER_LINE_COUNT

VARIABLES
  con,       \* the active screen buffer
  saved,     \* the first buffer, while a full-screen program has its own
  frozen,    \* m_frozen: a selection keeps the child from writing
  newW10,    \* isNewW10
  scr,       \* the scraper's members
  term,      \* the terminal and the agent's picture of it
  pc,        \* where the agent is in a scrape
  info,      \* the ConsoleScreenBufferInfo the scrape goes by
  readBuf,   \* m_readBuffer: its first line and its lines
  force,     \* forceResize
  (* history *)
  steps, resizes,
  paper,     \* the lines that the buffer has pushed out
  base,      \* the terminal's first row is this line: of paper, then of con
  erased,    \* lines erased above the window, which the terminal may still show
  missed,    \* lines were pushed out while there was no marker
  misled,    \* the child has cleared the screen in the middle of a round
  blind,     \* the tracking was reset while the terminal hid its cursor
  moved,     \* the child has done something since the round began
  cleared,   \* ... and that was a CLS, after the window's place was read
  synced,    \* ... and nothing since before the last round, which was no resize
  refused    \* a call to set a size failed that the child had not upset

historyVars == <<paper, base, erased, missed, misled, blind>>
vars == <<con, saved, frozen, newW10, scr, term, pc, info, readBuf, force,
          steps, resizes, historyVars, moved, cleared, synced, refused>>

gone == Len(paper)

-----------------------------------------------------------------------------
(* The console: a buffer of w times h cells, a window of winW times winH    *)
(* whose first row is top, the cursor.  modern: the new console of          *)
(* Windows 10.                                                              *)
NewConsole(modern, w, h, winW, winH) ==
  [modern |-> modern, w |-> w, h |-> h, rows |-> [r \in 0..(h - 1) |-> Blanks(w)],
   top |-> 0, winW |-> winW, winH |-> winH, x |-> 0, y |-> 0, visible |-> TRUE]

NL == "nl"

(* One cell or newline written at the cursor.  A full line wraps at once;   *)
(* behind the last line the buffer scrolls; the window follows the cursor.  *)
Scrolls(c, ch) == (ch = NL \/ c.x + 1 = c.w) /\ c.y + 1 = c.h

PutChar(c, ch) ==
  LET put   == IF ch = NL THEN c.rows ELSE [c.rows EXCEPT ![c.y][c.x + 1] = ch]
      next  == ch = NL \/ c.x + 1 = c.w
      y     == IF next /\ c.y + 1 < c.h THEN c.y + 1 ELSE c.y
  IN [c EXCEPT
        !.rows = IF Scrolls(c, ch)
                   THEN [r \in DOMAIN put |->
                           IF r + 1 < c.h THEN put[r + 1] ELSE Blanks(c.w)]
                   ELSE put,
        !.x = IF next THEN 0 ELSE c.x + 1,
        !.y = y,
        !.top = IF y >= @ + c.winH THEN y - c.winH + 1 ELSE @]

(* ReadConsoleOutput.                                                       *)
ReadRow(c, r) == IF r \in DOMAIN c.rows THEN c.rows[r] ELSE Blanks(c.w)

CellAt(row, i) == IF i \in DOMAIN row THEN row[i] ELSE Blank

clearLines(c, first, count) ==
  [c EXCEPT !.rows = [r \in DOMAIN @ |-> IF r >= first /\ r < first + count
                                           THEN Blanks(c.w) ELSE @[r]]]

(* SetConsoleWindowInfo fails if the window would not fit.                  *)
CanMove(c, rect) ==
  /\ rect.top >= 0 /\ rect.top + rect.h <= c.h /\ rect.w <= c.w
  /\ rect.w <= Largest[1] /\ rect.h <= Largest[2]

moveWindow(c, rect) ==
  IF CanMove(c, rect)
    THEN [c EXCEPT !.top = rect.top, !.winW = rect.w, !.winH = rect.h]
    ELSE c

(* SetConsoleScreenBufferSize fails if the buffer would be smaller than the *)
(* window.  A shorter buffer loses its last lines, or its first ones for    *)
(* the cursor's to stay, and the window moves up into it.  (Lines of        *)
(* another width are cut here; Windows 10 may wrap them anew.)              *)
CanResize(c, w, h) == w >= c.winW /\ h >= c.winH

ResizeTo(c, w, h) ==
  LET cut == Max({0, c.y + 1 - h})
  IN [c EXCEPT !.w = w, !.h = h,
               !.rows = [r \in 0..(h - 1) |->
                           [i \in 1..w |-> CellAt(ReadRow(c, r + cut), i)]],
               !.top = Max({0, Min({@ - cut, h - c.winH})}),
               !.x = Min({@, w - 1}), !.y = @ - cut]

(* It is tried with up to 20 columns.                                       *)
resizeBufferRange(c, w, h) ==
  LET widths == {v \in w..Max({w, 20}) : CanResize(c, v, h)}
  IN IF widths = {} THEN c ELSE ResizeTo(c, Min(widths), h)

(* bufferInfo.                                                              *)
Info(c) == [w |-> c.w, h |-> c.h, top |-> c.top, winW |-> c.winW,
            winH |-> c.winH, x |-> c.x, y |-> c.y, visible |-> c.visible]

cursorInWindow(i) == i.y >= i.top /\ i.y < i.top + i.winH
cursorInside(i)       == cursorInWindow(i) /\ i.x < i.winW

-----------------------------------------------------------------------------
(* ConsoleLine: the cells last sent for a line.  data may be longer than    *)
(* len: what a wider window once showed.                                    *)
NoLine == [len |-> 0, data |-> <<>>]

setLine(l, cells) ==
  [len |-> Len(cells),
   data |-> cells \o SubSeq(l.data, Len(cells) + 1, Len(l.data))]

isLineBlank(data, from, to, attr) ==
  \A i \in from..to : IsBlank(data[i]) /\ Attr(data[i]) = attr
areLinesEqual(a, b, n)      == SubSeq(a, 1, n) = SubSeq(b, 1, n)

detectChange(l, cells) ==
  LET n == Len(cells)
  IN \/ l.len = 0
     \/ ~areLinesEqual(l.data, cells, Min({l.len, n}))
     \/ n < l.len /\ ~isLineBlank(l.data, n + 1, l.len, Attr(cells[n]))
     \/ n > l.len /\ LET attr == Attr(l.data[l.len])
                     IN ~(/\ isLineBlank(l.data, l.len + 1, Min({Len(l.data), n}), attr)
                          /\ isLineBlank(cells, l.len + 1, n, attr))

blankLine == [len |-> 1, data |-> <<Blank>>]

-----------------------------------------------------------------------------
(* The scraper.                                                             *)
NoMarker == -1

BugTracking(s, scraped) ==     \* the count of scrolled lines is kept
  [s EXCEPT !.lines = [i \in 0..(BUFFER_LINE_COUNT - 1) |-> NoLine],
            !.syncRow = NoMarker, !.scraped = scraped,
            !.maxBuffered = -1, !.dirtyTop = -1, !.dirty = 0]

Tracking(s, scraped) ==
  [s EXCEPT !.lines = [i \in 0..(BUFFER_LINE_COUNT - 1) |-> NoLine],
            !.syncRow = NoMarker, !.scraped = scraped, !.scrolled = 0,
            !.maxBuffered = -1, !.dirtyTop = -1, !.dirty = 0]

(* A round's state.                                                         *)
Round == [con |-> con, scr |-> scr, term |-> term, base |-> base,
          erased |-> erased, missed |-> missed, misled |-> misled, blind |-> blind]

(* The terminal starts over from what the buffer has.                       *)
resetConsoleTracking(rd, scraped) ==
  [rd EXCEPT !.scr = Tracking(@, scraped), !.term = reset(@, TRUE, scraped),
             !.base = scraped + gone, !.erased = {}, !.missed = FALSE,
             !.misled = FALSE, !.blind = @ \/ ~rd.term.shown]

Marker(s) == MarkerText(s.counter)

(* The marker is looked for from its last place upwards.                    *)
findSyncMarker(c, s) ==
  Max({NoMarker} \cup
      {i \in 0..s.syncRow :
         \A j \in 0..(SYNC_MARKER_LEN - 1) : ReadRow(c, i + j)[1] = Marker(s)})

createSyncMarker(rd, row) ==
  LET c == clearLines(rd.con, row - 1, SYNC_MARKER_LEN + 1)
      s == [rd.scr EXCEPT !.counter = @ + 1, !.syncRow = row]
  IN [rd EXCEPT
        !.scr = s,
        !.con = [c EXCEPT !.rows =
                   [r \in DOMAIN @ |-> IF r \in row..(row + SYNC_MARKER_LEN - 1)
                                         THEN [@[r] EXCEPT ![1] = Marker(s)]
                                         ELSE @[r]]],
        !.erased = @ \cup {gone + r : r \in (row - 1)..(row + SYNC_MARKER_LEN - 1)}]

WithDirty(s, n) == [s EXCEPT !.dirty = Max({@, n})]
markEntireWindowDirty(s, i) == WithDirty(s, i.top + i.winH)

(* The first part of scrollingScrapeOutput: where the marker has gone.  A   *)
(* tentative scrape that finds it gone for good starts over.                *)
Fail == [ok |-> FALSE]
Ok(rd) == [ok |-> TRUE, rd |-> rd]

BugFollowMarker(rd, i, tentative) ==   \* the scrolled lines are not counted
  LET row == findSyncMarker(rd.con, rd.scr)
  IN IF rd.scr.syncRow = NoMarker \/ row = rd.scr.syncRow THEN Ok(rd)
     ELSE IF row = NoMarker
       THEN IF tentative THEN Fail ELSE Ok(resetConsoleTracking(rd, i.top))
     ELSE Ok([rd EXCEPT !.scr = markEntireWindowDirty([@ EXCEPT !.syncRow = row], i)])

FollowMarker(rd, i, tentative) ==
  LET row == findSyncMarker(rd.con, rd.scr)
      s   == [rd.scr EXCEPT !.scrolled = @ + rd.scr.syncRow - row, !.syncRow = row]
  IN IF rd.scr.syncRow = NoMarker \/ row = rd.scr.syncRow THEN Ok(rd)
     ELSE IF row = NoMarker
       THEN IF tentative THEN Fail ELSE Ok(resetConsoleTracking(rd, i.top))
     ELSE Ok([rd EXCEPT !.scr = markEntireWindowDirty(s, i)])

NewSyncRow(i) == i.top - SYNC_MARKER_LEN - SYNC_MARKER_MARGIN

ShouldCreateSyncRow(s, i) ==
  NewSyncRow(i) >= s.syncRow + SYNC_MARKER_LEN + SYNC_MARKER_MARGIN

(* Then the lines that may have changed: all of a window that has moved     *)
(* down.  One that has moved up was cleared.                                *)
MoveDirt(rd, i) ==
  IF rd.scr.dirtyTop = -1 THEN rd
  ELSE IF i.top > rd.scr.dirtyTop
    THEN [rd EXCEPT !.scr = markEntireWindowDirty(@, i)]
  ELSE IF i.top < rd.scr.dirtyTop THEN resetConsoleTracking(rd, i.top)
  ELSE rd

Dirtied(rd, i) ==
  LET m == MoveDirt(rd, i)
  IN [m EXCEPT !.scr = WithDirty([@ EXCEPT !.dirtyTop = i.top], Max({i.y + 1, i.top}))]

Prepare(rd, i, tentative) ==
  LET f == FollowMarker(rd, i, tentative)
  IN IF ~f.ok THEN Fail
     ELSE IF tentative /\ \/ ShouldCreateSyncRow(f.rd.scr, i)
                          \/ f.rd.scr.dirtyTop # -1 /\ i.top < f.rd.scr.dirtyTop
       THEN Fail
     ELSE Ok(Dirtied(f.rd, i))

(* Windows shows reverse video and underlines only in some modes.           *)
Supported == [w \in BOOLEAN |-> [reverse |-> ConsoleModes # {} \/ w,
                                 under   |-> ConsoleModes # {}]]

attributesMask ==
  [w \in BOOLEAN |-> [cell \in DOMAIN Colored |->
     LET info0 == Colored[cell]
         seen  == [info0 EXCEPT !.attr.reverse = @ /\ Supported[w].reverse,
                                !.attr.under = @ /\ Supported[w].under]
     IN CHOOSE c \in DOMAIN Colored \cup {info0.ch} : Cell(c) = seen]]

Masked(cells, modern) ==
  [i \in DOMAIN cells |-> IF cells[i] \in DOMAIN Colored
                            THEN attributesMask[modern][cells[i]] ELSE cells[i]]

ReadCells(c, r, width) ==
  Masked([i \in 1..width |-> CellAt(ReadRow(c, r), i)], newW10)

(* largeConsoleRead, from the first line to send down to the window's end.  *)
FirstVirtLine(s, i) == Min({s.scraped, i.top + s.scrolled})

Read(c, s, i) ==
  LET first == Min({FirstVirtLine(s, i) - s.scrolled, s.dirty - 1})
      stop  == Max({i.top + i.winH, s.dirty})
  IN [r \in first..(stop - 1) |-> ReadCells(c, r, i.w)]

(* Lines behind the dirty ones are dirty if they are not blank in the       *)
(* colour that the line before ends in.                                     *)
scanForDirtyLines(s, i, buf) ==
  WithDirty(s, 1 + Max({-1} \cup
    {r \in s.dirty..(i.top + i.winH - 1) :
       ~isLineBlank(buf[r], 1, i.w, Attr(buf[r - 1][i.w]))}))

(* The last part: what is new, or behind something new, is sent.            *)
SendOne(acc, v, i, buf, scrolled) ==
  LET cells == buf[v - scrolled]
      slot  == v % BUFFER_LINE_COUNT
      send  == acc.saw \/ v > acc.maxBuffered \/ detectChange(acc.lines[slot], cells)
      column == IF i.visible /\ cursorInside(i) /\ v = i.y + scrolled THEN i.x ELSE -1
  IN [acc EXCEPT
        !.saw = send,
        !.lines[slot] = setLine(@, cells),
        !.maxBuffered = Max({@, v}),
        !.term = IF send THEN sendLine(@, v, cells, column) ELSE @]

SendLines(start, first, stop, i, buf, scrolled) ==
  LET count == Max({0, stop - first})
      after[n \in 0..count] ==
        IF n = 0 THEN start
        ELSE SendOne(after[n - 1], first + n - 1, i, buf, scrolled)
  IN after[count]

ShowCursor(t, i, lineOffset) ==
  IF i.visible /\ cursorInside(i)
    THEN showTerminalCursor(t, i.x, i.y + lineOffset)
    ELSE t

HideCursor(t, i) == IF i.visible /\ cursorInside(i) THEN t ELSE hideTerminalCursor(t)

Send(rd, i, buf) ==
  LET s     == scanForDirtyLines(rd.scr, i, buf)
      first == FirstVirtLine(s, i)
      stop  == Min({s.dirty, i.top + i.winH}) + s.scrolled
      sent  == SendLines([lines |-> s.lines, maxBuffered |-> s.maxBuffered,
                          term |-> HideCursor(rd.term, i), saw |-> FALSE],
                         first, stop, i, buf, s.scrolled)
  IN [rd EXCEPT !.scr = [s EXCEPT !.lines = sent.lines, !.maxBuffered = sent.maxBuffered,
                                  !.scraped = i.top + s.scrolled],
                !.term = ShowCursor(sent.term, i, s.scrolled)]

(* scrollingScrapeOutput of a frozen console: read, then place a new        *)
(* marker - not the other way round.                                        *)
ScrapeFrozen(rd, i) ==
  LET p   == Prepare(rd, i, FALSE).rd
      buf == Read(p.con, p.scr, i)
  IN Send(IF ShouldCreateSyncRow(p.scr, i)
            THEN createSyncMarker(p, NewSyncRow(i)) ELSE p, i, buf)

(* directScrapeOutput: the window, line by line.                            *)
DirectOne(acc, k, i, c) ==
  LET cells == ReadCells(c, i.top + k, acc.w)
      column == IF acc.show /\ k = i.y - i.top THEN i.x ELSE -1
  IN [acc EXCEPT
        !.lines[k] = setLine(@, cells),
        !.term = IF detectChange(acc.lines[k], cells)
                   THEN sendLine(@, k, cells, column) ELSE @]

ScrapeDirect(rd, i) ==
  LET w == Min({i.winW, scr.ptySize[1]})
      h == Min({i.winH, scr.ptySize[2]})
      show == i.visible /\ i.x < w /\ i.y >= i.top /\ i.y < i.top + h
      after[n \in 0..h] ==
        IF n = 0
          THEN [lines |-> rd.scr.lines, w |-> w, show |-> show,
                term |-> IF show THEN rd.term ELSE hideTerminalCursor(rd.term)]
          ELSE DirectOne(after[n - 1], n - 1, i, rd.con)
      sent == after[h]
  IN [rd EXCEPT !.scr.lines = sent.lines,
                !.term = IF show
                           THEN showTerminalCursor(sent.term, i.x, i.y - i.top)
                           ELSE sent.term]

-----------------------------------------------------------------------------
Goto(place) == pc' = place

(* The state after a part of a round.                                       *)
Apply(rd) ==
  /\ con' = rd.con /\ scr' = rd.scr /\ term' = rd.term /\ base' = rd.base
  /\ erased' = rd.erased /\ missed' = rd.missed /\ misled' = rd.misled
  /\ blind' = rd.blind

agentIdle == <<saved, newW10, steps, resizes, paper, moved, cleared, synced, refused>>

(* Agent::scrapeBuffers and Agent::resizeWindow: the console is frozen at   *)
(* once where a read might fail, and for a resize.                          *)
Begin(resize) ==
  /\ pc = "idle" /\ Goto("info")
  /\ force' = resize /\ frozen' = (resize \/ ~newW10)

Scrape ==
  /\ Begin(FALSE)
  /\ UNCHANGED <<con, saved, newW10, scr, term, info, readBuf, steps, resizes,
                 historyVars, moved, cleared, synced, refused>>

Resize(size) ==
  /\ resizes < MaxResizes /\ resizes' = resizes + 1
  /\ size # scr.ptySize
  /\ Begin(TRUE)
  /\ scr' = [scr EXCEPT !.ptySize = size]
  /\ term' = Resized(term, size)
  /\ synced' = FALSE
  /\ UNCHANGED <<con, saved, newW10, info, readBuf, steps, historyVars,
                 moved, cleared, refused>>

(* syncConsoleContentAndSize.                                               *)
ReadInfo ==
  /\ pc = "info" /\ Goto("mode")
  /\ info' = Info(con)
  /\ UNCHANGED <<agentIdle, con, scr, term, base, erased, missed, misled, blind, frozen,
                 readBuf, force>>

(* A buffer of another height is mirrored, from an empty terminal.  When a  *)
(* full-screen program is gone the console must get its size again.         *)
SetMode ==
  LET direct == info.h # BUFFER_LINE_COUNT
      switch == direct # scr.directMode
      rd     == resetConsoleTracking(Round, IF direct THEN 0 ELSE info.top)
      back   == switch /\ ~direct
  IN /\ pc = "mode"
     /\ Apply(IF switch THEN [rd EXCEPT !.scr.directMode = direct] ELSE Round)
     /\ frozen' = (frozen \/ back) /\ force' = (force \/ back)
     /\ Goto(IF ~direct THEN "scroll" ELSE IF force THEN "erase" ELSE "direct")
     /\ UNCHANGED <<agentIdle, info, readBuf>>

Direct ==
  /\ pc = "direct" /\ Goto("end")
  /\ Apply(ScrapeDirect(Round, info))
  /\ UNCHANGED <<agentIdle, frozen, info, readBuf, force>>

AfterScrape == Goto(IF force THEN "erase" ELSE "end")

ScrollFrozen ==
  /\ pc = "scroll" /\ frozen
  /\ \E rd \in {ScrapeFrozen(Round, info)} : Apply(rd)
  /\ AfterScrape
  /\ UNCHANGED <<agentIdle, frozen, info, readBuf, force>>

(* The tentative scrape, from which each doubt leads to the frozen one.     *)
StartOver ==
  /\ frozen' = TRUE /\ Goto("scroll")
  /\ UNCHANGED <<agentIdle, con, scr, term, base, erased, missed, misled, blind, info,
                 readBuf, force>>

FindMarker ==
  /\ pc = "scroll" /\ ~frozen
  /\ \E p \in {Prepare(Round, info, TRUE)} :
       IF p.ok THEN /\ Apply(p.rd) /\ Goto("read")
                    /\ UNCHANGED <<agentIdle, frozen, info, readBuf, force>>
               ELSE StartOver

ReadLines ==
  /\ pc = "read" /\ Goto("check")
  /\ readBuf' = Read(con, scr, info)
  /\ UNCHANGED <<agentIdle, con, scr, term, base, erased, missed, misled, blind, frozen,
                 info, force>>

CheckInfo ==
  LET now == Info(con)
      Key(i) == <<i.w, i.h, i.top, i.winW, i.winH, i.x, i.y>>
  IN /\ pc = "check"
     /\ IF Key(now) # Key(info) THEN StartOver
        ELSE /\ Goto("check marker")
             /\ UNCHANGED <<agentIdle, con, scr, term, base, erased, missed, misled, blind,
                            frozen, info, readBuf, force>>

CheckMarker ==
  /\ pc = "check marker"
  /\ IF scr.syncRow # NoMarker /\ scr.syncRow # findSyncMarker(con, scr)
       THEN StartOver
       ELSE /\ \E rd \in {Send(Round, info, readBuf)} : Apply(rd)
            /\ AfterScrape
            /\ UNCHANGED <<agentIdle, frozen, info, readBuf, force>>

-----------------------------------------------------------------------------
(* resizeImpl.  The console must not be frozen while its buffer changes.    *)
clearBufferLines(s, count) ==
  LET slots == {(r + s.scrolled) % BUFFER_LINE_COUNT : r \in 0..(count - 1)}
  IN [s EXCEPT !.lines = [i \in DOMAIN @ |-> IF i \in slots THEN blankLine ELSE @[i]],
               !.maxBuffered = IF count = 0 THEN @
                               ELSE Max({@, count - 1 + s.scrolled})]

EraseAbove(rd, i) ==
  LET e == [rd EXCEPT !.con = clearLines(@, 0, i.top),
                      !.scr = clearBufferLines(@, i.top),
                      !.erased = @ \cup {gone + r : r \in 0..(i.top - 1)}]
      last == BUFFER_LINE_COUNT - rd.scr.ptySize[2] - SYNC_MARKER_LEN
                - SYNC_MARKER_MARGIN
  IN IF rd.scr.syncRow = NoMarker THEN e
     ELSE createSyncMarker(e, Min({rd.scr.syncRow, last}))

EraseForResize ==
  /\ pc = "erase" /\ Goto("shrink")
  /\ Apply(IF scr.directMode
             THEN [Round EXCEPT !.scr.lines = [i \in DOMAIN @ |-> NoLine]]
             ELSE EraseAbove(Round, info))
  /\ frozen' = FALSE
  /\ UNCHANGED <<agentIdle, info, readBuf, force>>

finalBufferSize ==
  LET rows == scr.ptySize[2]
  IN <<scr.ptySize[1], IF info.winH = info.h THEN rows ELSE Max({rows, info.h})>>

visibleCols == Min({scr.ptySize[1], Largest[1]})
visibleRows == Min({scr.ptySize[2], Largest[2]})

ensureLineIncluded(rect, line) ==
  IF line < rect.top THEN [rect EXCEPT !.top = line]
  ELSE IF line >= rect.top + rect.h THEN [rect EXCEPT !.top = line - rect.h + 1]
  ELSE rect

WithCursor(rect, i) == IF cursorInWindow(i) THEN ensureLineIncluded(rect, i.y) ELSE rect

resizeIdle == <<saved, newW10, term, base, erased, missed, misled, blind, info, readBuf,
                force, steps, resizes, paper, moved, cleared, synced>>

(* A failure counts if the child has done nothing since the round began.    *)
Refuse(failed) == refused' = (refused \/ (failed /\ ~moved))

BugShrinkWindow ==             \* the window may stay behind the buffer's new end
  LET w == Min({con.w, visibleCols})
      h == Min({con.h, visibleRows})
      rect == WithCursor([top |-> con.top, w |-> w, h |-> h], Info(con))
  IN /\ pc = "shrink" /\ Goto("buffer")
     /\ con' = moveWindow(con, rect) /\ Refuse(~CanMove(con, rect))
     /\ frozen' = FALSE
     /\ UNCHANGED <<resizeIdle, scr>>

ShrinkWindow ==
  LET w == Min({con.w, visibleCols})
      h == Min({con.h, visibleRows})
      rect == WithCursor([top |-> Min({con.h - h, con.top}), w |-> w, h |-> h],
                         Info(con))
  IN /\ pc = "shrink" /\ Goto("buffer")
     /\ con' = moveWindow(con, rect) /\ Refuse(~CanMove(con, rect))
     /\ frozen' = FALSE
     /\ UNCHANGED <<resizeIdle, scr>>

ResizeBuffer ==
  LET size == finalBufferSize
  IN /\ pc = "buffer" /\ Goto("expand")
     /\ con' = resizeBufferRange(con, size[1], size[2])
     /\ Refuse(~CanResize(con, size[1], size[2]))
     /\ UNCHANGED <<resizeIdle, frozen, scr>>

ExpandWindow ==
  LET top == Min({con.h - visibleRows, con.top})
      fit == IF ~scr.directMode /\ scr.dirty > top + visibleRows
               THEN scr.dirty - visibleRows ELSE top
      rect == WithCursor([top |-> fit, w |-> visibleCols, h |-> visibleRows], Info(con))
  IN /\ pc = "expand" /\ Goto(IF scr.directMode THEN "direct" ELSE "end")
     /\ con' = moveWindow(con, rect) /\ Refuse(~CanMove(con, rect))
     /\ scr' = [scr EXCEPT !.dirtyTop = rect.top]
     /\ frozen' = TRUE
     /\ UNCHANGED resizeIdle

(* The FreezeGuard of the caller.                                           *)
EndRound ==
  /\ pc = "end" /\ Goto("idle")
  /\ frozen' = FALSE /\ force' = FALSE
  /\ synced' = (~moved /\ ~force)
  /\ info' = <<>> /\ readBuf' = <<>> /\ moved' = FALSE /\ cleared' = FALSE
  /\ blind' = (blind /\ ~term.shown) /\ misled' = (misled \/ cleared)
  /\ UNCHANGED <<con, saved, newW10, scr, term, steps, resizes, paper, base,
                 erased, missed, refused>>

-----------------------------------------------------------------------------
(* The child, which waits while the console is frozen.                      *)
Child ==
  /\ ~frozen
  /\ steps < MaxSteps /\ steps' = steps + 1
  /\ moved' = (pc # "idle") /\ synced' = FALSE
  /\ UNCHANGED <<frozen, newW10, scr, term, pc, info, readBuf, force, resizes,
                 base, misled, blind, refused>>

Tracked == con.h = BUFFER_LINE_COUNT

(* PutChar; the paper takes the line that the buffer pushes out.            *)
Typed(acc, ch) ==
  LET out == Tracked /\ Scrolls(acc.con, ch)
  IN [con    |-> PutChar(acc.con, ch),
      paper  |-> IF out THEN Append(acc.paper, acc.con.rows[0]) ELSE acc.paper,
      missed |-> acc.missed \/ (out /\ scr.syncRow = NoMarker)]

Typing(text) ==
  LET after[n \in 0..Len(text)] ==
        IF n = 0 THEN [con |-> con, paper |-> paper, missed |-> missed]
        ELSE Typed(after[n - 1], text[n])
  IN after[Len(text)]

Write ==
  /\ Child
  /\ \E text \in Texts :
       LET t == Typing(text)
       IN con' = t.con /\ paper' = t.paper /\ missed' = t.missed
  /\ UNCHANGED <<saved, cleared, erased>>

(* SetConsoleCursorPosition.                                                *)
Home ==
  /\ Child
  /\ con' = [con EXCEPT !.x = 0, !.y = con.top]
  /\ UNCHANGED <<saved, paper, erased, missed, cleared>>

ShowOrHide ==
  /\ Child
  /\ con' = [con EXCEPT !.visible = ~@]
  /\ UNCHANGED <<saved, paper, erased, missed, cleared>>

(* CLS.                                                                     *)
ClearScreen ==
  /\ Child
  /\ con' = [clearLines(con, 0, con.h) EXCEPT !.x = 0, !.y = 0, !.top = 0]
  /\ erased' = IF Tracked THEN erased \cup {gone + r : r \in 0..(con.top - 1)} ELSE erased
  /\ cleared' = (cleared \/ pc \notin {"idle", "info"})
  /\ UNCHANGED <<saved, paper, missed>>

(* A full-screen program's own buffer, as high as the window; it switches   *)
(* between two scrapes.                                                     *)
Enter ==
  /\ Child /\ pc = "idle" /\ saved = <<>>
  /\ saved' = <<con>>
  /\ con' = NewConsole(con.modern, con.winW, con.winH, con.winW, con.winH)
  /\ UNCHANGED <<paper, erased, missed, cleared>>

Leave ==
  /\ Child /\ pc = "idle" /\ saved # <<>>
  /\ con' = saved[1] /\ saved' = <<>>
  /\ UNCHANGED <<paper, erased, missed, cleared>>

-----------------------------------------------------------------------------
(* Mark puts the cursor of an old console into the window's first cell, and *)
(* leaves that of the new one in the last cell, where it was put.  A window *)
(* of one cell is made wider first.                                         *)
detectNewWindows10Console(modern, before8, window) ==
  LET wide    == IF window = <<1, 1>> THEN <<Min({400, Largest[1]}), 1>> ELSE window
      initial == <<wide[1] - 1, wide[2] - 1>>
      marked  == IF modern THEN initial ELSE <<0, 0>>
  IN ~before8 /\ marked = initial

(* Scraper::Scraper.                                                        *)
NewScraper(size) ==
  Tracking([lines |-> <<>>, syncRow |-> NoMarker, counter |-> 0, scraped |-> 0,
            scrolled |-> 0, maxBuffered |-> -1, dirtyTop |-> -1, dirty |-> 0,
            directMode |-> FALSE, ptySize |-> size], 0)

Init ==
  /\ \E size \in Sizes, modern, before8 \in BOOLEAN, window \in Windows :
       /\ modern => ~before8
       /\ newW10 = detectNewWindows10Console(modern, before8, window)
       /\ scr = NewScraper(size)
       /\ con = NewConsole(modern, size[1], BUFFER_LINE_COUNT, Min({size[1], Largest[1]}),
                           Min({size[2], Largest[2]}))
       /\ term = NewTerminal(size)
  /\ saved = <<>> /\ frozen = FALSE
  /\ pc = "idle" /\ info = <<>> /\ readBuf = <<>> /\ force = FALSE
  /\ steps = 0 /\ resizes = 0 /\ paper = <<>> /\ base = 0 /\ erased = {}
  /\ missed = FALSE /\ misled = FALSE /\ blind = FALSE
  /\ moved = FALSE /\ cleared = FALSE /\ synced = FALSE /\ refused = FALSE

Agent ==
  \/ Scrape \/ (\E size \in Sizes : Resize(size))
  \/ ReadInfo \/ SetMode \/ Direct \/ ScrollFrozen
  \/ FindMarker \/ ReadLines \/ CheckInfo \/ CheckMarker
  \/ EraseForResize \/ ShrinkWindow \/ ResizeBuffer \/ ExpandWindow \/ EndRound

Next ==
  \/ Agent
  \/ Write \/ Home \/ ShowOrHide \/ ClearScreen \/ Enter \/ Leave

Spec == Init /\ [][Next]_vars

-----------------------------------------------------------------------------
Line(p) == IF p < gone THEN paper[p + 1] ELSE con.rows[p - gone]

(* How a terminal understands sgr parameters.                               *)
Select(r, p) ==
  CASE p = 1          -> [r EXCEPT !.bold = TRUE]
    [] p = 4          -> [r EXCEPT !.under = TRUE]
    [] p = 7          -> [r EXCEPT !.invert = TRUE]
    [] p = 8          -> [r EXCEPT !.conceal = TRUE]
    [] p \in 30..37   -> [r EXCEPT !.fore = p - 30]
    [] p \in 40..47   -> [r EXCEPT !.back = p - 40]
    [] p \in 90..97   -> [r EXCEPT !.fore = p - 82]
    [] p \in 100..107 -> [r EXCEPT !.back = p - 92]

(* A terminal that is light grey on black, and one that is black on white.  *)
Schemes == {[fore |-> 7, back |-> 0], [fore |-> 0, back |-> 15]}

Look(sgr, scheme) ==
  LET r == FoldLeft(Select, [fore |-> scheme.fore, back |-> scheme.back, bold |-> FALSE,
                             under |-> FALSE, invert |-> FALSE, conceal |-> FALSE],
                    Tail(sgr))
  IN IF r.invert THEN [r EXCEPT !.fore = r.back, !.back = r.fore] ELSE r

(* Text can be read in any scheme, unless its colour is the background's;   *)
(* the background has the console's colour, but black and white are the     *)
(* terminal's own two colours.                                              *)
Fits(sgr, attr, blank) ==
  \A scheme \in Schemes :
    LET look == Look(sgr, scheme)
        back == Back(attr)
    IN /\ look.back = CASE back = BLACK -> scheme.back
                        [] back = WHITE -> scheme.fore
                        [] OTHER        -> ColorNumber(back)
       /\ ~blank => /\ look.under = attr.under
                    /\ look.conceal = (Fore(attr) = back)
                    /\ look.conceal \/ look.fore # look.back

Attributes == {kDefaultAttributes} \cup {Colored[c].attr : c \in DOMAIN Colored}
FitsTable == [sgr \in {outputSetColor(a) : a \in Attributes}, a \in Attributes,
              b \in BOOLEAN |-> Fits(sgr, a, b)]

(* Row r of the terminal starts with these cells.                           *)
ShowsCell(shown, cell) ==
  /\ shown[1] = fixSpecialCharacters(Cell(cell).ch)
  /\ FitsTable[shown[2], Attr(cell), IsBlank(cell)]

Displays(r, cells) ==
  LET seen == Masked(cells, con.modern)
  IN /\ r \in 1..Len(term.rows) \/ \A i \in 1..Len(seen) : IsBlank(seen[i])
     /\ r \in 1..Len(term.rows) =>
          LET row == Filled(term.rows[r], Len(cells))
          IN \A i \in 1..Len(cells) : ShowsCell(row[i], seen[i])

(* What direct mode shows of the window.                                    *)
mirrorCols == Min({con.winW, scr.ptySize[1]})
mirrorRows == Min({con.winH, scr.ptySize[2]})

MarkerShows ==
  \E r \in con.top..(con.top + con.winH - 1) : con.rows[r][1] = Marker(scr)

(* The child has done nothing since before the last scrape began, and the   *)
(* scraper can know what the child has done before: no line was lost before *)
(* a marker was in the buffer, no CLS came in the middle of a round, and no *)
(* resize has left the terminal a line above its screen to draw.            *)
InSync == synced /\ ~missed /\ ~misled /\ ~(term.stopped /\ resizes > 0)

(* Then the terminal shows every line that the child has written since the  *)
(* terminal was last cleared, once and in order, however far the buffer has *)
(* scrolled - those aside that were erased above the window - and never the *)
(* marker; in direct mode it shows the window.                              *)
ShowsPaper ==
  InSync =>
    IF scr.directMode
      THEN \A k \in 1..mirrorRows :
             Displays(k, SubSeq(con.rows[con.top + k - 1], 1, mirrorCols))
      ELSE /\ \A p \in base..(gone + con.top + con.winH - 1) :
                p \notin erased => Displays(p - base + 1, Line(p))
           /\ scr.syncRow # NoMarker => ~MarkerShows

(* The terminal's cursor is where the console's is, or hidden as that is.   *)
(* (After a reset of the tracking the agent takes a hidden one for shown.)  *)
CursorPlaced ==
  LET first  == IF scr.directMode THEN con.top ELSE base - gone
      inside == IF scr.directMode
                  THEN con.x < mirrorCols /\ con.y \in con.top..(con.top + mirrorRows - 1)
                  ELSE cursorInside(Info(con))
  IN IF con.visible /\ inside
       THEN /\ term.shown \/ blind
            /\ term.x = con.x /\ term.y = con.y - first + 1
       ELSE ~term.shown

CursorShown == InSync => CursorPlaced

(* What a scrape reads lies in the buffer, and holds all that it goes on to *)
(* look at (an assertion; old consoles crash on a read outside the buffer). *)
(* After a CLS in the middle of a round it need not: when that round starts *)
(* over and then resizes, it leaves the marker in the window, and the lines *)
(* that scroll away with it were never counted as scraped.                  *)
ReadsInsideBuffer ==
  pc = "scroll" /\ ~cleared /\ ~misled =>
    LET p == Prepare(Round, info, ~frozen)
        rows == DOMAIN Read(con, p.rd.scr, info)
    IN p.ok => /\ rows \subseteq 0..(con.h - 1)
               /\ FirstVirtLine(p.rd.scr, info) - p.rd.scr.scrolled \in rows
               /\ p.rd.scr.dirty >= 1

(* The marker is in the history: no line of the window holds it after a     *)
(* scrape.  But a tentative scrape that has got out of step starts over by  *)
(* the place where the window was.                                          *)
MarkerInHistory ==
  pc = "end" /\ scr.syncRow # NoMarker => ~MarkerShows

(* No call of a resize fails that the child has not upset, and the window   *)
(* then has the terminal's size.                                            *)
ResizeFits ==
  /\ ~refused
  /\ pc = "end" /\ force /\ ~moved =>
       con.winW = visibleCols /\ con.winH = visibleRows
=============================================================================
