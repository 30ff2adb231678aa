---------------------------- MODULE ConsoleInput ----------------------------
(***************************************************************************)
(* ConsoleInput: the bytes a terminal sends become key presses and mouse   *)
(* events in the console's input buffer.                                   *)
(*                                                                         *)
(* The bytes arrive cut anywhere.  What may be the beginning of a longer   *)
(* sequence stays in m_byteQueue; the agent then asks the terminal for a   *)
(* Device Status Report (DSR), whose reply shows that nothing belonging to *)
(* the bytes before it is missing, and after a second without input takes  *)
(* the bytes for what they are.  One action is one call by the agent's     *)
(* loop, one step of the terminal or of the child.                         *)
(***************************************************************************)
EXTENDS Integers, Sequences, FiniteSets, FiniteSetsExt, SequencesExt,
        InputMap, Unicode

CONSTANTS
  Sessions,    \* what the terminal's user may type, a sequence of units, and
               \* the units that are the terminal's DSR replies to it
  MouseMode,   \* m_mouseMode: "none", "auto" or "force"
  Modes,       \* the console modes the child may set
  MaxModes,    \* bound: how often it does
  Width, Height, \* m_mouseWindowRect, whose corner is at 0, 0
  Timeout      \* kIncompleteEscapeTimeoutMs, in ticks

(* A unit: its bytes, the ways its press may be heard in the console, and   *)
(* whether longer sequences begin with its bytes.                           *)
Units ==
  UNION {s.replies \cup {s.types[i] : i \in 1..Len(s.types)} : s \in Sessions}

ASSUME InputAssumption ==
  /\ Timeout \in Nat /\ MaxModes \in Nat
  /\ \A s \in Sessions : s.types \in Seq(Units)
  /\ \A u \in Units : DOMAIN u = {"bytes", "hears", "open"} /\ u.bytes \in Seq(0..255)

VARIABLES
  script,      \* the units still to be typed
  replies,     \* the replies the terminal may give
  typed,       \* history: the units typed, and the replies
  wire,        \* bytes on the way to the agent
  asks,        \* sendDsr reaches the terminal: CONOUT open, not plain mode
  asked,       \* DSR requests the terminal has not answered
  mode,        \* the console's mode
  changes,     \* how often the child has set it
  flags,       \* the mode as of the last updateInputFlags
  byteQueue,   \* m_byteQueue
  since,       \* ticks since m_lastWriteTick
  dsrSent,     \* m_dsrSent
  buttons,     \* m_mouseButtonState
  click,       \* m_doubleClick
  console,     \* the input the console has received
  unheard,     \* history: a mouse report came that the child did not want
  torn,        \* history: the timeout has cut a unit in two
  rushed,      \* history: a unit was typed right behind an open one
  merged       \* history: a reply made one key with the open unit before it

terminalVars == <<script, replies, typed, rushed, merged>>
childVars    == <<mode, changes>>
inputVars    == <<byteQueue, since, dsrSent, buttons, click, console, unheard>>
vars == <<terminalVars, childVars, inputVars, wire, asks, asked, flags, torn>>

-----------------------------------------------------------------------------
(* The patterns of matchDsr and matchMouse...: runs of bytes.               *)
Run(bytes, least, most) == [of |-> bytes, least |-> least, most |-> most]
One(b) == Run({b}, 1, 1)
Digits == 48..57
Number == Run(Digits, 1, 7)         \* SCAN_INT(..., 8)
Sign   == Run({45}, 0, 1)           \* SCAN_SIGNED_INT's "-"
AnyByte == Run(0..255, 1, 1)

Dsr       == <<One(ESC), One(91), Number, One(59), Number, One(82)>>
Mouse1006 == <<One(ESC), One(91), One(60), Number, One(59), Sign, Number, One(59),
               Sign, Number, Run({77, 109}, 1, 1)>>
Mouse1015 == <<One(ESC), One(91), Number, One(59), Sign, Number, One(59),
               Sign, Number, One(77)>>
MouseDefault == <<One(ESC), One(91), One(77), AnyByte, AnyByte, AnyByte>>

(* CHECK and ADVANCE: where the next run begins; 0 if there is no match, -1 *)
(* if the input ends before the pattern does.                               *)
AfterRun(run, s, at) ==
  IF at <= 0 THEN at
  ELSE IF at > Len(s) THEN -1
  ELSE LET n == Min({run.most} \cup
                    {i \in 0..run.most : at + i > Len(s) \/ s[at + i] \notin run.of})
       IN IF n < run.least THEN 0 ELSE at + n

(* The length of the match.                                                 *)
Match(pattern, s) ==
  LET at[k \in 0..Len(pattern)] ==
        IF k = 0 THEN 1 ELSE AfterRun(pattern[k], s, at[k - 1])
      end == at[Len(pattern)]
  IN IF end > 0 THEN end - 1 ELSE end

matchDsr(s) == Match(Dsr, s)

IntOf(s) ==
  LET digits == SelectSeq(s, LAMBDA b : b \in Digits)
      value  == FoldLeft(LAMBDA n, b : n * 10 + b - 48, 0, digits)
  IN IF s[1] = 45 THEN -value ELSE value

(* A coordinate is cut to a SHORT.                                          *)
Short(n) == ((n + 32768) % 65536) - 32768

(* flags;x;y between the places first and last.                             *)
Report(s, len, first, flagsOffset, release) ==
  LET semi == {i \in first..len : s[i] = 59}
  IN [len |-> len, release |-> release,
      flags |-> IntOf(SubSeq(s, first, Min(semi) - 1)) - flagsOffset,
      x |-> Short(IntOf(SubSeq(s, Min(semi) + 1, Max(semi) - 1)) - 1),
      y |-> Short(IntOf(SubSeq(s, Max(semi) + 1, len - 1)) - 1)]

matchMouseRecord(s) ==
  LET m06 == Match(Mouse1006, s)
      m15 == Match(Mouse1015, s)
      m0  == Match(MouseDefault, s)
      none(len) == [len |-> len, release |-> FALSE, flags |-> 0,
                    x |-> 0, y |-> 0]
  IN IF m06 # 0
       THEN IF m06 > 0 THEN Report(s, m06, 4, 0, s[m06] = 109) ELSE none(-1)
     ELSE IF m15 # 0
       THEN IF m15 > 0 THEN Report(s, m15, 3, 32, FALSE) ELSE none(-1)
     ELSE IF m0 > 0
       THEN [len |-> m0, release |-> FALSE, flags |-> (s[4] - 32) % 256,
             x |-> (s[5] - 33) % 256, y |-> (s[6] - 33) % 256]
     ELSE none(m0)

-----------------------------------------------------------------------------
(* Input records.  st is the state of one call of doWrite: the members it   *)
(* changes, and the vector of records it has not flushed yet.               *)
KeyRecord(down, vk, ch, state) ==
  [type |-> "key", down |-> down, vk |-> vk, ch |-> ch, state |-> state]

Put(st, more) == [st EXCEPT !.records = @ \o more]

flushInputRecords(st) ==
  [st EXCEPT !.console = @ \o st.records, !.records = <<>>]

(* A key down or up, as one record per UTF-16 unit.                         *)
CPRecords(down, vk, code, state) ==
  LET units == encodeUtf16(code)
  IN [i \in 1..Len(units) |-> KeyRecord(down, vk, units[i], state)]

(* reencodeEscapedKeyPress: a child that has asked for escape sequences     *)
(* (mode 0x200) gets the key as the characters of one.                      *)
EscapeLetter ==
  "UP" :> 65 @@ "DOWN" :> 66 @@ "RIGHT" :> 67 @@ "LEFT" :> 68 @@
  "CLEAR" :> 69 @@ "HOME" :> 72 @@ "END" :> 70
EscapeNumber ==
  "F1" :> 11 @@ "F2" :> 12 @@ "F3" :> 13 @@ "F4" :> 14 @@ "F5" :> 15 @@
  "F6" :> 17 @@ "F7" :> 18 @@ "F8" :> 19 @@ "F9" :> 20 @@ "F10" :> 21 @@
  "F11" :> 23 @@ "F12" :> 24 @@ "INSERT" :> 2 @@ "DELETE" :> 3 @@
  "PRIOR" :> 5 @@ "NEXT" :> 6

EscapeChars(vk, code, state) ==
  LET bits == {m \in DOMAIN ModifierBit : m \in state}
      mod  == 1 + (IF "shift" \in bits THEN 1 ELSE 0)
                + (IF "alt" \in bits THEN 2 ELSE 0)
                + (IF "ctrl" \in bits THEN 4 ELSE 0)
      semi == IF bits = {} THEN <<>> ELSE <<59, 48 + mod>>
      alt  == IF "alt" \in state THEN <<ESC>> ELSE <<>>
  IN IF vk \in DOMAIN EscapeNumber
       THEN <<ESC, 91>> \o decOfInt(EscapeNumber[vk]) \o semi \o <<126>>
     ELSE IF vk \in DOMAIN EscapeLetter
       THEN <<ESC, 91>> \o (IF bits = {} THEN <<>> ELSE <<49>>) \o semi
              \o <<EscapeLetter[vk]>>
     ELSE IF vk = "BACK" THEN alt \o <<127>>
     ELSE IF vk = "TAB" /\ "shift" \in state THEN <<ESC, 91, 90>>
     ELSE IF code = 0 THEN <<>>
     ELSE alt \o encodeUtf16(code)

EscapeRecords(vk, code, state) ==
  LET chars == EscapeChars(vk, code, state)
  IN [i \in 1..Len(chars) |-> KeyRecord(TRUE, "none", chars[i], {})]

(* The modifiers pressed before a key and released after it, in this order, *)
(* each record with the modifiers then down.                                *)
ModifierKey ==
  "ctrl" :> "CONTROL" @@ "alt" :> "MENU" @@ "ralt" :> "MENU" @@ "shift" :> "SHIFT"

Held(state) ==
  LET one(m) == IF m \in state THEN <<m>> ELSE <<>>
  IN one("ctrl") \o one("alt") \o one("ralt") \o one("shift")

ModifierRecord(down, held, i, n) ==
  KeyRecord(down, ModifierKey[held[i]], 0,
            {held[j] : j \in 1..n} \cup
              IF held[i] = "ralt" THEN {"enhanced"} ELSE {})

ModifiersDown(state) ==
  LET held == Held(state)
  IN [i \in 1..Len(held) |-> ModifierRecord(TRUE, held, i, i)]

ModifiersUp(state) ==
  LET held == Held(state)
      n == Len(held)
  IN [i \in 1..n |-> ModifierRecord(FALSE, held, n + 1 - i, n - i)]

(* appendKeyPress.  A plain cursor key of an escape-reading child is sent   *)
(* as a window message, which the records before it must not be behind.     *)
Navigates(vk) == vk \in {"UP", "DOWN", "LEFT", "RIGHT", "HOME", "END"}

Message(down, vk) ==
  [type |-> "message", down |-> down, vk |-> vk, ch |-> 0, state |-> {}]

appendKeyPress(st, vk, chDown, chUp, state, code, vtState) ==
  LET escapes == "escape" \in st.flags
      flushed == flushInputRecords(st)
  IN IF escapes /\ Navigates(vk) /\ Held(state) = <<>>
       THEN [flushed EXCEPT !.console =
               @ \o <<Message(TRUE, vk), Message(FALSE, vk)>>]
     ELSE Put(st,
            ModifiersDown(state)
            \o (IF escapes THEN EscapeRecords(vk, code, vtState)
                ELSE CPRecords(TRUE, vk, chDown, state))
            \o CPRecords(FALSE, vk, chUp, state)
            \o ModifiersUp(state))

-----------------------------------------------------------------------------
(* VkKeyScan: the key that types a character - here letters, digits and     *)
(* Ctrl-<letter> - or none.                                                 *)
VkKeyScan(code) ==
  IF code \in 97..122 \cup 48..57 THEN [vk |-> "key", state |-> {}]
  ELSE IF code \in 65..90 THEN [vk |-> "key", state |-> {"shift"}]
  ELSE IF code = 13 THEN [vk |-> "RETURN", state |-> {}]
  ELSE IF code = 27 THEN [vk |-> "ESCAPE", state |-> {}]
  ELSE IF code \in 1..26 THEN [vk |-> "key", state |-> {"ctrl"}]
  ELSE IF code = 178 THEN [vk |-> "key", state |-> {"ctrl", "ralt"}]
  ELSE [vk |-> "none", state |-> {}]

appendUtf8Char(st, s, altEscape) ==
  LET code == decodeUtf8(s)
      scan == IF code > 65535 THEN [vk |-> "none", state |-> {}]
              ELSE VkKeyScan(code)
      alt  == IF altEscape THEN {"alt"} ELSE {}
      down == IF altEscape /\ "ctrl" \in scan.state THEN 0 ELSE code
  IN IF code = kInvalid THEN st
     ELSE appendKeyPress(st, scan.vk, down, IF altEscape THEN 0 ELSE down,
                         scan.state \cup alt, code, alt)

(* A key of the input map.                                                  *)
appendMatch(st, key) ==
  LET down == IF {"ctrl", "alt"} \subseteq key.state THEN 0 ELSE key.ch
      up   == IF "alt" \in key.state THEN 0 ELSE down
  IN appendKeyPress(st, key.vk, down, up, key.state, key.ch, key.state)

(* scanMouseInput.  Modifiers, wheel and motion are bits of the report's    *)
(* flags; button 3 is a release of any.  m_doubleClick.released is set and  *)
(* never read, and so left out.                                             *)
Bit(n, b) == (n \div b) % 2 = 1
NoClick   == [button |-> -1]
Within(v, size) == Max({0, Min({v, size - 1})})

BugNewlyPressed(st, m) ==      \* a motion with the button down presses it
  m.flags % 4 # 3 /\ ~m.release

NewlyPressed(st, m) ==
  m.flags % 4 # 3 /\ ~m.release /\ (m.flags % 4) \notin st.buttons

DoubleClicks(st, m) ==
  /\ NewlyPressed(st, m) /\ st.quick
  /\ st.click = [button |-> m.flags % 4, x |-> m.x, y |-> m.y]

Clicked(st, m) ==
  LET button == m.flags % 4
      held == IF button = 3 THEN {}
                 ELSE IF m.release THEN st.buttons \ {button}
                 ELSE st.buttons \cup {button}
      next == IF button # 3 /\ m.release /\ button # st.click.button THEN NoClick
               ELSE IF ~NewlyPressed(st, m) THEN st.click
               ELSE IF DoubleClicks(st, m) THEN NoClick
               ELSE [button |-> button, x |-> m.x, y |-> m.y]
  IN [st EXCEPT !.buttons = held, !.click = next]

MouseRecord(st, m, double, wheel) ==
  [type |-> "mouse", buttons |-> st.buttons, double |-> double,
   wheel |-> wheel, moved |-> ~wheel /\ Bit(m.flags, 32), up |-> wheel /\ m.flags % 4 = 0,
   state |-> {s \in {"shift", "alt", "ctrl"} :
                Bit(m.flags, 4 * (CASE s = "shift" -> 1 [] s = "alt" -> 2
                                    [] s = "ctrl" -> 4))},
   x |-> Within(m.x, Width), y |-> Within(m.y, Height)]

scanMouseInput(st, m) ==
  LET wheel == Bit(m.flags, 64)
      new   == IF wheel THEN st ELSE Clicked(st, m)
      record == MouseRecord(new, m, ~wheel /\ DoubleClicks(st, m), wheel)
  IN IF wheel /\ m.flags % 4 > 1 THEN st
     ELSE IF "mouse" \in st.flags /\ "quickEdit" \notin st.flags
       THEN Put(new, <<record>>)
     ELSE [new EXCEPT !.unheard = TRUE]

-----------------------------------------------------------------------------
(* scanInput: the next key, mouse report, DSR reply or character at the     *)
(* head of s; used is -1 when more bytes are needed to tell.                *)
Took(n, st) == [used |-> n, st |-> st]
More(st)    == [used |-> -1, st |-> st]

CtrlC(st) ==
  [st EXCEPT !.console = Append(@, [type |-> "ctrl-c"])]

AltLength(s) ==
  IF s[1] = ESC /\ Len(s) >= 2 /\ s[2] # ESC THEN utf8CharLength(s[2]) ELSE 0

ScanChar(st, s) ==
  LET alt == AltLength(s)
      len == utf8CharLength(s[1])
  IN IF alt > 0
       THEN IF 1 + alt > Len(s) THEN More(st)
            ELSE Took(1 + alt, appendUtf8Char(st, SubSeq(s, 2, 1 + alt), TRUE))
     ELSE IF len = 0 THEN Took(1, st)
     ELSE IF len > Len(s) THEN More(st)
     ELSE Took(len, appendUtf8Char(st, SubSeq(s, 1, len), FALSE))

BugScanMap(st, s, isEof) ==    \* a key cut in two is not waited for
  LET found == lookupKey(s)
  IN IF found.len > 0 THEN Took(found.len, appendMatch(st, found.key))
     ELSE ScanChar(st, s)

ScanMap(st, s, isEof) ==
  LET found == lookupKey(s)
  IN IF found.incomplete /\ ~isEof THEN More(st)
     ELSE IF found.len > 0 THEN Took(found.len, appendMatch(st, found.key))
     ELSE ScanChar(st, s)

GotReply(st) == [st EXCEPT !.dsrSent = FALSE]

scanInput(st, s, isEof) ==
  LET dsr   == matchDsr(s)
      mouse == matchMouseRecord(s)
  IN IF s[1] = 3 /\ "processed" \in st.mode
       THEN Took(1, CtrlC(flushInputRecords(st)))
     ELSE IF dsr > 0 THEN Took(dsr, GotReply(st))
     ELSE IF dsr = -1 /\ ~isEof THEN More(st)
     ELSE IF mouse.len > 0 THEN Took(mouse.len, scanMouseInput(st, mouse))
     ELSE IF mouse.len = -1 /\ ~isEof THEN More(st)
     ELSE ScanMap(st, s, isEof)

(* doWrite: scan until the queue is empty or more is needed, then flush.    *)
(* Each scan that takes anything takes a byte.                              *)
Advance(done, r) ==
  IF r.used = -1 THEN [done EXCEPT !.more = TRUE]
  ELSE [done EXCEPT !.st = r.st, !.rest = SubSeq(@, r.used + 1, Len(@))]

ScanOne(done, isEof) ==
  IF done.rest = <<>> \/ done.more THEN done
  ELSE Advance(done, scanInput(done.st, done.rest, isEof))

Scan(st, s, isEof) ==
  LET after[n \in 0..Len(s)] ==
        IF n = 0 THEN [st |-> st, rest |-> s, more |-> FALSE]
        ELSE ScanOne(after[n - 1], isEof)
  IN [after[Len(s)] EXCEPT !.st = flushInputRecords(@)]

doWrite(s, isEof, quick, nowFlags) ==
  Scan([records |-> <<>>, console |-> console, dsrSent |-> dsrSent,
        buttons |-> buttons, click |-> click, unheard |-> unheard, quick |-> quick,
        flags |-> nowFlags, mode |-> mode], s, isEof)

Written(st) ==
  /\ console' = st.console /\ buttons' = st.buttons /\ click' = st.click
  /\ unheard' = st.unheard

-----------------------------------------------------------------------------
(* A new console, and the constructor: quick edit is on exactly when the    *)
(* child decides about the mouse.                                           *)
Init ==
  /\ \E s \in Sessions : script = s.types /\ replies = s.replies
  /\ typed = <<>> /\ wire = <<>>
  /\ asks \in BOOLEAN /\ asked = 0
  /\ mode = {"processed", "mouse", "extended"} \cup
              IF MouseMode = "auto" THEN {"quickEdit"} ELSE {}
  /\ flags = mode /\ changes = 0
  /\ byteQueue = <<>> /\ since = 0 /\ dsrSent = FALSE
  /\ buttons = {} /\ click = NoClick
  /\ console = <<>> /\ unheard = FALSE
  /\ torn = FALSE /\ rushed = FALSE /\ merged = FALSE

(* The terminal: a unit, or the reply to a request.  An open unit not yet   *)
(* heard, and a reply right behind it, may be the bytes of one key: ESC and *)
(* the reply for row 1 are Ctrl-Alt-F3, or F3 with other modifiers.         *)
BehindOpen == typed # <<>> /\ Last(typed).open /\ byteQueue \o wire # <<>>

IsOneKey(bytes) == lookupKey(bytes).len = Len(bytes)

Type ==
  /\ script # <<>>
  /\ LET unit == Head(script)
     IN /\ typed' = Append(typed, unit)
        /\ wire' = wire \o unit.bytes
  /\ rushed' = (rushed \/ BehindOpen)
  /\ script' = Tail(script)
  /\ UNCHANGED <<replies, merged, childVars, inputVars, asks, asked, flags, torn>>

Reply ==
  /\ asked > 0
  /\ \E unit \in replies :
       /\ typed' = Append(typed, unit)
       /\ wire' = wire \o unit.bytes
       /\ merged' = (merged \/ (/\ BehindOpen
                                /\ IsOneKey(Last(typed).bytes \o unit.bytes)))
  /\ asked' = asked - 1
  /\ UNCHANGED <<script, replies, rushed, childVars, inputVars, asks, flags, torn>>

(* quick: GetTickCount has moved by less than GetDoubleClickTime since the  *)
(* last click; two clicks within one call are.                              *)
Quick == IF click = NoClick THEN {TRUE} ELSE BOOLEAN

BugAsks(st, rest) == rest # <<>>   \* asks although a request is outstanding

AsksDsr(st, rest) == rest # <<>> /\ ~st.dsrSent

(* Agent::sendDsr.                                                          *)
sendDsr == asked' = IF asks THEN asked + 1 ELSE asked

writeInput(input, quick) ==
  \E done \in {doWrite(byteQueue \o input, FALSE, quick, flags)} :
    LET ask == AsksDsr(done.st, done.rest)
    IN /\ Written(done.st)
       /\ byteQueue' = done.rest
       /\ dsrSent' = (done.st.dsrSent \/ ask)
       /\ IF ask THEN sendDsr ELSE UNCHANGED asked
       /\ since' = 0

(* What has come in is written at once, or byte by byte as a debug flag has *)
(* it.                                                                      *)
pollConinPipe ==
  /\ \E n \in 1..Len(wire), quick \in Quick :
       /\ writeInput(SubSeq(wire, 1, n), quick)
       /\ wire' = SubSeq(wire, n + 1, Len(wire))
  /\ UNCHANGED <<terminalVars, childVars, asks, flags, torn>>

(* The bytes on the way are whole units: none has been delivered in part.   *)
BytesOf(units) == FlattenSeq([i \in 1..Len(units) |-> units[i].bytes])

AtBoundary ==
  \E k \in 0..Len(typed) : wire = BytesOf(SubSeq(typed, k + 1, Len(typed)))

(* onPollTimeout: updateInputFlags, and flushIncompleteEscapeCode when it   *)
(* is time.  What is no character even at the end is dropped.               *)
BugFlushDue ==                 \* the reply is waited for, however long
  byteQueue # <<>> /\ since > Timeout /\ ~dsrSent

FlushDue == byteQueue # <<>> /\ since > Timeout

PollTimeout ==
  /\ flags' = mode
  /\ IF FlushDue
       THEN \E quick \in Quick :
              \E done \in {doWrite(byteQueue, TRUE, quick, mode)} :
                /\ Written(done.st)
                /\ byteQueue' = <<>>
                /\ dsrSent' = done.st.dsrSent
                /\ torn' = (torn \/ ~AtBoundary)
                /\ UNCHANGED since
       ELSE UNCHANGED <<inputVars, torn>>
  /\ UNCHANGED <<terminalVars, childVars, wire, asks, asked>>

Tick ==
  /\ byteQueue # <<>> /\ since <= Timeout
  /\ since' = since + 1
  /\ UNCHANGED <<terminalVars, childVars, wire, asks, asked, flags, byteQueue,
                 dsrSent, buttons, click, console, unheard, torn>>

(* The child: SetConsoleMode.                                               *)
SetMode ==
  /\ changes < MaxModes /\ changes' = changes + 1
  /\ mode' \in Modes
  /\ UNCHANGED <<terminalVars, inputVars, wire, asks, asked, flags, torn>>

Next == Type \/ Reply \/ pollConinPipe \/ PollTimeout \/ Tick \/ SetMode

Spec == Init /\ [][Next]_vars
(* The agent's timer goes on firing and the clock on ticking.  The first is *)
(* WF_vars(PollTimeout) with what enables the step spelled out, for TLC to  *)
(* evaluate quickly.                                                        *)
Fairness ==
  /\ []<>~(FlushDue \/ flags # mode) \/ []<><<PollTimeout>>_vars
  /\ WF_vars(Tick)

FairSpec == Spec /\ Fairness

-----------------------------------------------------------------------------
(* What the console has heard: keys going down, without the modifier keys   *)
(* that accompany them, window messages, Ctrl-C and the mouse.              *)
Hearing(r) ==
  CASE r.type = "key" -> [vk |-> r.vk, ch |-> r.ch, state |-> r.state]
    [] r.type = "message" -> [vk |-> r.vk, ch |-> 0, state |-> {"message"}]
    [] r.type = "ctrl-c" -> [vk |-> "ctrl-c", ch |-> 0, state |-> {}]
    [] r.type = "mouse" ->
         [vk |-> "mouse", ch |-> Cardinality(r.buttons), state |-> r.state]

Heard ==
  LET counts(r) ==
        r.type \in {"key", "message"} =>
          r.down /\ r.vk \notin {"CONTROL", "MENU", "SHIFT"}
      heard == SelectSeq(console, counts)
  IN [i \in 1..Len(heard) |-> Hearing(heard[i])]

(* All the ways the units may be heard, one after the other.                *)
Hearings(units) ==
  FoldLeft(LAMBDA ways, u : {w \o h : w \in ways, h \in u.hears},
           {<<>>}, units)

(* However the bytes are cut, the console hears the keys that were typed,   *)
(* in order, each once, and never a DSR reply - unless the timeout has cut  *)
(* a unit in two, a unit was typed right behind one that longer sequences   *)
(* begin with (ESC and x are Alt-x), or a reply has come so and the two are *)
(* one key.  When no bytes are left it has heard all.                       *)
KeysAsTyped ==
  ~torn /\ ~rushed /\ ~merged =>
    \E n \in 0..Len(typed) :
      /\ Heard \in Hearings(SubSeq(typed, 1, n))
      /\ wire \o byteQueue = <<>> => n = Len(typed)

(* There is at most one request out, and m_dsrSent is true then: none is    *)
(* made twice.  When no bytes are left it is true only then: an answered    *)
(* request does not keep the agent from asking again - unless its reply has *)
(* made one key with the open unit before it.  Agent.cc:254-257 presumes    *)
(* that a reply does not split a keypress; the one to ESC from a terminal   *)
(* whose cursor is in row 1 does, and if it is read as that key m_dsrSent   *)
(* stays true for good, no request is made any more and only the timeout    *)
(* ends an incomplete sequence.                                             *)
DsrLatch ==
  asks /\ ~torn /\ ~rushed =>
    /\ asked = 1 => dsrSent
    /\ wire \o byteQueue = <<>> => \/ dsrSent <=> asked = 1
                                   \/ merged /\ dsrSent /\ asked = 0

(* The mouse records of what is heard, and the buttons that are down in     *)
(* one of them and were not in the one before it.                           *)
MouseRecords(heard) == {k \in DOMAIN heard : heard[k].type = "mouse"}

Precedes(heard, i, k) == i < k /\ \A j \in MouseRecords(heard) : j < k => j <= i

Presses(heard, k) ==
  {b \in heard[k].buttons :
     \A i \in MouseRecords(heard) : Precedes(heard, i, k) => b \notin heard[i].buttons}

(* A double click is the second of two presses of one button at one place,  *)
(* between which the mouse was heard to do something: the button has gone   *)
(* up.  A report that was not wanted, with mouse input off, may be missing. *)
IsFirstOf(heard, first, second) ==
  /\ ~heard[first].double
  /\ Presses(heard, first) = Presses(heard, second) /\ Presses(heard, first) # {}
  /\ heard[first].x = heard[second].x /\ heard[first].y = heard[second].y
  /\ \E up \in MouseRecords(heard) : first < up /\ up < second

TwoPresses(heard) ==
  \A second \in MouseRecords(heard) :
    heard[second].double =>
      \E first \in MouseRecords(heard) : IsFirstOf(heard, first, second)

DoubleClickIsTwoPresses == ~unheard => TwoPresses(console)

(* Bytes do not stay in the queue for ever: in the end they are keys, or    *)
(* dropped, whether the terminal answers or not.                            *)
InputDrains == (byteQueue # <<>>) ~> (byteQueue = <<>>)
=============================================================================
