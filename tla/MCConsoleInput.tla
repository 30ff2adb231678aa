--------------------------- MODULE MCConsoleInput ---------------------------
(***************************************************************************)
(* ConsoleInput for TLC: units of every kind the scanner tells apart, each *)
(* with the ways it may be heard, and the scripts made of them.            *)
(***************************************************************************)
EXTENDS ConsoleInput

Press(vk, ch, state) == [vk |-> vk, ch |-> ch, state |-> state]
Unit(bytes, hears) == [bytes |-> bytes, hears |-> hears, open |-> FALSE]
Open(bytes, hears) == [bytes |-> bytes, hears |-> hears, open |-> TRUE]
Chars(chars) == [i \in 1..Len(chars) |-> Press("none", chars[i], {})]

(* A key, the same for a child that reads escape sequences.                 *)
LetterX  == Unit(<<120>>, {<<Press("key", 120, {})>>, Chars(<<120>>)})
CtrlCKey == Unit(<<3>>, {<<Press("ctrl-c", 0, {})>>,
                         <<Press("C", 3, {"ctrl"})>>, Chars(<<3>>)})
AltX     == Unit(<<27, 120>>, {<<Press("key", 120, {"alt"})>>,
                               Chars(<<27, 120>>)})
EAcute   == Unit(<<195, 169>>, {<<Press("none", 233, {})>>})
Cyclone  == Unit(<<240, 159, 140, 128>>, {Chars(<<55356, 57088>>)})
AltCent  == Unit(<<27, 194, 162>>, {<<Press("none", 162, {"alt"})>>,
                                    Chars(<<27, 162>>)})
Overlong == Unit(<<192, 128>>, {<<>>})
Stray    == Unit(<<128>>, {<<>>})
Up       == Unit(<<27, 91, 65>>, {<<Press("UP", 0, {"enhanced"})>>,
                                  <<Press("UP", 0, {"message"})>>})
AltUp    == Unit(<<27, 27, 91, 65>>, {<<Press("UP", 0, {"enhanced", "alt"})>>,
                                      Chars(<<27, 91, 49, 59, 51, 65>>)})
CtrlDel  == Unit(<<27, 91, 51, 59, 53, 126>>,
                 {<<Press("DELETE", 0, {"enhanced", "ctrl"})>>,
                  Chars(<<27, 91, 51, 59, 53, 126>>)})
F1Linux  == Unit(<<27, 91, 91, 65>>, {<<Press("F1", 0, {})>>,
                                      Chars(<<27, 91, 49, 49, 126>>)})
Escape   == Open(<<27>>, {<<Press("ESCAPE", 27, {})>>, Chars(<<27>>)})
AltO     == Open(<<27, 79>>, {<<Press("key", 79, {"alt", "shift"})>>,
                              Chars(<<27, 79>>)})

(* Mouse reports, in two of the encodings: button 0 pressed, moved while    *)
(* down, released, and released as the newer encoding has it.               *)
MouseAt(bytes, held) == Unit(<<27, 91>> \o bytes, {<<>>, <<Press("mouse", held, {})>>})
Down1  == MouseAt(<<77, 32, 33, 33>>, 1)
Drag1  == MouseAt(<<77, 64, 33, 33>>, 1)
Up1    == MouseAt(<<77, 35, 33, 33>>, 0)
Up06   == MouseAt(<<60, 48, 59, 49, 59, 49, 109>>, 0)

Keys == {LetterX, CtrlCKey, AltX, EAcute, Cyclone, AltCent, Overlong, Stray,
         Up, AltUp, CtrlDel, F1Linux, Escape, AltO}

Scripts ==
  {<<a, EAcute>> : a \in Keys}
  \cup {<<a, b>> : a \in {Escape, Up, EAcute}, b \in {Escape, CtrlCKey, Up}}
Reports == {<<Down1, Up1, Down1>>, <<Down1, Drag1>>, <<Down1, Up06>>}

(* Replies with the cursor at row 2, column 1 and at row 1, column 5: the   *)
(* latter behind ESC is Ctrl-Alt-F3.                                        *)
ReplyAt(position) == Unit(<<27, 91>> \o position \o <<82>>, {<<>>})
Row2 == ReplyAt(<<50, 59, 49>>)
Row1 == ReplyAt(<<49, 59, 53>>)

MCSessions ==
  {[types |-> s, replies |-> {Row1, Row2}] : s \in Scripts}
  \cup {[types |-> s, replies |-> {Row2}] : s \in Reports}

MCModes == {{"extended", "escape"}}
=============================================================================
