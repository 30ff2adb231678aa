------------------------------ MODULE InputMap ------------------------------
(***************************************************************************)
(* The keys a terminal's escape sequences stand for: the tables of         *)
(* DefaultInputMap.cc, their expansion, and InputMap's prefix tree.        *)
(*                                                                         *)
(* Bytes are numbers: 27 is ESC, 59 is ";", 91 is "[", 79 is "O", 126 is   *)
(* "~".  The tree is the function from encodings to keys; its nodes are    *)
(* the prefixes of its domain.                                             *)
(***************************************************************************)
EXTENDS Integers, Sequences, FiniteSets, FiniteSetsExt, TLC

CONSTANT Mods   \* bound: the modifiers 2..8 of an encoding that are expanded

ASSUME ModsAssumption == Mods \subseteq 2..8

ESC == 27

Key(vk, ch, state) == [vk |-> vk, ch |-> ch, state |-> state]
NoKey == Key("none", 0, {})

(* One row per group of rows with the same prefix and modifiers; id is      *)
(* the row's letter or number.                                              *)
Rows(alt, prefix, forms, keys) ==
  {[alt |-> alt, prefix |-> prefix, forms |-> forms, id |-> id,
    key |-> keys[id]] : id \in DOMAIN keys}

Arrows(first, state) ==        \* "A" to "D", or "a" to "d"
  [id \in first..(first + 3) |->
     Key(<<"UP", "DOWN", "RIGHT", "LEFT">>[id - first + 1], 0, state)]
Clear    == 69 :> Key("CLEAR", 0, {}) @@ 71 :> Key("CLEAR", 0, {})
HomeEnd  == 72 :> Key("HOME", 0, {}) @@ 70 :> Key("END", 0, {})
F1toF4   == [id \in 80..83 |->
               Key(<<"F1", "F2", "F3", "F4">>[id - 79], 0, {})]
Numpad   ==
  77 :> Key("RETURN", 13, {})   @@ 106 :> Key("MULTIPLY", 42, {}) @@
  107 :> Key("ADD", 43, {})     @@ 109 :> Key("SUBTRACT", 45, {}) @@
  111 :> Key("DIVIDE", 47, {})  @@
  [id \in {110} \cup 112..121 |->
     Key(CASE id = 110 -> "DELETE" [] id = 112 -> "INSERT"
           [] id = 113 -> "END"    [] id = 114 -> "DOWN"
           [] id = 115 -> "NEXT"   [] id = 116 -> "LEFT"
           [] id = 117 -> "CLEAR"  [] id = 118 -> "RIGHT"
           [] id = 119 -> "HOME"   [] id = 120 -> "UP"
           [] id = 121 -> "PRIOR", 0, {})]

escapeLetterEncodings ==
  UNION {
    Rows(TRUE, 91, {"bare", "bareMod", "semiMod"}, Arrows(65, {})),
    Rows(TRUE, 79, {"bare"}, Arrows(65, {})),
    Rows(TRUE, 91, {"bare"}, Arrows(97, {"shift"})),
    Rows(TRUE, 79, {"bare"}, Arrows(97, {"ctrl"})),
    Rows(TRUE, 91, {"bare", "semiMod"}, Clear),
    Rows(TRUE, 79, {"bare"}, 71 :> Key("CLEAR", 0, {})),
    Rows(TRUE, 91, {"bare", "bareMod", "semiMod"}, HomeEnd),
    Rows(TRUE, 79, {"bare"}, HomeEnd),
    Rows(TRUE, 91, {"semiMod"}, F1toF4),
    Rows(FALSE, 79, {"bare", "bareMod", "semiMod"}, F1toF4),
    Rows(TRUE, 79, {"bare", "bareMod"}, Numpad),
    Rows(TRUE, 91, {"bare", "semiMod"}, Numpad),
    Rows(FALSE, 91, {"bare"}, 90 :> Key("TAB", 9, {"shift"}))}

NumericKeys ==
  [id \in (1..8) \cup (11..15) \cup (17..21) \cup {23, 24} |->
     Key(CASE id \in {1, 7} -> "HOME" [] id = 2 -> "INSERT"
           [] id = 3 -> "DELETE" [] id \in {4, 8} -> "END"
           [] id = 5 -> "PRIOR" [] id = 6 -> "NEXT"
           [] id \in 11..15 -> <<"F1", "F2", "F3", "F4", "F5">>[id - 10]
           [] id \in 17..21 -> <<"F6", "F7", "F8", "F9", "F10">>[id - 16]
           [] id = 23 -> "F11" [] id = 24 -> "F12", 0, {})]
  @@
  [id \in {25, 26, 28, 29} \cup 31..34 |->
     Key(CASE id = 25 -> "F3" [] id = 26 -> "F4" [] id = 28 -> "F5"
           [] id = 29 -> "F6" [] id = 31 -> "F7" [] id = 32 -> "F8"
           [] id = 33 -> "F9" [] id = 34 -> "F10", 0, {"shift"})]

escapeNumericEncodings == Rows(TRUE, 91, {"bare", "semiMod"}, NumericKeys)

-----------------------------------------------------------------------------
decOfInt(i) == IF i < 10 THEN <<48 + i>> ELSE <<48 + i \div 10, 48 + (i % 10)>>

ModifierBit == [shift |-> 1, alt |-> 2, ctrl |-> 4]

keyStateForMod(mod) ==
  {m \in DOMAIN ModifierBit : ((mod - 1) \div ModifierBit[m]) % 2 = 1}

Enhanced(vk) == vk \in {"UP", "DOWN", "LEFT", "RIGHT", "INSERT", "DELETE",
                        "HOME", "END", "PRIOR", "NEXT"}

(* The key of a row with more modifiers: Ctrl changes what some keys type.  *)
Modified(key, extra) ==
  LET state == key.state \cup extra
      ch == IF "ctrl" \notin state THEN key.ch
            ELSE IF key.vk \in {"ADD", "DIVIDE", "MULTIPLY", "SUBTRACT"} THEN 0
            ELSE IF key.vk = "RETURN" THEN 10 ELSE key.ch
  IN Key(key.vk, ch, IF Enhanced(key.vk) THEN state \cup {"enhanced"} ELSE state)

Entry(encoding, key, extra) ==
  [encoding |-> encoding, key |-> Modified(key, extra)]

(* The suffixes of a number, all of kSuffixBoth: "~", "$", "^" and "@".     *)
Suffixed(row, start, extra) ==
  {Entry(Append(start, suffix[1]), row.key, extra \cup suffix[2]) :
     suffix \in {<<126, {}>>, <<36, {"shift"}>>, <<94, {"ctrl"}>>,
                 <<64, {"shift", "ctrl"}>>}}

LetterForms(row, start, extra) ==
  {Entry(Append(start, row.id), row.key, extra) :
     x \in IF "bare" \in row.forms THEN {1} ELSE {}}
  \cup
  {Entry(start \o <<48 + mod, row.id>>, row.key, extra \cup keyStateForMod(mod)) :
     mod \in IF "bareMod" \in row.forms THEN Mods ELSE {}}
  \cup
  {Entry(start \o <<49, 59, 48 + mod, row.id>>, row.key,
         extra \cup keyStateForMod(mod)) :
     mod \in IF "semiMod" \in row.forms THEN Mods ELSE {}}

NumericForms(row, start, extra) ==
  Suffixed(row, start \o decOfInt(row.id), extra)
  \cup UNION {Suffixed(row, start \o decOfInt(row.id) \o <<59, 48 + mod>>,
                       extra \cup keyStateForMod(mod)) : mod \in Mods}

(* expandEncoding: with and without the ESC that means Alt.                 *)
Starts(row) ==
  {<<<<ESC, row.prefix>>, {}>>} \cup
  {<<<<ESC, ESC, row.prefix>>, {"alt"}>> : x \in IF row.alt THEN {1} ELSE {}}

simpleEncodings ==
  {Entry(<<127>>, Key("BACK", 8, {}), {}),
   Entry(<<ESC, 127>>, Key("BACK", 8, {"alt"}), {}),
   Entry(<<3>>, Key("C", 3, {"ctrl"}), {})}
  \cup UNION {LET vk == <<"F1", "F2", "F3", "F4", "F5">>[i]
              IN {Entry(<<ESC, 91, 91, 64 + i>>, Key(vk, 0, {}), {}),
                  Entry(<<ESC, ESC, 91, 91, 64 + i>>, Key(vk, 0, {"alt"}), {})} :
              i \in 1..5}

Began(rows) ==
  UNION {{[row |-> row, bytes |-> s[1], state |-> s[2]] : s \in Starts(row)} : row \in rows}

DefaultEntries ==
  UNION {LetterForms(b.row, b.bytes, b.state) : b \in Began(escapeLetterEncodings)}
  \cup UNION {NumericForms(b.row, b.bytes, b.state) : b \in Began(escapeNumericEncodings)}
  \cup simpleEncodings

(* The tree after addDefaultEntriesToInputMap; no encoding is set twice.    *)
inputMap ==
  [e \in {n.encoding : n \in DefaultEntries} |->
     (CHOOSE n \in DefaultEntries : n.encoding = e).key]

(* The nodes with children.                                                 *)
InnerNodes ==
  UNION {{SubSeq(e, 1, i) : i \in 0..(Len(e) - 1)} : e \in DOMAIN inputMap}

(* The longest prefix of the input with a key, and whether the input ends   *)
(* at a node that has children.                                             *)
lookupKey(input) ==
  LET len == Max({0} \cup {i \in 1..Len(input) :
                             SubSeq(input, 1, i) \in DOMAIN inputMap})
  IN [len |-> len,
      key |-> IF len = 0 THEN NoKey ELSE inputMap[SubSeq(input, 1, len)],
      incomplete |-> input \in InnerNodes]
=============================================================================
