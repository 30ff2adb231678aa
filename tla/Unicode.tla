------------------------------ MODULE Unicode ------------------------------
(***************************************************************************)
(* UnicodeEncoding.h: UTF-8 and UTF-16, as numbers.  A byte is in 0..255,  *)
(* a UTF-16 unit in 0..65535; masks and shifts are % and \div by powers of *)
(* two.  An encoder returns the empty sequence where the code returns 0.   *)
(***************************************************************************)
EXTENDS Integers, Sequences

kInvalid   == -1
Surrogates == 55296..57343
CodePoints == (0..1114111) \ Surrogates

encodeUtf8(code) ==
  LET tail(unit) == 128 + ((code \div unit) % 64)
  IN IF code < 128 THEN <<code>>
     ELSE IF code < 2048 THEN <<192 + code \div 64, tail(1)>>
     ELSE IF code \in Surrogates \/ code >= 1114112 THEN <<>>
     ELSE IF code < 65536
       THEN <<224 + code \div 4096, tail(64), tail(1)>>
       ELSE <<240 + code \div 262144, tail(4096), tail(64), tail(1)>>

encodeUtf16(code) ==
  IF code \in Surrogates \/ code >= 1114112 THEN <<>>
  ELSE IF code < 65536 THEN <<code>>
  ELSE <<55296 + (code - 65536) \div 1024, 56320 + ((code - 65536) % 1024)>>

decodeSurrogatePair(ch1, ch2) ==
  (ch1 - 55296) * 1024 + (ch2 - 56320) + 65536

(* The length of a character by its first byte; 0 if no character has it.   *)
utf8CharLength(b) ==
  IF b < 128 THEN 1
  ELSE IF b \in 192..223 THEN 2
  ELSE IF b \in 224..239 THEN 3
  ELSE IF b \in 240..247 THEN 4
  ELSE 0

Continues(b) == b \in 128..191

(* The character at the head of s, which holds all of its bytes.            *)
decodeUtf8(s) ==
  LET len   == utf8CharLength(s[1])
      whole == \A i \in 2..len : Continues(s[i])
      two   == (s[1] % 32) * 64 + (s[2] % 64)
      three == (s[1] % 16) * 4096 + (s[2] % 64) * 64 + (s[3] % 64)
      four  == (s[1] % 8) * 262144 + (s[2] % 64) * 4096 + (s[3] % 64) * 64
                 + (s[4] % 64)
  IN IF len = 1 THEN s[1]
     ELSE IF len = 0 \/ ~whole THEN kInvalid
     ELSE IF len = 2 THEN IF two > 127 THEN two ELSE kInvalid
     ELSE IF len = 3
       THEN IF three > 2047 /\ three \notin Surrogates THEN three ELSE kInvalid
       ELSE IF four \in 65536..1114111 THEN four ELSE kInvalid
=============================================================================
