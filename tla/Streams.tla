------------------------------- MODULE Streams -------------------------------
(***************************************************************************)
(* Cutting a stream of bytes: std::string's erase(0, n) and substr(0, n),  *)
(* std::min; and the content of four buffers in a row.                     *)
(***************************************************************************)
EXTENDS Integers, Sequences

Least(a, b) == IF a < b THEN a ELSE b

First(s, n) == SubSeq(s, 1, n)
From(s, n)  == SubSeq(s, n + 1, Len(s))

Row(a, b, c, d) == a \o b \o c \o d
=============================================================================
