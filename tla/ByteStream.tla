----------------------------- MODULE ByteStream -----------------------------
(***************************************************************************)
(* What an output pipe promises the program and its peer, without workers, *)
(* buffers or a loop: a stream of bytes that arrives in order, of which    *)
(* the peer sees the end only after it has received everything, unless     *)
(* the peer itself breaks the connection.                                  *)
(***************************************************************************)
EXTENDS Integers, Sequences

CONSTANT Byte

VARIABLES
  sent,      \* the bytes written before the end of the stream
  received,  \* the bytes the peer has read
  status     \* "open", "ended" by the writer, "eof" seen, or "broken"

vars == <<sent, received, status>>

Init ==
  /\ sent \in Seq(Byte)
  /\ received = <<>>
  /\ status = "open"

Send ==
  /\ status = "open"
  /\ \E b \in Byte : sent' = Append(sent, b)
  /\ UNCHANGED <<received, status>>

Receive ==
  /\ status # "eof"
  /\ \E n \in (Len(received) + 1)..Len(sent) : received' = SubSeq(sent, 1, n)
  /\ UNCHANGED <<sent, status>>

End ==
  /\ status = "open"
  /\ status' = "ended"
  /\ UNCHANGED <<sent, received>>

SeeEof ==
  /\ status = "ended"
  /\ received = sent
  /\ status' = "eof"
  /\ UNCHANGED <<sent, received>>

(* Once broken, nothing is said about what was sent; a part may arrive.     *)
Break ==
  /\ status \in {"open", "ended", "broken"}
  /\ status' = "broken"
  /\ sent' \in Seq(Byte)
  /\ UNCHANGED received

Next == Send \/ Receive \/ End \/ SeeEof \/ Break

Spec == Init /\ [][Next]_vars
=============================================================================
