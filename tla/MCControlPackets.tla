------------------------- MODULE MCControlPackets -------------------------
(***************************************************************************)
(* ControlPackets for TLC: requests shorter and longer than the buffer and *)
(* than a read; an environment that is empty, one that is not, and none.   *)
(***************************************************************************)
EXTENDS ControlPackets

Spawn(env) ==
  [op |-> "spawn", flags |-> 11, wantProcess |-> TRUE, wantThread |-> FALSE,
   program |-> <<>>, cmdline |-> <<5, 6>>, cwd |-> <<7>>, env |-> env,
   desktop |-> <<>>]

MCRequests == << [op |-> "size", cols |-> 7, rows |-> 2], Spawn(<< <<>> >>),
                 [op |-> "list"], Spawn(<<>>), Spawn(<< << <<4>>, <<5, 6>> >> >>) >>

(* Bytes are digits of base 8, and numbers as short as they can be, so that *)
(* packets are of a length that can be checked.                             *)
MCWidth == [Size |-> 2, Int32 |-> 1, Int64 |-> 2]

MCProcesses == {<<>>, <<3>>, <<4, 3>>}
=============================================================================
