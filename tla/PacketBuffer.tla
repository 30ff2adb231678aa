--------------------------- MODULE PacketBuffer ----------------------------
(***************************************************************************)
(* What libwinpty and the agent say to one another: WriteBuffer and        *)
(* ReadBuffer, the three requests and their replies.                       *)
(*                                                                         *)
(* A packet is its size and pieces, each a tag and a number or a string    *)
(* that is preceded by its length.  A wchar_t is one byte; NUL is 0.       *)
(***************************************************************************)
EXTENDS Integers, Sequences, FiniteSets, SequencesExt, Streams

CONSTANTS
  Base,       \* how many values a byte has
  Width,      \* sizeof, by type: Int32, Int64 and the Size of anything
  Handles,    \* what DuplicateHandle may make of a handle
  Errors,     \* what GetLastError may be
  Processes   \* the lists GetConsoleProcessList may give

Tag == [Int32 |-> 0, Int64 |-> 1, WString |-> 2]
Byte == 0..(Base - 1)

(* A number, shifted right by 0 to width bytes: one that fits into them is  *)
(* 0 in the end.                                                            *)
Shifted(v, width) ==
  LET right[i \in 0..width] == IF i = 0 THEN v ELSE right[i - 1] \div Base
  IN right
Fits(v, width) == v \in Nat /\ Shifted(v, width)[width] = 0

LittleEndian(v, width) == [i \in 1..width |-> Shifted(v, width)[i - 1] % Base]

Number(bytes) ==
  LET n == Len(bytes)
      last[k \in 0..n] == IF k = 0 THEN 0 ELSE bytes[n + 1 - k] + Base * last[k - 1]
  IN last[n]

Int32(v)   == [type |-> "Int32", v |-> v]
Int64(v)   == [type |-> "Int64", v |-> v]
WString(s) == [type |-> "WString", v |-> s]

(* putInt32, putInt64, putWString; newPacket and writePacket.               *)
Put(piece) ==
  <<Tag[piece.type]>> \o
  IF piece.type = "WString"
    THEN LittleEndian(Len(piece.v), Width.Size) \o piece.v
    ELSE LittleEndian(piece.v, Width[piece.type])

Payload(pieces) == FlattenSeq([i \in DOMAIN pieces |-> Put(pieces[i])])
Packet(pieces) ==
  LittleEndian(Width.Size + Len(Payload(pieces)), Width.Size) \o Payload(pieces)

(* ReadBuffer: what is left to read, what has been read, and whether a      *)
(* DecodeError has been thrown - where less is left than is asked for, or   *)
(* the piece is another one.                                                *)
Reading(buf) == [buf |-> buf, got |-> <<>>, bad |-> FALSE]

HeadOf(type) == IF type = "WString" THEN Width.Size ELSE Width[type]

Get(in, type) ==
  LET rest  == From(in.buf, 1)
      head  == HeadOf(type)
      n     == Number(First(rest, head))
      whole == IF type = "WString" THEN head + n ELSE head
  IN IF \/ in.bad \/ in.buf = <<>> \/ First(in.buf, 1) # <<Tag[type]>>
        \/ Len(rest) < head \/ Len(rest) < whole
       THEN [in EXCEPT !.bad = TRUE]
     ELSE [buf |-> From(rest, whole), bad |-> FALSE,
           got |-> Append(in.got, IF type = "WString" THEN SubSeq(rest, head + 1, whole)
                                  ELSE n)]

(* getRawValue of the packet's size, which is not looked at again; pieces   *)
(* of these types; and the end (assertEof).                                 *)
SkipSize(bytes) ==
  IF Len(bytes) < Width.Size THEN [Reading(bytes) EXCEPT !.bad = TRUE]
  ELSE Reading(From(bytes, Width.Size))
GetAll(in, types) ==
  LET upTo[k \in 0..Len(types)] == IF k = 0 THEN in ELSE Get(upTo[k - 1], types[k])
  IN upTo[Len(types)]
AssertEof(in) == IF in.buf = <<>> THEN in ELSE [in EXCEPT !.bad = TRUE]

-----------------------------------------------------------------------------
(* An environment is <<>> where the caller gives none, or <<strings>>.  As a *)
(* block it is the strings, each with its NUL, and one NUL more; the empty  *)
(* block has another.                                                       *)
EnvBlock(env) ==
  IF env = <<>> THEN <<>>
  ELSE FlattenSeq([i \in DOMAIN env[1] |-> env[1][i] \o <<0>>]) \o
       IF env[1] = <<>> THEN <<0, 0>> ELSE <<0>>

AgentMsg == [spawn |-> 0, size |-> 1, list |-> 2]
StartProcessResult == [failed |-> 0, created |-> 1]

(* winpty_spawn_config_new.                                                 *)
SpawnConfig(r) == [r EXCEPT !.env = EnvBlock(@)]

Flag(b) == Int32(IF b THEN 1 ELSE 0)

(* winpty_spawn, winpty_set_size and winpty_get_console_process_list.       *)
RequestPieces(r) ==
  <<Int32(AgentMsg[r.op])>> \o
  IF r.op = "spawn"
    THEN <<Int64(r.flags), Flag(r.wantProcess), Flag(r.wantThread),
           WString(r.program), WString(r.cmdline), WString(r.cwd),
           WString(SpawnConfig(r).env), WString(r.desktop)>>
  ELSE IF r.op = "size" THEN <<Int32(r.cols), Int32(r.rows)>>
  ELSE <<>>

(* What Agent::handlePacket's handlers read.  No client sends a packet of a *)
(* fourth type, which the agent skips.                                      *)
Operands(type) ==
  IF type = AgentMsg.spawn
    THEN <<"Int64", "Int32", "Int32", "WString", "WString", "WString", "WString", "WString">>
  ELSE IF type = AgentMsg.size THEN <<"Int32", "Int32">>
  ELSE <<>>

(* The environment is what CreateProcess makes of the block: strings up to  *)
(* the empty one.  A block without its last NUL, which it would read past,  *)
(* is an error.                                                             *)
NoStrings == [strings |-> <<>>, string |-> <<>>, ended |-> FALSE]

Walked(at, c) ==
  IF at.ended THEN at
  ELSE IF c # 0 THEN [at EXCEPT !.string = Append(@, c)]
  ELSE IF at.string = <<>> THEN [at EXCEPT !.ended = TRUE]
  ELSE [strings |-> Append(at.strings, at.string), string |-> <<>>, ended |-> FALSE]

EnvStrings(block) ==
  LET walk[i \in 0..Len(block)] ==
        IF i = 0 THEN NoStrings ELSE Walked(walk[i - 1], block[i])
  IN walk[Len(block)].strings

DoublyTerminated(block) ==
  Len(block) >= 2 /\ block[Len(block)] = 0 /\ block[Len(block) - 1] = 0

DecodeError == [op |-> "decode error"]

Meaning(type, g) ==
  IF type = AgentMsg.size THEN [op |-> "size", cols |-> g[1], rows |-> g[2]]
  ELSE IF type = AgentMsg.list THEN [op |-> "list"]
  ELSE IF g[7] # <<>> /\ ~DoublyTerminated(g[7]) THEN DecodeError
  ELSE [op |-> "spawn", flags |-> g[1], wantProcess |-> g[2] # 0,
        wantThread |-> g[3] # 0, program |-> g[4], cmdline |-> g[5], cwd |-> g[6],
        env |-> IF g[7] = <<>> THEN <<>> ELSE <<EnvStrings(g[7])>>, desktop |-> g[8]]

Understood(bytes) ==
  LET in   == Get(SkipSize(bytes), "Int32")
      type == Last(in.got)
      all  == AssertEof(GetAll(Reading(in.buf), Operands(type)))
  IN IF in.bad \/ all.bad THEN DecodeError ELSE Meaning(type, all.got)

-----------------------------------------------------------------------------
(* The replies: the handles, where they are asked for; the error; the       *)
(* processes.                                                               *)
HandleFor(want) == IF want THEN Handles ELSE {0}

Outcomes(r) ==
  IF r.op = "spawn"
    THEN [result : {"created"}, process : HandleFor(r.wantProcess),
          thread : HandleFor(r.wantThread)]
         \cup [result : {"failed"}, error : Errors]
  ELSE IF r.op = "size" THEN [result : {"sized"}]
  ELSE [result : {"listed"}, processes : Processes]

ReplyPieces(o) ==
  IF o.result = "created"
    THEN <<Int32(StartProcessResult.created), Int64(o.process), Int64(o.thread)>>
  ELSE IF o.result = "failed" THEN <<Int32(StartProcessResult.failed), Int32(o.error)>>
  ELSE IF o.result = "sized" THEN <<>>
  ELSE <<Int32(Len(o.processes))>> \o [i \in DOMAIN o.processes |-> Int32(o.processes[i])]

(* The calls' reading of a reply's payload; the caller's array is as long   *)
(* as the list.                                                             *)
Answer(r, payload) ==
  LET first == Get(Reading(payload), "Int32")
      n     == first.got[1]
      types == IF r.op = "list" THEN [i \in 1..n |-> "Int32"]
               ELSE IF n = StartProcessResult.created THEN <<"Int64", "Int64">> ELSE <<"Int32">>
      all   == AssertEof(GetAll(Reading(first.buf), types))
  IN IF r.op = "size"
       THEN [result |-> IF payload = <<>> THEN "sized" ELSE "decode error"]
     ELSE IF first.bad \/ all.bad THEN [result |-> "decode error"]
     ELSE IF r.op = "list" THEN [result |-> "listed", processes |-> all.got]
     ELSE IF n = StartProcessResult.created
       THEN [result |-> "created", process |-> all.got[1], thread |-> all.got[2]]
     ELSE [result |-> "failed", error |-> all.got[1]]

-----------------------------------------------------------------------------
(* The requests and replies there may be: numbers of their types, strings   *)
(* without NUL where a NUL ends them, packets whose size is a number.       *)
Text == Seq(Byte)
Setting == Seq(Byte \ {0}) \ {<<>>}
Environment == {<<>>} \cup [{1} -> Seq(Setting)]

PacketFits(pieces) == Fits(Width.Size + Len(Payload(pieces)), Width.Size)

IsRequest(r) ==
  /\ \/ r \in [op : {"list"}]
     \/ /\ r \in [op : {"size"}, cols : Nat, rows : Nat]
        /\ Fits(r.cols, Width.Int32) /\ Fits(r.rows, Width.Int32)
     \/ /\ r \in [op : {"spawn"}, flags : Nat, wantProcess : BOOLEAN,
                  wantThread : BOOLEAN, program : Text, cmdline : Text,
                  cwd : Text, env : Environment, desktop : Text]
        /\ Fits(r.flags, Width.Int64)
  /\ PacketFits(RequestPieces(r))
  /\ \A o \in Outcomes(r) : PacketFits(ReplyPieces(o))

ASSUME CodecAssumption ==
  /\ Base \in Nat /\ Base > 2
  /\ Width \in [{"Size", "Int32", "Int64"} -> Nat \ {0}]
  /\ \A h \in Handles : Fits(h, Width.Int64)
  /\ \A e \in Errors : Fits(e, Width.Int32)
  /\ \A p \in Processes :
       /\ p \in Seq(Nat) /\ Fits(Len(p), Width.Int32)
       /\ \A i \in DOMAIN p : Fits(p[i], Width.Int32)
=============================================================================
