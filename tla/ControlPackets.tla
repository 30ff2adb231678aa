--------------------------- MODULE ControlPackets ---------------------------
(***************************************************************************)
(* The control pipe byte by byte: packets into a stream and out of it.     *)
(* The agent's end is Agent::pollControlPipe on top of NamedPipe's input   *)
(* worker.                                                                 *)
(*                                                                         *)
(* A packet begins with its size.  The agent handles it when all of it is  *)
(* in inQueue, and the worker reads no more once inQueue holds             *)
(* readBufferSize bytes - so a packet longer than that must raise the      *)
(* limit, or the agent and the client wait for one another for ever.       *)
(* The agent must not rely on the client's waiting for a reply before its  *)
(* next request, and here it does not wait.                                *)
(***************************************************************************)
EXTENDS Integers, Sequences, FiniteSets, Streams, PacketBuffer

CONSTANTS
  Requests,    \* what the client asks for, in this order
  InitialSize, \* setReadBufferSize in connectToControlPipe
  IoSize,      \* kIoSize
  Quota        \* bytes the kernel buffers

ASSUME PacketsAssumption ==
  /\ Len(Requests) \in Nat /\ DOMAIN Requests = 1..Len(Requests)
  /\ \A k \in 1..Len(Requests) : IsRequest(Requests[k])
  /\ InitialSize \in Nat /\ InitialSize >= Width.Size
  /\ IoSize \in Nat \ {0} /\ Quota \in Nat \ {0}

VARIABLES
  pc,             \* "service", "callback", "wait" or "failed"
  didSomething,   \* what serviceIo is going to return
  readBufferSize, \* m_readBufferSize
  pending,        \* a ReadFile is outstanding
  inQueue,        \* m_inQueue
  wire,           \* bytes in the kernel
  sent,           \* bytes of which packet the client writes next: <<k, i>>
  replies,        \* bytes of replies on their way
  handled,        \* history: the requests carried out, and how they went
  answered        \* the payloads of the replies the client has read

vars == <<pc, didSomething, readBufferSize, pending, inQueue, wire, sent,
          replies, handled, answered>>

(* The packets there are, what the agent makes of each and what it may      *)
(* reply.  Other bytes are garbage.                                         *)
Request(k) == Packet(RequestPieces(Requests[k]))
Reply(o)   == Packet(ReplyPieces(o))

Packets ==
  {LET request == Understood(Request(k))
   IN [k |-> k, bytes |-> Request(k), request |-> request,
       outcomes |-> {[outcome |-> o, bytes |-> Reply(o)] : o \in Outcomes(request)}]
     : k \in DOMAIN Requests}

Init ==
  /\ pc = "service" /\ didSomething = FALSE
  /\ readBufferSize = InitialSize
  /\ pending = FALSE
  /\ inQueue = <<>> /\ wire = <<>>
  /\ sent = <<1, 0>>
  /\ replies = <<>> /\ handled = <<>> /\ answered = <<>>

-----------------------------------------------------------------------------
(* IoWorker::service of the input worker: a pended read has ended, or a new *)
(* one finds data; it takes what is there, and the worker loops.            *)
ReadData ==
  /\ pc = "service" /\ wire # <<>>
  /\ pending \/ Len(inQueue) < readBufferSize
  /\ inQueue' = inQueue \o First(wire, Least(Len(wire), IoSize))
  /\ wire' = From(wire, Least(Len(wire), IoSize))
  /\ pending' = FALSE
  /\ didSomething' = TRUE
  /\ UNCHANGED <<pc, readBufferSize, sent, replies, handled, answered>>

(* Nothing to read, so a read stays outstanding; or inQueue is full.        *)
ServiceEnd ==
  /\ pc = "service"
  /\ wire = <<>> \/ (~pending /\ Len(inQueue) >= readBufferSize)
  /\ pending' = (pending \/ Len(inQueue) < readBufferSize)
  /\ pc' = IF didSomething THEN "callback" ELSE "wait"
  /\ UNCHANGED <<didSomething, readBufferSize, inQueue, wire, sent, replies, handled,
                 answered>>

(* pollControlPipe: the size is peeked, the packet read and handled, the    *)
(* reply written.  One that cannot be decoded fails an ASSERT.              *)
BugPacketSize == Number(First(inQueue, Width.Size)) - Width.Size  \* the header left out
PacketSize == Number(First(inQueue, Width.Size))

HandlePacket ==
  /\ pc = "callback"
  /\ Len(inQueue) >= Width.Size
  /\ PacketSize >= Width.Size => Len(inQueue) >= PacketSize
  /\ \/ \E p \in Packets :
          /\ p.bytes = First(inQueue, PacketSize) /\ p.request.op # "decode error"
          /\ \E o \in p.outcomes :
               /\ handled' = Append(handled, [request |-> p.request, outcome |-> o.outcome])
               /\ replies' = replies \o o.bytes
          /\ inQueue' = From(inQueue, PacketSize)
          /\ UNCHANGED pc
     \/ /\ \A p \in Packets :
             p.bytes # First(inQueue, PacketSize) \/ p.request.op = "decode error"
        /\ pc' = "failed"
        /\ UNCHANGED <<inQueue, replies, handled>>
  /\ UNCHANGED <<didSomething, readBufferSize, pending, wire, sent, answered>>

(* setReadBufferSize: the limit is raised to what the packet needs.         *)
BugNotRaised == readBufferSize
Raised == IF readBufferSize < PacketSize THEN PacketSize ELSE readBufferSize

(* The packet is incomplete; the loop goes on with another round.           *)
PollEnd ==
  /\ pc = "callback"
  /\ \/ /\ Len(inQueue) < Width.Size
        /\ UNCHANGED readBufferSize
     \/ /\ Len(inQueue) >= Width.Size
        /\ PacketSize >= Width.Size /\ Len(inQueue) < PacketSize
        /\ readBufferSize' = Raised
  /\ pc' = "service" /\ didSomething' = FALSE
  /\ UNCHANGED <<pending, inQueue, wire, sent, replies, handled, answered>>

WakeUp ==
  /\ pc = "wait"
  /\ pending /\ wire # <<>>
  /\ pc' = "service" /\ didSomething' = FALSE
  /\ UNCHANGED <<readBufferSize, pending, inQueue, wire, sent, replies, handled,
                 answered>>

Agent == ReadData \/ ServiceEnd \/ HandlePacket \/ PollEnd \/ WakeUp

(* libwinpty writes a request; the kernel takes a part of it as long as it  *)
(* has room.                                                                *)
ClientWrites ==
  /\ sent[1] <= Len(Requests) /\ Len(wire) < Quota
  /\ \E p \in Packets :
       /\ p.k = sent[1]
       /\ \E n \in 1..Least(Quota - Len(wire), Len(p.bytes) - sent[2]) :
         /\ wire' = wire \o SubSeq(p.bytes, sent[2] + 1, sent[2] + n)
         /\ sent' = IF sent[2] + n = Len(p.bytes)
                      THEN <<sent[1] + 1, 0>> ELSE <<sent[1], sent[2] + n>>
  /\ UNCHANGED <<pc, didSomething, readBufferSize, pending, inQueue, replies, handled,
                 answered>>

(* readPacket: readAll for the size, and again for the payload.             *)
ClientReads ==
  /\ Len(replies) >= Width.Size
  /\ LET size == Number(First(replies, Width.Size)) IN
       /\ Len(replies) >= size
       /\ answered' = Append(answered, SubSeq(replies, Width.Size + 1, size))
       /\ replies' = From(replies, size)
  /\ UNCHANGED <<pc, didSomething, readBufferSize, pending, inQueue, wire, sent, handled>>

Next == Agent \/ ClientWrites \/ ClientReads

Spec == Init /\ [][Next]_vars
FairSpec == Spec /\ WF_vars(Agent) /\ WF_vars(ClientWrites) /\ WF_vars(ClientReads)

-----------------------------------------------------------------------------
(* However the stream is cut on its way, the agent carries out the requests *)
(* that were made, with the same arguments and in order, and every call     *)
(* returns what the agent did for it.                                       *)
PacketsIntact ==
  /\ pc # "failed"
  /\ Len(handled) <= Len(Requests)
  /\ \A k \in 1..Len(handled) : handled[k].request = Requests[k]
  /\ \A k \in 1..Len(answered) : Answer(Requests[k], answered[k]) = handled[k].outcome

(* What this needs of each packet by itself: its first bytes are its size,  *)
(* and what is read out of it is what was put in.                           *)
Framed(bytes) ==
  /\ bytes \in Seq(Nat) /\ Len(bytes) >= Width.Size
  /\ Number(First(bytes, Width.Size)) = Len(bytes)

CodecIsFaithful ==
  \A k \in 1..Len(Requests) :
    /\ Framed(Request(k)) /\ Understood(Request(k)) = Requests[k]
    /\ Requests[k].op # "decode error"
    /\ \A o \in Outcomes(Requests[k]) :
         /\ Framed(Reply(o))
         /\ Answer(Requests[k], From(Reply(o), Width.Size)) = o

(* And of the pipe: let s be all the packets in a row, packet k from        *)
(* start[k] on.                                                             *)
IsStream(s, start) ==
  /\ s \in Seq(Nat)
  /\ start \in [1..(Len(Requests) + 1) -> 0..Len(s)]
  /\ start[1] = 0 /\ start[Len(Requests) + 1] = Len(s)
  /\ \A k \in 1..Len(Requests) :
       /\ start[k + 1] = start[k] + Len(Request(k))
       /\ Request(k) = SubSeq(s, start[k] + 1, start[k + 1])

Written(start) == start[sent[1]] + sent[2]
Handled(start) == start[Len(handled) + 1]

(* Then what is in the pipe and in inQueue begins with a packet.            *)
RequestsAligned(s, start) ==
  /\ sent \in (1..(Len(Requests) + 1)) \X Nat /\ Written(start) <= Len(s)
  /\ Len(handled) <= Len(Requests) /\ Handled(start) <= Written(start)
  /\ inQueue \o wire = SubSeq(s, Handled(start) + 1, Written(start))

(* So do the replies on their way: the one to request k ends at end[k].     *)
RepliesAligned(end) ==
  /\ end[Len(answered)] = 0 /\ end[Len(handled)] = Len(replies)
  /\ \A j, k \in Len(answered)..Len(handled) : j <= k => end[j] <= end[k]
  /\ \A k \in (Len(answered) + 1)..Len(handled) :
       /\ end[k] = end[k - 1] + Len(Reply(handled[k].outcome))
       /\ Reply(handled[k].outcome) = SubSeq(replies, end[k - 1] + 1, end[k])

RightSoFar ==
  /\ pc # "failed"
  /\ \A k \in 1..Len(handled) : /\ handled[k].request = Requests[k]
                                /\ handled[k].outcome \in Outcomes(Requests[k])
  /\ Len(answered) <= Len(handled)
  /\ \A k \in 1..Len(answered) : Answer(Requests[k], answered[k]) = handled[k].outcome

PacketTypes ==
  /\ pc \in {"service", "callback", "wait", "failed"}
  /\ {didSomething, pending} \subseteq BOOLEAN
  /\ readBufferSize \in Nat
  /\ inQueue \in Seq(Nat) /\ wire \in Seq(Nat) /\ replies \in Seq(Nat)
  /\ handled \in Seq([request : {Requests[k] : k \in 1..Len(Requests)},
                      outcome : UNION {Outcomes(Requests[k]) : k \in 1..Len(Requests)}])
  /\ answered \in Seq(Seq(Nat))

PacketsInv(s, start) ==
  /\ PacketTypes /\ RightSoFar /\ RequestsAligned(s, start)
  /\ \E end \in [0..Len(handled) -> 0..Len(replies)] : RepliesAligned(end)

(* The agent has always a read outstanding while it waits: a round that has *)
(* seen nothing leaves room in inQueue for the rest of the packet.          *)
KeepsReading ==
  /\ readBufferSize >= Width.Size
  /\ pc = "service" /\ ~didSomething => pending \/ Len(inQueue) < readBufferSize
  /\ pc = "wait" => pending

(* Every request is carried out in the end, one longer than the buffer too, *)
(* and every call returns.                                                  *)
EveryPacketHandled == <>(Len(answered) = Len(Requests))
=============================================================================
