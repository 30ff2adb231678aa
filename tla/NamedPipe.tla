------------------------------ MODULE NamedPipe ------------------------------
(***************************************************************************)
(* One pipe of the agent: the NamedPipe class with its two I/O workers,    *)
(* serviced by EventLoop::run, and the process at the other end.           *)
(*                                                                         *)
(* The agent never blocks on a pipe.  Bytes it writes are queued in        *)
(* outQueue; the output worker moves at most IoSize of them at a time into *)
(* its buffer and issues an overlapped WriteFile, which either completes   *)
(* at once or pends until the peer has made room.  The input worker keeps  *)
(* one overlapped ReadFile outstanding while inQueue is below its limit.   *)
(* serviceIo polls both workers and says whether anything happened, and    *)
(* the loop sleeps only when nothing did.                                  *)
(*                                                                         *)
(* The loop is one thread, the peer another process: every system call of  *)
(* the loop is a step of its own and the peer runs between any two.        *)
(***************************************************************************)
EXTENDS Integers, Sequences, Streams

CONSTANTS
  Byte,            \* the data; the pipe never looks at it
  IoSize,          \* kIoSize: the most bytes of one ReadFile or WriteFile
  ReadBufferSize,  \* m_readBufferSize: inQueue is not filled past this
  Quota,           \* bytes the kernel buffers in each direction
  Reading,         \* m_openMode & OpenMode::Reading
  Writing,         \* m_openMode & OpenMode::Writing
  Server,          \* openServerPipe (TRUE) or connectToServer (FALSE)
  HasTimer,        \* m_pollInterval > 0
  ExitOnClose,     \* the owner shuts the loop down when this pipe closes
  MaxOut,          \* bound: bytes the owner ever writes
  MaxIn            \* bound: bytes the peer ever writes

ASSUME SizesAssumption ==
  /\ IoSize \in Nat \ {0}
  /\ ReadBufferSize \in Nat \ {0}
  /\ Quota \in Nat
  /\ MaxOut \in Nat /\ MaxIn \in Nat

ASSUME ModeAssumption ==
  /\ {Reading, Writing, Server, HasTimer, ExitOnClose} \subseteq BOOLEAN
  /\ Reading \/ Writing

(* The one loop without a timer has a duplex pipe whose end is the loop's   *)
(* end: CreateDesktopLoop never calls setPollInterval, and its onPipeIo     *)
(* shuts down when the pipe is closed.                                      *)
ASSUME TimerAssumption == HasTimer \/ (Reading /\ ExitOnClose)

VARIABLES
  pc,          \* where the loop is in its round
  conn,        \* "connecting" (m_connectEvent set), "connected", "closed"
  didSomething,\* what serviceIo is going to return
  failed,      \* a worker returned ServiceResult::Error this round
  outQueue,    \* m_outQueue
  outPending,  \* OutputWorker::m_pending
  outIoSize,   \* OutputWorker::m_currentIoSize
  outRest,     \* the part of the pended write the kernel has not accepted
  inQueue,     \* m_inQueue
  inPending,   \* InputWorker::m_pending
  inBuf,       \* what the kernel has put into the pended read's buffer
  wireOut,     \* bytes in the kernel on their way to the peer
  wireIn,      \* bytes in the kernel on their way to the agent
  peer         \* "none" (not connected), "open", "eof", "closed"

(* What happened so far, for stating properties: every byte the owner       *)
(* wrote, the peer read, the peer wrote and the owner consumed, and whether *)
(* input has arrived that the owner has not been told of.                   *)
VARIABLES written, delivered, peerSent, consumed, untold

loopVars == <<pc, didSomething, failed>>
outVars  == <<outQueue, outPending, outIoSize, outRest>>
inVars   == <<inQueue, inPending, inBuf>>
wireVars == <<wireOut, wireIn, peer>>
history  == <<written, delivered, peerSent, consumed, untold>>
vars     == <<loopVars, conn, outVars, inVars, wireVars, history>>

-----------------------------------------------------------------------------
(* Definitions named Bug... are the code with a plausible bug; each shows     *)
(* that some property would notice.                                         *)
BugBytesToSend == Len(outQueue)   \* a pended write counts as sent
bytesToSend == Len(outQueue) + (IF outPending THEN outIoSize ELSE 0)
isConnected == conn = "connected"
isClosed    == conn = "closed"

(* GetOverlappedResult would not report ERROR_IO_INCOMPLETE.                *)
PeerGone   == peer = "closed"
WriteEnded == outRest = <<>> \/ PeerGone
ReadEnded  == inBuf # <<>> \/ PeerGone

(* The handles the round leaves in waitHandles, and whether one of them is  *)
(* signaled.                                                                *)
HasWaitHandle == conn = "connecting" \/ inPending \/ outPending
BugWaitSignaled ==                \* the output worker's event is left out
  \/ conn = "connecting" /\ peer # "none"
  \/ inPending /\ ReadEnded

WaitSignaled ==
  \/ conn = "connecting" /\ peer # "none"
  \/ inPending /\ ReadEnded
  \/ outPending /\ WriteEnded

Init ==
  /\ pc = "service"
  /\ conn = IF Server THEN "connecting" ELSE "connected"
  /\ peer = IF Server THEN "none" ELSE "open"
  /\ didSomething = FALSE /\ failed = FALSE
  /\ written \in IF Writing THEN {<<>>} \cup {<<b>> : b \in Byte} ELSE {<<>>}
  /\ Len(written) <= MaxOut
  /\ outQueue = written
  /\ outPending = FALSE /\ outIoSize = 0 /\ outRest = <<>>
  /\ inQueue = <<>> /\ inPending = FALSE /\ inBuf = <<>>
  /\ wireOut = <<>> /\ wireIn = <<>>
  /\ delivered = <<>> /\ peerSent = <<>> /\ consumed = <<>> /\ untold = FALSE

-----------------------------------------------------------------------------
(* serviceIo, up to the workers.  A closed pipe and one that is still       *)
(* connecting report nothing; a connection just made is progress.           *)
ServiceBegin ==
  /\ pc = "service"
  /\ failed' = FALSE
  /\ \/ /\ isClosed \/ (conn = "connecting" /\ peer = "none")
        /\ didSomething' = FALSE
        /\ pc' = "timer"
        /\ UNCHANGED conn
     \/ /\ conn = "connecting" /\ peer # "none"
        /\ conn' = "connected"
        /\ didSomething' = TRUE
        /\ pc' = "input"
     \/ /\ isConnected
        /\ didSomething' = FALSE
        /\ pc' = "input"
        /\ UNCHANGED conn
  /\ UNCHANGED <<outVars, inVars, wireVars, history>>

(* InputWorker::completeIo of a pended read that has ended well.            *)
InputComplete ==
  /\ pc = "input" /\ Reading
  /\ inPending /\ inBuf # <<>>
  /\ inQueue' = inQueue \o inBuf
  /\ inBuf' = <<>>
  /\ inPending' = FALSE
  /\ didSomething' = TRUE
  /\ untold' = TRUE
  /\ UNCHANGED <<pc, failed, conn, outVars, wireVars,
                 written, delivered, peerSent, consumed>>

BugReadPending == Reading /\ Len(inQueue) < ReadBufferSize
BugReadNoLimit == Reading /\ ~inPending
BugReadLimit   == Reading /\ ~inPending /\ Len(inQueue) + 1 < ReadBufferSize
ShouldIssueRead == Reading /\ ~inPending /\ Len(inQueue) < ReadBufferSize

(* ReadFile finds data and completes synchronously; the worker loops.       *)
InputRead ==
  /\ pc = "input"
  /\ ShouldIssueRead
  /\ wireIn # <<>>
  /\ LET n == Least(Len(wireIn), IoSize) IN
       /\ inQueue' = inQueue \o First(wireIn, n)
       /\ wireIn' = From(wireIn, n)
  /\ didSomething' = TRUE
  /\ untold' = TRUE
  /\ UNCHANGED <<pc, failed, conn, outVars, inPending, inBuf, wireOut, peer,
                 written, delivered, peerSent, consumed>>

(* ReadFile returns ERROR_IO_PENDING.                                       *)
InputPend ==
  /\ pc = "input"
  /\ ShouldIssueRead
  /\ wireIn = <<>> /\ ~PeerGone
  /\ inPending' = TRUE
  /\ pc' = "output"
  /\ UNCHANGED <<didSomething, failed, conn, outVars, inQueue, inBuf,
                 wireVars, history>>

(* The read fails: the peer is gone and everything it sent has been read.   *)
InputError ==
  /\ pc = "input" /\ Reading
  /\ PeerGone
  /\ \/ inPending /\ inBuf = <<>>
     \/ ShouldIssueRead /\ wireIn = <<>>
  /\ failed' = TRUE
  /\ pc' = "output"
  /\ UNCHANGED <<didSomething, conn, outVars, inVars, wireVars, history>>

(* The pended read is incomplete, or inQueue is full, or nothing is read.   *)
InputIdle ==
  /\ pc = "input"
  /\ ~ShouldIssueRead
  /\ inPending => ~ReadEnded
  /\ pc' = "output"
  /\ UNCHANGED <<didSomething, failed, conn, outVars, inVars, wireVars,
                 history>>

-----------------------------------------------------------------------------
OutputComplete ==
  /\ pc = "output" /\ Writing
  /\ outPending /\ outRest = <<>>
  /\ outPending' = FALSE
  /\ outIoSize' = 0
  /\ didSomething' = TRUE
  /\ UNCHANGED <<pc, failed, conn, outQueue, outRest, inVars, wireVars,
                 history>>

BugWritePending == Writing /\ outQueue # <<>>
ShouldIssueWrite == Writing /\ ~outPending /\ outQueue # <<>>
BugWriteSize == Len(outQueue)     \* more than the worker's buffer holds
WriteSize == Least(Len(outQueue), IoSize)
WireRoom  == IF Len(wireOut) < Quota THEN Quota - Len(wireOut) ELSE 0

(* WriteFile completes synchronously: the kernel has room for all of it.    *)
OutputWrite ==
  /\ pc = "output"
  /\ ShouldIssueWrite /\ ~PeerGone
  /\ WriteSize <= WireRoom
  /\ wireOut' = wireOut \o First(outQueue, WriteSize)
  /\ outQueue' = From(outQueue, WriteSize)
  /\ didSomething' = TRUE
  /\ UNCHANGED <<pc, failed, conn, outPending, outIoSize, outRest, inVars,
                 wireIn, peer, history>>

(* WriteFile returns ERROR_IO_PENDING: the kernel takes what fits and keeps *)
(* the rest.                                                                *)
OutputPend ==
  /\ pc = "output"
  /\ ShouldIssueWrite /\ ~PeerGone
  /\ WriteSize > WireRoom
  /\ wireOut' = wireOut \o First(First(outQueue, WriteSize), WireRoom)
  /\ outRest' = From(First(outQueue, WriteSize), WireRoom)
  /\ outQueue' = From(outQueue, WriteSize)
  /\ outPending' = TRUE
  /\ outIoSize' = WriteSize
  /\ pc' = "serviced"
  /\ UNCHANGED <<didSomething, failed, conn, inVars, wireIn, peer, history>>

(* The pended write fails, or a new one does after its bytes left outQueue. *)
OutputError ==
  /\ pc = "output" /\ Writing
  /\ PeerGone
  /\ \/ /\ outPending /\ outRest # <<>>
        /\ UNCHANGED outQueue
     \/ /\ ShouldIssueWrite
        /\ outQueue' = From(outQueue, WriteSize)
  /\ failed' = TRUE
  /\ pc' = "serviced"
  /\ UNCHANGED <<didSomething, conn, outPending, outIoSize, outRest, inVars,
                 wireVars, history>>

OutputIdle ==
  /\ pc = "output"
  /\ ~ShouldIssueWrite
  /\ outPending => ~WriteEnded
  /\ pc' = "serviced"
  /\ UNCHANGED <<didSomething, failed, conn, outVars, inVars, wireVars,
                 history>>

(* NamedPipe::closePipe: CancelIo, wait for both workers' I/O to end, drop  *)
(* the workers with whatever is in their buffers, CloseHandle.  The queues  *)
(* are left as they are.                                                    *)
closePipe ==
  /\ conn' = "closed"
  /\ outPending' = FALSE /\ outIoSize' = 0 /\ outRest' = <<>>
  /\ inPending' = FALSE /\ inBuf' = <<>>
  /\ UNCHANGED <<outQueue, inQueue>>

BugServiceEnd ==                  \* closing the pipe is not reported
  /\ pc = "serviced"
  /\ IF failed THEN closePipe ELSE UNCHANGED <<conn, outVars, inVars>>
  /\ pc' = IF didSomething THEN "callback" ELSE "timer"
  /\ UNCHANGED <<didSomething, failed, wireVars, history>>

(* The end of serviceIo: its result decides whether onPipeIo is called.     *)
ServiceEnd ==
  /\ pc = "serviced"
  /\ IF failed THEN closePipe ELSE UNCHANGED <<conn, outVars, inVars>>
  /\ didSomething' = (didSomething \/ failed)
  /\ pc' = IF didSomething \/ failed THEN "callback" ELSE "timer"
  /\ UNCHANGED <<failed, wireVars, history>>

-----------------------------------------------------------------------------
(* What the owner of the pipe does in a handler: nothing, take bytes from   *)
(* inQueue, write a byte, or close the pipe once everything is handed over  *)
(* (Agent::autoClosePipesForShutdown).                                      *)
read(n) ==
  /\ Reading
  /\ consumed' = consumed \o First(inQueue, n)
  /\ inQueue' = From(inQueue, n)
  /\ UNCHANGED <<conn, outVars, inPending, inBuf, written>>

write(b) ==
  /\ Writing
  /\ Len(written) < MaxOut
  /\ outQueue' = Append(outQueue, b)
  /\ written' = Append(written, b)
  /\ UNCHANGED <<conn, outPending, outIoSize, outRest, inVars, consumed>>

closeWhenFlushed ==
  /\ Writing
  /\ isConnected /\ bytesToSend = 0
  /\ closePipe
  /\ UNCHANGED <<written, consumed>>

Handler ==
  \/ UNCHANGED <<conn, outVars, inVars, written, consumed>>
  \/ \E n \in 1..Len(inQueue) : read(n)
  \/ \E b \in Byte : write(b)
  \/ ~ExitOnClose /\ closeWhenFlushed

(* onPipeIo.  The control pipe's owner shuts down when the pipe is closed.  *)
(* An owner leaves less in inQueue than its limit: pollConinPipe takes all  *)
(* there is, pollControlPipe all but a part of a packet, for which it       *)
(* raises the limit (module ControlPackets); CreateDesktopLoop takes none   *)
(* and is sent none.                                                        *)
OnPipeIo ==
  /\ pc = "callback"
  /\ untold' = FALSE
  /\ \/ /\ ExitOnClose /\ isClosed
        /\ pc' = "exited"
        /\ UNCHANGED <<conn, outVars, inVars, written, consumed>>
     \/ /\ ~(ExitOnClose /\ isClosed)
        /\ pc' = "timer"
        /\ Handler
        /\ Len(inQueue') < ReadBufferSize
  /\ UNCHANGED <<didSomething, failed, wireVars, delivered, peerSent>>

(* The poll interval has elapsed: onPollTimeout counts as progress.         *)
OnPollTimeout ==
  /\ pc = "timer" /\ HasTimer
  /\ pc' = "service"
  /\ Handler
  /\ UNCHANGED <<didSomething, failed, wireVars, delivered, peerSent, untold>>

RoundEnd ==
  /\ pc = "timer"
  /\ pc' = IF didSomething THEN "service" ELSE "wait"
  /\ UNCHANGED <<didSomething, failed, conn, outVars, inVars, wireVars,
                 history>>

(* WaitForMultipleObjects returns: a handle is signaled or the poll         *)
(* interval is over.                                                        *)
WakeUp ==
  /\ pc = "wait"
  /\ HasTimer \/ WaitSignaled
  /\ pc' = "service"
  /\ UNCHANGED <<didSomething, failed, conn, outVars, inVars, wireVars,
                 history>>

Loop ==
  \/ ServiceBegin
  \/ InputComplete \/ InputRead \/ InputPend \/ InputError \/ InputIdle
  \/ OutputComplete \/ OutputWrite \/ OutputPend \/ OutputError \/ OutputIdle
  \/ ServiceEnd
  \/ OnPipeIo \/ OnPollTimeout \/ RoundEnd \/ WakeUp

-----------------------------------------------------------------------------
(* The process at the other end, and the kernel in between.                 *)
PeerConnect ==
  /\ conn = "connecting" /\ peer = "none"
  /\ peer' = "open"
  /\ UNCHANGED <<loopVars, conn, outVars, inVars, wireOut, wireIn, history>>

(* A read takes what is buffered; the kernel tops the buffer up from the    *)
(* pended write.                                                            *)
PeerRead ==
  /\ peer = "open" /\ wireOut \o outRest # <<>>
  /\ LET ready == IF wireOut = <<>> THEN First(outRest, 1) ELSE wireOut
         rest  == IF wireOut = <<>> THEN From(outRest, 1) ELSE outRest
         more  == Least(Quota, Len(rest))
     IN /\ delivered' = delivered \o ready
        /\ wireOut' = First(rest, more)
        /\ outRest' = From(rest, more)
  /\ UNCHANGED <<loopVars, conn, outQueue, outPending, outIoSize, inVars,
                 wireIn, peer, written, peerSent, consumed, untold>>

PeerReadsEof ==
  /\ Writing
  /\ peer = "open" /\ isClosed /\ wireOut = <<>>
  /\ peer' = "eof"
  /\ UNCHANGED <<loopVars, conn, outVars, inVars, wireOut, wireIn, history>>

PeerWrite ==
  /\ Reading
  /\ peer = "open" /\ ~isClosed
  /\ Len(peerSent) < MaxIn
  /\ \E b \in Byte :
       /\ peerSent' = Append(peerSent, b)
       /\ \/ /\ inPending /\ inBuf = <<>>
             /\ inBuf' = <<b>>
             /\ UNCHANGED wireIn
          \/ /\ ~inPending \/ inBuf # <<>>
             /\ Len(wireIn) < Quota
             /\ wireIn' = Append(wireIn, b)
             /\ UNCHANGED inBuf
  /\ UNCHANGED <<loopVars, conn, outVars, inQueue, inPending, wireOut, peer,
                 written, delivered, consumed, untold>>

(* The peer closes its handle or dies; what it has not read is gone.        *)
PeerClose ==
  /\ peer = "open"
  /\ peer' = "closed"
  /\ wireOut' = <<>>
  /\ UNCHANGED <<loopVars, conn, outVars, inVars, wireIn, history>>

Peer == PeerConnect \/ PeerRead \/ PeerReadsEof \/ PeerWrite \/ PeerClose

Next == Loop \/ Peer

(* The loop's thread is scheduled: one of its steps is always taken when    *)
(* one can be.  The liveness properties below are about a peer that         *)
(* connects and reads until the end; it is free to write or to close.       *)
Fairness == WF_vars(Loop) /\ WF_vars(PeerConnect)
            /\ WF_vars(PeerRead) /\ WF_vars(PeerReadsEof)

Spec == Init /\ [][Next]_vars
FairSpec == Spec /\ Fairness

-----------------------------------------------------------------------------
TypeOK ==
  /\ pc \in {"service", "input", "output", "serviced", "callback", "timer",
             "wait", "exited"}
  /\ conn \in {"connecting", "connected", "closed"}
  /\ {didSomething, failed, outPending, inPending, untold} \subseteq BOOLEAN
  /\ outQueue \in Seq(Byte) /\ outRest \in Seq(Byte)
  /\ inQueue \in Seq(Byte) /\ inBuf \in Seq(Byte)
  /\ wireOut \in Seq(Byte) /\ wireIn \in Seq(Byte)
  /\ outIoSize \in 0..IoSize
  /\ peer \in {"none", "open", "eof", "closed"}
  /\ written \in Seq(Byte) /\ delivered \in Seq(Byte)
  /\ peerSent \in Seq(Byte) /\ consumed \in Seq(Byte)

(* While both ends are up, the bytes written are, in order, those the peer  *)
(* has, those in the kernel, those of the pended write and those queued:    *)
(* the workers' hand-overs between four buffers lose, repeat and reorder    *)
(* nothing (OutputWorker::shouldIssueIo, IoWorker::service).                *)
OutputConserved ==
  ~isClosed /\ ~PeerGone =>
    written = Row(delivered, wireOut, outRest, outQueue)

(* The same for input: what the peer sent is what the owner has consumed,   *)
(* inQueue, the pended read's buffer and the kernel's buffer, in order.     *)
InputConserved ==
  ~isClosed => peerSent = Row(consumed, inQueue, inBuf, wireIn)

(* What Agent::autoClosePipesForShutdown relies on: once bytesToSend() is 0 *)
(* on a connected pipe, the kernel or the peer has every byte written, so   *)
(* closing the pipe then loses none (a pended write counts as unsent).      *)
FlushedMeansHandedOver ==
  isConnected /\ ~PeerGone /\ bytesToSend = 0 =>
    written = delivered \o wireOut

(* A peer that reads until end-of-file has read everything written before   *)
(* the pipe was closed.                                                     *)
EofMeansEverything ==
  peer = "eof" => delivered \o outQueue = written

(* Memory for unread input is bounded: one full read past the limit, less   *)
(* a byte (InputWorker::shouldIssueIo).                                     *)
InputBounded == Len(inQueue) < ReadBufferSize + IoSize

(* What the kernel has for the loop, whether or not the loop asked for it:  *)
(* a client that connected; on a connected pipe, input (or the end of it)   *)
(* while inQueue is below its limit, room (or the end) for queued output,   *)
(* a write all of which was accepted.                                       *)
KernelHasNews ==
  \/ conn = "connecting" /\ peer # "none"
  \/ /\ isConnected /\ Reading /\ Len(inQueue) < ReadBufferSize
     /\ wireIn \o inBuf # <<>> \/ PeerGone
  \/ /\ isConnected /\ Writing /\ outQueue # <<>>
     /\ WireRoom > 0 \/ PeerGone
  \/ isConnected /\ outPending /\ outRest = <<>>

(* The loop never sleeps on news.  No input its owner has not been called   *)
(* back about and no failed pipe is left over from the round, and whatever  *)
(* the kernel has for the loop by now, also what came between a worker's    *)
(* look and the wait (NamedPipe.cc:96), signals a handle of the wait: no    *)
(* wake-up is lost, with a timer or without.                                *)
NeverSleepsOnNews ==
  pc = "wait" => /\ ~untold /\ ~failed
                 /\ KernelHasNews => WaitSignaled

(* EventLoop::run asserts that it never waits for nothing, forever.         *)
NeverWaitsBlind ==
  pc = "wait" => HasTimer \/ HasWaitHandle

(* The inductive invariant: the conservation laws above, and what keeps    *)
(* them true - who owns which buffer when.                                 *)
WriteAccounted ==
  /\ outRest # <<>> => outPending
  /\ outPending => outIoSize > 0
  /\ isClosed => ~outPending

ReadAccounted ==
  /\ inBuf # <<>> => inPending
  /\ inPending => Len(inQueue) < ReadBufferSize /\ Len(inBuf) <= IoSize
  /\ inPending /\ inBuf = <<>> => wireIn = <<>>
  /\ isClosed => ~inPending

ClosedConserved ==
  isClosed /\ ~PeerGone => written = Row(delivered, wireOut, <<>>, outQueue)

Stages ==
  /\ pc \in {"input", "output", "serviced"} => isConnected
  /\ failed => PeerGone
  /\ peer = "eof" => isClosed /\ wireOut = <<>>

IInv ==
  /\ TypeOK
  /\ WriteAccounted /\ ReadAccounted /\ Stages
  /\ OutputConserved /\ ClosedConserved
  /\ InputConserved /\ InputBounded

(* Why the loop sleeps only when it may: a round that saw anything ends in  *)
(* a callback and another round.  News: input not told of and a failure are *)
(* on their way to the callback; NeverClosedAsleep: an owner that exits     *)
(* when the pipe closes does so in that callback.                           *)
News ==
  /\ untold => \/ pc \in {"input", "output", "serviced"} /\ didSomething
               \/ pc = "callback"
  /\ failed => \/ pc \in {"output", "serviced", "callback", "service", "exited"}
               \/ pc = "timer" /\ didSomething
  /\ pc = "callback" => didSomething
  /\ pc = "wait" => ~didSomething

NeverClosedAsleep ==
  ExitOnClose /\ isClosed => pc \in {"callback", "exited"}

(* Without a timer, an inQueue at its limit is always news, so a round that *)
(* saw nothing leaves a read pending or is still connecting.                *)
BacklogIsNews ==
  ~HasTimer /\ Len(inQueue) >= ReadBufferSize => untold \/ pc = "exited"

(* A round that saw nothing leaves a read pending while inQueue is below    *)
(* its limit, and a write while there is something to write.                *)
ReadOutstanding ==
  ~didSomething /\ isConnected /\ Reading /\ Len(inQueue) < ReadBufferSize =>
    /\ pc \in {"output", "serviced"} => inPending \/ failed
    /\ pc \in {"timer", "wait"} => inPending

WriteOutstanding ==
  ~didSomething /\ isConnected /\ Writing /\ outQueue # <<>> =>
    /\ pc = "serviced" => outPending \/ failed
    /\ pc \in {"timer", "wait"} => outPending

AwakeInv ==
  /\ News /\ NeverClosedAsleep /\ BacklogIsNews
  /\ ReadOutstanding /\ WriteOutstanding

(* The kernel keeps part of a pended write only for want of room.           *)
RestMeansFull ==
  outRest # <<>> /\ ~PeerGone => Len(wireOut) >= Quota

(* Every byte written reaches a peer that keeps reading, without the owner  *)
(* doing anything more: no wake-up is lost between WriteFile and the wait.  *)
EverythingDelivered ==
  \A n \in 1..MaxOut :
    Len(written) >= n ~> (Len(delivered) >= n \/ peer = "closed" \/ isClosed)

(* The output half is a byte stream.  What is still in outQueue when the    *)
(* pipe is closed was written after the end: write() never looks.           *)
StreamSent ==
  IF isClosed /\ ~PeerGone THEN First(written, Len(written) - Len(outQueue))
                           ELSE written

StreamStatus == IF PeerGone THEN "broken"
                ELSE IF peer = "eof" THEN "eof"
                ELSE IF isClosed THEN "ended" ELSE "open"

Stream == INSTANCE ByteStream WITH
  sent <- StreamSent, received <- delivered, status <- StreamStatus

(* The workers, the kernel and the loop implement the abstract stream.      *)
ImplementsByteStream == Stream!Spec

(* The owner of a control pipe notices that its peer is gone and exits.     *)
ExitsWhenPeerGone ==
  ExitOnClose => (peer = "closed" ~> pc = "exited")
=============================================================================
