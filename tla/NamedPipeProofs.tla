-------------------------- MODULE NamedPipeProofs --------------------------
(***************************************************************************)
(* Proofs about NamedPipe, for every buffer size, quota, mode and bound.   *)
(*                                                                         *)
(* The argument: each step of the loop or the peer moves bytes from the    *)
(* front of one buffer to the back of the next, so the concatenation of    *)
(* the buffers does not change.  IInv adds who owns which buffer when.     *)
(* AwakeInv, on top of it, is what each wait relies on; and with IInv each *)
(* step is one of ByteStream or none.                                      *)
(***************************************************************************)
EXTENDS NamedPipe, StreamLemmas
-----------------------------------------------------------------------------
LEMMA ZeroFits == 0 \in 0..IoSize
BY SizesAssumption

LEMMA InitIInv == Init => IInv
<1> SUFFICES ASSUME Init PROVE IInv
  OBVIOUS
<1>1. written \in Seq(Byte) /\ <<>> \in Seq(Byte) /\ Len(<<>>) = 0
  <2>1. \A b \in Byte : <<b>> \in Seq(Byte)
    OBVIOUS
  <2>2. QED BY <2>1, EmptySeq DEF Init
<1>2. TypeOK
  BY <1>1, ModeAssumption, ZeroFits DEF Init, TypeOK
<1>3. WriteAccounted /\ ReadAccounted /\ Stages /\ ClosedConserved
  BY DEF Init, WriteAccounted, ReadAccounted, Stages, ClosedConserved, isClosed
<1>4. OutputConserved
  BY <1>1, OnlyLast DEF Init, OutputConserved
<1>5. InputConserved
  BY <1>1, OnlyLast DEF Init, InputConserved
<1>6. InputBounded
  BY <1>1, SizesAssumption DEF Init, InputBounded
<1>7. QED BY <1>2, <1>3, <1>4, <1>5, <1>6 DEF IInv

(* Steps that move no bytes: only the loop's position, the connection or    *)
(* the peer's presence change.                                              *)
QuietAction ==
  \/ ServiceBegin \/ InputPend \/ InputError \/ InputIdle \/ OutputIdle
  \/ RoundEnd \/ WakeUp \/ PeerConnect \/ PeerReadsEof \/ UNCHANGED vars

LEMMA QuietStep == IInv /\ QuietAction => IInv'
<1> SUFFICES ASSUME IInv, QuietAction PROVE IInv'
  OBVIOUS
<1> USE DEF outVars, inVars, wireVars, history, loopVars
<1>1. TypeOK'
  BY DEF IInv, TypeOK, QuietAction, ServiceBegin, InputPend, InputError,
     InputIdle, OutputIdle, RoundEnd, WakeUp, PeerConnect, PeerReadsEof, vars
<1>2. UNCHANGED <<outQueue, outPending, outIoSize, outRest, inQueue, inBuf,
                  wireOut, wireIn, written, delivered, peerSent, consumed>>
  BY DEF QuietAction, ServiceBegin, InputPend, InputError, InputIdle,
     OutputIdle, RoundEnd, WakeUp, PeerConnect, PeerReadsEof, vars
<1>3. /\ isClosed' <=> isClosed
      /\ PeerGone' <=> PeerGone
      /\ inPending' # inPending => InputPend
  BY DEF IInv, TypeOK, QuietAction, ServiceBegin, InputPend, InputError,
     InputIdle, OutputIdle, RoundEnd, WakeUp, PeerConnect, PeerReadsEof,
     vars, isClosed, PeerGone, isConnected
<1>4. WriteAccounted'
  BY <1>2, <1>3 DEF IInv, WriteAccounted
<1>5. ReadAccounted'
  <2>1. CASE InputPend
    <3>1. Len(<<>>) = 0 /\ IoSize >= 0
      BY EmptySeq, SizesAssumption
    <3>2. isConnected /\ inBuf = <<>>
      BY <2>1 DEF IInv, ReadAccounted, Stages, InputPend, ShouldIssueRead
    <3>3. QED BY <1>2, <1>3, <2>1, <3>1, <3>2
          DEF ReadAccounted, InputPend, ShouldIssueRead, isClosed, isConnected
  <2>2. CASE ~InputPend
    BY <1>2, <1>3, <2>2 DEF IInv, ReadAccounted
  <2>3. QED BY <2>1, <2>2
<1>6. Stages'
  <2>1. CASE ServiceBegin
    BY <2>1 DEF IInv, TypeOK, Stages, ServiceBegin, isClosed, isConnected, PeerGone
  <2>2. CASE InputPend
    BY <2>2 DEF IInv, TypeOK, Stages, InputPend, isClosed, isConnected, PeerGone
  <2>3. CASE InputError
    BY <2>3 DEF IInv, TypeOK, Stages, InputError, isClosed, isConnected, PeerGone
  <2>4. CASE InputIdle
    BY <2>4 DEF IInv, TypeOK, Stages, InputIdle, isClosed, isConnected, PeerGone
  <2>5. CASE OutputIdle
    BY <2>5 DEF IInv, TypeOK, Stages, OutputIdle, isClosed, isConnected, PeerGone
  <2>6. CASE RoundEnd
    BY <2>6 DEF IInv, TypeOK, Stages, RoundEnd, isClosed, isConnected, PeerGone
  <2>7. CASE WakeUp
    BY <2>7 DEF IInv, TypeOK, Stages, WakeUp, isClosed, isConnected, PeerGone
  <2>8. CASE PeerConnect
    BY <2>8 DEF IInv, TypeOK, Stages, PeerConnect, isClosed, isConnected, PeerGone
  <2>9. CASE PeerReadsEof
    BY <2>9 DEF IInv, TypeOK, Stages, PeerReadsEof, isClosed, isConnected, PeerGone
  <2>10. CASE UNCHANGED vars
    BY <2>10 DEF IInv, Stages, vars, isClosed, isConnected, PeerGone
  <2>11. QED BY <2>1, <2>2, <2>3, <2>4, <2>5, <2>6, <2>7, <2>8, <2>9, <2>10 DEF QuietAction
<1>7. OutputConserved' /\ ClosedConserved' /\ InputConserved' /\ InputBounded'
  BY <1>2, <1>3 DEF IInv, OutputConserved, ClosedConserved, InputConserved,
     InputBounded
<1>8. QED BY <1>1, <1>4, <1>5, <1>6, <1>7 DEF IInv

(* The streams are sequences of bytes.                                      *)
LEMMA StreamTypes ==
  ASSUME IInv
  PROVE  /\ outQueue \in Seq(Byte) /\ outRest \in Seq(Byte)
         /\ inQueue \in Seq(Byte) /\ inBuf \in Seq(Byte)
         /\ wireOut \in Seq(Byte) /\ wireIn \in Seq(Byte)
         /\ written \in Seq(Byte) /\ delivered \in Seq(Byte)
         /\ peerSent \in Seq(Byte) /\ consumed \in Seq(Byte)
BY DEF IInv, TypeOK

(* A step that leaves one direction of the pipe alone.                      *)
LEMMA OutputSame ==
  IInv /\ UNCHANGED <<conn, peer, outVars, wireOut, written, delivered>>
    => WriteAccounted' /\ OutputConserved' /\ ClosedConserved'
BY DEF IInv, outVars, WriteAccounted, OutputConserved, ClosedConserved,
   isClosed, PeerGone

LEMMA InputSame ==
  IInv /\ UNCHANGED <<conn, inVars, wireIn, peerSent, consumed>>
    => ReadAccounted' /\ InputConserved' /\ InputBounded'
BY DEF IInv, inVars, ReadAccounted, InputConserved, InputBounded, isClosed

(* The input worker's hand-overs, kernel to buffer to inQueue.              *)
LEMMA InputCompleteStep == IInv /\ InputComplete => IInv'
<1> SUFFICES ASSUME IInv, InputComplete PROVE IInv'
  OBVIOUS
<1>1. inQueue' = Cat(inQueue, inBuf) /\ inBuf' = <<>> /\ inPending' = FALSE
  BY DEF InputComplete, Cat
<1>2. UNCHANGED <<pc, failed, conn, outVars, wireOut, wireIn, peer, written,
                  delivered, peerSent, consumed>>
  BY DEF InputComplete, wireVars
<1>3. inQueue' \in Seq(Byte) /\ Len(inQueue') = Len(inQueue) + Len(inBuf)
  BY <1>1, StreamTypes, CatLength
<1>4. TypeOK'
  BY <1>1, <1>2, <1>3, EmptySeq DEF IInv, TypeOK, InputComplete, outVars
<1>5. Stages'
  BY <1>2 DEF IInv, Stages, isClosed, isConnected, PeerGone
<1>6. ReadAccounted'
  BY <1>1 DEF ReadAccounted
<1>7. InputConserved'
  <2>1. Row(consumed, inQueue, inBuf, wireIn)
          = Row(consumed, Cat(inQueue, inBuf), <<>>, wireIn)
    BY StreamTypes, Merge
  <2>2. QED BY <1>1, <1>2, <2>1 DEF IInv, InputConserved, isClosed
<1>8. InputBounded'
  <2>1. Len(inQueue) < ReadBufferSize /\ Len(inBuf) <= IoSize
    BY DEF IInv, ReadAccounted, InputComplete
  <2>2. Len(inQueue) \in Nat /\ Len(inBuf) \in Nat
    BY StreamTypes, LenProperties
  <2>3. QED BY <1>3, <2>1, <2>2, SizesAssumption DEF InputBounded
<1>9. QED BY <1>2, <1>4, <1>5, <1>6, <1>7, <1>8, OutputSame DEF IInv

LEMMA InputReadStep == IInv /\ InputRead => IInv'
<1> SUFFICES ASSUME IInv, InputRead PROVE IInv'
  OBVIOUS
<1> DEFINE n == Least(Len(wireIn), IoSize)
           f == First(wireIn, n)
           t == From(wireIn, n)
<1>1. inQueue' = Cat(inQueue, f) /\ wireIn' = t
  BY DEF InputRead, Cat
<1>2. UNCHANGED <<pc, failed, conn, outVars, inPending, inBuf, wireOut, peer,
                  written, delivered, peerSent, consumed>>
  BY DEF InputRead
<1>3. /\ f \in Seq(Byte) /\ t \in Seq(Byte) /\ Len(f) <= IoSize
      /\ wireIn = Cat(f, t)
  <2>1. Len(wireIn) \in Nat /\ IoSize \in Nat
    BY StreamTypes, LenProperties, SizesAssumption
  <2>2. n \in 0..Len(wireIn) /\ n <= IoSize
    BY <2>1, LeastInRange
  <2> HIDE DEF n
  <2>3. QED BY <2>2, StreamTypes, Cut
<1> HIDE DEF n, f, t
<1>4. inQueue' \in Seq(Byte) /\ Len(inQueue') = Len(inQueue) + Len(f)
  BY <1>1, <1>3, StreamTypes, CatLength
<1>5. TypeOK'
  <2>1. didSomething' = TRUE /\ untold' = TRUE
    BY DEF InputRead
  <2>2. inQueue' \in Seq(Byte) /\ wireIn' \in Seq(Byte)
    BY <1>1, <1>3, <1>4
  <2>3. TypeOK
    BY DEF IInv
  <2>4. QED BY ONLY <1>2, <2>1, <2>2, <2>3 DEF TypeOK, outVars
<1>6. Stages'
  BY <1>2 DEF IInv, Stages, isClosed, isConnected, PeerGone
<1>7. ~inPending /\ inBuf = <<>> /\ Len(inQueue) < ReadBufferSize
  BY DEF IInv, ReadAccounted, InputRead, ShouldIssueRead
<1>8. ReadAccounted'
  BY <1>2, <1>7 DEF ReadAccounted
<1>9. InputConserved'
  <2>1. Row(consumed, inQueue, <<>>, Cat(f, t))
          = Row(consumed, Cat(inQueue, f), <<>>, t)
    BY <1>3, StreamTypes, HandOverAll
  <2>2. QED BY <1>1, <1>2, <1>3, <1>7, <2>1 DEF IInv, InputConserved, isClosed
<1>10. InputBounded'
  <2>1. Len(inQueue) \in Nat /\ Len(f) \in Nat
    BY <1>3, StreamTypes, LenProperties
  <2>2. QED BY <1>3, <1>4, <1>7, <2>1, SizesAssumption DEF InputBounded
<1>11. QED BY <1>2, <1>5, <1>6, <1>8, <1>9, <1>10, OutputSame DEF IInv

(* The output worker's hand-overs, outQueue to buffer to kernel.            *)
LEMMA OutputCompleteStep == IInv /\ OutputComplete => IInv'
<1> SUFFICES ASSUME IInv, OutputComplete PROVE IInv'
  OBVIOUS
<1>1. outPending' = FALSE /\ outIoSize' = 0 /\ outRest = <<>>
  BY DEF OutputComplete
<1>2. UNCHANGED <<pc, failed, conn, outQueue, outRest, inVars, wireOut, wireIn,
                  peer, written, delivered, peerSent, consumed>>
  BY DEF OutputComplete, wireVars, history
<1>3. TypeOK'
  <2>1. didSomething' = TRUE /\ untold' = untold
    BY DEF OutputComplete, history
  <2>2. QED BY <1>1, <1>2, <2>1, ZeroFits DEF IInv, TypeOK, inVars
<1>4. WriteAccounted'
  BY <1>1, <1>2 DEF WriteAccounted
<1>5. Stages' /\ OutputConserved' /\ ClosedConserved'
  BY <1>2 DEF IInv, Stages, OutputConserved, ClosedConserved, isClosed,
     isConnected, PeerGone
<1>6. QED BY <1>2, <1>3, <1>4, <1>5, InputSame DEF IInv

(* Where WriteFile's buffer is cut from the queue, and, when the kernel     *)
(* cannot take it whole, where the buffer is cut.                           *)
LEMMA WriteCut ==
  ASSUME IInv, ShouldIssueWrite
  PROVE  /\ WriteSize \in 0..Len(outQueue) /\ WireRoom \in Nat
         /\ WriteSize \in 0..IoSize
         /\ First(outQueue, WriteSize) \in Seq(Byte)
         /\ Len(First(outQueue, WriteSize)) = WriteSize
         /\ From(outQueue, WriteSize) \in Seq(Byte)
         /\ outQueue = Cat(First(outQueue, WriteSize), From(outQueue, WriteSize))
<1>1. Len(outQueue) \in Nat /\ Len(wireOut) \in Nat
  BY StreamTypes, LenProperties
<1>2. WriteSize \in 0..Len(outQueue) /\ WriteSize \in 0..IoSize
  BY <1>1, LeastInRange, SizesAssumption DEF WriteSize
<1>3. WireRoom \in Nat
  BY <1>1, SizesAssumption DEF WireRoom
<1>4. QED BY <1>2, <1>3, StreamTypes, Cut

LEMMA OutputWriteStep == IInv /\ OutputWrite => IInv'
<1> SUFFICES ASSUME IInv, OutputWrite PROVE IInv'
  OBVIOUS
<1> DEFINE f == First(outQueue, WriteSize)
           t == From(outQueue, WriteSize)
<1>1. wireOut' = Cat(wireOut, f) /\ outQueue' = t
  BY DEF OutputWrite, Cat
<1>2. UNCHANGED <<pc, failed, conn, outPending, outIoSize, outRest, inVars,
                  wireIn, peer, written, delivered, peerSent, consumed>>
  BY DEF OutputWrite, history
<1>3. f \in Seq(Byte) /\ t \in Seq(Byte) /\ outQueue = Cat(f, t)
  BY WriteCut DEF OutputWrite
<1> HIDE DEF f, t
<1>4. wireOut' \in Seq(Byte)
  BY <1>1, <1>3, StreamTypes, CatLength
<1>5. TypeOK'
  BY <1>1, <1>2, <1>3, <1>4 DEF IInv, TypeOK, OutputWrite, inVars, history
<1>6. WriteAccounted'
  BY <1>2 DEF IInv, WriteAccounted, isClosed
<1>7. isConnected /\ pc = "output" /\ outRest = <<>>
  BY DEF IInv, Stages, OutputWrite, ShouldIssueWrite, WriteAccounted
<1>8. Stages' /\ ClosedConserved'
  BY <1>2, <1>7 DEF IInv, Stages, ClosedConserved, isClosed, isConnected,
     PeerGone
<1>9. OutputConserved'
  <2>1. Row(delivered, wireOut, <<>>, Cat(f, t))
          = Row(delivered, Cat(wireOut, f), <<>>, t)
    BY <1>3, StreamTypes, HandOverAll
  <2>2. QED BY <1>1, <1>2, <1>3, <1>7, <2>1
        DEF IInv, OutputConserved, isClosed, PeerGone
<1>10. QED BY <1>2, <1>5, <1>6, <1>8, <1>9, InputSame DEF IInv

LEMMA OutputPendStep == IInv /\ OutputPend => IInv'
<1> SUFFICES ASSUME IInv, OutputPend PROVE IInv'
  OBVIOUS
<1> DEFINE b == First(outQueue, WriteSize)
           t == From(outQueue, WriteSize)
           f == First(b, WireRoom)
           r == From(b, WireRoom)
<1>1. wireOut' = Cat(wireOut, f) /\ outRest' = r /\ outQueue' = t
  BY DEF OutputPend, Cat
<1>2. UNCHANGED <<didSomething, failed, conn, inVars, wireIn, peer, written,
                  delivered, peerSent, consumed, untold>>
  BY DEF OutputPend, history
<1>3. outPending' = TRUE /\ outIoSize' = WriteSize /\ pc' = "serviced"
  BY DEF OutputPend
<1>4. /\ b \in Seq(Byte) /\ Len(b) = WriteSize
      /\ t \in Seq(Byte) /\ outQueue = Cat(b, t)
  BY WriteCut DEF OutputPend
<1>5. WriteSize \in Nat /\ WriteSize > 0 /\ WireRoom \in 0..WriteSize
  <2>1. WriteSize > WireRoom /\ WriteSize \in 0..Len(outQueue) /\ WireRoom \in Nat
    BY WriteCut DEF OutputPend
  <2>2. Len(outQueue) \in Nat
    BY StreamTypes, LenProperties
  <2> HIDE DEF b, t, f, r
  <2>3. QED BY <2>1, <2>2
<1>6. f \in Seq(Byte) /\ r \in Seq(Byte) /\ b = Cat(f, r)
  <2> HIDE DEF b, t
  <2>1. QED BY <1>4, <1>5, Cut
<1> HIDE DEF b, t, f, r
<1>7. wireOut' \in Seq(Byte)
  BY <1>1, <1>6, StreamTypes, CatLength
<1>8. TypeOK'
  <2>1. WriteSize \in 0..IoSize
    BY WriteCut DEF OutputPend
  <2>2. QED
    BY <1>1, <1>2, <1>3, <1>4, <1>5, <1>6, <1>7, <2>1 DEF IInv, TypeOK, inVars
<1>9. isConnected /\ outRest = <<>>
  BY DEF IInv, Stages, OutputPend, ShouldIssueWrite, WriteAccounted
<1>10. WriteAccounted'
  BY <1>2, <1>3, <1>5, <1>9 DEF WriteAccounted, isClosed, isConnected
<1>11. Stages' /\ ClosedConserved'
  BY <1>2, <1>3, <1>9 DEF IInv, Stages, ClosedConserved, isClosed, isConnected,
     PeerGone
<1>12. OutputConserved'
  <2>1. Row(delivered, wireOut, <<>>, Cat(Cat(f, r), t))
          = Row(delivered, Cat(wireOut, f), r, t)
    <3>1. /\ delivered \in Seq(Byte) /\ wireOut \in Seq(Byte)
          /\ f \in Seq(Byte) /\ r \in Seq(Byte) /\ t \in Seq(Byte)
      BY <1>4, <1>6, StreamTypes
    <3>2. QED BY ONLY <3>1, HandOver
  <2>2. QED BY <1>1, <1>2, <1>4, <1>6, <1>9, <2>1
        DEF IInv, OutputConserved, isClosed, PeerGone
<1>13. QED BY <1>2, <1>8, <1>10, <1>11, <1>12, InputSame DEF IInv

LEMMA OutputErrorStep == IInv /\ OutputError => IInv'
<1> SUFFICES ASSUME IInv, OutputError PROVE IInv'
  OBVIOUS
<1>1. UNCHANGED <<didSomething, conn, outPending, outIoSize, outRest, inVars,
                  wireOut, wireIn, peer, written, delivered, peerSent,
                  consumed, untold>>
  BY DEF OutputError, wireVars, history
<1>2. failed' = TRUE /\ pc' = "serviced" /\ PeerGone
  BY DEF OutputError
<1>3. outQueue' \in Seq(Byte)
  BY WriteCut, StreamTypes DEF OutputError
<1>4. TypeOK'
  BY <1>1, <1>2, <1>3 DEF IInv, TypeOK, inVars
<1>5. WriteAccounted'
  BY <1>1 DEF IInv, WriteAccounted, isClosed
<1>6. Stages' /\ OutputConserved' /\ ClosedConserved'
  BY <1>1, <1>2 DEF IInv, Stages, OutputError, OutputConserved,
     ClosedConserved, isClosed, isConnected, PeerGone
<1>7. QED BY <1>1, <1>4, <1>5, <1>6, InputSame DEF IInv

(* The end of serviceIo: a failed pipe is closed, and its peer is gone.     *)
LEMMA ServiceEndStep == IInv /\ ServiceEnd => IInv'
<1> SUFFICES ASSUME IInv, ServiceEnd PROVE IInv'
  OBVIOUS
<1>1. /\ UNCHANGED <<failed, wireOut, wireIn, peer, outQueue, inQueue, written,
                     delivered, peerSent, consumed, untold>>
      /\ didSomething' = (didSomething \/ failed)
      /\ pc' \in {"callback", "timer"}
  BY DEF ServiceEnd, closePipe, outVars, inVars, wireVars, history
<1>2. CASE failed
  <2>1. /\ conn' = "closed"
        /\ outPending' = FALSE /\ outIoSize' = 0 /\ outRest' = <<>>
        /\ inPending' = FALSE /\ inBuf' = <<>>
    BY <1>2 DEF ServiceEnd, closePipe
  <2>2. PeerGone' /\ isClosed' /\ peer # "eof"
    BY <1>1, <1>2, <2>1 DEF IInv, Stages, PeerGone, isClosed
  <2>3. TypeOK'
    BY <1>1, <2>1, EmptySeq, ZeroFits DEF IInv, TypeOK
  <2>4. WriteAccounted' /\ ReadAccounted' /\ InputBounded'
    BY <1>1, <2>1 DEF IInv, WriteAccounted, ReadAccounted, InputBounded
  <2>5. Stages' /\ OutputConserved' /\ ClosedConserved' /\ InputConserved'
    BY <1>1, <2>1, <2>2 DEF Stages, OutputConserved, ClosedConserved,
       InputConserved
  <2>6. QED BY <2>3, <2>4, <2>5 DEF IInv
<1>3. CASE ~failed
  <2>1. UNCHANGED <<conn, outVars, inVars>>
    BY <1>3 DEF ServiceEnd
  <2>2. TypeOK'
    BY <1>1, <2>1 DEF IInv, TypeOK, outVars, inVars
  <2>3. Stages'
    BY <1>1, <2>1 DEF IInv, Stages, isClosed, isConnected, PeerGone
  <2>4. QED BY <1>1, <2>1, <2>2, <2>3, InputSame, OutputSame DEF IInv
<1>4. QED BY <1>2, <1>3

(* The owner's handlers.                                                    *)
AfterHandler ==
  /\ pc' \in {"timer", "service", "exited"}
  /\ untold' \in BOOLEAN
  /\ UNCHANGED <<didSomething, failed, wireVars, delivered, peerSent>>

LEMMA HandlerStep == IInv /\ Handler /\ AfterHandler => IInv'
<1> SUFFICES ASSUME IInv, Handler, AfterHandler PROVE IInv'
  OBVIOUS
<1>1. /\ pc' \in {"timer", "service", "exited"} /\ untold' \in BOOLEAN
      /\ UNCHANGED <<didSomething, failed, wireOut, wireIn, peer, delivered,
                     peerSent>>
  BY DEF AfterHandler, wireVars
<1>2. CASE UNCHANGED <<conn, outVars, inVars, written, consumed>>
  <2>1. TypeOK'
    BY <1>1, <1>2 DEF IInv, TypeOK, outVars, inVars
  <2>2. Stages'
    BY <1>1, <1>2 DEF IInv, Stages, isClosed, isConnected, PeerGone
  <2>3. QED BY <1>1, <1>2, <2>1, <2>2, InputSame, OutputSame DEF IInv
<1>3. ASSUME NEW n \in 1..Len(inQueue), read(n) PROVE IInv'
  <2> DEFINE f == First(inQueue, n)
             t == From(inQueue, n)
  <2>1. consumed' = Cat(consumed, f) /\ inQueue' = t
    BY <1>3 DEF read, Cat
  <2>2. UNCHANGED <<conn, outVars, inPending, inBuf, written>>
    BY <1>3 DEF read
  <2>3. /\ f \in Seq(Byte) /\ t \in Seq(Byte) /\ Len(t) <= Len(inQueue)
        /\ inQueue = Cat(f, t) /\ Len(inQueue) \in Nat /\ Len(t) \in Nat
    <3>1. Len(inQueue) \in Nat
      BY StreamTypes, LenProperties
    <3>2. n \in 0..Len(inQueue)
      BY <3>1
    <3>3. /\ f \in Seq(Byte) /\ t \in Seq(Byte)
          /\ Len(t) = Len(inQueue) - n /\ inQueue = Cat(f, t)
      BY <3>2, StreamTypes, Cut
    <3> HIDE DEF f, t
    <3>4. QED BY <3>1, <3>2, <3>3, LenProperties
  <2> HIDE DEF f, t
  <2>4. consumed' \in Seq(Byte) /\ inQueue' \in Seq(Byte)
    BY <2>1, <2>3, StreamTypes, CatLength
  <2>5. TypeOK'
    BY <1>1, <2>2, <2>4 DEF IInv, TypeOK, outVars
  <2>6. Stages'
    BY <1>1, <2>2 DEF IInv, Stages, isClosed, isConnected, PeerGone
  <2>7. ReadAccounted'
    BY <1>1, <2>1, <2>2, <2>3, SizesAssumption DEF IInv, ReadAccounted, isClosed
  <2>8. InputBounded'
    BY <2>1, <2>3, SizesAssumption DEF IInv, InputBounded
  <2>9. InputConserved'
    <3>1. Row(consumed, inQueue, inBuf, wireIn)
            = Row(Cat(consumed, f), t, inBuf, wireIn)
      <4>1. Cat(inQueue, inBuf) = Cat(f, Cat(t, inBuf))
        BY <2>3, StreamTypes, Monoid
      <4>2. /\ consumed \in Seq(Byte) /\ inQueue \in Seq(Byte)
            /\ inBuf \in Seq(Byte) /\ wireIn \in Seq(Byte)
            /\ f \in Seq(Byte) /\ t \in Seq(Byte)
        BY <2>3, StreamTypes
      <4>3. Row(consumed, inQueue, inBuf, wireIn)
              = Cat(Cat(consumed, Cat(inQueue, inBuf)), wireIn)
        BY ONLY <4>2, Middle
      <4>4. Cat(Cat(consumed, Cat(f, Cat(t, inBuf))), wireIn)
              = Row(Cat(consumed, f), t, inBuf, wireIn)
        BY ONLY <4>2, TakeOut
      <4>5. QED BY ONLY <4>1, <4>3, <4>4
    <3>2. QED BY <1>1, <2>1, <2>2, <3>1 DEF IInv, InputConserved, isClosed
  <2>10. QED BY <1>1, <2>2, <2>5, <2>6, <2>7, <2>8, <2>9, OutputSame DEF IInv
<1>4. ASSUME NEW b \in Byte, write(b) PROVE IInv'
  <2>1. outQueue' = Append(outQueue, b) /\ written' = Append(written, b)
    BY <1>4 DEF write
  <2>2. UNCHANGED <<conn, outPending, outIoSize, outRest, inVars, consumed>>
    BY <1>4 DEF write
  <2>3. outQueue' \in Seq(Byte) /\ written' \in Seq(Byte)
    BY <2>1, StreamTypes, AppendProperties
  <2>4. TypeOK'
    BY <1>1, <2>2, <2>3 DEF IInv, TypeOK, inVars
  <2>5. Stages' /\ WriteAccounted'
    BY <1>1, <2>2 DEF IInv, Stages, WriteAccounted, isClosed, isConnected,
       PeerGone
  <2>6. OutputConserved'
    <3>1. Row(delivered, wireOut, outRest, Add(outQueue, b))
            = Add(Row(delivered, wireOut, outRest, outQueue), b)
      <4>1. /\ outQueue \in Seq(Byte) /\ outRest \in Seq(Byte)
            /\ wireOut \in Seq(Byte) /\ delivered \in Seq(Byte) /\ b \in Byte
        BY StreamTypes
      <4>2. QED BY ONLY <4>1, AddLast
    <3>2. QED BY <1>1, <2>1, <2>2, <3>1
          DEF Add, IInv, OutputConserved, isClosed, PeerGone
  <2>7. ClosedConserved'
    <3>1. Row(delivered, wireOut, <<>>, Add(outQueue, b))
            = Add(Row(delivered, wireOut, <<>>, outQueue), b)
      <4> DEFINE nil == <<>>
      <4>1. /\ outQueue \in Seq(Byte) /\ nil \in Seq(Byte)
            /\ wireOut \in Seq(Byte) /\ delivered \in Seq(Byte) /\ b \in Byte
        BY StreamTypes, EmptySeq
      <4> HIDE DEF nil
      <4>2. Row(delivered, wireOut, nil, Add(outQueue, b))
              = Add(Row(delivered, wireOut, nil, outQueue), b)
        BY ONLY <4>1, AddLast
      <4>3. QED BY <4>2 DEF nil
    <3>2. QED BY <1>1, <2>1, <2>2, <3>1
          DEF Add, IInv, ClosedConserved, isClosed, PeerGone
  <2>8. QED BY <1>1, <2>2, <2>4, <2>5, <2>6, <2>7, InputSame DEF IInv
<1>5. CASE closeWhenFlushed
  <2>1. /\ conn' = "closed"
        /\ outPending' = FALSE /\ outIoSize' = 0 /\ outRest' = <<>>
        /\ inPending' = FALSE /\ inBuf' = <<>>
        /\ UNCHANGED <<outQueue, inQueue, written, consumed>>
    BY <1>5 DEF closeWhenFlushed, closePipe
  <2>2. isConnected /\ bytesToSend = 0
    BY <1>5 DEF closeWhenFlushed
  <2>3. ~outPending /\ outRest = <<>>
    <3>1. Len(outQueue) \in Nat /\ outIoSize \in Nat
      BY StreamTypes, LenProperties DEF IInv, TypeOK
    <3>2. ~outPending
      BY <2>2, <3>1 DEF bytesToSend, IInv, WriteAccounted
    <3>3. QED BY <3>2 DEF IInv, WriteAccounted
  <2>4. TypeOK'
    BY <1>1, <2>1, EmptySeq, ZeroFits DEF IInv, TypeOK
  <2>5. WriteAccounted' /\ ReadAccounted' /\ InputBounded'
    BY <2>1 DEF IInv, WriteAccounted, ReadAccounted, InputBounded
  <2>6. isClosed' /\ (PeerGone' <=> PeerGone)
    BY <1>1, <2>1 DEF isClosed, PeerGone
  <2>7. Stages'
    BY <1>1, <2>1, <2>2, <2>6 DEF IInv, Stages, isClosed, isConnected, PeerGone
  <2>8. OutputConserved' /\ InputConserved'
    BY <2>6 DEF OutputConserved, InputConserved
  <2>9. ClosedConserved'
    BY <1>1, <2>1, <2>2, <2>3, <2>6
    DEF IInv, OutputConserved, ClosedConserved, isConnected, isClosed
  <2>10. QED BY <2>4, <2>5, <2>7, <2>8, <2>9 DEF IInv
<1>6. QED BY <1>2, <1>3, <1>4, <1>5 DEF Handler

LEMMA OnPipeIoStep == IInv /\ OnPipeIo => IInv'
<1> SUFFICES ASSUME IInv, OnPipeIo PROVE IInv'
  OBVIOUS
<1>1. AfterHandler
  BY DEF OnPipeIo, AfterHandler
<1>2. Handler
  BY DEF OnPipeIo, Handler
<1>3. QED BY <1>1, <1>2, HandlerStep

LEMMA OnPollTimeoutStep == IInv /\ OnPollTimeout => IInv'
<1> SUFFICES ASSUME IInv, OnPollTimeout PROVE IInv'
  OBVIOUS
<1>1. AfterHandler
  BY DEF OnPollTimeout, AfterHandler, IInv, TypeOK
<1>2. QED BY <1>1, HandlerStep DEF OnPollTimeout

(* The peer reads: bytes leave the kernel's buffer at the front, and the    *)
(* pended write refills it.                                                 *)
LEMMA PeerReadStep == IInv /\ PeerRead => IInv'
<1> SUFFICES ASSUME IInv, PeerRead PROVE IInv'
  OBVIOUS
<1> DEFINE ready == IF wireOut = <<>> THEN First(outRest, 1) ELSE wireOut
           rest  == IF wireOut = <<>> THEN From(outRest, 1) ELSE outRest
           more  == Least(Quota, Len(rest))
           front == First(rest, more)
           back  == From(rest, more)
<1>1. delivered' = Cat(delivered, ready) /\ wireOut' = front /\ outRest' = back
  BY DEF PeerRead, Cat
<1>2. UNCHANGED <<pc, didSomething, failed, conn, outQueue, outPending,
                  outIoSize, inVars, wireIn, peer, written, peerSent,
                  consumed, untold>>
  BY DEF PeerRead, loopVars
<1>3. /\ ready \in Seq(Byte) /\ rest \in Seq(Byte)
      /\ Cat(wireOut, outRest) = Cat(ready, rest)
      /\ outRest = <<>> => rest = <<>>
  <2>1. CASE wireOut = <<>>
    <3>1. outRest # <<>>
      <4>1. Cat(wireOut, outRest) # <<>>
        BY DEF PeerRead, Cat
      <4>2. Cat(wireOut, outRest) = outRest
        BY <2>1, StreamTypes, Monoid
      <4>3. QED BY <4>1, <4>2
    <3>2. 1 \in 0..Len(outRest)
      BY <3>1, StreamTypes, EmptySeq
    <3>3. /\ First(outRest, 1) \in Seq(Byte) /\ From(outRest, 1) \in Seq(Byte)
          /\ outRest = Cat(First(outRest, 1), From(outRest, 1))
      BY <3>2, StreamTypes, Cut
    <3>4. ready = First(outRest, 1) /\ rest = From(outRest, 1)
      BY <2>1
    <3> HIDE DEF ready, rest
    <3>5. Cat(wireOut, outRest) = outRest
      BY <2>1, StreamTypes, Monoid
    <3>6. QED BY <3>1, <3>3, <3>4, <3>5
  <2>2. CASE wireOut # <<>>
    BY <2>2, StreamTypes
  <2>3. QED BY <2>1, <2>2
<1> HIDE DEF ready, rest
<1>4. /\ front \in Seq(Byte) /\ back \in Seq(Byte) /\ rest = Cat(front, back)
      /\ rest = <<>> => back = <<>>
  <2>1. Len(rest) \in Nat
    BY <1>3, LenProperties
  <2>2. more \in 0..Len(rest)
    BY <2>1, LeastInRange, SizesAssumption
  <2> HIDE DEF more
  <2>3. /\ front \in Seq(Byte) /\ back \in Seq(Byte) /\ rest = Cat(front, back)
        /\ Len(back) = Len(rest) - more
    BY <1>3, <2>2, Cut
  <2> HIDE DEF front, back
  <2>4. ASSUME rest = <<>> PROVE back = <<>>
    <3>1. Len(rest) = 0
      BY <2>4, EmptySeq
    <3>2. Len(back) = 0
      <4>1. more = 0
        BY ONLY <2>2, <3>1
      <4>2. QED BY ONLY <2>3, <3>1, <4>1
    <3>3. QED BY <2>3, <3>2, EmptySeq
  <2>5. QED BY <2>3, <2>4
<1> HIDE DEF more, front, back
<1>5. peer = "open"
  BY DEF PeerRead
<1>6. TypeOK'
  <2>1. /\ delivered' \in Seq(Byte) /\ wireOut' \in Seq(Byte)
        /\ outRest' \in Seq(Byte)
    BY <1>1, <1>3, <1>4, StreamTypes, CatLength
  <2>2. QED BY <1>2, <2>1 DEF IInv, TypeOK, inVars
<1>7. WriteAccounted'
  BY <1>1, <1>2, <1>3, <1>4 DEF IInv, WriteAccounted, isClosed
<1>8. Stages'
  BY <1>2, <1>5 DEF IInv, Stages, isClosed, isConnected, PeerGone
<1>9. Row(delivered, wireOut, outRest, outQueue)
        = Row(delivered', wireOut', outRest', outQueue)
  <2>1. Cat(wireOut, outRest) = Cat(ready, Cat(front, back))
    BY <1>3, <1>4
  <2>2. /\ delivered \in Seq(Byte) /\ wireOut \in Seq(Byte)
        /\ outRest \in Seq(Byte) /\ outQueue \in Seq(Byte)
        /\ ready \in Seq(Byte) /\ front \in Seq(Byte) /\ back \in Seq(Byte)
    BY <1>3, <1>4, StreamTypes
  <2>3. Row(delivered, wireOut, outRest, outQueue)
          = Row(Cat(delivered, ready), front, back, outQueue)
    <3>1. Row(delivered, wireOut, outRest, outQueue)
            = Cat(Cat(delivered, Cat(wireOut, outRest)), outQueue)
      BY ONLY <2>2, Middle
    <3>2. Cat(Cat(delivered, Cat(ready, Cat(front, back))), outQueue)
            = Row(Cat(delivered, ready), front, back, outQueue)
      BY ONLY <2>2, TakeOut
    <3>3. QED BY ONLY <2>1, <3>1, <3>2
  <2>4. QED BY <1>1, <2>3
<1>10. OutputConserved'
  BY <1>2, <1>9 DEF IInv, OutputConserved, isClosed, PeerGone
<1>11. ClosedConserved'
  <2>1. isClosed => outRest = <<>> /\ outRest' = <<>>
    BY <1>1, <1>3, <1>4 DEF IInv, WriteAccounted
  <2>2. QED BY <1>2, <1>9, <2>1 DEF IInv, ClosedConserved, isClosed, PeerGone
<1>12. QED BY <1>2, <1>6, <1>7, <1>8, <1>10, <1>11, InputSame DEF IInv

(* The peer writes: into the pended read if there is one, and then the      *)
(* kernel's buffer was empty.                                               *)
LEMMA PeerWriteStep == IInv /\ PeerWrite => IInv'
<1> SUFFICES ASSUME IInv, PeerWrite PROVE IInv'
  OBVIOUS
<1>1. UNCHANGED <<pc, didSomething, failed, conn, outVars, inQueue, inPending,
                  wireOut, peer, written, delivered, consumed, untold>>
  BY DEF PeerWrite, loopVars
<1>2. PICK b \in Byte :
        /\ peerSent' = Append(peerSent, b)
        /\ \/ /\ inPending /\ inBuf = <<>>
              /\ inBuf' = <<b>> /\ wireIn' = wireIn
           \/ /\ ~inPending \/ inBuf # <<>>
              /\ wireIn' = Append(wireIn, b) /\ inBuf' = inBuf
  BY DEF PeerWrite
<1>3. ~isClosed /\ ~isClosed'
  BY <1>1 DEF PeerWrite, isClosed
<1>4. peerSent' \in Seq(Byte)
  BY <1>2, StreamTypes, AppendProperties
<1>5. Stages'
  BY <1>1 DEF IInv, Stages, isClosed, isConnected, PeerGone
<1>6. peerSent = Row(consumed, inQueue, inBuf, wireIn)
  BY <1>3 DEF IInv, InputConserved
<1>7. CASE inPending /\ inBuf = <<>>
  <2>1. inBuf' = <<b>> /\ wireIn' = wireIn /\ wireIn = <<>>
    BY <1>2, <1>7 DEF IInv, ReadAccounted
  <2>2. inBuf' \in Seq(Byte) /\ Len(inBuf') = 1
    BY <2>1
  <2>3. TypeOK'
    BY <1>1, <1>4, <2>1, <2>2 DEF IInv, TypeOK, outVars
  <2>4. ReadAccounted' /\ InputBounded'
    BY <1>1, <1>3, <1>7, <2>1, <2>2, SizesAssumption
    DEF IInv, ReadAccounted, InputBounded
  <2>5. InputConserved'
    <3>1. /\ consumed \in Seq(Byte) /\ inQueue \in Seq(Byte)
      BY StreamTypes
    <3>2. Row(consumed, inQueue, <<b>>, <<>>)
            = Add(Row(consumed, inQueue, <<>>, <<>>), b)
      BY ONLY <3>1, AddThird
    <3>3. QED BY <1>1, <1>2, <1>6, <1>7, <2>1, <3>2 DEF Add, InputConserved
  <2>6. QED BY <1>1, <1>5, <2>3, <2>4, <2>5, OutputSame DEF IInv
<1>8. CASE ~inPending \/ inBuf # <<>>
  <2>1. wireIn' = Add(wireIn, b) /\ inBuf' = inBuf
    BY <1>2, <1>8 DEF Add
  <2>2. wireIn' \in Seq(Byte)
    BY <2>1, StreamTypes, AppendProperties DEF Add
  <2>3. TypeOK'
    BY <1>1, <1>4, <2>1, <2>2 DEF IInv, TypeOK, outVars
  <2>4. ReadAccounted' /\ InputBounded'
    BY <1>1, <1>3, <1>8, <2>1 DEF IInv, ReadAccounted, InputBounded
  <2>5. InputConserved'
    <3>1. /\ consumed \in Seq(Byte) /\ inQueue \in Seq(Byte)
          /\ inBuf \in Seq(Byte) /\ wireIn \in Seq(Byte) /\ b \in Byte
      BY StreamTypes
    <3>2. Row(consumed, inQueue, inBuf, Add(wireIn, b))
            = Add(Row(consumed, inQueue, inBuf, wireIn), b)
      BY ONLY <3>1, AddLast
    <3>3. peerSent' = Add(peerSent, b)
      BY <1>2 DEF Add
    <3>4. QED BY <1>1, <1>6, <2>1, <3>2, <3>3 DEF InputConserved
  <2>6. QED BY <1>1, <1>5, <2>3, <2>4, <2>5, OutputSame DEF IInv
<1>9. QED BY <1>7, <1>8

LEMMA PeerCloseStep == IInv /\ PeerClose => IInv'
<1> SUFFICES ASSUME IInv, PeerClose PROVE IInv'
  OBVIOUS
<1>1. peer' = "closed" /\ wireOut' = <<>>
  BY DEF PeerClose
<1>2. UNCHANGED <<pc, didSomething, failed, conn, outVars, inVars, wireIn,
                  written, delivered, peerSent, consumed, untold>>
  BY DEF PeerClose, loopVars, history
<1>3. TypeOK'
  BY <1>1, <1>2, EmptySeq DEF IInv, TypeOK, outVars, inVars
<1>4. WriteAccounted'
  BY <1>2 DEF IInv, WriteAccounted, outVars, isClosed
<1>5. Stages' /\ OutputConserved' /\ ClosedConserved'
  BY <1>1, <1>2 DEF IInv, Stages, OutputConserved, ClosedConserved, isClosed,
     isConnected, PeerGone
<1>6. QED BY <1>2, <1>3, <1>4, <1>5, InputSame DEF IInv

-----------------------------------------------------------------------------
LEMMA NextIInv == IInv /\ [Next]_vars => IInv'
<1> SUFFICES ASSUME IInv, [Next]_vars PROVE IInv'
  OBVIOUS
<1>1. CASE QuietAction
  BY <1>1, QuietStep
<1>2. CASE Loop
  <2>1. CASE InputComplete \/ InputRead
    BY <2>1, InputCompleteStep, InputReadStep
  <2>2. CASE OutputComplete \/ OutputWrite \/ OutputPend \/ OutputError
    BY <2>2, OutputCompleteStep, OutputWriteStep, OutputPendStep,
       OutputErrorStep
  <2>3. CASE ServiceEnd \/ OnPipeIo \/ OnPollTimeout
    BY <2>3, ServiceEndStep, OnPipeIoStep, OnPollTimeoutStep
  <2>4. QED BY <1>1, <1>2, <2>1, <2>2, <2>3 DEF Loop, QuietAction
<1>3. CASE Peer
  BY <1>1, <1>3, PeerReadStep, PeerWriteStep, PeerCloseStep
  DEF Peer, QuietAction
<1>4. QED BY <1>1, <1>2, <1>3 DEF Next, QuietAction

(* IInv holds in every state of every pipe, whatever its mode, buffer sizes *)
(* and owner.                                                               *)
THEOREM Invariance == Spec => []IInv
<1>1. QED BY InitIInv, NextIInv, PTL DEF Spec

(* Type correctness.                                                        *)
THEOREM TypeCorrect == Spec => []TypeOK
<1>1. IInv => TypeOK
  BY DEF IInv
<1>2. QED BY <1>1, Invariance, PTL

(* No byte is lost, repeated or reordered between write() and the peer, or  *)
(* between the peer and read(), while the pipe is up.                       *)
THEOREM Conservation == Spec => [](OutputConserved /\ InputConserved)
<1>1. IInv => OutputConserved /\ InputConserved
  BY DEF IInv
<1>2. QED BY <1>1, Invariance, PTL

(* A connected pipe with bytesToSend() = 0 has handed over every byte.      *)
THEOREM FlushedIsHandedOver == Spec => []FlushedMeansHandedOver
<1>1. IInv => FlushedMeansHandedOver
  <2> SUFFICES ASSUME IInv, isConnected, ~PeerGone, bytesToSend = 0
               PROVE  written = delivered \o wireOut
    BY DEF FlushedMeansHandedOver
  <2>1. Len(outQueue) \in Nat /\ outIoSize \in Nat
    BY StreamTypes, LenProperties DEF IInv, TypeOK
  <2>2. ~outPending /\ Len(outQueue) = 0
    BY <2>1 DEF bytesToSend, IInv, WriteAccounted
  <2>3. outRest = <<>> /\ outQueue = <<>>
    BY <2>2, StreamTypes, EmptySeq DEF IInv, WriteAccounted
  <2>4. written = Row(delivered, wireOut, <<>>, <<>>)
    BY <2>3 DEF IInv, OutputConserved, isConnected, isClosed
  <2>5. QED BY <2>4, StreamTypes, FirstTwo DEF Cat
<1>2. QED BY <1>1, Invariance, PTL

(* End-of-file reaches the peer after the last byte written before the end. *)
THEOREM EofIsTheEnd == Spec => []EofMeansEverything
<1>1. IInv => EofMeansEverything
  <2> SUFFICES ASSUME IInv, peer = "eof"
               PROVE  delivered \o outQueue = written
    BY DEF EofMeansEverything
  <2>1. isClosed /\ ~PeerGone /\ wireOut = <<>>
    BY DEF IInv, Stages, PeerGone
  <2>2. written = Row(delivered, <<>>, <<>>, outQueue)
    BY <2>1 DEF IInv, ClosedConserved
  <2>3. QED BY <2>2, StreamTypes, FirstAndLast DEF Cat
<1>2. QED BY <1>1, Invariance, PTL

(* What the owner has consumed and what waits for it is what the peer sent. *)
THEOREM InputIsConserved == Spec => []InputConserved
<1>1. IInv => InputConserved
  BY DEF IInv
<1>2. QED BY <1>1, Invariance, PTL

(* Unread input never takes more than the limit and one more read.          *)
THEOREM InputIsBounded == Spec => []InputBounded
<1>1. IInv => InputBounded
  BY DEF IInv
<1>2. QED BY <1>1, Invariance, PTL

-----------------------------------------------------------------------------
(* Why the loop never sleeps through anything.  AwakeInv is inductive       *)
(* together with IInv, from which it takes that a read is pending only      *)
(* below inQueue's limit.                                                   *)
LEMMA InitAwake == Init => AwakeInv
<1> SUFFICES ASSUME Init PROVE AwakeInv
  OBVIOUS
<1>1. Len(inQueue) = 0 /\ ~(0 >= ReadBufferSize)
  BY EmptySeq, SizesAssumption DEF Init
<1>2. QED BY <1>1 DEF Init, AwakeInv, News, NeverClosedAsleep, BacklogIsNews,
          ReadOutstanding, WriteOutstanding, isClosed

(* What AwakeInv looks at.                                                  *)
awakeVars ==
  <<pc, didSomething, failed, untold, conn, inPending, inQueue, outPending,
    outQueue>>

LEMMA AwakeSame == AwakeInv /\ UNCHANGED awakeVars => AwakeInv'
BY DEF AwakeInv, News, NeverClosedAsleep, BacklogIsNews, ReadOutstanding,
   WriteOutstanding, isClosed, isConnected, awakeVars

LEMMA PeerAwake == AwakeInv /\ (Peer \/ UNCHANGED vars) => AwakeInv'
<1> SUFFICES ASSUME AwakeInv, Peer \/ UNCHANGED vars PROVE AwakeInv'
  OBVIOUS
<1>1. UNCHANGED awakeVars
  BY DEF Peer, PeerConnect, PeerRead, PeerReadsEof, PeerWrite, PeerClose, vars,
     loopVars, inVars, outVars, history, awakeVars
<1>2. QED BY <1>1, AwakeSame

LEMMA ServiceBeginAwake == IInv /\ AwakeInv /\ ServiceBegin => AwakeInv'
<1> SUFFICES ASSUME IInv, AwakeInv, ServiceBegin PROVE AwakeInv'
  OBVIOUS
<1>1. /\ pc = "service" /\ failed' = FALSE /\ untold = FALSE
      /\ UNCHANGED <<untold, inPending, inQueue>>
  BY DEF ServiceBegin, inVars, history, AwakeInv, News, IInv, TypeOK
<1>2. News'
  BY <1>1 DEF ServiceBegin, News
<1>3. NeverClosedAsleep'
  BY <1>1 DEF ServiceBegin, AwakeInv, NeverClosedAsleep, isClosed, isConnected
<1>4. BacklogIsNews'
  BY <1>1 DEF AwakeInv, BacklogIsNews
<1>5. ReadOutstanding' /\ WriteOutstanding'
  <2>1. pc' = "input" \/ (pc' = "timer" /\ ~isConnected')
    BY DEF ServiceBegin, isClosed, isConnected
  <2>2. QED BY <2>1 DEF ReadOutstanding, WriteOutstanding
<1>6. QED BY <1>2, <1>3, <1>4, <1>5 DEF AwakeInv

LEMMA InputAwake ==
  IInv /\ AwakeInv
    /\ (InputComplete \/ InputRead \/ InputPend \/ InputError \/ InputIdle)
    => AwakeInv'
<1> SUFFICES ASSUME IInv, AwakeInv,
                    InputComplete \/ InputRead \/ InputPend \/ InputError
                      \/ InputIdle
             PROVE  AwakeInv'
  OBVIOUS
<1>1. /\ pc = "input" /\ isConnected
      /\ conn' = conn /\ ~isClosed /\ ~isClosed'
      /\ untold => didSomething
  BY DEF InputComplete, InputRead, InputPend, InputError, InputIdle, IInv,
     Stages, isConnected, isClosed, AwakeInv, News
<1>2. NeverClosedAsleep'
  BY <1>1 DEF NeverClosedAsleep
<1>3. CASE InputComplete \/ InputRead
  <2>1. pc' = "input" /\ didSomething' = TRUE /\ untold' = TRUE /\ failed' = failed
    BY <1>1, <1>3 DEF InputComplete, InputRead
  <2>2. ~failed
    BY <1>1 DEF AwakeInv, News
  <2>3. QED BY <1>2, <2>1, <2>2
        DEF AwakeInv, News, BacklogIsNews, ReadOutstanding, WriteOutstanding
<1>4. CASE InputPend \/ InputError \/ InputIdle
  <2>1. /\ pc' = "output"
        /\ UNCHANGED <<didSomething, untold, inQueue>>
        /\ failed' = failed \/ failed' = TRUE
    BY <1>4 DEF InputPend, InputError, InputIdle, inVars, history
  <2>2. News'
    BY <1>1, <2>1 DEF AwakeInv, News
  <2>3. BacklogIsNews'
    BY <1>1, <2>1 DEF AwakeInv, BacklogIsNews
  <2>4. ReadOutstanding'
    <3>1. inPending' \/ failed' \/ ~(Reading /\ Len(inQueue) < ReadBufferSize)
      BY <1>4 DEF InputPend, InputError, InputIdle, inVars, ShouldIssueRead
    <3>2. QED BY <2>1, <3>1 DEF ReadOutstanding
  <2>5. WriteOutstanding'
    BY <2>1 DEF WriteOutstanding
  <2>6. QED BY <1>2, <2>2, <2>3, <2>4, <2>5 DEF AwakeInv
<1>5. QED BY <1>3, <1>4

LEMMA OutputAwake ==
  IInv /\ AwakeInv
    /\ (OutputComplete \/ OutputWrite \/ OutputPend \/ OutputError \/ OutputIdle)
    => AwakeInv'
<1> SUFFICES ASSUME IInv, AwakeInv,
                    OutputComplete \/ OutputWrite \/ OutputPend
                      \/ OutputError \/ OutputIdle
             PROVE  AwakeInv'
  OBVIOUS
<1>1. /\ pc = "output"
      /\ pc' \in {"output", "serviced"}
      /\ didSomething' = didSomething \/ didSomething' = TRUE
      /\ failed' = failed \/ failed' = TRUE
      /\ UNCHANGED <<untold, conn, inPending, inQueue>>
  BY DEF OutputComplete, OutputWrite, OutputPend, OutputError, OutputIdle,
     inVars, history
<1>2. News'
  BY <1>1 DEF AwakeInv, News
<1>3. NeverClosedAsleep'
  BY <1>1 DEF AwakeInv, NeverClosedAsleep, isClosed
<1>4. BacklogIsNews'
  BY <1>1 DEF AwakeInv, BacklogIsNews
<1>5. ReadOutstanding'
  BY <1>1 DEF AwakeInv, ReadOutstanding, isConnected, IInv, TypeOK
<1>6. WriteOutstanding'
  <2>1. CASE pc' = "output"
    BY <2>1 DEF WriteOutstanding
  <2>2. CASE pc' = "serviced"
    <3>1. OutputPend \/ OutputError \/ OutputIdle
      BY <1>1, <2>2 DEF OutputComplete, OutputWrite
    <3>2. outPending' \/ failed' \/ ~(Writing /\ outQueue' # <<>>)
      BY <3>1 DEF OutputPend, OutputError, OutputIdle, outVars,
         ShouldIssueWrite
    <3>3. QED BY <2>2, <3>2 DEF WriteOutstanding
  <2>3. QED BY <1>1, <2>1, <2>2
<1>7. QED BY <1>2, <1>3, <1>4, <1>5, <1>6 DEF AwakeInv

LEMMA ServiceEndAwake == IInv /\ AwakeInv /\ ServiceEnd => AwakeInv'
<1> SUFFICES ASSUME IInv, AwakeInv, ServiceEnd PROVE AwakeInv'
  OBVIOUS
<1>1. pc = "serviced" /\ isConnected /\ UNCHANGED <<failed, untold, inQueue>>
  BY DEF ServiceEnd, closePipe, inVars, history, IInv, Stages
<1>t. {didSomething, failed, untold, inPending} \subseteq BOOLEAN
  BY DEF IInv, TypeOK
<1>2. BacklogIsNews'
  <2>1. pc' # "exited" /\ pc # "exited"
    BY <1>1 DEF ServiceEnd
  <2>2. QED BY <1>1, <2>1 DEF AwakeInv, BacklogIsNews
<1>3. CASE didSomething = TRUE \/ failed = TRUE
  <2>1. (didSomething \/ failed) = TRUE
    BY <1>3
  <2>2. pc' = "callback" /\ didSomething' = TRUE
    BY <2>1 DEF ServiceEnd
  <2>3. QED BY <1>1, <1>2, <2>2
        DEF AwakeInv, News, NeverClosedAsleep, ReadOutstanding,
            WriteOutstanding
<1>4. CASE didSomething = FALSE /\ failed = FALSE
  <2>1. (didSomething \/ failed) = FALSE
    BY <1>4, <1>t
  <2>2. /\ pc' = "timer" /\ didSomething' = FALSE
        /\ UNCHANGED <<conn, inPending, outPending, outQueue>>
    BY <1>4, <2>1 DEF ServiceEnd, inVars, outVars
  <2>3. untold = FALSE
    BY <1>1, <1>4, <1>t DEF AwakeInv, News
  <2>4. News'
    BY <1>1, <1>4, <2>2, <2>3 DEF News
  <2>5. NeverClosedAsleep'
    BY <1>1, <2>2 DEF NeverClosedAsleep, isClosed, isConnected
  <2>6. ReadOutstanding' /\ WriteOutstanding'
    BY <1>1, <1>4, <2>2
    DEF AwakeInv, ReadOutstanding, WriteOutstanding, isConnected
  <2>7. QED BY <1>2, <2>4, <2>5, <2>6 DEF AwakeInv
<1>5. QED BY <1>t, <1>3, <1>4

(* A handler closes the pipe only for an owner that does not exit with it.  *)
LEMMA HandlerKeepsOpen == ExitOnClose /\ Handler => conn' = conn
BY DEF Handler, read, write

LEMMA OnPipeIoAwake == IInv /\ AwakeInv /\ OnPipeIo => AwakeInv'
<1> SUFFICES ASSUME IInv, AwakeInv, OnPipeIo PROVE AwakeInv'
  OBVIOUS
<1>1. /\ pc = "callback" /\ didSomething
      /\ untold' = FALSE /\ UNCHANGED <<didSomething, failed>>
  BY DEF OnPipeIo, AwakeInv, News
<1>2. ReadOutstanding' /\ WriteOutstanding'
  BY <1>1 DEF ReadOutstanding, WriteOutstanding
<1>3. CASE pc' = "exited"
  BY <1>1, <1>2, <1>3 DEF AwakeInv, News, NeverClosedAsleep, BacklogIsNews
<1>4. CASE /\ pc' = "timer" /\ ~(ExitOnClose /\ isClosed) /\ Handler
           /\ Len(inQueue') < ReadBufferSize
  <2>1. News'
    BY <1>1, <1>4 DEF News
  <2>2. NeverClosedAsleep'
    BY <1>4, HandlerKeepsOpen DEF NeverClosedAsleep, isClosed
  <2>3. BacklogIsNews'
    <3>1. inQueue' \in Seq(Byte)
      BY OnPipeIoStep DEF IInv, TypeOK
    <3>2. Len(inQueue') \in Nat
      BY <3>1, LenProperties
    <3>3. ~(Len(inQueue') >= ReadBufferSize)
      BY <1>4, <3>2, SizesAssumption
    <3>4. QED BY <3>3 DEF BacklogIsNews
  <2>4. QED BY <1>2, <2>1, <2>2, <2>3 DEF AwakeInv
<1>5. QED
  <2>1. \/ pc' = "exited"
        \/ /\ pc' = "timer" /\ ~(ExitOnClose /\ isClosed) /\ Handler
           /\ Len(inQueue') < ReadBufferSize
    BY DEF OnPipeIo
  <2>2. QED BY <1>3, <1>4, <2>1

LEMMA RestAwake ==
  IInv /\ AwakeInv /\ (OnPollTimeout \/ RoundEnd \/ WakeUp) => AwakeInv'
<1> SUFFICES ASSUME IInv, AwakeInv, OnPollTimeout \/ RoundEnd \/ WakeUp
             PROVE  AwakeInv'
  OBVIOUS
<1>1. CASE OnPollTimeout
  <2>1. /\ pc = "timer" /\ pc' = "service" /\ HasTimer /\ Handler
        /\ UNCHANGED <<didSomething, failed, untold>>
    BY <1>1 DEF OnPollTimeout
  <2>2. ~untold
    BY <2>1 DEF AwakeInv, News
  <2>3. conn' = conn \/ ~ExitOnClose
    BY <2>1, HandlerKeepsOpen
  <2>4. QED BY <2>1, <2>2, <2>3
        DEF AwakeInv, News, NeverClosedAsleep, BacklogIsNews,
            ReadOutstanding, WriteOutstanding, isClosed
<1>2. CASE RoundEnd
  <2>1. /\ pc = "timer" /\ pc' = IF didSomething THEN "service" ELSE "wait"
        /\ UNCHANGED <<didSomething, failed, untold, conn, inPending, inQueue,
                       outPending, outQueue>>
    BY <1>2 DEF RoundEnd, inVars, outVars, history
  <2>2. QED BY <2>1
        DEF AwakeInv, News, NeverClosedAsleep, BacklogIsNews,
            ReadOutstanding, WriteOutstanding, isClosed, isConnected
<1>3. CASE WakeUp
  <2>1. /\ pc = "wait" /\ pc' = "service"
        /\ UNCHANGED <<didSomething, failed, untold, conn, inPending, inQueue>>
    BY <1>3 DEF WakeUp, inVars, history
  <2>2. QED BY <2>1
        DEF AwakeInv, News, NeverClosedAsleep, BacklogIsNews,
            ReadOutstanding, WriteOutstanding, isClosed
<1>4. QED BY <1>1, <1>2, <1>3

LEMMA NextAwake == IInv /\ AwakeInv /\ [Next]_vars => AwakeInv'
BY PeerAwake, ServiceBeginAwake, InputAwake, OutputAwake, ServiceEndAwake,
   OnPipeIoAwake, RestAwake DEF Next, Loop

(* The strengthened invariant, with all that it rests on.                   *)
THEOREM AwakeInvariance == Spec => []AwakeInv
<1>1. QED BY InitAwake, NextAwake, Invariance, PTL DEF Spec

(* The kernel keeps part of a pended write only while its buffer is full    *)
(* or the peer is gone: at the write, it took what fits; at each read of    *)
(* the peer, it tops the buffer up.                                         *)
LEMMA InitFull == Init => RestMeansFull
BY DEF Init, RestMeansFull

LEMMA PendFills == IInv /\ OutputPend => RestMeansFull'
<1> SUFFICES ASSUME IInv, OutputPend PROVE RestMeansFull'
  OBVIOUS
<1> DEFINE b == First(outQueue, WriteSize)
           f == First(b, WireRoom)
<1>1. wireOut' = Cat(wireOut, f)
  BY DEF OutputPend, Cat
<1>2. b \in Seq(Byte) /\ Len(b) = WriteSize
  BY WriteCut DEF OutputPend
<1>3. WriteSize \in Nat /\ WireRoom \in 0..WriteSize /\ Len(outQueue) \in Nat
  <2>1. /\ WriteSize > WireRoom /\ WriteSize \in 0..Len(outQueue)
        /\ WireRoom \in Nat
    BY WriteCut DEF OutputPend
  <2>2. Len(outQueue) \in Nat
    BY StreamTypes, LenProperties
  <2> HIDE DEF b, f
  <2>3. QED BY <2>1, <2>2
<1> HIDE DEF b
<1>4. f \in Seq(Byte) /\ Len(f) = WireRoom
  BY <1>2, <1>3, Cut
<1> HIDE DEF f
<1>5. Len(wireOut') = Len(wireOut) + WireRoom
  BY <1>1, <1>4, StreamTypes, CatLength
<1>6. Len(wireOut) \in Nat /\ Quota \in Nat
  BY StreamTypes, LenProperties, SizesAssumption
<1>7. Len(wireOut') >= Quota
  BY <1>5, <1>6 DEF WireRoom
<1>8. QED BY <1>7 DEF RestMeansFull

LEMMA ReadRefills == IInv /\ PeerRead => RestMeansFull'
<1> SUFFICES ASSUME IInv, PeerRead PROVE RestMeansFull'
  OBVIOUS
<1> DEFINE rest  == IF wireOut = <<>> THEN From(outRest, 1) ELSE outRest
           more  == Least(Quota, Len(rest))
<1>1. wireOut' = First(rest, more) /\ outRest' = From(rest, more)
  BY DEF PeerRead
<1>2. rest \in Seq(Byte)
  <2>1. CASE wireOut = <<>>
    <3>1. outRest # <<>>
      <4>1. Cat(wireOut, outRest) # <<>>
        BY DEF PeerRead, Cat
      <4>2. Cat(wireOut, outRest) = outRest
        BY <2>1, StreamTypes, Monoid
      <4>3. QED BY <4>1, <4>2
    <3>2. 1 \in 0..Len(outRest)
      BY <3>1, StreamTypes, EmptySeq
    <3>3. From(outRest, 1) \in Seq(Byte)
      BY <3>2, StreamTypes, Cut
    <3>4. QED BY <2>1, <3>3
  <2>2. CASE wireOut # <<>>
    BY <2>2, StreamTypes
  <2>3. QED BY <2>1, <2>2
<1> HIDE DEF rest
<1>3. Len(rest) \in Nat
  BY <1>2, LenProperties
<1>4. more \in 0..Len(rest) /\ (more = Quota \/ more = Len(rest))
  BY <1>3, LeastInRange, SizesAssumption
<1> HIDE DEF more
<1>5. /\ Len(wireOut') = more
      /\ outRest' \in Seq(Byte) /\ Len(outRest') = Len(rest) - more
  BY <1>1, <1>2, <1>4, Cut
<1>6. CASE more = Quota
  BY <1>5, <1>6, SizesAssumption DEF RestMeansFull
<1>7. CASE more = Len(rest)
  <2>1. Len(outRest') = 0
    BY ONLY <1>3, <1>5, <1>7
  <2>2. outRest' = <<>>
    BY <1>5, <2>1, EmptySeq
  <2>3. QED BY <2>2 DEF RestMeansFull
<1>8. QED BY <1>4, <1>6, <1>7

LEMMA NextFull == IInv /\ RestMeansFull /\ [Next]_vars => RestMeansFull'
<1> SUFFICES ASSUME IInv, RestMeansFull, [Next]_vars PROVE RestMeansFull'
  OBVIOUS
<1>1. CASE OutputPend
  BY <1>1, PendFills
<1>2. CASE PeerRead
  BY <1>2, ReadRefills
<1>3. CASE OutputWrite
  BY <1>3 DEF OutputWrite, IInv, WriteAccounted, ShouldIssueWrite,
     RestMeansFull
<1>4. CASE ServiceEnd \/ OnPipeIo \/ OnPollTimeout
  <2>1. UNCHANGED <<wireOut, peer>> /\ (outRest' = outRest \/ outRest' = <<>>)
    BY <1>4 DEF ServiceEnd, OnPipeIo, OnPollTimeout, Handler, read, write,
       closeWhenFlushed, closePipe, wireVars, outVars
  <2>2. QED BY <2>1 DEF RestMeansFull, PeerGone
<1>5. CASE PeerClose
  BY <1>5 DEF PeerClose, RestMeansFull, PeerGone
<1>6. CASE PeerConnect \/ PeerReadsEof
  BY <1>6 DEF PeerConnect, PeerReadsEof, RestMeansFull, PeerGone, outVars
<1>7. CASE \/ ServiceBegin \/ InputComplete \/ InputRead \/ InputPend
           \/ InputError \/ InputIdle \/ OutputComplete \/ OutputError
           \/ OutputIdle \/ RoundEnd \/ WakeUp \/ PeerWrite \/ UNCHANGED vars
  <2>1. UNCHANGED <<wireOut, outRest, peer>>
    BY <1>7 DEF ServiceBegin, InputComplete, InputRead, InputPend, InputError,
       InputIdle, OutputComplete, OutputError, OutputIdle, RoundEnd, WakeUp,
       PeerWrite, vars, outVars, wireVars
  <2>2. QED BY <2>1 DEF RestMeansFull, PeerGone
<1>8. QED BY <1>1, <1>2, <1>3, <1>4, <1>5, <1>6, <1>7 DEF Next, Loop, Peer

LEMMA FullInvariance == Spec => []RestMeansFull
<1>1. QED BY InitFull, NextFull, Invariance, PTL DEF Spec

(* At the wait, what the loop could be told is asked for: a read is pending *)
(* when inQueue has room, a write when there is output.  Input in the       *)
(* kernel has then ended the read, and room in the kernel the write.        *)
LEMMA NewsSignals ==
  IInv /\ AwakeInv /\ RestMeansFull /\ pc = "wait" /\ KernelHasNews
    => WaitSignaled
<1> SUFFICES ASSUME IInv, AwakeInv, RestMeansFull, pc = "wait", KernelHasNews
             PROVE  WaitSignaled
  OBVIOUS
<1>1. ~didSomething
  BY DEF AwakeInv, News
<1>2. CASE conn = "connecting" /\ peer # "none"
  BY <1>2 DEF WaitSignaled
<1>3. CASE /\ isConnected /\ Reading /\ Len(inQueue) < ReadBufferSize
           /\ wireIn \o inBuf # <<>> \/ PeerGone
  <2>1. inPending
    BY <1>1, <1>3 DEF AwakeInv, ReadOutstanding
  <2>2. inBuf # <<>> \/ PeerGone
    <3>1. <<>> \o <<>> = <<>>
      BY Monoid DEF Cat
    <3>2. QED BY <1>3, <2>1, <3>1 DEF IInv, ReadAccounted
  <2>3. QED BY <2>1, <2>2 DEF WaitSignaled, ReadEnded
<1>4. CASE /\ isConnected /\ Writing /\ outQueue # <<>>
           /\ WireRoom > 0 \/ PeerGone
  <2>1. outPending
    BY <1>1, <1>4 DEF AwakeInv, WriteOutstanding
  <2>2. outRest = <<>> \/ PeerGone
    <3>1. Len(wireOut) \in Nat /\ Quota \in Nat
      BY StreamTypes, LenProperties, SizesAssumption
    <3>2. WireRoom > 0 => ~(Len(wireOut) >= Quota)
      BY <3>1 DEF WireRoom
    <3>3. QED BY <1>4, <3>2 DEF RestMeansFull
  <2>3. QED BY <2>1, <2>2 DEF WaitSignaled, WriteEnded
<1>5. CASE isConnected /\ outPending /\ outRest = <<>>
  BY <1>5 DEF WaitSignaled, WriteEnded
<1>6. QED BY <1>2, <1>3, <1>4, <1>5 DEF KernelHasNews

(* The loop never sleeps with input its owner has not been told of or a     *)
(* failed pipe, nor while the kernel has a connection, input, an end or     *)
(* room that it could use and would not wake it (EventLoop::run,            *)
(* NamedPipe::serviceIo).                                                   *)
THEOREM SleepsOnNoNews == Spec => []NeverSleepsOnNews
<1>1. IInv /\ AwakeInv /\ RestMeansFull => NeverSleepsOnNews
  <2>1. AwakeInv /\ pc = "wait" => ~untold /\ ~failed
    BY DEF AwakeInv, News
  <2>2. QED BY <2>1, NewsSignals DEF NeverSleepsOnNews
<1>2. QED BY <1>1, Invariance, AwakeInvariance, FullInvariance, PTL

(* EventLoop::run's assertion: the wait has a handle or a timeout.          *)
THEOREM WaitsForSomething == Spec => []NeverWaitsBlind
<1>1. IInv /\ AwakeInv => NeverWaitsBlind
  <2> SUFFICES ASSUME IInv, AwakeInv, pc = "wait", ~HasTimer,
                      conn # "connecting"
               PROVE  inPending
    BY DEF NeverWaitsBlind, HasWaitHandle
  <2>1. ~didSomething /\ ~untold
    BY DEF AwakeInv, News
  <2>2. isConnected
    BY TimerAssumption
    DEF AwakeInv, NeverClosedAsleep, isClosed, isConnected, IInv, TypeOK
  <2>3. ~(Len(inQueue) >= ReadBufferSize)
    BY <2>1 DEF AwakeInv, BacklogIsNews
  <2>4. Len(inQueue) \in Nat
    BY StreamTypes, LenProperties
  <2>5. Len(inQueue) < ReadBufferSize
    BY <2>3, <2>4, SizesAssumption
  <2>6. QED BY <2>1, <2>2, <2>5, TimerAssumption
        DEF AwakeInv, ReadOutstanding
<1>2. QED BY <1>1, Invariance, AwakeInvariance, PTL

-----------------------------------------------------------------------------
(* The pipe implements the abstract stream.  What counts as sent, in terms  *)
(* of the buffers it is in.                                                 *)
LEMMA SentIsAhead ==
  ASSUME IInv, ~PeerGone
  PROVE  /\ \E ahead \in Seq(Byte) : StreamSent = Cat(delivered, ahead)
         /\ isClosed => StreamSent = Cat(delivered, wireOut)
<1>1. /\ outQueue \in Seq(Byte) /\ outRest \in Seq(Byte)
      /\ wireOut \in Seq(Byte) /\ delivered \in Seq(Byte)
  BY StreamTypes
<1>2. CASE isClosed
  <2>1. written = Row(delivered, wireOut, <<>>, outQueue)
    BY <1>2 DEF IInv, ClosedConserved
  <2>4. First(written, Len(written) - Len(outQueue)) = Cat(delivered, wireOut)
    BY <1>1, <2>1, WithoutLast
  <2>5. StreamSent = Cat(delivered, wireOut)
    BY <1>2, <2>4 DEF StreamSent
  <2>6. QED BY <1>1, <2>5
<1>3. CASE ~isClosed
  <2>1. written = Row(delivered, wireOut, outRest, outQueue)
    BY <1>3 DEF IInv, OutputConserved
  <2>2. StreamSent = written
    BY <1>3 DEF StreamSent
  <2>3. QED BY <1>1, <1>3, <2>1, <2>2, RowAhead
<1>4. QED BY <1>2, <1>3

(* A step of which the peer sees nothing.                                   *)
Unseen == /\ UNCHANGED <<written, delivered, peer>>
          /\ \/ PeerGone
             \/ /\ isClosed' <=> isClosed
                /\ outQueue' = outQueue \/ ~isClosed

LEMMA UnseenStutters == Unseen => UNCHANGED Stream!vars
<1> SUFFICES ASSUME Unseen
             PROVE  UNCHANGED <<StreamSent, delivered, StreamStatus>>
  BY DEF Stream!vars
<1>1. PeerGone' <=> PeerGone
  BY DEF Unseen, PeerGone
<1>2. UNCHANGED StreamSent
  BY <1>1 DEF Unseen, StreamSent
<1>3. UNCHANGED StreamStatus
  BY <1>1 DEF Unseen, StreamStatus
<1>4. QED BY <1>2, <1>3 DEF Unseen

(* The loop's steps, but for the owner's handlers, are not seen.            *)
LEMMA LoopUnseen ==
  IInv /\ Loop /\ ~OnPipeIo /\ ~OnPollTimeout => UNCHANGED Stream!vars
<1> SUFFICES ASSUME IInv, Loop, ~OnPipeIo, ~OnPollTimeout PROVE Unseen
  BY UnseenStutters
<1>1. UNCHANGED <<written, delivered, peer>>
  BY DEF Loop, ServiceBegin, InputComplete, InputRead, InputPend, InputError,
     InputIdle, OutputComplete, OutputWrite, OutputPend, OutputError,
     OutputIdle, ServiceEnd, RoundEnd, WakeUp, history, wireVars
<1>2. CASE ServiceEnd
  <2>1. UNCHANGED outQueue
    BY <1>2 DEF ServiceEnd, closePipe, outVars
  <2>2. CASE failed
    BY <1>1, <2>2 DEF IInv, Stages, Unseen
  <2>3. CASE ~failed
    <3>1. UNCHANGED conn
      BY <1>2, <2>3 DEF ServiceEnd
    <3>2. QED BY <1>1, <2>1, <3>1 DEF Unseen, isClosed
  <2>4. QED BY <2>2, <2>3
<1>3. CASE ~ServiceEnd
  <2>1. isClosed' <=> isClosed
    BY <1>3 DEF Loop, ServiceBegin, InputComplete, InputRead, InputPend,
       InputError, InputIdle, OutputComplete, OutputWrite, OutputPend,
       OutputError, OutputIdle, RoundEnd, WakeUp, isClosed, isConnected
  <2>2. outQueue' = outQueue \/ ~isClosed
    <3>1. CASE pc = "output"
      BY <3>1 DEF IInv, Stages, isConnected, isClosed
    <3>2. CASE pc # "output"
      BY <1>3, <3>2 DEF Loop, ServiceBegin, InputComplete, InputRead,
         InputPend, InputError, InputIdle, OutputComplete, OutputWrite,
         OutputPend, OutputError, OutputIdle, RoundEnd, WakeUp, outVars
    <3>3. QED BY <3>1, <3>2
  <2>3. QED BY <1>1, <2>1, <2>2 DEF Unseen
<1>4. QED BY <1>2, <1>3

(* A byte the owner writes is sent, unless the pipe is already closed or    *)
(* the peer is gone.                                                        *)
LEMMA WriteSends ==
  ASSUME IInv, IInv', NEW b \in Byte, write(b),
         UNCHANGED <<delivered, wireOut, peer>>
  PROVE  Stream!Next \/ UNCHANGED Stream!vars
<1>1. /\ written' = Add(written, b) /\ outQueue' = Add(outQueue, b)
      /\ UNCHANGED <<conn, delivered, peer>>
  BY DEF write, Add
<1>2. /\ written' \in Seq(Byte)
      /\ isClosed' <=> isClosed
      /\ PeerGone' <=> PeerGone
      /\ UNCHANGED StreamStatus
  BY <1>1, StreamTypes, AppendProperties
  DEF Add, isClosed, PeerGone, StreamStatus
<1>3. CASE PeerGone
  <2>1. StreamStatus = "broken" /\ StreamSent' = written'
    BY <1>2, <1>3 DEF StreamStatus, StreamSent
  <2>2. QED BY <1>1, <1>2, <2>1 DEF Stream!Next, Stream!Break
<1>4. CASE ~PeerGone /\ ~isClosed
  <2>1. /\ StreamSent = written /\ StreamSent' = written'
        /\ StreamStatus = "open"
    BY <1>2, <1>4 DEF StreamSent, StreamStatus, IInv, Stages
  <2>2. QED BY <1>1, <1>2, <2>1 DEF Stream!Next, Stream!Send, Add
<1>5. CASE ~PeerGone /\ isClosed
  <2>1. /\ written = Row(delivered, wireOut, <<>>, outQueue)
        /\ written' = Row(delivered, wireOut, <<>>, outQueue')
    BY <1>1, <1>2, <1>5 DEF IInv, ClosedConserved
  <2>2. StreamSent = Cat(delivered, wireOut)
    BY <1>5, SentIsAhead
  <2>3. StreamSent' = Cat(delivered, wireOut)
    <3>1. outQueue' \in Seq(Byte)
      BY DEF IInv, TypeOK
    <3>2. delivered \in Seq(Byte) /\ wireOut \in Seq(Byte)
      BY StreamTypes
    <3>3. First(written', Len(written') - Len(outQueue'))
            = Cat(delivered, wireOut)
      BY ONLY <2>1, <3>1, <3>2, WithoutLast
    <3>4. QED BY <1>2, <1>5, <3>3 DEF StreamSent
  <2>4. QED BY <1>1, <1>2, <2>2, <2>3 DEF Stream!vars
<1>6. QED BY <1>3, <1>4, <1>5

(* Closing a connected pipe with nothing left to send ends the stream.      *)
LEMMA CloseEnds ==
  ASSUME IInv, closeWhenFlushed, UNCHANGED <<delivered, peer>>
  PROVE  Stream!Next \/ UNCHANGED Stream!vars
<1>1. /\ conn = "connected" /\ conn' = "closed" /\ bytesToSend = 0
      /\ UNCHANGED <<outQueue, written, delivered, peer>>
  BY DEF closeWhenFlushed, closePipe, isConnected
<1>2. CASE PeerGone
  BY <1>1, <1>2, UnseenStutters DEF Unseen
<1>3. CASE ~PeerGone
  <2>1. Len(outQueue) = 0 /\ Len(written) \in Nat
    <3>1. Len(outQueue) \in Nat /\ Len(written) \in Nat /\ outIoSize \in Nat
      BY StreamTypes, LenProperties DEF IInv, TypeOK
    <3>2. QED BY <1>1, <3>1 DEF bytesToSend
  <2>2. First(written, Len(written) - Len(outQueue)) = written
    <3>1. Len(written) - Len(outQueue) = Len(written)
      BY <2>1
    <3>2. QED BY <3>1, StreamTypes, SubSeqFull DEF First
  <2>3. StreamSent = written /\ StreamSent' = written
    BY <1>1, <1>3, <2>2 DEF StreamSent, isClosed, PeerGone
  <2>4. StreamStatus = "open" /\ StreamStatus' = "ended"
    BY <1>1, <1>3 DEF StreamStatus, IInv, Stages, isClosed, PeerGone
  <2>5. QED BY <1>1, <2>3, <2>4 DEF Stream!Next, Stream!End
<1>4. QED BY <1>2, <1>3

LEMMA HandlerStreams ==
  IInv /\ (OnPipeIo \/ OnPollTimeout) => Stream!Next \/ UNCHANGED Stream!vars
<1> SUFFICES ASSUME IInv, OnPipeIo \/ OnPollTimeout
             PROVE  Stream!Next \/ UNCHANGED Stream!vars
  OBVIOUS
<1>1. IInv' /\ Handler /\ UNCHANGED <<delivered, wireOut, peer>>
  BY OnPipeIoStep, OnPollTimeoutStep
  DEF OnPipeIo, OnPollTimeout, Handler, wireVars
<1>2. CASE UNCHANGED <<conn, outVars, inVars, written, consumed>>
  BY <1>1, <1>2, UnseenStutters DEF Unseen, outVars, isClosed
<1>3. ASSUME NEW n \in 1..Len(inQueue), read(n) PROVE UNCHANGED Stream!vars
  BY <1>1, <1>3, UnseenStutters DEF read, Unseen, outVars, isClosed
<1>4. ASSUME NEW b \in Byte, write(b)
      PROVE  Stream!Next \/ UNCHANGED Stream!vars
  BY <1>1, <1>4, WriteSends
<1>5. CASE closeWhenFlushed
  BY <1>1, <1>5, CloseEnds
<1>6. QED BY <1>1, <1>2, <1>3, <1>4, <1>5 DEF Handler

(* The peer's read takes something, and what it then has is the front of    *)
(* what was sent.                                                           *)
LEMMA PeerReadReceives == IInv /\ PeerRead => Stream!Receive
<1> SUFFICES ASSUME IInv, PeerRead PROVE Stream!Receive
  OBVIOUS
<1> DEFINE ready == IF wireOut = <<>> THEN First(outRest, 1) ELSE wireOut
<1>1. /\ delivered' = Cat(delivered, ready)
      /\ peer = "open" /\ UNCHANGED <<peer, conn, written, outQueue>>
  BY DEF PeerRead, Cat
<1>2. ready \in Seq(Byte) /\ Len(ready) > 0
  <2>1. CASE wireOut = <<>>
    <3>1. outRest # <<>>
      <4>1. Cat(wireOut, outRest) # <<>>
        BY DEF PeerRead, Cat
      <4>2. Cat(wireOut, outRest) = outRest
        BY <2>1, StreamTypes, Monoid
      <4>3. QED BY <4>1, <4>2
    <3>2. 1 \in 0..Len(outRest)
      BY <3>1, StreamTypes, EmptySeq
    <3>3. First(outRest, 1) \in Seq(Byte) /\ Len(First(outRest, 1)) = 1
      BY <3>2, StreamTypes, Cut
    <3>4. QED BY <2>1, <3>3
  <2>2. CASE wireOut # <<>>
    BY <2>2, StreamTypes, EmptySeq
  <2>3. QED BY <2>1, <2>2
<1> HIDE DEF ready
<1>3. /\ delivered' \in Seq(Byte) /\ Len(delivered) \in Nat
      /\ Len(delivered') \in Nat /\ Len(delivered') > Len(delivered)
  <2>1. delivered' \in Seq(Byte) /\ Len(delivered') = Len(delivered) + Len(ready)
    BY <1>1, <1>2, StreamTypes, CatLength
  <2>2. Len(delivered) \in Nat /\ Len(ready) \in Nat
    BY <1>2, StreamTypes, LenProperties
  <2>3. QED BY <1>2, <2>1, <2>2
<1>4. /\ ~PeerGone /\ ~PeerGone'
      /\ isClosed' <=> isClosed
      /\ UNCHANGED <<StreamSent, StreamStatus>>
      /\ StreamStatus # "eof"
  BY <1>1 DEF PeerGone, isClosed, StreamSent, StreamStatus
<1>5. PICK ahead \in Seq(Byte) : StreamSent = Cat(delivered', ahead)
  <2>1. IInv'
    BY PeerReadStep
  <2>2. /\ written' \in Seq(Byte) /\ outQueue' \in Seq(Byte)
        /\ wireOut' \in Seq(Byte) /\ outRest' \in Seq(Byte)
    BY <2>1 DEF IInv, TypeOK
  <2>3. CASE isClosed
    <3>1. written' = Row(delivered', wireOut', <<>>, outQueue')
      BY <1>4, <2>1, <2>3 DEF IInv, ClosedConserved
    <3>2. First(written', Len(written') - Len(outQueue'))
            = Cat(delivered', wireOut')
      <4>1. /\ delivered' \in Seq(Byte) /\ wireOut' \in Seq(Byte)
            /\ outQueue' \in Seq(Byte)
        BY <1>3, <2>2
      <4> DEFINE d == delivered'
                 w == wireOut'
                 q == outQueue'
      <4> HIDE DEF d, w, q
      <4>2. First(Row(d, w, <<>>, q), Len(Row(d, w, <<>>, q)) - Len(q))
              = Cat(d, w)
        BY ONLY <4>1, WithoutLast DEF d, w, q
      <4>3. QED BY ONLY <3>1, <4>2 DEF d, w, q
    <3>3. StreamSent' = Cat(delivered', wireOut')
      BY <1>4, <2>3, <3>2 DEF StreamSent
    <3>4. QED BY <1>4, <2>2, <3>3
  <2>4. CASE ~isClosed
    <3>1. written' = Row(delivered', wireOut', outRest', outQueue')
      BY <1>4, <2>1, <2>4 DEF IInv, OutputConserved
    <3>2. \E ahead \in Seq(Byte) : written' = Cat(delivered', ahead)
      BY ONLY <1>3, <2>2, <3>1, RowAhead
    <3>3. StreamSent = written'
      BY <1>1, <2>4 DEF StreamSent
    <3>4. QED BY <3>2, <3>3
  <2>5. QED BY <2>3, <2>4
<1>6. delivered' = SubSeq(StreamSent, 1, Len(delivered'))
  BY <1>3, <1>5, Prefix DEF First
<1>7. Len(delivered') <= Len(StreamSent) /\ Len(StreamSent) \in Nat
  <2>1. Len(StreamSent) = Len(delivered') + Len(ahead) /\ Len(ahead) \in Nat
    BY <1>3, <1>5, CatLength, LenProperties
  <2>2. QED BY <1>3, <2>1
<1>8. Len(delivered') \in (Len(delivered) + 1)..Len(StreamSent)
  BY <1>3, <1>7
<1>9. QED BY <1>4, <1>6, <1>8 DEF Stream!Receive

LEMMA PeerStreams ==
  IInv /\ Peer => Stream!Next \/ UNCHANGED Stream!vars
<1> SUFFICES ASSUME IInv, Peer PROVE Stream!Next \/ UNCHANGED Stream!vars
  OBVIOUS
<1>1. CASE PeerConnect
  <2>1. /\ UNCHANGED <<written, delivered, conn, outQueue>>
        /\ peer = "none" /\ peer' = "open"
    BY <1>1 DEF PeerConnect, outVars, history
  <2>2. QED BY <2>1
        DEF Stream!vars, StreamSent, StreamStatus, PeerGone, isClosed
<1>2. CASE PeerRead
  BY <1>2, PeerReadReceives DEF Stream!Next
<1>3. CASE PeerReadsEof
  <2>1. /\ UNCHANGED <<written, delivered, conn, outQueue>>
        /\ peer = "open" /\ peer' = "eof" /\ isClosed /\ wireOut = <<>>
    BY <1>3 DEF PeerReadsEof, outVars, history
  <2>2. StreamSent = delivered
    <3>1. StreamSent = Cat(delivered, wireOut)
      BY <2>1, SentIsAhead DEF PeerGone
    <3>2. QED BY <2>1, <3>1, StreamTypes, Monoid
  <2>3. /\ StreamStatus = "ended" /\ StreamStatus' = "eof"
        /\ UNCHANGED StreamSent
    BY <2>1 DEF StreamStatus, StreamSent, PeerGone, isClosed
  <2>4. QED BY <2>1, <2>2, <2>3 DEF Stream!Next, Stream!SeeEof
<1>4. CASE PeerWrite
  <2>1. UNCHANGED <<written, delivered, conn, outQueue, peer>>
    BY <1>4 DEF PeerWrite, outVars
  <2>2. QED BY <2>1, UnseenStutters DEF Unseen, isClosed
<1>5. CASE PeerClose
  <2>1. /\ UNCHANGED <<written, delivered>>
        /\ peer = "open" /\ peer' = "closed"
    BY <1>5 DEF PeerClose, history
  <2>2. /\ StreamStatus \in {"open", "ended"} /\ StreamStatus' = "broken"
        /\ StreamSent' \in Seq(Byte)
    BY <2>1, StreamTypes DEF StreamStatus, StreamSent, PeerGone
  <2>3. QED BY <2>1, <2>2 DEF Stream!Next, Stream!Break
<1>6. QED BY <1>1, <1>2, <1>3, <1>4, <1>5 DEF Peer

(* The workers, the kernel and the loop together are a byte stream: bytes   *)
(* arrive in order, the end after the last of them, unless the peer breaks  *)
(* off (NamedPipe's promise to the agent and its client).                   *)
THEOREM StreamIsImplemented == Spec => ImplementsByteStream
<1>1. Init => Stream!Init
  <2> SUFFICES ASSUME Init PROVE Stream!Init
    OBVIOUS
  <2>1. written \in Seq(Byte)
    BY InitIInv, StreamTypes
  <2>2. StreamSent = written /\ StreamStatus = "open" /\ delivered = <<>>
    BY DEF Init, StreamSent, StreamStatus, isClosed, PeerGone
  <2>3. QED BY <2>1, <2>2 DEF Stream!Init
<1>2. IInv /\ [Next]_vars => [Stream!Next]_Stream!vars
  <2> SUFFICES ASSUME IInv, [Next]_vars
               PROVE  Stream!Next \/ UNCHANGED Stream!vars
    OBVIOUS
  <2>1. CASE UNCHANGED vars
    <3>1. UNCHANGED <<written, delivered, conn, outQueue, peer>>
      BY <2>1 DEF vars, outVars, wireVars, history
    <3>2. QED BY <3>1, UnseenStutters DEF Unseen, isClosed
  <2>2. CASE Loop
    BY <2>2, LoopUnseen, HandlerStreams
  <2>3. QED BY <2>1, <2>2, PeerStreams DEF Next
<1>3. QED
  BY <1>1, <1>2, Invariance, PTL DEF Spec, ImplementsByteStream, Stream!Spec
=============================================================================
