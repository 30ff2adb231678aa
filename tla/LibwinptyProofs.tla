-------------------------- MODULE LibwinptyProofs --------------------------
(***************************************************************************)
(* The library.  For any number of threads, calls and ticks of the         *)
(* timeout: an open control pipe holds only what belongs to the call that  *)
(* has the mutex, and Rpc implements RpcPromise.  For any versions of      *)
(* Windows, code pages and fonts: however winpty_open ends it leaves no    *)
(* trace in the client's process, and an agent never starts on a desktop   *)
(* that has been given up.  Then the two together.                         *)
(***************************************************************************)
EXTENDS Libwinpty, StreamLemmas

(* The calls.                                                               *)
Calling == {"locked", "writing", "size", "payload"}

TypeOK ==
  /\ pc \in [Thread -> {"idle", "blocked"} \cup Calling]
  /\ op \in [Thread -> Ops] /\ n \in [Thread -> Nat]
  /\ mutex \in Thread \cup {NoThread}
  /\ pipe \in {"open", "closed"}

(* The mutex is the calling thread's, and no call is on a closed pipe.      *)
Exclusive ==
  /\ \A t \in Thread : pc[t] \in Calling <=> mutex = t
  /\ pipe = "closed" => mutex = NoThread

(* The five states of the call t while the pipe is open.  An agent that has *)
(* died may have left nothing of it, or the first part of its reply.        *)
Quiet ==
  toAgent = <<>> /\ inQueue = <<>> /\ outQueue = <<>> /\ toClient = <<>>

Asking(t) ==
  /\ pc[t] \in {"writing", "size"} /\ (pc[t] = "writing" => op[t] = "spawn")
  /\ outQueue = <<>> /\ toClient = <<>>
  /\ \/ toAgent = <<Call(t)>> /\ inQueue = <<>>
     \/ toAgent = <<>> /\ inQueue = <<Call(t)>>

Part(t, name, r) == [part |-> name, call |-> Call(t), result |-> r]

AnsweringSize(t) ==
  /\ op[t] = "size" /\ pc[t] = "size"
  /\ \/ outQueue = <<Part(t, "size", "sized")>> /\ toClient = <<>>
     \/ outQueue = <<>> /\ toClient = <<Part(t, "size", "sized")>>

Answering(t, r) ==
  /\ op[t] # "size" /\ pc[t] \in {"writing", "size"}
  /\ \/ outQueue = <<Part(t, "size", r), Part(t, "payload", r)>> /\ toClient = <<>>
     \/ outQueue = <<Part(t, "payload", r)>> /\ toClient = <<Part(t, "size", r)>>
     \/ outQueue = <<>> /\ toClient = <<Part(t, "size", r)>>
     \/ outQueue = <<>> /\ toClient = <<Part(t, "size", r), Part(t, "payload", r)>>

AnsweringRest(t, r) ==
  /\ op[t] # "size" /\ pc[t] = "payload"
  /\ \/ outQueue = <<Part(t, "payload", r)>> /\ toClient = <<>>
     \/ outQueue = <<>> /\ toClient = <<Part(t, "payload", r)>>

Replied(t) ==
  /\ toAgent = <<>> /\ inQueue = <<>> /\ Call(t) \in served
  /\ \/ AnsweringSize(t)
     \/ \E r \in Results(op[t]) : Answering(t, r) \/ AnsweringRest(t, r)

OneCall ==
  pipe = "open" =>
    \/ Quiet
    \/ mutex # NoThread /\ (Asking(mutex) \/ Replied(mutex))

(* A request that the agent has got is not of a call still to be written.   *)
Old(c) ==
  /\ c.thread \in Thread /\ c.n \in Nat /\ c.n <= n[c.thread]
  /\ c.n = n[c.thread] => pc[c.thread] \notin {"blocked", "locked"}

Requests ==
  /\ \A c \in served : Old(c)
  /\ inQueue # <<>> => inQueue = <<Head(inQueue)>> /\ Old(Head(inQueue))

IInv == TypeOK /\ Exclusive /\ OneCall /\ Requests

-----------------------------------------------------------------------------
(* The short sequences that a call makes of the pipe and of the queues.     *)
LEMMA Pair == \A a, b : Append(<<a>>, b) = <<a, b>>
<1> TAKE a, b
<1> DEFINE s == Append(<<a>>, b)
<1>1. <<a>> \in Seq({a, b}) /\ <<a, b>> \in Seq({a, b}) /\ b \in {a, b}
  OBVIOUS
<1>2. Len(<<a>>) = 1 /\ <<a>>[1] = a
  OBVIOUS
<1>3. s \in Seq({a, b}) /\ Len(s) = 2 /\ s[1] = a /\ s[2] = b
  BY <1>1, <1>2, AppendProperties
<1> HIDE DEF s
<1>4. Len(s) = Len(<<a, b>>) /\ \A i \in 1..2 : s[i] = <<a, b>>[i]
  BY <1>3
<1>5. s = <<a, b>>
  BY <1>1, <1>3, <1>4, SeqEqual
<1> QED
  BY <1>5 DEF s

(* A queue of one element: its head, its tail, and how it comes about.      *)
LEMMA Single ==
  \A a : /\ <<a>> # <<>> /\ Head(<<a>>) = a /\ Tail(<<a>>) = <<>>
         /\ Append(<<>>, a) = <<a>> /\ <<>> \o <<a>> = <<a>>
OBVIOUS

(* A queue of two elements, when the first is taken.                        *)
LEMMA Double ==
  \A a, b : /\ <<a, b>> # <<>> /\ Head(<<a, b>>) = a /\ Tail(<<a, b>>) = <<b>>
            /\ <<>> \o <<a, b>> = <<a, b>>
OBVIOUS

(* A reply to SetSize is one part, every other reply its size first.        *)
LEMMA PartsOf ==
  ASSUME NEW t \in Thread, NEW r \in Results(op[t]), TypeOK
  PROVE  /\ op[t] = "size" => r = "sized" /\ Parts(Call(t), r) = <<Part(t, "size", r)>>
         /\ op[t] # "size" =>
              r # "sized" /\ Parts(Call(t), r) = <<Part(t, "size", r), Part(t, "payload", r)>>
  BY DEF TypeOK, Results, Ops, Parts, Call, Part

(* Every step leaves every variable in its set.                             *)
LEMMA TypesAreKept == TypeOK /\ [Next]_vars => TypeOK'
<1> SUFFICES ASSUME TypeOK, [Next]_vars PROVE TypeOK'
  OBVIOUS
<1> USE DEF TypeOK, Calling, clientVars, agentVars
<1>1. ASSUME NEW t \in Thread, Begin(t) PROVE TypeOK'
  BY <1>1 DEF Begin
<1>2. ASSUME NEW t \in Thread, ClientStep(t) PROVE TypeOK'
  BY <1>2 DEF ClientStep, Enter, Write, WriteCompletes, ReadSize, ReadPayload,
              AgentLost, TimesOut, Returns, Fails
<1>3. CASE Tick      BY <1>3 DEF Tick
<1>4. CASE AgentStep
  BY <1>4 DEF AgentStep, AgentReads, AgentHandles, AgentWrites, AgentDies
<1>5. CASE UNCHANGED vars BY <1>5 DEF vars
<1> QED
  BY <1>1, <1>2, <1>3, <1>4, <1>5 DEF Next

(* A thread past LockGuard is the one that has the mutex.                   *)
LEMMA ExclusionIsKept == TypeOK /\ Exclusive /\ [Next]_vars => Exclusive'
<1> SUFFICES ASSUME TypeOK, Exclusive, [Next]_vars PROVE Exclusive'
  OBVIOUS
<1> USE RpcAssumption DEF TypeOK, Exclusive, Calling, clientVars, agentVars
<1>1. ASSUME NEW t \in Thread, Begin(t) PROVE Exclusive'
  BY <1>1 DEF Begin
<1>2. ASSUME NEW t \in Thread, ClientStep(t) PROVE Exclusive'
  <2>1. CASE Enter(t)           BY <2>1 DEF Enter
  <2>2. CASE Write(t)           BY <2>2 DEF Write
  <2>3. CASE WriteCompletes(t)  BY <2>3 DEF WriteCompletes
  <2>4. CASE ReadSize(t)        BY <2>4 DEF ReadSize, Returns
  <2>5. CASE ReadPayload(t)     BY <2>5 DEF ReadPayload, Returns, Fails
  <2>6. CASE AgentLost(t)       BY <2>6 DEF AgentLost, Waiting, Fails
  <2>7. CASE TimesOut(t)        BY <2>7 DEF TimesOut, Waiting, Fails
  <2> QED
    BY <1>2, <2>1, <2>2, <2>3, <2>4, <2>5, <2>6, <2>7 DEF ClientStep
<1>3. CASE Tick      BY <1>3 DEF Tick
<1>4. CASE AgentStep
  BY <1>4 DEF AgentStep, AgentReads, AgentHandles, AgentWrites, AgentDies
<1>5. CASE UNCHANGED vars BY <1>5 DEF vars
<1> QED
  BY <1>1, <1>2, <1>3, <1>4, <1>5 DEF Next

-----------------------------------------------------------------------------
(* A step that leaves the pipe, the queues and the current call alone.      *)
LEMMA Frame ==
  ASSUME OneCall, served \subseteq served',
         UNCHANGED <<pipe, mutex, toAgent, inQueue, outQueue, toClient>>,
         mutex # NoThread =>
           /\ pc'[mutex] = pc[mutex] /\ op'[mutex] = op[mutex] /\ n'[mutex] = n[mutex]
  PROVE  OneCall'
<1>1. CASE pipe # "open" \/ Quiet
  BY <1>1 DEF OneCall, Quiet
<1>2. ASSUME mutex # NoThread, Asking(mutex) PROVE OneCall'
  BY <1>2 DEF OneCall, Asking, Call
<1>3. ASSUME mutex # NoThread, Replied(mutex) PROVE OneCall'
  <2>1. Call(mutex)' = Call(mutex) /\ Results(op[mutex])' = Results(op[mutex])
        /\ \A name, r : Part(mutex, name, r)' = Part(mutex, name, r)
    BY <1>3 DEF Call, Part, Results
  <2>2. Replied(mutex)'
    BY <1>3, <2>1 DEF Replied, AnsweringSize, Answering, AnsweringRest
  <2> QED
    BY <1>3, <2>2 DEF OneCall
<1> QED
  BY <1>1, <1>2, <1>3 DEF OneCall

(* A call begins: the pipe still holds only the current call's (OneCall).   *)
LEMMA BeginKeepsCall ==
  ASSUME TypeOK, Exclusive, OneCall, NEW t \in Thread, Begin(t)
  PROVE  OneCall'
<1>1. mutex # t
  BY DEF Begin, Exclusive, Calling
<1>2. mutex # NoThread => mutex \in Thread
  BY DEF TypeOK
<1> QED
  BY <1>1, <1>2, Frame DEF Begin, TypeOK, agentVars

(* LockGuard is passed: the pipe is quiet, and stays so.                    *)
LEMMA EnterKeepsCall ==
  ASSUME TypeOK, Exclusive, OneCall, NEW t \in Thread, Enter(t)
  PROVE  OneCall'
BY DEF Enter, OneCall, Quiet, agentVars

(* The request is handed to the pipe.                                       *)
LEMMA WriteKeepsCall ==
  ASSUME TypeOK, Exclusive, OneCall, NEW t \in Thread, Write(t)
  PROVE  OneCall'
<1>1. mutex = t /\ t # NoThread
  BY RpcAssumption DEF Write, Exclusive, Calling
<1>2. pipe = "open" => Quiet
  BY <1>1 DEF Write, OneCall, Asking, Replied, AnsweringSize, Answering, AnsweringRest
<1>3. ASSUME pipe = "open" PROVE Asking(t)'
  <2>1. toAgent' = <<Call(t)>> /\ Call(t)' = Call(t)
    BY <1>2, <1>3, Single DEF Write, Quiet, Call
  <2>2. pc'[t] \in {"writing", "size"} /\ (pc'[t] = "writing" => op'[t] = "spawn")
    BY DEF Write, TypeOK
  <2> QED
    BY <1>2, <1>3, <2>1, <2>2 DEF Write, Asking, Quiet, agentVars
<1> QED
  BY <1>1, <1>3 DEF OneCall, Write

(* The write is over, and the request may already be served.                *)
LEMMA WriteCompletesKeepsCall ==
  ASSUME TypeOK, Exclusive, OneCall, NEW t \in Thread, WriteCompletes(t)
  PROVE  OneCall'
<1>1. mutex = t /\ t # NoThread /\ pc[t] = "writing" /\ pc'[t] = "size"
  BY RpcAssumption DEF WriteCompletes, Exclusive, Calling, TypeOK
<1>2. /\ UNCHANGED <<op, n, mutex, pipe, toAgent, inQueue, outQueue, toClient, served>>
      /\ Call(t)' = Call(t) /\ Results(op[t])' = Results(op[t])
      /\ \A name, r : Part(t, name, r)' = Part(t, name, r)
  BY DEF WriteCompletes, agentVars, Call, Part, Results
<1>3. Asking(t) => Asking(t)'
  BY <1>1, <1>2 DEF Asking
<1>4. Replied(t) => Replied(t)'
  BY <1>1, <1>2 DEF Replied, AnsweringSize, Answering, AnsweringRest
<1>5. Quiet => Quiet'
  BY <1>2 DEF Quiet
<1> QED
  BY <1>1, <1>2, <1>3, <1>4, <1>5 DEF OneCall

(* The first part of a reply is all of it exactly when SetSize was called.  *)
LEMMA SizeRead ==
  ASSUME TypeOK, Exclusive, OneCall, NEW t \in Thread, ReadSize(t)
  PROVE  /\ OneCall' /\ pipe = "open" /\ Call(t) \in served
<1>1. mutex = t /\ t # NoThread /\ pc[t] = "size" /\ pipe = "open" /\ toClient # <<>>
  BY RpcAssumption DEF ReadSize, Exclusive, Calling, TypeOK
<1>2. Replied(t)
  BY <1>1 DEF OneCall, Quiet, Asking
<1>3. UNCHANGED <<op, n, agentVars, served>> /\ toClient' = Tail(toClient)
  BY DEF ReadSize
<1>4. CASE AnsweringSize(t)
  <2>1. toClient = <<Part(t, "size", "sized")>> /\ outQueue = <<>>
    BY <1>1, <1>4 DEF AnsweringSize
  <2>2. Head(toClient).result = "sized" /\ toClient' = <<>>
    BY <1>3, <2>1, Single DEF Part
  <2>3. UNCHANGED toAgent
    BY <2>2 DEF ReadSize, Returns
  <2>4. Quiet'
    BY <1>2, <1>3, <2>1, <2>2, <2>3 DEF Quiet, Replied, agentVars
  <2> QED
    BY <1>1, <1>2, <2>4 DEF OneCall, Replied
<1>5. ASSUME NEW r \in Results(op[t]), Answering(t, r) PROVE OneCall'
  <2>1. r # "sized" /\ op[t] # "size"
    BY <1>5, PartsOf DEF Answering
  <2>2. Head(toClient).result # "sized"
    BY <1>1, <1>5, <2>1, Single, Double DEF Answering, Part
  <2>3. pc' = [pc EXCEPT ![t] = "payload"] /\ UNCHANGED <<mutex, pipe, toAgent>>
    BY <2>2 DEF ReadSize
  <2>4. \/ toClient' = <<>> /\ outQueue' = <<Part(t, "payload", r)>>
        \/ toClient' = <<>> /\ outQueue' = <<>>
        \/ toClient' = <<Part(t, "payload", r)>> /\ outQueue' = <<>>
    BY <1>1, <1>3, <1>5, Single, Double DEF Answering, agentVars
  <2>5. /\ toAgent' = <<>> /\ inQueue' = <<>> /\ Call(t)' \in served'
        /\ pc'[t] = "payload" /\ op'[t] = op[t]
    BY <1>2, <1>3, <2>3 DEF Replied, Call, TypeOK, agentVars
  <2>6. Results(op[t])' = Results(op[t])
        /\ \A name : Part(t, name, r)' = Part(t, name, r)
    BY <1>3 DEF Part, Call, Results
  <2>7. Quiet' \/ (AnsweringRest(t, r)' /\ Replied(t)')
    BY <2>1, <2>4, <2>5, <2>6 DEF Quiet, AnsweringRest, Replied
  <2> QED
    BY <1>1, <2>3, <2>7 DEF OneCall
<1> QED
  BY <1>1, <1>2, <1>4, <1>5 DEF Replied, AnsweringRest

(* The rest of a reply is read: nothing of it is left in the pipe.          *)
LEMMA PayloadRead ==
  ASSUME TypeOK, Exclusive, OneCall, NEW t \in Thread, ReadPayload(t)
  PROVE  /\ OneCall' /\ pipe = "open" /\ Call(t) \in served
<1>1. mutex = t /\ t # NoThread /\ pc[t] = "payload" /\ pipe = "open" /\ toClient # <<>>
  BY RpcAssumption DEF ReadPayload, Exclusive, Calling, TypeOK
<1>2. Replied(t)
  BY <1>1 DEF OneCall, Quiet, Asking
<1>3. PICK r \in Results(op[t]) : AnsweringRest(t, r)
  BY <1>1, <1>2 DEF Replied, AnsweringSize, Answering
<1>4. CASE Fails(t, "good reply") \/ Fails(t, "no handle")
  BY <1>2, <1>1, <1>4 DEF Fails, OneCall, Replied
<1>5. CASE toClient' = Tail(toClient) /\ Returns(t)
  <2>1. toClient' = <<>> /\ outQueue = <<>>
    BY <1>1, <1>3, <1>5, Single DEF AnsweringRest
  <2>2. Quiet'
    BY <1>2, <1>5, <2>1 DEF Quiet, Replied, Returns, ReadPayload, agentVars
  <2> QED
    BY <1>1, <1>2, <2>2 DEF OneCall, Replied
<1> QED
  BY <1>4, <1>5 DEF ReadPayload

(* A call that fails closes the pipe; OneCall is about an open one.         *)
LEMMA FailureKeepsCall ==
  ASSUME TypeOK, NEW t \in Thread, NEW why, Fails(t, why)
  PROVE  OneCall'
BY DEF Fails, OneCall

(* No step of a calling thread breaks OneCall.                              *)
LEMMA ClientKeepsCall ==
  ASSUME TypeOK, Exclusive, OneCall, NEW t \in Thread, ClientStep(t)
  PROVE  OneCall'
<1>1. CASE Enter(t)           BY <1>1, EnterKeepsCall
<1>2. CASE Write(t)           BY <1>2, WriteKeepsCall
<1>3. CASE WriteCompletes(t)  BY <1>3, WriteCompletesKeepsCall
<1>4. CASE ReadSize(t)        BY <1>4, SizeRead
<1>5. CASE ReadPayload(t)     BY <1>5, PayloadRead
<1>6. CASE AgentLost(t)       BY <1>6, FailureKeepsCall DEF AgentLost
<1>7. CASE TimesOut(t)        BY <1>7, FailureKeepsCall DEF TimesOut
<1> QED
  BY <1>1, <1>2, <1>3, <1>4, <1>5, <1>6, <1>7 DEF ClientStep

(* What the agent does changes neither the calls nor who makes them.        *)
LEMMA AgentLeavesCalls ==
  AgentStep =>
    /\ UNCHANGED <<pc, op, n, mutex, pipe>> /\ served \subseteq served'
    /\ \A t : /\ Call(t)' = Call(t) /\ Results(op[t])' = Results(op[t])
              /\ \A name, r : Part(t, name, r)' = Part(t, name, r)
BY DEF AgentStep, AgentReads, AgentHandles, AgentWrites, AgentDies, clientVars,
       Call, Part, Results

(* The agent takes the request from its end of the pipe.                    *)
LEMMA ReadsKeepsCall ==
  ASSUME TypeOK, OneCall, AgentReads PROVE OneCall'
<1>1. pipe = "open" /\ mutex # NoThread /\ Asking(mutex)
  BY DEF AgentReads, OneCall, Quiet, Replied
<1>2. toAgent = <<Call(mutex)>> /\ inQueue = <<>>
  BY <1>1 DEF AgentReads, Asking
<1>3. toAgent' = <<>> /\ inQueue' = <<Call(mutex)>>
  BY <1>2, Single DEF AgentReads
<1>4. Asking(mutex)'
  BY <1>1, <1>3, AgentLeavesCalls DEF AgentStep, AgentReads, Asking
<1> QED
  BY <1>1, <1>4, AgentLeavesCalls DEF AgentStep, OneCall

(* The request that the agent carries out is the current call's.            *)
LEMMA HandlesCurrentCall ==
  ASSUME TypeOK, Exclusive, OneCall, AgentHandles, pipe = "open"
  PROVE  /\ mutex \in Thread /\ Asking(mutex) /\ toAgent = <<>>
         /\ inQueue = <<Call(mutex)>> /\ Head(inQueue) = Call(mutex)
<1>1. mutex # NoThread /\ Asking(mutex)
  BY DEF AgentHandles, OneCall, Quiet, Replied
<1>2. toAgent = <<>> /\ inQueue = <<Call(mutex)>>
  BY <1>1 DEF AgentHandles, Asking
<1> QED
  BY <1>1, <1>2, Single DEF TypeOK

(* The agent carries the request out and queues the reply.                  *)
LEMMA HandlesKeepsCall ==
  ASSUME TypeOK, Exclusive, OneCall, AgentHandles PROVE OneCall'
<1> SUFFICES ASSUME pipe = "open" PROVE OneCall'
  BY DEF AgentHandles, OneCall, clientVars
<1>1. /\ mutex \in Thread /\ Asking(mutex) /\ toAgent = <<>>
      /\ inQueue = <<Call(mutex)>> /\ Head(inQueue) = Call(mutex)
  BY HandlesCurrentCall
<1>2. Call(mutex).op = op[mutex]
  BY DEF Call
<1>3. PICK r \in Results(op[mutex]) : outQueue' = outQueue \o Parts(Call(mutex), r)
  BY <1>1, <1>2 DEF AgentHandles
<1>4. /\ inQueue' = <<>> /\ toAgent' = <<>> /\ toClient' = <<>> /\ Call(mutex) \in served'
      /\ outQueue' = <<>> \o Parts(Call(mutex), r)
  BY <1>1, <1>3, Single DEF AgentHandles, Asking
<1>5. CASE op[mutex] = "size"
  <2>1. outQueue' = <<Part(mutex, "size", "sized")>>
    BY <1>1, <1>4, <1>5, PartsOf, Single
  <2>2. pc[mutex] = "size"
    BY <1>1, <1>5 DEF Asking
  <2>3. AnsweringSize(mutex)'
    BY <1>4, <1>5, <2>1, <2>2, AgentLeavesCalls DEF AgentStep, AnsweringSize
  <2> QED
    BY <1>1, <1>4, <2>3, AgentLeavesCalls, RpcAssumption DEF AgentStep, OneCall, Replied
<1>6. CASE op[mutex] # "size"
  <2>1. outQueue' = <<Part(mutex, "size", r), Part(mutex, "payload", r)>>
    BY <1>1, <1>4, <1>6, PartsOf, Double
  <2>2. Answering(mutex, r)'
    BY <1>1, <1>4, <1>6, <2>1, AgentLeavesCalls DEF AgentStep, Answering, Asking
  <2>3. Replied(mutex)'
    BY <1>4, <2>2, AgentLeavesCalls DEF AgentStep, Replied
  <2> QED
    BY <1>1, <2>3, AgentLeavesCalls, RpcAssumption DEF AgentStep, OneCall
<1> QED
  BY <1>5, <1>6

(* A part of the reply goes to the client's end of the pipe.                *)
LEMMA WritesKeepsCall ==
  ASSUME TypeOK, OneCall, AgentWrites PROVE OneCall'
<1>1. pipe = "open" /\ outQueue # <<>> /\ mutex # NoThread /\ Replied(mutex)
  BY DEF AgentWrites, OneCall, Quiet, Asking
<1>2. /\ outQueue' = Tail(outQueue) /\ toClient' = Append(toClient, Head(outQueue))
      /\ UNCHANGED <<toAgent, inQueue, served, pc, op, n, mutex, pipe>>
  BY DEF AgentWrites, clientVars
<1>3. CASE AnsweringSize(mutex)
  <2>1. outQueue' = <<>> /\ toClient' = <<Part(mutex, "size", "sized")>>
    BY <1>1, <1>2, <1>3, Single DEF AnsweringSize
  <2>2. AnsweringSize(mutex)'
    BY <1>2, <1>3, <2>1, AgentLeavesCalls DEF AgentStep, AnsweringSize
  <2> QED
    BY <1>1, <1>2, <2>2, AgentLeavesCalls DEF AgentStep, OneCall, Replied
<1>4. ASSUME NEW r \in Results(op[mutex]), Answering(mutex, r) PROVE OneCall'
  <2>1. \/ outQueue' = <<Part(mutex, "payload", r)>> /\ toClient' = <<Part(mutex, "size", r)>>
        \/ /\ outQueue' = <<>>
           /\ toClient' = <<Part(mutex, "size", r), Part(mutex, "payload", r)>>
    <3> DEFINE a == Part(mutex, "size", r)
               b == Part(mutex, "payload", r)
    <3>1. CASE outQueue = <<a, b>> /\ toClient = <<>>
      <4>1. outQueue' = <<b>> /\ toClient' = Append(<<>>, a)
        BY <1>2, <3>1, Double
      <4> QED
        BY <4>1, Single
    <3>2. CASE outQueue = <<b>> /\ toClient = <<a>>
      <4>1. outQueue' = <<>> /\ toClient' = Append(<<a>>, b)
        BY <1>2, <3>2, Single
      <4>2. Append(<<a>>, b) = <<a, b>>
        BY Pair
      <4> QED
        BY <4>1, <4>2, Zenon
    <3> QED
      BY <1>1, <1>4, <3>1, <3>2 DEF Answering
  <2>2. Answering(mutex, r)'
    BY <1>2, <1>4, <2>1, AgentLeavesCalls DEF AgentStep, Answering
  <2>3. Replied(mutex)'
    BY <1>1, <1>2, <2>2, AgentLeavesCalls DEF AgentStep, Replied
  <2> QED
    BY <1>1, <1>2, <2>3 DEF OneCall
<1>5. ASSUME NEW r \in Results(op[mutex]), AnsweringRest(mutex, r) PROVE OneCall'
  <2>1. outQueue' = <<>> /\ toClient' = <<Part(mutex, "payload", r)>>
    BY <1>1, <1>2, <1>5, Single DEF AnsweringRest
  <2>2. AnsweringRest(mutex, r)'
    BY <1>2, <1>5, <2>1, AgentLeavesCalls DEF AgentStep, AnsweringRest
  <2>3. Replied(mutex)'
    BY <1>1, <1>2, <2>2, AgentLeavesCalls DEF AgentStep, Replied
  <2> QED
    BY <1>1, <1>2, <2>3 DEF OneCall
<1> QED
  BY <1>1, <1>3, <1>4, <1>5 DEF Replied

(* The agent dies: what was still queued in it is lost.                     *)
LEMMA DeathKeepsCall ==
  ASSUME TypeOK, OneCall, AgentDies PROVE OneCall'
<1>1. /\ inQueue' = <<>> /\ outQueue' = <<>>
      /\ UNCHANGED <<toAgent, toClient, served, pc, op, n, mutex, pipe>>
  BY DEF AgentDies, clientVars
<1>2. CASE pipe # "open" \/ Quiet
  BY <1>1, <1>2 DEF OneCall, Quiet
<1>3. ASSUME mutex # NoThread, Asking(mutex) PROVE OneCall'
  <2>1. Quiet' \/ Asking(mutex)'
    BY <1>1, <1>3, AgentLeavesCalls DEF AgentStep, Asking, Quiet
  <2> QED
    BY <1>1, <1>3, <2>1 DEF OneCall
<1>4. ASSUME mutex # NoThread, Replied(mutex), AnsweringSize(mutex) PROVE OneCall'
  <2>1. Quiet' \/ (AnsweringSize(mutex)' /\ Replied(mutex)')
    BY <1>1, <1>4, AgentLeavesCalls DEF AgentStep, Replied, AnsweringSize, Quiet
  <2> QED
    BY <1>1, <1>4, <2>1 DEF OneCall
<1>5. ASSUME mutex # NoThread, Replied(mutex), NEW r \in Results(op[mutex]),
             Answering(mutex, r) \/ AnsweringRest(mutex, r)
      PROVE  OneCall'
  <2>1. CASE toClient = <<>>
    <3>1. Quiet'
      BY <1>1, <1>5, <2>1 DEF Replied, Quiet
    <3> QED
      BY <3>1 DEF OneCall
  <2>2. CASE toClient # <<>> /\ Answering(mutex, r)
    <3>1. toClient \in {<<Part(mutex, "size", r)>>,
                        <<Part(mutex, "size", r), Part(mutex, "payload", r)>>}
      BY <2>2 DEF Answering
    <3>2. Answering(mutex, r)'
      BY <1>1, <2>2, <3>1, AgentLeavesCalls DEF AgentStep, Answering
    <3>3. Replied(mutex)'
      BY <1>1, <1>5, <3>2, AgentLeavesCalls DEF AgentStep, Replied
    <3> QED
      BY <1>1, <1>5, <3>3 DEF OneCall
  <2>3. CASE toClient # <<>> /\ AnsweringRest(mutex, r)
    <3>1. AnsweringRest(mutex, r)'
      BY <1>1, <2>3, AgentLeavesCalls DEF AgentStep, AnsweringRest
    <3>2. Replied(mutex)'
      BY <1>1, <1>5, <3>1, AgentLeavesCalls DEF AgentStep, Replied
    <3> QED
      BY <1>1, <1>5, <3>2 DEF OneCall
  <2> QED
    BY <1>5, <2>1, <2>2, <2>3
<1> QED
  BY <1>2, <1>3, <1>4, <1>5 DEF OneCall, Replied

(* No step breaks OneCall.                                                  *)
LEMMA CallIsKept == TypeOK /\ Exclusive /\ OneCall /\ [Next]_vars => OneCall'
<1> SUFFICES ASSUME TypeOK, Exclusive, OneCall, [Next]_vars PROVE OneCall'
  OBVIOUS
<1>1. ASSUME NEW t \in Thread, Begin(t) PROVE OneCall'
  BY <1>1, BeginKeepsCall
<1>2. ASSUME NEW t \in Thread, ClientStep(t) PROVE OneCall'
  BY <1>2, ClientKeepsCall
<1>3. CASE Tick
  BY <1>3, Frame DEF Tick, agentVars
<1>4. CASE AgentStep
  BY <1>4, ReadsKeepsCall, HandlesKeepsCall, WritesKeepsCall, DeathKeepsCall DEF AgentStep
<1>5. CASE UNCHANGED vars
  BY <1>5, Frame DEF vars, clientVars, agentVars
<1> QED
  BY <1>1, <1>2, <1>3, <1>4, <1>5 DEF Next

-----------------------------------------------------------------------------
(* A new call has not been served, nor any that has not been made.          *)
LEMMA BeginKeepsRequests ==
  ASSUME TypeOK, Requests, NEW t \in Thread, Begin(t) PROVE Requests'
<1>1. \A c : Old(c) => Old(c)'
  BY DEF Begin, Old, TypeOK
<1> QED
  BY <1>1 DEF Begin, Requests, agentVars

(* A calling thread's step serves nothing.                                  *)
LEMMA ClientKeepsRequests ==
  ASSUME TypeOK, Requests, NEW t \in Thread, ClientStep(t) PROVE Requests'
<1>1. /\ UNCHANGED <<n, inQueue, served>>
      /\ \A u \in Thread : pc'[u] \in {"blocked", "locked"} => pc[u] \in {"blocked", "locked"}
  <2>1. CASE Enter(t)           BY <2>1 DEF Enter, TypeOK, agentVars
  <2>2. CASE Write(t)           BY <2>2 DEF Write, TypeOK, agentVars
  <2>3. CASE WriteCompletes(t)  BY <2>3 DEF WriteCompletes, TypeOK, agentVars
  <2>4. CASE ReadSize(t)        BY <2>4 DEF ReadSize, Returns, TypeOK, agentVars
  <2>5. CASE ReadPayload(t)     BY <2>5 DEF ReadPayload, Returns, Fails, TypeOK, agentVars
  <2>6. CASE AgentLost(t)       BY <2>6 DEF AgentLost, Fails, TypeOK, agentVars
  <2>7. CASE TimesOut(t)        BY <2>7 DEF TimesOut, Fails, TypeOK, agentVars
  <2> QED
    BY <2>1, <2>2, <2>3, <2>4, <2>5, <2>6, <2>7 DEF ClientStep
<1>2. \A c : Old(c) => Old(c)'
  BY <1>1 DEF Old
<1> QED
  BY <1>1, <1>2 DEF Requests

(* The agent serves only what has been asked.                               *)
LEMMA AgentKeepsRequests ==
  ASSUME TypeOK, Exclusive, OneCall, Requests, AgentStep PROVE Requests'
<1>1. \A c : Old(c)' <=> Old(c)
  BY AgentLeavesCalls DEF Old
<1>2. CASE AgentReads
  <2>1. pipe = "open" /\ mutex # NoThread /\ Asking(mutex)
    BY <1>2 DEF AgentReads, OneCall, Quiet, Replied
  <2>2. toAgent = <<Call(mutex)>> /\ inQueue = <<>>
    BY <1>2, <2>1 DEF AgentReads, Asking
  <2>3. inQueue' = <<Call(mutex)>> /\ Head(inQueue') = Call(mutex) /\ served' = served
    BY <1>2, <2>2, Single DEF AgentReads
  <2>4. Old(Call(mutex))
    BY <2>1 DEF Old, Call, Asking, TypeOK
  <2> QED
    BY <1>1, <2>3, <2>4 DEF Requests
<1>3. CASE AgentHandles
  <2>1. inQueue = <<Head(inQueue)>> /\ Old(Head(inQueue))
    BY <1>3 DEF AgentHandles, Requests
  <2>2. inQueue' = <<>> /\ served' = served \cup {Head(inQueue)}
    BY <1>3, <2>1, Single DEF AgentHandles
  <2> QED
    BY <1>1, <2>1, <2>2 DEF Requests
<1>4. CASE AgentWrites
  BY <1>1, <1>4 DEF AgentWrites, Requests
<1>5. CASE AgentDies
  BY <1>1, <1>5 DEF AgentDies, Requests
<1> QED
  BY <1>2, <1>3, <1>4, <1>5 DEF AgentStep

(* No step breaks Requests.                                                 *)
LEMMA RequestsAreKept == IInv /\ [Next]_vars => Requests'
<1> SUFFICES ASSUME IInv, [Next]_vars PROVE Requests'
  OBVIOUS
<1> USE DEF IInv
<1>1. CASE Tick \/ UNCHANGED vars
  <2>1. UNCHANGED <<pc, n, inQueue, served>>
    BY <1>1 DEF Tick, vars, clientVars, agentVars
  <2> QED
    BY <2>1 DEF Requests, Old
<1> QED
  BY <1>1, BeginKeepsRequests, ClientKeepsRequests, AgentKeepsRequests DEF Next

-----------------------------------------------------------------------------
(* Every step keeps the inductive invariant.                                *)
LEMMA InvIsKept == IInv /\ [Next]_vars => IInv'
BY TypesAreKept, ExclusionIsKept, CallIsKept, RequestsAreKept DEF IInv

(* The inductive invariant holds in every reachable state.                  *)
THEOREM RpcInvariance == Spec => []IInv
<1>1. Init => IInv
  BY RpcAssumption DEF Init, IInv, TypeOK, Calling, Exclusive, OneCall, Quiet, Requests, Ops
<1> QED
  BY <1>1, InvIsKept, PTL DEF Spec

(* Every element of two sequences in a row is one of theirs.                *)
LEMMA Joined ==
  ASSUME NEW S, NEW s \in Seq(S), NEW u \in Seq(S)
  PROVE  \A i \in 1..Len(s \o u) : (s \o u)[i] \in S
<1>1. s \o u \in Seq(S)
  BY ConcatProperties
<1> QED
  BY <1>1, ElementOfSeq

(* The pipe and the agent's queue together hold the one request.            *)
LEMMA CallsInFlight ==
  ASSUME NEW c, (toAgent = <<c>> /\ inQueue = <<>>) \/ (toAgent = <<>> /\ inQueue = <<c>>)
  PROVE  toAgent \o inQueue = <<c>>
<1>1. \A a : <<a>> \o <<>> = <<a>>
  OBVIOUS
<1> QED
  BY <1>1, Single

(* An open control pipe, with the agent's queues, holds nothing but what    *)
(* belongs to the call that has the mutex, and a request or parts of its    *)
(* reply, not both (RpcOperation, LockGuard).                               *)
THEOREM OnlyTheCurrentCall == Spec => []InFlight
<1>1. IInv => InFlight
  <2> SUFFICES ASSUME IInv, pipe = "open" PROVE InFlight
    BY DEF InFlight
  <2> DEFINE calls == toAgent \o inQueue
             parts == outQueue \o toClient
  <2>1. CASE Quiet
    <3>1. calls = <<>> /\ parts = <<>>
      BY <2>1 DEF Quiet
    <3> QED
      BY <3>1 DEF InFlight
  <2>2. CASE mutex # NoThread /\ Asking(mutex)
    <3> DEFINE c == Call(mutex)
    <3>1. (toAgent = <<c>> /\ inQueue = <<>>) \/ (toAgent = <<>> /\ inQueue = <<c>>)
      BY <2>2 DEF Asking
    <3>2. parts = <<>>
      BY <2>2 DEF Asking
    <3> HIDE DEF c
    <3>3. calls = <<c>>
      BY <3>1, CallsInFlight
    <3>4. Len(calls) <= 1 /\ \A i \in 1..Len(calls) : calls[i] = c
      <4> HIDE DEF calls
      <4> QED BY <3>3
    <3>5. \A i \in 1..Len(parts) : FALSE
      <4> HIDE DEF parts
      <4> QED BY <3>2
    <3> HIDE DEF calls, parts
    <3>6. InFlight <=>
            /\ Len(calls) <= 1 /\ (calls # <<>> => parts = <<>>)
            /\ \A i \in 1..Len(calls) : mutex # NoThread /\ calls[i] = c
            /\ \A i \in 1..Len(parts) : mutex # NoThread /\ parts[i].call = c
      BY DEF InFlight, calls, parts, c
    <3> QED
      BY <2>2, <3>2, <3>4, <3>5, <3>6
  <2>3. CASE mutex # NoThread /\ Replied(mutex)
    <3>1. calls = <<>>
      BY <2>3 DEF Replied
    <3> DEFINE Mine == {Part(mutex, name, r) : name \in {"size", "payload"},
                                               r \in Results(op[mutex]) \cup {"sized"}}
    <3>2. \A a, b \in Mine : {<<>>, <<a>>, <<a, b>>} \subseteq Seq(Mine)
      <4> HIDE DEF Mine
      <4> QED OBVIOUS
    <3>3. \A r \in Results(op[mutex]) \cup {"sized"} :
            Part(mutex, "size", r) \in Mine /\ Part(mutex, "payload", r) \in Mine
      OBVIOUS
    <3>4. \A a \in Mine : a.call = Call(mutex)
      BY DEF Part
    <3> HIDE DEF Mine
    <3>5. outQueue \in Seq(Mine) /\ toClient \in Seq(Mine)
      <4>1. CASE AnsweringSize(mutex)
        BY <3>2, <3>3, <4>1 DEF AnsweringSize
      <4>2. ASSUME NEW r \in Results(op[mutex]), Answering(mutex, r) \/ AnsweringRest(mutex, r)
            PROVE  outQueue \in Seq(Mine) /\ toClient \in Seq(Mine)
        <5>1. Part(mutex, "size", r) \in Mine /\ Part(mutex, "payload", r) \in Mine
          BY <3>3
        <5> QED
          BY <3>2, <4>2, <5>1 DEF Answering, AnsweringRest
      <4> QED
        BY <2>3, <4>1, <4>2 DEF Replied
    <3>6. \A i \in 1..Len(parts) : parts[i].call = Call(mutex)
      BY <3>4, <3>5, Joined
    <3> QED
      BY <2>3, <3>1, <3>6 DEF InFlight
  <2> QED
    BY <2>1, <2>2, <2>3 DEF IInv, OneCall
<1> QED
  BY <1>1, RpcInvariance, PTL

-----------------------------------------------------------------------------
(* The steps of Rpc as steps of RpcPromise, or of nobody.                   *)
LEMMA Statuses ==
  /\ DOMAIN CallStatus = Thread
  /\ \A t \in Thread :
       CallStatus[t] = IF pc[t] = "idle" THEN "idle"
                       ELSE IF Call(t) \in served THEN "served" ELSE "asked"
BY DEF CallStatus

(* A step that changes neither a call's status nor the link.                *)
LEMMA Stutters ==
  ASSUME UNCHANGED <<op, n, pipe, served>>,
         \A t \in Thread : pc'[t] = "idle" <=> pc[t] = "idle"
  PROVE  UNCHANGED <<CallStatus, Link>>
<1>1. \A t : Call(t)' = Call(t)
  BY DEF Call
<1> QED
  BY <1>1 DEF CallStatus, Link

(* A call returns.                                                          *)
LEMMA Idles ==
  ASSUME TypeOK, NEW t \in Thread, UNCHANGED <<op, n, served>>,
         pc' = [pc EXCEPT ![t] = "idle"]
  PROVE  CallStatus' = [CallStatus EXCEPT ![t] = "idle"]
<1>1. \A u : Call(u)' = Call(u)
  BY DEF Call
<1> QED
  BY <1>1 DEF CallStatus, TypeOK

(* A call that begins is asked.                                             *)
LEMMA BeginAsks ==
  ASSUME IInv, NEW t \in Thread, Begin(t) PROVE Promise!Ask(t)
<1> USE DEF IInv
<1>1. CallStatus[t] = "idle"
  BY Statuses DEF Begin
<1>2. \A u \in Thread : u # t => Call(u)' = Call(u) /\ pc'[u] = pc[u]
  BY DEF Begin, Call, TypeOK
<1>3. Call(t)' \notin served
  <2>1. n'[t] = n[t] + 1 /\ n[t] \in Nat
    BY DEF Begin, TypeOK
  <2>2. Call(t)'.n = n[t] + 1 /\ Call(t)'.thread = t
    BY <2>1 DEF Call
  <2> QED
    BY <2>1, <2>2 DEF Requests, Old
<1>4. pc'[t] = "blocked" /\ served' = served /\ pipe' = pipe
  BY DEF Begin, TypeOK
<1>5. CallStatus' = [CallStatus EXCEPT ![t] = "asked"]
  BY <1>2, <1>3, <1>4 DEF CallStatus
<1> QED
  BY <1>1, <1>4, <1>5 DEF Promise!Ask, Link

(* A call that fails, fails; the link is down from then on.                 *)
LEMMA FailureFails ==
  ASSUME IInv, NEW t \in Thread, NEW why, pc[t] # "idle", Fails(t, why),
         UNCHANGED <<op, n, served>>
  PROVE  Promise!Fail(t)
<1>1. CallStatus[t] # "idle"
  BY Statuses
<1>2. CallStatus' = [CallStatus EXCEPT ![t] = "idle"]
  BY Idles DEF Fails, IInv
<1> QED
  BY <1>1, <1>2 DEF Promise!Fail, Fails, Link

(* A call returns only what was served.                                     *)
LEMMA ReturnReturns ==
  ASSUME IInv, NEW t \in Thread, pc[t] # "idle", Call(t) \in served, Returns(t),
         UNCHANGED <<op, n, served>>
  PROVE  Promise!Return(t)
<1>1. CallStatus[t] = "served"
  BY Statuses
<1>2. CallStatus' = [CallStatus EXCEPT ![t] = "idle"]
  BY Idles DEF Returns, IInv
<1> QED
  BY <1>1, <1>2 DEF Promise!Return, Returns, Link

(* A step of a calling thread is one of RpcPromise, or of nobody.           *)
LEMMA ClientKeepsPromise ==
  ASSUME IInv, NEW t \in Thread, ClientStep(t)
  PROVE  Promise!Fail(t) \/ Promise!Return(t) \/ UNCHANGED <<CallStatus, Link>>
<1> USE DEF IInv
<1>1. CASE Enter(t)
  <2>1. CASE pipe = "open"
    BY <1>1, <2>1, Stutters DEF Enter, TypeOK
  <2>2. CASE pipe # "open"
    <3>1. CallStatus[t] # "idle" /\ CallStatus' = [CallStatus EXCEPT ![t] = "idle"]
      BY <1>1, <2>2, Statuses, Idles DEF Enter
    <3> QED
      BY <1>1, <2>2, <3>1 DEF Promise!Fail, Enter, Link
  <2> QED
    BY <2>1, <2>2
<1>2. CASE Write(t)
  BY <1>2, Stutters DEF Write, TypeOK
<1>3. CASE WriteCompletes(t)
  BY <1>3, Stutters DEF WriteCompletes, TypeOK
<1>4. CASE ReadSize(t)
  <2>1. CASE Returns(t)
    BY <1>4, <2>1, SizeRead, ReturnReturns DEF ReadSize
  <2>2. CASE pc' = [pc EXCEPT ![t] = "payload"] /\ UNCHANGED pipe
    BY <1>4, <2>2, Stutters DEF ReadSize, TypeOK
  <2> QED
    BY <1>4, <2>1, <2>2 DEF ReadSize
<1>5. CASE ReadPayload(t)
  <2>1. CASE Returns(t)
    BY <1>5, <2>1, PayloadRead, ReturnReturns DEF ReadPayload
  <2>2. CASE Fails(t, "good reply") \/ Fails(t, "no handle")
    BY <1>5, <2>2, FailureFails DEF ReadPayload
  <2> QED
    BY <1>5, <2>1, <2>2 DEF ReadPayload
<1>6. CASE AgentLost(t)
  BY <1>6, FailureFails DEF AgentLost, Waiting
<1>7. CASE TimesOut(t)
  BY <1>7, FailureFails DEF TimesOut, Waiting
<1> QED
  BY <1>1, <1>2, <1>3, <1>4, <1>5, <1>6, <1>7 DEF ClientStep

(* Handling a request serves the current call, if the pipe is open.         *)
LEMMA HandlingServes ==
  ASSUME IInv, AgentHandles
  PROVE  (\E t \in Thread : Promise!Serve(t)) \/ UNCHANGED <<CallStatus, Link>>
<1> USE DEF IInv
<1> DEFINE c == Head(inQueue)
<1>1. /\ UNCHANGED <<pc, pipe, mutex>> /\ served' = served \cup {c}
      /\ \A t : Call(t)' = Call(t)
  BY AgentLeavesCalls DEF AgentHandles, AgentStep
<1>2. Link' = Link
  BY <1>1 DEF Link
<1>3. CASE pipe = "open"
  <2>1. mutex \in Thread /\ Asking(mutex) /\ c = Call(mutex)
    BY <1>3, HandlesCurrentCall
  <2>2. \A t \in Thread : t # mutex => Call(t) # c
    BY <2>1 DEF Call
  <2>3. \A t \in Thread : t # mutex => CallStatus[t] # "served"
    <3>1. \A t \in Thread : t # mutex => pc[t] \in {"idle", "blocked"}
      BY DEF Exclusive, TypeOK, Calling
    <3>2. \A t \in Thread : pc[t] = "blocked" => Call(t) \notin served
      BY DEF Requests, Old, Call
    <3> QED
      BY <3>1, <3>2, Statuses
  <2>4. CASE c \in served
    <3>1. CallStatus' = CallStatus
      BY <1>1, <2>4 DEF CallStatus
    <3> QED
      BY <1>2, <3>1
  <2>5. CASE c \notin served
    <3>1. CallStatus[mutex] = "asked" /\ pc[mutex] # "idle"
      BY <2>1, <2>5, Statuses DEF Asking
    <3> HIDE DEF c
    <3>2. CallStatus' = [CallStatus EXCEPT ![mutex] = "served"]
      BY <1>1, <2>1, <2>2, <3>1 DEF CallStatus
    <3>3. \A t \in Thread : CallStatus[t] # "served"
      BY <2>3, <3>1
    <3>4. Promise!Serve(mutex)
      BY <1>2, <1>3, <3>1, <3>2, <3>3 DEF Promise!Serve, Link
    <3> QED
      BY <2>1, <3>4
  <2> QED
    BY <2>4, <2>5
<1>4. CASE pipe # "open"
  <2>1. \A t \in Thread : pc[t] \in {"idle", "blocked"}
    BY <1>4, RpcAssumption DEF Exclusive, TypeOK, Calling
  <2>2. Old(c)
    BY DEF AgentHandles, Requests
  <2>3. \A t \in Thread : pc[t] = "blocked" => Call(t) # c
    BY <2>2 DEF Old, Call
  <2> HIDE DEF c
  <2>4. CallStatus' = CallStatus
    BY <1>1, <2>1, <2>3 DEF CallStatus
  <2> QED
    BY <1>2, <2>4
<1> QED
  BY <1>3, <1>4

(* A step of the agent serves a call, or is of nobody.                      *)
LEMMA AgentKeepsPromise ==
  ASSUME IInv, AgentStep
  PROVE  (\E t \in Thread : Promise!Serve(t)) \/ UNCHANGED <<CallStatus, Link>>
<1>1. CASE AgentReads \/ AgentWrites \/ AgentDies
  <2>1. UNCHANGED <<pc, op, n, pipe, served>>
    BY <1>1 DEF AgentReads, AgentWrites, AgentDies, clientVars
  <2> QED
    BY <2>1, Stutters
<1> QED
  BY <1>1, HandlingServes DEF AgentStep

(* What libwinpty promises of a winpty_t that threads share, it keeps:      *)
(* every behaviour of Rpc is one of RpcPromise.                             *)
THEOREM PromiseIsKept == Spec => ImplementsPromise
<1>1. Init => Promise!Init
  BY DEF Init, Promise!Init, CallStatus, Link
<1>2. IInv /\ [Next]_vars => [Promise!Next]_Promise!vars
  <2> SUFFICES ASSUME IInv, [Next]_vars
               PROVE  Promise!Next \/ UNCHANGED <<CallStatus, Link>>
    BY DEF Promise!vars
  <2>1. CASE Tick \/ UNCHANGED vars
    <3>1. UNCHANGED <<pc, op, n, pipe, served>>
      BY <2>1 DEF Tick, vars, clientVars
    <3> QED
      BY <3>1, Stutters
  <2> QED
    BY <2>1, BeginAsks, ClientKeepsPromise, AgentKeepsPromise DEF Next, Promise!Next
<1> QED
  BY <1>1, <1>2, RpcInvariance, PTL DEF Spec, ImplementsPromise, Promise!Spec

-----------------------------------------------------------------------------
(* winpty_open.                                                             *)
Making == {"create station", "switch station", "create desktop", "name desktop"}

OpenTypeOK ==
  /\ at \in {"desktop", "get station", "create pipe", "start agent", "connect",
             "verify", "read", "restore", "name", "returned"} \cup Making
  /\ role \in Role
  /\ control \in [Role -> {"none", "listening", "connected", "closed"}]
  /\ proc \in [Role -> {"none", "starting", "attached", "no desktop", "has desktop",
                        "connected", "ready", "running", "dead"}]
  /\ station \in {"user", "background"}
  /\ handles \subseteq {"original", "station", "desktop"}
  /\ desktopName \in {"", "background"}
  /\ result \in {"none", "opened", "failed"}
  /\ died \in BOOLEAN

(* The agent proper has connected and only its packet is awaited.           *)
Awaited == at = "read" /\ role = "main"

(* The station is switched only while there is a handle of the old one; the *)
(* desktop is given up before the packet is awaited; what is open can be    *)
(* closed by the role alone.                                                *)
NoTrace ==
  /\ at # "returned" <=> result = "none"
  /\ station = "background" \/ at \in Making => "original" \in handles
  /\ at \in {"name", "returned"} \/ Awaited =>
       handles = {} /\ control["helper"] \in {"none", "closed"}
  /\ at = "desktop" \/ role = "helper" => control["main"] = "none"
  /\ result = "failed" => control["main"] \in {"none", "closed"}
  /\ ~Awaited /\ at # "returned" => spawnDesktopName = ""
  /\ Awaited \/ result = "opened" =>
       spawnDesktopName = IF desktopName = "" THEN "" ELSE "user"

(* Which of the two processes there are, and that one has connected.        *)
Processes ==
  /\ at = "desktop" => role = "main"
  /\ role = "helper" =>
       at \in {"create pipe", "start agent", "connect", "verify", "read", "returned"}
  /\ role = "helper" \/ at \in {"desktop", "get station"} \cup Making =>
       proc["main"] = "none" /\ desktopName = ""
  /\ at \in {"desktop", "get station"} \cup Making => proc["helper"] = "none"
  /\ at \in {"create pipe", "start agent"} => proc[role] = "none"
  /\ at = "start agent" => control[role] = "listening"
  /\ at \in {"verify", "restore", "name", "read"} => control[role] = "connected"
  /\ at \in {"restore", "name"} => role = "main"
  /\ result = "opened" => control["main"] = "connected"
  /\ control["main"] = "connected" =>
       proc["main"] \in {"connected", "ready", "running", "dead"}
  /\ control["helper"] = "connected" /\ ~died =>
       proc["helper"] \in {"connected", "running"}

(* A desktop that an agent is to start on is kept by a handle or by the     *)
(* agent that made it.                                                      *)
Kept ==
  /\ at = "name desktop" => "desktop" \in handles
  /\ /\ role = "main" /\ desktopName # ""
     /\ at \in {"create pipe", "start agent", "connect", "verify", "restore"}
     => "desktop" \in handles \/ control["helper"] = "connected"

OpenInv == OpenTypeOK /\ NoTrace /\ Processes /\ Kept /\ StartsOnItsDesktop

-----------------------------------------------------------------------------
USE DEF Role

(* winpty_open begins with nothing opened and no agent.                     *)
LEMMA InitIsOpenInv == OpenInit => OpenInv
BY DEF OpenInit, OpenInv, OpenTypeOK, Making, NoTrace, Awaited, Processes, Kept,
       StartsOnItsDesktop

(* An exception, at whatever point of winpty_open after SetupDesktop.       *)
LEMMA FailingIsSafe ==
  ASSUME OpenInv, OpenFails, at \in {"create pipe", "start agent", "connect", "verify",
                                     "read", "restore", "name"}
  PROVE  OpenInv'
<1> USE DEF OpenInv, OpenFails, Dispose, clientIdle
<1>1. OpenTypeOK'         BY DEF OpenTypeOK, Making
<1>2. NoTrace'            BY DEF OpenTypeOK, NoTrace, Awaited, Making
<1>3. Processes'          BY DEF OpenTypeOK, Processes, NoTrace, Making
<1>4. Kept'               BY DEF Kept
<1>5. StartsOnItsDesktop' BY DEF StartsOnItsDesktop
<1> QED
  BY <1>1, <1>2, <1>3, <1>4, <1>5

(* A call of BackgroundDesktop's constructor fails.                         *)
LEMMA NoDesktopIsSafe ==
  ASSUME OpenInv, NoDesktop, at \in {"desktop", "get station"} \cup Making
  PROVE  OpenInv'
<1> USE DEF OpenInv, NoDesktop, Dispose, clientIdle, Making
<1>1. OpenTypeOK'         BY DEF OpenTypeOK
<1>2. NoTrace'            BY DEF OpenTypeOK, NoTrace, Awaited
<1>3. Processes'          BY DEF OpenTypeOK, Processes
<1>4. Kept'               BY DEF Kept, Processes
<1>5. StartsOnItsDesktop' BY DEF StartsOnItsDesktop
<1> QED
  BY <1>1, <1>2, <1>3, <1>4, <1>5

(* The steps before the first agent is started.                             *)
DesktopStep ==
  SetupDesktop \/ GetStation \/ CreateStation \/ SwitchStation \/ CreateDesktop \/ NameDesktop

(* SetupDesktop and the steps of BackgroundDesktop's constructor.           *)
LEMMA DesktopStepIsSafe == OpenInv /\ DesktopStep => OpenInv'
<1>0. DesktopStep => at \in {"desktop", "get station"} \cup Making
  BY DEF DesktopStep, SetupDesktop, GetStation, CreateStation, SwitchStation,
         CreateDesktop, NameDesktop, Making
<1> SUFFICES ASSUME OpenInv, DesktopStep, ~NoDesktop PROVE OpenInv'
  BY <1>0, NoDesktopIsSafe
<1> USE DEF OpenInv, DesktopStep, SetupDesktop, GetStation, CreateStation, SwitchStation,
            CreateDesktop, NameDesktop, Has, clientIdle, Making
<1>1. OpenTypeOK'         BY DEF OpenTypeOK
<1>2. NoTrace'            BY DEF OpenTypeOK, NoTrace, Awaited
<1>3. Processes'          BY DEF OpenTypeOK, Processes
<1>4. Kept'               BY DEF OpenTypeOK, Kept, Processes
<1>5. StartsOnItsDesktop' BY DEF StartsOnItsDesktop
<1> QED
  BY <1>1, <1>2, <1>3, <1>4, <1>5

(* The steps of createAgentSession and of winpty_open after it.             *)
SessionStep ==
  \/ CreateControlPipe \/ StartAgentProcess \/ ConnectControlPipe \/ VerifyPipeClientPid
  \/ WaitFails \/ ReadDesktopName \/ RestoreDesktop \/ NameSpawnDesktop \/ ReadPipeNames

(* The steps of createAgentSession, and what follows it in winpty_open.     *)
LEMMA SessionStepIsSafe == OpenInv /\ SessionStep => OpenInv'
<1>0. SessionStep => at \in {"create pipe", "start agent", "connect", "verify", "read",
                             "restore", "name"}
  BY DEF SessionStep, CreateControlPipe, StartAgentProcess, ConnectControlPipe,
         VerifyPipeClientPid, WaitFails, ReadDesktopName, RestoreDesktop,
         NameSpawnDesktop, ReadPipeNames
<1> SUFFICES ASSUME OpenInv, SessionStep, ~OpenFails PROVE OpenInv'
  BY <1>0, FailingIsSafe
<1> USE DEF OpenInv, Try, clientIdle
<1>1. CASE CreateControlPipe
  <2>1. OpenTypeOK'         BY <1>1 DEF CreateControlPipe, OpenTypeOK, Making
  <2>2. NoTrace'            BY <1>1 DEF CreateControlPipe, OpenTypeOK, NoTrace, Awaited, Making
  <2>3. Processes'          BY <1>1 DEF CreateControlPipe, OpenTypeOK, Processes, Making
  <2>4. Kept'               BY <1>1 DEF CreateControlPipe, OpenTypeOK, Kept
  <2>5. StartsOnItsDesktop' BY <1>1 DEF CreateControlPipe, StartsOnItsDesktop
  <2> QED BY <2>1, <2>2, <2>3, <2>4, <2>5
<1>2. CASE StartAgentProcess
  <2>1. OpenTypeOK'         BY <1>2 DEF StartAgentProcess, OpenTypeOK, Making
  <2>2. NoTrace'            BY <1>2 DEF StartAgentProcess, OpenTypeOK, NoTrace, Awaited, Making
  <2>3. Processes'          BY <1>2 DEF StartAgentProcess, OpenTypeOK, Processes, Making
  <2>4. Kept'               BY <1>2 DEF StartAgentProcess, OpenTypeOK, Kept
  <2>5. StartsOnItsDesktop' BY <1>2 DEF StartAgentProcess, StartsOnItsDesktop, OpenTypeOK
  <2> QED BY <2>1, <2>2, <2>3, <2>4, <2>5
<1>3. CASE ConnectControlPipe \/ VerifyPipeClientPid
  <2> USE DEF ConnectControlPipe, VerifyPipeClientPid
  <2>1. OpenTypeOK'         BY <1>3 DEF OpenTypeOK, Making
  <2>2. NoTrace'            BY <1>3 DEF OpenTypeOK, NoTrace, Awaited, Making
  <2>3. Processes'          BY <1>3 DEF OpenTypeOK, Processes, Making
  <2>4. Kept'               BY <1>3 DEF OpenTypeOK, Kept
  <2>5. StartsOnItsDesktop' BY <1>3 DEF StartsOnItsDesktop
  <2> QED BY <2>1, <2>2, <2>3, <2>4, <2>5
<1>4. CASE WaitFails
  BY <1>4 DEF WaitFails
<1>5. CASE ReadDesktopName
  <2>1. OpenTypeOK'         BY <1>5 DEF ReadDesktopName, OpenTypeOK, Making
  <2>2. NoTrace'            BY <1>5 DEF ReadDesktopName, OpenTypeOK, NoTrace, Awaited, Making
  <2>3. Processes'          BY <1>5 DEF ReadDesktopName, OpenTypeOK, Processes, Making
  <2>4. Kept'               BY <1>5 DEF ReadDesktopName, OpenTypeOK, Kept, Processes
  <2>5. StartsOnItsDesktop' BY <1>5 DEF ReadDesktopName, StartsOnItsDesktop
  <2> QED BY <2>1, <2>2, <2>3, <2>4, <2>5
<1>6. CASE RestoreDesktop
  <2> USE DEF RestoreDesktop, Dispose
  <2>1. OpenTypeOK'         BY <1>6 DEF OpenTypeOK, Making
  <2>2. NoTrace'            BY <1>6 DEF OpenTypeOK, NoTrace, Awaited, Making
  <2>3. Processes'          BY <1>6 DEF OpenTypeOK, Processes, Making
  <2>4. Kept'               BY <1>6 DEF OpenTypeOK, Kept
  <2>5. StartsOnItsDesktop' BY <1>6 DEF StartsOnItsDesktop
  <2> QED BY <2>1, <2>2, <2>3, <2>4, <2>5
<1>7. CASE NameSpawnDesktop
  <2>1. OpenTypeOK'         BY <1>7 DEF NameSpawnDesktop, OpenTypeOK, Making
  <2>2. NoTrace'            BY <1>7 DEF NameSpawnDesktop, OpenTypeOK, NoTrace, Awaited, Making,
                                        Processes
  <2>3. Processes'          BY <1>7 DEF NameSpawnDesktop, OpenTypeOK, Processes, Making
  <2>4. Kept'               BY <1>7 DEF NameSpawnDesktop, OpenTypeOK, Kept
  <2>5. StartsOnItsDesktop' BY <1>7 DEF NameSpawnDesktop, StartsOnItsDesktop
  <2> QED BY <2>1, <2>2, <2>3, <2>4, <2>5
<1>8. CASE ReadPipeNames
  <2>1. OpenTypeOK'         BY <1>8 DEF ReadPipeNames, OpenTypeOK, Making
  <2>2. NoTrace'            BY <1>8 DEF ReadPipeNames, OpenTypeOK, NoTrace, Awaited, Making
  <2>3. Processes'          BY <1>8 DEF ReadPipeNames, OpenTypeOK, Processes, Making
  <2>4. Kept'               BY <1>8 DEF ReadPipeNames, OpenTypeOK, Kept
  <2>5. StartsOnItsDesktop' BY <1>8 DEF ReadPipeNames, StartsOnItsDesktop, Processes
  <2> QED BY <2>1, <2>2, <2>3, <2>4, <2>5
<1> QED
  BY <1>1, <1>2, <1>3, <1>4, <1>5, <1>6, <1>7, <1>8 DEF SessionStep

(* The steps of the two agents, and their deaths.                           *)
LEMMA AgentStepIsSafe ==
  ASSUME OpenInv, OpenAgents \/ \E r \in Role : ProcessDies(r)
  PROVE  OpenInv'
<1> USE DEF OpenInv, ProcGoes, agentIdle
<1>1. ASSUME NEW r \in Role, ProcessAttaches(r) PROVE OpenInv'
  <2> USE <1>1 DEF ProcessAttaches
  <2>1. OpenTypeOK'         BY DEF OpenTypeOK, Making
  <2>2. NoTrace'            BY DEF OpenTypeOK, NoTrace, Awaited
  <2>3. Processes'
    <3> DEFINE frame == UNCHANGED <<at, role, control, desktopName, result, died>>
    <3>1. /\ role \in Role /\ \A u \in Role \ {r} : proc'[u] = proc[u]
          /\ proc[r] = "starting" /\ proc'[r] \in {"attached", "no desktop"} /\ frame
      BY DEF OpenTypeOK
    <3> HIDE <1>1 DEF ProcessAttaches, ProcGoes, agentIdle
    <3>2. CASE r = "helper" BY <3>1, <3>2 DEF Processes, Making
    <3>3. CASE r = "main"   BY <3>1, <3>3 DEF Processes, Making
    <3> QED BY <3>2, <3>3
  <2>4. Kept'               BY DEF Kept
  <2>5. StartsOnItsDesktop'
    BY DEF StartsOnItsDesktop, OpenTypeOK, Making, NoTrace, Processes, Kept, DesktopLives,
           Awaited
  <2> QED BY <2>1, <2>2, <2>3, <2>4, <2>5
<1>2. CASE HelperMakesDesktop
  <2> USE <1>2 DEF HelperMakesDesktop
  <2>1. OpenTypeOK'
    <3>1. \/ proc' = [proc EXCEPT !["helper"] = "has desktop"] /\ died' = died
          \/ proc' = [proc EXCEPT !["helper"] = "dead"] /\ died' = TRUE
      OBVIOUS
    <3>2. UNCHANGED <<at, role, control, station, handles, desktopName, result>>
      OBVIOUS
    <3> HIDE <1>2 DEF HelperMakesDesktop, ProcGoes, agentIdle
    <3>3. CASE proc' = [proc EXCEPT !["helper"] = "has desktop"] /\ died' = died
      BY <3>2, <3>3 DEF OpenTypeOK, Making
    <3>4. CASE proc' = [proc EXCEPT !["helper"] = "dead"] /\ died' = TRUE
      BY <3>2, <3>4 DEF OpenTypeOK, Making
    <3> QED BY <3>1, <3>3, <3>4
  <2>2. NoTrace'            BY DEF OpenTypeOK, NoTrace, Awaited
  <2>3. Processes'
    <3>1. /\ role \in Role /\ proc["helper"] = "attached" /\ proc'["main"] = proc["main"]
          /\ UNCHANGED <<at, role, control, desktopName, result>>
      BY DEF OpenTypeOK
    <3>2. \/ proc'["helper"] = "has desktop" /\ died' = died
          \/ proc'["helper"] = "dead" /\ died'
      BY DEF OpenTypeOK
    <3> HIDE <1>2 DEF HelperMakesDesktop, ProcGoes, agentIdle
    <3> QED BY <3>1, <3>2 DEF Processes, Making
  <2>4. Kept'               BY DEF Kept
  <2>5. StartsOnItsDesktop' BY DEF StartsOnItsDesktop, OpenTypeOK
  <2> QED BY <2>1, <2>2, <2>3, <2>4, <2>5
<1>3. ASSUME NEW r \in Role, ProcessConnects(r) PROVE OpenInv'
  <2> USE <1>3 DEF ProcessConnects
  <2>1. OpenTypeOK'
    <3>1. /\ \/ proc' = [proc EXCEPT ![r] = "connected"]
             \/ proc' = [proc EXCEPT ![r] = "dead"]
          /\ control' = [control EXCEPT ![r] = "connected"] \/ control' = control
          /\ UNCHANGED <<at, role, station, handles, desktopName, result, died>>
      OBVIOUS
    <3>2. control' \in [Role -> {"none", "listening", "connected", "closed"}]
      BY <3>1 DEF OpenTypeOK
    <3>3. proc' \in [Role -> {"none", "starting", "attached", "no desktop",
                             "has desktop", "connected", "ready", "running", "dead"}]
      <4>1. CASE proc' = [proc EXCEPT ![r] = "connected"]  BY <4>1 DEF OpenTypeOK
      <4>2. CASE proc' = [proc EXCEPT ![r] = "dead"]       BY <4>2 DEF OpenTypeOK
      <4> QED BY <3>1, <4>1, <4>2
    <3> HIDE <1>3 DEF ProcessConnects
    <3> QED
      BY <3>1, <3>2, <3>3 DEF OpenTypeOK, Making
  <2>2. NoTrace'            BY DEF OpenTypeOK, NoTrace, Awaited
  <2>3. Processes'
    <3> DEFINE frame == UNCHANGED <<at, role, desktopName, result, died>>
    <3>1. /\ role \in Role
          /\ \A u \in Role \ {r} : proc'[u] = proc[u] /\ control'[u] = control[u]
          /\ proc[r] = IF r = "helper" THEN "has desktop" ELSE "attached"
          /\ frame
      BY DEF OpenTypeOK
    <3>2. \/ /\ control[r] = "listening" /\ control'[r] = "connected"
             /\ proc'[r] = "connected"
          \/ control[r] # "listening" /\ control'[r] = control[r] /\ proc'[r] = "dead"
      BY DEF OpenTypeOK
    <3> HIDE <1>3 DEF ProcessConnects, ProcGoes, agentIdle
    <3>3. CASE r = "helper" BY <3>1, <3>2, <3>3 DEF Processes, Making
    <3>4. CASE r = "main"   BY <3>1, <3>2, <3>4 DEF Processes, Making
    <3> QED BY <3>3, <3>4
  <2>4. Kept'               BY DEF OpenTypeOK, Kept
  <2>5. StartsOnItsDesktop' BY DEF StartsOnItsDesktop, OpenTypeOK
  <2> QED BY <2>1, <2>2, <2>3, <2>4, <2>5
<1>4. CASE AgentSetsFont
  <2>1. /\ proc["main"] = "connected" /\ proc' = [proc EXCEPT !["main"] = "ready"]
        /\ UNCHANGED <<at, role, system, plan, station, handles, desktopName,
                       spawnDesktopName, result, control, packet, died>>
    BY <1>4 DEF AgentSetsFont
  <2>2. OpenTypeOK'         BY <2>1 DEF OpenTypeOK, Making
  <2>3. NoTrace'            BY <2>1 DEF OpenTypeOK, NoTrace, Awaited
  <2>4. Processes'          BY <2>1 DEF OpenTypeOK, Processes, Making
  <2>5. Kept'               BY <2>1 DEF Kept
  <2>6. StartsOnItsDesktop' BY <2>1 DEF StartsOnItsDesktop, OpenTypeOK
  <2> QED BY <2>2, <2>3, <2>4, <2>5, <2>6
<1>5. ASSUME NEW r \in Role, ProcessSends(r) PROVE OpenInv'
  <2> USE <1>5 DEF ProcessSends
  <2>1. OpenTypeOK'         BY DEF OpenTypeOK, Making
  <2>2. NoTrace'            BY DEF OpenTypeOK, NoTrace, Awaited
  <2>3. Processes'          BY DEF OpenTypeOK, Processes, Making
  <2>4. Kept'               BY DEF Kept
  <2>5. StartsOnItsDesktop' BY DEF StartsOnItsDesktop, OpenTypeOK
  <2> QED BY <2>1, <2>2, <2>3, <2>4, <2>5
<1>6. ASSUME NEW r \in Role, ProcessExits(r) PROVE OpenInv'
  <2> USE <1>6 DEF ProcessExits
  <2>1. OpenTypeOK'         BY DEF OpenTypeOK, Making
  <2>2. NoTrace'            BY DEF OpenTypeOK, NoTrace, Awaited
  <2>3. Processes'          BY DEF OpenTypeOK, Processes, Making
  <2>4. Kept'               BY DEF Kept
  <2>5. StartsOnItsDesktop' BY DEF StartsOnItsDesktop, OpenTypeOK
  <2> QED BY <2>1, <2>2, <2>3, <2>4, <2>5
<1>7. ASSUME NEW r \in Role, ProcessDies(r) PROVE OpenInv'
  <2> USE <1>7 DEF ProcessDies
  <2>1. OpenTypeOK'         BY DEF OpenTypeOK, Making
  <2>2. NoTrace'            BY DEF OpenTypeOK, NoTrace, Awaited
  <2>3. Processes'          BY DEF OpenTypeOK, Processes, Making
  <2>4. Kept'               BY DEF Kept
  <2>5. StartsOnItsDesktop' BY DEF StartsOnItsDesktop
  <2> QED BY <2>1, <2>2, <2>3, <2>4, <2>5
<1> QED
  BY <1>1, <1>2, <1>3, <1>4, <1>5, <1>6, <1>7 DEF OpenAgents

-----------------------------------------------------------------------------
(* Every step of winpty_open and of the agents keeps the invariant.         *)
LEMMA OpenInvIsKept == OpenInv /\ [OpenNext]_openVars => OpenInv'
<1> SUFFICES ASSUME OpenInv, [OpenNext]_openVars PROVE OpenInv'
  OBVIOUS
<1>1. CASE UNCHANGED openVars
  <2> USE <1>1 DEF openVars, OpenInv
  <2>1. OpenTypeOK'         BY DEF OpenTypeOK, Making
  <2>2. NoTrace'            BY DEF NoTrace, Awaited, Making
  <2>3. Processes'          BY DEF Processes, Making
  <2>4. Kept'               BY DEF Kept
  <2>5. StartsOnItsDesktop' BY DEF StartsOnItsDesktop
  <2> QED BY <2>1, <2>2, <2>3, <2>4, <2>5
<1> QED
  BY <1>1, DesktopStepIsSafe, SessionStepIsSafe, AgentStepIsSafe
  DEF OpenNext, OpenClient, DesktopStep, SessionStep

(* The inductive invariant holds in every reachable state.                  *)
THEOREM OpenInvariance == OpenSpec => []OpenInv
BY InitIsOpenInv, OpenInvIsKept, PTL DEF OpenSpec

(* However winpty_open ends, it puts back the window station, closes what   *)
(* it has opened of the desktop and, having failed, the control pipe        *)
(* (BackgroundDesktop, createAgentSession).                                 *)
THEOREM NoTraceIsLeft == OpenSpec => []OpenLeavesNoTrace
<1>1. OpenInv => OpenLeavesNoTrace
  BY DEF OpenInv, OpenTypeOK, NoTrace, OpenLeavesNoTrace
<1> QED
  BY <1>1, OpenInvariance, PTL

(* The desktop is kept until the agent runs on it (winpty_open).            *)
THEOREM DesktopIsKept == OpenSpec => []StartsOnItsDesktop
<1>1. OpenInv => StartsOnItsDesktop
  BY DEF OpenInv
<1> QED
  BY <1>1, OpenInvariance, PTL

-----------------------------------------------------------------------------
(* The choice of a font: of any table, the first of the best exists.        *)
IsBest(sc, size, b) ==
  \A j \in (1..size) \ {b} : IF j < b THEN Better(sc[b], sc[j]) ELSE ~Better(sc[j], sc[b])

LEMMA BetterOrder ==
  ASSUME NEW x \in Int \X Int, NEW y \in Int \X Int, NEW z \in Int \X Int
  PROVE  /\ ~Better(x, x)
         /\ Better(x, y) => ~Better(y, x)
         /\ Better(x, y) /\ Better(y, z) => Better(x, z)
         /\ Better(x, y) /\ ~Better(z, y) => Better(x, z)
BY DEF Better

LEMMA BestExists ==
  ASSUME NEW size \in Nat, size >= 1, NEW sc \in [1..size -> Int \X Int]
  PROVE  \E b \in 1..size : IsBest(sc, size, b)
<1> DEFINE T == {m \in Nat : m + 1 <= size => \E b \in 1..(m + 1) : IsBest(sc, m + 1, b)}
<1>1. 0 \in T
  <2>1. 0 + 1 = 1 /\ 1 \in 1..1 /\ (1..1) \ {1} = {}
    OBVIOUS
  <2>2. IsBest(sc, 1, 1)
    BY <2>1 DEF IsBest
  <2>3. QED BY <2>1, <2>2
<1>2. ASSUME NEW m \in Nat, m \in T PROVE m + 1 \in T
  <2> SUFFICES ASSUME (m + 1) + 1 <= size
               PROVE  \E b \in 1..((m + 1) + 1) : IsBest(sc, (m + 1) + 1, b)
    OBVIOUS
  <2> DEFINE k == (m + 1) + 1
  <2>1. m + 1 <= size /\ k \in 1..size /\ k \in Nat /\ k - 1 = m + 1
    OBVIOUS
  <2>2. PICK b \in 1..(m + 1) : IsBest(sc, m + 1, b)
    BY <1>2, <2>1
  <2>3. /\ b \in 1..k /\ b < k /\ \A j \in 1..k : j \in 1..(m + 1) \/ j = k
        /\ \A j \in 1..k : sc[j] \in Int \X Int
    BY <2>1
  <2>4. \A j \in 1..(m + 1) : j # b =>
          IF j < b THEN Better(sc[b], sc[j]) ELSE ~Better(sc[j], sc[b])
    BY <2>2 DEF IsBest
  <2> HIDE DEF k
  <2>5. CASE Better(sc[k], sc[b])
    <3>1. ASSUME NEW j \in (1..k) \ {k} PROVE j < k /\ Better(sc[k], sc[j])
      <4>1. /\ j \in 1..(m + 1) /\ j < k /\ sc[j] \in Int \X Int
            /\ sc[k] \in Int \X Int /\ sc[b] \in Int \X Int
        BY <2>1, <2>3
      <4>2. CASE j = b
        BY <2>5, <4>1, <4>2
      <4>3. CASE j # b
        <5>1. Better(sc[b], sc[j]) \/ ~Better(sc[j], sc[b])
          BY <2>4, <4>1, <4>3
        <5>2. QED BY <2>5, <4>1, <5>1, BetterOrder
      <4>4. QED BY <4>2, <4>3
    <3>2. IsBest(sc, k, k)
      BY <3>1 DEF IsBest
    <3>3. QED BY <2>1, <3>2 DEF k
  <2>6. CASE ~Better(sc[k], sc[b])
    <3>1. IsBest(sc, k, b)
      BY <2>3, <2>4, <2>6 DEF IsBest
    <3>2. QED BY <2>3, <3>1 DEF k
  <2>7. QED BY <2>5, <2>6
<1> HIDE DEF T
<1>3. Nat \subseteq T
  BY <1>1, <1>2, Induction
<1>4. size - 1 \in Nat /\ (size - 1) + 1 = size /\ size <= size
  OBVIOUS
<1>5. QED BY <1>3, <1>4 DEF T

(* Its width is the right one.                                              *)
LEMMA ScoreIs ==
  ASSUME NEW v \in Nat, NEW c \in Nat
  PROVE  /\ Score(v, c) \in Int \X Int
         /\ v * halfColumns(c) >= MinWidth => Score(v, c) = <<2, -(v * c)>>
         /\ ~(v * halfColumns(c) >= MinWidth) /\ v * c >= MinWidth =>
              Score(v, c) = <<1, -(v * c)>>
         /\ ~(v * halfColumns(c) >= MinWidth) /\ ~(v * c >= MinWidth) =>
              Score(v, c) = <<0, v * c>>
<1> DEFINE p == v * c
           h == v * halfColumns(c) >= MinWidth
<1>1. p \in Int
  OBVIOUS
<1>2. Score(v, c) = IF h THEN <<2, -p>> ELSE IF p >= MinWidth THEN <<1, -p>> ELSE <<0, p>>
  BY DEF Score
<1>3. QED
  <2> SUFFICES /\ Score(v, c) \in Int \X Int
               /\ h => Score(v, c) = <<2, -p>>
               /\ ~h /\ p >= MinWidth => Score(v, c) = <<1, -p>>
               /\ ~h /\ ~(p >= MinWidth) => Score(v, c) = <<0, p>>
    OBVIOUS
  <2> HIDE DEF p, h
  <2>1. CASE h
    BY <1>1, <1>2, <2>1
  <2>2. CASE ~h
    BY <1>1, <1>2, <2>2 DEF MinWidth
  <2>3. QED BY <2>1, <2>2

LEMMA HalfIsPositive ==
  ASSUME NEW c \in Nat \ {0}
  PROVE  halfColumns(c) \in Nat \ {0}
BY DEF halfColumns

LEMMA Narrower ==
  ASSUME NEW c \in Nat \ {0}, NEW v \in Nat, NEW w \in Nat, w * c <= v * c
  PROVE  w <= v
<1> SUFFICES ASSUME w >= v + 1 PROVE FALSE
  OBVIOUS
<1>1. w * c >= (v + 1) * c
  OBVIOUS
<1>2. (v + 1) * c = v * c + c /\ v * c \in Nat /\ w * c \in Nat
  OBVIOUS
<1>3. QED BY <1>1, <1>2

LEMMA Wider ==
  ASSUME NEW c \in Nat \ {0}, NEW v \in Nat, NEW w \in Nat, w <= v
  PROVE  w * c <= v * c
OBVIOUS


(* A table has a font, and its widths are numbers.                          *)
IsTable(t, size) == /\ size \in Nat /\ size >= 1 /\ DOMAIN t = 1..size
                 /\ \A i \in 1..size : t[i][2] \in Nat

(* The first of the best of a table has the right width for the columns.    *)
LEMMA BestIsRight ==
  ASSUME NEW t, NEW size, IsTable(t, size), NEW c \in Nat \ {0}, NEW b \in 1..size,
         IsBest([i \in 1..size |-> Score(t[i][2], c)], size, b)
  PROVE  RightWidth(t[b][2], {t[i][2] : i \in DOMAIN t}, c)
<1> DEFINE W == {t[i][2] : i \in DOMAIN t}
           w == t[b][2]
           roomy == {v \in W : v * halfColumns(c) >= MinWidth}
           wide == {v \in W : v * c >= MinWidth}
<1>1. W \subseteq Nat /\ w \in W /\ w \in Nat
  BY DEF IsTable
<1>2. ASSUME NEW v \in W PROVE ~Better(Score(v, c), Score(w, c))
  <2>1. PICK j \in 1..size : t[j][2] = v
    BY DEF IsTable
  <2>2. v \in Nat
    BY <1>1
  <2>3. Score(v, c) \in Int \X Int /\ Score(w, c) \in Int \X Int
    BY <1>1, <2>2, ScoreIs
  <2>4. CASE j = b
    BY <2>1, <2>3, <2>4, BetterOrder
  <2>5. CASE j # b
    <3>1. \/ Better(Score(w, c), Score(v, c)) \/ ~Better(Score(v, c), Score(w, c))
      BY <2>1, <2>5 DEF IsBest
    <3>2. QED BY <2>3, <3>1, BetterOrder
  <2>6. QED BY <2>4, <2>5
<1>3. \A v \in W : v * c \in Nat /\ v * halfColumns(c) \in Nat
  <2>1. halfColumns(c) \in Nat
    BY HalfIsPositive
  <2>2. \A v \in W : v \in Nat
    BY <1>1
  <2>3. ASSUME NEW v \in Nat, NEW h \in Nat PROVE v * h \in Nat
    OBVIOUS
  <2>4. QED BY ONLY <2>1, <2>2, <2>3, c \in Nat \ {0}
<1>4. w * c \in Nat
  BY <1>1
<1> SUFFICES RightWidth(w, W, c)
  OBVIOUS
<1> HIDE DEF W, w
<1>5. CASE roomy # {}
  <2>1. PICK r \in W : r * halfColumns(c) >= MinWidth
    BY <1>5
  <2>2. Score(r, c) = <<2, -(r * c)>>
    BY <1>1, <2>1, ScoreIs
  <2>3. w * halfColumns(c) >= MinWidth
    <3> SUFFICES ASSUME ~(w * halfColumns(c) >= MinWidth) PROVE FALSE
      OBVIOUS
    <3>1. Score(w, c)[1] \in {0, 1}
      BY <1>1, ScoreIs
    <3>2. ~Better(Score(r, c), Score(w, c))
      BY <1>2
    <3>3. QED BY <2>2, <3>1, <3>2 DEF Better
  <2>4. Score(w, c) = <<2, -(w * c)>>
    BY <1>1, <2>3, ScoreIs
  <2>5. ASSUME NEW v \in W, v * halfColumns(c) >= MinWidth PROVE w <= v
    <3>1. Score(v, c) = <<2, -(v * c)>>
      BY <1>1, <2>5, ScoreIs
    <3>2. ~Better(Score(v, c), Score(w, c))
      BY <1>2
    <3>3. v * c \in Nat
      BY <1>3
    <3>4. w * c <= v * c
      BY <1>4, <2>4, <3>1, <3>2, <3>3 DEF Better
    <3>5. QED BY <1>1, <3>4, Narrower
  <2>6. QED BY <1>1, <1>5, <2>3, <2>5 DEF RightWidth
<1>6. CASE roomy = {} /\ wide # {}
  <2>1. PICK r \in W : r * c >= MinWidth
    BY <1>6
  <2>2. \A v \in W : ~(v * halfColumns(c) >= MinWidth)
    BY <1>6
  <2>3. Score(r, c) = <<1, -(r * c)>>
    BY <1>1, <2>1, <2>2, ScoreIs
  <2>4. w * c >= MinWidth
    <3> SUFFICES ASSUME ~(w * c >= MinWidth) PROVE FALSE
      OBVIOUS
    <3>1. Score(w, c)[1] = 0
      BY <1>1, <2>2, ScoreIs
    <3>2. ~Better(Score(r, c), Score(w, c))
      BY <1>2
    <3>3. QED BY <2>3, <3>1, <3>2 DEF Better
  <2>5. Score(w, c) = <<1, -(w * c)>>
    BY <1>1, <2>2, <2>4, ScoreIs
  <2>6. ASSUME NEW v \in W, v * c >= MinWidth PROVE w <= v
    <3>1. Score(v, c) = <<1, -(v * c)>>
      BY <1>1, <2>2, <2>6, ScoreIs
    <3>2. ~Better(Score(v, c), Score(w, c))
      BY <1>2
    <3>3. v * c \in Nat
      BY <1>3
    <3>4. w * c <= v * c
      BY <1>4, <2>5, <3>1, <3>2, <3>3 DEF Better
    <3>5. QED BY <1>1, <3>4, Narrower
  <2>7. QED BY <1>1, <1>6, <2>4, <2>6 DEF RightWidth
<1>7. CASE roomy = {} /\ wide = {}
  <2>1. \A v \in W : ~(v * c >= MinWidth) /\ ~(v * halfColumns(c) >= MinWidth)
    BY <1>7
  <2>2. \A v \in W : Score(v, c) = <<0, v * c>>
    BY <1>1, <2>1, ScoreIs
  <2>3. ASSUME NEW v \in W PROVE w >= v
    <3>1. Score(v, c) = <<0, v * c>> /\ Score(w, c) = <<0, w * c>>
      BY <1>1, <2>2
    <3>2. ~Better(Score(v, c), Score(w, c))
      BY <1>2
    <3>3. v * c \in Nat
      BY <1>3
    <3>4. v * c <= w * c
      BY <1>4, <3>1, <3>2, <3>3 DEF Better
    <3>5. QED BY <1>1, <3>4, Narrower
  <2>4. QED BY <1>1, <1>7, <2>3 DEF RightWidth
<1>8. QED BY <1>5, <1>6, <1>7

(* The tables of ConsoleFont.cc.                                            *)
LEMMA Tables ==
  /\ IsTable(Lucida, 13)
  /\ IsTable(GothicVista, 9)
  /\ IsTable(GothicWin8, 14)
  /\ IsTable(EvenSizes \o ExtraLarge, 14)
<1>1. IsTable(Lucida, 13)
  BY DEF IsTable, Lucida
<1>2. IsTable(GothicVista, 9)
  BY DEF IsTable, GothicVista
<1>3. IsTable(GothicWin8, 14)
  BY DEF IsTable, GothicWin8, ExtraLarge
<1>4. IsTable(EvenSizes \o ExtraLarge, 14)
  BY DEF IsTable, EvenSizes, ExtraLarge
<1>5. QED BY <1>1, <1>2, <1>3, <1>4

(* Each code page has one of these tables, and a face that only East Asian  *)
(* ones do not share.                                                       *)
LEMMA FaceIs ==
  ASSUME NEW cp, NEW windows
  PROVE  /\ \E size \in Nat : IsTable(FaceAndTable(cp, windows).table, size)
         /\ FaceAndTable(cp, windows).face = "Lucida Console" <=> ~isEastAsian(cp)
<1> DEFINE ft == FaceAndTable(cp, windows)
<1>1. CASE isJapanese(cp)
  <2>1. /\ ft.face = "MS Gothic"
        /\ ft.table \in {EvenSizes \o ExtraLarge, GothicWin8, GothicVista}
    BY <1>1 DEF FaceAndTable, GothicWin10, isJapanese, isSimplifiedChinese, isKorean,
                isTraditionalChinese
  <2>2. isEastAsian(cp)
    BY <1>1 DEF isJapanese, isEastAsian
  <2>3. QED BY <2>1, <2>2, Tables
<1>2. CASE isSimplifiedChinese(cp)
  <2>1. ft.face = "NSimSun" /\ ft.table = EvenSizes \o ExtraLarge
    BY <1>2 DEF FaceAndTable, SimSun, isJapanese, isSimplifiedChinese, isKorean,
                isTraditionalChinese
  <2>2. isEastAsian(cp)
    BY <1>2 DEF isSimplifiedChinese, isEastAsian
  <2>3. QED BY <2>1, <2>2, Tables
<1>3. CASE isKorean(cp)
  <2>1. ft.face = "GulimChe" /\ ft.table = EvenSizes \o ExtraLarge
    BY <1>3 DEF FaceAndTable, GulimChe, isJapanese, isSimplifiedChinese, isKorean,
                isTraditionalChinese
  <2>2. isEastAsian(cp)
    BY <1>3 DEF isKorean, isEastAsian
  <2>3. QED BY <2>1, <2>2, Tables
<1>4. CASE isTraditionalChinese(cp)
  <2>1. ft.face = "MingLight" /\ ft.table = EvenSizes \o ExtraLarge
    BY <1>4 DEF FaceAndTable, MingLight, isJapanese, isSimplifiedChinese, isKorean,
                isTraditionalChinese
  <2>2. isEastAsian(cp)
    BY <1>4 DEF isTraditionalChinese, isEastAsian
  <2>3. QED BY <2>1, <2>2, Tables
<1>5. CASE ~isJapanese(cp) /\ ~isSimplifiedChinese(cp) /\ ~isKorean(cp)
           /\ ~isTraditionalChinese(cp)
  <2>1. ft.face = "Lucida Console" /\ ft.table = Lucida
    BY <1>5 DEF FaceAndTable
  <2>2. ~isEastAsian(cp)
    BY <1>5 DEF isEastAsian, isJapanese, isSimplifiedChinese, isKorean,
                isTraditionalChinese
  <2>3. QED BY <2>1, <2>2, Tables
<1>6. QED BY <1>1, <1>2, <1>3, <1>4, <1>5


(* selectSmallFont finds a font of the code page's table, the right one.    *)
LEMMA SelectIsRight ==
  ASSUME NEW cp, NEW windows, NEW c \in Nat \ {0}
  PROVE  LET f  == selectSmallFont(cp, c, windows)
             ft == FaceAndTable(cp, windows)
         IN /\ f.face = ft.face
            /\ RightWidth(f.width, {ft.table[i][2] : i \in DOMAIN ft.table}, c)
<1> DEFINE f  == selectSmallFont(cp, c, windows)
           ft == FaceAndTable(cp, windows)
           t  == ft.table
           Is(b) == \A j \in DOMAIN t \ {b} :
                      IF j < b THEN Better(Score(t[b][2], c), Score(t[j][2], c))
                      ELSE ~Better(Score(t[j][2], c), Score(t[b][2], c))
           best == CHOOSE b \in DOMAIN t : Is(b)
<1>1. /\ f.face = ft.face
      /\ f.width = t[best][2]
  BY DEF selectSmallFont
<1>2. PICK size \in Nat : IsTable(t, size)
  BY FaceIs
<1> HIDE DEF t, f
<1> DEFINE sc == [i \in 1..size |-> Score(t[i][2], c)]
<1>3. sc \in [1..size -> Int \X Int] /\ size >= 1 /\ DOMAIN t = 1..size
  BY <1>2, ScoreIs DEF IsTable
<1>4. ASSUME NEW b \in 1..size PROVE Is(b) <=> IsBest(sc, size, b)
  BY <1>3 DEF IsBest
<1> HIDE DEF Is, sc
<1>5. \E b \in 1..size : IsBest(sc, size, b)
  BY <1>2, <1>3, BestExists
<1>6. \E b \in DOMAIN t : Is(b)
  BY <1>3, <1>4, <1>5
<1>7. best \in DOMAIN t /\ Is(best)
  BY <1>6
<1> HIDE DEF best
<1>8. best \in 1..size /\ IsBest(sc, size, best)
  BY <1>3, <1>4, <1>7
<1>9. RightWidth(t[best][2], {t[i][2] : i \in DOMAIN t}, c)
  BY <1>2, <1>8, BestIsRight DEF sc
<1>10. QED BY <1>1, <1>9 DEF t, f

(* setSmallFontVista finds it in the face made for the code page if that is *)
(* installed, else in the default face.                                     *)
Fits(f, cp, columns, windows, installed) ==
  LET own     == FaceAndTable(cp, windows)
      default == FaceAndTable(0, windows)
      wanted  == IF own.face \in installed THEN own ELSE default
  IN /\ own.face # default.face <=> isEastAsian(cp)
     /\ IF wanted.face \in installed
          THEN /\ f.face = wanted.face
               /\ RightWidth(f.width,
                             {wanted.table[i][2] : i \in DOMAIN wanted.table},
                             columns)
          ELSE f = NoFont

LEMMA VistaFits ==
  ASSUME NEW cp, NEW windows, NEW c \in Nat \ {0}, NEW installed
  PROVE  Fits(setSmallFontVista(cp, c, windows, installed), cp, c, windows, installed)
<1> DEFINE first == selectSmallFont(cp, c, windows)
           fallback == selectSmallFont(0, c, windows)
           own == FaceAndTable(cp, windows)
           default == FaceAndTable(0, windows)
           f == setSmallFontVista(cp, c, windows, installed)
<1>1. f = IF first.face \in installed THEN first
          ELSE IF isEastAsian(cp) /\ fallback.face \in installed THEN fallback
          ELSE NoFont
  BY DEF setSmallFontVista
<1>2. ~isEastAsian(0)
  BY DEF isEastAsian
<1>3. default.face = "Lucida Console"
  BY <1>2, FaceIs
<1>4. own.face # default.face <=> isEastAsian(cp)
  BY <1>3, FaceIs
<1>5. /\ first.face = own.face
      /\ RightWidth(first.width, {own.table[i][2] : i \in DOMAIN own.table}, c)
  BY SelectIsRight
<1>6. /\ fallback.face = default.face
      /\ RightWidth(fallback.width, {default.table[i][2] : i \in DOMAIN default.table}, c)
  BY SelectIsRight
<1> HIDE DEF first, fallback, f
<1>7. CASE own.face \in installed
  <2>1. f = first
    BY <1>1, <1>5, <1>7
  <2>2. QED BY <1>4, <1>5, <1>7, <2>1 DEF Fits, f
<1>8. CASE own.face \notin installed /\ default.face \in installed
  <2>1. f = fallback
    BY <1>1, <1>4, <1>5, <1>6, <1>8
  <2>2. QED BY <1>4, <1>6, <1>8, <2>1 DEF Fits, f
<1>9. CASE own.face \notin installed /\ default.face \notin installed
  <2>1. f = NoFont
    BY <1>1, <1>5, <1>6, <1>9
  <2>2. QED BY <1>4, <1>9, <2>1 DEF Fits, f
<1>10. QED BY <1>7, <1>8, <1>9

(* The agent takes one of these fonts; nothing else does but to forget it.  *)
LEMMA FontStepFits ==
  AgentSetsFont => SmallFontFits'
<1> SUFFICES ASSUME AgentSetsFont, font'.system \notin {"xp", "none"}
             PROVE  Fits(font'.font, font'.cp, font'.columns, font'.system,
                         font'.installed)
  BY DEF SmallFontFits, Fits
<1>1. font' \in FontChoices
  BY DEF AgentSetsFont
<1>2. PICK windows \in Systems, cp \in CodePages, c \in Columns :
        \E installed, taken :
          \E f \in setSmallFont(cp, c, windows, installed, FontTable, taken) :
            font' = [system |-> windows, cp |-> cp, columns |-> c, font |-> f,
                     installed |-> installed]
  BY <1>1 DEF FontChoices
<1>3. PICK installed, taken :
        \E f \in setSmallFont(cp, c, windows, installed, FontTable, taken) :
          font' = [system |-> windows, cp |-> cp, columns |-> c, font |-> f,
                   installed |-> installed]
  BY <1>2
<1>4. PICK f \in setSmallFont(cp, c, windows, installed, FontTable, taken) :
        font' = [system |-> windows, cp |-> cp, columns |-> c, font |-> f,
                 installed |-> installed]
  BY <1>3
<1>5. /\ font'.font = f /\ font'.cp = cp /\ font'.columns = c
      /\ font'.system = windows /\ font'.installed = installed
  BY <1>4
<1>6. f = setSmallFontVista(cp, c, windows, installed)
  BY <1>4, <1>5 DEF setSmallFont
<1>7. Fits(f, cp, c, windows, installed)
  BY <1>6, OpenAssumption, VistaFits
<1>8. QED BY ONLY <1>5, <1>7

LEMMA OtherStepsKeepFont ==
  ASSUME [OpenNext]_openVars, ~AgentSetsFont
  PROVE  font' = font \/ font' = NoFontYet
<1>1. CASE OpenClient
  BY <1>1 DEF OpenClient, SetupDesktop, GetStation, CreateStation, SwitchStation,
     CreateDesktop, NameDesktop, CreateControlPipe, StartAgentProcess,
     ConnectControlPipe, VerifyPipeClientPid, WaitFails, ReadDesktopName,
     RestoreDesktop, NameSpawnDesktop, ReadPipeNames, Has, NoDesktop, Try, OpenFails,
     clientIdle
<1>2. CASE OpenAgents
  BY <1>2 DEF OpenAgents, HelperMakesDesktop, ProcessAttaches, ProcessConnects,
     ProcessSends, ProcessExits, ProcGoes, agentIdle
<1>3. CASE \E r \in Role : ProcessDies(r)
  BY <1>3 DEF ProcessDies, ProcGoes, agentIdle
<1>4. CASE UNCHANGED openVars
  BY <1>4 DEF openVars
<1>5. QED BY <1>1, <1>2, <1>3, <1>4 DEF OpenNext

(* No step leaves the agent with a font that does not fit.                  *)
LEMMA FontIsKept == SmallFontFits /\ [OpenNext]_openVars => SmallFontFits'
<1> SUFFICES ASSUME SmallFontFits, [OpenNext]_openVars PROVE SmallFontFits'
  OBVIOUS
<1>1. CASE AgentSetsFont
  BY <1>1, FontStepFits
<1>2. CASE ~AgentSetsFont
  <2>1. font' = font \/ font' = NoFontYet
    BY <1>2, OtherStepsKeepFont
  <2>2. CASE font' = font
    BY <2>2 DEF SmallFontFits
  <2>3. CASE font' = NoFontYet
    <3>1. font'.system = "none"
      BY <2>3 DEF NoFontYet
    <3>2. QED BY <3>1 DEF SmallFontFits
  <2>4. QED BY <2>1, <2>2, <2>3
<1>3. QED BY <1>1, <1>2

LEMMA NoFontFits == font = NoFontYet => SmallFontFits
BY DEF SmallFontFits, NoFontYet

(* On every version of Windows, for every code page, every number of        *)
(* columns and any set of installed faces, the agent's font is of the code  *)
(* page's own face if that is installed, else of the default one, and the   *)
(* smallest there that is wide enough.                                      *)
THEOREM FontIsRight == OpenSpec => []SmallFontFits
<1>1. OpenInit => SmallFontFits
  BY NoFontFits DEF OpenInit
<1>2. QED BY <1>1, FontIsKept, PTL DEF OpenSpec

-----------------------------------------------------------------------------
(* Libwinpty: winpty_open and then the calls on the winpty_t.  Until then   *)
(* no call has been made; afterwards only the agent that kept the desktop   *)
(* is on its way out.                                                       *)
OpenedInv ==
  IF at = "open"
    THEN DOMAIN proc = Role /\ proc["main"] = "none" /\ font = NoFontYet
    ELSE OpenInv /\ SmallFontFits /\ Init

(* winpty_open is done once.                                                *)
LEMMA OpenIsForGood ==
  ASSUME [OpenNext]_openVars
  PROVE  (at = "open" => ~OpenClient) /\ (at' = "open" <=> at = "open")
<1> USE DEF OpenClient, SetupDesktop, GetStation, CreateStation, SwitchStation,
      CreateDesktop, NameDesktop, CreateControlPipe, StartAgentProcess,
      ConnectControlPipe, VerifyPipeClientPid, WaitFails, ReadDesktopName,
      RestoreDesktop, NameSpawnDesktop, ReadPipeNames
<1>1. at = "open" => ~OpenClient
  OBVIOUS
<1>2. CASE OpenClient
  BY <1>1, <1>2 DEF Has, NoDesktop, Try, OpenFails
<1>3. CASE ~OpenClient
  BY <1>1, <1>3 DEF OpenNext, openVars, OpenAgents, HelperMakesDesktop, AgentSetsFont,
     ProcessAttaches, ProcessConnects, ProcessSends, ProcessExits, ProcessDies,
     ProcGoes, agentIdle
<1>4. QED BY <1>1, <1>2, <1>3

LEMMA OpenedInvIsKept == OpenedInv /\ [LibNext]_libVars => OpenedInv'
<1> SUFFICES ASSUME OpenedInv, [LibNext]_libVars PROVE OpenedInv'
  OBVIOUS
<1>1. CASE [OpenNext]_openVars /\ UNCHANGED vars
  <2>1. CASE at # "open"
    <3>1. at' # "open" /\ OpenInv' /\ SmallFontFits'
      BY <1>1, <2>1, OpenIsForGood, OpenInvIsKept, FontIsKept DEF OpenedInv
    <3>2. Init'
      BY <1>1, <2>1 DEF OpenedInv, Init, vars, clientVars, agentVars
    <3>3. QED BY <3>1, <3>2 DEF OpenedInv
  <2>2. CASE at = "open"
    <3>1. at' = "open" /\ (OpenAgents \/ (\E r \in Role : ProcessDies(r))
                            \/ UNCHANGED openVars)
      BY <1>1, <2>2, OpenIsForGood DEF OpenNext
    <3>2. DOMAIN proc = Role /\ proc["main"] = "none" /\ font = NoFontYet
      BY <2>2 DEF OpenedInv
    <3>3. /\ DOMAIN proc' = Role /\ proc'["main"] = "none"
          /\ font' = NoFontYet
      <4>1. CASE OpenAgents
        BY <3>2, <4>1 DEF OpenAgents, HelperMakesDesktop, AgentSetsFont,
           ProcessAttaches, ProcessConnects, ProcessSends, ProcessExits, ProcGoes
      <4>2. ASSUME NEW r \in Role, ProcessDies(r)
            PROVE  DOMAIN proc' = Role /\ proc'["main"] = "none" /\ font' = NoFontYet
        BY <3>2, <4>2 DEF ProcessDies, ProcGoes
      <4>3. CASE UNCHANGED openVars
        BY <3>2, <4>3 DEF openVars
      <4>4. QED BY <3>1, <4>1, <4>2, <4>3
    <3>4. QED BY <3>1, <3>3 DEF OpenedInv
  <2>3. QED BY <2>1, <2>2
<1>2. CASE Opened
  <2>1. at' = "open" /\ font' = NoFontYet /\ proc' = [proc EXCEPT !["main"] = "none"]
    BY <1>2 DEF Opened
  <2>2. DOMAIN proc = Role
    <3>1. at # "open"
      BY <1>2 DEF Opened
    <3>2. OpenTypeOK
      BY <3>1 DEF OpenedInv, OpenInv
    <3>3. QED BY <3>2 DEF OpenTypeOK
  <2>3. DOMAIN proc' = Role /\ proc'["main"] = "none"
    BY <2>1, <2>2
  <2>4. QED BY <2>1, <2>3 DEF OpenedInv
<1>3. CASE at = "open" /\ UNCHANGED openVars
  BY <1>3 DEF OpenedInv, openVars
<1>4. QED BY <1>1, <1>2, <1>3 DEF LibNext, libVars

(* The inductive invariant of a winpty_t from winpty_open on.               *)
THEOREM LibInvariance == LibSpec => []OpenedInv
<1>1. LibInit => OpenedInv
  BY InitIsOpenInv, NoFontFits DEF LibInit, OpenedInv, OpenInit
<1>2. QED BY <1>1, OpenedInvIsKept, PTL DEF LibSpec

(* The calls on a winpty_t are those of Rpc, whatever winpty_open did, and  *)
(* even if the agent has died by the time it returns.                       *)
THEOREM CallsAreRpc == LibSpec => Spec
<1>1. LibInit => Init
  BY DEF LibInit
<1>2. OpenedInv /\ [LibNext]_libVars => [Next]_vars
  <2> SUFFICES ASSUME OpenedInv, Opened PROVE [Next]_vars
    BY DEF LibNext, libVars
  <2>1. Init
    BY DEF Opened, OpenedInv
  <2>2. /\ UNCHANGED <<clientVars, toAgent, toClient, served, closedOn, inQueue, outQueue>>
        /\ agent = "alive" /\ inQueue = <<>> /\ outQueue = <<>>
        /\ agent' \in {"alive", "dead"}
    BY <2>1 DEF Opened, Init
  <2>3. CASE agent' = "alive"
    BY <2>2, <2>3 DEF vars, agentVars
  <2>4. CASE agent' = "dead"
    BY <2>2, <2>4 DEF Next, AgentStep, AgentDies
  <2>5. QED BY <2>2, <2>3, <2>4
<1>3. QED BY <1>1, <1>2, LibInvariance, PTL DEF LibSpec, Spec

(* What the run on Libwinpty checks of winpty_open and of the calls, for    *)
(* every value of the constants: no trace is left of a desktop, the agent   *)
(* starts on one that exists, with a font that fits, and an open control    *)
(* pipe carries the current call only.                                      *)
THEOREM LibIsSafe ==
  LibSpec => [](OpenLeavesNoTrace /\ StartsOnItsDesktop /\ SmallFontFits /\ InFlight)
<1>1. OpenedInv => OpenLeavesNoTrace /\ StartsOnItsDesktop /\ SmallFontFits
  <2>1. CASE at = "open"
    BY <2>1, NoFontFits DEF OpenedInv, OpenLeavesNoTrace, StartsOnItsDesktop
  <2>2. CASE at # "open"
    BY <2>2 DEF OpenedInv, OpenInv, OpenTypeOK, NoTrace, OpenLeavesNoTrace
  <2>3. QED BY <2>1, <2>2
<1>2. QED BY <1>1, LibInvariance, CallsAreRpc, OnlyTheCurrentCall, PTL

(* And winpty_open followed by calls keeps what RpcPromise says of them.    *)
THEOREM LibKeepsPromise == LibSpec => ImplementsPromise
BY CallsAreRpc, PromiseIsKept
=============================================================================
