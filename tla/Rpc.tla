--------------------------------- MODULE Rpc ---------------------------------
(***************************************************************************)
(* The control channel: threads of the client calling libwinpty on one     *)
(* winpty_t, and the agent at the other end of the control pipe.           *)
(*                                                                         *)
(* A call takes wp->mutex, writes one packet and reads one: its size, then *)
(* its payload.  Every read or write waits for the I/O, for the agent to   *)
(* die or for agentTimeoutMs.  Whatever goes wrong, RpcOperation's         *)
(* destructor closes the control pipe, for the reply may still be coming   *)
(* and would be taken for the reply to a later call.                       *)
(***************************************************************************)
EXTENDS Integers, Sequences, FiniteSets

CONSTANTS
  Thread,
  NoThread,
  Timeout,   \* agentTimeoutMs, in ticks
  MaxCalls   \* bound: calls of each thread

ASSUME RpcAssumption ==
  /\ NoThread \notin Thread
  /\ Timeout \in Nat \ {0} /\ MaxCalls \in Nat

VARIABLES
  pc,        \* per thread: "idle", "blocked" on the mutex, then the call's I/O
  op,        \* per thread: the call it is in
  n,         \* per thread: how many calls it has made
  mutex,     \* wp->mutex: its owner, or NoThread
  pipe,      \* wp->controlPipe: "open", or "closed" (null)
  ioWait,    \* ticks the owner has waited for the current I/O
  (* the kernel and the agent *)
  toAgent, toClient, \* packets and parts of packets in the control pipe
  agent,     \* "alive" or "dead"
  inQueue,   \* requests the agent has read
  outQueue,  \* parts of replies the agent has not written yet
  (* history *)
  served,    \* the requests carried out
  closedOn   \* what made libwinpty close the pipe

clientVars == <<pc, op, n, mutex, pipe, ioWait>>
agentVars  == <<agent, inQueue, outQueue>>
vars == <<clientVars, agentVars, toAgent, toClient, served, closedOn>>

Ops     == {"spawn", "size", "list"}
Call(t) == [thread |-> t, n |-> n[t], op |-> op[t]]

(* The replies to a request - a process list fits the caller's array or is  *)
(* longer - and the two parts a reply is read in.  The reply to SetSize has *)
(* no payload.                                                              *)
Results(o) ==
  CASE o = "spawn" -> {"created", "failed"}
    [] o = "size"  -> {"sized"}
    [] o = "list"  -> {"fits", "longer"}

Parts(call, result) ==
  LET part(p) == [part |-> p, call |-> call, result |-> result]
  IN IF call.op = "size" THEN <<part("size")>>
     ELSE <<part("size"), part("payload")>>

Init ==
  /\ pc = [t \in Thread |-> "idle"]
  /\ op = [t \in Thread |-> "size"]
  /\ n = [t \in Thread |-> 0]
  /\ mutex = NoThread
  /\ pipe = "open"
  /\ ioWait = 0
  /\ toAgent = <<>> /\ toClient = <<>>
  /\ agent = "alive" /\ inQueue = <<>> /\ outQueue = <<>>
  /\ served = {}
  /\ closedOn = "nothing"

-----------------------------------------------------------------------------
(* A thread calls winpty_spawn, winpty_set_size or                          *)
(* winpty_get_console_process_list and waits for the mutex.                 *)
Begin(t) ==
  /\ pc[t] = "idle" /\ n[t] < MaxCalls
  /\ \E o \in Ops : op' = [op EXCEPT ![t] = o]
  /\ n' = [n EXCEPT ![t] = @ + 1]
  /\ pc' = [pc EXCEPT ![t] = "blocked"]
  /\ UNCHANGED <<mutex, pipe, ioWait, agentVars, toAgent, toClient, served, closedOn>>

(* The mutex is free; RpcOperation's constructor throws if an earlier call  *)
(* has closed the pipe, which frees the mutex again.                        *)
BugEnter(t) ==                 \* without the lock
  /\ pc[t] = "blocked"
  /\ IF pipe = "open"
       THEN mutex' = t /\ pc' = [pc EXCEPT ![t] = "locked"]
       ELSE pc' = [pc EXCEPT ![t] = "idle"] /\ UNCHANGED mutex
  /\ UNCHANGED <<op, n, pipe, ioWait, agentVars, toAgent, toClient, served,
                 closedOn>>

Enter(t) ==
  /\ pc[t] = "blocked" /\ mutex = NoThread
  /\ IF pipe = "open"
       THEN mutex' = t /\ pc' = [pc EXCEPT ![t] = "locked"]
       ELSE pc' = [pc EXCEPT ![t] = "idle"] /\ UNCHANGED mutex
  /\ UNCHANGED <<op, n, pipe, ioWait, agentVars, toAgent, toClient, served,
                 closedOn>>

(* WriteFile.  A request that fits the kernel's buffer (SetSize and         *)
(* GetConsoleProcessList do) is written at once; StartProcess carries an    *)
(* environment and waits until the agent has read it.                       *)
Write(t) ==
  /\ pc[t] = "locked" /\ agent = "alive"
  /\ toAgent' = Append(toAgent, Call(t))
  /\ pc' = [pc EXCEPT ![t] = IF op[t] = "spawn" THEN "writing" ELSE "size"]
  /\ ioWait' = 0
  /\ UNCHANGED <<op, n, mutex, pipe, agentVars, toClient, served,
                 closedOn>>

Written(t) == \A i \in 1..Len(toAgent) : toAgent[i] # Call(t)

WriteCompletes(t) ==
  /\ pc[t] = "writing" /\ Written(t)
  /\ pc' = [pc EXCEPT ![t] = "size"]
  /\ ioWait' = 0
  /\ UNCHANGED <<op, n, mutex, pipe, agentVars, toAgent, toClient, served, closedOn>>

(* readPacket: first the size of the reply, then as much.                   *)
Returns(t) ==
  /\ pc' = [pc EXCEPT ![t] = "idle"]
  /\ mutex' = NoThread
  /\ UNCHANGED <<pipe, closedOn, toAgent>>

(* The exception leaves the call: a pending I/O is cancelled, RpcOperation  *)
(* closes the pipe and LockGuard frees the mutex.                           *)
BugFails(t, why) ==            \* without RpcOperation
  /\ pc' = [pc EXCEPT ![t] = "idle"]
  /\ mutex' = NoThread
  /\ closedOn' = why
  /\ UNCHANGED <<pipe, toClient, toAgent>>

Fails(t, why) ==
  /\ pc' = [pc EXCEPT ![t] = "idle"]
  /\ mutex' = NoThread
  /\ pipe' = "closed" /\ closedOn' = why
  /\ toClient' = <<>>
  /\ toAgent' = IF pc[t] = "writing" THEN <<>> ELSE toAgent

ReadSize(t) ==
  /\ pc[t] = "size" /\ toClient # <<>>
  /\ ioWait' = 0
  /\ toClient' = Tail(toClient)
  /\ IF Head(toClient).result = "sized"
       THEN Returns(t)
       ELSE /\ pc' = [pc EXCEPT ![t] = "payload"]
            /\ UNCHANGED <<mutex, pipe, toAgent, closedOn>>
  /\ UNCHANGED <<op, n, agentVars, served>>

(* The payload: winpty_spawn's success or CreateProcessFailed, or a process *)
(* list.  A list longer than the caller's array is not decoded, so          *)
(* assertEof throws; and so does stealHandle when it cannot have a handle   *)
(* of the new process.                                                      *)
ReadPayload(t) ==
  /\ pc[t] = "payload" /\ toClient # <<>>
  /\ LET result == Head(toClient).result IN
       \/ result = "longer" /\ Fails(t, "good reply")
       \/ result = "created" /\ Fails(t, "no handle")
       \/ result # "longer" /\ toClient' = Tail(toClient) /\ Returns(t)
  /\ UNCHANGED <<op, n, ioWait, agentVars, served>>

(* The wait returns without the I/O being done, or the I/O fails: the agent *)
(* is gone, or the time is over.                                            *)
Waiting(t) ==
  \/ pc[t] = "writing" /\ ~Written(t)
  \/ pc[t] \in {"size", "payload"} /\ toClient = <<>>

AgentLost(t) ==
  /\ agent = "dead"
  /\ pc[t] = "locked" \/ Waiting(t)
  /\ Fails(t, "agent died")
  /\ UNCHANGED <<op, n, ioWait, agentVars, served>>

BugTimesOut(t) ==              \* writes wait without a limit
  /\ Waiting(t) /\ ioWait = Timeout /\ pc[t] # "writing"
  /\ Fails(t, "timeout")
  /\ UNCHANGED <<op, n, ioWait, agentVars, served>>

TimesOut(t) ==
  /\ Waiting(t) /\ ioWait = Timeout
  /\ Fails(t, "timeout")
  /\ UNCHANGED <<op, n, ioWait, agentVars, served>>

Tick ==
  /\ \E t \in Thread : Waiting(t)
  /\ ioWait < Timeout
  /\ ioWait' = ioWait + 1
  /\ UNCHANGED <<pc, op, n, mutex, pipe, agentVars, toAgent, toClient, served,
                 closedOn>>

ClientStep(t) ==
  \/ Enter(t) \/ Write(t) \/ WriteCompletes(t)
  \/ ReadSize(t) \/ ReadPayload(t)
  \/ AgentLost(t) \/ TimesOut(t)

-----------------------------------------------------------------------------
(* The agent: reads a packet, handles it, writes the reply.  It reads none  *)
(* from a pipe the client has closed, but one it has read it handles.       *)
AgentReads ==
  /\ agent = "alive" /\ pipe = "open"
  /\ toAgent # <<>>
  /\ inQueue' = Append(inQueue, Head(toAgent))
  /\ toAgent' = Tail(toAgent)
  /\ UNCHANGED <<clientVars, agent, outQueue, toClient, served,
                 closedOn>>

AgentHandles ==
  /\ agent = "alive" /\ inQueue # <<>>
  /\ served' = served \cup {Head(inQueue)}
  /\ \E result \in Results(Head(inQueue).op) :
       outQueue' = outQueue \o Parts(Head(inQueue), result)
  /\ inQueue' = Tail(inQueue)
  /\ UNCHANGED <<clientVars, agent, toAgent, toClient, closedOn>>

AgentWrites ==
  /\ agent = "alive" /\ pipe = "open"
  /\ outQueue # <<>>
  /\ toClient' = Append(toClient, Head(outQueue))
  /\ outQueue' = Tail(outQueue)
  /\ UNCHANGED <<clientVars, agent, inQueue, toAgent, served,
                 closedOn>>

(* It exits when the pipe is closed, or dies: it is killed, or asserts, or  *)
(* has shut down after its child.  What it has written can still be read.   *)
AgentDies ==
  /\ agent = "alive"
  /\ agent' = "dead"
  /\ inQueue' = <<>> /\ outQueue' = <<>>
  /\ UNCHANGED <<clientVars, toAgent, toClient, served, closedOn>>

AgentStep == AgentReads \/ AgentHandles \/ AgentWrites \/ AgentDies

Next ==
  \/ \E t \in Thread : Begin(t) \/ ClientStep(t)
  \/ Tick
  \/ AgentStep

(* The client's threads run and time passes.  Nothing is assumed of the     *)
(* agent: it may hang.                                                      *)
Fairness == WF_vars(Tick) /\ \A t \in Thread : WF_vars(ClientStep(t))

Spec == Init /\ [][Next]_vars
FairSpec == Spec /\ Fairness
-----------------------------------------------------------------------------
(* The comment on RpcOperation: the control pipe is never in an             *)
(* inconsistent state.  As long as it is open, everything in it, and in the *)
(* agent's queues, belongs to the call that holds the mutex, and there is   *)
(* at most one of its packets under way.                                    *)
InFlight ==
  LET calls == toAgent \o inQueue
      parts == outQueue \o toClient
  IN pipe = "open" =>
       /\ Len(calls) <= 1 /\ (calls # <<>> => parts = <<>>)
       /\ \A i \in 1..Len(calls) : mutex # NoThread /\ calls[i] = Call(mutex)
       /\ \A i \in 1..Len(parts) :
            mutex # NoThread /\ parts[i].call = Call(mutex)

(* A call and the pipe as RpcPromise sees them.                             *)
CallStatus ==
  [t \in Thread |-> IF pc[t] = "idle" THEN "idle"
                    ELSE IF Call(t) \in served THEN "served" ELSE "asked"]

Link == IF pipe = "open" THEN "up" ELSE "down"

Promise == INSTANCE RpcPromise WITH status <- CallStatus, link <- Link

(* A call that succeeds was carried out by the agent during the call, one   *)
(* at a time, and a failed one ends the session for all threads.            *)
ImplementsPromise == Promise!Spec

(* Every call returns, even when the agent hangs or dies.                   *)
CallsReturn == \A t \in Thread : pc[t] # "idle" ~> pc[t] = "idle"

(* The comment on RpcOperation: it closes the pipe if something goes wrong  *)
(* with the communication - and so not when a reply has come in whole.      *)
KeepsPipeOnReply == closedOn # "good reply"
=============================================================================
