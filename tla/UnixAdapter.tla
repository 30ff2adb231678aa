----------------------------- MODULE UnixAdapter -----------------------------
(***************************************************************************)
(* The winpty.exe console adapter: a main thread that waits for terminal   *)
(* resizes and for the end of the session, and one thread per pipe that    *)
(* copies between a Unix descriptor and the agent - InputHandler for       *)
(* CONIN, an OutputHandler for CONOUT and, under --Xconerr, for CONERR.    *)
(*                                                                         *)
(* Threads wake one another through WakeupFd, a pipe written by set() and  *)
(* drained by reset(): what it is about is set before set() and looked at  *)
(* after reset().  The main thread ends the session as soon as one handler *)
(* has completed and joins them all, so each must notice in its own way:   *)
(* the input handler by its own WakeupFd, the output handlers because the  *)
(* agent is gone and its pipes with it.                                    *)
(*                                                                         *)
(* Each access to a shared variable is a step.  The agent is what module   *)
(* Agent makes of it: it hands over what the child shows and then closes   *)
(* the pipe.                                                               *)
(***************************************************************************)
EXTENDS Integers

CONSTANTS
  Outputs,    \* the pipes with an OutputHandler: CONOUT, CONERR
  Size,       \* sizes of the terminal
  StartSize,  \* what the ioctl at the start returns
  Garbage,    \* what an uninitialized winsize holds
  MaxResizes, \* bound: how often the terminal is resized
  MaxShown,   \* bound: pieces of output the child shows on each pipe
  MaxTyped    \* bound: pieces of input typed

ASSUME AdapterAssumption ==
  /\ StartSize \in Size /\ Garbage \notin Size
  /\ MaxResizes \in Nat /\ MaxShown \in Nat /\ MaxTyped \in Nat

VARIABLES
  main, mainWake,          \* the main thread; g_mainWakeup has a byte in it
  sz, registered,          \* the local sz; the SIGWINCH handler is installed
  input, inputWake,        \* the input handler's thread; its m_wakeup
  shouldShutdown,          \* its m_shouldShutdown
  inputCompleted, holding, \* its m_threadCompleted; what it has read
  out, outCompleted, buffer, \* the same of each output handler
  (* the terminal: its size, what is typed, what it shows *)
  term, resizes, stdin, typed, written, stdout,
  (* the agent and the child *)
  agent, freed, consoleSize, child, shown, queued, pipe, conClosed,
  (* history: the latest resize was signalled; the agent died by itself *)
  signalled, lost

mainVars   == <<main, sz, registered>>
inputVars  == <<input, inputCompleted, holding>>
outVars    == <<out, outCompleted, buffer>>
wakeVars   == <<mainWake, inputWake, shouldShutdown>>
termVars   == <<term, resizes, stdin, typed, written, stdout>>
agentVars  == <<agent, freed, consoleSize, child, shown, queued, pipe,
                conClosed>>
history    == <<signalled, lost>>
vars == <<mainVars, inputVars, outVars, wakeVars, termVars, agentVars, history>>

Init ==
  /\ main = "start" /\ mainWake = FALSE
  /\ term = StartSize /\ sz = term /\ registered = FALSE
  /\ input = "unborn" /\ inputWake = FALSE /\ shouldShutdown = FALSE
  /\ inputCompleted = FALSE /\ holding = 0
  /\ out = [p \in Outputs |-> "unborn"]
  /\ outCompleted = [p \in Outputs |-> FALSE]
  /\ buffer = [p \in Outputs |-> 0]
  /\ resizes = 0 /\ stdin = "open" /\ typed = 0
  /\ written = buffer /\ stdout = "open"
  /\ agent = "up" /\ freed = FALSE /\ consoleSize = sz
  /\ child = "none" /\ shown = buffer /\ queued = buffer /\ pipe = buffer
  /\ conClosed = [p \in Outputs |-> FALSE]
  /\ signalled = FALSE /\ lost = FALSE

-----------------------------------------------------------------------------
(* The main thread.  The initial ioctl and winpty_open are behind it: the   *)
(* console has the size the terminal had then.  winpty_spawn follows; when  *)
(* it fails the program exits.                                              *)
MainSpawns ==
  /\ main = "start"
  /\ \/ main' = "register" /\ child' = "running" /\ UNCHANGED agent
     \/ main' = "failed" /\ agent' = "down" /\ UNCHANGED child
  /\ UNCHANGED <<sz, registered, inputVars, outVars, wakeVars, termVars, freed,
                 consoleSize, shown, queued, pipe, conClosed, history>>

MainRegisters ==
  /\ main = "register"
  /\ registered' = TRUE
  /\ main' = "create"
  /\ UNCHANGED <<sz, inputVars, outVars, wakeVars, termVars, agentVars, history>>

MainCreatesHandlers ==
  /\ main = "create"
  /\ input' = "reset"
  /\ out' = [p \in Outputs |-> "read"]
  /\ main' = "select"
  /\ UNCHANGED <<sz, registered, inputCompleted, holding, outCompleted, buffer,
                 wakeVars, termVars, agentVars, history>>

(* select returns, or is interrupted by a signal whose handler calls set(). *)
MainSelects ==
  /\ main = "select" /\ mainWake
  /\ main' = "reset"
  /\ UNCHANGED <<sz, registered, inputVars, outVars, wakeVars, termVars,
                 agentVars, history>>

MainResets ==
  /\ main = "reset"
  /\ mainWake' = FALSE
  /\ main' = "ioctl"
  /\ UNCHANGED <<sz, registered, inputVars, outVars, inputWake, shouldShutdown,
                 termVars, agentVars, history>>

(* The loop's ioctl.  It fails when the terminal is gone, which is not      *)
(* noticed: sz2 then holds whatever was on the stack.                       *)
MainReadsSize ==
  /\ main = "ioctl"
  /\ sz' \in IF stdin = "open" THEN {term} ELSE {sz, Garbage}
  /\ main' = IF sz' # sz THEN "resize" ELSE "check"
  /\ UNCHANGED <<registered, inputVars, outVars, wakeVars, termVars, agentVars,
                 history>>

(* winpty_set_size, which fails when the agent is gone.  It asserts that    *)
(* the size is positive; garbage may be or not.                             *)
MainResizes ==
  /\ main = "resize"
  /\ \/ /\ consoleSize' = IF agent = "up" THEN sz ELSE consoleSize
        /\ main' = "check"
     \/ /\ sz = Garbage
        /\ main' = "aborted"
        /\ UNCHANGED consoleSize
  /\ UNCHANGED <<sz, registered, inputVars, outVars, wakeVars, termVars, agent,
                 freed, child, shown, queued, pipe, conClosed, history>>

BugAnyCompleted == inputCompleted \/ child = "exited"  \* before the output's end
AnyCompleted == inputCompleted \/ \E p \in Outputs : outCompleted[p]

BugChecks ==                   \* the WakeupFd is drained after looking
  /\ main = "check"
  /\ main' = IF AnyCompleted THEN "free" ELSE "select"
  /\ mainWake' = FALSE
  /\ UNCHANGED <<sz, registered, inputVars, outVars, inputWake, shouldShutdown,
                 termVars, agentVars, history>>

MainChecks ==
  /\ main = "check"
  /\ main' = IF AnyCompleted THEN "free" ELSE "select"
  /\ UNCHANGED <<sz, registered, inputVars, outVars, wakeVars, termVars,
                 agentVars, history>>

MainFrees ==
  /\ main = "free"
  /\ freed' = TRUE
  /\ main' = "stop"
  /\ UNCHANGED <<sz, registered, inputVars, outVars, wakeVars, termVars, agent,
                 consoleSize, child, shown, queued, pipe, conClosed, history>>

(* InputHandler::startShutdown sets the flag, then the WakeupFd.            *)
MainStopsInput ==
  /\ main = "stop"
  /\ shouldShutdown' = TRUE
  /\ main' = "wake"
  /\ UNCHANGED <<sz, registered, inputVars, outVars, mainWake, inputWake,
                 termVars, agentVars, history>>

BugWakesInput ==               \* startShutdown only sets the flag
  /\ main = "wake"
  /\ main' = "join"
  /\ UNCHANGED <<sz, registered, inputVars, outVars, wakeVars, termVars,
                 agentVars, history>>

MainWakesInput ==
  /\ main = "wake"
  /\ inputWake' = TRUE
  /\ main' = "join"
  /\ UNCHANGED <<sz, registered, inputVars, outVars, mainWake, shouldShutdown,
                 termVars, agentVars, history>>

MainJoins ==
  /\ main = "join"
  /\ input = "exited" /\ \A p \in Outputs : out[p] = "exited"
  /\ main' = "done"
  /\ UNCHANGED <<sz, registered, inputVars, outVars, wakeVars, termVars,
                 agentVars, history>>

Main ==
  \/ MainSpawns \/ MainRegisters \/ MainCreatesHandlers
  \/ MainSelects \/ MainResets \/ MainReadsSize \/ MainResizes \/ MainChecks
  \/ MainFrees \/ MainStopsInput \/ MainWakesInput \/ MainJoins

-----------------------------------------------------------------------------
(* InputHandler::threadProc.                                                *)
InputResets ==
  /\ input = "reset"
  /\ inputWake' = FALSE
  /\ input' = "check"
  /\ UNCHANGED <<mainVars, inputCompleted, holding, outVars, mainWake,
                 shouldShutdown, termVars, agentVars, history>>

InputChecks ==
  /\ input = "check"
  /\ input' = IF shouldShutdown THEN "complete" ELSE "select"
  /\ UNCHANGED <<mainVars, inputCompleted, holding, outVars, wakeVars, termVars,
                 agentVars, history>>

StdinReady == typed > 0 \/ stdin = "eof"

InputSelects ==
  /\ input = "select"
  /\ StdinReady \/ inputWake
  /\ input' = IF StdinReady THEN "read" ELSE "reset"
  /\ UNCHANGED <<mainVars, inputCompleted, holding, outVars, wakeVars, termVars,
                 agentVars, history>>

InputReads ==
  /\ input = "read"
  /\ holding' = typed /\ typed' = 0
  /\ input' = IF typed > 0 THEN "write" ELSE "complete"
  /\ UNCHANGED <<mainVars, inputCompleted, outVars, wakeVars, term, resizes,
                 stdin, written, stdout, agentVars, history>>

InputWrites ==
  /\ input = "write"
  /\ holding' = 0
  /\ input' = IF agent = "up" THEN "reset" ELSE "complete"
  /\ UNCHANGED <<mainVars, inputCompleted, outVars, wakeVars, termVars,
                 agentVars, history>>

InputCompletes ==
  /\ input = "complete"
  /\ inputCompleted' = TRUE
  /\ input' = "notify"
  /\ UNCHANGED <<mainVars, holding, outVars, wakeVars, termVars, agentVars,
                 history>>

InputNotifies ==
  /\ input = "notify"
  /\ mainWake' = TRUE
  /\ input' = "exited"
  /\ UNCHANGED <<mainVars, inputCompleted, holding, outVars, inputWake,
                 shouldShutdown, termVars, agentVars, history>>

Input ==
  \/ InputResets \/ InputChecks \/ InputSelects \/ InputReads
  \/ InputWrites \/ InputCompletes \/ InputNotifies

-----------------------------------------------------------------------------
(* OutputHandler::threadProc.                                               *)
OutputReads(p) ==
  /\ out[p] = "read"
  /\ \/ /\ pipe[p] > 0
        /\ buffer' = [buffer EXCEPT ![p] = pipe[p]]
        /\ pipe' = [pipe EXCEPT ![p] = 0]
        /\ out' = [out EXCEPT ![p] = "write"]
     \/ /\ pipe[p] = 0 /\ conClosed[p]
        /\ out' = [out EXCEPT ![p] = "complete"]
        /\ UNCHANGED <<buffer, pipe>>
  /\ UNCHANGED <<mainVars, inputVars, outCompleted, wakeVars, termVars, agent,
                 freed, consoleSize, child, shown, queued, conClosed, history>>

OutputWrites(p) ==
  /\ out[p] = "write"
  /\ buffer' = [buffer EXCEPT ![p] = 0]
  /\ \/ /\ stdout = "open"
        /\ written' = [written EXCEPT ![p] = @ + buffer[p]]
        /\ out' = [out EXCEPT ![p] = "read"]
     \/ /\ stdout = "broken"
        /\ out' = [out EXCEPT ![p] = "complete"]
        /\ UNCHANGED written
  /\ UNCHANGED <<mainVars, inputVars, outCompleted, wakeVars, term, resizes,
                 stdin, typed, stdout, agentVars, history>>

OutputCompletes(p) ==
  /\ out[p] = "complete"
  /\ outCompleted' = [outCompleted EXCEPT ![p] = TRUE]
  /\ out' = [out EXCEPT ![p] = "notify"]
  /\ UNCHANGED <<mainVars, inputVars, buffer, wakeVars, termVars, agentVars,
                 history>>

OutputNotifies(p) ==
  /\ out[p] = "notify"
  /\ mainWake' = TRUE
  /\ out' = [out EXCEPT ![p] = "exited"]
  /\ UNCHANGED <<mainVars, inputVars, outCompleted, buffer, inputWake,
                 shouldShutdown, termVars, agentVars, history>>

Output(p) ==
  OutputReads(p) \/ OutputWrites(p) \/ OutputCompletes(p) \/ OutputNotifies(p)

-----------------------------------------------------------------------------
(* The terminal: it is resized, and the signal handler terminalResized      *)
(* calls set() on the main thread's WakeupFd and may interrupt the input    *)
(* handler's select or read (EINTR: threadProc starts over); the user types;*)
(* the terminal goes away.                                                  *)
Resize ==
  /\ resizes < MaxResizes /\ main \notin {"done", "failed", "aborted"}
  /\ term' \in Size \ {term}
  /\ resizes' = resizes + 1
  /\ mainWake' = (mainWake \/ registered)
  /\ input' \in IF registered /\ input \in {"select", "read"}
                  THEN {input, "reset"} ELSE {input}
  /\ signalled' = registered
  /\ UNCHANGED <<mainVars, inputCompleted, holding, outVars, inputWake,
                 shouldShutdown, stdin, typed, written, stdout, agentVars, lost>>

Type ==
  /\ stdin = "open" /\ typed < MaxTyped
  /\ typed' = typed + 1
  /\ UNCHANGED <<mainVars, inputVars, outVars, wakeVars, term, resizes,
                 stdin, written, stdout, agentVars, history>>

HangUp ==
  /\ \/ stdin = "open" /\ stdin' = "eof" /\ UNCHANGED stdout
     \/ stdout = "open" /\ stdout' = "broken" /\ UNCHANGED stdin
  /\ UNCHANGED <<mainVars, inputVars, outVars, wakeVars, term, resizes,
                 typed, written, agentVars, history>>

(* The child shows output and exits; the agent hands the output over and    *)
(* then closes each pipe by itself.                                         *)
ChildShows(p) ==
  /\ child = "running" /\ shown[p] < MaxShown
  /\ shown' = [shown EXCEPT ![p] = @ + 1]
  /\ queued' = [queued EXCEPT ![p] = @ + 1]
  /\ UNCHANGED <<mainVars, inputVars, outVars, wakeVars, termVars, agent, freed,
                 consoleSize, child, pipe, conClosed, history>>

ChildExits ==
  /\ child = "running"
  /\ child' = "exited"
  /\ UNCHANGED <<mainVars, inputVars, outVars, wakeVars, termVars, agent, freed,
                 consoleSize, shown, queued, pipe, conClosed, history>>

AgentWrites(p) ==
  /\ agent = "up" /\ queued[p] > 0
  /\ queued' = [queued EXCEPT ![p] = @ - 1]
  /\ pipe' = [pipe EXCEPT ![p] = @ + 1]
  /\ UNCHANGED <<mainVars, inputVars, outVars, wakeVars, termVars, agent, freed,
                 consoleSize, child, shown, conClosed, history>>

AgentCloses(p) ==
  /\ agent = "up" /\ child = "exited" /\ queued[p] = 0 /\ ~conClosed[p]
  /\ conClosed' = [conClosed EXCEPT ![p] = TRUE]
  /\ UNCHANGED <<mainVars, inputVars, outVars, wakeVars, termVars, agent, freed,
                 consoleSize, child, shown, queued, pipe, history>>

(* The agent exits after winpty_free, or is killed.  What it has not handed *)
(* over is gone, and so are the processes in its console.                   *)
AgentExits ==
  /\ agent = "up"
  /\ agent' = "down"
  /\ lost' = ~freed
  /\ queued' = [p \in Outputs |-> 0]
  /\ conClosed' = [p \in Outputs |-> TRUE]
  /\ child' = IF child = "running" THEN "killed" ELSE child
  /\ UNCHANGED <<mainVars, inputVars, outVars, wakeVars, termVars, freed,
                 consoleSize, shown, pipe, signalled>>

Next ==
  \/ Main \/ Input \/ \E p \in Outputs : Output(p)
  \/ Resize \/ Type \/ HangUp
  \/ ChildExits \/ AgentExits
  \/ \E p \in Outputs : ChildShows(p) \/ AgentWrites(p) \/ AgentCloses(p)

(* The threads are scheduled, and the terminal takes what is written to it; *)
(* the agent does its part (Agent's FreeEndsAgent and                       *)
(* ChildExitReachesClient).                                                 *)
Fairness ==
  /\ WF_vars(Main) /\ WF_vars(Input)
  /\ \A p \in Outputs : /\ WF_vars(Output(p))
                        /\ WF_vars(AgentWrites(p)) /\ WF_vars(AgentCloses(p))
  /\ WF_vars(freed /\ AgentExits)

Spec == Init /\ [][Next]_vars
FairSpec == Spec /\ Fairness
-----------------------------------------------------------------------------
Working == {"complete", "notify", "exited"}

TypeOK ==
  /\ main \in {"start", "register", "create", "select", "reset", "ioctl",
               "resize", "check", "free", "stop", "wake", "join", "done",
               "failed", "aborted"}
  /\ input \in {"unborn", "reset", "check", "select", "read", "write"} \cup Working
  /\ out \in [Outputs -> {"unborn", "read", "write"} \cup Working]
  /\ {mainWake, inputWake, shouldShutdown, registered, inputCompleted, freed,
      signalled, lost} \subseteq BOOLEAN
  /\ {outCompleted, conClosed} \subseteq [Outputs -> BOOLEAN]
  /\ {buffer, written, shown, queued, pipe} \subseteq [Outputs -> Nat]
  /\ term \in Size /\ {sz, consoleSize} \subseteq Size \cup {Garbage}
  /\ {resizes, holding, typed} \subseteq Nat
  /\ stdin \in {"open", "eof"} /\ stdout \in {"open", "broken"}
  /\ agent \in {"up", "down"}
  /\ child \in {"none", "running", "exited", "killed"}

(* The main thread never sleeps on news: when it waits and its WakeupFd is  *)
(* empty, no handler has announced its end, and the console has the size    *)
(* a terminal that is still there last signalled.                           *)
NoWakeupLost ==
  main = "select" /\ ~mainWake =>
    /\ input # "exited" /\ \A p \in Outputs : out[p] # "exited"
    /\ signalled /\ stdin = "open" /\ agent = "up" => consoleSize = term

(* Nor does the input handler sleep through its shutdown.                   *)
InputHearsShutdown ==
  main \in {"join", "done"} /\ input \in {"check", "select"} /\ ~inputWake =>
    shouldShutdown /\ input = "check"

(* What makes these two inductive: who has completed has announced it, or   *)
(* the main thread is between reset() and its checks or past them.          *)
Ending   == {"free", "stop", "wake", "join", "done", "aborted"}
Checking == {"ioctl", "resize", "check"}
Heard    == mainWake \/ main \in Checking \cup Ending

Announced ==
  /\ input \in {"notify", "exited"} => inputCompleted
  /\ \A p \in Outputs : out[p] \in {"notify", "exited"} => outCompleted[p]
  /\ input = "exited" => Heard
  /\ \A p \in Outputs : out[p] = "exited" => Heard

SizeKnown ==
  /\ signalled /\ stdin = "open" =>
       sz = term \/ mainWake \/ main \in {"ioctl"} \cup Ending
  /\ agent = "up" => consoleSize = sz \/ main \in {"resize", "aborted"}

ShutdownKnown ==
  /\ main \in {"wake", "join", "done"} => shouldShutdown
  /\ main \in {"join", "done"} /\ input = "select" => inputWake

IInv == TypeOK /\ Announced /\ SizeKnown /\ ShutdownKnown

(* Only CONOUT is in use.                                                   *)
Alone == \A p, q \in Outputs : p = q

(* A session that ends because the child has, with the terminal still there *)
(* and only CONOUT in use, ends with all its output on the terminal:        *)
(* winpty_free, which kills the agent, comes after the end of the stream.   *)
OutputComplete ==
  main = "done" /\ stdin = "open" /\ stdout = "open" /\ ~lost =>
    child = "exited" /\ \A p \in Outputs : written[p] = shown[p]

(* Why: while terminal and agent are undisturbed, a handler completes only  *)
(* when everything shown has passed queued, pipe and buffer; the agent, and *)
(* with it the input handler, ends only after the main thread has seen one  *)
(* complete.                                                                *)
Undisturbed == stdin = "open" /\ stdout = "open" /\ ~lost
Freeing     == {"stop", "wake", "join", "done"}

Drained ==
  /\ child = "exited"
  /\ \A p \in Outputs : queued[p] = 0 /\ pipe[p] = 0 /\ buffer[p] = 0

NotStarted ==
  main \in {"start", "register", "create"} =>
    /\ input = "unborn" /\ \A p \in Outputs : out[p] = "unborn"
    /\ main = "start" => child = "none"

InputAtHand == input = "read" => typed > 0

EndsInOrder ==
  /\ freed => main \in Freeing
  /\ shouldShutdown => main \in {"wake", "join", "done"}
  /\ agent = "down" => freed

Flow ==
  \A p \in Outputs :
    /\ shown[p] = written[p] + buffer[p] + pipe[p] + queued[p]
    /\ out[p] # "write" => buffer[p] = 0
    /\ conClosed[p] => child = "exited" /\ queued[p] = 0

Over ==
  \/ main \in {"free"} \cup Freeing
  \/ inputCompleted \/ input \in Working
  \/ \E p \in Outputs : outCompleted[p] \/ out[p] \in Working

EndMeansDrained == Over => Drained

FlowParts == NotStarted /\ InputAtHand /\ EndsInOrder /\ Flow /\ EndMeansDrained

Failed  == main \in {"failed", "aborted"}
FlowInv == (lost => agent = "down") /\ (Undisturbed /\ ~Failed => FlowParts)

(* Once a handler ends, whichever and for whatever reason, all of them do   *)
(* and the program ends: no join waits for ever.                            *)
SessionEnds == AnyCompleted ~> main \in {"done", "aborted"}

(* A resize that was signalled reaches the console, unless the session ends *)
(* or the terminal goes away.                                               *)
ResizeReachesConsole ==
  signalled ~> \/ consoleSize = term
               \/ main \in Ending
               \/ agent = "down" \/ stdin = "eof"

(* winpty_set_size asserts that it is called with a positive size.          *)
NeverAborts == main # "aborted"
=============================================================================
