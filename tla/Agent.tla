-------------------------------- MODULE Agent --------------------------------
(***************************************************************************)
(* The agent process: its event loop, the child process in its console,    *)
(* the control pipe and the output pipes, from winpty_spawn to the end of  *)
(* the session.                                                            *)
(*                                                                         *)
(* The loop services its pipes in a fixed order and calls onPollTimeout    *)
(* when the poll interval has elapsed.  Everything the child shows on the  *)
(* console reaches a pipe through a scrape in onPollTimeout (or a resize), *)
(* so when the child exits the agent must scrape once more, turn the       *)
(* terminal's mouse mode off, let the pipes drain and only then close      *)
(* them - and not before the client has connected.                         *)
(*                                                                         *)
(* A pipe is here what module NamedPipe makes of it: a queue, one pended   *)
(* write and the kernel's buffer.  kIoSize is left out: one write takes    *)
(* the whole queue.  The child and the client run between any two steps of *)
(* the loop.                                                               *)
(***************************************************************************)
EXTENDS Integers, Sequences, FiniteSets, Streams

CONSTANTS
  UseConerr,   \* WINPTY_FLAG_CONERR
  ForceMouse,  \* WINPTY_MOUSE_MODE_FORCE
  SpawnOnce,   \* the client spawns no second child, as winpty.h demands
  Quota,       \* items the kernel buffers in an output pipe
  MaxOutput,   \* bound: how often the child writes to each buffer
  MaxEvents,   \* bound: changes of the console's input mode and title
  MaxCalls     \* bound: requests the client sends

OutPipes == IF UseConerr THEN {"conout", "conerr"} ELSE {"conout"}

ASSUME AgentAssumption ==
  /\ {UseConerr, ForceMouse, SpawnOnce} \subseteq BOOLEAN
  /\ Quota \in Nat /\ MaxOutput \in Nat /\ MaxEvents \in Nat /\ MaxCalls \in Nat

VARIABLES
  pc, turn,       \* the step of the round and the pipe being serviced
  didSomething, exiting, elapsed,
  (* the Agent object *)
  childHandle,    \* m_childProcess # nullptr
  autoShutdown, exitAfterShutdown, closingOutputPipes,
  mouseModeEnabled,
  activateMouse,  \* the local enableMouseMode of onPollTimeout
  scrapeContent,  \* its local shouldScrapeContent
  (* the pipes *)
  conn, outQueue, pending, rest, wire, client, got,
  control,        \* the agent's end of the control pipe: "connected", "closed"
  requests,       \* packets on their way to the agent
  packets,        \* packets in the control pipe's inQueue
  replies,        \* packets in the control pipe's outQueue
  answers,        \* replies handed over to the kernel or the client
  (* the console and the child *)
  child,          \* "none", "running", "exited", "killed"
  output,         \* how much the child has written to each screen buffer
  scraped,        \* how much of it the agent has seen
  wantsMouse, newTitle, events,
  (* the client *)
  session,        \* "open", or "freed" after winpty_free
  calls,          \* requests sent
  (* history: pipes closed by the auto-shutdown, a failed assertion *)
  flushed, asserted

loopVars    == <<pc, turn, didSomething, exiting, elapsed>>
agentVars   == <<childHandle, autoShutdown, exitAfterShutdown,
                 closingOutputPipes>>
pollVars    == <<mouseModeEnabled, activateMouse, scrapeContent>>
pipeVars    == <<conn, outQueue, pending, rest, wire, client, got>>
controlVars == <<control, requests, packets, replies, answers>>
consoleVars == <<child, output, scraped, wantsMouse, newTitle, events>>
clientVars  == <<session, calls>>
history     == <<flushed, asserted>>
vars == <<loopVars, agentVars, pollVars, pipeVars, controlVars, consoleVars,
          clientVars, history>>

Init ==
  /\ pc = "service" /\ turn = "control"
  /\ didSomething = FALSE /\ exiting = FALSE /\ elapsed = FALSE
  /\ childHandle = FALSE /\ autoShutdown = FALSE /\ exitAfterShutdown = FALSE
  /\ closingOutputPipes = FALSE
  /\ mouseModeEnabled = FALSE /\ activateMouse = FALSE /\ scrapeContent = FALSE
  /\ conn = [p \in OutPipes |-> "connecting"]
  /\ client = [p \in OutPipes |-> "none"]
  /\ outQueue = [p \in OutPipes |-> <<>>] /\ rest = outQueue
  /\ wire = outQueue /\ got = outQueue
  /\ pending = [p \in OutPipes |-> FALSE]
  /\ control = "connected"
  /\ requests = <<>> /\ packets = <<>> /\ replies = <<>> /\ answers = <<>>
  /\ child = "none"
  /\ output = [p \in OutPipes |-> 0] /\ scraped = output
  /\ wantsMouse = FALSE /\ newTitle = FALSE /\ events = 0
  /\ session = "open" /\ calls = 0
  /\ flushed = {} /\ asserted = FALSE

-----------------------------------------------------------------------------
(* EventLoop::run: the next pipe in m_pipes, and the next round.            *)
NextPipe ==
  CASE turn = "control"             -> "conout"
    [] turn = "conout" /\ UseConerr -> "conerr"
    [] OTHER                        -> "none"

Advance ==
  /\ turn' = IF NextPipe = "none" THEN "control" ELSE NextPipe
  /\ pc'   = IF NextPipe = "none" THEN "timer" ELSE "service"

NewRound(stop) ==
  /\ pc' = IF stop THEN "exiting" ELSE "service"
  /\ didSomething' = FALSE

(* NamedPipe::serviceIo of the control pipe: replies leave, requests come   *)
(* in, and a client that has gone away closes the pipe.                     *)
ServiceControl ==
  /\ pc = "service" /\ turn = "control"
  /\ \/ /\ control = "connected" /\ session = "open"
        /\ answers' = answers \o replies
        /\ replies' = <<>>
        /\ packets' = packets \o requests
        /\ requests' = <<>>
        /\ IF requests # <<>> \/ replies # <<>>
             THEN /\ pc' = "callback" /\ didSomething' = TRUE
                  /\ UNCHANGED turn
             ELSE Advance /\ UNCHANGED didSomething
        /\ UNCHANGED control
     \/ /\ control = "connected" /\ session = "freed"
        /\ control' = "closed"
        /\ pc' = "callback" /\ didSomething' = TRUE
        /\ UNCHANGED <<turn, requests, packets, replies, answers>>
     \/ /\ control = "closed"
        /\ Advance
        /\ UNCHANGED <<didSomething, control, requests, packets, replies,
                       answers>>
  /\ UNCHANGED <<exiting, elapsed, agentVars, pollVars, pipeVars, consoleVars,
                 clientVars, history>>

BugPollControlPipe ==          \* a closed control pipe goes unnoticed
  /\ pc = "callback" /\ turn = "control"
  /\ control = "closed" \/ packets = <<>>
  /\ Advance
  /\ UNCHANGED <<exiting, didSomething, elapsed, agentVars, pollVars, pipeVars,
                 controlVars, consoleVars, clientVars, history>>

(* pollControlPipe: the control pipe is closed, or no packet is left.       *)
PollControlPipe ==
  /\ pc = "callback" /\ turn = "control"
  /\ control = "closed" \/ packets = <<>>
  /\ exiting' = (exiting \/ control = "closed")
  /\ Advance
  /\ UNCHANGED <<didSomething, elapsed, agentVars, pollVars, pipeVars,
                 controlVars, consoleVars, clientVars, history>>

Packet(op) ==
  /\ pc = "callback" /\ turn = "control"
  /\ control = "connected" /\ packets # <<>>
  /\ Head(packets).op = op
  /\ packets' = Tail(packets)

(* handleStartProcessPacket; CreateProcessW succeeds or fails.              *)
StartProcess ==
  /\ Packet("spawn")
  /\ ~childHandle /\ ~closingOutputPipes
  /\ \/ /\ childHandle' = TRUE
        /\ child' = "running"
        /\ autoShutdown' = Head(packets).auto
        /\ exitAfterShutdown' = Head(packets).exit
        /\ replies' = Append(replies, "created")
     \/ /\ replies' = Append(replies, "failed")
        /\ UNCHANGED <<childHandle, child, autoShutdown, exitAfterShutdown>>
  /\ UNCHANGED <<loopVars, closingOutputPipes, pollVars, pipeVars, control,
                 requests, answers, output, scraped, wantsMouse, newTitle, events,
                 clientVars, history>>

(* Its two assertions: agentAssertFail ends the process.                    *)
StartProcessAsserts ==
  /\ Packet("spawn")
  /\ childHandle \/ closingOutputPipes
  /\ asserted' = TRUE
  /\ pc' = "exiting"
  /\ UNCHANGED <<turn, didSomething, exiting, elapsed, agentVars, pollVars,
                 pipeVars, control, requests, replies, answers, consoleVars,
                 clientVars, flushed>>

(* What a scrape adds to the queue of each pipe: all that is new.           *)
Scraped(p) == [i \in 1..(output[p] - scraped[p]) |-> "text"]

(* handleSetSizePacket: resizing scrapes both buffers.                      *)
SetSize ==
  /\ Packet("size")
  /\ outQueue' = [p \in OutPipes |-> outQueue[p] \o Scraped(p)]
  /\ scraped' = output
  /\ replies' = Append(replies, "sized")
  /\ UNCHANGED <<loopVars, agentVars, pollVars, conn, pending, rest, wire,
                 client, got, control, requests, answers, child, output,
                 wantsMouse, newTitle, events, clientVars, history>>

-----------------------------------------------------------------------------
Room(p) == IF Len(wire[p]) < Quota THEN Quota - Len(wire[p]) ELSE 0
HandedOver(p) == Least(Len(outQueue[p]), Room(p))
WriteEnds(p)  == rest[p] = <<>> \/ client[p] = "closed"

(* NamedPipe::serviceIo of an output pipe.  First a pipe with nothing to    *)
(* do: closed, not connected yet, or its write still pending.               *)
OutputIdle(p) ==
  \/ conn[p] = "closed"
  \/ conn[p] = "connecting" /\ client[p] = "none"
  \/ conn[p] = "connected" /\ pending[p] /\ ~WriteEnds(p)
  \/ conn[p] = "connected" /\ ~pending[p] /\ outQueue[p] = <<>>

(* The write fails, the pending one or the next.                            *)
OutputFails(p) ==
  /\ client[p] = "closed"
  /\ (pending[p] /\ rest[p] # <<>>) \/ outQueue[p] # <<>>

ServiceOutput(p) ==
  /\ pc = "service" /\ turn = p
  /\ \/ /\ OutputIdle(p)
        /\ Advance
        /\ UNCHANGED <<didSomething, conn, outQueue, pending, rest, wire>>
     \/ /\ ~OutputIdle(p)
        /\ didSomething' = TRUE
        /\ pc' = "callback" /\ UNCHANGED turn
        /\ \/ /\ OutputFails(p)
              /\ conn' = [conn EXCEPT ![p] = "closed"]
              /\ pending' = [pending EXCEPT ![p] = FALSE]
              /\ outQueue' = IF pending[p]
                               THEN outQueue ELSE [outQueue EXCEPT ![p] = <<>>]
              /\ rest' = [rest EXCEPT ![p] = <<>>]
              /\ UNCHANGED wire
           \/ /\ ~OutputFails(p)
              /\ conn' = [conn EXCEPT ![p] = "connected"]
              /\ wire' = [wire EXCEPT ![p] =
                            @ \o First(outQueue[p], HandedOver(p))]
              /\ rest' = [rest EXCEPT ![p] = From(outQueue[p], HandedOver(p))]
              /\ pending' = [pending EXCEPT ![p] =
                               Len(outQueue[p]) > HandedOver(p)]
              /\ outQueue' = [outQueue EXCEPT ![p] = <<>>]
  /\ UNCHANGED <<exiting, elapsed, agentVars, pollVars, client, got,
                 controlVars, consoleVars, clientVars, history>>

BugClosePending(queue) ==      \* a pended write counts as sent
  {p \in OutPipes : conn[p] = "connected" /\ queue[p] = <<>>}

BugCloseOnIoOnly(queue) ==     \* onPollTimeout does not close pipes
  {p \in OutPipes : /\ pc = "callback" /\ conn[p] = "connected"
                    /\ queue[p] = <<>> /\ ~pending[p]}

(* autoClosePipesForShutdown, called with what is queued.                   *)
Closable(queue) ==
  {p \in OutPipes : /\ conn[p] = "connected"
                    /\ queue[p] = <<>> /\ ~pending[p]}

BugConoutClosed == conn'["conout"] = "closed"   \* CONERR is forgotten
BugJustClosed ==                                \* the agent closed them all
  \A p \in OutPipes : conn'[p] = "closed" /\ conn[p] # "closed"
AllClosed == \A p \in OutPipes : conn'[p] = "closed"

autoClosePipes(queue, closing) ==
  LET closed == IF closing THEN Closable(queue) ELSE {} IN
    /\ conn' = [p \in OutPipes |->
                  IF p \in closed THEN "closed" ELSE conn[p]]
    /\ flushed' = flushed \cup closed
    /\ exiting' = \/ exiting
                  \/ /\ closing /\ exitAfterShutdown
                     /\ AllClosed

(* onPipeIo of CONOUT or CONERR.                                            *)
OnOutputIo ==
  /\ pc = "callback" /\ turn \in OutPipes
  /\ autoClosePipes(outQueue, closingOutputPipes)
  /\ Advance
  /\ UNCHANGED <<didSomething, elapsed, agentVars, pollVars, outQueue, pending,
                 rest, wire, client, got, controlVars, consoleVars, clientVars,
                 asserted>>

-----------------------------------------------------------------------------
(* onPollTimeout, cut where the child can get in between.  It reads the     *)
(* console's input mode,                                                    *)
UpdateInputFlags ==
  /\ pc = "timer" /\ elapsed
  /\ activateMouse' = (ForceMouse \/ wantsMouse)
  /\ scrapeContent' = ~closingOutputPipes
  /\ pc' = "exitcheck"
  /\ UNCHANGED <<turn, didSomething, exiting, elapsed, agentVars,
                 mouseModeEnabled, pipeVars, controlVars, consoleVars,
                 clientVars, history>>

(* looks whether the child has exited,                                      *)
CheckChildExit ==
  /\ pc = "exitcheck"
  /\ IF autoShutdown /\ childHandle /\ child = "exited"
       THEN childHandle' = FALSE /\ closingOutputPipes' = TRUE
       ELSE UNCHANGED <<childHandle, closingOutputPipes>>
  /\ pc' = "scrape"
  /\ UNCHANGED <<turn, didSomething, exiting, elapsed, autoShutdown,
                 exitAfterShutdown, pollVars, pipeVars, controlVars,
                 consoleVars, clientVars, history>>

(* and then scrapes, sets the terminal's mouse mode and closes the pipes.   *)
TitleItems ==
  IF scrapeContent /\ newTitle /\ conn["conout"] # "closed"
    THEN <<"title">> ELSE <<>>

ScrapedItems(p) == IF scrapeContent THEN Scraped(p) ELSE <<>>

BugMouseMode == activateMouse  \* it is left on at the end
MouseMode == activateMouse /\ ~closingOutputPipes

MouseItems ==
  IF mouseModeEnabled = MouseMode THEN <<>>
  ELSE IF MouseMode THEN <<"on">> ELSE <<"off">>

Polled ==
  [p \in OutPipes |->
     IF p = "conout"
       THEN Row(outQueue[p], TitleItems, ScrapedItems(p), MouseItems)
       ELSE outQueue[p] \o ScrapedItems(p)]

ScrapeAndClose ==
  /\ pc = "scrape"
  /\ outQueue' = Polled
  /\ IF scrapeContent THEN scraped' = output /\ newTitle' = FALSE
                      ELSE UNCHANGED <<scraped, newTitle>>
  /\ mouseModeEnabled' = MouseMode
  /\ autoClosePipes(Polled, closingOutputPipes)
  /\ elapsed' = FALSE
  /\ NewRound(exiting')
  /\ UNCHANGED <<turn, agentVars, activateMouse, scrapeContent, pending, rest,
                 wire, client, got, controlVars, child, output, wantsMouse,
                 events, clientVars, asserted>>

(* No time has passed: another round, or the wait.                          *)
RoundEnd ==
  /\ pc = "timer" /\ ~elapsed
  /\ IF didSomething
       THEN NewRound(exiting)
       ELSE pc' = "wait" /\ UNCHANGED didSomething
  /\ UNCHANGED <<turn, exiting, elapsed, agentVars, pollVars, pipeVars,
                 controlVars, consoleVars, clientVars, history>>

WaitSignaled ==
  \/ control = "connected" /\ (requests # <<>> \/ session = "freed")
  \/ \E p \in OutPipes : \/ conn[p] = "connecting" /\ client[p] # "none"
                         \/ pending[p] /\ WriteEnds(p)

WakeUp ==
  /\ pc = "wait"
  /\ elapsed \/ WaitSignaled
  /\ NewRound(exiting)
  /\ UNCHANGED <<turn, exiting, elapsed, agentVars, pollVars, pipeVars,
                 controlVars, consoleVars, clientVars, history>>

(* run() returns, or an assertion has failed: agentShutdown closes the      *)
(* console, which ends the agent and every process attached to it.          *)
AgentExit ==
  /\ pc = "exiting"
  /\ pc' = "exited"
  /\ conn' = [p \in OutPipes |-> "closed"]
  /\ control' = "closed"
  /\ pending' = [p \in OutPipes |-> FALSE]
  /\ rest' = [p \in OutPipes |-> <<>>] /\ outQueue' = rest'
  /\ requests' = <<>> /\ packets' = <<>> /\ replies' = <<>>
  /\ child' = IF child = "running" THEN "killed" ELSE child
  /\ UNCHANGED <<turn, didSomething, exiting, elapsed, agentVars, pollVars,
                 wire, client, got, answers, output, scraped, wantsMouse,
                 newTitle, events, clientVars, history>>

Loop ==
  \/ ServiceControl \/ PollControlPipe
  \/ StartProcess \/ StartProcessAsserts \/ SetSize
  \/ \E p \in OutPipes : ServiceOutput(p)
  \/ OnOutputIo
  \/ UpdateInputFlags \/ CheckChildExit \/ ScrapeAndClose
  \/ RoundEnd \/ WakeUp \/ AgentExit

-----------------------------------------------------------------------------
(* The clock, and the child in the console.                                 *)
Tick ==
  /\ ~elapsed /\ pc # "exited"
  /\ elapsed' = TRUE
  /\ UNCHANGED <<pc, turn, didSomething, exiting, agentVars, pollVars,
                 pipeVars, controlVars, consoleVars, clientVars, history>>

ChildWrites(p) ==
  /\ child = "running" /\ output[p] < MaxOutput
  /\ output' = [output EXCEPT ![p] = @ + 1]
  /\ UNCHANGED <<loopVars, agentVars, pollVars, pipeVars, controlVars, child,
                 scraped, wantsMouse, newTitle, events, clientVars, history>>

ChildConsole ==
  /\ child = "running" /\ events < MaxEvents
  /\ events' = events + 1
  /\ \/ wantsMouse' = ~wantsMouse /\ UNCHANGED newTitle
     \/ newTitle' = TRUE /\ UNCHANGED wantsMouse
  /\ UNCHANGED <<loopVars, agentVars, pollVars, pipeVars, controlVars, child,
                 output, scraped, clientVars, history>>

ChildExits ==
  /\ child = "running"
  /\ child' = "exited"
  /\ UNCHANGED <<loopVars, agentVars, pollVars, pipeVars, controlVars, output,
                 scraped, wantsMouse, newTitle, events, clientVars, history>>

(* The client: libwinpty's calls, one at a time, and the program that reads *)
(* the pipes.                                                               *)
Send(request) ==
  /\ session = "open" /\ control = "connected"
  /\ calls < MaxCalls /\ calls = Len(answers)
  /\ requests' = Append(requests, request)
  /\ calls' = calls + 1
  /\ UNCHANGED <<loopVars, agentVars, pollVars, pipeVars, control, packets,
                 replies, answers, consoleVars, session, history>>

NoChildYet == \A i \in 1..Len(answers) : answers[i] # "created"

ClientSpawns ==
  /\ SpawnOnce => NoChildYet
  /\ \E auto, exit \in BOOLEAN :
       Send([op |-> "spawn", auto |-> auto, exit |-> exit])

ClientResizes == Send([op |-> "size"])

ClientFrees ==
  /\ session = "open"
  /\ session' = "freed"
  /\ UNCHANGED <<loopVars, agentVars, pollVars, pipeVars, controlVars,
                 consoleVars, calls, history>>

ClientConnects(p) ==
  /\ client[p] = "none" /\ conn[p] = "connecting"
  /\ client' = [client EXCEPT ![p] = "open"]
  /\ UNCHANGED <<loopVars, agentVars, pollVars, conn, outQueue, pending, rest,
                 wire, got, controlVars, consoleVars, clientVars, history>>

ClientReads(p) ==
  /\ client[p] = "open" /\ wire[p] \o rest[p] # <<>>
  /\ LET all  == wire[p] \o rest[p]
         more == Least(Quota + 1, Len(all))
     IN /\ got' = [got EXCEPT ![p] = Append(@, Head(all))]
        /\ wire' = [wire EXCEPT ![p] = Tail(First(all, more))]
        /\ rest' = [rest EXCEPT ![p] = From(all, more)]
  /\ UNCHANGED <<loopVars, agentVars, pollVars, conn, outQueue, pending,
                 client, controlVars, consoleVars, clientVars, history>>

ClientReadsEof(p) ==
  /\ client[p] = "open" /\ conn[p] = "closed" /\ wire[p] = <<>>
  /\ client' = [client EXCEPT ![p] = "eof"]
  /\ UNCHANGED <<loopVars, agentVars, pollVars, conn, outQueue, pending, rest,
                 wire, got, controlVars, consoleVars, clientVars, history>>

ClientCloses(p) ==
  /\ client[p] = "open"
  /\ client' = [client EXCEPT ![p] = "closed"]
  /\ wire' = [wire EXCEPT ![p] = <<>>]
  /\ UNCHANGED <<loopVars, agentVars, pollVars, conn, outQueue, pending, rest,
                 got, controlVars, consoleVars, clientVars, history>>

ClientActs ==
  \E p \in OutPipes : ClientConnects(p) \/ ClientReads(p) \/ ClientReadsEof(p)

Environment ==
  \/ Tick
  \/ \E p \in OutPipes : ChildWrites(p) \/ ClientCloses(p)
  \/ ChildConsole \/ ChildExits
  \/ ClientSpawns \/ ClientResizes \/ ClientFrees
  \/ ClientActs

Next == Loop \/ Environment

(* The loop runs and time passes; a client that has opened a session        *)
(* connects to the output pipes and reads them.  The child need not exit    *)
(* and nobody need call anything.                                           *)
Fairness ==
  /\ WF_vars(Loop) /\ WF_vars(Tick)
  /\ \A p \in OutPipes : /\ WF_vars(ClientConnects(p))
                         /\ WF_vars(ClientReads(p))
                         /\ WF_vars(ClientReadsEof(p))

Spec == Init /\ [][Next]_vars
FairSpec == Spec /\ Fairness
-----------------------------------------------------------------------------
(* The end of the session is the agent's own doing: it has not lost its     *)
(* client and no assertion has failed.                                      *)
Undisturbed == session = "open" /\ ~asserted

(* The text among the items of a pipe; its pieces are all alike.            *)
TextCount(items) == Cardinality({i \in DOMAIN items : items[i] = "text"})
Texts(items) == [i \in 1..TextCount(items) |-> "text"]

(* End to end, each output pipe is a byte stream from the child to the      *)
(* client: in order, and with an end that comes after the child's and after *)
(* everything the child has shown.  The stream breaks when the client       *)
(* closes the pipe or the agent is torn down.                               *)
Shown(p) == [i \in 1..output[p] |-> "text"]

Status(p) ==
  IF client[p] = "closed" \/ (conn[p] = "closed" /\ p \notin flushed)
    THEN "broken"
  ELSE IF client[p] = "eof" THEN "eof"
  ELSE IF child = "exited" /\ autoShutdown THEN "ended" ELSE "open"

ConoutStream == INSTANCE ByteStream WITH
  Byte <- {"text"}, sent <- Shown("conout"),
  received <- Texts(got["conout"]), status <- Status("conout")

ConerrStream == INSTANCE ByteStream WITH
  Byte <- {"text"}, sent <- Shown("conerr"),
  received <- Texts(got["conerr"]), status <- Status("conerr")

OutputsAreByteStreams == ConoutStream!Spec /\ ConerrStream!Spec

(* The last word on the mouse mode among the items is "on".                 *)
MouseLeftOn(items) ==
  \E i \in DOMAIN items :
    items[i] = "on" /\ \A j \in i..Len(items) : items[j] # "off"

(* The comment in onPollTimeout: mouse mode is off before CONOUT closes, so *)
(* the terminal of a client that has read to the end is never left in it.   *)
MouseOffAtEof ==
  client["conout"] = "eof" /\ "conout" \in flushed => ~MouseLeftOn(got["conout"])

(* EXIT_AFTER_SHUTDOWN: an agent that ends by itself has written everything *)
(* the child has shown to every pipe whose client is still there.           *)
ExitsFlushed ==
  pc = "exited" /\ Undisturbed =>
    \A p \in OutPipes : client[p] # "closed" =>
      TextCount(got[p] \o wire[p]) = output[p]

-----------------------------------------------------------------------------
Item    == {"text", "title", "on", "off"}
Request == [op : {"size"}] \cup [op : {"spawn"}, auto : BOOLEAN, exit : BOOLEAN]

TypeOK ==
  /\ pc \in {"service", "callback", "timer", "exitcheck", "scrape", "wait",
             "exiting", "exited"}
  /\ turn \in {"control"} \cup OutPipes
  /\ {didSomething, exiting, elapsed, childHandle, autoShutdown,
      exitAfterShutdown, closingOutputPipes, mouseModeEnabled, activateMouse,
      scrapeContent, wantsMouse, newTitle, asserted} \subseteq BOOLEAN
  /\ conn \in [OutPipes -> {"connecting", "connected", "closed"}]
  /\ client \in [OutPipes -> {"none", "open", "eof", "closed"}]
  /\ {outQueue, rest, wire, got} \subseteq [OutPipes -> Seq(Item)]
  /\ pending \in [OutPipes -> BOOLEAN]
  /\ control \in {"connected", "closed"} /\ session \in {"open", "freed"}
  /\ {requests, packets} \subseteq Seq(Request)
  /\ {replies, answers} \subseteq Seq({"created", "failed", "sized"})
  /\ child \in {"none", "running", "exited", "killed"}
  /\ {output, scraped} \subseteq [OutPipes -> Nat]
  /\ {events, calls} \subseteq Nat
  /\ flushed \subseteq OutPipes

(* The inductive invariant behind the end of a session.  Shutting down      *)
(* begins with the child's exit; the poll that notices it scrapes once more *)
(* and turns the mouse off, and from then on nothing is new.                *)
ChildKnown ==
  /\ ~childHandle /\ ~closingOutputPipes => child = "none"
  /\ closingOutputPipes => child = "exited" /\ autoShutdown

NothingNew == scraped = output /\ ~mouseModeEnabled

LastScrape ==
  /\ pc = "exitcheck" => scrapeContent \/ closingOutputPipes
  /\ closingOutputPipes =>
       NothingNew \/ (pc = "scrape" /\ scrapeContent)

(* A pipe is closed with all its buffers empty, or because its client has,  *)
(* or when the agent is torn down.                                          *)
PipeState(p) ==
  /\ pending[p] => conn[p] = "connected"
  /\ rest[p] # <<>> => pending[p]
  /\ Len(wire[p]) <= Quota
  /\ client[p] = "eof" => conn[p] = "closed" /\ wire[p] = <<>>
  /\ p \in flushed => /\ closingOutputPipes /\ NothingNew
                      /\ conn[p] = "closed" /\ outQueue[p] = <<>>
  /\ conn[p] = "closed" => \/ p \in flushed \/ client[p] = "closed"
                           \/ pc = "exited" /\ ~Undisturbed

Ending ==
  /\ control = "closed" => session = "freed" \/ pc = "exited"
  /\ exiting \/ pc \in {"exiting", "exited"} =>
       ~Undisturbed \/ \A p \in OutPipes : conn[p] = "closed"

(* What the scrapes have seen is in the pipe's buffers or with the client,  *)
(* and the last word on the mouse mode is the one that holds.               *)
InPipe(p) == Row(got[p], wire[p], rest[p], outQueue[p])
Lossless(p) == client[p] # "closed" /\ (pc # "exited" \/ p \in flushed)

Accounted(p) ==
  /\ TextCount(InPipe(p)) <= scraped[p] /\ scraped[p] <= output[p]
  /\ Lossless(p) => TextCount(InPipe(p)) = scraped[p]
  /\ Lossless(p) /\ p = "conout" =>
       (MouseLeftOn(InPipe(p)) <=> mouseModeEnabled)

IInv ==
  /\ TypeOK /\ ChildKnown /\ LastScrape /\ Ending
  /\ \A p \in OutPipes : PipeState(p) /\ Accounted(p)

(* AUTO_SHUTDOWN: when the child exits, the client sees the end of every    *)
(* pipe it keeps reading, unless it frees the session first.                *)
ChildExitReachesClient ==
  \A p \in OutPipes :
    child = "exited" /\ autoShutdown ~>
      client[p] \in {"eof", "closed"} \/ ~Undisturbed

(* EXIT_AFTER_SHUTDOWN: and then the agent exits, whether the client reads  *)
(* its pipes to the end or closes them.                                     *)
ChildExitEndsAgent ==
  child = "exited" /\ autoShutdown /\ exitAfterShutdown ~> pc = "exited"

(* winpty_free ends the agent and the processes in its console.             *)
FreeEndsAgent ==
  session = "freed" ~> pc = "exited" /\ child # "running"
=============================================================================
