# winpty in TLA+

winpty gives a Windows console program a Unix-style terminal. A *client* links
`winpty.dll`; `winpty_open` starts an *agent* process with a hidden console; the agent
runs the child program in that console, scrapes the console's screen buffer and turns
what changed into a stream of text and escape codes on a named pipe, and turns the
stream of keys it reads from another pipe into console input records. The *adapter*
`winpty.exe` is a client that connects a Cygwin terminal to such a session.

This directory specifies the parts of winpty in which several actors meet - processes,
threads, the kernel's pipes, a timer, a signal handler - and checks and proves what has
to hold whatever their order. Source references are relative to the repository.

    tlc -workers 2 -config NamedPipeConout.cfg MCNamedPipe     (model checking)
    tlapm LibwinptyProofs.tla                                  (proofs)

The modules `...Proofs` hold the theorems; section 4 says what they show.

`PROJECT.json` lists components, runs, theorems, hazards and, for every definition, the
lines it translates.

## 1. Inventory

| Part | State | Operations | Talks to |
|---|---|---|---|
| `EventLoop` (agent) | pipes, poll interval, `m_exiting` | `run`: service every pipe, `onPipeIo`, `onPollTimeout`, wait | `NamedPipe`, `Agent` (callbacks), the kernel |
| `NamedPipe` (agent) | `m_inQueue`, `m_outQueue`, two workers with one overlapped I/O each, handle, connect event | `serviceIo`, `read`, `write`, `bytesToSend`, `closePipe`, `openServerPipe`, `connectToServer` | the client's end, through the kernel |
| `Agent` | child handle, auto-shutdown and exit flags, `m_closingOutputPipes`, title | the four control requests, `pollControlPipe`, `pollConinPipe`, `onPollTimeout`, `autoClosePipesForShutdown`, destructor | pipes, `Scraper`, `Terminal`, `ConsoleInput`, the child |
| `Scraper`, `ConsoleLine` | sync marker and counter, dirty window, virtual top of the buffer, line contents | direct and scrolling scrape, `resizeWindow`, clear | Win32 console, `Terminal` |
| `Terminal` | remote cursor line, colour, cursor visibility, mouse mode | `reset`, `sendLine`, cursor moves, `enableMouseMode` | CONOUT |
| `ConsoleInput`, `InputMap` | byte queue, escape timeout, DSR outstanding, mouse button state, input mode flags | `writeInput`, `scanInput`, `flushIncompleteEscapeCode`, `updateInputFlags` | Win32 console, Agent (`sendDsr`) |
| `Win32Console`, `Win32ConsoleBuffer`, `ConsoleFont` | frozen flag, selection state | freezing, reading, writing and resizing buffers | the kernel |
| libwinpty, calls | `winpty_t`: mutex, control pipe, agent handle, timeout | `winpty_spawn`, `winpty_set_size`, `winpty_get_console_process_list`, `winpty_free` | the agent, over the control pipe |
| libwinpty, `winpty_open` | temporary desktop, window station | start the agent (directly or via `--create-desktop`), connect, verify the client's process ID, first packet | the agent, the OS |
| Packets (`Buffer.cc`) | a byte string and a read position | `put...`, `get...`, `assertEof` | libwinpty and the agent |
| Adapter (`winpty.exe`) | wake-up pipes, completion flags, window size, saved terminal modes | arguments, environment, command line, main loop, input and output handler threads, SIGWINCH handler | libwinpty, terminal, the agent's data pipes |
| Debugging | a trace pipe | `trace`, debug server | - |

How they interact: the agent is one thread that polls; client and kernel run between any
two of its system calls. The client calls from any of its threads, one request at a time
under a mutex, each I/O with a timeout. Data pipes carry bytes without acknowledgement.
The agent learns of the child's exit only by looking at its timer's next tick, and of
the client's end only by the control pipe breaking. The adapter has one thread per
stream and a main thread woken through a self-pipe by handlers and by SIGWINCH.

What is hard, and the property that must hold:

* **Pipes.** A byte moves queue → worker buffer → kernel → peer in separate steps and
  must not be lost, repeated or reordered; an empty `bytesToSend()` must mean that
  closing the pipe loses nothing; the loop must not sleep while there is something to
  tell its owner, nor wait without a handle for ever.
* **Shutdown.** The child may write and exit anywhere in a loop round. All it wrote must
  reach the client, followed by the end of the pipe; not before the client has
  connected; with mouse mode off; and the agent must go when told to, or when its client
  goes.
* **Control channel.** Threads must not read one another's replies, also not after a
  time-out while a reply is on its way; no call hangs on an agent that hangs or dies;
  packets cut anywhere, and longer than any buffer, come out whole.
* **Adapter.** No wake-up is lost between `reset()` and the checks; every join returns;
  all output is on the terminal before `winpty_free` kills the agent; the console gets
  the terminal's last size.
* **Arguments and terminal modes.** The child gets the arguments the user gave, after
  quoting and splitting; three descriptors may be one terminal, whose mode must come
  back.
* **Scraper.** Where the buffer has scrolled to is inferred from a marker the child may
  scroll away or overwrite between scrapes; on Windows 10 it writes while it is read.
  The terminal must show every line once, in order, as it is. A resize is a row of calls
  each of which fails if the window does not fit the buffer.
* **Input.** Escape sequences and UTF-8 cut anywhere, a timeout that decides an
  incomplete one, DSR replies in between; a double click is a matter of four reports.
* **winpty_open.** Several steps that may fail after a process-wide state (the window
  station) was changed, with one or two agents running that may hang or die.

The complete list, with the line where each hazard bites, is in `PROJECT.json` under
`hazards`; those without a property say why.

## 2. Modules

| Module | Models | Source |
|---|---|---|
| `Streams` | the few stream operators the pipes use: a prefix, a suffix, a row of buffers | - |
| `ByteStream` | abstract: bytes arrive in order, the end after all of them, or the stream is broken | - |
| `NamedPipe` | one pipe, its workers, the loop and the peer | `agent/NamedPipe.cc`, `EventLoop.cc` |
| `StreamLemmas`, `NamedPipeProofs` | lemmas on streams, minima and induction, for all the proofs; the pipe's proofs | |
| `Agent`, `AgentProofs` | a session from `winpty_spawn` to the agent's exit: loop, control pipe, CONOUT, CONERR, child, client; proofs | `agent/Agent.cc` |
| `RpcPromise` | abstract: what a shared `winpty_t` promises its threads | - |
| `Rpc` | client threads, mutex, pended I/O, timeouts, the agent's end | `libwinpty/winpty.cc` |
| `ConsoleFont` | the choice of a font, as functions | `agent/ConsoleFont.cc` |
| `OpenSession` | `winpty_open` and the start of one or two agents, up to the first packet | `winpty.cc`, `shared/BackgroundDesktop.cc`, `agent/main.cc`, `Agent.cc` |
| `Libwinpty`, `LibwinptyProofs` | composition: `winpty_open`, then `Rpc` on what it returns; proofs, of the calls, of `winpty_open`, of the font and of the composition | |
| `PacketBuffer` | what is put into a packet and got from it, requests and replies | `shared/Buffer.cc`, `winpty.cc`, `Agent.cc` |
| `ControlPackets`, `ControlPacketsProofs` | the packets, byte by byte, over the input worker and its limit; proofs | `Agent::pollControlPipe`, `NamedPipe.cc` |
| `Unicode` | UTF-8 and UTF-16, as functions | `agent/UnicodeEncoding.h` |
| `InputMap` | the table of keys and its look-up | `agent/DefaultInputMap.cc`, `InputMap.cc` |
| `ConsoleInput`, `ConsoleInputProofs` | bytes to input records, with terminal, child and time; proofs | `agent/ConsoleInput.cc`, `ConsoleInputReencoding.cc` |
| `Terminal` | lines, colours, cursor as escapes, and a terminal that obeys them | `agent/Terminal.cc` |
| `Scraper`, `ScraperProofs` | console, child, scraper, resizing, drawn by `Terminal`; proofs | `agent/Scraper.cc`, `ConsoleLine.cc`, `Win32Console*.cc` |
| `UnixAdapter`, `UnixAdapterProofs` | the adapter's threads, signal, wake-ups; proofs, of `AdapterMain` too | `unix-adapter/` |
| `AdapterMain` | `main()` around them: arguments, environment, command line, terminal modes | `unix-adapter/main.cc` |
| `MC...` | constants for TLC | |

Definitions carry the code's names where there is one. A definition named `Bug...` is
the definition below it with a mistake someone could make in that code - a guard
dropped, a case left out. No specification uses it; putting it in place of the correct
one makes the property it is listed with fail (`mutants` in `PROJECT.json`), which shows
that the property says something about this code and that the bounds are large enough
for it to be violated.

### NamedPipe

A round of `EventLoop::run` is cut at every system call: `ServiceBegin` (is the pipe
closed, still connecting, just connected), the `Input*` and `Output*` actions (one call
of `GetOverlappedResult`, `ReadFile` or `WriteFile` each, in `IoWorker::service`),
`ServiceEnd` (error → `closePipe`), `OnPipeIo`, `OnPollTimeout`, `RoundEnd` (go round
again or wait), `WakeUp`. The owner's callbacks are `Handler`: read some input, write
something, close when flushed. A pended write is split into what the kernel has taken
(in `wireOut`) and `outRest`; a pended read has a buffer the kernel fills at any time.
The peer connects, reads, writes, sees the end and closes at any time. `Reading`,
`Writing`, `Server`, `HasTimer` and `ExitOnClose` make it any of the agent's pipes:
CONOUT/CONERR (server, writing, timer), CONIN (server, reading), the control pipe
(client, duplex) and the control pipe of the `--create-desktop` agent, which has no
timer. `written`, `delivered`, `peerSent`, `consumed` and `untold` are history, for
stating properties.

Abstracted: a byte is an element of `Byte`; `kIoSize`, the queue limit and the kernel's
quota are parameters. The kernel is modelled from its use: a write that does not fit
pends and is taken as the peer makes room; when the peer goes, pended and later I/O
fails, except that what is already in the reader's direction can still be read.

### Agent

The same loop over several pipes in the order of `m_pipes`, with a pipe reduced to
queue, one pended write and kernel buffer (one `serviceIo` is one step: `NamedPipe` is
where its inside is examined), so that the steps here are those of `Agent.cc`:
`ServiceControl`/`PollControlPipe` with the handlers, `ServiceOutput` and `OnOutputIo`,
and `onPollTimeout` in three parts between which child and client run -
`UpdateInputFlags`, `CheckChildExit`, `ScrapeAndClose` (title, scrape, mouse mode,
auto-close), all of which are in one action, as in the code they follow the exit check
without a way out. `StartProcessAsserts` is the failed assertion of a second spawn.

### Rpc, RpcPromise, OpenSession, Libwinpty

A thread's call is `Begin`, `Enter` (mutex and `RpcOperation`), `Write`,
`WriteCompletes`, `ReadSize`, `ReadPayload`, or at any wait `AgentLost` or `TimesOut`,
both through `Fails`: `~RpcOperation` closes the pipe. So does a reply that cannot be used:
one that is too long for the caller's list, or tells of a process whose handle cannot be
duplicated (`stealHandle`). A packet is the call it belongs to, which is what the code cannot see and the property is about. The agent reads,
handles and writes one part at a time and may stop or die between any two. `RpcPromise`
says: one call is carried out at a time, during the call, and a call that fails takes
the link down for good. `CallStatus` and `Link` are the refinement mapping.

`OpenSession` follows `winpty_open` call by call: `DesktopPlan` decides among no desktop
of its own (Windows 7 and later, unless a debug flag asks for one), one made by the
client's process (`GetStation` to `NameDesktop`) and one made by a first agent
(`--create-desktop`, the role `helper`); then `CreateControlPipe`, `StartAgentProcess`,
`ConnectControlPipe`, `VerifyPipeClientPid` and the packets read, for either role. Each
call may fail, and leads to `OpenFails`, where the destructors run. The agents go their
own way (`ProcessAttaches` to `ProcessExits`), hang or die at any point; a process
started on a desktop that is no more does not come up. `AgentSetsFont` picks any outcome
of `ConsoleFont`'s functions for the window of the columns asked for: the tables of
faces and sizes are the code's, what the operating system has installed is any subset of
the faces, recorded with the font, so that `SmallFontFits` can say which face it must be
of.

`Libwinpty` runs `Rpc` after a `winpty_open` that succeeded. When the winpty_t exists,
the variables of `OpenSession` that nothing reads any more are set to one value, so that
the two state spaces add instead of multiply.

### PacketBuffer, ControlPackets

Packets are encoded and decoded field by field with tags and lengths, the environment
block split into strings, `assertEof` and `DecodeError` included. The base of a byte and the
widths of numbers are constants (a `wchar_t` is one byte); the run takes base 8 and
widths of one and two, which keeps a packet near twenty bytes. The stream is cut into reads of at most `IoSize`;
`readBufferSize` is raised when a packet is longer; reading stops at it. The client here
does not wait for a reply before its next request - the real one does, but the agent's
code does not rely on it. An environment block that is not doubly terminated is a decode
error. `IsRequest` says which requests there may be: numbers of their types, texts of any
length, packets whose size is a number. `CodecIsFaithful` says of every request and every
reply that what is read out of its packet is what was put in, and that its first bytes
are its length; it is proved (`CodecFaithful`), and the proofs about the stream rest on it.

### ConsoleInput, InputMap, Unicode

The input is bytes. `Type` puts a unit's bytes on the wire, `pollConinPipe` takes any
first part of them (a read may be cut anywhere) and does all of `writeInput`: flags,
`doWrite`, `scanInput`, the DSR request. `PollTimeout` is `flushIncompleteEscapeCode`
with `updateInputFlags`; `Tick` the clock; `SetMode` the child's; `Reply` the terminal's
answer, which comes as bytes like any other. What is typed and how the terminal answers
is an element of `Sessions`, a script and a set of replies. `scanInput` tries in the code's order DSR,
mouse reports in three encodings, the key map, single characters, each of which may
answer *incomplete*. `InputMap` builds the default table from the same rows and
modifiers as `DefaultInputMap.cc` - the whole table, not an excerpt - and looks up as
the prefix tree does: the longest key, and whether it could go on. What children get
that asked for escape sequences is `EscapeChars` (`ConsoleInputReencoding.cc`). A key is
a name, a modifier state a set. `torn`, `rushed` and `unheard` are history: the timeout
came inside a unit; a unit was typed right behind one with which longer ones begin
(Escape and x are Alt-x to any program); a mouse report came with mouse input off.
`merged` is the same as `rushed` with a DSR reply: it came right behind such a unit, still
unread, and both read as one key. The coordinates of a mouse report are cut to a `SHORT`
(`Short`), as in the code. A report with mouse input off makes no record, but the buttons and the first click follow it, so that when mouse
input is on again a double click may be recorded whose first press was not.

### Terminal, Scraper

The console is a buffer of named cells that scrolls, silently losing its first line,
once it is full; the child writes, moves its cursor, clears the screen, and opens and
closes a full-screen buffer at any step of a scrape. A scrape is cut where the child can
run in between: `ReadInfo`, `SetMode` (direct or scrolling), `Direct`, `ScrollFrozen`,
or tentatively `FindMarker`, `ReadLines`, `CheckInfo`, `CheckMarker`, from each of which
`StartOver` goes back frozen. A resize is `EraseForResize`, `ShrinkWindow`,
`ResizeBuffer`, `ExpandWindow`, each a console call with the conditions under which the
real one fails; only the last is made with the console frozen, so that the child may act
after each of the others. The functions between (`Prepare`, `FollowMarker`, `Send`,
`ScrapeDirect`) take and return a *round*: the console, the scraper's members and the
terminal. `Terminal` both produces the escapes of `sendLine`, `moveTerminalToLine`,
`outputSetColor` and applies them to a terminal of rows, SGR state and cursor. The child
types (`Typing`) character by character. `ReadsInsideBuffer` is
about rounds that are not `misled`; see `ScraperStale` below for the others.

External assumptions, each seen in the code or in `misc/`: setting the buffer size fails
only if it is smaller than the window (`misc/BufferResizeTests.cc`); a buffer made
narrower cuts its lines; a terminal is as wide as the size the client set, even while the
console is not yet, and erases to its own right edge, in the current colour; its
scrolled-in lines are blank, and it cannot go up beyond its first row. The child changes screen buffers
only between scrapes. History tells where the scraper cannot know better: `missed`
(lines lost before a marker was in the buffer), `misled` (the screen cleared inside a
round), `erased` (lines above the window, erased by a resize), `term.stopped` (the
terminal could not go up), `blind` (`reset` forgets a hidden cursor).

### UnixAdapter, AdapterMain

The main thread (`Main...`), the input handler (`Input...`) and one output handler for
each pipe are cut at every system call and every access to a shared flag; SIGWINCH
(`Resize`) may come between any two. A `WakeupFd` is whether its pipe holds a byte:
`set` makes it readable, `reset` drains it. The agent, the child and the terminal are
environment: the pipes have the behaviour `Agent` shows. `Garbage` is the size in an
uninitialized `sz2`.

`AdapterMain` puts `main()` around it: `Arguments`, `Open`, `Connect`, `CommandLine`,
`Spawn`, `SaveModes`/`SetMode`/`ModesSet`, `Threads`, `RestoreMode`, `Return`, and
`ShowKeys` for `--showkey`. Texts are sequences of characters here, since quoting is
about characters; `CommandLineToArgv` is the reader of the command line as Microsoft's C
library has it, a state (the arguments so far, the backslashes seen, inside quotes or
not) folded over the characters. How the program is started - arguments, PATH, files, environment,
descriptors - is an element of `Starts`, forgotten once used, so that the many starts do
not multiply the threads' states.

## 3. What the runs check

| Run | Bounds | States | Shows |
|---|---|---|---|
| `NamedPipeConout` | 4 bytes of 2 kinds, I/O 2, quota 1 | 6.8 k (by symmetry) | `OutputConserved`: what was written is the row delivered, kernel, pended, queued. `FlushedMeansHandedOver`. `ImplementsByteStream`: the pipe refines `ByteStream`. |
| `NamedPipeControl` | 3 bytes each way, I/O 1, limit 2, quota 1 | 210 k | Input conserved and bounded; `NeverSleepsOnNews`: whatever the kernel has for a loop at its wait signals a handle it waits for; `NeverWaitsBlind` (the loop's `ASSERT`); everything delivered, the owner exits when the peer is gone - without a timer to hide a lost wake-up. |
| `AgentSession` | CONOUT and CONERR, 1 write each, 1 title or mode change, 1 spawn, quota 0 | 3.0 M | `OutputsAreByteStreams`: both refine `ByteStream` from child to client. `MouseOffAtEof`, `ExitsFlushed`. |
| `AgentLive` | CONOUT, 2 requests of any kind, also a forbidden second spawn | 166 k | The client sees the end after the child exits; the agent exits; `winpty_free` ends agent and child. |
| `RpcThreads` | `winpty_open` on 5 systems, 5 code pages, 4 widths; 2 threads, 2 calls each, timeout 1 tick | 255 k | `OpenLeavesNoTrace`, `StartsOnItsDesktop`, `SmallFontFits`, `NoAgentLeftBehind`; then `InFlight`, `ImplementsPromise` and `CallsReturn`. |
| `ControlPackets` | 5 requests of 3 kinds, buffer 9, reads of 4, quota 6 | 115 k | `PacketsIntact`: each request is carried out once, in order, with the operands that were put in, and each reply read as written. `EveryPacketHandled`. |
| `ConsoleInput` | 2 units of 14 kinds with replies from rows 1 and 2, 3 mouse scripts, modifiers 2, 3, 5, 1 change of mode | 352 k | `KeysAsTyped`, `DsrLatch`, `DoubleClickIsTwoPresses`, `InputDrains`. |
| `Scraper` | buffer of 6 lines, windows to 3 x 3, 4 steps of the child, 1 resize, old and new console | 3.6 M | `ShowsPaper`: the terminal shows each line once, in order, in readable colours of the right background. `CursorShown`, `ResizeFits`, `ReadsInsideBuffer`. |
| `UnixAdapter` | 192 starts; CONOUT, 2 resizes, 1 output, 1 input | 408 k | `ChildStartsAsAsked`, `TerminalRestored`; no lost wake-up, every join returns, complete output, resizes arrive. |
| `RpcShortList` | 1 call | - | Violation: see below. |
| `ScraperStale` | 3 steps of the child | - | Violation: see below. |
| `UnixAdapterHangUp` | hang-up at any point | - | Violation: see below. |

Why the bounds are enough: in `NamedPipe` a pended write needs more bytes than the
quota, a queue behind it needs more than that, and a second write cut at `IoSize` needs
four; the input limit needs the limit plus one read. In `Agent` one write of the child
in every place of a round tells the final scrape from the earlier ones; a second adds no
new order of scrape, exit and close. With quota 0 every write pends until it is read,
with quota 1 (`AgentLive`) text and escapes that do not fit do. In `Rpc` a stale reply
takes two calls, confusion of threads two threads, and a timeout of one tick elapses at
every wait. The code pages and systems of `RpcThreads` have one of every branch of
`FaceAndTable`, the widths one of every branch of the score. Packets shorter and longer
than the buffer and than one read are all there, in an order that leaves the limit
raised before a short packet. In `ConsoleInput` two units make every kind of join, three
are needed only by a double click. In `Scraper` a buffer of six lines scrolls after two
writes, so that four leave room for a marker to be placed, moved, scrolled away or
overwritten. A `ConsoleModes` of `{}` is the usual console; attributes other than the
colours are masked as there. In `UnixAdapter` two resizes allow one to arrive while
another is being handled; arguments of up to three characters over letter, blank, quote
and backslash have every transition of the quoting. For every property there is a
mistake in the code (`mutants`) that the run's bounds are large enough to show.

`CHECK_DEADLOCK FALSE` stands in the configurations of systems that end - the loop,
agent or adapter exits, calls, keys and steps are used up. `NamedPipeConout` does not
end and is checked for deadlock.

### Where code and documentation differ

* **A short process list costs the session** (`RpcShortList`). With more processes than
  the caller's array holds, the list is not decoded and `assertEof` throws;
  `RpcOperation` then closes the control pipe, which ends the agent, although the reply
  was read whole.
* **A scrape that starts over uses the old window** (`ScraperStale`). `scrapeBuffer` has
  read the window's place before the tentative scrape; when that finds itself out of
  step, the frozen one is given the same `info`. A CLS in between makes it write the
  marker into lines that are shown. The proof about `Scraper` led to more of it: when
  such a round ends in a resize, the marker stays inside the window, and a scroll later
  the first line to be read is negative, against the `ASSERT` of `Scraper.cc:564`. TLC
  reaches that in six steps of the child, two more than the run has; `ReadsInsideBuffer`
  and its theorem therefore speak of the rounds that are not `misled`.
* **An unchecked ioctl** (`UnixAdapterHangUp`). After a hang-up `ioctl(TIOCGWINSZ)`
  fails and the adapter may pass an uninitialized size to `winpty_set_size`, whose
  assertion then aborts it.

Also seen while modelling, without a run of their own. `winpty.h:108` speaks of the time
to wait "for any given agent RPC request", but each of a request's write and two reads
may take that long (`TimesOut` starts anew at every wait). F3 with a modifier, `ESC [ 1
; n R`, has the form of a DSR reply and is swallowed. Enter on the numeric pad in the
rxvt form, `ESC [ M` with two more bytes behind, reads as a mouse report. The run's
scripts are chosen beside these two, which `KeysAsTyped` would otherwise find. A lone
Escape with the DSR reply of a cursor in the first row behind it, `ESC ESC [ 1 ; 5 R`, is
Ctrl-Alt-F3: the reply is typed as a key, `m_dsrSent` stays set, no request is ever made
again, and from then on an incomplete sequence is ended by the timeout alone, against the
supposition of `Agent.cc:254-257` that an outstanding request will be answered. The run
`ConsoleInput` has this reply and reaches that state: `merged` marks it, and `DsrLatch`
says that there is no other way into it, and no other way the latch can be wrong. Where the behaviour is odd but no line of the
repository promises another, the hazard's `note` says so.

### Fairness

`NamedPipe`, `Agent`: weak fairness of the loop as a whole - it is one thread, its every
step is enabled until taken - and of time and of a client that connects and reads, for
the properties about what such a client gets. Nothing is assumed of the child (it need
not exit), and neither of clients' calls. `Libwinpty`: the client's threads are
scheduled and the wait's clock runs. For `NoAgentLeftBehind`, weak fairness of
`OpenAgents`, which an agent that hangs does not satisfy: one that hangs in a call of
the operating system outlives a failed `winpty_open`, and nothing in the code could end
it. While calls are made nothing is assumed of the agent. Weak fairness suffices for the
mutex since each thread makes finitely many calls. `ControlPackets`: the loop, and a
client that writes and reads. `ConsoleInput`: the poll timer and the clock; the terminal
need not answer. `Scraper` has safety properties only. `UnixAdapter`: every thread; the
agent writes its output, closes its pipes after the child and exits after `winpty_free`,
which `Agent` establishes (`ChildExitReachesClient`, `FreeEndsAgent`). In
`AdapterMain` the main thread is fair from the registration of the signal handler on.

## 4. What is proved

By TLAPS, for every value of the constants that satisfies the named assumptions:

| Module | Theorem | Property |
|---|---|---|
| `NamedPipeProofs` | `Invariance`, `TypeCorrect`, `Conservation`, `InputIsConserved`, `InputIsBounded` | `TypeOK`, `OutputConserved`, `InputConserved`, `InputBounded` |
| | `FlushedIsHandedOver`, `EofIsTheEnd` | `FlushedMeansHandedOver`; a peer at the end has everything |
| | `AwakeInvariance`, `SleepsOnNoNews`, `WaitsForSomething` | `NeverSleepsOnNews`, `NeverWaitsBlind` |
| | `StreamIsImplemented` | `ImplementsByteStream`, a refinement |
| `AgentProofs` | `SessionInvariance`, `TypeCorrect`, `MouseIsOffAtEof`, `AgentExitsFlushed` | `TypeOK`, `MouseOffAtEof`, `ExitsFlushed` |
| | `OutputIsAStream`, `OutputsAreStreams` | `OutputsAreByteStreams`, a refinement from child to client |
| `ControlPacketsProofs` | `CodecFaithful` | requests, replies and environments are read as they were written, whatever they hold |
| | `PacketsInvariance`, `PacketsStayIntact`, `AgentKeepsReading` | `PacketsIntact`; a waiting agent has a read outstanding |
| `LibwinptyProofs` | `RpcInvariance`, `OnlyTheCurrentCall`, `PromiseIsKept` | `InFlight`; `ImplementsPromise`, a refinement |
| | `OpenInvariance`, `NoTraceIsLeft`, `DesktopIsKept`, `FontIsRight` | `OpenLeavesNoTrace`, `StartsOnItsDesktop`, `SmallFontFits` |
| | `LibInvariance`, `CallsAreRpc`, `LibIsSafe`, `LibKeepsPromise` | the same and Rpc's, of the composition `LibSpec` |
| `UnixAdapterProofs` | `AdapterInvariance`, `NoWakeupIsLost`, `ShutdownIsHeard`, `OutputIsComplete` | `NoWakeupLost`, `InputHearsShutdown`, `OutputComplete` |
| | `MainInvariance`, `MainLosesNoWakeup`, `MainShowsAll`, `ModeIsRestored` | the same of `AdapterSpec`, and `TerminalRestored` |
| | `ChildIsAskedFor` | `ChildStartsAsAsked`, in which the quoting of arguments is undone by their splitting |
| `ScraperProofs` | `ScraperInvariance`, `ResizeIsFitting`, `ReadsAreInside` | `ResizeFits`, `ReadsInsideBuffer` |
| | `CursorInvariance`, `CursorIsRight` | `CursorShown` |
| `ConsoleInputProofs` | `MouseInvariance`, `DoubleClickIsRight` | `DoubleClickIsTwoPresses` |

**Assumptions.** `SizesAssumption`, `ModeAssumption`, `AgentAssumption`,
`PacketsAssumption`, `AdapterAssumption`, `RpcAssumption`: sizes are numbers, positive
where the code divides the stream by them, a pipe is read or written, `NoThread` is no
thread. `TimerAssumption`: a loop has a poll timer, or a pipe that is read and whose end
ends the loop - the only loop without a timer is `CreateDesktopLoop`. `OpenAssumption`:
a window has columns (`winpty_config_set_initial_size` asserts it). `InputAssumption`: what is
typed and replied are units, whose bytes are bytes. `ScraperAssumption`:
sizes are positive (libwinpty asserts it) and a window with the marker and its margin is
lower than the buffer (`Agent::resizeWindow` cuts it to `MAX_CONSOLE_HEIGHT`).
`StartsAssumption`: the Windows path of a program holds no quote, which no Windows name
may, and does not end in a backslash, as it is not a directory's.
`CodecAssumption`: a byte has room for the three tags, numbers have a width, and what
the system returns (handles, errors, process lists) is of the type it is sent as.
`PacketsAssumption` adds that the requests are requests (`IsRequest`). Some theorems have
a hypothesis: `Alone`, one output pipe (with CONERR the first pipe to end ends the
session, and `OutputComplete` is false); `UseConerr`, for the refinement that speaks
of CONERR; and `MarkersDiffer` for the cursor: a marker is not blank, no two are alike,
and the child writes the text of none. The first two are how `syncMarkerText` makes them
(`S*Y*N*C*` and the count of markers, which would take 2^32 markers to come round); of
the third the code says itself that it relies on it ("could easily collide with ordinary
console output", `Scraper.cc:652`). What a marker looks like is the parameter
`MarkerText`; `MCScraper` gives it the code's.

**The pipe.** Its conservation laws are not inductive: they need to know who owns which
buffer. `IInv` adds that an unaccepted rest exists only while a write pends and a
non-empty read buffer only while a read pends (`WriteAccounted`, `ReadAccounted`), that
a read pends only below the limit and that the kernel's buffer is empty while a pended
read is, that a closed pipe has no I/O (`waitForCanceledIo`) and all that was written
before is with the kernel or still in the queue (`ClosedConserved`), and which steps of
a round need a connection (`Stages`). The step is proved action by action; the hand-over
actions are instances of two lemmas of `StreamLemmas`, that cutting a stream and joining
neighbours in a row changes nothing.

`AwakeInv` is what a wait relies on: news the owner has not had makes `didSomething`
true for the rest of the round (`News`), a closed pipe has been told of before the loop
sleeps (`NeverClosedAsleep`), a queue at its limit is news to a loop without a timer
(`BacklogIsNews`), and a round in which nothing happened leaves a read pending wherever
the queue has room (`ReadOutstanding`) and a write wherever there is something to write
(`WriteOutstanding`). An operation that pends is one of the wait's handles, and so is a
connection that is awaited; what the kernel does between a worker's look and the wait
therefore signals one, which is `NeverSleepsOnNews`. That a pended write is either
complete or held up by a full buffer is `RestMeansFull`, a part of `IInv`. The run has a
pipe that is connected from the start; of a server, whose client is still to come, it is
the theorem that says it (`SleepsOnNoNews`). For the refinement, `ByteStream`'s sent bytes are what
was written before the pipe was closed. Only four actions are not stutters there: the
owner's handler, the peer's read, its end, and the loss of a peer; that the end comes
after everything is `EofIsTheEnd`.

**The agent.** What the child shows is counted, scrape by scrape, through queue, pended
write and kernel to the client (`Accounted`). `PipeState` says that a pipe is closed by
the agent only when nothing is left in it, `ChildKnown` what is known of the child from
its handle, `Ending` that shutting down begins with the child's exit, and `LastScrape`
that one more scrape follows before a pipe is closed: `CheckChildExit` comes before
`ScrapeAndClose` in `onPollTimeout`, and that order is what the proof uses. The mouse
mode follows from the last word in a row of buffers, a lemma about streams of items.

**The control pipe.** The invariant is about alignment. All the requests in a row are
one stream of bytes; queue, read buffer and kernel hold a slice of it, and `inQueue`
begins where a packet does. Then the size `pollControlPipe` peeks at is a packet's, and
what it takes out is that packet. `KeepsReading` is the progress half: when the packet
is longer than the buffer, the limit is raised before the loop waits.

That a packet is understood is proved for any base, widths and texts. A number that fits
is read as it was written by induction along its bytes (`NumberRead`: what is left of the
number after k shifts is what the last bytes add up to); a piece that is followed by
anything is read and leaves the rest (`GetPut`); pieces in a row are read one after the
other (`GetsAll`), which needs that no text is longer than its packet (`PieceIsShorter`),
as only then its length fits into its field. `EnvIsRead` says of an environment that the
block is doubly terminated - the assertions of `wstringFromEnvBlock` - and that walking
it gives the strings again, up to the first empty one; readings are put together with
`PassesBoth`.

**The calls.** `InFlight` says whose packets are in the pipe, but not how far the call
has got, so a step may leave it with a reply that nobody waits for. `OneCall` lists what
the open pipe may hold: nothing; the request; or the parts of the reply not yet read, in
agreement with the step the thread is at (`Asking`, `Answering`, `AnsweringRest`).
`Exclusive` says that the mutex is the calling thread's, and that a closed pipe has no
call. `Requests` says that a request served or with the agent is of a call that has been
made, from which it follows that a call that begins has not been served yet - without it
a fresh call could seem to be carried out. The refinement is proved action by action:
`Begin` is `Ask`, handling the request is `Serve`, the last read of a reply is `Return`
(by `OneCall` the call has been served), `Fails` is `Fail`, all others stutter.

**winpty_open.** `NoTrace` gives, for every place in the function, the handles held and
the pipes open; `Processes` which of the two agents there is; `Kept` that the desktop's
handle is held, or the pipe of the agent that made it is open, until the agent proper
has connected. That the agent that made the desktop still lives follows from its pipe's
being open, unless it has died of itself. `FontIsRight` is about functions over any set
of faces: the font is of the code page's own face if that is installed, else of the
default one, and of the face's sizes the one with the least score is the smallest that
leaves room.

`Libwinpty` composes the two. Until `winpty_open` is done, `Rpc`'s variables have their
initial values; from then on those of `OpenSession` stand still but for agents that go
their way (`OpenedInv`). So every step of `LibSpec` is one of `Rpc` or a stutter there
(`CallsAreRpc`), and what is proved of `Spec` and of `OpenSpec` holds of the library.

**The adapter.** Its invariant adds to the two wake-up properties that a handler which
has completed has announced it or is about to (`Announced`), that the main thread knows
the terminal's size unless a wake-up is pending or it has not yet looked (`SizeKnown`),
and that the shutdown flag is set before the wake-up (`ShutdownKnown`) - the order of
the two statements of `InputHandler::startShutdown`. `FlowInv` follows the output of a
session that terminal and agent leave alone: what the child has shown is on the terminal
or in a buffer (`Flow`), a handler completes only when all buffers are empty after the
child's end (`EndMeansDrained`), and the main thread frees the agent only after it has
seen one complete (`EndsInOrder`); before that the input handler has no cause to end.

In `AdapterMain` the threads exist from their stage of `main()` on (`Stages`), so its
steps are the threads' own or leave them alone. `Restorable` says that while a terminal's
mode is set, there is a saved descriptor that is still to be restored through; what was
saved is the mode at first, as all is saved before anything is set.

That the child gets its arguments is a fact about two algorithms, `argvToCommandLine` and
the one by which programs split their command lines. `ReadsTo` says that the reader goes
from one state to another while it reads a text, and such readings are put together
(`ReadsOn`). `BodyIsRead` is the induction along an argument: after each character the
reader has all of the argument but the run of backslashes that ends there, which neither
has been written yet; what is written next, one, twice or twice and one of them, depends
on the next character, and so does what is read (`PieceIsRead`, `ReadsBackslashes`).
`WordIsRead` adds the end of the argument, inside quotes and without, `PathIsRead` does the
same for the first one, in which a backslash is a character like any other, and
`LineIsRead` is the induction along the list of arguments. `Asked` carries the arguments
from `parseArguments` to `winpty_spawn`.

**The scraper.** `Window` and `Members` say of console and scraper what `ReadInfo`,
resizing and clearing keep; `InfoKnown` what a round may still believe of the console
while the child uses it - the height, and that the window has not gone up but by a CLS;
`ResizeKnown` what each call of a resize has established for the next; `MarkerAbove`
that the window has not been above the marker, and a resize keeps it so, nor has the
last line scraped (`Ahead`), so that they move up with it. A proof that a read line is inside the buffer is then
arithmetic. The attempt to prove it of every round showed the case told under
`ScraperStale`.

**The cursor.** `CursorShown` compares two machines that never speak to each other: the
console, which the child scrolls without a word, and the terminal, which only knows the
escapes it got. That the cursor is in the right row is a consequence of the agent's
knowing the row of *every* line, so this is what the invariant `CursorInv` has to say.
`Slid` is how far the buffer has scrolled since the scraper last noticed, as the paper
and the terminal's rows show it. `Counts` says that the marker, if it has not been
overwritten, stands as many rows above where it was put (`MarkedAt`), and `KnowsLines`
that this is so at every step, unless lines went by before there was a marker (`missed`),
or the screen was cleared inside a round (`cleared`, `misled`). That a text like the marker's is the
marker needs `Rows`: no row starts with a marker that has not been written yet - true of
every row the console may ever show, also of the buffer that a full-screen child has put
away (`Tabled`). `Going` is what each step of a round may rely on from the steps before,
while the child goes on writing: what was read of the console is still so with the
console frozen, and without, if the child has not moved (`moved`). `Unresized` says that, before
a resize, no line to be sent lies above the terminal's screen, where no escape could
reach it; after one that is possible (`term.stopped`). `Placed` is the
property itself, of a console that has not been touched since. `Pieces` has the rest,
among it that the agent's picture of the terminal's column and hidden cursor is right
(`Pictured`).

The proof goes from the escapes up. A drawing function keeps the terminal's row and the
agent's line in step (`Draws`), one escape, one line (`sendLine`), a scrape of any number
of lines, a mirror of any height, each by induction along its rows; the cursor that is
drawn last is then at the line and column asked for (`CursorDrawn`). A step of the
scraper keeps `Seen` and the count (`...Tracks`), and a character that the child writes
moves every marker up by as many rows as the paper has grown (`PuttingShifts`,
`TypingFollows`). Then there is one lemma for each action. Before it was proved, TLC
checked `CursorInv` in most of the states of the run `Scraper` and in as many along random
behaviours, and found what was still missing in it.

**The mouse.** A double click is a matter of reports that may lie in different calls of
`doWrite`, with keys, replies and timeouts in between. What the next report is judged by
are two members, `m_mouseButtonState` and `m_doubleClick`; `HeardInv` says what they know
of the records the console has got (`MouseKnown`): the buttons are those of the last mouse
record (`ButtonsKnown`), so that a button newly pressed by the members is newly pressed on
record, and a click that waits for its second is a press on record, and since then the
button is held or the mouse has been heard again (`ClickKnown`). `ReportKeepsMouse` is the
step: one more report. All else adds records of other kinds (`AddsOthers`) - a key, with
its modifiers before and after it and in either encoding, Ctrl-C, which is put past a
flushed vector - and leaves the mouse alone (`OthersKeepMouse`). Console and the vector not
yet flushed count as one row (`Told`), since a window message or Ctrl-C flushes it in the
middle of a call. `InputIsScanned` goes through all that `scanInput` may recognize,
`ScanIsSound` is the induction along a call, and the lemmas before them that the length of
every match is a number. TLC has checked `HeardInv` in all states of the run
`ConsoleInput`. The proof found the exception `unheard`, which the run cannot reach: the
mouse input of its child, once off, stays off.

Only model-checked: all liveness; `ShowsPaper`, which is about every cell of every line
that the terminal has ever shown - `CursorInv` says where a line is drawn, not what was
there before; `KeysAsTyped` and `DsrLatch`, which are about what particular bytes parse as
- they are true of scripts that the run has chosen with care, and where no reply was
`merged` (section 3), and for all others one would have to assume what is to be shown. Liveness and
fairness are beyond this prover. So are its library's theorems
about induction; the proofs use `Induction` of `StreamLemmas` in their place, which is
about a set of numbers and is proved from the well-foundedness of their order.

## 5. Plan

Done: pipe and loop, agent session, control channel and packets, `winpty_open`, fonts,
input, scraper and terminal, the adapter from its arguments to its end; the proofs
above. What is left, in order of what it would add:

1. Proofs: `ShowsPaper`, from `CursorInv` and what `sendLine` leaves of a line; `DsrLatch`,
   of scripts whose units are told apart by an assumption about `scanInput`.
2. `Scraper` with full-width characters, whose halves may be at the two ends of a line,
   and with the error buffer's second scraper beside the first.
3. Plain mode of `Terminal`.

## 6. Not modelled

* `Agent`: plain mode, the names of the pipes, the error buffer's scraper beside the
  primary one. CONIN and the DSR request are in `ConsoleInput`; a scrape is what the
  child wrote since the last one; the real thing is in `Scraper`.
* An exit-after-shutdown agent may leave its loop before it has written its reply to the
  spawn whose child exited at once; the model has this behaviour and no property
  excludes it, as nothing in the repository does.
* `outQueue` has no limit by design, and neither has its model; a resize with a size of
  0 x 0 is out of contract (`PositiveSize`).
* `Scraper`, `Terminal`: plain mode, output without colour, full-width characters,
  surrogate pairs, cells that hold NUL. `ConsoleFont`: the dump functions.
  `Win32Console`: the title, opening buffers.
* `AdapterMain`: messages and exit codes; `-Xallow-non-tty` is run only with
  `--showkey`. With `--Xconerr` the end of one output stream ends the session, the
  other's output possibly unread; `OutputComplete` is checked for CONOUT alone. If a
  later `tcsetattr` fails, the program exits without restoring what it has set; a resize
  between the first `ioctl` and the registration of the signal handler is seen only at
  the next one.
* `Rpc`: the Windows errors that are neither the loss of the agent nor a timeout, which
  take the same path. The contents of requests and replies are in `PacketBuffer`.
* Diagnostics (`DebugClient`, debug server, `DebugShowInput`, tracing), security
  descriptors, version and string helpers, `GenRandom`: no interaction, or calls of the
  operating system without state of winpty's own. Build files, tests and the programs in
  `misc/` are not part of the program.
