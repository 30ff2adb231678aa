---------------------------- MODULE AdapterMain ----------------------------
(***************************************************************************)
(* All of winpty.exe's main(): the arguments, the environment, winpty_open *)
(* and the pipes, finding the program and quoting its command line, the    *)
(* terminal's mode - around the threads of UnixAdapter.                    *)
(*                                                                         *)
(* A text is a sequence of characters.  The descriptors 0, 1 and 2, as far *)
(* as they are terminals, are the same terminal, whose mode is the set of  *)
(* what raw mode has changed in it.                                        *)
(***************************************************************************)
EXTENDS UnixAdapter, Sequences, SequencesExt

CONSTANTS
  Starts, \* how the program is started; see MCAdapterMain
  NoStart

VARIABLES
  step,     \* where main() is, apart from the threads
  start,    \* arguments, environment and files; NoStart once used up
  ttys,     \* the descriptors that are terminals
  options,  \* Arguments, as the set of the options given
  cmdline,  \* the command line for winpty_spawn
  winEnv,   \* the Win32 environment's variables
  mode,     \* the terminal's mode
  saved,    \* SavedTermiosMode, of the valid descriptors
  fd,       \* the descriptor setRawTerminalMode or restoreTerminalMode is at
  trouble   \* history: a call on the terminal has failed

setupVars == <<start, ttys, options, cmdline, winEnv>>
modeVars  == <<mode, saved, fd, trouble>>
mainOnly  == <<step, setupVars, modeVars>>

Fds == 0..2

-----------------------------------------------------------------------------
(* parseArguments: options up to the first other argument, or "--"; what    *)
(* follows is the child's, whatever it looks like.                          *)
Flags == {"--mouse", "--showkey", "-Xallow-non-tty", "-Xconerr", "-Xplain", "-Xcolor"}

FirstOf(S) == CHOOSE i \in S : \A j \in S : i <= j

ParseArguments(argv) ==
  LET n     == Len(argv)
      stop  == FirstOf({i \in 1..n : argv[i].option \in {"none", "--"}} \cup {n + 1})
      given == {argv[i].option : i \in 1..stop - 1}
      ends  == {i \in 1..stop - 1 : argv[i].option \notin Flags}
      skip  == stop <= n /\ argv[stop].option = "--"
      after == SubSeq(argv, IF skip THEN stop + 1 ELSE stop, n)
  IN [exits     |-> ends # {},
      given     |-> given,
      childArgv |-> [i \in DOMAIN after |-> after[i].text]]

(* setupWin32Environment: Cygwin may copy all of the environment to Win32's;*)
(* the two variables are copied anyway, and TERM goes.                      *)
Win32Environment(synced) ==
  ((IF synced THEN start.env ELSE {}) \cup
   (start.env \cap {"WINPTY_DEBUG", "WINPTY_SHOW_CONSOLE"})) \ {"TERM"}

-----------------------------------------------------------------------------
(* findProgram: a name without a slash is looked for in the PATH, and is    *)
(* some .exe where it says nothing else.  resolvePath is Cygwin's realpath, *)
(* which takes a program for its .exe.  An extension counts as a character. *)
Exists(dir, prog) ==
  \E f \in start.files :
    f.dir = dir /\ f.name = prog.name /\ f.ext \in {prog.ext} \cup
      (IF prog.ext = "" THEN {".exe"} ELSE {})

Extension(prog) ==
  IF prog.ext \in {".bat", ".cmd", ".com", ".exe"} THEN prog.ext ELSE prog.ext \o ".exe"

Startable(dir, prog) ==
  /\ Exists(dir, prog)
  /\ [dir |-> dir, name |-> prog.name, ext |-> Extension(prog), runs |-> TRUE] \in start.files

Found(prog) == {k \in DOMAIN start.path : Startable(start.path[k], prog)}

Path(dir, name, ext) == dir \o <<"\\">> \o name \o IF ext = "" THEN <<>> ELSE <<ext>>

(* The path it finds, if any.                                               *)
findProgram(prog) ==
  IF prog.dir # <<>>
    THEN IF Exists(prog.dir, prog) THEN {Path(prog.dir, prog.name, prog.ext)} ELSE {}
    ELSE IF Found(prog) = {} THEN {}
         ELSE {Path(start.path[FirstOf(Found(prog))], prog.name, Extension(prog))}

(* argvToCommandLine: backslashes are doubled where a quote follows.        *)
Quote    == "\""
Space    == " "
Blank(c) == c \in {Space, "\t"}

Backslashes(n) == [i \in 1..n |-> "\\"]
Run(arg, i) ==                 \* the backslashes that end at i
  IF \A j \in 1..i : arg[j] = "\\" THEN i
  ELSE i - CHOOSE j \in 1..i : arg[j] # "\\" /\ \A k \in j + 1..i : arg[k] = "\\"

BugQuoted(arg) == \E i \in DOMAIN arg : Blank(arg[i])  \* the empty one is not
Quoted(arg) == arg = <<>> \/ \E i \in DOMAIN arg : Blank(arg[i])

Piece(arg, i) ==               \* what stands for the i-th character
  IF arg[i] = "\\" THEN <<>>
  ELSE LET n == Run(arg, i - 1)
       IN Backslashes(IF arg[i] = Quote THEN 2 * n + 1 ELSE n) \o <<arg[i]>>

Escape(arg) ==
  LET body == FlattenSeq([i \in DOMAIN arg |-> Piece(arg, i)])
      last == Run(arg, Len(arg))
  IN IF Quoted(arg) THEN <<Quote>> \o body \o Backslashes(2 * last) \o <<Quote>>
     ELSE body \o Backslashes(last)

argvToCommandLine(argv) ==
  FlattenSeq([i \in DOMAIN argv |-> (IF i > 1 THEN <<Space>> ELSE <<>>) \o Escape(argv[i])])

(* A program's path as Windows has it: no directory, and without quotes.    *)
IsPath(p) ==
  /\ p \in Seq(STRING) /\ p # <<>> /\ p[Len(p)] # "\\"
  /\ \A i \in 1..Len(p) : p[i] # Quote

ASSUME StartsAssumption ==
  \A s \in Starts :
    /\ s.argv \in Seq([option : STRING, text : Seq(STRING)])
    /\ s.path \in Seq(Seq(STRING))
    /\ IsPath(Path(s.program.dir, s.program.name, s.program.ext))
    /\ \A f \in s.files : IsPath(Path(f.dir, f.name, f.ext))

-----------------------------------------------------------------------------
(* How a program splits its command line (CommandLineToArgvW): the first    *)
(* argument has quotes only; in the others backslashes before a quote count *)
(* half, and an odd one makes it a character.  The reader goes through the  *)
(* line with the arguments before, and the one it is inside of: its text,   *)
(* but for the backslashes it ends with.                                    *)
BeforeLine ==
  [args |-> <<>>, inside |-> TRUE, text |-> <<>>, slashes |-> 0, quoted |-> FALSE]

Finished(r) == Append(r.args, r.text \o Backslashes(r.slashes))

Takes(r, slashes, more) ==
  [r EXCEPT !.inside = TRUE, !.text = @ \o Backslashes(slashes) \o more, !.slashes = 0]

Reads(r, c) ==
  IF Blank(c) /\ ~r.quoted THEN
    IF r.inside THEN [BeforeLine EXCEPT !.args = Finished(r), !.inside = FALSE] ELSE r
  ELSE IF c = "\\" /\ r.args # <<>> THEN [r EXCEPT !.inside = TRUE, !.slashes = @ + 1]
  ELSE IF c # Quote THEN Takes(r, r.slashes, <<c>>)
  ELSE IF r.slashes % 2 = 1 THEN Takes(r, r.slashes \div 2, <<c>>)
  ELSE [Takes(r, r.slashes \div 2, <<>>) EXCEPT !.quoted = ~@]

CommandLineToArgv(line) ==
  LET read[i \in 0..Len(line)] ==
        IF i = 0 THEN BeforeLine ELSE Reads(read[i - 1], line[i])
      r == read[Len(line)]
  IN IF r.inside THEN Finished(r) ELSE r.args

-----------------------------------------------------------------------------
AdapterInit ==
  /\ Init
  /\ step = "arguments" /\ start \in Starts /\ ttys = start.ttys /\ options = {}
  /\ cmdline = <<>> /\ winEnv = {}
  /\ mode = {} /\ saved = <<>> /\ fd = 0 /\ trouble = FALSE

(* exit(): the agent, if there is one, finds its control pipe closed.       *)
Exit ==
  /\ step' = "over"
  /\ main' = (IF main = "done" THEN main ELSE "failed") /\ freed' = TRUE
  /\ agent' = IF step \in {"arguments", "showkey", "open"} THEN "down" ELSE agent
  /\ UNCHANGED <<sz, registered, inputVars, outVars, wakeVars, termVars, consoleSize,
                 child, shown, queued, pipe, conClosed, history>>

(* assert: the program is aborted.                                          *)
Abort ==
  /\ step' = "over"
  /\ main' = "aborted" /\ freed' = TRUE
  /\ agent' = IF step = "open" THEN "down" ELSE agent
  /\ UNCHANGED <<sz, registered, inputVars, outVars, wakeVars, termVars, consoleSize,
                 child, shown, queued, pipe, conClosed, history>>

Arguments ==
  /\ step = "arguments"
  /\ LET args == ParseArguments(start.argv) IN
       \/ /\ args.exits \/ (args.childArgv = <<>> /\ "--showkey" \notin args.given)
          /\ Exit
          /\ UNCHANGED <<options, winEnv>>
       \/ /\ ~args.exits /\ "--showkey" \in args.given
          /\ step' = "raw" /\ options' = args.given
          /\ UNCHANGED <<winEnv, vars>>
       \/ /\ ~args.exits /\ "--showkey" \notin args.given /\ args.childArgv # <<>>
          /\ "-Xconerr" \in args.given <=> "conerr" \in Outputs
          /\ step' = "open" /\ options' = args.given
          /\ \E synced \in BOOLEAN : winEnv' = Win32Environment(synced)
          /\ UNCHANGED vars
  /\ UNCHANGED <<start, ttys, cmdline, modeVars>>

(* The size is 80 by 25 where the ioctl fails; winpty_config_set_initial_   *)
(* size asserts that it is positive.  winpty_open may fail.                 *)
PositiveSize == start.size # "zero"

Open ==
  /\ step = "open"
  /\ \/ ~PositiveSize /\ Abort
     \/ PositiveSize /\ Exit
     \/ PositiveSize /\ step' = "connect" /\ UNCHANGED vars
  /\ UNCHANGED <<setupVars, modeVars>>

(* CreateFileW of CONIN, CONOUT and CONERR.                                 *)
Connect ==
  /\ step = "connect"
  /\ \/ agent = "up" /\ step' = "program" /\ UNCHANGED vars
     \/ agent = "down" /\ Abort
  /\ UNCHANGED <<setupVars, modeVars>>

ChildArgv == ParseArguments(start.argv).childArgv

CommandLine ==
  /\ step = "program"
  /\ \/ /\ findProgram(start.program) = {}
        /\ Exit
        /\ UNCHANGED cmdline
     \/ /\ \E path \in findProgram(start.program) :
             cmdline' = argvToCommandLine(<<path>> \o Tail(ChildArgv))
        /\ step' = "spawn"
        /\ UNCHANGED vars
  /\ UNCHANGED <<start, ttys, options, winEnv, modeVars>>

(* winpty_spawn and the signal handler.  From here on only two options are  *)
(* of interest.                                                             *)
Spawn ==
  /\ step = "spawn"
  /\ \/ /\ MainSpawns
        /\ step' = IF main' = "failed" THEN "over" ELSE "spawn"
     \/ MainRegisters /\ step' = "raw"
  /\ start' = NoStart /\ cmdline' = <<>> /\ winEnv' = {}
  /\ options' = options \cap {"-Xallow-non-tty", "-Xconerr"}
  /\ UNCHANGED <<ttys, modeVars>>

-----------------------------------------------------------------------------
(* setRawTerminalMode: the modes are saved first, and then set one after    *)
(* the other.  A call that fails ends the program where it is.              *)
ShowsKeys == main = "start"    \* debugShowKey, which is before everything else

Wanted == {0} \cup IF ShowsKeys THEN {}
                  ELSE {1} \cup IF "-Xconerr" \in options THEN {2} ELSE {}

Raw(m, i) == m \cup {"8 bits"} \cup IF i = 0 THEN {"no echo"} ELSE {"no newline"}

BugSaves(i) == IF i = 0 THEN mode ELSE Raw(mode, 0)  \* one after the other is saved, too
Saves(i) == mode

SaveModes ==
  /\ step = "raw"
  /\ \/ /\ Wanted \subseteq ttys \/ "-Xallow-non-tty" \in options
        /\ saved' = [i \in Wanted \cap ttys |-> Saves(i)]
        /\ fd' = 0
        /\ step' = "set"
        /\ UNCHANGED <<trouble, vars>>
     \/ /\ ~(Wanted \subseteq ttys) /\ "-Xallow-non-tty" \notin options
        /\ Exit
        /\ UNCHANGED <<saved, fd, trouble>>
     \/ /\ Wanted \cap ttys # {}
        /\ trouble' = TRUE
        /\ Exit
        /\ UNCHANGED <<saved, fd>>
  /\ UNCHANGED <<setupVars, mode>>

SetMode ==
  /\ step = "set" /\ fd \in Fds
  /\ \/ /\ fd' = fd + 1
        /\ mode' = IF fd \in DOMAIN saved THEN Raw(mode, fd) ELSE mode
        /\ UNCHANGED <<step, trouble, vars>>
     \/ /\ fd \in DOMAIN saved
        /\ trouble' = TRUE
        /\ Exit
        /\ UNCHANGED <<fd, mode>>
  /\ UNCHANGED <<setupVars, saved>>

ModesSet ==
  /\ step = "set" /\ fd \notin Fds
  /\ step' = IF ShowsKeys THEN "keys" ELSE "threads"
  /\ start' = NoStart /\ ttys' = {} /\ options' = {}
  /\ UNCHANGED <<cmdline, winEnv, modeVars, vars>>

(* debugShowKey, up to a Ctrl-D or the input's end.                         *)
ShowKeys ==
  /\ step = "keys" /\ (typed > 0 \/ stdin = "eof")
  /\ typed' = 0
  /\ \/ step' = "restore" /\ fd' = 0
     \/ typed > 0 /\ UNCHANGED <<step, fd>>
  /\ UNCHANGED <<mainVars, inputVars, outVars, wakeVars, term, resizes, stdin, written,
                 stdout, agentVars, history, setupVars, mode, saved, trouble>>

(* The handlers' threads, up to the last join.                              *)
Threads ==
  /\ step = "threads"
  /\ \/ MainCreatesHandlers \/ MainSelects \/ MainResets \/ MainReadsSize \/ MainResizes
     \/ MainChecks \/ MainFrees \/ MainStopsInput \/ MainWakesInput \/ MainJoins
  /\ step' = CASE main' = "done" -> "restore" [] main' = "aborted" -> "over"
               [] OTHER -> "threads"
  /\ fd' = 0
  /\ UNCHANGED <<setupVars, mode, saved, trouble>>

RestoreMode ==
  /\ step = "restore" /\ fd \in Fds
  /\ \/ /\ fd' = fd + 1
        /\ mode' = IF fd \in DOMAIN saved THEN saved[fd] ELSE mode
        /\ UNCHANGED <<step, trouble, vars>>
     \/ /\ fd \in DOMAIN saved
        /\ trouble' = TRUE
        /\ Exit
        /\ UNCHANGED <<fd, mode>>
  /\ UNCHANGED <<setupVars, saved>>

(* main() returns the child's exit code; debugShowKey is followed by exit.  *)
Return ==
  /\ step = "restore" /\ fd \notin Fds
  /\ IF ShowsKeys THEN Exit ELSE step' = "over" /\ UNCHANGED vars
  /\ UNCHANGED <<setupVars, modeVars>>

Setup    == Arguments \/ Open \/ Connect \/ CommandLine \/ Spawn
SetModes == SaveModes \/ SetMode \/ ModesSet
Ends  == RestoreMode \/ Return

(* The threads, the terminal, the child and the agent, as in UnixAdapter.   *)
Others ==
  /\ step \notin {"arguments", "open"}
  /\ \/ Input \/ \E p \in Outputs : Output(p)
     \/ Resize \/ Type \/ HangUp
     \/ ChildExits \/ AgentExits
     \/ \E p \in Outputs : ChildShows(p) \/ AgentWrites(p) \/ AgentCloses(p)
  /\ UNCHANGED mainOnly

AdapterNext == Setup \/ SetModes \/ ShowKeys \/ Threads \/ Ends \/ Others

allVars == <<vars, mainOnly>>

(* UnixAdapter's fairness; the main thread need only go on once the resize  *)
(* signal is registered.                                                    *)
AdapterSpec ==
  /\ AdapterInit /\ [][AdapterNext]_allVars
  /\ WF_allVars(SetModes) /\ WF_allVars(Threads)
  /\ WF_allVars(Input /\ UNCHANGED mainOnly)
  /\ \A p \in Outputs : /\ WF_allVars(Output(p) /\ UNCHANGED mainOnly)
                        /\ WF_allVars(AgentWrites(p) /\ UNCHANGED mainOnly)
                        /\ WF_allVars(AgentCloses(p) /\ UNCHANGED mainOnly)
  /\ WF_allVars(freed /\ AgentExits /\ UNCHANGED mainOnly)

-----------------------------------------------------------------------------
(* The child is started with what the user gave after the program, argument *)
(* by argument, once it has split its command line; it is the first         *)
(* executable of that name in the PATH; it does not see TERM, and the agent *)
(* sees the debugging variables.                                            *)
ChildStartsAsAsked ==
  step = "spawn" /\ main = "start" =>
    LET argv == CommandLineToArgv(cmdline)
        n == Len(start.argv) - Len(argv)   \* how many come before the program
        prog == start.program
        Executes(dir) ==
          \E f \in start.files : f.dir = dir /\ f.name = prog.name /\ f.runs
                                   /\ argv[1] = Path(dir, f.name, f.ext)
    IN /\ n >= 0
       /\ \A i \in 2..Len(argv) : argv[i] = start.argv[n + i].text
       /\ \A i \in 1..n - 1 : start.argv[i].option \in Flags
       /\ n >= 1 => start.argv[n].option \in Flags \cup {"--"}
       /\ n = 0 \/ start.argv[n].option # "--" => start.argv[n + 1].option = "none"
       /\ prog.dir = <<>> => \E k \in DOMAIN start.path :
            /\ Executes(start.path[k])
            /\ \A j \in 1..k - 1 : ~Startable(start.path[j], prog)
       /\ "TERM" \notin winEnv
       /\ start.env \cap {"WINPTY_DEBUG", "WINPTY_SHOW_CONSOLE"} \subseteq winEnv

(* When the program is over, in whatever way but an assertion's, it leaves  *)
(* the terminal as it has found it, unless the terminal refuses a call.     *)
TerminalRestored == step = "over" /\ main # "aborted" /\ ~trouble => mode = {}
=============================================================================
