----------------------------- MODULE OpenSession -----------------------------
(***************************************************************************)
(* winpty_open: libwinpty starts the agent, on a background desktop where  *)
(* the version of Windows calls for one.                                   *)
(*                                                                         *)
(* The desktop is made by the client's own process, whose window station   *)
(* is switched until the agent runs, or by a first agent (--create-desktop)*)
(* that keeps it until its control pipe is closed.  Each agent connects to *)
(* the control pipe made for it and sends one packet: the desktop's name,  *)
(* or the names of the data pipes.  Every call on the way may fail, an     *)
(* agent may die or hang, and then all of it has to be taken back.         *)
(***************************************************************************)
EXTENDS Integers, FiniteSets, ConsoleFont

CONSTANTS
  Systems,    \* the versions of Windows: "xp", "vista", "8", "10", or "none"
  CodePages,  \* what GetConsoleOutputCP may return
  Columns,    \* the columns asked for
  FontTable   \* the console's own font table: <<X, Y>>

(* winpty_config_set_initial_size asserts it.                               *)
ASSUME OpenAssumption == Columns \subseteq Nat \ {0}

Role == {"helper", "main"}

VARIABLES
  at,         \* where winpty_open is
  role,       \* the session createAgentSession is making
  system,     \* the version of Windows
  plan,       \* who makes the desktop: "nobody", "process" or "agent"
  control,    \* per role, libwinpty's end of the control pipe
  proc,       \* per role, the agent's process
  packet,     \* per role, the agent's packet is in the pipe
  station,    \* the window station of the client's process
  handles,    \* what its BackgroundDesktop holds
  desktopName, spawnDesktopName, \* "", "user", or "background"
  result,     \* of winpty_open
  font,       \* the agent's font, what it was chosen for and from
  died        \* history: a process has died by itself

openVars == <<at, role, system, plan, control, proc, packet, station, handles,
              desktopName, spawnDesktopName, result, font, died>>

clientIdle == <<proc, packet, system, font, died>>
agentIdle  == <<at, role, system, plan, station, handles, desktopName,
                spawnDesktopName, result>>

(* shouldCreateBackgroundDesktop and setupBackgroundDesktop: before         *)
(* Windows 7, unless the console is to be shown, and as one debug flag has  *)
(* it; more than one are ignored.                                           *)
DebugFlags == {"force_desktop", "force_desktop_spawn", "force_desktop_curproc",
               "no_desktop"}

DesktopPlan(allowCurproc, before7, show, flags) ==
  LET one(f) == flags = {f}
      use == \/ one("force_desktop") \/ one("force_desktop_spawn")
             \/ one("force_desktop_curproc")
             \/ before7 /\ ~show /\ ~one("no_desktop")
      other == \/ one("force_desktop_spawn")
               \/ ~allowCurproc /\ ~one("force_desktop_curproc")
  IN IF ~use THEN "nobody" ELSE IF other THEN "agent" ELSE "process"

NoFontYet ==
  [system |-> "none", font |-> NoFont, cp |-> 0, columns |-> 0, installed |-> {}]

OpenInit ==
  /\ at = "desktop" /\ role = "main"
  /\ system \in Systems
  /\ \E allow, show \in BOOLEAN, flags \in SUBSET DebugFlags :
       plan = DesktopPlan(allow, system \in {"none", "xp", "vista"}, show, flags)
  /\ control = [r \in Role |-> "none"]
  /\ proc = [r \in Role |-> "none"]
  /\ packet = [r \in Role |-> FALSE]
  /\ station = "user" /\ handles = {}
  /\ desktopName = "" /\ spawnDesktopName = "" /\ result = "none"
  /\ font = NoFontYet /\ died = FALSE

-----------------------------------------------------------------------------
(* The destructors: the desktop's puts the station back and closes what it  *)
(* has, or closes the control pipe of the agent that keeps the desktop.     *)
BugDispose(end) ==             \* the other agent is not let go
  /\ station' = "user" /\ handles' = {}
  /\ control' = end

Dispose(end) ==
  /\ station' = IF "original" \in handles THEN "user" ELSE station
  /\ handles' = {}
  /\ control' = [end EXCEPT !["helper"] = IF @ = "none" THEN @ ELSE "closed"]

(* An exception leaves winpty_open: the session is given up, and then the   *)
(* desktop.                                                                 *)
OpenFails ==
  /\ Dispose([control EXCEPT ![role] = IF @ = "none" THEN @ ELSE "closed"])
  /\ at' = "returned" /\ result' = "failed"
  /\ UNCHANGED <<clientIdle, role, plan, desktopName, spawnDesktopName>>

(* The call may fail.                                                       *)
Try(step) == step \/ OpenFails

SetupDesktop ==
  /\ at = "desktop"
  /\ at' = IF plan = "process" THEN "get station" ELSE "create pipe"
  /\ role' = IF plan = "agent" THEN "helper" ELSE "main"
  /\ UNCHANGED <<clientIdle, plan, control, station, handles, desktopName,
                 spawnDesktopName, result>>

(* BackgroundDesktop's constructor.  When a call fails it undoes the others *)
(* and the agent is started on the user's desktop.                          *)
Has(handle, newStation, next) ==
  /\ handles' = handles \cup handle
  /\ station' = newStation
  /\ at' = next
  /\ UNCHANGED <<clientIdle, role, plan, control, desktopName, spawnDesktopName,
                 result>>

NoDesktop ==
  /\ Dispose(control)
  /\ at' = "create pipe"
  /\ UNCHANGED <<clientIdle, role, plan, desktopName, spawnDesktopName, result>>

GetStation ==
  /\ at = "get station"
  /\ Has({"original"}, station, "create station") \/ NoDesktop

CreateStation ==
  /\ at = "create station"
  /\ Has({"station"}, station, "switch station") \/ NoDesktop

SwitchStation ==
  /\ at = "switch station"
  /\ Has({}, "background", "create desktop") \/ NoDesktop

CreateDesktop ==
  /\ at = "create desktop"
  /\ Has({"desktop"}, station, "name desktop") \/ NoDesktop

NameDesktop ==
  /\ at = "name desktop"
  /\ \/ /\ desktopName' = "background" /\ at' = "create pipe"
        /\ UNCHANGED <<clientIdle, role, plan, control, station, handles,
                       spawnDesktopName, result>>
     \/ NoDesktop

(* createAgentSession: the event and the control pipe, the process, the     *)
(* connection and the check that it is the agent's.                         *)
CreateControlPipe ==
  /\ at = "create pipe"
  /\ Try(/\ control' = [control EXCEPT ![role] = "listening"]
         /\ at' = "start agent"
         /\ UNCHANGED <<clientIdle, role, plan, station, handles, desktopName,
                        spawnDesktopName, result>>)

BugStartAgentProcess ==        \* the desktop is given up as soon as the agent runs
  /\ at = "start agent"
  /\ proc' = [proc EXCEPT ![role] = "starting"]
  /\ at' = "connect"
  /\ Dispose(control)
  /\ UNCHANGED <<packet, system, font, died, role, plan, desktopName,
                 spawnDesktopName, result>>

StartAgentProcess ==
  /\ at = "start agent"
  /\ Try(/\ proc' = [proc EXCEPT ![role] = "starting"]
         /\ at' = "connect"
         /\ UNCHANGED <<packet, system, font, died, role, plan, control, station,
                        handles, desktopName, spawnDesktopName, result>>)

ConnectControlPipe ==
  /\ at = "connect" /\ control[role] = "connected"
  /\ at' = "verify"
  /\ UNCHANGED <<clientIdle, role, plan, control, station, handles, desktopName,
                 spawnDesktopName, result>>

VerifyPipeClientPid ==
  /\ at = "verify"
  /\ Try(/\ at' = IF role = "helper" THEN "read" ELSE "restore"
         /\ UNCHANGED <<clientIdle, role, plan, control, station, handles,
                        desktopName, spawnDesktopName, result>>)

(* The wait for the connection or the packet ends without it: the agent is  *)
(* gone or the time is over.                                                *)
WaitFails ==
  /\ \/ at = "connect" /\ control[role] = "listening"
     \/ at = "read" /\ ~packet[role]
  /\ OpenFails

(* The desktop agent's packet; the agent proper is started next.            *)
ReadDesktopName ==
  /\ at = "read" /\ role = "helper" /\ packet[role]
  /\ desktopName' = "background"
  /\ role' = "main" /\ at' = "create pipe"
  /\ UNCHANGED <<clientIdle, plan, control, station, handles, spawnDesktopName,
                 result>>

(* The agent runs: the desktop is its own now.                              *)
BugRestoreDesktop ==           \* the desktop's name is taken first
  /\ at = "restore"
  /\ spawnDesktopName' = IF desktopName = "" THEN "" ELSE station
  /\ Dispose(control)
  /\ at' = "read"
  /\ UNCHANGED <<clientIdle, role, plan, desktopName, result>>

RestoreDesktop ==
  /\ at = "restore"
  /\ Dispose(control)
  /\ at' = "name"
  /\ UNCHANGED <<clientIdle, role, plan, desktopName, spawnDesktopName, result>>

(* A child is to be put back on the desktop the client has.                 *)
NameSpawnDesktop ==
  /\ at = "name"
  /\ IF desktopName = ""
       THEN /\ at' = "read"
            /\ UNCHANGED <<clientIdle, role, plan, control, station, handles,
                           desktopName, spawnDesktopName, result>>
       ELSE Try(/\ spawnDesktopName' = station
                /\ at' = "read"
                /\ UNCHANGED <<clientIdle, role, plan, control, station, handles,
                               desktopName, result>>)

ReadPipeNames ==
  /\ at = "read" /\ role = "main" /\ packet[role]
  /\ at' = "returned" /\ result' = "opened"
  /\ UNCHANGED <<clientIdle, role, plan, control, station, handles, desktopName,
                 spawnDesktopName>>

OpenClient ==
  \/ SetupDesktop \/ GetStation \/ CreateStation \/ SwitchStation \/ CreateDesktop
  \/ NameDesktop \/ CreateControlPipe \/ StartAgentProcess \/ ConnectControlPipe
  \/ VerifyPipeClientPid \/ WaitFails \/ ReadDesktopName \/ RestoreDesktop
  \/ NameSpawnDesktop \/ ReadPipeNames

-----------------------------------------------------------------------------
(* The agent's process.                                                     *)
ProcGoes(r, place) ==
  /\ proc' = [proc EXCEPT ![r] = place]
  /\ UNCHANGED agentIdle

(* It is put on its desktop, which must be there: it does not start else.   *)
DesktopLives ==
  "desktop" \in handles \/ proc["helper"] \in {"has desktop", "connected", "running"}

ProcessAttaches(r) ==
  /\ proc[r] = "starting"
  /\ ProcGoes(r, IF r = "helper" \/ desktopName = "" \/ DesktopLives
                   THEN "attached" ELSE "no desktop")
  /\ UNCHANGED <<control, packet, font, died>>

(* main: the agent for the desktop makes it, as the client would have.      *)
HelperMakesDesktop ==
  /\ proc["helper"] = "attached"
  /\ \/ ProcGoes("helper", "has desktop") /\ UNCHANGED died
     \/ ProcGoes("helper", "dead") /\ died' = TRUE
  /\ UNCHANGED <<control, packet, font>>

(* connectToServer, which asserts that the pipe is there.                   *)
ProcessConnects(r) ==
  /\ proc[r] = IF r = "helper" THEN "has desktop" ELSE "attached"
  /\ IF control[r] = "listening"
       THEN /\ control' = [control EXCEPT ![r] = "connected"]
            /\ ProcGoes(r, "connected")
       ELSE ProcGoes(r, "dead") /\ UNCHANGED control
  /\ UNCHANGED <<packet, font, died>>

(* Agent::Agent goes on to the scraper, which sets the font: what may come  *)
(* of it, with any of the faces installed and any of the old console's      *)
(* fonts taken.                                                             *)
FontChoices ==
  UNION {LET windows == c[1]
             faces == {FaceAndTable(c[2], windows).face, FaceAndTable(0, windows).face}
         IN UNION {{[system |-> windows, cp |-> c[2], columns |-> c[3], font |-> f,
                     installed |-> installed] :
                      f \in setSmallFont(c[2], c[3], windows, installed, FontTable, taken)} :
                      installed \in IF windows = "xp" THEN {{}} ELSE SUBSET faces,
                      taken \in IF windows = "xp" THEN SUBSET DOMAIN FontTable ELSE {{}}} :
         c \in Systems \X CodePages \X Columns}

AgentSetsFont ==
  /\ proc["main"] = "connected"
  /\ font' \in {choice \in FontChoices : choice.system = system}
  /\ ProcGoes("main", "ready")
  /\ UNCHANGED <<control, packet, died>>

(* The first round of the loop writes the packet.                           *)
ProcessSends(r) ==
  /\ proc[r] = IF r = "helper" THEN "connected" ELSE "ready"
  /\ packet' = [packet EXCEPT ![r] = (control[r] = "connected")]
  /\ font' = NoFontYet
  /\ ProcGoes(r, "running")
  /\ UNCHANGED <<control, died>>

(* onPipeIo: the client has closed the control pipe.                        *)
ProcessExits(r) ==
  /\ proc[r] = "running" /\ control[r] = "closed"
  /\ ProcGoes(r, "dead")
  /\ UNCHANGED <<control, packet, font, died>>

(* It fails on the way, or is killed.                                       *)
ProcessDies(r) ==
  /\ proc[r] \notin {"none", "dead", "no desktop"}
  /\ ProcGoes(r, "dead")
  /\ died' = TRUE /\ font' = NoFontYet
  /\ UNCHANGED <<control, packet>>

OpenAgents ==
  \/ HelperMakesDesktop \/ AgentSetsFont
  \/ \E r \in Role : \/ ProcessAttaches(r) \/ ProcessConnects(r) \/ ProcessSends(r)
                     \/ ProcessExits(r)

OpenNext == OpenClient \/ OpenAgents \/ \E r \in Role : ProcessDies(r)

OpenSpec == OpenInit /\ [][OpenNext]_openVars
-----------------------------------------------------------------------------
(* However winpty_open ends, the client's process is as it was: its window  *)
(* station is its own again, no handle of the desktop is left, the agent    *)
(* that kept the desktop is let go.  A failed one leaves no control pipe    *)
(* open; after a successful one, children go to the user's desktop and not  *)
(* to the one in the background.                                            *)
OpenLeavesNoTrace ==
  at = "returned" =>
    /\ station = "user" /\ handles = {}
    /\ control["helper"] \in {"none", "closed"}
    /\ result = "failed" => control["main"] \in {"none", "closed"}
    /\ result = "opened" =>
         spawnDesktopName = IF desktopName = "" THEN "" ELSE "user"

(* The comment in winpty_open: the handles of the desktop are kept until    *)
(* the agent is running.  It never starts on a desktop that is gone, unless *)
(* the process that kept it has died or winpty_open has given up.           *)
StartsOnItsDesktop ==
  proc["main"] = "no desktop" => died \/ result = "failed"

(* No process stays behind: the agent for the desktop ends when             *)
(* winpty_open returns, and both do when it has failed.                     *)
NoAgentLeftBehind ==
  at = "returned" ~>
    /\ proc["helper"] \in {"none", "dead"}
    /\ result = "failed" => proc["main"] \in {"none", "dead", "no desktop"}

(* Where the face can be chosen, the agent's font is of the face made for   *)
(* the code page whenever that is installed - an East Asian page has one of *)
(* its own - else of the default face, else it stays as it was; and of the  *)
(* face's sizes it is the smallest that leaves room for the columns asked   *)
(* for (setSmallFontVista, selectSmallFont).                                *)
SmallFontFits ==
  font.system \notin {"xp", "none"} =>
    LET own     == FaceAndTable(font.cp, font.system)
        default == FaceAndTable(0, font.system)
        wanted  == IF own.face \in font.installed THEN own ELSE default
    IN /\ own.face # default.face <=> isEastAsian(font.cp)
       /\ IF wanted.face \in font.installed
            THEN /\ font.font.face = wanted.face
                 /\ RightWidth(font.font.width,
                               {wanted.table[i][2] : i \in DOMAIN wanted.table},
                               font.columns)
            ELSE font.font = NoFont
=============================================================================
