-------------------------- MODULE UnixAdapterProofs --------------------------
(***************************************************************************)
(* The adapter's threads lose no wake-up, for every set of output          *)
(* handlers, of terminal sizes and every number of resizes: the invariant  *)
(* IInv of UnixAdapter, conjunct by conjunct.  With one handler the        *)
(* output is complete as well (FlowInv).  All of that holds in winpty.exe  *)
(* as a whole, which leaves the terminal as it was, and starts the child   *)
(* with the arguments it was given: what escapes them is undone by what    *)
(* splits a command line (LineIsRead).                                     *)
(***************************************************************************)
EXTENDS AdapterMain, StreamLemmas

World ==
  \/ Resize \/ Type \/ HangUp \/ ChildExits \/ AgentExits
  \/ \E p \in Outputs : ChildShows(p) \/ AgentWrites(p) \/ AgentCloses(p)

(* Every variable keeps to its type.                                        *)
LEMMA InitIsTyped == Init => TypeOK
<1> SUFFICES ASSUME Init PROVE TypeOK
  OBVIOUS
<1>1. /\ out \in [Outputs -> {"unborn"}]
      /\ {outCompleted, conClosed} \subseteq [Outputs -> BOOLEAN]
  BY DEF Init
<1>2. [p \in Outputs |-> 0] \in [Outputs -> Nat]
  OBVIOUS
<1>3. {buffer, written, shown, queued, pipe} \subseteq [Outputs -> Nat]
  BY <1>2 DEF Init
<1>4. /\ sz \in Size /\ term \in Size /\ consoleSize \in Size
      /\ resizes \in Nat /\ holding \in Nat /\ typed \in Nat
  BY AdapterAssumption DEF Init
<1> QED
  BY <1>1, <1>3, <1>4 DEF Init, TypeOK, Working

LEMMA MainKeepsType == TypeOK /\ Main => TypeOK'
<1> SUFFICES ASSUME TypeOK, Main PROVE TypeOK'
  OBVIOUS
<1> USE DEF TypeOK, Working, mainVars, inputVars, outVars, wakeVars, termVars,
            agentVars, history
<1>1. CASE MainSpawns          BY <1>1 DEF MainSpawns
<1>2. CASE MainRegisters       BY <1>2 DEF MainRegisters
<1>3. CASE MainCreatesHandlers BY <1>3 DEF MainCreatesHandlers
<1>4. CASE MainSelects         BY <1>4 DEF MainSelects
<1>5. CASE MainResets          BY <1>5 DEF MainResets
<1>6. CASE MainReadsSize       BY <1>6 DEF MainReadsSize
<1>7. CASE MainResizes         BY <1>7 DEF MainResizes
<1>8. CASE MainChecks          BY <1>8 DEF MainChecks
<1>9. CASE MainFrees           BY <1>9 DEF MainFrees
<1>10. CASE MainStopsInput     BY <1>10 DEF MainStopsInput
<1>11. CASE MainWakesInput     BY <1>11 DEF MainWakesInput
<1>12. CASE MainJoins          BY <1>12 DEF MainJoins
<1> QED
  BY <1>1, <1>2, <1>3, <1>4, <1>5, <1>6, <1>7, <1>8, <1>9, <1>10, <1>11, <1>12
  DEF Main

LEMMA InputKeepsType == TypeOK /\ Input => TypeOK'
<1> SUFFICES ASSUME TypeOK, Input PROVE TypeOK'
  OBVIOUS
<1> USE DEF TypeOK, Working, mainVars, inputVars, outVars, wakeVars, termVars,
            agentVars, history
<1>1. CASE InputResets      BY <1>1 DEF InputResets
<1>2. CASE InputChecks      BY <1>2 DEF InputChecks
<1>3. CASE InputSelects     BY <1>3 DEF InputSelects
<1>4. CASE InputReads       BY <1>4 DEF InputReads
<1>5. CASE InputWrites      BY <1>5 DEF InputWrites
<1>6. CASE InputCompletes   BY <1>6 DEF InputCompletes
<1>7. CASE InputNotifies    BY <1>7 DEF InputNotifies
<1> QED
  BY <1>1, <1>2, <1>3, <1>4, <1>5, <1>6, <1>7 DEF Input

LEMMA OutputKeepsType ==
  ASSUME TypeOK, NEW p \in Outputs, Output(p)
  PROVE  TypeOK'
<1> USE DEF TypeOK, Working, mainVars, inputVars, outVars, wakeVars, termVars,
            agentVars, history
<1>1. CASE OutputReads(p)     BY <1>1 DEF OutputReads
<1>2. CASE OutputWrites(p)    BY <1>2 DEF OutputWrites
<1>3. CASE OutputCompletes(p) BY <1>3 DEF OutputCompletes
<1>4. CASE OutputNotifies(p)  BY <1>4 DEF OutputNotifies
<1> QED
  BY <1>1, <1>2, <1>3, <1>4 DEF Output

LEMMA WorldKeepsType == TypeOK /\ World => TypeOK'
<1> SUFFICES ASSUME TypeOK, World PROVE TypeOK'
  OBVIOUS
<1> USE DEF TypeOK, Working, mainVars, inputVars, outVars, wakeVars, termVars,
            agentVars, history
<1>1. CASE Resize     BY <1>1 DEF Resize
<1>2. CASE Type       BY <1>2 DEF Type
<1>3. CASE HangUp     BY <1>3 DEF HangUp
<1>4. CASE ChildExits BY <1>4 DEF ChildExits
<1>5. CASE AgentExits BY <1>5 DEF AgentExits
<1>6. ASSUME NEW p \in Outputs, ChildShows(p) PROVE TypeOK'
  BY <1>6 DEF ChildShows
<1>7. ASSUME NEW p \in Outputs, AgentWrites(p) PROVE TypeOK'
  BY <1>7 DEF AgentWrites
<1>8. ASSUME NEW p \in Outputs, AgentCloses(p) PROVE TypeOK'
  BY <1>8 DEF AgentCloses
<1> QED
  BY <1>1, <1>2, <1>3, <1>4, <1>5, <1>6, <1>7, <1>8 DEF World

LEMMA TypeIsKept == TypeOK /\ [Next]_vars => TypeOK'
<1> SUFFICES ASSUME TypeOK, [Next]_vars PROVE TypeOK'
  OBVIOUS
<1>1. CASE Main BY <1>1, MainKeepsType
<1>2. CASE Input BY <1>2, InputKeepsType
<1>3. ASSUME NEW p \in Outputs, Output(p) PROVE TypeOK'
  BY <1>3, OutputKeepsType
<1>4. CASE World BY <1>4, WorldKeepsType
<1>5. CASE UNCHANGED vars
  BY <1>5 DEF TypeOK, Working, vars, mainVars, inputVars, outVars, wakeVars,
              termVars, agentVars, history
<1> QED
  BY <1>1, <1>2, <1>3, <1>4, <1>5 DEF Next, World

-----------------------------------------------------------------------------
(* The threads' own steps change little of what the invariant is about; the *)
(* three lemmas have one case per action that does.                         *)
LEMMA AnnouncedIsKept == TypeOK /\ Announced /\ [Next]_vars => Announced'
<1> SUFFICES ASSUME TypeOK, Announced, [Next]_vars PROVE Announced'
  OBVIOUS
<1> USE DEF Announced, Heard, Checking, Ending, mainVars, inputVars, outVars,
            wakeVars, termVars, agentVars, history
<1>1. CASE Main
  BY <1>1 DEF Main, MainSpawns, MainRegisters, MainCreatesHandlers,
      MainSelects, MainResets, MainReadsSize, MainResizes, MainChecks,
      MainFrees, MainStopsInput, MainWakesInput, MainJoins, AnyCompleted
<1>2. CASE Input
  BY <1>2 DEF Input, InputResets, InputChecks, InputSelects, InputReads,
      InputWrites, InputCompletes, InputNotifies
<1>3. ASSUME NEW p \in Outputs, Output(p) PROVE Announced'
  BY <1>3 DEF TypeOK, Output, OutputReads, OutputWrites, OutputCompletes,
      OutputNotifies
<1>4. CASE World
  BY <1>4 DEF World, Resize, Type, HangUp, ChildExits, AgentExits, ChildShows,
      AgentWrites, AgentCloses
<1>5. CASE UNCHANGED vars
  BY <1>5 DEF vars
<1> QED
  BY <1>1, <1>2, <1>3, <1>4, <1>5 DEF Next, World

LEMMA SizeIsKept == TypeOK /\ SizeKnown /\ [Next]_vars => SizeKnown'
<1> SUFFICES ASSUME TypeOK, SizeKnown, [Next]_vars PROVE SizeKnown'
  OBVIOUS
<1> USE DEF SizeKnown, Ending, mainVars, inputVars, outVars, wakeVars,
            termVars, agentVars, history
<1>1. CASE Main
  BY <1>1 DEF Main, MainSpawns, MainRegisters, MainCreatesHandlers,
      MainSelects, MainResets, MainReadsSize, MainResizes, MainChecks,
      MainFrees, MainStopsInput, MainWakesInput, MainJoins
<1>2. CASE Input
  BY <1>2 DEF Input, InputResets, InputChecks, InputSelects, InputReads,
      InputWrites, InputCompletes, InputNotifies
<1>3. ASSUME NEW p \in Outputs, Output(p) PROVE SizeKnown'
  BY <1>3 DEF Output, OutputReads, OutputWrites, OutputCompletes,
      OutputNotifies
<1>4. CASE World
  BY <1>4 DEF TypeOK, World, Resize, Type, HangUp, ChildExits, AgentExits,
      ChildShows, AgentWrites, AgentCloses
<1>5. CASE UNCHANGED vars
  BY <1>5 DEF vars
<1> QED
  BY <1>1, <1>2, <1>3, <1>4, <1>5 DEF Next, World

LEMMA ShutdownIsKept == ShutdownKnown /\ [Next]_vars => ShutdownKnown'
<1> SUFFICES ASSUME ShutdownKnown, [Next]_vars PROVE ShutdownKnown'
  OBVIOUS
<1> USE DEF ShutdownKnown, mainVars, inputVars, outVars, wakeVars, termVars,
            agentVars, history
<1>1. CASE Main
  BY <1>1 DEF Main, MainSpawns, MainRegisters, MainCreatesHandlers,
      MainSelects, MainResets, MainReadsSize, MainResizes, MainChecks,
      MainFrees, MainStopsInput, MainWakesInput, MainJoins
<1>2. CASE Input
  BY <1>2 DEF Input, InputResets, InputChecks, InputSelects, InputReads,
      InputWrites, InputCompletes, InputNotifies
<1>3. ASSUME NEW p \in Outputs, Output(p) PROVE ShutdownKnown'
  BY <1>3 DEF Output, OutputReads, OutputWrites, OutputCompletes,
      OutputNotifies
<1>4. CASE World
  BY <1>4 DEF World, Resize, Type, HangUp, ChildExits, AgentExits,
      ChildShows, AgentWrites, AgentCloses
<1>5. CASE UNCHANGED vars
  BY <1>5 DEF vars
<1> QED
  BY <1>1, <1>2, <1>3, <1>4, <1>5 DEF Next, World

-----------------------------------------------------------------------------
(* The inductive invariant holds in every reachable state.                  *)
THEOREM AdapterInvariance == Spec => []IInv
<1>1. Init => IInv
  BY InitIsTyped DEF Init, IInv, Announced, SizeKnown, ShutdownKnown, Ending
<1>2. IInv /\ [Next]_vars => IInv'
  BY TypeIsKept, AnnouncedIsKept, SizeIsKept, ShutdownIsKept DEF IInv
<1> QED
  BY <1>1, <1>2, PTL DEF Spec

(* The main thread never sleeps on a handler's end or on a signalled resize *)
(* (main, WakeupFd::set and reset, the handlers' threadProc).               *)
THEOREM NoWakeupIsLost == Spec => []NoWakeupLost
<1>1. IInv => NoWakeupLost
  BY DEF IInv, Announced, SizeKnown, Heard, Checking, Ending, NoWakeupLost
<1> QED
  BY <1>1, AdapterInvariance, PTL

(* The input handler never sleeps through InputHandler::startShutdown.      *)
THEOREM ShutdownIsHeard == Spec => []InputHearsShutdown
<1>1. IInv => InputHearsShutdown
  BY DEF IInv, ShutdownKnown, InputHearsShutdown
<1> QED
  BY <1>1, AdapterInvariance, PTL

-----------------------------------------------------------------------------
(* Where the output is until the session is over.  Nothing disturbs a       *)
(* session that was disturbed before.                                       *)
LEMMA UndisturbedBefore ==
  (lost => agent = "down") /\ [Next]_vars
    => (lost' => agent' = "down") /\ (Undisturbed' /\ ~Failed' => Undisturbed /\ ~Failed)
<1> DEFINE Before ==
      (lost' => agent' = "down") /\ (Undisturbed' /\ ~Failed' => Undisturbed /\ ~Failed)
<1> SUFFICES ASSUME lost => agent = "down", [Next]_vars PROVE Before
  OBVIOUS
<1> USE DEF Undisturbed, Failed, mainVars, inputVars, outVars, wakeVars, termVars,
            agentVars, history
<1>1. CASE Main
  BY <1>1 DEF Main, MainSpawns, MainRegisters, MainCreatesHandlers,
      MainSelects, MainResets, MainReadsSize, MainResizes, MainChecks,
      MainFrees, MainStopsInput, MainWakesInput, MainJoins
<1>2. CASE Input
  BY <1>2 DEF Input, InputResets, InputChecks, InputSelects, InputReads,
      InputWrites, InputCompletes, InputNotifies
<1>3. ASSUME NEW p \in Outputs, Output(p) PROVE Before
  BY <1>3 DEF Output, OutputReads, OutputWrites, OutputCompletes,
      OutputNotifies
<1>4. CASE AgentExits
  BY <1>4 DEF AgentExits
<1>5. CASE World /\ ~AgentExits
  BY <1>5 DEF World, Resize, Type, HangUp, ChildExits, ChildShows, AgentWrites,
      AgentCloses
<1>6. CASE UNCHANGED vars
  BY <1>6 DEF vars
<1> QED
  BY <1>1, <1>2, <1>3, <1>4, <1>5, <1>6 DEF Next, World

LEMMA MainKeepsFlow ==
  TypeOK /\ Undisturbed /\ ~Failed' /\ FlowParts /\ Main => FlowParts'
<1> SUFFICES ASSUME TypeOK, Undisturbed, ~Failed', FlowParts, Main PROVE FlowParts'
  OBVIOUS
<1>1. UNCHANGED <<buffer, written, shown, queued, pipe, conClosed, outCompleted,
                  inputCompleted, typed>>
  BY DEF Main, MainSpawns, MainRegisters, MainCreatesHandlers, MainSelects,
     MainResets, MainReadsSize, MainResizes, MainChecks, MainFrees,
     MainStopsInput, MainWakesInput, MainJoins, outVars, termVars, agentVars,
     inputVars
<1>2. CASE MainSpawns
  <2>1. /\ main = "start" /\ main' = "register"
        /\ UNCHANGED <<input, out, freed, shouldShutdown, agent>>
        /\ child' = "running"
    BY <1>2 DEF MainSpawns, Failed, inputVars, outVars, wakeVars
  <2>2. child = "none"
    BY <2>1 DEF FlowParts, NotStarted
  <2>3. NotStarted' /\ InputAtHand' /\ EndsInOrder'
    BY <1>1, <2>1 DEF FlowParts, NotStarted, InputAtHand, EndsInOrder, Freeing
  <2>4. \A p \in Outputs : ~conClosed[p]
    BY <2>2 DEF FlowParts, Flow
  <2>5. Flow'
    BY <1>1, <2>1, <2>4 DEF FlowParts, Flow
  <2>6. ~Over'
    <3>1. ~Over
      BY <2>2 DEF FlowParts, EndMeansDrained, Drained
    <3>2. QED BY <1>1, <2>1, <3>1 DEF Over, Freeing
  <2>7. QED BY <2>3, <2>5, <2>6 DEF FlowParts, EndMeansDrained
<1>3. CASE MainCreatesHandlers
  <2>1. /\ main = "create" /\ main' = "select" /\ input' = "reset"
        /\ out' = [p \in Outputs |-> "read"]
        /\ UNCHANGED <<freed, shouldShutdown, child, agent>>
    BY <1>3 DEF MainCreatesHandlers, wakeVars, agentVars
  <2>2. NotStarted' /\ InputAtHand' /\ EndsInOrder'
    BY <1>1, <2>1 DEF FlowParts, NotStarted, InputAtHand, EndsInOrder, Freeing
  <2>3. Flow'
    BY <1>1, <2>1 DEF FlowParts, Flow, NotStarted
  <2>4. EndMeansDrained'
    <3>1. Over' => Over
      BY <1>1, <2>1 DEF Over, Freeing, Working
    <3>2. Drained' <=> Drained
      BY <1>1, <2>1 DEF Drained
    <3>3. QED BY <3>1, <3>2 DEF FlowParts, EndMeansDrained
  <2>5. QED BY <2>2, <2>3, <2>4 DEF FlowParts
<1>4. CASE ~MainSpawns /\ ~MainCreatesHandlers
  <2>1. UNCHANGED <<input, out, child, agent>>
    BY <1>4 DEF Main, MainRegisters, MainSelects, MainResets, MainReadsSize,
       MainResizes, MainChecks, MainFrees, MainStopsInput, MainWakesInput,
       MainJoins, inputVars, outVars, agentVars
  <2>2. NotStarted' /\ InputAtHand'
    BY <1>1, <1>4, <2>1 DEF FlowParts, NotStarted, InputAtHand, Failed, Main,
       MainRegisters, MainSelects, MainResets, MainReadsSize, MainResizes,
       MainChecks, MainFrees, MainStopsInput, MainWakesInput, MainJoins
  <2>3. EndsInOrder'
    BY <1>4, <2>1 DEF FlowParts, EndsInOrder, Freeing, Main, MainRegisters,
       MainSelects, MainResets, MainReadsSize, MainResizes, MainChecks,
       MainFrees, MainStopsInput, MainWakesInput, MainJoins, wakeVars, agentVars
  <2>4. Flow'
    BY <1>1, <2>1 DEF FlowParts, Flow
  <2>5. EndMeansDrained'
    <3>1. Over' => Over
      BY <1>1, <1>4, <2>1 DEF Over, Freeing, AnyCompleted, Main, MainRegisters,
         MainSelects, MainResets, MainReadsSize, MainResizes, MainChecks,
         MainFrees, MainStopsInput, MainWakesInput, MainJoins
    <3>2. Drained' <=> Drained
      BY <1>1, <2>1 DEF Drained
    <3>3. QED BY <3>1, <3>2 DEF FlowParts, EndMeansDrained
  <2>6. QED BY <2>2, <2>3, <2>4, <2>5 DEF FlowParts
<1>5. QED BY <1>2, <1>3, <1>4

LEMMA InputKeepsFlow ==
  TypeOK /\ Undisturbed /\ FlowParts /\ Input => FlowParts'
<1> SUFFICES ASSUME TypeOK, Undisturbed, FlowParts, Input PROVE FlowParts'
  OBVIOUS
<1>1. UNCHANGED <<main, freed, shouldShutdown, agent, child, out, outCompleted,
                  buffer, written, shown, queued, pipe, conClosed>>
  BY DEF Input, InputResets, InputChecks, InputSelects, InputReads, InputWrites,
     InputCompletes, InputNotifies, mainVars, outVars, wakeVars, termVars,
     agentVars
<1>2. input # "unborn"
  BY DEF Input, InputResets, InputChecks, InputSelects, InputReads, InputWrites,
     InputCompletes, InputNotifies
<1>3. NotStarted' /\ EndsInOrder' /\ Flow'
  BY <1>1, <1>2 DEF FlowParts, NotStarted, EndsInOrder, Flow
<1>4. InputAtHand'
  BY DEF Undisturbed, TypeOK, FlowParts, InputAtHand, StdinReady, Input,
     InputResets, InputChecks, InputSelects, InputReads, InputWrites,
     InputCompletes, InputNotifies, termVars
<1>5. Over' => Over
  <2>1. CASE InputChecks
    BY <1>1, <2>1 DEF InputChecks, FlowParts, EndsInOrder, Over, Freeing,
       Working, inputVars
  <2>2. CASE InputReads
    <3>1. typed > 0 /\ input' = "write" /\ inputCompleted' = inputCompleted
      BY <2>2 DEF InputReads, FlowParts, InputAtHand
    <3>2. QED BY <1>1, <3>1 DEF Over, Working
  <2>3. CASE InputWrites
    <3>1. agent = "down" => main \in Freeing
      BY <1>2 DEF FlowParts, EndsInOrder, NotStarted
    <3>2. QED BY <1>1, <2>3, <3>1, Zenon DEF InputWrites, Over, Working, TypeOK
  <2>4. CASE InputResets \/ InputSelects
    BY <1>1, <2>4 DEF InputResets, InputSelects, Over, Working
  <2>5. CASE InputCompletes \/ InputNotifies
    BY <2>5 DEF InputCompletes, InputNotifies, Over, Working
  <2>6. QED BY <2>1, <2>2, <2>3, <2>4, <2>5 DEF Input
<1>6. Drained' <=> Drained
  BY <1>1 DEF Drained
<1>7. QED BY <1>3, <1>4, <1>5, <1>6 DEF FlowParts, EndMeansDrained

(* An output handler completes only at the end of the stream: the pipe is   *)
(* empty and closed by an agent whose child has exited.  With one output    *)
(* pipe that is all the output there is.                                    *)
LEMMA OutputKeepsFlow ==
  ASSUME TypeOK, Undisturbed, FlowParts, Alone, NEW p \in Outputs, Output(p)
  PROVE  FlowParts'
<1>1. UNCHANGED <<main, freed, shouldShutdown, agent, child, input, typed,
                  inputCompleted, shown, queued, conClosed>>
  BY DEF Output, OutputReads, OutputWrites, OutputCompletes, OutputNotifies,
     mainVars, inputVars, wakeVars, termVars, agentVars
<1>2. out[p] # "unborn"
  BY DEF Output, OutputReads, OutputWrites, OutputCompletes, OutputNotifies
<1>3. NotStarted' /\ InputAtHand' /\ EndsInOrder'
  BY <1>1, <1>2 DEF FlowParts, NotStarted, InputAtHand, EndsInOrder
<1>4. \A q \in Outputs : q = p
  BY DEF Alone
<1>5. CASE OutputReads(p) /\ pipe[p] > 0
  <2>1. /\ buffer' = [buffer EXCEPT ![p] = pipe[p]]
        /\ pipe' = [pipe EXCEPT ![p] = 0]
        /\ out' = [out EXCEPT ![p] = "write"]
        /\ UNCHANGED <<written, outCompleted>>
    BY <1>5 DEF OutputReads, termVars
  <2>2. buffer[p] = 0
    BY <1>5 DEF OutputReads, FlowParts, Flow
  <2>3. Flow'
    BY <1>1, <2>1, <2>2 DEF TypeOK, FlowParts, Flow
  <2>4. ~Over'
    <3>1. ~Over
      BY <1>5 DEF FlowParts, EndMeansDrained, Drained
    <3>2. QED BY <1>1, <2>1, <3>1 DEF TypeOK, Over, Working
  <2>5. QED BY <1>3, <2>3, <2>4 DEF FlowParts, EndMeansDrained
<1>6. CASE OutputReads(p) /\ ~(pipe[p] > 0)
  <2>1. /\ pipe[p] = 0 /\ conClosed[p] /\ out[p] = "read"
        /\ out' = [out EXCEPT ![p] = "complete"]
        /\ UNCHANGED <<written, buffer, pipe, outCompleted>>
    BY <1>6 DEF OutputReads, termVars
  <2>2. Drained
    BY <1>4, <2>1 DEF FlowParts, Flow, Drained
  <2>3. Drained'
    BY <1>1, <2>1, <2>2 DEF Drained
  <2>4. Flow'
    BY <1>1, <2>1 DEF TypeOK, FlowParts, Flow
  <2>5. QED BY <1>3, <2>3, <2>4 DEF FlowParts, EndMeansDrained
<1>7. CASE OutputWrites(p)
  <2>1. /\ out[p] = "write"
        /\ buffer' = [buffer EXCEPT ![p] = 0]
        /\ written' = [written EXCEPT ![p] = @ + buffer[p]]
        /\ out' = [out EXCEPT ![p] = "read"]
        /\ UNCHANGED <<pipe, outCompleted>>
    BY <1>7 DEF OutputWrites, Undisturbed, agentVars
  <2>2. Flow'
    BY <1>1, <2>1 DEF TypeOK, FlowParts, Flow
  <2>3. Over' => Over
    BY <1>1, <2>1 DEF TypeOK, Over, Working
  <2>4. Drained => Drained'
    BY <1>1, <2>1 DEF TypeOK, Drained
  <2>5. QED BY <1>3, <2>2, <2>3, <2>4 DEF FlowParts, EndMeansDrained
<1>8. CASE OutputCompletes(p) \/ OutputNotifies(p)
  <2>1. /\ out[p] \in {"complete", "notify"}
        /\ out' \in {[out EXCEPT ![p] = "notify"], [out EXCEPT ![p] = "exited"]}
        /\ UNCHANGED <<written, buffer, pipe>>
    BY <1>8 DEF OutputCompletes, OutputNotifies, termVars, agentVars
  <2>2. Flow'
    BY <1>1, <2>1 DEF TypeOK, FlowParts, Flow
  <2>3. Drained'
    <3>1. Over
      BY <2>1 DEF Over, Working
    <3>2. QED BY <1>1, <2>1, <3>1 DEF FlowParts, EndMeansDrained, Drained
  <2>4. QED BY <1>3, <2>2, <2>3 DEF FlowParts, EndMeansDrained
<1>9. QED BY <1>5, <1>6, <1>7, <1>8 DEF Output

LEMMA WorldKeepsFlow ==
  TypeOK /\ Undisturbed' /\ FlowParts /\ World => FlowParts'
<1> SUFFICES ASSUME TypeOK, Undisturbed', FlowParts, World PROVE FlowParts'
  OBVIOUS
<1>1. UNCHANGED <<main, freed, shouldShutdown, out, outCompleted,
                  inputCompleted, buffer, written>>
  BY DEF World, Resize, Type, HangUp, ChildExits, AgentExits, ChildShows,
     AgentWrites, AgentCloses, mainVars, inputVars, outVars, wakeVars,
     termVars, agentVars
<1>2. CASE Resize \/ Type \/ HangUp
  <2>1. UNCHANGED <<agent, child, shown, queued, pipe, conClosed>>
    BY <1>2 DEF Resize, Type, HangUp, agentVars
  <2>2. /\ input' = input \/ (input \in {"select", "read"} /\ input' = "reset")
        /\ typed' \in Nat /\ typed' >= typed
    BY <1>2 DEF TypeOK, Resize, Type, HangUp, inputVars, termVars
  <2>3. NotStarted' /\ EndsInOrder' /\ Flow'
    BY <1>1, <2>1, <2>2 DEF FlowParts, NotStarted, EndsInOrder, Flow
  <2>4. InputAtHand'
    BY <2>2 DEF TypeOK, FlowParts, InputAtHand
  <2>5. EndMeansDrained'
    <3>1. Over' => Over
      BY <1>1, <2>2 DEF Over, Working
    <3>2. Drained' <=> Drained
      BY <1>1, <2>1 DEF Drained
    <3>3. QED BY <3>1, <3>2 DEF FlowParts, EndMeansDrained
  <2>6. QED BY <2>3, <2>4, <2>5 DEF FlowParts
<1>3. CASE ~(Resize \/ Type \/ HangUp)
  <2>1. UNCHANGED <<input, typed>>
    BY <1>3 DEF World, ChildExits, AgentExits, ChildShows, AgentWrites,
       AgentCloses, inputVars, termVars
  <2>2. InputAtHand' /\ (Over' <=> Over)
    BY <1>1, <2>1 DEF FlowParts, InputAtHand, Over
  <2>3. CASE AgentExits
    <3>1. /\ agent' = "down" /\ freed /\ UNCHANGED <<shown, pipe>>
          /\ queued' = [q \in Outputs |-> 0]
          /\ conClosed' = [q \in Outputs |-> TRUE]
          /\ child' = IF child = "running" THEN "killed" ELSE child
      BY <2>3 DEF AgentExits, Undisturbed
    <3>2. Drained /\ main \in Freeing
      BY <3>1 DEF FlowParts, EndsInOrder, EndMeansDrained, Over
    <3>3. child' = "exited"
      BY <3>1, <3>2 DEF Drained
    <3>4. Drained'
      BY <1>1, <3>1, <3>2, <3>3 DEF Drained
    <3>5. NotStarted' /\ EndsInOrder'
      BY <1>1, <3>1, <3>2 DEF FlowParts, NotStarted, EndsInOrder, Freeing
    <3>6. Flow'
      BY <1>1, <3>1, <3>2, <3>3 DEF FlowParts, Flow, Drained
    <3>7. QED BY <2>2, <3>4, <3>5, <3>6 DEF FlowParts, EndMeansDrained
  <2>4. CASE ChildExits
    <3>1. /\ child = "running" /\ child' = "exited"
          /\ UNCHANGED <<agent, shown, queued, pipe, conClosed>>
      BY <2>4 DEF ChildExits
    <3>2. ~Over /\ main # "start"
      BY <3>1 DEF FlowParts, EndMeansDrained, Drained, NotStarted
    <3>3. NotStarted' /\ EndsInOrder' /\ Flow'
      BY <1>1, <2>1, <3>1, <3>2 DEF FlowParts, NotStarted, EndsInOrder, Flow
    <3>4. QED BY <2>2, <3>2, <3>3 DEF FlowParts, EndMeansDrained
  <2>5. ASSUME NEW p \in Outputs, ChildShows(p) \/ AgentWrites(p) \/ AgentCloses(p)
        PROVE  FlowParts'
    <3>1. UNCHANGED <<agent, child>>
      BY <2>5 DEF ChildShows, AgentWrites, AgentCloses
    <3>2. NotStarted' /\ EndsInOrder'
      BY <1>1, <2>1, <3>1 DEF FlowParts, NotStarted, EndsInOrder
    <3>3. CASE ChildShows(p)
      <4>1. /\ child = "running"
            /\ shown' = [shown EXCEPT ![p] = @ + 1]
            /\ queued' = [queued EXCEPT ![p] = @ + 1]
            /\ UNCHANGED <<pipe, conClosed>>
        BY <3>3 DEF ChildShows
      <4>2. ~Over
        BY <4>1 DEF FlowParts, EndMeansDrained, Drained
      <4>3. Flow'
        BY <1>1, <3>1, <4>1 DEF TypeOK, FlowParts, Flow
      <4>4. QED BY <2>2, <3>2, <4>2, <4>3 DEF FlowParts, EndMeansDrained
    <3>4. CASE AgentWrites(p)
      <4>1. /\ queued[p] > 0
            /\ queued' = [queued EXCEPT ![p] = @ - 1]
            /\ pipe' = [pipe EXCEPT ![p] = @ + 1]
            /\ UNCHANGED <<shown, conClosed>>
        BY <3>4 DEF AgentWrites
      <4>2. ~Over
        BY <4>1 DEF FlowParts, EndMeansDrained, Drained
      <4>3. Flow'
        BY <1>1, <3>1, <4>1 DEF TypeOK, FlowParts, Flow
      <4>4. QED BY <2>2, <3>2, <4>2, <4>3 DEF FlowParts, EndMeansDrained
    <3>5. CASE AgentCloses(p)
      <4>1. /\ child = "exited" /\ queued[p] = 0
            /\ conClosed' = [conClosed EXCEPT ![p] = TRUE]
            /\ UNCHANGED <<shown, queued, pipe>>
        BY <3>5 DEF AgentCloses
      <4>2. Flow'
        BY <1>1, <3>1, <4>1 DEF TypeOK, FlowParts, Flow
      <4>3. Drained' <=> Drained
        BY <1>1, <3>1, <4>1 DEF Drained
      <4>4. QED BY <2>2, <3>2, <4>2, <4>3 DEF FlowParts, EndMeansDrained
    <3>6. QED BY <2>5, <3>3, <3>4, <3>5
  <2>6. QED BY <1>3, <2>3, <2>4, <2>5 DEF World
<1>4. QED BY <1>2, <1>3

LEMMA FlowIsKept ==
  Alone /\ TypeOK /\ FlowInv /\ [Next]_vars => FlowInv'
<1> SUFFICES ASSUME Alone, TypeOK, FlowInv, [Next]_vars PROVE FlowInv'
  OBVIOUS
<1>1. /\ lost' => agent' = "down"
      /\ Undisturbed' /\ ~Failed' => Undisturbed /\ ~Failed
  BY UndisturbedBefore DEF FlowInv
<1>2. ASSUME Undisturbed', ~Failed' PROVE FlowParts'
  <2>1. Undisturbed /\ FlowParts
    BY <1>1, <1>2 DEF FlowInv
  <2>2. CASE Main
    BY <1>2, <2>1, <2>2, MainKeepsFlow
  <2>3. CASE Input
    BY <2>1, <2>3, InputKeepsFlow
  <2>4. ASSUME NEW p \in Outputs, Output(p) PROVE FlowParts'
    BY <2>1, <2>4, OutputKeepsFlow
  <2>5. CASE World
    BY <1>2, <2>1, <2>5, WorldKeepsFlow
  <2>6. CASE UNCHANGED vars
    <3>1. UNCHANGED <<main, freed, shouldShutdown, out, outCompleted, input,
                      inputCompleted, typed, agent, child, buffer, written,
                      shown, queued, pipe, conClosed>>
      BY <2>6 DEF vars, mainVars, inputVars, outVars, wakeVars, termVars,
         agentVars
    <3>2. QED BY <2>1, <3>1 DEF FlowParts, NotStarted, InputAtHand,
              EndsInOrder, Flow, EndMeansDrained, Over, Drained
  <2>7. QED BY <2>2, <2>3, <2>4, <2>5, <2>6 DEF Next, World
<1>3. QED BY <1>1, <1>2 DEF FlowInv

(* An undisturbed session with one output pipe ends with the child's exit   *)
(* and with all its output on the terminal (main's order: the handler's     *)
(* end, winpty_free, join).                                                 *)
LEMMA InitFlows == Init => FlowInv
BY DEF Init, FlowInv, FlowParts, NotStarted, InputAtHand, EndsInOrder, Flow,
   EndMeansDrained, Over, Freeing, Working

LEMMA FlowIsComplete == TypeOK /\ FlowInv => OutputComplete
<1> SUFFICES ASSUME TypeOK, FlowInv, main = "done", Undisturbed
             PROVE  child = "exited" /\ \A p \in Outputs : written[p] = shown[p]
  BY DEF OutputComplete, Undisturbed
<1>1. Drained /\ Flow
  BY DEF FlowInv, Failed, FlowParts, EndMeansDrained, Over, Freeing
<1>2. QED BY <1>1 DEF TypeOK, Drained, Flow

THEOREM OutputIsComplete == Alone => (Spec => []OutputComplete)
<1> SUFFICES ASSUME Alone PROVE Spec => []OutputComplete
  OBVIOUS
<1>1. TypeOK /\ FlowInv /\ [Next]_vars => FlowInv'
  BY FlowIsKept
<1>2. IInv => TypeOK
  BY DEF IInv
<1>3. QED
  BY <1>1, <1>2, InitFlows, FlowIsComplete, AdapterInvariance, PTL DEF Spec

-----------------------------------------------------------------------------
(* winpty.exe from its arguments to its end.  Where the main thread is while *)
(* main() does something else, and what the threads are before they start.  *)
Stages ==
  /\ step \in {"arguments", "open", "connect", "program", "keys"} => main = "start"
  /\ step = "spawn" => main \in {"start", "register"}
  /\ step \in {"raw", "set"} => main \in {"start", "create"}
  /\ step = "restore" => main \in {"start", "done"}
  /\ main \in {"start", "register", "create", "failed"} =>
       input = "unborn" /\ \A p \in Outputs : out[p] = "unborn"

(* Outside the threads main() leaves what they share alone, but for         *)
(* debugShowKey, which reads the terminal, and exit() and abort().          *)
Leaves ==
  \/ /\ main' = (IF main = "done" THEN main ELSE "failed")
     /\ agent' = IF step \in {"arguments", "showkey", "open"} THEN "down" ELSE agent
  \/ /\ main' = "aborted"
     /\ agent' = IF step = "open" THEN "down" ELSE agent

LeavesThreads ==
  /\ step \in {"arguments", "open", "connect", "program", "raw", "set", "restore"}
  /\ freed' = TRUE
  /\ Leaves
  /\ UNCHANGED <<sz, registered, inputVars, outVars, wakeVars, termVars, consoleSize,
                 child, shown, queued, pipe, conClosed, history>>

TakesKeys ==
  /\ step = "keys" /\ typed' = 0
  /\ UNCHANGED <<mainVars, inputVars, outVars, wakeVars, term, resizes, stdin, written,
                 stdout, agentVars, history>>

LEMMA AdapterSteps ==
  [AdapterNext]_allVars => [Next]_vars \/ LeavesThreads \/ TakesKeys
<1> SUFFICES ASSUME [AdapterNext]_allVars
             PROVE  [Next]_vars \/ LeavesThreads \/ TakesKeys
  OBVIOUS
<1>1. CASE Arguments \/ Open \/ Connect \/ CommandLine
  BY <1>1 DEF Arguments, Open, Connect, CommandLine, Exit, Abort, LeavesThreads, Leaves
<1>2. CASE Spawn \/ Threads
  BY <1>2 DEF Spawn, Threads, Next, Main
<1>3. CASE SaveModes \/ SetMode \/ ModesSet \/ RestoreMode \/ Return
  BY <1>3 DEF SaveModes, SetMode, ModesSet, RestoreMode, Return, Exit, LeavesThreads, Leaves
<1>4. CASE ShowKeys
  BY <1>4 DEF ShowKeys, TakesKeys
<1>5. CASE Others
  BY <1>5 DEF Others, Next
<1>6. CASE UNCHANGED allVars
  BY <1>6 DEF allVars
<1>7. QED BY <1>1, <1>2, <1>3, <1>4, <1>5, <1>6 DEF AdapterNext, Setup, SetModes, Ends

(* The main thread's place fits main()'s, and no thread runs before.        *)
LEMMA OthersKeepPlace ==
  ASSUME Others
  PROVE  /\ UNCHANGED <<step, main>>
         /\ input = "unborn" => input' = "unborn"
         /\ (\A p \in Outputs : out[p] = "unborn") => \A p \in Outputs : out'[p] = "unborn"
<1> USE DEF mainOnly, setupVars, modeVars, mainVars, inputVars, outVars
<1>1. step' = step
  BY DEF Others
<1>2. CASE Input
  BY <1>1, <1>2 DEF Input, InputResets, InputChecks, InputSelects, InputReads, InputWrites,
     InputCompletes, InputNotifies
<1>3. ASSUME NEW p \in Outputs, Output(p)
      PROVE  /\ main' = main /\ input' = input
             /\ out[p] # "unborn"
  BY <1>3 DEF Output, OutputReads, OutputWrites, OutputCompletes, OutputNotifies
<1>4. CASE Resize \/ Type \/ HangUp \/ ChildExits \/ AgentExits
  BY <1>1, <1>4 DEF Resize, Type, HangUp, ChildExits, AgentExits
<1>5. ASSUME NEW p \in Outputs, ChildShows(p) \/ AgentWrites(p) \/ AgentCloses(p)
      PROVE  UNCHANGED <<main, input, out>>
  BY <1>5 DEF ChildShows, AgentWrites, AgentCloses
<1>6. QED BY <1>1, <1>2, <1>3, <1>4, <1>5 DEF Others

LEMMA StagesAreKept == Stages /\ [AdapterNext]_allVars => Stages'
<1> SUFFICES ASSUME Stages, [AdapterNext]_allVars PROVE Stages'
  OBVIOUS
<1> USE DEF Stages
<1>1. CASE Arguments \/ Open \/ Connect \/ CommandLine
  BY <1>1 DEF Arguments, Open, Connect, CommandLine, Exit, Abort, vars, mainVars, inputVars,
     outVars
<1>2. CASE Spawn
  BY <1>2 DEF Spawn, MainSpawns, MainRegisters, inputVars, outVars
<1>3. CASE SaveModes \/ SetMode \/ ModesSet \/ RestoreMode \/ Return
  BY <1>3 DEF SaveModes, SetMode, ModesSet, RestoreMode, Return, Exit, ShowsKeys, vars,
     mainVars, inputVars, outVars
<1>4. CASE ShowKeys
  BY <1>4 DEF ShowKeys, mainVars, inputVars, outVars
<1>5. CASE Threads
  BY <1>5 DEF Threads, MainCreatesHandlers, MainSelects, MainResets, MainReadsSize,
     MainResizes, MainChecks, MainFrees, MainStopsInput, MainWakesInput, MainJoins
<1>6. CASE Others
  BY <1>6, OthersKeepPlace
<1>7. CASE UNCHANGED allVars
  BY <1>7 DEF allVars, mainOnly, vars, mainVars, inputVars, outVars
<1>8. QED BY <1>1, <1>2, <1>3, <1>4, <1>5, <1>6, <1>7 DEF AdapterNext, Setup, SetModes, Ends

(* Where main() leaves the threads alone there are none, or they are all    *)
(* done: their invariant is not disturbed.                                  *)
LEMMA LeavingKeepsInv ==
  ASSUME IInv, Stages, LeavesThreads \/ TakesKeys
  PROVE  IInv'
<1> USE DEF mainVars, inputVars, outVars, wakeVars, termVars, agentVars, history
<1>1. CASE TakesKeys
  BY <1>1 DEF IInv, TypeOK, Working, Announced, Heard, Checking, Ending, SizeKnown,
     ShutdownKnown, TakesKeys
<1>2. CASE LeavesThreads
  <2>1. main \in {"start", "register", "create", "done"}
    BY <1>2 DEF Stages, LeavesThreads
  <2>2. /\ \/ main # "done" /\ main' = "failed"
           \/ main' = "aborted"
           \/ main = "done" /\ main' = "done"
        /\ agent' = agent \/ agent' = "down"
        /\ freed' = TRUE
    BY <1>2, <2>1 DEF LeavesThreads, Leaves
  <2>3. UNCHANGED <<sz, registered, inputVars, outVars, wakeVars, termVars, consoleSize,
                    child, shown, queued, pipe, conClosed, history>>
    BY <1>2 DEF LeavesThreads
  <2>4. TypeOK'
    BY <2>2, <2>3 DEF IInv, TypeOK, Working
  <2>5. Announced'
    <3>1. CASE main = "done"
      BY <2>2, <2>3, <3>1 DEF IInv, Announced, Heard, Checking, Ending
    <3>2. CASE main # "done"
      BY <2>1, <2>3, <3>2 DEF Stages, Announced
    <3>3. QED BY <3>1, <3>2
  <2>6. SizeKnown' /\ ShutdownKnown'
    BY <2>1, <2>2, <2>3 DEF IInv, SizeKnown, ShutdownKnown, Ending
  <2>7. QED BY <2>4, <2>5, <2>6 DEF IInv
<1>3. QED BY <1>1, <1>2

LEMMA LeavingKeepsFlow ==
  ASSUME FlowInv, Stages, LeavesThreads \/ TakesKeys
  PROVE  FlowInv'
<1> USE DEF mainVars, inputVars, outVars, wakeVars, termVars, agentVars, history
<1>1. CASE TakesKeys
  BY <1>1 DEF TakesKeys, Stages, FlowInv, Failed, Undisturbed, FlowParts, NotStarted,
     InputAtHand, EndsInOrder, Flow, EndMeansDrained, Over, Drained
<1>2. CASE LeavesThreads
  <2>1. /\ main' \in {"failed", "aborted"}
           \/ (main = "done" /\ main' = "done" /\ step = "restore")
        /\ agent' = agent \/ agent' = "down"
        /\ step = "restore" => agent' = agent \/ main' = "aborted"
        /\ freed' = TRUE
    BY <1>2 DEF LeavesThreads, Leaves, Stages
  <2>2. UNCHANGED <<sz, registered, inputVars, outVars, wakeVars, termVars, consoleSize,
                    child, shown, queued, pipe, conClosed, history>>
    BY <1>2 DEF LeavesThreads
  <2>3. lost' => agent' = "down"
    BY <2>1, <2>2 DEF FlowInv
  <2>4. CASE Failed'
    BY <2>3, <2>4 DEF FlowInv
  <2>5. CASE ~Failed'
    <3>1. main = "done" /\ main' = "done" /\ agent' = agent
      BY <2>1, <2>5 DEF Failed
    <3>2. ASSUME Undisturbed' PROVE FlowParts'
      <4>1. FlowParts
        BY <2>2, <3>1, <3>2 DEF FlowInv, Failed, Undisturbed
      <4>2. QED BY <2>1, <2>2, <3>1, <4>1 DEF FlowParts, NotStarted, InputAtHand,
              EndsInOrder, Freeing, Flow, EndMeansDrained, Over, Drained
    <3>3. QED BY <2>3, <3>2 DEF FlowInv
  <2>6. QED BY <2>4, <2>5
<1>3. QED BY <1>1, <1>2

(* The threads' invariant holds from the start of the program to its end.   *)
THEOREM MainInvariance == AdapterSpec => [](IInv /\ Stages)
<1>1. AdapterInit => IInv /\ Stages
  BY InitIsTyped DEF AdapterInit, Init, IInv, Announced, SizeKnown, ShutdownKnown, Ending,
     Stages
<1>2. IInv /\ Stages /\ [AdapterNext]_allVars => (IInv /\ Stages)'
  <2>1. IInv /\ [Next]_vars => IInv'
    BY TypeIsKept, AnnouncedIsKept, SizeIsKept, ShutdownIsKept DEF IInv
  <2>2. QED BY <2>1, AdapterSteps, StagesAreKept, LeavingKeepsInv
<1>3. QED BY <1>1, <1>2, PTL DEF AdapterSpec

(* In winpty.exe as a whole no wake-up is lost, to whatever arguments,      *)
(* terminals and failures of setting up (main, WakeupFd, InputHandler,      *)
(* OutputHandler).                                                          *)
THEOREM MainLosesNoWakeup == AdapterSpec => [](NoWakeupLost /\ InputHearsShutdown)
<1>1. IInv => NoWakeupLost /\ InputHearsShutdown
  BY DEF IInv, Announced, SizeKnown, ShutdownKnown, Heard, Checking, Ending,
     NoWakeupLost, InputHearsShutdown
<1>2. QED BY <1>1, MainInvariance, PTL

(* And its output is complete when the child has ended the session.         *)
THEOREM MainShowsAll == Alone => (AdapterSpec => []OutputComplete)
<1> SUFFICES ASSUME Alone PROVE AdapterSpec => []OutputComplete
  OBVIOUS
<1>1. AdapterInit => FlowInv
  BY InitFlows DEF AdapterInit
<1>2. IInv /\ Stages /\ FlowInv /\ [AdapterNext]_allVars => FlowInv'
  BY FlowIsKept, LeavingKeepsFlow, AdapterSteps DEF IInv
<1>3. IInv => TypeOK
  BY DEF IInv
<1>4. QED BY <1>1, <1>2, <1>3, FlowIsComplete, MainInvariance, PTL DEF AdapterSpec

-----------------------------------------------------------------------------
(* What has been changed of the terminal's mode is what has been saved, and *)
(* what was saved is the mode the terminal had: as long as a mode is set    *)
(* there is a descriptor through which it will be restored.                 *)
Restorable ==
  /\ DOMAIN saved \subseteq Fds /\ \A i \in DOMAIN saved : saved[i] = {}
  /\ step \in {"set", "restore"} => fd \in 0..3
  /\ step \in {"arguments", "open", "connect", "program", "spawn", "raw"} => mode = {}
  /\ step = "set" /\ mode # {} => \E i \in DOMAIN saved : i < fd
  /\ step \in {"keys", "threads"} /\ mode # {} => DOMAIN saved # {}
  /\ step = "restore" /\ mode # {} => \E i \in DOMAIN saved : i >= fd
  /\ TerminalRestored

LEMMA RestorableIsKept == Restorable /\ [AdapterNext]_allVars => Restorable'
<1> SUFFICES ASSUME Restorable, [AdapterNext]_allVars PROVE Restorable'
  OBVIOUS
<1> USE DEF Restorable, TerminalRestored, Fds
<1>1. CASE Arguments \/ Open \/ Connect \/ CommandLine
  BY <1>1 DEF Arguments, Open, Connect, CommandLine, Exit, Abort, modeVars, setupVars
<1>2. CASE Spawn
  BY <1>2 DEF Spawn, modeVars
<1>3. CASE SaveModes
  BY <1>3 DEF SaveModes, Saves, Wanted, Exit
<1>4. CASE SetMode
  BY <1>4 DEF SetMode, Exit
<1>5. CASE ModesSet
  BY <1>5 DEF ModesSet, modeVars
<1>6. CASE ShowKeys
  BY <1>6 DEF ShowKeys
<1>7. CASE Threads
  BY <1>7 DEF Threads
<1>8. CASE RestoreMode
  BY <1>8 DEF RestoreMode, Exit
<1>9. CASE Return
  BY <1>9 DEF Return, Exit, modeVars
<1>10. CASE Others
  <2>1. UNCHANGED <<step, main, mode, saved, fd, trouble>>
    BY <1>10, OthersKeepPlace DEF Others, mainOnly, modeVars
  <2>2. QED BY <2>1
<1>11. CASE UNCHANGED allVars
  BY <1>11 DEF allVars, mainOnly, modeVars, vars, mainVars
<1>12. QED BY <1>1, <1>2, <1>3, <1>4, <1>5, <1>6, <1>7, <1>8, <1>9, <1>10, <1>11
       DEF AdapterNext, Setup, SetModes, Ends

(* However the program ends, but by an assertion, it leaves the terminal in *)
(* the mode it has found it in, unless the terminal refuses a call          *)
(* (setRawTerminalMode, restoreTerminalMode, debugShowKey).                 *)
THEOREM ModeIsRestored == AdapterSpec => []TerminalRestored
<1>1. AdapterInit => Restorable
  BY DEF AdapterInit, Restorable, TerminalRestored
<1>2. Restorable => TerminalRestored
  BY DEF Restorable
<1>3. QED BY <1>1, <1>2, RestorableIsKept, PTL DEF AdapterSpec

-----------------------------------------------------------------------------
(* A command line is split into the arguments it was made of.  A reader     *)
(* goes from state to state; each kind of character by itself.              *)
At(args, inside, text, slashes, quoted) ==
  [args |-> args, inside |-> inside, text |-> text, slashes |-> slashes, quoted |-> quoted]

Within(args, text, slashes, quoted) == At(args, TRUE, text, slashes, quoted)
Between(args) == At(args, FALSE, <<>>, 0, FALSE)

LEMMA Characters == Quote # "\\" /\ ~Blank(Quote) /\ ~Blank("\\") /\ Blank(Space)
BY Zenon DEF Quote, Blank, Space

LEMMA ReadsBlank ==
  ASSUME NEW A, NEW t, NEW k, NEW c, Blank(c)
  PROVE  Reads(Within(A, t, k, FALSE), c) = Between(Append(A, Cat(t, Backslashes(k))))
BY DEF Cat, Reads, Within, Between, At, Finished, BeforeLine

LEMMA ReadsBackslash ==
  ASSUME NEW A, A # <<>>, NEW x, NEW t, NEW k, NEW q
  PROVE  Reads(At(A, x, t, k, q), "\\") = Within(A, t, k + 1, q)
BY Characters DEF Reads, Within, At

LEMMA ReadsOneMore ==
  ASSUME NEW A, A # <<>>, NEW t, NEW k, NEW q
  PROVE  Reads(Within(A, t, k, q), "\\") = Within(A, t, k + 1, q)
BY Characters DEF Reads, Within, At

LEMMA ReadsQuote ==
  ASSUME NEW A, NEW x, NEW t, NEW k \in Nat, NEW q
  PROVE  Reads(At(A, x, t, 2 * k, q), Quote)
           = Within(A, Cat(Cat(t, Backslashes(k)), <<>>), 0, ~q)
<1>1. (2 * k) % 2 # 1 /\ (2 * k) \div 2 = k
  OBVIOUS
<1>2. QED BY <1>1, Characters DEF Reads, Takes, Within, At, Cat

LEMMA ReadsEscapedQuote ==
  ASSUME NEW A, NEW x, NEW t, NEW k \in Nat, NEW q
  PROVE  Reads(At(A, x, t, 2 * k + 1, q), Quote)
           = Within(A, Cat(Cat(t, Backslashes(k)), <<Quote>>), 0, q)
<1>1. (2 * k + 1) % 2 = 1 /\ (2 * k + 1) \div 2 = k
  OBVIOUS
<1>2. QED BY <1>1, Characters DEF Reads, Takes, Within, At, Cat

Accepts(quoted, c) == Blank(c) => quoted

LEMMA ReadsOther ==
  ASSUME NEW A, NEW x, NEW t, NEW k, NEW q, NEW c,
         c # Quote, c # "\\" \/ A = <<>>, Accepts(q, c)
  PROVE  Reads(At(A, x, t, k, q), c)
           = Within(A, Cat(Cat(t, Backslashes(k)), <<c>>), 0, q)
BY Characters DEF Accepts, Reads, Takes, Within, At, Cat

LEMMA ReadsOfPath ==
  ASSUME NEW A, A = <<>>, NEW t, NEW k, NEW q, NEW c, c # Quote, Accepts(q, c)
  PROVE  Reads(Within(A, t, k, q), c) = Within(A, Cat(Cat(t, Backslashes(k)), <<c>>), 0, q)
BY Characters DEF Accepts, Reads, Takes, Within, At, Cat

(* What a reader goes through while it reads a text.                        *)
ReadsTo(r, s, q) ==
  \E f : f[0] = r /\ f[Len(s)] = q /\ \A i \in 1..Len(s) : f[i] = Reads(f[i - 1], s[i])

LEMMA ReadsNothing == \A r : ReadsTo(r, <<>>, r)
<1> SUFFICES ASSUME NEW r PROVE ReadsTo(r, <<>>, r)
  OBVIOUS
<1> DEFINE f == [i \in {0} |-> r]
<1>1. f[0] = r /\ Len(<<>>) = 0
  OBVIOUS
<1> HIDE DEF f
<1>2. QED BY <1>1 DEF ReadsTo

LEMMA ReadsOne == \A r, c : ReadsTo(r, <<c>>, Reads(r, c))
<1> SUFFICES ASSUME NEW r, NEW c PROVE ReadsTo(r, <<c>>, Reads(r, c))
  OBVIOUS
<1> DEFINE f == [i \in {0, 1} |-> IF i = 0 THEN r ELSE Reads(r, c)]
           s == <<c>>
<1>1. f[0] = r /\ f[1] = Reads(r, c) /\ Len(s) = 1 /\ s[1] = c
  OBVIOUS
<1> HIDE DEF f, s
<1>2. ReadsTo(r, s, Reads(r, c))
  BY <1>1 DEF ReadsTo
<1>3. QED BY <1>2 DEF s

LEMMA ReadsOn ==
  ASSUME NEW S, NEW s \in Seq(S), NEW t \in Seq(S), NEW r, NEW q, NEW p,
         ReadsTo(r, s, q), ReadsTo(q, t, p)
  PROVE  Cat(s, t) \in Seq(S) /\ ReadsTo(r, Cat(s, t), p)
<1> DEFINE m == Len(s)
           n == Len(t)
           u == Cat(s, t)
<1>0. u \in Seq(S)
  BY Monoid
<1>1. /\ m \in Nat /\ n \in Nat /\ Len(u) = m + n
      /\ \A i \in 1..(m + n) : u[i] = IF i <= m THEN s[i] ELSE t[i - m]
  BY LenProperties, ConcatProperties DEF Cat
<1>2. PICK f : f[0] = r /\ f[m] = q /\ \A i \in 1..m : f[i] = Reads(f[i - 1], s[i])
  BY DEF ReadsTo
<1>3. PICK g : g[0] = q /\ g[n] = p /\ \A i \in 1..n : g[i] = Reads(g[i - 1], t[i])
  BY DEF ReadsTo
<1> HIDE DEF m, n, u
<1> DEFINE h == [i \in 0..(m + n) |-> IF i <= m THEN f[i] ELSE g[i - m]]
<1>4. \A i \in 0..(m + n) : h[i] = IF i <= m THEN f[i] ELSE g[i - m]
  OBVIOUS
<1> HIDE DEF h
<1>5. h[0] = r
  BY <1>1, <1>2, <1>4
<1>6. h[m + n] = p
  <2>1. CASE n = 0
    BY <1>1, <1>2, <1>3, <1>4, <2>1
  <2>2. CASE n # 0
    BY <1>1, <1>3, <1>4, <2>2
  <2>3. QED BY <2>1, <2>2
<1>7. ASSUME NEW i \in 1..(m + n) PROVE h[i] = Reads(h[i - 1], u[i])
  <2>1. CASE i <= m
    <3>1. h[i] = f[i] /\ h[i - 1] = f[i - 1] /\ u[i] = s[i] /\ i \in 1..m
      BY <1>1, <1>4, <2>1
    <3>2. QED BY <1>2, <3>1
  <2>2. CASE i = m + 1
    <3>1. h[i] = g[1] /\ h[i - 1] = q /\ u[i] = t[1] /\ 1 \in 1..n
      BY <1>1, <1>2, <1>4, <2>2
    <3>2. QED BY <1>3, <3>1
  <2>3. CASE i > m + 1
    <3>1. /\ h[i] = g[i - m] /\ h[i - 1] = g[(i - m) - 1] /\ u[i] = t[i - m]
          /\ i - m \in 1..n
      BY <1>1, <1>4, <2>3
    <3>2. QED BY <1>3, <3>1
  <2>4. QED BY <1>1, <2>1, <2>2, <2>3
<1>8. QED BY <1>0, <1>1, <1>5, <1>6, <1>7 DEF ReadsTo, u

(* The line's reader goes through these states.                             *)
LEMMA ReadsLine ==
  ASSUME NEW S, NEW line \in Seq(S), NEW q, ReadsTo(BeforeLine, line, q)
  PROVE  CommandLineToArgv(line) = IF q.inside THEN Finished(q) ELSE q.args
<1> DEFINE n == Len(line)
           Is(h) == h = [i \in 0..n |-> IF i = 0 THEN BeforeLine
                                        ELSE Reads(h[i - 1], line[i])]
           read == CHOOSE h : Is(h)
<1>1. n \in Nat
  BY LenProperties
<1>2. PICK f : /\ f[0] = BeforeLine /\ f[n] = q
               /\ \A i \in 1..n : f[i] = Reads(f[i - 1], line[i])
  BY DEF ReadsTo
<1>3. Is(read)
  <2> DEFINE g == [i \in 0..n |-> f[i]]
  <2>1. \A i \in 0..n : g[i] = IF i = 0 THEN BeforeLine ELSE Reads(g[i - 1], line[i])
    BY <1>1, <1>2
  <2>2. Is(g)
    BY <2>1
  <2> HIDE DEF g, Is
  <2>3. QED BY <2>2
<1>4. \A i \in 0..n : read[i] = IF i = 0 THEN BeforeLine ELSE Reads(read[i - 1], line[i])
  <2> HIDE DEF read
  <2>1. QED BY <1>3
<1>5. CommandLineToArgv(line)
        = IF read[n].inside THEN Finished(read[n]) ELSE read[n].args
  BY DEF CommandLineToArgv
<1> HIDE DEF read, Is, n
<1>6. read[n] = q
  <2> DEFINE T == {i \in Nat : i <= n => read[i] = f[i]}
  <2>1. 0 \in T
    BY <1>1, <1>2, <1>4
  <2>2. ASSUME NEW i \in Nat, i \in T PROVE i + 1 \in T
    <3>1. CASE i + 1 <= n
      <4>1. /\ i + 1 \in 1..n /\ i + 1 \in 0..n /\ i + 1 # 0 /\ (i + 1) - 1 = i
            /\ read[i] = f[i]
        BY <1>1, <2>2, <3>1
      <4>2. QED BY <1>2, <1>4, <4>1
    <3>2. QED BY <3>1
  <2> HIDE DEF T
  <2>3. Nat \subseteq T
    BY <2>1, <2>2, Induction
  <2>4. QED BY <1>1, <1>2, <2>3 DEF T
<1>7. QED BY <1>5, <1>6

-----------------------------------------------------------------------------
(* The backslashes before a place of a text, and that place moved on.       *)
IsRun(arg, i, n) ==
  /\ n \in 0..i /\ \A j \in (i - n + 1)..i : arg[j] = "\\"
  /\ n < i => arg[i - n] # "\\"

LEMMA RunIsOne ==
  ASSUME NEW arg, NEW i \in Nat
  PROVE  IsRun(arg, i, Run(arg, i))
<1>1. CASE \A j \in 1..i : arg[j] = "\\"
  <2>1. Run(arg, i) = i
    BY <1>1 DEF Run
  <2>2. QED BY <1>1, <2>1 DEF IsRun
<1>2. CASE \E j \in 1..i : arg[j] # "\\"
  <2> DEFINE Is(j) == arg[j] # "\\" /\ \A k \in j + 1..i : arg[k] = "\\"
             T == {m \in Nat : m < i /\ arg[i - m] # "\\"}
  <2>1. T \subseteq Nat /\ T # {}
    <3>1. PICK j \in 1..i : arg[j] # "\\"
      BY <1>2
    <3>2. i - j \in Nat /\ i - j < i /\ i - (i - j) = j
      OBVIOUS
    <3>3. i - j \in T
      BY <3>1, <3>2
    <3>4. QED BY <3>3
  <2>2. PICK m \in T : \A x \in T : m <= x
    BY <2>1, SmallestOf
  <2>3. i - m \in 1..i /\ Is(i - m)
    <3>1. ASSUME NEW k \in i - m + 1..i PROVE arg[k] = "\\"
      <4>1. i - k \in Nat /\ i - k < m /\ i - k < i /\ i - (i - k) = k
        BY <2>2
      <4>2. i - k \notin T
        BY <2>2, <4>1
      <4>3. QED BY <4>1, <4>2
    <3>2. QED BY <2>2, <3>1
  <2>4. Run(arg, i) = i - CHOOSE j \in 1..i : Is(j)
    BY <1>2 DEF Run
  <2> DEFINE c == CHOOSE j \in 1..i : Is(j)
  <2>5. c \in 1..i /\ Is(c)
    <3> HIDE DEF Is
    <3>1. QED BY <2>3
  <2> HIDE DEF c
  <2>6. Run(arg, i) = i - c
    BY <2>4 DEF c
  <2>7. QED BY <2>5, <2>6 DEF IsRun
<1>3. QED BY <1>1, <1>2

LEMMA RunIsUnique ==
  ASSUME NEW arg, NEW i \in Nat, NEW n, NEW m, IsRun(arg, i, n), IsRun(arg, i, m)
  PROVE  n = m
<1>1. CASE n < m
  <2>1. i - n \in (i - m + 1)..i
    BY <1>1 DEF IsRun
  <2>2. QED BY <1>1, <2>1 DEF IsRun
<1>2. CASE m < n
  <2>1. i - m \in (i - n + 1)..i
    BY <1>2 DEF IsRun
  <2>2. QED BY <1>2, <2>1 DEF IsRun
<1>3. QED BY <1>1, <1>2 DEF IsRun

LEMMA RunGoesOn ==
  ASSUME NEW arg, NEW i \in Nat
  PROVE  /\ Run(arg, 0) = 0
         /\ Run(arg, i + 1) = IF arg[i + 1] = "\\" THEN Run(arg, i) + 1 ELSE 0
<1>1. Run(arg, 0) = 0
  BY RunIsOne DEF IsRun
<1> DEFINE n == Run(arg, i)
           m == IF arg[i + 1] = "\\" THEN n + 1 ELSE 0
<1>2. IsRun(arg, i, n) /\ IsRun(arg, i + 1, Run(arg, i + 1))
  BY RunIsOne
<1> HIDE DEF n
<1>3. IsRun(arg, i + 1, m)
  BY <1>2 DEF IsRun
<1> HIDE DEF m
<1>4. Run(arg, i + 1) = m
  BY <1>2, <1>3, RunIsUnique
<1>5. QED BY <1>1, <1>4 DEF m, n

(* Backslashes, and the text before them put together with them again.      *)
LEMMA SomeBackslashes ==
  ASSUME NEW S, "\\" \in S, NEW n \in Nat
  PROVE  /\ Backslashes(n) \in Seq(S) /\ Len(Backslashes(n)) = n
         /\ \A i \in 1..n : Backslashes(n)[i] = "\\"
         /\ n = 0 => Backslashes(n) = <<>>
<1>1. Backslashes(n) \in Seq(S) /\ Len(Backslashes(n)) = n
  BY DEF Backslashes
<1>2. \A i \in 1..n : Backslashes(n)[i] = "\\"
  BY DEF Backslashes
<1>3. n = 0 => Backslashes(n) = <<>>
  BY <1>1, EmptySeq
<1>4. QED BY <1>1, <1>2, <1>3

LEMMA Fronts ==
  ASSUME NEW S, NEW s \in Seq(S), NEW n \in 0..Len(s)
  PROVE  /\ First(s, n) \in Seq(S) /\ Len(First(s, n)) = n
         /\ \A i \in 1..n : First(s, n)[i] = s[i]
         /\ First(s, 0) = <<>> /\ First(s, Len(s)) = s
<1>1. Len(s) \in Nat /\ \A i \in 1..Len(s) : s[i] \in S
  BY LenProperties, ElementOfSeq
<1>2. /\ First(s, n) \in Seq(S) /\ Len(First(s, n)) = n
      /\ \A i \in 1..n : First(s, n)[i] = s[i]
  <2>1. \A i \in 1..n : s[i] \in S
    BY <1>1
  <2>2. n \in Nat /\ n \in Int /\ 1 \in Int
    BY <1>1
  <2>3. /\ SubSeq(s, 1, n) \in Seq(S)
        /\ Len(SubSeq(s, 1, n)) = IF 1 <= n THEN n - 1 + 1 ELSE 0
        /\ \A i \in 1..n - 1 + 1 : SubSeq(s, 1, n)[i] = s[1 + i - 1]
    BY ONLY <2>1, <2>2, SubSeqProperties
  <2>4. \A i \in 1..n : i \in 1..n - 1 + 1 /\ 1 + i - 1 = i
    BY <2>2
  <2>5. (IF 1 <= n THEN n - 1 + 1 ELSE 0) = n
    BY <2>2
  <2>6. QED BY <2>3, <2>4, <2>5 DEF First
<1>3. First(s, 0) = <<>>
  BY SubSeqEmpty DEF First
<1>4. First(s, Len(s)) = s
  BY SubSeqFull DEF First
<1>5. QED BY <1>2, <1>3, <1>4

LEMMA OneMore ==
  ASSUME NEW S, NEW s \in Seq(S), NEW i \in 1..Len(s)
  PROVE  Cat(First(s, i - 1), <<s[i]>>) = First(s, i)
<1>1. Len(s) \in Nat
  BY LenProperties
<1>2. 1 \in 1..Len(s) /\ i \in 1..Len(s)
  BY <1>1
<1>3. SubSeq(s, 1, i) = SubSeq(s, 1, i - 1) \o <<s[i]>>
  BY <1>2, SubSeqRecursiveSecond
<1>4. QED BY <1>3 DEF First, Cat

LEMMA RunRestored ==
  ASSUME NEW S, "\\" \in S, NEW s \in Seq(S), NEW i \in 0..Len(s)
  PROVE  /\ Run(s, i) \in 0..i
         /\ First(s, i - Run(s, i)) \in Seq(S) /\ Backslashes(Run(s, i)) \in Seq(S)
         /\ Cat(First(s, i - Run(s, i)), Backslashes(Run(s, i))) = First(s, i)
<1> DEFINE n == Run(s, i)
           a == First(s, i - n)
           b == Backslashes(n)
           c == First(s, i)
<1>1. Len(s) \in Nat /\ i \in Nat
  BY LenProperties
<1>2. n \in 0..i /\ \A j \in (i - n + 1)..i : s[j] = "\\"
  BY <1>1, RunIsOne DEF IsRun
<1> HIDE DEF n
<1>3. n \in Nat /\ i - n \in 0..Len(s) /\ i - n \in Nat
  BY <1>1, <1>2
<1>4. /\ a \in Seq(S) /\ Len(a) = i - n /\ \A j \in 1..(i - n) : a[j] = s[j]
  BY <1>3, Fronts
<1>5. c \in Seq(S) /\ Len(c) = i /\ \A j \in 1..i : c[j] = s[j]
  BY Fronts
<1>6. b \in Seq(S) /\ Len(b) = n /\ \A j \in 1..n : b[j] = "\\"
  BY <1>3, SomeBackslashes
<1> HIDE DEF a, b, c
<1>7. /\ Cat(a, b) \in Seq(S) /\ Len(Cat(a, b)) = Len(a) + Len(b)
      /\ \A j \in 1..(Len(a) + Len(b)) :
           Cat(a, b)[j] = IF j <= Len(a) THEN a[j] ELSE b[j - Len(a)]
  BY <1>4, <1>6, ConcatProperties DEF Cat
<1> DEFINE d == Cat(a, b)
<1>8. d \in Seq(S) /\ Len(d) = i
  <2>1. Len(d) = Len(a) + Len(b) /\ Len(a) = i - n /\ Len(b) = n
    BY ONLY <1>4, <1>6, <1>7
  <2>2. d \in Seq(S)
    BY ONLY <1>7
  <2>3. (i - n) + n = i
    BY ONLY <1>1, <1>3
  <2> HIDE DEF d
  <2>4. Len(d) = i
    BY ONLY <2>1, <2>3
  <2>5. QED BY ONLY <2>2, <2>4
<1>9. ASSUME NEW j \in 1..i PROVE d[j] = c[j]
  <2> DEFINE m == i - n
  <2>1. /\ m \in Nat /\ m + n = i /\ j \in 1..m + n
        /\ j <= m => j \in 1..m
        /\ ~(j <= m) => j - m \in 1..n /\ j \in m + 1..i
    BY ONLY <1>1, <1>3, j \in 1..i
  <2> HIDE DEF m
  <2>2. /\ d[j] = IF j <= m THEN a[j] ELSE b[j - m]
        /\ \A k \in 1..m : a[k] = s[k]
        /\ \A k \in m + 1..i : s[k] = "\\"
    BY ONLY <1>2, <1>4, <1>6, <1>7, <2>1 DEF m
  <2>3. c[j] = s[j]
    BY ONLY <1>5, j \in 1..i
  <2> HIDE DEF d
  <2>4. QED BY ONLY <1>6, <2>1, <2>2, <2>3
<1> HIDE DEF d
<1>10. d = c
  BY <1>5, <1>8, <1>9, SeqEqual
<1>11. QED BY <1>2, <1>4, <1>6, <1>10 DEF n, a, b, c, d

ReadsSlashes(A, x, t, q, n) ==
  \E r, y : /\ ReadsTo(At(A, x, t, 0, q), Backslashes(n), r)
            /\ r = At(A, y, t, n, q)
            /\ r = IF n = 0 THEN At(A, x, t, 0, q) ELSE Within(A, t, n, q)

LEMMA ReadsBackslashes ==
  ASSUME NEW A, A # <<>>, NEW x, NEW t, NEW q, NEW n \in Nat
  PROVE  ReadsSlashes(A, x, t, q, n)
<1> DEFINE r == At(A, x, t, 0, q)
<1>1. /\ Len(Backslashes(n)) = n /\ \A i \in 1..n : Backslashes(n)[i] = "\\"
      /\ n = 0 => Backslashes(n) = <<>>
  <2> DEFINE S == {"\\"}
  <2>1. "\\" \in S
    OBVIOUS
  <2>2. QED BY <2>1, SomeBackslashes
<1>2. Reads(r, "\\") = Within(A, t, 1, q)
  <2>1. Reads(r, "\\") = Within(A, t, 0 + 1, q)
    BY ReadsBackslash
  <2>2. QED BY <2>1
<1>3. \A i : Reads(Within(A, t, i, q), "\\") = Within(A, t, i + 1, q)
  BY ReadsOneMore
<1>4. CASE n = 0
  <2>1. ReadsTo(r, Backslashes(n), r)
    BY <1>1, <1>4, ReadsNothing
  <2>2. \E p, y : /\ ReadsTo(r, Backslashes(n), p) /\ p = At(A, y, t, n, q)
                 /\ p = IF n = 0 THEN r ELSE Within(A, t, n, q)
    BY <1>4, <2>1
  <2>3. QED BY <2>2 DEF ReadsSlashes
<1>5. CASE n # 0
  <2> HIDE DEF r
  <2> DEFINE f == [i \in 0..n |-> IF i = 0 THEN r ELSE Within(A, t, i, q)]
  <2>1. \A i \in 0..n : f[i] = IF i = 0 THEN r ELSE Within(A, t, i, q)
    OBVIOUS
  <2> HIDE DEF f
  <2>2. ASSUME NEW i \in 1..n PROVE f[i] = Reads(f[i - 1], "\\")
    <3>1. f[i] = Within(A, t, i, q)
      BY <2>1
    <3>2. CASE i = 1
      BY <1>2, <2>1, <3>1, <3>2
    <3>3. CASE i # 1
      <4>1. f[i - 1] = Within(A, t, i - 1, q) /\ (i - 1) + 1 = i
        BY <2>1, <3>3
      <4>2. Reads(Within(A, t, i - 1, q), "\\") = Within(A, t, (i - 1) + 1, q)
        BY <1>3
      <4>3. QED BY <3>1, <4>1, <4>2
    <3>4. QED BY <3>2, <3>3
  <2>3. f[0] = r /\ f[n] = Within(A, t, n, q)
    BY <1>5, <2>1
  <2>4. ReadsTo(r, Backslashes(n), Within(A, t, n, q))
    BY <1>1, <2>2, <2>3 DEF ReadsTo
  <2>5. \E y : Within(A, t, n, q) = At(A, y, t, n, q)
    BY DEF Within
  <2>6. \E p, y : /\ ReadsTo(r, Backslashes(n), p) /\ p = At(A, y, t, n, q)
                 /\ p = IF n = 0 THEN r ELSE Within(A, t, n, q)
    BY <1>5, <2>4, <2>5
  <2>7. QED BY <2>6 DEF r, ReadsSlashes
<1>6. QED BY <1>4, <1>5

(* An argument but the first.  Before each of its characters the reader has *)
(* all that comes before the backslashes which end there, and those it has  *)
(* not seen yet.                                                            *)
LEMMA PieceIs ==
  ASSUME NEW S, "\\" \in S, NEW arg \in Seq(S), NEW i \in 1..Len(arg),
         NEW n, n = Run(arg, i - 1), NEW m, m = IF arg[i] = Quote THEN 2 * n + 1 ELSE n
  PROVE  /\ n \in Nat /\ m \in Nat
         /\ <<arg[i]>> \in Seq(S) /\ Backslashes(m) \in Seq(S) /\ Piece(arg, i) \in Seq(S)
         /\ Cat(Cat(First(arg, (i - 1) - n), Backslashes(n)), <<arg[i]>>) = First(arg, i)
         /\ arg[i] = "\\" => Piece(arg, i) = <<>>
         /\ arg[i] # "\\" => Piece(arg, i) = Cat(Backslashes(m), <<arg[i]>>)
<1>1. Len(arg) \in Nat /\ arg[i] \in S
  BY LenProperties, ElementOfSeq
<1>2. i - 1 \in 0..Len(arg)
  BY <1>1
<1>3. n \in 0..(i - 1)
  BY ONLY "\\" \in S, arg \in Seq(S), n = Run(arg, i - 1), <1>2, RunRestored
<1>4. Cat(First(arg, (i - 1) - n), Backslashes(n)) = First(arg, i - 1)
  BY ONLY "\\" \in S, arg \in Seq(S), n = Run(arg, i - 1), <1>2, RunRestored
<1>5. Cat(First(arg, i - 1), <<arg[i]>>) = First(arg, i)
  BY OneMore
<1>6. n \in Nat
  BY ONLY <1>3
<1>7. m \in Nat
  BY ONLY <1>6, m = IF arg[i] = Quote THEN 2 * n + 1 ELSE n
<1>8. Backslashes(m) \in Seq(S) /\ <<arg[i]>> \in Seq(S)
  <2>1. Backslashes(m) \in Seq(S)
    BY ONLY "\\" \in S, <1>7, SomeBackslashes
  <2>2. <<arg[i]>> \in Seq(S)
    BY ONLY <1>1
  <2>3. QED BY <2>1, <2>2
<1>9. Piece(arg, i) = IF arg[i] = "\\" THEN <<>> ELSE Cat(Backslashes(m), <<arg[i]>>)
  BY DEF Piece, Cat
<1>10. Piece(arg, i) \in Seq(S)
  <2> DEFINE a == Backslashes(m)
             b == <<arg[i]>>
  <2>1. Cat(a, b) \in Seq(S) /\ <<>> \in Seq(S)
    <3>1. a \in Seq(S) /\ b \in Seq(S)
      BY <1>8
    <3> HIDE DEF a, b
    <3>2. QED BY ONLY <3>1, Monoid
  <2>2. QED BY ONLY <1>9, <2>1
<1>11. QED BY ONLY <1>4, <1>5, <1>6, <1>7, <1>8, <1>9, <1>10

LEMMA PieceIsRead ==
  ASSUME NEW S, "\\" \in S, NEW arg \in Seq(S), NEW i \in 1..Len(arg),
         NEW A, A # <<>>, NEW x, NEW q, Accepts(q, arg[i]), arg[i] # "\\"
  PROVE  ReadsTo(At(A, x, First(arg, (i - 1) - Run(arg, i - 1)), 0, q), Piece(arg, i),
                 Within(A, First(arg, i), 0, q))
<1> DEFINE n == Run(arg, i - 1)
           m == IF arg[i] = Quote THEN 2 * n + 1 ELSE n
           text == First(arg, (i - 1) - n)
           back == Backslashes(m)
           one == <<arg[i]>>
           r == At(A, x, text, 0, q)
           w == Within(A, First(arg, i), 0, q)
<1>1. /\ n \in Nat /\ m \in Nat /\ one \in Seq(S) /\ back \in Seq(S)
      /\ Cat(Cat(text, Backslashes(n)), one) = First(arg, i)
      /\ Piece(arg, i) = Cat(back, one)
  BY PieceIs
<1>2. m = IF arg[i] = Quote THEN 2 * n + 1 ELSE n
  OBVIOUS
<1> HIDE DEF n, m, text
<1>3. PICK p, y : ReadsTo(r, back, p) /\ p = At(A, y, text, m, q)
  <2>1. m \in Nat
    BY <1>1
  <2>2. ReadsSlashes(A, x, text, q, m)
    BY ONLY A # <<>>, <2>1, ReadsBackslashes
  <2>3. QED BY ONLY <2>2 DEF ReadsSlashes
<1>4. Reads(p, arg[i]) = w
  <2>1. CASE arg[i] = Quote
    <3>1. Reads(At(A, y, text, 2 * n + 1, q), Quote)
            = Within(A, Cat(Cat(text, Backslashes(n)), <<Quote>>), 0, q)
      BY ONLY <1>1, ReadsEscapedQuote
    <3>2. m = 2 * n + 1 /\ <<Quote>> = one
      BY <1>2, <2>1
    <3>3. QED BY ONLY <1>1, <1>3, <2>1, <3>1, <3>2
  <2>2. CASE arg[i] # Quote
    <3>1. Reads(At(A, y, text, n, q), arg[i])
            = Within(A, Cat(Cat(text, Backslashes(n)), one), 0, q)
      BY ONLY Accepts(q, arg[i]), arg[i] # "\\", <2>2, ReadsOther
    <3>2. m = n
      BY <1>2, <2>2
    <3>3. QED BY ONLY <1>1, <1>3, <3>1, <3>2
  <2>3. QED BY <2>1, <2>2
<1>5. ReadsTo(p, one, w)
  BY <1>4, ReadsOne
<1> HIDE DEF r, w, one, back
<1>6. ReadsTo(r, Cat(back, one), w)
  BY <1>1, <1>3, <1>5, ReadsOn
<1>7. QED BY <1>1, <1>6 DEF r, w, text, n

(* The reader after i of the argument's characters.                         *)
Pieces(arg) == [i \in DOMAIN arg |-> Piece(arg, i)]

BodyRead(A, x, q, arg, s, i) ==
  \E p : /\ ReadsTo(At(A, x, <<>>, 0, q), s, p)
         /\ \/ p = Within(A, First(arg, i - Run(arg, i)), 0, q)
            \/ Run(arg, i) = i /\ p = At(A, x, First(arg, i - Run(arg, i)), 0, q)

LEMMA BodyIsRead ==
  ASSUME NEW S, "\\" \in S, NEW arg \in Seq(S), NEW A, A # <<>>, NEW x, NEW q,
         \A j \in 1..Len(arg) : Accepts(q, arg[j]),
         NEW F, Joins(F, Pieces(arg), Len(arg))
  PROVE  \A i \in 0..Len(arg) : F[i] \in Seq(S) /\ BodyRead(A, x, q, arg, F[i], i)
<1> DEFINE n == Len(arg)
           Done(i) == F[i] \in Seq(S) /\ BodyRead(A, x, q, arg, F[i], i)
           T == {i \in Nat : i <= n => Done(i)}
<1>1. n \in Nat
  BY LenProperties
<1>2. 0 \in T
  <2>1. Run(arg, 0) = 0 /\ First(arg, 0) = <<>> /\ F[0] = <<>>
    <3>1. 0 \in Nat /\ 0 \in 0..Len(arg)
      BY <1>1
    <3>2. Run(arg, 0) = 0
      BY ONLY <3>1, RunGoesOn
    <3>3. First(arg, 0) = <<>>
      BY ONLY <3>1, arg \in Seq(S), Fronts
    <3>4. F[0] = <<>>
      BY ONLY Joins(F, Pieces(arg), Len(arg)) DEF Joins
    <3>5. QED BY <3>2, <3>3, <3>4
  <2>2. ReadsTo(At(A, x, <<>>, 0, q), F[0], At(A, x, First(arg, 0), 0, q))
    BY ONLY <2>1, ReadsNothing
  <2>3. 0 - Run(arg, 0) = 0
    BY <2>1
  <2>4. BodyRead(A, x, q, arg, F[0], 0)
    BY ONLY <2>1, <2>2, <2>3 DEF BodyRead
  <2>5. F[0] \in Seq(S)
    BY ONLY <2>1, Monoid
  <2>6. QED BY <2>4, <2>5
<1>3. ASSUME NEW i \in Nat, i \in T, i + 1 <= n PROVE Done(i + 1)
  <2> DEFINE a == i + 1
             t == First(arg, i - Run(arg, i))
             r == At(A, x, <<>>, 0, q)
  <2>1. a \in 1..n /\ a - 1 = i /\ a \in Nat
    BY <1>1, <1>3
  <2>2. Done(i)
    BY <1>1, <1>3
  <2>3. PICK p : /\ ReadsTo(r, F[i], p)
                 /\ p = Within(A, t, 0, q) \/ (Run(arg, i) = i /\ p = At(A, x, t, 0, q))
    BY ONLY <2>2 DEF BodyRead
  <2>4. PICK y : p = At(A, y, t, 0, q)
    BY ONLY <2>3 DEF Within
  <2>5. F[a] = Cat(F[i], Piece(arg, a))
    <3>1. F[a] = Cat(F[a - 1], Pieces(arg)[a])
      BY ONLY <2>1, Joins(F, Pieces(arg), Len(arg)) DEF Joins
    <3>2. DOMAIN arg = 1..Len(arg)
      BY ONLY arg \in Seq(S), LenProperties
    <3>3. Pieces(arg)[a] = Piece(arg, a)
      BY ONLY <2>1, <3>2 DEF Pieces
    <3>4. QED BY ONLY <2>1, <3>1, <3>3
  <2>6. Run(arg, a) = IF arg[a] = "\\" THEN Run(arg, i) + 1 ELSE 0
    BY ONLY i \in Nat, RunGoesOn
  <2>7. Run(arg, i) \in 0..i
    BY ONLY i \in Nat, RunIsOne DEF IsRun
  <2>8. /\ arg[a] = "\\" => Piece(arg, a) = <<>>
        /\ Piece(arg, a) \in Seq(S)
    BY ONLY <2>1, "\\" \in S, arg \in Seq(S), PieceIs
  <2>9. Accepts(q, arg[a])
    BY ONLY <2>1, \A j \in 1..Len(arg) : Accepts(q, arg[j])
  <2> HIDE DEF n, a, r, t
  <2>10. CASE arg[a] = "\\"
    <3>1. Cat(F[i], <<>>) = F[i]
      BY ONLY <2>2, Monoid
    <3>2. F[a] = F[i]
      BY ONLY <2>5, <2>8, <2>10, <3>1
    <3>3. Run(arg, a) = Run(arg, i) + 1 /\ a - Run(arg, a) = i - Run(arg, i)
      BY <2>6, <2>7, <2>10 DEF a
    <3>4. Run(arg, i) = i => Run(arg, a) = a
      BY <2>6, <2>10 DEF a
    <3>5. BodyRead(A, x, q, arg, F[a], a)
      BY ONLY <2>3, <3>2, <3>3, <3>4 DEF BodyRead, t, r
    <3>6. QED BY ONLY <2>2, <3>2, <3>5 DEF a
  <2>11. CASE arg[a] # "\\"
    <3>1. Run(arg, a) = 0 /\ a - Run(arg, a) = a
      BY <2>1, <2>6, <2>11
    <3>2. ReadsTo(At(A, y, First(arg, (a - 1) - Run(arg, a - 1)), 0, q), Piece(arg, a),
                  Within(A, First(arg, a), 0, q))
      BY ONLY <2>1, <2>9, <2>11, "\\" \in S, arg \in Seq(S), A # <<>>, PieceIsRead DEF n
    <3>3. ReadsTo(p, Piece(arg, a), Within(A, First(arg, a), 0, q))
      BY ONLY <2>1, <2>4, <3>2 DEF t
    <3>4. F[a] \in Seq(S) /\ ReadsTo(r, F[a], Within(A, First(arg, a), 0, q))
      BY ONLY <2>2, <2>3, <2>5, <2>8, <3>3, ReadsOn
    <3>5. BodyRead(A, x, q, arg, F[a], a)
      BY ONLY <3>1, <3>4 DEF BodyRead, r
    <3>6. QED BY ONLY <3>4, <3>5 DEF a
  <2>12. QED BY <2>10, <2>11
<1>4. Nat \subseteq T
  <2>1. ASSUME NEW i \in Nat, i \in T PROVE i + 1 \in T
    <3> HIDE DEF Done
    <3>1. i + 1 <= n => Done(i + 1)
      BY <1>3, <2>1
    <3>2. QED BY <3>1
  <2> HIDE DEF T
  <2>2. QED BY <1>2, <2>1, Induction
<1> HIDE DEF Done
<1>5. \A i \in 0..n : Done(i)
  BY <1>1, <1>4
<1>6. QED BY <1>5 DEF Done, n

LEMMA Bodies ==
  ASSUME NEW S, "\\" \in S, NEW arg \in Seq(S)
  PROVE  \E F : /\ Joins(F, Pieces(arg), Len(arg))
               /\ FlattenSeq(Pieces(arg)) = F[Len(arg)] /\ F[Len(arg)] \in Seq(S)
<1> DEFINE n == Len(arg)
           pieces == Pieces(arg)
           Texts == Seq(S)
<1>1. n \in Nat /\ DOMAIN arg = 1..n
  BY LenProperties
<1>2. \A i \in 1..n : Piece(arg, i) \in Texts
  BY PieceIs
<1>3. pieces = [i \in 1..n |-> Piece(arg, i)]
  BY ONLY <1>1 DEF Pieces
<1> HIDE DEF pieces, Texts
<1>4. pieces \in Seq(Texts) /\ Len(pieces) = n /\ \A i \in 1..n : pieces[i] \in Texts
  BY <1>1, <1>2, <1>3
<1> HIDE DEF n
<1>5. PICK F : Joins(F, pieces, n) /\ \A i \in 0..n : F[i] \in Texts
  BY ONLY <1>1, <1>4, JoinsExist DEF Texts
<1>6. FlattenSeq(pieces) = F[n]
  BY ONLY <1>4, <1>5, JoinsFlattened DEF Texts
<1>7. F[n] \in Texts
  BY <1>1, <1>5
<1>8. QED BY <1>5, <1>6, <1>7 DEF n, pieces, Texts

(* In and out of the quotes.                                                *)
Plainly(A, t, k)  == Within(A, t, k, FALSE)
InQuotes(A, t, k) == Within(A, t, k, TRUE)

LEMMA OpensQuotes ==
  ASSUME NEW A, NEW x
  PROVE  Reads(At(A, x, <<>>, 0, FALSE), Quote)
           = InQuotes(A, Cat(Cat(<<>>, Backslashes(0)), <<>>), 0)
<1>1. 0 % 2 # 1 /\ 0 \div 2 = 0
  OBVIOUS
<1>2. QED BY <1>1, Characters DEF Reads, Takes, InQuotes, Within, At, Cat

LEMMA ClosesQuotes ==
  ASSUME NEW A, NEW x, NEW t, NEW k \in Nat
  PROVE  Reads(At(A, x, t, 2 * k, TRUE), Quote)
           = Plainly(A, Cat(Cat(t, Backslashes(k)), <<>>), 0)
<1>1. (2 * k) % 2 # 1 /\ (2 * k) \div 2 = k
  OBVIOUS
<1>2. QED BY <1>1, Characters DEF Reads, Takes, Plainly, Within, At, Cat

LEMMA Escaped ==
  ASSUME NEW arg
  PROVE  Escape(arg) =
           IF Quoted(arg)
             THEN Cat(Cat(Cat(<<Quote>>, FlattenSeq(Pieces(arg))),
                          Backslashes(2 * Run(arg, Len(arg)))), <<Quote>>)
             ELSE Cat(FlattenSeq(Pieces(arg)), Backslashes(Run(arg, Len(arg))))
BY DEF Escape, Pieces, Cat

(* An argument is read, but for the backslashes it ends with.               *)
ReadAs(r, s, A, arg) ==
  \E t, k : k \in Nat /\ ReadsTo(r, s, Plainly(A, t, k)) /\ Cat(t, Backslashes(k)) = arg

LEMMA NoBackslashes ==
  ASSUME NEW S, "\\" \in S, NEW s \in Seq(S)
  PROVE  Cat(s, Backslashes(0)) = s
BY SomeBackslashes, Monoid

LEMMA QuotedIsRead ==
  ASSUME NEW S, "\\" \in S, Quote \in S, NEW arg \in Seq(S), Quoted(arg),
         NEW A, A # <<>>
  PROVE  Escape(arg) \in Seq(S) /\ ReadAs(Between(A), Escape(arg), A, arg)
<1> DEFINE n == Len(arg)
           k == Run(arg, n)
           t == First(arg, n - k)
           quote == <<Quote>>
           body == FlattenSeq(Pieces(arg))
           back == Backslashes(2 * k)
           none == Cat(Cat(<<>>, Backslashes(0)), <<>>)
<1>1. none = <<>>
  BY NoBackslashes, Monoid
<1>2. n \in Nat /\ quote \in Seq(S)
  BY LenProperties
<1>3. k \in Nat /\ Cat(t, Backslashes(k)) = arg
  <2>1. n \in 0..Len(arg)
    BY <1>2
  <2>2. Run(arg, n) \in 0..n /\ Cat(t, Backslashes(k)) = First(arg, n)
    BY ONLY "\\" \in S, arg \in Seq(S), <2>1, RunRestored
  <2>3. First(arg, n) = arg
    BY ONLY arg \in Seq(S), <2>1, Fronts
  <2>4. k \in Nat
    BY ONLY <2>2
  <2>5. QED BY ONLY <2>2, <2>3, <2>4
<1>4. back \in Seq(S) /\ 2 * k \in Nat
  <2>1. 2 * k \in Nat
    BY ONLY <1>3
  <2>2. QED BY ONLY "\\" \in S, <2>1, SomeBackslashes
<1>5. body \in Seq(S) /\ BodyRead(A, TRUE, TRUE, arg, body, n)
  <2>1. PICK F : /\ Joins(F, Pieces(arg), Len(arg))
                 /\ FlattenSeq(Pieces(arg)) = F[Len(arg)] /\ F[Len(arg)] \in Seq(S)
    BY ONLY "\\" \in S, arg \in Seq(S), Bodies
  <2>2. \A j \in 1..Len(arg) : Accepts(TRUE, arg[j])
    BY DEF Accepts
  <2>3. \A i \in 0..Len(arg) : F[i] \in Seq(S) /\ BodyRead(A, TRUE, TRUE, arg, F[i], i)
    BY ONLY "\\" \in S, arg \in Seq(S), A # <<>>, <2>1, <2>2, BodyIsRead
  <2>4. n \in 0..Len(arg)
    BY <1>2
  <2>5. QED BY ONLY <2>1, <2>3, <2>4
<1> HIDE DEF n, k, quote, body, back, none
<1>6. ReadsTo(Between(A), quote, InQuotes(A, <<>>, 0))
  <2>1. ReadsTo(Between(A), <<Quote>>, Reads(Between(A), Quote))
    BY ONLY ReadsOne
  <2>2. QED BY ONLY <1>1, <2>1, OpensQuotes DEF quote, none, Between
<1>7. ReadsTo(InQuotes(A, <<>>, 0), body, InQuotes(A, t, 0))
  BY ONLY <1>5 DEF BodyRead, InQuotes, Within, k
<1>8. PICK p, y : ReadsTo(InQuotes(A, t, 0), back, p) /\ p = At(A, y, t, 2 * k, TRUE)
  <2>1. ReadsSlashes(A, TRUE, t, TRUE, 2 * k)
    BY ONLY A # <<>>, <1>4, ReadsBackslashes
  <2>2. QED BY ONLY <2>1 DEF ReadsSlashes, InQuotes, Within, back
<1>9. ReadsTo(p, quote, Plainly(A, arg, 0))
  <2>1. Reads(p, Quote) = Plainly(A, Cat(Cat(t, Backslashes(k)), <<>>), 0)
    BY ONLY <1>3, <1>8, ClosesQuotes
  <2>2. Cat(arg, <<>>) = arg
    BY ONLY arg \in Seq(S), Monoid
  <2>3. ReadsTo(p, <<Quote>>, Reads(p, Quote))
    BY ONLY ReadsOne
  <2>4. QED BY ONLY <1>3, <2>1, <2>2, <2>3 DEF quote
<1>10. /\ Cat(quote, body) \in Seq(S)
       /\ ReadsTo(Between(A), Cat(quote, body), InQuotes(A, t, 0))
  BY ONLY <1>2, <1>5, <1>6, <1>7, ReadsOn
<1>11. /\ Cat(Cat(quote, body), back) \in Seq(S)
       /\ ReadsTo(Between(A), Cat(Cat(quote, body), back), p)
  BY ONLY <1>4, <1>8, <1>10, ReadsOn
<1>12. /\ Cat(Cat(Cat(quote, body), back), quote) \in Seq(S)
       /\ ReadsTo(Between(A), Cat(Cat(Cat(quote, body), back), quote), Plainly(A, arg, 0))
  BY ONLY <1>2, <1>9, <1>11, ReadsOn
<1>13. Escape(arg) = Cat(Cat(Cat(quote, body), back), quote)
  BY ONLY Quoted(arg), Escaped DEF quote, body, back, n, k
<1>14. Cat(arg, Backslashes(0)) = arg
  BY ONLY "\\" \in S, arg \in Seq(S), NoBackslashes
<1>15. 0 \in Nat
  OBVIOUS
<1>16. QED BY ONLY <1>12, <1>13, <1>14, <1>15 DEF ReadAs

LEMMA PlainIsRead ==
  ASSUME NEW S, "\\" \in S, NEW arg \in Seq(S), ~Quoted(arg), NEW A, A # <<>>
  PROVE  Escape(arg) \in Seq(S) /\ ReadAs(Between(A), Escape(arg), A, arg)
<1> DEFINE n == Len(arg)
           k == Run(arg, n)
           t == First(arg, n - k)
           body == FlattenSeq(Pieces(arg))
           back == Backslashes(k)
<1>1. n \in Nat /\ n # 0
  BY EmptySeq, LenProperties DEF Quoted
<1>2. k \in Nat /\ Cat(t, back) = arg
  <2>1. n \in 0..Len(arg)
    BY <1>1
  <2>2. Run(arg, n) \in 0..n /\ Cat(t, Backslashes(k)) = First(arg, n)
    BY ONLY "\\" \in S, arg \in Seq(S), <2>1, RunRestored
  <2>3. First(arg, n) = arg
    BY ONLY arg \in Seq(S), <2>1, Fronts
  <2>4. k \in Nat
    BY ONLY <2>2
  <2>5. QED BY ONLY <2>2, <2>3, <2>4
<1>3. back \in Seq(S)
  BY ONLY "\\" \in S, <1>2, SomeBackslashes
<1>4. body \in Seq(S) /\ BodyRead(A, FALSE, FALSE, arg, body, n)
  <2>1. PICK F : /\ Joins(F, Pieces(arg), Len(arg))
                 /\ FlattenSeq(Pieces(arg)) = F[Len(arg)] /\ F[Len(arg)] \in Seq(S)
    BY ONLY "\\" \in S, arg \in Seq(S), Bodies
  <2>2. DOMAIN arg = 1..Len(arg)
    BY ONLY arg \in Seq(S), LenProperties
  <2>3. \A j \in 1..Len(arg) : ~Blank(arg[j])
    BY ONLY <2>2, ~Quoted(arg) DEF Quoted
  <2>4. \A j \in 1..Len(arg) : Accepts(FALSE, arg[j])
    BY ONLY <2>3 DEF Accepts
  <2>5. \A i \in 0..Len(arg) : F[i] \in Seq(S) /\ BodyRead(A, FALSE, FALSE, arg, F[i], i)
    BY ONLY "\\" \in S, arg \in Seq(S), A # <<>>, <2>1, <2>4, BodyIsRead
  <2>6. n \in 0..Len(arg)
    BY <1>1
  <2>7. QED BY ONLY <2>1, <2>5, <2>6
<1> HIDE DEF n, k, t, body, back
<1>5. PICK p : /\ ReadsTo(Between(A), body, p)
               /\ p = Plainly(A, t, 0) \/ (k = n /\ p = At(A, FALSE, t, 0, FALSE))
  BY ONLY <1>4 DEF BodyRead, Between, Plainly, k, t
<1>6. ReadsTo(p, back, Plainly(A, t, k))
  <2>1. CASE p = Plainly(A, t, 0)
    <3>1. ReadsSlashes(A, TRUE, t, FALSE, k)
      BY ONLY A # <<>>, <1>2, ReadsBackslashes
    <3>2. QED BY ONLY <2>1, <3>1 DEF ReadsSlashes, Plainly, Within, back
  <2>2. CASE k = n /\ p = At(A, FALSE, t, 0, FALSE)
    <3>1. ReadsSlashes(A, FALSE, t, FALSE, k)
      BY ONLY A # <<>>, <1>2, ReadsBackslashes
    <3>2. k # 0
      BY ONLY <1>1, <2>2
    <3>3. QED BY ONLY <2>2, <3>1, <3>2 DEF ReadsSlashes, Plainly, back
  <2>3. QED BY ONLY <1>5, <2>1, <2>2
<1>7. Cat(body, back) \in Seq(S) /\ ReadsTo(Between(A), Cat(body, back), Plainly(A, t, k))
  BY ONLY <1>3, <1>4, <1>5, <1>6, ReadsOn
<1>8. Escape(arg) = Cat(body, back)
  BY ONLY ~Quoted(arg), Escaped DEF body, back, n, k
<1>9. QED BY ONLY <1>2, <1>7, <1>8 DEF ReadAs, back

(* The first argument: the program's path, in which nothing is escaped.     *)
LEMMA PathAsItIs ==
  ASSUME NEW S, "\\" \in S, NEW path \in Seq(S),
         \A i \in 1..Len(path) : path[i] # Quote, path[Len(path)] # "\\", path # <<>>
  PROVE  Run(path, Len(path)) = 0 /\ FlattenSeq(Pieces(path)) = path
<1> DEFINE n == Len(path)
           Done(F, i) == F[i] = First(path, i - Run(path, i))
<1>1. n \in Nat /\ n # 0 /\ n - 1 \in Nat /\ (n - 1) + 1 = n /\ DOMAIN path = 1..n
  BY EmptySeq, LenProperties
<1>2. Run(path, n) = 0
  BY <1>1, RunGoesOn
<1>3. PICK F : /\ Joins(F, Pieces(path), n)
               /\ FlattenSeq(Pieces(path)) = F[n] /\ F[n] \in Seq(S)
  BY Bodies
<1> DEFINE T == {i \in Nat : i <= n => Done(F, i)}
<1>4. 0 \in T
  <2>1. 0 \in Nat /\ 0 \in 0..Len(path)
    BY <1>1
  <2>2. Run(path, 0) = 0
    BY ONLY <2>1, RunGoesOn
  <2>3. First(path, 0) = <<>>
    BY ONLY <2>1, path \in Seq(S), Fronts
  <2>4. F[0] = <<>> /\ 0 - Run(path, 0) = 0
    BY <1>3, <2>2 DEF Joins
  <2>5. QED BY <2>3, <2>4
<1>5. ASSUME NEW i \in Nat, i \in T, i + 1 <= n PROVE Done(F, i + 1)
  <2> DEFINE a == i + 1
             r == Run(path, i)
             t == First(path, i - r)
             one == <<path[a]>>
  <2>1. a \in 1..n /\ a - 1 = i /\ i \in 0..n
    BY <1>1, <1>5
  <2>2. F[i] = t
    BY <1>1, <1>5
  <2>3. F[a] = Cat(F[i], Piece(path, a))
    <3>1. F[a] = Cat(F[a - 1], Pieces(path)[a])
      BY ONLY <1>3, <2>1 DEF Joins
    <3>2. Pieces(path)[a] = Piece(path, a)
      BY ONLY <1>1, <2>1 DEF Pieces
    <3>3. QED BY ONLY <2>1, <3>1, <3>2
  <2>4. Run(path, a) = IF path[a] = "\\" THEN r + 1 ELSE 0
    BY ONLY i \in Nat, RunGoesOn
  <2>5. r \in 0..i /\ t \in Seq(S)
    BY ONLY "\\" \in S, path \in Seq(S), <2>1, RunRestored
  <2>6. /\ r = Run(path, a - 1) /\ path[a] # Quote
        /\ r = IF path[a] = Quote THEN 2 * r + 1 ELSE r
    BY ONLY <2>1, \A j \in 1..Len(path) : path[j] # Quote
  <2>7. /\ one \in Seq(S) /\ Backslashes(r) \in Seq(S)
        /\ Cat(Cat(First(path, (a - 1) - r), Backslashes(r)), one) = First(path, a)
        /\ path[a] = "\\" => Piece(path, a) = <<>>
        /\ path[a] # "\\" => Piece(path, a) = Cat(Backslashes(r), one)
    BY ONLY "\\" \in S, path \in Seq(S), <2>1, <2>6, PieceIs
  <2> HIDE DEF r, t, one, a, n
  <2>8. CASE path[a] = "\\"
    <3>1. Cat(t, <<>>) = t
      BY ONLY <2>5, Monoid
    <3>2. F[a] = t
      BY ONLY <2>2, <2>3, <2>7, <2>8, <3>1
    <3>3. a - Run(path, a) = i - r
      BY <2>4, <2>5, <2>8 DEF a
    <3>4. QED BY ONLY <3>2, <3>3 DEF t, a
  <2>9. CASE path[a] # "\\"
    <3>1. Cat(t, Cat(Backslashes(r), one)) = Cat(Cat(t, Backslashes(r)), one)
      BY ONLY <2>5, <2>7, Monoid
    <3>2. Cat(Cat(t, Backslashes(r)), one) = First(path, a)
      BY ONLY <2>1, <2>7 DEF t
    <3>3. F[a] = First(path, a)
      BY ONLY <2>2, <2>3, <2>7, <2>9, <3>1, <3>2
    <3>4. Run(path, a) = 0 /\ a - Run(path, a) = a
      BY <2>1, <2>4, <2>9
    <3>5. QED BY ONLY <3>3, <3>4 DEF a
  <2>10. QED BY <2>8, <2>9
<1>6. Nat \subseteq T
  <2>1. ASSUME NEW i \in Nat, i \in T PROVE i + 1 \in T
    <3> HIDE DEF Done
    <3>1. i + 1 <= n => Done(F, i + 1)
      BY <1>5, <2>1
    <3>2. QED BY <3>1
  <2> HIDE DEF T
  <2>2. QED BY <1>4, <2>1, Induction
<1>7. Done(F, n)
  <2> HIDE DEF Done
  <2>1. QED BY <1>1, <1>6
<1>8. F[n] = First(path, n) /\ First(path, n) = path
  <2>1. n - Run(path, n) = n /\ n \in 0..n
    BY <1>1, <1>2
  <2>2. F[n] = First(path, n)
    BY ONLY <1>7, <2>1
  <2>3. QED BY ONLY <2>1, <2>2, path \in Seq(S), Fronts
<1>9. QED BY ONLY <1>2, <1>3, <1>8

LEMMA PathIsTaken ==
  ASSUME NEW S, "\\" \in S, NEW path \in Seq(S), \A i \in 1..Len(path) : path[i] # Quote,
         NEW q, \A i \in 1..Len(path) : Accepts(q, path[i])
  PROVE  ReadsTo(Within(<<>>, <<>>, 0, q), path, Within(<<>>, path, 0, q))
<1> DEFINE n == Len(path)
           f == [i \in 0..n |-> Within(<<>>, First(path, i), 0, q)]
           now == Within(<<>>, <<>>, 0, q)
           then == Within(<<>>, path, 0, q)
<1>1. n \in Nat /\ First(path, 0) = <<>> /\ First(path, n) = path
  <2>1. n \in Nat
    BY LenProperties
  <2>2. 0 \in 0..Len(path)
    BY <2>1
  <2>3. QED BY ONLY <2>1, <2>2, path \in Seq(S), Fronts
<1>2. f[0] = now /\ f[n] = then
  BY <1>1
<1>3. ASSUME NEW i \in 1..n PROVE f[i] = Reads(f[i - 1], path[i])
  <2> DEFINE t == First(path, i - 1)
             one == <<path[i]>>
             A == <<>>
  <2>1. f[i] = Within(<<>>, First(path, i), 0, q) /\ f[i - 1] = Within(<<>>, t, 0, q)
    BY <1>1
  <2>2. Cat(t, one) = First(path, i)
    BY ONLY path \in Seq(S), i \in 1..n, OneMore
  <2>3. Cat(t, Backslashes(0)) = t
    <3>1. i - 1 \in 0..Len(path)
      BY <1>1
    <3>2. t \in Seq(S)
      BY ONLY <3>1, path \in Seq(S), Fronts
    <3>3. QED BY ONLY "\\" \in S, <3>2, NoBackslashes
  <2>4. path[i] # Quote /\ Accepts(q, path[i])
    BY ONLY i \in 1..n, \A j \in 1..Len(path) : path[j] # Quote,
            \A j \in 1..Len(path) : Accepts(q, path[j])
  <2>5. A = <<>>
    OBVIOUS
  <2> HIDE DEF t, one, A, f
  <2>6. Reads(Within(A, t, 0, q), path[i])
          = Within(A, Cat(Cat(t, Backslashes(0)), <<path[i]>>), 0, q)
    BY ONLY <2>4, <2>5, ReadsOfPath
  <2>7. QED BY ONLY <2>1, <2>2, <2>3, <2>5, <2>6 DEF one
<1> HIDE DEF f, now, then
<1>4. ReadsTo(now, path, then)
  BY ONLY <1>2, <1>3 DEF ReadsTo, n
<1>5. QED BY <1>4 DEF now, then

LEMMA PathIsRead ==
  ASSUME NEW S, "\\" \in S, Quote \in S, NEW path \in Seq(S),
         \A i \in 1..Len(path) : path[i] # Quote, path[Len(path)] # "\\", path # <<>>
  PROVE  Escape(path) \in Seq(S) /\ ReadAs(BeforeLine, Escape(path), <<>>, path)
<1> DEFINE A == <<>>
           none == <<>>
           quote == <<Quote>>
           zero == 2 * 0
<1>1. Run(path, Len(path)) = 0 /\ FlattenSeq(Pieces(path)) = path
  BY PathAsItIs
<1>2. /\ Backslashes(0) = <<>> /\ Cat(path, <<>>) = path /\ Cat(<<>>, <<>>) = <<>>
      /\ quote \in Seq(S) /\ Cat(path, Backslashes(0)) = path
  <2>1. Backslashes(0) = <<>>
    BY SomeBackslashes
  <2>2. Cat(path, <<>>) = path /\ Cat(<<>>, <<>>) = <<>>
    BY ONLY path \in Seq(S), Monoid
  <2>3. quote \in Seq(S)
    OBVIOUS
  <2>4. QED BY ONLY <2>1, <2>2, <2>3
<1>3. zero = 0 /\ 0 \in Nat
  OBVIOUS
<1>4. BeforeLine = At(A, TRUE, none, 0, FALSE)
  BY DEF At, BeforeLine
<1>5. CASE Quoted(path)
  <2>1. Escape(path) = Cat(Cat(Cat(quote, path), <<>>), quote)
    BY ONLY <1>1, <1>2, <1>3, <1>5, Escaped DEF zero
  <2>2. Cat(quote, path) \in Seq(S) /\ Cat(Cat(quote, path), <<>>) = Cat(quote, path)
    BY ONLY <1>2, path \in Seq(S), Monoid
  <2>3. \A j \in 1..Len(path) : Accepts(TRUE, path[j])
    BY DEF Accepts
  <2>4. ReadsTo(InQuotes(A, none, 0), path, InQuotes(A, path, 0))
    BY ONLY "\\" \in S, path \in Seq(S), \A i \in 1..Len(path) : path[i] # Quote, <2>3,
            PathIsTaken DEF InQuotes
  <2> HIDE DEF A
  <2>5. Reads(BeforeLine, Quote) = InQuotes(A, Cat(Cat(<<>>, Backslashes(0)), <<>>), 0)
    BY ONLY <1>4, OpensQuotes DEF none
  <2>6. ReadsTo(BeforeLine, quote, InQuotes(A, none, 0))
    <3>1. ReadsTo(BeforeLine, <<Quote>>, Reads(BeforeLine, Quote))
      BY ONLY ReadsOne
    <3>2. QED BY ONLY <1>2, <2>5, <3>1 DEF quote, none
  <2>7. Reads(InQuotes(A, path, 0), Quote) = Plainly(A, path, 0)
    <3>1. \E y : InQuotes(A, path, 0) = At(A, y, path, zero, TRUE)
      BY ONLY <1>3 DEF InQuotes, Within
    <3>2. \A y : Reads(At(A, y, path, zero, TRUE), Quote)
                 = Plainly(A, Cat(Cat(path, Backslashes(0)), <<>>), 0)
      BY ONLY <1>3, ClosesQuotes DEF zero
    <3>3. QED BY ONLY <1>2, <3>1, <3>2
  <2>8. ReadsTo(InQuotes(A, path, 0), quote, Plainly(A, path, 0))
    <3>1. ReadsTo(InQuotes(A, path, 0), <<Quote>>, Reads(InQuotes(A, path, 0), Quote))
      BY ONLY ReadsOne
    <3>2. QED BY ONLY <2>7, <3>1 DEF quote
  <2> HIDE DEF quote
  <2>9. ReadsTo(BeforeLine, Cat(quote, path), InQuotes(A, path, 0))
    BY ONLY <1>2, path \in Seq(S), <2>4, <2>6, ReadsOn
  <2>10. /\ Cat(Cat(quote, path), quote) \in Seq(S)
         /\ ReadsTo(BeforeLine, Cat(Cat(quote, path), quote), Plainly(A, path, 0))
    BY ONLY <1>2, <2>2, <2>8, <2>9, ReadsOn
  <2>11. Escape(path) = Cat(Cat(quote, path), quote)
    BY ONLY <2>1, <2>2
  <2>12. QED BY ONLY <1>2, <1>3, <2>10, <2>11 DEF ReadAs, A
<1>6. CASE ~Quoted(path)
  <2>1. Escape(path) = path
    BY ONLY <1>1, <1>2, <1>6, Escaped
  <2>2. DOMAIN path = 1..Len(path)
    BY ONLY path \in Seq(S), LenProperties
  <2>3. \A j \in 1..Len(path) : ~Blank(path[j])
    BY ONLY <2>2, <1>6 DEF Quoted
  <2>4. \A j \in 1..Len(path) : Accepts(FALSE, path[j])
    BY ONLY <2>3 DEF Accepts
  <2>5. ReadsTo(BeforeLine, path, Plainly(A, path, 0))
    BY ONLY "\\" \in S, path \in Seq(S), \A i \in 1..Len(path) : path[i] # Quote, <2>4,
            <1>4, PathIsTaken DEF Plainly, Within
  <2>6. QED BY ONLY <1>2, <1>3, <2>1, <2>5, path \in Seq(S) DEF ReadAs, A
<1>7. QED BY <1>5, <1>6

LEMMA WordIsRead ==
  ASSUME NEW S, "\\" \in S, Quote \in S, NEW arg \in Seq(S), NEW A, A # <<>>
  PROVE  Escape(arg) \in Seq(S) /\ ReadAs(Between(A), Escape(arg), A, arg)
<1>1. CASE Quoted(arg)
  BY ONLY "\\" \in S, Quote \in S, arg \in Seq(S), A # <<>>, <1>1, QuotedIsRead
<1>2. CASE ~Quoted(arg)
  BY ONLY "\\" \in S, arg \in Seq(S), A # <<>>, <1>2, PlainIsRead
<1>3. QED BY <1>1, <1>2

LEMMA ReadAsOn ==
  ASSUME NEW S, NEW s \in Seq(S), NEW t \in Seq(S), NEW r, NEW q, NEW A, NEW arg,
         ReadsTo(r, s, q), ReadAs(q, t, A, arg)
  PROVE  ReadAs(r, Cat(s, t), A, arg)
<1>1. PICK u, k : k \in Nat /\ ReadsTo(q, t, Plainly(A, u, k)) /\ Cat(u, Backslashes(k)) = arg
  BY DEF ReadAs
<1>2. ReadsTo(r, Cat(s, t), Plainly(A, u, k))
  BY <1>1, ReadsOn
<1>3. QED BY ONLY <1>1, <1>2 DEF ReadAs

(* The arguments with the blanks between them.                              *)
Links(argv) ==
  [i \in DOMAIN argv |-> Cat(IF i > 1 THEN <<Space>> ELSE <<>>, Escape(argv[i]))]

IsArgv(argv, S) ==
  /\ argv \in Seq(Seq(S)) /\ argv # <<>> /\ argv[1] # <<>>
  /\ argv[1][Len(argv[1])] # "\\" /\ \A i \in 1..Len(argv[1]) : argv[1][i] # Quote

LEMMA LineIsRead ==
  ASSUME NEW S, "\\" \in S, Quote \in S, Space \in S, NEW argv, IsArgv(argv, S)
  PROVE  CommandLineToArgv(argvToCommandLine(argv)) = argv
<1> DEFINE n == Len(argv)
           Texts == Seq(S)
           links == Links(argv)
           Before(i) == First(argv, i - 1)
           space == <<Space>>
<1>1. n \in Nat /\ n # 0 /\ DOMAIN argv = 1..n /\ \A i \in 1..n : argv[i] \in Texts
  <2>1. argv \in Seq(Texts) /\ argv # <<>>
    BY DEF IsArgv
  <2> HIDE DEF Texts
  <2>2. QED BY <2>1, EmptySeq, LenProperties, ElementOfSeq
<1>2. space \in Texts /\ <<>> \in Texts
  OBVIOUS
<1>3. Escape(argv[1]) \in Texts /\ ReadAs(BeforeLine, Escape(argv[1]), <<>>, argv[1])
  <2>1. 1 \in 1..n
    BY ONLY <1>1
  <2>2. argv[1] \in Seq(S)
    BY ONLY <1>1, <2>1
  <2>3. /\ argv[1][Len(argv[1])] # "\\" /\ argv[1] # <<>>
        /\ \A i \in 1..Len(argv[1]) : argv[1][i] # Quote
    BY ONLY IsArgv(argv, S) DEF IsArgv
  <2>4. QED BY ONLY "\\" \in S, Quote \in S, <2>2, <2>3, PathIsRead
<1>4. ASSUME NEW i \in 1..n, NEW A, A # <<>>
      PROVE  Escape(argv[i]) \in Texts /\ ReadAs(Between(A), Escape(argv[i]), A, argv[i])
  <2>1. argv[i] \in Seq(S)
    BY ONLY <1>1, i \in 1..n
  <2>2. QED BY ONLY "\\" \in S, Quote \in S, A # <<>>, <2>1, WordIsRead
<1>5. /\ \A i \in 1..n : links[i] \in Texts
      /\ links \in Seq(Texts) /\ Len(links) = n
  <2>1. \A i \in 1..n : Escape(argv[i]) \in Texts
    <3> DEFINE A == <<Quote>>
    <3>1. A # <<>>
      OBVIOUS
    <3> HIDE DEF A
    <3>2. QED BY ONLY <1>4, <3>1
  <2>2. \A i \in 1..n : (IF i > 1 THEN space ELSE <<>>) \in Texts
    BY ONLY <1>2
  <2>3. \A a, b \in Texts : Cat(a, b) \in Texts
    BY ONLY Monoid
  <2> HIDE DEF Texts, n, space, links
  <2>4. links = [i \in 1..n |-> Cat(IF i > 1 THEN space ELSE <<>>, Escape(argv[i]))]
    BY ONLY <1>1 DEF links, Links, space
  <2>5. \A i \in 1..n : links[i] \in Texts
    BY ONLY <2>1, <2>2, <2>3, <2>4
  <2>6. links \in Seq(Texts) /\ Len(links) = n
    BY ONLY <1>1, <2>4, <2>5
  <2>7. QED BY ONLY <2>5, <2>6
<1>6. argvToCommandLine(argv) = FlattenSeq(links)
  BY DEF argvToCommandLine, Links, Cat
<1>7. PICK G : Joins(G, links, n) /\ \A i \in 0..n : G[i] \in Texts
  BY ONLY <1>1, <1>5, JoinsExist
<1>8. FlattenSeq(links) = G[n]
  BY ONLY <1>5, <1>7, JoinsFlattened
<1>9. ASSUME NEW i \in 1..n, ReadAs(BeforeLine, G[i], Before(i), argv[i]), i + 1 \in 1..n
      PROVE  ReadAs(BeforeLine, G[i + 1], Before(i + 1), argv[i + 1])
  <2> DEFINE a == i + 1
             A == First(argv, i)
             escaped == Escape(argv[a])
  <2>1. a - 1 = i /\ i - 1 \in 0..n /\ i \in 0..n /\ a > 1
    BY <1>1
  <2>2. PICK t, k : /\ k \in Nat /\ ReadsTo(BeforeLine, G[i], Plainly(Before(i), t, k))
                    /\ Cat(t, Backslashes(k)) = argv[i]
    BY ONLY <1>9 DEF ReadAs
  <2>3. A = Append(Before(i), argv[i]) /\ A # <<>>
    <3>1. argv \in Seq(Texts)
      BY DEF IsArgv
    <3>2. argv[i] \in Texts
      BY ONLY <1>1, i \in 1..n
    <3> HIDE DEF Texts
    <3>3. First(argv, i - 1) \in Seq(Texts)
      BY ONLY <2>1, <3>1, Fronts
    <3>4. Cat(First(argv, i - 1), <<argv[i]>>) = First(argv, i)
      BY ONLY i \in 1..n, <3>1, OneMore
    <3>5. /\ Append(First(argv, i - 1), argv[i]) = First(argv, i - 1) \o <<argv[i]>>
          /\ Append(First(argv, i - 1), argv[i]) # <<>>
      BY ONLY <3>2, <3>3, AppendIsConcat, AppendProperties
    <3>6. QED BY ONLY <3>4, <3>5 DEF Cat
  <2>4. ReadsTo(Plainly(Before(i), t, k), space, Between(A))
    <3>1. Reads(Plainly(Before(i), t, k), Space) = Between(Append(Before(i), argv[i]))
      BY ONLY <2>2, Characters, ReadsBlank DEF Plainly
    <3>2. ReadsTo(Plainly(Before(i), t, k), <<Space>>, Reads(Plainly(Before(i), t, k), Space))
      BY ONLY ReadsOne
    <3>3. QED BY ONLY <2>3, <3>1, <3>2
  <2>5. escaped \in Texts /\ ReadAs(Between(A), escaped, A, argv[a])
    BY ONLY <1>4, <1>9, <2>3
  <2>6. G[a] = Cat(G[i], Cat(space, escaped))
    <3>1. G[a] = Cat(G[a - 1], links[a])
      BY ONLY <1>7, <1>9 DEF Joins
    <3>2. links[a] = Cat(space, escaped)
      BY ONLY <1>1, <1>9, <2>1 DEF Links
    <3>3. QED BY ONLY <2>1, <3>1, <3>2
  <2>7. G[i] \in Texts
    BY ONLY <1>7, <2>1
  <2> HIDE DEF escaped, space, A, a
  <2>8. /\ Cat(G[i], space) \in Seq(S)
        /\ ReadsTo(BeforeLine, Cat(G[i], space), Between(A))
    BY ONLY <1>2, <2>2, <2>4, <2>7, ReadsOn
  <2>9. ReadAs(BeforeLine, Cat(Cat(G[i], space), escaped), A, argv[a])
    BY ONLY <2>5, <2>8, ReadAsOn
  <2>10. Cat(Cat(G[i], space), escaped) = Cat(G[i], Cat(space, escaped))
    <3>1. \A e, f, g \in Texts : Cat(Cat(e, f), g) = Cat(e, Cat(f, g))
      BY ONLY Monoid
    <3> HIDE DEF Texts
    <3>2. QED BY ONLY <1>2, <2>5, <2>7, <3>1
  <2>11. QED BY ONLY <2>1, <2>6, <2>9, <2>10 DEF A, a
<1>10. ReadAs(BeforeLine, G[1], Before(1), argv[1])
  <2>1. 1 \in 1..n /\ 1 - 1 = 0
    BY <1>1
  <2>2. G[1] = Cat(<<>>, Cat(<<>>, Escape(argv[1])))
    <3>1. G[1] = Cat(G[1 - 1], links[1]) /\ G[0] = <<>>
      BY ONLY <1>7, <2>1 DEF Joins
    <3>2. links[1] = Cat(<<>>, Escape(argv[1]))
      BY ONLY <1>1, <2>1 DEF Links
    <3>3. QED BY ONLY <2>1, <3>1, <3>2
  <2>3. G[1] = Escape(argv[1])
    BY ONLY <1>3, <2>2, Monoid
  <2>4. First(argv, 0) = <<>>
    BY SubSeqEmpty DEF First
  <2>5. QED BY ONLY <1>3, <2>1, <2>3, <2>4
<1>11. ReadAs(BeforeLine, G[n], Before(n), argv[n])
  <2> DEFINE T == {i \in Nat : i + 1 \in 1..n =>
                                ReadAs(BeforeLine, G[i + 1], Before(i + 1), argv[i + 1])}
  <2>1. 0 \in T
    BY <1>10
  <2>2. ASSUME NEW i \in Nat, i \in T PROVE i + 1 \in T
    <3>1. CASE (i + 1) + 1 \in 1..n
      <4>1. i + 1 \in 1..n
        BY <1>1, <3>1
      <4>2. QED BY <1>9, <2>2, <3>1, <4>1
    <3>2. QED BY <3>1
  <2> HIDE DEF T
  <2>3. Nat \subseteq T
    BY ONLY <2>1, <2>2, Induction
  <2>4. n - 1 \in Nat /\ (n - 1) + 1 = n /\ n \in 1..n
    BY <1>1
  <2>5. QED BY ONLY <2>3, <2>4 DEF T
<1>12. PICK t, k : /\ k \in Nat /\ ReadsTo(BeforeLine, G[n], Plainly(Before(n), t, k))
                   /\ Cat(t, Backslashes(k)) = argv[n]
  BY ONLY <1>11 DEF ReadAs
<1>13. /\ Plainly(Before(n), t, k).inside
       /\ Finished(Plainly(Before(n), t, k)) = Append(Before(n), argv[n])
  BY ONLY <1>12 DEF Finished, Plainly, Within, At, Cat
<1>14. Append(Before(n), argv[n]) = argv
  <2>1. argv \in Seq(Texts)
    BY DEF IsArgv
  <2>2. n \in 1..n /\ n \in 0..n /\ n - 1 \in 0..n
    BY <1>1
  <2>3. argv[n] \in Texts
    BY ONLY <1>1, <2>2
  <2> HIDE DEF Texts
  <2>4. First(argv, n - 1) \in Seq(Texts) /\ First(argv, n) = argv
    BY ONLY <2>1, <2>2, Fronts
  <2>5. Cat(First(argv, n - 1), <<argv[n]>>) = First(argv, n)
    BY ONLY <2>1, <2>2, OneMore
  <2>6. Append(First(argv, n - 1), argv[n]) = First(argv, n - 1) \o <<argv[n]>>
    BY ONLY <2>3, <2>4, AppendIsConcat
  <2>7. QED BY ONLY <2>4, <2>5, <2>6 DEF Cat
<1>15. CommandLineToArgv(G[n]) = Finished(Plainly(Before(n), t, k))
  <2>1. G[n] \in Seq(S)
    <3>1. n \in 0..n
      BY <1>1
    <3>2. QED BY ONLY <1>7, <3>1
  <2>2. CommandLineToArgv(G[n])
          = IF Plainly(Before(n), t, k).inside THEN Finished(Plainly(Before(n), t, k))
            ELSE Plainly(Before(n), t, k).args
    BY ONLY <1>12, <2>1, ReadsLine
  <2>3. QED BY ONLY <1>13, <2>2
<1>16. QED BY ONLY <1>6, <1>8, <1>13, <1>14, <1>15

-----------------------------------------------------------------------------
(* The arguments and the program the child's are made of.                   *)
LEMMA FirstIs ==
  ASSUME NEW T, T \subseteq Nat, T # {}
  PROVE  FirstOf(T) \in T /\ \A j \in T : FirstOf(T) <= j
BY SmallestOf DEF FirstOf

(* The provers know of no string that it is one.                            *)
Letters == STRING \cup {"\\", Quote, Space}

LEMMA StringsAreLetters == \A s \in Seq(STRING) : s \in Seq(Letters)
<1> SUFFICES ASSUME NEW s \in Seq(STRING) PROVE s \in Seq(Letters)
  OBVIOUS
<1>1. Len(s) \in Nat /\ s = [i \in 1..Len(s) |-> s[i]] /\ \A i \in 1..Len(s) : s[i] \in STRING
  BY ONLY s \in Seq(STRING), LenProperties, ElementOfSeq
<1>2. \A i \in 1..Len(s) : s[i] \in Letters
  BY ONLY <1>1 DEF Letters
<1> DEFINE n == Len(s)
           L == Letters
<1> HIDE DEF L
<1>3. [i \in 1..n |-> s[i]] \in Seq(L)
  BY <1>1, <1>2 DEF L
<1>4. QED BY <1>1, <1>3 DEF L

(* The child's arguments are the last ones, from the first that is no       *)
(* option or from the one after "--".                                       *)
SplitAt(argv, given, n) ==
  /\ n \in 0..Len(argv) /\ Len(given) = Len(argv) - n
  /\ given \in Seq(Seq(Letters)) /\ \A i \in 1..Len(given) : given[i] = argv[n + i].text
  /\ \A i \in 1..n - 1 : argv[i].option \in Flags
  /\ n >= 1 => argv[n].option \in Flags \cup {"--"}
  /\ n = 0 \/ argv[n].option # "--" => argv[n + 1].option = "none"

Rows == [option : STRING, text : Seq(STRING)]

LEMMA ArgumentsAreSplit ==
  ASSUME NEW argv \in Seq(Rows), ~ParseArguments(argv).exits,
         ParseArguments(argv).childArgv # <<>>
  PROVE  \E n : SplitAt(argv, ParseArguments(argv).childArgv, n)
<1> DEFINE n     == Len(argv)
           T     == {i \in 1..n : argv[i].option \in {"none", "--"}} \cup {n + 1}
           stop  == FirstOf(T)
           ends  == {i \in 1..stop - 1 : argv[i].option \notin Flags}
           skip  == stop <= n /\ argv[stop].option = "--"
           from  == IF skip THEN stop + 1 ELSE stop
           after == SubSeq(argv, from, n)
           given == [i \in DOMAIN after |-> after[i].text]
<1>1. ends = {} /\ ParseArguments(argv).childArgv = given /\ given # <<>>
  BY DEF ParseArguments
<1>2. n \in Nat /\ \A i \in 1..n : argv[i] \in Rows
  BY LenProperties, ElementOfSeq
<1>3. stop \in T /\ \A j \in T : stop <= j
  <2>1. T \subseteq Nat /\ T # {}
    BY <1>2
  <2> HIDE DEF T
  <2>2. QED BY <2>1, FirstIs
<1> HIDE DEF stop
<1>4. stop \in 1..n + 1 /\ (stop <= n => argv[stop].option \in {"none", "--"})
  BY <1>2, <1>3
<1>5. \A i \in 1..stop - 1 : argv[i].option \in Flags
  BY <1>1
<1> HIDE DEF n, T, ends
<1>6. from \in 1..n + 2 /\ from \in Nat
  BY <1>2, <1>4
<1>7. /\ after \in Seq(Rows) /\ Len(after) = IF from <= n THEN n - from + 1 ELSE 0
      /\ \A i \in 1..n - from + 1 : after[i] = argv[from + i - 1]
  <2> HIDE DEF from
  <2>1. \A i \in from..n : argv[i] \in Rows
    BY <1>2, <1>6
  <2>2. from \in Int /\ n \in Int
    BY <1>2, <1>6
  <2>3. QED BY ONLY <2>1, <2>2, SubSeqProperties
<1>8. DOMAIN after = 1..Len(after) /\ Len(after) \in Nat
  BY ONLY <1>7, LenProperties
<1> HIDE DEF from, after
<1>9. given = [i \in 1..Len(after) |-> after[i].text]
  BY <1>8
<1>10. \A i \in 1..Len(after) : after[i] \in Rows
  BY ONLY <1>7, ElementOfSeq
<1> HIDE DEF given
<1>11. given \in Seq(Seq(Letters)) /\ Len(given) = Len(after)
  <2>1. \A i \in 1..Len(after) : after[i].text \in Seq(Letters)
    BY ONLY <1>10, StringsAreLetters DEF Rows
  <2> DEFINE U == Seq(Letters)
  <2> HIDE DEF U
  <2>2. given \in Seq(U) /\ Len(given) = Len(after)
    BY ONLY <1>8, <1>9, <2>1 DEF U
  <2>3. QED BY <2>2 DEF U
<1>12. from <= n /\ Len(given) = n - from + 1
  <2>1. Len(after) # 0
    BY <1>1, <1>11, EmptySeq
  <2>2. QED BY <1>7, <1>11, <2>1
<1> DEFINE m == from - 1
<1>13. /\ m \in 0..n /\ Len(given) = n - m
  BY <1>2, <1>6, <1>12
<1>14. ASSUME NEW i \in 1..Len(given) PROVE given[i] = argv[m + i].text
  <2>1. /\ i \in 1..Len(after) /\ i \in 1..n - from + 1 /\ from + i - 1 = m + i
    BY <1>2, <1>6, <1>11, <1>12
  <2>2. QED BY <1>7, <1>9, <2>1
<1>15. ASSUME NEW i \in 1..m - 1 PROVE argv[i].option \in Flags
  <2>1. i \in 1..stop - 1
    BY <1>4 DEF from
  <2>2. QED BY <1>5, <2>1
<1>16. m >= 1 => argv[m].option \in Flags \cup {"--"}
  BY <1>4, <1>5 DEF from
<1>17. m = 0 \/ argv[m].option # "--" => argv[m + 1].option = "none"
  BY <1>4, <1>12 DEF from
<1>18. SplitAt(argv, given, m)
  BY ONLY <1>11, <1>13, <1>14, <1>15, <1>16, <1>17 DEF SplitAt, n
<1>19. QED BY <1>1, <1>18

(* What start asks for, of the child's arguments and its environment.       *)
Fits(st, n) ==
  /\ n >= 0
  /\ \A i \in 1..n - 1 : st.argv[i].option \in Flags
  /\ n >= 1 => st.argv[n].option \in Flags \cup {"--"}
  /\ n = 0 \/ st.argv[n].option # "--" => st.argv[n + 1].option = "none"

IsStartable(st, dir, prog) ==
  /\ \E f \in st.files :
       f.dir = dir /\ f.name = prog.name /\ f.ext \in {prog.ext} \cup
         (IF prog.ext = "" THEN {".exe"} ELSE {})
  /\ [dir |-> dir, name |-> prog.name, ext |-> Extension(prog), runs |-> TRUE] \in st.files

RunsFirst(st, path) ==
  st.program.dir = <<>> => \E k \in DOMAIN st.path :
    /\ \E f \in st.files : f.dir = st.path[k] /\ f.name = st.program.name /\ f.runs
                             /\ path = Path(st.path[k], f.name, f.ext)
    /\ \A j \in 1..k - 1 : ~IsStartable(st, st.path[j], st.program)

EnvFits(st, env) ==
  "TERM" \notin env /\ st.env \cap {"WINPTY_DEBUG", "WINPTY_SHOW_CONSOLE"} \subseteq env

ArgvFits(st, argv) ==
  /\ Fits(st, Len(st.argv) - Len(argv))
  /\ \A i \in 2..Len(argv) :
       argv[i] = st.argv[(Len(st.argv) - Len(argv)) + i].text
  /\ RunsFirst(st, argv[1])

LEMMA ProgramIsFound ==
  ASSUME start \in Starts, NEW path \in findProgram(start.program)
  PROVE  IsPath(path) /\ RunsFirst(start, path)
<1> DEFINE prog == start.program
<1>1. /\ start.path \in Seq(Seq(STRING))
      /\ IsPath(Path(prog.dir, prog.name, prog.ext))
      /\ \A f \in start.files : IsPath(Path(f.dir, f.name, f.ext))
  BY StartsAssumption
<1>2. CASE prog.dir # <<>>
  <2>1. path = Path(prog.dir, prog.name, prog.ext)
    BY <1>2 DEF findProgram
  <2>2. QED BY <1>1, <1>2, <2>1 DEF RunsFirst
<1>3. CASE prog.dir = <<>>
  <2> DEFINE T == Found(prog)
             k == FirstOf(T)
             file == [dir |-> start.path[k], name |-> prog.name, ext |-> Extension(prog),
                      runs |-> TRUE]
  <2>1. T # {} /\ path = Path(start.path[k], prog.name, Extension(prog))
    BY <1>3 DEF findProgram
  <2>2. DOMAIN start.path = 1..Len(start.path)
    BY ONLY <1>1, LenProperties
  <2>3. T \subseteq Nat
    BY ONLY <2>2 DEF Found
  <2> HIDE DEF T
  <2>4. k \in T /\ \A j \in T : k <= j
    BY <2>1, <2>3, FirstIs
  <2> HIDE DEF k
  <2>5. k \in DOMAIN start.path /\ Startable(start.path[k], prog)
    BY ONLY <2>4 DEF T, Found
  <2>6. file \in start.files
    BY <2>5 DEF Startable
  <2>7. /\ file.dir = start.path[k] /\ file.name = prog.name /\ file.runs
        /\ file.ext = Extension(prog)
    OBVIOUS
  <2> HIDE DEF file
  <2>8. ASSUME NEW j \in 1..k - 1 PROVE ~IsStartable(start, start.path[j], prog)
    <3>1. j \in DOMAIN start.path /\ ~(k <= j)
      BY <2>2, <2>5
    <3>2. ~Startable(start.path[j], prog)
      BY <2>4, <3>1 DEF T, Found
    <3>3. QED BY <3>2 DEF IsStartable, Startable, Exists
  <2>9. IsPath(path)
    BY ONLY <1>1, <2>1, <2>6, <2>7
  <2>10. RunsFirst(start, path)
    BY ONLY <2>1, <2>5, <2>6, <2>7, <2>8 DEF RunsFirst
  <2>11. QED BY <2>9, <2>10
<1>4. QED BY <1>2, <1>3

LEMMA LineFits ==
  ASSUME start \in Starts, ~ParseArguments(start.argv).exits, ChildArgv # <<>>,
         NEW path \in findProgram(start.program)
  PROVE  ArgvFits(start, CommandLineToArgv(argvToCommandLine(<<path>> \o Tail(ChildArgv))))
<1> DEFINE given == ChildArgv
           one == <<path>>
           rest == Tail(given)
           argv == one \o rest
<1>1. IsPath(path) /\ RunsFirst(start, path)
  BY ProgramIsFound
<1>2. PICK n : SplitAt(start.argv, given, n)
  <2>1. start.argv \in Seq(Rows)
    BY StartsAssumption DEF Rows
  <2>2. QED BY <2>1, ArgumentsAreSplit DEF ChildArgv
<1> HIDE DEF given
<1> DEFINE Texts == Seq(Letters)
<1>3. /\ n \in 0..Len(start.argv) /\ Len(given) = Len(start.argv) - n
      /\ given \in Seq(Texts)
      /\ \A i \in 1..Len(given) : given[i] = start.argv[n + i].text
      /\ n \in Nat => Fits(start, n)
  BY ONLY <1>2 DEF SplitAt, Fits
<1>4. path \in Texts /\ given # <<>>
  BY <1>1, StringsAreLetters DEF IsPath, given
<1> HIDE DEF Texts
<1>5. /\ rest \in Seq(Texts) /\ Len(rest) = Len(given) - 1 /\ Len(given) \in Nat \ {0}
      /\ \A i \in 1..Len(rest) : rest[i] = given[i + 1]
  BY ONLY <1>3, <1>4, HeadTailProperties, LenProperties, EmptySeq
<1>6. one \in Seq(Texts) /\ Len(one) = 1 /\ one[1] = path
  BY ONLY <1>4
<1> HIDE DEF one, rest
<1>7. /\ argv \in Seq(Texts) /\ Len(argv) = 1 + Len(rest)
      /\ \A i \in 1..1 + Len(rest) : argv[i] = IF i <= 1 THEN one[i] ELSE rest[i - 1]
  <2>1. /\ one \o rest \in Seq(Texts) /\ Len(one \o rest) = Len(one) + Len(rest)
        /\ \A i \in 1..Len(one) + Len(rest) :
             (one \o rest)[i] = IF i <= Len(one) THEN one[i] ELSE rest[i - Len(one)]
    BY ONLY <1>5, <1>6, ConcatProperties
  <2>2. QED BY ONLY <1>6, <2>1
<1> HIDE DEF argv
<1>8. /\ Len(argv) = Len(given) /\ argv[1] = path
      /\ \A i \in 2..Len(argv) : argv[i] = given[i]
  <2>1. Len(argv) = Len(given) /\ argv[1] = path
    BY <1>5, <1>6, <1>7
  <2>2. ASSUME NEW i \in 2..Len(argv) PROVE argv[i] = given[i]
    <3>1. i \in 1..1 + Len(rest) /\ ~(i <= 1) /\ i - 1 \in 1..Len(rest) /\ (i - 1) + 1 = i
      BY <1>5, <1>7
    <3>2. QED BY ONLY <1>5, <1>7, <3>1
  <2>3. QED BY <2>1, <2>2
<1>9. CommandLineToArgv(argvToCommandLine(argv)) = argv
  <2>1. "\\" \in Letters /\ Quote \in Letters /\ Space \in Letters
    BY DEF Letters
  <2>2. argv # <<>>
    BY <1>5, <1>7, <1>8
  <2>3. IsArgv(argv, Letters)
    BY ONLY <1>1, <1>7, <1>8, <2>2 DEF IsArgv, IsPath, Texts
  <2>4. QED BY ONLY <2>1, <2>3, LineIsRead
<1>10. ArgvFits(start, argv)
  <2>1. Len(start.argv) - Len(argv) = n /\ n \in Nat
    <3>1. Len(start.argv) \in Nat
      BY StartsAssumption, LenProperties
    <3>2. QED BY ONLY <1>3, <1>8, <3>1
  <2>2. \A i \in 2..Len(argv) : argv[i] = start.argv[n + i].text
    <3>1. \A i \in 2..Len(argv) : i \in 1..Len(given)
      BY <1>5, <1>8
    <3>2. QED BY ONLY <1>3, <1>8, <3>1
  <2>3. Fits(start, n)
    BY ONLY <1>3, <2>1
  <2>4. QED BY ONLY <1>1, <1>8, <2>1, <2>2, <2>3 DEF ArgvFits
<1>11. QED BY ONLY <1>9, <1>10 DEF argv, one, rest, given

(* Up to the child's start main() still knows how it was itself started.    *)
AsksFor(st) == ~ParseArguments(st.argv).exits /\ ParseArguments(st.argv).childArgv # <<>>

Asked ==
  /\ step \in {"arguments", "open", "connect", "program"} => start \in Starts
  /\ step \in {"open", "connect", "program"} => AsksFor(start) /\ EnvFits(start, winEnv)
  /\ step = "spawn" /\ main = "start" =>
       ArgvFits(start, CommandLineToArgv(cmdline)) /\ EnvFits(start, winEnv)

LEMMA AskedIsKept == Asked /\ [AdapterNext]_allVars => Asked'
<1> SUFFICES ASSUME Asked, [AdapterNext]_allVars PROVE Asked'
  OBVIOUS
<1>1. CASE Arguments
  <2>1. CASE step' = "open"
    <3>1. step = "arguments" /\ start \in Starts /\ start' = start
      BY <1>1 DEF Arguments, Asked
    <3>2. /\ AsksFor(start)
          /\ \E synced \in BOOLEAN : winEnv' = Win32Environment(synced)
      BY <1>1, <2>1, <3>1 DEF Arguments, Exit, AsksFor
    <3>3. EnvFits(start, winEnv')
      BY ONLY <3>2 DEF EnvFits, Win32Environment
    <3>4. QED BY ONLY <2>1, <3>1, <3>2, <3>3 DEF Asked
  <2>2. CASE step' # "open"
    <3>1. step' \in {"over", "raw"}
      BY <1>1, <2>2 DEF Arguments, Exit
    <3>2. QED BY ONLY <3>1 DEF Asked
  <2>3. QED BY <2>1, <2>2
<1>2. CASE Open \/ Connect
  <2>1. /\ step \in {"open", "connect"} /\ UNCHANGED <<start, winEnv, cmdline>>
        /\ step' \in {"over", "connect", "program"}
    BY <1>2 DEF Open, Connect, Exit, Abort, setupVars
  <2>2. QED BY ONLY <2>1, Asked DEF Asked
<1>3. CASE CommandLine
  <2>1. step = "program" /\ start \in Starts /\ AsksFor(start) /\ EnvFits(start, winEnv)
    BY <1>3 DEF CommandLine, Asked
  <2>2. UNCHANGED <<start, winEnv>> /\ step' \in {"over", "spawn"}
    BY <1>3 DEF CommandLine, Exit
  <2>3. CASE step' = "spawn"
    <3>1. PICK path \in findProgram(start.program) :
            cmdline' = argvToCommandLine(<<path>> \o Tail(ChildArgv))
      BY <1>3, <2>3 DEF CommandLine, Exit
    <3>2. ArgvFits(start, CommandLineToArgv(cmdline'))
      <4>1. ~ParseArguments(start.argv).exits /\ ChildArgv # <<>>
        BY ONLY <2>1 DEF AsksFor, ChildArgv
      <4>2. QED BY ONLY <2>1, <3>1, <4>1, LineFits
    <3>3. QED BY ONLY <2>1, <2>2, <2>3, <3>2 DEF Asked
  <2>4. CASE step' = "over"
    BY ONLY <2>4 DEF Asked
  <2>5. QED BY <2>2, <2>3, <2>4
<1>4. CASE Spawn
  <2>1. main' # "start" /\ step' \in {"over", "spawn", "raw"}
    BY <1>4 DEF Spawn, MainSpawns, MainRegisters
  <2>2. QED BY ONLY <2>1 DEF Asked
<1>5. CASE SaveModes \/ SetMode \/ ModesSet \/ ShowKeys \/ Threads \/ RestoreMode \/ Return
  <2>1. step' \in {"over", "set", "keys", "threads", "restore", "raw"}
    BY <1>5 DEF SaveModes, SetMode, ModesSet, ShowKeys, Threads, RestoreMode, Return, Exit
  <2>2. QED BY ONLY <2>1 DEF Asked
<1>6. CASE Others \/ UNCHANGED allVars
  <2>1. UNCHANGED <<step, main, start, cmdline, winEnv>>
    BY <1>6, OthersKeepPlace DEF Others, mainOnly, setupVars, allVars, vars, mainVars
  <2>2. QED BY ONLY <2>1, Asked DEF Asked
<1>7. QED BY <1>1, <1>2, <1>3, <1>4, <1>5, <1>6 DEF AdapterNext, Setup, SetModes, Ends

(* Whatever the arguments are, the child is started with those the user     *)
(* gave it: it finds them in its command line as they were typed, quotes,   *)
(* blanks and backslashes included.  It is the first executable of its name *)
(* in the PATH, and has the environment it should (parseArguments,          *)
(* findProgram, argvToCommandLine, setupWin32Environment).                  *)
THEOREM ChildIsAskedFor == AdapterSpec => []ChildStartsAsAsked
<1>1. AdapterInit => Asked
  BY DEF AdapterInit, Asked
<1>2. Asked => ChildStartsAsAsked
  <2> SUFFICES ASSUME Asked, step = "spawn", main = "start" PROVE ChildStartsAsAsked
    BY DEF ChildStartsAsAsked
  <2> DEFINE argv == CommandLineToArgv(cmdline)
             n == Len(start.argv) - Len(argv)
  <2>1. ArgvFits(start, argv) /\ EnvFits(start, winEnv)
    BY DEF Asked
  <2> HIDE DEF argv
  <2>2. Fits(start, n) /\ RunsFirst(start, argv[1])
        /\ \A i \in 2..Len(argv) : argv[i] = start.argv[n + i].text
    BY ONLY <2>1 DEF ArgvFits
  <2>3. start.program.dir = <<>> => \E k \in DOMAIN start.path :
          /\ \E f \in start.files :
                f.dir = start.path[k] /\ f.name = start.program.name /\ f.runs
                  /\ argv[1] = Path(start.path[k], f.name, f.ext)
          /\ \A j \in 1..k - 1 : ~Startable(start.path[j], start.program)
    BY ONLY <2>2 DEF RunsFirst, IsStartable, Startable, Exists
  <2> HIDE DEF n
  <2>4. QED BY ONLY <2>1, <2>2, <2>3 DEF ChildStartsAsAsked, EnvFits, Fits, argv, n
<1>3. QED BY <1>1, <1>2, AskedIsKept, PTL DEF AdapterSpec
=============================================================================
