------------------------------ MODULE Libwinpty ------------------------------
(***************************************************************************)
(* A winpty_t from winpty_open on: OpenSession, and once it has returned   *)
(* one, the calls of module Rpc on it, while the agent that kept the       *)
(* desktop is still on its way out.                                        *)
(***************************************************************************)
EXTENDS Rpc, OpenSession

libVars == <<vars, openVars>>

LibInit == Init /\ OpenInit

(* winpty_open returns the winpty_t.  The agent may be dead by then.  What  *)
(* is no longer looked at is forgotten.                                     *)
Opened ==
  /\ at = "returned" /\ result = "opened" /\ at' = "open"
  /\ agent' = IF proc["main"] = "dead" THEN "dead" ELSE "alive"
  /\ proc' = [proc EXCEPT !["main"] = "none"]
  /\ control' = [control EXCEPT !["main"] = "none"]
  /\ packet' = [r \in Role |-> FALSE]
  /\ plan' = "nobody" /\ desktopName' = "" /\ spawnDesktopName' = ""
  /\ system' = "none" /\ died' = FALSE /\ font' = NoFontYet
  /\ UNCHANGED <<clientVars, inQueue, outQueue, toAgent, toClient, served,
                 closedOn, role, station, handles, result>>

LibNext ==
  \/ OpenNext /\ UNCHANGED vars
  \/ Opened
  \/ at = "open" /\ Next /\ UNCHANGED openVars

(* The client's threads run, and so do agents that neither die nor hang.    *)
LibSpec ==
  /\ LibInit /\ [][LibNext]_libVars
  /\ WF_libVars(OpenClient /\ UNCHANGED vars) /\ WF_libVars(Opened)
  /\ WF_libVars(OpenAgents /\ UNCHANGED vars)
  /\ WF_libVars(at = "open" /\ Tick /\ UNCHANGED openVars)
  /\ \A t \in Thread : WF_libVars(at = "open" /\ ClientStep(t) /\ UNCHANGED openVars)
=============================================================================
