----------------------------- MODULE RpcPromise -----------------------------
(***************************************************************************)
(* What libwinpty promises of a winpty_t that several threads call: a call *)
(* that succeeds has been carried out by the agent, during the call and    *)
(* one call at a time; a call that fails for want of the agent takes the   *)
(* link down for good, and no later call reaches the agent.                *)
(***************************************************************************)
CONSTANT Thread

VARIABLES
  status,  \* per thread: "idle", "asked", "served"
  link     \* "up" or "down"

vars == <<status, link>>

Init == status = [t \in Thread |-> "idle"] /\ link = "up"

Ask(t) ==
  /\ status[t] = "idle"
  /\ status' = [status EXCEPT ![t] = "asked"]
  /\ UNCHANGED link

Serve(t) ==
  /\ link = "up"
  /\ status[t] = "asked" /\ \A u \in Thread : status[u] # "served"
  /\ status' = [status EXCEPT ![t] = "served"]
  /\ UNCHANGED link

Return(t) ==
  /\ status[t] = "served"
  /\ status' = [status EXCEPT ![t] = "idle"]
  /\ UNCHANGED link

Fail(t) ==
  /\ status[t] # "idle"
  /\ status' = [status EXCEPT ![t] = "idle"]
  /\ link' = "down"

Next == \E t \in Thread : Ask(t) \/ Serve(t) \/ Return(t) \/ Fail(t)

Spec == Init /\ [][Next]_vars
=============================================================================
