---------------------------- MODULE MCNamedPipe ----------------------------
(***************************************************************************)
(* NamedPipe for TLC.  The configurations give the constants the values of *)
(* two of the agent's pipes: an output pipe, and the control pipe of the   *)
(* --create-desktop agent.  The pipe never looks at a byte, so bytes are   *)
(* interchangeable; the symmetry is used where no liveness is checked.     *)
(***************************************************************************)
EXTENDS NamedPipe, TLC

Symmetric == Permutations(Byte)
=============================================================================
