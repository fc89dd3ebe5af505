---------------------------- MODULE MCProcessLock ----------------------------
(***************************************************************************)
(* Model values and symmetry for the runs of ProcessLock.                  *)
(***************************************************************************)
EXTENDS ProcessLock, TLC

AllSymmetry == Permutations(Processes) \cup Permutations(Pids)
==============================================================================
