---------------------------- MODULE MCUpdateLock ----------------------------
(* Small instances of UpdateLock: interchangeable processes.               *)
EXTENDS UpdateLock, TLC

ProcSymmetry == Permutations(Procs)
=============================================================================
