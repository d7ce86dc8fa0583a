------------------------- MODULE MCUpdateOperation -------------------------
(* Small instances of UpdateOperation: interchangeable processes.          *)
EXTENDS UpdateOperation, TLC

ProcSymmetry == Permutations(Procs)
=============================================================================
