----------------------------- MODULE MCFileLock -----------------------------
(* Small instances of FileLock: two or three interchangeable processes.    *)
EXTENDS FileLock, TLC

ProcSymmetry == Permutations(Procs)
=============================================================================
