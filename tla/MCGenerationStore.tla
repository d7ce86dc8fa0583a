------------------------- MODULE MCGenerationStore -------------------------
(* Small instances of GenerationStore: hashes and processes are            *)
(* interchangeable, and nothing chooses among them.                        *)
EXTENDS GenerationStore, TLC

StoreSymmetry == Permutations(Hashes) \cup Permutations(Procs)
=============================================================================
