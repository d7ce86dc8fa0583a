--------------------------- MODULE MCRemoteWorker ---------------------------
(* A small instance of RemoteWorker: c3 reuses the idempotency key of c1   *)
(* and the command id of c2, c2 belongs to a session of its own.           *)
EXTENDS RemoteWorker, TLC

CONSTANTS c1, c2, c3, k1, k2, s1, s2

MCCommands == {c1, c2, c3}
MCKey == (c1 :> k1) @@ (c2 :> k2) @@ (c3 :> k1)
MCCmdId == (c1 :> k1) @@ (c2 :> k2) @@ (c3 :> k2)
MCSession == (c1 :> s1) @@ (c2 :> s2) @@ (c3 :> s1)

WorkerSymmetry == Permutations(Workers)
=============================================================================
