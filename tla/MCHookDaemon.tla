---------------------------- MODULE MCHookDaemon ----------------------------
(* Small instances of HookDaemon: two clients of one hook are the project  *)
(* and the user configuration firing it.                                   *)
EXTENDS HookDaemon, TLC

CONSTANTS h1, h2

SameHook == [c \in Clients |-> h1]
OwnHook == CHOOSE f \in [Clients -> {h1, h2}] :
              \A c, e \in Clients : c # e => f[c] # f[e]

DaemonSymmetry == Permutations(Daemons)
=============================================================================
