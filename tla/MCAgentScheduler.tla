-------------------------- MODULE MCAgentScheduler --------------------------
(* Small instances of AgentScheduler: two slices that write one path, one   *)
(* that waits for the first of them, and follow-ups of which one depends on *)
(* the other and one asks for the contested path.                           *)
EXTENDS AgentScheduler, TLC

CONSTANTS s1, s2, s3, f1, f2, x

MCDeps == s1 :> {} @@ s2 :> {} @@ s3 :> {s1} @@ f1 :> {} @@ f2 :> {f1}
MCWrites == s1 :> {x} @@ s2 :> {x} @@ s3 :> {} @@ f1 :> {x} @@ f2 :> {}
=============================================================================
