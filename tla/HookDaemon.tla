----------------------------- MODULE HookDaemon -----------------------------
(***************************************************************************)
(* The hook daemon, its clients and the once-per-invocation marker         *)
(* (src/core/daemon/sksd-hook-daemon.ts and sksd-hook-dispatch.ts,         *)
(* src/core/hooks-runtime/hook-invocation-dedupe.ts and                    *)
(* evaluateHookPayloadOnce in src/core/hooks-runtime.ts).                  *)
(*                                                                         *)
(* The host starts one client process per hook.  The client asks the       *)
(* daemon over a socket; when that fails in any way it spawns a daemon for *)
(* the next call and evaluates the hook itself.  Either way the evaluation *)
(* first claims a marker file, so that a hook the host fires twice (from   *)
(* the project and the user configuration) is evaluated once.  A daemon    *)
(* owns its root by a pid file, and retires when it is asked by a client   *)
(* of another package version.                                             *)
(*                                                                         *)
(* Every file operation is a step.  A daemon identifier is a process: it   *)
(* is started once.                                                        *)
(***************************************************************************)
EXTENDS Naturals, FiniteSets

CONSTANTS
    Clients,     \* hook processes the host starts
    HookOf,      \* the invocation (event and host identity) of each client
    Deduped,     \* the invocations that have a marker
    Daemons,     \* bound: the daemon processes that can be spawned
    Standing,    \* those that an earlier hook may have spawned already
    Gone,        \* a daemon that died earlier
    MaxInstalls, \* bound: package updates while hooks are running
    MaxMarkers,  \* DEFAULT_MAX_MARKERS
    Faults,      \* which faults happen: subset of FaultKinds
    MaxFaults,   \* bound: how many of them in a run
    Nil

Hooks == {HookOf[c] : c \in Clients}

\* crash: a daemon is killed; throw: evaluating a hook fails; late: the
\* client's timers run out while the marker is still young (the daemon was
\* slow to claim it, or the window is configured longer than the timeout);
\* unclaimed: the marker cannot be written.
FaultKinds == {"crash", "throw", "late", "unclaimed"}

PidFiles == [by : Daemons \cup {Gone}, written : BOOLEAN]

ASSUME HookDaemonAssumption ==
    /\ Clients \cap Daemons = {} /\ Gone \notin Daemons
    /\ Standing \subseteq Daemons
    /\ Nil \notin Daemons /\ Nil \notin PidFiles
    /\ Deduped \subseteq Hooks
    /\ MaxInstalls \in Nat /\ MaxMarkers \in Nat /\ MaxFaults \in Nat
    /\ Faults \subseteq FaultKinds

VARIABLES
    installed,  \* version of the installed package
    ver,        \* version each running process was loaded from
    dir,        \* whether the runtime directory exists
    pidFile,    \* the pid file: its creator and whether the pid is in it
    socket,     \* the daemon bound to the socket path
    dpc, seen,  \* step of each daemon; the pid it read
    cpc, conn,  \* step of each client; the daemon it is connected to
    eval,       \* progress of the evaluation for a client, on each side
    marker,     \* marker of each invocation
    answer,     \* what each client printed for the host
    faults,     \* faults so far
    lapsed,     \* history: invocations whose marker expired or failed
    raced       \* history: a daemon removed a pid file it had not judged

vars == <<installed, ver, dir, pidFile, socket, dpc, seen, cpc, conn, eval,
          marker, answer, faults, lapsed, raced>>
files == <<dir, pidFile, socket>>
daemonVars == <<dpc, seen, files>>
clientVars == <<cpc, conn, eval, marker, answer>>
history == <<lapsed, raced>>
base == <<faults, lapsed, raced, installed>>

Sides == {"daemon", "inline"}
DaemonSteps == {"off", "read", "judge", "drop", "open", "write", "clear",
                "listen", "harden", "up", "closing", "unclaim",
                "rmPid", "rmDir", "dead"}
EvalSteps == {"none", "open", "judge", "drop", "reopen", "run", "decided",
              "duplicate", "threw", "refused"}

\* Nothing is there, a dead daemon's files are, or a daemon that an earlier
\* hook has spawned is up.
Init ==
    /\ installed = 0
    /\ ver = [p \in Clients \cup Daemons |-> 0]
    /\ \/ /\ dpc = [d \in Daemons |-> "off"]
          /\ \/ pidFile = Nil /\ socket = Nil
             \/ pidFile = [by |-> Gone, written |-> TRUE] /\ socket = Gone
       \/ \E up \in Standing :
             /\ dpc = [d \in Daemons |-> IF d = up THEN "up" ELSE "off"]
             /\ pidFile = [by |-> up, written |-> TRUE] /\ socket = up
    /\ dir = (pidFile # Nil)
    /\ seen = [d \in Daemons |-> Nil]
    /\ cpc = [c \in Clients |-> "idle"]
    /\ conn = [c \in Clients |-> Nil]
    /\ eval = [c \in Clients |-> [s \in Sides |-> "none"]]
    /\ marker = [h \in Hooks |-> "none"]
    /\ answer = [c \in Clients |-> "none"]
    /\ faults = 0
    /\ lapsed = {}
    /\ raced = FALSE

Alive(d) == d \in Daemons /\ dpc[d] \notin {"off", "dead"}
Listening(d) == d \in Daemons /\ dpc[d] \in {"harden", "up"}
At(d, step) == dpc[d] = step
Step(d, next) == dpc' = [dpc EXCEPT ![d] = next]

Fault(kind) == kind \in Faults /\ faults < MaxFaults /\ faults' = faults + 1

-----------------------------------------------------------------------------
(* Starting a daemon: startSksdHookDaemon up to the listening server.      *)

\* ensureSafeRuntimeDir, then safeExistingPid: a file without JSON in it
\* makes it throw, and with it the daemon.
ReadPid(d) ==
    /\ At(d, "read")
    /\ \/ pidFile = Nil /\ Step(d, "open") /\ UNCHANGED seen
       \/ /\ pidFile # Nil /\ pidFile.written
          /\ seen' = [seen EXCEPT ![d] = pidFile.by]
          /\ Step(d, "judge")
       \/ /\ pidFile # Nil /\ ~pidFile.written
          /\ Step(d, "dead") /\ UNCHANGED seen
    /\ dir' = TRUE
    /\ UNCHANGED <<base, ver, pidFile, socket, clientVars>>

\* Wrong variant: the pid on file is taken for stale without asking.
JudgePidStale(d) ==
    /\ At(d, "judge")
    /\ Step(d, "drop")
    /\ UNCHANGED <<base, ver, seen, files, clientVars>>

\* claimPidFile: leave the root to a live owner.
JudgePid(d) ==
    /\ At(d, "judge")
    /\ IF Alive(seen[d])
       THEN Step(d, "dead") /\ seen' = [seen EXCEPT ![d] = Nil]
       ELSE Step(d, "drop") /\ UNCHANGED seen
    /\ UNCHANGED <<base, ver, files, clientVars>>

\* The dead owner's file is removed by path.
DropPid(d) ==
    /\ At(d, "drop")
    /\ pidFile' = Nil
    /\ raced' = (raced \/ (pidFile # Nil /\ pidFile.by # seen[d]))
    /\ seen' = [seen EXCEPT ![d] = Nil]
    /\ Step(d, "open")
    /\ UNCHANGED <<faults, lapsed, installed, ver, dir, socket, clientVars>>

\* Exclusive create.  Whoever finds a file here, or no directory, stops:
\* with null when the file's owner lives, with the error otherwise.
OpenPid(d) ==
    /\ At(d, "open")
    /\ IF dir /\ pidFile = Nil
       THEN pidFile' = [by |-> d, written |-> FALSE] /\ Step(d, "write")
       ELSE Step(d, "dead") /\ UNCHANGED pidFile
    /\ UNCHANGED <<base, ver, seen, dir, socket, clientVars>>

\* The pid goes to the file that was opened, wherever the path leads now.
WritePid(d) ==
    /\ At(d, "write")
    /\ pidFile' = IF pidFile # Nil /\ pidFile.by = d
                  THEN [pidFile EXCEPT !.written = TRUE]
                  ELSE pidFile
    /\ Step(d, "clear")
    /\ UNCHANGED <<base, ver, seen, dir, socket, clientVars>>

\* removeStaleSocketPath.
ClearSocket(d) ==
    /\ At(d, "clear")
    /\ socket' = Nil
    /\ Step(d, "listen")
    /\ UNCHANGED <<base, ver, seen, dir, pidFile, clientVars>>

\* server.listen; a path in use, or a missing directory, ends the start.
Listen(d) ==
    /\ At(d, "listen")
    /\ IF dir /\ socket = Nil
       THEN socket' = d /\ Step(d, "harden")
       ELSE Step(d, "closing") /\ UNCHANGED socket
    /\ UNCHANGED <<base, ver, seen, dir, pidFile, clientVars>>

\* hardenSocketPermissions: chmod of the path, whoever bound it.
Harden(d) ==
    /\ At(d, "harden")
    /\ Step(d, IF socket # Nil THEN "up" ELSE "closing")
    /\ UNCHANGED <<base, ver, seen, files, clientVars>>

-----------------------------------------------------------------------------
(* Ending a daemon.                                                        *)

\* What closing the server does to the path it was bound to: the runtime
\* unlinks it by name.
Unbind == socket' = Nil

\* close() from the idle timer or a signal.
Shutdown(d) ==
    /\ At(d, "up")
    /\ Step(d, "closing")
    /\ Unbind
    /\ UNCHANGED <<base, ver, seen, dir, pidFile, clientVars>>

\* server.close calls back when the last connection is gone; then
\* cleanupRuntimeArtifacts: the socket by path, the pid file if it is its
\* own, the directory if it is empty.
Sweep(d) ==
    /\ At(d, "closing")
    /\ \A c \in Clients : conn[c] = d => cpc[c] # "wait"
    /\ socket' = Nil
    /\ Step(d, "unclaim")
    /\ UNCHANGED <<base, ver, seen, dir, pidFile, clientVars>>

Unclaim(d) ==
    /\ At(d, "unclaim")
    /\ Step(d, IF pidFile = [by |-> d, written |-> TRUE] THEN "rmPid" ELSE "rmDir")
    /\ UNCHANGED <<base, ver, seen, files, clientVars>>

RmPid(d) ==
    /\ At(d, "rmPid")
    /\ pidFile' = Nil
    /\ Step(d, "rmDir")
    /\ UNCHANGED <<base, ver, seen, dir, socket, clientVars>>

RmDir(d) ==
    /\ At(d, "rmDir")
    /\ dir' = (dir /\ (pidFile # Nil \/ socket # Nil))
    /\ Step(d, "dead")
    /\ UNCHANGED <<base, ver, seen, pidFile, socket, clientVars>>

Crash(d) ==
    /\ Fault("crash")
    /\ Alive(d)
    /\ Step(d, "dead")
    /\ seen' = [seen EXCEPT ![d] = Nil]
    /\ UNCHANGED <<history, installed, ver, files, clientVars>>

-----------------------------------------------------------------------------
(* The client: hookDaemonInline and callSksdHookDaemon.                    *)

Invoke(c) ==
    /\ cpc[c] = "idle"
    /\ cpc' = [cpc EXCEPT ![c] = "call"]
    /\ ver' = [ver EXCEPT ![c] = installed]
    /\ UNCHANGED <<base, daemonVars, conn, eval, marker, answer>>

\* claimHookInvocation is skipped for events, and payloads, without a
\* stable identity.
FirstStep(c) == IF HookOf[c] \in Deduped THEN "open" ELSE "run"

\* spawnSksdHookDaemonDetached.
SpawnDaemon ==
    \/ \E d \in Daemons :
          /\ At(d, "off")
          /\ Step(d, "read")
          /\ ver' = [ver EXCEPT ![d] = installed]
    \/ /\ \A d \in Daemons : ~At(d, "off")
       /\ UNCHANGED <<dpc, ver>>

\* No answer from the daemon: spawn one for the next call and evaluate here.
Fallback(c) ==
    /\ SpawnDaemon
    /\ cpc' = [cpc EXCEPT ![c] = "inline"]
    /\ eval' = [eval EXCEPT ![c]["inline"] = FirstStep(c)]
    /\ UNCHANGED <<history, installed, seen, files, conn, marker, answer>>

Reachable == dir /\ Listening(socket)

Connect(c) ==
    /\ cpc[c] = "call"
    /\ Reachable
    /\ cpc' = [cpc EXCEPT ![c] = "wait"]
    /\ conn' = [conn EXCEPT ![c] = socket]
    /\ UNCHANGED <<base, ver, daemonVars, eval, marker, answer>>

\* No socket, nobody behind it, or the connect timer.
ConnectFails(c) ==
    /\ cpc[c] = "call"
    /\ IF Reachable THEN Fault("late") ELSE UNCHANGED faults
    /\ Fallback(c)

\* Wrong variant: the request timer is cleared with the connect timer.
RequestTimeoutCleared(c) ==
    /\ cpc[c] = "wait"
    /\ conn[c] = Nil
    /\ Fallback(c)
    /\ UNCHANGED faults

\* The request timer (five seconds, against a window of three).
RequestTimeout(c) ==
    /\ cpc[c] = "wait"
    /\ IF marker[HookOf[c]] = "fresh" THEN Fault("late") ELSE UNCHANGED faults
    /\ Fallback(c)

ConnectionLost(c) ==
    /\ cpc[c] = "wait"
    /\ ~Alive(conn[c])
    /\ Fallback(c)
    /\ UNCHANGED faults

\* The daemon's answer: a result, or an error that counts as none.
Answered(c) ==
    /\ cpc[c] = "wait"
    /\ Alive(conn[c])
    /\ \/ /\ eval[c]["daemon"] \in {"decided", "duplicate"}
          /\ cpc' = [cpc EXCEPT ![c] = "done"]
          /\ answer' = [answer EXCEPT ![c] = eval[c]["daemon"]]
          /\ UNCHANGED <<base, ver, daemonVars, conn, eval, marker>>
       \/ /\ eval[c]["daemon"] \in {"threw", "refused"}
          /\ Fallback(c)
          /\ UNCHANGED faults

\* The client prints what its own evaluation gave, or dies of its error.
Printed(c) ==
    /\ cpc[c] = "inline"
    /\ eval[c]["inline"] \in {"decided", "duplicate", "threw"}
    /\ cpc' = [cpc EXCEPT ![c] = "done"]
    /\ answer' = [answer EXCEPT ![c] = eval[c]["inline"]]
    /\ UNCHANGED <<base, ver, daemonVars, conn, eval, marker>>

-----------------------------------------------------------------------------
(* respond() in the daemon.                                                *)

Pending(c) == conn[c] # Nil /\ Alive(conn[c]) /\ eval[c]["daemon"] = "none"

\* Wrong variant: the invocation is claimed before the version is compared.
RefuseClaimed(c) ==
    /\ Pending(c)
    /\ ver[c] # ver[conn[c]]
    /\ eval' = [eval EXCEPT ![c]["daemon"] = "refused"]
    /\ marker' = [marker EXCEPT ![HookOf[c]] = "fresh"]
    /\ IF Listening(conn[c])
       THEN Step(conn[c], "closing") /\ Unbind
       ELSE UNCHANGED <<dpc, socket>>
    /\ UNCHANGED <<base, ver, dir, pidFile, seen, cpc, conn, answer>>

\* A client of another version is refused and the daemon closes.
Refuse(c) ==
    /\ Pending(c)
    /\ ver[c] # ver[conn[c]]
    /\ eval' = [eval EXCEPT ![c]["daemon"] = "refused"]
    /\ IF Listening(conn[c])
       THEN Step(conn[c], "closing") /\ Unbind
       ELSE UNCHANGED <<dpc, socket>>
    /\ UNCHANGED <<base, ver, dir, pidFile, seen, cpc, conn, marker, answer>>

Accept(c) ==
    /\ Pending(c)
    /\ ver[c] = ver[conn[c]]
    /\ eval' = [eval EXCEPT ![c]["daemon"] = FirstStep(c)]
    /\ UNCHANGED <<base, ver, daemonVars, cpc, conn, marker, answer>>

-----------------------------------------------------------------------------
(* evaluateHookPayloadOnce, in the daemon or in the client.                *)

Running(c, s) == IF s = "daemon" THEN Alive(conn[c]) ELSE cpc[c] = "inline"
EvalAt(c, s, step) == Running(c, s) /\ eval[c][s] = step
EvalStep(c, s, next) == eval' = [eval EXCEPT ![c][s] = next]
evalUnchanged == UNCHANGED <<base, ver, daemonVars, cpc, conn, answer>>

\* pruneMarkers, after the claim: when there are too many, the markers older
\* than four windows go.
Pruned(m) ==
    LET present == {h \in Hooks : m[h] # "none"}
        expired == {h \in Hooks : m[h] = "expired"}
    IN  IF Cardinality(present) <= MaxMarkers THEN {m}
        ELSE {[h \in Hooks |-> IF h \in old THEN "none" ELSE m[h]] :
              old \in SUBSET expired}

\* Wrong variant: the marker is opened without the exclusive flag.
OpenMarkerShared(c, s) ==
    /\ EvalAt(c, s, "open")
    /\ marker' \in Pruned([marker EXCEPT ![HookOf[c]] = "fresh"])
    /\ EvalStep(c, s, "run")
    /\ evalUnchanged

\* createMarker, first attempt.
OpenMarker(c, s) ==
    LET h == HookOf[c]
    IN  /\ EvalAt(c, s, "open")
        /\ IF marker[h] = "none"
           THEN /\ marker' \in Pruned([marker EXCEPT ![h] = "fresh"])
                /\ EvalStep(c, s, "run")
           ELSE EvalStep(c, s, "judge") /\ UNCHANGED marker
        /\ evalUnchanged

\* Its age: a marker within the window makes this a duplicate.
JudgeMarker(c, s) ==
    /\ EvalAt(c, s, "judge")
    /\ IF marker[HookOf[c]] = "fresh"
       THEN EvalStep(c, s, "duplicate") /\ marker' \in Pruned(marker)
       ELSE EvalStep(c, s, "drop") /\ UNCHANGED marker
    /\ evalUnchanged

DropMarker(c, s) ==
    /\ EvalAt(c, s, "drop")
    /\ marker' = [marker EXCEPT ![HookOf[c]] = "none"]
    /\ EvalStep(c, s, "reopen")
    /\ evalUnchanged

\* createMarker, second attempt: losing it is a duplicate.
ReopenMarker(c, s) ==
    LET h == HookOf[c]
    IN  /\ EvalAt(c, s, "reopen")
        /\ IF marker[h] = "none"
           THEN /\ marker' \in Pruned([marker EXCEPT ![h] = "fresh"])
                /\ EvalStep(c, s, "run")
           ELSE EvalStep(c, s, "duplicate") /\ marker' \in Pruned(marker)
        /\ evalUnchanged

\* A claim that fails lets the hook run.
ClaimFails(c, s) ==
    /\ Fault("unclaimed")
    /\ eval[c][s] \in {"open", "reopen"} /\ Running(c, s)
    /\ EvalStep(c, s, "run")
    /\ lapsed' = lapsed \cup {HookOf[c]}
    /\ UNCHANGED <<raced, installed, ver, daemonVars, cpc, conn, marker, answer>>

\* evaluateHookPayload: a decision, or an exception.
Evaluate(c, s) ==
    /\ EvalAt(c, s, "run")
    /\ \/ EvalStep(c, s, "decided") /\ UNCHANGED faults
       \/ EvalStep(c, s, "threw") /\ Fault("throw")
    /\ UNCHANGED <<history, installed, ver, daemonVars, cpc, conn, marker, answer>>

-----------------------------------------------------------------------------
(* The surroundings.                                                       *)

\* The marker's window passes.
Expire(h) ==
    /\ marker[h] = "fresh"
    /\ marker' = [marker EXCEPT ![h] = "expired"]
    /\ lapsed' = lapsed \cup {h}
    /\ UNCHANGED <<faults, raced, installed, ver, daemonVars, cpc, conn, eval, answer>>

\* `sks update` replaces the package under the running daemon.
Install ==
    /\ installed < MaxInstalls
    /\ installed' = installed + 1
    /\ UNCHANGED <<faults, history, ver, daemonVars, clientVars>>

StartStep(d) ==
    \/ ReadPid(d) \/ JudgePid(d) \/ DropPid(d) \/ OpenPid(d) \/ WritePid(d)
    \/ ClearSocket(d) \/ Listen(d) \/ Harden(d)

EndStep(d) == Sweep(d) \/ Unclaim(d) \/ RmPid(d) \/ RmDir(d)

CallStep(c) ==
    \/ Connect(c) \/ ConnectFails(c) \/ RequestTimeout(c) \/ ConnectionLost(c)
    \/ Answered(c) \/ Printed(c)

RespondStep(c) == Refuse(c) \/ Accept(c)

ClaimStep(c, s) ==
    \/ OpenMarker(c, s) \/ JudgeMarker(c, s) \/ DropMarker(c, s)
    \/ ReopenMarker(c, s) \/ ClaimFails(c, s)

Next ==
    \/ \E d \in Daemons : StartStep(d) \/ EndStep(d) \/ Shutdown(d) \/ Crash(d)
    \/ \E c \in Clients : Invoke(c) \/ CallStep(c) \/ RespondStep(c)
    \/ \E c \in Clients, s \in Sides : ClaimStep(c, s) \/ Evaluate(c, s)
    \/ \E h \in Hooks : Expire(h)
    \/ Install

Spec == Init /\ [][Next]_vars

\* Processes that are not stopped take their next step, timers fire and
\* windows pass.  A client's own evaluation ends; nothing is assumed of an
\* evaluation in the daemon.
Fairness ==
    /\ \A d \in Daemons : WF_vars(StartStep(d)) /\ WF_vars(EndStep(d))
    /\ \A c \in Clients :
          /\ WF_vars(CallStep(c)) /\ WF_vars(RespondStep(c))
          /\ WF_vars(ClaimStep(c, "inline")) /\ WF_vars(Evaluate(c, "inline"))
    /\ \A h \in Hooks : WF_vars(Expire(h))

FairSpec == Spec /\ Fairness

-----------------------------------------------------------------------------
(* Properties.                                                             *)

TypeOK ==
    /\ installed \in 0..MaxInstalls
    /\ ver \in [Clients \cup Daemons -> 0..MaxInstalls]
    /\ dir \in BOOLEAN
    /\ pidFile \in {Nil} \cup PidFiles
    /\ socket \in {Nil, Gone} \cup Daemons
    /\ dpc \in [Daemons -> DaemonSteps]
    /\ seen \in [Daemons -> {Nil, Gone} \cup Daemons]
    /\ cpc \in [Clients -> {"idle", "call", "wait", "inline", "done"}]
    /\ conn \in [Clients -> {Nil} \cup Daemons]
    /\ eval \in [Clients -> [Sides -> EvalSteps]]
    /\ marker \in [Hooks -> {"none", "fresh", "expired"}]
    /\ answer \in [Clients -> {"none", "decided", "duplicate", "threw"}]
    /\ faults \in 0..MaxFaults
    /\ lapsed \subseteq Hooks
    /\ raced \in BOOLEAN

\* A daemon that has claimed the root and has not begun to leave it.
Owner(d) == dpc[d] \in {"write", "clear", "listen", "harden", "up"}

\* Two daemons own one root only when one of them removed a pid file other
\* than the one it had judged dead: no other order of starts, shutdowns,
\* retirements and crashes gets past the claim in claimPidFile.
SingleDaemonUnlessRaced ==
    (\E d, e \in Daemons : d # e /\ Owner(d) /\ Owner(e)) => raced

\* The state keeps its types, and one daemon owns the root unless two raced
\* through claimPidFile.
DaemonInvariant == TypeOK /\ SingleDaemonUnlessRaced

\* Where the hook of h was started.
Evaluations(h) ==
    {t \in {c \in Clients : HookOf[c] = h} \X Sides :
        eval[t[1]][t[2]] \in {"run", "decided", "threw"}}

\* A hook with a host identity is evaluated a second time, by whatever mix
\* of daemons, fallbacks and duplicate clients, only after its marker had
\* expired or could not be written (claimHookInvocation).
RepeatedOnlyAfterExpiry ==
    \A h \in Deduped : Cardinality(Evaluations(h)) > 1 => h \in lapsed

\* When every client of a hook has been answered and none was given a
\* decision, an evaluation was begun and its outcome lost: it threw, its
\* daemon died, or its client had stopped listening.  A refusal by version,
\* a failed connection or a lost race for the marker alone never leaves a
\* hook without a decision.
DecisionLostOnlyWithEvaluation ==
    \A h \in Hooks :
        LET all == {c \in Clients : HookOf[c] = h /\ cpc[c] # "idle"}
        IN  /\ all # {}
            /\ \A c \in all : answer[c] \in {"duplicate", "threw"}
            => Evaluations(h) # {}

\* Every hook the host fires is answered, also when the daemon hangs in the
\* evaluation, dies, or is closing (the timers of callSksdHookDaemon).
HookAnswered ==
    (\E c \in Clients : cpc[c] \in {"call", "wait", "inline"})
        ~> (\A c \in Clients : cpc[c] \in {"idle", "done"})

\* A daemon that is asked by a client of another version is gone in the end:
\* close() waits for the connections of all its clients, and those end by
\* the clients' timers although evaluations in the daemon need not.
StaleRetires ==
    LET Stale(d) == \E c \in Clients : conn[c] = d /\ ver[c] # ver[d]
    IN  (\E d \in Daemons : Stale(d))
            ~> (\A d \in Daemons : Stale(d) => dpc[d] = "dead")

\* sksd-hook-dispatch.ts: with or without the daemon "behavior is identical
\* either way".  A hook that the host fired once is not answered as a
\* duplicate of itself.
SingleHookNotDuplicate ==
    \A c \in Clients :
        (\A e \in Clients \ {c} : HookOf[e] # HookOf[c]) => answer[c] # "duplicate"

=============================================================================
