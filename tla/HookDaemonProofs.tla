-------------------------- MODULE HookDaemonProofs --------------------------
(***************************************************************************)
(* For every number of clients, hooks, daemons, package updates and        *)
(* faults: the claim of the root, the once-per-invocation marker and the   *)
(* answers the clients print.                                              *)
(***************************************************************************)
EXTENDS HookDaemon, FiniteSetTheorems, TLAPS

-----------------------------------------------------------------------------
(* Types                                                                    *)

Markers == {"none", "fresh", "expired"}

\* One step of one evaluation changes that evaluation only.
LEMMA EvalStepFacts ==
  ASSUME eval \in [Clients -> [Sides -> EvalSteps]], NEW c \in Clients, NEW s \in Sides,
         NEW e \in EvalSteps, eval' = [eval EXCEPT ![c][s] = e]
  PROVE  /\ eval' \in [Clients -> [Sides -> EvalSteps]]
         /\ eval'[c][s] = e
         /\ \A x \in Clients, y \in Sides : x # c \/ y # s => eval'[x][y] = eval[x][y]
<1> DEFINE f == [eval[c] EXCEPT ![s] = e]
<1>1. eval[c] \in [Sides -> EvalSteps]
  OBVIOUS
<1>2. f \in [Sides -> EvalSteps] /\ f[s] = e /\ \A y \in Sides : y # s => f[y] = eval[c][y]
  BY <1>1
<1>3. eval' = [eval EXCEPT ![c] = f]
  OBVIOUS
<1> HIDE DEF f
<1>4. eval' \in [Clients -> [Sides -> EvalSteps]] /\ eval'[c] = f
      /\ \A x \in Clients : x # c => eval'[x] = eval[x]
  BY <1>2, <1>3
<1> QED
  BY <1>2, <1>4

\* Pruning removes expired markers only.
LEMMA PrunedFacts ==
  ASSUME NEW m \in [Hooks -> Markers], NEW p \in Pruned(m)
  PROVE  /\ p \in [Hooks -> Markers]
         /\ \A h \in Hooks : p[h] = m[h] \/ (m[h] = "expired" /\ p[h] = "none")
<1> DEFINE present == {h \in Hooks : m[h] # "none"}
           expired == {h \in Hooks : m[h] = "expired"}
<1>1. Pruned(m) = IF Cardinality(present) <= MaxMarkers THEN {m}
                  ELSE {[h \in Hooks |-> IF h \in old THEN "none" ELSE m[h]] :
                          old \in SUBSET expired}
  BY DEF Pruned
<1>2. CASE p = m
  BY <1>2
<1>3. CASE p # m
  <2>1. p \in {[h \in Hooks |-> IF h \in old THEN "none" ELSE m[h]] : old \in SUBSET expired}
    BY <1>1, <1>3
  <2>2. PICK old \in SUBSET expired : p = [h \in Hooks |-> IF h \in old THEN "none" ELSE m[h]]
    BY <2>1
  <2> QED
    BY <2>2 DEF Markers
<1> QED
  BY <1>2, <1>3

\* The parts of TypeOK, by who changes them.
FilesOK == dir \in BOOLEAN /\ pidFile \in {Nil} \cup PidFiles
           /\ socket \in {Nil, Gone} \cup Daemons /\ raced \in BOOLEAN
DaemonsOK == dpc \in [Daemons -> DaemonSteps] /\ seen \in [Daemons -> {Nil, Gone} \cup Daemons]
VersionsOK == installed \in 0..MaxInstalls /\ ver \in [Clients \cup Daemons -> 0..MaxInstalls]
CallsOK == /\ cpc \in [Clients -> {"idle", "call", "wait", "inline", "done"}]
           /\ conn \in [Clients -> {Nil} \cup Daemons]
           /\ answer \in [Clients -> {"none", "decided", "duplicate", "threw"}]
FaultsOK == faults \in 0..MaxFaults
EvalsOK == /\ eval \in [Clients -> [Sides -> EvalSteps]]
           /\ marker \in [Hooks -> Markers] /\ lapsed \subseteq Hooks

LEMMA TypeParts == TypeOK <=> FilesOK /\ DaemonsOK /\ VersionsOK /\ CallsOK /\ FaultsOK /\ EvalsOK
  BY DEF TypeOK, FilesOK, DaemonsOK, VersionsOK, CallsOK, FaultsOK, EvalsOK, Markers

LEMMA TypeInit == Init => TypeOK
<1> SUFFICES ASSUME Init PROVE TypeOK
  OBVIOUS
<1>1. \A d \in Daemons \cup {Gone} : [by |-> d, written |-> TRUE] \in PidFiles
  BY DEF PidFiles
<1>2. FilesOK
  BY <1>1, HookDaemonAssumption DEF Init, FilesOK
<1>3. DaemonsOK /\ CallsOK
  BY DEF Init, DaemonsOK, CallsOK, DaemonSteps
<1>4. VersionsOK /\ FaultsOK
  BY HookDaemonAssumption DEF Init, VersionsOK, FaultsOK
<1>5. EvalsOK
  BY DEF Init, EvalsOK, EvalSteps, Markers
<1> QED
  BY <1>2, <1>3, <1>4, <1>5, TypeParts

LEMMA FaultType ==
  ASSUME FaultsOK, NEW k, Fault(k)
  PROVE  FaultsOK'
  BY HookDaemonAssumption DEF FaultsOK, Fault

LEMMA StepType ==
  ASSUME DaemonsOK, NEW d \in Daemons, NEW n \in DaemonSteps, Step(d, n)
  PROVE  /\ dpc' \in [Daemons -> DaemonSteps] /\ dpc'[d] = n
         /\ \A e \in Daemons : e # d => dpc'[e] = dpc[e]
  BY DEF DaemonsOK, Step

\* A daemon's own steps.
DaemonStep(d) == StartStep(d) \/ EndStep(d) \/ Shutdown(d) \/ Crash(d)

LEMMA DaemonFrame ==
  ASSUME NEW d \in Daemons, DaemonStep(d)
  PROVE  UNCHANGED <<installed, ver, clientVars, lapsed>>
  BY DEF DaemonStep, StartStep, EndStep, ReadPid, JudgePid, DropPid, OpenPid, WritePid, ClearSocket,
         Listen, Harden, Shutdown, Sweep, Unclaim, RmPid, RmDir, Crash, base, history

LEMMA DaemonTypes ==
  ASSUME TypeOK, NEW d \in Daemons, DaemonStep(d)
  PROVE  TypeOK'
<1>0. FilesOK /\ DaemonsOK /\ VersionsOK /\ CallsOK /\ FaultsOK /\ EvalsOK
  BY TypeParts
<1>1. VersionsOK' /\ CallsOK' /\ EvalsOK'
  BY <1>0, DaemonFrame DEF VersionsOK, CallsOK, EvalsOK, clientVars
<1>2. FaultsOK'
  <2>1. CASE UNCHANGED faults
    BY <1>0, <2>1 DEF FaultsOK
  <2>2. CASE Crash(d)
    BY <1>0, <2>2, FaultType DEF Crash
  <2> QED
    BY <2>1, <2>2 DEF DaemonStep, StartStep, EndStep, ReadPid, JudgePid, DropPid, OpenPid, WritePid,
         ClearSocket, Listen, Harden, Shutdown, Sweep, Unclaim, RmPid, RmDir, base
<1>3. DaemonsOK'
  <2>1. \E n \in DaemonSteps : Step(d, n)
    BY DEF DaemonStep, StartStep, EndStep, ReadPid, JudgePid, DropPid, OpenPid, WritePid, ClearSocket,
         Listen, Harden, Shutdown, Sweep, Unclaim, RmPid, RmDir, Crash, DaemonSteps
  <2>2. seen' = seen \/ seen' = [seen EXCEPT ![d] = Nil]
        \/ (pidFile # Nil /\ seen' = [seen EXCEPT ![d] = pidFile.by])
    BY DEF DaemonStep, StartStep, EndStep, ReadPid, JudgePid, DropPid, OpenPid, WritePid, ClearSocket,
         Listen, Harden, Shutdown, Sweep, Unclaim, RmPid, RmDir, Crash
  <2>3. pidFile # Nil => pidFile.by \in {Gone} \cup Daemons
    BY <1>0 DEF FilesOK, PidFiles
  <2>4. seen' \in [Daemons -> {Nil, Gone} \cup Daemons]
    BY <1>0, <2>2, <2>3 DEF DaemonsOK
  <2> QED
    BY <1>0, <2>1, <2>4, StepType DEF DaemonsOK
<1>4. FilesOK'
  <2>1. dir' \in BOOLEAN
    BY <1>0 DEF DaemonStep, StartStep, EndStep, ReadPid, JudgePid, DropPid, OpenPid, WritePid, ClearSocket,
         Listen, Harden, Shutdown, Sweep, Unclaim, RmPid, RmDir, Crash, FilesOK, files
  <2>2. socket' \in {Nil, Gone} \cup Daemons
    BY <1>0 DEF DaemonStep, StartStep, EndStep, ReadPid, JudgePid, DropPid, OpenPid, WritePid, ClearSocket,
         Listen, Harden, Shutdown, Sweep, Unclaim, RmPid, RmDir, Crash, FilesOK, files, Unbind
  <2>3. raced' \in BOOLEAN
    BY <1>0 DEF DaemonStep, StartStep, EndStep, ReadPid, JudgePid, DropPid, OpenPid, WritePid, ClearSocket,
         Listen, Harden, Shutdown, Sweep, Unclaim, RmPid, RmDir, Crash, FilesOK, base, history
  <2>4. pidFile' \in {Nil} \cup PidFiles
    <3>1. [by |-> d, written |-> FALSE] \in PidFiles
      BY DEF PidFiles
    <3>2. pidFile # Nil => [pidFile EXCEPT !.written = TRUE] \in PidFiles
      BY <1>0 DEF FilesOK, PidFiles
    <3>3. pidFile' \in {pidFile, Nil, [by |-> d, written |-> FALSE]}
          \/ (pidFile # Nil /\ pidFile' = [pidFile EXCEPT !.written = TRUE])
      BY DEF DaemonStep, StartStep, EndStep, ReadPid, JudgePid, DropPid, OpenPid, WritePid, ClearSocket,
         Listen, Harden, Shutdown, Sweep, Unclaim, RmPid, RmDir, Crash, files
    <3> QED
      BY <1>0, <3>1, <3>2, <3>3 DEF FilesOK
  <2> QED
    BY <2>1, <2>2, <2>3, <2>4 DEF FilesOK
<1> QED
  BY <1>1, <1>2, <1>3, <1>4
     DEF TypeOK, FilesOK, DaemonsOK, VersionsOK, CallsOK, FaultsOK, EvalsOK, Markers

\* What a step of a client, of respond() or of an evaluation does to the
\* processes: it starts a daemon, or has one close.
LEMMA SpawnTypes ==
  ASSUME DaemonsOK, VersionsOK, SpawnDaemon
  PROVE  /\ dpc' \in [Daemons -> DaemonSteps]
         /\ installed' = installed => VersionsOK'
<1>1. CASE UNCHANGED <<dpc, ver>>
  BY <1>1 DEF DaemonsOK, VersionsOK
<1>2. ASSUME NEW d \in Daemons, Step(d, "read"), ver' = [ver EXCEPT ![d] = installed]
      PROVE  dpc' \in [Daemons -> DaemonSteps] /\ (installed' = installed => VersionsOK')
  BY <1>2 DEF DaemonsOK, VersionsOK, Step, DaemonSteps
<1> QED
  BY <1>1, <1>2 DEF SpawnDaemon

LEMMA FirstStepType == \A c \in Clients : FirstStep(c) \in {"open", "run"} /\ FirstStep(c) \in EvalSteps
  BY DEF FirstStep, EvalSteps

LEMMA FallbackTypes ==
  ASSUME TypeOK, NEW c \in Clients, Fallback(c), FaultsOK'
  PROVE  TypeOK'
<1>0. FilesOK /\ DaemonsOK /\ VersionsOK /\ CallsOK /\ EvalsOK
  BY TypeParts
<1>1. dpc' \in [Daemons -> DaemonSteps] /\ VersionsOK'
  BY <1>0, SpawnTypes DEF Fallback
<1>2. DaemonsOK' /\ FilesOK'
  BY <1>0, <1>1 DEF DaemonsOK, FilesOK, Fallback, files, history
<1>3. CallsOK'
  BY <1>0 DEF CallsOK, Fallback
<1>4. eval' \in [Clients -> [Sides -> EvalSteps]]
  BY <1>0, EvalStepFacts, FirstStepType DEF EvalsOK, Fallback, Sides
<1>5. EvalsOK'
  BY <1>0, <1>4 DEF EvalsOK, Fallback, history
<1> QED
  BY <1>1, <1>2, <1>3, <1>5
     DEF TypeOK, FilesOK, DaemonsOK, VersionsOK, CallsOK, FaultsOK, EvalsOK, Markers

LEMMA CallTypes ==
  ASSUME TypeOK, NEW c \in Clients, Invoke(c) \/ CallStep(c)
  PROVE  TypeOK'
<1>0. FilesOK /\ DaemonsOK /\ VersionsOK /\ CallsOK /\ FaultsOK /\ EvalsOK
  BY TypeParts
<1>1. ASSUME Fallback(c) PROVE TypeOK'
  <2>1. FaultsOK'
    <3>1. UNCHANGED faults \/ \E k : Fault(k)
      BY <1>1 DEF Invoke, CallStep, Connect, ConnectFails, RequestTimeout, ConnectionLost, Answered,
                  Printed, base
    <3> QED
      BY <1>0, <3>1, FaultType DEF FaultsOK
  <2> QED
    BY <1>1, <2>1, FallbackTypes
<1>2. ASSUME UNCHANGED <<base, daemonVars, eval, marker>>, CallsOK', VersionsOK'
      PROVE  TypeOK'
  BY <1>0, <1>2
     DEF TypeOK, FilesOK, DaemonsOK, VersionsOK, CallsOK, FaultsOK, EvalsOK, Markers,
         base, daemonVars, files
<1>3. CASE Invoke(c)
  <2>1. CallsOK' /\ VersionsOK' /\ UNCHANGED <<base, daemonVars, eval, marker>>
    BY <1>0, <1>3 DEF Invoke, CallsOK, VersionsOK, base
  <2> QED
    BY <1>2, <2>1
<1>4. CASE Connect(c)
  <2>1. socket \in Daemons
    BY <1>4 DEF Connect, Reachable, Listening
  <2>2. CallsOK' /\ VersionsOK' /\ UNCHANGED <<base, daemonVars, eval, marker>>
    BY <1>0, <1>4, <2>1 DEF Connect, CallsOK, VersionsOK, base
  <2> QED
    BY <1>2, <2>2
<1>5. CASE Answered(c) /\ ~Fallback(c)
  <2>1. CallsOK' /\ VersionsOK' /\ UNCHANGED <<base, daemonVars, eval, marker>>
    BY <1>0, <1>5 DEF Answered, CallsOK, VersionsOK, base
  <2> QED
    BY <1>2, <2>1
<1>6. CASE Printed(c)
  <2>1. CallsOK' /\ VersionsOK' /\ UNCHANGED <<base, daemonVars, eval, marker>>
    BY <1>0, <1>6 DEF Printed, CallsOK, VersionsOK, base
  <2> QED
    BY <1>2, <2>1
<1> QED
  BY <1>1, <1>3, <1>4, <1>5, <1>6 DEF CallStep, ConnectFails, RequestTimeout, ConnectionLost

LEMMA RespondTypes ==
  ASSUME TypeOK, NEW c \in Clients, RespondStep(c)
  PROVE  TypeOK'
<1>0. FilesOK /\ DaemonsOK /\ VersionsOK /\ CallsOK /\ FaultsOK /\ EvalsOK
  BY TypeParts
<1>1. \E e \in EvalSteps : eval' = [eval EXCEPT ![c]["daemon"] = e]
  BY FirstStepType DEF RespondStep, Refuse, Accept, EvalSteps
<1>2. eval' \in [Clients -> [Sides -> EvalSteps]]
  BY <1>0, <1>1, EvalStepFacts DEF EvalsOK, Sides
<1>3. EvalsOK' /\ CallsOK' /\ VersionsOK' /\ FaultsOK'
  BY <1>0, <1>2 DEF RespondStep, Refuse, Accept, base, EvalsOK, CallsOK, VersionsOK, FaultsOK
<1>4. CASE UNCHANGED <<dpc, seen, files, raced>>
  <2>1. DaemonsOK' /\ FilesOK'
    BY <1>0, <1>4 DEF DaemonsOK, FilesOK, files
  <2> QED
    BY <1>3, <2>1
       DEF TypeOK, FilesOK, DaemonsOK, VersionsOK, CallsOK, FaultsOK, EvalsOK, Markers
<1>5. CASE Refuse(c) /\ Listening(conn[c])
  <2>1. /\ conn[c] \in Daemons /\ Step(conn[c], "closing") /\ socket' = Nil
        /\ UNCHANGED <<dir, pidFile, seen, raced>>
    BY <1>5 DEF Refuse, Listening, Unbind, base
  <2>2. DaemonsOK' /\ FilesOK'
    BY <1>0, <2>1 DEF DaemonsOK, FilesOK, Step, DaemonSteps
  <2> QED
    BY <1>3, <2>2
       DEF TypeOK, FilesOK, DaemonsOK, VersionsOK, CallsOK, FaultsOK, EvalsOK, Markers
<1> QED
  BY <1>4, <1>5 DEF RespondStep, Refuse, Accept, base, daemonVars, files

LEMMA ClaimTypes ==
  ASSUME TypeOK, NEW c \in Clients, NEW s \in Sides, ClaimStep(c, s) \/ Evaluate(c, s)
  PROVE  TypeOK'
<1>0. FilesOK /\ DaemonsOK /\ VersionsOK /\ CallsOK /\ FaultsOK /\ EvalsOK
  BY TypeParts
<1>1. \E e \in EvalSteps : eval' = [eval EXCEPT ![c][s] = e]
  BY DEF ClaimStep, OpenMarker, JudgeMarker, DropMarker, ReopenMarker, ClaimFails, Evaluate, EvalStep,
         EvalSteps
<1>2. eval' \in [Clients -> [Sides -> EvalSteps]]
  BY <1>0, <1>1, EvalStepFacts DEF EvalsOK
<1>3. HookOf[c] \in Hooks
  BY DEF Hooks
<1>4. marker' \in [Hooks -> Markers]
  <2> DEFINE fresh == [marker EXCEPT ![HookOf[c]] = "fresh"]
             none == [marker EXCEPT ![HookOf[c]] = "none"]
  <2>1. fresh \in [Hooks -> Markers] /\ none \in [Hooks -> Markers]
    BY <1>0, <1>3 DEF EvalsOK, Markers
  <2>2. marker' \in {marker, none} \/ marker' \in Pruned(marker) \/ marker' \in Pruned(fresh)
    BY DEF ClaimStep, OpenMarker, JudgeMarker, DropMarker, ReopenMarker, ClaimFails, Evaluate,
           evalUnchanged
  <2> HIDE DEF fresh, none
  <2> QED
    BY <1>0, <2>1, <2>2, PrunedFacts DEF EvalsOK
<1>5. /\ UNCHANGED <<ver, installed, dpc, seen, dir, pidFile, socket, raced, cpc, conn, answer>>
      /\ lapsed' \subseteq lapsed \cup {HookOf[c]}
      /\ UNCHANGED faults \/ \E k : Fault(k)
  BY DEF ClaimStep, OpenMarker, JudgeMarker, DropMarker, ReopenMarker, ClaimFails, Evaluate,
         evalUnchanged, base, daemonVars, files, history
<1>6. FaultsOK'
  BY <1>0, <1>5, FaultType DEF FaultsOK
<1>7. EvalsOK' /\ FilesOK' /\ DaemonsOK' /\ VersionsOK' /\ CallsOK'
  BY <1>0, <1>2, <1>3, <1>4, <1>5 DEF EvalsOK, FilesOK, DaemonsOK, VersionsOK, CallsOK
<1> QED
  BY <1>6, <1>7
     DEF TypeOK, FilesOK, DaemonsOK, VersionsOK, CallsOK, FaultsOK, EvalsOK, Markers

LEMMA TypeStep == TypeOK /\ [Next]_vars => TypeOK'
<1> SUFFICES ASSUME TypeOK, [Next]_vars PROVE TypeOK'
  OBVIOUS
<1>0. FilesOK /\ DaemonsOK /\ VersionsOK /\ CallsOK /\ FaultsOK /\ EvalsOK
  BY TypeParts
<1>1. ASSUME NEW d \in Daemons, StartStep(d) \/ EndStep(d) \/ Shutdown(d) \/ Crash(d) PROVE TypeOK'
  BY <1>1, DaemonTypes DEF DaemonStep
<1>2. ASSUME NEW h \in Hooks, Expire(h) PROVE TypeOK'
  <2>1. marker' \in [Hooks -> Markers] /\ lapsed' \subseteq Hooks
    BY <1>0, <1>2 DEF Expire, EvalsOK, Markers
  <2> QED
    BY <1>2, <2>1 DEF Expire, TypeOK, Markers, daemonVars, files
<1>3. CASE Install
  <2>1. installed' \in 0..MaxInstalls
    BY <1>0, <1>3, HookDaemonAssumption DEF Install, VersionsOK
  <2> QED
    BY <1>3, <2>1 DEF Install, TypeOK, daemonVars, files, clientVars, history
<1>4. CASE UNCHANGED vars
  BY <1>4 DEF vars, TypeOK
<1> QED
  BY <1>1, <1>2, <1>3, <1>4, CallTypes, RespondTypes, ClaimTypes DEF Next

-----------------------------------------------------------------------------
(* The claim of the root                                                    *)

\* A daemon that relies on the pid file being its own: it owns the root, or
\* it is about to remove the file.
Holds(d) == Owner(d) \/ dpc[d] = "rmPid"

\* Unless a file was removed that its remover had not judged, the holder's
\* file is on disk.  A pid on file, or read from it, is that of a process
\* that was started; and one that was judged dead is dead for good.
ClaimInv ==
    /\ ~raced => \A d \in Daemons : Holds(d) => pidFile # Nil /\ pidFile.by = d
    /\ pidFile # Nil /\ pidFile.by \in Daemons => dpc[pidFile.by] # "off"
    /\ \A d \in Daemons : dpc[d] = "judge" /\ seen[d] \in Daemons => dpc[seen[d]] # "off"
    /\ \A d \in Daemons : dpc[d] = "drop" /\ seen[d] \in Daemons => dpc[seen[d]] = "dead"

\* A daemon goes on, or is started or closed from outside, and leaves the pid
\* file and what it has read of it alone.
LEMMA ClaimFrame ==
  ASSUME TypeOK, ClaimInv, UNCHANGED <<pidFile, raced>>,
         NEW d \in Daemons, NEW n \in DaemonSteps, Step(d, n),
         UNCHANGED seen \/ seen' = [seen EXCEPT ![d] = Nil],
         n \notin {"judge", "drop", "off", "rmPid"}, dpc[d] # "dead",
         n \in {"write", "clear", "listen", "harden", "up"} => Owner(d)
  PROVE  ClaimInv'
<1>1. /\ dpc'[d] = n /\ \A e \in Daemons : e # d => dpc'[e] = dpc[e]
  BY TypeParts, StepType
<1>2. \A e \in Daemons : e # d => seen'[e] = seen[e]
  BY TypeParts DEF DaemonsOK
<1>3. ~raced' => \A e \in Daemons : Holds(e)' => pidFile' # Nil /\ pidFile'.by = e
  BY <1>1 DEF ClaimInv, Holds, Owner
<1>4. pidFile' # Nil /\ pidFile'.by \in Daemons => dpc'[pidFile'.by] # "off"
  BY <1>1 DEF ClaimInv
<1>5. ASSUME NEW e \in Daemons, dpc'[e] = "judge", seen'[e] \in Daemons PROVE dpc'[seen'[e]] # "off"
  BY <1>1, <1>2, <1>5 DEF ClaimInv
<1>6. ASSUME NEW e \in Daemons, dpc'[e] = "drop", seen'[e] \in Daemons PROVE dpc'[seen'[e]] = "dead"
  BY <1>1, <1>2, <1>6 DEF ClaimInv
<1> QED
  BY <1>3, <1>4, <1>5, <1>6 DEF ClaimInv

LEMMA OwnFile ==
  ASSUME NEW d \in Daemons, NEW w \in BOOLEAN
  PROVE  [by |-> d, written |-> w] # Nil /\ [by |-> d, written |-> w].by = d
<1>1. [by |-> d, written |-> w] \in PidFiles
  BY DEF PidFiles
<1> QED
  BY <1>1, HookDaemonAssumption

LEMMA ClaimDaemon ==
  ASSUME TypeOK, ClaimInv, NEW d \in Daemons, DaemonStep(d)
  PROVE  ClaimInv'
<1>0. FilesOK /\ DaemonsOK
  BY TypeParts
<1>1. ASSUME NEW n \in DaemonSteps, Step(d, n)
      PROVE  dpc'[d] = n /\ \A e \in Daemons : e # d => dpc'[e] = dpc[e]
  BY <1>0, <1>1, StepType
<1>2. \A n \in {"read", "judge", "drop", "open", "write", "clear", "listen", "harden", "up",
                "closing", "unclaim", "rmPid", "rmDir", "dead"} : n \in DaemonSteps
  BY DEF DaemonSteps
<1>3. CASE ReadPid(d)
  <2>1. CASE pidFile # Nil /\ pidFile.written
    <3>1. /\ dpc[d] = "read" /\ dpc'[d] = "judge" /\ \A e \in Daemons : e # d => dpc'[e] = dpc[e]
          /\ seen' = [seen EXCEPT ![d] = pidFile.by] /\ UNCHANGED <<pidFile, raced>>
      BY <1>1, <1>2, <1>3, <2>1 DEF ReadPid, At, base
    <3>2. seen'[d] = pidFile.by /\ \A e \in Daemons : e # d => seen'[e] = seen[e]
      BY <1>0, <3>1 DEF DaemonsOK
    <3>3. ASSUME NEW e \in Daemons, dpc'[e] = "judge", seen'[e] \in Daemons PROVE dpc'[seen'[e]] # "off"
      BY <2>1, <3>1, <3>2, <3>3 DEF ClaimInv
    <3>4. ASSUME NEW e \in Daemons, dpc'[e] = "drop", seen'[e] \in Daemons PROVE dpc'[seen'[e]] = "dead"
      BY <3>1, <3>2, <3>4 DEF ClaimInv
    <3>5. ~raced' => \A e \in Daemons : Holds(e)' => pidFile' # Nil /\ pidFile'.by = e
      BY <3>1 DEF ClaimInv, Holds, Owner
    <3>6. pidFile' # Nil /\ pidFile'.by \in Daemons => dpc'[pidFile'.by] # "off"
      BY <3>1 DEF ClaimInv
    <3> QED
      BY <3>3, <3>4, <3>5, <3>6 DEF ClaimInv
  <2>2. CASE ~(pidFile # Nil /\ pidFile.written)
    BY <1>2, <1>3, <2>2, ClaimFrame DEF ReadPid, At, base
  <2> QED
    BY <2>1, <2>2
<1>4. CASE JudgePid(d)
  <2>1. CASE Alive(seen[d])
    BY <1>2, <1>4, <2>1, ClaimFrame DEF JudgePid, At, base, files
  <2>2. CASE ~Alive(seen[d])
    <3>1. /\ dpc[d] = "judge" /\ dpc'[d] = "drop" /\ \A e \in Daemons : e # d => dpc'[e] = dpc[e]
          /\ UNCHANGED <<seen, pidFile, raced>>
      BY <1>1, <1>2, <1>4, <2>2 DEF JudgePid, At, base, files
    <3>2. seen[d] \in Daemons => dpc[seen[d]] = "dead"
      BY <2>2, <3>1 DEF ClaimInv, Alive
    <3>3. ASSUME NEW e \in Daemons, dpc'[e] = "judge", seen'[e] \in Daemons PROVE dpc'[seen'[e]] # "off"
      BY <3>1, <3>3 DEF ClaimInv
    <3>4. ASSUME NEW e \in Daemons, dpc'[e] = "drop", seen'[e] \in Daemons PROVE dpc'[seen'[e]] = "dead"
      BY <3>1, <3>2, <3>4 DEF ClaimInv
    <3>5. ~raced' => \A e \in Daemons : Holds(e)' => pidFile' # Nil /\ pidFile'.by = e
      BY <3>1 DEF ClaimInv, Holds, Owner
    <3>6. pidFile' # Nil /\ pidFile'.by \in Daemons => dpc'[pidFile'.by] # "off"
      BY <3>1 DEF ClaimInv
    <3> QED
      BY <3>3, <3>4, <3>5, <3>6 DEF ClaimInv
  <2> QED
    BY <2>1, <2>2
<1>5. CASE DropPid(d)
  <2>1. /\ dpc[d] = "drop" /\ dpc'[d] = "open" /\ \A e \in Daemons : e # d => dpc'[e] = dpc[e]
        /\ seen' = [seen EXCEPT ![d] = Nil] /\ pidFile' = Nil
        /\ raced' = (raced \/ (pidFile # Nil /\ pidFile.by # seen[d]))
    BY <1>1, <1>2, <1>5 DEF DropPid, At
  <2>2. \A e \in Daemons : e # d => seen'[e] = seen[e]
    BY <1>0, <2>1 DEF DaemonsOK
  <2>3. ~raced' => \A e \in Daemons : ~Holds(e)'
    <3> SUFFICES ASSUME ~raced', NEW e \in Daemons, Holds(e)' PROVE FALSE
      OBVIOUS
    <3>1. e # d /\ Holds(e) /\ dpc[e] # "dead"
      BY <2>1 DEF Holds, Owner
    <3>2. ~raced /\ pidFile # Nil /\ pidFile.by = e
      BY <1>0, <2>1, <3>1 DEF ClaimInv, FilesOK
    <3>3. seen[d] = e
      BY <1>0, <2>1, <3>2 DEF FilesOK
    <3> QED
      BY <2>1, <3>1, <3>3 DEF ClaimInv
  <2>4. ASSUME NEW e \in Daemons, dpc'[e] = "judge", seen'[e] \in Daemons PROVE dpc'[seen'[e]] # "off"
    BY <2>1, <2>2, <2>4 DEF ClaimInv
  <2>5. ASSUME NEW e \in Daemons, dpc'[e] = "drop", seen'[e] \in Daemons PROVE dpc'[seen'[e]] = "dead"
    BY <2>1, <2>2, <2>5 DEF ClaimInv
  <2> QED
    BY <2>1, <2>3, <2>4, <2>5 DEF ClaimInv
<1>6. CASE OpenPid(d)
  <2>1. CASE dir /\ pidFile = Nil
    <3> DEFINE p == [by |-> d, written |-> FALSE]
    <3>1. /\ dpc[d] = "open" /\ dpc'[d] = "write" /\ \A e \in Daemons : e # d => dpc'[e] = dpc[e]
          /\ UNCHANGED <<seen, raced>> /\ pidFile' = p
      BY <1>1, <1>2, <1>6, <2>1 DEF OpenPid, At, base
    <3>2. p # Nil /\ p.by = d
      BY OwnFile
    <3> HIDE DEF p
    <3>3. ~raced' => \A e \in Daemons : Holds(e)' => e = d
      BY <2>1, <3>1 DEF ClaimInv, Holds, Owner
    <3>4. ASSUME NEW e \in Daemons, dpc'[e] = "judge", seen'[e] \in Daemons PROVE dpc'[seen'[e]] # "off"
      BY <3>1, <3>4 DEF ClaimInv
    <3>5. ASSUME NEW e \in Daemons, dpc'[e] = "drop", seen'[e] \in Daemons PROVE dpc'[seen'[e]] = "dead"
      BY <3>1, <3>5 DEF ClaimInv
    <3> QED
      BY <3>1, <3>2, <3>3, <3>4, <3>5 DEF ClaimInv
  <2>2. CASE ~(dir /\ pidFile = Nil)
    BY <1>2, <1>6, <2>2, ClaimFrame DEF OpenPid, At, base
  <2> QED
    BY <2>1, <2>2
<1>7. CASE WritePid(d)
  <2>1. /\ dpc[d] = "write" /\ dpc'[d] = "clear" /\ \A e \in Daemons : e # d => dpc'[e] = dpc[e]
        /\ UNCHANGED <<seen, raced>>
        /\ pidFile' = pidFile
           \/ (pidFile # Nil /\ pidFile.by = d /\ pidFile' = [pidFile EXCEPT !.written = TRUE])
    BY <1>1, <1>2, <1>7 DEF WritePid, At, base
  <2>2. (pidFile # Nil => pidFile' # Nil /\ pidFile'.by = pidFile.by) /\ (pidFile = Nil => pidFile' = Nil)
    <3>1. CASE pidFile' = pidFile
      BY <3>1
    <3>2. CASE pidFile # Nil /\ pidFile' = [pidFile EXCEPT !.written = TRUE]
      <4>1. pidFile \in PidFiles
        BY <1>0, <3>2 DEF FilesOK
      <4>2. pidFile' \in PidFiles /\ pidFile'.by = pidFile.by
        BY <3>2, <4>1 DEF PidFiles
      <4> QED
        BY <3>2, <4>2, HookDaemonAssumption
    <3> QED
      BY <2>1, <3>1, <3>2
  <2>3. ~raced' => \A e \in Daemons : Holds(e)' => pidFile' # Nil /\ pidFile'.by = e
    BY <2>1, <2>2 DEF ClaimInv, Holds, Owner
  <2>4. ASSUME NEW e \in Daemons, dpc'[e] = "judge", seen'[e] \in Daemons PROVE dpc'[seen'[e]] # "off"
    BY <2>1, <2>4 DEF ClaimInv
  <2>5. ASSUME NEW e \in Daemons, dpc'[e] = "drop", seen'[e] \in Daemons PROVE dpc'[seen'[e]] = "dead"
    BY <2>1, <2>5 DEF ClaimInv
  <2>6. pidFile' # Nil /\ pidFile'.by \in Daemons => dpc'[pidFile'.by] # "off"
    BY <2>1, <2>2 DEF ClaimInv
  <2> QED
    BY <2>3, <2>4, <2>5, <2>6 DEF ClaimInv
<1>8. CASE ClearSocket(d) \/ Listen(d) \/ Harden(d) \/ Shutdown(d)
  <2>1. \E n \in {"listen", "harden", "up", "closing"} : Step(d, n) /\ Owner(d)
        /\ UNCHANGED <<pidFile, raced, seen>> /\ dpc[d] # "dead"
    BY <1>8 DEF ClearSocket, Listen, Harden, Shutdown, At, base, files, Owner
  <2> QED
    BY <1>2, <2>1, ClaimFrame
<1>9. CASE Sweep(d) \/ RmDir(d)
  <2>1. \E n \in {"unclaim", "dead"} : Step(d, n)
        /\ UNCHANGED <<pidFile, raced, seen>> /\ dpc[d] # "dead"
    BY <1>9 DEF Sweep, RmDir, At, base, files
  <2> QED
    BY <1>2, <2>1, ClaimFrame
<1>10. CASE Unclaim(d)
  <2>1. CASE pidFile = [by |-> d, written |-> TRUE]
    <3>1. /\ dpc[d] = "unclaim" /\ dpc'[d] = "rmPid" /\ \A e \in Daemons : e # d => dpc'[e] = dpc[e]
          /\ UNCHANGED <<seen, raced, pidFile>>
      BY <1>1, <1>2, <1>10, <2>1 DEF Unclaim, At, base, files
    <3>2. pidFile # Nil /\ pidFile.by = d
      BY <2>1, OwnFile
    <3>3. ~raced' => \A e \in Daemons : Holds(e)' => pidFile' # Nil /\ pidFile'.by = e
      BY <3>1, <3>2 DEF ClaimInv, Holds, Owner
    <3>4. ASSUME NEW e \in Daemons, dpc'[e] = "judge", seen'[e] \in Daemons PROVE dpc'[seen'[e]] # "off"
      BY <3>1, <3>4 DEF ClaimInv
    <3>5. ASSUME NEW e \in Daemons, dpc'[e] = "drop", seen'[e] \in Daemons PROVE dpc'[seen'[e]] = "dead"
      BY <3>1, <3>5 DEF ClaimInv
    <3> QED
      BY <3>1, <3>2, <3>3, <3>4, <3>5 DEF ClaimInv
  <2>2. CASE pidFile # [by |-> d, written |-> TRUE]
    BY <1>2, <1>10, <2>2, ClaimFrame DEF Unclaim, At, base, files
  <2> QED
    BY <2>1, <2>2
<1>11. CASE RmPid(d)
  <2>1. /\ dpc[d] = "rmPid" /\ dpc'[d] = "rmDir" /\ \A e \in Daemons : e # d => dpc'[e] = dpc[e]
        /\ UNCHANGED <<seen, raced>> /\ pidFile' = Nil
    BY <1>1, <1>2, <1>11 DEF RmPid, At, base
  <2>2. ~raced' => \A e \in Daemons : ~Holds(e)'
    BY <2>1 DEF ClaimInv, Holds, Owner
  <2>3. ASSUME NEW e \in Daemons, dpc'[e] = "judge", seen'[e] \in Daemons PROVE dpc'[seen'[e]] # "off"
    BY <2>1, <2>3 DEF ClaimInv
  <2>4. ASSUME NEW e \in Daemons, dpc'[e] = "drop", seen'[e] \in Daemons PROVE dpc'[seen'[e]] = "dead"
    BY <2>1, <2>4 DEF ClaimInv
  <2> QED
    BY <2>1, <2>2, <2>3, <2>4 DEF ClaimInv
<1>12. CASE Crash(d)
  BY <1>2, <1>12, ClaimFrame DEF Crash, Alive, files, history
<1> QED
  BY <1>3, <1>4, <1>5, <1>6, <1>7, <1>8, <1>9, <1>10, <1>11, <1>12 DEF DaemonStep, StartStep, EndStep

LEMMA ClaimInvStep == TypeOK /\ ClaimInv /\ [Next]_vars => ClaimInv'
<1> SUFFICES ASSUME TypeOK, ClaimInv, [Next]_vars PROVE ClaimInv'
  OBVIOUS
<1>1. CASE UNCHANGED <<pidFile, raced, dpc, seen>>
  BY <1>1 DEF ClaimInv, Holds, Owner
<1>2. ASSUME NEW c \in Clients, Fallback(c) PROVE ClaimInv'
  <2>1. UNCHANGED <<pidFile, raced, seen>>
    BY <1>2 DEF Fallback, files, history
  <2>2. ASSUME NEW d \in Daemons, At(d, "off"), Step(d, "read") PROVE ClaimInv'
    BY <2>1, <2>2, ClaimFrame DEF At, DaemonSteps
  <2> QED
    BY <1>1, <1>2, <2>1, <2>2 DEF Fallback, SpawnDaemon
<1>3. ASSUME NEW c \in Clients, Invoke(c) \/ CallStep(c) PROVE ClaimInv'
  <2>1. Fallback(c) \/ UNCHANGED <<pidFile, raced, dpc, seen>>
    BY <1>3 DEF Invoke, CallStep, Connect, ConnectFails, RequestTimeout, ConnectionLost, Answered,
                Printed, base, daemonVars, files
  <2> QED
    BY <1>1, <1>2, <2>1
<1>4. ASSUME NEW c \in Clients, RespondStep(c) PROVE ClaimInv'
  <2>1. UNCHANGED <<pidFile, raced, seen>>
    BY <1>4 DEF RespondStep, Refuse, Accept, base, daemonVars, files
  <2>2. \/ UNCHANGED dpc
        \/ conn[c] \in Daemons /\ dpc[conn[c]] \in {"harden", "up"} /\ Step(conn[c], "closing")
    BY <1>4 DEF RespondStep, Refuse, Accept, daemonVars, Listening
  <2> QED
    BY <1>1, <2>1, <2>2, ClaimFrame DEF DaemonSteps
<1>5. ASSUME NEW c \in Clients, NEW s \in Sides, ClaimStep(c, s) \/ Evaluate(c, s) PROVE ClaimInv'
  BY <1>1, <1>5 DEF ClaimStep, OpenMarker, JudgeMarker, DropMarker, ReopenMarker, ClaimFails, Evaluate,
         evalUnchanged, base, daemonVars, files, history
<1>6. ASSUME NEW h \in Hooks, Expire(h) PROVE ClaimInv'
  BY <1>1, <1>6 DEF Expire, daemonVars, files
<1>7. CASE Install \/ UNCHANGED vars
  BY <1>1, <1>7 DEF Install, vars, daemonVars, files, history
<1> QED
  BY <1>3, <1>4, <1>5, <1>6, <1>7, ClaimDaemon DEF Next, DaemonStep

LEMMA ClaimInit == Init => ClaimInv
<1> SUFFICES ASSUME Init PROVE ClaimInv
  OBVIOUS
<1>1. CASE dpc = [d \in Daemons |-> "off"] /\ (pidFile = Nil \/ pidFile.by = Gone)
  BY <1>1, HookDaemonAssumption DEF Init, ClaimInv, Holds, Owner
<1>2. ASSUME NEW up \in Standing,
             dpc = [d \in Daemons |-> IF d = up THEN "up" ELSE "off"],
             pidFile = [by |-> up, written |-> TRUE]
      PROVE  ClaimInv
  <2>1. up \in Daemons /\ \A d \in Daemons : dpc[d] = IF d = up THEN "up" ELSE "off"
    BY <1>2, HookDaemonAssumption
  <2>2. pidFile \in PidFiles /\ pidFile.by = up
    BY <1>2, <2>1 DEF PidFiles
  <2>3. pidFile # Nil
    BY <2>2, HookDaemonAssumption
  <2> QED
    BY <2>1, <2>2, <2>3 DEF ClaimInv, Holds, Owner
<1> QED
  BY <1>1, <1>2 DEF Init

\* For any number of daemons, clients, package updates and faults: two
\* daemons own one root only when one of them removed a pid file it had not
\* judged; no other order of starts, shutdowns, retirements and crashes gets
\* past claimPidFile.
THEOREM OneDaemon == Spec => []DaemonInvariant
<1>1. TypeOK /\ ClaimInv => DaemonInvariant
  <2> SUFFICES ASSUME TypeOK, ClaimInv PROVE SingleDaemonUnlessRaced
    BY DEF DaemonInvariant
  <2>1. raced \in BOOLEAN
    BY DEF TypeOK
  <2> QED
    BY <2>1 DEF SingleDaemonUnlessRaced, ClaimInv, Holds
<1>2. TypeOK /\ ClaimInv /\ [Next]_vars => (TypeOK /\ ClaimInv)'
  BY TypeStep, ClaimInvStep
<1> QED
  BY <1>1, <1>2, TypeInit, ClaimInit, PTL DEF Spec

-----------------------------------------------------------------------------
(* Evaluations and markers                                                  *)

Begun(e) == e \in {"run", "decided", "threw"}

\* As long as the marker of h has neither expired nor failed: whoever got past
\* the first attempt found or created it, so it is there and one evaluation
\* holds it.
MarkerHolds(h) ==
    /\ marker[h] # "expired"
    /\ \A c \in Clients, s \in Sides : HookOf[c] = h =>
          /\ eval[c][s] \notin {"drop", "reopen"}
          /\ eval[c][s] \in {"judge", "duplicate", "run", "decided", "threw"} => marker[h] = "fresh"
    /\ \A c, d \in Clients, s, t \in Sides :
          HookOf[c] = h /\ HookOf[d] = h /\ Begun(eval[c][s]) /\ Begun(eval[d][t]) => c = d /\ s = t

\* A client has not begun an evaluation of its own before it falls back.
NotYetInline == \A c \in Clients : cpc[c] \in {"idle", "call", "wait"} => eval[c]["inline"] = "none"

Somewhere(h) == \E c \in Clients, s \in Sides : HookOf[c] = h /\ Begun(eval[c][s])

\* A marker, a duplicate and an answer without a decision each stem from an
\* evaluation that was begun.
Traced ==
    /\ \A h \in Hooks : marker[h] # "none" => Somewhere(h)
    /\ \A c \in Clients, s \in Sides : eval[c][s] \in {"judge", "drop", "reopen", "duplicate"} => Somewhere(HookOf[c])
    /\ \A c \in Clients : answer[c] \in {"duplicate", "threw"} => Somewhere(HookOf[c])

HookInv ==
    /\ TypeOK
    /\ \A h \in Deduped \ lapsed : MarkerHolds(h)
    /\ NotYetInline
    /\ Traced

\* The evaluation of client c on side s moves to step e: what that does to
\* the other invocations.
LEMMA EvalMove ==
  ASSUME HookInv, NEW c \in Clients, NEW s \in Sides, NEW e \in EvalSteps,
         eval' = [eval EXCEPT ![c][s] = e], UNCHANGED answer,
         lapsed' = lapsed \/ lapsed' = lapsed \cup {HookOf[c]},
         \A h \in Hooks : h # HookOf[c] =>
            marker'[h] = marker[h] \/ (marker[h] = "expired" /\ marker'[h] = "none"),
         Begun(eval[c][s]) => Begun(e),
         marker'[HookOf[c]] # "none" => Begun(e) \/ Somewhere(HookOf[c]),
         e \in {"judge", "drop", "reopen", "duplicate"} => Somewhere(HookOf[c]),
         HookOf[c] \in Deduped \ lapsed' => MarkerHolds(HookOf[c])'
  PROVE  (\A h \in Deduped \ lapsed' : MarkerHolds(h)') /\ Traced'
<1>1. /\ eval'[c][s] = e
      /\ \A x \in Clients, y \in Sides : x # c \/ y # s => eval'[x][y] = eval[x][y]
  BY EvalStepFacts DEF HookInv, TypeOK
<1>2. ASSUME NEW h \in Deduped \ lapsed' PROVE MarkerHolds(h)'
  <2>1. CASE h = HookOf[c]
    BY <2>1
  <2>2. CASE h # HookOf[c]
    <3>1. h \in Hooks /\ h \notin lapsed /\ MarkerHolds(h)
      BY <1>2, HookDaemonAssumption DEF HookInv
    <3>2. marker'[h] = marker[h]
      BY <2>2, <3>1 DEF MarkerHolds
    <3>3. \A x \in Clients, y \in Sides : HookOf[x] = h => eval'[x][y] = eval[x][y]
      BY <1>1, <2>2
    <3> QED
      BY <3>1, <3>2, <3>3 DEF MarkerHolds
  <2> QED
    BY <2>1, <2>2
<1>3. ASSUME NEW h, Somewhere(h) PROVE Somewhere(h)'
  <2>1. PICK x \in Clients, y \in Sides : HookOf[x] = h /\ Begun(eval[x][y])
    BY <1>3 DEF Somewhere
  <2>2. Begun(eval'[x][y])
    BY <1>1, <2>1
  <2> QED
    BY <2>1, <2>2 DEF Somewhere, Begun
<1>4. Begun(e) => Somewhere(HookOf[c])'
  BY <1>1 DEF Somewhere, Begun
<1>5. ASSUME NEW h \in Hooks, marker'[h] # "none" PROVE Somewhere(h)'
  BY <1>3, <1>4, <1>5 DEF HookInv, Traced
<1>6. ASSUME NEW x \in Clients, NEW y \in Sides, eval'[x][y] \in {"judge", "drop", "reopen", "duplicate"}
      PROVE  Somewhere(HookOf[x])'
  BY <1>1, <1>3, <1>6 DEF HookInv, Traced
<1>7. ASSUME NEW x \in Clients, answer'[x] \in {"duplicate", "threw"} PROVE Somewhere(HookOf[x])'
  BY <1>3, <1>7 DEF HookInv, Traced
<1> QED
  BY <1>2, <1>5, <1>6, <1>7 DEF Traced

\* And what it does to its own: it does not begin, or it created the marker.
LEMMA OwnMarker ==
  ASSUME HookInv, NEW c \in Clients, NEW s \in Sides, NEW e \in EvalSteps,
         eval' = [eval EXCEPT ![c][s] = e], HookOf[c] \in Deduped \ lapsed,
         \/ /\ marker'[HookOf[c]] = marker[HookOf[c]] /\ e \notin {"drop", "reopen"}
            /\ e \in {"judge", "duplicate", "run", "decided", "threw"} => marker[HookOf[c]] = "fresh"
            /\ Begun(e) => Begun(eval[c][s])
         \/ marker[HookOf[c]] = "none" /\ marker'[HookOf[c]] = "fresh" /\ e = "run"
  PROVE  MarkerHolds(HookOf[c])'
<1> DEFINE h == HookOf[c]
<1>0. MarkerHolds(h)
  BY DEF HookInv
<1>1. /\ eval'[c][s] = e
      /\ \A x \in Clients, y \in Sides : x # c \/ y # s => eval'[x][y] = eval[x][y]
  BY EvalStepFacts DEF HookInv, TypeOK
<1>2. CASE /\ marker'[h] = marker[h] /\ e \notin {"drop", "reopen"}
           /\ e \in {"judge", "duplicate", "run", "decided", "threw"} => marker[h] = "fresh"
           /\ Begun(e) => Begun(eval[c][s])
  <2>1. \A x \in Clients, y \in Sides : Begun(eval'[x][y]) => Begun(eval[x][y])
    BY <1>1, <1>2
  <2>2. \A x \in Clients, y \in Sides : HookOf[x] = h =>
          /\ eval'[x][y] \notin {"drop", "reopen"}
          /\ eval'[x][y] \in {"judge", "duplicate", "run", "decided", "threw"} => marker'[h] = "fresh"
    BY <1>0, <1>1, <1>2 DEF MarkerHolds
  <2>3. marker'[h] # "expired"
    BY <1>0, <1>2 DEF MarkerHolds
  <2>4. \A x, d \in Clients, y, t \in Sides :
          HookOf[x] = h /\ HookOf[d] = h /\ Begun(eval'[x][y]) /\ Begun(eval'[d][t]) => x = d /\ y = t
    BY <1>0, <2>1 DEF MarkerHolds
  <2> QED
    BY <2>2, <2>3, <2>4 DEF MarkerHolds, Begun
<1>3. CASE marker[h] = "none" /\ marker'[h] = "fresh" /\ e = "run"
  <2>1. \A x \in Clients, y \in Sides : HookOf[x] = h => ~Begun(eval[x][y])
    BY <1>0, <1>3 DEF MarkerHolds, Begun
  <2>2. \A x \in Clients, y \in Sides : HookOf[x] = h /\ Begun(eval'[x][y]) => x = c /\ y = s
    BY <1>1, <2>1
  <2>3. \A x \in Clients, y \in Sides : HookOf[x] = h => eval'[x][y] \notin {"drop", "reopen"}
    BY <1>0, <1>1, <1>3 DEF MarkerHolds
  <2> QED
    BY <1>3, <2>2, <2>3 DEF MarkerHolds, Begun
<1> QED
  BY <1>2, <1>3

\* An evaluation that is begun, or refused, by the daemon or as a fallback.
LEMMA BeginMove ==
  ASSUME HookInv, NEW c \in Clients, NEW s \in Sides, NEW e \in EvalSteps, eval[c][s] = "none",
         e = "refused" \/ e = FirstStep(c),
         eval' = [eval EXCEPT ![c][s] = e], UNCHANGED <<answer, lapsed, marker>>
  PROVE  (\A h \in Deduped \ lapsed' : MarkerHolds(h)') /\ Traced'
<1>1. e \in {"refused", "open", "run"} /\ (e = "run" => HookOf[c] \notin Deduped)
  BY DEF FirstStep
<1>2. ~Begun(eval[c][s]) /\ (Begun(e) => e = "run")
  BY <1>1 DEF Begun
<1>3. HookOf[c] \in Deduped \ lapsed' => MarkerHolds(HookOf[c])'
  BY <1>1, <1>2, OwnMarker
<1>4. HookOf[c] \in Hooks
  BY DEF Hooks
<1>5. marker'[HookOf[c]] # "none" => Somewhere(HookOf[c])
  BY <1>4 DEF HookInv, Traced
<1> QED
  BY <1>1, <1>2, <1>3, <1>5, EvalMove

LEMMA ClaimMove ==
  ASSUME HookInv, NEW c \in Clients, NEW s \in Sides, ClaimStep(c, s) \/ Evaluate(c, s)
  PROVE  (\A h \in Deduped \ lapsed' : MarkerHolds(h)') /\ Traced'
<1> DEFINE h == HookOf[c]
           fresh == [marker EXCEPT ![h] = "fresh"]
<1>0. h \in Hooks /\ marker \in [Hooks -> Markers] /\ UNCHANGED answer
  BY DEF Hooks, HookInv, TypeOK, Markers, ClaimStep, OpenMarker, JudgeMarker, DropMarker, ReopenMarker,
         ClaimFails, Evaluate, evalUnchanged
<1>1. /\ fresh \in [Hooks -> Markers] /\ fresh[h] = "fresh"
      /\ \A x \in Hooks : x # h => fresh[x] = marker[x]
  BY <1>0 DEF Markers
<1> HIDE DEF fresh
<1>2. {"judge", "drop", "reopen", "duplicate", "run", "decided", "threw"} \subseteq EvalSteps
  BY DEF EvalSteps
<1>3. CASE (EvalAt(c, s, "open") \/ EvalAt(c, s, "reopen")) /\ marker[h] = "none"
           /\ marker' \in Pruned(fresh) /\ EvalStep(c, s, "run") /\ UNCHANGED lapsed
  <2>1. /\ marker'[h] = "fresh"
        /\ \A x \in Hooks : x # h =>
             marker'[x] = marker[x] \/ (marker[x] = "expired" /\ marker'[x] = "none")
    <3>1. \A x \in Hooks : marker'[x] = fresh[x] \/ (fresh[x] = "expired" /\ marker'[x] = "none")
      BY <1>1, <1>3, PrunedFacts
    <3> QED
      BY <1>0, <1>1, <3>1
  <2>2. eval' = [eval EXCEPT ![c][s] = "run"] /\ Begun("run")
    BY <1>3 DEF EvalStep, Begun
  <2>3. h \in Deduped \ lapsed' => MarkerHolds(h)'
    BY <1>2, <1>3, <2>1, <2>2, OwnMarker
  <2> QED
    BY <1>0, <1>2, <1>3, <2>1, <2>2, <2>3, EvalMove
<1>4. CASE EvalAt(c, s, "open") /\ marker[h] # "none" /\ EvalStep(c, s, "judge")
           /\ UNCHANGED <<marker, lapsed>>
  <2>1. eval' = [eval EXCEPT ![c][s] = "judge"] /\ ~Begun("judge") /\ ~Begun(eval[c][s])
    BY <1>4 DEF EvalStep, Begun, EvalAt
  <2>2. Somewhere(h)
    BY <1>0, <1>4 DEF HookInv, Traced
  <2>3. h \in Deduped \ lapsed => marker[h] = "fresh"
    BY <1>0, <1>4 DEF HookInv, MarkerHolds, Markers
  <2>4. h \in Deduped \ lapsed' => MarkerHolds(h)'
    BY <1>2, <1>4, <2>1, <2>3, OwnMarker
  <2> QED
    BY <1>0, <1>2, <1>4, <2>1, <2>2, <2>4, EvalMove
<1>5. CASE ((EvalAt(c, s, "judge") /\ marker[h] = "fresh") \/ EvalAt(c, s, "reopen"))
           /\ EvalStep(c, s, "duplicate") /\ marker' \in Pruned(marker) /\ UNCHANGED lapsed
  <2>1. eval' = [eval EXCEPT ![c][s] = "duplicate"] /\ ~Begun("duplicate") /\ ~Begun(eval[c][s])
    BY <1>5 DEF EvalStep, Begun, EvalAt
  <2>2. Somewhere(h)
    BY <1>5 DEF HookInv, Traced, EvalAt
  <2>3. \A x \in Hooks : marker'[x] = marker[x] \/ (marker[x] = "expired" /\ marker'[x] = "none")
    BY <1>0, <1>5, PrunedFacts
  <2>4. h \in Deduped \ lapsed => marker[h] = "fresh" /\ marker'[h] = marker[h]
    BY <1>0, <1>5, <2>3 DEF HookInv, MarkerHolds, EvalAt
  <2>5. h \in Deduped \ lapsed' => MarkerHolds(h)'
    BY <1>2, <1>5, <2>1, <2>4, OwnMarker
  <2> QED
    BY <1>0, <1>2, <1>5, <2>1, <2>2, <2>3, <2>5, EvalMove
<1>6. CASE EvalAt(c, s, "judge") /\ marker[h] # "fresh" /\ EvalStep(c, s, "drop")
           /\ UNCHANGED <<marker, lapsed>>
  <2>1. eval' = [eval EXCEPT ![c][s] = "drop"] /\ ~Begun("drop") /\ ~Begun(eval[c][s])
    BY <1>6 DEF EvalStep, Begun, EvalAt
  <2>2. Somewhere(h)
    BY <1>6 DEF HookInv, Traced, EvalAt
  <2>3. h \notin Deduped \ lapsed'
    BY <1>6 DEF HookInv, MarkerHolds, EvalAt
  <2> QED
    BY <1>0, <1>2, <1>6, <2>1, <2>2, <2>3, EvalMove
<1>7. CASE DropMarker(c, s)
  <2>1. /\ eval' = [eval EXCEPT ![c][s] = "reopen"] /\ ~Begun("reopen") /\ ~Begun(eval[c][s])
        /\ UNCHANGED lapsed /\ marker' = [marker EXCEPT ![h] = "none"] /\ eval[c][s] = "drop"
    BY <1>7 DEF DropMarker, EvalStep, Begun, EvalAt, evalUnchanged, base
  <2>2. Somewhere(h) /\ h \notin Deduped \ lapsed'
    BY <2>1 DEF HookInv, Traced, MarkerHolds
  <2>3. \A x \in Hooks : x # h => marker'[x] = marker[x]
    BY <1>0, <2>1
  <2> QED
    BY <1>0, <1>2, <2>1, <2>2, <2>3, EvalMove
<1>8. CASE ClaimFails(c, s)
  <2>1. /\ eval' = [eval EXCEPT ![c][s] = "run"] /\ Begun("run")
        /\ lapsed' = lapsed \cup {h} /\ UNCHANGED marker
    BY <1>8 DEF ClaimFails, EvalStep, Begun
  <2> QED
    BY <1>0, <1>2, <2>1, EvalMove
<1>9. CASE Evaluate(c, s)
  <2>1. PICK e \in {"decided", "threw"} : eval' = [eval EXCEPT ![c][s] = e]
    BY <1>9 DEF Evaluate, EvalStep
  <2>2. /\ Begun(e) /\ Begun(eval[c][s]) /\ UNCHANGED <<marker, lapsed>>
        /\ e \notin {"judge", "drop", "reopen", "duplicate"} /\ eval[c][s] = "run"
    BY <1>9 DEF Evaluate, EvalAt, Begun, history
  <2>3. h \in Deduped \ lapsed => marker[h] = "fresh"
    BY <2>2 DEF HookInv, MarkerHolds
  <2>4. h \in Deduped \ lapsed' => MarkerHolds(h)'
    BY <1>2, <2>1, <2>2, <2>3, OwnMarker
  <2> QED
    BY <1>0, <1>2, <2>1, <2>2, <2>4, EvalMove
<1>10. OpenMarker(c, s) \/ JudgeMarker(c, s) \/ ReopenMarker(c, s) =>
         (\A x \in Deduped \ lapsed' : MarkerHolds(x)') /\ Traced'
  BY <1>3, <1>4, <1>5, <1>6 DEF OpenMarker, JudgeMarker, ReopenMarker, evalUnchanged, base, fresh
<1> QED
  BY <1>7, <1>8, <1>9, <1>10 DEF ClaimStep

LEMMA HookInit == Init => HookInv
<1> SUFFICES ASSUME Init PROVE HookInv
  OBVIOUS
<1>1. /\ \A c \in Clients, s \in Sides : eval[c][s] = "none"
      /\ \A c \in Clients : answer[c] = "none"
      /\ \A h \in Hooks : marker[h] = "none"
  BY DEF Init
<1>2. \A h \in Deduped \ lapsed : MarkerHolds(h)
  BY <1>1, HookDaemonAssumption DEF MarkerHolds, Begun
<1>3. NotYetInline /\ Traced
  BY <1>1 DEF NotYetInline, Traced, Sides
<1> QED
  BY <1>2, <1>3, TypeInit DEF HookInv

LEMMA HookStep == HookInv /\ [Next]_vars => HookInv'
<1> SUFFICES ASSUME HookInv, [Next]_vars PROVE HookInv'
  OBVIOUS
<1> DEFINE Kept == (\A h \in Deduped \ lapsed' : MarkerHolds(h)') /\ NotYetInline' /\ Traced'
<1>0. TypeOK /\ TypeOK'
  BY TypeStep DEF HookInv
<1>1. CASE UNCHANGED <<eval, marker, lapsed, answer, cpc>>
  <2>1. \A h : MarkerHolds(h) => MarkerHolds(h)'
    BY <1>1 DEF MarkerHolds
  <2>2. NotYetInline' /\ Traced'
    BY <1>1 DEF HookInv, NotYetInline, Traced, Somewhere
  <2> QED
    BY <1>0, <1>1, <2>1, <2>2 DEF HookInv
<1>2. ASSUME NEW c \in Clients, Fallback(c), cpc[c] \in {"call", "wait"} PROVE Kept
  <2>1. /\ eval' = [eval EXCEPT ![c]["inline"] = FirstStep(c)] /\ UNCHANGED <<answer, lapsed, marker>>
        /\ cpc' = [cpc EXCEPT ![c] = "inline"]
    BY <1>2 DEF Fallback, history
  <2>2. "inline" \in Sides /\ FirstStep(c) \in EvalSteps /\ eval[c]["inline"] = "none"
    BY <1>2, FirstStepType DEF Sides, HookInv, NotYetInline
  <2>3. (\A h \in Deduped \ lapsed' : MarkerHolds(h)') /\ Traced'
    BY <2>1, <2>2, BeginMove
  <2>4. \A x \in Clients : x # c => eval'[x]["inline"] = eval[x]["inline"]
    BY <1>0, <2>1, <2>2, EvalStepFacts DEF TypeOK
  <2>5. NotYetInline'
    BY <1>0, <2>1, <2>4 DEF HookInv, NotYetInline, TypeOK
  <2> QED
    BY <2>3, <2>5
<1>3. ASSUME NEW c \in Clients, NEW s \in Sides, eval[c][s] \in {"decided", "duplicate", "threw"},
             cpc' = [cpc EXCEPT ![c] = "done"], answer' = [answer EXCEPT ![c] = eval[c][s]],
             UNCHANGED <<eval, marker, lapsed>>
      PROVE  Kept
  <2>1. \A h : MarkerHolds(h) => MarkerHolds(h)'
    BY <1>3 DEF MarkerHolds
  <2>2. NotYetInline'
    BY <1>0, <1>3 DEF HookInv, NotYetInline, TypeOK
  <2>3. ASSUME NEW x \in Clients, answer'[x] \in {"duplicate", "threw"} PROVE Somewhere(HookOf[x])
    <3>1. CASE x # c
      BY <1>0, <1>3, <2>3, <3>1 DEF HookInv, Traced, TypeOK
    <3>2. CASE x = c
      <4>1. eval[c][s] \in {"duplicate", "threw"}
        BY <1>0, <1>3, <2>3, <3>2 DEF TypeOK
      <4> QED
        BY <3>2, <4>1 DEF HookInv, Traced, Somewhere, Begun
    <3> QED
      BY <3>1, <3>2
  <2>4. Traced'
    BY <1>3, <2>3 DEF HookInv, Traced, Somewhere
  <2> QED
    BY <1>3, <2>1, <2>2, <2>4 DEF HookInv
<1>4. ASSUME NEW c \in Clients, CallStep(c) \/ Invoke(c) PROVE HookInv'
  <2>1. \/ Fallback(c) /\ cpc[c] \in {"call", "wait"}
        \/ Connect(c) \/ Invoke(c)
        \/ /\ eval[c]["daemon"] \in {"decided", "duplicate"}
           /\ cpc' = [cpc EXCEPT ![c] = "done"] /\ answer' = [answer EXCEPT ![c] = eval[c]["daemon"]]
           /\ UNCHANGED <<eval, marker, lapsed>>
        \/ /\ eval[c]["inline"] \in {"decided", "duplicate", "threw"}
           /\ cpc' = [cpc EXCEPT ![c] = "done"] /\ answer' = [answer EXCEPT ![c] = eval[c]["inline"]]
           /\ UNCHANGED <<eval, marker, lapsed>>
    BY <1>4 DEF CallStep, ConnectFails, RequestTimeout, ConnectionLost, Answered, Printed, base
  <2>2. CASE Connect(c) \/ Invoke(c)
    <3>1. /\ UNCHANGED <<eval, marker, lapsed, answer>>
          /\ cpc[c] \in {"idle", "call"} /\ \E v : cpc' = [cpc EXCEPT ![c] = v]
      BY <2>2 DEF Connect, Invoke, base
    <3>2. \A h : MarkerHolds(h) => MarkerHolds(h)'
      BY <3>1 DEF MarkerHolds
    <3>3. \A x \in Clients : x # c => cpc'[x] = cpc[x]
      BY <1>0, <3>1 DEF TypeOK
    <3>4. NotYetInline' /\ Traced'
      BY <3>1, <3>3 DEF HookInv, NotYetInline, Traced, Somewhere
    <3> QED
      BY <1>0, <3>1, <3>2, <3>4 DEF HookInv
  <2>3. "daemon" \in Sides /\ "inline" \in Sides
    BY DEF Sides
  <2>4. CASE Fallback(c) /\ cpc[c] \in {"call", "wait"}
    BY <1>0, <1>2, <2>4 DEF HookInv
  <2>5. CASE /\ eval[c]["daemon"] \in {"decided", "duplicate"}
             /\ cpc' = [cpc EXCEPT ![c] = "done"] /\ answer' = [answer EXCEPT ![c] = eval[c]["daemon"]]
             /\ UNCHANGED <<eval, marker, lapsed>>
    BY <1>0, <1>3, <2>3, <2>5 DEF HookInv
  <2>6. CASE /\ eval[c]["inline"] \in {"decided", "duplicate", "threw"}
             /\ cpc' = [cpc EXCEPT ![c] = "done"] /\ answer' = [answer EXCEPT ![c] = eval[c]["inline"]]
             /\ UNCHANGED <<eval, marker, lapsed>>
    BY <1>0, <1>3, <2>3, <2>6 DEF HookInv
  <2> QED
    BY <2>1, <2>2, <2>4, <2>5, <2>6
<1>5. ASSUME NEW c \in Clients, RespondStep(c) PROVE HookInv'
  <2>1. PICK e \in {"refused", FirstStep(c)} : eval' = [eval EXCEPT ![c]["daemon"] = e]
    BY <1>5 DEF RespondStep, Refuse, Accept
  <2>2. eval[c]["daemon"] = "none" /\ UNCHANGED <<answer, lapsed, marker, cpc>>
    BY <1>5 DEF RespondStep, Refuse, Accept, Pending, base
  <2>3. "daemon" \in Sides /\ "inline" \in Sides /\ "inline" # "daemon" /\ e \in EvalSteps
    BY FirstStepType DEF Sides, EvalSteps
  <2>4. (\A h \in Deduped \ lapsed' : MarkerHolds(h)') /\ Traced'
    BY <2>1, <2>2, <2>3, BeginMove
  <2>5. \A x \in Clients : eval'[x]["inline"] = eval[x]["inline"]
    BY <1>0, <2>1, <2>3, EvalStepFacts DEF TypeOK
  <2>6. NotYetInline'
    BY <2>2, <2>5 DEF HookInv, NotYetInline
  <2> QED
    BY <1>0, <2>4, <2>6 DEF HookInv
<1>6. ASSUME NEW c \in Clients, NEW s \in Sides, ClaimStep(c, s) \/ Evaluate(c, s) PROVE HookInv'
  <2>1. (\A h \in Deduped \ lapsed' : MarkerHolds(h)') /\ Traced'
    BY <1>6, ClaimMove
  <2>2. /\ \E e \in EvalSteps : eval' = [eval EXCEPT ![c][s] = e]
        /\ UNCHANGED cpc /\ Running(c, s)
    BY <1>6 DEF ClaimStep, OpenMarker, JudgeMarker, DropMarker, ReopenMarker, ClaimFails, Evaluate,
                EvalStep, EvalSteps, EvalAt, evalUnchanged
  <2>3. \A x \in Clients : x # c \/ s # "inline" => eval'[x]["inline"] = eval[x]["inline"]
    BY <1>0, <2>2, EvalStepFacts DEF TypeOK, Sides
  <2>4. s = "inline" => cpc[c] = "inline"
    BY <2>2 DEF Running
  <2>5. NotYetInline'
    BY <2>2, <2>3, <2>4 DEF HookInv, NotYetInline
  <2> QED
    BY <1>0, <2>1, <2>5 DEF HookInv
<1>7. ASSUME NEW h \in Hooks, Expire(h) PROVE HookInv'
  <2>1. /\ UNCHANGED <<eval, answer, cpc>> /\ lapsed' = lapsed \cup {h}
        /\ marker[h] = "fresh" /\ marker' = [marker EXCEPT ![h] = "expired"]
    BY <1>7 DEF Expire
  <2>2. \A x \in Hooks : x # h => marker'[x] = marker[x]
    BY <1>0, <2>1 DEF TypeOK
  <2>3. ASSUME NEW x \in Deduped \ lapsed' PROVE MarkerHolds(x)'
    <3>1. x \in Hooks /\ x # h /\ MarkerHolds(x)
      BY <2>1, <2>3, HookDaemonAssumption DEF HookInv
    <3> QED
      BY <2>1, <2>2, <3>1 DEF MarkerHolds
  <2>4. NotYetInline'
    BY <2>1 DEF HookInv, NotYetInline
  <2>5. Traced'
    BY <2>1, <2>2 DEF HookInv, Traced, Somewhere
  <2> QED
    BY <1>0, <2>3, <2>4, <2>5 DEF HookInv
<1>8. ASSUME NEW d \in Daemons, DaemonStep(d) PROVE HookInv'
  BY <1>1, <1>8, DaemonFrame DEF clientVars
<1>9. CASE Install \/ UNCHANGED vars
  BY <1>1, <1>9 DEF Install, vars, clientVars, history
<1> QED
  BY <1>4, <1>5, <1>6, <1>7, <1>8, <1>9 DEF Next, DaemonStep

LEMMA HookInvariant == Spec => []HookInv
  BY HookInit, HookStep, PTL DEF Spec

\* For any number of clients, daemons and faults: claimHookInvocation lets a
\* hook with a host identity be evaluated a second time only after its marker
\* had expired or could not be written.
THEOREM EvaluatedOnce == Spec => []RepeatedOnlyAfterExpiry
<1>1. HookInv => RepeatedOnlyAfterExpiry
  <2> SUFFICES ASSUME HookInv, NEW h \in Deduped, h \notin lapsed
               PROVE  ~(Cardinality(Evaluations(h)) > 1)
    BY DEF RepeatedOnlyAfterExpiry
  <2>1. MarkerHolds(h)
    BY DEF HookInv
  <2>2. \A t, u \in Evaluations(h) : t = u
    <3> SUFFICES ASSUME NEW t \in Evaluations(h), NEW u \in Evaluations(h) PROVE t = u
      OBVIOUS
    <3>1. /\ t \in Clients \X Sides /\ HookOf[t[1]] = h /\ Begun(eval[t[1]][t[2]])
          /\ u \in Clients \X Sides /\ HookOf[u[1]] = h /\ Begun(eval[u[1]][u[2]])
      BY DEF Evaluations, Begun
    <3>2. t[1] = u[1] /\ t[2] = u[2]
      BY <2>1, <3>1 DEF MarkerHolds
    <3> QED
      BY <3>1, <3>2
  <2>3. CASE Evaluations(h) = {}
    BY <2>3, FS_EmptySet
  <2>4. CASE Evaluations(h) # {}
    <3>1. PICK t : Evaluations(h) = {t}
      <4>1. PICK t : t \in Evaluations(h)
        BY <2>4
      <4>2. Evaluations(h) = {t}
        BY <2>2, <4>1
      <4> QED
        BY <4>2
    <3>2. Cardinality(Evaluations(h)) = 1
      BY <3>1, FS_Singleton, Zenon
    <3> QED
      BY <3>2
  <2> QED
    BY <2>3, <2>4
<1> QED
  BY <1>1, HookInvariant, PTL

\* For any number of clients, daemons and faults: clients are left without a
\* decision only if an evaluation of their hook was begun; refusals, failed
\* connections and lost races for the marker alone never lose it.
THEOREM DecisionTraced == Spec => []DecisionLostOnlyWithEvaluation
<1>1. HookInv => DecisionLostOnlyWithEvaluation
  <2> SUFFICES ASSUME HookInv, NEW c \in Clients, answer[c] \in {"duplicate", "threw"}
               PROVE  Evaluations(HookOf[c]) # {}
    BY DEF DecisionLostOnlyWithEvaluation
  <2>1. PICK x \in Clients, y \in Sides : HookOf[x] = HookOf[c] /\ Begun(eval[x][y])
    BY DEF HookInv, Traced, Somewhere
  <2>2. <<x, y>> \in Evaluations(HookOf[c])
    BY <2>1 DEF Evaluations, Begun
  <2> QED
    BY <2>2
<1> QED
  BY <1>1, HookInvariant, PTL
=============================================================================
