--------------------------- MODULE FileLockProofs ---------------------------
(***************************************************************************)
(* What holds of FileLock for every set of processes and every number of   *)
(* calls: type correctness, and mutual exclusion as long as no process     *)
(* dies or is suspended between two file operations.                       *)
(***************************************************************************)
EXTENDS FileLock, TLAPS

\* The two absent values are neither a directory nor a record.
LEMMA Absent == NoDir \notin Dirs /\ NoRec \notin Records
  BY DEF NoDir, NoRec, Dirs, Records

\* An owner token is well typed.
LEMMA TokenType == ASSUME TypeOK, NEW p \in Procs PROVE Token(p) \in Tokens
  BY DEF TypeOK, Token, Tokens

\* Renaming a record into the directory leaves a directory.
LEMMA PutType ==
  ASSUME TypeOK, dir # NoDir, NEW r \in Records PROVE PutRecord(r) \in Dirs
  BY DEF TypeOK, PutRecord, Dirs

\* ... with the same maker, the new record, and young.
LEMMA PutFields ==
  ASSUME TypeOK, dir # NoDir, NEW r
  PROVE  /\ PutRecord(r) # NoDir
         /\ PutRecord(r).maker = dir.maker
         /\ PutRecord(r).rec = r
         /\ PutRecord(r).old = FALSE
  BY DEF TypeOK, PutRecord, Dirs, NoDir

\* Init and every action keep the variables in their types.
LEMMA TypeInit == Init => TypeOK
  BY FileLockAssumption DEF Init, TypeOK, PCs, ChildStates

LEMMA TypeStep == TypeOK /\ [Next]_vars => TypeOK'
<1> SUFFICES ASSUME TypeOK, [Next]_vars PROVE TypeOK'
  OBVIOUS
<1> USE FileLockAssumption DEF PCs, ChildStates, Goto
<1>call. ASSUME NEW p \in Procs, Call(p) PROVE TypeOK'
  BY <1>call DEF TypeOK, Call
<1>mkdir. ASSUME NEW p \in Procs, Mkdir(p) PROVE TypeOK'
  <2>1. FreshDir(p) \in Dirs
    BY TokenType DEF FreshDir, Dirs
  <2> QED
    BY <1>mkdir, <2>1 DEF TypeOK, Mkdir, NotAcquired
<1>write. ASSUME NEW p \in Procs, WriteOwner(p) PROVE TypeOK'
  <2>1. [owner |-> Token(p), prot |-> FALSE] \in Records
    BY TokenType DEF Records
  <2> QED
    BY <1>write, <2>1, PutType DEF TypeOK, WriteOwner
<1>read. ASSUME NEW p \in Procs, JudgeRecord(p) PROVE TypeOK'
  BY <1>read DEF TypeOK, JudgeRecord, NotAcquired
<1>stat. ASSUME NEW p \in Procs, JudgeMtime(p) PROVE TypeOK'
  BY <1>stat DEF TypeOK, JudgeMtime, NotAcquired
<1>quar. ASSUME NEW p \in Procs, Quarantine(p) PROVE TypeOK'
  BY <1>quar DEF TypeOK, Quarantine, NotAcquired
<1>retry. ASSUME NEW p \in Procs, Retry(p) \/ GiveUp(p) PROVE TypeOK'
  BY <1>retry DEF TypeOK, Retry, GiveUp
<1>beat. ASSUME NEW p \in Procs, Heartbeat(p) PROVE TypeOK'
  <2>1. [rec |-> MyRecord(p), ack |-> FALSE] \in Writes
    BY TokenType DEF MyRecord, Writes, Records
  <2> QED
    BY <1>beat, <2>1 DEF TypeOK, Heartbeat
<1>prot. ASSUME NEW p \in Procs, ProtectPid(p) PROVE TypeOK'
  <2>1. [rec |-> [owner |-> Token(p), prot |-> TRUE], ack |-> TRUE] \in Writes
    BY TokenType DEF Writes, Records
  <2> QED
    BY <1>prot, <2>1 DEF TypeOK, ProtectPid
<1>land. ASSUME NEW p \in Procs, LandWrite(p) PROVE TypeOK'
  <2>1. PICK w \in writes[p] :
           /\ dir # NoDir
           /\ dir' = PutRecord(w.rec)
           /\ writes' = [writes EXCEPT ![p] = @ \ {w}]
           /\ child' = [child EXCEPT ![p] =
                IF w.ack /\ w.rec.owner = Token(p) /\ @ = "live" THEN "safe" ELSE @]
           /\ UNCHANGED <<pc, attempt, calls, mode, expired>>
    BY <1>land DEF LandWrite
  <2>2. w.rec \in Records
    BY DEF TypeOK, Writes
  <2>3. dir' \in Dirs
    BY <2>1, <2>2, PutType DEF TypeOK
  <2> QED
    BY <2>1, <2>3 DEF TypeOK
<1>lose. ASSUME NEW p \in Procs, LoseWrite(p) PROVE TypeOK'
  BY <1>lose DEF TypeOK, LoseWrite
<1>fin. ASSUME NEW p \in Procs, Finish(p) \/ ReadOwner(p) PROVE TypeOK'
  BY <1>fin DEF TypeOK, Finish, ReadOwner
<1>rm. ASSUME NEW p \in Procs, RemoveRecord(p) PROVE TypeOK'
  BY <1>rm DEF TypeOK, RemoveRecord, Dirs
<1>rmdir. ASSUME NEW p \in Procs, RemoveDir(p) PROVE TypeOK'
  BY <1>rmdir DEF TypeOK, RemoveDir
<1>exp. ASSUME NEW p \in Procs, Expire(p) \/ ChildExit(p) PROVE TypeOK'
  BY <1>exp DEF TypeOK, Expire, ChildExit
<1>crash. ASSUME NEW p \in Procs, Crash(p) PROVE TypeOK'
  BY <1>crash DEF TypeOK, Crash
<1>age. ASSUME Age PROVE TypeOK'
  BY <1>age DEF TypeOK, Age, Dirs
<1>stut. ASSUME UNCHANGED vars PROVE TypeOK'
  BY <1>stut DEF TypeOK, vars
<1> QED
  BY <1>call, <1>mkdir, <1>write, <1>read, <1>stat, <1>quar, <1>retry, <1>beat,
     <1>prot, <1>land, <1>lose, <1>fin, <1>rm, <1>rmdir, <1>exp, <1>crash, <1>age,
     <1>stut
  DEF Next, Step, Terminated

\* Every state of the lock protocol is well typed, whatever faults happen.
THEOREM TypeCorrect == Spec => []TypeOK
  BY TypeInit, TypeStep, PTL DEF Spec
-----------------------------------------------------------------------------
(* Mutual exclusion.  MutualExclusion alone is not inductive: it says      *)
(* nothing of the processes that are about to hold, or about to rename the *)
(* directory.  Exclusive adds them.                                        *)

\* Nobody dies, is suspended between two file operations, or fails to write
\* its first owner record.  A release may still fail.
Undisturbed == Faults \cap {"crash", "stall", "writefail"} = {}

LEMMA ExclusiveInit == Init => Exclusive
  BY DEF Init, Exclusive, OwnsDir

\* With nobody dead, a directory with a record is never judged stale.
LEMMA OwnerLives ==
  ASSUME TypeOK, Exclusive, dir # NoDir, dir.rec # NoRec
  PROVE  OwnerHasLivePid(dir.rec)
<1>1. dir.rec \in Records
  BY DEF TypeOK, Dirs
<1>2. dir.rec.owner[1] \in Procs
  BY <1>1 DEF Records, Tokens
<1> QED
  BY <1>2 DEF OwnerHasLivePid, Alive, Exclusive

LEMMA ExclusiveStep ==
  ASSUME Undisturbed, TypeOK, Exclusive, [Next]_vars
  PROVE  Exclusive'
<1> USE DEF Goto, OwnsDir, Token, PCs
<1>call. ASSUME NEW p \in Procs, Call(p) PROVE Exclusive'
  BY <1>call DEF TypeOK, Exclusive, Call
<1>mkdir. ASSUME NEW p \in Procs, Mkdir(p) PROVE Exclusive'
  <2>1. CASE dir = NoDir
    BY <1>mkdir, <2>1 DEF TypeOK, Exclusive, Mkdir, FreshDir, NoDir
  <2>2. CASE dir # NoDir
    BY <1>mkdir, <2>2 DEF TypeOK, Exclusive, Mkdir, NotAcquired
  <2> QED
    BY <2>1, <2>2
<1>write. ASSUME NEW p \in Procs, WriteOwner(p) PROVE Exclusive'
  <2> DEFINE r == [owner |-> Token(p), prot |-> FALSE]
  <2>1. dir # NoDir /\ dir' = PutRecord(r) /\ pc' = [pc EXCEPT ![p] = "hold"]
    BY <1>write DEF Undisturbed, Exclusive, WriteOwner
  <2>2. r # NoRec
    BY DEF NoRec
  <2>3. dir' # NoDir /\ dir'.maker = dir.maker /\ dir'.rec # NoRec /\ ~dir'.old
    BY <2>1, <2>2, PutFields
  <2>4. pc[p] = "write" /\ UNCHANGED calls
    BY <1>write DEF WriteOwner
  <2> QED
    BY <2>1, <2>3, <2>4 DEF TypeOK, Exclusive
<1>read. ASSUME NEW p \in Procs, JudgeRecord(p) PROVE Exclusive'
  BY <1>read, OwnerLives DEF TypeOK, Exclusive, JudgeRecord, NotAcquired
<1>stat. ASSUME NEW p \in Procs, JudgeMtime(p) PROVE Exclusive'
  BY <1>stat DEF TypeOK, Exclusive, JudgeMtime, NotAcquired
<1>quar. ASSUME NEW p \in Procs, Quarantine(p) PROVE Exclusive'
  BY <1>quar DEF Exclusive, Quarantine
<1>retry. ASSUME NEW p \in Procs, Retry(p) \/ GiveUp(p) PROVE Exclusive'
  BY <1>retry DEF TypeOK, Exclusive, Retry, GiveUp
<1>beat. ASSUME NEW p \in Procs, Heartbeat(p) \/ ProtectPid(p) PROVE Exclusive'
  BY <1>beat DEF TypeOK, Exclusive, Heartbeat, ProtectPid
<1>land. ASSUME NEW p \in Procs, LandWrite(p) PROVE Exclusive'
  <2>1. PICK w \in writes[p] : dir # NoDir /\ dir' = PutRecord(w.rec)
    BY <1>land DEF LandWrite
  <2>2. w.rec # NoRec
    BY Absent DEF TypeOK, Writes
  <2>3. dir' # NoDir /\ dir'.maker = dir.maker /\ dir'.rec # NoRec /\ ~dir'.old
    BY <2>1, <2>2, PutFields
  <2>4. UNCHANGED <<pc, calls>>
    BY <1>land DEF LandWrite
  <2> QED
    BY <2>1, <2>3, <2>4 DEF TypeOK, Exclusive
<1>lose. ASSUME NEW p \in Procs, LoseWrite(p) PROVE Exclusive'
  BY <1>lose DEF TypeOK, Exclusive, LoseWrite
<1>fin. ASSUME NEW p \in Procs, Finish(p) \/ ReadOwner(p) PROVE Exclusive'
  BY <1>fin DEF TypeOK, Exclusive, Finish, ReadOwner
<1>rm. ASSUME NEW p \in Procs, RemoveRecord(p) PROVE Exclusive'
  <2>1. dir # NoDir
    BY <1>rm DEF Exclusive, RemoveRecord
  <2>2. CASE UNCHANGED dir
    BY <1>rm, <2>1, <2>2 DEF TypeOK, Exclusive, RemoveRecord
  <2>3. CASE /\ dir' = [dir EXCEPT !.rec = NoRec, !.old = FALSE]
             /\ pc' = [pc EXCEPT ![p] = "relDir"]
    <3>1. dir' # NoDir /\ dir'.maker = dir.maker /\ ~dir'.old
      BY <2>1, <2>3 DEF TypeOK, Dirs, NoDir
    <3> QED
      BY <1>rm, <2>1, <2>3, <3>1 DEF TypeOK, Exclusive, RemoveRecord
  <2> QED
    BY <1>rm, <2>2, <2>3 DEF RemoveRecord
<1>rmdir. ASSUME NEW p \in Procs, RemoveDir(p) PROVE Exclusive'
  BY <1>rmdir DEF TypeOK, Exclusive, RemoveDir, NoDir
<1>exp. ASSUME NEW p \in Procs, Expire(p) \/ ChildExit(p) PROVE Exclusive'
  BY <1>exp DEF TypeOK, Exclusive, Expire, ChildExit
<1>crash. ASSUME NEW p \in Procs, Crash(p) PROVE Exclusive'
  BY <1>crash DEF Undisturbed, Crash
<1>age. ASSUME Age PROVE Exclusive'
  <2>1. /\ dir' # NoDir /\ dir'.maker = dir.maker /\ dir'.rec = dir.rec
        /\ dir # NoDir /\ UNCHANGED <<pc, calls>>
    BY <1>age DEF TypeOK, Age, Dirs, NoDir
  <2>2. \A p \in Procs : pc[p] \notin {"write", "stat", "relDir"}
    BY <1>age DEF Undisturbed, Age, Transient
  <2> QED
    BY <2>1, <2>2 DEF TypeOK, Exclusive
<1>stut. ASSUME UNCHANGED vars PROVE Exclusive'
  BY <1>stut DEF Exclusive, vars
<1> QED
  BY <1>call, <1>mkdir, <1>write, <1>read, <1>stat, <1>quar, <1>retry, <1>beat,
     <1>land, <1>lose, <1>fin, <1>rm, <1>rmdir, <1>exp, <1>crash, <1>age, <1>stut
  DEF Next, Step, Terminated

\* Two holders would both be the maker of the one directory.
LEMMA ExclusiveImpliesMutex == Exclusive => MutualExclusion
  BY DEF Exclusive, MutualExclusion, Holds, OwnsDir, Token

\* The strengthened invariant holds in every undisturbed execution.
THEOREM Exclusion == Undisturbed => (Spec => []Exclusive)
<1> SUFFICES ASSUME Undisturbed PROVE Spec => []Exclusive
  OBVIOUS
<1>1. Init => Exclusive
  BY ExclusiveInit
<1>2. TypeOK /\ Exclusive /\ [Next]_vars => Exclusive'
  BY ExclusiveStep
<1> QED
  BY <1>1, <1>2, TypeCorrect, PTL DEF Spec

\* withFileLock and tryWithFileLock never run two callbacks at once, for any
\* number of processes and calls, timeouts, late heartbeats and failed
\* releases, as long as nobody dies or is suspended mid-operation.
THEOREM MutexHolds == Undisturbed => (Spec => []MutualExclusion)
  BY Exclusion, ExclusiveImpliesMutex, PTL
=============================================================================
