------------------------------ MODULE FileLock ------------------------------
(***************************************************************************)
(* The cross-process mutex of src/core/locks/file-lock.ts.                 *)
(*                                                                         *)
(* A lock is a directory: whoever creates it with a bare mkdir has the     *)
(* lock and then writes an owner record into it.  While the callback runs, *)
(* a timer rewrites the record (the heartbeat).  A waiter that meets the   *)
(* directory reads the record and, when the heartbeat is old and the       *)
(* recorded pids are dead, renames the directory away and tries once more. *)
(* Release reads the record again and removes the directory unless the     *)
(* record names somebody else.                                             *)
(*                                                                         *)
(* Every await of the code is a step of its own, so any two processes may  *)
(* interleave between the read of a record and the use of what was read.   *)
(* Each member of Procs is one OS process making one call at a time.       *)
(***************************************************************************)
EXTENDS Naturals, FiniteSets

CONSTANTS
    Procs,     \* processes that use the lock
    MaxCalls,  \* bound: calls of withFileLock / tryWithFileLock per process
    Faults     \* what may go wrong, see FaultKinds

\* "crash":     a process dies between any two awaits
\* "stall":     a process is suspended for longer than staleMs between two
\*              adjacent file operations
\* "writefail": writing the first owner record fails (disk full, EMFILE)
\* "rmfail":    removing the lock directory at release fails
FaultKinds == {"crash", "stall", "writefail", "rmfail"}

ASSUME FileLockAssumption ==
    /\ MaxCalls \in Nat
    /\ Faults \subseteq FaultKinds

VARIABLES
    dir,      \* what is at lockPath: NoDir, or the directory
    pc,       \* the await each process has reached
    attempt,  \* loop counter of tryAcquireFileLock
    calls,    \* calls made so far; with the process it is the owner token
    mode,     \* which entry point the current call came through
    expired,  \* whether timeoutMs has passed in the current call
    writes,   \* owner-record writes in flight (heartbeat, protectPid)
    child     \* the process protected by the current call's lease

vars == <<dir, pc, attempt, calls, mode, expired, writes, child>>

Tokens == Procs \X (0..MaxCalls)
Records == [owner : Tokens, prot : BOOLEAN]
NoRec == [missing |-> "owner.json"]
NoDir == [missing |-> "lockPath"]

\* maker: whose mkdir made it (the directory's identity, not stored on disk);
\* rec: owner.json; old: heartbeat_at and mtime are more than staleMs ago.
Dirs == [maker : Tokens, rec : Records \cup {NoRec}, old : BOOLEAN]

\* A write in flight: the record it will rename into place, and whether it
\* is the write protectPid awaits.
Writes == [rec : Records, ack : BOOLEAN]

PCs == {"idle", "mkdir", "write", "read", "stat", "quarantine", "wait",
        "hold", "relRead", "relRm", "relDir", "dead"}

\* "live": protectPid was called; "safe": protectPid has returned.
ChildStates == {"none", "live", "safe", "gone"}

TypeOK ==
    /\ dir \in Dirs \cup {NoDir}
    /\ pc \in [Procs -> PCs]
    /\ attempt \in [Procs -> 0..1]
    /\ calls \in [Procs -> 0..MaxCalls]
    /\ mode \in [Procs -> {"with", "try"}]
    /\ expired \in [Procs -> BOOLEAN]
    /\ writes \in [Procs -> SUBSET Writes]
    /\ child \in [Procs -> ChildStates]

Token(p) == <<p, calls[p]>>
Alive(p) == pc[p] # "dead"
ChildAlive(p) == child[p] \in {"live", "safe"}

-----------------------------------------------------------------------------
(* Acquisition.                                                            *)

Goto(p, label) == pc' = [pc EXCEPT ![p] = label]

\* withFileLock or tryWithFileLock is entered.
Call(p) ==
    /\ pc[p] = "idle"
    /\ calls[p] < MaxCalls
    /\ \E m \in {"with", "try"} : mode' = [mode EXCEPT ![p] = m]
    /\ Goto(p, "mkdir")
    /\ calls' = [calls EXCEPT ![p] = @ + 1]
    /\ attempt' = [attempt EXCEPT ![p] = 0]
    /\ expired' = [expired EXCEPT ![p] = FALSE]
    /\ child' = [child EXCEPT ![p] = "none"]
    /\ UNCHANGED <<dir, writes>>

\* tryAcquireFileLock returned null: withFileLock sleeps before it retries,
\* tryWithFileLock returns { acquired: false }.
NotAcquired(p) == IF mode[p] = "with" THEN "wait" ELSE "idle"

FreshDir(p) == [maker |-> Token(p), rec |-> NoRec, old |-> FALSE]

\* mkdir(lockPath): atomic, and EEXIST when something is there.
Mkdir(p) ==
    /\ pc[p] = "mkdir"
    /\ IF dir = NoDir
       THEN /\ dir' = FreshDir(p)
            /\ Goto(p, "write")
       ELSE /\ Goto(p, IF attempt[p] = 0 THEN "read" ELSE NotAcquired(p))
            /\ UNCHANGED dir
    /\ UNCHANGED <<attempt, calls, mode, expired, writes, child>>

\* An owner record renamed into the directory at lockPath, whoever made it:
\* the path is all the writer knows.  The write bumps the directory's mtime.
PutRecord(r) == [dir EXCEPT !.rec = r, !.old = FALSE]

\* writeOwnerFile of a fresh acquisition; an error other than EEXIST is
\* rethrown to the caller, with the directory left as it is.
WriteOwner(p) ==
    /\ pc[p] = "write"
    /\ \/ /\ dir # NoDir
          /\ dir' = PutRecord([owner |-> Token(p), prot |-> FALSE])
          /\ Goto(p, "hold")
       \/ /\ dir = NoDir \/ "writefail" \in Faults
          /\ Goto(p, "idle")
          /\ UNCHANGED dir
    /\ UNCHANGED <<attempt, calls, mode, expired, writes, child>>

\* Wrong variants: no pid is ever seen alive; every pid is.
NoLivePid(r) == FALSE
AnyLivePid(r) == TRUE

\* ownerHasLivePid: the recorded owner, or a protected pid it recorded.
OwnerHasLivePid(r) ==
    LET p == r.owner[1]
    IN  \/ Alive(p)
        \/ r.prot /\ r.owner = Token(p) /\ ChildAlive(p)

\* recoverStaleLock reads the owner record and judges it; a missing record
\* leaves the decision to the directory's mtime.
JudgeRecord(p) ==
    /\ pc[p] = "read"
    /\ Goto(p, IF dir = NoDir \/ dir.rec = NoRec
               THEN "stat"
               ELSE IF dir.old /\ ~OwnerHasLivePid(dir.rec)
                    THEN "quarantine"
                    ELSE NotAcquired(p))
    /\ UNCHANGED <<dir, attempt, calls, mode, expired, writes, child>>

\* isDirMtimeStale: no pid is consulted, and a failing stat means not stale.
JudgeMtime(p) ==
    /\ pc[p] = "stat"
    /\ Goto(p, IF dir # NoDir /\ dir.old THEN "quarantine" ELSE NotAcquired(p))
    /\ UNCHANGED <<dir, attempt, calls, mode, expired, writes, child>>

\* The rename into quarantine takes whatever is at lockPath now; if nothing
\* is, recoverStaleLock returns false.
Quarantine(p) ==
    /\ pc[p] = "quarantine"
    /\ IF dir # NoDir
       THEN /\ dir' = NoDir
            /\ attempt' = [attempt EXCEPT ![p] = 1]
            /\ Goto(p, "mkdir")
       ELSE /\ Goto(p, NotAcquired(p))
            /\ UNCHANGED <<dir, attempt>>
    /\ UNCHANGED <<calls, mode, expired, writes, child>>

\* Wrong variants: the deadline is not looked at before retrying; the counter
\* of the last round is carried into the next.
RetryForever(p) ==
    /\ pc[p] = "wait"
    /\ Goto(p, "mkdir")
    /\ attempt' = [attempt EXCEPT ![p] = 0]
    /\ UNCHANGED <<dir, calls, mode, expired, writes, child>>

RetryCarriesOn(p) ==
    /\ pc[p] = "wait"
    /\ ~expired[p]
    /\ Goto(p, "mkdir")
    /\ attempt' = [attempt EXCEPT ![p] = @ + 1]
    /\ UNCHANGED <<dir, calls, mode, expired, writes, child>>

\* The retry loop of withFileLock: give up once timeoutMs has passed,
\* otherwise sleep and start over.
Retry(p) ==
    /\ pc[p] = "wait"
    /\ ~expired[p]
    /\ Goto(p, "mkdir")
    /\ attempt' = [attempt EXCEPT ![p] = 0]
    /\ UNCHANGED <<dir, calls, mode, expired, writes, child>>

GiveUp(p) ==
    /\ pc[p] = "wait"
    /\ expired[p]
    /\ Goto(p, "idle")
    /\ UNCHANGED <<dir, attempt, calls, mode, expired, writes, child>>

-----------------------------------------------------------------------------
(* Holding.                                                                *)

MyRecord(p) == [owner |-> Token(p), prot |-> child[p] # "none"]

\* The interval fires: the record is put together now and lands later.
Heartbeat(p) ==
    /\ pc[p] = "hold"
    /\ writes' = [writes EXCEPT ![p] = @ \cup {[rec |-> MyRecord(p), ack |-> FALSE]}]
    /\ UNCHANGED <<dir, pc, attempt, calls, mode, expired, child>>

\* lease.protectPid(child): remembered in memory and written out.
ProtectPid(p) ==
    /\ pc[p] = "hold"
    /\ mode[p] = "try"
    /\ child[p] = "none"
    /\ child' = [child EXCEPT ![p] = "live"]
    /\ writes' = [writes EXCEPT ![p] =
                    @ \cup {[rec |-> [owner |-> Token(p), prot |-> TRUE], ack |-> TRUE]}]
    /\ UNCHANGED <<dir, pc, attempt, calls, mode, expired>>

\* A write in flight renames its record into the directory, if there is one.
LandWrite(p) ==
    \E w \in writes[p] :
        /\ dir # NoDir
        /\ dir' = PutRecord(w.rec)
        /\ writes' = [writes EXCEPT ![p] = @ \ {w}]
        /\ child' = [child EXCEPT ![p] =
                       IF w.ack /\ w.rec.owner = Token(p) /\ @ = "live" THEN "safe" ELSE @]
        /\ UNCHANGED <<pc, attempt, calls, mode, expired>>

\* A write fails, for instance because its temporary file went away with the
\* directory it was opened in.  Heartbeat errors are swallowed; when
\* protectPid throws, the spawner kills the child it has kept stopped.
LoseWrite(p) ==
    \E w \in writes[p] :
        /\ writes' = [writes EXCEPT ![p] = @ \ {w}]
        /\ child' = [child EXCEPT ![p] =
                       IF w.ack /\ w.rec.owner = Token(p) /\ @ = "live" THEN "gone" ELSE @]
        /\ UNCHANGED <<dir, pc, attempt, calls, mode, expired>>

\* The callback returns or throws; it has awaited its child by then.
Finish(p) ==
    /\ pc[p] = "hold"
    /\ ~ChildAlive(p)
    /\ Goto(p, "relRead")
    /\ UNCHANGED <<dir, attempt, calls, mode, expired, writes, child>>

-----------------------------------------------------------------------------
(* Release.                                                                *)

\* releaseIfOwned: only a record that names another owner stops the removal.
ReadOwner(p) ==
    /\ pc[p] = "relRead"
    /\ Goto(p, IF dir # NoDir /\ dir.rec # NoRec /\ dir.rec.owner # Token(p)
               THEN "idle"
               ELSE "relRm")
    /\ UNCHANGED <<dir, attempt, calls, mode, expired, writes, child>>

\* rm(lockPath, recursive, force) first unlinks what the directory holds;
\* nothing at the path is no error, and any error is swallowed.
RemoveRecord(p) ==
    /\ pc[p] = "relRm"
    /\ \/ /\ dir # NoDir
          /\ dir' = [dir EXCEPT !.rec = NoRec, !.old = FALSE]
          /\ Goto(p, "relDir")
       \/ /\ dir = NoDir \/ "rmfail" \in Faults
          /\ Goto(p, "idle")
          /\ UNCHANGED dir
    /\ UNCHANGED <<attempt, calls, mode, expired, writes, child>>

\* ... and then the directory, which fails with ENOTEMPTY when a late write
\* has put a record back.
RemoveDir(p) ==
    /\ pc[p] = "relDir"
    /\ dir' = IF dir # NoDir /\ dir.rec = NoRec THEN NoDir ELSE dir
    /\ Goto(p, "idle")
    /\ UNCHANGED <<attempt, calls, mode, expired, writes, child>>

-----------------------------------------------------------------------------
(* The environment: time, children and crashes.                            *)

\* Between these awaits and the next file operation the code does no work.
Transient == {"write", "stat", "relDir"}

\* staleMs pass without a write to the directory.
Age ==
    /\ dir # NoDir
    /\ ~dir.old
    /\ "stall" \in Faults \/ \A p \in Procs : pc[p] \notin Transient
    /\ dir' = [dir EXCEPT !.old = TRUE]
    /\ UNCHANGED <<pc, attempt, calls, mode, expired, writes, child>>

\* timeoutMs pass since withFileLock was entered.
Expire(p) ==
    /\ mode[p] = "with"
    /\ pc[p] \in {"mkdir", "read", "stat", "quarantine", "wait"}
    /\ ~expired[p]
    /\ expired' = [expired EXCEPT ![p] = TRUE]
    /\ UNCHANGED <<dir, pc, attempt, calls, mode, writes, child>>

ChildExit(p) ==
    /\ ChildAlive(p)
    /\ child' = [child EXCEPT ![p] = "gone"]
    /\ UNCHANGED <<dir, pc, attempt, calls, mode, expired, writes>>

\* The process dies with its writes in flight; its child lives on.
Crash(p) ==
    /\ "crash" \in Faults
    /\ Alive(p)
    /\ Goto(p, "dead")
    /\ writes' = [writes EXCEPT ![p] = {}]
    /\ UNCHANGED <<dir, attempt, calls, mode, expired, child>>

\* Every process has used up its calls.
Terminated ==
    /\ \A p \in Procs : pc[p] = "dead" \/ (pc[p] = "idle" /\ calls[p] = MaxCalls)
    /\ UNCHANGED vars

-----------------------------------------------------------------------------
Init ==
    /\ dir = NoDir
    /\ pc = [p \in Procs |-> "idle"]
    /\ attempt = [p \in Procs |-> 0]
    /\ calls = [p \in Procs |-> 0]
    /\ mode = [p \in Procs |-> "with"]
    /\ expired = [p \in Procs |-> FALSE]
    /\ writes = [p \in Procs |-> {}]
    /\ child = [p \in Procs |-> "none"]

\* What process p does of itself once it is in a call.
Step(p) ==
    \/ Mkdir(p)
    \/ WriteOwner(p)
    \/ JudgeRecord(p)
    \/ JudgeMtime(p)
    \/ Quarantine(p)
    \/ Retry(p)
    \/ GiveUp(p)
    \/ Finish(p)
    \/ ReadOwner(p)
    \/ RemoveRecord(p)
    \/ RemoveDir(p)

Next ==
    \/ \E p \in Procs :
          \/ Call(p)
          \/ Step(p)
          \/ Heartbeat(p)
          \/ ProtectPid(p)
          \/ LandWrite(p)
          \/ LoseWrite(p)
          \/ Expire(p)
          \/ ChildExit(p)
          \/ Crash(p)
    \/ Age
    \/ Terminated

Spec == Init /\ [][Next]_vars

\* The event loop of a live process runs its continuations, file writes
\* settle and children end.  Time passes whatever the processes do, so a
\* directory nobody writes to grows old although Age is disabled again and
\* again while a waiter is between its read and its stat: strong fairness.
Fairness ==
    /\ \A p \in Procs :
          /\ WF_vars(Step(p))
          /\ WF_vars(LandWrite(p) \/ LoseWrite(p))
          /\ WF_vars(ChildExit(p))
    /\ SF_vars(Age)

FairSpec == Spec /\ Fairness

-----------------------------------------------------------------------------
(* Properties.                                                             *)

\* Inside the callback of withFileLock / tryWithFileLock.
Holds(p) == pc[p] \in {"hold", "relRead"}

\* At most one live process is inside a callback (file-lock.test.ts: "no two
\* acquirers should ever have held the lock simultaneously").  It rests on
\* mkdir, on the pid check of recoverStaleLock and on releaseIfOwned.
MutualExclusion ==
    \A p, q \in Procs : Holds(p) /\ Holds(q) => p = q

\* What makes it true when nobody dies: a process past mkdir is the maker of
\* the directory that is there, a directory without a record is young and
\* its maker is about to write or remove it, and nobody is about to rename.
OwnsDir(p) == pc[p] \in {"write", "hold", "relRead", "relRm", "relDir"}

Exclusive ==
    /\ \A p \in Procs : OwnsDir(p) => dir # NoDir /\ dir.maker = Token(p)
    /\ dir # NoDir /\ dir.rec = NoRec =>
          /\ ~dir.old
          /\ \E p \in Procs : pc[p] \in {"write", "relDir"} /\ dir.maker = Token(p)
    /\ \A p \in Procs : pc[p] = "stat" /\ dir # NoDir => ~dir.old
    /\ \A p \in Procs : pc[p] # "quarantine" /\ pc[p] # "dead"

\* Once protectPid has returned, the lock is not handed to anybody else while
\* the protected child runs, even after the holder died.
ProtectedChildKeepsLock ==
    \A p, q \in Procs : child[p] = "safe" /\ Holds(q) => p = q

\* The clock reaches every timeout.
TimersFire == \A p \in Procs : WF_vars(Expire(p))

\* Every call ends: withFileLock gives up after timeoutMs, tryWithFileLock
\* never waits, and every callback's release is best effort.
CallEnds ==
    TimersFire => \A p \in Procs : pc[p] # "idle" ~> pc[p] \in {"idle", "dead"}

\* The lock is in the hands of processes that are gone.
Abandoned ==
    /\ dir # NoDir
    /\ ~Alive(dir.maker[1])
    /\ dir.rec = NoRec \/ ~Alive(dir.rec.owner[1])

\* A lock whose holder died does not keep a patient waiter out for ever
\* (file-lock.test.ts: "is reclaimed, not deadlocked forever").
AbandonedReclaimed ==
    \A p \in Procs :
        Abandoned /\ pc[p] = "wait" ~> ~Abandoned \/ pc[p] \in {"idle", "dead"}

\* A release never takes away a directory that another call made
\* (file-lock.test.ts: "release must not delete a lock now owned by someone
\* else").  releaseIfOwned reads the record first and removes later, and also
\* removes when there is no record; a directory is replaced under a live
\* holder only when a third process quarantines it, and then this fails
\* (FileLockRelease.cfg).
ReleaseSparesOthers ==
    [][\A p \in Procs : RemoveDir(p) /\ dir # dir' => dir.maker = Token(p)]_vars
=============================================================================
