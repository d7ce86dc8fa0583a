----------------------------- MODULE UpdateLock -----------------------------
(***************************************************************************)
(* The lock around `sks update` (acquireUpdateOperationLock and its        *)
(* helpers in src/core/update/update-operation.ts).                        *)
(*                                                                         *)
(* update.lock is published complete, by linking a finished candidate file *)
(* to the path, so it always names its owner.  A lock whose owner is dead  *)
(* is renamed away by a process that first publishes update.lock.recovery; *)
(* a process that has just taken the lock backs off when it sees a live    *)
(* recovery.  Files are removed in two steps: rename to a private name,    *)
(* then look whether the expected file was caught; if not it is linked     *)
(* back, unless the path has been taken meanwhile.                         *)
(*                                                                         *)
(* Every file operation is a step.  A file is its owner's id: the inode    *)
(* and the id are created together and compared together.                  *)
(***************************************************************************)
EXTENDS Naturals, FiniteSets

CONSTANTS
    Procs,     \* processes that run an update
    Gone,      \* a process that died earlier
    MaxCalls,  \* bound: calls of acquireUpdateOperationLock per process
    Left,      \* files the dead process left: subset of Files
    RecovererDies,  \* whether a process may die while its recovery file exists
    Nil        \* no file

Files == {"lock", "recovery"}

ASSUME UpdateLockAssumption ==
    /\ Gone \notin Procs
    /\ MaxCalls \in Nat
    /\ Left \subseteq Files
    /\ RecovererDies \in BOOLEAN
    /\ Nil \notin (Procs \cup {Gone}) \X Nat

VARIABLES
    file,     \* what is at lockPath and at recoveryPath
    pc,       \* the step each process has reached
    attempt,  \* loop counter of acquireUpdateOperationLock
    ids,      \* owner ids drawn so far
    mine,     \* the owner id each process published at each path
    seen,     \* the owner read before a rename
    claim,    \* the file caught by the last rename
    rm        \* the pending removeOwnedLock: path, id and what follows

vars == <<file, pc, attempt, ids, mine, seen, claim, rm>>

\* randomId(24): a process draws a new id for every file it publishes, at
\* most three in a call.
Ids == (Procs \cup {Gone}) \X (0..3 * MaxCalls)
Owner(t) == t[1]
NewId(p) == <<p, ids[p] + 1>>
Alive(p) == p # Gone /\ pc[p] # "dead"

\* ownedLockIsLive: the path holds a file whose owner is alive.
OwnedLockIsLive(f) == file[f] # Nil /\ Alive(Owner(file[f]))

Goto(p, l) == pc' = [pc EXCEPT ![p] = l]

\* Publish a file, or find the path taken.
Link(p, f) ==
    /\ file[f] = Nil
    /\ file' = [file EXCEPT ![f] = NewId(p)]
    /\ mine' = [mine EXCEPT ![p][f] = NewId(p)]
    /\ ids' = [ids EXCEPT ![p] = @ + 1]

\* Enter removeOwnedLock for the file with that id, and go on at next.
Remove(p, f, id, next) ==
    /\ rm' = [rm EXCEPT ![p] = [path |-> f, id |-> id, next |-> next]]
    /\ Goto(p, "rmRead")

NoRm == [path |-> "lock", id |-> Nil, next |-> "idle"]

Init ==
    /\ file = [f \in Files |-> IF f \in Left THEN <<Gone, 0>> ELSE Nil]
    /\ pc = [p \in Procs |-> "idle"]
    /\ attempt = [p \in Procs |-> 0]
    /\ ids = [p \in Procs |-> 0]
    /\ mine = [p \in Procs |-> [f \in Files |-> Nil]]
    /\ seen = [p \in Procs |-> Nil]
    /\ claim = [p \in Procs |-> Nil]
    /\ rm = [p \in Procs |-> NoRm]

---------------------------------------------------------------------------
(* acquireUpdateOperationLock *)

Call(p) ==
    /\ pc[p] = "idle"
    /\ ids[p] <= 3 * (MaxCalls - 1)
    /\ attempt' = [attempt EXCEPT ![p] = 0]
    /\ Goto(p, "checkRecovery")
    /\ UNCHANGED <<file, ids, mine, seen, claim, rm>>

\* A live recovery refuses the call.
CheckRecovery(p) ==
    /\ pc[p] = "checkRecovery"
    /\ Goto(p, IF OwnedLockIsLive("recovery") THEN "idle" ELSE "dropDead")
    /\ UNCHANGED <<file, attempt, ids, mine, seen, claim, rm>>

\* removeDeadOrMalformedOwnedLock: a dead owner's recovery file is removed.
DropDead(p) ==
    /\ pc[p] = "dropDead"
    /\ \/ /\ file["recovery"] # Nil
          /\ ~OwnedLockIsLive("recovery")
          /\ Remove(p, "recovery", file["recovery"], "create")
       \/ /\ file["recovery"] = Nil \/ OwnedLockIsLive("recovery")
          /\ Goto(p, "create")
          /\ UNCHANGED rm
    /\ UNCHANGED <<file, attempt, ids, mine, seen, claim>>

\* createOwnedLockAtomically takes the lock.
Create(p) ==
    /\ pc[p] = "create"
    /\ Link(p, "lock")
    /\ Goto(p, "confirm")
    /\ UNCHANGED <<attempt, seen, claim, rm>>

\* The path is taken: try to recover it once, then give up.
CreateTaken(p) ==
    /\ pc[p] = "create"
    /\ file["lock"] # Nil
    /\ Goto(p, IF attempt[p] = 0 THEN "recover" ELSE "idle")
    /\ attempt' = [attempt EXCEPT ![p] = 1]
    /\ UNCHANGED <<file, ids, mine, seen, claim, rm>>

\* The lock is held unless a recovery is under way.
Confirm(p) ==
    /\ pc[p] = "confirm"
    /\ \/ /\ OwnedLockIsLive("recovery")
          /\ Remove(p, "lock", mine[p]["lock"], "idle")
       \/ /\ ~OwnedLockIsLive("recovery")
          /\ Goto(p, "held")
          /\ UNCHANGED rm
    /\ UNCHANGED <<file, attempt, ids, mine, seen, claim>>

\* Wrong variant: the file is left at its path.
ReleaseForgotten(p) ==
    /\ pc[p] = "held"
    /\ Goto(p, "idle")
    /\ UNCHANGED <<file, attempt, ids, mine, seen, claim, rm>>

\* The release function handed to the caller.
Release(p) ==
    /\ pc[p] = "held"
    /\ Remove(p, "lock", mine[p]["lock"], "idle")
    /\ UNCHANGED <<file, attempt, ids, mine, seen, claim>>

---------------------------------------------------------------------------
(* recoverDeadUpdateOperationLock *)

\* Only one recovery at a time: the second process is refused.
Recover(p) ==
    /\ pc[p] = "recover"
    /\ \/ /\ Link(p, "recovery")
          /\ Goto(p, "judge")
       \/ /\ file["recovery"] # Nil
          /\ Goto(p, "idle")
          /\ UNCHANGED <<file, mine, ids>>
    /\ UNCHANGED <<attempt, seen, claim, rm>>

\* The finally block removes the recovery file on every way out.
EndRecovery(p, next) == Remove(p, "recovery", mine[p]["recovery"], next)

\* Wrong variant: whether the owner is alive is not asked.
JudgeAny(p) ==
    /\ pc[p] = "judge"
    /\ \/ /\ file["lock"] = Nil
          /\ EndRecovery(p, "idle")
          /\ UNCHANGED seen
       \/ /\ file["lock"] # Nil
          /\ seen' = [seen EXCEPT ![p] = file["lock"]]
          /\ Goto(p, "rename")
          /\ UNCHANGED rm
    /\ UNCHANGED <<file, attempt, ids, mine, claim>>

\* Read the owner: gone or alive, nothing to recover.
Judge(p) ==
    /\ pc[p] = "judge"
    /\ \/ /\ file["lock"] = Nil \/ OwnedLockIsLive("lock")
          /\ EndRecovery(p, "idle")
          /\ UNCHANGED seen
       \/ /\ file["lock"] # Nil
          /\ ~OwnedLockIsLive("lock")
          /\ seen' = [seen EXCEPT ![p] = file["lock"]]
          /\ Goto(p, "rename")
          /\ UNCHANGED rm
    /\ UNCHANGED <<file, attempt, ids, mine, claim>>

\* Rename whatever is at the path; rename throws when nothing is.
Rename(p) ==
    /\ pc[p] = "rename"
    /\ \/ /\ file["lock"] = Nil
          /\ EndRecovery(p, "idle")
          /\ UNCHANGED <<file, claim>>
       \/ /\ file["lock"] # Nil
          /\ claim' = [claim EXCEPT ![p] = file["lock"]]
          /\ file' = [file EXCEPT !["lock"] = Nil]
          /\ Goto(p, "settle")
          /\ UNCHANGED rm
    /\ UNCHANGED <<attempt, ids, mine, seen>>

\* restoreClaimNoReplace: link the caught file back, or keep it aside when
\* the path has been taken.
Restore(p, f) ==
    file' = [file EXCEPT ![f] = IF @ = Nil THEN claim[p] ELSE @]

\* The expected file was caught and goes, or it is put back.
Settle(p) ==
    /\ pc[p] = "settle"
    /\ \/ /\ claim[p] = seen[p]
          /\ EndRecovery(p, "create")
          /\ UNCHANGED file
       \/ /\ claim[p] # seen[p]
          /\ Restore(p, "lock")
          /\ EndRecovery(p, "idle")
    /\ claim' = [claim EXCEPT ![p] = Nil]
    /\ seen' = [seen EXCEPT ![p] = Nil]
    /\ UNCHANGED <<attempt, ids, mine>>

---------------------------------------------------------------------------
(* removeOwnedLock *)

Leave(p) ==
    /\ Goto(p, rm[p].next)
    /\ rm' = [rm EXCEPT ![p] = NoRm]

\* Nothing there, or another owner's file: nothing to do.
RmRead(p) ==
    /\ pc[p] = "rmRead"
    /\ \/ file[rm[p].path] = rm[p].id /\ Goto(p, "rmRename") /\ UNCHANGED rm
       \/ file[rm[p].path] # rm[p].id /\ Leave(p)
    /\ UNCHANGED <<file, attempt, ids, mine, seen, claim>>

RmRename(p) ==
    /\ pc[p] = "rmRename"
    /\ \/ /\ file[rm[p].path] = Nil
          /\ Leave(p)
          /\ UNCHANGED <<file, claim>>
       \/ /\ file[rm[p].path] # Nil
          /\ claim' = [claim EXCEPT ![p] = file[rm[p].path]]
          /\ file' = [file EXCEPT ![rm[p].path] = Nil]
          /\ Goto(p, "rmSettle")
          /\ UNCHANGED rm
    /\ UNCHANGED <<attempt, ids, mine, seen>>

RmSettle(p) ==
    /\ pc[p] = "rmSettle"
    /\ \/ claim[p] = rm[p].id /\ UNCHANGED file
       \/ claim[p] # rm[p].id /\ Restore(p, rm[p].path)
    /\ Leave(p)
    /\ claim' = [claim EXCEPT ![p] = Nil]
    /\ UNCHANGED <<attempt, ids, mine, seen>>

\* A process dies; its files stay where they are.
Crash(p) ==
    /\ pc[p] \notin {"idle", "dead"}
    /\ RecovererDies \/ file["recovery"] = Nil \/ file["recovery"] # mine[p]["recovery"]
    /\ Goto(p, "dead")
    /\ UNCHANGED <<file, attempt, ids, mine, seen, claim, rm>>

Step(p) ==
    \/ Call(p) \/ CheckRecovery(p) \/ DropDead(p)
    \/ Create(p) \/ CreateTaken(p) \/ Confirm(p) \/ Release(p)
    \/ Recover(p) \/ Judge(p) \/ Rename(p) \/ Settle(p)
    \/ RmRead(p) \/ RmRename(p) \/ RmSettle(p)
    \/ Crash(p)

Next == \E p \in Procs : Step(p)

Spec == Init /\ [][Next]_vars

---------------------------------------------------------------------------
PCs == {"idle", "checkRecovery", "dropDead", "create", "confirm", "held",
        "recover", "judge", "rename", "settle", "rmRead", "rmRename",
        "rmSettle", "dead"}

\* Type correctness.
TypeOK ==
    /\ file \in [Files -> Ids \cup {Nil}]
    /\ pc \in [Procs -> PCs]
    /\ attempt \in [Procs -> 0..1]
    /\ ids \in [Procs -> 0..3 * MaxCalls]
    /\ mine \in [Procs -> [Files -> Ids \cup {Nil}]]
    /\ seen \in [Procs -> Ids \cup {Nil}]
    /\ claim \in [Procs -> Ids \cup {Nil}]
    /\ rm \in [Procs -> [path : Files, id : Ids \cup {Nil}, next : {"idle", "create"}]]

\* Two updates never run at the same time.
MutualExclusion ==
    \A p, q \in Procs : pc[p] = "held" /\ pc[q] = "held" => p = q

\* The lock file of a running update stays at its path: no recovery of an
\* older owner's lock and no late removal catches it.
HeldLockInPlace ==
    \A p \in Procs : pc[p] = "held" => file["lock"] = mine[p]["lock"]

\* The lock keeps its types, and the file of whoever holds it stays in place.
LockInvariant == TypeOK /\ HeldLockInPlace

\* update.lock never outlives the call that published it while its process
\* lives on, where nobody could recover it.
NoLockLeftBehind ==
    \A p \in Procs : pc[p] = "idle" /\ file["lock"] # Nil => Owner(file["lock"]) # p
=============================================================================
