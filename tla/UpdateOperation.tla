-------------------------- MODULE UpdateOperation --------------------------
(***************************************************************************)
(* `sks update now` and `sks update rollback`: runSksUpdateNowInternal in  *)
(* src/core/update-check.ts with the receipts, the last-install pointer    *)
(* and the rollback authorization of src/core/update/update-operation.ts.  *)
(*                                                                         *)
(* One package is installed globally.  Every operation runs under the      *)
(* update lock (UpdateLock.tla) and keeps a receipt file that it rewrites  *)
(* as its stages complete.  The terminal receipt of a confirmed update is  *)
(* copied to the project's last-install pointer; a rollback is authorized  *)
(* by the pointer, or by a scan of the receipts when the pointer is        *)
(* missing or speaks of other versions.  A process may die between any two *)
(* writes, and a write may fail.  npm runs in a process group of its own    *)
(* and may outlive a killed updater, whose lock is then free.              *)
(*                                                                         *)
(* Not modelled: dry runs, the registry binding, the age limit of receipts *)
(* and the bounds on the directory scan.                                   *)
(***************************************************************************)
EXTENDS Naturals, FiniteSets, Sequences

CONSTANTS
    Procs,       \* processes that run the command
    Projects,    \* project roots
    MaxVersion,  \* versions are 1..MaxVersion, in semver order
    MaxOps,      \* bound: operations that create a receipt
    Nil          \* absence

ASSUME UpdateOperationAssumption ==
    /\ MaxVersion \in Nat \ {0}
    /\ MaxOps \in Nat
    /\ Nil \notin Procs

VARIABLES
    installed,  \* the globally installed version
    receipts,   \* receipt files, in the order they were created
    pointer,    \* update-last-install-<project>.json, or Nil
    holder,     \* owner of the update lock
    op,         \* the operation each process is in
    orphans,    \* npm processes per target version that outlived their updater
    overtaken,  \* history: operations whose version an orphan npm replaced
                \* after they had probed it
    reported,   \* history: updates npm reported as installed
    rolled,     \* history: installs made by rollbacks
    offered     \* history: rollbacks a finished update said are available

vars == <<installed, receipts, pointer, holder, op, orphans, overtaken,
          reported, rolled, offered>>
npm == <<orphans, overtaken>>
history == <<reported, rolled, offered>>

Versions == 1..MaxVersion
Kinds == {"update", "rollback"}

\* global_install stage of a receipt: not begun, recorded as an intent,
\* confirmed (code 0, not timed out), or anything else.
Installs == {"none", "started", "installed", "failed"}

States == {"running", "succeeded", "rolled_back", "failed", "terminal_uncertain"}

Receipts == [kind : Kinds, project : Projects, prev : Versions, to : Versions,
             state : States, install : Installs]

\* A rollback or an installation, as the history variables record it.
Move(R, from, to) == [project |-> R, from |-> from, to |-> to]
Moves == [project : Projects, from : Versions, to : Versions]

\* An install by a rollback, and whether an orphan npm came between the
\* version it probed and the one it replaced.
Undo(R, from, to, late) == [project |-> R, from |-> from, to |-> to, late |-> late]
Undos == [project : Projects, from : Versions, to : Versions, late : BOOLEAN]

\* isTerminalUpdateReceipt
Terminal(r) == r.state \in {"succeeded", "failed", "terminal_uncertain"}

\* confirmedInstallReceiptBindingBlocker: none.
Binding(r, R) ==
    /\ r.kind = "update"
    /\ r.project = R
    /\ Terminal(r)
    /\ r.install = "installed"

VersionsMatch(r, t, c) == r.prev = t /\ r.to = c

\* findRecoverableConfirmedInstallReceipt: the newest receipt that fits.
Scan(t, c, R) ==
    LET fits == {i \in DOMAIN receipts :
                    Binding(receipts[i], R) /\ VersionsMatch(receipts[i], t, c)}
    IN  IF fits = {} THEN 0 ELSE CHOOSE i \in fits : \A j \in fits : j <= i

\* The pointer, its source receipt and the binding agree.
PointerTrusted(R) ==
    /\ receipts[pointer[R].id] = pointer[R].receipt
    /\ Binding(pointer[R].receipt, R)

\* Wrong variant: only the pointer is consulted.
AuthorizeByPointer(t, c, R) ==
    IF pointer[R] # Nil /\ PointerTrusted(R) /\ VersionsMatch(pointer[R].receipt, t, c)
    THEN pointer[R].id ELSE 0

\* authorizeUpdateRollback: the receipt that authorizes going back from c to
\* t in project R, or 0.
Authorize(t, c, R) ==
    IF pointer[R] = Nil THEN Scan(t, c, R)
    ELSE IF ~PointerTrusted(R) THEN 0
    ELSE IF VersionsMatch(pointer[R].receipt, t, c) THEN pointer[R].id
    ELSE Scan(t, c, R)

PointTo(i) == [id |-> i, receipt |-> receipts[i]]

NoOp == [pc |-> "idle", kind |-> "update", project |-> Nil, target |-> 0,
         from |-> 0, authorized |-> FALSE, id |-> 0, memory |-> Nil]

Init ==
    /\ installed = 1
    /\ receipts = <<>>
    /\ pointer = [R \in Projects |-> Nil]
    /\ holder = Nil
    /\ op = [p \in Procs |-> NoOp]
    /\ orphans = [v \in Versions |-> 0]
    /\ overtaken = {}
    /\ reported = {}
    /\ rolled = {}
    /\ offered = {}

---------------------------------------------------------------------------
(* runSksUpdateNow, runSksUpdateRollback: what happens before the lock *)

Start(p, kind, R, v) ==
    /\ op[p].pc = "idle"
    /\ Len(receipts) < MaxOps
    /\ op' = [op EXCEPT ![p] = [NoOp EXCEPT !.pc = "lock", !.kind = kind, !.project = R,
                                            !.target = v, !.from = installed]]
    /\ UNCHANGED <<installed, receipts, pointer, holder, npm, history>>

StartUpdate(p, R, v) == Start(p, "update", R, v)

\* A rollback that is not authorized ends here.
StartRollback(p, R, v) ==
    /\ Authorize(v, installed, R) # 0
    /\ Start(p, "rollback", R, v)

\* acquireUpdateOperationLock; a lock that is held ends the operation.
Lock(p) ==
    /\ op[p].pc = "lock"
    /\ \/ /\ holder = Nil
          /\ holder' = p
          /\ op' = [op EXCEPT ![p].pc = "probe"]
       \/ /\ holder # Nil
          /\ op' = [op EXCEPT ![p] = NoOp]
          /\ UNCHANGED holder
    /\ UNCHANGED <<installed, receipts, pointer, npm, history>>

---------------------------------------------------------------------------
(* Under the lock *)

\* Wrong variant: what was found before the lock still counts.
ProbeStale(p) ==
    /\ op[p].pc = "probe"
    /\ op' = [op EXCEPT ![p].pc = "create", ![p].authorized = op[p].kind = "rollback"]
    /\ overtaken' = overtaken \ {p}
    /\ UNCHANGED <<installed, receipts, pointer, holder, orphans, history>>

\* The installed version is probed again and a rollback authorized again; a
\* receipt found by the scan is written to the pointer, or, when that write
\* fails, does not authorize.
Probe(p) ==
    LET R == op[p].project
        i == Authorize(op[p].target, installed, R)
        repair == i # 0 /\ (pointer[R] = Nil \/ pointer[R].id # i)
    IN  /\ op[p].pc = "probe"
        /\ \E written \in IF op[p].kind = "rollback" /\ repair THEN BOOLEAN ELSE {TRUE} :
               /\ op' = [op EXCEPT ![p].pc = "create", ![p].from = installed,
                                   ![p].authorized = op[p].kind = "rollback" /\ i # 0 /\ written]
               /\ pointer' = IF op[p].kind = "rollback" /\ repair /\ written
                             THEN [pointer EXCEPT ![R] = PointTo(i)] ELSE pointer
        /\ overtaken' = overtaken \ {p}
        /\ UNCHANGED <<installed, receipts, holder, orphans, history>>

\* UpdateOperationRecorder.create: the queued receipt is on disk.
CreateReceipt(p) ==
    LET r == [kind |-> op[p].kind, project |-> op[p].project, prev |-> op[p].from,
              to |-> op[p].target, state |-> "running", install |-> "none"]
    IN  /\ op[p].pc = "create"
        /\ Len(receipts) < MaxOps
        /\ receipts' = Append(receipts, r)
        /\ op' = [op EXCEPT ![p].pc = "gate", ![p].id = Len(receipts) + 1, ![p].memory = r]
        /\ UNCHANGED <<installed, pointer, holder, npm, history>>

\* What the gates before the install allow: no downgrade outside a rollback,
\* and no rollback that is not authorized for the versions found.
MayInstall(o) ==
    IF o.kind = "rollback" THEN o.authorized ELSE o.target > o.from

\* The intent is on disk before npm runs.
Intent(p) ==
    /\ op[p].pc = "gate"
    /\ MayInstall(op[p])
    /\ op' = [op EXCEPT ![p].pc = "install", ![p].memory.install = "started"]
    /\ receipts' = [receipts EXCEPT ![op[p].id].install = "started"]
    /\ UNCHANGED <<installed, pointer, holder, npm, history>>

\* Blocked by a gate, or by the temporary install smoke; already current.
Skip(p) ==
    /\ op[p].pc = "gate"
    /\ \E s \in {"failed"} \cup
                (IF op[p].target = op[p].from /\ op[p].kind = "update"
                 THEN {"succeeded", "terminal_uncertain"} ELSE {}) :
           op' = [op EXCEPT ![p].pc = "terminal", ![p].memory.state = s]
    /\ UNCHANGED <<installed, receipts, pointer, holder, npm, history>>

\* npm install -g.  Success means that npm said so; the version found
\* afterwards may still be the old one, and a failed or timed-out install
\* may have replaced it.  The stage record is queued; whether it reaches
\* the disk before a crash makes no difference to a receipt that is not yet
\* terminal.
Install(p) ==
    LET o == op[p]
        m == Move(o.project, o.from, o.target)
    IN  /\ o.pc = "install"
        /\ \E done \in {"installed", "failed"}, v \in {installed, o.target} :
               /\ installed' = v
               /\ op' = [op EXCEPT ![p].pc = "stages", ![p].memory.install = done]
               /\ receipts' = [receipts EXCEPT ![o.id].install = done]
               /\ reported' = IF o.kind = "update" /\ done = "installed"
                              THEN reported \cup {m} ELSE reported
        /\ rolled' = IF o.kind = "rollback"
                     THEN rolled \cup {Undo(o.project, installed, o.target, p \in overtaken)}
                     ELSE rolled
        /\ UNCHANGED <<pointer, holder, npm, offered>>

\* Doctor, migration receipt, menu bar, verification, snapshot: only what
\* they make of the final state matters here.
Stages(p) ==
    /\ op[p].pc = "stages"
    /\ \E s \in {"failed", "terminal_uncertain"} \cup
                (IF op[p].memory.install # "installed" THEN {}
                 ELSE IF op[p].kind = "rollback" THEN {"rolled_back"} ELSE {"succeeded"}) :
           op' = [op EXCEPT ![p].pc = "terminal", ![p].memory.state = s]
    /\ UNCHANGED <<installed, receipts, pointer, holder, npm, history>>

\* finish, first write: the terminal receipt.
FinishReceipt(p) ==
    /\ op[p].pc = "terminal"
    /\ receipts' = [receipts EXCEPT ![op[p].id] = op[p].memory]
    /\ op' = [op EXCEPT ![p].pc =
                IF Binding(op[p].memory, op[p].project) THEN "pointer" ELSE "latest"]
    /\ UNCHANGED <<installed, pointer, holder, npm, history>>

\* finish, second write: the last-install pointer.
FinishPointer(p) ==
    /\ op[p].pc = "pointer"
    /\ pointer' = [pointer EXCEPT ![op[p].project] = PointTo(op[p].id)]
    /\ op' = [op EXCEPT ![p].pc = "latest"]
    /\ UNCHANGED <<installed, receipts, holder, npm, history>>

\* The pointer cannot be written: the receipt says so.
PointerFails(p) ==
    /\ op[p].pc = "pointer"
    /\ op' = [op EXCEPT ![p].pc = "latest", ![p].memory.state = "terminal_uncertain"]
    /\ receipts' = [receipts EXCEPT ![op[p].id].state = "terminal_uncertain"]
    /\ UNCHANGED <<installed, pointer, holder, npm, history>>

\* operationLock.release in the finally block.
Release(p) ==
    /\ holder' = Nil
    /\ op' = [op EXCEPT ![p] = NoOp]

\* finish, last write: update-latest.json.  The result tells the user
\* whether the update can be rolled back, and the lock is released.
FinishLatest(p) ==
    LET r == op[p].memory
    IN  /\ op[p].pc = "latest"
        /\ offered' = IF /\ r.kind = "update"
                         /\ r.state # "terminal_uncertain"
                         /\ r.install = "installed"
                      THEN offered \cup {Move(r.project, r.to, r.prev)} ELSE offered
        /\ Release(p)
        /\ UNCHANGED <<installed, receipts, pointer, npm, reported, rolled>>

\* A probe or a write that fails throws.  Nothing more is written: there is
\* no receipt yet, or its finish has begun and refuses to run twice.  (What
\* throws in between is finished as "failed": Skip and Stages.)
Throw(p) ==
    /\ op[p].pc \in {"probe", "create", "terminal", "pointer", "latest"}
    /\ Release(p)
    /\ UNCHANGED <<installed, receipts, pointer, npm, history>>

\* The process is killed.  Its lock is free for the next operation, and npm,
\* which runProcess started detached and the lock does not know of, goes on.
\* (A signal that the handlers of fsx.ts relay also kills npm, and so does a
\* power cut: then the orphan never lands.)
Crash(p) ==
    /\ op[p].pc # "idle"
    /\ orphans' = IF op[p].pc = "install" THEN [orphans EXCEPT ![op[p].target] = @ + 1] ELSE orphans
    /\ holder' = IF holder = p THEN Nil ELSE holder
    /\ op' = [op EXCEPT ![p] = NoOp]
    /\ UNCHANGED <<installed, receipts, pointer, overtaken, history>>

\* An npm whose updater is dead puts its version in place, whatever the
\* operations that came after are doing.
OrphanLands(v) ==
    /\ orphans[v] > 0
    /\ installed' = v
    /\ orphans' = [orphans EXCEPT ![v] = @ - 1]
    /\ overtaken' = overtaken \cup {p \in Procs : op[p].pc \in {"create", "gate", "install"}}
    /\ UNCHANGED <<receipts, pointer, holder, op, history>>

Step(p) ==
    \/ Lock(p) \/ Probe(p) \/ CreateReceipt(p)
    \/ Intent(p) \/ Skip(p) \/ Install(p) \/ Stages(p)
    \/ FinishReceipt(p) \/ FinishPointer(p) \/ PointerFails(p) \/ FinishLatest(p)
    \/ Throw(p)

Next ==
    \/ \E p \in Procs :
        \/ \E R \in Projects, v \in Versions : StartUpdate(p, R, v) \/ StartRollback(p, R, v)
        \/ Step(p)
        \/ Crash(p)
    \/ \E v \in Versions : OrphanLands(v)

Spec == Init /\ [][Next]_vars

---------------------------------------------------------------------------
PCs == {"idle", "lock", "probe", "create", "gate", "install", "stages",
        "terminal", "pointer", "latest"}

Ops == [pc : PCs, kind : Kinds, project : Projects \cup {Nil}, target : Versions \cup {0},
        from : Versions \cup {0}, authorized : BOOLEAN, id : Nat,
        memory : Receipts \cup {Nil}]

\* Type correctness.
TypeOK ==
    /\ installed \in Versions
    /\ receipts \in Seq(Receipts)
    /\ pointer \in [Projects -> [id : Nat, receipt : Receipts] \cup {Nil}]
    /\ holder \in Procs \cup {Nil}
    /\ op \in [Procs -> Ops]
    /\ orphans \in [Versions -> Nat]
    /\ overtaken \subseteq Procs
    /\ reported \subseteq Moves
    /\ rolled \subseteq Undos
    /\ offered \subseteq Moves

\* A rollback replaces version c by t only where an update of the same
\* project took t to c, as npm reported: whatever other operations did
\* between the authorization before the lock and the install, and whoever
\* died.  The one exception is named: an npm that outlived a killed updater
\* replaced the version after the rollback had probed it.
RollbackUndoesUpdate ==
    \A m \in rolled : ~m.late => Move(m.project, m.to, m.from) \in reported

\* Without the exception: what the changelog says, "a killed update parent can
\* no longer authorize a competing writer while live owned work remains".
RollbackUndoesUpdateAlways ==
    \A m \in rolled : Move(m.project, m.to, m.from) \in reported

\* Receipts and pointer keep their types, and a rollback takes back a move that
\* runSksUpdateNow reported as installed.
ReceiptInvariant == TypeOK /\ RollbackUndoesUpdate

\* An update that ended with "rollback available" told the truth: while its
\* version is the installed one, the rollback is authorized, however many
\* other operations ran, failed or died since.
OfferedRollbackWorks ==
    \A m \in offered : installed = m.from => Authorize(m.to, m.from, m.project) # 0

\* The installed version goes down only in a rollback, when an npm without
\* an updater lands, or in an install that such an npm overtook.
NoSilentDowngrade ==
    [][installed' < installed =>
          \/ \E p \in Procs : /\ op[p].pc = "install"
                              /\ op[p].kind = "rollback" \/ p \in overtaken
          \/ \E v \in Versions : orphans'[v] < orphans[v]]_vars

\* Without the exceptions: "a global cross-process lock prevents overlapping
\* npm installs [...] and direct `update now` downgrades are rejected"
\* (changelog).
NoDowngradeOutsideRollback ==
    [][installed' < installed =>
          \E p \in Procs : op[p].pc = "install" /\ op[p].kind = "rollback"]_vars

\* The last-install pointer moves to newer installs only ("an exact bounded
\* scan recover that newer install", authorizeUpdateRollback).
PointerMovesForward ==
    [][\A R \in Projects : pointer[R] # Nil => pointer'[R].id >= pointer[R].id]_vars
=============================================================================
