---------------------------- MODULE PatchHandoff ----------------------------
(***************************************************************************)
(* The patch handoff of the agent orchestrator: what happens to the patch  *)
(* envelopes the workers hand back.  runAgentPatchHandoffRuntime           *)
(* (core/agents/agent-orchestrator.ts) queues them, lets the merge         *)
(* coordinator tell conflicting entries from independent ones, applies the *)
(* conflicting ones one after the other (agent-patch-conflict-rebase.ts)   *)
(* and the others in parallel (agent-patch-apply-worker.ts), checks that   *)
(* each can be rolled back, and reports.                                   *)
(*                                                                         *)
(* An entry is its position in the queue.  A file's text is a sequence of  *)
(* fragments: Base is the text the repository had, p is what entry p puts  *)
(* in.  Two paths overlap when they are the same model file.  Envelopes    *)
(* that come from a git worktree take another way and are not modelled.    *)
(***************************************************************************)
EXTENDS Integers, Sequences, FiniteSets, FiniteSetsExt, Functions

CONSTANTS
    NumPatches,     \* envelopes the workers hand back
    NumFiles,       \* files they write
    Existing,       \* the files that are there before
    Kinds,          \* the operations they consist of
    Domains,        \* the sets of envelopes that may share a conflict prediction
    MaxRuns,        \* orchestrator runs of the mission
    Faults,         \* what may go wrong: "crash", or "io", a failing file operation
    MaxFaults       \* how often

(***************************************************************************)
(* What an operation does: a whole-file write, a replacement of a piece of *)
(* the original text, a diff that only adds, or a write to a path agents   *)
(* may not touch.                                                          *)
(***************************************************************************)
OperationKinds == {"write", "replace", "add", "protected"}

ASSUME PatchHandoffAssumption ==
    /\ NumPatches \in Nat \ {0}
    /\ NumFiles \in Nat \ {0}
    /\ Existing \subseteq 1 .. NumFiles
    /\ Kinds \subseteq OperationKinds
    /\ Domains \subseteq SUBSET (1 .. NumPatches) /\ Domains # {}
    /\ MaxRuns \in Nat \ {0}
    /\ Faults \subseteq {"crash", "io"}
    /\ MaxFaults \in Nat

Patches == 1 .. NumPatches
Files == 1 .. NumFiles
Base == 0

Content == [exists : BOOLEAN, text : Seq({Base} \union Patches)]
Missing == [exists |-> FALSE, text |-> <<>>]

Statuses == {"none", "pending", "rejected", "applying", "applied", "verified", "conflicted"}

VARIABLES
    patch,      \* what each entry writes: [paths, kind]
    domain,     \* the entries that carry the same conflict prediction id
    dry,        \* dryRun
    pc,         \* where the handoff stands
    run,        \* how many runs of the mission have begun
    files,      \* the working tree
    base,       \* the working tree when this run began
    status,     \* the queue: a status per entry
    work,       \* the attempts executeAgentPatchConflictRebase has still to make: <<file, entry>>
    at,         \* how far applyAgentPatchEnvelope is with each entry
    left,       \* the files it has still to lock, or to write
    held,       \* the files it has locked
    buf,        \* buffers: the text before and after, of each file it has read
    bad,        \* the entry has violations
    results,    \* applyResults, in the order the attempts ended
    succeeded,  \* succeeded_entry_ids
    failed,     \* failed_entry_ids
    active,     \* activeFileLocks, in memory
    lockFiles,  \* the lock files under agent-patch-locks
    report,     \* the report: none, ok or blocked
    faults,     \* faults so far
    torn,       \* entries of this run that failed after they began to write (history)
    stuck,      \* the locks a failure left behind (history)
    busy        \* the locks an entry was refused for (history)

input == <<patch, domain, dry>>
apply == <<at, left, held, buf, bad, results, active, lockFiles>>
rebase == <<work, succeeded, failed>>
history == <<faults, torn, stuck, busy>>
vars == <<input, pc, run, files, base, status, rebase, apply, report, history>>

Ends == {"done", "threw", "crashed"}

\* The finally block of an apply that returns ok, returns blocked, or throws.
Finally == {"ok", "blocked", "throw"}

NoBuffers == [f \in {} |-> [before |-> Missing, after |-> Missing]]

-----------------------------------------------------------------------------

Init ==
    /\ patch \in [Patches -> [paths : (SUBSET Files) \ {{}}, kind : Kinds]]
    /\ domain \in Domains
    /\ dry \in BOOLEAN
    /\ pc = "enqueue"
    /\ run = 1
    /\ files = [f \in Files |-> IF f \in Existing THEN [exists |-> TRUE, text |-> <<Base>>]
                                                  ELSE Missing]
    /\ base = files
    /\ status = [p \in Patches |-> "none"]
    /\ work = {}
    /\ at = [p \in Patches |-> "idle"]
    /\ left = [p \in Patches |-> {}]
    /\ held = [p \in Patches |-> {}]
    /\ buf = [p \in Patches |-> NoBuffers]
    /\ bad = [p \in Patches |-> FALSE]
    /\ results = <<>>
    /\ succeeded = {}
    /\ failed = {}
    /\ active = {}
    /\ lockFiles = {}
    /\ report = "none"
    /\ faults = 0
    /\ torn = {}
    /\ stuck = {}
    /\ busy = {}

(***************************************************************************)
(* queueStore.enqueue, for each envelope in turn: a violation of the       *)
(* schema or of the quality preflight rejects it.                          *)
(***************************************************************************)
Enqueue ==
    /\ pc = "enqueue"
    /\ LET p == Min({q \in Patches : status[q] = "none"}) IN
         /\ \E s \in {"pending", "rejected"} : status' = [status EXCEPT ![p] = s]
         /\ pc' = IF p = NumPatches THEN "merge" ELSE pc
    /\ UNCHANGED <<input, run, files, base, rebase, apply, report, history>>

-----------------------------------------------------------------------------
(* coordinateAgentPatchMerge *)

Pending == {p \in Patches : status[p] = "pending"}

Writers(f) == {p \in Pending : f \in patch[p].paths}

\* Wrong variant: paths are compared only for envelopes that write whole files.
PathConflictsOfWrites == {c \in Files \X Pending :
                    /\ c[2] \in Writers(c[1]) /\ Cardinality(Writers(c[1])) > 1
                    /\ patch[c[2]].kind = "write"}

(***************************************************************************)
(* mergeConflicts: one serial group for every path with several writers,   *)
(* in the order of the paths; an entry is in the group of each such path.  *)
(***************************************************************************)
PathConflicts == {c \in Files \X Pending :
                    c[2] \in Writers(c[1]) /\ Cardinality(Writers(c[1])) > 1}

(* domainConflicts: entries whose leases carry the same prediction. *)
DomainConflicts == IF Cardinality(Pending \intersect domain) > 1
                   THEN Pending \intersect domain ELSE {}

ProtectedConflicts == {p \in Pending : patch[p].kind = "protected"}

(***************************************************************************)
(* The groups serialRetryAllowed turns down: nothing in them is retried    *)
(* for that group's sake.                                                  *)
(***************************************************************************)
BlockedByPolicy == DomainConflicts \union ProtectedConflicts

InConflict == {c[2] : c \in PathConflicts} \union BlockedByPolicy

(* The order of the attempts: group after group, in each the queue order. *)
NextAttempt ==
    LET f == Min({c[1] : c \in work})
    IN  <<f, Min({p \in Patches : <<f, p>> \in work})>>

Coordinate ==
    /\ pc = "merge"
    /\ pc' = "rebase"
    /\ work' = PathConflicts
    /\ UNCHANGED <<input, run, files, base, status, succeeded, failed, apply, report, history>>

-----------------------------------------------------------------------------
(* applyAgentPatchEnvelope, for an entry of the serial or the parallel part *)

\* A replacement needs the original text it searches for.
Applicable(c, p) == patch[p].kind = "replace" => Base \in Range(c.text)

\* The text an operation makes of a file.
Edited(c, p) ==
    [exists |-> TRUE,
     text |-> CASE patch[p].kind = "write" -> <<p>>
                [] patch[p].kind = "add" -> Append(c.text, p)
                [] OTHER -> [i \in DOMAIN c.text |-> IF c.text[i] = Base THEN p ELSE c.text[i]]]

Starts(S) ==
    /\ at' = [p \in Patches |-> IF p \in S THEN "lock" ELSE at[p]]
    /\ left' = [p \in Patches |-> IF p \in S THEN patch[p].paths ELSE left[p]]
    /\ buf' = [p \in Patches |-> IF p \in S THEN NoBuffers ELSE buf[p]]
    /\ bad' = [p \in Patches |-> IF p \in S THEN FALSE ELSE bad[p]]

\* The next attempt of executeAgentPatchConflictRebase.
StartSerial ==
    /\ pc = "rebase"
    /\ work # {}
    /\ \A p \in Patches : at[p] = "idle"
    /\ Starts({NextAttempt[2]})
    /\ UNCHANGED <<input, pc, run, files, base, status, rebase, held, results, active,
                   lockFiles, report, history>>

\* acquireFileLock: in memory first, then a file created exclusively.
Taken(f) == f \in active \union lockFiles

\* A protected path is a violation before any lock is tried.
Barred(p) ==
    /\ at[p] = "lock" /\ left[p] # {}
    /\ patch[p].kind = "protected"
    /\ left' = [left EXCEPT ![p] = @ \ {Min(@)}]
    /\ bad' = [bad EXCEPT ![p] = TRUE]
    /\ UNCHANGED <<input, pc, run, files, base, status, rebase, at, held, buf, results,
                   active, lockFiles, report, history>>

\* Wrong variant: a busy lock is waited for.
LockBusyWaits(p) == FALSE

\* Somebody holds the file, or a dead run left its lock file: file_lock_busy.
LockBusy(p) ==
    /\ at[p] = "lock" /\ left[p] # {}
    /\ patch[p].kind # "protected"
    /\ LET f == Min(left[p]) IN
         /\ Taken(f)
         /\ left' = [left EXCEPT ![p] = @ \ {f}]
         /\ busy' = busy \union {f}
    /\ bad' = [bad EXCEPT ![p] = TRUE]
    /\ UNCHANGED <<input, pc, run, files, base, status, rebase, at, held, buf, results,
                   active, lockFiles, report, faults, torn, stuck>>

\* The buffers of p once it has read f and worked out its new text.
Buffered(p, f) ==
    [g \in DOMAIN buf[p] \union {f} |->
        IF g = f THEN [before |-> files[f], after |-> Edited(files[f], p)] ELSE buf[p][g]]

\* Lock the next file, read it and work out its new text.
LockFile(p) ==
    /\ at[p] = "lock" /\ left[p] # {}
    /\ patch[p].kind # "protected"
    /\ LET f == Min(left[p]) IN
         /\ ~Taken(f)
         /\ active' = active \union {f}
         /\ lockFiles' = lockFiles \union {f}
         /\ held' = [held EXCEPT ![p] = @ \union {f}]
         /\ left' = [left EXCEPT ![p] = @ \ {f}]
         /\ bad' = [bad EXCEPT ![p] = @ \/ ~Applicable(files[f], p)]
         /\ buf' = [buf EXCEPT ![p] = Buffered(p, f)]
    /\ UNCHANGED <<input, pc, run, files, base, status, rebase, at, results, report, history>>

\* plans: the files whose text changes, or that do not exist yet.
Plans(p) == {f \in DOMAIN buf[p] : buf[p][f].before # buf[p][f].after}

\* Wrong variant: a file that was not there before gets no rollback entry.
ResultOfExisting(p, ok, plans) ==
    [entry |-> p, ok |-> ok,
     undo |-> [f \in {g \in plans : buf[p][g].before.exists} |-> buf[p][f]]]

\* A result of an attempt: what it changed and how to undo it.
Result(p, ok, plans) == [entry |-> p, ok |-> ok, undo |-> [f \in plans |-> buf[p][f]]]

\* Wrong variant: an operation that cannot be done is skipped and the rest applied.
RefusedSkips(p) == FALSE

\* A violation of any operation blocks the whole entry.
Refused(p) == bad[p]

\* Nothing is written: the entry has violations, or it is a dry run.
Settled(p) ==
    /\ at[p] = "lock" /\ left[p] = {}
    /\ Refused(p) \/ dry
    /\ at' = [at EXCEPT ![p] = IF Refused(p) THEN "blocked" ELSE "ok"]
    /\ UNCHANGED <<input, pc, run, files, base, status, rebase, left, held, buf, bad, results,
                   active, lockFiles, report, history>>

StartWrites(p) ==
    /\ at[p] = "lock" /\ left[p] = {}
    /\ ~Refused(p) /\ ~dry
    /\ at' = [at EXCEPT ![p] = "write"]
    /\ left' = [left EXCEPT ![p] = Plans(p)]
    /\ UNCHANGED <<input, pc, run, files, base, status, rebase, held, buf, bad, results,
                   active, lockFiles, report, history>>

WriteFile(p) ==
    /\ at[p] = "write" /\ left[p] # {}
    /\ LET f == Min(left[p]) IN
         /\ files' = [files EXCEPT ![f] = buf[p][f].after]
         /\ left' = [left EXCEPT ![p] = @ \ {f}]
    /\ UNCHANGED <<input, pc, run, base, status, rebase, at, held, buf, bad, results,
                   active, lockFiles, report, history>>

\* Every file is written and the journal says so.
Record(p) ==
    /\ at[p] = "write" /\ left[p] = {}
    /\ at' = [at EXCEPT ![p] = "ok"]
    /\ UNCHANGED <<input, pc, run, files, base, status, rebase, left, held, buf, bad, results,
                   active, lockFiles, report, history>>

\* The finally block gives one lock back, in memory and on disk, and journals it.
ReleaseFile(p) ==
    /\ at[p] \in Finally /\ held[p] # {}
    /\ LET f == Min(held[p]) IN
         /\ active' = active \ {f}
         /\ lockFiles' = lockFiles \ {f}
         /\ held' = [held EXCEPT ![p] = @ \ {f}]
    /\ UNCHANGED <<input, pc, run, files, base, status, rebase, at, left, buf, bad, results,
                   report, history>>

-----------------------------------------------------------------------------
(***************************************************************************)
(* Failures of the file system: every await of applyAgentPatchEnvelope but *)
(* the ones its callees catch can throw, the appends to the journal        *)
(* included.  An entry that fails after it began to write is torn.         *)
(***************************************************************************)

Faulty(kind) == kind \in Faults /\ faults < MaxFaults /\ faults' = faults + 1

\* acquireFileLock swallows it when the lock file cannot be made, or cannot be
\* written; then the file is there and nobody's.
LockFails(p) ==
    /\ Faulty("io")
    /\ at[p] = "lock" /\ left[p] # {}
    /\ patch[p].kind # "protected"
    /\ LET f == Min(left[p]) IN
         /\ ~Taken(f)
         /\ left' = [left EXCEPT ![p] = @ \ {f}]
         /\ \E S \in {{}, {f}} : lockFiles' = lockFiles \union S /\ stuck' = stuck \union S
    /\ bad' = [bad EXCEPT ![p] = TRUE]
    /\ UNCHANGED <<input, pc, run, files, base, status, rebase, at, held, buf, results,
                   active, report, torn, busy>>

\* The journal cannot be appended to before the first lock, or once it is clear that
\* nothing will be written.
SettleFails(p) ==
    /\ Faulty("io")
    /\ at[p] = "lock"
    /\ left[p] = patch[p].paths \/ (left[p] = {} /\ (Refused(p) \/ dry))
    /\ at' = [at EXCEPT ![p] = "throw"]
    /\ UNCHANGED <<input, pc, run, files, base, status, rebase, left, held, buf, bad, results,
                   active, lockFiles, report, torn, stuck, busy>>

\* The file is locked, and then the journal cannot be appended to or the file not read.
ReadFails(p) ==
    /\ Faulty("io")
    /\ at[p] = "lock" /\ left[p] # {}
    /\ patch[p].kind # "protected"
    /\ LET f == Min(left[p]) IN
         /\ ~Taken(f)
         /\ active' = active \union {f}
         /\ lockFiles' = lockFiles \union {f}
         /\ held' = [held EXCEPT ![p] = @ \union {f}]
    /\ at' = [at EXCEPT ![p] = "throw"]
    /\ UNCHANGED <<input, pc, run, files, base, status, rebase, left, buf, bad, results,
                   report, torn, stuck, busy>>

\* fs.writeFile fails: the file is untouched, or already truncated.
WriteFails(p) ==
    /\ Faulty("io")
    /\ at[p] = "write" /\ left[p] # {}
    /\ \/ UNCHANGED files
       \/ files' = [files EXCEPT ![Min(left[p])] = [exists |-> TRUE, text |-> <<>>]]
    /\ at' = [at EXCEPT ![p] = "throw"]
    /\ torn' = torn \union {p}
    /\ UNCHANGED <<input, pc, run, base, status, rebase, left, held, buf, bad, results,
                   active, lockFiles, report, stuck, busy>>

\* Every file is written, and then the journal cannot be appended to.
RecordFails(p) ==
    /\ Faulty("io")
    /\ at[p] = "write" /\ left[p] = {}
    /\ at' = [at EXCEPT ![p] = "throw"]
    /\ torn' = torn \union {p}
    /\ UNCHANGED <<input, pc, run, files, base, status, rebase, left, held, buf, bad, results,
                   active, lockFiles, report, stuck, busy>>

\* releaseFileLock swallows it when the lock file cannot be removed.
RmFails(p) ==
    /\ Faulty("io")
    /\ at[p] \in Finally /\ held[p] # {}
    /\ LET f == Min(held[p]) IN
         /\ active' = active \ {f}
         /\ held' = [held EXCEPT ![p] = @ \ {f}]
         /\ stuck' = stuck \union {f}
    /\ UNCHANGED <<input, pc, run, files, base, status, rebase, at, left, buf, bad, results,
                   lockFiles, report, torn, busy>>

\* What the entry would have returned is lost.
TornBy(p) == IF at[p] = "ok" /\ ~dry THEN {p} ELSE {}

(***************************************************************************)
(* One lock is given back and then the journal cannot be appended to: the  *)
(* loop ends, the other locks stay in memory and on disk, and the          *)
(* exception replaces whatever the apply was returning.                    *)
(***************************************************************************)
ReleaseFails(p) ==
    /\ Faulty("io")
    /\ at[p] \in Finally /\ held[p] # {}
    /\ LET f == Min(held[p]) IN
         /\ active' = active \ {f}
         /\ lockFiles' = lockFiles \ {f}
         /\ stuck' = stuck \union (held[p] \ {f})
    /\ held' = [held EXCEPT ![p] = {}]
    /\ at' = [at EXCEPT ![p] = "throw"]
    /\ torn' = torn \union TornBy(p)
    /\ UNCHANGED <<input, pc, run, files, base, status, rebase, left, buf, bad, results,
                   report, busy>>

\* writeResultArtifact fails; it is returned and not awaited, so the finally block
\* has run when it does.
ArtifactFails(p) ==
    /\ Faulty("io")
    /\ at[p] \in {"ok", "blocked"} /\ held[p] = {}
    /\ at' = [at EXCEPT ![p] = "throw"]
    /\ torn' = torn \union TornBy(p)
    /\ UNCHANGED <<input, pc, run, files, base, status, rebase, left, held, buf, bad, results,
                   active, lockFiles, report, stuck, busy>>

-----------------------------------------------------------------------------
(* The end of an attempt *)

\* Wrong variant: the file must be what it was after the apply, and have been there before.
CanRollBackExisting(r) ==
    \A f \in DOMAIN r.undo : r.undo[f].before.exists /\ files[f].text = r.undo[f].after.text

(***************************************************************************)
(* rollbackAgentPatchApply with dryRun: every file must still hold what    *)
(* the entry put there, unless it was new and is gone.                     *)
(***************************************************************************)
CanRollBack(r) ==
    \A f \in DOMAIN r.undo :
        IF files[f].exists THEN files[f].text = r.undo[f].after.text
                           ELSE ~r.undo[f].before.exists

\* What the caller of the apply is left with: an exception becomes a blocked result.
Outcome(p) == IF at[p] = "ok" THEN Result(p, TRUE, Plans(p)) ELSE Result(p, FALSE, {})

\* The locks have been given back.
Finished(p) == at[p] \in Finally /\ held[p] = {}

(***************************************************************************)
(* One attempt of the serial part ends; a success is checked for rollback  *)
(* at once, while nothing has been applied on top of it.                   *)
(***************************************************************************)
EndSerial(p) ==
    /\ pc = "rebase" /\ Finished(p)
    /\ at' = [at EXCEPT ![p] = "idle"]
    /\ work' = work \ {NextAttempt}
    /\ results' = Append(results, Outcome(p))
    /\ IF Outcome(p).ok /\ CanRollBack(Outcome(p))
       THEN succeeded' = succeeded \union {p} /\ UNCHANGED failed
       ELSE failed' = failed \union {p} /\ UNCHANGED succeeded
    /\ UNCHANGED <<input, pc, run, files, base, status, left, held, buf, bad, active,
                   lockFiles, report, history>>

\* runSerialRebaseRollbackDryRun cannot append to the journal or read a file; nobody
\* catches that, and the handoff throws.
DryRunFails(p) ==
    /\ Faulty("io")
    /\ pc = "rebase" /\ Finished(p) /\ at[p] = "ok"
    /\ pc' = "threw"
    /\ at' = [at EXCEPT ![p] = "idle"]
    /\ UNCHANGED <<input, run, files, base, status, rebase, left, held, buf, bad, results,
                   active, lockFiles, report, torn, stuck, busy>>

-----------------------------------------------------------------------------
(* runAgentPatchHandoffRuntime, after the serial part *)

\* conflictedEntryIds: named by a conflict and never applied.
Unresolved == InConflict \ succeeded

\* The entries left for the parallel part.
Independent == Pending \ (InConflict \union {results[i].entry : i \in DOMAIN results})

\* Unresolved entries are marked conflicted, the applied ones applied.
Divided == [p \in Patches |-> CASE p \in Unresolved -> "conflicted"
                                [] p \in succeeded -> "applied"
                                [] p \in Independent -> "applying"
                                [] OTHER -> status[p]]

\* The marks are made and the independent entries start together.
StartParallel ==
    /\ pc = "rebase"
    /\ work = {}
    /\ \A p \in Patches : at[p] = "idle"
    /\ pc' = "parallel"
    /\ status' = Divided
    /\ Starts(Independent)
    /\ UNCHANGED <<input, run, files, base, rebase, held, results, active, lockFiles,
                   report, history>>

\* markApplied or markConflicted, in memory.
Marks(p) == status' = [status EXCEPT ![p] = IF at[p] = "ok" THEN "applied" ELSE "conflicted"]

EndParallel(p) ==
    /\ pc \in {"parallel", "threw"} /\ Finished(p) /\ at[p] # "throw"
    /\ at' = [at EXCEPT ![p] = "idle"]
    /\ results' = Append(results, Outcome(p))
    /\ Marks(p)
    /\ UNCHANGED <<input, pc, run, files, base, rebase, left, held, buf, bad, active,
                   lockFiles, report, history>>

\* The mark cannot be saved: the entry's promise is rejected.
MarkFails(p) ==
    /\ Faulty("io")
    /\ pc \in {"parallel", "threw"} /\ Finished(p) /\ at[p] # "throw"
    /\ pc' = "threw"
    /\ at' = [at EXCEPT ![p] = "idle"]
    /\ Marks(p)
    /\ UNCHANGED <<input, run, files, base, rebase, left, held, buf, bad, results, active,
                   lockFiles, report, torn, stuck, busy>>

\* The exception of an apply rejects Promise.all; the entry stays "applying", and
\* the others go on.
EndThrow(p) ==
    /\ pc \in {"parallel", "threw"} /\ Finished(p) /\ at[p] = "throw"
    /\ pc' = "threw"
    /\ at' = [at EXCEPT ![p] = "idle"]
    /\ UNCHANGED <<input, run, files, base, status, rebase, left, held, buf, bad, results,
                   active, lockFiles, report, history>>

\* markVerified for every result that is ok.
Verified == [p \in Patches |-> IF \E i \in DOMAIN results : results[i].entry = p /\ results[i].ok
                               THEN "verified" ELSE status[p]]

(***************************************************************************)
(* What the report requires of the model's state: merge.ok, every entry    *)
(* applied, every result ok, every rollback possible.  Serial results were *)
(* checked when they were made.                                            *)
(***************************************************************************)
NoBlockers ==
    /\ Unresolved = {} /\ failed = {} /\ BlockedByPolicy = {}
    /\ \A p \in Patches : Verified[p] \in {"applied", "verified"}
    /\ \A i \in DOMAIN results :
         /\ results[i].ok
         /\ dry \/ results[i].entry \in succeeded \/ CanRollBack(results[i])

(***************************************************************************)
(* Verification, rollback proof and report.  The arbiter, the strategy     *)
(* wiring, the write mode and the journal's summary can only add blockers. *)
(***************************************************************************)
Report ==
    /\ pc = "parallel"
    /\ \A p \in Patches : at[p] = "idle"
    /\ pc' = "done"
    /\ status' = Verified
    /\ report' \in {"blocked"} \union (IF NoBlockers THEN {"ok"} ELSE {})
    /\ UNCHANGED <<input, run, files, base, rebase, apply, history>>

\* The queues the step the handoff is at may leave when it is interrupted between
\* two of its marks.
Interrupted ==
    CASE pc = "enqueue" ->
           {[status EXCEPT ![Min({p \in Patches : status[p] = "none"})] = s] :
              s \in {"none", "pending", "rejected"}}
      [] pc = "rebase" ->
           {[p \in Patches |-> IF p \in S THEN "conflicted" ELSE status[p]] :
              S \in SUBSET Unresolved}
           \union {[p \in Patches |-> CASE p \in Unresolved -> "conflicted"
                                      [] p \in S -> "applied"
                                      [] p \in succeeded -> "applying"
                                      [] OTHER -> status[p]] : S \in SUBSET succeeded}
           \union {Divided}
      [] pc = "parallel" ->
           {[p \in Patches |-> IF p \in S THEN Verified[p] ELSE status[p]] : S \in SUBSET Patches}
      [] OTHER -> {status}

(***************************************************************************)
(* A snapshot, an artifact or the journal of the handoff itself cannot be  *)
(* written: it throws with some of the marks of that step made.            *)
(***************************************************************************)
HandoffFails ==
    /\ Faulty("io")
    /\ pc \in {"enqueue", "merge", "parallel"} \/ (pc = "rebase" /\ work = {})
    /\ \A p \in Patches : at[p] = "idle"
    /\ pc' = "threw"
    /\ status' \in Interrupted
    /\ UNCHANGED <<input, run, files, base, rebase, apply, report, torn, stuck, busy>>

-----------------------------------------------------------------------------

\* The process dies: its memory is gone, its lock files stay.
Crash ==
    /\ Faulty("crash")
    /\ pc \notin {"done", "crashed"}
    /\ pc' = "crashed"
    /\ at' = [p \in Patches |-> "idle"]
    /\ held' = [p \in Patches |-> {}]
    /\ active' = {}
    /\ stuck' = stuck \union lockFiles
    /\ UNCHANGED <<input, run, files, base, status, rebase, left, buf, bad, results,
                   lockFiles, report, torn, busy>>

\* The mission is run again, by the same process or by another one, with the same
\* envelopes and in the tree as it is now.
Rerun ==
    /\ run < MaxRuns
    /\ pc \in Ends /\ \A p \in Patches : at[p] = "idle"
    /\ pc' = "enqueue"
    /\ run' = run + 1
    /\ base' = files
    /\ status' = [p \in Patches |-> "none"]
    /\ results' = <<>>
    /\ succeeded' = {} /\ failed' = {} /\ work' = {}
    /\ active' \in {active, {}}
    /\ report' = "none"
    /\ torn' = {}
    /\ UNCHANGED <<input, files, at, left, held, buf, bad, lockFiles, faults, stuck, busy>>

EntryStep(p) ==
    \/ Barred(p) \/ LockBusy(p) \/ LockFile(p) \/ Settled(p)
    \/ StartWrites(p) \/ WriteFile(p) \/ Record(p)
    \/ ReleaseFile(p) \/ EndSerial(p) \/ EndParallel(p) \/ EndThrow(p)

EntryFault(p) ==
    \/ LockFails(p) \/ SettleFails(p) \/ ReadFails(p) \/ WriteFails(p) \/ RecordFails(p)
    \/ RmFails(p) \/ ReleaseFails(p) \/ ArtifactFails(p) \/ DryRunFails(p) \/ MarkFails(p)

Step == Enqueue \/ Coordinate \/ StartSerial \/ StartParallel \/ Report

Next ==
    \/ Step
    \/ \E p \in Patches : EntryStep(p) \/ EntryFault(p)
    \/ HandoffFails
    \/ Crash
    \/ Rerun

Spec == Init /\ [][Next]_vars

\* The event loop goes on with whatever can go on.
FairSpec == Spec /\ WF_vars(Step) /\ \A p \in Patches : WF_vars(EntryStep(p))

-----------------------------------------------------------------------------
(* Properties *)

TypeOK ==
    /\ patch \in [Patches -> [paths : SUBSET Files, kind : Kinds]]
    /\ domain \subseteq Patches
    /\ dry \in BOOLEAN
    /\ pc \in {"enqueue", "merge", "rebase", "parallel"} \union Ends
    /\ run \in 1 .. MaxRuns
    /\ files \in [Files -> Content] /\ base \in [Files -> Content]
    /\ status \in [Patches -> Statuses]
    /\ work \subseteq Files \X Patches
    /\ at \in [Patches -> {"idle", "lock", "write"} \union Finally]
    /\ left \in [Patches -> SUBSET Files] /\ held \in [Patches -> SUBSET Files]
    /\ \A p \in Patches : DOMAIN buf[p] \subseteq patch[p].paths
    /\ bad \in [Patches -> BOOLEAN]
    /\ \A i \in DOMAIN results : results[i].entry \in Patches
    /\ succeeded \subseteq Patches /\ failed \subseteq Patches
    /\ active \subseteq Files /\ lockFiles \subseteq Files
    /\ stuck \subseteq Files /\ busy \subseteq Files
    /\ report \in {"none", "ok", "blocked"}
    /\ faults \in 0 .. MaxFaults
    /\ torn \subseteq Patches

\* The tree once entry p has been applied whole.
Applied(tree, p) ==
    [f \in Files |-> IF f \in patch[p].paths THEN Edited(tree[f], p) ELSE tree[f]]

\* The files are what the entries of sequence s make of the tree one after the other;
\* an entry that cannot be applied makes the sequence impossible.
Possible(s, tree) ==
    LET trees[i \in 0 .. Len(s)] == IF i = 0 THEN tree ELSE Applied(trees[i - 1], s[i])
    IN  /\ \A i \in DOMAIN s : \A f \in patch[s[i]].paths : Applicable(trees[i - 1][f], s[i])
        /\ trees[Len(s)] = files

Orders == {s \in [Patches -> Patches] : \A p, q \in Patches : s[p] = s[q] => p = q}

AppliedTwice == \E i, j \in DOMAIN results :
                  i # j /\ results[i].entry = results[j].entry /\ results[i].ok /\ results[j].ok

(***************************************************************************)
(* A report that is ok is true of the tree: it is what the entries make of *)
(* it, each applied whole and once, in some order.  The exception is the   *)
(* one the code has: an entry that shares two paths with others is in two  *)
(* serial groups and is applied once for each.                             *)
(***************************************************************************)
OkMeansSerial ==
    report = "ok" /\ ~dry /\ ~AppliedTwice => \E s \in Orders : Possible(s, base)

(***************************************************************************)
(* An entry that ends up rejected or conflicted has left nothing in the    *)
(* tree, although other entries were applied, or failed, around it; a dry  *)
(* run leaves nothing at all.  The exception is an entry that failed after *)
(* it began to write, a failing append to the journal included: it may be  *)
(* marked conflicted with its text in the tree.                            *)
(***************************************************************************)
RefusedLeavesNothing ==
    /\ dry => files = base
    /\ \A p \in Patches \ torn : status[p] \in {"rejected", "conflicted"} =>
         \A f \in Files : p \in Range(files[f].text) => p \in Range(base[f].text)

\* The handoff keeps its types, and what it refused is nowhere in the tree.
HandoffInvariant == TypeOK /\ RefusedLeavesNothing

Undone(tree, r) ==
    [f \in Files |-> IF f \in DOMAIN r.undo THEN r.undo[f].before ELSE tree[f]]

\* The tree once the results of s have been taken back, last first.
UndoAll(tree, s) ==
    LET trees[i \in 0 .. Len(s)] ==
            IF i = 0 THEN tree ELSE Undone(trees[i - 1], s[Len(s) + 1 - i])
    IN  trees[Len(s)]

\* The files of entries that failed after they began to write: their results
\* record no rollback.
Spoiled == UNION {patch[p].paths : p \in torn}

(***************************************************************************)
(* What the results record is enough to undo the handoff: taken back last  *)
(* first they give every file the text the run began with, also after a    *)
(* report that is not ok; all but the files of an entry that failed after  *)
(* it began to write.                                                      *)
(***************************************************************************)
RollbackRestores ==
    pc = "done" /\ ~dry => \A f \in Files \ Spoiled : UndoAll(files, results)[f] = base[f]

(***************************************************************************)
(* The locks of a handoff are all given back when it has ended, also when  *)
(* it threw in the middle of the parallel part; what is left, and what an  *)
(* entry can be refused for, is a lock that a crash, a failing removal or  *)
(* a failing append in the finally block left behind: the coordinator      *)
(* never lets two running entries meet at a file.                          *)
(***************************************************************************)
LocksOnlyFromFailure ==
    /\ busy \subseteq stuck
    /\ pc \in Ends /\ (\A p \in Patches : at[p] = "idle") => active \union lockFiles \subseteq stuck

\* Every handoff ends: no entry waits for a lock, not even for one that a
\* crashed run will never give back.
HandoffEnds == (pc = "enqueue") ~> (pc \in Ends)

\* The test of the serial part says "domain_blocks_by_default": entries whose
\* leases predict a conflict are not applied.
DomainBlocksByDefault ==
    pc = "done" /\ ~dry =>
        \A p \in domain : Cardinality({q \in domain : status[q] # "rejected"}) > 1 =>
            status[p] # "verified"

=============================================================================
