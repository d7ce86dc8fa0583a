-------------------------- MODULE GenerationStore --------------------------
(***************************************************************************)
(* How compiled bytes become the context index that every query reads:     *)
(* src/core/triwiki/context-graph/store (commit, retention, recovery,      *)
(* resolve) driven by compiler/publish-index.ts.                           *)
(*                                                                         *)
(* A publish writes, in this order: the journal (prepared), a temporary    *)
(* index, the journal (indexed), the generation file, its sidecar, the     *)
(* meta mirror, the pointer, the journal (committed, then cleaned); then   *)
(* it removes the temporary index, every generation but current and        *)
(* previous, and the journal.  A process may die between any two of these, *)
(* and a write may fail; a failed publish is abandoned by the same         *)
(* cleanup.  Recovery reads the journal a dead publish left behind.        *)
(*                                                                         *)
(* A generation file is named after the snapshot hash alone, while its     *)
(* header also carries the configuration it was built under: idx maps a    *)
(* hash to that configuration.  The source fingerprint takes part in the   *)
(* same comparisons as the configuration and is not a separate field here. *)
(***************************************************************************)
EXTENDS Naturals, FiniteSets

CONSTANTS
    Procs,      \* processes that publish and recover
    Hashes,     \* snapshot hashes
    Configs,    \* configuration fingerprints
    Nil,        \* absence of a hash or configuration
    Serial,     \* whether publishes run under the caller's state lock
    Faults,     \* subset of {"crash", "io", "damage"}
    MaxFaults   \* bound: how many faults happen

ASSUME GenerationAssumption ==
    /\ Nil \notin Hashes
    /\ Nil \notin Configs
    /\ Serial \in BOOLEAN
    /\ Faults \subseteq {"crash", "io", "damage"}
    /\ MaxFaults \in Nat

VARIABLES
    pointer,  \* current.json
    mirror,   \* context-graph.meta.json
    idx,      \* generations/<hash>.idx: the configuration of the bytes, or Nil
    side,     \* generations/<hash>.meta.json
    journal,  \* context-graph-operation.json
    temps,    \* operations whose temporary index is there and verifies
    pc,       \* step each process has reached
    job,      \* the build a process publishes or expects
    jr,       \* its copy of the journal
    j0,       \* the journal copy that abandon() cleans with
    ptr,      \* the pointer it read last
    todo,     \* generation files its prune has listed
    blind,    \* processes whose last listing of the directory failed
    kind,     \* what the cleanup it is in belongs to
    budget,   \* faults left
    rd        \* one reader: its step, the pointer it read, moves since then

disk == <<pointer, mirror, idx, side, journal, temps>>
local == <<pc, job, jr, j0, ptr, todo, blind, kind>>
vars == <<disk, local, budget, rd>>

\* Pointer and meta carry the same identity.
NoMeta == [hash |-> Nil, cfg |-> Nil, prev |-> Nil]
Metas == {NoMeta} \cup [hash : Hashes, cfg : Configs, prev : Hashes \cup {Nil}]

Builds == [hash : Hashes, cfg : Configs]

\* deriveContextOperationId is a digest of base, target and fingerprints.
Ops == [base : Hashes \cup {Nil}, hash : Hashes, cfg : Configs]

\* extracted and merged are declared in the code and written by no publish.
Rank == [none |-> 0, prepared |-> 1, indexed |-> 4, committed |-> 5, cleaned |-> 6]
Phases == DOMAIN Rank

Journals == [op : Ops \cup {Nil}, phase : Phases]
NoJournal == [op |-> Nil, phase |-> "none"]

Files == {"idx", "meta"} \X Hashes

PCs == {"idle", "journal", "prepare", "stage", "staged", "commit", "current",
        "promote", "rename", "sidecar", "mirror", "publish", "replace",
        "committed", "reread", "clean", "rmtemp", "list", "prune", "rmjournal",
        "discard", "discardJournal", "reconcile"}

Kinds == {"publish", "abandon", "discard", "clear", "finish", "resume"}

TypeOK ==
    /\ pointer \in Metas /\ mirror \in Metas
    /\ idx \in [Hashes -> Configs \cup {Nil}]
    /\ side \in [Hashes -> Metas]
    /\ journal \in Journals
    /\ temps \in SUBSET Ops
    /\ pc \in [Procs -> PCs]
    /\ job \in [Procs -> Builds]
    /\ jr \in [Procs -> Journals] /\ j0 \in [Procs -> Journals]
    /\ ptr \in [Procs -> Metas]
    /\ todo \in [Procs -> SUBSET Files]
    /\ blind \in SUBSET Procs
    /\ kind \in [Procs -> Kinds]
    /\ budget \in 0..MaxFaults
    /\ rd \in [at : {"idle", "meta", "open"}, ptr : Metas, moves : 0..2]

Goto(p, label) == pc' = [pc EXCEPT ![p] = label]

Active(p) == pc[p] # "idle"
Quiet == \A p \in Procs : ~Active(p)

\* assertContextIndexPointerMetaAgreement
Agree(a, b) == a.hash = b.hash /\ a.cfg = b.cfg

OpOf(base, b) == [base |-> base, hash |-> b.hash, cfg |-> b.cfg]

-----------------------------------------------------------------------------
(* beginContextIndexOperation                                              *)

\* Read the pointer: its hash is the base of the operation.
Begin(p) ==
    /\ pc[p] = "idle"
    /\ Serial => Quiet
    /\ \E b \in Builds : job' = [job EXCEPT ![p] = b]
    /\ ptr' = [ptr EXCEPT ![p] = pointer]
    /\ kind' = [kind EXCEPT ![p] = "publish"]
    /\ jr' = [jr EXCEPT ![p] = NoJournal]
    /\ j0' = [j0 EXCEPT ![p] = NoJournal]
    /\ Goto(p, "journal")
    /\ UNCHANGED <<disk, todo, blind, budget, rd>>

\* Read the journal: none, our own operation re-entered, or somebody else's,
\* which is refused with operation_in_flight before anything is written.
ReadJournal(p) ==
    /\ pc[p] = "journal"
    /\ \/ /\ journal = NoJournal
          /\ Goto(p, "prepare")
          /\ UNCHANGED <<jr, j0>>
       \/ /\ journal.op = OpOf(ptr[p].hash, job[p])
          /\ jr' = [jr EXCEPT ![p] = journal]
          /\ j0' = [j0 EXCEPT ![p] = journal]
          /\ Goto(p, "stage")
       \/ /\ journal # NoJournal
          /\ journal.op # OpOf(ptr[p].hash, job[p])
          /\ Goto(p, "idle")
          /\ UNCHANGED <<jr, j0>>
    /\ UNCHANGED <<disk, job, ptr, todo, blind, kind, budget, rd>>

WriteJournal(p, j) ==
    /\ journal' = j
    /\ jr' = [jr EXCEPT ![p] = j]

\* advanceContextOperationPhase on the process's own copy.
Advanced(p, phase) == [jr[p] EXCEPT !.phase = phase]

Prepare(p) ==
    /\ pc[p] = "prepare"
    /\ LET j == [op |-> OpOf(ptr[p].hash, job[p]), phase |-> "prepared"]
       IN  WriteJournal(p, j) /\ j0' = [j0 EXCEPT ![p] = j]
    /\ Goto(p, "stage")
    /\ UNCHANGED <<pointer, mirror, idx, side, temps, job, ptr, todo, blind, kind, budget, rd>>

-----------------------------------------------------------------------------
(* stageContextIndexGeneration and the failure path                        *)

\* abandon(): clean up with the journal begin returned.
Abandon(p) ==
    /\ jr' = [jr EXCEPT ![p] = j0[p]]
    /\ kind' = [kind EXCEPT ![p] = "abandon"]
    /\ Goto(p, "clean")
    /\ UNCHANGED <<disk, job, j0, ptr, todo, blind>>

\* The writer refuses a snapshot with lint errors; staging refuses a journal
\* that has already reached indexed; otherwise the temporary index is written.
Stage(p) ==
    /\ pc[p] = "stage"
    /\ \/ Abandon(p)   \* lint_not_passed
       \/ /\ Rank[jr[p].phase] >= Rank["indexed"]
          /\ Abandon(p)
       \/ /\ Rank[jr[p].phase] < Rank["indexed"]
          /\ temps' = temps \cup {jr[p].op}
          /\ Goto(p, "staged")
          /\ UNCHANGED <<pointer, mirror, idx, side, journal, job, jr, j0, ptr, todo, blind, kind>>
    /\ UNCHANGED <<budget, rd>>

\* Verified from disk before the journal says indexed.
Indexed(p) ==
    /\ pc[p] = "staged"
    /\ \/ /\ jr[p].op \in temps
          /\ WriteJournal(p, Advanced(p, "indexed"))
          /\ Goto(p, "commit")
          /\ UNCHANGED <<pointer, mirror, idx, side, temps, job, j0, ptr, todo, blind, kind>>
       \/ jr[p].op \notin temps /\ Abandon(p)
    /\ UNCHANGED <<budget, rd>>

-----------------------------------------------------------------------------
(* commitContextIndexGeneration: promote, then publish the pointer.        *)

Commit(p) ==
    /\ pc[p] = "commit"
    /\ Goto(p, IF Agree(pointer, job[p]) THEN "current" ELSE "promote")
    /\ UNCHANGED <<disk, job, jr, j0, ptr, todo, blind, kind, budget, rd>>

\* already_current: nothing is replaced, but the mirror has to agree.
AlreadyCurrent(p) ==
    /\ pc[p] = "current"
    /\ \/ /\ Agree(pointer, mirror)
          /\ WriteJournal(p, Advanced(p, "committed"))
          /\ Goto(p, "clean")
          /\ UNCHANGED <<pointer, mirror, idx, side, temps, job, j0, ptr, todo, blind, kind>>
       \/ ~Agree(pointer, mirror) /\ Abandon(p)
    /\ UNCHANGED <<budget, rd>>

\* The first comparison of the pointer with the base of the operation.
Promote(p) ==
    /\ pc[p] = "promote"
    /\ IF jr[p].op \in temps /\ pointer.hash = jr[p].op.base
       THEN /\ ptr' = [ptr EXCEPT ![p] = pointer]
            /\ Goto(p, "rename")
            /\ UNCHANGED <<disk, job, jr, j0, todo, blind, kind>>
       ELSE Abandon(p)
    /\ UNCHANGED <<budget, rd>>

\* renameOrRewrite: the temporary index becomes the generation of its hash,
\* replacing a file of that name.
Rename(p) ==
    /\ pc[p] = "rename"
    /\ \/ /\ jr[p].op \in temps
          /\ idx' = [idx EXCEPT ![jr[p].op.hash] = jr[p].op.cfg]
          /\ temps' = temps \ {jr[p].op}
          /\ Goto(p, "sidecar")
          /\ UNCHANGED <<pointer, mirror, side, journal, job, jr, j0, ptr, todo, blind, kind>>
       \/ jr[p].op \notin temps /\ Abandon(p)
    /\ UNCHANGED <<budget, rd>>

\* The meta, with the pointer that Promote saw as predecessor.
Meta(p) ==
    [hash |-> jr[p].op.hash, cfg |-> jr[p].op.cfg,
     prev |-> IF ptr[p].hash # jr[p].op.hash THEN ptr[p].hash ELSE ptr[p].prev]

Sidecar(p) ==
    /\ pc[p] = "sidecar"
    /\ side' = [side EXCEPT ![jr[p].op.hash] = Meta(p)]
    /\ Goto(p, "mirror")
    /\ UNCHANGED <<pointer, mirror, idx, journal, temps, job, jr, j0, ptr, todo, blind, kind, budget, rd>>

\* Wrong variant: the operation is serialized instead of the meta.
MirrorWritesOperation(p) ==
    /\ pc[p] = "mirror"
    /\ mirror' = jr[p].op
    /\ Goto(p, "publish")
    /\ UNCHANGED <<pointer, idx, side, journal, temps, job, jr, j0, ptr, todo, blind, kind, budget, rd>>

Mirror(p) ==
    /\ pc[p] = "mirror"
    /\ mirror' = Meta(p)
    /\ Goto(p, "publish")
    /\ UNCHANGED <<pointer, idx, side, journal, temps, job, jr, j0, ptr, todo, blind, kind, budget, rd>>

\* Wrong variant: the journal says committed before the pointer has moved.
PublishJournalFirst(p) ==
    /\ pc[p] = "publish"
    /\ IF pointer.hash = jr[p].op.base
       THEN /\ Goto(p, "replace")
            /\ WriteJournal(p, Advanced(p, "committed"))
            /\ UNCHANGED <<pointer, mirror, idx, side, temps, job, j0, ptr, todo, blind, kind>>
       ELSE Abandon(p)
    /\ UNCHANGED <<budget, rd>>

\* The second comparison, then the replace as a step of its own.
Publish(p) ==
    /\ pc[p] = "publish"
    /\ IF pointer.hash = jr[p].op.base
       THEN /\ Goto(p, "replace")
            /\ UNCHANGED <<disk, job, jr, j0, ptr, todo, blind, kind>>
       ELSE Abandon(p)
    /\ UNCHANGED <<budget, rd>>

Replace(p) ==
    /\ pc[p] = "replace"
    /\ pointer' = Meta(p)
    /\ rd' = [rd EXCEPT !.moves = IF rd.at = "idle" \/ @ = 2 THEN @ ELSE @ + 1]
    /\ Goto(p, "committed")
    /\ UNCHANGED <<mirror, idx, side, journal, temps, job, jr, j0, ptr, todo, blind, kind, budget>>

Committed(p) ==
    /\ pc[p] = "committed"
    /\ WriteJournal(p, Advanced(p, "committed"))
    /\ Goto(p, "reread")
    /\ UNCHANGED <<pointer, mirror, idx, side, temps, job, j0, ptr, todo, blind, kind, budget, rd>>

\* The cleanup of a successful commit uses whatever journal is on disk.
Reread(p) ==
    /\ pc[p] = "reread"
    /\ jr' = [jr EXCEPT ![p] = IF journal = NoJournal THEN @ ELSE journal]
    /\ Goto(p, "clean")
    /\ UNCHANGED <<disk, job, j0, ptr, todo, blind, kind, budget, rd>>

-----------------------------------------------------------------------------
(* cleanContextIndexOperation                                              *)

Clean(p) ==
    /\ pc[p] = "clean"
    /\ IF jr[p].phase = "cleaned"
       THEN UNCHANGED <<journal, jr>>
       ELSE WriteJournal(p, Advanced(p, "cleaned"))
    /\ Goto(p, "rmtemp")
    /\ UNCHANGED <<pointer, mirror, idx, side, temps, job, j0, ptr, todo, blind, kind, budget, rd>>

RmTemp(p) ==
    /\ pc[p] = "rmtemp"
    /\ temps' = temps \ {jr[p].op}
    /\ Goto(p, "list")
    /\ UNCHANGED <<pointer, mirror, idx, side, journal, job, jr, j0, ptr, todo, blind, kind, budget, rd>>

Present == {f \in Files : IF f[1] = "idx" THEN idx[f[2]] # Nil ELSE side[f[2]] # NoMeta}

Prunable(keep) == {f \in Present : f[2] \notin keep}

\* Wrong variants of what List lists: only index files; everything but the
\* current generation; everything but what was current when p began.
ListIndexOnly(p) ==
    /\ pc[p] = "list"
    /\ todo' = [todo EXCEPT ![p] =
                  {f \in Prunable({pointer.hash, pointer.prev}) : f[1] = "idx"}]
    /\ blind' = blind \ {p}
    /\ Goto(p, "prune")
    /\ UNCHANGED <<disk, job, jr, j0, ptr, kind, budget, rd>>

ListKeepsOne(p) ==
    /\ pc[p] = "list"
    /\ todo' = [todo EXCEPT ![p] = Prunable({pointer.hash})]
    /\ blind' = blind \ {p}
    /\ Goto(p, "prune")
    /\ UNCHANGED <<disk, job, jr, j0, ptr, kind, budget, rd>>

ListStale(p) ==
    /\ pc[p] = "list"
    /\ todo' = [todo EXCEPT ![p] = Prunable({ptr[p].hash, ptr[p].prev})]
    /\ blind' = blind \ {p}
    /\ Goto(p, "prune")
    /\ UNCHANGED <<disk, job, jr, j0, ptr, kind, budget, rd>>

\* pruneToCurrentPointer: everything but current and previous is listed ...
List(p) ==
    /\ pc[p] = "list"
    /\ todo' = [todo EXCEPT ![p] = Prunable({pointer.hash, pointer.prev})]
    /\ blind' = blind \ {p}
    /\ Goto(p, "prune")
    /\ UNCHANGED <<disk, job, jr, j0, ptr, kind, budget, rd>>

\* ... and removed one file at a time.
Prune(p) ==
    /\ pc[p] = "prune"
    /\ \/ \E f \in todo[p] :
            /\ todo' = [todo EXCEPT ![p] = @ \ {f}]
            /\ \/ f[1] = "idx" /\ idx' = [idx EXCEPT ![f[2]] = Nil] /\ UNCHANGED side
               \/ f[1] = "meta" /\ side' = [side EXCEPT ![f[2]] = NoMeta] /\ UNCHANGED idx
            /\ UNCHANGED pc
       \/ /\ todo[p] = {}
          /\ Goto(p, IF kind[p] = "discard" THEN "reconcile" ELSE "rmjournal")
          /\ UNCHANGED <<todo, idx, side>>
    /\ UNCHANGED <<pointer, mirror, journal, temps, job, jr, j0, ptr, blind, kind, budget, rd>>

RmJournal(p) ==
    /\ pc[p] = "rmjournal"
    /\ journal' = NoJournal
    /\ Goto(p, IF kind[p] \in {"clear", "finish"} THEN "reconcile" ELSE "idle")
    /\ UNCHANGED <<pointer, mirror, idx, side, temps, job, jr, j0, ptr, todo, blind, kind, budget, rd>>

-----------------------------------------------------------------------------
(* recoverContextIndexOperation, for a caller that knows that no compile   *)
(* is running, and which expects build b.                                  *)

\* planContextOperationRecovery, with the proof of the temporary index that
\* resume_index has to earn.
Plan(j, b) ==
    IF j.phase = "committed" THEN "finish"
    ELSE IF j.phase = "cleaned" THEN "clear"
    ELSE IF /\ j.op.hash = b.hash /\ j.op.cfg = b.cfg
            /\ j.phase = "indexed" /\ j.op \in temps
         THEN "resume"
         ELSE "discard"

Recover(p) ==
    /\ Quiet
    /\ \E b \in Builds :
         /\ job' = [job EXCEPT ![p] = b]
         /\ \/ /\ journal = NoJournal
               /\ Goto(p, "reconcile")
               /\ kind' = [kind EXCEPT ![p] = "discard"]
            \/ /\ journal # NoJournal
               /\ kind' = [kind EXCEPT ![p] = Plan(journal, b)]
               /\ Goto(p, CASE Plan(journal, b) = "discard" -> "discard"
                            [] Plan(journal, b) = "resume" -> "reconcile"
                            [] OTHER -> "clean")
    /\ jr' = [jr EXCEPT ![p] = journal]
    /\ j0' = [j0 EXCEPT ![p] = NoJournal]
    /\ ptr' = [ptr EXCEPT ![p] = NoMeta]
    /\ UNCHANGED <<disk, todo, blind, budget, rd>>

Discard(p) ==
    /\ pc[p] = "discard"
    /\ temps' = temps \ {jr[p].op}
    /\ Goto(p, "discardJournal")
    /\ UNCHANGED <<pointer, mirror, idx, side, journal, job, jr, j0, ptr, todo, blind, kind, budget, rd>>

DiscardJournal(p) ==
    /\ pc[p] = "discardJournal"
    /\ journal' = NoJournal
    /\ Goto(p, "list")
    /\ UNCHANGED <<pointer, mirror, idx, side, temps, job, jr, j0, ptr, todo, blind, kind, budget, rd>>

\* Wrong variant: only a missing mirror is restored.
RestoreMissingOnly ==
    IF pointer = NoMeta THEN NoMeta
    ELSE IF mirror # NoMeta THEN mirror
    ELSE side[pointer.hash]

\* reconcileContextIndexMeta: restore the mirror from the sidecar of the
\* pointed generation when it describes another snapshot.
ReconciledMirror ==
    IF pointer = NoMeta THEN NoMeta
    ELSE IF mirror.hash = pointer.hash THEN mirror
    ELSE IF side[pointer.hash].hash = pointer.hash THEN side[pointer.hash]
    ELSE mirror

\* The caller cleans a finished or a resumable operation once more.
Reconcile(p) ==
    /\ pc[p] = "reconcile"
    /\ mirror' = ReconciledMirror
    /\ IF kind[p] \in {"finish", "resume"}
       THEN /\ kind' = [kind EXCEPT ![p] = "abandon"]
            /\ jr' = [jr EXCEPT ![p].phase = IF kind[p] = "finish" THEN "committed" ELSE @]
            /\ Goto(p, "clean")
       ELSE /\ Goto(p, "idle")
            /\ UNCHANGED <<kind, jr>>
    /\ UNCHANGED <<pointer, idx, side, journal, temps, job, j0, ptr, todo, blind, budget, rd>>

-----------------------------------------------------------------------------
(* A query: resolveCurrentContextIndex and openWorkspaceContextIndex.      *)

NoQuery == [at |-> "idle", ptr |-> NoMeta, moves |-> 0]

ReadPointer ==
    /\ rd.at = "idle"
    /\ pointer # NoMeta
    /\ rd' = [at |-> "meta", ptr |-> pointer, moves |-> 0]
    /\ UNCHANGED <<disk, local, budget>>

\* pointer_meta_divergent refuses the query.
ReadMeta ==
    /\ rd.at = "meta"
    /\ rd' = IF Agree(rd.ptr, mirror) THEN [rd EXCEPT !.at = "open"] ELSE NoQuery
    /\ UNCHANGED <<disk, local, budget>>

\* The file is opened and its header compared, or the query is refused.
Open ==
    /\ rd.at = "open"
    /\ rd' = NoQuery
    /\ UNCHANGED <<disk, local, budget>>

-----------------------------------------------------------------------------
(* Faults.                                                                 *)

Spend(f) == f \in Faults /\ budget > 0 /\ budget' = budget - 1

\* The process dies; what it knew is lost.
Crash(p) ==
    /\ Spend("crash")
    /\ Active(p)
    /\ Goto(p, "idle")
    /\ UNCHANGED <<disk, job, jr, j0, ptr, todo, blind, kind, rd>>

\* The file operation p is at throws.  Inside publish's try block that
\* abandons the operation; discarding a temporary index swallows it; begin,
\* recovery and a cleanup that is already an abandon end there.
Fail(p) ==
    /\ Spend("io")
    /\ Active(p)
    /\ IF kind[p] = "publish" /\ pc[p] \notin {"journal", "prepare"}
       THEN Abandon(p)
       ELSE /\ Goto(p, IF pc[p] = "discard" THEN "discardJournal" ELSE "idle")
            /\ UNCHANGED <<disk, job, jr, j0, ptr, todo, blind, kind>>
    /\ UNCHANGED rd

\* Reading the directory fails while p lists it: that is swallowed, nothing
\* is pruned and the cleanup goes on to drop the journal.
ListFails(p) ==
    /\ Spend("io")
    /\ pc[p] = "list"
    /\ todo' = [todo EXCEPT ![p] = {}]
    /\ blind' = blind \cup {p}
    /\ Goto(p, "prune")
    /\ UNCHANGED <<disk, job, jr, j0, ptr, kind, rd>>

\* A temporary index is torn or vanishes.
Damage ==
    /\ Spend("damage")
    /\ \E op \in temps : temps' = temps \ {op}
    /\ UNCHANGED <<pointer, mirror, idx, side, journal, local, rd>>

-----------------------------------------------------------------------------
Init ==
    /\ pointer = NoMeta /\ mirror = NoMeta
    /\ idx = [h \in Hashes |-> Nil]
    /\ side = [h \in Hashes |-> NoMeta]
    /\ journal = NoJournal
    /\ temps = {}
    /\ pc = [p \in Procs |-> "idle"]
    /\ job \in [Procs -> Builds]
    /\ jr = [p \in Procs |-> NoJournal]
    /\ j0 = [p \in Procs |-> NoJournal]
    /\ ptr = [p \in Procs |-> NoMeta]
    /\ todo = [p \in Procs |-> {}]
    /\ blind = {}
    /\ kind = [p \in Procs |-> "publish"]
    /\ budget = MaxFaults
    /\ rd = NoQuery

\* What process p does of itself once it has begun.
Step(p) ==
    \/ ReadJournal(p) \/ Prepare(p) \/ Stage(p) \/ Indexed(p)
    \/ Commit(p) \/ AlreadyCurrent(p) \/ Promote(p) \/ Rename(p) \/ Sidecar(p)
    \/ Mirror(p) \/ Publish(p) \/ Replace(p) \/ Committed(p) \/ Reread(p)
    \/ Clean(p) \/ RmTemp(p) \/ List(p) \/ Prune(p) \/ RmJournal(p)
    \/ Discard(p) \/ DiscardJournal(p) \/ Reconcile(p)

Next ==
    \/ \E p \in Procs : Begin(p) \/ Recover(p) \/ Step(p) \/ Crash(p) \/ Fail(p)
                         \/ ListFails(p)
    \/ ReadPointer \/ ReadMeta \/ Open
    \/ Damage

Spec == Init /\ [][Next]_vars

-----------------------------------------------------------------------------
(* Properties.                                                             *)

Register == INSTANCE IndexRegister
            WITH current <- pointer, stored <- {h \in Hashes : idx[h] # Nil}

\* The store implements the register: the pointer moves in one step from the
\* generation it named to a stored one, records the one it replaced, and
\* retention never takes away either of them.
ImplementsRegister == Register!RegisterSpec

\* A journal that says committed is telling the truth: recovery skips every
\* check for it because "the pointer has been replaced".
CommittedIsPublished ==
    journal.phase = "committed" => Agree(pointer, journal.op)

\* The argument behind it.  Under the caller's lock one process works at a
\* time, so the pointer cannot move between its two comparisons and the
\* replace; the generation is in place before the pointer names it; and a
\* prune lists nothing that current or previous names.
Publishing == {"stage", "staged", "commit", "current", "promote", "rename",
               "sidecar", "mirror", "publish", "replace", "committed"}
Promoted == {"sidecar", "mirror", "publish", "replace"}

OneActive == \A p, q \in Procs : Active(p) /\ Active(q) => p = q

StoreInvariant ==
    /\ OneActive
    /\ \A p \in Procs :
          /\ pc[p] \in Promoted \cup {"rename"} => ptr[p] = pointer
          /\ pc[p] \in Promoted => idx[jr[p].op.hash] # Nil
          /\ pc[p] = "prune" => \A f \in todo[p] : f[2] \notin {pointer.hash, pointer.prev}
    /\ \A h \in Hashes : h \in {pointer.hash, pointer.prev} => idx[h] # Nil

\* A publish in progress has a journal of a real operation.
JournalReal == \A p \in Procs : pc[p] \in Publishing => jr[p].op \in Ops

KeptFiles == {f \in Files : f[2] \in {pointer.hash, pointer.prev}}

\* When a cleanup that could list the directory is about to drop the journal,
\* nothing but current and previous is left of the generations, whatever
\* crashes, abandoned publishes and blind cleanups left there before it.
RetentionHolds ==
    \A p \in Procs \ blind : pc[p] = "rmjournal" => Present \subseteq KeptFiles

\* generation-retention.ts: "Exactly two generations survive a compile", and
\* the journal "is removed only once there is nothing left to finish".  A
\* cleanup that could not list the directory removes it all the same.
TwoGenerationsSurvive ==
    \A p \in Procs : pc[p] = "rmjournal" => Present \subseteq KeptFiles

\* A query that has passed the agreement check can open the generation it
\* resolved although one publish, with its prune, completes under it.
ReaderOutlivesOnePublish ==
    rd.at = "open" /\ rd.moves <= 1 => idx[rd.ptr.hash] # Nil

\* A recovery that ran to its end leaves a mirror that agrees with the
\* pointer, from whatever step the dead process had reached.
RecoveryRestoresMirror ==
    [][\A p \in Procs : Reconcile(p) => pointer = NoMeta \/ Agree(pointer, mirror')]_vars

\* A query gets the index the pointer names, and not a refusal.
Served == Agree(pointer, mirror) /\ pointer # NoMeta /\ idx[pointer.hash] = pointer.cfg

\* publish-index.ts: a failure "leaves the previous generation untouched.
\* Everything before the pointer replace is invisible to a reader, so
\* abandoning only has to drop this operation's own temp artifact and journal".
AbandonLeavesIndexServed ==
    Quiet /\ journal = NoJournal /\ pointer # NoMeta => Served

\* generation-commit.ts: "a crash at any earlier step leaves the previous
\* pointer byte-identical and the previous generation intact".
CurrentIntact == pointer # NoMeta => idx[pointer.hash] = pointer.cfg

\* generation-commit.ts: "Two compilers may run, but the one that started
\* from an older pointer cannot overwrite the newer one".
StaleWriterLoses ==
    [][\A p \in Procs :
          Replace(p) => pointer.hash \in {jr[p].op.base, jr[p].op.hash}]_vars
=============================================================================
