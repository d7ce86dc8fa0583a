----------------------- MODULE GenerationStoreProofs -----------------------
(***************************************************************************)
(* For every set of hashes and configurations, with any number of faults:  *)
(* a generation store whose publishes run under the caller's lock          *)
(* implements the register that its header promises.                       *)
(***************************************************************************)
EXTENDS GenerationStore, TLAPS

\* The identity of an operation, read as an Op, and the meta made from it.
LEMMA OpType ==
  ASSUME TypeOK, NEW p \in Procs
  PROVE  OpOf(ptr[p].hash, job[p]) \in Ops
  BY DEF TypeOK, OpOf, Ops, Metas, NoMeta, Builds

LEMMA MetaType ==
  ASSUME TypeOK, NEW p \in Procs, jr[p].op \in Ops
  PROVE  Meta(p) \in Metas
  BY DEF TypeOK, Meta, Metas, NoMeta, Ops

LEMMA AdvancedType ==
  ASSUME TypeOK, NEW p \in Procs, NEW phase \in Phases
  PROVE  Advanced(p, phase) \in Journals /\ Advanced(p, phase).op = jr[p].op
  BY DEF TypeOK, Advanced, Journals

LEMMA JournalWriteType ==
  ASSUME TypeOK, JournalReal, NEW p \in Procs, NEW j \in Journals, WriteJournal(p, j),
         UNCHANGED pc \/ (\E label \in PCs : Goto(p, label)), 
         j.op \in Ops \/ pc'[p] \notin Publishing
  PROVE  /\ journal' \in Journals /\ jr' \in [Procs -> Journals]
         /\ pc' \in [Procs -> PCs] /\ JournalReal'
  BY DEF TypeOK, JournalReal, WriteJournal, Goto

LEMMA PhaseNames == {"none", "prepared", "indexed", "committed", "cleaned"} \subseteq Phases
  BY DEF Phases, Rank

LEMMA NoJournalType == NoJournal \in Journals
  BY PhaseNames DEF NoJournal, Journals

LEMMA NoMetaType == NoMeta \in Metas
  BY DEF NoMeta, Metas

\* abandon() keeps the types, and leaves publishing.
LEMMA AbandonType ==
  ASSUME TypeOK, JournalReal, NEW p \in Procs, Abandon(p), UNCHANGED rd, budget' \in 0..MaxFaults
  PROVE  TypeOK' /\ JournalReal'
  BY DEF TypeOK, JournalReal, Abandon, Goto, disk, PCs, Kinds, Publishing

LEMMA TypeInit == Init => TypeOK /\ JournalReal
  BY GenerationAssumption, NoJournalType, NoMetaType
  DEF Init, TypeOK, JournalReal, PCs, Kinds, Publishing, NoQuery

LEMMA TypeStep == TypeOK /\ JournalReal /\ [Next]_vars => TypeOK' /\ JournalReal'
<1> SUFFICES ASSUME TypeOK, JournalReal, [Next]_vars PROVE TypeOK' /\ JournalReal'
  OBVIOUS
<1> USE DEF Goto, disk, Publishing
<1>begin. ASSUME NEW p \in Procs, Begin(p) PROVE TypeOK' /\ JournalReal'
  BY <1>begin, NoJournalType DEF TypeOK, JournalReal, Begin, PCs, Kinds
<1>journal. ASSUME NEW p \in Procs, ReadJournal(p) PROVE TypeOK' /\ JournalReal'
  BY <1>journal, OpType DEF TypeOK, JournalReal, ReadJournal, PCs
<1>prepare. ASSUME NEW p \in Procs, Prepare(p) PROVE TypeOK' /\ JournalReal'
  <2> DEFINE j == [op |-> OpOf(ptr[p].hash, job[p]), phase |-> "prepared"]
  <2>1. j \in Journals /\ j.op \in Ops
    BY OpType, PhaseNames DEF Journals
  <2> HIDE DEF j
  <2>2. /\ journal' = j /\ jr' = [jr EXCEPT ![p] = j] /\ j0' = [j0 EXCEPT ![p] = j]
        /\ pc' = [pc EXCEPT ![p] = "stage"]
        /\ UNCHANGED <<pointer, mirror, idx, side, temps, job, ptr, todo, blind, kind, budget, rd>>
    BY <1>prepare DEF Prepare, WriteJournal, j
  <2> QED
    BY <2>1, <2>2 DEF TypeOK, JournalReal, PCs
<1>stage. ASSUME NEW p \in Procs, Stage(p) PROVE TypeOK' /\ JournalReal'
  <2>1. CASE Abandon(p)
    BY <1>stage, <2>1, AbandonType DEF Stage, TypeOK
  <2>2. CASE ~Abandon(p)
    BY <1>stage, <2>2 DEF TypeOK, JournalReal, Stage, PCs
  <2> QED
    BY <2>1, <2>2
<1>indexed. ASSUME NEW p \in Procs, Indexed(p) PROVE TypeOK' /\ JournalReal'
  <2>1. CASE Abandon(p)
    BY <1>indexed, <2>1, AbandonType DEF Indexed, TypeOK
  <2>2. CASE ~Abandon(p)
    <3> DEFINE j == Advanced(p, "indexed")
    <3>1. j \in Journals /\ j.op \in Ops
      BY <1>indexed, AdvancedType, PhaseNames DEF Indexed, JournalReal
    <3>2. WriteJournal(p, j) /\ Goto(p, "commit") /\ UNCHANGED <<pointer, mirror, idx, side, temps, job, j0, ptr, todo, blind, kind, budget, rd>>
      BY <1>indexed, <2>2 DEF Indexed
    <3> HIDE DEF j
    <3>3. "commit" \in PCs
      BY DEF PCs
    <3>4. /\ journal' \in Journals /\ jr' \in [Procs -> Journals]
          /\ pc' \in [Procs -> PCs] /\ JournalReal'
      BY <3>1, <3>2, <3>3, JournalWriteType
    <3> QED
      BY <3>2, <3>4 DEF TypeOK
  <2> QED
    BY <2>1, <2>2
<1>commit. ASSUME NEW p \in Procs, Commit(p) PROVE TypeOK' /\ JournalReal'
  BY <1>commit DEF TypeOK, JournalReal, Commit, PCs
<1>current. ASSUME NEW p \in Procs, AlreadyCurrent(p) PROVE TypeOK' /\ JournalReal'
  <2>1. CASE Abandon(p)
    BY <1>current, <2>1, AbandonType DEF AlreadyCurrent, TypeOK
  <2>2. CASE ~Abandon(p)
    <3> DEFINE j == Advanced(p, "committed")
    <3>1. j \in Journals /\ j.op \in Ops
      BY <1>current, AdvancedType, PhaseNames DEF AlreadyCurrent, JournalReal
    <3>2. WriteJournal(p, j) /\ Goto(p, "clean") /\ UNCHANGED <<pointer, mirror, idx, side, temps, job, j0, ptr, todo, blind, kind, budget, rd>>
      BY <1>current, <2>2 DEF AlreadyCurrent
    <3> HIDE DEF j
    <3>3. "clean" \in PCs
      BY DEF PCs
    <3>4. /\ journal' \in Journals /\ jr' \in [Procs -> Journals]
          /\ pc' \in [Procs -> PCs] /\ JournalReal'
      BY <3>1, <3>2, <3>3, JournalWriteType
    <3> QED
      BY <3>2, <3>4 DEF TypeOK
  <2> QED
    BY <2>1, <2>2
<1>promote. ASSUME NEW p \in Procs, Promote(p) PROVE TypeOK' /\ JournalReal'
  <2>1. CASE Abandon(p)
    BY <1>promote, <2>1, AbandonType DEF Promote, TypeOK
  <2>2. CASE ~Abandon(p)
    BY <1>promote, <2>2 DEF TypeOK, JournalReal, Promote, PCs
  <2> QED
    BY <2>1, <2>2
<1>rename. ASSUME NEW p \in Procs, Rename(p) PROVE TypeOK' /\ JournalReal'
  <2>1. CASE Abandon(p)
    BY <1>rename, <2>1, AbandonType DEF Rename, TypeOK
  <2>2. CASE ~Abandon(p)
    <3>1. jr[p].op.cfg \in Configs
      BY <1>rename DEF Rename, JournalReal, Ops
    <3> QED
      BY <1>rename, <2>2, <3>1 DEF TypeOK, JournalReal, Rename, PCs
  <2> QED
    BY <2>1, <2>2
<1>sidecar. ASSUME NEW p \in Procs, Sidecar(p) \/ Mirror(p) \/ Replace(p)
            PROVE  TypeOK' /\ JournalReal'
  <2>1. Meta(p) \in Metas
    BY <1>sidecar, MetaType DEF Sidecar, Mirror, Replace, JournalReal
  <2>2. CASE Sidecar(p)
    BY <2>1, <2>2 DEF TypeOK, JournalReal, Sidecar, PCs
  <2>3. CASE Mirror(p)
    BY <2>1, <2>3 DEF TypeOK, JournalReal, Mirror, PCs
  <2>4. CASE Replace(p)
    <3>1. rd' \in [at : {"idle", "meta", "open"}, ptr : Metas, moves : 0..2]
      BY <2>4 DEF TypeOK, Replace
    <3> QED
      BY <2>1, <2>4, <3>1 DEF TypeOK, JournalReal, Replace, PCs
  <2> QED
    BY <1>sidecar, <2>2, <2>3, <2>4
<1>publish. ASSUME NEW p \in Procs, Publish(p) PROVE TypeOK' /\ JournalReal'
  <2>1. CASE Abandon(p)
    BY <1>publish, <2>1, AbandonType DEF Publish, TypeOK
  <2>2. CASE ~Abandon(p)
    BY <1>publish, <2>2 DEF TypeOK, JournalReal, Publish, PCs
  <2> QED
    BY <2>1, <2>2
<1>committed. ASSUME NEW p \in Procs, Committed(p) PROVE TypeOK' /\ JournalReal'
  <2> DEFINE j == Advanced(p, "committed")
  <2>1. j \in Journals /\ j.op \in Ops
    BY <1>committed, AdvancedType, PhaseNames DEF Committed, JournalReal
  <2>2. WriteJournal(p, j) /\ Goto(p, "reread") /\ UNCHANGED <<pointer, mirror, idx, side, temps, job, j0, ptr, todo, blind, kind, budget, rd>>
    BY <1>committed DEF Committed
  <2> HIDE DEF j
  <2>3. "reread" \in PCs
    BY DEF PCs
  <2>4. /\ journal' \in Journals /\ jr' \in [Procs -> Journals]
        /\ pc' \in [Procs -> PCs] /\ JournalReal'
    BY <2>1, <2>2, <2>3, JournalWriteType
  <2> QED
    BY <2>2, <2>4 DEF TypeOK
<1>reread. ASSUME NEW p \in Procs, Reread(p) PROVE TypeOK' /\ JournalReal'
  BY <1>reread DEF TypeOK, JournalReal, Reread, PCs
<1>clean. ASSUME NEW p \in Procs, Clean(p) PROVE TypeOK' /\ JournalReal'
  <2>1. CASE jr[p].phase = "cleaned"
    BY <1>clean, <2>1 DEF TypeOK, JournalReal, Clean, PCs
  <2>2. CASE jr[p].phase # "cleaned"
    <3> DEFINE j == Advanced(p, "cleaned")
    <3>1. j \in Journals
      BY <1>clean, AdvancedType, PhaseNames
    <3>2. WriteJournal(p, j) /\ Goto(p, "rmtemp") /\ UNCHANGED <<pointer, mirror, idx, side, temps, job, j0, ptr, todo, blind, kind, budget, rd>>
      BY <1>clean, <2>2 DEF Clean
    <3> HIDE DEF j
    <3>3. "rmtemp" \in PCs
      BY DEF PCs
    <3>4. /\ journal' \in Journals /\ jr' \in [Procs -> Journals]
          /\ pc' \in [Procs -> PCs] /\ JournalReal'
      BY <3>1, <3>2, <3>3, JournalWriteType DEF TypeOK
    <3> QED
      BY <3>2, <3>4 DEF TypeOK
  <2> QED
    BY <2>1, <2>2
<1>rmtemp. ASSUME NEW p \in Procs, RmTemp(p) \/ Discard(p) PROVE TypeOK' /\ JournalReal'
  BY <1>rmtemp DEF TypeOK, JournalReal, RmTemp, Discard, PCs
<1>list. ASSUME NEW p \in Procs, List(p) PROVE TypeOK' /\ JournalReal'
  BY <1>list DEF TypeOK, JournalReal, List, Prunable, Present, PCs
<1>blind. ASSUME NEW p \in Procs, ListFails(p) PROVE TypeOK' /\ JournalReal'
  BY <1>blind, GenerationAssumption DEF TypeOK, JournalReal, ListFails, Spend, disk, PCs
<1>prune. ASSUME NEW p \in Procs, Prune(p) PROVE TypeOK' /\ JournalReal'
  BY <1>prune, NoMetaType DEF TypeOK, JournalReal, Prune, Files, PCs
<1>rmjournal. ASSUME NEW p \in Procs, RmJournal(p) \/ DiscardJournal(p)
              PROVE  TypeOK' /\ JournalReal'
  BY <1>rmjournal, NoJournalType DEF TypeOK, JournalReal, RmJournal, DiscardJournal, PCs
<1>recover. ASSUME NEW p \in Procs, Recover(p) PROVE TypeOK' /\ JournalReal'
  BY <1>recover, NoJournalType, NoMetaType
  DEF TypeOK, JournalReal, Recover, Plan, PCs, Kinds
<1>reconcile. ASSUME NEW p \in Procs, Reconcile(p) PROVE TypeOK' /\ JournalReal'
  <2>1. ReconciledMirror \in Metas
    BY NoMetaType DEF ReconciledMirror, TypeOK, Metas, NoMeta
  <2>2. jr' \in [Procs -> Journals]
    <3>1. jr[p] \in Journals /\ "committed" \in Phases
      BY PhaseNames DEF TypeOK
    <3>2. [jr[p] EXCEPT !.phase = IF kind[p] = "finish" THEN "committed" ELSE @] \in Journals
      BY <3>1 DEF Journals
    <3>3. \/ UNCHANGED jr
          \/ jr' = [jr EXCEPT ![p] = [jr[p] EXCEPT !.phase = IF kind[p] = "finish" THEN "committed" ELSE @]]
      BY <1>reconcile DEF Reconcile, TypeOK
    <3> QED
      BY <3>2, <3>3 DEF TypeOK
  <2> QED
    BY <1>reconcile, <2>1, <2>2 DEF TypeOK, JournalReal, Reconcile, PCs, Kinds
<1>query. ASSUME ReadPointer \/ ReadMeta \/ Open PROVE TypeOK' /\ JournalReal'
  <2>1. rd' \in [at : {"idle", "meta", "open"}, ptr : Metas, moves : 0..2]
    BY <1>query, NoMetaType DEF TypeOK, ReadPointer, ReadMeta, Open, NoQuery
  <2> QED
    BY <1>query, <2>1 DEF TypeOK, JournalReal, ReadPointer, ReadMeta, Open, local
<1>crash. ASSUME NEW p \in Procs, Crash(p) PROVE TypeOK' /\ JournalReal'
  BY <1>crash, GenerationAssumption DEF TypeOK, JournalReal, Crash, Spend, PCs
<1>fail. ASSUME NEW p \in Procs, Fail(p) PROVE TypeOK' /\ JournalReal'
  <2>0. budget' \in 0..MaxFaults
    BY <1>fail, GenerationAssumption DEF Fail, Spend, TypeOK
  <2>1. CASE Abandon(p)
    BY <1>fail, <2>0, <2>1, AbandonType DEF Fail
  <2>2. CASE ~Abandon(p)
    BY <1>fail, <2>0, <2>2 DEF TypeOK, JournalReal, Fail, PCs
  <2> QED
    BY <2>1, <2>2
<1>damage. ASSUME Damage PROVE TypeOK' /\ JournalReal'
  BY <1>damage, GenerationAssumption DEF TypeOK, JournalReal, Damage, Spend, local
<1>stut. ASSUME UNCHANGED vars PROVE TypeOK' /\ JournalReal'
  BY <1>stut DEF TypeOK, JournalReal, vars, local
<1> QED
  BY <1>begin, <1>journal, <1>prepare, <1>stage, <1>indexed, <1>commit, <1>current,
     <1>promote, <1>rename, <1>sidecar, <1>publish, <1>committed, <1>reread, <1>clean,
     <1>rmtemp, <1>list, <1>prune, <1>rmjournal, <1>recover, <1>reconcile, <1>query,
     <1>crash, <1>fail, <1>blind, <1>damage, <1>stut
  DEF Next, Step

\* Every state of the store is well typed, and a publish in progress holds
\* the journal of a real operation, however processes interleave or fail.
THEOREM StoreTyped == Spec => [](TypeOK /\ JournalReal)
  BY TypeInit, TypeStep, PTL DEF Spec

-----------------------------------------------------------------------------
(* The argument for a serial store.  One process works at a time; the lemma *)
(* on quiet steps covers every step that neither promotes nor prunes.       *)

LEMMA QuietStep ==
  ASSUME TypeOK, StoreInvariant, NEW p \in Procs,
         \A q \in Procs : q # p => pc[q] = "idle",
         NEW label, label \notin Promoted, label \notin {"rename", "prune"},
         Goto(p, label), UNCHANGED <<pointer, idx>>
  PROVE  StoreInvariant'
<1>1. \A q \in Procs : q # p => pc'[q] = "idle"
  BY DEF TypeOK, Goto
<1>2. pc'[p] = label
  BY DEF TypeOK, Goto
<1> QED
  BY <1>1, <1>2 DEF StoreInvariant, OneActive, Active, Promoted

\* While p works, nobody else does.
LEMMA Alone ==
  ASSUME StoreInvariant, NEW p \in Procs, pc[p] # "idle"
  PROVE  \A q \in Procs : q # p => pc[q] = "idle"
  BY DEF StoreInvariant, OneActive, Active

LEMMA AbandonQuiet ==
  ASSUME TypeOK, StoreInvariant, NEW p \in Procs, pc[p] # "idle", Abandon(p)
  PROVE  StoreInvariant'
<1>1. Goto(p, "clean") /\ UNCHANGED <<pointer, idx>>
  BY DEF Abandon, disk
<1> QED
  BY <1>1, Alone, QuietStep DEF Promoted

LEMMA StoreInit == Init => StoreInvariant
  BY GenerationAssumption DEF Init, StoreInvariant, OneActive, Active, NoMeta, Promoted

LEMMA StoreStep ==
  ASSUME Serial, TypeOK, JournalReal, StoreInvariant, [Next]_vars
  PROVE  StoreInvariant'
<1> USE DEF disk
<1>1. ASSUME NEW p \in Procs, Begin(p) \/ Recover(p) PROVE StoreInvariant'
  <2>1. \A q \in Procs : pc[q] = "idle"
    BY <1>1 DEF Begin, Recover, Quiet, Active
  <2>2. /\ UNCHANGED <<pointer, idx>>
        /\ \E l \in {"journal", "discard", "reconcile", "clean"} : Goto(p, l)
    BY <1>1 DEF Begin, Recover, Plan
  <2> QED
    BY <2>1, <2>2, QuietStep DEF Promoted
<1>2. ASSUME NEW p \in Procs,
             ReadJournal(p) \/ Prepare(p) \/ Stage(p) \/ Indexed(p) \/ Commit(p)
               \/ AlreadyCurrent(p)
      PROVE  StoreInvariant'
  <2>1. pc[p] # "idle"
    BY <1>2 DEF ReadJournal, Prepare, Stage, Indexed, Commit, AlreadyCurrent
  <2>2. CASE Abandon(p)
    BY <2>1, <2>2, AbandonQuiet
  <2>3. CASE ~Abandon(p)
    <3>1. /\ UNCHANGED <<pointer, idx>>
          /\ \E l \in {"prepare", "stage", "idle", "staged", "commit", "current",
                       "promote", "clean"} : Goto(p, l)
      BY <1>2, <2>3 DEF ReadJournal, Prepare, Stage, Indexed, Commit, AlreadyCurrent
    <3> QED
      BY <2>1, <3>1, Alone, QuietStep DEF Promoted
  <2> QED
    BY <2>2, <2>3
<1>3. ASSUME NEW p \in Procs,
             Committed(p) \/ Reread(p) \/ Clean(p) \/ RmTemp(p) \/ RmJournal(p)
               \/ Discard(p) \/ DiscardJournal(p) \/ Reconcile(p) \/ Crash(p)
      PROVE  StoreInvariant'
  <2>1. pc[p] # "idle"
    BY <1>3 DEF Committed, Reread, Clean, RmTemp, RmJournal, Discard, DiscardJournal,
                Reconcile, Crash, Active
  <2>2. /\ UNCHANGED <<pointer, idx>>
        /\ \E l \in {"reread", "clean", "rmtemp", "list", "reconcile", "idle",
                     "discardJournal"} : Goto(p, l)
    BY <1>3 DEF Committed, Reread, Clean, RmTemp, RmJournal, Discard, DiscardJournal,
                Reconcile, Crash
  <2> QED
    BY <2>1, <2>2, Alone, QuietStep DEF Promoted
<1>4. ASSUME NEW p \in Procs, Fail(p) PROVE StoreInvariant'
  <2>1. pc[p] # "idle"
    BY <1>4 DEF Fail, Active
  <2>2. CASE Abandon(p)
    BY <2>1, <2>2, AbandonQuiet
  <2>3. CASE ~Abandon(p)
    <3>1. UNCHANGED <<pointer, idx>> /\ \E l \in {"discardJournal", "idle"} : Goto(p, l)
      BY <1>4, <2>3 DEF Fail
    <3> QED
      BY <2>1, <3>1, Alone, QuietStep DEF Promoted
  <2> QED
    BY <2>2, <2>3
<1>5. ASSUME NEW p \in Procs, Promote(p) \/ Publish(p) PROVE StoreInvariant'
  <2>1. pc[p] # "idle"
    BY <1>5 DEF Promote, Publish
  <2>2. CASE Abandon(p)
    BY <2>1, <2>2, AbandonQuiet
  <2>3. CASE Promote(p) /\ ~Abandon(p)
    <3>1. /\ pc' = [pc EXCEPT ![p] = "rename"] /\ ptr' = [ptr EXCEPT ![p] = pointer]
          /\ UNCHANGED <<pointer, idx>>
      BY <2>3 DEF Promote, Goto
    <3> QED
      BY <2>1, <3>1, Alone DEF StoreInvariant, OneActive, Active, Promoted, TypeOK
  <2>4. CASE Publish(p) /\ ~Abandon(p)
    <3>1. /\ pc[p] = "publish" /\ pc' = [pc EXCEPT ![p] = "replace"]
          /\ UNCHANGED <<pointer, idx, ptr, jr>>
      BY <2>4 DEF Publish, Goto
    <3> QED
      BY <2>1, <3>1, Alone DEF StoreInvariant, OneActive, Active, Promoted, TypeOK
  <2> QED
    BY <1>5, <2>2, <2>3, <2>4
<1>6. ASSUME NEW p \in Procs, Rename(p) PROVE StoreInvariant'
  <2>1. pc[p] = "rename" /\ jr[p].op \in Ops
    BY <1>6 DEF Rename, JournalReal, Publishing
  <2>2. CASE Abandon(p)
    BY <2>1, <2>2, AbandonQuiet
  <2>3. CASE ~Abandon(p)
    <3>1. /\ idx' = [idx EXCEPT ![jr[p].op.hash] = jr[p].op.cfg]
          /\ pc' = [pc EXCEPT ![p] = "sidecar"]
          /\ UNCHANGED <<pointer, ptr, jr>>
      BY <1>6, <2>3 DEF Rename, Goto
    <3>2. jr[p].op.hash \in Hashes /\ jr[p].op.cfg # Nil
      BY <2>1, GenerationAssumption DEF Ops
    <3>3. \A h \in Hashes : idx[h] # Nil => idx'[h] # Nil
      BY <3>1, <3>2 DEF TypeOK
    <3>4. idx'[jr[p].op.hash] # Nil
      BY <3>1, <3>2 DEF TypeOK
    <3> QED
      BY <2>1, <3>1, <3>3, <3>4, Alone DEF StoreInvariant, OneActive, Active, Promoted, TypeOK
  <2> QED
    BY <2>2, <2>3
<1>7. ASSUME NEW p \in Procs, Sidecar(p) \/ Mirror(p) PROVE StoreInvariant'
  <2>1. /\ pc[p] \in {"sidecar", "mirror"}
        /\ \E l \in {"mirror", "publish"} : pc' = [pc EXCEPT ![p] = l]
        /\ UNCHANGED <<pointer, idx, ptr, jr>>
    BY <1>7 DEF Sidecar, Mirror, Goto
  <2> QED
    BY <2>1, Alone DEF StoreInvariant, OneActive, Active, Promoted, TypeOK
<1>8. ASSUME NEW p \in Procs, Replace(p) PROVE StoreInvariant'
  <2>1. /\ pc[p] = "replace" /\ pc' = [pc EXCEPT ![p] = "committed"]
        /\ pointer' = Meta(p) /\ UNCHANGED idx
    BY <1>8 DEF Replace, Goto
  <2>2. ptr[p] = pointer /\ idx[jr[p].op.hash] # Nil
    BY <2>1 DEF StoreInvariant, Promoted
  <2>3. \A h \in {Meta(p).hash, Meta(p).prev} :
          h \in {jr[p].op.hash, pointer.hash, pointer.prev}
    BY <2>2 DEF Meta
  <2>4. \A h \in Hashes : h \in {pointer'.hash, pointer'.prev} => idx'[h] # Nil
    BY <2>1, <2>2, <2>3 DEF StoreInvariant
  <2>5. \A q \in Procs : pc'[q] \in {"idle", "committed"} /\ (q # p => pc'[q] = "idle")
    BY <2>1, Alone DEF TypeOK
  <2> QED
    BY <2>4, <2>5 DEF StoreInvariant, OneActive, Active, Promoted
<1>9. ASSUME NEW p \in Procs, List(p) PROVE StoreInvariant'
  <2>1. /\ pc[p] = "list" /\ pc' = [pc EXCEPT ![p] = "prune"]
        /\ todo' = [todo EXCEPT ![p] = Prunable({pointer.hash, pointer.prev})]
        /\ UNCHANGED <<pointer, idx>>
    BY <1>9 DEF List, Goto
  <2>2. \A f \in todo'[p] : f[2] \notin {pointer'.hash, pointer'.prev}
    BY <2>1 DEF Prunable, TypeOK
  <2>3. pc'[p] = "prune" /\ \A q \in Procs : q # p => pc'[q] = "idle"
    BY <2>1, Alone DEF TypeOK
  <2> QED
    BY <2>1, <2>2, <2>3 DEF StoreInvariant, OneActive, Active, Promoted
<1>12. ASSUME NEW p \in Procs, ListFails(p) PROVE StoreInvariant'
  <2>1. /\ pc[p] = "list" /\ pc' = [pc EXCEPT ![p] = "prune"]
        /\ todo' = [todo EXCEPT ![p] = {}] /\ UNCHANGED <<pointer, idx>>
    BY <1>12 DEF ListFails, Goto
  <2>2. todo'[p] = {}
    BY <2>1 DEF TypeOK
  <2>3. pc'[p] = "prune" /\ \A q \in Procs : q # p => pc'[q] = "idle"
    BY <2>1, Alone DEF TypeOK
  <2> QED
    BY <2>1, <2>2, <2>3 DEF StoreInvariant, OneActive, Active, Promoted
<1>10. ASSUME NEW p \in Procs, Prune(p) PROVE StoreInvariant'
  <2>1. pc[p] = "prune" /\ UNCHANGED pointer
    BY <1>10 DEF Prune
  <2>2. CASE todo[p] = {}
    <3>1. UNCHANGED idx /\ \E l \in {"reconcile", "rmjournal"} : Goto(p, l)
      BY <1>10, <2>2 DEF Prune
    <3> QED
      BY <2>1, <3>1, Alone, QuietStep DEF Promoted
  <2>3. CASE todo[p] # {}
    <3>1. PICK f \in todo[p] :
            /\ todo' = [todo EXCEPT ![p] = @ \ {f}] /\ UNCHANGED pc
            /\ idx' = [idx EXCEPT ![f[2]] = Nil] \/ UNCHANGED idx
      BY <1>10, <2>3 DEF Prune
    <3>2. todo'[p] \subseteq todo[p] /\ f[2] \notin {pointer.hash, pointer.prev}
      BY <2>1, <3>1 DEF TypeOK, StoreInvariant
    <3>3. \A h \in Hashes : h # f[2] => idx'[h] = idx[h]
      BY <3>1 DEF TypeOK
    <3> QED
      BY <2>1, <3>1, <3>2, <3>3, Alone DEF StoreInvariant, OneActive, Active, Promoted
  <2> QED
    BY <2>2, <2>3
<1>11. CASE ReadPointer \/ ReadMeta \/ Open \/ Damage \/ UNCHANGED vars
  <2>1. UNCHANGED <<pointer, idx, pc, jr, ptr, todo>>
    BY <1>11 DEF ReadPointer, ReadMeta, Open, Damage, vars, local
  <2> QED
    BY <2>1 DEF StoreInvariant, OneActive, Active
<1> QED
  BY <1>1, <1>2, <1>3, <1>4, <1>5, <1>6, <1>7, <1>8, <1>9, <1>10, <1>11, <1>12 DEF Next, Step

\* A serial store keeps StoreInvariant for any number of processes, hashes
\* and faults: generations that current.json names are never pruned, and a
\* pointer is replaced only by the process that compared it.
THEOREM SerialStoreSafe == ASSUME Serial PROVE Spec => []StoreInvariant
<1>1. Init => TypeOK /\ JournalReal /\ StoreInvariant
  BY TypeInit, StoreInit
<1>2. TypeOK /\ JournalReal /\ StoreInvariant /\ [Next]_vars
        => (TypeOK /\ JournalReal /\ StoreInvariant)'
  BY TypeStep, StoreStep
<1> QED
  BY <1>1, <1>2, PTL DEF Spec

-----------------------------------------------------------------------------
(* Refinement: only three steps move what the register is about.            *)

Stored == {h \in Hashes : idx[h] # Nil}

LEMMA ReplaceIsPublish ==
  ASSUME TypeOK, JournalReal, StoreInvariant, NEW p \in Procs, Replace(p)
  PROVE  Register!RegisterNext
<1>1. /\ pc[p] = "replace" /\ pointer' = Meta(p) /\ UNCHANGED idx
  BY DEF Replace
<1>2. jr[p].op \in Ops /\ ptr[p] = pointer /\ idx[jr[p].op.hash] # Nil
  BY <1>1 DEF JournalReal, StoreInvariant, Publishing, Promoted
<1>3. jr[p].op.hash \in Hashes /\ jr[p].op.cfg \in Configs
  BY <1>2 DEF Ops
<1>4. Register!Publish(jr[p].op.hash, jr[p].op.cfg)
  BY <1>1, <1>2, <1>3 DEF Register!Publish, Register!Replaced, Meta
<1> QED
  BY <1>3, <1>4 DEF Register!RegisterNext

LEMMA RenameIsStore ==
  ASSUME TypeOK, JournalReal, NEW p \in Procs, Rename(p), ~Abandon(p)
  PROVE  Register!RegisterNext
<1>1. /\ pc[p] = "rename" /\ UNCHANGED pointer
      /\ idx' = [idx EXCEPT ![jr[p].op.hash] = jr[p].op.cfg]
  BY DEF Rename
<1>2. jr[p].op.hash \in Hashes /\ jr[p].op.cfg \in Configs /\ jr[p].op.cfg # Nil
  BY <1>1, GenerationAssumption DEF JournalReal, Publishing, Ops
<1>3. Stored' = Stored \cup {jr[p].op.hash}
  BY <1>1, <1>2 DEF TypeOK, Stored
<1>4. \E h \in Hashes : Register!Store(h)
  BY <1>1, <1>2, <1>3 DEF Register!Store, Stored
<1> QED
  BY <1>4 DEF Register!RegisterNext

LEMMA PruneIsCollect ==
  ASSUME TypeOK, StoreInvariant, NEW p \in Procs, Prune(p)
  PROVE  Register!RegisterNext \/ UNCHANGED <<pointer, Stored>>
<1>1. pc[p] = "prune" /\ UNCHANGED pointer
  BY DEF Prune
<1>2. CASE UNCHANGED idx
  BY <1>1, <1>2 DEF Stored
<1>3. CASE ~UNCHANGED idx
  <2>1. PICK f \in todo[p] : idx' = [idx EXCEPT ![f[2]] = Nil]
    BY <1>3 DEF Prune
  <2>2. f[2] \in Hashes /\ f[2] \notin {pointer.hash, pointer.prev}
    BY <1>1 DEF TypeOK, Files, StoreInvariant
  <2>3. Stored' = Stored \ {f[2]}
    BY <2>1, <2>2 DEF TypeOK, Stored
  <2>4. Register!Collect(f[2])
    BY <1>1, <2>2, <2>3 DEF Register!Collect, Register!Kept, Stored
  <2> QED
    BY <2>2, <2>4 DEF Register!RegisterNext
<1> QED
  BY <1>2, <1>3

LEMMA RegisterStep ==
  ASSUME Serial, TypeOK, JournalReal, StoreInvariant, [Next]_vars
  PROVE  Register!RegisterNext \/ UNCHANGED <<pointer, Stored>>
<1>1. ASSUME NEW p \in Procs, Replace(p) PROVE Register!RegisterNext
  BY <1>1, ReplaceIsPublish
<1>2. ASSUME NEW p \in Procs, Rename(p)
      PROVE  Register!RegisterNext \/ UNCHANGED <<pointer, Stored>>
  <2>1. CASE Abandon(p)
    BY <2>1 DEF Abandon, disk, Stored
  <2>2. CASE ~Abandon(p)
    BY <1>2, <2>2, RenameIsStore
  <2> QED
    BY <2>1, <2>2
<1>3. ASSUME NEW p \in Procs, Prune(p)
      PROVE  Register!RegisterNext \/ UNCHANGED <<pointer, Stored>>
  BY <1>3, PruneIsCollect
<1>4. ASSUME NEW p \in Procs, Begin(p) \/ Recover(p) \/ Crash(p) \/ Fail(p) \/ ListFails(p)
      PROVE  UNCHANGED <<pointer, Stored>>
  BY <1>4 DEF Begin, Recover, Crash, Fail, ListFails, Abandon, disk, Stored
<1>5. ASSUME NEW p \in Procs, Step(p), ~Replace(p), ~Rename(p), ~Prune(p)
      PROVE  UNCHANGED <<pointer, Stored>>
  <2>1. UNCHANGED <<pointer, idx>>
    BY <1>5 DEF Step, ReadJournal, Prepare, Stage, Indexed, Commit, AlreadyCurrent,
                Promote, Sidecar, Mirror, Publish, Committed, Reread, Clean, RmTemp,
                List, RmJournal, Discard, DiscardJournal, Reconcile, Abandon, disk
  <2> QED
    BY <2>1 DEF Stored
<1>6. CASE ReadPointer \/ ReadMeta \/ Open \/ Damage \/ UNCHANGED vars
  BY <1>6 DEF ReadPointer, ReadMeta, Open, Damage, vars, disk, Stored
<1> QED
  BY <1>1, <1>2, <1>3, <1>4, <1>5, <1>6 DEF Next

\* A serial store implements the register its header promises: every step of
\* a publish, a recovery or a fault is a publication, an arrival or a
\* collection of one generation, or is invisible.
THEOREM SerialStoreRefines == ASSUME Serial PROVE Spec => ImplementsRegister
<1>1. Init => Register!RegisterInit
  BY GenerationAssumption DEF Init, Register!RegisterInit, Register!NoIndex, NoMeta
<1>2. TypeOK /\ JournalReal /\ StoreInvariant /\ [Next]_vars
        => [Register!RegisterNext]_<<pointer, {h \in Hashes : idx[h] # Nil}>>
  BY RegisterStep DEF Stored
<1>3. Spec => [](TypeOK /\ JournalReal /\ StoreInvariant)
  BY StoreTyped, SerialStoreSafe, PTL
<1> QED
  BY <1>1, <1>2, <1>3, PTL DEF Spec, ImplementsRegister, Register!RegisterSpec

-----------------------------------------------------------------------------
(* One process works at a time: where a step can take it.                   *)

Acts(p) == Begin(p) \/ Recover(p) \/ Step(p) \/ Crash(p) \/ Fail(p) \/ ListFails(p)

LEMMA Moves ==
  ASSUME NEW p \in Procs, Acts(p)
  PROVE  UNCHANGED pc \/ \E label : Goto(p, label)
  BY DEF Acts, Begin, Recover, Step, Crash, Fail, ListFails, Abandon, ReadJournal, Prepare, Stage, Indexed,
         Commit, AlreadyCurrent, Promote, Rename, Sidecar, Mirror, Publish, Replace, Committed,
         Reread, Clean, RmTemp, List, Prune, RmJournal, Discard, DiscardJournal, Reconcile

LEMMA Sole ==
  ASSUME Serial, TypeOK, StoreInvariant, NEW p \in Procs, Acts(p)
  PROVE  \A q \in Procs : q # p => pc[q] = "idle" /\ pc'[q] = "idle"
<1>1. (\A q \in Procs : pc[q] = "idle") \/ pc[p] # "idle"
  BY DEF Acts, Begin, Recover, Quiet, Active, Step, Crash, Fail, ListFails, ReadJournal, Prepare, Stage, Indexed,
         Commit, AlreadyCurrent, Promote, Rename, Sidecar, Mirror, Publish, Replace, Committed,
         Reread, Clean, RmTemp, List, Prune, RmJournal, Discard, DiscardJournal, Reconcile
<1>2. \A q \in Procs : q # p => pc[q] = "idle"
  BY <1>1, Alone
<1>3. \A q \in Procs : q # p => pc'[q] = pc[q]
  BY Moves DEF Goto, TypeOK
<1> QED
  BY <1>2, <1>3

-----------------------------------------------------------------------------
(* Retention                                                                *)

\* What a prune has not listed is kept.
Tidy ==
    \A p \in Procs \ blind :
        /\ pc[p] = "prune" => Present \subseteq KeptFiles \cup todo[p]
        /\ pc[p] = "rmjournal" => Present \subseteq KeptFiles

LEMMA OnlyPrune ==
  ASSUME TypeOK, NEW p \in Procs, Acts(p), ~List(p), ~ListFails(p), ~Prune(p)
  PROVE  pc'[p] \notin {"prune", "rmjournal"}
<1> USE DEF Goto, TypeOK
<1>1. CASE Begin(p) \/ Recover(p) \/ Crash(p)
  BY <1>1 DEF Begin, Recover, Crash, Plan
<1>2. CASE Abandon(p)
  BY <1>2 DEF Abandon
<1>3. CASE Fail(p) /\ ~Abandon(p)
  BY <1>3 DEF Fail
<1>4. CASE Step(p) /\ ~Abandon(p)
  BY <1>4 DEF Step, ReadJournal, Prepare, Stage, Indexed,
         Commit, AlreadyCurrent, Promote, Rename, Sidecar, Mirror, Publish, Replace, Committed,
         Reread, Clean, RmTemp, RmJournal, Discard, DiscardJournal, Reconcile
<1> QED
  BY <1>1, <1>2, <1>3, <1>4 DEF Acts

LEMMA TidyStep ==
  ASSUME Serial, TypeOK, StoreInvariant, Tidy, [Next]_vars
  PROVE  Tidy'
<1>1. ASSUME NEW p \in Procs, Acts(p), ~List(p), ~ListFails(p), ~Prune(p) PROVE Tidy'
  BY <1>1, OnlyPrune, Sole DEF Tidy
<1>2. ASSUME NEW p \in Procs, List(p) PROVE Tidy'
  <2>1. /\ pc' = [pc EXCEPT ![p] = "prune"] /\ UNCHANGED <<pointer, idx, side>>
        /\ todo' = [todo EXCEPT ![p] = Prunable({pointer.hash, pointer.prev})]
    BY <1>2 DEF List, Goto, disk
  <2>2. Present' = Present /\ KeptFiles' = KeptFiles
    BY <2>1 DEF Present, KeptFiles
  <2>3. Present \subseteq KeptFiles \cup Prunable({pointer.hash, pointer.prev})
    BY DEF Present, KeptFiles, Prunable
  <2>4. pc'[p] = "prune" /\ todo'[p] = Prunable({pointer.hash, pointer.prev})
    BY <2>1 DEF TypeOK
  <2>5. Acts(p)
    BY <1>2 DEF Acts, Step
  <2> QED
    BY <2>2, <2>3, <2>4, <2>5, Sole DEF Tidy
<1>5. ASSUME NEW p \in Procs, ListFails(p) PROVE Tidy'
  BY <1>5, Sole DEF Acts, Tidy, ListFails
<1>3. ASSUME NEW p \in Procs, Prune(p) PROVE Tidy'
  <2>1. /\ Acts(p) /\ pc[p] = "prune" /\ UNCHANGED <<pointer, blind>>
        /\ KeptFiles' = KeptFiles
    BY <1>3 DEF Acts, Step, Prune, KeptFiles
  <2>2. p \notin blind => Present \subseteq KeptFiles \cup todo[p]
    BY <2>1 DEF Tidy
  <2>3. CASE todo[p] = {}
    <3>1. UNCHANGED <<idx, side, todo>> /\ \E l \in {"reconcile", "rmjournal"} : Goto(p, l)
      BY <1>3, <2>3 DEF Prune
    <3>2. Present' = Present
      BY <3>1 DEF Present
    <3>3. pc'[p] \in {"reconcile", "rmjournal"}
      BY <3>1 DEF Goto, TypeOK
    <3> QED
      BY <2>1, <2>2, <2>3, <3>2, <3>3, Sole DEF Tidy
  <2>4. CASE todo[p] # {}
    <3>1. PICK f \in todo[p] :
            /\ todo' = [todo EXCEPT ![p] = @ \ {f}] /\ UNCHANGED pc
            /\ \/ f[1] = "idx" /\ idx' = [idx EXCEPT ![f[2]] = Nil] /\ UNCHANGED side
               \/ f[1] = "meta" /\ side' = [side EXCEPT ![f[2]] = NoMeta] /\ UNCHANGED idx
      BY <1>3, <2>4 DEF Prune
    <3>2. f \in Files
      BY DEF TypeOK
    <3>3. f[2] \in Hashes /\ f = <<f[1], f[2]>>
      BY <3>2 DEF Files
    <3>4. Present' \subseteq Present \ {f}
      <4> SUFFICES ASSUME NEW g \in Files, g \in Present' PROVE g \in Present /\ g # f
        BY DEF Present
      <4>1. g = <<g[1], g[2]>> /\ g[2] \in Hashes /\ g[1] \in {"idx", "meta"}
        BY DEF Files
      <4>2. CASE f[1] = "idx" /\ idx' = [idx EXCEPT ![f[2]] = Nil] /\ UNCHANGED side
        BY <3>3, <4>1, <4>2 DEF Present, TypeOK
      <4>3. CASE f[1] = "meta" /\ side' = [side EXCEPT ![f[2]] = NoMeta] /\ UNCHANGED idx
        BY <3>3, <4>1, <4>3 DEF Present, TypeOK
      <4> QED
        BY <3>1, <4>2, <4>3
    <3>5. todo'[p] = todo[p] \ {f} /\ pc'[p] = "prune"
      BY <2>1, <3>1 DEF TypeOK
    <3> QED
      BY <2>1, <2>2, <3>4, <3>5, Sole DEF Tidy
  <2> QED
    BY <2>3, <2>4
<1>4. CASE ReadPointer \/ ReadMeta \/ Open \/ Damage \/ UNCHANGED vars
  <2>1. UNCHANGED <<pointer, idx, side, pc, todo, blind>>
    BY <1>4 DEF ReadPointer, ReadMeta, Open, Damage, vars, local, disk
  <2> QED
    BY <2>1 DEF Tidy, Present, KeptFiles
<1> QED
  BY <1>1, <1>2, <1>3, <1>4, <1>5 DEF Next, Acts

\* pruneToCurrentPointer, through crashes, failed listings and removals, and
\* recoveries: when a cleanup of a serial store that could list the directory
\* is about to drop the journal, nothing but the current and the previous
\* generation is left, what earlier blind cleanups left included.
THEOREM SerialStoreTidy == ASSUME Serial PROVE Spec => []RetentionHolds
<1>1. Init => Tidy
  BY DEF Init, Tidy
<1>2. Tidy => RetentionHolds
  BY DEF Tidy, RetentionHolds
<1>3. TypeOK /\ StoreInvariant /\ Tidy /\ [Next]_vars => Tidy'
  BY TidyStep
<1>4. Spec => [](TypeOK /\ StoreInvariant)
  BY StoreTyped, SerialStoreSafe, PTL
<1> QED
  BY <1>1, <1>2, <1>3, <1>4, PTL DEF Spec

-----------------------------------------------------------------------------
(* A query beside publishes                                                 *)

\* The generation a query resolved is current until the pointer moves, and
\* previous until it moves again.
QueryNear ==
    rd.at # "idle" =>
        /\ rd.ptr.hash \in Hashes
        /\ rd.moves = 0 => rd.ptr.hash = pointer.hash
        /\ rd.moves = 1 => rd.ptr.hash \in {pointer.hash, pointer.prev}

LEMMA QueryStep ==
  ASSUME Serial, TypeOK, StoreInvariant, QueryNear, [Next]_vars
  PROVE  QueryNear'
<1>1. ASSUME NEW p \in Procs, Acts(p), ~Replace(p) PROVE QueryNear'
  <2>1. UNCHANGED <<pointer, rd>>
    BY <1>1 DEF Acts, Begin, Recover, Step, Crash, Fail, ListFails, Abandon, ReadJournal, Prepare, Stage, Indexed,
         Commit, AlreadyCurrent, Promote, Rename, Sidecar, Mirror, Publish, Committed,
         Reread, Clean, RmTemp, List, Prune, RmJournal, Discard, DiscardJournal, Reconcile, disk
  <2> QED
    BY <2>1 DEF QueryNear
<1>2. ASSUME NEW p \in Procs, Replace(p) PROVE QueryNear'
  <2>1. /\ pc[p] = "replace" /\ pointer' = Meta(p)
        /\ rd' = [rd EXCEPT !.moves = IF rd.at = "idle" \/ @ = 2 THEN @ ELSE @ + 1]
    BY <1>2 DEF Replace
  <2>2. ptr[p] = pointer
    BY <2>1 DEF StoreInvariant, Promoted
  <2>3. pointer.hash \in {pointer'.hash, pointer'.prev}
    BY <2>1, <2>2 DEF Meta
  <2>4. /\ rd'.at = rd.at /\ rd'.ptr = rd.ptr /\ rd.moves \in 0..2
        /\ rd.at # "idle" => rd'.moves = IF rd.moves = 2 THEN 2 ELSE rd.moves + 1
    BY <2>1 DEF TypeOK
  <2>5. rd.at # "idle" /\ rd'.moves <= 1 => rd.moves = 0 /\ rd'.moves = 1
    BY <2>4
  <2> QED
    BY <2>3, <2>4, <2>5 DEF QueryNear
<1>3. CASE ReadPointer
  <2>1. pointer # NoMeta /\ rd' = [at |-> "meta", ptr |-> pointer, moves |-> 0] /\ UNCHANGED pointer
    BY <1>3 DEF ReadPointer, disk
  <2>2. pointer.hash \in Hashes
    BY <2>1 DEF TypeOK, Metas
  <2> QED
    BY <2>1, <2>2 DEF QueryNear
<1>4. CASE ReadMeta \/ Open
  <2>1. UNCHANGED pointer /\ (rd' = NoQuery \/ (rd.at # "idle" /\ rd' = [rd EXCEPT !.at = "open"]))
    BY <1>4 DEF ReadMeta, Open, disk
  <2>2. rd'.at = "idle" \/ (rd.at # "idle" /\ rd'.ptr = rd.ptr /\ rd'.moves = rd.moves)
    BY <2>1 DEF NoQuery, TypeOK
  <2> QED
    BY <2>1, <2>2 DEF QueryNear
<1>5. CASE Damage \/ UNCHANGED vars
  <2>1. UNCHANGED <<pointer, rd>>
    BY <1>5 DEF Damage, vars, disk
  <2> QED
    BY <2>1 DEF QueryNear
<1> QED
  BY <1>1, <1>2, <1>3, <1>4, <1>5 DEF Next, Acts

\* resolveCurrentContextIndex and openWorkspaceContextIndex beside a serial
\* store: the generation a query resolved is there when it is opened although
\* one publish, with its prune, has completed in between.
THEOREM QueryOutlivesPublish == ASSUME Serial PROVE Spec => []ReaderOutlivesOnePublish
<1>1. Init => QueryNear
  BY DEF Init, QueryNear, NoQuery
<1>2. ASSUME TypeOK, StoreInvariant, QueryNear PROVE ReaderOutlivesOnePublish
  <2> SUFFICES ASSUME rd.at = "open", rd.moves <= 1 PROVE idx[rd.ptr.hash] # Nil
    BY DEF ReaderOutlivesOnePublish
  <2>1. rd.moves = 0 \/ rd.moves = 1
    BY <1>2 DEF TypeOK
  <2>2. rd.ptr.hash \in Hashes /\ rd.ptr.hash \in {pointer.hash, pointer.prev}
    BY <1>2, <2>1 DEF QueryNear
  <2> QED
    BY <1>2, <2>2 DEF StoreInvariant
<1>3. TypeOK /\ StoreInvariant /\ QueryNear /\ [Next]_vars => QueryNear'
  BY QueryStep
<1>4. Spec => [](TypeOK /\ StoreInvariant)
  BY StoreTyped, SerialStoreSafe, PTL
<1> QED
  BY <1>1, <1>2, <1>3, <1>4, PTL DEF Spec

-----------------------------------------------------------------------------
(* Sidecars and the mirror                                                  *)

\* The generation a pointer names, or is about to name, has its sidecar.
Described ==
    /\ \A h \in Hashes : side[h] # NoMeta => side[h].hash = h
    /\ pointer # NoMeta => side[pointer.hash] # NoMeta
    /\ \A p \in Procs : pc[p] \in {"mirror", "publish", "replace"} => side[jr[p].op.hash] # NoMeta

LEMMA MetaReal ==
  ASSUME TypeOK, NEW p \in Procs, jr[p].op \in Ops
  PROVE  /\ Meta(p) # NoMeta /\ Meta(p).hash = jr[p].op.hash /\ Meta(p).cfg = jr[p].op.cfg
         /\ jr[p].op.hash \in Hashes
  BY GenerationAssumption DEF Meta, NoMeta, Ops

LEMMA DescribedStep ==
  ASSUME Serial, TypeOK, JournalReal, StoreInvariant, Described, [Next]_vars
  PROVE  Described'
<1>1. ASSUME NEW p \in Procs, Acts(p), ~Sidecar(p), ~Replace(p), ~Prune(p) PROVE Described'
  <2>1. UNCHANGED <<pointer, side>>
    BY <1>1 DEF Acts, Begin, Recover, Step, Crash, Fail, ListFails, Abandon, ReadJournal, Prepare, Stage, Indexed,
         Commit, AlreadyCurrent, Promote, Rename, Mirror, Publish, Committed,
         Reread, Clean, RmTemp, List, RmJournal, Discard, DiscardJournal, Reconcile, disk
  <2>2. pc'[p] \in {"mirror", "publish", "replace"} =>
            pc[p] \in {"mirror", "publish", "replace"} /\ UNCHANGED jr
    <3> USE DEF Goto, TypeOK
    <3>1. CASE Begin(p) \/ Recover(p) \/ Crash(p)
      BY <3>1 DEF Begin, Recover, Crash, Plan
    <3>2. CASE Abandon(p)
      BY <3>2 DEF Abandon
    <3>3. CASE (Fail(p) /\ ~Abandon(p)) \/ ListFails(p)
      BY <3>3 DEF Fail, ListFails
    <3>4. CASE Step(p) /\ ~Abandon(p)
      BY <1>1, <3>4 DEF Step, ReadJournal, Prepare, Stage, Indexed,
         Commit, AlreadyCurrent, Promote, Rename, Mirror, Publish, Committed,
         Reread, Clean, RmTemp, List, RmJournal, Discard, DiscardJournal, Reconcile
    <3> QED
      BY <1>1, <3>1, <3>2, <3>3, <3>4 DEF Acts
  <2> QED
    BY <1>1, <2>1, <2>2, Sole DEF Described
<1>2. ASSUME NEW p \in Procs, Sidecar(p) PROVE Described'
  <2>1. /\ pc[p] = "sidecar" /\ pc' = [pc EXCEPT ![p] = "mirror"] /\ UNCHANGED <<pointer, jr>>
        /\ side' = [side EXCEPT ![jr[p].op.hash] = Meta(p)]
    BY <1>2 DEF Sidecar, Goto
  <2>2. jr[p].op \in Ops
    BY <2>1 DEF JournalReal, Publishing
  <2>3. /\ Meta(p) # NoMeta /\ Meta(p).hash = jr[p].op.hash /\ jr[p].op.hash \in Hashes
    BY <2>2, MetaReal
  <2>4. side'[jr[p].op.hash] = Meta(p) /\ \A h \in Hashes : h # jr[p].op.hash => side'[h] = side[h]
    BY <2>1, <2>3 DEF TypeOK
  <2>5. pointer # NoMeta => pointer.hash \in Hashes
    BY DEF TypeOK, Metas
  <2>6. Acts(p) /\ pc'[p] = "mirror"
    BY <1>2, <2>1 DEF Acts, Step, TypeOK
  <2> QED
    BY <2>1, <2>3, <2>4, <2>5, <2>6, Sole DEF Described
<1>3. ASSUME NEW p \in Procs, Replace(p) PROVE Described'
  <2>1. /\ pc[p] = "replace" /\ pc' = [pc EXCEPT ![p] = "committed"] /\ UNCHANGED side
        /\ pointer' = Meta(p)
    BY <1>3 DEF Replace, Goto
  <2>2. jr[p].op \in Ops
    BY <2>1 DEF JournalReal, Publishing
  <2>3. pointer'.hash = jr[p].op.hash /\ side[jr[p].op.hash] # NoMeta
    BY <2>1, <2>2, MetaReal DEF Described
  <2>4. Acts(p) /\ pc'[p] = "committed"
    BY <1>3, <2>1 DEF Acts, Step, TypeOK
  <2> QED
    BY <2>1, <2>3, <2>4, Sole DEF Described
<1>4. ASSUME NEW p \in Procs, Prune(p) PROVE Described'
  <2>1. Acts(p) /\ pc[p] = "prune" /\ UNCHANGED <<pointer, jr>>
    BY <1>4 DEF Acts, Step, Prune
  <2>2. pc'[p] \in {"prune", "reconcile", "rmjournal"}
    BY <1>4 DEF Prune, Goto, TypeOK
  <2>3. UNCHANGED side \/ \E f \in todo[p] : side' = [side EXCEPT ![f[2]] = NoMeta]
    BY <1>4 DEF Prune
  <2>4. \A f \in todo[p] : f[2] # pointer.hash /\ f[2] \in Hashes
    BY <2>1 DEF StoreInvariant, TypeOK, Files
  <2>5. \A h \in Hashes : side'[h] = NoMeta \/ side'[h] = side[h]
    BY <2>3, <2>4 DEF TypeOK
  <2>6. pointer # NoMeta => pointer.hash \in Hashes
    BY DEF TypeOK, Metas
  <2>7. pointer # NoMeta => side'[pointer.hash] = side[pointer.hash]
    BY <2>3, <2>4, <2>6 DEF TypeOK
  <2> QED
    BY <2>1, <2>2, <2>5, <2>7, Sole DEF Described
<1>5. CASE ReadPointer \/ ReadMeta \/ Open \/ Damage \/ UNCHANGED vars
  <2>1. UNCHANGED <<pointer, side, pc, jr>>
    BY <1>5 DEF ReadPointer, ReadMeta, Open, Damage, vars, local, disk
  <2> QED
    BY <2>1 DEF Described
<1> QED
  BY <1>1, <1>2, <1>3, <1>4, <1>5 DEF Next, Acts

LEMMA SerialStoreDescribed == ASSUME Serial PROVE Spec => []Described
<1>1. Init => Described
  BY DEF Init, Described
<1>2. TypeOK /\ JournalReal /\ StoreInvariant /\ Described /\ [Next]_vars => Described'
  BY DescribedStep
<1>3. Spec => [](TypeOK /\ JournalReal /\ StoreInvariant)
  BY StoreTyped, SerialStoreSafe, PTL
<1> QED
  BY <1>1, <1>2, <1>3, PTL DEF Spec

\* All builds of one snapshot are made under the same configuration.
OneConfig == \A c, d \in Configs : c = d

\* reconcileContextIndexMeta, from whatever step the dead process of a serial
\* store had reached: where a snapshot is built under one configuration, a
\* recovery that ran to its end leaves a mirror that agrees with the pointer.
\* (Under several the mirror may describe the right snapshot and another
\* configuration, which the function does not compare.)
THEOREM RecoveryReconciles == ASSUME Serial, OneConfig PROVE Spec => RecoveryRestoresMirror
<1>1. ASSUME TypeOK, Described, NEW p \in Procs, Reconcile(p), pointer # NoMeta
      PROVE  Agree(pointer, mirror')
  <2>1. mirror' = ReconciledMirror
    BY <1>1 DEF Reconcile
  <2>2. pointer.hash \in Hashes /\ pointer.cfg \in Configs
    BY <1>1 DEF TypeOK, Metas
  <2>3. side[pointer.hash] # NoMeta /\ side[pointer.hash].hash = pointer.hash
    BY <1>1, <2>2 DEF Described
  <2>4. mirror'.hash = pointer.hash /\ mirror' \in Metas
    BY <1>1, <2>1, <2>2, <2>3 DEF ReconciledMirror, TypeOK
  <2>5. mirror' # NoMeta
    BY <2>2, <2>4, GenerationAssumption DEF NoMeta
  <2>6. mirror'.cfg \in Configs
    BY <2>4, <2>5 DEF Metas
  <2> QED
    BY <2>2, <2>4, <2>6 DEF Agree, OneConfig
<1>2. TypeOK /\ Described =>
        [\A p \in Procs : Reconcile(p) => pointer = NoMeta \/ Agree(pointer, mirror')]_vars
  BY <1>1
<1>3. Spec => [](TypeOK /\ Described)
  BY StoreTyped, SerialStoreDescribed, PTL
<1> QED
  BY <1>2, <1>3, PTL DEF RecoveryRestoresMirror

-----------------------------------------------------------------------------
(* What a journal on disk says                                              *)

\* A publish works on its own journal: nobody has advanced it beyond indexed
\* when the pointer is replaced, and it is marked committed only after that.
JournalFacts(p) ==
    /\ pc[p] \in Publishing => Agree(jr[p].op, job[p])
    /\ pc[p] \in Publishing \ {"stage", "staged"} => journal = jr[p] /\ jr[p].phase = "indexed"
    /\ pc[p] = "current" => Agree(pointer, job[p])
    /\ pc[p] = "committed" => Agree(pointer, jr[p].op)

Truthful == CommittedIsPublished /\ \A p \in Procs : JournalFacts(p)

\* A step that leaves publishing, or is not part of it, and does not write
\* a committed journal.
LEMMA Unpublishing ==
  ASSUME Serial, TypeOK, StoreInvariant, Truthful, NEW p \in Procs, Acts(p),
         pc'[p] \notin Publishing, UNCHANGED pointer,
         UNCHANGED journal \/ journal'.phase # "committed"
  PROVE  Truthful'
<1>1. \A q \in Procs : pc'[q] \notin Publishing
  BY Sole DEF Publishing
<1>2. \A q \in Procs : JournalFacts(q)'
  BY <1>1 DEF JournalFacts, Publishing
<1>3. CommittedIsPublished'
  BY DEF Truthful, CommittedIsPublished, Agree
<1> QED
  BY <1>2, <1>3 DEF Truthful

\* A step of a publish that leaves the pointer and the journal as they are.
LEMMA Republishing ==
  ASSUME Serial, TypeOK, StoreInvariant, Truthful, NEW p \in Procs, Acts(p),
         UNCHANGED <<pointer, journal>>, JournalFacts(p)'
  PROVE  Truthful'
<1>1. \A q \in Procs : q # p => JournalFacts(q)'
  BY Sole DEF JournalFacts, Publishing
<1>2. CommittedIsPublished'
  BY DEF Truthful, CommittedIsPublished, Agree
<1> QED
  BY <1>1, <1>2 DEF Truthful

LEMMA AdvancedFacts ==
  ASSUME TypeOK, NEW p \in Procs, NEW phase
  PROVE  Advanced(p, phase).op = jr[p].op /\ Advanced(p, phase).phase = phase
  BY DEF TypeOK, Advanced, Journals

LEMMA TruthfulStep ==
  ASSUME Serial, TypeOK, JournalReal, StoreInvariant, Truthful, [Next]_vars
  PROVE  Truthful'
<1>0. ASSUME NEW p \in Procs PROVE JournalFacts(p)
  BY DEF Truthful
<1>1. ASSUME NEW p \in Procs, Acts(p), Abandon(p) PROVE Truthful'
  <2>1. UNCHANGED <<pointer, journal>> /\ pc'[p] = "clean"
    BY <1>1 DEF Abandon, disk, Goto, TypeOK
  <2> QED
    BY <1>1, <2>1, Unpublishing DEF Publishing
<1>2. ASSUME NEW p \in Procs,
             Begin(p) \/ Recover(p) \/ Crash(p) \/ (Fail(p) /\ ~Abandon(p)) \/ Reread(p) \/ RmTemp(p)
               \/ List(p) \/ ListFails(p) \/ Prune(p) \/ Discard(p) \/ Reconcile(p)
      PROVE  Truthful'
  <2>1. Acts(p) /\ UNCHANGED <<pointer, journal>>
    BY <1>2 DEF Acts, Step, Begin, Recover, Crash, Fail, ListFails, Reread, RmTemp, List, Prune, Discard,
                Reconcile, disk
  <2>2. pc'[p] \notin Publishing
    BY <1>2 DEF Begin, Recover, Plan, Crash, Fail, ListFails, Reread, RmTemp, List, Prune, Discard,
                Reconcile, Goto, TypeOK, Publishing
  <2> QED
    BY <2>1, <2>2, Unpublishing
<1>3. ASSUME NEW p \in Procs, RmJournal(p) \/ DiscardJournal(p) PROVE Truthful'
  <2>1. Acts(p) /\ UNCHANGED pointer /\ journal'.phase # "committed"
    BY <1>3 DEF Acts, Step, RmJournal, DiscardJournal, NoJournal
  <2>2. pc'[p] \notin Publishing
    BY <1>3 DEF RmJournal, DiscardJournal, Goto, TypeOK, Publishing
  <2> QED
    BY <2>1, <2>2, Unpublishing
<1>4. ASSUME NEW p \in Procs, Clean(p) PROVE Truthful'
  <2>1. Acts(p) /\ UNCHANGED pointer /\ pc'[p] = "rmtemp"
    BY <1>4 DEF Acts, Step, Clean, Goto, TypeOK
  <2>2. UNCHANGED journal \/ journal' = Advanced(p, "cleaned")
    BY <1>4 DEF Clean, WriteJournal
  <2>3. UNCHANGED journal \/ journal'.phase # "committed"
    BY <2>2, AdvancedFacts
  <2> QED
    BY <2>1, <2>3, Unpublishing DEF Publishing
<1>5. ASSUME NEW p \in Procs, ReadJournal(p) PROVE Truthful'
  <2>1. /\ Acts(p) /\ UNCHANGED <<pointer, journal, job>>
        /\ \/ pc'[p] \in {"prepare", "idle"}
           \/ pc'[p] = "stage" /\ jr'[p] = journal /\ journal.op = OpOf(ptr[p].hash, job[p])
    BY <1>5 DEF Acts, Step, ReadJournal, disk, Goto, TypeOK
  <2>2. CASE pc'[p] \in {"prepare", "idle"}
    BY <2>1, <2>2, Unpublishing DEF Publishing
  <2>3. CASE pc'[p] = "stage" /\ jr'[p] = journal /\ journal.op = OpOf(ptr[p].hash, job[p])
    <3>1. Agree(jr'[p].op, job'[p])
      BY <2>1, <2>3 DEF Agree, OpOf
    <3> QED
      BY <2>1, <2>3, <3>1, Republishing DEF JournalFacts, Publishing
  <2> QED
    BY <2>1, <2>2, <2>3
<1>6. ASSUME NEW p \in Procs, Prepare(p) PROVE Truthful'
  <2> DEFINE j == [op |-> OpOf(ptr[p].hash, job[p]), phase |-> "prepared"]
  <2>1. Agree(j.op, job[p]) /\ j.phase = "prepared"
    BY DEF OpOf, Agree
  <2>2. /\ Acts(p) /\ UNCHANGED <<pointer, job>> /\ journal' = j /\ jr' = [jr EXCEPT ![p] = j]
        /\ pc' = [pc EXCEPT ![p] = "stage"]
    BY <1>6 DEF Acts, Step, Prepare, WriteJournal, Goto
  <2> HIDE DEF j
  <2>3. pc'[p] = "stage" /\ jr'[p] = j
    BY <2>2 DEF TypeOK
  <2>4. JournalFacts(p)'
    BY <2>1, <2>2, <2>3 DEF JournalFacts, Publishing
  <2>5. \A q \in Procs : q # p => JournalFacts(q)'
    BY <2>2, Sole DEF JournalFacts, Publishing
  <2>6. CommittedIsPublished'
    BY <2>1, <2>2 DEF CommittedIsPublished
  <2> QED
    BY <2>4, <2>5, <2>6 DEF Truthful
<1>7. ASSUME NEW p \in Procs, Stage(p), ~Abandon(p) PROVE Truthful'
  <2>1. Acts(p) /\ pc[p] = "stage" /\ pc'[p] = "staged" /\ UNCHANGED <<pointer, journal, jr, job>>
    BY <1>7 DEF Acts, Step, Stage, Goto, TypeOK
  <2> QED
    BY <1>0, <2>1, Republishing DEF JournalFacts, Publishing
<1>8. ASSUME NEW p \in Procs, Indexed(p), ~Abandon(p) PROVE Truthful'
  <2> DEFINE j == Advanced(p, "indexed")
  <2>1. j.op = jr[p].op /\ j.phase = "indexed"
    BY AdvancedFacts
  <2>2. /\ Acts(p) /\ pc[p] = "staged" /\ UNCHANGED <<pointer, job>> /\ journal' = j
        /\ jr' = [jr EXCEPT ![p] = j] /\ pc' = [pc EXCEPT ![p] = "commit"]
    BY <1>8 DEF Acts, Step, Indexed, WriteJournal, Goto
  <2> HIDE DEF j
  <2>3. pc'[p] = "commit" /\ jr'[p] = j
    BY <2>2 DEF TypeOK
  <2>4. Agree(jr[p].op, job[p])
    BY <1>0, <2>2 DEF JournalFacts, Publishing
  <2>5. JournalFacts(p)'
    BY <2>1, <2>2, <2>3, <2>4 DEF JournalFacts, Publishing
  <2>6. \A q \in Procs : q # p => JournalFacts(q)'
    BY <2>2, Sole DEF JournalFacts, Publishing
  <2>7. CommittedIsPublished'
    BY <2>1, <2>2 DEF CommittedIsPublished
  <2> QED
    BY <2>5, <2>6, <2>7 DEF Truthful
<1>9. ASSUME NEW p \in Procs, Commit(p) PROVE Truthful'
  <2>1. /\ Acts(p) /\ pc[p] = "commit" /\ UNCHANGED <<pointer, journal, jr, job>>
        /\ pc'[p] = IF Agree(pointer, job[p]) THEN "current" ELSE "promote"
    BY <1>9 DEF Acts, Step, Commit, disk, Goto, TypeOK
  <2> QED
    BY <1>0, <2>1, Republishing DEF JournalFacts, Publishing, Agree
<1>10. ASSUME NEW p \in Procs, AlreadyCurrent(p) \/ Committed(p), ~Abandon(p) PROVE Truthful'
  <2> DEFINE j == Advanced(p, "committed")
  <2>1. j.op = jr[p].op
    BY AdvancedFacts
  <2>2. /\ Acts(p) /\ pc[p] \in {"current", "committed"} /\ UNCHANGED pointer /\ journal' = j
        /\ \E l \in {"clean", "reread"} : pc' = [pc EXCEPT ![p] = l]
    BY <1>10 DEF Acts, Step, AlreadyCurrent, Committed, WriteJournal, Goto
  <2> HIDE DEF j
  <2>3. Agree(pointer, jr[p].op)
    BY <1>0, <2>2 DEF JournalFacts, Publishing, Agree
  <2>4. \A q \in Procs : pc'[q] \notin Publishing
    BY <2>2, Sole DEF TypeOK, Publishing
  <2>5. \A q \in Procs : JournalFacts(q)'
    BY <2>4 DEF JournalFacts, Publishing
  <2>6. CommittedIsPublished'
    BY <2>1, <2>2, <2>3 DEF CommittedIsPublished, Agree
  <2> QED
    BY <2>5, <2>6 DEF Truthful
<1>11. ASSUME NEW p \in Procs, Promote(p) \/ Rename(p) \/ Sidecar(p) \/ Mirror(p) \/ Publish(p), ~Abandon(p)
       PROVE  Truthful'
  <2>1. /\ Acts(p) /\ pc[p] \in {"promote", "rename", "sidecar", "mirror", "publish"}
        /\ pc'[p] \in {"rename", "sidecar", "mirror", "publish", "replace"}
        /\ UNCHANGED <<pointer, journal, jr, job>>
    BY <1>11 DEF Acts, Step, Promote, Rename, Sidecar, Mirror, Publish, disk, Goto, TypeOK
  <2> QED
    BY <1>0, <2>1, Republishing DEF JournalFacts, Publishing
<1>12. ASSUME NEW p \in Procs, Replace(p) PROVE Truthful'
  <2>1. /\ Acts(p) /\ pc[p] = "replace" /\ pc'[p] = "committed" /\ pointer' = Meta(p)
        /\ UNCHANGED <<journal, jr, job>>
    BY <1>12 DEF Acts, Step, Replace, Goto, TypeOK
  <2>2. /\ Agree(jr[p].op, job[p]) /\ journal = jr[p] /\ jr[p].phase = "indexed"
    BY <1>0, <2>1 DEF JournalFacts, Publishing
  <2>3. Agree(pointer', jr[p].op)
    BY <2>1 DEF Meta, Agree
  <2>4. JournalFacts(p)'
    BY <2>1, <2>2, <2>3 DEF JournalFacts, Publishing, Agree
  <2>5. \A q \in Procs : q # p => JournalFacts(q)'
    BY <2>1, Sole DEF JournalFacts, Publishing
  <2>6. CommittedIsPublished'
    BY <2>1, <2>2 DEF CommittedIsPublished
  <2> QED
    BY <2>4, <2>5, <2>6 DEF Truthful
<1>13. CASE ReadPointer \/ ReadMeta \/ Open \/ Damage \/ UNCHANGED vars
  <2>1. UNCHANGED <<pointer, journal, pc, jr, job>>
    BY <1>13 DEF ReadPointer, ReadMeta, Open, Damage, vars, local, disk
  <2> QED
    BY <2>1 DEF Truthful, CommittedIsPublished, JournalFacts, Agree
<1>14. ASSUME NEW p \in Procs, Acts(p) PROVE Truthful'
  <2>1. CASE Abandon(p)
    BY <1>1, <1>14, <2>1
  <2>2. CASE ~Abandon(p)
    BY <1>2, <1>3, <1>4, <1>5, <1>6, <1>7, <1>8, <1>9, <1>10, <1>11, <1>12, <1>14, <2>2 DEF Acts, Step
  <2> QED
    BY <2>1, <2>2
<1> QED
  BY <1>13, <1>14 DEF Next, Acts

\* planContextOperationRecovery trusts a committed journal without a check.
\* In a serial store it may: through crashes, re-entries of the same operation
\* and abandoned publishes the pointer is then the operation's.
THEOREM CommittedJournalTrue == ASSUME Serial PROVE Spec => []CommittedIsPublished
<1>1. Init => Truthful
  BY DEF Init, Truthful, CommittedIsPublished, JournalFacts, Publishing, NoJournal
<1>2. Truthful => CommittedIsPublished
  BY DEF Truthful
<1>3. TypeOK /\ JournalReal /\ StoreInvariant /\ Truthful /\ [Next]_vars => Truthful'
  BY TruthfulStep
<1>4. Spec => [](TypeOK /\ JournalReal /\ StoreInvariant)
  BY StoreTyped, SerialStoreSafe, PTL
<1> QED
  BY <1>1, <1>2, <1>3, <1>4, PTL DEF Spec
=============================================================================
