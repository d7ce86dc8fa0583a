-------------------------- MODULE UpdateLockProofs --------------------------
(***************************************************************************)
(* The update lock for any number of processes and calls.                  *)
(***************************************************************************)
EXTENDS UpdateLock, TLAPS

-----------------------------------------------------------------------------
(* Types                                                                    *)

FileIds == Ids \cup {Nil}
Removals == [path : Files, id : FileIds, next : {"idle", "create"}]
InRemoval == {"rmRead", "rmRename", "rmSettle"}

\* A call draws at most three ids: this many are left at each step.
Budget(p) ==
    /\ pc[p] \in {"checkRecovery", "dropDead", "recover"} => ids[p] + 3 <= 3 * MaxCalls
    /\ pc[p] = "create" \/ (pc[p] \in InRemoval /\ rm[p].next = "create") =>
          /\ ids[p] + 1 <= 3 * MaxCalls
          /\ attempt[p] = 0 => ids[p] + 3 <= 3 * MaxCalls
    /\ pc[p] = "recover" => attempt[p] = 1
    /\ pc[p] \in {"judge", "rename", "settle"} => ids[p] + 1 <= 3 * MaxCalls /\ attempt[p] = 1

TypeInv == TypeOK /\ \A p \in Procs : Budget(p)

LEMMA IdFacts ==
  /\ Nil \notin Ids
  /\ \A t \in Ids : Owner(t) \in Procs \cup {Gone}
<1>1. Ids \subseteq (Procs \cup {Gone}) \X Nat
  BY UpdateLockAssumption DEF Ids
<1> QED
  BY <1>1, UpdateLockAssumption DEF Owner

LEMMA NewIdFacts ==
  ASSUME TypeOK, NEW p \in Procs, ids[p] + 1 <= 3 * MaxCalls
  PROVE  NewId(p) \in Ids /\ Owner(NewId(p)) = p /\ NewId(p) # Nil
<1>1. ids[p] + 1 \in 0..3 * MaxCalls
  BY UpdateLockAssumption DEF TypeOK
<1>2. NewId(p) \in Ids
  BY <1>1 DEF NewId, Ids
<1> QED
  BY <1>2, IdFacts DEF NewId, Owner

LEMMA TypeInit == Init => TypeInv
<1> SUFFICES ASSUME Init PROVE TypeInv
  OBVIOUS
<1>1. 0 \in 0..3 * MaxCalls /\ Left \subseteq Files
  BY UpdateLockAssumption
<1>2. <<Gone, 0>> \in Ids
  BY <1>1 DEF Ids
<1>3. file \in [Files -> Ids \cup {Nil}]
  BY <1>2 DEF Init
<1>4. /\ pc \in [Procs -> PCs] /\ attempt \in [Procs -> 0..1] /\ ids \in [Procs -> 0..3 * MaxCalls]
      /\ mine \in [Procs -> [Files -> Ids \cup {Nil}]]
      /\ seen \in [Procs -> Ids \cup {Nil}] /\ claim \in [Procs -> Ids \cup {Nil}]
  BY <1>1 DEF Init, PCs
<1>5. NoRm \in [path : Files, id : Ids \cup {Nil}, next : {"idle", "create"}]
  BY DEF NoRm, Files
<1>6. TypeOK
  BY <1>3, <1>4, <1>5 DEF Init, TypeOK
<1>7. \A p \in Procs : Budget(p)
  BY DEF Init, Budget, InRemoval
<1> QED
  BY <1>6, <1>7 DEF TypeInv

\* A step of p changes nobody else's variables.
LEMMA Others ==
  ASSUME TypeOK, NEW p \in Procs, Step(p), NEW q \in Procs, q # p
  PROVE  /\ pc'[q] = pc[q] /\ attempt'[q] = attempt[q] /\ ids'[q] = ids[q] /\ mine'[q] = mine[q]
         /\ seen'[q] = seen[q] /\ claim'[q] = claim[q] /\ rm'[q] = rm[q]
<1>1. pc'[q] = pc[q]
  BY DEF TypeOK, Step, Call, CheckRecovery, DropDead, Create, CreateTaken, Confirm, Release, Recover,
         Judge, Rename, Settle, RmRead, RmRename, RmSettle, Crash, Goto, Remove, EndRecovery, Leave
<1>2. attempt'[q] = attempt[q] /\ ids'[q] = ids[q] /\ mine'[q] = mine[q]
  BY DEF TypeOK, Step, Call, CheckRecovery, DropDead, Create, CreateTaken, Confirm, Release, Recover,
         Judge, Rename, Settle, RmRead, RmRename, RmSettle, Crash, Link
<1>3. seen'[q] = seen[q] /\ claim'[q] = claim[q]
  BY DEF TypeOK, Step, Call, CheckRecovery, DropDead, Create, CreateTaken, Confirm, Release, Recover,
         Judge, Rename, Settle, RmRead, RmRename, RmSettle, Crash
<1>4. rm'[q] = rm[q]
  BY DEF TypeOK, Step, Call, CheckRecovery, DropDead, Create, CreateTaken, Confirm, Release, Recover,
         Judge, Rename, Settle, RmRead, RmRename, RmSettle, Crash, Remove, EndRecovery, Leave
<1> QED
  BY <1>1, <1>2, <1>3, <1>4

\* What the helpers do.
LEMMA GotoFacts ==
  ASSUME TypeOK, NEW p \in Procs, NEW l \in PCs, Goto(p, l)
  PROVE  pc' \in [Procs -> PCs] /\ pc'[p] = l
  BY DEF TypeOK, Goto

LEMMA RemoveFacts ==
  ASSUME TypeOK, NEW p \in Procs, NEW f \in Files, NEW i \in FileIds, NEW n \in {"idle", "create"},
         Remove(p, f, i, n)
  PROVE  /\ pc' \in [Procs -> PCs] /\ pc'[p] = "rmRead"
         /\ rm' \in [Procs -> Removals] /\ rm'[p].path = f /\ rm'[p].id = i /\ rm'[p].next = n
<1> DEFINE r == [path |-> f, id |-> i, next |-> n]
<1>1. r \in Removals /\ r.path = f /\ r.id = i /\ r.next = n
  BY DEF Removals
<1>2. rm' = [rm EXCEPT ![p] = r] /\ pc' = [pc EXCEPT ![p] = "rmRead"]
  BY DEF Remove, Goto
<1> HIDE DEF r
<1>3. rm' \in [Procs -> Removals] /\ rm'[p] = r
  BY <1>1, <1>2 DEF TypeOK, Removals, FileIds
<1> QED
  BY <1>1, <1>2, <1>3 DEF TypeOK, PCs

LEMMA LeaveFacts ==
  ASSUME TypeOK, NEW p \in Procs, Leave(p)
  PROVE  /\ pc' \in [Procs -> PCs] /\ pc'[p] = rm[p].next /\ pc'[p] \in {"idle", "create"}
         /\ rm' \in [Procs -> Removals]
<1>1. NoRm \in Removals
  BY DEF NoRm, Removals, Files, FileIds
<1>2. rm[p].next \in {"idle", "create"}
  BY DEF TypeOK
<1> QED
  BY <1>1, <1>2 DEF TypeOK, PCs, Leave, Goto, Removals, FileIds

LEMMA LinkFacts ==
  ASSUME TypeOK, NEW p \in Procs, NEW f \in Files, Link(p, f), ids[p] + 1 <= 3 * MaxCalls
  PROVE  /\ file[f] = Nil /\ file' \in [Files -> FileIds] /\ file'[f] = NewId(p)
         /\ \A g \in Files : g # f => file'[g] = file[g]
         /\ mine' \in [Procs -> [Files -> FileIds]] /\ mine'[p][f] = NewId(p)
         /\ \A g \in Files : g # f => mine'[p][g] = mine[p][g]
         /\ ids' \in [Procs -> 0..3 * MaxCalls] /\ ids'[p] = ids[p] + 1
<1>1. NewId(p) \in FileIds
  BY NewIdFacts DEF FileIds
<1>2. /\ file[f] = Nil /\ file' = [file EXCEPT ![f] = NewId(p)]
      /\ mine' = [mine EXCEPT ![p][f] = NewId(p)] /\ ids' = [ids EXCEPT ![p] = ids[p] + 1]
  BY DEF Link
<1>3. /\ file' \in [Files -> FileIds] /\ file'[f] = NewId(p)
      /\ \A g \in Files : g # f => file'[g] = file[g]
  BY <1>1, <1>2 DEF TypeOK, FileIds
<1>4. ids[p] + 1 \in 0..3 * MaxCalls
  BY UpdateLockAssumption DEF TypeOK
<1>5. ids' \in [Procs -> 0..3 * MaxCalls] /\ ids'[p] = ids[p] + 1
  BY <1>2, <1>4 DEF TypeOK
<1> DEFINE m == [mine[p] EXCEPT ![f] = NewId(p)]
<1>6. /\ m \in [Files -> FileIds] /\ m[f] = NewId(p) /\ \A g \in Files : g # f => m[g] = mine[p][g]
  BY <1>1 DEF TypeOK, FileIds
<1>7. mine' = [mine EXCEPT ![p] = m]
  BY <1>2
<1> HIDE DEF m
<1>8. mine' \in [Procs -> [Files -> FileIds]] /\ mine'[p] = m
  BY <1>6, <1>7 DEF TypeOK, FileIds
<1> QED
  BY <1>2, <1>3, <1>5, <1>6, <1>8

LEMMA TypeStep == TypeInv /\ [Next]_vars => TypeInv'
<1> SUFFICES ASSUME TypeInv, [Next]_vars PROVE TypeInv'
  OBVIOUS
<1>0. TypeOK
  BY DEF TypeInv
<1>1. CASE UNCHANGED vars
  BY <1>1 DEF TypeInv, TypeOK, Budget, vars
<1>2. ASSUME NEW p \in Procs, Step(p) PROVE TypeInv'
  <2>0. Budget(p) /\ ids[p] \in Nat /\ MaxCalls \in Nat
    BY <1>0, UpdateLockAssumption DEF TypeInv, TypeOK
  <2>1. ASSUME Budget(p)', TypeOK' PROVE TypeInv'
    <3>1. ASSUME NEW q \in Procs, q # p PROVE Budget(q)'
      <4>1. pc'[q] = pc[q] /\ attempt'[q] = attempt[q] /\ ids'[q] = ids[q] /\ rm'[q] = rm[q]
        BY <1>0, <1>2, <3>1, Others
      <4> QED
        BY <4>1 DEF TypeInv, Budget
    <3> QED
      BY <2>1, <3>1 DEF TypeInv
  <2>2. PCs = {"idle", "checkRecovery", "dropDead", "create", "confirm", "held", "recover", "judge",
               "rename", "settle", "rmRead", "rmRename", "rmSettle", "dead"}
    BY DEF PCs
  <2>3. /\ "lock" \in Files /\ "recovery" \in Files
        /\ file["recovery"] \in FileIds /\ file["lock"] \in FileIds
        /\ mine[p]["lock"] \in FileIds /\ mine[p]["recovery"] \in FileIds
        /\ seen[p] \in FileIds /\ claim[p] \in FileIds /\ rm[p].path \in Files
    BY <1>0 DEF Files, FileIds, TypeOK
  <2>4. CASE Call(p)
    <3>1. /\ pc' \in [Procs -> PCs] /\ pc'[p] = "checkRecovery" /\ attempt' \in [Procs -> 0..1]
          /\ UNCHANGED <<file, ids, mine, seen, claim, rm>> /\ ids[p] <= 3 * (MaxCalls - 1)
      BY <1>0, <2>2, <2>4, GotoFacts DEF Call, TypeOK
    <3>2. ids[p] + 3 <= 3 * MaxCalls
      BY <2>0, <3>1
    <3> QED
      BY <1>0, <2>1, <3>1, <3>2 DEF TypeOK, Budget, InRemoval
  <2>5. CASE CheckRecovery(p)
    <3>1. /\ pc' \in [Procs -> PCs] /\ pc'[p] \in {"idle", "dropDead"} /\ pc[p] = "checkRecovery"
          /\ UNCHANGED <<file, attempt, ids, mine, seen, claim, rm>>
      BY <1>0, <2>2, <2>5, GotoFacts DEF CheckRecovery
    <3> QED
      BY <1>0, <2>0, <2>1, <3>1 DEF TypeOK, Budget, InRemoval
  <2>6. CASE DropDead(p)
    <3>1. UNCHANGED <<file, attempt, ids, mine, seen, claim>> /\ pc[p] = "dropDead"
      BY <2>6 DEF DropDead
    <3>2. /\ pc' \in [Procs -> PCs] /\ rm' \in [Procs -> Removals]
          /\ pc'[p] = "create" \/ (pc'[p] = "rmRead" /\ rm'[p].next = "create")
      <4>1. CASE Goto(p, "create") /\ UNCHANGED rm
        BY <1>0, <2>2, <4>1, GotoFacts DEF TypeOK, Removals, FileIds
      <4>2. CASE Remove(p, "recovery", file["recovery"], "create")
        BY <1>0, <2>3, <4>2, RemoveFacts
      <4> QED
        BY <2>6, <4>1, <4>2 DEF DropDead
    <3> QED
      BY <1>0, <2>0, <2>1, <3>1, <3>2 DEF TypeOK, Budget, InRemoval, Removals, FileIds
  <2>7. CASE Create(p)
    <3>1. pc[p] = "create" /\ Link(p, "lock") /\ UNCHANGED <<attempt, seen, claim, rm>>
          /\ pc' \in [Procs -> PCs] /\ pc'[p] = "confirm"
      BY <1>0, <2>2, <2>7, GotoFacts DEF Create
    <3>2. ids[p] + 1 <= 3 * MaxCalls
      BY <2>0, <3>1 DEF Budget
    <3>3. /\ file' \in [Files -> FileIds] /\ mine' \in [Procs -> [Files -> FileIds]]
          /\ ids' \in [Procs -> 0..3 * MaxCalls]
      BY <1>0, <2>3, <3>1, <3>2, LinkFacts
    <3> QED
      BY <1>0, <2>1, <3>1, <3>3 DEF TypeOK, Budget, InRemoval, FileIds
  <2>8. CASE CreateTaken(p)
    <3>1. /\ pc[p] = "create" /\ pc' \in [Procs -> PCs] /\ attempt' = [attempt EXCEPT ![p] = 1]
          /\ pc'[p] = IF attempt[p] = 0 THEN "recover" ELSE "idle"
          /\ UNCHANGED <<file, ids, mine, seen, claim, rm>>
      BY <1>0, <2>2, <2>8, GotoFacts DEF CreateTaken
    <3> QED
      BY <1>0, <2>0, <2>1, <3>1 DEF TypeOK, Budget, InRemoval
  <2>9. CASE Confirm(p) \/ Release(p)
    <3>1. UNCHANGED <<file, attempt, ids, mine, seen, claim>>
      BY <2>9 DEF Confirm, Release
    <3>2. /\ pc' \in [Procs -> PCs] /\ rm' \in [Procs -> Removals]
          /\ pc'[p] = "held" \/ (pc'[p] = "rmRead" /\ rm'[p].next = "idle")
      <4>1. CASE Goto(p, "held") /\ UNCHANGED rm
        BY <1>0, <2>2, <4>1, GotoFacts DEF TypeOK, Removals, FileIds
      <4>2. CASE Remove(p, "lock", mine[p]["lock"], "idle")
        BY <1>0, <2>3, <4>2, RemoveFacts
      <4> QED
        BY <2>9, <4>1, <4>2 DEF Confirm, Release
    <3> QED
      BY <1>0, <2>1, <3>1, <3>2 DEF TypeOK, Budget, InRemoval, Removals, FileIds
  <2>10. CASE Recover(p)
    <3>1. pc[p] = "recover" /\ UNCHANGED <<attempt, seen, claim, rm>>
      BY <2>10 DEF Recover
    <3>2. ids[p] + 3 <= 3 * MaxCalls /\ ids[p] + 1 <= 3 * MaxCalls
      BY <2>0, <3>1 DEF Budget
    <3>3. CASE Link(p, "recovery") /\ Goto(p, "judge")
      <4>1. /\ file' \in [Files -> FileIds] /\ mine' \in [Procs -> [Files -> FileIds]]
            /\ ids' \in [Procs -> 0..3 * MaxCalls] /\ ids'[p] = ids[p] + 1
            /\ pc' \in [Procs -> PCs] /\ pc'[p] = "judge"
        BY <1>0, <2>2, <2>3, <3>2, <3>3, LinkFacts, GotoFacts
      <4>2. attempt[p] = 1
        BY <2>0, <3>1 DEF Budget
      <4> QED
        BY <1>0, <2>0, <2>1, <3>1, <3>2, <4>1, <4>2 DEF TypeOK, Budget, InRemoval, FileIds
    <3>4. CASE Goto(p, "idle") /\ UNCHANGED <<file, mine, ids>>
      BY <1>0, <2>1, <2>2, <3>1, <3>4, GotoFacts DEF TypeOK, Budget, InRemoval
    <3> QED
      BY <2>10, <3>3, <3>4 DEF Recover
  <2>11. CASE Judge(p)
    <3>1. pc[p] = "judge" /\ UNCHANGED <<file, attempt, ids, mine, claim>>
      BY <2>11 DEF Judge
    <3>2. CASE EndRecovery(p, "idle") /\ UNCHANGED seen
      BY <1>0, <2>1, <2>3, <3>1, <3>2, RemoveFacts
         DEF EndRecovery, TypeOK, Budget, InRemoval, Removals, FileIds
    <3>3. CASE seen' = [seen EXCEPT ![p] = file["lock"]] /\ Goto(p, "rename") /\ UNCHANGED rm
      <4>1. seen' \in [Procs -> Ids \cup {Nil}] /\ pc' \in [Procs -> PCs] /\ pc'[p] = "rename"
        BY <1>0, <2>2, <2>3, <3>3, GotoFacts DEF TypeOK, FileIds
      <4> QED
        BY <1>0, <2>0, <2>1, <3>1, <3>3, <4>1 DEF TypeOK, Budget, InRemoval
    <3> QED
      BY <2>11, <3>2, <3>3 DEF Judge
  <2>12. CASE Rename(p)
    <3>1. pc[p] = "rename" /\ UNCHANGED <<attempt, ids, mine, seen>>
      BY <2>12 DEF Rename
    <3>2. CASE EndRecovery(p, "idle") /\ UNCHANGED <<file, claim>>
      BY <1>0, <2>1, <2>3, <3>1, <3>2, RemoveFacts
         DEF EndRecovery, TypeOK, Budget, InRemoval, Removals, FileIds
    <3>3. CASE /\ claim' = [claim EXCEPT ![p] = file["lock"]] /\ file' = [file EXCEPT !["lock"] = Nil]
               /\ Goto(p, "settle") /\ UNCHANGED rm
      <4>1. /\ claim' \in [Procs -> Ids \cup {Nil}] /\ file' \in [Files -> Ids \cup {Nil}]
            /\ pc' \in [Procs -> PCs] /\ pc'[p] = "settle"
        BY <1>0, <2>2, <2>3, <3>3, GotoFacts DEF TypeOK, FileIds
      <4> QED
        BY <1>0, <2>0, <2>1, <3>1, <3>3, <4>1 DEF TypeOK, Budget, InRemoval
    <3> QED
      BY <2>12, <3>2, <3>3 DEF Rename
  <2>13. CASE Settle(p)
    <3>1. /\ pc[p] = "settle" /\ UNCHANGED <<attempt, ids, mine>>
          /\ claim' = [claim EXCEPT ![p] = Nil] /\ seen' = [seen EXCEPT ![p] = Nil]
      BY <2>13 DEF Settle
    <3>2. file' \in [Files -> Ids \cup {Nil}]
      BY <1>0, <2>3, <2>13 DEF Settle, Restore, TypeOK, FileIds
    <3>3. \E n \in {"idle", "create"} : Remove(p, "recovery", mine[p]["recovery"], n)
      BY <2>13 DEF Settle, EndRecovery
    <3>4. pc' \in [Procs -> PCs] /\ pc'[p] = "rmRead" /\ rm' \in [Procs -> Removals]
      BY <1>0, <2>3, <3>3, RemoveFacts
    <3> QED
      BY <1>0, <2>0, <2>1, <3>1, <3>2, <3>4 DEF TypeOK, Budget, InRemoval, Removals, FileIds
  <2>14. CASE RmRead(p)
    <3>1. pc[p] = "rmRead" /\ UNCHANGED <<file, attempt, ids, mine, seen, claim>>
      BY <2>14 DEF RmRead
    <3>2. CASE Goto(p, "rmRename") /\ UNCHANGED rm
      BY <1>0, <2>0, <2>1, <2>2, <3>1, <3>2, GotoFacts DEF TypeOK, Budget, InRemoval
    <3>3. CASE Leave(p)
      BY <1>0, <2>0, <2>1, <3>1, <3>3, LeaveFacts DEF TypeOK, Budget, InRemoval, Removals, FileIds
    <3> QED
      BY <2>14, <3>2, <3>3 DEF RmRead
  <2>15. CASE RmRename(p)
    <3>1. pc[p] = "rmRename" /\ UNCHANGED <<attempt, ids, mine, seen>>
      BY <2>15 DEF RmRename
    <3>2. CASE /\ claim' = [claim EXCEPT ![p] = file[rm[p].path]]
               /\ file' = [file EXCEPT ![rm[p].path] = Nil]
               /\ Goto(p, "rmSettle") /\ UNCHANGED rm
      <4>1. /\ claim' \in [Procs -> Ids \cup {Nil}] /\ file' \in [Files -> Ids \cup {Nil}]
            /\ pc' \in [Procs -> PCs] /\ pc'[p] = "rmSettle"
        BY <1>0, <2>2, <2>3, <3>2, GotoFacts DEF TypeOK
      <4> QED
        BY <1>0, <2>0, <2>1, <3>1, <3>2, <4>1 DEF TypeOK, Budget, InRemoval
    <3>3. CASE Leave(p) /\ UNCHANGED <<file, claim>>
      BY <1>0, <2>0, <2>1, <3>1, <3>3, LeaveFacts DEF TypeOK, Budget, InRemoval, Removals, FileIds
    <3> QED
      BY <2>15, <3>2, <3>3 DEF RmRename
  <2>16. CASE RmSettle(p)
    <3>1. /\ pc[p] = "rmSettle" /\ UNCHANGED <<attempt, ids, mine, seen>> /\ Leave(p)
          /\ claim' = [claim EXCEPT ![p] = Nil]
      BY <2>16 DEF RmSettle
    <3>2. file' \in [Files -> Ids \cup {Nil}]
      BY <1>0, <2>3, <2>16 DEF RmSettle, Restore, TypeOK, FileIds
    <3> QED
      BY <1>0, <2>0, <2>1, <3>1, <3>2, LeaveFacts DEF TypeOK, Budget, InRemoval, Removals, FileIds
  <2>17. CASE Crash(p)
    BY <1>0, <2>1, <2>2, <2>17, GotoFacts DEF Crash, TypeOK, Budget, InRemoval
  <2> QED
    BY <1>2, <2>4, <2>5, <2>6, <2>7, <2>8, <2>9, <2>10, <2>11, <2>12, <2>13, <2>14, <2>15, <2>16, <2>17
       DEF Step
<1> QED
  BY <1>1, <1>2 DEF Next

-----------------------------------------------------------------------------
(* Who has which file                                                       *)

\* No recovery file of a dead process is ever seen: none was left, and no
\* process dies while its own exists.
Orderly == ~RecovererDies /\ "recovery" \notin Left

\* What the theorems assume: at most two updates run at the same time, or no
\* recoverer dies.  (With three processes and a dead recoverer's file the
\* lock can be caught while it is held.)
Calm == Orderly \/ \E a, b : Procs \subseteq {a, b}

Recovers(p) == pc[p] \in {"judge", "rename", "settle"}
Removing(p, f) == pc[p] \in InRemoval /\ rm[p].path = f
Removes(p, f) == pc[p] \in {"rmRead", "rmRename"} /\ rm[p].path = f

\* p's lock file is at the path, from its publication to its removal.
Has(p) == pc[p] \in {"confirm", "held"} \/ Removes(p, "lock")

MineOwned == \A p \in Procs, f \in Files : mine[p][f] # Nil => Owner(mine[p][f]) = p

LockPlaced ==
    /\ \A p \in Procs : Has(p) => mine[p]["lock"] # Nil /\ file["lock"] = mine[p]["lock"]
    /\ \A p \in Procs : file["lock"] # Nil /\ Owner(file["lock"]) = p /\ Alive(p) => Has(p)

\* Removing the lock catches the lock it is meant for.
LockRemoval ==
    \A p \in Procs : Removing(p, "lock") =>
        /\ rm[p].id = mine[p]["lock"]
        /\ pc[p] = "rmSettle" => claim[p] = rm[p].id

\* So does recovering it.
RecoveryCatches ==
    \A p \in Procs :
        /\ pc[p] = "rename" => /\ seen[p] # Nil /\ file["lock"] = seen[p]
                               /\ ~Alive(Owner(seen[p]))
        /\ pc[p] = "settle" => claim[p] = seen[p]

OneRecovers == \A p, q \in Procs : Recovers(p) /\ Recovers(q) => p = q

\* The recovery file of a recoverer is at its path, unless a late removal of
\* a dead one's file has caught it and is about to put it back, or died.
RecoveryPlaced ==
    \A p \in Procs : Recovers(p) =>
        /\ mine[p]["recovery"] # Nil
        /\ \/ file["recovery"] = mine[p]["recovery"]
           \/ \E q \in Procs \ {p} :
                 \/ pc[q] = "dead"
                 \/ /\ file["recovery"] = Nil /\ pc[q] = "rmSettle"
                    /\ rm[q].path = "recovery" /\ claim[q] = mine[p]["recovery"]

RecoveryRemoval ==
    \A p \in Procs : Removing(p, "recovery") =>
        rm[p].id # Nil /\ (Owner(rm[p].id) = p \/ ~Alive(Owner(rm[p].id)))

\* When no recoverer dies, only a recoverer's own file is ever removed.
OrderlyRecovery ==
    /\ file["recovery"] # Nil =>
          \E p \in Procs : (Recovers(p) \/ Removes(p, "recovery")) /\ file["recovery"] = mine[p]["recovery"]
    /\ \A p \in Procs : Recovers(p) \/ Removes(p, "recovery") =>
          mine[p]["recovery"] # Nil /\ file["recovery"] = mine[p]["recovery"]
    /\ \A p \in Procs : Removing(p, "recovery") =>
          rm[p].id = mine[p]["recovery"] /\ (pc[p] = "rmSettle" => claim[p] = rm[p].id)

LockInv ==
    /\ TypeInv /\ MineOwned /\ LockPlaced /\ LockRemoval /\ RecoveryCatches /\ OneRecovers
    /\ RecoveryPlaced /\ RecoveryRemoval
    /\ Orderly => OrderlyRecovery

-----------------------------------------------------------------------------
(* What a step leaves alone                                                 *)

Neutral == {"idle", "checkRecovery", "dropDead", "create", "recover"}

\* A step of p keeps every other process's variables and everybody's life.
Frame(p) ==
    /\ \A q \in Procs : q # p =>
          /\ pc'[q] = pc[q] /\ mine'[q] = mine[q] /\ seen'[q] = seen[q]
          /\ claim'[q] = claim[q] /\ rm'[q] = rm[q]
    /\ \A x \in Procs \cup {Gone} : Alive(x)' <=> Alive(x)

LEMMA FrameFacts ==
  ASSUME TypeOK, NEW p \in Procs, Step(p), pc'[p] # "dead"
  PROVE  Frame(p) /\ pc[p] # "dead" /\ Alive(p) /\ Alive(p)'
<1>1. \A q \in Procs : q # p =>
          /\ pc'[q] = pc[q] /\ mine'[q] = mine[q] /\ seen'[q] = seen[q]
          /\ claim'[q] = claim[q] /\ rm'[q] = rm[q]
  BY Others
<1>2. pc[p] # "dead"
  BY DEF Step, Call, CheckRecovery, DropDead, Create, CreateTaken, Confirm, Release, Recover,
         Judge, Rename, Settle, RmRead, RmRename, RmSettle, Crash
<1>3. p # Gone
  BY UpdateLockAssumption
<1>4. \A x \in Procs \cup {Gone} : Alive(x)' <=> Alive(x)
  BY <1>1, <1>2 DEF Alive
<1> QED
  BY <1>1, <1>2, <1>3, <1>4 DEF Frame, Alive

\* Owners of files are processes.
LEMMA Owners ==
  ASSUME TypeOK
  PROVE  /\ \A f \in Files : file[f] \in FileIds /\ (file[f] # Nil => Owner(file[f]) \in Procs \cup {Gone})
         /\ \A q \in Procs :
               /\ \A f \in Files : mine[q][f] \in FileIds
               /\ seen[q] # Nil => Owner(seen[q]) \in Procs \cup {Gone}
               /\ rm[q].id # Nil => Owner(rm[q].id) \in Procs \cup {Gone}
  BY IdFacts DEF TypeOK, FileIds

\* A step between two places where nothing is published or removed.
LEMMA NeutralStep ==
  ASSUME LockInv, TypeInv', NEW p \in Procs, Frame(p),
         pc[p] \in Neutral, pc'[p] \in Neutral, UNCHANGED <<file, mine, seen, claim, rm>>
  PROVE  LockInv'
<1>0. TypeOK /\ (\A x \in Procs \cup {Gone} : Alive(x)' <=> Alive(x)) /\ "lock" \in Files
  BY DEF LockInv, TypeInv, Frame, Files
<1>1. \A q \in Procs :
         /\ Has(q)' <=> Has(q)
         /\ Recovers(q)' <=> Recovers(q)
         /\ \A f \in Files : (Removing(q, f)' <=> Removing(q, f)) /\ (Removes(q, f)' <=> Removes(q, f))
         /\ \A l \in {"rename", "settle", "rmSettle", "dead"} : pc'[q] = l <=> pc[q] = l
  BY DEF Frame, Has, Recovers, Removing, Removes, InRemoval, Neutral
<1>2. MineOwned'
  BY DEF LockInv, MineOwned
<1>3. LockPlaced'
  BY <1>0, <1>1 DEF LockInv, LockPlaced
<1>4. LockRemoval'
  BY <1>0, <1>1 DEF LockInv, LockRemoval
<1>5. RecoveryCatches'
  BY <1>0, <1>1, Owners DEF LockInv, RecoveryCatches
<1>6. OneRecovers'
  BY <1>1 DEF LockInv, OneRecovers
<1>7. RecoveryPlaced'
  BY <1>1 DEF LockInv, RecoveryPlaced
<1>8. RecoveryRemoval'
  BY <1>0, <1>1, Owners DEF LockInv, RecoveryRemoval, Files
<1>9. Orderly => OrderlyRecovery'
  BY <1>1 DEF LockInv, OrderlyRecovery, Files
<1> QED
  BY <1>2, <1>3, <1>4, <1>5, <1>6, <1>7, <1>8, <1>9 DEF LockInv

LEMMA OthersSame ==
  ASSUME NEW p \in Procs, Frame(p)
  PROVE  /\ \A x \in Procs \cup {Gone} : Alive(x)' <=> Alive(x)
         /\ \A q \in Procs : q # p =>
               /\ Has(q)' <=> Has(q)
               /\ Recovers(q)' <=> Recovers(q)
               /\ \A f \in Files : (Removing(q, f)' <=> Removing(q, f)) /\ (Removes(q, f)' <=> Removes(q, f))
               /\ pc'[q] = pc[q] /\ mine'[q] = mine[q] /\ seen'[q] = seen[q]
               /\ claim'[q] = claim[q] /\ rm'[q] = rm[q]
  BY DEF Frame, Has, Recovers, Removing, Removes, InRemoval

\* Publishing the lock.
LEMMA CreateStep ==
  ASSUME LockInv, TypeInv', NEW p \in Procs, Frame(p), NEW n, n # Nil, Owner(n) = p,
         pc[p] = "create", pc'[p] = "confirm",
         file["lock"] = Nil, file'["lock"] = n, file'["recovery"] = file["recovery"],
         mine'[p]["lock"] = n, mine'[p]["recovery"] = mine[p]["recovery"],
         UNCHANGED <<seen, claim, rm>>
  PROVE  LockInv'
<1>0. TypeOK /\ Files = {"lock", "recovery"}
  BY DEF LockInv, TypeInv, Files
<1>1. /\ Has(p)' /\ ~Recovers(p)' /\ ~Recovers(p) /\ \A f \in Files : ~Removing(p, f)' /\ ~Removes(p, f)' /\ ~Removes(p, f)
  BY DEF Has, Recovers, Removing, Removes, InRemoval
<1>2. MineOwned'
  BY <1>0, OthersSame DEF LockInv, MineOwned
<1>3. LockPlaced'
  BY <1>0, <1>1, OthersSame DEF LockInv, LockPlaced
<1>4. LockRemoval'
  BY <1>0, <1>1, OthersSame DEF LockInv, LockRemoval
<1>5. RecoveryCatches'
  BY <1>0, <1>1, OthersSame DEF LockInv, RecoveryCatches
<1>6. OneRecovers'
  BY <1>1, OthersSame DEF LockInv, OneRecovers
<1>7. RecoveryPlaced'
  BY <1>1, OthersSame DEF LockInv, RecoveryPlaced
<1>8. RecoveryRemoval'
  BY <1>0, <1>1, OthersSame, Owners DEF LockInv, RecoveryRemoval
<1>9. Orderly => OrderlyRecovery'
  BY <1>0, <1>1, OthersSame DEF LockInv, OrderlyRecovery
<1> QED
  BY <1>2, <1>3, <1>4, <1>5, <1>6, <1>7, <1>8, <1>9 DEF LockInv

\* Publishing the recovery file.
LEMMA RecoverStep ==
  ASSUME Calm, LockInv, TypeInv', NEW p \in Procs, Frame(p), NEW n, n # Nil, Owner(n) = p,
         pc[p] = "recover", pc'[p] = "judge",
         file["recovery"] = Nil, file'["recovery"] = n, file'["lock"] = file["lock"],
         mine'[p]["recovery"] = n, mine'[p]["lock"] = mine[p]["lock"],
         UNCHANGED <<seen, claim, rm>>
  PROVE  LockInv'
<1>0. TypeOK /\ Files = {"lock", "recovery"}
  BY DEF LockInv, TypeInv, Files
<1>1. /\ Recovers(p)' /\ ~Has(p)' /\ ~Has(p)
      /\ \A f \in Files : ~Removing(p, f)' /\ ~Removes(p, f)' /\ ~Removes(p, f)
  BY DEF Has, Recovers, Removing, Removes, InRemoval
<1>2. ASSUME NEW q \in Procs, Recovers(q) PROVE FALSE
  <2>1. CASE Orderly
    BY <1>2, <2>1 DEF LockInv, OrderlyRecovery
  <2>2. CASE \E a, b : Procs \subseteq {a, b}
    <3>1. q # p
      BY <1>2 DEF Recovers
    <3>2. PICK r \in Procs \ {q} : pc[r] = "dead" \/ pc[r] = "rmSettle"
      BY <1>2 DEF LockInv, RecoveryPlaced
    <3> QED
      BY <2>2, <3>1, <3>2
  <2> QED
    BY <2>1, <2>2 DEF Calm
<1>3. MineOwned'
  BY <1>0, OthersSame DEF LockInv, MineOwned
<1>4. LockPlaced'
  BY <1>0, <1>1, OthersSame DEF LockInv, LockPlaced
<1>5. LockRemoval'
  BY <1>0, <1>1, OthersSame DEF LockInv, LockRemoval
<1>6. RecoveryCatches'
  BY <1>0, <1>1, OthersSame, Owners DEF LockInv, RecoveryCatches
<1>7. OneRecovers'
  BY <1>1, <1>2, OthersSame DEF OneRecovers
<1>8. RecoveryPlaced'
  BY <1>1, <1>2, OthersSame DEF RecoveryPlaced
<1>9. RecoveryRemoval'
  BY <1>0, <1>1, OthersSame, Owners DEF LockInv, RecoveryRemoval
<1>10. Orderly => OrderlyRecovery'
  BY <1>0, <1>1, <1>2, OthersSame DEF LockInv, OrderlyRecovery
<1> QED
  BY <1>3, <1>4, <1>5, <1>6, <1>7, <1>8, <1>9, <1>10 DEF LockInv

\* Keeping the lock just published.
LEMMA ConfirmStep ==
  ASSUME LockInv, TypeInv', NEW p \in Procs, Frame(p),
         pc[p] = "confirm", pc'[p] = "held", UNCHANGED <<file, mine, seen, claim, rm>>
  PROVE  LockInv'
<1>0. TypeOK /\ Files = {"lock", "recovery"} /\ p # Gone
  BY UpdateLockAssumption DEF LockInv, TypeInv, Files
<1>1. /\ Has(p)' /\ Has(p) /\ ~Recovers(p)' /\ ~Recovers(p)
      /\ \A f \in Files : ~Removing(p, f)' /\ ~Removes(p, f)' /\ ~Removes(p, f)
  BY DEF Has, Recovers, Removing, Removes, InRemoval
<1>2. MineOwned'
  BY <1>0, <1>1, OthersSame DEF LockInv, MineOwned
<1>3. LockPlaced'
  BY <1>0, <1>1, OthersSame DEF LockInv, LockPlaced
<1>4. LockRemoval'
  BY <1>0, <1>1, OthersSame DEF LockInv, LockRemoval
<1>5. RecoveryCatches'
  BY <1>0, <1>1, OthersSame, Owners DEF LockInv, RecoveryCatches
<1>6. OneRecovers'
  BY <1>0, <1>1, OthersSame DEF LockInv, OneRecovers
<1>7. RecoveryPlaced'
  BY <1>0, <1>1, OthersSame DEF LockInv, RecoveryPlaced
<1>8. RecoveryRemoval'
  BY <1>0, <1>1, OthersSame, Owners DEF LockInv, RecoveryRemoval
<1>9. Orderly => OrderlyRecovery'
  BY <1>0, <1>1, OthersSame DEF LockInv, OrderlyRecovery
<1> QED
  BY <1>2, <1>3, <1>4, <1>5, <1>6, <1>7, <1>8, <1>9 DEF LockInv

\* Starting to remove the own lock.
LEMMA EndLockStep ==
  ASSUME LockInv, TypeInv', NEW p \in Procs, Frame(p),
         pc[p] \in {"confirm", "held"}, pc'[p] = "rmRead", rm'[p].path = "lock",
         rm'[p].id = mine[p]["lock"], UNCHANGED <<file, mine, seen, claim>>
  PROVE  LockInv'
<1>0. TypeOK /\ Files = {"lock", "recovery"} /\ p # Gone
  BY UpdateLockAssumption DEF LockInv, TypeInv, Files
<1>1. /\ Has(p)' /\ Has(p) /\ ~Recovers(p)' /\ ~Recovers(p)
      /\ ~Removing(p, "recovery")' /\ ~Removes(p, "recovery")' /\ ~Removes(p, "recovery")
      /\ Removing(p, "lock")'
  BY DEF Has, Recovers, Removing, Removes, InRemoval
<1>2. MineOwned'
  BY <1>0, <1>1, OthersSame DEF LockInv, MineOwned
<1>3. LockPlaced'
  BY <1>0, <1>1, OthersSame DEF LockInv, LockPlaced
<1>4. LockRemoval'
  BY <1>0, <1>1, OthersSame DEF LockInv, LockRemoval
<1>5. RecoveryCatches'
  BY <1>0, <1>1, OthersSame, Owners DEF LockInv, RecoveryCatches
<1>6. OneRecovers'
  BY <1>0, <1>1, OthersSame DEF LockInv, OneRecovers
<1>7. RecoveryPlaced'
  BY <1>0, <1>1, OthersSame DEF LockInv, RecoveryPlaced
<1>8. RecoveryRemoval'
  BY <1>0, <1>1, OthersSame, Owners DEF LockInv, RecoveryRemoval
<1>9. Orderly => OrderlyRecovery'
  BY <1>0, <1>1, OthersSame DEF LockInv, OrderlyRecovery
<1> QED
  BY <1>2, <1>3, <1>4, <1>5, <1>6, <1>7, <1>8, <1>9 DEF LockInv

\* Starting to remove the own recovery file.
LEMMA EndRecoveryStep ==
  ASSUME LockInv, TypeInv', NEW p \in Procs, Frame(p),
         Recovers(p), pc'[p] = "rmRead", rm'[p].path = "recovery",
         rm'[p].id = mine[p]["recovery"], UNCHANGED <<file, mine>>
  PROVE  LockInv'
<1>0. TypeOK /\ Files = {"lock", "recovery"} /\ p # Gone
  BY UpdateLockAssumption DEF LockInv, TypeInv, Files
<1>1. /\ ~Has(p)' /\ ~Has(p) /\ ~Recovers(p)'
      /\ ~Removing(p, "lock")' /\ ~Removes(p, "lock")'
      /\ Removing(p, "recovery")' /\ Removes(p, "recovery")'
  BY DEF Has, Recovers, Removing, Removes, InRemoval
<1>2. MineOwned'
  BY <1>0, <1>1, OthersSame DEF LockInv, MineOwned
<1>3. LockPlaced'
  BY <1>0, <1>1, OthersSame DEF LockInv, LockPlaced
<1>4. LockRemoval'
  BY <1>0, <1>1, OthersSame DEF LockInv, LockRemoval
<1>5. RecoveryCatches'
  BY <1>0, <1>1, OthersSame, Owners DEF LockInv, RecoveryCatches
<1>6. OneRecovers'
  BY <1>0, <1>1, OthersSame DEF LockInv, OneRecovers
<1>7. RecoveryPlaced'
  BY <1>0, <1>1, OthersSame DEF LockInv, RecoveryPlaced, OneRecovers
<1>8. RecoveryRemoval'
  BY <1>0, <1>1, OthersSame, Owners DEF LockInv, RecoveryRemoval, RecoveryPlaced, MineOwned
<1>9. Orderly => OrderlyRecovery'
  BY <1>0, <1>1, OthersSame DEF LockInv, OrderlyRecovery
<1> QED
  BY <1>2, <1>3, <1>4, <1>5, <1>6, <1>7, <1>8, <1>9 DEF LockInv

\* Starting to remove a dead process's recovery file.
LEMMA DropDeadStep ==
  ASSUME LockInv, TypeInv', NEW p \in Procs, Frame(p),
         pc[p] = "dropDead", pc'[p] = "rmRead", rm'[p].path = "recovery",
         rm'[p].id = file["recovery"], file["recovery"] # Nil, ~Alive(Owner(file["recovery"])),
         UNCHANGED <<file, mine, seen, claim>>
  PROVE  LockInv'
<1>0. TypeOK /\ Files = {"lock", "recovery"} /\ p # Gone
  BY UpdateLockAssumption DEF LockInv, TypeInv, Files
<1>1. /\ ~Has(p)' /\ ~Has(p) /\ ~Recovers(p)' /\ ~Recovers(p)
      /\ ~Removing(p, "lock")' /\ ~Removes(p, "lock")'
  BY DEF Has, Recovers, Removing, Removes, InRemoval
<1>2. ~Orderly
  <2> SUFFICES ASSUME Orderly PROVE FALSE
    OBVIOUS
  <2>1. PICK q \in Procs : (Recovers(q) \/ Removes(q, "recovery")) /\ file["recovery"] = mine[q]["recovery"]
    BY DEF LockInv, OrderlyRecovery
  <2>2. Owner(file["recovery"]) = q
    BY <1>0, <2>1 DEF LockInv, MineOwned
  <2>3. pc[q] # "dead" /\ q # Gone
    BY <2>1, UpdateLockAssumption DEF Recovers, Removes
  <2> QED
    BY <2>2, <2>3 DEF Alive
<1>3. MineOwned'
  BY <1>0, <1>1, <1>2, OthersSame DEF LockInv, MineOwned
<1>4. LockPlaced'
  BY <1>0, <1>1, <1>2, OthersSame DEF LockInv, LockPlaced
<1>5. LockRemoval'
  BY <1>0, <1>1, <1>2, OthersSame DEF LockInv, LockRemoval
<1>6. RecoveryCatches'
  BY <1>0, <1>1, <1>2, OthersSame, Owners DEF LockInv, RecoveryCatches
<1>7. OneRecovers'
  BY <1>0, <1>1, <1>2, OthersSame DEF LockInv, OneRecovers
<1>8. RecoveryPlaced'
  BY <1>0, <1>1, <1>2, OthersSame DEF LockInv, RecoveryPlaced
<1>9. RecoveryRemoval'
  BY <1>0, <1>1, <1>2, OthersSame, Owners DEF LockInv, RecoveryRemoval
<1>10. Orderly => OrderlyRecovery'
  BY <1>0, <1>1, <1>2, OthersSame DEF LockInv, OrderlyRecovery
<1> QED
  BY <1>3, <1>4, <1>5, <1>6, <1>7, <1>8, <1>9, <1>10 DEF LockInv

\* Finding the owner of the lock dead.
LEMMA JudgeStep ==
  ASSUME LockInv, TypeInv', NEW p \in Procs, Frame(p),
         pc[p] = "judge", pc'[p] = "rename", file["lock"] # Nil, ~Alive(Owner(file["lock"])),
         seen'[p] = file["lock"], UNCHANGED <<file, mine, claim, rm>>
  PROVE  LockInv'
<1>0. TypeOK /\ Files = {"lock", "recovery"} /\ p # Gone
  BY UpdateLockAssumption DEF LockInv, TypeInv, Files
<1>1. /\ ~Has(p)' /\ ~Has(p) /\ Recovers(p)' /\ Recovers(p)
      /\ \A f \in Files : ~Removing(p, f)' /\ ~Removes(p, f)' /\ ~Removes(p, f)
  BY DEF Has, Recovers, Removing, Removes, InRemoval
<1>2. MineOwned'
  BY <1>0, <1>1, OthersSame DEF LockInv, MineOwned
<1>3. LockPlaced'
  BY <1>0, <1>1, OthersSame DEF LockInv, LockPlaced
<1>4. LockRemoval'
  BY <1>0, <1>1, OthersSame DEF LockInv, LockRemoval
<1>5. RecoveryCatches'
  BY <1>0, <1>1, OthersSame, Owners DEF LockInv, RecoveryCatches
<1>6. OneRecovers'
  BY <1>0, <1>1, OthersSame DEF LockInv, OneRecovers
<1>7. RecoveryPlaced'
  BY <1>0, <1>1, OthersSame DEF LockInv, RecoveryPlaced
<1>8. RecoveryRemoval'
  BY <1>0, <1>1, OthersSame, Owners DEF LockInv, RecoveryRemoval
<1>9. Orderly => OrderlyRecovery'
  BY <1>0, <1>1, OthersSame DEF LockInv, OrderlyRecovery
<1> QED
  BY <1>2, <1>3, <1>4, <1>5, <1>6, <1>7, <1>8, <1>9 DEF LockInv

\* Catching the lock of the dead owner.
LEMMA RenameStep ==
  ASSUME LockInv, TypeInv', NEW p \in Procs, Frame(p),
         pc[p] = "rename", pc'[p] = "settle", claim'[p] = file["lock"],
         file'["lock"] = Nil, file'["recovery"] = file["recovery"], UNCHANGED <<mine, seen, rm>>
  PROVE  LockInv'
<1>0. TypeOK /\ Files = {"lock", "recovery"} /\ p # Gone
  BY UpdateLockAssumption DEF LockInv, TypeInv, Files
<1>1. /\ ~Has(p)' /\ ~Has(p) /\ Recovers(p)' /\ Recovers(p)
      /\ \A f \in Files : ~Removing(p, f)' /\ ~Removes(p, f)' /\ ~Removes(p, f)
  BY DEF Has, Recovers, Removing, Removes, InRemoval
<1>2. \A q \in Procs : ~Has(q)
  <2> SUFFICES ASSUME NEW q \in Procs, Has(q) PROVE FALSE
    OBVIOUS
  <2>1. Owner(file["lock"]) = q
    BY <1>0 DEF LockInv, LockPlaced, MineOwned
  <2>2. pc[q] # "dead" /\ q # Gone
    BY UpdateLockAssumption DEF Has, Removes
  <2>3. ~Alive(Owner(file["lock"]))
    BY DEF LockInv, RecoveryCatches
  <2> QED
    BY <2>1, <2>2, <2>3 DEF Alive
<1>3. MineOwned'
  BY <1>0, <1>1, <1>2, OthersSame DEF LockInv, MineOwned
<1>4. LockPlaced'
  BY <1>0, <1>1, <1>2, OthersSame DEF LockInv, LockPlaced
<1>5. LockRemoval'
  BY <1>0, <1>1, <1>2, OthersSame DEF LockInv, LockRemoval
<1>6. RecoveryCatches'
  BY <1>0, <1>1, OthersSame, Owners DEF LockInv, RecoveryCatches, OneRecovers, Recovers
<1>7. OneRecovers'
  BY <1>0, <1>1, <1>2, OthersSame DEF LockInv, OneRecovers
<1>8. RecoveryPlaced'
  BY <1>0, <1>1, <1>2, OthersSame DEF LockInv, RecoveryPlaced
<1>9. RecoveryRemoval'
  BY <1>0, <1>1, <1>2, OthersSame, Owners DEF LockInv, RecoveryRemoval
<1>10. Orderly => OrderlyRecovery'
  BY <1>0, <1>1, <1>2, OthersSame DEF LockInv, OrderlyRecovery
<1> QED
  BY <1>3, <1>4, <1>5, <1>6, <1>7, <1>8, <1>9, <1>10 DEF LockInv

\* Finding the file to remove.
LEMMA RmReadStep ==
  ASSUME LockInv, TypeInv', NEW p \in Procs, Frame(p),
         pc[p] = "rmRead", pc'[p] = "rmRename", UNCHANGED <<file, mine, seen, claim, rm>>
  PROVE  LockInv'
<1>0. TypeOK /\ Files = {"lock", "recovery"} /\ p # Gone
  BY UpdateLockAssumption DEF LockInv, TypeInv, Files
<1>1. /\ (Has(p)' <=> Has(p)) /\ ~Recovers(p)' /\ ~Recovers(p)
      /\ \A f \in Files : (Removing(p, f)' <=> Removing(p, f)) /\ (Removes(p, f)' <=> Removes(p, f))
  BY DEF Has, Recovers, Removing, Removes, InRemoval
<1>2. MineOwned'
  BY <1>0, <1>1, OthersSame DEF LockInv, MineOwned
<1>3. LockPlaced'
  BY <1>0, <1>1, OthersSame DEF LockInv, LockPlaced
<1>4. LockRemoval'
  BY <1>0, <1>1, OthersSame DEF LockInv, LockRemoval
<1>5. RecoveryCatches'
  BY <1>0, <1>1, OthersSame, Owners DEF LockInv, RecoveryCatches
<1>6. OneRecovers'
  BY <1>0, <1>1, OthersSame DEF LockInv, OneRecovers
<1>7. RecoveryPlaced'
  BY <1>0, <1>1, OthersSame DEF LockInv, RecoveryPlaced
<1>8. RecoveryRemoval'
  BY <1>0, <1>1, OthersSame, Owners DEF LockInv, RecoveryRemoval
<1>9. Orderly => OrderlyRecovery'
  BY <1>0, <1>1, OthersSame DEF LockInv, OrderlyRecovery
<1> QED
  BY <1>2, <1>3, <1>4, <1>5, <1>6, <1>7, <1>8, <1>9 DEF LockInv

\* Leaving a removal whose file is not there: only a recovery file can be missing.
LEMMA RmLeaveStep ==
  ASSUME LockInv, TypeInv', NEW p \in Procs, Frame(p),
         pc[p] \in {"rmRead", "rmRename"}, pc'[p] \in {"idle", "create"}, file[rm[p].path] # rm[p].id,
         UNCHANGED <<file, mine, seen, claim>>
  PROVE  LockInv'
<1>0. TypeOK /\ Files = {"lock", "recovery"} /\ p # Gone
  BY UpdateLockAssumption DEF LockInv, TypeInv, Files
<1>1. ~Recovers(p)' /\ ~Recovers(p) /\ ~Has(p)' /\ \A f \in Files : ~Removing(p, f)' /\ ~Removes(p, f)'
  BY DEF Has, Recovers, Removing, Removes, InRemoval
<1>2. rm[p].path = "recovery" /\ ~Orderly
  <2>1. rm[p].path \in Files
    BY <1>0 DEF TypeOK
  <2>2. rm[p].path # "lock"
    BY DEF LockInv, LockRemoval, LockPlaced, Has, Removes, Removing, InRemoval
  <2>3. rm[p].path = "recovery"
    BY <1>0, <2>1, <2>2
  <2> QED
    BY <2>3 DEF LockInv, OrderlyRecovery, Removes, Removing, InRemoval
<1>3. ~Has(p)
  BY <1>2 DEF Has, Removes
<1>4. MineOwned'
  BY <1>0, <1>1, <1>2, <1>3, OthersSame DEF LockInv, MineOwned
<1>5. LockPlaced'
  BY <1>0, <1>1, <1>2, <1>3, OthersSame DEF LockInv, LockPlaced
<1>6. LockRemoval'
  BY <1>0, <1>1, <1>2, <1>3, OthersSame DEF LockInv, LockRemoval
<1>7. RecoveryCatches'
  BY <1>0, <1>1, <1>2, <1>3, OthersSame, Owners DEF LockInv, RecoveryCatches
<1>8. OneRecovers'
  BY <1>0, <1>1, <1>2, <1>3, OthersSame DEF LockInv, OneRecovers
<1>9. RecoveryPlaced'
  BY <1>0, <1>1, <1>2, <1>3, OthersSame DEF LockInv, RecoveryPlaced
<1>10. RecoveryRemoval'
  BY <1>0, <1>1, <1>2, <1>3, OthersSame, Owners DEF LockInv, RecoveryRemoval
<1>11. Orderly => OrderlyRecovery'
  BY <1>0, <1>1, <1>2, <1>3, OthersSame DEF LockInv, OrderlyRecovery
<1> QED
  BY <1>4, <1>5, <1>6, <1>7, <1>8, <1>9, <1>10, <1>11 DEF LockInv

\* Catching the own lock.
LEMMA RmLockStep ==
  ASSUME LockInv, TypeInv', NEW p \in Procs, Frame(p),
         pc[p] = "rmRename", rm[p].path = "lock", pc'[p] = "rmSettle", claim'[p] = file["lock"],
         file'["lock"] = Nil, file'["recovery"] = file["recovery"], UNCHANGED <<mine, seen, rm>>
  PROVE  LockInv'
<1>0. TypeOK /\ Files = {"lock", "recovery"} /\ p # Gone
  BY UpdateLockAssumption DEF LockInv, TypeInv, Files
<1>1. /\ ~Has(p)' /\ Has(p) /\ ~Recovers(p)' /\ ~Recovers(p)
      /\ Removing(p, "lock") /\ Removing(p, "lock")'
      /\ ~Removing(p, "recovery")' /\ ~Removes(p, "recovery")' /\ ~Removes(p, "recovery")
  BY DEF Has, Recovers, Removing, Removes, InRemoval
<1>2. Owner(file["lock"]) = p /\ Alive(p) /\ file["lock"] = mine[p]["lock"]
  BY <1>0, <1>1 DEF LockInv, LockPlaced, MineOwned, Alive
<1>3. \A q \in Procs : q # p => ~Has(q)
  BY <1>0, <1>2 DEF LockInv, LockPlaced, MineOwned
<1>4. MineOwned'
  BY <1>0, <1>1, <1>2, <1>3, OthersSame DEF LockInv, MineOwned
<1>5. LockPlaced'
  BY <1>0, <1>1, <1>2, <1>3, OthersSame DEF LockInv, LockPlaced
<1>6. LockRemoval'
  BY <1>0, <1>1, <1>2, <1>3, OthersSame DEF LockInv, LockRemoval
<1>7. RecoveryCatches'
  BY <1>0, <1>1, <1>2, <1>3, OthersSame, Owners DEF LockInv, RecoveryCatches
<1>8. OneRecovers'
  BY <1>0, <1>1, <1>2, <1>3, OthersSame DEF LockInv, OneRecovers
<1>9. RecoveryPlaced'
  BY <1>0, <1>1, <1>2, <1>3, OthersSame DEF LockInv, RecoveryPlaced
<1>10. RecoveryRemoval'
  BY <1>0, <1>1, <1>2, <1>3, OthersSame, Owners DEF LockInv, RecoveryRemoval
<1>11. Orderly => OrderlyRecovery'
  BY <1>0, <1>1, <1>2, <1>3, OthersSame DEF LockInv, OrderlyRecovery
<1> QED
  BY <1>4, <1>5, <1>6, <1>7, <1>8, <1>9, <1>10, <1>11 DEF LockInv

\* Discarding the own lock.
LEMMA RmSettleLockStep ==
  ASSUME LockInv, TypeInv', NEW p \in Procs, Frame(p),
         pc[p] = "rmSettle", rm[p].path = "lock", pc'[p] \in {"idle", "create"},
         UNCHANGED <<file, mine, seen>>
  PROVE  LockInv'
<1>0. TypeOK /\ Files = {"lock", "recovery"} /\ p # Gone
  BY UpdateLockAssumption DEF LockInv, TypeInv, Files
<1>1. /\ ~Has(p)' /\ ~Has(p) /\ ~Recovers(p)' /\ ~Recovers(p)
      /\ \A f \in Files : ~Removing(p, f)' /\ ~Removes(p, f)' /\ ~Removes(p, f)
  BY DEF Has, Recovers, Removing, Removes, InRemoval
<1>2. MineOwned'
  BY <1>0, <1>1, OthersSame DEF LockInv, MineOwned
<1>3. LockPlaced'
  BY <1>0, <1>1, OthersSame DEF LockInv, LockPlaced
<1>4. LockRemoval'
  BY <1>0, <1>1, OthersSame DEF LockInv, LockRemoval
<1>5. RecoveryCatches'
  BY <1>0, <1>1, OthersSame, Owners DEF LockInv, RecoveryCatches
<1>6. OneRecovers'
  BY <1>0, <1>1, OthersSame DEF LockInv, OneRecovers
<1>7. RecoveryPlaced'
  BY <1>0, <1>1, OthersSame DEF LockInv, RecoveryPlaced
<1>8. RecoveryRemoval'
  BY <1>0, <1>1, OthersSame, Owners DEF LockInv, RecoveryRemoval
<1>9. Orderly => OrderlyRecovery'
  BY <1>0, <1>1, OthersSame DEF LockInv, OrderlyRecovery
<1> QED
  BY <1>2, <1>3, <1>4, <1>5, <1>6, <1>7, <1>8, <1>9 DEF LockInv

\* Catching whatever recovery file is there.
LEMMA RmRecoveryStep ==
  ASSUME LockInv, TypeInv', NEW p \in Procs, Frame(p),
         pc[p] = "rmRename", rm[p].path = "recovery", pc'[p] = "rmSettle", file["recovery"] # Nil,
         claim'[p] = file["recovery"], file'["recovery"] = Nil, file'["lock"] = file["lock"],
         UNCHANGED <<mine, seen, rm>>
  PROVE  LockInv'
<1>0. TypeOK /\ Files = {"lock", "recovery"} /\ p # Gone
  BY UpdateLockAssumption DEF LockInv, TypeInv, Files
<1>1. /\ ~Has(p)' /\ ~Has(p) /\ ~Recovers(p)' /\ ~Recovers(p)
      /\ Removing(p, "recovery") /\ Removing(p, "recovery")' /\ Removes(p, "recovery")
      /\ ~Removes(p, "recovery")' /\ ~Removing(p, "lock")' /\ ~Removes(p, "lock")'
  BY DEF Has, Recovers, Removing, Removes, InRemoval
<1>2. MineOwned'
  BY <1>0, <1>1, OthersSame DEF LockInv, MineOwned
<1>3. LockPlaced'
  BY <1>0, <1>1, OthersSame DEF LockInv, LockPlaced
<1>4. LockRemoval'
  BY <1>0, <1>1, OthersSame DEF LockInv, LockRemoval
<1>5. RecoveryCatches'
  BY <1>0, <1>1, OthersSame, Owners DEF LockInv, RecoveryCatches
<1>6. OneRecovers'
  BY <1>0, <1>1, OthersSame DEF LockInv, OneRecovers
<1>7. RecoveryPlaced'
  BY <1>0, <1>1, OthersSame DEF LockInv, RecoveryPlaced
<1>8. RecoveryRemoval'
  BY <1>0, <1>1, OthersSame, Owners DEF LockInv, RecoveryRemoval
<1>9. Orderly => OrderlyRecovery'
  BY <1>0, <1>1, OthersSame DEF LockInv, OrderlyRecovery, MineOwned
<1> QED
  BY <1>2, <1>3, <1>4, <1>5, <1>6, <1>7, <1>8, <1>9 DEF LockInv

\* Discarding the recovery file that was meant.
LEMMA RmDiscardStep ==
  ASSUME LockInv, TypeInv', NEW p \in Procs, Frame(p),
         pc[p] = "rmSettle", rm[p].path = "recovery", pc'[p] \in {"idle", "create"},
         claim[p] = rm[p].id, UNCHANGED <<file, mine, seen>>
  PROVE  LockInv'
<1>0. TypeOK /\ Files = {"lock", "recovery"} /\ p # Gone
  BY UpdateLockAssumption DEF LockInv, TypeInv, Files
<1>1. /\ ~Has(p)' /\ ~Has(p) /\ ~Recovers(p)' /\ ~Recovers(p) /\ Removing(p, "recovery")
      /\ \A f \in Files : ~Removing(p, f)' /\ ~Removes(p, f)' /\ ~Removes(p, f)
  BY DEF Has, Recovers, Removing, Removes, InRemoval
<1>2. \A q \in Procs : Recovers(q) => claim[p] # mine[q]["recovery"]
  <2> SUFFICES ASSUME NEW q \in Procs, Recovers(q), claim[p] = mine[q]["recovery"] PROVE FALSE
    OBVIOUS
  <2>1. Owner(rm[p].id) = q
    BY <1>0 DEF LockInv, RecoveryPlaced, MineOwned
  <2>2. q # p /\ Alive(q)
    BY <1>1, UpdateLockAssumption DEF Recovers, Alive
  <2> QED
    BY <1>1, <2>1, <2>2 DEF LockInv, RecoveryRemoval
<1>3. MineOwned'
  BY <1>0, <1>1, <1>2, OthersSame DEF LockInv, MineOwned
<1>4. LockPlaced'
  BY <1>0, <1>1, <1>2, OthersSame DEF LockInv, LockPlaced
<1>5. LockRemoval'
  BY <1>0, <1>1, <1>2, OthersSame DEF LockInv, LockRemoval
<1>6. RecoveryCatches'
  BY <1>0, <1>1, <1>2, OthersSame, Owners DEF LockInv, RecoveryCatches
<1>7. OneRecovers'
  BY <1>0, <1>1, <1>2, OthersSame DEF LockInv, OneRecovers
<1>8. RecoveryPlaced'
  BY <1>0, <1>1, <1>2, OthersSame DEF LockInv, RecoveryPlaced
<1>9. RecoveryRemoval'
  BY <1>0, <1>1, <1>2, OthersSame, Owners DEF LockInv, RecoveryRemoval
<1>10. Orderly => OrderlyRecovery'
  BY <1>0, <1>1, <1>2, OthersSame DEF LockInv, OrderlyRecovery
<1> QED
  BY <1>3, <1>4, <1>5, <1>6, <1>7, <1>8, <1>9, <1>10 DEF LockInv

\* Putting a recovery file back that was not meant.
LEMMA RmRestoreStep ==
  ASSUME Calm, LockInv, TypeInv', NEW p \in Procs, Frame(p),
         pc[p] = "rmSettle", rm[p].path = "recovery", pc'[p] \in {"idle", "create"},
         claim[p] # rm[p].id, file'["lock"] = file["lock"],
         file'["recovery"] = IF file["recovery"] = Nil THEN claim[p] ELSE file["recovery"],
         UNCHANGED <<mine, seen>>
  PROVE  LockInv'
<1>0. TypeOK /\ Files = {"lock", "recovery"} /\ p # Gone
  BY UpdateLockAssumption DEF LockInv, TypeInv, Files
<1>1. /\ ~Has(p)' /\ ~Has(p) /\ ~Recovers(p)' /\ ~Recovers(p) /\ Removing(p, "recovery")
      /\ \A f \in Files : ~Removing(p, f)' /\ ~Removes(p, f)' /\ ~Removes(p, f)
  BY DEF Has, Recovers, Removing, Removes, InRemoval
<1>2. ~Orderly /\ \E a, b : Procs \subseteq {a, b}
  BY <1>1 DEF Calm, LockInv, OrderlyRecovery
<1>3. MineOwned'
  BY <1>0, <1>1, <1>2, OthersSame DEF LockInv, MineOwned
<1>4. LockPlaced'
  BY <1>0, <1>1, <1>2, OthersSame DEF LockInv, LockPlaced
<1>5. LockRemoval'
  BY <1>0, <1>1, <1>2, OthersSame DEF LockInv, LockRemoval
<1>6. RecoveryCatches'
  BY <1>0, <1>1, <1>2, OthersSame, Owners DEF LockInv, RecoveryCatches
<1>7. OneRecovers'
  BY <1>0, <1>1, <1>2, OthersSame DEF LockInv, OneRecovers
<1>8. RecoveryPlaced'
  <2> SUFFICES ASSUME NEW q \in Procs, Recovers(q)'
               PROVE  /\ mine'[q]["recovery"] # Nil
                      /\ file'["recovery"] = mine'[q]["recovery"] \/ \E r \in Procs \ {q} : pc'[r] = "dead"
    BY DEF RecoveryPlaced
  <2>1. q # p /\ Recovers(q) /\ mine[q]["recovery"] # Nil /\ pc[p] # "dead"
    BY <1>1, OthersSame DEF LockInv, RecoveryPlaced
  <2>2. CASE file["recovery"] = mine[q]["recovery"]
    BY <2>1, <2>2
  <2>3. ASSUME NEW r \in Procs \ {q}, pc[r] = "dead" PROVE pc'[r] = "dead"
    BY <2>1, <2>3, OthersSame
  <2>4. ASSUME NEW r \in Procs \ {q}, file["recovery"] = Nil, pc[r] = "rmSettle",
               claim[r] = mine[q]["recovery"]
        PROVE  file'["recovery"] = mine'[q]["recovery"]
    <3>1. r = p
      BY <1>2, <2>1
    <3> QED
      BY <2>4, <3>1
  <2> QED
    BY <2>1, <2>2, <2>3, <2>4 DEF LockInv, RecoveryPlaced
<1>9. RecoveryRemoval'
  BY <1>0, <1>1, <1>2, OthersSame, Owners DEF LockInv, RecoveryRemoval
<1>10. Orderly => OrderlyRecovery'
  BY <1>0, <1>1, <1>2, OthersSame DEF LockInv, OrderlyRecovery
<1> QED
  BY <1>3, <1>4, <1>5, <1>6, <1>7, <1>8, <1>9, <1>10 DEF LockInv


\* Dying.
LEMMA CrashStep ==
  ASSUME LockInv, TypeInv', NEW p \in Procs, Crash(p), Step(p)
  PROVE  LockInv'
<1>0. TypeOK /\ Files = {"lock", "recovery"} /\ p # Gone
  BY UpdateLockAssumption DEF LockInv, TypeInv, Files
<1>1. /\ pc'[p] = "dead" /\ UNCHANGED <<file, mine, seen, claim, rm>>
      /\ RecovererDies \/ file["recovery"] = Nil \/ file["recovery"] # mine[p]["recovery"]
  BY <1>0, GotoFacts DEF Crash, PCs
<1>2. \A q \in Procs : q # p => pc'[q] = pc[q]
  BY <1>0, Others
<1>3. \A x \in Procs \cup {Gone} : (Alive(x)' => Alive(x)) /\ (x # p => (Alive(x)' <=> Alive(x)))
  BY <1>0, <1>1, <1>2 DEF Alive
<1>4. \A q \in Procs : q # p =>
         /\ (Has(q)' <=> Has(q)) /\ (Recovers(q)' <=> Recovers(q))
         /\ \A f \in Files : (Removing(q, f)' <=> Removing(q, f)) /\ (Removes(q, f)' <=> Removes(q, f))
  BY <1>1, <1>2 DEF Has, Recovers, Removing, Removes, InRemoval
<1>5. /\ ~Has(p)' /\ ~Recovers(p)' /\ ~Alive(p)'
      /\ \A f \in Files : ~Removing(p, f)' /\ ~Removes(p, f)'
  BY <1>1 DEF Has, Recovers, Removing, Removes, InRemoval, Alive
<1>6. MineOwned'
  BY <1>1 DEF LockInv, MineOwned
<1>7. LockPlaced'
  BY <1>1, <1>3, <1>4, <1>5 DEF LockInv, LockPlaced
<1>8. LockRemoval'
  BY <1>0, <1>1, <1>2, <1>4, <1>5 DEF LockInv, LockRemoval
<1>9. RecoveryCatches'
  BY <1>0, <1>1, <1>2, <1>3, Owners DEF LockInv, RecoveryCatches
<1>10. OneRecovers'
  BY <1>4, <1>5 DEF LockInv, OneRecovers
<1>11. RecoveryPlaced'
  <2> SUFFICES ASSUME NEW q \in Procs, Recovers(q)'
               PROVE  /\ mine[q]["recovery"] # Nil
                      /\ \/ file["recovery"] = mine[q]["recovery"]
                         \/ \E r \in Procs \ {q} :
                               \/ pc'[r] = "dead"
                               \/ /\ file["recovery"] = Nil /\ pc'[r] = "rmSettle"
                                  /\ rm[r].path = "recovery" /\ claim[r] = mine[q]["recovery"]
    BY <1>1 DEF RecoveryPlaced
  <2>1. q # p /\ Recovers(q)
    BY <1>4, <1>5
  <2> QED
    BY <1>1, <1>2, <2>1 DEF LockInv, RecoveryPlaced
<1>12. RecoveryRemoval'
  BY <1>0, <1>1, <1>3, <1>4, <1>5, Owners DEF LockInv, RecoveryRemoval
<1>13. Orderly => OrderlyRecovery'
  BY <1>0, <1>1, <1>2, <1>4, <1>5 DEF LockInv, OrderlyRecovery, Orderly
<1> QED
  BY <1>6, <1>7, <1>8, <1>9, <1>10, <1>11, <1>12, <1>13 DEF LockInv

-----------------------------------------------------------------------------
(* The invariant                                                            *)

LEMMA LockInit == Init => LockInv
<1> SUFFICES ASSUME Init PROVE LockInv
  OBVIOUS
<1>0. TypeInv /\ Files = {"lock", "recovery"}
  BY TypeInit DEF Files
<1>1. \A q \in Procs : pc[q] = "idle" /\ mine[q]["lock"] = Nil /\ mine[q]["recovery"] = Nil
  BY <1>0 DEF Init
<1>2. \A q \in Procs : ~Has(q) /\ ~Recovers(q) /\ \A f \in Files : ~Removing(q, f) /\ ~Removes(q, f)
  BY <1>1 DEF Has, Recovers, Removing, Removes, InRemoval
<1>3. \A f \in Files : file[f] # Nil => f \in Left /\ Owner(file[f]) = Gone
  BY DEF Init, Owner
<1>4. MineOwned
  BY <1>0, <1>1 DEF MineOwned
<1>5. LockPlaced
  BY <1>0, <1>2, <1>3 DEF LockPlaced, Alive
<1>6. LockRemoval /\ RecoveryRemoval
  BY <1>0, <1>2 DEF LockRemoval, RecoveryRemoval
<1>7. RecoveryCatches
  BY <1>1 DEF RecoveryCatches
<1>8. OneRecovers /\ RecoveryPlaced
  BY <1>2 DEF OneRecovers, RecoveryPlaced
<1>9. Orderly => OrderlyRecovery
  BY <1>0, <1>2, <1>3 DEF Orderly, OrderlyRecovery
<1> QED
  BY <1>0, <1>4, <1>5, <1>6, <1>7, <1>8, <1>9 DEF LockInv

LEMMA LockStep == Calm /\ LockInv /\ [Next]_vars => LockInv'
<1> SUFFICES ASSUME Calm, LockInv, [Next]_vars PROVE LockInv'
  OBVIOUS
<1>0. TypeOK /\ TypeInv /\ TypeInv'
  BY TypeStep DEF LockInv, TypeInv
<1>1. CASE UNCHANGED vars
  <2>1. \A q \in Procs :
           /\ (Has(q)' <=> Has(q)) /\ (Recovers(q)' <=> Recovers(q))
           /\ \A f \in Files : (Removing(q, f)' <=> Removing(q, f)) /\ (Removes(q, f)' <=> Removes(q, f))
    BY <1>1 DEF vars, Has, Recovers, Removing, Removes, InRemoval
  <2>2. UNCHANGED <<file, pc, mine, seen, claim, rm>>
    BY <1>1 DEF vars
  <2>3. MineOwned' /\ LockPlaced' /\ LockRemoval' /\ OneRecovers'
    BY <2>1, <2>2 DEF LockInv, MineOwned, LockPlaced, LockRemoval, OneRecovers, Alive, Files
  <2>4. RecoveryCatches' /\ RecoveryRemoval'
    BY <2>1, <2>2 DEF LockInv, RecoveryCatches, RecoveryRemoval, Alive, Files
  <2>5. RecoveryPlaced' /\ (Orderly => OrderlyRecovery')
    BY <2>1, <2>2 DEF LockInv, RecoveryPlaced, OrderlyRecovery, Files
  <2> QED
    BY <1>0, <2>3, <2>4, <2>5 DEF LockInv
<1>2. ASSUME NEW p \in Procs, Step(p) PROVE LockInv'
  <2>1. CASE Crash(p)
    BY <1>0, <1>2, <2>1, CrashStep
  <2>2. Budget(p) /\ PCs = {"idle", "checkRecovery", "dropDead", "create", "confirm", "held", "recover",
                "judge", "rename", "settle", "rmRead", "rmRename", "rmSettle", "dead"}
    BY <1>0 DEF PCs, TypeInv
  <2>3. /\ "lock" \in Files /\ "recovery" \in Files
        /\ file["recovery"] \in FileIds /\ file["lock"] \in FileIds
        /\ mine[p]["lock"] \in FileIds /\ mine[p]["recovery"] \in FileIds
        /\ rm[p].path \in {"lock", "recovery"}
    BY <1>0 DEF Files, FileIds, TypeOK
  <2>4. ASSUME pc'[p] # "dead" PROVE Frame(p)
    BY <1>0, <1>2, <2>4, FrameFacts
  <2>5. CASE Call(p) \/ CheckRecovery(p) \/ CreateTaken(p)
    <3>1. pc[p] \in Neutral /\ pc'[p] \in Neutral /\ UNCHANGED <<file, mine, seen, claim, rm>>
      BY <1>0, <2>2, <2>5, GotoFacts DEF Call, CheckRecovery, CreateTaken, Neutral
    <3>2. pc'[p] # "dead"
      BY <3>1 DEF Neutral
    <3> QED
      BY <1>0, <2>4, <3>1, <3>2, NeutralStep
  <2>6. CASE DropDead(p)
    <3>1. pc[p] = "dropDead" /\ UNCHANGED <<file, mine, seen, claim>>
      BY <2>6 DEF DropDead
    <3>2. CASE Goto(p, "create") /\ UNCHANGED rm
      <4>1. pc'[p] = "create"
        BY <1>0, <2>2, <3>2, GotoFacts
      <4>2. pc[p] \in Neutral /\ pc'[p] \in Neutral
        BY <3>1, <4>1 DEF Neutral
      <4> QED
        BY <1>0, <2>4, <3>1, <3>2, <4>1, <4>2, NeutralStep
    <3>3. CASE /\ file["recovery"] # Nil /\ ~OwnedLockIsLive("recovery")
               /\ Remove(p, "recovery", file["recovery"], "create")
      <4>1. pc'[p] = "rmRead" /\ rm'[p].path = "recovery" /\ rm'[p].id = file["recovery"]
        BY <1>0, <2>3, <3>3, RemoveFacts
      <4>2. file["recovery"] # Nil /\ ~Alive(Owner(file["recovery"]))
        BY <3>3 DEF OwnedLockIsLive
      <4> QED
        BY <1>0, <2>4, <3>1, <4>1, <4>2, DropDeadStep
    <3> QED
      BY <2>6, <3>2, <3>3 DEF DropDead
  <2>7. CASE Create(p)
    <3>1. pc[p] = "create" /\ Link(p, "lock") /\ pc'[p] = "confirm" /\ UNCHANGED <<seen, claim, rm>>
      BY <1>0, <2>2, <2>7, GotoFacts DEF Create
    <3>2. ids[p] + 1 <= 3 * MaxCalls
      BY <2>2, <3>1 DEF Budget
    <3>3. /\ file["lock"] = Nil /\ file'["lock"] = NewId(p) /\ file'["recovery"] = file["recovery"]
          /\ mine'[p]["lock"] = NewId(p) /\ mine'[p]["recovery"] = mine[p]["recovery"]
      BY <1>0, <2>3, <3>1, <3>2, LinkFacts
    <3>4. NewId(p) # Nil /\ Owner(NewId(p)) = p
      BY <1>0, <3>2, NewIdFacts
    <3> QED
      BY <1>0, <2>4, <3>1, <3>3, <3>4, CreateStep
  <2>8. CASE Confirm(p) \/ Release(p)
    <3>1. pc[p] \in {"confirm", "held"} /\ UNCHANGED <<file, mine, seen, claim>>
      BY <2>8 DEF Confirm, Release
    <3>2. CASE pc[p] = "confirm" /\ Goto(p, "held") /\ UNCHANGED rm
      <4>1. pc'[p] = "held"
        BY <1>0, <2>2, <3>2, GotoFacts
      <4> QED
        BY <1>0, <2>4, <3>1, <3>2, <4>1, ConfirmStep
    <3>3. CASE Remove(p, "lock", mine[p]["lock"], "idle")
      <4>1. pc'[p] = "rmRead" /\ rm'[p].path = "lock" /\ rm'[p].id = mine[p]["lock"]
        BY <1>0, <2>3, <3>3, RemoveFacts
      <4> QED
        BY <1>0, <2>4, <3>1, <4>1, EndLockStep
    <3> QED
      BY <2>8, <3>2, <3>3 DEF Confirm, Release
  <2>9. CASE Recover(p)
    <3>1. pc[p] = "recover" /\ UNCHANGED <<seen, claim, rm>>
      BY <2>9 DEF Recover
    <3>2. CASE Goto(p, "idle") /\ UNCHANGED <<file, mine, ids>>
      <4>1. pc'[p] = "idle"
        BY <1>0, <2>2, <3>2, GotoFacts
      <4>2. pc[p] \in Neutral /\ pc'[p] \in Neutral
        BY <3>1, <4>1 DEF Neutral
      <4> QED
        BY <1>0, <2>4, <3>1, <3>2, <4>1, <4>2, NeutralStep
    <3>3. CASE Link(p, "recovery") /\ Goto(p, "judge")
      <4>1. ids[p] + 1 <= 3 * MaxCalls /\ ids[p] \in Nat /\ MaxCalls \in Nat
        BY <1>0, <2>2, <3>1, UpdateLockAssumption DEF Budget, TypeOK
      <4>2. /\ file["recovery"] = Nil /\ file'["recovery"] = NewId(p) /\ file'["lock"] = file["lock"]
            /\ mine'[p]["recovery"] = NewId(p) /\ mine'[p]["lock"] = mine[p]["lock"]
        BY <1>0, <2>3, <3>3, <4>1, LinkFacts
      <4>3. NewId(p) # Nil /\ Owner(NewId(p)) = p
        BY <1>0, <4>1, NewIdFacts
      <4>4. pc'[p] = "judge"
        BY <1>0, <2>2, <3>3, GotoFacts
      <4> QED
        BY <1>0, <2>4, <3>1, <4>2, <4>3, <4>4, RecoverStep
    <3> QED
      BY <2>9, <3>2, <3>3 DEF Recover
  <2>10. ASSUME Recovers(p), NEW n \in {"idle", "create"}, EndRecovery(p, n), UNCHANGED <<file, mine>>
         PROVE  LockInv'
    <3>1. pc'[p] = "rmRead" /\ rm'[p].path = "recovery" /\ rm'[p].id = mine[p]["recovery"]
      BY <1>0, <2>3, <2>10, RemoveFacts DEF EndRecovery
    <3> QED
      BY <1>0, <2>4, <2>10, <3>1, EndRecoveryStep
  <2>11. CASE Judge(p)
    <3>1. pc[p] = "judge" /\ Recovers(p) /\ UNCHANGED <<file, mine, claim>>
      BY <2>11 DEF Judge, Recovers
    <3>2. CASE EndRecovery(p, "idle")
      BY <2>10, <3>1, <3>2
    <3>3. CASE /\ file["lock"] # Nil /\ ~OwnedLockIsLive("lock")
               /\ seen' = [seen EXCEPT ![p] = file["lock"]] /\ Goto(p, "rename") /\ UNCHANGED rm
      <4>1. pc'[p] = "rename" /\ seen'[p] = file["lock"] /\ ~Alive(Owner(file["lock"]))
        BY <1>0, <2>2, <3>3, GotoFacts DEF OwnedLockIsLive, TypeOK
      <4> QED
        BY <1>0, <2>4, <3>1, <3>3, <4>1, JudgeStep
    <3> QED
      BY <2>11, <3>2, <3>3 DEF Judge
  <2>12. CASE Rename(p)
    <3>1. pc[p] = "rename" /\ Recovers(p) /\ UNCHANGED <<mine, seen>>
      BY <2>12 DEF Rename, Recovers
    <3>2. CASE EndRecovery(p, "idle") /\ UNCHANGED file
      BY <2>10, <3>1, <3>2
    <3>3. CASE /\ claim' = [claim EXCEPT ![p] = file["lock"]] /\ file' = [file EXCEPT !["lock"] = Nil]
               /\ Goto(p, "settle") /\ UNCHANGED rm
      <4>1. /\ pc'[p] = "settle" /\ claim'[p] = file["lock"] /\ file'["lock"] = Nil
            /\ file'["recovery"] = file["recovery"]
        BY <1>0, <2>2, <2>3, <3>3, GotoFacts DEF TypeOK
      <4> QED
        BY <1>0, <2>4, <3>1, <3>3, <4>1, RenameStep
    <3> QED
      BY <2>12, <3>2, <3>3 DEF Rename
  <2>13. CASE Settle(p)
    <3>1. pc[p] = "settle" /\ Recovers(p) /\ UNCHANGED mine
      BY <2>13 DEF Settle, Recovers
    <3>2. claim[p] = seen[p]
      BY <3>1 DEF LockInv, RecoveryCatches
    <3>3. EndRecovery(p, "create") /\ UNCHANGED file
      BY <2>13, <3>2 DEF Settle
    <3> QED
      BY <2>10, <3>1, <3>3
  <2>14. CASE RmRead(p)
    <3>1. pc[p] = "rmRead" /\ UNCHANGED <<file, mine, seen, claim>>
      BY <2>14 DEF RmRead
    <3>2. CASE Goto(p, "rmRename") /\ UNCHANGED rm
      <4>1. pc'[p] = "rmRename"
        BY <1>0, <2>2, <3>2, GotoFacts
      <4> QED
        BY <1>0, <2>4, <3>1, <3>2, <4>1, RmReadStep
    <3>3. CASE file[rm[p].path] # rm[p].id /\ Leave(p)
      <4>1. pc'[p] \in {"idle", "create"}
        BY <1>0, <3>3, LeaveFacts
      <4> QED
        BY <1>0, <2>4, <3>1, <3>3, <4>1, RmLeaveStep
    <3> QED
      BY <2>14, <3>2, <3>3 DEF RmRead
  <2>15. CASE RmRename(p)
    <3>1. pc[p] = "rmRename" /\ UNCHANGED <<mine, seen>>
      BY <2>15 DEF RmRename
    <3>2. CASE file[rm[p].path] = Nil /\ Leave(p) /\ UNCHANGED <<file, claim>>
      <4>1. pc'[p] \in {"idle", "create"}
        BY <1>0, <3>2, LeaveFacts
      <4>2. rm[p].path = "lock" => file["lock"] # Nil
        BY <3>1 DEF LockInv, LockPlaced, Has, Removes
      <4>3. rm[p].path = "recovery" => rm[p].id # Nil
        BY <3>1 DEF LockInv, RecoveryRemoval, Removing, InRemoval
      <4>4. file[rm[p].path] # rm[p].id
        BY <2>3, <3>2, <4>2, <4>3
      <4> QED
        BY <1>0, <2>4, <3>1, <3>2, <4>1, <4>4, RmLeaveStep
    <3>3. CASE /\ file[rm[p].path] # Nil
               /\ claim' = [claim EXCEPT ![p] = file[rm[p].path]]
               /\ file' = [file EXCEPT ![rm[p].path] = Nil]
               /\ Goto(p, "rmSettle") /\ UNCHANGED rm
      <4>1. pc'[p] = "rmSettle" /\ claim'[p] = file[rm[p].path]
        BY <1>0, <2>2, <3>3, GotoFacts DEF TypeOK
      <4>2. CASE rm[p].path = "lock"
        <5>1. file'["lock"] = Nil /\ file'["recovery"] = file["recovery"]
          BY <1>0, <2>3, <3>3, <4>2 DEF TypeOK
        <5> QED
          BY <1>0, <2>4, <3>1, <3>3, <4>1, <4>2, <5>1, RmLockStep
      <4>3. CASE rm[p].path = "recovery"
        <5>1. file'["recovery"] = Nil /\ file'["lock"] = file["lock"]
          BY <1>0, <2>3, <3>3, <4>3 DEF TypeOK
        <5> QED
          BY <1>0, <2>4, <3>1, <3>3, <4>1, <4>3, <5>1, RmRecoveryStep
      <4> QED
        BY <2>3, <4>2, <4>3
    <3> QED
      BY <2>15, <3>2, <3>3 DEF RmRename
  <2>16. CASE RmSettle(p)
    <3>1. pc[p] = "rmSettle" /\ UNCHANGED <<mine, seen>> /\ Leave(p)
      BY <2>16 DEF RmSettle
    <3>2. pc'[p] \in {"idle", "create"}
      BY <1>0, <3>1, LeaveFacts
    <3>3. CASE rm[p].path = "lock"
      <4>1. claim[p] = rm[p].id
        BY <3>1, <3>3 DEF LockInv, LockRemoval, Removing, InRemoval
      <4>2. UNCHANGED file
        BY <2>16, <4>1 DEF RmSettle
      <4> QED
        BY <1>0, <2>4, <3>1, <3>2, <3>3, <4>2, RmSettleLockStep
    <3>4. CASE rm[p].path = "recovery" /\ claim[p] = rm[p].id
      <4>1. UNCHANGED file
        BY <2>16, <3>4 DEF RmSettle
      <4> QED
        BY <1>0, <2>4, <3>1, <3>2, <3>4, <4>1, RmDiscardStep
    <3>5. CASE rm[p].path = "recovery" /\ claim[p] # rm[p].id
      <4>1. file' = [file EXCEPT !["recovery"] = IF @ = Nil THEN claim[p] ELSE @]
        BY <2>16, <3>5 DEF RmSettle, Restore
      <4>2. /\ file'["lock"] = file["lock"]
            /\ file'["recovery"] = IF file["recovery"] = Nil THEN claim[p] ELSE file["recovery"]
        BY <1>0, <2>3, <4>1 DEF TypeOK
      <4> QED
        BY <1>0, <2>4, <3>1, <3>2, <3>5, <4>2, RmRestoreStep
    <3> QED
      BY <2>3, <3>3, <3>4, <3>5
  <2> QED
    BY <1>2, <2>1, <2>5, <2>6, <2>7, <2>8, <2>9, <2>11, <2>12, <2>13, <2>14, <2>15, <2>16 DEF Step
<1> QED
  BY <1>1, <1>2 DEF Next

-----------------------------------------------------------------------------
(* Theorems                                                                 *)

\* The types hold however the processes die: three ids are enough for a call.
THEOREM LockTypes == Spec => []TypeOK
<1>1. TypeInv => TypeOK
  BY DEF TypeInv
<1> QED
  BY TypeInit, TypeStep, <1>1, PTL DEF Spec

\* acquireUpdateOperationLock, recoverDeadUpdateOperationLock and
\* removeOwnedLock, interleaved file operation by file operation: with two
\* processes, or with any number of them when no recoverer dies, the lock of
\* a running update stays at its path.
THEOREM HeldLockStays == Calm => (Spec => []LockInvariant)
<1> SUFFICES ASSUME Calm PROVE Spec => []LockInvariant
  OBVIOUS
<1>1. LockInv /\ [Next]_vars => LockInv'
  BY LockStep
<1>2. LockInv => LockInvariant
  BY DEF LockInv, TypeInv, LockPlaced, Has, LockInvariant, HeldLockInPlace
<1> QED
  BY LockInit, <1>1, <1>2, PTL DEF Spec

\* So two updates never run at the same time.
THEOREM OneUpdateRuns == Calm => (Spec => []MutualExclusion)
<1> SUFFICES ASSUME Calm PROVE Spec => []MutualExclusion
  OBVIOUS
<1>1. LockInv /\ [Next]_vars => LockInv'
  BY LockStep
<1>2. ASSUME LockInv, NEW p \in Procs, NEW q \in Procs, pc[p] = "held", pc[q] = "held"
      PROVE  p = q
  <2>1. /\ mine[p]["lock"] # Nil /\ file["lock"] = mine[p]["lock"]
        /\ mine[q]["lock"] # Nil /\ file["lock"] = mine[q]["lock"]
    BY <1>2 DEF LockInv, LockPlaced, Has
  <2> QED
    BY <1>2, <2>1 DEF LockInv, MineOwned, Files
<1>3. LockInv => MutualExclusion
  BY <1>2 DEF MutualExclusion
<1> QED
  BY LockInit, <1>1, <1>3, PTL DEF Spec

\* No call ends, refused, interrupted by a recovery or released, with its
\* lock still at the path while its process lives on.
THEOREM LockGone == Calm => (Spec => []NoLockLeftBehind)
<1> SUFFICES ASSUME Calm PROVE Spec => []NoLockLeftBehind
  OBVIOUS
<1>1. LockInv /\ [Next]_vars => LockInv'
  BY LockStep
<1>2. ASSUME LockInv, NEW p \in Procs, pc[p] = "idle", file["lock"] # Nil, Owner(file["lock"]) = p
      PROVE  FALSE
  <2>1. Alive(p) /\ ~Has(p)
    BY <1>2, UpdateLockAssumption DEF Alive, Has, Removes
  <2> QED
    BY <1>2, <2>1 DEF LockInv, LockPlaced
<1>3. LockInv => NoLockLeftBehind
  BY <1>2 DEF NoLockLeftBehind
<1> QED
  BY LockInit, <1>1, <1>3, PTL DEF Spec
=============================================================================
