----------------------- MODULE UpdateOperationProofs -----------------------
(***************************************************************************)
(* For any number of processes, projects, versions and receipts, with a    *)
(* process dying or a write failing anywhere: what the receipts of updates *)
(* promise about rollbacks, and what an update never does.                 *)
(***************************************************************************)
EXTENDS UpdateOperation, WellFoundedInduction, TLAPS

LEMMA LargestExists ==
  ASSUME NEW n \in Nat, NEW S, S \subseteq 1..n, S # {}
  PROVE  \E i \in S : \A j \in S : j <= i
<1> DEFINE T == {n - i : i \in S}
<1>1. T \subseteq Nat /\ T # {}
  <2>1. \A i \in S : i \in 1..n
    OBVIOUS
  <2>2. \A i \in S : n - i \in Nat
    BY <2>1
  <2> QED
    BY <2>2
<1>2. PICK x \in T : \A y \in T : ~(<<y, x>> \in OpToRel(<, Nat))
  BY <1>1, NatLessThanWellFounded, WFMin, Zenon
<1>3. PICK i \in S : x = n - i
  OBVIOUS
<1>4. ASSUME NEW j \in S PROVE j <= i
  <2>1. n - j \in T /\ n - j \in Nat /\ n - i \in Nat
    BY <1>1, <1>3
  <2>2. ~(n - j < n - i)
    BY <1>2, <1>3, <2>1 DEF OpToRel
  <2> QED
    BY <2>1, <2>2
<1> QED
  BY <1>4

-----------------------------------------------------------------------------
(* The invariant                                                            *)

\* The operation's receipt may still be rewritten; the lock is held.
Working == {"gate", "install", "stages", "terminal", "pointer"}
Locked == {"probe", "create", "latest"} \cup Working

\* The receipt r is about the operation o.
About(r, o) == r.kind = o.kind /\ r.project = o.project /\ r.prev = o.from /\ r.to = o.target

\* A confirmed update was reported by npm.
Reported(r, S) ==
    r.kind = "update" /\ r.install = "installed" => Move(r.project, r.prev, r.to) \in S

Sound(p) ==
    LET o == op[p]
    IN  /\ o.pc # "idle" => o.project \in Projects /\ o.target \in Versions /\ o.from \in Versions
        /\ o.pc \in Locked => holder = p
        /\ o.pc \in {"create", "gate", "install"} =>
               /\ p \notin overtaken => o.from = installed
               /\ o.kind = "rollback" /\ o.authorized
                      => Move(o.project, o.target, o.from) \in reported
        /\ o.pc = "install" => MayInstall(o)
        /\ o.pc \in Working \cup {"latest"} =>
               /\ o.id \in DOMAIN receipts /\ o.memory \in Receipts
               /\ About(o.memory, o) /\ About(receipts[o.id], o) /\ Reported(o.memory, reported)
        /\ o.pc \in Working => \A R \in Projects : pointer[R] # Nil => pointer[R].id # o.id
        /\ o.pc = "terminal" => o.kind = "rollback" \/ Terminal(o.memory)
        /\ o.pc \in {"pointer", "latest"} => receipts[o.id] = o.memory
        /\ o.pc = "pointer" => Binding(o.memory, o.project)
        /\ o.pc = "latest" /\ o.kind = "update" /\ o.memory.install = "installed"
               => Binding(o.memory, o.project)

ReceiptsReported == \A i \in DOMAIN receipts : Reported(receipts[i], reported)

\* The pointer is a copy of a confirmed receipt of its project.
PointerTrue ==
    \A R \in Projects : pointer[R] # Nil =>
        /\ pointer[R].id \in DOMAIN receipts
        /\ receipts[pointer[R].id] = pointer[R].receipt
        /\ Binding(pointer[R].receipt, R)

\* What was offered rests on a receipt that nobody will write again.
OffersKept ==
    \A m \in offered : \E i \in DOMAIN receipts :
        /\ Binding(receipts[i], m.project) /\ VersionsMatch(receipts[i], m.to, m.from)
        /\ \A p \in Procs : op[p].pc \in Working => op[p].id # i

Files == ReceiptsReported /\ PointerTrue /\ OffersKept

Inv == TypeOK /\ (\A p \in Procs : Sound(p)) /\ Files /\ RollbackUndoesUpdate

LEMMA InvInit == Init => Inv
<1> SUFFICES ASSUME Init PROVE Inv
  OBVIOUS
<1> USE DEF Init
<1>1. NoOp \in Ops
  BY UpdateOperationAssumption DEF NoOp, Ops, PCs, Kinds, Versions
<1>2. TypeOK
  BY <1>1, UpdateOperationAssumption DEF TypeOK, Versions
<1>3. ASSUME NEW p \in Procs PROVE Sound(p)
  BY <1>3 DEF Sound, NoOp, Locked, Working
<1>4. Files /\ RollbackUndoesUpdate
  BY DEF Files, ReceiptsReported, PointerTrue, OffersKept, RollbackUndoesUpdate
<1> QED
  BY <1>2, <1>3, <1>4 DEF Inv

-----------------------------------------------------------------------------
(* Authorization                                                            *)

\* A receipt that authorizes is one of the files, confirmed, and about these
\* versions.
LEMMA ScanFound ==
  ASSUME TypeOK, NEW t, NEW c, NEW R, Scan(t, c, R) # 0
  PROVE  /\ Scan(t, c, R) \in DOMAIN receipts
         /\ Binding(receipts[Scan(t, c, R)], R) /\ VersionsMatch(receipts[Scan(t, c, R)], t, c)
<1> DEFINE fits == {i \in DOMAIN receipts :
                      Binding(receipts[i], R) /\ VersionsMatch(receipts[i], t, c)}
           last == CHOOSE i \in fits : \A j \in fits : j <= i
<1>1. fits # {} /\ Scan(t, c, R) = last
  BY DEF Scan
<1>2. Len(receipts) \in Nat /\ fits \subseteq 1..Len(receipts)
  BY DEF TypeOK
<1>3. \E i \in fits : \A j \in fits : j <= i
  BY <1>1, <1>2, LargestExists
<1>4. last \in fits
  BY <1>3
<1> QED
  BY <1>1, <1>4

LEMMA Authorized ==
  ASSUME TypeOK, Files, NEW t, NEW c, NEW R \in Projects, Authorize(t, c, R) # 0
  PROVE  /\ Authorize(t, c, R) \in DOMAIN receipts
         /\ Binding(receipts[Authorize(t, c, R)], R)
         /\ Move(R, t, c) \in reported
<1>1. /\ Authorize(t, c, R) \in DOMAIN receipts
      /\ Binding(receipts[Authorize(t, c, R)], R)
      /\ VersionsMatch(receipts[Authorize(t, c, R)], t, c)
  BY ScanFound DEF Authorize, Files, PointerTrue
<1>2. Reported(receipts[Authorize(t, c, R)], reported)
  BY <1>1 DEF Files, ReceiptsReported
<1> QED
  BY <1>1, <1>2 DEF Reported, Binding, VersionsMatch

\* A receipt that fits is always found: the pointer never hides it.
LEMMA OfferAuthorized ==
  ASSUME TypeOK, Files, NEW m \in offered
  PROVE  Authorize(m.to, m.from, m.project) # 0
<1>1. m.project \in Projects
  BY DEF TypeOK, Moves
<1>2. PICK i \in DOMAIN receipts :
         Binding(receipts[i], m.project) /\ VersionsMatch(receipts[i], m.to, m.from)
  BY DEF Files, OffersKept
<1> DEFINE fits == {k \in DOMAIN receipts : Binding(receipts[k], m.project)
                                             /\ VersionsMatch(receipts[k], m.to, m.from)}
           last == CHOOSE k \in fits : \A j \in fits : j <= k
<1>3. fits # {} /\ Scan(m.to, m.from, m.project) = last
  BY <1>2 DEF Scan
<1>4. Len(receipts) \in Nat /\ DOMAIN receipts = 1..Len(receipts) /\ fits \subseteq 1..Len(receipts)
  BY DEF TypeOK
<1>5. \E k \in fits : \A j \in fits : j <= k
  BY <1>3, <1>4, LargestExists
<1>6. last \in fits
  BY <1>5
<1> HIDE DEF fits, last
<1>7. last \in 1..Len(receipts)
  BY <1>4, <1>6
<1>8. Scan(m.to, m.from, m.project) # 0
  BY <1>3, <1>4, <1>7
<1>9. pointer[m.project] # Nil => PointerTrusted(m.project) /\ pointer[m.project].id # 0
  BY <1>1, <1>4 DEF Files, PointerTrue, PointerTrusted
<1> QED
  BY <1>8, <1>9 DEF Authorize

-----------------------------------------------------------------------------
(* One operation at a time                                                  *)

LEMMA Alone ==
  ASSUME Inv, NEW p \in Procs, op[p].pc \in Locked, NEW q \in Procs \ {p}
  PROVE  op[q].pc \notin Locked
  BY DEF Inv, Sound

\* While p works under the lock the others cannot be disturbed.
LEMMA OthersSound ==
  ASSUME Inv, NEW p \in Procs, op[p].pc \in Locked,
         \A q \in Procs \ {p} : op'[q] = op[q]
  PROVE  \A q \in Procs \ {p} : Sound(q)'
<1> SUFFICES ASSUME NEW q \in Procs \ {p} PROVE Sound(q)'
  OBVIOUS
<1>1. op'[q].pc \notin Locked /\ op'[q] = op[q]
  BY Alone
<1>2. op[q].pc # "idle" => op[q].project \in Projects /\ op[q].target \in Versions /\ op[q].from \in Versions
  BY DEF Inv, Sound
<1> QED
  BY <1>1, <1>2 DEF Sound, Locked, Working

\* Rewriting the receipt of an operation that is still working disturbs
\* neither the pointer nor what was offered.
LEMMA Rewrite ==
  ASSUME Inv, NEW p \in Procs, op[p].pc \in Working, NEW r \in Receipts,
         receipts' = [receipts EXCEPT ![op[p].id] = r], UNCHANGED <<pointer, offered>>,
         reported \subseteq reported', Reported(r, reported'),
         \A q \in Procs \ {p} : op'[q] = op[q], op'[p].id = op[p].id
  PROVE  /\ receipts' \in Seq(Receipts) /\ DOMAIN receipts' = DOMAIN receipts
         /\ receipts'[op[p].id] = r /\ Files'
<1>1. op[p].id \in DOMAIN receipts /\ receipts \in Seq(Receipts)
  BY DEF Inv, Sound, TypeOK
<1>2. /\ receipts' \in Seq(Receipts) /\ DOMAIN receipts' = DOMAIN receipts
      /\ receipts'[op[p].id] = r
      /\ \A i \in DOMAIN receipts \ {op[p].id} : receipts'[i] = receipts[i]
  BY <1>1
<1>3. ReceiptsReported'
  <2> SUFFICES ASSUME NEW i \in DOMAIN receipts PROVE Reported(receipts[i], reported)'
    BY <1>2 DEF ReceiptsReported
  <2>1. CASE i = op[p].id
    BY <1>2, <2>1 DEF Reported
  <2>2. CASE i # op[p].id
    BY <1>2, <2>2 DEF Inv, Files, ReceiptsReported, Reported
  <2> QED
    BY <2>1, <2>2
<1>4. PointerTrue'
  BY <1>2 DEF Inv, Files, PointerTrue, Sound
<1>5. OffersKept'
  <2> SUFFICES ASSUME NEW m \in offered
               PROVE  \E i \in DOMAIN receipts' :
                         /\ Binding(receipts'[i], m.project) /\ VersionsMatch(receipts'[i], m.to, m.from)
                         /\ \A q \in Procs : op'[q].pc \in Working => op'[q].id # i
    BY DEF OffersKept
  <2>1. PICK i \in DOMAIN receipts :
           /\ Binding(receipts[i], m.project) /\ VersionsMatch(receipts[i], m.to, m.from)
           /\ \A q \in Procs : op[q].pc \in Working => op[q].id # i
    BY DEF Inv, Files, OffersKept
  <2>2. i # op[p].id
    BY <2>1
  <2>3. receipts'[i] = receipts[i] /\ i \in DOMAIN receipts'
    BY <1>2, <2>2
  <2> QED
    BY <2>1, <2>2, <2>3
<1> QED
  BY <1>2, <1>3, <1>4, <1>5 DEF Files

\* A step that writes no receipt and no pointer keeps the files true, if the
\* receipt being written stays the same.
LEMMA Untouched ==
  ASSUME Inv, UNCHANGED <<receipts, pointer, offered>>, reported \subseteq reported',
         \A q \in Procs : op'[q].pc \in Working => op[q].pc \in Working /\ op'[q].id = op[q].id
  PROVE  Files'
<1>1. ReceiptsReported' /\ PointerTrue'
  BY DEF Inv, Files, ReceiptsReported, PointerTrue, Reported
<1>2. OffersKept'
  BY DEF Inv, Files, OffersKept
<1> QED
  BY <1>1, <1>2 DEF Files

\* The operation of p has moved on: what it is about stays.
Turned(p, step, mem) ==
    /\ op' \in [Procs -> Ops] /\ \A q \in Procs \ {p} : op'[q] = op[q]
    /\ op'[p].pc = step /\ op'[p].memory = mem /\ op'[p].id = op[p].id
    /\ op'[p].kind = op[p].kind /\ op'[p].project = op[p].project
    /\ op'[p].target = op[p].target /\ op'[p].from = op[p].from
    /\ op'[p].authorized = op[p].authorized

LEMMA TurnStep ==
  ASSUME TypeOK, NEW p \in Procs, NEW step \in PCs, op' = [op EXCEPT ![p].pc = step]
  PROVE  Turned(p, step, op[p].memory)
  BY DEF TypeOK, Ops, Turned

LEMMA TurnMemory ==
  ASSUME TypeOK, NEW p \in Procs, NEW step \in PCs, NEW mem \in Receipts,
         op' = [op EXCEPT ![p] = [op[p] EXCEPT !.pc = step, !.memory = mem]]
  PROVE  Turned(p, step, mem)
  BY DEF TypeOK, Ops, Turned

-----------------------------------------------------------------------------
(* Every step keeps the invariant                                           *)

LEMMA NoOpType == NoOp \in Ops
  BY DEF NoOp, Ops, PCs, Kinds

LEMMA StartStep ==
  ASSUME Inv, NEW p \in Procs, NEW kind \in Kinds, NEW R \in Projects, NEW v \in Versions,
         Start(p, kind, R, v)
  PROVE  Inv'
<1> DEFINE o == [NoOp EXCEPT !.pc = "lock", !.kind = kind, !.project = R, !.target = v,
                            !.from = installed]
<1>1. UNCHANGED <<installed, receipts, pointer, holder, orphans, overtaken, reported, rolled, offered>>
  BY DEF Start, npm, history
<1>2. op' = [op EXCEPT ![p] = o]
  BY DEF Start
<1>3. installed \in Versions /\ NoOp \in Ops
  BY NoOpType DEF Inv, TypeOK
<1>4. o \in Ops /\ o.pc = "lock" /\ o.project = R /\ o.target = v /\ o.from = installed
  BY <1>3 DEF Ops, PCs
<1> HIDE DEF o
<1>5. TypeOK'
  BY <1>1, <1>2, <1>4 DEF Inv, TypeOK
<1>6. op'[p] = o /\ \A q \in Procs \ {p} : op'[q] = op[q]
  BY <1>2 DEF Inv, TypeOK
<1>7. Sound(p)'
  BY <1>3, <1>4, <1>6 DEF Sound, Locked, Working
<1>8. \A q \in Procs \ {p} : Sound(q)'
  BY <1>1, <1>6 DEF Inv, Sound, Reported
<1>9. Files'
  BY <1>1, <1>4, <1>6, Untouched DEF Working
<1> QED
  BY <1>1, <1>5, <1>7, <1>8, <1>9 DEF Inv, RollbackUndoesUpdate

\* An operation ends, or its process dies.
LEMMA EndStep ==
  ASSUME Inv, NEW p \in Procs, op' = [op EXCEPT ![p] = NoOp],
         \/ holder' = holder /\ op[p].pc \notin Locked
         \/ holder' = Nil /\ holder = p,
         orphans' \in [Versions -> Nat],
         UNCHANGED <<installed, receipts, pointer, overtaken, reported, rolled>>,
         \/ UNCHANGED offered
         \/ /\ op[p].pc = "latest" /\ op[p].memory.kind = "update" /\ op[p].memory.install = "installed"
            /\ offered' = offered \cup {Move(op[p].memory.project, op[p].memory.to, op[p].memory.prev)}
  PROVE  Inv'
<1>1. NoOp \in Ops
  BY DEF NoOp, Ops, PCs, Kinds
<1>2. op'[p] = NoOp /\ \A q \in Procs \ {p} : op'[q] = op[q]
  BY DEF Inv, TypeOK
<1>3. Sound(p)'
  BY <1>2 DEF Sound, NoOp, Locked, Working
<1>4. \A q \in Procs \ {p} : Sound(q)'
  <2>1. CASE op[p].pc \in Locked
    BY <1>2, <2>1, OthersSound
  <2>2. CASE op[p].pc \notin Locked
    <3>1. ASSUME NEW q \in Procs \ {p} PROVE Sound(q)'
      <4>1. Sound(q)
        BY DEF Inv
      <4>2. holder = q => holder' = q
        OBVIOUS
      <4> QED
        BY <1>2, <4>1, <4>2 DEF Sound, Reported
    <3> QED
      BY <3>1
  <2> QED
    BY <2>1, <2>2
<1>5. offered' \subseteq Moves
  <2>1. CASE op[p].pc = "latest" /\ offered' = offered \cup
              {Move(op[p].memory.project, op[p].memory.to, op[p].memory.prev)}
    <3>1. op[p].memory \in Receipts
      BY <2>1 DEF Inv, Sound
    <3> QED
      BY <2>1, <3>1 DEF Inv, TypeOK, Move, Moves, Receipts
  <2> QED
    BY <2>1 DEF Inv, TypeOK
<1>6. TypeOK'
  BY <1>1, <1>5 DEF Inv, TypeOK
<1>7. ReceiptsReported' /\ PointerTrue'
  BY DEF Inv, Files, ReceiptsReported, PointerTrue, Reported
<1>8. OffersKept'
  <2> SUFFICES ASSUME NEW m \in offered'
               PROVE  \E i \in DOMAIN receipts :
                         /\ Binding(receipts[i], m.project) /\ VersionsMatch(receipts[i], m.to, m.from)
                         /\ \A q \in Procs : op'[q].pc \in Working => op'[q].id # i
    BY DEF OffersKept
  <2>0. \A q \in Procs : op'[q].pc \in Working => op'[q] = op[q]
    BY <1>2 DEF NoOp, Working
  <2>1. CASE m \in offered
    <3>1. PICK i \in DOMAIN receipts :
             /\ Binding(receipts[i], m.project) /\ VersionsMatch(receipts[i], m.to, m.from)
             /\ \A q \in Procs : op[q].pc \in Working => op[q].id # i
      BY <2>1 DEF Inv, Files, OffersKept
    <3> QED
      BY <2>0, <3>1
  <2>2. CASE m \notin offered
    <3> DEFINE r == op[p].memory
    <3>1. /\ op[p].pc = "latest" /\ r.kind = "update" /\ r.install = "installed"
          /\ m = Move(r.project, r.to, r.prev)
      BY <2>2
    <3>2. /\ op[p].id \in DOMAIN receipts /\ receipts[op[p].id] = r /\ Binding(r, r.project)
      BY <3>1 DEF Inv, Sound, About
    <3>3. m.project = r.project /\ m.from = r.to /\ m.to = r.prev
      BY <3>1 DEF Move
    <3>4. \A q \in Procs : op'[q].pc \notin Working
      BY <1>2, <3>1, Alone DEF NoOp, Locked, Working
    <3> QED
      BY <3>2, <3>3, <3>4 DEF VersionsMatch
  <2> QED
    BY <2>1, <2>2
<1> QED
  BY <1>3, <1>4, <1>6, <1>7, <1>8 DEF Inv, Files, RollbackUndoesUpdate

LEMMA LockStep == ASSUME Inv, NEW p \in Procs, Lock(p) PROVE Inv'
<1>1. UNCHANGED <<installed, receipts, pointer, orphans, overtaken, reported, rolled, offered>> /\ op[p].pc = "lock"
  BY DEF Lock, npm, history
<1>2. CASE holder = Nil /\ holder' = p /\ op' = [op EXCEPT ![p].pc = "probe"]
  <2>1. Turned(p, "probe", op[p].memory)
    BY <1>2, TurnStep DEF Inv, PCs
  <2>2. /\ op' \in [Procs -> Ops] /\ \A q \in Procs \ {p} : op'[q] = op[q]
        /\ op'[p].pc = "probe" /\ op'[p].project = op[p].project
        /\ op'[p].target = op[p].target /\ op'[p].from = op[p].from
    BY <2>1 DEF Turned
  <2>3. \A q \in Procs : op[q].pc \notin Locked
    BY <1>2, UpdateOperationAssumption DEF Inv, Sound
  <2>4. \A q \in Procs \ {p} : Sound(q)'
    BY <2>2, <2>3 DEF Inv, Sound, Locked, Working
  <2>5. Sound(p)'
    BY <1>1, <1>2, <2>2 DEF Inv, Sound, Working
  <2>6. Files'
    BY <1>1, <2>2, Untouched DEF Working
  <2>7. TypeOK'
    BY <1>1, <1>2, <2>2 DEF Inv, TypeOK
  <2> QED
    BY <1>1, <2>4, <2>5, <2>6, <2>7 DEF Inv, RollbackUndoesUpdate
<1>3. CASE op' = [op EXCEPT ![p] = NoOp] /\ UNCHANGED holder
  <2>1. op[p].pc \notin Locked /\ orphans \in [Versions -> Nat]
    BY <1>1 DEF Locked, Working, Inv, TypeOK
  <2> QED
    BY <1>1, <1>3, <2>1, EndStep
<1> QED
  BY <1>2, <1>3 DEF Lock

LEMMA ProbeRecord ==
  ASSUME NEW o \in Ops, NEW v \in Versions, NEW b \in BOOLEAN
  PROVE  [o EXCEPT !.pc = "create", !.from = v, !.authorized = b] \in Ops
  BY DEF Ops, PCs

LEMMA ProbeType ==
  ASSUME TypeOK, NEW p \in Procs, NEW b \in BOOLEAN,
         op' = [op EXCEPT ![p].pc = "create", ![p].from = installed, ![p].authorized = b]
  PROVE  /\ op' \in [Procs -> Ops] /\ \A q \in Procs \ {p} : op'[q] = op[q]
         /\ op'[p].pc = "create" /\ op'[p].from = installed /\ (op'[p].authorized => b)
         /\ op'[p].kind = op[p].kind /\ op'[p].project = op[p].project /\ op'[p].target = op[p].target
<1>1. /\ \A q \in Procs \ {p} : op'[q] = op[q]
      /\ op'[p].pc = "create" /\ op'[p].from = installed /\ (op'[p].authorized => b)
      /\ op'[p].kind = op[p].kind /\ op'[p].project = op[p].project /\ op'[p].target = op[p].target
  BY DEF TypeOK, Ops
<1> DEFINE o == [op[p] EXCEPT !.pc = "create", !.from = installed, !.authorized = b]
<1>2. op[p] \in Ops /\ installed \in Versions
  BY DEF TypeOK
<1>3. o \in Ops
  BY <1>2, ProbeRecord
<1>4. op' = [op EXCEPT ![p] = o]
  BY Zenon DEF TypeOK
<1> HIDE DEF o
<1>5. op' \in [Procs -> Ops]
  BY <1>3, <1>4 DEF TypeOK
<1> QED
  BY <1>1, <1>5

LEMMA ProbeStep == ASSUME Inv, NEW p \in Procs, Probe(p) PROVE Inv'
<1> DEFINE R == op[p].project
           i == Authorize(op[p].target, installed, R)
<1>1. /\ op[p].pc = "probe" /\ overtaken' = overtaken \ {p}
      /\ UNCHANGED <<installed, receipts, holder, orphans, reported, rolled, offered>>
  BY DEF Probe, history
<1>2. PICK written \in BOOLEAN :
         /\ op' = [op EXCEPT ![p].pc = "create", ![p].from = installed,
                              ![p].authorized = op[p].kind = "rollback" /\ i # 0 /\ written]
         /\ pointer' = pointer \/ (i # 0 /\ pointer' = [pointer EXCEPT ![R] = PointTo(i)])
  BY Zenon DEF Probe
<1>3. R \in Projects /\ op[p].target \in Versions /\ installed \in Versions /\ op[p].pc \in Locked
      /\ holder = p
  BY <1>1 DEF Inv, TypeOK, Sound, Locked
<1> HIDE DEF i, R
<1>4. i # 0 => /\ i \in DOMAIN receipts /\ Binding(receipts[i], R)
               /\ Move(R, op[p].target, installed) \in reported
  BY <1>3, Authorized DEF Inv, i, R
<1> DEFINE b == op[p].kind = "rollback" /\ i # 0 /\ written
<1>5. /\ op' \in [Procs -> Ops] /\ \A q \in Procs \ {p} : op'[q] = op[q]
      /\ op'[p].pc = "create" /\ op'[p].from = installed /\ (op'[p].authorized => b)
      /\ op'[p].kind = op[p].kind /\ op'[p].project = op[p].project /\ op'[p].target = op[p].target
  <2>1. b \in BOOLEAN
    OBVIOUS
  <2> QED
    BY <1>2, <2>1, ProbeType DEF Inv
<1>6. Sound(p)'
  <2>1. op'[p].authorized => Move(op[p].project, op[p].target, installed) \in reported
    BY <1>4, <1>5 DEF R
  <2> QED
    BY <1>1, <1>3, <1>5, <2>1 DEF Sound, Locked, Working, R
<1>7. \A q \in Procs \ {p} : Sound(q)'
  BY <1>3, <1>5, OthersSound
<1>8. i # 0 => PointTo(i) \in [id : Nat, receipt : Receipts]
  BY <1>4 DEF PointTo, Inv, TypeOK
<1>9. pointer' \in [Projects -> [id : Nat, receipt : Receipts] \cup {Nil}]
  BY <1>2, <1>8 DEF Inv, TypeOK
<1>10. TypeOK'
  BY <1>1, <1>5, <1>9 DEF Inv, TypeOK
<1>11. PointerTrue'
  <2> SUFFICES ASSUME NEW Q \in Projects, pointer'[Q] # Nil
               PROVE  /\ pointer'[Q].id \in DOMAIN receipts
                      /\ receipts[pointer'[Q].id] = pointer'[Q].receipt
                      /\ Binding(pointer'[Q].receipt, Q)
    BY <1>1 DEF PointerTrue
  <2>1. CASE pointer'[Q] = pointer[Q]
    BY <2>1 DEF Inv, Files, PointerTrue
  <2>2. CASE pointer'[Q] # pointer[Q]
    <3>1. i # 0 /\ Q = R /\ pointer'[Q] = PointTo(i)
      BY <1>2, <1>3, <2>2 DEF Inv, TypeOK
    <3> QED
      BY <1>4, <3>1 DEF PointTo
  <2> QED
    BY <2>1, <2>2
<1>12. OffersKept'
  BY <1>1, <1>5 DEF Inv, Files, OffersKept, Working
<1>13. ReceiptsReported'
  BY <1>1 DEF Inv, Files, ReceiptsReported, Reported
<1> QED
  BY <1>1, <1>6, <1>7, <1>10, <1>11, <1>12, <1>13 DEF Inv, Files, RollbackUndoesUpdate

LEMMA CreateStep == ASSUME Inv, NEW p \in Procs, CreateReceipt(p) PROVE Inv'
<1> DEFINE r == [kind |-> op[p].kind, project |-> op[p].project, prev |-> op[p].from,
                 to |-> op[p].target, state |-> "running", install |-> "none"]
           n == Len(receipts) + 1
<1>1. /\ op[p].pc = "create" /\ receipts' = Append(receipts, r)
      /\ op' = [op EXCEPT ![p].pc = "gate", ![p].id = n, ![p].memory = r]
      /\ UNCHANGED <<installed, pointer, holder, orphans, overtaken, reported, rolled, offered>>
  BY DEF CreateReceipt, npm, history
<1>2. /\ op[p].pc \in Locked /\ holder = p /\ op[p].project \in Projects
      /\ op[p].target \in Versions /\ op[p].from \in Versions /\ op[p].kind \in Kinds
  BY <1>1 DEF Inv, Sound, Locked, TypeOK, Ops
<1>3. r \in Receipts /\ r.install = "none" /\ About(r, op[p])
  BY <1>2 DEF Receipts, States, Installs, About
<1> HIDE DEF r
<1>4. receipts \in Seq(Receipts) /\ n \in Nat /\ n \notin DOMAIN receipts
  BY DEF Inv, TypeOK
<1>5. /\ receipts' \in Seq(Receipts) /\ DOMAIN receipts' = DOMAIN receipts \cup {n} /\ receipts'[n] = r
      /\ \A k \in DOMAIN receipts : receipts'[k] = receipts[k]
  BY <1>1, <1>3, <1>4
<1> HIDE DEF n
<1>6. /\ op' \in [Procs -> Ops] /\ \A q \in Procs \ {p} : op'[q] = op[q]
      /\ op'[p].pc = "gate" /\ op'[p].from = op[p].from /\ op'[p].authorized = op[p].authorized
      /\ op'[p].kind = op[p].kind /\ op'[p].project = op[p].project /\ op'[p].target = op[p].target
      /\ op'[p].id = n /\ op'[p].memory = r
  BY <1>1, <1>3, <1>4 DEF Inv, TypeOK, Ops, PCs
<1>7. \A q \in Procs \ {p} : Sound(q)'
  BY <1>2, <1>6, OthersSound
<1>8. \A Q \in Projects : pointer[Q] # Nil => pointer[Q].id # n
  BY <1>4 DEF Inv, Files, PointerTrue
<1>9. About(op'[p].memory, op'[p]) /\ About(receipts'[n], op'[p])
  BY <1>3, <1>5, <1>6 DEF About
<1>10. (p \notin overtaken => op[p].from = installed) /\ (op[p].kind = "rollback" /\ op[p].authorized
          => Move(op[p].project, op[p].target, op[p].from) \in reported)
  BY <1>1 DEF Inv, Sound
<1>11. Sound(p)'
  <2>1. Reported(op[p].memory, reported)'
    BY <1>3, <1>6 DEF Reported
  <2> QED
    BY <1>1, <1>2, <1>3, <1>5, <1>6, <1>8, <1>9, <1>10, <2>1 DEF Sound, Locked, Working
<1>12. ReceiptsReported' /\ PointerTrue'
  BY <1>1, <1>3, <1>5 DEF Inv, Files, ReceiptsReported, Reported, PointerTrue
<1>13. OffersKept'
  <2> SUFFICES ASSUME NEW m \in offered
               PROVE  \E k \in DOMAIN receipts' :
                         /\ Binding(receipts'[k], m.project) /\ VersionsMatch(receipts'[k], m.to, m.from)
                         /\ \A q \in Procs : op'[q].pc \in Working => op'[q].id # k
    BY <1>1 DEF OffersKept
  <2>1. PICK k \in DOMAIN receipts :
           /\ Binding(receipts[k], m.project) /\ VersionsMatch(receipts[k], m.to, m.from)
           /\ \A q \in Procs : op[q].pc \in Working => op[q].id # k
    BY DEF Inv, Files, OffersKept
  <2>2. \A q \in Procs : op'[q].pc \in Working => op'[q].id # k
    BY <1>4, <1>6, <2>1
  <2> QED
    BY <1>5, <2>1, <2>2
<1>14. TypeOK'
  BY <1>1, <1>5, <1>6 DEF Inv, TypeOK
<1> QED
  BY <1>1, <1>7, <1>11, <1>12, <1>13, <1>14 DEF Inv, Files, RollbackUndoesUpdate

\* A step of an operation that keeps writing its own receipt: r is on disk
\* and mem in memory afterwards.
LEMMA WorkStep ==
  ASSUME Inv, NEW p \in Procs, op[p].pc \in Working,
         NEW step \in (Working \ {"gate"}) \cup {"latest"},
         NEW mem \in Receipts, NEW r \in Receipts, Turned(p, step, mem),
         About(mem, op[p]), About(r, op[p]), Reported(mem, reported'), Reported(r, reported'),
         receipts' = [receipts EXCEPT ![op[p].id] = r],
         UNCHANGED <<pointer, holder, orphans, overtaken, offered>>, reported \subseteq reported',
         installed' \in Versions, reported' \subseteq Moves, rolled' \subseteq Undos,
         RollbackUndoesUpdate',
         step = "install" => installed' = installed /\ op[p].pc = "gate" /\ MayInstall(op[p]),
         step = "terminal" => op[p].kind = "rollback" \/ Terminal(mem),
         step \in {"pointer", "latest"} => r = mem,
         step = "pointer" => Binding(mem, op[p].project),
         step = "latest" /\ op[p].kind = "update" /\ mem.install = "installed"
            => Binding(mem, op[p].project)
  PROVE  Inv'
<1>1. /\ op' \in [Procs -> Ops] /\ \A q \in Procs \ {p} : op'[q] = op[q]
      /\ op'[p].pc = step /\ op'[p].memory = mem /\ op'[p].id = op[p].id
      /\ op'[p].kind = op[p].kind /\ op'[p].project = op[p].project
      /\ op'[p].target = op[p].target /\ op'[p].from = op[p].from
      /\ op'[p].authorized = op[p].authorized
  BY DEF Turned
<1>2. /\ receipts' \in Seq(Receipts) /\ DOMAIN receipts' = DOMAIN receipts
      /\ receipts'[op[p].id] = r /\ Files'
  BY <1>1, Rewrite
<1>3. /\ op[p].pc \in Locked /\ op[p].pc # "idle" /\ holder = p /\ op[p].id \in DOMAIN receipts
      /\ op[p].project \in Projects /\ op[p].target \in Versions /\ op[p].from \in Versions
      /\ \A R \in Projects : pointer[R] # Nil => pointer[R].id # op[p].id
  BY DEF Inv, Sound, Locked, Working
<1>4. \A q \in Procs \ {p} : Sound(q)'
  BY <1>1, <1>3, OthersSound
<1>5. TypeOK'
  BY <1>1, <1>2 DEF Inv, TypeOK
<1>6. Sound(p)'
  <2>1. About(op'[p].memory, op'[p]) /\ About(receipts'[op'[p].id], op'[p])
    BY <1>1, <1>2 DEF About
  <2>2. Reported(op[p].memory, reported)'
    BY <1>1 DEF Reported
  <2>3. step = "install" =>
           /\ (p \notin overtaken => op'[p].from = installed') /\ MayInstall(op'[p])
           /\ op'[p].kind = "rollback" /\ op'[p].authorized
                 => Move(op'[p].project, op'[p].target, op'[p].from) \in reported'
    BY <1>1 DEF Inv, Sound, MayInstall
  <2> QED
    BY <1>1, <1>2, <1>3, <2>1, <2>2, <2>3 DEF Sound, Locked, Working
<1> QED
  BY <1>2, <1>4, <1>5, <1>6 DEF Inv

\* What the invariant says of an operation at work.
LEMMA AtWork ==
  ASSUME Inv, NEW p \in Procs, op[p].pc \in Working
  PROVE  /\ op[p].memory \in Receipts /\ receipts[op[p].id] \in Receipts
         /\ About(op[p].memory, op[p]) /\ About(receipts[op[p].id], op[p])
         /\ Reported(op[p].memory, reported) /\ Reported(receipts[op[p].id], reported)
         /\ installed \in Versions /\ reported \subseteq Moves /\ rolled \subseteq Undos
         /\ op[p].id \in DOMAIN receipts /\ receipts \in Seq(Receipts)
         /\ op[p] \in Ops /\ op \in [Procs -> Ops]
  BY DEF Inv, Sound, TypeOK, Files, ReceiptsReported

\* Assigning one stage of the receipt.
LEMMA SetInstall ==
  ASSUME NEW r \in Receipts, NEW s \in Installs
  PROVE  /\ [r EXCEPT !.install = s] \in Receipts
         /\ \A o : About(r, o) => About([r EXCEPT !.install = s], o)
         /\ [r EXCEPT !.install = s].install = s
         /\ [r EXCEPT !.install = s].kind = r.kind /\ [r EXCEPT !.install = s].project = r.project
         /\ [r EXCEPT !.install = s].prev = r.prev /\ [r EXCEPT !.install = s].to = r.to
  BY DEF Receipts, About

LEMMA SetState ==
  ASSUME NEW r \in Receipts, NEW s \in States
  PROVE  /\ [r EXCEPT !.state = s] \in Receipts
         /\ \A o : About(r, o) => About([r EXCEPT !.state = s], o)
         /\ [r EXCEPT !.state = s].state = s /\ [r EXCEPT !.state = s].install = r.install
         /\ [r EXCEPT !.state = s].kind = r.kind /\ [r EXCEPT !.state = s].project = r.project
         /\ [r EXCEPT !.state = s].prev = r.prev /\ [r EXCEPT !.state = s].to = r.to
  BY DEF Receipts, About

LEMMA TurnInstall ==
  ASSUME TypeOK, NEW p \in Procs, op[p].memory \in Receipts, NEW step \in PCs, NEW s \in Installs,
         op' = [op EXCEPT ![p].pc = step, ![p].memory.install = s]
  PROVE  Turned(p, step, [op[p].memory EXCEPT !.install = s])
<1> DEFINE mem == [op[p].memory EXCEPT !.install = s]
<1>1. mem \in Receipts
  BY SetInstall
<1>2. op' = [op EXCEPT ![p] = [op[p] EXCEPT !.pc = step, !.memory = mem]]
  BY DEF TypeOK, Ops, PCs
<1> HIDE DEF mem
<1>3. Turned(p, step, mem)
  BY <1>1, <1>2, TurnMemory
<1> QED
  BY <1>3 DEF mem

LEMMA TurnState ==
  ASSUME TypeOK, NEW p \in Procs, op[p].memory \in Receipts, NEW step \in PCs, NEW s \in States,
         op' = [op EXCEPT ![p].pc = step, ![p].memory.state = s]
  PROVE  Turned(p, step, [op[p].memory EXCEPT !.state = s])
<1> DEFINE mem == [op[p].memory EXCEPT !.state = s]
<1>1. mem \in Receipts
  BY SetState
<1>2. op' = [op EXCEPT ![p] = [op[p] EXCEPT !.pc = step, !.memory = mem]]
  BY DEF TypeOK, Ops, PCs
<1> HIDE DEF mem
<1>3. Turned(p, step, mem)
  BY <1>1, <1>2, TurnMemory
<1> QED
  BY <1>3 DEF mem

LEMMA IntentStep == ASSUME Inv, NEW p \in Procs, Intent(p) PROVE Inv'
<1> DEFINE mem == [op[p].memory EXCEPT !.install = "started"]
           r == [receipts[op[p].id] EXCEPT !.install = "started"]
<1>1. /\ op[p].pc = "gate" /\ MayInstall(op[p])
      /\ op' = [op EXCEPT ![p].pc = "install", ![p].memory.install = "started"]
      /\ receipts' = [receipts EXCEPT ![op[p].id].install = "started"]
      /\ UNCHANGED <<installed, pointer, holder, orphans, overtaken, reported, rolled, offered>>
  BY DEF Intent, npm, history
<1>2. op[p].pc \in Working /\ "install" \in PCs /\ "started" \in Installs
  BY <1>1 DEF Working, PCs, Installs
<1>3. /\ op[p].memory \in Receipts /\ receipts[op[p].id] \in Receipts
      /\ About(op[p].memory, op[p]) /\ About(receipts[op[p].id], op[p])
      /\ installed \in Versions /\ reported \subseteq Moves /\ rolled \subseteq Undos
      /\ op[p].id \in DOMAIN receipts /\ receipts \in Seq(Receipts)
  BY <1>2, AtWork
<1>4. Turned(p, "install", mem)
  BY <1>1, <1>2, <1>3, TurnInstall DEF Inv
<1>5. receipts' = [receipts EXCEPT ![op[p].id] = r]
  BY <1>1, <1>3
<1>6. /\ mem \in Receipts /\ r \in Receipts /\ About(mem, op[p]) /\ About(r, op[p])
      /\ mem.install = "started" /\ r.install = "started"
  BY <1>2, <1>3, SetInstall
<1> HIDE DEF mem, r
<1>7. RollbackUndoesUpdate'
  BY <1>1 DEF Inv, RollbackUndoesUpdate
<1>8. "install" \in (Working \ {"gate"}) \cup {"latest"}
  BY DEF Working
<1>9. Reported(mem, reported') /\ Reported(r, reported')
  BY <1>1, <1>6 DEF Reported, mem, r
<1> QED
  BY <1>1, <1>2, <1>3, <1>4, <1>5, <1>6, <1>7, <1>8, <1>9, WorkStep

\* The final state is settled in memory; the file is not written.
LEMMA SettleStep ==
  ASSUME Inv, NEW p \in Procs, op[p].pc \in {"gate", "stages"}, NEW s \in States,
         op' = [op EXCEPT ![p].pc = "terminal", ![p].memory.state = s],
         UNCHANGED <<installed, receipts, pointer, holder, orphans, overtaken, reported, rolled, offered>>,
         op[p].kind = "rollback" \/ s \in {"succeeded", "failed", "terminal_uncertain"}
  PROVE  Inv'
<1> DEFINE mem == [op[p].memory EXCEPT !.state = s]
           r == receipts[op[p].id]
<1>1. op[p].pc \in Working /\ "terminal" \in PCs /\ "terminal" \in (Working \ {"gate"}) \cup {"latest"}
  BY DEF Working, PCs
<1>2. /\ op[p].memory \in Receipts /\ r \in Receipts
      /\ About(op[p].memory, op[p]) /\ About(r, op[p])
      /\ Reported(op[p].memory, reported) /\ Reported(r, reported)
      /\ installed \in Versions /\ reported \subseteq Moves /\ rolled \subseteq Undos
      /\ op[p].id \in DOMAIN receipts /\ receipts \in Seq(Receipts)
  BY <1>1, AtWork
<1>3. Turned(p, "terminal", mem)
  BY <1>1, <1>2, TurnState DEF Inv
<1>4. receipts' = [receipts EXCEPT ![op[p].id] = r]
  BY <1>2
<1>5. /\ mem \in Receipts /\ About(mem, op[p])
      /\ mem.state = s /\ mem.install = op[p].memory.install /\ mem.kind = op[p].memory.kind
      /\ mem.project = op[p].memory.project /\ mem.prev = op[p].memory.prev /\ mem.to = op[p].memory.to
  BY <1>2, SetState
<1> HIDE DEF mem, r
<1>6. Reported(mem, reported') /\ Reported(r, reported')
  BY <1>2, <1>5 DEF Reported
<1>7. op[p].kind = "rollback" \/ Terminal(mem)
  BY <1>5 DEF Terminal
<1>8. RollbackUndoesUpdate'
  BY DEF Inv, RollbackUndoesUpdate
<1> QED
  BY <1>1, <1>2, <1>3, <1>4, <1>5, <1>6, <1>7, <1>8, WorkStep

LEMMA SkipStep == ASSUME Inv, NEW p \in Procs, Skip(p) PROVE Inv'
<1>1. PICK s \in {"failed", "succeeded", "terminal_uncertain"} :
         op' = [op EXCEPT ![p].pc = "terminal", ![p].memory.state = s]
  BY DEF Skip
<1>2. op[p].pc = "gate" /\ UNCHANGED <<installed, receipts, pointer, holder, orphans, overtaken, reported, rolled, offered>>
  BY DEF Skip, npm, history
<1>3. s \in States
  BY DEF States
<1> QED
  BY <1>1, <1>2, <1>3, SettleStep

LEMMA StagesStep == ASSUME Inv, NEW p \in Procs, Stages(p) PROVE Inv'
<1>1. PICK s \in States :
         /\ op' = [op EXCEPT ![p].pc = "terminal", ![p].memory.state = s]
         /\ op[p].kind = "rollback" \/ s \in {"succeeded", "failed", "terminal_uncertain"}
  BY DEF Stages, States
<1>2. op[p].pc = "stages" /\ UNCHANGED <<installed, receipts, pointer, holder, orphans, overtaken, reported, rolled, offered>>
  BY DEF Stages, npm, history
<1> QED
  BY <1>1, <1>2, SettleStep

\* The step that changes the installed version: a rollback takes back a move
\* that was reported before it was authorized.
LEMMA InstallStep == ASSUME Inv, NEW p \in Procs, Install(p) PROVE Inv'
<1> DEFINE m == Move(op[p].project, op[p].from, op[p].target)
<1>1. PICK done \in {"installed", "failed"}, v \in {installed, op[p].target} :
         /\ installed' = v
         /\ op' = [op EXCEPT ![p].pc = "stages", ![p].memory.install = done]
         /\ receipts' = [receipts EXCEPT ![op[p].id].install = done]
         /\ reported' = IF op[p].kind = "update" /\ done = "installed"
                        THEN reported \cup {m} ELSE reported
  BY DEF Install
<1>2. /\ op[p].pc = "install"
      /\ rolled' = IF op[p].kind = "rollback"
                   THEN rolled \cup {Undo(op[p].project, installed, op[p].target, p \in overtaken)}
                   ELSE rolled
      /\ UNCHANGED <<pointer, holder, orphans, overtaken, offered>>
  BY DEF Install, npm
<1> DEFINE mem == [op[p].memory EXCEPT !.install = done]
           r == [receipts[op[p].id] EXCEPT !.install = done]
<1>3. /\ op[p].pc \in Working /\ "stages" \in PCs /\ done \in Installs
      /\ "stages" \in (Working \ {"gate"}) \cup {"latest"}
  BY <1>2 DEF Working, PCs, Installs
<1>4. /\ op[p].memory \in Receipts /\ receipts[op[p].id] \in Receipts
      /\ About(op[p].memory, op[p]) /\ About(receipts[op[p].id], op[p])
      /\ installed \in Versions /\ reported \subseteq Moves /\ rolled \subseteq Undos
      /\ op[p].id \in DOMAIN receipts /\ receipts \in Seq(Receipts)
  BY <1>3, AtWork
<1>5. Turned(p, "stages", mem)
  BY <1>1, <1>3, <1>4, TurnInstall DEF Inv
<1>6. receipts' = [receipts EXCEPT ![op[p].id] = r]
  BY <1>1, <1>4
<1>7. /\ mem \in Receipts /\ r \in Receipts /\ About(mem, op[p]) /\ About(r, op[p])
      /\ mem.install = done /\ r.install = done
  BY <1>3, <1>4, SetInstall
<1>8. /\ op[p].project \in Projects /\ op[p].target \in Versions /\ op[p].from \in Versions
      /\ p \notin overtaken => op[p].from = installed
      /\ MayInstall(op[p])
      /\ op[p].kind = "rollback" /\ op[p].authorized
            => Move(op[p].project, op[p].target, op[p].from) \in reported
  BY <1>2 DEF Inv, Sound
<1>9. m \in Moves /\ Undo(op[p].project, installed, op[p].target, p \in overtaken) \in Undos
  BY <1>4, <1>8 DEF Move, Moves, Undo, Undos
<1>10. Reported(mem, reported') /\ Reported(r, reported')
  <2>1. ASSUME NEW x, About(x, op[p]), x.install = done PROVE Reported(x, reported')
    BY <1>1, <2>1 DEF Reported, About
  <2> HIDE DEF mem, r
  <2> QED
    BY <1>7, <2>1
<1> HIDE DEF mem, r, m
<1>11. /\ reported \subseteq reported' /\ reported' \subseteq Moves /\ rolled' \subseteq Undos
       /\ installed' \in Versions
  BY <1>1, <1>2, <1>4, <1>8, <1>9
<1>12. RollbackUndoesUpdate'
  <2> SUFFICES ASSUME NEW k \in rolled', ~k.late PROVE Move(k.project, k.to, k.from) \in reported
    BY <1>11 DEF RollbackUndoesUpdate
  <2>1. CASE k \in rolled
    BY <2>1 DEF Inv, RollbackUndoesUpdate
  <2>2. CASE k \notin rolled
    <3>1. op[p].kind = "rollback" /\ k = Undo(op[p].project, installed, op[p].target, p \in overtaken)
      BY <1>2, <2>2
    <3>2. k.project = op[p].project /\ k.to = op[p].target /\ k.from = op[p].from
      BY <1>8, <3>1 DEF Undo
    <3> QED
      BY <1>8, <3>1, <3>2 DEF MayInstall
  <2> QED
    BY <2>1, <2>2
<1> QED
  BY <1>2, <1>3, <1>5, <1>6, <1>7, <1>10, <1>11, <1>12, WorkStep

LEMMA FinishReceiptStep == ASSUME Inv, NEW p \in Procs, FinishReceipt(p) PROVE Inv'
<1> DEFINE mem == op[p].memory
           step == IF Binding(mem, op[p].project) THEN "pointer" ELSE "latest"
<1>1. /\ op[p].pc = "terminal" /\ receipts' = [receipts EXCEPT ![op[p].id] = mem]
      /\ op' = [op EXCEPT ![p].pc = step]
      /\ UNCHANGED <<installed, pointer, holder, orphans, overtaken, reported, rolled, offered>>
  BY DEF FinishReceipt, npm, history
<1>2. op[p].pc \in Working /\ step \in PCs /\ step \in (Working \ {"gate"}) \cup {"latest"}
  BY <1>1 DEF Working, PCs
<1>3. /\ mem \in Receipts /\ About(mem, op[p]) /\ Reported(mem, reported)
      /\ installed \in Versions /\ reported \subseteq Moves /\ rolled \subseteq Undos
  BY <1>2, AtWork
<1>4. Turned(p, step, mem)
  BY <1>1, <1>2, TurnStep DEF Inv
<1>5. /\ step = "pointer" => Binding(mem, op[p].project)
      /\ step = "latest" /\ op[p].kind = "update" /\ mem.install = "installed"
            => Binding(mem, op[p].project)
  BY <1>1, <1>3 DEF Inv, Sound, Binding, About
<1>6. step # "install" /\ step # "terminal"
  OBVIOUS
<1> HIDE DEF mem, step
<1>7. RollbackUndoesUpdate' /\ Reported(mem, reported')
  BY <1>1, <1>3 DEF Inv, RollbackUndoesUpdate
<1> QED
  BY <1>1, <1>2, <1>3, <1>4, <1>5, <1>6, <1>7, WorkStep

LEMMA PointerFailsStep == ASSUME Inv, NEW p \in Procs, PointerFails(p) PROVE Inv'
<1> DEFINE s == "terminal_uncertain"
           mem == [op[p].memory EXCEPT !.state = s]
<1>1. /\ op[p].pc = "pointer" /\ op' = [op EXCEPT ![p].pc = "latest", ![p].memory.state = s]
      /\ receipts' = [receipts EXCEPT ![op[p].id].state = s]
      /\ UNCHANGED <<installed, pointer, holder, orphans, overtaken, reported, rolled, offered>>
  BY DEF PointerFails, npm, history
<1>2. op[p].pc \in Working /\ "latest" \in PCs /\ s \in States
  BY <1>1 DEF Working, PCs, States
<1>3. /\ op[p].memory \in Receipts /\ About(op[p].memory, op[p]) /\ Reported(op[p].memory, reported)
      /\ installed \in Versions /\ reported \subseteq Moves /\ rolled \subseteq Undos
      /\ op[p].id \in DOMAIN receipts /\ receipts \in Seq(Receipts)
  BY <1>2, AtWork
<1>4. receipts[op[p].id] = op[p].memory /\ Binding(op[p].memory, op[p].project)
  BY <1>1 DEF Inv, Sound
<1>5. Turned(p, "latest", mem)
  BY <1>1, <1>2, <1>3, TurnState DEF Inv
<1>6. receipts' = [receipts EXCEPT ![op[p].id] = mem]
  BY <1>1, <1>3, <1>4
<1>7. /\ mem \in Receipts /\ About(mem, op[p])
      /\ mem.state = s /\ mem.install = op[p].memory.install /\ mem.kind = op[p].memory.kind
      /\ mem.project = op[p].memory.project /\ mem.prev = op[p].memory.prev /\ mem.to = op[p].memory.to
  BY <1>2, <1>3, SetState
<1> HIDE DEF mem
<1>8. Binding(mem, op[p].project) /\ Reported(mem, reported')
  BY <1>1, <1>3, <1>4, <1>7 DEF Binding, Terminal, Reported
<1>9. RollbackUndoesUpdate'
  BY <1>1 DEF Inv, RollbackUndoesUpdate
<1> QED
  BY <1>1, <1>2, <1>3, <1>5, <1>6, <1>7, <1>8, <1>9, WorkStep

LEMMA FinishPointerStep == ASSUME Inv, NEW p \in Procs, FinishPointer(p) PROVE Inv'
<1> DEFINE R == op[p].project
           i == op[p].id
<1>1. /\ op[p].pc = "pointer" /\ pointer' = [pointer EXCEPT ![R] = PointTo(i)]
      /\ op' = [op EXCEPT ![p].pc = "latest"]
      /\ UNCHANGED <<installed, receipts, holder, orphans, overtaken, reported, rolled, offered>>
  BY DEF FinishPointer, npm, history
<1>2. /\ op[p].pc \in Locked /\ holder = p /\ R \in Projects
      /\ op[p].target \in Versions /\ op[p].from \in Versions
      /\ i \in DOMAIN receipts /\ op[p].memory \in Receipts
      /\ About(op[p].memory, op[p]) /\ About(receipts[i], op[p]) /\ Reported(op[p].memory, reported)
      /\ receipts[i] = op[p].memory /\ Binding(op[p].memory, R)
  BY <1>1 DEF Inv, Sound, Locked, Working
<1>3. Turned(p, "latest", op[p].memory)
  BY <1>1, TurnStep DEF Inv, PCs
<1>4. /\ op' \in [Procs -> Ops] /\ \A q \in Procs \ {p} : op'[q] = op[q]
      /\ op'[p].pc = "latest" /\ op'[p].memory = op[p].memory /\ op'[p].id = i
      /\ op'[p].kind = op[p].kind /\ op'[p].project = R
      /\ op'[p].target = op[p].target /\ op'[p].from = op[p].from
  BY <1>3 DEF Turned
<1>5. \A q \in Procs \ {p} : Sound(q)'
  BY <1>2, <1>4, OthersSound
<1>6. Sound(p)'
  <2>1. About(op'[p].memory, op'[p]) /\ About(receipts'[op'[p].id], op'[p])
    BY <1>1, <1>2, <1>4 DEF About
  <2>2. Reported(op[p].memory, reported)'
    BY <1>1, <1>2, <1>4 DEF Reported
  <2> HIDE DEF R, i
  <2> QED
    BY <1>1, <1>2, <1>4, <2>1, <2>2 DEF Sound, Locked, Working
<1> HIDE DEF R, i
<1>7. PointTo(i) \in [id : Nat, receipt : Receipts] /\ PointTo(i).id = i /\ PointTo(i).receipt = receipts[i]
  BY <1>2 DEF PointTo, Inv, TypeOK
<1>8. TypeOK'
  BY <1>1, <1>4, <1>7 DEF Inv, TypeOK
<1>9. PointerTrue'
  <2> SUFFICES ASSUME NEW Q \in Projects, pointer'[Q] # Nil
               PROVE  /\ pointer'[Q].id \in DOMAIN receipts
                      /\ receipts[pointer'[Q].id] = pointer'[Q].receipt
                      /\ Binding(pointer'[Q].receipt, Q)
    BY <1>1 DEF PointerTrue
  <2>1. CASE Q = R
    BY <1>1, <1>2, <1>7, <2>1 DEF Inv, TypeOK
  <2>2. CASE Q # R
    BY <1>1, <2>2 DEF Inv, TypeOK, Files, PointerTrue
  <2> QED
    BY <2>1, <2>2
<1>10. ReceiptsReported' /\ OffersKept'
  BY <1>1, <1>4 DEF Inv, Files, ReceiptsReported, OffersKept, Working
<1> QED
  BY <1>1, <1>5, <1>6, <1>8, <1>9, <1>10 DEF Inv, Files, RollbackUndoesUpdate

LEMMA FinishLatestStep == ASSUME Inv, NEW p \in Procs, FinishLatest(p) PROVE Inv'
<1>1. /\ op[p].pc = "latest" /\ holder' = Nil /\ op' = [op EXCEPT ![p] = NoOp]
      /\ UNCHANGED <<installed, receipts, pointer, orphans, overtaken, reported, rolled>>
      /\ \/ UNCHANGED offered
         \/ /\ op[p].memory.kind = "update" /\ op[p].memory.install = "installed"
            /\ offered' = offered \cup {Move(op[p].memory.project, op[p].memory.to, op[p].memory.prev)}
  BY DEF FinishLatest, Release, npm
<1>2. holder = p /\ orphans \in [Versions -> Nat]
  BY <1>1 DEF Inv, Sound, Locked, TypeOK
<1> QED
  BY <1>1, <1>2, EndStep

LEMMA ThrowStep == ASSUME Inv, NEW p \in Procs, Throw(p) PROVE Inv'
<1>1. /\ op[p].pc \in Locked /\ holder' = Nil /\ op' = [op EXCEPT ![p] = NoOp]
      /\ UNCHANGED <<installed, receipts, pointer, orphans, overtaken, reported, rolled, offered>>
  BY DEF Throw, Release, npm, history, Locked, Working
<1>2. holder = p /\ orphans \in [Versions -> Nat]
  BY <1>1 DEF Inv, Sound, TypeOK
<1> QED
  BY <1>1, <1>2, EndStep

LEMMA CrashStep == ASSUME Inv, NEW p \in Procs, Crash(p) PROVE Inv'
<1>1. /\ op' = [op EXCEPT ![p] = NoOp]
      /\ UNCHANGED <<installed, receipts, pointer, overtaken, reported, rolled, offered>>
      /\ holder' = IF holder = p THEN Nil ELSE holder
      /\ orphans' = IF op[p].pc = "install"
                    THEN [orphans EXCEPT ![op[p].target] = @ + 1] ELSE orphans
      /\ op[p].pc # "idle"
  BY DEF Crash, history
<1>2. op[p].target \in Versions /\ (op[p].pc \in Locked => holder = p) /\ orphans \in [Versions -> Nat]
  BY <1>1 DEF Inv, Sound, TypeOK
<1>3. orphans' \in [Versions -> Nat]
  BY <1>1, <1>2
<1>4. \/ holder' = holder /\ op[p].pc \notin Locked
      \/ holder' = Nil /\ holder = p
  BY <1>1, <1>2
<1> QED
  BY <1>1, <1>3, <1>4, EndStep

\* A landing orphan replaces the version of nobody who will not know of it:
\* the operations between probe and install are marked.
LEMMA OrphanStep == ASSUME Inv, NEW v \in Versions, OrphanLands(v) PROVE Inv'
<1>1. /\ orphans[v] > 0 /\ installed' = v /\ orphans' = [orphans EXCEPT ![v] = @ - 1]
      /\ overtaken' = overtaken \cup {p \in Procs : op[p].pc \in {"create", "gate", "install"}}
      /\ UNCHANGED <<receipts, pointer, holder, op, reported, rolled, offered>>
  BY DEF OrphanLands, history
<1>2. TypeOK'
  <2>1. orphans' \in [Versions -> Nat]
    BY <1>1 DEF Inv, TypeOK
  <2> QED
    BY <1>1, <2>1 DEF Inv, TypeOK
<1>3. ASSUME NEW p \in Procs PROVE Sound(p)'
  <2>1. Sound(p)
    BY DEF Inv
  <2>2. op[p].pc \in {"create", "gate", "install"} => p \in overtaken'
    BY <1>1
  <2> QED
    BY <1>1, <2>1, <2>2 DEF Sound, Reported
<1>4. Files'
  BY <1>1, Untouched
<1> QED
  BY <1>1, <1>2, <1>3, <1>4 DEF Inv, RollbackUndoesUpdate

LEMMA InvStep == Inv /\ [Next]_vars => Inv'
<1> SUFFICES ASSUME Inv, [Next]_vars PROVE Inv'
  OBVIOUS
<1>1. CASE UNCHANGED vars
  <2>1. TypeOK' /\ RollbackUndoesUpdate'
    BY <1>1 DEF vars, Inv, TypeOK, RollbackUndoesUpdate
  <2>2. ASSUME NEW p \in Procs PROVE Sound(p)'
    BY <1>1 DEF vars, Inv, Sound, Reported
  <2>3. Files'
    BY <1>1, Untouched DEF vars
  <2> QED
    BY <2>1, <2>2, <2>3 DEF Inv
<1>2. ASSUME NEW p \in Procs, NEW R \in Projects, NEW v \in Versions,
             StartUpdate(p, R, v) \/ StartRollback(p, R, v)
      PROVE  Inv'
  BY <1>2, StartStep DEF StartUpdate, StartRollback, Kinds
<1>3. ASSUME NEW p \in Procs, Step(p) PROVE Inv'
  BY <1>3, LockStep, ProbeStep, CreateStep, IntentStep, SkipStep, InstallStep, StagesStep,
     FinishReceiptStep, FinishPointerStep, PointerFailsStep, FinishLatestStep, ThrowStep DEF Step
<1> QED
  BY <1>1, <1>2, <1>3, CrashStep, OrphanStep DEF Next

-----------------------------------------------------------------------------
LEMMA Invariance == Spec => []Inv
  BY InvInit, InvStep, PTL DEF Spec

\* The receipts keep their types, and a rollback takes back a move that an
\* update of the same project was reported to have made: the authorization
\* is repeated under the lock, and until the install only an npm that
\* outlived its updater can replace the version that was probed.
THEOREM RollbacksUndo == Spec => []ReceiptInvariant
<1>1. Inv => ReceiptInvariant
  BY DEF Inv, ReceiptInvariant
<1> QED
  BY <1>1, Invariance, PTL

\* A rollback that a finished update announced stays authorized while its
\* version is installed: the receipt it rests on is never written again, and
\* a pointer to other versions leads to the scan, which finds it.
THEOREM OffersHold == Spec => []OfferedRollbackWorks
<1>1. Inv => OfferedRollbackWorks
  BY OfferAuthorized DEF Inv, OfferedRollbackWorks
<1> QED
  BY <1>1, Invariance, PTL

\* An update never lowers the version it replaces, also when processes die
\* while npm runs: it compared its target with the version it found under the
\* lock, and unless an orphan npm overtook it that one is still installed.
THEOREM DowngradesAreRollbacks == Spec => NoSilentDowngrade
<1> DEFINE Allowed == \/ \E p \in Procs : /\ op[p].pc = "install"
                                          /\ op[p].kind = "rollback" \/ p \in overtaken
                      \/ \E v \in Versions : orphans'[v] < orphans[v]
<1>1. ASSUME Inv, [Next]_vars
      PROVE  [installed' < installed => Allowed]_vars
  <2>0. SUFFICES ASSUME installed' < installed, Next PROVE Allowed
    BY <1>1
  <2>1. installed \in Nat /\ orphans \in [Versions -> Nat]
    BY <1>1 DEF Inv, TypeOK, Versions
  <2>2. installed' # installed
    BY <2>0, <2>1
  <2>3. CASE \E v \in Versions : OrphanLands(v)
    <3>1. PICK v \in Versions : orphans[v] > 0 /\ orphans' = [orphans EXCEPT ![v] = @ - 1]
      BY <2>3 DEF OrphanLands
    <3>2. orphans'[v] < orphans[v]
      BY <2>1, <3>1
    <3> QED
      BY <3>2
  <2>4. CASE \E p \in Procs : Install(p)
    <3>1. PICK p \in Procs : Install(p)
      BY <2>4
    <3>2. op[p].pc = "install" /\ installed' = op[p].target
      BY <2>2, <3>1 DEF Install
    <3>3. /\ p \notin overtaken => op[p].from = installed
          /\ MayInstall(op[p]) /\ op[p].kind \in Kinds /\ op[p].target \in Versions
      BY <1>1, <3>2 DEF Inv, TypeOK, Sound, Ops
    <3>4. op[p].kind = "rollback" \/ p \in overtaken
      BY <2>0, <2>1, <3>2, <3>3 DEF MayInstall, Kinds, Versions
    <3> QED
      BY <3>2, <3>4
  <2> QED
    BY <2>0, <2>2, <2>3, <2>4 DEF Next, Step, StartUpdate, StartRollback, Start, Lock, Probe,
       CreateReceipt, Intent, Skip, Stages, FinishReceipt, FinishPointer, PointerFails,
       FinishLatest, Throw, Crash
<1> QED
  BY <1>1, Invariance, PTL DEF Spec, NoSilentDowngrade
=============================================================================
