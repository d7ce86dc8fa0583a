------------------------- MODULE PatchHandoffProofs -------------------------
(***************************************************************************)
(* The patch handoff for any number of envelopes, files, runs and faults.  *)
(***************************************************************************)
EXTENDS PatchHandoff, FiniteSetTheorems, SequenceTheorems, WellFoundedInduction, TLAPS

-----------------------------------------------------------------------------
(* The operators the model is built from                                    *)

LEMMA LeastExists ==
  ASSUME NEW T, T \subseteq Nat, T # {}
  PROVE  \E n \in T : \A m \in T : n <= m
<1>1. PICK n \in T : \A m \in T : ~(<<m, n>> \in OpToRel(<, Nat))
  BY NatLessThanWellFounded, WFMin, Zenon
<1>2. ASSUME NEW m \in T PROVE n <= m
  <2>1. m \in Nat /\ n \in Nat
    OBVIOUS
  <2>2. ~(m < n)
    BY <1>1, <2>1 DEF OpToRel
  <2> QED
    BY <2>1, <2>2
<1> QED
  BY <1>2

LEMMA MinFacts ==
  ASSUME NEW T, T \subseteq Nat, T # {}
  PROVE  Min(T) \in T /\ \A m \in T : Min(T) <= m
<1>1. \E n \in T : \A m \in T : n <= m
  BY LeastExists
<1> QED
  BY <1>1 DEF Min

\* What an operation makes of a text: a text, of what was there and its own.
LEMMA EditedFacts ==
  ASSUME NEW c \in Content, NEW p \in Patches
  PROVE  /\ Edited(c, p) \in Content /\ Edited(c, p).exists
         /\ Range(Edited(c, p).text) \subseteq Range(c.text) \union {p}
<1> DEFINE T == {Base} \union Patches
           t == CASE patch[p].kind = "write" -> <<p>>
                  [] patch[p].kind = "add" -> Append(c.text, p)
                  [] OTHER -> [i \in DOMAIN c.text |-> IF c.text[i] = Base THEN p ELSE c.text[i]]
<1>1. c.text \in Seq(T) /\ p \in T
  BY DEF Content
<1> HIDE DEF T
<1>2. t \in Seq(T) /\ Range(t) \subseteq Range(c.text) \union {p}
  <2>1. CASE patch[p].kind = "write"
    <3>1. t = <<p>>
      BY <2>1
    <3> QED
      BY <1>1, <3>1 DEF Range
  <2>2. CASE patch[p].kind = "add"
    <3>1. t = Append(c.text, p)
      BY <2>2
    <3>2. t \in Seq(T) /\ DOMAIN t = 1 .. Len(c.text) + 1 /\ DOMAIN c.text = 1 .. Len(c.text)
      BY <1>1, <3>1
    <3>3. \A i \in DOMAIN t : t[i] = IF i = Len(c.text) + 1 THEN p ELSE c.text[i]
      BY <1>1, <3>1
    <3> HIDE DEF t
    <3>4. ASSUME NEW i \in DOMAIN t PROVE t[i] \in Range(c.text) \union {p}
      <4>1. Len(c.text) \in Nat
        BY <1>1
      <4>2. i = Len(c.text) + 1 \/ i \in DOMAIN c.text
        BY <3>2, <4>1
      <4> QED
        BY <3>3, <4>2 DEF Range
    <3> QED
      BY <3>2, <3>4 DEF Range
  <2>3. CASE patch[p].kind # "write" /\ patch[p].kind # "add"
    <3>1. t = [i \in DOMAIN c.text |-> IF c.text[i] = Base THEN p ELSE c.text[i]]
      BY <2>3
    <3>2. DOMAIN c.text = 1 .. Len(c.text) /\ Len(c.text) \in Nat
      BY <1>1
    <3>3. t \in [1 .. Len(c.text) -> T]
      BY <1>1, <3>1, <3>2
    <3>4. t \in Seq(T)
      BY <3>2, <3>3, SeqDef
    <3> QED
      BY <3>1, <3>4 DEF Range
  <2> QED
    BY <2>1, <2>2, <2>3
<1>3. Edited(c, p) = [exists |-> TRUE, text |-> t]
  BY DEF Edited
<1> HIDE DEF t
<1> QED
  BY <1>2, <1>3 DEF Content, T

-----------------------------------------------------------------------------
(* Types                                                                    *)

Running(p) == at[p] # "idle"
HasResult(p) == \E i \in DOMAIN results : results[i].entry = p

Buffer == [before : Content, after : Content]
Buffers == UNION {[S -> Buffer] : S \in SUBSET Files}
Results == [entry : Patches, ok : BOOLEAN, undo : Buffers]

TypeInv ==
    /\ TypeOK
    /\ buf \in [Patches -> Buffers] /\ results \in Seq(Results)
    /\ pc = "enqueue" => status[NumPatches] = "none"
    /\ \A p \in Patches :
          /\ at[p] = "lock" => left[p] \subseteq patch[p].paths
          /\ at[p] = "write" => left[p] \subseteq DOMAIN buf[p]

LEMMA Numbers == Patches \subseteq Nat /\ Files \subseteq Nat /\ NumPatches \in Patches
  BY PatchHandoffAssumption DEF Patches, Files

LEMMA NextAttemptFacts ==
  ASSUME TypeOK, work # {}
  PROVE  NextAttempt \in work /\ NextAttempt[2] \in Patches
<1> DEFINE F == {c[1] : c \in work}
           f == Min(F)
           P == {p \in Patches : <<f, p>> \in work}
<1>0. \A c \in work : c[1] \in Files /\ c[2] \in Patches /\ c = <<c[1], c[2]>>
  BY DEF TypeOK
<1>1. F \subseteq Nat /\ F # {}
  BY <1>0, Numbers
<1>2. f \in F
  BY <1>1, MinFacts
<1>3. P \subseteq Nat /\ P # {}
  <2>1. PICK c \in work : f = c[1]
    BY <1>2
  <2>2. c[2] \in P
    BY <1>0, <2>1
  <2> QED
    BY <2>2, Numbers
<1>4. Min(P) \in P
  BY <1>3, MinFacts
<1>5. NextAttempt = <<f, Min(P)>>
  BY DEF NextAttempt
<1> HIDE DEF f, P
<1> QED
  BY <1>4, <1>5 DEF P

LEMMA NoBuffersType == NoBuffers \in Buffers /\ DOMAIN NoBuffers = {}
<1> DEFINE S == {}
<1>1. NoBuffers \in [S -> Buffer] /\ S \in SUBSET Files
  BY DEF NoBuffers
<1> QED
  BY <1>1 DEF Buffers, NoBuffers

LEMMA BufferedFacts ==
  ASSUME TypeInv, NEW p \in Patches, NEW f \in Files
  PROVE  /\ Buffered(p, f) \in Buffers /\ DOMAIN Buffered(p, f) = DOMAIN buf[p] \union {f}
         /\ Buffered(p, f)[f] = [before |-> files[f], after |-> Edited(files[f], p)]
         /\ \A g \in DOMAIN buf[p] : g # f => Buffered(p, f)[g] = buf[p][g]
<1>1. files[f] \in Content /\ Edited(files[f], p) \in Content
  BY EditedFacts DEF TypeInv, TypeOK
<1>2. PICK S \in SUBSET Files : buf[p] \in [S -> Buffer]
  BY DEF TypeInv, Buffers
<1>3. [before |-> files[f], after |-> Edited(files[f], p)] \in Buffer
  BY <1>1 DEF Buffer
<1>4. Buffered(p, f) \in [S \union {f} -> Buffer] /\ S \union {f} \in SUBSET Files
  BY <1>2, <1>3 DEF Buffered
<1> QED
  BY <1>2, <1>4 DEF Buffers, Buffered

LEMMA ResultType ==
  ASSUME TypeInv, NEW p \in Patches, NEW ok \in BOOLEAN, NEW S \in SUBSET DOMAIN buf[p]
  PROVE  /\ Result(p, ok, S) \in Results /\ Result(p, ok, S).entry = p /\ Result(p, ok, S).ok = ok
         /\ Result(p, ok, S).undo = [f \in S |-> buf[p][f]]
<1>1. PICK D \in SUBSET Files : buf[p] \in [D -> Buffer]
  BY DEF TypeInv, Buffers
<1> DEFINE u == [f \in S |-> buf[p][f]]
<1>2. u \in [S -> Buffer] /\ S \in SUBSET Files
  BY <1>1
<1>3. u \in Buffers
  BY <1>2 DEF Buffers
<1>4. Result(p, ok, S) = [entry |-> p, ok |-> ok, undo |-> u]
  BY DEF Result
<1> HIDE DEF u
<1>5. Result(p, ok, S) \in Results /\ Result(p, ok, S).entry = p /\ Result(p, ok, S).ok = ok
      /\ Result(p, ok, S).undo = u
  BY <1>3, <1>4 DEF Results
<1> QED
  BY <1>5 DEF u

LEMMA EntryTypes ==
  ASSUME results \in Seq(Results)
  PROVE  \A i \in DOMAIN results : results[i] \in Results /\ results[i].entry \in Patches
<1>1. \A i \in DOMAIN results : results[i] \in Results
  OBVIOUS
<1>2. \A r \in Results : r.entry \in Patches
  BY DEF Results
<1> QED
  BY <1>1, <1>2

LEMMA TypeInit == Init => TypeInv
<1> SUFFICES ASSUME Init PROVE TypeInv
  OBVIOUS
<1>1. files \in [Files -> Content] /\ base = files
  <2>1. [exists |-> TRUE, text |-> <<Base>>] \in Content /\ Missing \in Content
    BY DEF Content, Missing
  <2> QED
    BY <2>1 DEF Init
<1>2. buf \in [Patches -> Buffers] /\ \A p \in Patches : DOMAIN buf[p] = {}
  BY NoBuffersType DEF Init
<1>3. patch \in [Patches -> [paths : SUBSET Files, kind : Kinds]] /\ domain \subseteq Patches
  BY PatchHandoffAssumption DEF Init, Patches
<1>4. run \in 1 .. MaxRuns /\ faults \in 0 .. MaxFaults
  BY PatchHandoffAssumption DEF Init
<1>5. status \in [Patches -> Statuses] /\ results = <<>> /\ results \in Seq(Results)
  BY DEF Init, Statuses
<1>6. /\ dry \in BOOLEAN /\ bad \in [Patches -> BOOLEAN]
      /\ pc \in {"enqueue", "merge", "rebase", "parallel"} \union Ends
      /\ work \subseteq Files \X Patches /\ report \in {"none", "ok", "blocked"}
  BY DEF Init
<1>7. /\ at \in [Patches -> {"idle", "lock", "write"} \union Finally]
      /\ left \in [Patches -> SUBSET Files] /\ held \in [Patches -> SUBSET Files]
      /\ \A i \in DOMAIN results : results[i].entry \in Patches
      /\ succeeded \subseteq Patches /\ failed \subseteq Patches /\ torn \subseteq Patches
      /\ active \subseteq Files /\ lockFiles \subseteq Files
      /\ stuck \subseteq Files /\ busy \subseteq Files
  BY <1>5 DEF Init
<1>8. \A p \in Patches : DOMAIN buf[p] \subseteq patch[p].paths
  BY <1>2
<1>9. TypeOK
  BY <1>1, <1>3, <1>4, <1>5, <1>6, <1>7, <1>8 DEF TypeOK
<1> QED
  BY <1>2, <1>5, <1>9, Numbers DEF TypeInv, Init

\* Appending a result.
LEMMA AppendTypes ==
  ASSUME TypeInv, NEW r \in Results, results' = Append(results, r)
  PROVE  /\ results' \in Seq(Results) /\ (\A i \in DOMAIN results' : results'[i].entry \in Patches)
         /\ Len(results') = Len(results) + 1 /\ DOMAIN results' = 1 .. Len(results) + 1
         /\ \A i \in DOMAIN results : results'[i] = results[i]
         /\ results'[Len(results) + 1] = r
<1>1. results \in Seq(Results)
  BY DEF TypeInv
<1>2. results' \in Seq(Results)
  BY <1>1
<1>3. \A i \in DOMAIN results' : results'[i] \in Results
  BY <1>2
<1> QED
  BY <1>1, <1>2, <1>3 DEF Results

\* What an attempt ends with.
LEMMA OutcomeFacts ==
  ASSUME TypeInv, NEW p \in Patches
  PROVE  /\ Plans(p) \in SUBSET DOMAIN buf[p] /\ DOMAIN buf[p] \subseteq Files
         /\ Outcome(p) \in Results /\ Outcome(p).entry = p /\ (Outcome(p).ok <=> at[p] = "ok")
         /\ at[p] = "ok" => Outcome(p) = Result(p, TRUE, Plans(p))
         /\ at[p] # "ok" => Outcome(p) = Result(p, FALSE, {})
<1>1. Plans(p) \in SUBSET DOMAIN buf[p]
  BY DEF Plans
<1>2. DOMAIN buf[p] \subseteq Files
  BY DEF TypeInv, TypeOK
<1>3. CASE at[p] = "ok"
  <2>1. Outcome(p) = Result(p, TRUE, Plans(p))
    BY <1>3 DEF Outcome
  <2>2. TRUE \in BOOLEAN
    OBVIOUS
  <2>3. Result(p, TRUE, Plans(p)) \in Results /\ Result(p, TRUE, Plans(p)).entry = p /\ Result(p, TRUE, Plans(p)).ok = TRUE
    BY <1>1, <2>2, ResultType
  <2> QED
    BY <1>1, <1>2, <1>3, <2>1, <2>3
<1>4. CASE at[p] # "ok"
  <2>1. Outcome(p) = Result(p, FALSE, {})
    BY <1>4 DEF Outcome
  <2>2. {} \in SUBSET DOMAIN buf[p] /\ FALSE \in BOOLEAN
    OBVIOUS
  <2>3. Result(p, FALSE, {}) \in Results /\ Result(p, FALSE, {}).entry = p /\ Result(p, FALSE, {}).ok = FALSE
    BY <2>2, ResultType
  <2> QED
    BY <1>1, <1>2, <1>4, <2>1, <2>3
<1> QED
  BY <1>3, <1>4

\* The marks an interrupted step has made.
LEMMA InterruptedMarks ==
  ASSUME TypeInv, NEW s \in Interrupted
  PROVE  /\ s \in [Patches -> Statuses]
         /\ \A p \in Patches :
              \/ s[p] = status[p]
              \/ pc = "enqueue" /\ status[p] = "none" /\ s[p] \in {"pending", "rejected"}
              \/ pc = "rebase" /\ p \in Unresolved /\ s[p] = "conflicted"
              \/ pc = "rebase" /\ p \in succeeded /\ s[p] \in {"applying", "applied"}
              \/ pc = "rebase" /\ p \in Independent /\ s[p] = "applying"
              \/ pc = "parallel" /\ s[p] = Verified[p]
<1>0. status \in [Patches -> Statuses]
  BY DEF TypeInv, TypeOK
<1>1. CASE pc = "enqueue"
  <2> DEFINE N == {q \in Patches : status[q] = "none"}
             p == Min(N)
  <2>1. p \in N
    <3>1. NumPatches \in N /\ N \subseteq Nat
      BY <1>1, Numbers DEF TypeInv
    <3> QED
      BY <3>1, MinFacts
  <2>2. Interrupted = {[status EXCEPT ![p] = t] : t \in {"none", "pending", "rejected"}}
    BY <1>1 DEF Interrupted
  <2> HIDE DEF p
  <2>3. PICK t \in {"none", "pending", "rejected"} : s = [status EXCEPT ![p] = t]
    BY <2>2
  <2> QED
    BY <1>0, <1>1, <2>1, <2>3 DEF Statuses
<1>2. CASE pc = "rebase"
  <2>1. Interrupted =
          {[p \in Patches |-> IF p \in S THEN "conflicted" ELSE status[p]] : S \in SUBSET Unresolved}
          \union {[p \in Patches |-> CASE p \in Unresolved -> "conflicted"
                                     [] p \in S -> "applied"
                                     [] p \in succeeded -> "applying"
                                     [] OTHER -> status[p]] : S \in SUBSET succeeded}
          \union {Divided}
    BY <1>2 DEF Interrupted
  <2>2. ASSUME NEW S \in SUBSET Unresolved,
               s = [p \in Patches |-> IF p \in S THEN "conflicted" ELSE status[p]]
        PROVE  s \in [Patches -> Statuses] /\ \A p \in Patches : s[p] = status[p] \/ (p \in Unresolved /\ s[p] = "conflicted")
    BY <1>0, <2>2 DEF Statuses
  <2>3. ASSUME NEW S \in SUBSET succeeded,
               s = [p \in Patches |-> CASE p \in Unresolved -> "conflicted"
                                        [] p \in S -> "applied"
                                        [] p \in succeeded -> "applying"
                                        [] OTHER -> status[p]]
        PROVE  /\ s \in [Patches -> Statuses]
               /\ \A p \in Patches : \/ s[p] = status[p] \/ (p \in Unresolved /\ s[p] = "conflicted")
                                     \/ (p \in succeeded /\ s[p] \in {"applying", "applied"})
    <3>1. \A p \in Patches : \/ p \in Unresolved /\ s[p] = "conflicted"
                             \/ p \in succeeded /\ s[p] \in {"applying", "applied"}
                             \/ s[p] = status[p]
      <4> SUFFICES ASSUME NEW p \in Patches
                   PROVE  \/ p \in Unresolved /\ s[p] = "conflicted"
                          \/ p \in succeeded /\ s[p] \in {"applying", "applied"}
                          \/ s[p] = status[p]
        OBVIOUS
      <4>1. p \in Unresolved => p \notin succeeded
        BY DEF Unresolved
      <4>2. s[p] = CASE p \in Unresolved -> "conflicted"
                     [] p \in S -> "applied"
                     [] p \in succeeded -> "applying"
                     [] OTHER -> status[p]
        BY <2>3
      <4>3. CASE p \in Unresolved
        BY <4>1, <4>2, <4>3
      <4>4. CASE p \in succeeded
        BY <4>1, <4>2, <4>4
      <4>5. CASE p \notin Unresolved /\ p \notin succeeded
        BY <4>2, <4>5
      <4> QED
        BY <4>3, <4>4, <4>5
    <3>2. s = [p \in Patches |-> s[p]]
      BY <2>3
    <3>3. \A p \in Patches : s[p] \in Statuses
      BY <1>0, <3>1 DEF Statuses
    <3> QED
      BY <3>1, <3>2, <3>3
  <2>4. ASSUME s = Divided
        PROVE  /\ s \in [Patches -> Statuses]
               /\ \A p \in Patches : \/ s[p] = status[p] \/ (p \in Unresolved /\ s[p] = "conflicted")
                                     \/ (p \in succeeded /\ s[p] = "applied")
                                     \/ (p \in Independent /\ s[p] = "applying")
    BY <1>0, <2>4 DEF Divided, Statuses
  <2> QED
    BY <1>2, <2>1, <2>2, <2>3, <2>4
<1>3. CASE pc = "parallel"
  <2>1. Interrupted = {[p \in Patches |-> IF p \in S THEN Verified[p] ELSE status[p]] : S \in SUBSET Patches}
    BY <1>3 DEF Interrupted
  <2>2. PICK S \in SUBSET Patches : s = [p \in Patches |-> IF p \in S THEN Verified[p] ELSE status[p]]
    BY <2>1
  <2>3. Verified \in [Patches -> Statuses]
    BY <1>0 DEF Verified, Statuses
  <2> QED
    BY <1>0, <1>3, <2>2, <2>3
<1>4. CASE pc \notin {"enqueue", "rebase", "parallel"}
  <2>1. Interrupted = {status}
    BY <1>4 DEF Interrupted
  <2> QED
    BY <1>0, <2>1
<1> QED
  BY <1>1, <1>2, <1>3, <1>4

LEMMA StartsTypes ==
  ASSUME TypeInv, NEW S, S \subseteq Patches, Starts(S), UNCHANGED patch
  PROVE  /\ at' \in [Patches -> {"idle", "lock", "write"} \union Finally]
         /\ left' \in [Patches -> SUBSET Files] /\ bad' \in [Patches -> BOOLEAN]
         /\ buf' \in [Patches -> Buffers]
         /\ \A p \in Patches : DOMAIN buf'[p] \subseteq patch[p].paths
         /\ \A p \in Patches : /\ at'[p] = "lock" => left'[p] \subseteq patch[p].paths
                               /\ at'[p] = "write" => left'[p] \subseteq DOMAIN buf'[p]
<1>1. \A p \in Patches : patch[p].paths \in SUBSET Files
  BY DEF TypeInv, TypeOK
<1> QED
  BY <1>1, NoBuffersType DEF TypeInv, TypeOK, Starts

LEMMA TypeStep == TypeInv /\ [Next]_vars => TypeInv'
<1> SUFFICES ASSUME TypeInv, [Next]_vars PROVE TypeInv'
  OBVIOUS
<1> USE DEF input, apply, rebase, history, Faulty
<1>0. TypeOK
  BY DEF TypeInv
<1>1. CASE Enqueue
  <2> DEFINE N == {q \in Patches : status[q] = "none"}
             p == Min(N)
  <2>1. NumPatches \in N /\ N \subseteq Nat
    BY <1>1, Numbers DEF Enqueue, TypeInv
  <2>2. p \in N
    BY <2>1, MinFacts
  <2>3. /\ \E s \in {"pending", "rejected"} : status' = [status EXCEPT ![p] = s]
        /\ pc' = IF p = NumPatches THEN "merge" ELSE pc
        /\ UNCHANGED <<patch, domain, dry, run, files, base, work, succeeded, failed, at, left, held, buf, bad,
                       results, active, lockFiles, report, faults, torn, stuck, busy>>
    BY <1>1 DEF Enqueue
  <2> HIDE DEF p
  <2>4. p \in Patches
    BY <2>2
  <2>5. status' \in [Patches -> Statuses] /\ (pc' = "enqueue" => status'[NumPatches] = "none")
    BY <1>0, <2>1, <2>3, <2>4 DEF TypeOK, Statuses
  <2>6. pc' \in {"enqueue", "merge", "rebase", "parallel"} \union Ends
    BY <1>0, <2>3 DEF TypeOK
  <2> QED
    BY <1>0, <2>3, <2>5, <2>6 DEF TypeInv, TypeOK
<1>2. CASE Coordinate
  <2>1. PathConflicts \subseteq Files \X Patches
    BY DEF PathConflicts, Pending
  <2> QED
    BY <1>0, <1>2, <2>1 DEF Coordinate, TypeInv, TypeOK
<1>3. CASE StartSerial
  <2>1. {NextAttempt[2]} \subseteq Patches
    BY <1>0, <1>3, NextAttemptFacts DEF StartSerial
  <2>2. Starts({NextAttempt[2]}) /\ UNCHANGED patch
    BY <1>3 DEF StartSerial
  <2> HIDE DEF NextAttempt
  <2> QED
    BY <1>0, <1>3, <2>1, <2>2, StartsTypes DEF StartSerial, TypeInv, TypeOK
<1>4. CASE StartParallel
  <2>1. Independent \subseteq Patches /\ Starts(Independent) /\ UNCHANGED patch
    BY <1>4 DEF Independent, Pending, StartParallel
  <2>2. status' \in [Patches -> Statuses]
    BY <1>0, <1>4 DEF StartParallel, Divided, TypeOK, Statuses
  <2> QED
    BY <1>0, <1>4, <2>1, <2>2, StartsTypes DEF StartParallel, TypeInv, TypeOK, Ends
<1>5. CASE Report
  <2>1. Verified \in [Patches -> Statuses]
    BY <1>0 DEF Verified, TypeOK, Statuses
  <2> QED
    BY <1>0, <1>5, <2>1 DEF Report, TypeInv, TypeOK, Ends
<1>6. CASE Crash
  BY <1>0, <1>6, PatchHandoffAssumption DEF Crash, TypeInv, TypeOK, Ends
<1>a. CASE HandoffFails
  <2>1. status' \in [Patches -> Statuses]
    BY <1>a, InterruptedMarks DEF HandoffFails
  <2>2. faults' \in 0 .. MaxFaults
    BY <1>0, <1>a, PatchHandoffAssumption DEF HandoffFails, TypeOK
  <2> QED
    BY <1>0, <1>a, <2>1, <2>2 DEF HandoffFails, TypeInv, TypeOK, Ends
<1>7. CASE Rerun
  <2>1. run' \in 1 .. MaxRuns
    BY <1>0, <1>7, PatchHandoffAssumption DEF Rerun, TypeOK
  <2>2. status' \in [Patches -> Statuses] /\ status'[NumPatches] = "none"
    BY <1>7, Numbers DEF Rerun, Statuses
  <2>3. results' = <<>> /\ results' \in Seq(Results) /\ DOMAIN results' = {}
    BY <1>7 DEF Rerun
  <2> QED
    BY <1>0, <1>7, <2>1, <2>2, <2>3 DEF Rerun, TypeInv, TypeOK
<1>8. CASE UNCHANGED vars
  BY <1>0, <1>8 DEF vars, TypeInv, TypeOK
<1>9. ASSUME NEW p \in Patches, left[p] # {}
      PROVE  Min(left[p]) \in left[p] /\ Min(left[p]) \in Files
  BY <1>0, <1>9, MinFacts, Numbers DEF TypeOK
<1>10. ASSUME NEW p \in Patches, Barred(p) \/ LockBusy(p) \/ LockFails(p) PROVE TypeInv'
  <2>1. \E f \in Files :
          /\ left' = [left EXCEPT ![p] = @ \ {f}] /\ bad' = [bad EXCEPT ![p] = TRUE]
          /\ busy' \in {busy, busy \union {f}} /\ stuck' \in {stuck, stuck \union {f}}
          /\ lockFiles' \in {lockFiles, lockFiles \union {f}}
          /\ UNCHANGED <<patch, domain, dry, pc, run, files, base, status, work, succeeded, failed, at, held, buf,
                         results, active, report, torn>>
    <3>1. left[p] # {}
      BY <1>10 DEF Barred, LockBusy, LockFails
    <3>2. Min(left[p]) \in Files
      BY <1>9, <3>1
    <3>3. CASE Barred(p)
      BY <3>2, <3>3 DEF Barred
    <3>4. CASE LockBusy(p)
      BY <3>2, <3>4 DEF LockBusy
    <3>5. CASE LockFails(p)
      BY <3>2, <3>5 DEF LockFails
    <3> QED
      BY <1>10, <3>3, <3>4, <3>5
  <2>2. faults' \in 0 .. MaxFaults
    BY <1>0, <1>10, PatchHandoffAssumption DEF Barred, LockBusy, LockFails, TypeOK
  <2> QED
    BY <1>0, <2>1, <2>2 DEF TypeInv, TypeOK
<1>11. ASSUME NEW p \in Patches, LockFile(p) PROVE TypeInv'
  <2> DEFINE f == Min(left[p])
  <2>1. f \in left[p] /\ f \in Files /\ at[p] = "lock"
    BY <1>9, <1>11 DEF LockFile
  <2>2. f \in patch[p].paths
    BY <1>11, <2>1 DEF TypeInv
  <2>3. /\ active' = active \union {f} /\ lockFiles' = lockFiles \union {f}
        /\ held' = [held EXCEPT ![p] = @ \union {f}] /\ left' = [left EXCEPT ![p] = @ \ {f}]
        /\ bad' = [bad EXCEPT ![p] = @ \/ ~Applicable(files[f], p)]
        /\ buf' = [buf EXCEPT ![p] = Buffered(p, f)]
        /\ UNCHANGED <<patch, domain, dry, pc, run, files, base, status, work, succeeded, failed, at,
                       results, report, faults, torn, stuck, busy>>
    BY <1>11 DEF LockFile
  <2> HIDE DEF f
  <2>4. Buffered(p, f) \in Buffers /\ DOMAIN Buffered(p, f) \subseteq patch[p].paths
    <3>1. DOMAIN buf[p] \subseteq patch[p].paths
      BY <1>0 DEF TypeOK
    <3>2. Buffered(p, f) \in Buffers /\ DOMAIN Buffered(p, f) = DOMAIN buf[p] \union {f}
      BY <2>1, BufferedFacts
    <3> QED
      BY <2>2, <3>1, <3>2
  <2>5. buf' \in [Patches -> Buffers] /\ \A q \in Patches : DOMAIN buf'[q] \subseteq patch[q].paths
    BY <1>0, <2>3, <2>4 DEF TypeInv, TypeOK
  <2>6. (bad[p] \/ ~Applicable(files[f], p)) \in BOOLEAN
    OBVIOUS
  <2>7. bad' \in [Patches -> BOOLEAN]
    BY <1>0, <2>3, <2>6 DEF TypeOK
  <2>8. /\ left' \in [Patches -> SUBSET Files] /\ held' \in [Patches -> SUBSET Files]
        /\ left'[p] \subseteq left[p] /\ \A q \in Patches : q # p => left'[q] = left[q] /\ buf'[q] = buf[q]
    BY <1>0, <2>1, <2>3 DEF TypeOK, TypeInv
  <2>9. \A q \in Patches :
          /\ at'[q] = "lock" => left'[q] \subseteq patch[q].paths
          /\ at'[q] = "write" => left'[q] \subseteq DOMAIN buf'[q]
    BY <2>1, <2>3, <2>8 DEF TypeInv
  <2>10. TypeOK'
    BY <1>0, <2>1, <2>3, <2>5, <2>7, <2>8 DEF TypeOK
  <2> QED
    BY <2>3, <2>5, <2>9, <2>10 DEF TypeInv
<1>12. ASSUME at' \in [Patches -> {"idle", "lock", "write"} \union Finally],
              \A q \in Patches : at'[q] \in {"lock", "write"} => at'[q] = at[q],
              held' \in [Patches -> SUBSET Files], status' \in [Patches -> Statuses],
              results' \in Seq(Results), files' \in [Files -> Content], faults' \in 0 .. MaxFaults,
              work' \subseteq work, succeeded' \subseteq Patches, failed' \subseteq Patches, torn' \subseteq Patches,
              active' \subseteq Files, lockFiles' \subseteq Files, stuck' \subseteq Files,
              pc' \in {pc, "threw"}, pc' = "enqueue" => status' = status,
              UNCHANGED <<patch, domain, dry, run, base, left, buf, bad, report, busy>>
       PROVE  TypeInv'
  <2>1. \A i \in DOMAIN results' : results'[i].entry \in Patches
    <3>1. \A i \in DOMAIN results' : results'[i] \in Results
      BY <1>12
    <3> QED
      BY <3>1 DEF Results
  <2>2. TypeOK'
    BY <1>0, <1>12, <2>1 DEF TypeOK, Ends
  <2> QED
    BY <1>12, <2>2 DEF TypeInv
<1>13. ASSUME NEW p \in Patches, NEW a \in {"idle"} \union Finally, at' = [at EXCEPT ![p] = a]
       PROVE  /\ at' \in [Patches -> {"idle", "lock", "write"} \union Finally]
              /\ \A q \in Patches : at'[q] \in {"lock", "write"} => at'[q] = at[q]
  BY <1>0, <1>13 DEF TypeOK, Finally
<1>b. ASSUME faults < MaxFaults, faults' = faults + 1 PROVE faults' \in 0 .. MaxFaults
  BY <1>0, <1>b, PatchHandoffAssumption DEF TypeOK
<1>14. ASSUME NEW p \in Patches,
              Settled(p) \/ Record(p) \/ SettleFails(p) \/ WriteFails(p) \/ RecordFails(p) \/ ArtifactFails(p)
       PROVE  TypeInv'
  <2>1. \E a \in {"idle"} \union Finally : at' = [at EXCEPT ![p] = a]
    BY <1>14 DEF Settled, Record, SettleFails, WriteFails, RecordFails, ArtifactFails, Finally
  <2>2. UNCHANGED <<patch, domain, dry, run, pc, base, status, work, succeeded, failed, left, held, buf, bad,
                    results, report, active, lockFiles, stuck, busy>>
    BY <1>14 DEF Settled, Record, SettleFails, WriteFails, RecordFails, ArtifactFails
  <2>3. torn' \subseteq Patches /\ faults' \in 0 .. MaxFaults
    <3>1. faults \in 0 .. MaxFaults /\ torn \subseteq Patches /\ TornBy(p) \subseteq Patches
      BY <1>0 DEF TypeOK, TornBy
    <3>2. torn' \in {torn, torn \union {p}, torn \union TornBy(p)}
      BY <1>14 DEF Settled, Record, SettleFails, WriteFails, RecordFails, ArtifactFails
    <3>3. faults' = faults \/ (faults < MaxFaults /\ faults' = faults + 1)
      BY <1>14 DEF Settled, Record, SettleFails, WriteFails, RecordFails, ArtifactFails
    <3> QED
      BY <1>b, <3>1, <3>2, <3>3
  <2>4. files' \in [Files -> Content]
    <3>1. [exists |-> TRUE, text |-> <<>>] \in Content
      BY DEF Content
    <3>2. files' = files \/ \E c \in Content : files' = [files EXCEPT ![Min(left[p])] = c]
      BY <1>14, <3>1 DEF Settled, Record, SettleFails, WriteFails, RecordFails, ArtifactFails
    <3> QED
      BY <1>0, <3>2 DEF TypeOK
  <2>5. /\ at' \in [Patches -> {"idle", "lock", "write"} \union Finally]
        /\ \A q \in Patches : at'[q] \in {"lock", "write"} => at'[q] = at[q]
    BY <1>13, <2>1
  <2>6. /\ results \in Seq(Results) /\ held \in [Patches -> SUBSET Files] /\ status \in [Patches -> Statuses]
        /\ succeeded \subseteq Patches /\ failed \subseteq Patches
        /\ active \subseteq Files /\ lockFiles \subseteq Files /\ stuck \subseteq Files
    BY <1>0 DEF TypeInv, TypeOK
  <2> QED
    BY <1>12, <2>2, <2>3, <2>4, <2>5, <2>6
<1>15. ASSUME NEW p \in Patches, StartWrites(p) PROVE TypeInv'
  <2>1. Plans(p) \subseteq DOMAIN buf[p] /\ Plans(p) \subseteq Files
    BY OutcomeFacts
  <2> QED
    BY <1>0, <1>15, <2>1 DEF StartWrites, TypeInv, TypeOK
<1>16. ASSUME NEW p \in Patches, NEW f \in DOMAIN buf[p] PROVE buf[p][f] \in Buffer
  BY <1>16 DEF TypeInv, Buffers
<1>17. ASSUME NEW p \in Patches, WriteFile(p) PROVE TypeInv'
  <2> DEFINE f == Min(left[p])
  <2>1. f \in left[p] /\ f \in Files /\ at[p] = "write"
    BY <1>9, <1>17 DEF WriteFile
  <2>2. f \in DOMAIN buf[p]
    BY <2>1 DEF TypeInv
  <2>3. /\ files' = [files EXCEPT ![f] = buf[p][f].after] /\ left' = [left EXCEPT ![p] = @ \ {f}]
        /\ UNCHANGED <<patch, domain, dry, pc, run, base, status, work, succeeded, failed, at, held, buf, bad,
                       results, active, lockFiles, report, faults, torn, stuck, busy>>
    BY <1>17 DEF WriteFile
  <2> HIDE DEF f
  <2>4. buf[p][f].after \in Content
    BY <1>16, <2>2 DEF Buffer
  <2>5. files' \in [Files -> Content]
    BY <1>0, <2>3, <2>4 DEF TypeOK
  <2> QED
    BY <1>0, <2>1, <2>3, <2>5 DEF TypeInv, TypeOK
<1>18. ASSUME NEW p \in Patches, ReadFails(p) \/ ReleaseFile(p) \/ RmFails(p) \/ ReleaseFails(p) PROVE TypeInv'
  <2>1. \E a \in {"idle"} \union Finally : at' = [at EXCEPT ![p] = a]
    BY <1>0, <1>18 DEF ReadFails, ReleaseFile, RmFails, ReleaseFails, TypeOK, Finally
  <2>2. UNCHANGED <<patch, domain, dry, run, pc, base, status, work, succeeded, failed, left, buf, bad, files,
                    results, report, busy>>
    BY <1>18 DEF ReadFails, ReleaseFile, RmFails, ReleaseFails
  <2>3. \E S \in SUBSET Files, T \in SUBSET Files :
          /\ held' = [held EXCEPT ![p] = S] /\ active' \in {active \union T, active \ T}
          /\ lockFiles' \in {lockFiles, lockFiles \union T, lockFiles \ T}
    <3>1. held[p] \in SUBSET Files
      BY <1>0 DEF TypeOK
    <3>2. CASE ReadFails(p)
      <4>1. Min(left[p]) \in Files
        BY <1>9, <3>2 DEF ReadFails
      <4>2. held[p] \union {Min(left[p])} \in SUBSET Files /\ {Min(left[p])} \in SUBSET Files
        BY <3>1, <4>1
      <4> QED
        BY <3>2, <4>2 DEF ReadFails
    <3>3. CASE ReleaseFile(p) \/ RmFails(p) \/ ReleaseFails(p)
      <4>1. held[p] # {}
        BY <3>3 DEF ReleaseFile, RmFails, ReleaseFails
      <4>2. Min(held[p]) \in Files
        BY <3>1, <4>1, MinFacts, Numbers
      <4>3. held[p] \ {Min(held[p])} \in SUBSET Files /\ {Min(held[p])} \in SUBSET Files /\ {} \in SUBSET Files
        BY <3>1, <4>2
      <4> QED
        BY <3>3, <4>3 DEF ReleaseFile, RmFails, ReleaseFails
    <3> QED
      BY <1>18, <3>2, <3>3
  <2>4. stuck' \subseteq Files
    <3>1. stuck \subseteq Files /\ held[p] \subseteq Files
      BY <1>0 DEF TypeOK
    <3>2. held[p] # {} => Min(held[p]) \in held[p]
      BY <3>1, MinFacts, Numbers
    <3>3. stuck' \subseteq stuck \union held[p]
      BY <1>18, <3>2 DEF ReadFails, ReleaseFile, RmFails, ReleaseFails
    <3> QED
      BY <3>1, <3>3
  <2>5. torn' \subseteq Patches /\ faults' \in 0 .. MaxFaults
    <3>1. faults \in 0 .. MaxFaults /\ torn \subseteq Patches /\ TornBy(p) \subseteq Patches
      BY <1>0 DEF TypeOK, TornBy
    <3>2. torn' \in {torn, torn \union TornBy(p)}
      BY <1>18 DEF ReadFails, ReleaseFile, RmFails, ReleaseFails
    <3>3. faults' = faults \/ (faults < MaxFaults /\ faults' = faults + 1)
      BY <1>18 DEF ReadFails, ReleaseFile, RmFails, ReleaseFails
    <3> QED
      BY <1>b, <3>1, <3>2, <3>3
  <2>6. /\ at' \in [Patches -> {"idle", "lock", "write"} \union Finally]
        /\ \A q \in Patches : at'[q] \in {"lock", "write"} => at'[q] = at[q]
    BY <1>13, <2>1
  <2>7. held' \in [Patches -> SUBSET Files] /\ active' \subseteq Files /\ lockFiles' \subseteq Files
    BY <1>0, <2>3 DEF TypeOK
  <2>8. /\ results \in Seq(Results) /\ status \in [Patches -> Statuses] /\ files \in [Files -> Content]
        /\ succeeded \subseteq Patches /\ failed \subseteq Patches
    BY <1>0 DEF TypeInv, TypeOK
  <2> QED
    BY <1>12, <2>2, <2>4, <2>5, <2>6, <2>7, <2>8
<1>19. ASSUME NEW p \in Patches,
              EndSerial(p) \/ DryRunFails(p) \/ EndParallel(p) \/ MarkFails(p) \/ EndThrow(p)
       PROVE  TypeInv'
  <2>1. /\ at' = [at EXCEPT ![p] = "idle"]
        /\ UNCHANGED <<patch, domain, dry, run, files, base, left, held, buf, bad, report, torn, active, lockFiles,
                       stuck, busy>>
    BY <1>19 DEF EndSerial, DryRunFails, EndParallel, MarkFails, EndThrow
  <2>2. /\ at' \in [Patches -> {"idle", "lock", "write"} \union Finally]
        /\ \A q \in Patches : at'[q] \in {"lock", "write"} => at'[q] = at[q]
    BY <1>13, <2>1
  <2>3. results' \in Seq(Results)
    <3>1. results' = results \/ results' = Append(results, Outcome(p))
      BY <1>19 DEF EndSerial, DryRunFails, EndParallel, MarkFails, EndThrow
    <3>2. results \in Seq(Results) /\ Outcome(p) \in Results
      BY OutcomeFacts DEF TypeInv
    <3> QED
      BY <3>1, <3>2
  <2>4. work' \subseteq work /\ succeeded' \subseteq Patches /\ failed' \subseteq Patches
    BY <1>0, <1>19 DEF EndSerial, DryRunFails, EndParallel, MarkFails, EndThrow, TypeOK
  <2>5. /\ status' \in [Patches -> Statuses] /\ pc' \in {pc, "threw"}
        /\ pc' = "enqueue" => status' = status
    BY <1>0, <1>19 DEF EndSerial, DryRunFails, EndParallel, MarkFails, EndThrow, Marks, TypeOK, Statuses
  <2>6. faults' \in 0 .. MaxFaults
    <3>1. faults \in 0 .. MaxFaults
      BY <1>0 DEF TypeOK
    <3>2. faults' = faults \/ (faults < MaxFaults /\ faults' = faults + 1)
      BY <1>19 DEF EndSerial, DryRunFails, EndParallel, MarkFails, EndThrow
    <3> QED
      BY <1>b, <3>1, <3>2
  <2>7. /\ files \in [Files -> Content] /\ held \in [Patches -> SUBSET Files] /\ torn \subseteq Patches
        /\ active \subseteq Files /\ lockFiles \subseteq Files /\ stuck \subseteq Files
    BY <1>0 DEF TypeOK
  <2> QED
    BY <1>12, <2>1, <2>2, <2>3, <2>4, <2>5, <2>6, <2>7
<1> QED
  BY <1>1, <1>2, <1>3, <1>4, <1>5, <1>6, <1>a, <1>7, <1>8, <1>10, <1>11, <1>14, <1>15, <1>17, <1>18, <1>19
     DEF Next, Step, EntryStep, EntryFault

-----------------------------------------------------------------------------
(* Locks                                                                    *)

\* What an entry holds is among its paths, and only while it runs.
EntryLocks(p) ==
    /\ at[p] = "idle" => held[p] = {}
    /\ held[p] \subseteq patch[p].paths
    /\ at[p] = "lock" => left[p] \intersect held[p] = {}
    /\ Running(p) => pc \in {"rebase", "parallel", "threw"}

\* The locks the entries hold are in memory and on disk; any other lock was left
\* behind by a failure.
LockBooks ==
    /\ \A p \in Patches : held[p] \subseteq active
    /\ active \subseteq lockFiles
    /\ \A f \in lockFiles : f \in stuck \/ \E p \in Patches : f \in held[p]
    /\ busy \subseteq stuck

\* Entries that run together write different files, and none does in the serial part.
RunApart == \A p, q \in Patches : p # q /\ Running(p) /\ Running(q) =>
               patch[p].paths \intersect patch[q].paths = {} /\ pc # "rebase"

Locks == (\A p \in Patches : EntryLocks(p)) /\ LockBooks /\ RunApart

LEMMA LocksInit == Init => Locks
<1> SUFFICES ASSUME Init PROVE Locks
  OBVIOUS
<1>1. \A p \in Patches : at[p] = "idle" /\ held[p] = {}
  BY DEF Init
<1>2. active = {} /\ lockFiles = {} /\ busy = {}
  BY DEF Init
<1> QED
  BY <1>1, <1>2 DEF Locks, EntryLocks, LockBooks, RunApart, Running

\* No two entries hold one lock.
LEMMA HeldApart ==
  ASSUME Locks, NEW p \in Patches, NEW q \in Patches, p # q
  PROVE  held[p] \intersect held[q] = {}
<1> SUFFICES ASSUME NEW f, f \in held[p], f \in held[q] PROVE FALSE
  OBVIOUS
<1>1. Running(p) /\ Running(q) /\ f \in patch[p].paths /\ f \in patch[q].paths
  BY DEF Locks, EntryLocks, Running
<1> QED
  BY <1>1 DEF Locks, RunApart

\* A path with two pending writers is a conflict, so the coordinator's
\* independent entries share none.
LEMMA IndependentApart ==
  ASSUME TypeOK, NEW p \in Independent, NEW q \in Independent, p # q
  PROVE  patch[p].paths \intersect patch[q].paths = {}
<1> SUFFICES ASSUME NEW f \in patch[p].paths, f \in patch[q].paths PROVE FALSE
  OBVIOUS
<1>1. p \in Pending /\ q \in Pending /\ p \notin InConflict /\ p \in Patches
  BY DEF Independent, Pending
<1>2. p \in Writers(f) /\ q \in Writers(f)
  BY <1>1 DEF Writers
<1>3. f \in Files
  BY <1>1 DEF TypeOK
<1>4. IsFiniteSet(Writers(f))
  <2>1. IsFiniteSet(1 .. NumPatches)
    BY PatchHandoffAssumption, FS_Interval
  <2>2. Writers(f) \subseteq 1 .. NumPatches
    BY DEF Writers, Pending, Patches
  <2> QED
    BY <2>1, <2>2, FS_Subset
<1>5. Cardinality(Writers(f)) > 1
  <2>1. {p, q} \subseteq Writers(f)
    BY <1>2
  <2>2. Cardinality({p, q}) = 2
    <3>1. IsFiniteSet({p}) /\ Cardinality({p}) = 1
      BY FS_Singleton
    <3>2. {p, q} = {p} \union {q} /\ q \notin {p}
      OBVIOUS
    <3>3. Cardinality({p} \union {q}) = IF q \in {p} THEN Cardinality({p}) ELSE Cardinality({p}) + 1
      BY <3>1, FS_AddElement
    <3> QED
      BY <3>1, <3>2, <3>3
  <2>3. Cardinality({p, q}) <= Cardinality(Writers(f)) /\ Cardinality(Writers(f)) \in Nat
    BY <1>4, <2>1, FS_Subset, FS_CardinalityType
  <2> QED
    BY <2>2, <2>3
<1>6. <<f, p>> \in PathConflicts
  BY <1>1, <1>2, <1>3, <1>5 DEF PathConflicts
<1>7. <<f, p>>[2] \in {c[2] : c \in PathConflicts}
  BY <1>6
<1> QED
  BY <1>1, <1>7 DEF InConflict

\* Entries begin: they hold nothing yet.
LEMMA StartsLocks ==
  ASSUME TypeInv, Locks, NEW S, S \subseteq Patches, Starts(S),
         \A p \in Patches : at[p] = "idle",
         pc' \in {"rebase", "parallel"},
         \A p, q \in S : p # q => patch[p].paths \intersect patch[q].paths = {} /\ pc' # "rebase",
         UNCHANGED <<patch, held, active, lockFiles, stuck, busy>>
  PROVE  Locks'
<1>1. \A p \in Patches : held[p] = {} /\ held'[p] = {}
  BY DEF Locks, EntryLocks
<1>2. \A p \in Patches : Running(p)' => p \in S /\ at'[p] = "lock"
  BY DEF Running, Starts
<1>3. \A p \in Patches : EntryLocks(p)'
  BY <1>1, <1>2 DEF EntryLocks, Running
<1>4. LockBooks'
  BY <1>1 DEF Locks, LockBooks
<1>5. RunApart'
  BY <1>2 DEF RunApart
<1> QED
  BY <1>3, <1>4, <1>5 DEF Locks

\* A step of one running entry leaves the others where they are.
LEMMA OneMoves ==
  ASSUME Locks, NEW p \in Patches, Running(p),
         \A q \in Patches : q # p => at'[q] = at[q] /\ left'[q] = left[q] /\ held'[q] = held[q],
         at'[p] = "idle" => held'[p] = {}, held'[p] \subseteq patch[p].paths,
         at'[p] = "lock" => left'[p] \intersect held'[p] = {},
         pc' \in {pc, "threw"}, UNCHANGED patch
  PROVE  (\A q \in Patches : EntryLocks(q)') /\ RunApart'
<1>1. ASSUME NEW q \in Patches PROVE EntryLocks(q)'
  <2>1. EntryLocks(q) /\ EntryLocks(p)
    BY DEF Locks
  <2>2. CASE q = p
    BY <2>1, <2>2 DEF EntryLocks, Running
  <2>3. CASE q # p
    BY <2>1, <2>3 DEF EntryLocks, Running
  <2> QED
    BY <2>2, <2>3
<1>2. \A q \in Patches : Running(q)' => Running(q)
  BY DEF Running
<1>3. pc' = "rebase" => pc = "rebase"
  OBVIOUS
<1>4. RunApart'
  BY <1>2, <1>3 DEF Locks, RunApart
<1> QED
  BY <1>1, <1>4

LEMMA LocksStep == TypeInv /\ Locks /\ [Next]_vars => Locks'
<1> SUFFICES ASSUME TypeInv, Locks, [Next]_vars PROVE Locks'
  OBVIOUS
<1> USE DEF input, apply, rebase, history, Faulty
<1>0. TypeOK
  BY DEF TypeInv
<1>1. ASSUME \A p \in Patches : at[p] = "idle" /\ at'[p] = "idle",
             UNCHANGED <<patch, held, lockFiles, stuck, busy>>, active' \subseteq active
      PROVE  Locks'
  <2>1. \A p \in Patches : held[p] = {} /\ held'[p] = {}
    BY <1>1 DEF Locks, EntryLocks
  <2>2. \A p \in Patches : EntryLocks(p)'
    BY <1>1, <2>1 DEF EntryLocks, Running
  <2>3. LockBooks'
    BY <1>1, <2>1 DEF Locks, LockBooks
  <2>4. RunApart'
    BY <1>1 DEF RunApart, Running
  <2> QED
    BY <2>2, <2>3, <2>4 DEF Locks
<1>2. CASE Enqueue \/ Coordinate
  <2>1. \A p \in Patches : at[p] = "idle"
    BY <1>2 DEF Enqueue, Coordinate, Locks, EntryLocks, Running
  <2> QED
    BY <1>1, <1>2, <2>1 DEF Enqueue, Coordinate
<1>3. CASE StartSerial
  <2>1. {NextAttempt[2]} \subseteq Patches
    BY <1>0, <1>3, NextAttemptFacts DEF StartSerial
  <2>2. /\ Starts({NextAttempt[2]}) /\ pc' = "rebase" /\ (\A p \in Patches : at[p] = "idle")
        /\ UNCHANGED <<patch, held, active, lockFiles, stuck, busy>>
    BY <1>3 DEF StartSerial
  <2>3. \A p, q \in {NextAttempt[2]} : p = q
    OBVIOUS
  <2> QED
    BY <2>1, <2>2, <2>3, StartsLocks
<1>4. CASE StartParallel
  <2>1. Independent \subseteq Patches
    BY DEF Independent, Pending
  <2>2. /\ Starts(Independent) /\ pc' = "parallel" /\ (\A p \in Patches : at[p] = "idle")
        /\ UNCHANGED <<patch, held, active, lockFiles, stuck, busy>>
    BY <1>4 DEF StartParallel
  <2>3. \A p, q \in Independent : p # q => patch[p].paths \intersect patch[q].paths = {}
    BY <1>0, IndependentApart
  <2> QED
    BY <2>1, <2>2, <2>3, StartsLocks
<1>5. CASE Report \/ HandoffFails \/ Rerun
  BY <1>1, <1>5 DEF Report, HandoffFails, Rerun
<1>6. CASE Crash
  <2>1. /\ \A p \in Patches : at'[p] = "idle" /\ held'[p] = {}
        /\ active' = {} /\ stuck' = stuck \union lockFiles /\ UNCHANGED <<patch, lockFiles, busy>>
    BY <1>6 DEF Crash
  <2> QED
    BY <2>1 DEF Locks, EntryLocks, LockBooks, RunApart, Running
<1>7. CASE UNCHANGED vars
  BY <1>7 DEF vars, Locks, EntryLocks, LockBooks, RunApart, Running
<1>8. ASSUME NEW p \in Patches, left[p] # {}
      PROVE  Min(left[p]) \in left[p] /\ Min(left[p]) \in Files
  BY <1>0, <1>8, MinFacts, Numbers DEF TypeOK
<1>9. ASSUME NEW p \in Patches,
             \/ Barred(p) \/ Settled(p) \/ StartWrites(p) \/ WriteFile(p) \/ Record(p)
             \/ SettleFails(p) \/ WriteFails(p) \/ RecordFails(p) \/ ArtifactFails(p)
      PROVE  Locks'
  <2>1. Running(p) /\ UNCHANGED <<patch, pc, held, active, lockFiles, stuck, busy>>
    BY <1>9 DEF Barred, Settled, StartWrites, WriteFile, Record, SettleFails, WriteFails, RecordFails,
                ArtifactFails, Running
  <2>2. /\ \A q \in Patches : q # p => at'[q] = at[q] /\ left'[q] = left[q]
        /\ at'[p] \in {"lock", "write"} \union Finally
        /\ at'[p] = "lock" => at[p] = "lock" /\ left'[p] \subseteq left[p]
    BY <1>0, <1>9 DEF Barred, Settled, StartWrites, WriteFile, Record, SettleFails, WriteFails, RecordFails,
                      ArtifactFails, TypeOK, Finally
  <2>3. EntryLocks(p)
    BY DEF Locks
  <2>4. (\A q \in Patches : EntryLocks(q)') /\ RunApart'
    BY <2>1, <2>2, <2>3, OneMoves DEF EntryLocks, Finally
  <2>5. LockBooks'
    BY <2>1 DEF Locks, LockBooks
  <2> QED
    BY <2>4, <2>5 DEF Locks
<1>10. ASSUME NEW p \in Patches, LockBusy(p) \/ LockFails(p) PROVE Locks'
  <2> DEFINE f == Min(left[p])
  <2>1. f \in left[p] /\ f \in Files /\ at[p] = "lock" /\ Running(p)
    BY <1>8, <1>10 DEF LockBusy, LockFails, Running
  <2>2. /\ left' = [left EXCEPT ![p] = @ \ {f}] /\ UNCHANGED <<patch, pc, at, held, active>>
        /\ \/ f \in active \union lockFiles /\ busy' = busy \union {f} /\ UNCHANGED <<lockFiles, stuck>>
           \/ \E S \in SUBSET Files : lockFiles' = lockFiles \union S /\ stuck' = stuck \union S /\ UNCHANGED busy
    <3>1. CASE LockBusy(p)
      BY <3>1 DEF LockBusy, Taken
    <3>2. CASE LockFails(p)
      <4>1. {} \in SUBSET Files /\ {f} \in SUBSET Files
        BY <2>1
      <4> QED
        BY <3>2, <4>1 DEF LockFails
    <3> QED
      BY <1>10, <3>1, <3>2
  <2> HIDE DEF f
  <2>3. left'[p] = left[p] \ {f} /\ \A q \in Patches : q # p => left'[q] = left[q]
    BY <1>0, <2>2 DEF TypeOK
  <2>4. EntryLocks(p)
    BY DEF Locks
  <2>5. (\A q \in Patches : EntryLocks(q)') /\ RunApart'
    BY <2>1, <2>2, <2>3, <2>4, OneMoves DEF EntryLocks
  <2>6. f \in active \union lockFiles => f \in stuck
    <3> SUFFICES ASSUME f \in active \union lockFiles, f \notin stuck PROVE FALSE
      OBVIOUS
    <3>1. PICK q \in Patches : f \in held[q]
      BY DEF Locks, LockBooks
    <3>2. f \in patch[q].paths /\ Running(q) /\ f \in patch[p].paths /\ q # p
      BY <2>1, <3>1 DEF Locks, EntryLocks, TypeInv, Running
    <3> QED
      BY <2>1, <3>2 DEF Locks, RunApart
  <2>7. LockBooks'
    BY <2>2, <2>6 DEF Locks, LockBooks
  <2> QED
    BY <2>5, <2>7 DEF Locks
<1>11. ASSUME NEW p \in Patches, LockFile(p) \/ ReadFails(p) PROVE Locks'
  <2> DEFINE f == Min(left[p])
  <2>1. f \in left[p] /\ f \in Files /\ at[p] = "lock" /\ Running(p)
    BY <1>8, <1>11 DEF LockFile, ReadFails, Running
  <2>2. f \in patch[p].paths
    BY <2>1 DEF TypeInv
  <2>3. /\ active' = active \union {f} /\ lockFiles' = lockFiles \union {f}
        /\ held' = [held EXCEPT ![p] = @ \union {f}] /\ UNCHANGED <<patch, pc, stuck, busy>>
        /\ \/ at' = at /\ left' = [left EXCEPT ![p] = @ \ {f}]
           \/ at' = [at EXCEPT ![p] = "throw"] /\ left' = left
    BY <1>11 DEF LockFile, ReadFails
  <2> HIDE DEF f
  <2>4. /\ held'[p] = held[p] \union {f} /\ at'[p] # "idle"
        /\ at'[p] = "lock" => left'[p] = left[p] \ {f}
        /\ \A q \in Patches : q # p => held'[q] = held[q] /\ left'[q] = left[q] /\ at'[q] = at[q]
    BY <1>0, <2>1, <2>3 DEF TypeOK
  <2>5. EntryLocks(p)
    BY DEF Locks
  <2>6. (\A q \in Patches : EntryLocks(q)') /\ RunApart'
    BY <2>1, <2>2, <2>3, <2>4, <2>5, OneMoves DEF EntryLocks
  <2>7. LockBooks'
    BY <2>3, <2>4 DEF Locks, LockBooks
  <2> QED
    BY <2>6, <2>7 DEF Locks
<1>12. ASSUME NEW p \in Patches, ReleaseFile(p) \/ RmFails(p) \/ ReleaseFails(p) PROVE Locks'
  <2> DEFINE f == Min(held[p])
  <2>1. f \in held[p] /\ at[p] \in Finally /\ Running(p)
    BY <1>0, <1>12, MinFacts, Numbers DEF ReleaseFile, RmFails, ReleaseFails, TypeOK, Running, Finally
  <2>2. /\ active' = active \ {f} /\ UNCHANGED <<patch, pc, left, busy>>
        /\ \/ at' = at \/ at' = [at EXCEPT ![p] = "throw"]
        /\ \/ /\ held' = [held EXCEPT ![p] = @ \ {f}]
              /\ (lockFiles' = lockFiles \ {f} /\ stuck' = stuck) \/ (lockFiles' = lockFiles /\ stuck' = stuck \union {f})
           \/ /\ held' = [held EXCEPT ![p] = {}] /\ lockFiles' = lockFiles \ {f}
              /\ stuck' = stuck \union (held[p] \ {f})
    BY <1>12 DEF ReleaseFile, RmFails, ReleaseFails
  <2> HIDE DEF f
  <2>3. /\ held'[p] \in {held[p] \ {f}, {}} /\ at'[p] \in Finally
        /\ \A q \in Patches : q # p => held'[q] = held[q] /\ at'[q] = at[q]
    BY <1>0, <2>1, <2>2 DEF TypeOK, Finally
  <2>4. EntryLocks(p)
    BY DEF Locks
  <2>5. (\A q \in Patches : EntryLocks(q)') /\ RunApart'
    BY <2>1, <2>2, <2>3, <2>4, OneMoves DEF EntryLocks, Finally
  <2>6. \A q \in Patches : q # p => f \notin held[q]
    BY <2>1, HeldApart
  <2>7. /\ \A q \in Patches : held'[q] \subseteq active'
        /\ active' \subseteq lockFiles' /\ busy' \subseteq stuck'
    BY <2>2, <2>3, <2>6 DEF Locks, LockBooks
  <2>8. ASSUME NEW g \in lockFiles' PROVE g \in stuck' \/ \E q \in Patches : g \in held'[q]
    <3>1. g \in lockFiles /\ (g \in stuck => g \in stuck')
      BY <2>2, <2>8
    <3>2. CASE g \in held[p]
      <4>1. held'[p] = held[p] \ {f} \/ held'[p] = {}
        BY <2>3
      <4>2. g \in stuck' \/ g \in held'[p]
        BY <1>0, <2>1, <2>2, <2>8, <3>2 DEF TypeOK
      <4> QED
        BY <4>2
    <3>3. CASE g \notin held[p]
      BY <2>3, <3>1, <3>3 DEF Locks, LockBooks
    <3> QED
      BY <3>2, <3>3
  <2>9. LockBooks'
    BY <2>7, <2>8 DEF LockBooks
  <2> QED
    BY <2>5, <2>9 DEF Locks
<1>13. ASSUME NEW p \in Patches,
              EndSerial(p) \/ DryRunFails(p) \/ EndParallel(p) \/ MarkFails(p) \/ EndThrow(p)
       PROVE  Locks'
  <2>1. /\ held[p] = {} /\ at[p] \in Finally /\ at' = [at EXCEPT ![p] = "idle"] /\ pc' \in {pc, "threw"}
        /\ UNCHANGED <<patch, left, held, active, lockFiles, stuck, busy>>
    BY <1>13 DEF EndSerial, DryRunFails, EndParallel, MarkFails, EndThrow, Finished
  <2>2. at'[p] = "idle" /\ Running(p) /\ \A q \in Patches : q # p => at'[q] = at[q]
    BY <1>0, <2>1 DEF TypeOK, Running, Finally
  <2>3. (\A q \in Patches : EntryLocks(q)') /\ RunApart'
    BY <2>1, <2>2, OneMoves
  <2>4. LockBooks'
    BY <2>1 DEF Locks, LockBooks
  <2> QED
    BY <2>3, <2>4 DEF Locks
<1> QED
  BY <1>2, <1>3, <1>4, <1>5, <1>6, <1>7, <1>9, <1>10, <1>11, <1>12, <1>13
     DEF Next, Step, EntryStep, EntryFault

\* The entries never meet at a file, and every lock is given back: what is left, or
\* met, is a lock that a crash or a failing file operation left behind
\* (LocksOnlyFromFailure).
THEOREM LocksGivenBack == Spec => []LocksOnlyFromFailure
<1>1. Init => TypeInv /\ Locks
  BY TypeInit, LocksInit
<1>2. TypeInv /\ Locks /\ [Next]_vars => TypeInv' /\ Locks'
  BY TypeStep, LocksStep
<1>3. Locks => LocksOnlyFromFailure
  BY DEF Locks, EntryLocks, LockBooks, LocksOnlyFromFailure
<1> QED
  BY <1>1, <1>2, <1>3, PTL DEF Spec


-----------------------------------------------------------------------------
(* Statuses                                                                 *)

\* Which marks an entry can carry; one that ran in the parallel part is none of the
\* serial part's.
EntryStatus(p) ==
    /\ pc \in {"enqueue", "merge", "rebase"} => status[p] \in {"none", "pending", "rejected"}
    /\ Running(p) => status[p] = IF pc = "rebase" THEN "pending" ELSE "applying"
    /\ Running(p) /\ pc # "rebase" => p \notin succeeded
    /\ p \in succeeded => status[p] \in {"pending", "applying", "applied", "verified"} /\ HasResult(p)

Stat ==
    /\ \A p \in Patches : EntryStatus(p)
    /\ pc = "rebase" => \A c \in work : status[c[2]] = "pending"

LEMMA StatInit == Init => Stat
<1> SUFFICES ASSUME Init PROVE Stat
  OBVIOUS
<1>1. pc = "enqueue" /\ succeeded = {} /\ \A p \in Patches : status[p] = "none" /\ at[p] = "idle"
  BY DEF Init
<1> QED
  BY <1>1 DEF Stat, EntryStatus, Running

\* A result more: the entry it is about has one, and nobody loses one.
LEMMA ResultAppended ==
  ASSUME TypeInv, NEW p \in Patches, results' = Append(results, Outcome(p))
  PROVE  HasResult(p)' /\ \A q \in Patches : HasResult(q) => HasResult(q)'
<1>1. Outcome(p) \in Results /\ Outcome(p).entry = p
  BY OutcomeFacts
<1>2. results \in Seq(Results)
  BY DEF TypeInv
<1>3. /\ DOMAIN results' = 1 .. Len(results) + 1 /\ results'[Len(results) + 1] = Outcome(p)
      /\ \A i \in DOMAIN results : results'[i] = results[i]
  BY <1>1, AppendTypes
<1>4. DOMAIN results = 1 .. Len(results) /\ Len(results) \in Nat
  BY <1>2
<1>5. Len(results) + 1 \in DOMAIN results' /\ DOMAIN results \subseteq DOMAIN results'
  BY <1>3, <1>4
<1> QED
  BY <1>1, <1>3, <1>5 DEF HasResult

LEMMA StatStep == TypeInv /\ Locks /\ Stat /\ [Next]_vars => Stat'
<1> SUFFICES ASSUME TypeInv, Locks, Stat, [Next]_vars PROVE Stat'
  OBVIOUS
<1> USE DEF input, apply, rebase, history, Faulty
<1>0. TypeOK
  BY DEF TypeInv
<1>1. CASE Enqueue
  <2> DEFINE N == {q \in Patches : status[q] = "none"}
             p == Min(N)
  <2>1. NumPatches \in N /\ N \subseteq Nat
    BY <1>1, Numbers DEF Enqueue, TypeInv
  <2>2. p \in N
    BY <2>1, MinFacts
  <2>3. /\ \E s \in {"pending", "rejected"} : status' = [status EXCEPT ![p] = s]
        /\ pc' \in {"enqueue", "merge"} /\ pc = "enqueue" /\ UNCHANGED <<succeeded, at, results>>
    BY <1>1 DEF Enqueue
  <2> HIDE DEF p
  <2>4. p \in Patches /\ status[p] = "none"
    BY <2>2
  <2>5. status'[p] \in {"pending", "rejected"} /\ \A q \in Patches : q # p => status'[q] = status[q]
    BY <1>0, <2>3, <2>4 DEF TypeOK
  <2>6. \A q \in Patches : ~Running(q) /\ ~Running(q)'
    BY <2>3 DEF Locks, EntryLocks, Running
  <2>7. p \notin succeeded
    BY <2>4 DEF Stat, EntryStatus
  <2> QED
    BY <2>3, <2>5, <2>6, <2>7 DEF Stat, EntryStatus, HasResult, Running
<1>2. CASE Coordinate
  <2>1. \A q \in Patches : ~Running(q)
    BY <1>2 DEF Coordinate, Locks, EntryLocks
  <2>2. \A c \in PathConflicts : status[c[2]] = "pending"
    BY DEF PathConflicts, Pending
  <2> QED
    BY <1>2, <2>1, <2>2 DEF Coordinate, Stat, EntryStatus, HasResult, Running
<1>3. CASE StartSerial
  <2>1. NextAttempt \in work /\ NextAttempt[2] \in Patches
    BY <1>0, <1>3, NextAttemptFacts DEF StartSerial
  <2>2. pc = "rebase" /\ Starts({NextAttempt[2]}) /\ UNCHANGED <<pc, status, work, succeeded, results>>
    BY <1>3 DEF StartSerial
  <2>3. status[NextAttempt[2]] = "pending"
    BY <2>1, <2>2 DEF Stat
  <2>4. \A q \in Patches : at'[q] = IF q = NextAttempt[2] THEN "lock" ELSE at[q]
    BY <2>2 DEF Starts
  <2> QED
    BY <2>2, <2>3, <2>4 DEF Stat, EntryStatus, HasResult, Running
<1>4. CASE StartParallel
  <2>1. /\ pc = "rebase" /\ pc' = "parallel" /\ Starts(Independent) /\ UNCHANGED <<succeeded, results>>
        /\ \A q \in Patches : at[q] = "idle"
    BY <1>4 DEF StartParallel
  <2>2. \A q \in Patches : at'[q] = IF q \in Independent THEN "lock" ELSE "idle"
    BY <2>1 DEF Starts
  <2>3. ASSUME NEW q \in Patches
        PROVE  /\ q \in succeeded => q \notin Unresolved /\ q \notin Independent /\ HasResult(q)
               /\ q \in Independent => q \notin Unresolved
    BY DEF Stat, EntryStatus, HasResult, Unresolved, Independent
  <2>4. \A q \in Patches : status'[q] = CASE q \in Unresolved -> "conflicted"
                                         [] q \in succeeded -> "applied"
                                         [] q \in Independent -> "applying"
                                         [] OTHER -> status[q]
    BY <1>4 DEF StartParallel, Divided
  <2>5. \A q \in Patches : q \in succeeded => status'[q] = "applied"
    BY <2>3, <2>4
  <2>6. \A q \in Patches : q \in Independent => status'[q] = "applying"
    BY <2>3, <2>4
  <2> QED
    BY <2>1, <2>2, <2>3, <2>5, <2>6 DEF Stat, EntryStatus, HasResult, Running
<1>5. CASE Report
  <2>1. /\ pc' = "done" /\ status' = Verified /\ UNCHANGED <<at, succeeded, results>>
        /\ \A q \in Patches : at[q] = "idle"
    BY <1>5 DEF Report
  <2>2. \A q \in Patches : status'[q] \in {"verified", status[q]}
    BY <2>1 DEF Verified
  <2> QED
    BY <2>1, <2>2 DEF Stat, EntryStatus, HasResult, Running
<1>6. CASE Crash
  <2>1. /\ pc' = "crashed" /\ UNCHANGED <<status, succeeded, results>>
        /\ \A q \in Patches : at'[q] = "idle"
    BY <1>6 DEF Crash
  <2> QED
    BY <2>1 DEF Stat, EntryStatus, HasResult, Running
<1>a. CASE HandoffFails
  <2>1. /\ pc' = "threw" /\ status' \in Interrupted /\ UNCHANGED <<at, succeeded, results>>
        /\ \A q \in Patches : at[q] = "idle"
    BY <1>a DEF HandoffFails
  <2>2. ASSUME NEW q \in Patches, q \in succeeded
        PROVE  status'[q] \in {"pending", "applying", "applied", "verified"}
    <3>1. /\ q \notin Unresolved
          /\ status[q] \in {"pending", "applying", "applied", "verified"}
      BY <2>2 DEF Stat, EntryStatus, Unresolved
    <3>2. \/ status'[q] = status[q]
          \/ status[q] = "none" /\ status'[q] \in {"pending", "rejected"}
          \/ q \in Unresolved
          \/ status'[q] \in {"applying", "applied"}
          \/ status'[q] = Verified[q]
      BY <2>1, InterruptedMarks
    <3>3. Verified[q] \in {"verified", status[q]}
      BY DEF Verified
    <3> QED
      BY <3>1, <3>2, <3>3
  <2> QED
    BY <2>1, <2>2 DEF Stat, EntryStatus, HasResult, Running
<1>7. CASE Rerun
  <2>1. /\ pc' = "enqueue" /\ succeeded' = {}
        /\ \A q \in Patches : at'[q] = "idle" /\ status'[q] = "none"
    BY <1>7 DEF Rerun
  <2> QED
    BY <2>1 DEF Stat, EntryStatus, Running
<1>8. CASE UNCHANGED vars
  BY <1>8 DEF vars, Stat, EntryStatus, HasResult, Running
<1>9. ASSUME NEW p \in Patches,
             \/ Barred(p) \/ LockBusy(p) \/ LockFile(p) \/ Settled(p) \/ StartWrites(p) \/ WriteFile(p)
             \/ Record(p) \/ ReleaseFile(p) \/ LockFails(p) \/ SettleFails(p) \/ ReadFails(p) \/ WriteFails(p)
             \/ RecordFails(p) \/ RmFails(p) \/ ReleaseFails(p) \/ ArtifactFails(p)
      PROVE  Stat'
  <2>1. UNCHANGED <<pc, status, work, succeeded, results>> /\ Running(p)
    BY <1>9 DEF Barred, LockBusy, LockFile, Settled, StartWrites, WriteFile, Record, ReleaseFile, LockFails,
                SettleFails, ReadFails, WriteFails, RecordFails, RmFails, ReleaseFails, ArtifactFails, Running,
                Finally
  <2>2. at' = at \/ \E a : at' = [at EXCEPT ![p] = a]
    BY <1>9 DEF Barred, LockBusy, LockFile, Settled, StartWrites, WriteFile, Record, ReleaseFile, LockFails,
                SettleFails, ReadFails, WriteFails, RecordFails, RmFails, ReleaseFails, ArtifactFails
  <2>3. \A q \in Patches : Running(q)' => Running(q)
    BY <1>0, <2>1, <2>2 DEF TypeOK, Running
  <2> QED
    BY <2>1, <2>3 DEF Stat, EntryStatus, HasResult
<1>10. ASSUME NEW p \in Patches, at' = [at EXCEPT ![p] = "idle"]
       PROVE  ~Running(p)' /\ \A q \in Patches : q # p => (Running(q)' <=> Running(q))
  BY <1>0, <1>10 DEF TypeOK, Running
<1>11. ASSUME NEW p \in Patches, EndSerial(p) PROVE Stat'
  <2>1. /\ Running(p) /\ at' = [at EXCEPT ![p] = "idle"] /\ pc = "rebase"
        /\ UNCHANGED <<pc, status>> /\ work' \subseteq work /\ results' = Append(results, Outcome(p))
        /\ succeeded' \in {succeeded, succeeded \union {p}}
    BY <1>11 DEF EndSerial, Finished, Finally, Running
  <2>2. HasResult(p)' /\ \A q \in Patches : HasResult(q) => HasResult(q)'
    BY <2>1, ResultAppended
  <2>3. status[p] = "pending"
    BY <2>1 DEF Stat, EntryStatus
  <2>4. \A q \in Patches : Running(q)' => Running(q)
    BY <1>10, <2>1
  <2> QED
    BY <2>1, <2>2, <2>3, <2>4 DEF Stat, EntryStatus
<1>12. ASSUME NEW p \in Patches, EndParallel(p) \/ MarkFails(p) PROVE Stat'
  <2>1. /\ Running(p) /\ at' = [at EXCEPT ![p] = "idle"] /\ pc \in {"parallel", "threw"} /\ pc' \in {pc, "threw"}
        /\ UNCHANGED <<work, succeeded>> /\ Marks(p)
        /\ results' = results \/ results' = Append(results, Outcome(p))
    BY <1>12 DEF EndParallel, MarkFails, Finished, Finally, Running
  <2>2. \A q \in Patches : HasResult(q) => HasResult(q)'
    BY <2>1, ResultAppended DEF HasResult
  <2>3. \A q \in Patches : q # p => status'[q] = status[q]
    BY <1>0, <2>1 DEF TypeOK, Marks
  <2>4. p \notin succeeded
    BY <2>1 DEF Stat, EntryStatus
  <2>5. ~Running(p)' /\ \A q \in Patches : q # p => (Running(q)' <=> Running(q))
    BY <1>10, <2>1
  <2> QED
    BY <2>1, <2>2, <2>3, <2>4, <2>5 DEF Stat, EntryStatus
<1>13. ASSUME NEW p \in Patches, EndThrow(p) \/ DryRunFails(p) PROVE Stat'
  <2>1. /\ Running(p) /\ at' = [at EXCEPT ![p] = "idle"] /\ pc' = "threw"
        /\ pc \in {"rebase", "parallel", "threw"}
        /\ UNCHANGED <<status, work, succeeded, results>>
    BY <1>13 DEF EndThrow, DryRunFails, Running, Finished, Finally
  <2>2. ~Running(p)' /\ \A q \in Patches : q # p => (Running(q)' <=> Running(q))
    BY <1>10, <2>1
  <2>3. \A q \in Patches : Running(q)' => pc # "rebase"
    BY <2>1, <2>2 DEF Locks, RunApart
  <2> QED
    BY <2>1, <2>2, <2>3 DEF Stat, EntryStatus, HasResult
<1> QED
  BY <1>1, <1>2, <1>3, <1>4, <1>5, <1>6, <1>a, <1>7, <1>8, <1>9, <1>11, <1>12, <1>13
     DEF Next, Step, EntryStep, EntryFault

-----------------------------------------------------------------------------
(* Buffers                                                                  *)

\* The files of an entry are what its buffers say: the text before while it locks,
\* the text after once it has written.
EntryBufs(p) ==
    /\ \A f \in DOMAIN buf[p] :
          /\ buf[p][f].after.exists
          /\ Range(buf[p][f].after.text) \subseteq Range(buf[p][f].before.text) \union {p}
    /\ at[p] = "lock" => \A f \in DOMAIN buf[p] : files[f] = buf[p][f].before
    /\ at[p] = "write" =>
          /\ ~dry
          /\ \A f \in DOMAIN buf[p] : files[f] = IF f \in left[p] THEN buf[p][f].before ELSE buf[p][f].after
    /\ at[p] = "ok" /\ ~dry => \A f \in DOMAIN buf[p] : files[f] = buf[p][f].after

Bufs == \A p \in Patches : EntryBufs(p)

LEMMA BufsInit == Init => Bufs
<1> SUFFICES ASSUME Init PROVE Bufs
  OBVIOUS
<1>1. \A p \in Patches : at[p] = "idle" /\ DOMAIN buf[p] = {}
  BY NoBuffersType DEF Init
<1> QED
  BY <1>1 DEF Bufs, EntryBufs

\* An entry whose own state and files do not change, or that has failed.
LEMMA BufsSame ==
  ASSUME NEW q \in Patches, EntryBufs(q), UNCHANGED dry, buf'[q] = buf[q],
         (at'[q] = at[q] /\ left'[q] = left[q]) \/ at'[q] \in {"idle", "blocked", "throw"},
         Running(q) /\ at'[q] \in {"lock", "write", "ok"} => \A f \in DOMAIN buf[q] : files'[f] = files[f]
  PROVE  EntryBufs(q)'
<1>1. \A f \in DOMAIN buf'[q] :
          /\ buf'[q][f].after.exists
          /\ Range(buf'[q][f].after.text) \subseteq Range(buf'[q][f].before.text) \union {q}
  BY DEF EntryBufs
<1>2. at'[q] = "lock" => \A f \in DOMAIN buf'[q] : files'[f] = buf'[q][f].before
  BY DEF EntryBufs, Running
<1>3. at'[q] = "write" =>
          /\ ~dry'
          /\ \A f \in DOMAIN buf'[q] : files'[f] = IF f \in left'[q] THEN buf'[q][f].before ELSE buf'[q][f].after
  BY DEF EntryBufs, Running
<1>4. at'[q] = "ok" /\ ~dry' => \A f \in DOMAIN buf'[q] : files'[f] = buf'[q][f].after
  BY DEF EntryBufs, Running
<1> QED
  BY <1>1, <1>2, <1>3, <1>4 DEF EntryBufs

\* What one running entry writes no other one has read.
LEMMA OthersUntouched ==
  ASSUME TypeInv, Locks, NEW p \in Patches, NEW q \in Patches, p # q, at[p] = "write", Running(q),
         \A f \in Files \ left[p] : files'[f] = files[f]
  PROVE  pc # "rebase" /\ \A f \in DOMAIN buf[q] : files'[f] = files[f]
<1>1. /\ Running(p) /\ left[p] \subseteq patch[p].paths
      /\ DOMAIN buf[q] \subseteq patch[q].paths /\ DOMAIN buf[q] \subseteq Files
  BY DEF Running, TypeInv, TypeOK
<1>2. patch[p].paths \intersect patch[q].paths = {} /\ pc # "rebase"
  BY <1>1 DEF Locks, RunApart
<1> QED
  BY <1>1, <1>2

LEMMA BufsStep == TypeInv /\ Locks /\ Bufs /\ [Next]_vars => Bufs'
<1> SUFFICES ASSUME TypeInv, Locks, Bufs, [Next]_vars PROVE Bufs'
  OBVIOUS
<1> USE DEF input, apply, rebase, history, Faulty
<1>0. TypeOK
  BY DEF TypeInv
<1>1. ASSUME \A p \in Patches : at[p] = "idle" /\ at'[p] = "idle", UNCHANGED <<dry, buf>> PROVE Bufs'
  BY <1>1 DEF Bufs, EntryBufs
<1>2. CASE Enqueue \/ Coordinate
  <2>1. pc \in {"enqueue", "merge"} /\ UNCHANGED <<dry, buf, at>>
    BY <1>2 DEF Enqueue, Coordinate
  <2> QED
    BY <1>1, <2>1 DEF Locks, EntryLocks, Running
<1>3. ASSUME NEW S, Starts(S), \A p \in Patches : at[p] = "idle" PROVE Bufs'
  <2>1. \A p \in Patches : p \in S => at'[p] = "lock" /\ DOMAIN buf'[p] = {}
    BY <1>3, NoBuffersType DEF Starts
  <2>2. \A p \in Patches : p \notin S => at'[p] = "idle" /\ buf'[p] = buf[p]
    BY <1>3 DEF Starts
  <2> QED
    BY <2>1, <2>2 DEF Bufs, EntryBufs
<1>4. CASE StartSerial \/ StartParallel
  BY <1>3, <1>4 DEF StartSerial, StartParallel
<1>5. CASE Report \/ HandoffFails \/ Rerun
  BY <1>1, <1>5 DEF Report, HandoffFails, Rerun
<1>6. CASE Crash
  <2>1. \A p \in Patches : at'[p] = "idle" /\ buf'[p] = buf[p]
    BY <1>6 DEF Crash
  <2> QED
    BY <2>1 DEF Bufs, EntryBufs
<1>7. CASE UNCHANGED vars
  <2>1. UNCHANGED <<dry, files, buf, at, left>>
    BY <1>7 DEF vars
  <2> QED
    BY <2>1, BufsSame DEF Bufs
<1>8. ASSUME NEW p \in Patches, left[p] # {}
      PROVE  Min(left[p]) \in left[p] /\ Min(left[p]) \in Files
  BY <1>0, <1>8, MinFacts, Numbers DEF TypeOK
<1>9. ASSUME NEW p \in Patches, UNCHANGED <<dry, files>>,
             \A q \in Patches : q # p => buf'[q] = buf[q] /\ at'[q] = at[q] /\ left'[q] = left[q],
             EntryBufs(p)'
      PROVE  Bufs'
  BY <1>9, BufsSame DEF Bufs
<1>10. ASSUME NEW p \in Patches, Barred(p) \/ LockBusy(p) \/ LockFails(p) PROVE Bufs'
  <2>1. /\ at[p] = "lock" /\ UNCHANGED <<dry, files, buf, at>>
        /\ \E f : left' = [left EXCEPT ![p] = @ \ {f}]
    BY <1>10 DEF Barred, LockBusy, LockFails
  <2>2. \A q \in Patches : q # p => left'[q] = left[q]
    BY <1>0, <2>1 DEF TypeOK
  <2>3. EntryBufs(p)'
    BY <2>1 DEF Bufs, EntryBufs
  <2> QED
    BY <1>9, <2>1, <2>2, <2>3
<1>11. ASSUME NEW p \in Patches, LockFile(p) PROVE Bufs'
  <2> DEFINE f == Min(left[p])
  <2>1. f \in left[p] /\ f \in Files /\ at[p] = "lock"
    BY <1>8, <1>11 DEF LockFile
  <2>2. /\ left' = [left EXCEPT ![p] = @ \ {f}] /\ buf' = [buf EXCEPT ![p] = Buffered(p, f)]
        /\ UNCHANGED <<dry, at, files>>
    BY <1>11 DEF LockFile
  <2> HIDE DEF f
  <2>3. /\ buf'[p] = Buffered(p, f)
        /\ \A q \in Patches : q # p => left'[q] = left[q] /\ buf'[q] = buf[q]
    BY <1>0, <2>2 DEF TypeOK, TypeInv
  <2>4. /\ DOMAIN Buffered(p, f) = DOMAIN buf[p] \union {f}
        /\ Buffered(p, f)[f].before = files[f] /\ Buffered(p, f)[f].after = Edited(files[f], p)
        /\ \A g \in DOMAIN buf[p] : g # f => Buffered(p, f)[g] = buf[p][g]
    <3>1. /\ DOMAIN Buffered(p, f) = DOMAIN buf[p] \union {f}
          /\ Buffered(p, f)[f] = [before |-> files[f], after |-> Edited(files[f], p)]
          /\ \A g \in DOMAIN buf[p] : g # f => Buffered(p, f)[g] = buf[p][g]
      BY <2>1, BufferedFacts
    <3> QED
      BY <3>1
  <2>5. Edited(files[f], p).exists /\ Range(Edited(files[f], p).text) \subseteq Range(files[f].text) \union {p}
    BY <1>0, <2>1, EditedFacts DEF TypeOK
  <2>6. ASSUME NEW g \in DOMAIN buf'[p]
        PROVE  /\ files'[g] = buf'[p][g].before
               /\ buf'[p][g].after.exists
               /\ Range(buf'[p][g].after.text) \subseteq Range(buf'[p][g].before.text) \union {p}
    <3>1. CASE g = f
      BY <2>2, <2>3, <2>4, <2>5, <3>1
    <3>2. CASE g # f
      <4>1. g \in DOMAIN buf[p] /\ buf'[p][g] = buf[p][g]
        BY <2>3, <2>4, <2>6, <3>2
      <4>2. EntryBufs(p)
        BY DEF Bufs
      <4> QED
        BY <2>1, <2>2, <4>1, <4>2 DEF EntryBufs
    <3> QED
      BY <3>1, <3>2
  <2>7. EntryBufs(p)'
    BY <2>1, <2>2, <2>6 DEF EntryBufs
  <2> QED
    BY <1>9, <2>2, <2>3, <2>7
<1>12. ASSUME NEW p \in Patches, StartWrites(p) PROVE Bufs'
  <2>1. /\ at[p] = "lock" /\ ~dry /\ at' = [at EXCEPT ![p] = "write"] /\ left' = [left EXCEPT ![p] = Plans(p)]
        /\ UNCHANGED <<dry, files, buf>>
    BY <1>12 DEF StartWrites
  <2>2. /\ at'[p] = "write" /\ left'[p] = Plans(p)
        /\ \A q \in Patches : q # p => left'[q] = left[q] /\ at'[q] = at[q]
    BY <1>0, <2>1 DEF TypeOK
  <2>3. \A f \in DOMAIN buf[p] : files[f] = IF f \in Plans(p) THEN buf[p][f].before ELSE buf[p][f].after
    BY <2>1 DEF Bufs, EntryBufs, Plans
  <2>4. EntryBufs(p)'
    BY <2>1, <2>2, <2>3 DEF Bufs, EntryBufs
  <2> QED
    BY <1>9, <2>1, <2>2, <2>4
<1>13. ASSUME NEW p \in Patches, at[p] = "write", UNCHANGED <<dry, buf>>,
              \A f \in Files \ left[p] : files'[f] = files[f],
              \A q \in Patches : q # p => at'[q] = at[q] /\ left'[q] = left[q],
              EntryBufs(p)'
       PROVE  Bufs'
  <2>1. ASSUME NEW q \in Patches, q # p PROVE EntryBufs(q)'
    <3>1. Running(q) => \A g \in DOMAIN buf[q] : files'[g] = files[g]
      BY <1>13, <2>1, OthersUntouched
    <3>2. EntryBufs(q)
      BY DEF Bufs
    <3> QED
      BY <1>13, <2>1, <3>1, <3>2, BufsSame
  <2> QED
    BY <1>13, <2>1 DEF Bufs
<1>14. ASSUME NEW p \in Patches, WriteFile(p) PROVE Bufs'
  <2> DEFINE f == Min(left[p])
  <2>1. f \in left[p] /\ f \in Files /\ at[p] = "write"
    BY <1>8, <1>14 DEF WriteFile
  <2>2. /\ files' = [files EXCEPT ![f] = buf[p][f].after] /\ left' = [left EXCEPT ![p] = @ \ {f}]
        /\ UNCHANGED <<dry, buf, at>>
    BY <1>14 DEF WriteFile
  <2> HIDE DEF f
  <2>3. /\ left'[p] = left[p] \ {f} /\ files'[f] = buf[p][f].after
        /\ \A q \in Patches : q # p => left'[q] = left[q]
        /\ \A g \in Files : g # f => files'[g] = files[g]
    BY <1>0, <2>1, <2>2 DEF TypeOK
  <2>4. DOMAIN buf[p] \subseteq Files
    BY <1>0, OutcomeFacts
  <2>5. EntryBufs(p)
    BY DEF Bufs
  <2>6. \A g \in DOMAIN buf[p] : files'[g] = IF g \in left'[p] THEN buf[p][g].before ELSE buf[p][g].after
    BY <2>1, <2>3, <2>4, <2>5 DEF EntryBufs
  <2>7. EntryBufs(p)'
    BY <2>1, <2>2, <2>5, <2>6 DEF EntryBufs
  <2> QED
    BY <1>13, <2>1, <2>2, <2>3, <2>7
<1>15. ASSUME NEW p \in Patches, Settled(p) \/ Record(p) PROVE Bufs'
  <2>1. /\ \/ at' = [at EXCEPT ![p] = "blocked"]
           \/ at' = [at EXCEPT ![p] = "ok"] /\ (dry \/ (at[p] = "write" /\ left[p] = {}))
        /\ UNCHANGED <<dry, left, buf, files>>
    BY <1>15 DEF Settled, Record
  <2>2. /\ at'[p] = "blocked" \/ (at'[p] = "ok" /\ (dry \/ (at[p] = "write" /\ left[p] = {})))
        /\ \A q \in Patches : q # p => at'[q] = at[q]
    BY <1>0, <2>1 DEF TypeOK
  <2>3. EntryBufs(p)'
    BY <2>1, <2>2 DEF Bufs, EntryBufs
  <2> QED
    BY <1>9, <2>1, <2>2, <2>3
<1>16. ASSUME NEW p \in Patches,
              \/ ReleaseFile(p) \/ RmFails(p) \/ SettleFails(p) \/ ReadFails(p) \/ RecordFails(p)
              \/ ReleaseFails(p) \/ ArtifactFails(p) \/ EndSerial(p) \/ DryRunFails(p) \/ EndParallel(p)
              \/ MarkFails(p) \/ EndThrow(p)
       PROVE  Bufs'
  <2>1. /\ at' = at \/ \E a \in {"idle", "throw"} : at' = [at EXCEPT ![p] = a]
        /\ UNCHANGED <<dry, files, left, buf>>
    BY <1>16 DEF ReleaseFile, RmFails, SettleFails, ReadFails, RecordFails, ReleaseFails, ArtifactFails,
                 EndSerial, DryRunFails, EndParallel, MarkFails, EndThrow
  <2>2. /\ at'[p] = at[p] \/ at'[p] \in {"idle", "throw"}
        /\ \A q \in Patches : q # p => at'[q] = at[q]
    BY <1>0, <2>1 DEF TypeOK
  <2>3. EntryBufs(p)'
    BY <2>1, <2>2, BufsSame DEF Bufs
  <2> QED
    BY <1>9, <2>1, <2>2, <2>3
<1>17. ASSUME NEW p \in Patches, WriteFails(p) PROVE Bufs'
  <2>1. /\ at[p] = "write" /\ left[p] # {} /\ UNCHANGED <<dry, left, buf>> /\ at' = [at EXCEPT ![p] = "throw"]
        /\ files' = files \/ \E c : files' = [files EXCEPT ![Min(left[p])] = c]
    BY <1>17 DEF WriteFails
  <2>2. \A f \in Files \ left[p] : files'[f] = files[f]
    BY <1>0, <1>8, <2>1 DEF TypeOK
  <2>3. at'[p] = "throw" /\ \A q \in Patches : q # p => at'[q] = at[q]
    BY <1>0, <2>1 DEF TypeOK
  <2>4. EntryBufs(p)'
    BY <2>1, <2>3, BufsSame DEF Bufs
  <2> QED
    BY <1>13, <2>1, <2>2, <2>3, <2>4
<1> QED
  BY <1>2, <1>4, <1>5, <1>6, <1>7, <1>10, <1>11, <1>12, <1>14, <1>15, <1>16, <1>17
     DEF Next, Step, EntryStep, EntryFault

\* An entry that was applied can be rolled back while its files are its own.
LEMMA OkCanRollBack ==
  ASSUME TypeInv, Bufs, NEW p \in Patches, at[p] = "ok", ~dry
  PROVE  Outcome(p).ok /\ CanRollBack(Outcome(p))
<1>1. /\ Plans(p) \in SUBSET DOMAIN buf[p] /\ Outcome(p) = Result(p, TRUE, Plans(p)) /\ TRUE \in BOOLEAN
      /\ Outcome(p).ok
  BY OutcomeFacts
<1>2. Result(p, TRUE, Plans(p)).undo = [f \in Plans(p) |-> buf[p][f]]
  BY <1>1, ResultType, Zenon
<1>3. \A f \in Plans(p) : files[f] = buf[p][f].after /\ buf[p][f].after.exists
  BY <1>1 DEF Bufs, EntryBufs
<1> QED
  BY <1>1, <1>2, <1>3 DEF CanRollBack

-----------------------------------------------------------------------------
(* What is in the tree                                                      *)

\* The entry has put something in the tree that was not there before the run.
New(p) == \E f \in Files : p \in Range(files[f].text) /\ p \notin Range(base[f].text)

\* The entry may have: it is writing, its result is good, or the handoff ended over it.
Written(p) ==
    \/ p \in succeeded \/ status[p] \in {"applied", "verified"}
    \/ at[p] \in {"write", "ok"}
    \/ pc \in {"threw", "crashed"} /\ at[p] = "idle" /\ status[p] \in {"pending", "applying"}

Mine == (dry => files = base) /\ \A p \in Patches \ torn : New(p) => Written(p)

LEMMA MineInit == Init => Mine
<1> SUFFICES ASSUME Init PROVE Mine
  OBVIOUS
<1>1. files = base
  BY DEF Init
<1> QED
  BY <1>1 DEF Mine, New

\* A step that leaves the tree alone keeps the entries in it accounted for.
LEMMA MineSame ==
  ASSUME Mine, UNCHANGED <<files, base, dry>>, torn \subseteq torn',
         \A q \in Patches \ torn' : ~dry /\ Written(q) => Written(q)'
  PROVE  Mine'
<1>1. \A q \in Patches : New(q)' <=> New(q)
  BY DEF New
<1>2. \A q \in Patches : New(q) => ~dry
  BY DEF Mine, New
<1> QED
  BY <1>1, <1>2 DEF Mine

LEMMA MineStep == TypeInv /\ Locks /\ Stat /\ Bufs /\ Mine /\ [Next]_vars => Mine'
<1> SUFFICES ASSUME TypeInv, Locks, Stat, Bufs, Mine, [Next]_vars PROVE Mine'
  OBVIOUS
<1> USE DEF input, apply, rebase, history, Faulty
<1>0. TypeOK
  BY DEF TypeInv
<1>1. CASE Enqueue
  <2> DEFINE N == {q \in Patches : status[q] = "none"}
             p == Min(N)
  <2>1. NumPatches \in N /\ N \subseteq Nat
    BY <1>1, Numbers DEF Enqueue, TypeInv
  <2>2. p \in N
    BY <2>1, MinFacts
  <2>3. /\ \E s \in {"pending", "rejected"} : status' = [status EXCEPT ![p] = s]
        /\ pc = "enqueue" /\ UNCHANGED <<files, base, dry, torn, succeeded, at>>
    BY <1>1 DEF Enqueue
  <2> HIDE DEF p
  <2>4. \A q \in Patches : status[q] \in {"applied", "verified"} => status'[q] = status[q]
    BY <1>0, <2>2, <2>3 DEF TypeOK
  <2>5. \A q \in Patches : Written(q) => Written(q)'
    BY <2>3, <2>4 DEF Written
  <2> QED
    BY <2>3, <2>5, MineSame
<1>2. CASE Coordinate
  <2>1. pc = "merge" /\ UNCHANGED <<files, base, dry, torn, succeeded, status, at>>
    BY <1>2 DEF Coordinate
  <2>2. \A q \in Patches : Written(q) => Written(q)'
    BY <2>1 DEF Written
  <2> QED
    BY <2>1, <2>2, MineSame
<1>3. CASE StartSerial
  <2>1. /\ pc = "rebase" /\ UNCHANGED <<files, base, dry, torn, succeeded, status>>
        /\ \A q \in Patches : at[q] = "idle"
    BY <1>3 DEF StartSerial
  <2>2. \A q \in Patches : Written(q) => Written(q)'
    BY <2>1 DEF Written
  <2> QED
    BY <2>1, <2>2, MineSame
<1>4. CASE StartParallel
  <2>1. /\ pc = "rebase" /\ UNCHANGED <<files, base, dry, torn, succeeded>>
        /\ \A q \in Patches : at[q] = "idle"
    BY <1>4 DEF StartParallel
  <2>2. \A q \in Patches : status[q] \notin {"applied", "verified"}
    BY <2>1 DEF Stat, EntryStatus
  <2>3. \A q \in Patches : Written(q) => Written(q)'
    BY <2>1, <2>2 DEF Written
  <2> QED
    BY <2>1, <2>3, MineSame
<1>5. CASE Report
  <2>1. /\ pc = "parallel" /\ UNCHANGED <<files, base, dry, torn, succeeded>> /\ status' = Verified
        /\ \A q \in Patches : at[q] = "idle"
    BY <1>5 DEF Report
  <2>2. \A q \in Patches : status'[q] \in {status[q], "verified"}
    BY <2>1 DEF Verified
  <2>3. \A q \in Patches : Written(q) => Written(q)'
    BY <2>1, <2>2 DEF Written
  <2> QED
    BY <2>1, <2>3, MineSame
<1>6. CASE Crash
  <2>1. /\ pc' = "crashed" /\ UNCHANGED <<files, base, dry, torn, succeeded, status>>
        /\ \A q \in Patches : at'[q] = "idle"
    BY <1>6 DEF Crash
  <2>2. \A q \in Patches : at[q] \in {"write", "ok"} => status[q] \in {"pending", "applying"}
    BY DEF Stat, EntryStatus, Running
  <2>3. \A q \in Patches : Written(q) => Written(q)'
    BY <2>1, <2>2 DEF Written
  <2> QED
    BY <2>1, <2>3, MineSame
<1>a. CASE HandoffFails
  <2>1. /\ pc \in {"enqueue", "merge", "parallel", "rebase"} /\ pc' = "threw" /\ status' \in Interrupted
        /\ UNCHANGED <<files, base, dry, torn, succeeded, at>> /\ \A q \in Patches : at[q] = "idle"
    BY <1>a DEF HandoffFails
  <2>2. ASSUME NEW q \in Patches, Written(q) PROVE Written(q)'
    <3>1. q \in succeeded \/ status[q] \in {"applied", "verified"}
      BY <2>1, <2>2 DEF Written
    <3>2. CASE q \in succeeded
      BY <2>1, <3>2 DEF Written
    <3>3. CASE status[q] \in {"applied", "verified"}
      <4>1. pc = "parallel"
        BY <2>1, <3>3 DEF Stat, EntryStatus
      <4>2. status'[q] = status[q] \/ status'[q] = Verified[q]
        BY <2>1, <4>1, InterruptedMarks
      <4>3. Verified[q] \in {"verified", status[q]}
        BY DEF Verified
      <4> QED
        BY <3>3, <4>2, <4>3 DEF Written
    <3> QED
      BY <3>1, <3>2, <3>3
  <2> QED
    BY <2>1, <2>2, MineSame
<1>7. CASE Rerun
  <2>1. files' = files /\ base' = files
    BY <1>7 DEF Rerun
  <2>2. \A q \in Patches : ~New(q)'
    BY <2>1 DEF New
  <2> QED
    BY <2>1, <2>2 DEF Mine
<1>8. CASE UNCHANGED vars
  <2>1. UNCHANGED <<files, base, dry, torn, succeeded, status, at, pc>>
    BY <1>8 DEF vars
  <2>2. \A q \in Patches : Written(q) => Written(q)'
    BY <2>1 DEF Written
  <2> QED
    BY <2>1, <2>2, MineSame
<1>9. ASSUME NEW p \in Patches,
             \/ Barred(p) \/ LockBusy(p) \/ LockFile(p) \/ Settled(p) \/ StartWrites(p) \/ Record(p)
             \/ ReleaseFile(p) \/ LockFails(p) \/ SettleFails(p) \/ ReadFails(p) \/ RecordFails(p)
             \/ RmFails(p) \/ ReleaseFails(p) \/ ArtifactFails(p)
      PROVE  Mine'
  <2>1. UNCHANGED <<files, base, dry, succeeded, status, pc>> /\ at[p] # "idle" /\ torn \subseteq torn'
    BY <1>9 DEF Barred, LockBusy, LockFile, Settled, StartWrites, Record, ReleaseFile, LockFails,
                SettleFails, ReadFails, RecordFails, RmFails, ReleaseFails, ArtifactFails, Finally
  <2>2. /\ at' = at \/ \E a : at' = [at EXCEPT ![p] = a]
        /\ at[p] \in {"write", "ok"} =>
             at' = at \/ at' = [at EXCEPT ![p] = "ok"] \/ dry \/ p \in torn'
    <3>1. CASE \/ Barred(p) \/ LockBusy(p) \/ LockFile(p) \/ Settled(p) \/ StartWrites(p)
               \/ LockFails(p) \/ SettleFails(p) \/ ReadFails(p)
      BY <3>1 DEF Barred, LockBusy, LockFile, Settled, StartWrites, LockFails, SettleFails, ReadFails
    <3>2. CASE Record(p) \/ ReleaseFile(p) \/ RmFails(p)
      BY <3>2 DEF Record, ReleaseFile, RmFails
    <3>3. CASE RecordFails(p)
      BY <3>3 DEF RecordFails
    <3>4. CASE ReleaseFails(p) \/ ArtifactFails(p)
      <4>1. at' = [at EXCEPT ![p] = "throw"] /\ torn' = torn \union TornBy(p) /\ at[p] \in Finally
        BY <3>4 DEF ReleaseFails, ArtifactFails, Finally
      <4> QED
        BY <4>1 DEF TornBy, Finally
    <3> QED
      BY <1>9, <3>1, <3>2, <3>3, <3>4
  <2>3. /\ \A q \in Patches : q # p => at'[q] = at[q]
        /\ at[p] \in {"write", "ok"} => at'[p] \in {"write", "ok"} \/ dry \/ p \in torn'
    BY <1>0, <2>2 DEF TypeOK
  <2>4. \A q \in Patches \ torn' : ~dry /\ Written(q) => Written(q)'
    BY <2>1, <2>3 DEF Written
  <2> QED
    BY <2>1, <2>4, MineSame
<1>10. ASSUME NEW p \in Patches, WriteFile(p) PROVE Mine'
  <2> DEFINE f == Min(left[p])
  <2>1. f \in left[p] /\ f \in Files /\ at[p] = "write"
    BY <1>0, <1>10, MinFacts, Numbers DEF WriteFile, TypeOK
  <2>2. /\ files' = [files EXCEPT ![f] = buf[p][f].after]
        /\ UNCHANGED <<base, dry, torn, succeeded, status, pc, at>>
    BY <1>10 DEF WriteFile
  <2> HIDE DEF f
  <2>3. files'[f] = buf[p][f].after /\ \A g \in Files : g # f => files'[g] = files[g]
    BY <1>0, <2>1, <2>2 DEF TypeOK
  <2>4. f \in DOMAIN buf[p] /\ EntryBufs(p)
    BY <2>1 DEF TypeInv, Bufs
  <2>5. ~dry /\ Range(files'[f].text) \subseteq Range(files[f].text) \union {p}
    BY <2>1, <2>3, <2>4 DEF EntryBufs
  <2>6. \A q \in Patches : q # p /\ New(q)' => New(q)
    <3> SUFFICES ASSUME NEW q \in Patches, q # p, New(q)' PROVE New(q)
      OBVIOUS
    <3>1. PICK g \in Files : q \in Range(files'[g].text) /\ q \notin Range(base[g].text)
      BY <2>2 DEF New
    <3>2. q \in Range(files[g].text)
      BY <2>3, <2>5, <3>1
    <3> QED
      BY <3>1, <3>2 DEF New
  <2>7. Written(p)' /\ \A q \in Patches : Written(q) => Written(q)'
    BY <2>1, <2>2 DEF Written
  <2> QED
    BY <2>2, <2>5, <2>6, <2>7 DEF Mine
<1>11. ASSUME NEW p \in Patches, WriteFails(p) PROVE Mine'
  <2> DEFINE f == Min(left[p])
             c == [exists |-> TRUE, text |-> <<>>]
  <2>1. f \in left[p] /\ f \in Files /\ at[p] = "write"
    BY <1>0, <1>11, MinFacts, Numbers DEF WriteFails, TypeOK
  <2>2. /\ files' = files \/ files' = [files EXCEPT ![f] = c]
        /\ UNCHANGED <<base, dry, succeeded, status, pc>>
        /\ at' = [at EXCEPT ![p] = "throw"] /\ torn' = torn \union {p}
    BY <1>11 DEF WriteFails
  <2>3. Range(c.text) = {}
    BY DEF Range
  <2> HIDE DEF f, c
  <2>4. \A g \in Files : files'[g] = files[g] \/ files'[g] = c
    BY <1>0, <2>2 DEF TypeOK
  <2>5. \A q \in Patches : New(q)' => New(q)
    BY <2>2, <2>3, <2>4 DEF New
  <2>6. \A q \in Patches : q # p => at'[q] = at[q]
    BY <1>0, <2>2 DEF TypeOK
  <2>7. \A q \in Patches : q # p /\ Written(q) => Written(q)'
    BY <2>2, <2>6 DEF Written
  <2>8. ~dry
    BY <2>1 DEF Bufs, EntryBufs
  <2> QED
    BY <2>2, <2>5, <2>7, <2>8 DEF Mine
<1>12. ASSUME NEW p \in Patches, Running(p), at' = [at EXCEPT ![p] = "idle"],
              UNCHANGED <<files, base, dry, torn>>, pc' \in {pc, "threw"},
              ~dry /\ Written(p) => Written(p)',
              succeeded \subseteq succeeded', \A q \in Patches : q # p => status'[q] = status[q]
       PROVE  Mine'
  <2>1. \A q \in Patches : q # p => at'[q] = at[q]
    BY <1>0, <1>12 DEF TypeOK
  <2>2. \A q \in Patches : q # p /\ Written(q) => Written(q)'
    BY <1>12, <2>1 DEF Written
  <2> QED
    BY <1>12, <2>2, MineSame
<1>13. ASSUME NEW p \in Patches, EndSerial(p) PROVE Mine'
  <2>1. /\ pc = "rebase" /\ at[p] \in Finally /\ at' = [at EXCEPT ![p] = "idle"]
        /\ UNCHANGED <<files, base, dry, torn, pc, status>> /\ succeeded \subseteq succeeded'
    BY <1>13 DEF EndSerial, Finished
  <2>2. ~dry /\ at[p] = "ok" => p \in succeeded'
    BY <1>13, OkCanRollBack DEF EndSerial
  <2>3. ~dry /\ Written(p) => Written(p)'
    BY <2>1, <2>2 DEF Written, Finally
  <2> QED
    BY <1>12, <2>1, <2>3 DEF Running, Finally
<1>14. ASSUME NEW p \in Patches, DryRunFails(p) PROVE Mine'
  <2>1. /\ pc = "rebase" /\ at[p] = "ok" /\ at' = [at EXCEPT ![p] = "idle"] /\ pc' = "threw"
        /\ UNCHANGED <<files, base, dry, torn, status, succeeded>>
    BY <1>14 DEF DryRunFails
  <2>2. status[p] = "pending" /\ Running(p)
    BY <2>1 DEF Stat, EntryStatus, Running
  <2>3. at'[p] = "idle"
    BY <1>0, <2>1 DEF TypeOK
  <2>4. Written(p)'
    BY <2>1, <2>2, <2>3 DEF Written
  <2> QED
    BY <1>12, <2>1, <2>2, <2>4
<1>15. ASSUME NEW p \in Patches, EndParallel(p) \/ MarkFails(p) PROVE Mine'
  <2>1. /\ pc \in {"parallel", "threw"} /\ pc' \in {pc, "threw"}
        /\ at[p] \in {"ok", "blocked"} /\ at' = [at EXCEPT ![p] = "idle"]
        /\ UNCHANGED <<files, base, dry, torn, succeeded>> /\ Marks(p)
    BY <1>15 DEF EndParallel, MarkFails, Finished, Finally
  <2>2. /\ status'[p] = IF at[p] = "ok" THEN "applied" ELSE "conflicted"
        /\ \A q \in Patches : q # p => status'[q] = status[q]
    BY <1>0, <2>1 DEF TypeOK, Marks
  <2>3. status[p] = "applying" /\ p \notin succeeded /\ Running(p)
    BY <2>1 DEF Stat, EntryStatus, Running
  <2>4. Written(p) => Written(p)'
    BY <2>1, <2>2, <2>3 DEF Written
  <2> QED
    BY <1>12, <2>1, <2>2, <2>3, <2>4
<1>16. ASSUME NEW p \in Patches, EndThrow(p) PROVE Mine'
  <2>1. /\ at[p] = "throw" /\ at' = [at EXCEPT ![p] = "idle"] /\ pc' = "threw"
        /\ UNCHANGED <<files, base, dry, torn, succeeded, status>>
    BY <1>16 DEF EndThrow
  <2>2. Written(p) => Written(p)'
    BY <2>1 DEF Written
  <2> QED
    BY <1>12, <2>1, <2>2 DEF Running
<1> QED
  BY <1>1, <1>2, <1>3, <1>4, <1>5, <1>6, <1>a, <1>7, <1>8, <1>9, <1>10, <1>11, <1>13, <1>14, <1>15, <1>16
     DEF Next, Step, EntryStep, EntryFault

HandoffInv == TypeInv /\ Locks /\ Stat /\ Bufs /\ Mine

LEMMA HandoffInvHolds == Spec => []HandoffInv
<1>1. Init => HandoffInv
  BY TypeInit, LocksInit, StatInit, BufsInit, MineInit DEF HandoffInv
<1>2. HandoffInv /\ [Next]_vars => HandoffInv'
  BY TypeStep, LocksStep, StatStep, BufsStep, MineStep DEF HandoffInv
<1> QED
  BY <1>1, <1>2, PTL DEF Spec

\* The handoff keeps its types; an entry that is rejected or conflicted has left
\* nothing in the tree, unless it failed after it began to write, and a dry run
\* nothing at all, whatever file operations fail (HandoffInvariant).
THEOREM RefusedNowhere == Spec => []HandoffInvariant
<1>1. HandoffInv => HandoffInvariant
  <2> SUFFICES ASSUME HandoffInv PROVE HandoffInvariant
    OBVIOUS
  <2>1. TypeOK
    BY DEF HandoffInv, TypeInv
  <2>2. ASSUME NEW p \in Patches \ torn, status[p] \in {"rejected", "conflicted"}, NEW f \in Files,
               p \in Range(files[f].text)
        PROVE  p \in Range(base[f].text)
    <3>1. ~Written(p)
      BY <2>2 DEF HandoffInv, Stat, EntryStatus, Written, Running
    <3> QED
      BY <2>2, <3>1 DEF HandoffInv, Mine, New
  <2>3. RefusedLeavesNothing
    BY <2>2 DEF RefusedLeavesNothing, HandoffInv, Mine
  <2> QED
    BY <2>1, <2>3 DEF HandoffInvariant
<1> QED
  BY <1>1, HandoffInvHolds, PTL

-----------------------------------------------------------------------------
(* Rollback                                                                 *)

\* The function that UndoAll(t, s) is read from, up to n.
Unwinds(g, t, s, n) ==
    g = [i \in 0 .. n |-> IF i = 0 THEN t ELSE Undone(g[i - 1], s[Len(s) + 1 - i])]

\* g gives the trees between t and UndoAll(t, s).
Unwound(g, t, s) ==
    /\ g[0] = t /\ UndoAll(t, s) = g[Len(s)]
    /\ \A i \in 1 .. Len(s) : g[i] = Undone(g[i - 1], s[Len(s) + 1 - i])

LEMMA UndoAllFacts ==
  ASSUME NEW t, NEW S, NEW s \in Seq(S)
  PROVE  \E g : Unwound(g, t, s)
<1> DEFINE Good(g, n) == Unwinds(g, t, s, n)
           Bad == {n \in 0 .. Len(s) : ~\E g : Good(g, n)}
<1>1. Bad = {}
  <2> SUFFICES ASSUME Bad # {} PROVE FALSE
    OBVIOUS
  <2>0. Bad \subseteq Nat
    OBVIOUS
  <2> HIDE DEF Bad
  <2>1. PICK n \in Bad : \A m \in Bad : n <= m
    BY <2>0, LeastExists
  <2> USE DEF Bad
  <2>2. CASE n = 0
    <3> DEFINE g == [i \in 0 .. 0 |-> t]
    <3>1. Good(g, 0)
      BY DEF Unwinds
    <3> QED
      BY <2>2, <3>1
  <2>3. CASE n # 0
    <3>1. n - 1 \in 0 .. Len(s) /\ n \in 1 .. Len(s) /\ ~(n <= n - 1)
      BY <2>3
    <3>2. PICK g : Good(g, n - 1)
      BY <2>1, <3>1
    <3> DEFINE h == [i \in 0 .. n |-> IF i # n THEN g[i] ELSE Undone(g[n - 1], s[Len(s) + 1 - n])]
    <3>3. Good(h, n)
      <4>1. \A i \in 0 .. (n - 1) : g[i] = IF i = 0 THEN t ELSE Undone(g[i - 1], s[Len(s) + 1 - i])
        BY <3>2 DEF Unwinds
      <4>2. ASSUME NEW i \in 0 .. n
            PROVE  h[i] = IF i = 0 THEN t ELSE Undone(h[i - 1], s[Len(s) + 1 - i])
        BY <3>1, <4>1
      <4> QED
        BY <4>2 DEF Unwinds
    <3> QED
      BY <3>3
  <2> QED
    BY <2>2, <2>3
<1>2. PICK g : Good(g, Len(s)) /\ UndoAll(t, s) = g[Len(s)]
  <2> DEFINE g == CHOOSE g : Good(g, Len(s))
  <2>1. Len(s) \in 0 .. Len(s)
    OBVIOUS
  <2>2. Good(g, Len(s))
    BY <1>1, <2>1
  <2>3. UndoAll(t, s) = g[Len(s)]
    BY DEF UndoAll, Unwinds
  <2> QED
    BY <2>2, <2>3
<1>3. \A i \in 0 .. Len(s) : g[i] = IF i = 0 THEN t ELSE Undone(g[i - 1], s[Len(s) + 1 - i])
  BY <1>2 DEF Unwinds
<1>4. Len(s) \in Nat /\ 0 \in 0 .. Len(s)
  OBVIOUS
<1>5. \A i \in 1 .. Len(s) : i \in 0 .. Len(s) /\ i # 0
  BY <1>4
<1>6. g[0] = t
  BY <1>3, <1>4
<1>7. \A i \in 1 .. Len(s) : g[i] = Undone(g[i - 1], s[Len(s) + 1 - i])
  BY <1>3, <1>5, Zenon
<1> QED
  BY <1>2, <1>6, <1>7 DEF Unwound

LEMMA UndoNone ==
  ASSUME NEW t
  PROVE  UndoAll(t, <<>>) = t
<1>1. <<>> \in Seq({}) /\ Len(<<>>) = 0
  OBVIOUS
<1>2. PICK g : Unwound(g, t, <<>>)
  BY <1>1, UndoAllFacts
<1> QED
  BY <1>1, <1>2 DEF Unwound

\* The last result is taken back first.
LEMMA UndoAppend ==
  ASSUME NEW t, NEW S, NEW s \in Seq(S), NEW r \in S
  PROVE  UndoAll(t, Append(s, r)) = UndoAll(Undone(t, r), s)
<1> DEFINE n == Len(s)
           u == Append(s, r)
<1>1. n \in Nat /\ u \in Seq(S) /\ Len(u) = n + 1 /\ u[n + 1] = r /\ \A i \in 1 .. n : u[i] = s[i]
  OBVIOUS
<1> HIDE DEF n, u
<1>a. PICK g : Unwound(g, t, u)
  BY <1>1, UndoAllFacts
<1>2. /\ g[0] = t /\ UndoAll(t, u) = g[Len(u)]
      /\ \A i \in 1 .. Len(u) : g[i] = Undone(g[i - 1], u[Len(u) + 1 - i])
  BY <1>a DEF Unwound
<1>b. PICK h : Unwound(h, Undone(t, r), s)
  BY UndoAllFacts
<1>3. /\ h[0] = Undone(t, r) /\ UndoAll(Undone(t, r), s) = h[n]
      /\ \A i \in 1 .. n : h[i] = Undone(h[i - 1], s[n + 1 - i])
  BY <1>b DEF n, Unwound
<1> DEFINE Apart == {i \in Nat : i <= n /\ g[i + 1] # h[i]}
<1>4. Apart = {}
  <2> SUFFICES ASSUME Apart # {} PROVE FALSE
    OBVIOUS
  <2>0. Apart \subseteq Nat
    OBVIOUS
  <2> HIDE DEF Apart
  <2>1. PICK i \in Apart : \A m \in Apart : i <= m
    BY <2>0, LeastExists
  <2> USE DEF Apart
  <2>2. i \in Nat /\ i <= n /\ g[i + 1] # h[i]
    BY <2>1
  <2>3. CASE i = 0
    <3>1. 1 \in 1 .. Len(u) /\ Len(u) + 1 - 1 = n + 1 /\ 1 - 1 = 0
      BY <1>1
    <3>2. g[1] = Undone(g[0], u[n + 1])
      BY <1>2, <3>1
    <3> QED
      BY <1>1, <1>2, <1>3, <2>2, <2>3, <3>2
  <2>4. CASE i # 0
    <3>1. /\ i + 1 \in 1 .. Len(u) /\ i \in 1 .. n /\ (i + 1) - 1 = i
          /\ Len(u) + 1 - (i + 1) = n + 1 - i /\ n + 1 - i \in 1 .. n
      BY <1>1, <2>2, <2>4
    <3>2. i - 1 \in Nat /\ i - 1 <= n /\ ~(i <= i - 1) /\ (i - 1) + 1 = i
      BY <1>1, <2>2, <2>4
    <3>3. g[i] = h[i - 1]
      BY <2>1, <3>2
    <3>4. g[i + 1] = Undone(g[i], u[n + 1 - i])
      BY <1>2, <3>1
    <3>5. h[i] = Undone(h[i - 1], s[n + 1 - i])
      BY <1>3, <3>1
    <3>6. u[n + 1 - i] = s[n + 1 - i]
      BY <1>1, <3>1
    <3> QED
      BY <2>2, <3>3, <3>4, <3>5, <3>6
  <2> QED
    BY <2>3, <2>4
<1>5. g[n + 1] = h[n]
  BY <1>1, <1>4
<1> QED
  BY <1>1, <1>2, <1>3, <1>5 DEF u

-----------------------------------------------------------------------------

Trees == [Files -> Content]

\* The entry has written, or is writing, and has no result yet.
Unrecorded(p) == at[p] \in {"write", "ok"}

\* In tree t, file f is without what such entries have written to it.
CleanAt(t, f) ==
    /\ \A p \in Patches : Unrecorded(p) /\ f \in DOMAIN buf[p] => t[f] = buf[p][f].before
    /\ (\A p \in Patches : Unrecorded(p) => f \notin DOMAIN buf[p]) => t[f] = files[f]

\* Taking the results back from there gives the file the run began with.
Roll == pc \notin {"threw", "crashed"} /\ ~dry =>
          \A t \in Trees, f \in Files \ Spoiled : CleanAt(t, f) => UndoAll(t, results)[f] = base[f]

LEMMA RollInit == Init => Roll
<1> SUFFICES ASSUME Init, NEW t \in Trees, NEW f \in Files, CleanAt(t, f) PROVE UndoAll(t, results)[f] = base[f]
  BY DEF Roll
<1>1. t[f] = files[f]
  BY DEF Init, CleanAt, Unrecorded
<1>2. results = <<>> /\ base = files
  BY DEF Init
<1> QED
  BY <1>1, <1>2, UndoNone

\* What a step makes of the clean trees: a run begins; nothing is added; the attempt
\* of entry p ends, and it has been refused or has failed; or it has written its files.
SameRun == pc \notin {"threw", "crashed"} /\ torn \subseteq torn' /\ UNCHANGED <<patch, dry, base>>

Begins == results' = <<>> /\ \A t \in Trees, f \in Files : CleanAt(t, f)' => t[f] = base'[f]

Quiet ==
    /\ SameRun /\ UNCHANGED results
    /\ \A t \in Trees, f \in Files : f \notin Spoiled' /\ CleanAt(t, f)' => CleanAt(t, f)

Fails(p) ==
    /\ SameRun /\ results' = Append(results, Outcome(p)) /\ at[p] # "ok"
    /\ \A t \in Trees, f \in Files : CleanAt(t, f)' => CleanAt(t, f)

Writes(p) ==
    /\ SameRun /\ results' = Append(results, Outcome(p)) /\ at[p] = "ok"
    /\ \A t \in Trees, f \in Files : CleanAt(t, f)' =>
          CleanAt(Undone(t, Outcome(p)), f) /\ (f \in DOMAIN buf[p] => t[f] = buf[p][f].after)

TreeStep == Begins \/ Quiet \/ \E p \in Patches : Fails(p) \/ Writes(p)

\* Taking back result r puts back the text p had read of the files in S.
PutsBack(r, p, S) ==
    \A t \in Trees : /\ Undone(t, r) \in Trees
                     /\ \A f \in S : Undone(t, r)[f] = buf[p][f].before
                     /\ \A f \in Files \ S : Undone(t, r)[f] = t[f]

LEMMA ResultPutsBack ==
  ASSUME TypeInv, NEW p \in Patches, NEW S \in SUBSET DOMAIN buf[p], NEW ok \in BOOLEAN
  PROVE  PutsBack(Result(p, ok, S), p, S)
<1> DEFINE r == Result(p, ok, S)
<1>2. r.undo = [f \in S |-> buf[p][f]]
  BY DEF Result
<1> HIDE DEF r
<1>3. DOMAIN r.undo = S /\ \A f \in S : r.undo[f] = buf[p][f]
  BY <1>2
<1>4. \A f \in S : buf[p][f].before \in Content /\ f \in Files
  <2>1. PICK D \in SUBSET Files : buf[p] \in [D -> Buffer]
    BY DEF TypeInv, Buffers
  <2>2. \A f \in S : buf[p][f] \in Buffer /\ f \in Files
    BY <2>1
  <2> QED
    BY <2>2 DEF Buffer
<1>5. \A t \in Trees, f \in Files : Undone(t, r)[f] = IF f \in S THEN buf[p][f].before ELSE t[f]
  BY <1>3 DEF Undone
<1>6. \A t \in Trees : Undone(t, r) \in Trees
  BY <1>3, <1>4 DEF Undone, Trees
<1>7. PutsBack(r, p, S)
  BY <1>4, <1>5, <1>6 DEF PutsBack
<1> QED
  BY <1>7 DEF r

\* A success puts back the files it changed, anything else none.
LEMMA OutcomePutsBack ==
  ASSUME TypeInv, NEW p \in Patches
  PROVE  /\ at[p] = "ok" => PutsBack(Outcome(p), p, Plans(p))
         /\ at[p] # "ok" => PutsBack(Outcome(p), p, {})
<1>1. Plans(p) \in SUBSET DOMAIN buf[p] /\ {} \in SUBSET DOMAIN buf[p] /\ TRUE \in BOOLEAN /\ FALSE \in BOOLEAN
  BY OutcomeFacts
<1>2. PutsBack(Result(p, TRUE, Plans(p)), p, Plans(p)) /\ PutsBack(Result(p, FALSE, {}), p, {})
  BY <1>1, ResultPutsBack
<1> QED
  BY <1>2, OutcomeFacts

LEMMA CleanSteps ==
  ASSUME HandoffInv, [Next]_vars, pc' \notin {"threw", "crashed"}, ~dry'
  PROVE  TreeStep
<1> USE DEF input, apply, rebase, history, Faulty
<1>0. TypeOK /\ TypeInv
  BY DEF HandoffInv, TypeInv
<1>1. ASSUME UNCHANGED <<patch, dry, base, results, files>>, torn \subseteq torn', pc \notin {"threw", "crashed"},
             \A p \in Patches : (Unrecorded(p)' <=> Unrecorded(p)) /\ (Unrecorded(p) => buf'[p] = buf[p])
      PROVE  TreeStep
  <2>1. ASSUME NEW t \in Trees, NEW f \in Files, CleanAt(t, f)' PROVE CleanAt(t, f)
    BY <1>1, <2>1 DEF CleanAt
  <2> QED
    BY <1>1, <2>1 DEF TreeStep, Quiet, SameRun
<1>2. CASE Enqueue \/ Coordinate \/ Report
  <2>1. /\ UNCHANGED <<patch, dry, base, results, files, torn, at, buf>> /\ pc \notin {"threw", "crashed"}
    BY <1>2 DEF Enqueue, Coordinate, Report
  <2> QED
    BY <1>1, <2>1 DEF Unrecorded
<1>3. CASE StartSerial \/ StartParallel
  <2>1. /\ UNCHANGED <<patch, dry, base, results, files, torn>> /\ pc = "rebase"
        /\ \A p \in Patches : at[p] = "idle" /\ at'[p] \in {"lock", "idle"}
    BY <1>3 DEF StartSerial, StartParallel, Starts
  <2> QED
    BY <1>1, <2>1 DEF Unrecorded
<1>4. CASE Crash \/ HandoffFails
  BY <1>4 DEF Crash, HandoffFails
<1>5. CASE Rerun
  <2>1. /\ results' = <<>> /\ base' = files /\ files' = files
        /\ \A p \in Patches : at'[p] = "idle"
    BY <1>5 DEF Rerun
  <2>2. ASSUME NEW t \in Trees, NEW f \in Files, CleanAt(t, f)' PROVE t[f] = base'[f]
    BY <2>1, <2>2 DEF CleanAt, Unrecorded
  <2> QED
    BY <2>1, <2>2 DEF TreeStep, Begins
<1>6. CASE UNCHANGED vars
  <2>1. UNCHANGED <<patch, dry, base, results, files, torn, at, buf, pc>>
    BY <1>6 DEF vars
  <2> QED
    BY <1>1, <2>1 DEF Unrecorded
<1>7. ASSUME NEW p \in Patches, \/ Barred(p) \/ LockBusy(p) \/ Settled(p) \/ Record(p) \/ ReleaseFile(p)
                                \/ LockFails(p) \/ SettleFails(p) \/ ReadFails(p) \/ RmFails(p)
      PROVE  TreeStep
  <2>1. /\ UNCHANGED <<patch, dry, base, results, files, torn, pc, buf>>
        /\ \/ at' = at
           \/ at[p] = "lock" /\ \E a \in {"blocked", "throw"} : at' = [at EXCEPT ![p] = a]
           \/ at[p] = "write" /\ at' = [at EXCEPT ![p] = "ok"]
    BY <1>7 DEF Barred, LockBusy, Settled, Record, ReleaseFile, LockFails, SettleFails, ReadFails, RmFails, Refused
  <2>2. \A q \in Patches : Unrecorded(q)' <=> Unrecorded(q)
    BY <1>0, <2>1 DEF TypeOK, Unrecorded
  <2> QED
    BY <1>1, <2>1, <2>2
<1>8. ASSUME NEW p \in Patches, LockFile(p) PROVE TreeStep
  <2>1. /\ UNCHANGED <<patch, dry, base, results, files, torn, pc, at>> /\ at[p] = "lock"
        /\ \E b : buf' = [buf EXCEPT ![p] = b]
    BY <1>8 DEF LockFile
  <2>2. \A q \in Patches : Unrecorded(q) => buf'[q] = buf[q]
    BY <1>0, <2>1 DEF TypeInv, Unrecorded
  <2> QED
    BY <1>1, <2>1, <2>2 DEF Unrecorded
<1>9. ASSUME NEW p \in Patches, NEW q \in Patches, p # q, Running(p), Running(q)
      PROVE  DOMAIN buf[p] \intersect DOMAIN buf[q] = {}
  BY <1>0, <1>9 DEF HandoffInv, Locks, RunApart, TypeOK
<1>10. ASSUME NEW p \in Patches, StartWrites(p) PROVE TreeStep
  <2>1. /\ at[p] = "lock" /\ at' = [at EXCEPT ![p] = "write"]
        /\ UNCHANGED <<patch, dry, base, results, files, torn, pc, buf>>
    BY <1>10 DEF StartWrites
  <2>2. Unrecorded(p)' /\ ~Unrecorded(p) /\ \A q \in Patches : q # p => (Unrecorded(q)' <=> Unrecorded(q))
    BY <1>0, <2>1 DEF TypeOK, Unrecorded
  <2>3. \A f \in DOMAIN buf[p] : files[f] = buf[p][f].before
    BY <2>1 DEF HandoffInv, Bufs, EntryBufs
  <2>4. ASSUME NEW t \in Trees, NEW f \in Files, CleanAt(t, f)' PROVE CleanAt(t, f)
    <3>1. \A q \in Patches : Unrecorded(q) /\ f \in DOMAIN buf[q] => t[f] = buf[q][f].before
      BY <2>1, <2>2, <2>4 DEF CleanAt
    <3>2. ASSUME \A q \in Patches : Unrecorded(q) => f \notin DOMAIN buf[q]
          PROVE  t[f] = files[f]
      <4>1. CASE f \in DOMAIN buf[p]
        BY <2>1, <2>2, <2>3, <2>4, <4>1 DEF CleanAt
      <4>2. CASE f \notin DOMAIN buf[p]
        BY <2>1, <2>2, <2>4, <3>2, <4>2 DEF CleanAt
      <4> QED
        BY <4>1, <4>2
    <3> QED
      BY <3>1, <3>2 DEF CleanAt
  <2> QED
    BY <2>1, <2>4 DEF TreeStep, Quiet, SameRun
<1>11. ASSUME NEW p \in Patches, WriteFile(p) PROVE TreeStep
  <2> DEFINE f == Min(left[p])
  <2>1. f \in left[p] /\ f \in Files /\ at[p] = "write"
    BY <1>0, <1>11, MinFacts, Numbers DEF WriteFile, TypeOK
  <2>2. /\ files' = [files EXCEPT ![f] = buf[p][f].after]
        /\ UNCHANGED <<patch, dry, base, results, torn, pc, buf, at>>
    BY <1>11 DEF WriteFile
  <2> HIDE DEF f
  <2>3. f \in DOMAIN buf[p] /\ \A g \in Files : g # f => files'[g] = files[g]
    BY <1>0, <2>1, <2>2 DEF TypeOK, TypeInv
  <2>4. Unrecorded(p) /\ \A q \in Patches : Unrecorded(q)' <=> Unrecorded(q)
    BY <2>1, <2>2 DEF Unrecorded
  <2>5. ASSUME NEW t \in Trees, NEW g \in Files, CleanAt(t, g)' PROVE CleanAt(t, g)
    <3>1. \A q \in Patches : Unrecorded(q) /\ g \in DOMAIN buf[q] => t[g] = buf[q][g].before
      BY <2>2, <2>4, <2>5 DEF CleanAt
    <3>2. ASSUME \A q \in Patches : Unrecorded(q) => g \notin DOMAIN buf[q]
          PROVE  t[g] = files[g]
      <4>1. g # f
        BY <2>3, <2>4, <3>2
      <4> QED
        BY <2>2, <2>3, <2>4, <2>5, <3>2, <4>1 DEF CleanAt
    <3> QED
      BY <3>1, <3>2 DEF CleanAt
  <2> QED
    BY <2>2, <2>5 DEF TreeStep, Quiet, SameRun
<1>12. ASSUME NEW p \in Patches, p \in torn', torn \subseteq torn', at' = [at EXCEPT ![p] = "throw"],
              UNCHANGED <<patch, dry, base, results, pc, buf>>,
              \A f \in Files \ patch[p].paths : files'[f] = files[f]
       PROVE  TreeStep
  <2>1. \A q \in Patches : q # p => (Unrecorded(q)' <=> Unrecorded(q))
    BY <1>0, <1>12 DEF TypeOK, Unrecorded
  <2>2. ASSUME NEW f \in Files, f \notin Spoiled' PROVE f \notin patch[p].paths /\ f \notin DOMAIN buf[p]
    BY <1>0, <1>12, <2>2 DEF Spoiled, TypeOK
  <2>3. ~Unrecorded(p)'
    BY <1>0, <1>12 DEF TypeOK, Unrecorded
  <2>4. ASSUME NEW t \in Trees, NEW f \in Files, f \notin Spoiled', CleanAt(t, f)' PROVE CleanAt(t, f)
    BY <1>12, <2>1, <2>2, <2>3, <2>4 DEF CleanAt
  <2> QED
    BY <1>12, <2>4 DEF TreeStep, Quiet, SameRun
<1>13. ASSUME NEW p \in Patches, WriteFails(p) \/ RecordFails(p) PROVE TreeStep
  <2>1. /\ at[p] = "write" /\ torn' = torn \union {p} /\ at' = [at EXCEPT ![p] = "throw"]
        /\ UNCHANGED <<patch, dry, base, results, pc, buf>>
        /\ files' = files \/ (left[p] # {} /\ \E c : files' = [files EXCEPT ![Min(left[p])] = c])
    BY <1>13 DEF WriteFails, RecordFails
  <2>2. left[p] \subseteq patch[p].paths /\ (left[p] # {} => Min(left[p]) \in left[p])
    BY <1>0, <2>1, MinFacts, Numbers DEF TypeInv, TypeOK
  <2>3. \A f \in Files \ patch[p].paths : files'[f] = files[f]
    BY <1>0, <2>1, <2>2 DEF TypeOK
  <2> QED
    BY <1>12, <2>1, <2>3
<1>14. ASSUME NEW p \in Patches, ReleaseFails(p) \/ ArtifactFails(p) PROVE TreeStep
  <2>1. /\ at[p] \in Finally /\ torn' = torn \union TornBy(p) /\ at' = [at EXCEPT ![p] = "throw"]
        /\ UNCHANGED <<patch, dry, base, results, pc, buf, files>>
    BY <1>14 DEF ReleaseFails, ArtifactFails, Finally
  <2>2. CASE at[p] = "ok"
    BY <1>12, <2>1, <2>2 DEF TornBy
  <2>3. CASE at[p] # "ok"
    <3>1. \A q \in Patches : Unrecorded(q)' <=> Unrecorded(q)
      BY <1>0, <2>1, <2>3 DEF TypeOK, Unrecorded, Finally
    <3> QED
      BY <1>1, <2>1, <3>1
  <2> QED
    BY <2>2, <2>3
<1>15. ASSUME NEW p \in Patches, DryRunFails(p) \/ MarkFails(p) \/ EndThrow(p) PROVE TreeStep
  BY <1>15 DEF DryRunFails, MarkFails, EndThrow
<1>16. ASSUME NEW p \in Patches, EndSerial(p) \/ EndParallel(p) PROVE TreeStep
  <2> DEFINE r == Outcome(p)
  <2>1. /\ at[p] \in Finally /\ at' = [at EXCEPT ![p] = "idle"]
        /\ UNCHANGED <<patch, dry, base, files, torn, pc, buf>> /\ results' = Append(results, r)
    BY <1>16 DEF EndSerial, EndParallel, Finished
  <2>2. SameRun /\ ~Unrecorded(p)' /\ \A q \in Patches : q # p => (Unrecorded(q)' <=> Unrecorded(q))
    BY <1>0, <2>1 DEF TypeOK, Unrecorded, SameRun
  <2>3. CASE at[p] # "ok"
    <3>1. ~Unrecorded(p)
      BY <2>1, <2>3 DEF Unrecorded, Finally
    <3>2. ASSUME NEW t \in Trees, NEW f \in Files, CleanAt(t, f)' PROVE CleanAt(t, f)
      BY <2>1, <2>2, <3>1, <3>2 DEF CleanAt
    <3> QED
      BY <2>1, <2>2, <2>3, <3>2 DEF TreeStep, Fails
  <2>4. CASE at[p] = "ok"
    <3>1. Plans(p) \in SUBSET DOMAIN buf[p] /\ DOMAIN buf[p] \subseteq Files
      BY <1>0, OutcomeFacts
    <3>2. PutsBack(r, p, Plans(p))
      BY <1>0, <2>4, OutcomePutsBack
    <3>3. \A f \in DOMAIN buf[p] : files[f] = buf[p][f].after
      BY <2>1, <2>4 DEF HandoffInv, Bufs, EntryBufs
    <3>4. \A q \in Patches : q # p /\ Unrecorded(q) => DOMAIN buf[p] \intersect DOMAIN buf[q] = {}
      BY <1>9, <2>4 DEF Running, Unrecorded
    <3> HIDE DEF r
    <3>5. ASSUME NEW t \in Trees, NEW f \in Files, CleanAt(t, f)', f \in DOMAIN buf[p] PROVE t[f] = buf[p][f].after
      <4>1. \A q \in Patches : Unrecorded(q)' => f \notin DOMAIN buf'[q]
        BY <2>1, <2>2, <3>4, <3>5
      <4>2. t[f] = files[f]
        BY <2>1, <3>5, <4>1 DEF CleanAt
      <4> QED
        BY <3>3, <3>5, <4>2
    <3>6. ASSUME NEW t \in Trees, NEW f \in Files, CleanAt(t, f)' PROVE CleanAt(Undone(t, r), f)
      <4> DEFINE u == Undone(t, r)
      <4>1. u[f] = IF f \in Plans(p) THEN buf[p][f].before ELSE t[f]
        BY <3>2 DEF PutsBack
      <4> HIDE DEF u
      <4>2. f \in DOMAIN buf[p] => u[f] = buf[p][f].before
        <5>1. CASE f \in Plans(p)
          BY <4>1, <5>1
        <5>2. CASE f \notin Plans(p) /\ f \in DOMAIN buf[p]
          <6>1. buf[p][f].before = buf[p][f].after
            BY <5>2 DEF Plans
          <6>2. t[f] = buf[p][f].after
            BY <3>5, <3>6, <5>2
          <6> QED
            BY <4>1, <5>2, <6>1, <6>2
        <5> QED
          BY <5>1, <5>2
      <4>3. ASSUME NEW q \in Patches, Unrecorded(q), f \in DOMAIN buf[q] PROVE u[f] = buf[q][f].before
        <5>1. CASE q = p
          BY <4>2, <4>3, <5>1
        <5>2. CASE q # p
          <6>1. f \notin Plans(p)
            BY <3>1, <3>4, <4>3, <5>2
          <6>2. Unrecorded(q)' /\ buf'[q] = buf[q]
            BY <2>1, <2>2, <4>3, <5>2
          <6>3. t[f] = buf[q][f].before
            BY <3>6, <4>3, <6>2 DEF CleanAt
          <6> QED
            BY <4>1, <6>1, <6>3
        <5> QED
          BY <5>1, <5>2
      <4>4. ASSUME \A q \in Patches : Unrecorded(q) => f \notin DOMAIN buf[q]
            PROVE  u[f] = files[f]
        <5>1. f \notin DOMAIN buf[p]
          BY <2>4, <4>4 DEF Unrecorded
        <5>2. u[f] = t[f]
          BY <3>1, <4>1, <5>1
        <5>3. t[f] = files[f]
          BY <2>1, <2>2, <3>6, <4>4 DEF CleanAt
        <5> QED
          BY <5>2, <5>3
      <4>5. CleanAt(u, f)
        BY <4>3, <4>4 DEF CleanAt
      <4> QED
        BY <4>5 DEF u
    <3> QED
      BY <2>1, <2>2, <2>4, <3>5, <3>6 DEF TreeStep, Writes, r
  <2> QED
    BY <2>3, <2>4
<1> QED
  BY <1>2, <1>3, <1>4, <1>5, <1>6, <1>7, <1>8, <1>10, <1>11, <1>13, <1>14, <1>15, <1>16
     DEF Next, Step, EntryStep, EntryFault

LEMMA SpoiledGrows == SameRun => Spoiled \subseteq Spoiled'
  BY DEF SameRun, Spoiled

LEMMA RollStep == HandoffInv /\ Roll /\ [Next]_vars => Roll'
<1> SUFFICES ASSUME HandoffInv, Roll, [Next]_vars, pc' \notin {"threw", "crashed"}, ~dry',
                    NEW t \in Trees, NEW f \in Files, f \notin Spoiled', CleanAt(t, f)'
             PROVE  UndoAll(t, results')[f] = base'[f]
  BY DEF Roll
<1>0. TypeInv /\ results \in Seq(Results)
  BY DEF HandoffInv, TypeInv
<1>1. CASE Begins
  BY <1>1, UndoNone DEF Begins
<1>2. CASE Quiet
  <2>1. CleanAt(t, f) /\ f \notin Spoiled
    BY <1>2, SpoiledGrows DEF Quiet
  <2> QED
    BY <1>2, <2>1 DEF Quiet, SameRun, Roll
<1>3. ASSUME SameRun, NEW r \in Results, results' = Append(results, r),
             Undone(t, r) \in Trees, CleanAt(Undone(t, r), f)
      PROVE  UndoAll(t, results')[f] = base'[f]
  <2>1. UndoAll(Undone(t, r), results)[f] = base[f]
    BY <1>3, SpoiledGrows DEF Roll, SameRun
  <2>2. UndoAll(t, Append(results, r)) = UndoAll(Undone(t, r), results)
    BY <1>0, UndoAppend
  <2> QED
    BY <1>3, <2>1, <2>2 DEF SameRun
<1>4. ASSUME NEW p \in Patches, Fails(p) PROVE UndoAll(t, results')[f] = base'[f]
  <2> DEFINE r == Outcome(p)
  <2>1. r \in Results /\ PutsBack(r, p, {})
    BY <1>0, <1>4, OutcomeFacts, OutcomePutsBack DEF Fails
  <2>2. SameRun /\ results' = Append(results, r) /\ CleanAt(t, f)
    BY <1>4 DEF Fails
  <2> HIDE DEF r
  <2>3. Undone(t, r) \in Trees /\ \A g \in Files : Undone(t, r)[g] = t[g]
    BY <2>1 DEF PutsBack
  <2>4. Undone(t, r) = t
    BY <2>3 DEF Trees
  <2> QED
    BY <1>3, <2>1, <2>2, <2>4
<1>5. ASSUME NEW p \in Patches, Writes(p) PROVE UndoAll(t, results')[f] = base'[f]
  <2> DEFINE r == Outcome(p)
  <2>1. r \in Results /\ PutsBack(r, p, Plans(p))
    BY <1>0, <1>5, OutcomeFacts, OutcomePutsBack DEF Writes
  <2>2. SameRun /\ results' = Append(results, r) /\ CleanAt(Undone(t, r), f)
    BY <1>5 DEF Writes
  <2> HIDE DEF r
  <2>3. Undone(t, r) \in Trees
    BY <2>1 DEF PutsBack
  <2> QED
    BY <1>3, <2>1, <2>2, <2>3
<1> QED
  BY <1>1, <1>2, <1>4, <1>5, CleanSteps DEF TreeStep

\* The results of a handoff that has ended, taken back last first, give every file the
\* text it began with, whatever it reported and whatever failed; all but the files of
\* an entry that failed after it began to write (RollbackRestores).
THEOREM ResultsUndo == Spec => []RollbackRestores
<1>1. Init => Roll
  BY RollInit
<1>2. HandoffInv /\ Roll => RollbackRestores
  <2> SUFFICES ASSUME HandoffInv, Roll, pc = "done", ~dry, NEW f \in Files \ Spoiled
               PROVE  UndoAll(files, results)[f] = base[f]
    BY DEF RollbackRestores
  <2>1. \A p \in Patches : ~Unrecorded(p)
    BY DEF HandoffInv, Locks, EntryLocks, Running, Unrecorded
  <2>2. files \in Trees
    BY DEF HandoffInv, TypeInv, TypeOK, Trees
  <2>3. CleanAt(files, f)
    BY <2>1 DEF CleanAt
  <2> QED
    BY <2>2, <2>3 DEF Roll
<1> QED
  BY <1>1, <1>2, RollStep, HandoffInvHolds, PTL DEF Spec

-----------------------------------------------------------------------------
(* An ok report                                                             *)

\* What an operation makes of a text, as predicates of rigid texts.
Edits(c, d, p) == d = Edited(c, p)
CanEdit(c, p) == Applicable(c, p)

\* The buffers hold the operation's work, on a text it can be done on unless the entry
\* has a violation; an entry without one has got, or will get, to each of its paths.
EntryWhole(p) ==
    /\ \A f \in DOMAIN buf[p] : \A c, d \in Content :
          c = buf[p][f].before /\ d = buf[p][f].after =>
             Edits(c, d, p) /\ (~bad[p] => CanEdit(c, p))
    /\ at[p] = "lock" /\ ~bad[p] => DOMAIN buf[p] \union left[p] = patch[p].paths
    /\ at[p] = "write" \/ (at[p] = "ok" /\ ~dry) => ~bad[p] /\ DOMAIN buf[p] = patch[p].paths

Whole == \A p \in Patches : EntryWhole(p)

LEMMA EditsSame ==
  ASSUME UNCHANGED patch
  PROVE  \A c, d, p : (Edits(c, d, p)' <=> Edits(c, d, p)) /\ (CanEdit(c, p)' <=> CanEdit(c, p))
  BY DEF Edits, CanEdit, Edited, Applicable

LEMMA WholeInit == Init => Whole
<1> SUFFICES ASSUME Init PROVE Whole
  OBVIOUS
<1>1. \A p \in Patches : at[p] = "idle" /\ DOMAIN buf[p] = {}
  BY NoBuffersType DEF Init
<1> QED
  BY <1>1 DEF Whole, EntryWhole

LEMMA WholeSame ==
  ASSUME NEW q \in Patches, EntryWhole(q), UNCHANGED <<patch, dry>>, buf'[q] = buf[q], bad[q] => bad'[q],
         \/ at'[q] = at[q] /\ left'[q] = left[q] /\ bad'[q] = bad[q]
         \/ at'[q] = "lock" /\ bad'[q]
         \/ at'[q] \in {"write", "ok"} /\ at[q] = "write" /\ bad'[q] = bad[q]
         \/ at'[q] = "ok" /\ dry
         \/ at'[q] \notin {"lock", "write", "ok"}
  PROVE  EntryWhole(q)'
<1>1. \A f \in DOMAIN buf'[q] : \A c, d \in Content :
          c = buf'[q][f].before /\ d = buf'[q][f].after =>
             Edits(c, d, q)' /\ (~bad'[q] => CanEdit(c, q)')
  BY EditsSame DEF EntryWhole
<1>2. at'[q] = "lock" /\ ~bad'[q] => DOMAIN buf'[q] \union left'[q] = patch'[q].paths
  BY DEF EntryWhole
<1>3. at'[q] = "write" \/ (at'[q] = "ok" /\ ~dry') => ~bad'[q] /\ DOMAIN buf'[q] = patch'[q].paths
  BY DEF EntryWhole
<1> QED
  BY <1>1, <1>2, <1>3 DEF EntryWhole

LEMMA WholeStep == HandoffInv /\ Whole /\ [Next]_vars => Whole'
<1> SUFFICES ASSUME HandoffInv, Whole, [Next]_vars PROVE Whole'
  OBVIOUS
<1> USE DEF input, apply, rebase, history, Faulty
<1>0. TypeOK /\ TypeInv
  BY DEF HandoffInv, TypeInv
<1>1. ASSUME UNCHANGED <<patch, dry, at, left, buf, bad>> PROVE Whole'
  BY <1>1, WholeSame DEF Whole
<1>2. CASE Enqueue \/ Coordinate \/ Report \/ HandoffFails \/ Rerun \/ UNCHANGED vars
  BY <1>1, <1>2 DEF Enqueue, Coordinate, Report, HandoffFails, Rerun, vars
<1>3. ASSUME NEW S, Starts(S), UNCHANGED <<patch, dry>>, \A p \in Patches : at[p] = "idle" PROVE Whole'
  <2> SUFFICES ASSUME NEW p \in Patches PROVE EntryWhole(p)'
    BY DEF Whole
  <2>1. CASE p \in S
    <3>1. at'[p] = "lock" /\ DOMAIN buf'[p] = {} /\ left'[p] = patch[p].paths
      BY <1>3, <2>1, NoBuffersType DEF Starts
    <3> QED
      BY <1>3, <3>1 DEF EntryWhole
  <2>2. CASE p \notin S
    <3>1. at'[p] = at[p] /\ buf'[p] = buf[p] /\ left'[p] = left[p] /\ bad'[p] = bad[p]
      BY <1>3, <2>2 DEF Starts
    <3> QED
      BY <1>3, <3>1, WholeSame DEF Whole
  <2> QED
    BY <2>1, <2>2
<1>4. CASE StartSerial \/ StartParallel
  BY <1>3, <1>4 DEF StartSerial, StartParallel
<1>5. CASE Crash
  <2>1. \A p \in Patches : at'[p] = "idle" /\ UNCHANGED <<patch, dry, left, buf, bad>>
    BY <1>5 DEF Crash
  <2> QED
    BY <2>1, WholeSame DEF Whole
<1>6. ASSUME NEW p \in Patches, Barred(p) \/ LockBusy(p) \/ LockFails(p) PROVE Whole'
  <2>1. /\ at[p] = "lock" /\ UNCHANGED <<patch, dry, buf, at>> /\ bad' = [bad EXCEPT ![p] = TRUE]
        /\ \E f : left' = [left EXCEPT ![p] = @ \ {f}]
    BY <1>6 DEF Barred, LockBusy, LockFails
  <2>2. bad'[p] /\ \A q \in Patches : q # p => left'[q] = left[q] /\ bad'[q] = bad[q]
    BY <1>0, <2>1 DEF TypeOK
  <2> QED
    BY <2>1, <2>2, WholeSame DEF Whole
<1>7. ASSUME NEW p \in Patches, LockFile(p) PROVE Whole'
  <2> DEFINE f == Min(left[p])
  <2>1. f \in left[p] /\ f \in Files /\ at[p] = "lock"
    BY <1>0, <1>7, MinFacts, Numbers DEF LockFile, TypeOK
  <2>2. /\ left' = [left EXCEPT ![p] = @ \ {f}] /\ buf' = [buf EXCEPT ![p] = Buffered(p, f)]
        /\ bad' = [bad EXCEPT ![p] = @ \/ ~Applicable(files[f], p)]
        /\ UNCHANGED <<patch, dry, at>>
    BY <1>7 DEF LockFile
  <2> HIDE DEF f
  <2>3. /\ buf'[p] = Buffered(p, f) /\ left'[p] = left[p] \ {f} /\ (~bad'[p] => ~bad[p] /\ Applicable(files[f], p))
        /\ \A q \in Patches : q # p => left'[q] = left[q] /\ buf'[q] = buf[q] /\ bad'[q] = bad[q]
    BY <1>0, <2>2 DEF TypeOK, TypeInv
  <2>4. /\ DOMAIN Buffered(p, f) = DOMAIN buf[p] \union {f}
        /\ Buffered(p, f)[f] = [before |-> files[f], after |-> Edited(files[f], p)]
        /\ \A g \in DOMAIN buf[p] : g # f => Buffered(p, f)[g] = buf[p][g]
    BY <1>0, <2>1, BufferedFacts
  <2>5. ASSUME NEW g \in DOMAIN buf'[p], NEW c \in Content, NEW d \in Content,
               c = buf'[p][g].before, d = buf'[p][g].after
        PROVE  Edits(c, d, p)' /\ (~bad'[p] => CanEdit(c, p)')
    <3>1. CASE g = f
      <4>1. c = files[f] /\ d = Edited(files[f], p)
        BY <2>3, <2>4, <2>5, <3>1
      <4>2. Edits(c, d, p) /\ (~bad'[p] => CanEdit(c, p))
        BY <2>3, <4>1 DEF Edits, CanEdit
      <4> QED
        BY <2>2, <4>2, EditsSame
    <3>2. CASE g # f
      <4>1. g \in DOMAIN buf[p] /\ buf'[p][g] = buf[p][g]
        BY <2>3, <2>4, <2>5, <3>2
      <4>2. Edits(c, d, p) /\ (~bad[p] => CanEdit(c, p))
        BY <2>5, <4>1 DEF Whole, EntryWhole
      <4> QED
        BY <2>2, <2>3, <4>2, EditsSame
    <3> QED
      BY <3>1, <3>2
  <2>6. ~bad'[p] => DOMAIN buf'[p] \union left'[p] = patch[p].paths
    <3>1. ~bad[p] => DOMAIN buf[p] \union left[p] = patch[p].paths
      BY <2>1 DEF Whole, EntryWhole
    <3> QED
      BY <2>1, <2>3, <2>4, <3>1
  <2>7. EntryWhole(p)'
    BY <2>1, <2>2, <2>5, <2>6 DEF EntryWhole
  <2>8. \A q \in Patches : q # p => EntryWhole(q)'
    BY <2>2, <2>3, WholeSame DEF Whole
  <2> QED
    BY <2>7, <2>8 DEF Whole
<1>8. ASSUME NEW p \in Patches, StartWrites(p) PROVE Whole'
  <2>1. /\ at[p] = "lock" /\ left[p] = {} /\ ~bad[p] /\ at' = [at EXCEPT ![p] = "write"]
        /\ left' = [left EXCEPT ![p] = Plans(p)] /\ UNCHANGED <<patch, dry, buf, bad>>
    BY <1>8 DEF StartWrites, Refused
  <2>2. at'[p] = "write" /\ \A q \in Patches : q # p => at'[q] = at[q] /\ left'[q] = left[q]
    BY <1>0, <2>1 DEF TypeOK
  <2>3. EntryWhole(p)
    BY DEF Whole
  <2>4. EntryWhole(p)'
    <3>1. DOMAIN buf[p] = patch[p].paths
      BY <2>1, <2>3 DEF EntryWhole
    <3>2. \A f \in DOMAIN buf[p] : \A c, d \in Content :
            c = buf[p][f].before /\ d = buf[p][f].after => Edits(c, d, p)' /\ CanEdit(c, p)'
      BY <2>1, <2>3, EditsSame DEF EntryWhole
    <3> QED
      BY <2>1, <2>2, <3>1, <3>2 DEF EntryWhole
  <2>5. \A q \in Patches : q # p => EntryWhole(q)'
    BY <2>1, <2>2, WholeSame DEF Whole
  <2> QED
    BY <2>4, <2>5 DEF Whole
<1>9. ASSUME NEW p \in Patches, WriteFile(p) PROVE Whole'
  <2>1. at[p] = "write" /\ UNCHANGED <<patch, dry, at, buf, bad>> /\ \E f : left' = [left EXCEPT ![p] = @ \ {f}]
    BY <1>9 DEF WriteFile
  <2>2. \A q \in Patches : q # p => left'[q] = left[q]
    BY <1>0, <2>1 DEF TypeOK
  <2> QED
    BY <2>1, <2>2, WholeSame DEF Whole
<1>10. ASSUME NEW p \in Patches,
              \/ Settled(p) \/ Record(p) \/ ReleaseFile(p) \/ SettleFails(p) \/ ReadFails(p) \/ WriteFails(p)
              \/ RecordFails(p) \/ RmFails(p) \/ ReleaseFails(p) \/ ArtifactFails(p) \/ EndSerial(p)
              \/ DryRunFails(p) \/ EndParallel(p) \/ MarkFails(p) \/ EndThrow(p)
       PROVE  Whole'
  <2>1. /\ UNCHANGED <<patch, dry, left, buf, bad>>
        /\ \/ at' = at
           \/ \E a \in {"blocked", "throw", "idle"} : at' = [at EXCEPT ![p] = a]
           \/ at' = [at EXCEPT ![p] = "ok"] /\ (dry \/ at[p] = "write")
    BY <1>10 DEF Settled, Record, ReleaseFile, SettleFails, ReadFails, WriteFails, RecordFails, RmFails,
                 ReleaseFails, ArtifactFails, EndSerial, DryRunFails, EndParallel, MarkFails, EndThrow
  <2>2. /\ at'[p] = at[p] \/ at'[p] \notin {"lock", "write", "ok"} \/ (at'[p] = "ok" /\ (dry \/ at[p] = "write"))
        /\ \A q \in Patches : q # p => at'[q] = at[q]
    BY <1>0, <2>1 DEF TypeOK
  <2> QED
    BY <2>1, <2>2, WholeSame DEF Whole
<1> QED
  BY <1>2, <1>4, <1>5, <1>6, <1>7, <1>8, <1>9, <1>10
     DEF Next, Step, EntryStep, EntryFault

-----------------------------------------------------------------------------

AllOk == \A i \in DOMAIN results : results[i].ok

\* What the queue and the report say of the results: an entry that counts as applied has
\* one, unless the handoff threw; one that failed after it began to write is among them,
\* is about to be, or has ended the handoff; and an ok report was made over results that
\* are all good and leave no entry out.
Told ==
    /\ pc \notin {"threw", "crashed"} =>
          \A p \in Patches : status[p] \in {"applied", "verified"} => HasResult(p)
    /\ torn # {} => ~AllOk \/ pc \in {"threw", "crashed"} \/ \E p \in Patches : at[p] = "throw"
    /\ report = "ok" => pc = "done" /\ AllOk /\ \A p \in Patches : HasResult(p)

LEMMA ToldInit == Init => Told
<1> SUFFICES ASSUME Init PROVE Told
  OBVIOUS
<1>1. torn = {} /\ report = "none" /\ \A p \in Patches : status[p] = "none"
  BY DEF Init
<1> QED
  BY <1>1 DEF Told

LEMMA ToldStep == HandoffInv /\ Told /\ [Next]_vars => Told'
<1> SUFFICES ASSUME HandoffInv, Told, [Next]_vars PROVE Told'
  OBVIOUS
<1> USE DEF input, apply, rebase, history, Faulty
<1>0. TypeOK /\ TypeInv
  BY DEF HandoffInv, TypeInv
<1>1. ASSUME UNCHANGED <<results, report>>, pc # "done",
             torn' # {} => \/ torn # {} /\ \A p \in Patches : at[p] = "throw" => at'[p] = "throw"
                           \/ \E p \in Patches : at'[p] = "throw",
             pc \in {"threw", "crashed"} => pc' \in {"threw", "crashed"},
             pc' \notin {"threw", "crashed"} =>
                \A p \in Patches : status'[p] \in {"applied", "verified"} => HasResult(p)
      PROVE  Told'
  <2>1. report' # "ok"
    BY <1>1 DEF Told
  <2>2. (AllOk' <=> AllOk) /\ \A p \in Patches : HasResult(p)' <=> HasResult(p)
    BY <1>1 DEF AllOk, HasResult
  <2> QED
    BY <1>1, <2>1, <2>2 DEF Told
<1>2. CASE Enqueue
  <2>1. pc = "enqueue" /\ pc' \in {"enqueue", "merge"} /\ UNCHANGED <<results, torn, report, at>>
    BY <1>2 DEF Enqueue
  <2>2. \E p, s : s \in {"pending", "rejected"} /\ status' = [status EXCEPT ![p] = s]
    BY <1>2 DEF Enqueue
  <2>3. \A q \in Patches : status'[q] \in {"applied", "verified"} => status'[q] = status[q]
    BY <1>0, <2>2 DEF TypeOK
  <2> QED
    BY <1>1, <2>1, <2>3 DEF Told
<1>3. CASE Coordinate
  BY <1>1, <1>3 DEF Coordinate, Told
<1>a. CASE StartSerial
  <2>1. /\ pc = "rebase" /\ UNCHANGED <<pc, status, results, torn, report>> /\ \A q \in Patches : at[q] = "idle"
    BY <1>a DEF StartSerial
  <2> QED
    BY <1>1, <2>1 DEF Told
<1>4. CASE StartParallel
  <2>1. /\ pc = "rebase" /\ pc' = "parallel" /\ UNCHANGED <<results, torn, report>>
        /\ \A q \in Patches : at[q] = "idle"
    BY <1>4 DEF StartParallel
  <2>2. ASSUME NEW q \in Patches, status'[q] \in {"applied", "verified"} PROVE HasResult(q)
    <3>1. status'[q] = CASE q \in Unresolved -> "conflicted"
                         [] q \in succeeded -> "applied"
                         [] q \in Independent -> "applying"
                         [] OTHER -> status[q]
      BY <1>4 DEF StartParallel, Divided
    <3>2. status[q] \notin {"applied", "verified"} /\ (q \in succeeded => HasResult(q))
      BY <2>1 DEF HandoffInv, Stat, EntryStatus
    <3>3. q \in Unresolved => q \notin succeeded /\ q \notin Independent
      BY DEF Unresolved, Independent
    <3>4. q \in succeeded
      BY <2>2, <3>1, <3>2, <3>3
    <3> QED
      BY <3>2, <3>4
  <2> QED
    BY <1>1, <2>1, <2>2
<1>5. CASE Report
  <2>1. /\ pc = "parallel" /\ pc' = "done" /\ status' = Verified /\ UNCHANGED <<results, torn, at>>
        /\ report' = "ok" => NoBlockers
    BY <1>5 DEF Report
  <2>2. (AllOk' <=> AllOk) /\ \A p \in Patches : HasResult(p)' <=> HasResult(p)
    BY <2>1 DEF AllOk, HasResult
  <2>3. \A p \in Patches : Verified[p] \in {"applied", "verified"} => HasResult(p)
    <3> SUFFICES ASSUME NEW p \in Patches, Verified[p] \in {"applied", "verified"} PROVE HasResult(p)
      OBVIOUS
    <3>1. CASE \E i \in DOMAIN results : results[i].entry = p /\ results[i].ok
      BY <3>1 DEF HasResult
    <3>2. CASE ~\E i \in DOMAIN results : results[i].entry = p /\ results[i].ok
      BY <2>1, <3>2 DEF Verified, Told
    <3> QED
      BY <3>1, <3>2
  <2>4. NoBlockers => AllOk /\ \A p \in Patches : HasResult(p)
    BY <2>3 DEF NoBlockers, AllOk
  <2> QED
    BY <2>1, <2>2, <2>3, <2>4 DEF Told
<1>6. CASE Crash \/ HandoffFails
  <2>1. pc # "done" /\ pc' \in {"threw", "crashed"} /\ UNCHANGED <<results, torn, report>>
    BY <1>6 DEF Crash, HandoffFails
  <2>2. report' # "ok"
    BY <2>1 DEF Told
  <2> QED
    BY <2>1, <2>2 DEF Told
<1>7. CASE Rerun
  <2>1. torn' = {} /\ report' = "none" /\ \A p \in Patches : status'[p] = "none"
    BY <1>7 DEF Rerun
  <2> QED
    BY <2>1 DEF Told
<1>8. CASE UNCHANGED vars
  <2>1. UNCHANGED <<status, results, torn, report, pc, at>>
    BY <1>8 DEF vars
  <2> QED
    BY <2>1 DEF Told, AllOk, HasResult
<1>9. ASSUME NEW p \in Patches, Running(p) PROVE pc # "done" /\ pc # "crashed"
  BY <1>9 DEF HandoffInv, Locks, EntryLocks
<1>10. ASSUME NEW p \in Patches, \/ Barred(p) \/ LockBusy(p) \/ LockFile(p) \/ Settled(p) \/ StartWrites(p)
                                 \/ WriteFile(p) \/ Record(p) \/ ReleaseFile(p) \/ LockFails(p) \/ RmFails(p)
       PROVE  Told'
  <2>1. Running(p) /\ UNCHANGED <<status, results, torn, report, pc>>
    BY <1>10 DEF Barred, LockBusy, LockFile, Settled, StartWrites, WriteFile, Record, ReleaseFile, LockFails,
                 RmFails, Running, Finally
  <2>2. at' = at \/ (at[p] # "throw" /\ \E a : at' = [at EXCEPT ![p] = a])
    BY <1>10 DEF Barred, LockBusy, LockFile, Settled, StartWrites, WriteFile, Record, ReleaseFile, LockFails, RmFails
  <2>3. \A q \in Patches : at[q] = "throw" => at'[q] = "throw"
    BY <1>0, <2>2 DEF TypeOK
  <2> QED
    BY <1>1, <1>9, <2>1, <2>3 DEF Told
<1>11. ASSUME NEW p \in Patches, \/ SettleFails(p) \/ ReadFails(p) \/ WriteFails(p) \/ RecordFails(p)
                                 \/ ReleaseFails(p) \/ ArtifactFails(p)
       PROVE  Told'
  <2>1. Running(p) /\ UNCHANGED <<status, results, report, pc>> /\ at' = [at EXCEPT ![p] = "throw"]
    BY <1>11 DEF SettleFails, ReadFails, WriteFails, RecordFails, ReleaseFails, ArtifactFails, Running, Finally
  <2>2. at'[p] = "throw"
    BY <1>0, <2>1 DEF TypeOK
  <2> QED
    BY <1>1, <1>9, <2>1, <2>2 DEF Told
<1>12. ASSUME NEW p \in Patches, EndThrow(p) \/ DryRunFails(p) \/ MarkFails(p) PROVE Told'
  <2>1. Running(p) /\ pc' = "threw" /\ UNCHANGED <<results, torn, report>>
    BY <1>12 DEF EndThrow, DryRunFails, MarkFails, Running, Finished, Finally
  <2>2. report' # "ok"
    BY <1>9, <2>1 DEF Told
  <2> QED
    BY <2>1, <2>2 DEF Told
<1>13. ASSUME NEW p \in Patches, EndSerial(p) \/ EndParallel(p) PROVE Told'
  <2>1. /\ Running(p) /\ UNCHANGED <<report, pc, torn>> /\ at' = [at EXCEPT ![p] = "idle"]
        /\ results' = Append(results, Outcome(p))
        /\ at[p] # "ok" \/ at[p] # "throw"
        /\ UNCHANGED status \/ Marks(p)
    BY <1>13 DEF EndSerial, EndParallel, Running, Finished, Finally
  <2>2. HasResult(p)' /\ \A q \in Patches : HasResult(q) => HasResult(q)'
    BY <1>0, <2>1, ResultAppended
  <2>3. Outcome(p) \in Results /\ (Outcome(p).ok <=> at[p] = "ok")
    BY <1>0, OutcomeFacts
  <2>4. /\ DOMAIN results = 1 .. Len(results) /\ Len(results) \in Nat /\ DOMAIN results' = 1 .. Len(results) + 1
        /\ (\A i \in DOMAIN results : results'[i] = results[i]) /\ results'[Len(results) + 1] = Outcome(p)
    <3>1. results \in Seq(Results)
      BY <1>0 DEF TypeInv
    <3> QED
      BY <1>0, <2>1, <2>3, <3>1, AppendTypes
  <2>5. AllOk' => AllOk /\ Outcome(p).ok
    <3>1. \A i \in DOMAIN results : i \in DOMAIN results'
      BY <2>4
    <3>2. Len(results) + 1 \in DOMAIN results'
      BY <2>4
    <3> QED
      BY <2>4, <3>1, <3>2 DEF AllOk
  <2>6. report' # "ok"
    BY <1>9, <2>1 DEF Told
  <2>7. \A q \in Patches : q # p => status'[q] = status[q] /\ at'[q] = at[q]
    BY <1>0, <2>1 DEF TypeOK, Marks
  <2>8. torn' # {} => ~AllOk' \/ pc' \in {"threw", "crashed"} \/ \E q \in Patches : at'[q] = "throw"
    BY <2>1, <2>3, <2>5, <2>7 DEF Told
  <2>9. pc' \notin {"threw", "crashed"} =>
          \A q \in Patches : status'[q] \in {"applied", "verified"} => HasResult(q)'
    BY <2>1, <2>2, <2>7 DEF Told
  <2> QED
    BY <2>6, <2>8, <2>9 DEF Told
<1> QED
  BY <1>2, <1>3, <1>a, <1>4, <1>5, <1>6, <1>7, <1>8, <1>10, <1>11, <1>12, <1>13
     DEF Next, Step, EntryStep, EntryFault

-----------------------------------------------------------------------------

\* Entry p makes tree t of tree u.
Takes(u, t, p) == t = Applied(u, p) /\ \A f \in patch[p].paths : Applicable(u[f], p)

\* The entries of the results, in their order, lead from base to t over the trees of g.
Chain(g, t) ==
    /\ g[0] = base /\ g[Len(results)] = t
    /\ \A i \in 1 .. Len(results), p \in Patches : results[i].entry = p => Takes(g[i - 1], g[i], p)

\* The tree is without what entries have written that have no result yet.
IsClean(t) == \A f \in Files : CleanAt(t, f)

InOrder == ~dry /\ torn = {} /\ pc \notin {"threw", "crashed"} /\ AllOk =>
             \A t \in Trees : IsClean(t) => \E g : Chain(g, t)

LEMMA TakesSame ==
  ASSUME UNCHANGED patch
  PROVE  \A u, t, p : Takes(u, t, p)' <=> Takes(u, t, p)
  BY DEF Takes, Applied, Edited, Applicable

LEMMA InOrderInit == Init => InOrder
<1> SUFFICES ASSUME Init, NEW t \in Trees, IsClean(t) PROVE \E g : Chain(g, t)
  BY DEF InOrder
<1>1. t = base
  <2>1. (\A f \in Files : t[f] = files[f]) /\ base = files
    BY DEF Init, IsClean, CleanAt, Unrecorded
  <2>2. files \in Trees
    BY TypeInit DEF TypeInv, TypeOK, Trees
  <2> QED
    BY <2>1, <2>2 DEF Trees
<1> DEFINE g == [i \in {0} |-> base]
<1>2. results = <<>> /\ Len(results) = 0 /\ 1 .. Len(results) = {}
  BY DEF Init
<1>3. g[0] = base
  OBVIOUS
<1> HIDE DEF g
<1>4. Chain(g, t)
  BY <1>1, <1>2, <1>3 DEF Chain
<1> QED
  BY <1>4

LEMMA WritesTake ==
  ASSUME HandoffInv, Whole, ~dry, NEW p \in Patches, Writes(p), NEW t \in Trees, IsClean(t)',
         NEW u \in Trees, u = Undone(t, Outcome(p))
  PROVE  IsClean(u) /\ Takes(u, t, p)
<1>0. TypeInv /\ TypeOK
  BY DEF HandoffInv, TypeInv
<1>1. at[p] = "ok" /\ \A f \in Files : CleanAt(u, f) /\ (f \in DOMAIN buf[p] => t[f] = buf[p][f].after)
  BY DEF Writes, IsClean
<1>2. DOMAIN buf[p] = patch[p].paths /\ ~bad[p] /\ patch[p].paths \subseteq Files
  BY <1>0, <1>1 DEF Whole, EntryWhole, TypeOK
<1>3. \A f \in patch[p].paths : u[f] = buf[p][f].before /\ u[f] \in Content /\ t[f] \in Content
  BY <1>1, <1>2 DEF CleanAt, Unrecorded, Trees
<1>4. \A f \in patch[p].paths : Edits(u[f], t[f], p) /\ CanEdit(u[f], p)
  <2> SUFFICES ASSUME NEW f \in patch[p].paths PROVE Edits(u[f], t[f], p) /\ CanEdit(u[f], p)
    OBVIOUS
  <2>1. u[f] = buf[p][f].before /\ t[f] = buf[p][f].after /\ u[f] \in Content /\ t[f] \in Content
    BY <1>1, <1>2, <1>3
  <2>2. EntryWhole(p)
    BY DEF Whole
  <2> QED
    BY <1>2, <2>1, <2>2 DEF EntryWhole
<1>5. \A f \in Files \ patch[p].paths : u[f] = t[f]
  <2>1. Plans(p) \in SUBSET DOMAIN buf[p] /\ PutsBack(Outcome(p), p, Plans(p))
    BY <1>0, <1>1, OutcomeFacts, OutcomePutsBack
  <2> QED
    BY <1>2, <2>1 DEF PutsBack
<1>6. \A f \in Files : t[f] = Applied(u, p)[f]
  BY <1>4, <1>5 DEF Applied, Edits
<1>7. t = Applied(u, p)
  BY <1>6 DEF Applied, Trees
<1> QED
  BY <1>1, <1>4, <1>7 DEF Takes, CanEdit, IsClean

LEMMA InOrderStep == HandoffInv /\ Whole /\ InOrder /\ [Next]_vars => InOrder'
<1> SUFFICES ASSUME HandoffInv, Whole, InOrder, [Next]_vars, ~dry', torn' = {},
                    pc' \notin {"threw", "crashed"}, AllOk',
                    NEW t \in Trees, IsClean(t)'
             PROVE  \E g : Chain(g, t)'
  BY DEF InOrder
<1>0. TypeInv /\ results \in Seq(Results) /\ Len(results) \in Nat /\ DOMAIN results = 1 .. Len(results)
  BY DEF HandoffInv, TypeInv
<1>1. CASE Begins
  <2> DEFINE g == [i \in {0} |-> t]
  <2>1. results' = <<>> /\ Len(results') = 0 /\ 1 .. Len(results') = {} 
    BY <1>1 DEF Begins
  <2>a. t = base'
    <3>1. \A f \in Files : t[f] = base'[f]
      BY <1>1 DEF Begins, IsClean
    <3>2. base' \in Trees
      BY <1>0, TypeStep DEF HandoffInv, TypeInv, TypeOK, Trees
    <3> QED
      BY <3>1, <3>2 DEF Trees
  <2>2. g[0] = t
    OBVIOUS
  <2> HIDE DEF g
  <2>3. Chain(g, t)'
    BY <2>1, <2>a, <2>2 DEF Chain
  <2> QED
    BY <2>3
<1>2. CASE Quiet
  <2>1. SameRun /\ UNCHANGED results /\ IsClean(t)
    <3>1. Spoiled' = {}
      BY DEF Spoiled
    <3> QED
      BY <1>2, <3>1 DEF Quiet, IsClean
  <2>2. AllOk
    BY <2>1 DEF AllOk
  <2>3. PICK g : Chain(g, t)
    <3>1. torn = {} /\ pc \notin {"threw", "crashed"} /\ ~dry
      BY <2>1 DEF SameRun
    <3> QED
      BY <2>1, <2>2, <3>1 DEF InOrder
  <2>4. Chain(g, t)'
    BY <2>1, <2>3, TakesSame DEF Chain, SameRun
  <2> QED
    BY <2>4
<1>3. ASSUME NEW r \in Results, results' = Append(results, r)
      PROVE  /\ DOMAIN results' = 1 .. Len(results) + 1 /\ Len(results') = Len(results) + 1
             /\ (\A i \in 1 .. Len(results) : results'[i] = results[i]) /\ results'[Len(results) + 1] = r
  BY <1>0, <1>3, AppendTypes
<1>4. ASSUME NEW p \in Patches, Fails(p) PROVE FALSE
  <2> DEFINE r == Outcome(p)
  <2>1. r \in Results /\ ~r.ok
    BY <1>0, <1>4, OutcomeFacts DEF Fails
  <2>2. results' = Append(results, r)
    BY <1>4 DEF Fails
  <2> HIDE DEF r
  <2>3. Len(results) + 1 \in DOMAIN results' /\ results'[Len(results) + 1] = r
    BY <1>0, <1>3, <2>1, <2>2
  <2> QED
    BY <2>1, <2>3 DEF AllOk
<1>5. ASSUME NEW p \in Patches, Writes(p) PROVE \E g : Chain(g, t)'
  <2> DEFINE r == Outcome(p)
             u == Undone(t, r)
             n == Len(results)
  <2>1. at[p] = "ok" /\ ~dry /\ torn = {} /\ pc \notin {"threw", "crashed"}
    BY <1>5 DEF Writes, SameRun
  <2>2. r \in Results /\ r.entry = p
    BY <1>0, OutcomeFacts
  <2>3. u \in Trees
    BY <1>0, <2>1, OutcomePutsBack DEF PutsBack
  <2>4. IsClean(u) /\ Takes(u, t, p)
    BY <1>5, <2>1, <2>3, WritesTake
  <2>5. SameRun /\ results' = Append(results, r)
    BY <1>5 DEF Writes
  <2> HIDE DEF r, u
  <2>6. /\ DOMAIN results' = 1 .. n + 1 /\ Len(results') = n + 1
        /\ (\A i \in 1 .. n : results'[i] = results[i]) /\ results'[n + 1] = r
    BY <1>3, <2>2, <2>5
  <2>7. AllOk
    BY <1>0, <2>6 DEF AllOk
  <2>8. PICK g : Chain(g, u)
    BY <2>1, <2>3, <2>4, <2>7 DEF InOrder
  <2>9. n \in Nat
    BY <1>0
  <2>10. PICK k : k[0] = base /\ k[n] = u /\ k[n + 1] = t /\ \A i \in 1 .. n : k[i] = g[i] /\ k[i - 1] = g[i - 1]
    <3> DEFINE h == [i \in 0 .. n + 1 |-> IF i <= n THEN g[i] ELSE t]
    <3>1. h[0] = g[0] /\ h[n] = g[n] /\ h[n + 1] = t
      BY <2>9
    <3>2. \A i \in 1 .. n : h[i] = g[i] /\ h[i - 1] = g[i - 1]
      BY <2>9
    <3>3. g[0] = base /\ g[n] = u
      BY <2>8 DEF Chain
    <3> HIDE DEF h
    <3> QED
      BY <3>1, <3>2, <3>3
  <2> HIDE DEF n
  <2>11. ASSUME NEW i \in 1 .. Len(results'), NEW q \in Patches, results'[i].entry = q
         PROVE  Takes(k[i - 1], k[i], q)'
    <3>0. UNCHANGED patch
      BY <2>5 DEF SameRun
    <3>1. CASE i \in 1 .. n
      <4>1. Takes(g[i - 1], g[i], q)
        BY <2>6, <2>8, <2>11, <3>1 DEF Chain, n
      <4>2. Takes(k[i - 1], k[i], q)
        BY <2>10, <3>1, <4>1
      <4> QED
        BY <3>0, <4>2, TakesSame
    <3>2. CASE i = n + 1
      <4>1. q = p /\ i - 1 = n
        BY <2>2, <2>6, <2>9, <2>11, <3>2
      <4>2. Takes(k[i - 1], k[i], q)
        BY <2>4, <2>10, <3>2, <4>1
      <4> QED
        BY <3>0, <4>2, TakesSame
    <3>3. i \in 1 .. n \/ i = n + 1
      BY <2>6, <2>9
    <3> QED
      BY <3>1, <3>2, <3>3
  <2>12. base' = base
    BY <2>5 DEF SameRun
  <2>13. Chain(k, t)'
    BY <2>6, <2>10, <2>11, <2>12 DEF Chain
  <2> QED
    BY <2>13
<1> QED
  BY <1>1, <1>2, <1>4, <1>5, CleanSteps DEF TreeStep

-----------------------------------------------------------------------------

\* The function that Possible(s, b) follows.
Follows(h, b, s) == h = [i \in 0 .. Len(s) |-> IF i = 0 THEN b ELSE Applied(h[i - 1], s[i])]

LEMMA ChainPossible ==
  ASSUME NEW s \in Seq(Patches), NEW g, NEW b, g[0] = b, g[Len(s)] = files,
         \A i \in 1 .. Len(s) : Takes(g[i - 1], g[i], s[i])
  PROVE  Possible(s, b)
<1> DEFINE h == [i \in 0 .. Len(s) |-> g[i]]
           trees == CHOOSE k : Follows(k, b, s)
           Apart == {i \in 0 .. Len(s) : trees[i] # g[i]}
<1>0. Len(s) \in Nat /\ DOMAIN s = 1 .. Len(s)
  OBVIOUS
<1>1. Follows(h, b, s)
  <2>1. ASSUME NEW i \in 0 .. Len(s) PROVE h[i] = IF i = 0 THEN b ELSE Applied(h[i - 1], s[i])
    <3>1. CASE i = 0
      BY <3>1
    <3>2. CASE i # 0
      <4>1. i \in 1 .. Len(s) /\ i - 1 \in 0 .. Len(s)
        BY <1>0, <3>2
      <4>2. h[i] = g[i] /\ h[i - 1] = g[i - 1]
        BY <4>1
      <4>3. g[i] = Applied(g[i - 1], s[i])
        BY <4>1 DEF Takes
      <4> QED
        BY <3>2, <4>2, <4>3
    <3> QED
      BY <3>1, <3>2
  <2> QED
    BY <2>1 DEF Follows
<1> HIDE DEF h
<1>2. Follows(trees, b, s)
  BY <1>1
<1>3. Possible(s, b) <=>
        /\ \A i \in DOMAIN s : \A f \in patch[s[i]].paths : Applicable(trees[i - 1][f], s[i])
        /\ trees[Len(s)] = files
  BY DEF Possible, Follows
<1> HIDE DEF trees
<1>4. trees[0] = b /\ \A i \in 1 .. Len(s) : trees[i] = Applied(trees[i - 1], s[i])
  <2>1. \A i \in 0 .. Len(s) : trees[i] = IF i = 0 THEN b ELSE Applied(trees[i - 1], s[i])
    BY <1>2 DEF Follows
  <2>2. 0 \in 0 .. Len(s) /\ \A i \in 1 .. Len(s) : i \in 0 .. Len(s) /\ i # 0
    BY <1>0
  <2> QED
    BY <2>1, <2>2, Zenon
<1>5. Apart = {}
  <2> SUFFICES ASSUME Apart # {} PROVE FALSE
    OBVIOUS
  <2>0. Apart \subseteq Nat
    OBVIOUS
  <2> HIDE DEF Apart
  <2>1. PICK i \in Apart : \A m \in Apart : i <= m
    BY <2>0, LeastExists
  <2> USE DEF Apart
  <2>2. i \in 0 .. Len(s) /\ trees[i] # g[i]
    BY <2>1
  <2>3. i # 0
    BY <1>4, <2>2
  <2>4. i \in 1 .. Len(s) /\ i - 1 \in 0 .. Len(s) /\ ~(i <= i - 1)
    BY <1>0, <2>2, <2>3
  <2>5. trees[i - 1] = g[i - 1]
    BY <2>1, <2>4
  <2>6. g[i] = Applied(g[i - 1], s[i])
    BY <2>4 DEF Takes
  <2> QED
    BY <1>4, <2>2, <2>4, <2>5, <2>6
<1>6. \A i \in 0 .. Len(s) : trees[i] = g[i]
  BY <1>5
<1>7. ASSUME NEW i \in DOMAIN s, NEW f \in patch[s[i]].paths PROVE Applicable(trees[i - 1][f], s[i])
  <2>1. i \in 1 .. Len(s) /\ i - 1 \in 0 .. Len(s)
    BY <1>0
  <2>2. trees[i - 1] = g[i - 1] /\ Applicable(g[i - 1][f], s[i])
    BY <1>6, <2>1 DEF Takes
  <2> QED
    BY <2>2
<1>8. trees[Len(s)] = files
  BY <1>0, <1>6
<1> QED
  BY <1>3, <1>7, <1>8

\* A report that is ok is true of the tree: it is what the entries make of it, each
\* applied whole and once, in the order of their results; the exception is an entry in
\* two serial groups, which is applied twice (OkMeansSerial).
THEOREM OkIsSerial == Spec => []OkMeansSerial
<1> DEFINE Inv == HandoffInv /\ Whole /\ Told /\ InOrder
<1>1. Init => Whole /\ Told /\ InOrder
  BY WholeInit, ToldInit, InOrderInit
<1>2. HandoffInv /\ Whole /\ Told /\ InOrder /\ [Next]_vars => Whole' /\ Told' /\ InOrder'
  BY WholeStep, ToldStep, InOrderStep
<1>3. Inv => OkMeansSerial
  <2> SUFFICES ASSUME Inv, report = "ok", ~dry, ~AppliedTwice PROVE \E s \in Orders : Possible(s, base)
    BY DEF OkMeansSerial
  <2> DEFINE n == Len(results)
             s == [i \in 1 .. n |-> results[i].entry]
  <2>0. TypeInv /\ results \in Seq(Results) /\ n \in Nat /\ DOMAIN results = 1 .. n
    BY DEF HandoffInv, TypeInv
  <2>1. pc = "done" /\ AllOk /\ torn = {} /\ \A p \in Patches : HasResult(p)
    <3>1. pc = "done" /\ AllOk /\ \A p \in Patches : HasResult(p)
      BY DEF Told
    <3>2. \A p \in Patches : at[p] # "throw"
      BY <3>1 DEF HandoffInv, Locks, EntryLocks, Running
    <3> QED
      BY <3>1, <3>2 DEF Told
  <2>2. files \in Trees /\ IsClean(files)
    BY <2>1 DEF HandoffInv, TypeInv, TypeOK, Trees, IsClean, CleanAt, Unrecorded, Locks, EntryLocks,
                   Running
  <2>3. PICK g : Chain(g, files)
    BY <2>1, <2>2 DEF InOrder
  <2>4. s \in [1 .. n -> Patches]
    BY <2>0, EntryTypes
  <2>5. \A p \in Patches : \E i \in 1 .. n : s[i] = p
    BY <2>0, <2>1 DEF HasResult
  <2>6. \A i, j \in 1 .. n : s[i] = s[j] => i = j
    BY <2>0, <2>1 DEF AppliedTwice, AllOk
  <2> HIDE DEF s
  <2>7. n = NumPatches
    <3>1. s \in Surjection(1 .. n, Patches) /\ s \in Injection(1 .. n, Patches)
      BY <2>4, <2>5, <2>6 DEF Surjection, Injection, IsInjective
    <3>2. IsFiniteSet(1 .. n) /\ Cardinality(1 .. n) = n
      BY <2>0, FS_Interval
    <3>3. Cardinality(Patches) = NumPatches
      BY PatchHandoffAssumption, FS_Interval DEF Patches
    <3>4. Cardinality(Patches) = Cardinality(1 .. n)
      BY <3>1, <3>2, FS_Surjection
    <3> QED
      BY <3>2, <3>3, <3>4
  <2>8. s \in Orders
    BY <2>4, <2>6, <2>7 DEF Orders, Patches
  <2>9. s \in Seq(Patches) /\ Len(s) = n
    BY <2>0, <2>4, SeqDef
  <2>10. \A i \in 1 .. n : Takes(g[i - 1], g[i], s[i])
    BY <2>3, <2>4 DEF Chain, s
  <2>11. g[0] = base /\ g[n] = files
    BY <2>3 DEF Chain
  <2>12. Possible(s, base)
    BY <2>9, <2>10, <2>11, ChainPossible
  <2> QED
    BY <2>8, <2>12
<1> QED
  BY <1>1, <1>2, <1>3, HandoffInvHolds, PTL DEF Spec
=============================================================================
