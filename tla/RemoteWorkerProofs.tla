------------------------- MODULE RemoteWorkerProofs -------------------------
(***************************************************************************)
(* For any number of workers and commands, any capacity of the ledger and  *)
(* of the journal, and every interleaving of re-sends, lost connections,   *)
(* failures and crashes: what the command ledger promises.                 *)
(***************************************************************************)
EXTENDS RemoteWorker, SequenceTheorems, FiniteSetTheorems, TLAPS

\* A worker that has begun a line knows the envelope.
CurReal == \A w \in Workers : pc[w] # "idle" => cur[w] \in Commands

Typed == TypeOK /\ CurReal

-----------------------------------------------------------------------------
(* boundedCommandEntries *)

LEMMA KeptEntries ==
  ASSUME NEW l \in [Commands -> Entries]
  PROVE  /\ \A c \in Commands : l[c].status = "inflight" => c \in Kept(l)
         /\ \A c \in Kept(l) : c \in Commands /\ l[c].status # "absent"
  BY DEF Kept, WithStatus

LEMMA BoundedType ==
  ASSUME NEW l \in [Commands -> Entries]
  PROVE  /\ BoundedEntries(l) \in [Commands -> Entries]
         /\ \A c \in Commands : BoundedEntries(l)[c] = IF c \in Kept(l) THEN l[c] ELSE Absent
  BY DEF BoundedEntries, Absent, Entries, NoReceipt

LEMMA AppendedType ==
  ASSUME TypeOK, NEW c \in Commands
  PROVE  /\ Appended(c) \in [Commands -> Entries]
         /\ Appended(c)[c].status = "inflight" /\ Appended(c)[c].receipt = NoReceipt
         /\ \A d \in Commands \ {c} : Appended(c)[d] = ledger[d]
<1> DEFINE e == [status |-> "inflight", receipt |-> NoReceipt, at |-> claims + 1]
<1>1. e \in Entries
  BY DEF TypeOK, Entries
<1> QED
  BY <1>1 DEF TypeOK, Appended

\* What a claim does to the ledger and to its history.
LEMMA ClaimFacts ==
  ASSUME Typed, NEW w \in Workers, Claim(w)
  PROVE  /\ cur[w] \in Commands /\ ledger[cur[w]].status = "absent"
         /\ ledger' \in [Commands -> Entries]
         /\ ledger'[cur[w]].status = "inflight" /\ ledger'[cur[w]].receipt = NoReceipt
         /\ \A d \in Commands \ {cur[w]} :
                \/ /\ ledger'[d] = ledger[d] \/ (ledger[d].status = "absent" /\ ledger'[d] = Absent)
                   /\ (d \in applied' <=> d \in applied) /\ (d \in evicted' <=> d \in evicted)
                \/ /\ ledger[d].status = "completed" /\ ledger'[d] = Absent
                   /\ d \notin applied' /\ d \in evicted'
         /\ cur[w] \in applied' <=> cur[w] \in applied
         /\ evicted \subseteq evicted' /\ evicted' \subseteq Commands
         /\ applied' \subseteq Commands
<1> DEFINE c == cur[w]
           l == Appended(c)
           dropped == Present(l) \ Kept(l)
<1>1. c \in Commands
  BY DEF Typed, CurReal, Claim
<1>2. ledger[c].status = "absent"
  BY <1>1 DEF Claim, Known, SameKey, Present, Typed, TypeOK
<1>3. l \in [Commands -> Entries] /\ l[c].status = "inflight" /\ l[c].receipt = NoReceipt
      /\ \A d \in Commands \ {c} : l[d] = ledger[d]
  BY <1>1, AppendedType DEF Typed
<1>4. c \in Kept(l)
  BY <1>1, <1>3, KeptEntries
<1>5. ledger' = BoundedEntries(l) /\ evicted' = evicted \cup dropped /\ applied' = applied \ dropped
  BY DEF Claim
<1>6. \A d \in Commands : ledger'[d] = IF d \in Kept(l) THEN l[d] ELSE Absent
  BY <1>3, <1>5, BoundedType
<1>7. \A d \in Commands : d \in dropped <=> d \notin Kept(l) /\ l[d].status # "absent"
  BY <1>3 DEF Present
<1>8. dropped \subseteq Commands
  BY <1>3 DEF Present
<1>9. ASSUME NEW d \in Commands \ {c}
      PROVE  \/ /\ ledger'[d] = ledger[d] \/ (ledger[d].status = "absent" /\ ledger'[d] = Absent)
                /\ (d \in applied' <=> d \in applied) /\ (d \in evicted' <=> d \in evicted)
             \/ /\ ledger[d].status = "completed" /\ ledger'[d] = Absent
                /\ d \notin applied' /\ d \in evicted'
  <2>1. CASE d \in Kept(l)
    BY <2>1, <1>3, <1>5, <1>6, <1>7
  <2>2. CASE d \notin Kept(l) /\ l[d].status = "absent"
    <3>1. ledger[d] \in Entries /\ ledger[d].status = "absent"
      BY <2>2, <1>3 DEF Typed, TypeOK
    <3> QED
      BY <2>2, <3>1, <1>3, <1>5, <1>6, <1>7
  <2>3. CASE d \notin Kept(l) /\ l[d].status # "absent"
    <3>1. l[d].status = "completed"
      BY <2>3, <1>3, KeptEntries DEF Entries
    <3> QED
      BY <2>3, <3>1, <1>3, <1>5, <1>6, <1>7
  <2> QED
    BY <2>1, <2>2, <2>3
<1>10. ledger' \in [Commands -> Entries]
  BY <1>3, <1>5, BoundedType
<1>11. c \in applied' <=> c \in applied
  BY <1>1, <1>4, <1>5, <1>7
<1>12. evicted' \subseteq Commands /\ applied' \subseteq Commands
  BY <1>5, <1>8 DEF Typed, TypeOK
<1> QED
  BY <1>1, <1>2, <1>3, <1>4, <1>5, <1>6, <1>9, <1>10, <1>11, <1>12

-----------------------------------------------------------------------------
(* Types *)

LEMMA TypeInit == Init => Typed
  BY RemoteWorkerAssumption
  DEF Init, Typed, TypeOK, CurReal, Entries, Absent, NoReceipt, ConnStates, PCs, Receipts

\* The lines that survive the end of a connection.
LEMMA PrefixType ==
  ASSUME TypeOK, NEW w \in Workers, NEW k \in 0..Len(queue[w])
  PROVE  SubSeq(queue[w], 1, k) \in Seq(Commands)
<1>1. queue[w] \in Seq(Commands)
  BY DEF TypeOK
<1>2. \A i \in 1..k : i \in 1..Len(queue[w])
  BY <1>1
<1> QED
  BY <1>1, <1>2, SubSeqProperties

\* executeCommand: a definite receipt says whether the effect took place.
LEMMA OutcomeFacts ==
  ASSUME NEW c, NEW o \in Outcomes(c)
  PROVE  o[1] \in Receipts /\ (o[1] = "true" => o[2]) /\ (o[1] = "false" => ~o[2])
<1>1. CASE c \in Effectful
  <2>1. CASE o = <<"true", TRUE>>
    BY <2>1, Zenon DEF Receipts
  <2>2. CASE o = <<"false", FALSE>>
    BY <2>2, Zenon DEF Receipts
  <2>3. CASE o = <<"unknown", TRUE>>
    BY <2>3, Zenon DEF Receipts
  <2>4. CASE o = <<"unknown", FALSE>>
    BY <2>4, Zenon DEF Receipts
  <2> QED
    BY <1>1, <2>1, <2>2, <2>3, <2>4 DEF Outcomes
<1>2. CASE c \notin Effectful
  <2>1. CASE o = <<"false", FALSE>>
    BY <2>1, Zenon DEF Receipts
  <2>2. CASE o = <<"unknown", FALSE>>
    BY <2>2, Zenon DEF Receipts
  <2> QED
    BY <1>2, <2>1, <2>2, Zenon DEF Outcomes
<1> QED
  BY <1>1, <1>2

\* complete: the entry keeps its place and gets the receipt.
LEMMA CompleteFacts ==
  ASSUME Typed, NEW w \in Workers, Complete(w)
  PROVE  /\ cur[w] \in Commands /\ ledger' \in [Commands -> Entries]
         /\ ledger'[cur[w]].status = "completed" /\ ledger'[cur[w]].receipt = resp[w]
         /\ \A d \in Commands \ {cur[w]} : ledger'[d] = ledger[d]
<1> DEFINE e == [ledger[cur[w]] EXCEPT !.status = "completed", !.receipt = resp[w]]
<1>1. cur[w] \in Commands /\ resp[w] \in Receipts \cup {NoReceipt}
  BY DEF Complete, Typed, TypeOK, CurReal
<1>2. ledger[cur[w]] \in Entries
  BY <1>1 DEF Typed, TypeOK
<1>3. e \in Entries /\ e.status = "completed" /\ e.receipt = resp[w]
  BY <1>1, <1>2 DEF Entries
<1>4. ledger' = [ledger EXCEPT ![cur[w]] = e]
  BY <1>1, <1>2 DEF Complete, Typed, TypeOK, Entries
<1> QED
  BY <1>1, <1>3, <1>4 DEF Typed, TypeOK

LEMMA FirstType == TypeOK => First \in Nat /\ First >= 1
  BY RemoteWorkerAssumption DEF TypeOK, First

LEMMA TypeStep == Typed /\ [Next]_vars => Typed'
<1> SUFFICES ASSUME Typed, [Next]_vars PROVE Typed'
  OBVIOUS
<1> USE DEF Typed, CurReal, ledgerVars, journalVars, workerVars, clientVars, PCs, ConnStates
<1>1. ASSUME NEW w \in Workers, Connect(w) PROVE Typed'
  BY <1>1 DEF TypeOK, Connect
<1>2. ASSUME NEW w \in Workers, NEW c \in Commands, Send(w, c) PROVE Typed'
  <2>1. Append(queue[w], c) \in Seq(Commands)
    BY DEF TypeOK
  <2> QED
    BY <1>2, <2>1 DEF TypeOK, Send
<1>3. ASSUME NEW w \in Workers, Disconnect(w) PROVE Typed'
  <2>1. queue' \in [Workers -> Seq(Commands)]
    BY <1>3, PrefixType DEF Disconnect, TypeOK
  <2> QED
    BY <1>3, <2>1 DEF TypeOK, Disconnect, RejectPending
<1>4. ASSUME NEW w \in Workers, Crash(w) PROVE Typed'
  <2>1. <<>> \in Seq(Commands)
    OBVIOUS
  <2> QED
    BY <1>4, <2>1 DEF TypeOK, Crash, RejectPending, NoReceipt
<1>5. ASSUME NEW w \in Workers, Begin(w) PROVE Typed'
  <2>1. queue[w] \in Seq(Commands) /\ queue[w] # <<>>
    BY <1>5 DEF TypeOK, Begin
  <2>2. Head(queue[w]) \in Commands /\ Tail(queue[w]) \in Seq(Commands)
    BY <2>1
  <2> QED
    BY <1>5, <2>2 DEF TypeOK, Begin
<1>6. ASSUME NEW w \in Workers, Refuse(w) PROVE Typed'
  <2>1. queue[w] \in Seq(Commands) /\ queue[w] # <<>>
    BY <1>6 DEF TypeOK, Refuse
  <2>2. Tail(queue[w]) \in Seq(Commands)
    BY <2>1
  <2> QED
    BY <1>6, <2>2 DEF TypeOK, Refuse
<1>7. ASSUME NEW w \in Workers, Claim(w) PROVE Typed'
  <2>1. ledger' \in [Commands -> Entries] /\ evicted' \subseteq Commands /\ applied' \subseteq Commands
    BY <1>7, ClaimFacts
  <2>2. /\ claims' = claims + 1 /\ pc' = [pc EXCEPT ![w] = "execute"] /\ pc[w] = "claim"
        /\ UNCHANGED <<effects, cur, resp, journalVars, clientVars>>
    BY <1>7 DEF Claim
  <2> QED
    BY <2>1, <2>2 DEF TypeOK
<1>8. ASSUME NEW w \in Workers, ClaimKnown(w) PROVE Typed'
  <2>1. ledger[cur[w]].receipt \in Receipts \cup {NoReceipt}
    BY <1>8 DEF ClaimKnown, TypeOK, Entries
  <2> QED
    BY <1>8, <2>1 DEF TypeOK, ClaimKnown, StoredReceipt
<1>9. ASSUME NEW w \in Workers, ClaimFull(w) \/ HandlerFails(w) PROVE Typed'
  BY <1>9 DEF TypeOK, ClaimFull, HandlerFails
<1>10. ASSUME NEW w \in Workers, Execute(w) PROVE Typed'
  <2>1. PICK o \in Outcomes(cur[w]) : Effect(cur[w], o[2]) /\ resp' = [resp EXCEPT ![w] = o[1]]
    BY <1>10 DEF Execute
  <2>2. o[1] \in Receipts
    BY <2>1, OutcomeFacts
  <2>3. effects' \in [Commands -> Nat] /\ applied' \subseteq Commands
    BY <1>10, <2>1 DEF Effect, TypeOK, Execute
  <2> QED
    BY <1>10, <2>1, <2>2, <2>3 DEF TypeOK, Execute
<1>11. ASSUME NEW w \in Workers, Complete(w) PROVE Typed'
  <2>1. ledger' \in [Commands -> Entries]
    BY <1>11, CompleteFacts
  <2> QED
    BY <1>11, <2>1 DEF TypeOK, Complete
<1>12. ASSUME NEW w \in Workers, AppendEvent(w) PROVE Typed'
  <2>1. Session[cur[w]] \in Sessions
    BY <1>12 DEF AppendEvent, Sessions
  <2>2. Append(log, Session[cur[w]]) \in Seq(Sessions)
    BY <2>1 DEF TypeOK
  <2> QED
    BY <1>12, <2>2 DEF TypeOK, AppendEvent
<1>13. ASSUME NEW w \in Workers, Respond(w) PROVE Typed'
  <2>1. cur[w] \in Commands
    BY <1>13 DEF Respond
  <2> DEFINE client == /\ told' \in [Commands -> SUBSET Receipts]
                       /\ queue' \in [Workers -> Seq(Commands)]
                       /\ conn' \in [Workers -> ConnStates]
                       /\ waiting' \in [Workers -> SUBSET Commands]
  <2>2. ASSUME Answer(w) PROVE client
    <3>1. {resp[w]} \ {"unknown"} \subseteq Receipts
      BY <2>2 DEF Answer, TypeOK
    <3> QED
      BY <2>1, <2>2, <3>1 DEF Answer, TypeOK
  <2>3. ASSUME AnswerWithoutReceipt(w) PROVE client
    BY <2>3, PrefixType DEF AnswerWithoutReceipt, RejectPending, TypeOK
  <2>4. ASSUME UNCHANGED <<conn, queue, waiting, told>> PROVE client
    BY <2>4 DEF TypeOK
  <2>5. client
    BY <1>13, <2>2, <2>3, <2>4 DEF Respond
  <2> QED
    BY <1>13, <2>5 DEF TypeOK, Respond
<1>14. ASSUME NEW w \in Workers, Exit(w) PROVE Typed'
  BY <1>14 DEF TypeOK, Exit
<1>15. ASSUME NEW s \in Sessions, Watch(s) PROVE Typed'
  <2>1. Fetched(s) \subseteq Nat
    BY FirstType DEF Fetched, Newer, Journal, TypeOK
  <2>2. after' \in [Sessions -> Nat] /\ seen' \in [Sessions -> SUBSET Nat]
    BY <1>15, <2>1 DEF Watch, TypeOK
  <2> QED
    BY <1>15, <2>2 DEF TypeOK, Watch
<1>16. ASSUME NEW s \in Sessions, WatchGap(s) PROVE Typed'
  <2>1. First - 1 \in Nat
    BY FirstType
  <2> QED
    BY <1>16, <2>1 DEF TypeOK, WatchGap
<1>17. CASE UNCHANGED vars
  BY <1>17 DEF TypeOK, vars
<1> QED
  BY <1>1, <1>2, <1>3, <1>4, <1>5, <1>6, <1>7, <1>8, <1>9, <1>10, <1>11, <1>12, <1>13,
     <1>14, <1>15, <1>16, <1>17 DEF Next, WorkerStep

\* Type correctness of clients, workers, ledger and journal, for every size.
THEOREM TypeCorrect == Spec => []TypeOK
<1>1. Typed => TypeOK
  BY DEF Typed
<1> QED
  BY TypeInit, TypeStep, <1>1, PTL DEF Spec

-----------------------------------------------------------------------------
(* At most one execution per claim                                          *)

\* What makes ClaimHeld inductive: an effect is remembered by a ledger entry,
\* a claim is new when it is executed, and what was never evicted took
\* effect at most once, and is remembered if it did.
Once ==
    /\ ClaimHeld
    /\ \A c \in applied : ledger[c].status # "absent"
    /\ \A w \in Workers : pc[w] = "execute" => cur[w] \notin applied
    /\ \A c \in Commands \ evicted : effects[c] > 0 => c \in applied /\ effects[c] = 1

\* Steps that neither touch the ledger and its history nor put a worker into
\* the execution of a command.
Quiet ==
    /\ UNCHANGED <<ledger, effects, applied, evicted>>
    /\ \A w \in Workers : pc'[w] \in {"execute", "complete"} => pc'[w] = pc[w] /\ cur'[w] = cur[w]

LEMMA QuietSteps ==
  ASSUME Typed, [Next]_vars,
         \A w \in Workers : ~Claim(w) /\ ~Execute(w) /\ ~Complete(w)
  PROVE  Quiet
<1> USE DEF Quiet, ledgerVars, journalVars, workerVars, clientVars
<1>1. pc \in [Workers -> PCs] /\ cur \in [Workers -> Commands \cup {NoCommand}]
  BY DEF Typed, TypeOK
<1>2. ASSUME NEW w \in Workers, Connect(w) \/ Disconnect(w) \/ (\E c \in Commands : Send(w, c)) PROVE Quiet
  BY <1>2 DEF Connect, Disconnect, Send
<1>3. ASSUME NEW w \in Workers, Crash(w) PROVE Quiet
  BY <1>1, <1>3 DEF Crash
<1>4. ASSUME NEW w \in Workers, Begin(w) \/ Refuse(w) \/ Exit(w) PROVE Quiet
  BY <1>1, <1>4 DEF Begin, Refuse, Exit
<1>5. ASSUME NEW w \in Workers, ClaimKnown(w) \/ ClaimFull(w) \/ HandlerFails(w) PROVE Quiet
  BY <1>1, <1>5 DEF ClaimKnown, ClaimFull, HandlerFails
<1>6. ASSUME NEW w \in Workers, AppendEvent(w) \/ Respond(w) PROVE Quiet
  BY <1>1, <1>6 DEF AppendEvent, Respond
<1>7. ASSUME NEW s \in Sessions, Watch(s) \/ WatchGap(s) PROVE Quiet
  BY <1>7 DEF Watch, WatchGap
<1>8. CASE UNCHANGED vars
  BY <1>8 DEF vars
<1> QED
  BY <1>2, <1>3, <1>4, <1>5, <1>6, <1>7, <1>8 DEF Next, WorkerStep

\* An execution: the effect of a command that is held and new, or nothing.
LEMMA ExecuteFacts ==
  ASSUME Typed, Once, NEW w \in Workers, Execute(w)
  PROVE  /\ cur[w] \in Commands /\ ledger[cur[w]].status = "inflight" /\ cur[w] \notin applied
         /\ UNCHANGED <<ledger, evicted, cur, told>> /\ pc' = [pc EXCEPT ![w] = "complete"]
         /\ \/ /\ effects' = [effects EXCEPT ![cur[w]] = @ + 1]
               /\ applied' = applied \cup {cur[w]} /\ resp'[w] # "false"
            \/ UNCHANGED <<effects, applied>> /\ resp'[w] # "true"
         /\ \A v \in Workers \ {w} : resp'[v] = resp[v]
<1>1. PICK o \in Outcomes(cur[w]) : Effect(cur[w], o[2]) /\ resp' = [resp EXCEPT ![w] = o[1]]
  BY DEF Execute
<1>2. resp'[w] = o[1] /\ \A v \in Workers \ {w} : resp'[v] = resp[v]
  BY <1>1 DEF Typed, TypeOK
<1>3. \/ /\ effects' = [effects EXCEPT ![cur[w]] = @ + 1]
         /\ applied' = applied \cup {cur[w]} /\ o[1] # "false"
      \/ UNCHANGED <<effects, applied>> /\ o[1] # "true"
  BY <1>1, OutcomeFacts, Zenon DEF Effect
<1>4. pc[w] = "execute" /\ pc' = [pc EXCEPT ![w] = "complete"] /\ UNCHANGED <<ledger, evicted, cur, told>>
  BY DEF Execute, clientVars
<1>5. cur[w] \in Commands /\ ledger[cur[w]].status = "inflight" /\ cur[w] \notin applied
  BY <1>4 DEF Typed, CurReal, Once, ClaimHeld
<1> QED
  BY <1>2, <1>3, <1>4, <1>5

LEMMA OnceStep ==
  ASSUME Typed, Once, [Next]_vars
  PROVE  Once'
<1>1. ASSUME NEW w \in Workers, Claim(w) PROVE Once'
  <2>1. pc[w] = "claim" /\ pc' = [pc EXCEPT ![w] = "execute"] /\ UNCHANGED <<effects, cur>>
    BY <1>1 DEF Claim
  <2>2. \A v \in Workers \ {w} : pc'[v] = pc[v]
    BY <2>1 DEF Typed, TypeOK
  <2>3. \A v \in Workers \ {w} : pc[v] \in {"execute", "complete"} =>
            /\ cur[v] \in Commands \ {cur[w]} /\ ledger[cur[v]].status = "inflight"
    BY <1>1, ClaimFacts DEF Once, ClaimHeld, Typed, CurReal
  <2>4. ASSUME NEW v \in Workers \ {w}, pc[v] \in {"execute", "complete"}
        PROVE  ledger'[cur[v]].status = "inflight" /\ (cur[v] \in applied' <=> cur[v] \in applied)
    BY <1>1, <2>3, <2>4, ClaimFacts
  <2>5. ClaimHeld'
    BY <1>1, <2>1, <2>2, <2>3, <2>4, ClaimFacts DEF Once, ClaimHeld
  <2>6. \A c \in applied' : ledger'[c].status # "absent"
    BY <1>1, ClaimFacts DEF Once
  <2>7. cur[w] \notin applied'
    BY <1>1, ClaimFacts DEF Once
  <2>8. \A v \in Workers : pc'[v] = "execute" => cur[v] \notin applied'
    BY <2>2, <2>4, <2>7 DEF Once
  <2>9. \A c \in Commands \ evicted' : effects[c] > 0 => c \in applied' /\ effects[c] = 1
    BY <1>1, ClaimFacts DEF Once
  <2> QED
    BY <2>1, <2>5, <2>6, <2>8, <2>9 DEF Once
<1>2. ASSUME NEW w \in Workers, Execute(w) PROVE Once'
  <2>1. \A v \in Workers \ {w} : pc'[v] = pc[v]
    BY <1>2 DEF Execute, Typed, TypeOK
  <2>2. pc[w] = "execute" /\ pc'[w] = "complete"
    BY <1>2 DEF Execute, Typed, TypeOK
  <2>3. ClaimHeld'
    BY <1>2, <2>1, <2>2, ExecuteFacts DEF Once, ClaimHeld
  <2>4. \A v \in Workers : pc'[v] = "execute" => v # w /\ cur[v] # cur[w]
    BY <2>1, <2>2 DEF Once, ClaimHeld
  <2>5. effects \in [Commands -> Nat]
    BY DEF Typed, TypeOK
  <2>6. \A c \in Commands \ evicted : effects'[c] > 0 => c \in applied' /\ effects'[c] = 1
    BY <1>2, <2>5, ExecuteFacts DEF Once
  <2> QED
    BY <1>2, <2>1, <2>3, <2>4, <2>6, ExecuteFacts DEF Once
<1>3. ASSUME NEW w \in Workers, Complete(w) PROVE Once'
  <2>1. /\ pc[w] = "complete" /\ pc' = [pc EXCEPT ![w] = "event"]
        /\ UNCHANGED <<applied, evicted, effects, cur>>
    BY <1>3 DEF Complete
  <2>2. pc'[w] = "event" /\ \A v \in Workers \ {w} : pc'[v] = pc[v]
    BY <2>1 DEF Typed, TypeOK
  <2>3. \A v \in Workers \ {w} : pc[v] \in {"execute", "complete"} =>
            cur[v] \in Commands \ {cur[w]}
    BY <2>1 DEF Once, ClaimHeld, Typed, CurReal
  <2>4. ClaimHeld'
    BY <1>3, <2>1, <2>2, <2>3, CompleteFacts DEF Once, ClaimHeld
  <2>5. \A c \in applied : ledger'[c].status # "absent"
    BY <1>3, CompleteFacts DEF Once, Typed, TypeOK
  <2> QED
    BY <2>1, <2>2, <2>4, <2>5 DEF Once
<1>4. CASE Quiet
  BY <1>4 DEF Quiet, Once, ClaimHeld
<1> QED
  BY <1>1, <1>2, <1>3, <1>4, QuietSteps

LEMMA OnceInit == Init => Once
  BY DEF Init, Once, ClaimHeld

LEMMA OnceHolds == Spec => [](Typed /\ Once)
<1>1. Typed /\ Once /\ [Next]_vars => (Typed /\ Once)'
  BY TypeStep, OnceStep
<1> QED
  BY TypeInit, OnceInit, <1>1, PTL DEF Spec

\* While a worker executes a command its claim is in the ledger, whatever
\* other workers claim, complete and evict meanwhile.
THEOREM LedgerSafe == Spec => []LedgerInvariant
<1>1. Typed /\ Once => LedgerInvariant
  BY DEF Typed, Once, LedgerInvariant
<1> QED
  BY OnceHolds, <1>1, PTL

\* A side effect happens twice only if the full ledger dropped its entry.
THEOREM RepeatsNeedEviction == Spec => []RepeatedOnlyIfEvicted
<1>1. ASSUME Typed, Once, NEW c \in Commands, effects[c] > 1, c \notin evicted PROVE FALSE
  <2>1. effects[c] \in Nat
    BY <1>1 DEF Typed, TypeOK
  <2>2. effects[c] > 0 => effects[c] = 1
    BY <1>1 DEF Once
  <2> QED
    BY <1>1, <2>1, <2>2
<1>2. Typed /\ Once => RepeatedOnlyIfEvicted
  BY <1>1 DEF RepeatedOnlyIfEvicted
<1> QED
  BY OnceHolds, <1>2, PTL

-----------------------------------------------------------------------------
(* Honest answers                                                           *)

Definite == {"true", "false"}

\* c has been executed, or will not be, for as long as the ledger knows it.
Spent(c) ==
    /\ ledger[c].status # "absent"
    /\ \A w \in Workers : pc[w] = "execute" => cur[w] # c

\* Somebody says r of c: the owner was told, the ledger has it, or a worker
\* is about to pass it on.
Says(c, r) ==
    \/ r \in told[c]
    \/ ledger[c].receipt = r
    \/ \E w \in Workers : /\ pc[w] \in {"complete", "event", "respond"}
                          /\ cur[w] = c /\ resp[w] = r

Correct(c, r) == (r = "true" => effects[c] = 1) /\ (r = "false" => effects[c] = 0)

Honest ==
    \A c \in Commands \ evicted : \A r \in Definite :
        Says(c, r) => Spent(c) /\ Correct(c, r)

LEMMA EvictedGrows ==
  ASSUME Typed, Once, [Next]_vars
  PROVE  evicted \subseteq evicted'
<1>1. ASSUME NEW w \in Workers, Claim(w) PROVE evicted \subseteq evicted'
  BY <1>1, ClaimFacts
<1>2. ASSUME NEW w \in Workers, Execute(w) \/ Complete(w) PROVE evicted \subseteq evicted'
  BY <1>2 DEF Execute, Complete
<1> QED
  BY <1>1, <1>2, QuietSteps DEF Quiet

\* A command that is spent stays so, and its effects do not change, until it
\* is evicted.
LEMMA SpentStays ==
  ASSUME Typed, Once, [Next]_vars, NEW c \in Commands \ evicted', Spent(c)
  PROVE  Spent(c)' /\ effects'[c] = effects[c]
<1>1. ASSUME NEW w \in Workers, Claim(w) PROVE Spent(c)' /\ effects'[c] = effects[c]
  <2>1. c # cur[w]
    BY <1>1, ClaimFacts DEF Spent
  <2>2. ledger'[c].status # "absent"
    BY <1>1, <2>1, ClaimFacts DEF Spent
  <2>3. UNCHANGED <<cur, effects>> /\ \A v \in Workers \ {w} : pc'[v] = pc[v]
    BY <1>1 DEF Claim, Typed, TypeOK
  <2> QED
    BY <2>1, <2>2, <2>3 DEF Spent
<1>2. ASSUME NEW w \in Workers, Execute(w) PROVE Spent(c)' /\ effects'[c] = effects[c]
  <2>1. c # cur[w]
    BY <1>2 DEF Execute, Spent
  <2>2. pc'[w] = "complete" /\ \A v \in Workers \ {w} : pc'[v] = pc[v]
    BY <1>2 DEF Execute, Typed, TypeOK
  <2>3. effects'[c] = effects[c]
    BY <1>2, <2>1, ExecuteFacts DEF Typed, TypeOK
  <2> QED
    BY <1>2, <2>2, <2>3, ExecuteFacts DEF Spent
<1>3. ASSUME NEW w \in Workers, Complete(w) PROVE Spent(c)' /\ effects'[c] = effects[c]
  <2>1. ledger'[c].status # "absent"
    BY <1>3, CompleteFacts DEF Spent
  <2>2. /\ pc'[w] = "event" /\ (\A v \in Workers \ {w} : pc'[v] = pc[v])
        /\ UNCHANGED <<cur, effects>>
    BY <1>3 DEF Complete, Typed, TypeOK
  <2> QED
    BY <2>1, <2>2 DEF Spent
<1>4. CASE Quiet
  BY <1>4 DEF Quiet, Spent
<1> QED
  BY <1>1, <1>2, <1>3, <1>4, QuietSteps

\* Only an execution says anything new.
LEMMA NothingNewSaid ==
  ASSUME Typed, [Next]_vars, \A w \in Workers : ~Execute(w),
         NEW c \in Commands, NEW r \in Definite, Says(c, r)'
  PROVE  Says(c, r)
<1> USE DEF Says, Definite, ledgerVars, journalVars, workerVars, clientVars
<1>t. /\ pc \in [Workers -> PCs] /\ cur \in [Workers -> Commands \cup {NoCommand}]
      /\ resp \in [Workers -> Receipts \cup {NoReceipt}]
  BY DEF Typed, TypeOK
<1>n. r # NoReceipt /\ r # "unknown"
  BY DEF NoReceipt
<1>1. ASSUME NEW w \in Workers, Claim(w) PROVE Says(c, r)
  <2>1. ledger'[c].receipt = r => ledger[c].receipt = r
    BY <1>1, <1>n, ClaimFacts DEF Absent
  <2>2. pc' = [pc EXCEPT ![w] = "execute"] /\ UNCHANGED <<cur, resp, told>>
    BY <1>1 DEF Claim
  <2> QED
    BY <1>t, <2>1, <2>2
<1>2. ASSUME NEW w \in Workers, Complete(w) PROVE Says(c, r)
  <2>1. /\ pc[w] = "complete" /\ pc' = [pc EXCEPT ![w] = "event"]
        /\ UNCHANGED <<cur, resp, told>>
    BY <1>2 DEF Complete
  <2>2. ledger'[c].receipt = r => ledger[c].receipt = r \/ (cur[w] = c /\ resp[w] = r)
    BY <1>2, CompleteFacts
  <2> QED
    BY <1>t, <2>1, <2>2
<1>3. ASSUME NEW w \in Workers, Connect(w) \/ Disconnect(w) \/ (\E d \in Commands : Send(w, d))
      PROVE  Says(c, r)
  BY <1>3 DEF Connect, Disconnect, Send
<1>4. ASSUME NEW w \in Workers, Crash(w) PROVE Says(c, r)
  BY <1>t, <1>4 DEF Crash
<1>5. ASSUME NEW w \in Workers, Begin(w) \/ Refuse(w) \/ Exit(w) PROVE Says(c, r)
  BY <1>t, <1>5 DEF Begin, Refuse, Exit
<1>6. ASSUME NEW w \in Workers, ClaimKnown(w) PROVE Says(c, r)
  BY <1>t, <1>6 DEF ClaimKnown, StoredReceipt
<1>7. ASSUME NEW w \in Workers, ClaimFull(w) \/ HandlerFails(w) PROVE Says(c, r)
  BY <1>t, <1>n, <1>7 DEF ClaimFull, HandlerFails
<1>8. ASSUME NEW w \in Workers, AppendEvent(w) PROVE Says(c, r)
  BY <1>t, <1>8 DEF AppendEvent
<1>9. ASSUME NEW w \in Workers, Respond(w) PROVE Says(c, r)
  <2>1. /\ pc[w] = "respond" /\ pc' = [pc EXCEPT ![w] = "idle"] /\ UNCHANGED ledger
        /\ cur' = [cur EXCEPT ![w] = NoCommand] /\ resp' = [resp EXCEPT ![w] = NoReceipt]
    BY <1>9 DEF Respond
  <2>2. r \in told'[c] => r \in told[c] \/ (cur[w] = c /\ resp[w] = r)
    <3>1. CASE Answer(w)
      BY <3>1 DEF Answer, Typed, TypeOK
    <3>2. CASE UNCHANGED told
      BY <3>2
    <3> QED
      BY <1>9, <3>1, <3>2 DEF Respond, AnswerWithoutReceipt
  <2> QED
    BY <1>t, <2>1, <2>2
<1>10. ASSUME NEW s \in Sessions, Watch(s) \/ WatchGap(s) PROVE Says(c, r)
  BY <1>10 DEF Watch, WatchGap
<1>11. CASE UNCHANGED vars
  BY <1>11 DEF vars
<1> QED
  BY <1>1, <1>2, <1>3, <1>4, <1>5, <1>6, <1>7, <1>8, <1>9, <1>10, <1>11 DEF Next, WorkerStep

LEMMA HonestStep ==
  ASSUME Typed, Once, Honest, [Next]_vars
  PROVE  Honest'
<1> SUFFICES ASSUME NEW c \in Commands \ evicted', NEW r \in Definite, Says(c, r)'
             PROVE  Spent(c)' /\ Correct(c, r)'
  BY DEF Honest
<1>1. c \in Commands \ evicted
  BY EvictedGrows
<1>2. CASE Says(c, r)
  <2>1. Spent(c) /\ Correct(c, r)
    BY <1>1, <1>2 DEF Honest
  <2> QED
    BY <2>1, SpentStays DEF Correct
<1>3. CASE ~Says(c, r)
  <2>1. PICK w \in Workers : Execute(w)
    BY <1>3, NothingNewSaid
  <2>2. pc[w] = "execute" /\ pc'[w] = "complete" /\ \A v \in Workers \ {w} : pc'[v] = pc[v]
    BY <2>1 DEF Execute, Typed, TypeOK
  <2>3. cur[w] = c /\ resp'[w] = r
    BY <1>3, <2>1, <2>2, ExecuteFacts DEF Says
  <2>4. Spent(c)'
    BY <2>1, <2>2, <2>3, ExecuteFacts DEF Spent, Once, ClaimHeld
  <2>5. effects \in [Commands -> Nat]
    BY DEF Typed, TypeOK
  <2>6. effects[c] = 0
    BY <1>1, <2>1, <2>3, <2>5, ExecuteFacts DEF Once
  <2>7. Correct(c, r)'
    BY <1>1, <2>1, <2>3, <2>5, <2>6, ExecuteFacts DEF Correct
  <2> QED
    BY <2>4, <2>7
<1> QED
  BY <1>2, <1>3

LEMMA HonestInit == Init => Honest
  BY DEF Init, Honest, Says, Definite, Absent, NoReceipt

\* No answer the owner gets, first or repeated, over whichever connection, is
\* wrong about the side effect, as long as the ledger has not been forced to
\* forget the command.
THEOREM AnswersHonest == Spec => []HonestAnswers
<1>1. Typed /\ Once /\ Honest /\ [Next]_vars => (Typed /\ Once /\ Honest)'
  BY TypeStep, OnceStep, HonestStep
<1>2. Honest => HonestAnswers
  BY DEF Honest, HonestAnswers, Says, Correct, Definite
<1> QED
  BY TypeInit, OnceInit, HonestInit, <1>1, <1>2, PTL DEF Spec

-----------------------------------------------------------------------------
(* Refinement: the ledger implements RemoteEffects.                         *)

Settled == WithStatus(ledger, "completed")

LEMMA ClaimIsForget ==
  ASSUME Typed, NEW w \in Workers, Claim(w)
  PROVE  Effects!EffectsNext
<1> DEFINE dropped == {d \in Commands : ledger[d].status = "completed" /\ ledger'[d] = Absent}
<1>1. ledger \in [Commands -> Entries] /\ applied \subseteq Commands
  BY DEF Typed, TypeOK
<1>2. Absent.status = "absent"
  BY DEF Absent
<1>3. dropped \subseteq Settled /\ dropped \in SUBSET Commands
  BY <1>1 DEF Settled, WithStatus
<1>4. Settled' = Settled \ dropped
  BY <1>1, <1>2, ClaimFacts DEF Settled, WithStatus
<1>5. applied' = applied \ dropped
  BY <1>1, <1>2, ClaimFacts
<1>6. Effects!Forget(dropped)
  BY <1>3, <1>4, <1>5 DEF Effects!Forget, Settled, Claim
<1> QED
  BY <1>3, <1>6 DEF Effects!EffectsNext

LEMMA EffectsStep ==
  ASSUME Typed, Once, [Next]_vars
  PROVE  Effects!EffectsNext \/ UNCHANGED <<effects, applied, Settled>>
<1>1. ASSUME NEW w \in Workers, Claim(w) PROVE Effects!EffectsNext
  BY <1>1, ClaimIsForget
<1>2. ASSUME NEW w \in Workers, Execute(w)
      PROVE  Effects!EffectsNext \/ UNCHANGED <<effects, applied, Settled>>
  <2>1. cur[w] \notin Settled /\ Settled' = Settled
    BY <1>2, ExecuteFacts DEF Settled, WithStatus
  <2>2. Effects!Apply(cur[w]) \/ UNCHANGED <<effects, applied>>
    BY <1>2, <2>1, ExecuteFacts DEF Effects!Apply, Settled
  <2> QED
    BY <1>2, <2>1, <2>2, ExecuteFacts DEF Effects!EffectsNext
<1>3. ASSUME NEW w \in Workers, Complete(w) PROVE Effects!EffectsNext
  <2>1. UNCHANGED <<effects, applied>> /\ ledger[cur[w]].status = "inflight"
    BY <1>3 DEF Complete, Once, ClaimHeld
  <2>2. cur[w] \notin Settled /\ Settled' = Settled \cup {cur[w]}
    BY <1>3, <2>1, CompleteFacts DEF Settled, WithStatus, Typed, TypeOK
  <2>3. Effects!Settle(cur[w])
    BY <2>1, <2>2 DEF Effects!Settle, Settled
  <2> QED
    BY <1>3, <2>3, CompleteFacts DEF Effects!EffectsNext
<1>4. CASE Quiet
  BY <1>4 DEF Quiet, Settled, WithStatus
<1> QED
  BY <1>1, <1>2, <1>3, <1>4, QuietSteps

\* The worker implements the at-most-once promise: an execution is an effect of
\* a command that is not remembered as applied, storing a receipt settles
\* it, and a claim that overflows the ledger forgets settled commands only.
THEOREM WorkerRefines == Spec => EffectsOncePerClaim
<1>1. Init => Effects!EffectsInit
  BY DEF Init, Effects!EffectsInit, WithStatus, Absent
<1>2. Typed /\ Once /\ [Next]_vars
        => [Effects!EffectsNext]_<<effects, applied, WithStatus(ledger, "completed")>>
  BY EffectsStep DEF Settled
<1> QED
  BY <1>1, <1>2, OnceHolds, PTL DEF Spec, EffectsOncePerClaim, Effects!EffectsSpec

-----------------------------------------------------------------------------
(* Watchers                                                                 *)

\* A cursor never points beyond the journal.
CursorBound == \A s \in Sessions : after[s] <= Len(log)

LEMMA NewerFinite ==
  ASSUME TypeOK, NEW s \in Sessions
  PROVE  IsFiniteSet(Newer(s)) /\ Newer(s) \subseteq Nat
<1>1. First \in Nat /\ Len(log) \in Nat
  BY FirstType DEF TypeOK
<1>2. IsFiniteSet(First..Len(log))
  BY <1>1, FS_Interval
<1>3. Newer(s) \subseteq First..Len(log)
  BY DEF Newer, Journal
<1> QED
  BY <1>1, <1>2, <1>3, FS_Subset

\* The batch is a prefix of what is new.
LEMMA FetchedPrefix ==
  ASSUME TypeOK, NEW s \in Sessions, NEW m \in Fetched(s), NEW n \in Newer(s), n <= m
  PROVE  n \in Fetched(s)
<1> DEFINE Below(x) == {k \in Newer(s) : k < x}
<1>1. IsFiniteSet(Newer(s)) /\ Newer(s) \subseteq Nat
  BY NewerFinite
<1>2. m \in Newer(s) /\ Cardinality(Below(m)) < Batch
  BY DEF Fetched
<1>3. Below(n) \subseteq Below(m)
  BY <1>1, <1>2
<1>4. IsFiniteSet(Below(m))
  BY <1>1, FS_Subset
<1>5. Cardinality(Below(n)) <= Cardinality(Below(m))
  BY <1>3, <1>4, FS_Subset
<1>6. Cardinality(Below(n)) \in Nat /\ Cardinality(Below(m)) \in Nat
  BY <1>3, <1>4, FS_Subset, FS_CardinalityType
<1>7. Cardinality(Below(n)) < Batch
  BY <1>2, <1>5, <1>6, RemoteWorkerAssumption
<1> QED
  BY <1>7 DEF Fetched

LEMMA CursorStep ==
  ASSUME Typed, CursorBound, NoSilentSkip, [Next]_vars
  PROVE  CursorBound' /\ NoSilentSkip'
<1>t. /\ log \in Seq(Sessions) /\ Len(log) \in Nat /\ after \in [Sessions -> Nat]
      /\ gapMark \in [Sessions -> Nat] /\ seen \in [Sessions -> SUBSET Nat]
  BY DEF Typed, TypeOK
<1>f. First \in Nat /\ First >= 1 /\ First - 1 <= Len(log)
  BY <1>t, FirstType, RemoteWorkerAssumption DEF Typed, First
<1>1. ASSUME NEW w \in Workers, AppendEvent(w) PROVE CursorBound' /\ NoSilentSkip'
  <2>1. log' = Append(log, Session[cur[w]]) /\ UNCHANGED <<after, seen, gapMark>>
    BY <1>1 DEF AppendEvent
  <2>2. Session[cur[w]] \in Sessions
    BY <1>1 DEF AppendEvent, Typed, CurReal, Sessions
  <2>3. Len(log') = Len(log) + 1 /\ \A n \in 1..Len(log) : log'[n] = log[n]
    BY <1>t, <2>1, <2>2
  <2>4. CursorBound'
    BY <1>t, <2>1, <2>3 DEF CursorBound
  <2>5. ASSUME NEW s \in Sessions, NEW n \in 1..Len(log'), log'[n] = s, n <= after[s]
        PROVE  n \in seen[s] \/ n <= gapMark[s]
    <3>1. n \in 1..Len(log)
      BY <1>t, <2>3, <2>5 DEF CursorBound
    <3> QED
      BY <2>3, <2>5, <3>1 DEF NoSilentSkip
  <2> QED
    BY <2>1, <2>4, <2>5 DEF NoSilentSkip
<1>2. ASSUME NEW s \in Sessions, Watch(s) PROVE CursorBound' /\ NoSilentSkip'
  <2>1. PICK m \in Fetched(s) : after' = [after EXCEPT ![s] = m]
    BY <1>2 DEF Watch
  <2>2. /\ seen' = [seen EXCEPT ![s] = @ \cup Fetched(s)] /\ UNCHANGED <<log, gapMark>>
        /\ ~Gap(s)
    BY <1>2 DEF Watch
  <2>3. m \in First..Len(log)
    BY DEF Fetched, Newer, Journal
  <2>4. CursorBound'
    BY <1>t, <1>f, <2>1, <2>2, <2>3 DEF CursorBound
  <2>5. ASSUME NEW n \in 1..Len(log), log[n] = s, n <= m
        PROVE  n \in seen'[s] \/ n <= gapMark[s]
    <3>1. CASE n <= after[s]
      BY <1>t, <2>2, <2>5, <3>1 DEF NoSilentSkip
    <3>2. CASE n > after[s]
      <4>1. n \in Newer(s)
        BY <1>t, <1>f, <2>2, <2>5, <3>2 DEF Gap, Newer, Journal
      <4>2. n \in Fetched(s)
        BY <2>1, <2>5, <4>1, FetchedPrefix DEF Typed
      <4> QED
        BY <1>t, <2>2, <4>2
    <3> QED
      BY <1>t, <3>1, <3>2
  <2>6. ASSUME NEW x \in Sessions, NEW n \in 1..Len(log), log[n] = x, n <= after'[x]
        PROVE  n \in seen'[x] \/ n <= gapMark[x]
    <3>1. CASE x = s
      BY <1>t, <2>1, <2>5, <2>6, <3>1
    <3>2. CASE x # s
      BY <1>t, <2>1, <2>2, <2>6, <3>2 DEF NoSilentSkip
    <3> QED
      BY <3>1, <3>2
  <2> QED
    BY <2>2, <2>4, <2>6 DEF NoSilentSkip
<1>3. ASSUME NEW s \in Sessions, WatchGap(s) PROVE CursorBound' /\ NoSilentSkip'
  <2>1. /\ gapMark' = [gapMark EXCEPT ![s] = First - 1]
        /\ after' = [after EXCEPT ![s] = First - 1] /\ UNCHANGED <<log, seen>>
    BY <1>3 DEF WatchGap
  <2>2. CursorBound'
    BY <1>t, <1>f, <2>1 DEF CursorBound
  <2>3. ASSUME NEW x \in Sessions, NEW n \in 1..Len(log), log[n] = x, n <= after'[x]
        PROVE  n \in seen[x] \/ n <= gapMark'[x]
    <3>1. CASE x = s
      BY <1>t, <2>1, <2>3, <3>1
    <3>2. CASE x # s
      BY <1>t, <2>1, <2>3, <3>2 DEF NoSilentSkip
    <3> QED
      BY <3>1, <3>2
  <2> QED
    BY <2>1, <2>2, <2>3 DEF NoSilentSkip
<1>4. CASE UNCHANGED journalVars
  BY <1>4 DEF journalVars, CursorBound, NoSilentSkip
<1>5. ASSUME NEW w \in Workers,
             \/ Connect(w) \/ Disconnect(w) \/ Crash(w) \/ (\E c \in Commands : Send(w, c))
             \/ WorkerStep(w) /\ ~AppendEvent(w)
      PROVE  UNCHANGED journalVars
  BY <1>5 DEF WorkerStep, Connect, Disconnect, Crash, Send, Begin, Refuse, Claim, ClaimKnown,
              ClaimFull, Execute, Complete, HandlerFails, Respond, Exit, journalVars
<1> QED
  BY <1>1, <1>2, <1>3, <1>4, <1>5 DEF Next, vars

\* No cursor passes an event of its session silently, for every capacity of
\* the journal and every size of the batch.
THEOREM WatchersNotSkipped == Spec => []NoSilentSkip
<1>1. Init => CursorBound /\ NoSilentSkip
  BY DEF Init, CursorBound, NoSilentSkip
<1>2. Typed /\ CursorBound /\ NoSilentSkip /\ [Next]_vars
        => (Typed /\ CursorBound /\ NoSilentSkip)'
  BY TypeStep, CursorStep
<1> QED
  BY TypeInit, <1>1, <1>2, PTL DEF Spec
=============================================================================
