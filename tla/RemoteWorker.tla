---------------------------- MODULE RemoteWorker ----------------------------
(***************************************************************************)
(* Remote control of a session (src/core/remote): an owner's client opens  *)
(* ssh connections, each with a worker process of its own behind it, and   *)
(* sends command envelopes down them.  Workers share a command ledger file *)
(* (RemoteCommandLedger) that makes re-sent commands idempotent, and an    *)
(* event journal file (RemoteEventJournal) that watchers poll.             *)
(*                                                                         *)
(* The ledger's and the journal's critical sections run under withFileLock *)
(* and are single steps here (FileLock.tla models the lock itself).  A     *)
(* worker handles the lines it has received one at a time; it outlives its *)
(* connection until they are handled, and may die between any two steps.   *)
(***************************************************************************)
EXTENDS Naturals, FiniteSets, Sequences

CONSTANTS
    Workers,     \* ssh connections, each with its worker process
    Commands,    \* envelopes; two of them may share a key or a command id
    Key,         \* idempotency_key of an envelope
    CmdId,       \* command_id of an envelope
    Session,     \* session_id of an envelope
    Effectful,   \* envelopes of kind input or cancel
    MaxEntries,  \* capacity of the ledger (16..4096 in the code)
    MaxEvents,   \* capacity of the journal (8..4096 in the code)
    Batch,       \* events per watch answer (128 in the code)
    MaxSends,    \* bound: requests the owner sends
    NoCommand    \* nothing is being handled

ASSUME RemoteWorkerAssumption ==
    /\ Effectful \subseteq Commands
    /\ MaxEntries \in Nat \ {0}
    /\ MaxEvents \in Nat \ {0}
    /\ Batch \in Nat \ {0}
    /\ MaxSends \in Nat
    /\ NoCommand \notin Commands

VARIABLES
    ledger,    \* commands.json: one entry per envelope, or absent
    conn,      \* connection and worker process: see ConnStates
    queue,     \* request lines the worker has received and not begun
    pc,        \* the step each worker has reached in handleCommand
    cur,       \* the envelope it is handling
    resp,      \* the receipt it holds for the answer
    waiting,   \* PendingResponse entries of each connection's client
    log,       \* sessions of all events appended so far; see Journal
    after,     \* the cursor of the watcher of each session
    claims,    \* entries appended to the ledger so far
    sends,     \* requests sent so far
    effects,   \* history: times the side effect of a command happened
    applied,   \* history: side effect happened since the current claim
    evicted,   \* history: commands whose entry was dropped from the ledger
    told,      \* history: definite answers the owner got for a command
    seen,      \* history: events each watcher received
    gapMark    \* history: highest event a reported gap covered

ledgerVars == <<ledger, claims, applied, evicted, effects>>
journalVars == <<log, after, seen, gapMark>>
workerVars == <<pc, cur, resp>>
clientVars == <<conn, queue, waiting, sends, told>>
vars == <<ledgerVars, journalVars, workerVars, clientVars>>

Sessions == {Session[c] : c \in Commands}

\* side_effect_applied of a receipt, or no receipt in the answer.
Receipts == {"true", "false", "unknown"}
NoReceipt == "missing"

\* closed: neither; open: both; orphan: the connection is gone and the
\* worker still has lines to handle.
ConnStates == {"closed", "open", "orphan"}

Absent == [status |-> "absent", receipt |-> NoReceipt, at |-> 0]

\* at: the entry's place in the file, which is the order of the claims.
Entries == [status : {"absent", "inflight", "completed"},
            receipt : Receipts \cup {NoReceipt}, at : Nat]

WithStatus(l, s) == {c \in DOMAIN l : l[c].status = s}
Present(l) == {c \in DOMAIN l : l[c].status # "absent"}

\* The entries boundedCommandEntries keeps: all in flight, and the newest of
\* the completed ones that fit beside them.
Kept(l) ==
    WithStatus(l, "inflight") \cup
    {c \in WithStatus(l, "completed") :
        Cardinality({d \in WithStatus(l, "completed") : l[d].at > l[c].at})
            + Cardinality(WithStatus(l, "inflight")) < MaxEntries}

BoundedEntries(l) == [c \in DOMAIN l |-> IF c \in Kept(l) THEN l[c] ELSE Absent]

OverCapacity(l) == Cardinality(WithStatus(l, "inflight")) > MaxEntries

---------------------------------------------------------------------------
Init ==
    /\ ledger = [c \in Commands |-> Absent]
    /\ conn = [w \in Workers |-> "closed"]
    /\ queue = [w \in Workers |-> <<>>]
    /\ pc = [w \in Workers |-> "idle"]
    /\ cur = [w \in Workers |-> NoCommand]
    /\ resp = [w \in Workers |-> NoReceipt]
    /\ waiting = [w \in Workers |-> {}]
    /\ log = <<>>
    /\ after = [s \in Sessions |-> 0]
    /\ claims = 0
    /\ sends = 0
    /\ effects = [c \in Commands |-> 0]
    /\ applied = {}
    /\ evicted = {}
    /\ told = [c \in Commands |-> {}]
    /\ seen = [s \in Sessions |-> {}]
    /\ gapMark = [s \in Sessions |-> 0]

---------------------------------------------------------------------------
(* The client: RemoteSshWorkerClient *)

\* connect: ssh starts a worker process, which answers hello.
Connect(w) ==
    /\ conn[w] = "closed"
    /\ sends < MaxSends
    /\ conn' = [conn EXCEPT ![w] = "open"]
    /\ UNCHANGED <<ledgerVars, journalVars, workerVars,
                   queue, waiting, sends, told>>

\* sendConnected: the line is written, and the request is dispatched from
\* then on.  A request whose id is already pending is refused (an envelope
\* is sent under one request id).
Send(w, c) ==
    /\ conn[w] = "open"
    /\ c \notin waiting[w]
    /\ sends < MaxSends
    /\ sends' = sends + 1
    /\ waiting' = [waiting EXCEPT ![w] = @ \cup {c}]
    /\ queue' = [queue EXCEPT ![w] = Append(@, c)]
    /\ UNCHANGED <<ledgerVars, journalVars, workerVars, conn, told>>

\* rejectPending: every request still waiting ends as delivery_unknown.
RejectPending(w) == waiting' = [waiting EXCEPT ![w] = {}]

\* handleDisconnect, abortConnection after a timeout, close: the client lets
\* go of the connection.  Lines on their way may be lost; the worker sees the
\* end of its input and carries on with those it has.
Disconnect(w) ==
    /\ conn[w] = "open"
    /\ RejectPending(w)
    /\ conn' = [conn EXCEPT ![w] = "orphan"]
    /\ \E k \in 0..Len(queue[w]) :
           queue' = [queue EXCEPT ![w] = SubSeq(@, 1, k)]
    /\ UNCHANGED <<ledgerVars, journalVars, workerVars, sends, told>>

---------------------------------------------------------------------------
(* The worker process: runRemoteWorkerJsonl and handleCommand *)

\* runRemoteWorkerJsonl takes the next line and validates the envelope.
\* Clocks are not modelled: any line may have expired when its turn comes.
Begin(w) ==
    /\ pc[w] = "idle"
    /\ queue[w] # <<>>
    /\ cur' = [cur EXCEPT ![w] = Head(queue[w])]
    /\ queue' = [queue EXCEPT ![w] = Tail(@)]
    /\ pc' = [pc EXCEPT ![w] = "claim"]
    /\ UNCHANGED <<ledgerVars, journalVars, resp,
                   conn, waiting, sends, told>>

\* validateRemoteCommandEnvelope throws: an expired line is answered under
\* the id "unknown", which the client does not find among its requests.
Refuse(w) ==
    /\ pc[w] = "idle"
    /\ queue[w] # <<>>
    /\ queue' = [queue EXCEPT ![w] = Tail(@)]
    /\ UNCHANGED <<ledgerVars, journalVars, workerVars,
                   conn, waiting, sends, told>>

\* The ledger already holds the key or the command id.
SameKey(c) == {d \in Present(ledger) : Key[d] = Key[c]}
SameCommand(c) == {d \in Present(ledger) : CmdId[d] = CmdId[c]}
\* Wrong variant: only a completed entry counts as known.
KnownCompleted(c) ==
    \E d \in SameKey(c) \cup SameCommand(c) : ledger[d].status = "completed"

Known(c) == SameKey(c) \cup SameCommand(c) # {}

Appended(c) ==
    [ledger EXCEPT ![c] = [status |-> "inflight", receipt |-> NoReceipt,
                           at |-> claims + 1]]

\* claim, first time: the entry is appended and the file bounded.
Claim(w) ==
    LET c == cur[w]
        dropped == Present(Appended(c)) \ Kept(Appended(c))
    IN  /\ pc[w] = "claim"
        /\ ~Known(c)
        /\ ~OverCapacity(Appended(c))
        /\ ledger' = BoundedEntries(Appended(c))
        /\ claims' = claims + 1
        /\ evicted' = evicted \cup dropped
        /\ applied' = applied \ dropped
        /\ pc' = [pc EXCEPT ![w] = "execute"]
        /\ UNCHANGED <<effects, cur, resp, journalVars, clientVars>>

\* Duplicates of a completed command get its receipt; duplicates of one in
\* flight and conflicts get an answer without receipt.
StoredReceipt(c) == ledger[c].receipt

\* claim, entry present: nothing is written.
ClaimKnown(w) ==
    /\ pc[w] = "claim"
    /\ Known(cur[w])
    /\ resp' = [resp EXCEPT ![w] = StoredReceipt(cur[w])]
    /\ pc' = [pc EXCEPT ![w] = "respond"]
    /\ UNCHANGED <<ledgerVars, journalVars, cur, clientVars>>

\* boundedCommandEntries throws when entries in flight fill the ledger.
ClaimFull(w) ==
    /\ pc[w] = "claim"
    /\ ~Known(cur[w])
    /\ OverCapacity(Appended(cur[w]))
    /\ resp' = [resp EXCEPT ![w] = NoReceipt]
    /\ pc' = [pc EXCEPT ![w] = "respond"]
    /\ UNCHANGED <<ledgerVars, journalVars, cur, clientVars>>

\* The side effect of c takes place, or not.
Effect(c, happens) ==
    IF happens
    THEN /\ effects' = [effects EXCEPT ![c] = @ + 1]
         /\ applied' = applied \cup {c}
    ELSE UNCHANGED <<effects, applied>>

\* Wrong variant: an error while steering counts as not dispatched.
OutcomesErrorIsFalse(c) ==
    IF c \in Effectful
    THEN {<<"true", TRUE>>, <<"false", FALSE>>, <<"false", TRUE>>}
    ELSE {<<"false", FALSE>>}

\* What an execution can come to: the receipt's side_effect_applied and
\* whether there was one.  A failure after the dispatch is "unknown", and so
\* is an unexpected failure of a read.
Outcomes(c) ==
    IF c \in Effectful
    THEN {<<"true", TRUE>>, <<"false", FALSE>>, <<"unknown", TRUE>>, <<"unknown", FALSE>>}
    ELSE {<<"false", FALSE>>, <<"unknown", FALSE>>}

\* The audit line, then executeCommand and the receipt built from it.
Execute(w) ==
    /\ pc[w] = "execute"
    /\ \E o \in Outcomes(cur[w]) :
           /\ Effect(cur[w], o[2])
           /\ resp' = [resp EXCEPT ![w] = o[1]]
    /\ pc' = [pc EXCEPT ![w] = "complete"]
    /\ UNCHANGED <<ledger, claims, evicted, cur, journalVars, clientVars>>

\* complete: the receipt is stored with the entry.
Complete(w) ==
    /\ pc[w] = "complete"
    /\ ledger[cur[w]].status # "absent"
    /\ ledger' = [ledger EXCEPT ![cur[w]].status = "completed",
                                ![cur[w]].receipt = resp[w]]
    /\ pc' = [pc EXCEPT ![w] = "event"]
    /\ UNCHANGED <<claims, applied, evicted, effects, cur, resp,
                   journalVars, clientVars>>

\* The audit line, then events.append.
AppendEvent(w) ==
    /\ pc[w] = "event"
    /\ log' = Append(log, Session[cur[w]])
    /\ pc' = [pc EXCEPT ![w] = "respond"]
    /\ UNCHANGED <<ledgerVars, after, seen, gapMark, cur, resp, clientVars>>

\* Wrong variant: a failed handler gives its claim back.
HandlerFailsReleases(w) ==
    /\ pc[w] \in {"claim", "execute", "complete", "event"}
    /\ ledger' = IF pc[w] \in {"execute", "complete"}
                 THEN [ledger EXCEPT ![cur[w]] = Absent] ELSE ledger
    /\ resp' = [resp EXCEPT ![w] = NoReceipt]
    /\ pc' = [pc EXCEPT ![w] = "respond"]
    /\ UNCHANGED <<claims, applied, evicted, effects, journalVars, cur, clientVars>>

\* Wrong variant: the exception is not caught and the loop stops.
HandlerFailsUncaught(w) ==
    /\ pc[w] \in {"claim", "execute", "complete", "event"}
    /\ pc' = [pc EXCEPT ![w] = "thrown"]
    /\ UNCHANGED <<ledgerVars, journalVars, cur, resp, clientVars>>

\* A lock timeout or a failing write throws out of handleCommand, which is
\* answered with worker_handler_failed and no receipt.  An envelope for
\* another machine or project is answered so before the claim.
HandlerFails(w) ==
    /\ pc[w] \in {"claim", "execute", "complete", "event"}
    /\ resp' = [resp EXCEPT ![w] = NoReceipt]
    /\ pc' = [pc EXCEPT ![w] = "respond"]
    /\ UNCHANGED <<ledgerVars, journalVars, cur, clientVars>>

\* handleResponseLine: the receipt reaches whoever waits for it.
Answer(w) ==
    /\ conn[w] = "open"
    /\ resp[w] # NoReceipt
    /\ told' = [told EXCEPT ![cur[w]] = @ \cup ({resp[w]} \ {"unknown"})]
    /\ waiting' = [waiting EXCEPT ![w] = @ \ {cur[w]}]
    /\ UNCHANGED <<conn, queue>>

\* side_effect_receipt_missing: the client gives up the whole connection.
\* An answer that is too long goes out without its receipt.
AnswerWithoutReceipt(w) ==
    /\ conn[w] = "open"
    /\ RejectPending(w)
    /\ conn' = [conn EXCEPT ![w] = "orphan"]
    /\ \E k \in 0..Len(queue[w]) :
           queue' = [queue EXCEPT ![w] = SubSeq(@, 1, k)]
    /\ UNCHANGED told

\* writeResponse; nobody reads what an orphan writes.
Respond(w) ==
    /\ pc[w] = "respond"
    /\ \/ Answer(w)
       \/ AnswerWithoutReceipt(w)
       \/ conn[w] = "orphan" /\ UNCHANGED <<conn, queue, waiting, told>>
    /\ pc' = [pc EXCEPT ![w] = "idle"]
    /\ cur' = [cur EXCEPT ![w] = NoCommand]
    /\ resp' = [resp EXCEPT ![w] = NoReceipt]
    /\ UNCHANGED <<ledgerVars, journalVars, sends>>

\* An orphan that has handled its lines exits.
Exit(w) ==
    /\ conn[w] = "orphan"
    /\ pc[w] = "idle"
    /\ queue[w] = <<>>
    /\ conn' = [conn EXCEPT ![w] = "closed"]
    /\ UNCHANGED <<ledgerVars, journalVars, workerVars,
                   queue, waiting, sends, told>>

\* The worker process dies; its client, if any, sees the connection close.
Crash(w) ==
    /\ conn[w] # "closed"
    /\ pc[w] # "idle"
    /\ RejectPending(w)
    /\ conn' = [conn EXCEPT ![w] = "closed"]
    /\ queue' = [queue EXCEPT ![w] = <<>>]
    /\ pc' = [pc EXCEPT ![w] = "idle"]
    /\ cur' = [cur EXCEPT ![w] = NoCommand]
    /\ resp' = [resp EXCEPT ![w] = NoReceipt]
    /\ UNCHANGED <<ledgerVars, journalVars, sends, told>>

---------------------------------------------------------------------------
(* Watchers: RemoteEventJournal.watch *)

\* first_available_seq: appendMany keeps the last MaxEvents events, numbered
\* from 1 in the order they were appended.
First == IF Len(log) > MaxEvents THEN Len(log) - MaxEvents + 1 ELSE 1

Journal(s) == {n \in First..Len(log) : log[n] = s}
Newer(s) == {n \in Journal(s) : n > after[s]}

\* The oldest Batch of the newer events.
Fetched(s) == {n \in Newer(s) : Cardinality({k \in Newer(s) : k < n}) < Batch}

\* Wrong variant: a cursor that fell behind is served what is left.
GapNever(s) == FALSE

Gap(s) == after[s] < First - 1

\* Events are delivered and the cursor moves to the last of them.
Watch(s) ==
    /\ ~Gap(s)
    /\ seen' = [seen EXCEPT ![s] = @ \cup Fetched(s)]
    /\ \E n \in Fetched(s) :
           /\ \A k \in Fetched(s) : k <= n
           /\ after' = [after EXCEPT ![s] = n]
    /\ UNCHANGED <<log, gapMark, ledgerVars, workerVars, clientVars>>

\* event_cursor_gap: the watcher reads a snapshot and starts again at the
\* first event the journal still has.
WatchGap(s) ==
    /\ Gap(s)
    /\ gapMark' = [gapMark EXCEPT ![s] = First - 1]
    /\ after' = [after EXCEPT ![s] = First - 1]
    /\ UNCHANGED <<log, seen, ledgerVars, workerVars, clientVars>>

---------------------------------------------------------------------------
WorkerStep(w) ==
    \/ Begin(w) \/ Refuse(w)
    \/ Claim(w) \/ ClaimKnown(w) \/ ClaimFull(w)
    \/ Execute(w) \/ Complete(w) \/ AppendEvent(w)
    \/ HandlerFails(w)
    \/ Respond(w) \/ Exit(w)

Next ==
    \/ \E w \in Workers :
           \/ Connect(w) \/ Disconnect(w) \/ Crash(w)
           \/ \E c \in Commands : Send(w, c)
           \/ WorkerStep(w)
    \/ \E s \in Sessions : Watch(s) \/ WatchGap(s)

Spec == Init /\ [][Next]_vars

\* Workers run until their lines are handled (the event loop of a process
\* that does not die), and a watcher polls again and again.
FairSpec ==
    /\ Spec
    /\ \A w \in Workers : WF_vars(WorkerStep(w))
    /\ \A s \in Sessions : WF_vars(Watch(s) \/ WatchGap(s))

---------------------------------------------------------------------------
PCs == {"idle", "claim", "execute", "complete", "event", "respond"}

\* Type correctness.
TypeOK ==
    /\ ledger \in [Commands -> Entries]
    /\ conn \in [Workers -> ConnStates]
    /\ queue \in [Workers -> Seq(Commands)]
    /\ pc \in [Workers -> PCs]
    /\ cur \in [Workers -> Commands \cup {NoCommand}]
    /\ resp \in [Workers -> Receipts \cup {NoReceipt}]
    /\ waiting \in [Workers -> SUBSET Commands]
    /\ log \in Seq(Sessions)
    /\ after \in [Sessions -> Nat]
    /\ claims \in Nat
    /\ sends \in Nat
    /\ effects \in [Commands -> Nat]
    /\ applied \subseteq Commands
    /\ evicted \subseteq Commands
    /\ told \in [Commands -> SUBSET Receipts]
    /\ seen \in [Sessions -> SUBSET Nat]
    /\ gapMark \in [Sessions -> Nat]

\* While a worker executes a command, the ledger holds its claim, no other
\* worker executes the same command, and filling the ledger does not push
\* the claim out (claim and boundedCommandEntries).
ClaimHeld ==
    \A w \in Workers :
        pc[w] \in {"execute", "complete"} =>
            /\ ledger[cur[w]].status = "inflight"
            /\ \A v \in Workers \ {w} :
                   pc[v] \in {"execute", "complete"} => cur[v] # cur[w]

\* The worker keeps its types, and a command that is being executed is held by
\* the one in-flight entry its claim wrote.
LedgerInvariant == TypeOK /\ ClaimHeld

\* No interleaving of re-sends, lost connections, failures and crashes makes
\* a side effect happen twice, unless the completed entry was dropped from
\* the full ledger in between.
RepeatedOnlyIfEvicted ==
    \A c \in Commands : effects[c] > 1 => c \in evicted

\* Whatever answer the owner got, first or duplicate: told that the side
\* effect was applied, it was, and told that it was not, it never is.
HonestAnswers ==
    \A c \in Commands \ evicted :
        /\ "true" \in told[c] => effects[c] = 1
        /\ "false" \in told[c] => effects[c] = 0

\* A watcher's cursor never passes an event of its session that it was not
\* given, unless it was told of a gap that covers it.
NoSilentSkip ==
    \A s \in Sessions : \A n \in 1..Len(log) :
        log[n] = s /\ n <= after[s] => n \in seen[s] \/ n <= gapMark[s]

\* The worker implements RemoteEffects: an effect happens once per
\* remembered command, and only settled commands are forgotten.
Effects == INSTANCE RemoteEffects WITH settled <- WithStatus(ledger, "completed")
EffectsOncePerClaim == Effects!EffectsSpec

\* Every event of a session reaches its watcher, or the watcher is told of a
\* gap that covers it.
EventReachesWatcher ==
    \A s \in Sessions : \A n \in 1..MaxSends :
        (n <= Len(log) /\ log[n] = s) ~> (n \in seen[s] \/ n <= gapMark[s])

\* A worker that lost its connection ends (the loop awaits its queue and
\* returns), so that nothing runs on behalf of the owner for ever.
OrphanExits ==
    \A w \in Workers : conn[w] = "orphan" ~> conn[w] = "closed"
=============================================================================
