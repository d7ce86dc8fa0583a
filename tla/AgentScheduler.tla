--------------------------- MODULE AgentScheduler ---------------------------
(***************************************************************************)
(* The agent pool: runAgentScheduler of src/core/agents/agent-scheduler.ts *)
(* with its work queue (agent-work-queue.ts) and its worker slots          *)
(* (agent-worker-slot.ts).                                                 *)
(*                                                                         *)
(* One asynchronous loop fills idle slots with ready work items, waits for *)
(* the first session to settle or for the stop signal, books the result,   *)
(* enqueues the follow-up items a worker reports, and fills the slots      *)
(* again.  Workers end, the clock runs out and the caller aborts whenever  *)
(* they like; the loop sees it at its next await on the race.  Leasing     *)
(* order (owner, priority) is left open: any leasable item may be next.    *)
(***************************************************************************)
EXTENDS Naturals, Sequences, FiniteSets, SequencesExt

CONSTANTS
    Slices,        \* ids of the items the partition brings
    FollowUps,     \* ids of the items workers may report
    Deps,          \* what each item depends on
    Writes,        \* the write leases each item asks for
    Slots,         \* the worker slots, as many as targetActiveSlots
    MaxExpansion,  \* max_queue_expansion
    RefillDelay,   \* whether refillDelayMs is set
    Faults,        \* subset of FaultKinds
    MaxReport      \* bound: follow-ups a worker reports

\* An event callback fails or times out; a file operation throws inside, or
\* outside, the try block of a dispatch.
FaultKinds == {"callback", "dispatch", "throw"}

Ids == Slices \cup FollowUps

ASSUME SchedulerAssumption ==
    /\ IsFiniteSet(Slices) /\ Slices # {} /\ Slices \cap FollowUps = {}
    /\ Deps \in [Ids -> SUBSET Ids]
    /\ IsFiniteSet(Slots) /\ Slots # {}
    /\ MaxExpansion \in Nat /\ MaxReport \in Nat
    /\ RefillDelay \in BOOLEAN
    /\ Faults \subseteq FaultKinds

VARIABLES
    queue,      \* the work items, in order of arrival
    generated,  \* generated_work_item_count
    slots,      \* status and generation count of each slot
    open,       \* sessions whose history entry has not been closed
    batch,      \* sessions collected and not yet launched
    active,     \* sessions the loop waits for
    live,       \* launched sessions whose worker has not ended
    stop,       \* the stop signal
    terminal,   \* terminalStopReason
    blocked,    \* whether state.blockers is nonempty
    claim,      \* completion_claim_allowed
    lost,       \* some reported follow-up was not enqueued
    pc,         \* where the loop is
    ret         \* where refillSlots returns to

vars == <<queue, generated, slots, open, batch, active, live, stop, terminal,
          blocked, claim, lost, pc, ret>>

Statuses == {"pending", "running", "completed", "failed", "blocked"}
Items == [id : Ids, status : Statuses]
Sessions == [slot : Slots, gen : Nat, id : Ids]

StopReasons == {"none", "wall", "abort", "no_slot", "unresolvable", "dispatch"}

TypeOK ==
    /\ queue \in Seq(Items)
    /\ generated \in Nat
    /\ slots \in [Slots -> [status : {"idle", "running", "closed"}, gen : Nat]]
    /\ open \subseteq Sessions /\ batch \subseteq Sessions
    /\ active \subseteq Sessions /\ live \subseteq Sessions
    /\ stop \in {"none", "wall", "abort"}
    /\ terminal \in StopReasons
    /\ blocked \in BOOLEAN /\ claim \in BOOLEAN /\ lost \in BOOLEAN
    /\ pc \in {"start", "loop", "wait", "refill", "collect", "dispatch",
               "launched", "stopping", "drain", "drained", "returned", "thrown"}
    /\ ret \in {"loop", "ready"}

-----------------------------------------------------------------------------
(* agent-work-queue.ts                                                     *)

WithStatus(st) == {i \in DOMAIN queue : queue[i].status \in st}
IdsOf(positions) == {queue[i].id : i \in positions}

Unfinished == WithStatus({"pending", "running"})

\* Wrong variant: a dependency that has ended in any way is good enough.
ReadyWhenDepsEnded ==
    {i \in WithStatus({"pending"}) :
        Deps[queue[i].id] \subseteq IdsOf(WithStatus({"completed", "failed", "blocked"}))}

\* pendingWorkItems
Ready ==
    {i \in WithStatus({"pending"}) :
        Deps[queue[i].id] \subseteq IdsOf(WithStatus({"completed"}))}

\* sliceWritePaths: a follow-up has no slice.write_paths.
SliceWrites(id) == IF id \in Slices THEN Writes[id] ELSE {}

\* Wrong variant: only sessions that have been launched count.
ActiveWritePathsOfSessions == UNION {SliceWrites(s.id) : s \in active}

\* activeWritePaths: what every running item writes, the ones of the batch
\* that is being collected included.
ActiveWritePaths == UNION {SliceWrites(id) : id \in IdsOf(WithStatus({"running"}))}

\* leaseNextWorkItem
Leasable == {i \in Ready : SliceWrites(queue[i].id) \cap ActiveWritePaths = {}}

\* completeWorkItem finds the first item of that id.
FirstOf(id) ==
    CHOOSE i \in DOMAIN queue : queue[i].id = id /\ \A k \in 1..(i - 1) : queue[k].id # id

CompleteWorkItem(id, status) == [queue EXCEPT ![FirstOf(id)].status = status]

\* What is left of the ids in s, in order, without those in known.
Without(s, known) ==
    LET kept[k \in 0..Len(s)] ==
            IF k = 0 THEN <<>>
            ELSE IF s[k] \in known THEN kept[k - 1] ELSE Append(kept[k - 1], s[k])
    IN  kept[Len(s)]

\* Wrong variant: the remaining capacity is not subtracted.
AcceptedIgnoringCapacity(reported) == Without(reported, IdsOf(DOMAIN queue))

\* enqueueFollowUpWorkItems: what fits, less the ids the queue already has.
\* Ids reported twice in one result are both taken.
Accepted(reported) ==
    LET room == IF MaxExpansion > generated THEN MaxExpansion - generated ELSE 0
        taken == SubSeq(reported, 1, IF Len(reported) < room THEN Len(reported) ELSE room)
    IN  Without(taken, IdsOf(DOMAIN queue))

Pending(ids) == [k \in DOMAIN ids |-> [id |-> ids[k], status |-> "pending"]]

-----------------------------------------------------------------------------
(* writeAll: an event callback that fails leaves a blocker.                *)
Event(b) == \/ blocked' = b
            \/ "callback" \in Faults /\ blocked' = TRUE

Stop(reason) ==
    /\ terminal' = reason
    /\ blocked' = TRUE
    /\ pc' = "stopping"

Start ==
    /\ pc = "start"
    /\ \/ stop # "none" /\ Stop(stop)
       \/ stop = "none" /\ Event(blocked) /\ pc' = "refill" /\ UNCHANGED terminal
    /\ UNCHANGED <<queue, generated, slots, open, batch, active, live, stop, claim, lost, ret>>

\* One turn of the while loop, up to the race.
Loop ==
    /\ pc = "loop"
    /\ \/ /\ active = {} /\ Unfinished = {}
          /\ pc' = "drain"
          /\ UNCHANGED <<terminal, blocked, ret>>
       \/ /\ active # {} \/ Unfinished # {}
          /\ \/ stop # "none" /\ Stop(stop) /\ UNCHANGED ret
             \/ /\ stop = "none" /\ active # {}
                /\ pc' = "wait"
                /\ UNCHANGED <<terminal, blocked, ret>>
             \/ /\ stop = "none" /\ active = {} /\ Ready # {}
                /\ pc' = "refill" /\ ret' = "ready"
                /\ UNCHANGED <<terminal, blocked>>
             \/ /\ stop = "none" /\ active = {} /\ Ready = {}
                /\ Stop("unresolvable") /\ UNCHANGED ret
    /\ UNCHANGED <<queue, generated, slots, open, batch, active, live, stop, claim, lost>>

\* Wrong variant: the race leaves out the stop signal.
RaceWithoutStop == FALSE

StopWhileWaiting ==
    /\ pc = "wait"
    /\ stop # "none"
    /\ Stop(stop)
    /\ UNCHANGED <<queue, generated, slots, open, batch, active, live, stop, claim, lost, ret>>

\* Wrong variant: the slot of a settled session stays running.
IdleNever(slot) == slots

\* markWorkerSlotGenerationClosed
Idle(slot) == [slots EXCEPT ![slot].status = "idle"]

\* Wrong variant: a failed item leaves no blocker.
FailureIsSilent(status, dropped) == blocked \/ dropped

\* What a settled session leaves in state.blockers.
Blockers(status, dropped) == blocked \/ status # "completed" \/ dropped

\* The race is won by session s, which ended with some status and, when it
\* completed, reported follow-ups; some of them may be malformed.
Settle(s) ==
    /\ pc = "wait"
    /\ s \in active /\ s \notin live
    /\ active' = active \ {s}
    /\ slots' = Idle(s.slot)
    /\ open' = open \ {s}
    /\ \E status \in {"completed", "failed", "blocked"}, malformed \in BOOLEAN :
       \E n \in 0..MaxReport : \E reported \in [1..n -> FollowUps] :
          LET followUps == IF status = "completed" THEN reported ELSE <<>>
              accepted == Accepted(followUps)
              dropped == Len(accepted) < Len(followUps) \/ (status = "completed" /\ malformed)
          IN  /\ queue' = CompleteWorkItem(s.id, status) \o Pending(accepted)
              /\ generated' = generated + Len(accepted)
              /\ lost' = (lost \/ dropped)
              /\ Event(Blockers(status, dropped))
    /\ pc' = "refill" /\ ret' = "loop"
    /\ UNCHANGED <<batch, live, stop, terminal, claim>>

-----------------------------------------------------------------------------
(* refillSlots                                                             *)

Refill ==
    /\ pc = "refill"
    /\ \/ stop # "none" /\ Stop(stop)
       \/ stop = "none" /\ pc' = "collect" /\ UNCHANGED <<terminal, blocked>>
    /\ UNCHANGED <<queue, generated, slots, open, batch, active, live, stop, claim, lost, ret>>

IdleSlots == {w \in Slots : slots[w].status = "idle" /\ \A s \in batch : s.slot # w}

Room == Cardinality(active) + Cardinality(batch) < Cardinality(Slots)

\* collectLaunchBatch, one lease per step.
Lease ==
    /\ pc = "collect"
    /\ Room
    /\ \E w \in IdleSlots, i \in Leasable :
          /\ queue' = [queue EXCEPT ![i].status = "running"]
          /\ batch' = batch \cup {[slot |-> w, gen |-> slots[w].gen + 1, id |-> queue[i].id]}
    /\ UNCHANGED <<generated, slots, open, active, live, stop, terminal, blocked, claim, lost, pc, ret>>

\* Nothing more to lease: dispatch the batch, or return without one.
Collected ==
    /\ pc = "collect"
    /\ ~Room \/ IdleSlots = {} \/ Leasable = {}
    /\ \/ batch # {} /\ pc' = "dispatch" /\ UNCHANGED <<terminal, blocked>>
       \/ /\ batch = {}
          /\ IF ret = "ready" /\ active = {} THEN Stop("no_slot")
             ELSE pc' = "loop" /\ UNCHANGED <<terminal, blocked>>
    /\ UNCHANGED <<queue, generated, slots, open, batch, active, live, stop, claim, lost, ret>>

SessionOf(w) == CHOOSE s \in batch : s.slot = w

OpenedSlots ==
    [w \in Slots |-> IF \E s \in batch : s.slot = w
                     THEN [status |-> "running", gen |-> SessionOf(w).gen]
                     ELSE slots[w]]

\* The slots are opened, the session files written, the workers launched.
Dispatch ==
    /\ pc = "dispatch"
    /\ slots' = OpenedSlots
    /\ open' = open \cup batch
    /\ \/ /\ active' = active \cup batch
          /\ live' = live \cup batch
          /\ Event(blocked)
          /\ pc' = "launched"
          /\ UNCHANGED terminal
       \/ /\ "dispatch" \in Faults
          /\ Stop("dispatch")
          /\ UNCHANGED <<active, live>>
    /\ batch' = {}
    /\ UNCHANGED <<queue, generated, stop, claim, lost, ret>>

\* The bookkeeping after the launch, with the refill delay if there is one.
Launched ==
    /\ pc = "launched"
    /\ \/ Event(blocked) /\ pc' = "loop" /\ UNCHANGED terminal
       \/ RefillDelay /\ stop # "none" /\ Stop(stop)
       \/ "dispatch" \in Faults /\ Stop("dispatch")
    /\ UNCHANGED <<queue, generated, slots, open, batch, active, live, stop, claim, lost, ret>>

-----------------------------------------------------------------------------
(* stopScheduler and the end of the run                                    *)

\* The caller's cleanup asks the workers to end and is given ten seconds;
\* whether it succeeds or not, everything unfinished is then blocked.  A
\* worker may end later, or never: nobody looks at it any more.
StopCleanup ==
    /\ pc = "stopping"
    /\ queue' = [i \in DOMAIN queue |->
                    IF i \in Unfinished THEN [queue[i] EXCEPT !.status = "blocked"] ELSE queue[i]]
    /\ slots' = [w \in Slots |-> IF \E s \in active : s.slot = w
                                 THEN [slots[w] EXCEPT !.status = "idle"] ELSE slots[w]]
    /\ open' = open \ active
    /\ active' = {}
    /\ pc' = "drain"
    /\ UNCHANGED <<generated, batch, live, stop, terminal, blocked, claim, lost, ret>>

Drain ==
    /\ pc = "drain"
    /\ slots' = [w \in Slots |-> [slots[w] EXCEPT !.status = "closed"]]
    /\ Event(blocked \/ Unfinished # {} \/ active # {} \/ open # {})
    /\ pc' = "drained"
    /\ UNCHANGED <<queue, generated, open, batch, active, live, stop, terminal, claim, lost, ret>>

\* The claim is written, and withdrawn if the last callback fails.
Drained ==
    /\ pc = "drained"
    /\ Event(blocked)
    /\ claim' = ~blocked'
    /\ pc' = "returned"
    /\ UNCHANGED <<queue, generated, slots, open, batch, active, live, stop, terminal, lost, ret>>

\* A file operation outside the dispatch throws: the run rejects.
Throw ==
    /\ "throw" \in Faults
    /\ pc \in {"start", "wait", "launched", "stopping", "drain", "drained"}
    /\ pc' = "thrown"
    /\ UNCHANGED <<queue, generated, slots, open, batch, active, live, stop, terminal,
                   blocked, claim, lost, ret>>

-----------------------------------------------------------------------------
(* Workers, clock and caller.                                              *)

WorkerEnds(s) ==
    /\ s \in live
    /\ live' = live \ {s}
    /\ UNCHANGED <<queue, generated, slots, open, batch, active, stop, terminal, blocked,
                   claim, lost, pc, ret>>

Ended == pc \in {"returned", "thrown"}

Signal(reason) ==
    /\ stop = "none" /\ ~Ended
    /\ stop' = reason
    /\ UNCHANGED <<queue, generated, slots, open, batch, active, live, terminal, blocked,
                   claim, lost, pc, ret>>

WallTime == Signal("wall")
Abort == Signal("abort")

Terminated == Ended /\ live = {} /\ UNCHANGED vars

Init ==
    /\ queue = Pending(SetToSeq(Slices))
    /\ generated = 0
    /\ slots = [w \in Slots |-> [status |-> "idle", gen |-> 0]]
    /\ open = {} /\ batch = {} /\ active = {} /\ live = {}
    /\ stop \in {"none", "abort"}
    /\ terminal = "none"
    /\ blocked = FALSE /\ claim = FALSE /\ lost = FALSE
    /\ pc = "start" /\ ret = "loop"

\* The scheduler's own steps.
Run ==
    \/ Start \/ Loop \/ StopWhileWaiting \/ (\E s \in active : Settle(s))
    \/ Refill \/ Lease \/ Collected \/ Dispatch \/ Launched
    \/ StopCleanup \/ Drain \/ Drained

Next ==
    \/ Run \/ Throw
    \/ \E s \in live : WorkerEnds(s)
    \/ WallTime \/ Abort
    \/ Terminated

Spec == Init /\ [][Next]_vars

\* The event loop runs what is ready, every callback is bounded by a timer,
\* and the wall clock reaches its limit.  No worker has to end.
FairSpec == Spec /\ WF_vars(Run) /\ WF_vars(WallTime)

-----------------------------------------------------------------------------
(* Properties.                                                             *)

\* completion_claim_allowed is honest: every item was completed, no follow-up
\* was dropped, no session or worker is left; and a run that returns, for
\* whatever reason, leaves no item pending or running.
ReturnHonest ==
    pc = "returned" =>
        /\ Unfinished = {} /\ active = {}
        /\ claim => /\ WithStatus({"completed"}) = DOMAIN queue
                    /\ ~lost /\ open = {} /\ live = {}

\* Slots and sessions correspond: a slot is running exactly while a session
\* in it is active (or a batch that was opened failed to launch), and no slot
\* has two.
SessionsMatchSlots ==
    /\ \A s, t \in active \cup batch : s.slot = t.slot => s = t
    /\ pc \notin {"drained", "returned", "thrown"} /\ terminal # "dispatch" =>
          \A w \in Slots : slots[w].status = "running" <=> \E s \in active : s.slot = w

\* No two sessions work on slices that write the same path, even when both
\* are collected in one batch.
SliceWritesDisjoint ==
    \A s, t \in active : s # t => SliceWrites(s.id) \cap SliceWrites(t.id) = {}

\* max_queue_expansion bounds what workers add over the whole run.
ExpansionBounded ==
    /\ generated <= MaxExpansion
    /\ Cardinality({i \in DOMAIN queue : queue[i].id \in FollowUps}) = generated

\* The state keeps its types (the outcome no_slot is not among them: the
\* branch scheduler_ready_queue_without_launchable_slot is dead, as every
\* slot is idle when no session is active) and the queue its bound.
PoolInvariant == TypeOK /\ terminal # "no_slot" /\ ExpansionBounded

\* Behind a slice that was not completed nothing runs or gets completed, also
\* through follow-ups and after failures, refills and a stop.  (An id that was
\* reported twice in one result is booked on the first of the two items, so
\* the same is not true of follow-ups.)
NothingBehindFailure ==
    \A i \in WithStatus({"running", "completed"}) :
        Deps[queue[i].id] \cap (Slices \ IdsOf(WithStatus({"completed"}))) = {}

\* The run ends although workers may never return, event callbacks and the
\* cleanup may fail, and dependencies may be unresolvable.
RunEnds == <>Ended

\* docs/naruto-worktree-parallelism.md: the scheduler fans out work "while
\* keeping writes lease-based and non-overlapping".
WriteLeasesDisjoint ==
    \A s, t \in active : s # t => Writes[s.id] \cap Writes[t.id] = {}
=============================================================================
