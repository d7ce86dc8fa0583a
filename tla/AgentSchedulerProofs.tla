------------------------ MODULE AgentSchedulerProofs ------------------------
(***************************************************************************)
(* For every partition, every set of slots and every fault: the slots of   *)
(* the agent pool and the sessions the scheduler waits for stay in step,   *)
(* sessions never share a slice or a path that slices write, nothing runs  *)
(* behind a slice that was not completed, the queue keeps its bound, and a *)
(* claim of completion is honest.                                          *)
(***************************************************************************)
EXTENDS AgentScheduler, FiniteSetTheorems, TLAPS

SlotStates == [status : {"idle", "running", "closed"}, gen : Nat]

\* SessionsMatchSlots is not inductive by itself: it needs that a stop reason
\* is only set on the way out, and that a collected batch sits in idle slots.
PoolTypes ==
    /\ slots \in [Slots -> SlotStates]
    /\ \A s \in batch \cup active : s.slot \in Slots
    /\ \A s \in batch : s.gen \in Nat

PoolInv ==
    /\ PoolTypes
    /\ SessionsMatchSlots
    /\ terminal # "none" => pc \in {"stopping", "drain", "drained", "returned", "thrown"}
    /\ pc \notin {"collect", "dispatch"} => batch = {}
    /\ \A s \in batch : slots[s.slot].status = "idle"

LEMMA PoolInit == Init => PoolInv
  BY DEF Init, PoolInv, PoolTypes, SessionsMatchSlots, SlotStates

\* Steps that touch neither slots nor sessions and do not start or end a
\* collection.
LEMMA PoolFrame ==
  ASSUME PoolInv, UNCHANGED <<slots, batch, active>>,
         pc \notin {"drained", "returned", "thrown"} \/ pc' \in {"drained", "returned", "thrown"},
         batch = {} \/ pc' \in {"collect", "dispatch"},
         \/ UNCHANGED terminal /\ (terminal = "none" \/ pc' \in {"stopping", "drain", "drained", "returned", "thrown"})
         \/ terminal = "none" /\ pc' = "stopping"
  PROVE  PoolInv'
<1>1. SessionsMatchSlots'
  BY DEF PoolInv, SessionsMatchSlots
<1> QED
  BY <1>1 DEF PoolInv, PoolTypes

LEMMA PoolStep == PoolInv /\ [Next]_vars => PoolInv'
<1> SUFFICES ASSUME PoolInv, [Next]_vars PROVE PoolInv'
  OBVIOUS
<1>1. CASE Start \/ Loop \/ StopWhileWaiting \/ Refill \/ Launched
  BY <1>1, PoolFrame DEF Start, Loop, StopWhileWaiting, Refill, Launched, Stop, PoolInv
<1>2. CASE Collected
  BY <1>2, PoolFrame DEF Collected, Stop, PoolInv
<1>3. CASE Drained \/ Throw
  BY <1>3, PoolFrame DEF Drained, Throw, PoolInv
<1>4. CASE (\E s \in live : WorkerEnds(s)) \/ WallTime \/ Abort \/ Terminated \/ UNCHANGED vars
  <2>1. UNCHANGED <<slots, batch, active, pc, terminal>>
    BY <1>4 DEF WorkerEnds, WallTime, Abort, Signal, Terminated, vars
  <2> QED
    BY <2>1 DEF PoolInv, PoolTypes, SessionsMatchSlots
<1>5. ASSUME NEW s \in active, Settle(s) PROVE PoolInv'
  <2>1. /\ pc = "wait" /\ pc' = "refill" /\ UNCHANGED <<batch, terminal>>
        /\ active' = active \ {s} /\ batch = {} /\ terminal = "none"
        /\ slots' = [slots EXCEPT ![s.slot].status = "idle"]
    BY <1>5 DEF Settle, Idle, PoolInv
  <2>2. s.slot \in Slots
    BY DEF PoolInv, PoolTypes, Sessions
  <2>3. \A w \in Slots : slots'[w].status = IF w = s.slot THEN "idle" ELSE slots[w].status
    BY <2>1, <2>2 DEF PoolInv, PoolTypes, SlotStates
  <2>4. slots' \in [Slots -> SlotStates]
    BY <2>1, <2>2 DEF PoolInv, PoolTypes, SlotStates
  <2>5. \A t \in active : t.slot = s.slot => t = s
    BY DEF PoolInv, SessionsMatchSlots
  <2>6. \A w \in Slots : slots[w].status = "running" <=> \E t \in active : t.slot = w
    BY <2>1 DEF PoolInv, SessionsMatchSlots
  <2>7. \A w \in Slots : slots'[w].status = "running" <=> \E t \in active' : t.slot = w
    BY <2>1, <2>3, <2>5, <2>6
  <2> QED
    BY <2>1, <2>4, <2>7 DEF PoolInv, PoolTypes, SessionsMatchSlots
<1>6. CASE Lease
  <2>1. /\ pc = "collect" /\ terminal = "none" /\ UNCHANGED <<slots, active, pc, terminal>>
    BY <1>6 DEF Lease, PoolInv
  <2>2. PICK w \in IdleSlots, i \in Leasable :
          batch' = batch \cup {[slot |-> w, gen |-> slots[w].gen + 1, id |-> queue[i].id]}
    BY <1>6 DEF Lease
  <2> DEFINE n == [slot |-> w, gen |-> slots[w].gen + 1, id |-> queue[i].id]
  <2>3. batch' = batch \cup {n} /\ n.slot = w /\ n.gen = slots[w].gen + 1
    BY <2>2
  <2> HIDE DEF n
  <2>4. w \in Slots /\ slots[w].status = "idle" /\ \A s \in batch : s.slot # w
    BY DEF IdleSlots
  <2>5. \A s \in active : s.slot # w
    BY <2>1, <2>4 DEF PoolInv, SessionsMatchSlots
  <2>6. \A s, t \in active' \cup batch' : s.slot = t.slot => s = t
    BY <2>1, <2>3, <2>4, <2>5 DEF PoolInv, SessionsMatchSlots
  <2>7. SessionsMatchSlots'
    BY <2>1, <2>6 DEF PoolInv, SessionsMatchSlots
  <2>8. slots[w].gen + 1 \in Nat
    BY <2>4 DEF PoolInv, PoolTypes, SlotStates
  <2>9. PoolTypes'
    BY <2>1, <2>3, <2>4, <2>8 DEF PoolInv, PoolTypes
  <2> QED
    BY <2>1, <2>3, <2>4, <2>7, <2>9 DEF PoolInv
<1>7. CASE Dispatch
  <2>1. /\ pc = "dispatch" /\ terminal = "none" /\ slots' = OpenedSlots /\ batch' = {}
        /\ \/ active' = active \cup batch /\ pc' = "launched" /\ UNCHANGED terminal
           \/ active' = active /\ terminal' = "dispatch" /\ pc' = "stopping"
    BY <1>7 DEF Dispatch, Stop, PoolInv
  <2>2. \A w \in Slots : (\E s \in batch : s.slot = w) => SessionOf(w) \in batch
    BY DEF SessionOf
  <2>3. ASSUME NEW w \in Slots
        PROVE  /\ (\E s \in batch : s.slot = w) =>
                     slots'[w] = [status |-> "running", gen |-> SessionOf(w).gen]
               /\ (~\E s \in batch : s.slot = w) => slots'[w] = slots[w]
    BY <2>1, SMT DEF OpenedSlots
  <2>4. ASSUME NEW w \in Slots, \E s \in batch : s.slot = w
        PROVE  slots'[w] \in SlotStates /\ slots'[w].status = "running"
    <3>1. SessionOf(w).gen \in Nat
      BY <2>2, <2>4 DEF PoolInv, PoolTypes
    <3>2. PICK g \in Nat : slots'[w] = [status |-> "running", gen |-> g]
      BY <2>3, <2>4, <3>1, Zenon
    <3> QED
      BY <3>2 DEF SlotStates
  <2>5. slots' \in [Slots -> SlotStates]
    <3>1. \A w \in Slots : slots'[w] \in SlotStates
      BY <2>3, <2>4 DEF PoolInv, PoolTypes
    <3> QED
      BY <2>1, <3>1 DEF OpenedSlots
  <2>6. active' = active \cup batch =>
          \A w \in Slots : slots'[w].status = "running" <=> \E s \in active' : s.slot = w
    <3> SUFFICES ASSUME active' = active \cup batch, NEW w \in Slots
                 PROVE  slots'[w].status = "running" <=> \E s \in active' : s.slot = w
      OBVIOUS
    <3>1. slots[w].status = "running" <=> \E s \in active : s.slot = w
      BY <2>1 DEF PoolInv, SessionsMatchSlots
    <3>2. CASE \E s \in batch : s.slot = w
      BY <2>4, <3>2
    <3>3. CASE ~\E s \in batch : s.slot = w
      <4>1. slots'[w] = slots[w]
        BY <2>3, <3>3
      <4> QED
        BY <3>1, <3>3, <4>1
    <3> QED
      BY <3>2, <3>3
  <2>7. SessionsMatchSlots'
    BY <2>1, <2>6 DEF PoolInv, SessionsMatchSlots
  <2> QED
    BY <2>1, <2>5, <2>7 DEF PoolInv, PoolTypes
<1>8. CASE StopCleanup
  <2>1. /\ pc = "stopping" /\ pc' = "drain" /\ active' = {} /\ batch = {} /\ batch' = {}
        /\ UNCHANGED terminal
        /\ slots' = [w \in Slots |-> IF \E s \in active : s.slot = w
                                     THEN [slots[w] EXCEPT !.status = "idle"] ELSE slots[w]]
    BY <1>8 DEF StopCleanup, PoolInv
  <2>2. slots' \in [Slots -> SlotStates]
    BY <2>1 DEF PoolInv, PoolTypes, SlotStates
  <2>3. terminal # "dispatch" => \A w \in Slots : slots'[w].status # "running"
    BY <2>1 DEF PoolInv, PoolTypes, SlotStates, SessionsMatchSlots
  <2>4. SessionsMatchSlots'
    BY <2>1, <2>3 DEF SessionsMatchSlots
  <2> QED
    BY <2>1, <2>2, <2>4 DEF PoolInv, PoolTypes
<1>9. CASE Drain
  <2>1. /\ pc = "drain" /\ pc' = "drained" /\ batch = {} /\ UNCHANGED <<batch, active, terminal>>
        /\ slots' = [w \in Slots |-> [slots[w] EXCEPT !.status = "closed"]]
    BY <1>9 DEF Drain, PoolInv
  <2>2. slots' \in [Slots -> SlotStates]
    BY <2>1 DEF PoolInv, PoolTypes, SlotStates
  <2>3. SessionsMatchSlots'
    BY <2>1 DEF PoolInv, SessionsMatchSlots
  <2> QED
    BY <2>1, <2>2, <2>3 DEF PoolInv, PoolTypes
<1> QED
  BY <1>1, <1>2, <1>3, <1>4, <1>5, <1>6, <1>7, <1>8, <1>9 DEF Next, Run

\* Whatever the queue, the slots, the workers and the faults: no slot ever
\* holds two sessions, and as long as the pool is open a slot is marked
\* running exactly while the scheduler waits for a session in it.
THEOREM SlotsInStep == Spec => []SessionsMatchSlots
<1>1. PoolInv => SessionsMatchSlots
  BY DEF PoolInv
<1> QED
  BY <1>1, PoolInit, PoolStep, PTL DEF Spec

-----------------------------------------------------------------------------
(* The queue and the sessions                                               *)

\* The scheduler has not begun to stop or to return.
Going == pc \in {"start", "loop", "wait", "refill", "collect", "dispatch", "launched"}

Out == active \cup batch

\* The slices that have been completed, and whether id may run as far as
\* slices go.
Done == Slices \cap IdsOf(WithStatus({"completed"}))

DepsDone(id) == Deps[id] \cap Slices \subseteq Done

\* A slice is in the queue once.
SlicesOnce ==
    \A i, j \in DOMAIN queue : queue[i].id = queue[j].id /\ queue[i].id \in Slices => i = j

\* The item of every session is in the queue, and running if it is a slice;
\* and a slice that is running has a session.
Booked ==
    /\ Going => \A s \in Out : \E i \in DOMAIN queue :
                    queue[i].id = s.id /\ (s.id \in Slices => queue[i].status = "running")
    /\ Going => \A i \in DOMAIN queue :
                    queue[i].id \in Slices /\ queue[i].status = "running" =>
                        \E s \in Out : s.id = queue[i].id

\* Sessions do not share slices, nor paths that slices write.
Apart ==
    \A s, t \in Out : s # t =>
        /\ SliceWrites(s.id) \cap SliceWrites(t.id) = {}
        /\ s.id \in Slices => s.id # t.id

Behind == (\A i \in WithStatus({"running", "completed"}) : DepsDone(queue[i].id))
          /\ \A s \in Out : DepsDone(s.id)

Books == SlicesOnce /\ Booked /\ Apart /\ Behind

\* Whatever must withhold the claim has left a blocker.
Honest ==
    /\ pc = "stopping" => terminal # "none"
    /\ ~blocked => /\ terminal = "none" /\ ~lost /\ live \subseteq active
                   /\ WithStatus({"failed", "blocked"}) = {}
    /\ pc \in {"drain", "drained", "returned"} => Unfinished = {} /\ active = {}
    /\ pc \in {"drained", "returned"} /\ ~blocked => open = {}
    /\ pc = "returned" /\ claim => ~blocked

\* A refill that was promised work finds some.
Launchable ==
    /\ pc \notin {"drained", "returned", "thrown"} => \A w \in Slots : slots[w].status # "closed"
    /\ pc = "start" => ret = "loop"
    /\ ret = "ready" /\ pc \in {"refill", "collect"} =>
          active = {} /\ (batch = {} => Ready # {})
    /\ terminal # "no_slot"

SchedulerInv == PoolInv /\ TypeOK /\ Books /\ Honest /\ Launchable /\ ExpansionBounded

-----------------------------------------------------------------------------
(* Sequences                                                                *)

\* Every nonempty set of naturals has a least element.
LEMMA LeastExists ==
  ASSUME NEW T, T \subseteq Nat, T # {}
  PROVE  \E n \in T : \A m \in T : n <= m
<1>1. PICK n \in T : \A m \in T : ~(<<m, n>> \in OpToRel(<, Nat))
  BY NatLessThanWellFounded, WFMin, Zenon
<1>2. ASSUME NEW m \in T PROVE n <= m
  <2>1. m \in Nat /\ n \in Nat
    OBVIOUS
  <2>2. ~(m < n)
    BY <1>1, <2>1 DEF OpToRel
  <2> QED
    BY <2>1, <2>2
<1> QED
  BY <1>2

\* The function that Without(s, known) is read from, up to n.
Keeps(g, s, known, n) ==
    g = [k \in 0..n |->
          IF k = 0 THEN <<>>
          ELSE IF s[k] \in known THEN g[k - 1] ELSE Append(g[k - 1], s[k])]

\* Without returns a sequence of the same elements that is not longer.
LEMMA WithoutFacts ==
  ASSUME NEW S, NEW s \in Seq(S), NEW known
  PROVE  Without(s, known) \in Seq(S) /\ Len(Without(s, known)) <= Len(s)
<1> DEFINE Good(g, n) == Keeps(g, s, known, n)
           Bad == {n \in 0..Len(s) : ~\E g : Good(g, n)}
<1>1. Bad = {}
  <2> SUFFICES ASSUME Bad # {} PROVE FALSE
    OBVIOUS
  <2>0. Bad \subseteq Nat
    OBVIOUS
  <2> HIDE DEF Bad
  <2>1. PICK n \in Bad : \A m \in Bad : n <= m
    BY <2>0, LeastExists
  <2> USE DEF Bad
  <2>2. CASE n = 0
    <3> DEFINE g == [k \in 0..0 |-> <<>>]
    <3>1. Good(g, 0)
      BY DEF Keeps
    <3> QED
      BY <2>2, <3>1
  <2>3. CASE n # 0
    <3>1. n - 1 \in 0..Len(s) /\ n \in 1..Len(s) /\ ~(n <= n - 1)
      BY <2>3
    <3>2. PICK g : Good(g, n - 1)
      BY <2>1, <3>1
    <3> DEFINE h == [k \in 0..n |-> IF k # n THEN g[k]
                        ELSE IF s[n] \in known THEN g[n - 1] ELSE Append(g[n - 1], s[n])]
    <3>3. Good(h, n)
      <4>1. \A k \in 0..(n-1) : g[k] = IF k = 0 THEN <<>>
                ELSE IF s[k] \in known THEN g[k - 1] ELSE Append(g[k - 1], s[k])
        BY <3>2 DEF Keeps
      <4>2. ASSUME NEW k \in 0..n PROVE h[k] = IF k = 0 THEN <<>>
                ELSE IF s[k] \in known THEN h[k - 1] ELSE Append(h[k - 1], s[k])
        BY <3>1, <4>1
      <4> QED
        BY <4>2 DEF Keeps
    <3> QED
      BY <3>3
  <2> QED
    BY <2>2, <2>3
<1>2. PICK g : Good(g, Len(s)) /\ Without(s, known) = g[Len(s)]
  <2> DEFINE g == CHOOSE g : Good(g, Len(s))
  <2>1. Len(s) \in 0..Len(s)
    OBVIOUS
  <2>2. Good(g, Len(s))
    BY <1>1, <2>1
  <2>3. Without(s, known) = g[Len(s)]
    BY DEF Without, Keeps
  <2> QED
    BY <2>2, <2>3
<1>3. g[0] = <<>> /\ \A k \in 1..Len(s) : g[k] = g[k - 1] \/ g[k] = Append(g[k - 1], s[k])
  <2>1. \A k \in 0..Len(s) : g[k] = IF k = 0 THEN <<>>
                ELSE IF s[k] \in known THEN g[k - 1] ELSE Append(g[k - 1], s[k])
    BY <1>2 DEF Keeps
  <2>2. Len(s) \in Nat
    OBVIOUS
  <2>3. 0 \in 0..Len(s)
    BY <2>2
  <2>4. g[0] = <<>>
    BY <2>1, <2>3
  <2>5. ASSUME NEW k \in 1..Len(s) PROVE g[k] = g[k - 1] \/ g[k] = Append(g[k - 1], s[k])
    <3>1. k \in 0..Len(s) /\ k # 0
      BY <2>2
    <3> QED
      BY <2>1, <3>1, Zenon
  <2> QED
    BY <2>4, <2>5
<1> HIDE DEF Good
<1> DEFINE Fits(k) == g[k] \in Seq(S) /\ Len(g[k]) <= k
           Long == {k \in 0..Len(s) : ~Fits(k)}
<1>4. Long = {}
  <2> SUFFICES ASSUME Long # {} PROVE FALSE
    OBVIOUS
  <2>0. Long \subseteq Nat
    OBVIOUS
  <2>1. Fits(0)
    BY <1>3
  <2>2. ASSUME NEW k \in 1..Len(s), Fits(k - 1) PROVE Fits(k)
    <3>1. g[k] = g[k - 1] \/ g[k] = Append(g[k - 1], s[k])
      BY <1>3
    <3>2. s[k] \in S /\ g[k - 1] \in Seq(S) /\ Len(g[k - 1]) <= k - 1
      BY <2>2
    <3>3. ASSUME NEW q \in Seq(S), NEW e \in S
          PROVE  Append(q, e) \in Seq(S) /\ Len(Append(q, e)) = Len(q) + 1 /\ Len(q) \in Nat
      OBVIOUS
    <3>4. CASE g[k] = g[k - 1]
      BY <3>2, <3>3, <3>4
    <3>5. CASE g[k] = Append(g[k - 1], s[k])
      <4>1. g[k] \in Seq(S) /\ Len(g[k]) = Len(g[k - 1]) + 1 /\ Len(g[k - 1]) \in Nat
        BY <3>2, <3>3, <3>5
      <4> QED
        BY <3>2, <4>1
    <3> QED
      BY <3>1, <3>4, <3>5
  <2> HIDE DEF Fits
  <2>3. \A n \in Long : n \in 0..Len(s) /\ ~Fits(n)
    OBVIOUS
  <2>4. \A n \in 0..Len(s) : ~Fits(n) => n \in Long
    OBVIOUS
  <2> HIDE DEF Long
  <2>5. PICK n \in Long : \A m \in Long : n <= m
    BY <2>0, LeastExists
  <2>6. n # 0 /\ n \in 0..Len(s)
    BY <2>1, <2>3
  <2>7. n \in 1..Len(s) /\ n - 1 \in 0..Len(s) /\ ~(n <= n - 1)
    BY <2>6
  <2>8. Fits(n - 1)
    BY <2>4, <2>5, <2>7
  <2> QED
    BY <2>2, <2>3, <2>7, <2>8
<1>5. Fits(Len(s))
  <2>1. Len(s) \in 0..Len(s)
    OBVIOUS
  <2> QED
    BY <1>4, <2>1
<1> QED
  BY <1>2, <1>5

\* The queue begins with every slice once.
LEMMA FirstQueue ==
  ASSUME queue = Pending(SetToSeq(Slices))
  PROVE  /\ queue \in Seq(Items)
         /\ \A i \in DOMAIN queue : queue[i].id \in Slices /\ queue[i].status = "pending"
         /\ SlicesOnce
<1> DEFINE n == Cardinality(Slices)
           f == SetToSeq(Slices)
<1>1. n \in Nat /\ ExistsBijection(1..n, Slices)
  BY FS_CardinalityType, SchedulerAssumption
<1>2. \E g \in [1..n -> Slices] : IsInjective(g)
  BY <1>1 DEF ExistsBijection, Bijection, Injection
<1>3. f \in [1..n -> Slices] /\ IsInjective(f)
  BY <1>2 DEF SetToSeq
<1> HIDE DEF n, f
<1>4. queue = [k \in 1..n |-> [id |-> f[k], status |-> "pending"]]
  BY <1>3 DEF Pending, f
<1>5. \A k \in 1..n : f[k] \in Ids /\ [id |-> f[k], status |-> "pending"] \in Items
  BY <1>3 DEF Ids, Items, Statuses
<1>6. queue \in Seq(Items) /\ DOMAIN queue = 1..n
  BY <1>1, <1>4, <1>5
<1>7. \A k \in 1..n : queue[k].id = f[k] /\ queue[k].status = "pending"
  BY <1>4
<1> QED
  BY <1>3, <1>6, <1>7 DEF SlicesOnce, IsInjective

LEMMA FirstOfFacts ==
  ASSUME TypeOK, NEW id, \E i \in DOMAIN queue : queue[i].id = id
  PROVE  FirstOf(id) \in DOMAIN queue /\ queue[FirstOf(id)].id = id
<1> DEFINE T == {i \in DOMAIN queue : queue[i].id = id}
<1>1. DOMAIN queue = 1..Len(queue) /\ Len(queue) \in Nat
  BY DEF TypeOK
<1>2. T \subseteq Nat /\ T # {}
  BY <1>1
<1>3. PICK n \in T : \A m \in T : n <= m
  BY <1>2, LeastExists, Zenon
<1>4. n \in DOMAIN queue /\ queue[n].id = id
  OBVIOUS
<1>5. ASSUME NEW k \in 1..(n - 1) PROVE queue[k].id # id
  <2>1. k \in DOMAIN queue /\ ~(n <= k)
    BY <1>1, <1>4
  <2> QED
    BY <1>3, <2>1
<1>6. \E i \in DOMAIN queue : queue[i].id = id /\ \A k \in 1..(i - 1) : queue[k].id # id
  BY <1>4, <1>5
<1> QED
  BY <1>6 DEF FirstOf

\* What enqueueFollowUpWorkItems accepts are follow-ups, and they fit.
LEMMA AcceptedFacts ==
  ASSUME generated \in Nat, NEW r \in Seq(FollowUps)
  PROVE  /\ Accepted(r) \in Seq(FollowUps) /\ Len(Accepted(r)) \in Nat
         /\ Len(Accepted(r)) <= Len(r)
         /\ generated <= MaxExpansion => generated + Len(Accepted(r)) <= MaxExpansion
<1> DEFINE room == IF MaxExpansion > generated THEN MaxExpansion - generated ELSE 0
           n == IF Len(r) < room THEN Len(r) ELSE room
           taken == SubSeq(r, 1, n)
<1>1. MaxExpansion \in Nat /\ room \in Nat /\ Len(r) \in Nat
  BY SchedulerAssumption
<1>2. n \in Nat /\ n <= Len(r) /\ n <= room
  BY <1>1
<1>3. generated <= MaxExpansion => generated + room <= MaxExpansion
  BY <1>1
<1> HIDE DEF room, n
<1>4. taken \in Seq(FollowUps) /\ Len(taken) = n
  BY <1>1, <1>2
<1>5. Accepted(r) = Without(taken, IdsOf(DOMAIN queue))
  BY DEF Accepted, room, n
<1> HIDE DEF taken
<1>6. Accepted(r) \in Seq(FollowUps) /\ Len(Accepted(r)) <= n
  BY <1>4, <1>5, WithoutFacts
<1>7. Len(Accepted(r)) \in Nat
  BY <1>6
<1> QED
  BY <1>1, <1>2, <1>3, <1>6, <1>7

\* An item gets a status.
Put(q, j, st) == [q EXCEPT ![j].status = st]

LEMMA StatusSet ==
  ASSUME NEW q \in Seq(Items), NEW j \in DOMAIN q, NEW st \in Statuses,
         NEW p, p = Put(q, j, st)
  PROVE  /\ p \in Seq(Items) /\ Len(p) = Len(q) /\ DOMAIN p = DOMAIN q
         /\ p[j].status = st
         /\ \A i \in DOMAIN q : p[i].id = q[i].id /\ (i # j => p[i] = q[i])
<1> DEFINE e == [q[j] EXCEPT !.status = st]
<1>1. q[j] \in Items
  OBVIOUS
<1>2. e \in Items /\ e.status = st /\ e.id = q[j].id
  BY <1>1 DEF Items
<1>3. p = [q EXCEPT ![j] = e]
  BY DEF Put
<1> HIDE DEF e
<1>4. DOMAIN p = DOMAIN q /\ p[j] = e /\ \A i \in DOMAIN q : i # j => p[i] = q[i]
  BY <1>3
<1>5. p \in Seq(Items) /\ Len(p) = Len(q)
  BY <1>2, <1>3
<1> QED
  BY <1>2, <1>4, <1>5

\* What a concatenation consists of.
LEMMA Concatenated ==
  ASSUME NEW S, NEW q \in Seq(S), NEW m \in Seq(S), NEW c, c = q \o m
  PROVE  /\ c \in Seq(S) /\ DOMAIN c = 1..(Len(q) + Len(m))
         /\ \A i \in DOMAIN q : i \in DOMAIN c /\ c[i] = q[i]
         /\ \A i \in DOMAIN c \ DOMAIN q : i - Len(q) \in 1..Len(m) /\ c[i] = m[i - Len(q)]
<1>1. Len(q) \in Nat /\ Len(m) \in Nat /\ DOMAIN q = 1..Len(q) /\ DOMAIN m = 1..Len(m)
  OBVIOUS
<1>2. c \in Seq(S) /\ Len(c) = Len(q) + Len(m)
  OBVIOUS
<1>3. DOMAIN c = 1..(Len(q) + Len(m))
  BY <1>2
<1>4. \A i \in 1..(Len(q) + Len(m)) : c[i] = IF i <= Len(q) THEN q[i] ELSE m[i - Len(q)]
  OBVIOUS
<1> QED
  BY <1>1, <1>2, <1>3, <1>4

\* What a settled session does to the queue: item j of its id gets a status,
\* and follow-ups are added at the end.
Settled(s, j, st, a) ==
    /\ j \in DOMAIN queue /\ queue[j].id = s.id
    /\ st \in {"completed", "failed", "blocked"}
    /\ a \in Nat /\ generated' = generated + a
    /\ generated <= MaxExpansion => generated' <= MaxExpansion
    /\ queue' \in Seq(Items) /\ DOMAIN queue' = 1..(Len(queue) + a)
    /\ queue'[j].status = st
    /\ \A i \in DOMAIN queue :
          i \in DOMAIN queue' /\ queue'[i].id = queue[i].id /\ (i # j => queue'[i] = queue[i])
    /\ \A i \in DOMAIN queue' \ DOMAIN queue :
          queue'[i].id \in FollowUps /\ queue'[i].status = "pending"
    /\ blocked' = FALSE => blocked = FALSE /\ st = "completed" /\ lost' = lost

LEMMA SettleFacts ==
  ASSUME TypeOK, NEW s \in active, Settle(s), \E i \in DOMAIN queue : queue[i].id = s.id
  PROVE  \E j, st, a : Settled(s, j, st, a)
<1>0. PICK st \in {"completed", "failed", "blocked"}, malformed \in BOOLEAN, n \in 0..MaxReport :
         \E reported \in [1..n -> FollowUps] :
         LET followUps == IF st = "completed" THEN reported ELSE <<>>
             accepted == Accepted(followUps)
             dropped == Len(accepted) < Len(followUps) \/ (st = "completed" /\ malformed)
         IN  /\ queue' = CompleteWorkItem(s.id, st) \o Pending(accepted)
             /\ generated' = generated + Len(accepted)
             /\ lost' = (lost \/ dropped)
             /\ Event(Blockers(st, dropped))
  BY DEF Settle
<1>1. PICK reported \in [1..n -> FollowUps] :
         LET followUps == IF st = "completed" THEN reported ELSE <<>>
             accepted == Accepted(followUps)
             dropped == Len(accepted) < Len(followUps) \/ (st = "completed" /\ malformed)
         IN  /\ queue' = CompleteWorkItem(s.id, st) \o Pending(accepted)
             /\ generated' = generated + Len(accepted)
             /\ lost' = (lost \/ dropped)
             /\ Event(Blockers(st, dropped))
  BY <1>0
<1> DEFINE r == IF st = "completed" THEN reported ELSE <<>>
           acc == Accepted(r)
           a == Len(acc)
           j == FirstOf(s.id)
           dropped == a < Len(r) \/ (st = "completed" /\ malformed)
<1>2. MaxReport \in Nat /\ n \in Nat
  BY SchedulerAssumption
<1>3. r \in Seq(FollowUps)
  BY <1>2
<1>4. /\ queue' = CompleteWorkItem(s.id, st) \o Pending(acc) /\ generated' = generated + a
      /\ lost' = (lost \/ dropped) /\ Event(Blockers(st, dropped))
  BY <1>1
<1> HIDE DEF r
<1>5. /\ acc \in Seq(FollowUps) /\ a \in Nat
      /\ generated <= MaxExpansion => generated + a <= MaxExpansion
  BY <1>3, AcceptedFacts DEF TypeOK
<1>6. j \in DOMAIN queue /\ queue[j].id = s.id
  BY FirstOfFacts
<1> HIDE DEF acc, j
<1> DEFINE q == CompleteWorkItem(s.id, st)
           more == Pending(acc)
<1>7. queue \in Seq(Items) /\ st \in Statuses
  BY DEF TypeOK, Statuses
<1>8. /\ q \in Seq(Items) /\ Len(q) = Len(queue) /\ DOMAIN q = DOMAIN queue /\ q[j].status = st
      /\ \A i \in DOMAIN queue : q[i].id = queue[i].id /\ (i # j => q[i] = queue[i])
  <2>1. q = Put(queue, j, st)
    BY DEF CompleteWorkItem, j, Put
  <2> HIDE DEF q
  <2> QED
    BY <1>6, <1>7, <2>1, StatusSet
<1>9. /\ more \in Seq(Items) /\ Len(more) = a
      /\ \A k \in 1..a : more[k].id \in FollowUps /\ more[k].status = "pending"
  <2>1. \A k \in 1..a : acc[k] \in FollowUps
    BY <1>5
  <2>2. more = [k \in 1..a |-> [id |-> acc[k], status |-> "pending"]]
    BY <1>5 DEF Pending
  <2>3. \A k \in 1..a : [id |-> acc[k], status |-> "pending"] \in Items
    BY <2>1 DEF Items, Statuses, Ids
  <2> QED
    BY <1>5, <2>1, <2>2, <2>3
<1> HIDE DEF q, more, a
<1>10. queue' = q \o more
  BY <1>4 DEF q, more
<1>11. /\ queue' \in Seq(Items) /\ DOMAIN queue' = 1..(Len(queue) + a)
       /\ \A i \in DOMAIN queue : i \in DOMAIN queue' /\ queue'[i] = q[i]
       /\ \A i \in DOMAIN queue' \ DOMAIN queue :
             i - Len(queue) \in 1..a /\ queue'[i] = more[i - Len(queue)]
  <2> DEFINE c == queue'
  <2>1. c = q \o more
    BY <1>10
  <2> HIDE DEF c
  <2>2. /\ c \in Seq(Items) /\ DOMAIN c = 1..(Len(queue) + a)
        /\ \A i \in DOMAIN queue : i \in DOMAIN c /\ c[i] = q[i]
        /\ \A i \in DOMAIN c \ DOMAIN queue :
              i - Len(queue) \in 1..a /\ c[i] = more[i - Len(queue)]
    BY <1>8, <1>9, <2>1, Concatenated
  <2> QED
    BY <2>2 DEF c
<1>14. /\ \A i \in DOMAIN queue :
            i \in DOMAIN queue' /\ queue'[i].id = queue[i].id /\ (i # j => queue'[i] = queue[i])
       /\ \A i \in DOMAIN queue' \ DOMAIN queue :
            queue'[i].id \in FollowUps /\ queue'[i].status = "pending"
       /\ queue'[j].status = st
  BY <1>6, <1>8, <1>9, <1>11
<1>15. blocked' = FALSE => blocked = FALSE /\ st = "completed" /\ lost' = lost
  <2>1. blocked \in BOOLEAN /\ lost \in BOOLEAN
    BY DEF TypeOK
  <2> HIDE DEF dropped
  <2>2. lost' = (lost \/ dropped) /\ (blocked' = (blocked \/ st # "completed" \/ dropped) \/ blocked' = TRUE)
    BY <1>4 DEF Event, Blockers
  <2> QED
    BY <2>1, <2>2
<1>16. Settled(s, j, st, a)
  BY <1>4, <1>5, <1>6, <1>11, <1>14, <1>15 DEF Settled
<1> QED
  BY <1>16

-----------------------------------------------------------------------------
(* The steps that change the queue                                          *)

LEMMA SettledItem ==
  ASSUME SchedulerInv, NEW s \in active, Settle(s)
  PROVE  \E j, st, a : Settled(s, j, st, a)
<1>1. Going /\ s \in Out
  BY DEF Settle, Going, Out
<1>2. \E i \in DOMAIN queue : queue[i].id = s.id
  BY <1>1 DEF SchedulerInv, Books, Booked
<1> QED
  BY <1>2, SettleFacts DEF SchedulerInv

\* What a lease does: item i becomes running, session n of slot w takes it.
Leased(w, i, n) ==
    /\ w \in IdleSlots /\ i \in Leasable /\ i \in DOMAIN queue
    /\ queue' \in Seq(Items) /\ DOMAIN queue' = DOMAIN queue
    /\ queue[i].status = "pending" /\ queue'[i].status = "running"
    /\ \A k \in DOMAIN queue : queue'[k].id = queue[k].id /\ (k # i => queue'[k] = queue[k])
    /\ n \in Sessions /\ n.slot = w /\ n.id = queue[i].id
    /\ batch' = batch \cup {n}

LEMMA LeaseFacts ==
  ASSUME TypeOK, Lease
  PROVE  \E w, i, n : Leased(w, i, n)
<1>1. PICK w \in IdleSlots, i \in Leasable :
         /\ queue' = [queue EXCEPT ![i].status = "running"]
         /\ batch' = batch \cup {[slot |-> w, gen |-> slots[w].gen + 1, id |-> queue[i].id]}
  BY DEF Lease
<1> DEFINE n == [slot |-> w, gen |-> slots[w].gen + 1, id |-> queue[i].id]
<1>2. /\ i \in DOMAIN queue /\ queue[i].status = "pending" /\ queue \in Seq(Items)
      /\ w \in Slots /\ "running" \in Statuses
  BY DEF Leasable, Ready, WithStatus, TypeOK, IdleSlots, Statuses
<1>3. queue[i].id \in Ids
  <2>1. queue[i] \in Items
    BY <1>2
  <2> QED
    BY <2>1 DEF Items
<1>4. slots[w].gen + 1 \in Nat
  BY <1>2 DEF TypeOK
<1>5. n \in Sessions /\ n.slot = w /\ n.id = queue[i].id
  BY <1>2, <1>3, <1>4 DEF Sessions
<1>6. batch' = batch \cup {n}
  BY <1>1
<1> HIDE DEF n
<1> DEFINE q == queue'
<1>7. q = Put(queue, i, "running")
  BY <1>1 DEF Put
<1> HIDE DEF q
<1>8. /\ q \in Seq(Items) /\ DOMAIN q = DOMAIN queue /\ q[i].status = "running"
      /\ \A k \in DOMAIN queue : q[k].id = queue[k].id /\ (k # i => q[k] = queue[k])
  BY <1>2, <1>7, StatusSet
<1>9. Leased(w, i, n)
  BY <1>2, <1>5, <1>6, <1>8 DEF Leased, q
<1> QED
  BY <1>9

\* What stopScheduler does to the queue.
LEMMA CleanupFacts ==
  ASSUME TypeOK, StopCleanup
  PROVE  /\ queue' \in Seq(Items) /\ DOMAIN queue' = DOMAIN queue
         /\ \A i \in DOMAIN queue :
               /\ queue'[i].id = queue[i].id
               /\ queue'[i].status \notin {"pending", "running"}
               /\ queue[i].status = "completed" <=> queue'[i].status = "completed"
<1> DEFINE b(i) == IF i \in Unfinished THEN [queue[i] EXCEPT !.status = "blocked"] ELSE queue[i]
<1>1. queue' = [i \in DOMAIN queue |-> b(i)]
  BY DEF StopCleanup
<1>2. queue \in Seq(Items) /\ \A i \in DOMAIN queue : queue[i] \in Items
  BY DEF TypeOK
<1>3. ASSUME NEW i \in DOMAIN queue
      PROVE  /\ b(i) \in Items /\ b(i).id = queue[i].id
             /\ b(i).status \notin {"pending", "running"}
             /\ queue[i].status = "completed" <=> b(i).status = "completed"
  <2>1. queue[i] \in Items
    BY <1>2
  <2>2. CASE i \in Unfinished
    BY <2>1, <2>2 DEF Items, Statuses, Unfinished, WithStatus
  <2>3. CASE i \notin Unfinished
    BY <2>1, <2>3 DEF Items, Statuses, Unfinished, WithStatus
  <2> QED
    BY <2>2, <2>3
<1> HIDE DEF b
<1>4. PICK m \in Nat : DOMAIN queue = 1..m
  BY <1>2
<1>5. queue' \in Seq(Items)
  BY <1>1, <1>3, <1>4
<1> QED
  BY <1>1, <1>3, <1>5

-----------------------------------------------------------------------------
(* Types                                                                    *)

LEMMA TypeFrame ==
  ASSUME TypeOK, UNCHANGED <<queue, generated, slots, open, batch, active, lost>>,
         live' \subseteq live, stop' \in {"none", "wall", "abort"}, terminal' \in StopReasons,
         blocked' \in BOOLEAN, claim' \in BOOLEAN, ret' \in {"loop", "ready"},
         pc' \in {"start", "loop", "wait", "refill", "collect", "dispatch",
                  "launched", "stopping", "drain", "drained", "returned", "thrown"}
  PROVE  TypeOK'
  BY DEF TypeOK

LEMMA TypeStep == SchedulerInv /\ [Next]_vars => TypeOK'
<1> SUFFICES ASSUME SchedulerInv, [Next]_vars PROVE TypeOK'
  OBVIOUS
<1>0. TypeOK /\ PoolInv
  BY DEF SchedulerInv
<1>00. /\ blocked \in BOOLEAN /\ claim \in BOOLEAN /\ lost \in BOOLEAN
       /\ stop \in {"none", "wall", "abort"} /\ terminal \in StopReasons /\ ret \in {"loop", "ready"}
       /\ generated \in Nat
  BY <1>0 DEF TypeOK
<1>1. CASE Start
  BY <1>0, <1>00, <1>1, TypeFrame DEF Start, Stop, Event, StopReasons
<1>2. CASE Loop
  <2>1. /\ UNCHANGED <<queue, generated, slots, open, batch, active, lost, live, stop, claim>>
        /\ terminal' \in StopReasons /\ ret' \in {"loop", "ready"}
        /\ blocked' = blocked \/ blocked' = TRUE
        /\ pc' \in {"drain", "wait", "refill", "stopping"}
    BY <1>2, <1>00 DEF Loop, Stop, StopReasons
  <2> QED
    BY <1>0, <1>00, <2>1, TypeFrame
<1>3. CASE StopWhileWaiting \/ Refill \/ Launched
  BY <1>0, <1>00, <1>3, TypeFrame DEF StopWhileWaiting, Refill, Launched, Stop, Event, StopReasons
<1>4. CASE Collected
  BY <1>0, <1>00, <1>4, TypeFrame DEF Collected, Stop, StopReasons
<1>5. CASE Drained
  <2>1. /\ UNCHANGED <<queue, generated, slots, open, batch, active, lost, live, stop, terminal, ret>>
        /\ (blocked' = blocked \/ blocked' = TRUE) /\ claim' = ~blocked' /\ pc' = "returned"
    BY <1>5 DEF Drained, Event
  <2>2. blocked' \in BOOLEAN
    BY <1>00, <2>1
  <2> QED
    BY <1>0, <1>00, <2>1, <2>2, TypeFrame
<1>6. CASE Throw
  BY <1>0, <1>00, <1>6, TypeFrame DEF Throw
<1>7. CASE (\E s \in live : WorkerEnds(s)) \/ WallTime \/ Abort \/ Terminated \/ UNCHANGED vars
  <2>1. /\ UNCHANGED <<queue, generated, slots, open, batch, active, lost, terminal, blocked, claim, ret, pc>>
        /\ live' \subseteq live /\ stop' \in {stop, "wall", "abort"}
    BY <1>7 DEF WorkerEnds, WallTime, Abort, Signal, Terminated, vars
  <2>2. pc \in {"start", "loop", "wait", "refill", "collect", "dispatch",
                  "launched", "stopping", "drain", "drained", "returned", "thrown"}
    BY <1>0 DEF TypeOK
  <2> QED
    BY <1>0, <1>00, <2>1, <2>2, TypeFrame
<1>8. ASSUME NEW s \in active, Settle(s) PROVE TypeOK'
  <2>1. PICK j, st, a : Settled(s, j, st, a)
    BY <1>8, SettledItem
  <2>2. queue' \in Seq(Items) /\ generated' \in Nat
    BY <2>1, <1>00 DEF Settled
  <2>3. /\ active' \subseteq active /\ open' \subseteq open /\ pc' = "refill" /\ ret' = "loop"
        /\ slots' = [slots EXCEPT ![s.slot].status = "idle"]
        /\ UNCHANGED <<batch, live, stop, terminal, claim>>
    BY <1>8 DEF Settle, Idle
  <2>4. slots' \in [Slots -> [status : {"idle", "running", "closed"}, gen : Nat]]
    BY <1>0, <2>3 DEF TypeOK
  <2>5. lost' \in BOOLEAN /\ blocked' \in BOOLEAN
    BY <1>8, <1>00 DEF Settle, Event, Blockers
  <2> QED
    BY <1>0, <2>2, <2>3, <2>4, <2>5 DEF TypeOK
<1>9. CASE Lease
  <2>1. PICK w, i, n : Leased(w, i, n)
    BY <1>0, <1>9, LeaseFacts
  <2>2. queue' \in Seq(Items) /\ n \in Sessions /\ batch' = batch \cup {n}
    BY <2>1 DEF Leased
  <2>3. UNCHANGED <<generated, slots, open, active, live, stop, terminal, blocked, claim, lost, pc, ret>>
    BY <1>9 DEF Lease
  <2> QED
    BY <1>0, <2>2, <2>3 DEF TypeOK
<1>10. CASE Dispatch
  <2>1. PoolInv'
    BY <1>0, <1>10, PoolStep DEF Next, Run
  <2>2. slots' \in [Slots -> [status : {"idle", "running", "closed"}, gen : Nat]]
    BY <2>1 DEF PoolInv, PoolTypes, SlotStates
  <2>3. /\ active' \subseteq active \cup batch /\ live' \subseteq live \cup batch
        /\ open' = open \cup batch /\ batch' = {}
        /\ blocked' \in {blocked, TRUE} /\ terminal' \in {terminal, "dispatch"}
        /\ pc' \in {"launched", "stopping"}
        /\ UNCHANGED <<queue, generated, stop, claim, lost, ret>>
    BY <1>10 DEF Dispatch, Stop, Event
  <2>4. terminal' \in StopReasons /\ blocked' \in BOOLEAN
    BY <1>00, <2>3 DEF StopReasons
  <2> QED
    BY <1>0, <2>2, <2>3, <2>4 DEF TypeOK
<1>11. CASE StopCleanup
  <2>1. PoolInv'
    BY <1>0, <1>11, PoolStep DEF Next, Run
  <2>2. slots' \in [Slots -> [status : {"idle", "running", "closed"}, gen : Nat]]
    BY <2>1 DEF PoolInv, PoolTypes, SlotStates
  <2>3. /\ queue' \in Seq(Items) /\ open' \subseteq open /\ active' = {} /\ pc' = "drain"
        /\ UNCHANGED <<generated, batch, live, stop, terminal, blocked, claim, lost, ret>>
    BY <1>0, <1>11, CleanupFacts DEF StopCleanup
  <2> QED
    BY <1>0, <2>2, <2>3 DEF TypeOK
<1>12. CASE Drain
  <2>1. PoolInv'
    BY <1>0, <1>12, PoolStep DEF Next, Run
  <2>2. slots' \in [Slots -> [status : {"idle", "running", "closed"}, gen : Nat]]
    BY <2>1 DEF PoolInv, PoolTypes, SlotStates
  <2>3. /\ blocked' \in BOOLEAN /\ pc' = "drained"
        /\ UNCHANGED <<queue, generated, open, batch, active, live, stop, terminal, claim, lost, ret>>
    BY <1>00, <1>12 DEF Drain, Event
  <2> QED
    BY <1>0, <2>2, <2>3 DEF TypeOK
<1> QED
  BY <1>1, <1>2, <1>3, <1>4, <1>5, <1>6, <1>7, <1>8, <1>9, <1>10, <1>11, <1>12 DEF Next, Run

-----------------------------------------------------------------------------
(* Who runs what                                                            *)

\* A completed slice stays completed.
LEMMA DoneStays ==
  ASSUME \A i \in DOMAIN queue : queue[i].id \in Slices /\ queue[i].status = "completed" =>
            i \in DOMAIN queue' /\ queue'[i].id = queue[i].id /\ queue'[i].status = "completed"
  PROVE  Done \subseteq Done'
<1> SUFFICES ASSUME NEW x \in Done PROVE x \in Done'
  OBVIOUS
<1>1. x \in Slices
  BY DEF Done
<1>2. PICK i \in DOMAIN queue : queue[i].id = x /\ queue[i].status = "completed"
  BY DEF Done, IdsOf, WithStatus
<1>3. i \in DOMAIN queue' /\ queue'[i].id = x /\ queue'[i].status = "completed"
  BY <1>1, <1>2
<1> QED
  BY <1>1, <1>3 DEF Done, IdsOf, WithStatus

\* Steps that leave the queue alone, and the sessions as long as it matters.
LEMMA BooksFrame ==
  ASSUME Books, UNCHANGED queue, Out' \subseteq Out, Going' => Going /\ Out' = Out
  PROVE  Books'
<1>1. SlicesOnce' /\ Apart'
  BY DEF Books, SlicesOnce, Apart
<1>2. Booked'
  BY DEF Books, Booked
<1>3. Done' = Done
  BY DEF Done, IdsOf, WithStatus
<1>4. Behind'
  BY <1>3 DEF Books, Behind, DepsDone, WithStatus
<1> QED
  BY <1>1, <1>2, <1>4 DEF Books

LEMMA BooksSettle ==
  ASSUME SchedulerInv, NEW s \in active, Settle(s)
  PROVE  Books'
<1>1. PICK j, st, a : Settled(s, j, st, a)
  BY SettledItem
<1>2. /\ Going /\ s \in Out /\ Out' = Out \ {s}
  BY DEF Settle, Going, Out, SchedulerInv, PoolInv
<1>3. /\ j \in DOMAIN queue /\ queue[j].id = s.id
      /\ st \in {"completed", "failed", "blocked"} /\ queue'[j].status = st
      /\ \A i \in DOMAIN queue :
            i \in DOMAIN queue' /\ queue'[i].id = queue[i].id /\ (i # j => queue'[i] = queue[i])
      /\ \A i \in DOMAIN queue' \ DOMAIN queue :
            queue'[i].id \notin Slices /\ queue'[i].status = "pending"
  BY <1>1, SchedulerAssumption DEF Settled
<1>4. SlicesOnce /\ Booked /\ Apart /\ Behind
  BY DEF SchedulerInv, Books
<1>5. SlicesOnce'
  BY <1>3, <1>4 DEF SlicesOnce
<1>6. s.id \in Slices => queue[j].status = "running"
  BY <1>2, <1>3, <1>4 DEF SlicesOnce, Booked
<1>7. Done \subseteq Done'
  <2>1. ASSUME NEW i \in DOMAIN queue, queue[i].id \in Slices, queue[i].status = "completed"
        PROVE  i \in DOMAIN queue' /\ queue'[i].id = queue[i].id /\ queue'[i].status = "completed"
    <3>1. i # j
      BY <1>3, <1>6, <2>1
    <3> QED
      BY <1>3, <2>1, <3>1
  <2> QED
    BY <2>1, DoneStays
<1>8. Booked'
  <2>1. ASSUME NEW t \in Out'
        PROVE  \E i \in DOMAIN queue' :
                  queue'[i].id = t.id /\ (t.id \in Slices => queue'[i].status = "running")
    <3>1. t \in Out /\ t # s
      BY <1>2
    <3>2. PICK i \in DOMAIN queue :
             queue[i].id = t.id /\ (t.id \in Slices => queue[i].status = "running")
      BY <1>2, <1>4, <3>1 DEF Booked
    <3>3. t.id \in Slices => i # j
      BY <1>2, <1>3, <1>4, <3>1, <3>2 DEF Apart
    <3> QED
      BY <1>3, <3>2, <3>3
  <2>2. ASSUME NEW i \in DOMAIN queue', queue'[i].id \in Slices, queue'[i].status = "running"
        PROVE  \E t \in Out' : t.id = queue'[i].id
    <3>1. i \in DOMAIN queue /\ i # j
      BY <1>3, <2>2
    <3>2. queue[i].id \in Slices /\ queue[i].status = "running" /\ queue'[i].id = queue[i].id
      BY <1>3, <2>2, <3>1
    <3>3. PICK t \in Out : t.id = queue[i].id
      BY <1>2, <1>4, <3>1, <3>2 DEF Booked
    <3>4. t # s
      BY <1>3, <1>4, <3>1, <3>2, <3>3 DEF SlicesOnce
    <3> QED
      BY <1>2, <3>2, <3>3, <3>4
  <2> QED
    BY <2>1, <2>2 DEF Booked
<1>9. Apart'
  BY <1>2, <1>4 DEF Apart
<1>10. Behind'
  <2>1. ASSUME NEW i \in DOMAIN queue', queue'[i].status \in {"running", "completed"}
        PROVE  Deps[queue'[i].id] \cap Slices \subseteq Done'
    <3>1. i \in DOMAIN queue /\ queue'[i].id = queue[i].id
      BY <1>3, <2>1
    <3>2. CASE i = j
      BY <1>2, <1>3, <1>4, <1>7, <3>1, <3>2 DEF Behind, DepsDone
    <3>3. CASE i # j
      BY <1>3, <1>4, <1>7, <2>1, <3>1, <3>3 DEF Behind, DepsDone, WithStatus
    <3> QED
      BY <3>2, <3>3
  <2>2. \A t \in Out' : Deps[t.id] \cap Slices \subseteq Done'
    BY <1>2, <1>4, <1>7 DEF Behind, DepsDone
  <2> QED
    BY <2>1, <2>2 DEF Behind, DepsDone, WithStatus
<1> QED
  BY <1>5, <1>8, <1>9, <1>10 DEF Books

LEMMA BooksLease ==
  ASSUME SchedulerInv, Lease
  PROVE  Books'
<1>1. PICK w, i, n : Leased(w, i, n)
  BY LeaseFacts DEF SchedulerInv
<1>2. /\ i \in Leasable /\ i \in DOMAIN queue /\ DOMAIN queue' = DOMAIN queue
      /\ queue[i].status = "pending" /\ queue'[i].status = "running"
      /\ \A k \in DOMAIN queue : queue'[k].id = queue[k].id /\ (k # i => queue'[k] = queue[k])
      /\ n.id = queue[i].id
  BY <1>1 DEF Leased
<1>3. Going /\ Going' /\ Out' = Out \cup {n}
  BY <1>1 DEF Leased, Lease, Going, Out
<1>4. SlicesOnce /\ Booked /\ Apart /\ Behind
  BY DEF SchedulerInv, Books
<1>5. SlicesOnce'
  BY <1>2, <1>4 DEF SlicesOnce
<1>6. Done \subseteq Done'
  BY <1>2, DoneStays
<1>7. Booked'
  <2>1. ASSUME NEW t \in Out'
        PROVE  \E k \in DOMAIN queue' :
                  queue'[k].id = t.id /\ (t.id \in Slices => queue'[k].status = "running")
    <3>1. CASE t = n
      BY <1>2, <3>1
    <3>2. CASE t \in Out
      <4>1. PICK k \in DOMAIN queue :
               queue[k].id = t.id /\ (t.id \in Slices => queue[k].status = "running")
        BY <1>3, <1>4, <3>2 DEF Booked
      <4> QED
        BY <1>2, <4>1
    <3> QED
      BY <1>3, <3>1, <3>2
  <2>2. ASSUME NEW k \in DOMAIN queue', queue'[k].id \in Slices, queue'[k].status = "running"
        PROVE  \E t \in Out' : t.id = queue'[k].id
    <3>1. CASE k = i
      BY <1>2, <1>3, <3>1
    <3>2. CASE k # i
      BY <1>2, <1>3, <1>4, <2>2, <3>2 DEF Booked
    <3> QED
      BY <3>1, <3>2
  <2> QED
    BY <2>1, <2>2 DEF Booked
<1>8. ASSUME NEW t \in Out
      PROVE  SliceWrites(n.id) \cap SliceWrites(t.id) = {} /\ (n.id \in Slices => n.id # t.id)
  <2>1. PICK k \in DOMAIN queue :
           queue[k].id = t.id /\ (t.id \in Slices => queue[k].status = "running")
    BY <1>3, <1>4 DEF Booked
  <2>2. t.id \in Slices => k # i
    BY <1>2, <2>1
  <2>3. t.id \in Slices => t.id \in IdsOf(WithStatus({"running"}))
    BY <2>1 DEF IdsOf, WithStatus
  <2>4. SliceWrites(t.id) \subseteq ActiveWritePaths
    <3>1. CASE t.id \in Slices
      BY <2>3, <3>1 DEF ActiveWritePaths
    <3>2. CASE t.id \notin Slices
      BY <3>2 DEF SliceWrites
    <3> QED
      BY <3>1, <3>2
  <2>5. SliceWrites(queue[i].id) \cap ActiveWritePaths = {}
    BY <1>2 DEF Leasable
  <2> QED
    BY <1>2, <1>4, <2>1, <2>2, <2>4, <2>5 DEF SlicesOnce
<1>9. Apart'
  <2> SUFFICES ASSUME NEW s \in Out', NEW t \in Out', s # t
               PROVE  /\ SliceWrites(s.id) \cap SliceWrites(t.id) = {}
                      /\ s.id \in Slices => s.id # t.id
    BY DEF Apart, SliceWrites
  <2>1. CASE s \in Out /\ t \in Out
    BY <1>4, <2>1 DEF Apart
  <2>2. CASE s = n /\ t \in Out
    BY <1>8, <2>2
  <2>3. CASE s \in Out /\ t = n
    BY <1>8, <2>3
  <2> QED
    BY <1>3, <2>1, <2>2, <2>3
<1>10. Deps[queue[i].id] \cap Slices \subseteq Done
  BY <1>2 DEF Leasable, Ready, Done
<1>11. Behind'
  <2>1. ASSUME NEW k \in DOMAIN queue', queue'[k].status \in {"running", "completed"}
        PROVE  Deps[queue'[k].id] \cap Slices \subseteq Done'
    <3>1. CASE k = i
      BY <1>2, <1>6, <1>10, <3>1
    <3>2. CASE k # i
      BY <1>2, <1>4, <1>6, <2>1, <3>2 DEF Behind, DepsDone, WithStatus
    <3> QED
      BY <3>1, <3>2
  <2>2. ASSUME NEW t \in Out' PROVE Deps[t.id] \cap Slices \subseteq Done'
    <3>1. CASE t \in Out
      BY <1>4, <1>6, <3>1 DEF Behind, DepsDone
    <3>2. CASE t = n
      BY <1>2, <1>6, <1>10, <3>2
    <3> QED
      BY <1>3, <3>1, <3>2
  <2> QED
    BY <2>1, <2>2 DEF Behind, DepsDone, WithStatus
<1> QED
  BY <1>5, <1>7, <1>9, <1>11 DEF Books

LEMMA BooksStep == SchedulerInv /\ [Next]_vars => Books'
<1> SUFFICES ASSUME SchedulerInv, [Next]_vars PROVE Books'
  OBVIOUS
<1>0. Books /\ TypeOK /\ PoolInv
  BY DEF SchedulerInv
<1>1. CASE Start \/ Loop \/ StopWhileWaiting \/ Refill \/ Launched
  <2>1. UNCHANGED <<queue, active, batch>> /\ Going
    BY <1>1 DEF Start, Loop, StopWhileWaiting, Refill, Launched, Going
  <2> QED
    BY <1>0, <2>1, BooksFrame DEF Out
<1>2. CASE Collected \/ Drained \/ Throw
  <2>1. UNCHANGED <<queue, active, batch>> /\ (Going' => Going)
    BY <1>2 DEF Collected, Drained, Throw, Going, Stop
  <2> QED
    BY <1>0, <2>1, BooksFrame DEF Out
<1>3. CASE (\E s \in live : WorkerEnds(s)) \/ WallTime \/ Abort \/ Terminated \/ UNCHANGED vars
  <2>1. UNCHANGED <<queue, active, batch, pc>>
    BY <1>3 DEF WorkerEnds, WallTime, Abort, Signal, Terminated, vars
  <2> QED
    BY <1>0, <2>1, BooksFrame DEF Out, Going
<1>4. CASE Drain
  <2>1. UNCHANGED <<queue, active, batch>> /\ ~Going'
    BY <1>4 DEF Drain, Going
  <2> QED
    BY <1>0, <2>1, BooksFrame DEF Out
<1>5. CASE Dispatch
  <2>1. UNCHANGED queue /\ Going /\ Out' \subseteq Out /\ (Going' => Out' = Out)
    BY <1>5 DEF Dispatch, Going, Out, Stop
  <2> QED
    BY <1>0, <2>1, BooksFrame
<1>6. CASE StopCleanup
  <2>1. /\ DOMAIN queue' = DOMAIN queue
        /\ \A i \in DOMAIN queue :
               /\ queue'[i].id = queue[i].id
               /\ queue'[i].status \notin {"pending", "running"}
               /\ queue[i].status = "completed" <=> queue'[i].status = "completed"
    BY <1>0, <1>6, CleanupFacts
  <2>2. ~Going' /\ Out' = {}
    BY <1>0, <1>6 DEF StopCleanup, Going, Out, PoolInv
  <2>3. Done \subseteq Done'
    BY <2>1, DoneStays
  <2>4. SlicesOnce'
    BY <1>0, <2>1 DEF Books, SlicesOnce
  <2>5. Behind'
    <3>1. ASSUME NEW k \in DOMAIN queue', queue'[k].status \in {"running", "completed"}
          PROVE  Deps[queue'[k].id] \cap Slices \subseteq Done'
      BY <1>0, <2>1, <2>3, <3>1 DEF Books, Behind, DepsDone, WithStatus
    <3> QED
      BY <2>2, <3>1 DEF Behind, DepsDone, WithStatus
  <2> QED
    BY <2>2, <2>4, <2>5 DEF Books, Booked, Apart
<1> QED
  BY <1>1, <1>2, <1>3, <1>4, <1>5, <1>6, BooksSettle, BooksLease DEF Next, Run

-----------------------------------------------------------------------------
(* What withholds the claim                                                 *)

LEMMA HonestStep == SchedulerInv /\ [Next]_vars => Honest'
<1> SUFFICES ASSUME SchedulerInv, [Next]_vars PROVE Honest'
  OBVIOUS
<1>0. Honest /\ TypeOK /\ PoolInv
  BY DEF SchedulerInv
<1>00. blocked \in BOOLEAN /\ lost \in BOOLEAN /\ claim \in BOOLEAN
  BY <1>0 DEF TypeOK
<1>1. CASE Start \/ StopWhileWaiting \/ Refill \/ Launched \/ Collected
  <2>1. /\ UNCHANGED <<queue, active, live, open, claim, lost>>
        /\ pc' \notin {"drain", "drained", "returned"}
        /\ \/ blocked' = blocked /\ UNCHANGED terminal /\ pc' # "stopping"
           \/ blocked' = TRUE /\ UNCHANGED terminal /\ pc' # "stopping"
           \/ blocked' = TRUE /\ terminal' # "none"
    BY <1>1 DEF Start, StopWhileWaiting, Refill, Launched, Collected, Stop, Event
  <2> QED
    BY <1>0, <1>00, <2>1 DEF Honest, WithStatus
<1>2. CASE Loop
  <2>1. /\ UNCHANGED <<queue, active, live, open, claim, lost>>
        /\ pc' = "drain" => active = {} /\ Unfinished = {}
        /\ pc' \notin {"drained", "returned"}
        /\ \/ blocked' = blocked /\ UNCHANGED terminal /\ pc' # "stopping"
           \/ blocked' = TRUE /\ terminal' # "none"
    BY <1>2 DEF Loop, Stop
  <2> QED
    BY <1>0, <1>00, <2>1 DEF Honest, WithStatus, Unfinished
<1>3. CASE (\E s \in live : WorkerEnds(s)) \/ WallTime \/ Abort \/ Terminated \/ UNCHANGED vars
  <2>1. /\ UNCHANGED <<queue, active, open, claim, lost, blocked, terminal, pc>>
        /\ live' \subseteq live
    BY <1>3 DEF WorkerEnds, WallTime, Abort, Signal, Terminated, vars
  <2> QED
    BY <1>0, <2>1 DEF Honest, WithStatus, Unfinished
<1>4. CASE Throw
  BY <1>0, <1>4 DEF Throw, Honest, WithStatus, Unfinished
<1>5. ASSUME NEW s \in active, Settle(s) PROVE Honest'
  <2>1. PICK j, st, a : Settled(s, j, st, a)
    BY <1>5, SettledItem
  <2>2. /\ pc' = "refill" /\ UNCHANGED <<live, terminal>> /\ active' = active \ {s} /\ s \notin live
    BY <1>5 DEF Settle
  <2>3. /\ blocked' = FALSE => blocked = FALSE /\ st = "completed" /\ lost' = lost
        /\ queue'[j].status = st
        /\ \A i \in DOMAIN queue : i # j => queue'[i] = queue[i]
        /\ \A i \in DOMAIN queue' \ DOMAIN queue : queue'[i].status = "pending"
    BY <2>1 DEF Settled
  <2>4. blocked' \in BOOLEAN
    BY TypeStep DEF TypeOK
  <2>5. ~blocked' => WithStatus({"failed", "blocked"})' = {}
    BY <1>0, <2>3, <2>4 DEF Honest, WithStatus
  <2> QED
    BY <1>0, <2>2, <2>3, <2>4, <2>5 DEF Honest
<1>6. CASE Lease
  <2>1. PICK w, i, n : Leased(w, i, n)
    BY <1>0, <1>6, LeaseFacts
  <2>2. /\ DOMAIN queue' = DOMAIN queue /\ queue'[i].status = "running"
        /\ \A k \in DOMAIN queue : k # i => queue'[k] = queue[k]
    BY <2>1 DEF Leased
  <2>3. pc = "collect" /\ UNCHANGED <<active, live, terminal, blocked, lost, pc>>
    BY <1>6 DEF Lease
  <2>4. ~blocked => WithStatus({"failed", "blocked"})' = {}
    BY <1>0, <2>2 DEF Honest, WithStatus
  <2> QED
    BY <1>0, <2>3, <2>4 DEF Honest
<1>7. CASE Dispatch
  <2>1. /\ UNCHANGED <<queue, lost>> /\ pc' \in {"launched", "stopping"}
        /\ \/ /\ active' = active \cup batch /\ live' = live \cup batch
              /\ (blocked' = blocked \/ blocked' = TRUE) /\ UNCHANGED terminal /\ pc' # "stopping"
           \/ blocked' = TRUE /\ terminal' # "none"
    BY <1>7 DEF Dispatch, Stop, Event
  <2> QED
    BY <1>0, <1>00, <2>1 DEF Honest, WithStatus
<1>8. CASE StopCleanup
  <2>1. pc' = "drain" /\ pc = "stopping" /\ active' = {} /\ UNCHANGED blocked
    BY <1>8 DEF StopCleanup
  <2>2. blocked
    BY <1>0, <2>1 DEF Honest
  <2>3. Unfinished' = {}
    BY <1>0, <1>8, CleanupFacts DEF Unfinished, WithStatus
  <2> QED
    BY <2>1, <2>2, <2>3 DEF Honest
<1>9. CASE Drain
  <2>1. /\ pc = "drain" /\ pc' = "drained" /\ UNCHANGED <<queue, open, active, live, terminal, lost>>
        /\ \/ blocked' = (blocked \/ Unfinished # {} \/ active # {} \/ open # {})
           \/ blocked' = TRUE
    BY <1>9 DEF Drain, Event
  <2>2. ~blocked' => ~blocked /\ open = {}
    BY <1>00, <2>1
  <2> QED
    BY <1>0, <2>1, <2>2 DEF Honest, WithStatus, Unfinished
<1>10. CASE Drained
  <2>1. /\ pc = "drained" /\ pc' = "returned" /\ UNCHANGED <<queue, open, active, live, terminal, lost>>
        /\ (blocked' = blocked \/ blocked' = TRUE) /\ claim' = ~blocked'
    BY <1>10 DEF Drained, Event
  <2>2. (~blocked' => ~blocked) /\ (claim' => ~blocked')
    BY <1>00, <2>1
  <2> QED
    BY <1>0, <2>1, <2>2 DEF Honest, WithStatus, Unfinished
<1> QED
  BY <1>1, <1>2, <1>3, <1>4, <1>5, <1>6, <1>7, <1>8, <1>9, <1>10 DEF Next, Run

-----------------------------------------------------------------------------
(* The dead branch and the bound of the queue                               *)

\* With no session at all, a ready item can be leased.
LEMMA ReadyIsLeasable ==
  ASSUME SchedulerInv, pc = "collect", active = {}, batch = {}, Ready # {}
  PROVE  Room /\ IdleSlots # {} /\ Leasable # {}
<1>0. Slots # {} /\ IsFiniteSet(Slots)
  BY SchedulerAssumption
<1>1. Room
  <2>1. Cardinality({}) = 0
    BY FS_EmptySet
  <2>2. Cardinality(Slots) \in Nat /\ Cardinality(Slots) # 0
    BY <1>0, FS_CardinalityType, FS_EmptySet
  <2> QED
    BY <2>1, <2>2 DEF Room
<1>2. IdleSlots # {}
  <2>1. PICK w \in Slots : TRUE
    BY <1>0
  <2>2. slots[w].status # "running" /\ slots[w].status # "closed"
    BY DEF SchedulerInv, PoolInv, SessionsMatchSlots, Launchable
  <2>3. slots[w] \in SlotStates
    BY DEF SchedulerInv, PoolInv, PoolTypes
  <2>4. slots[w].status = "idle"
    BY <2>2, <2>3 DEF SlotStates
  <2> QED
    BY <2>4 DEF IdleSlots
<1>3. ASSUME NEW id \in IdsOf(WithStatus({"running"})) PROVE SliceWrites(id) = {}
  <2>1. id \notin Slices
    BY DEF IdsOf, WithStatus, SchedulerInv, Books, Booked, Going, Out
  <2> QED
    BY <2>1 DEF SliceWrites
<1>4. ActiveWritePaths = {}
  BY <1>3 DEF ActiveWritePaths
<1> QED
  BY <1>1, <1>2, <1>4 DEF Leasable

LEMMA LaunchableStep == SchedulerInv /\ [Next]_vars => Launchable'
<1> SUFFICES ASSUME SchedulerInv, [Next]_vars PROVE Launchable'
  OBVIOUS
<1>0. Launchable /\ TypeOK /\ PoolInv
  BY DEF SchedulerInv
<1>00. stop # "no_slot" /\ slots \in [Slots -> SlotStates]
  BY <1>0 DEF TypeOK, PoolInv, PoolTypes
<1>1. CASE Start \/ StopWhileWaiting \/ Refill \/ Launched
  BY <1>0, <1>00, <1>1 DEF Start, StopWhileWaiting, Refill, Launched, Stop, Launchable, Ready, WithStatus, IdsOf
<1>2. CASE Loop
  BY <1>0, <1>00, <1>2 DEF Loop, Stop, Launchable, PoolInv, Ready, WithStatus, IdsOf
<1>3. CASE Collected
  <2>1. /\ pc = "collect" /\ UNCHANGED slots /\ pc' \in {"dispatch", "loop", "stopping"}
        /\ terminal' = terminal \/ (batch = {} /\ ret = "ready" /\ active = {})
        /\ ~Room \/ IdleSlots = {} \/ Leasable = {}
    BY <1>3 DEF Collected, Stop
  <2>2. ~(batch = {} /\ ret = "ready" /\ active = {})
    BY <1>0, <2>1, ReadyIsLeasable DEF Launchable
  <2> QED
    BY <1>0, <2>1, <2>2 DEF Launchable
<1>4. CASE (\E s \in live : WorkerEnds(s)) \/ WallTime \/ Abort \/ Terminated \/ UNCHANGED vars
  <2>1. UNCHANGED <<queue, slots, active, batch, pc, ret, terminal>>
    BY <1>4 DEF WorkerEnds, WallTime, Abort, Signal, Terminated, vars
  <2> QED
    BY <1>0, <2>1 DEF Launchable, Ready, WithStatus, IdsOf
<1>5. CASE Throw \/ Drain \/ Drained
  BY <1>0, <1>5 DEF Throw, Drain, Drained, Launchable
<1>6. ASSUME NEW s \in active, Settle(s) PROVE Launchable'
  <2>1. /\ pc = "wait" /\ pc' = "refill" /\ ret' = "loop" /\ UNCHANGED terminal
        /\ slots' = [slots EXCEPT ![s.slot].status = "idle"]
    BY <1>6 DEF Settle, Idle
  <2>2. \A w \in Slots : slots'[w].status # "closed"
    BY <1>0, <1>00, <2>1 DEF Launchable, SlotStates
  <2> QED
    BY <1>0, <2>1, <2>2 DEF Launchable
<1>7. CASE Lease
  BY <1>0, <1>7 DEF Lease, Launchable
<1>8. CASE Dispatch
  <2>1. /\ pc = "dispatch" /\ slots' = OpenedSlots /\ pc' \in {"launched", "stopping"}
        /\ terminal' \in {terminal, "dispatch"}
    BY <1>8 DEF Dispatch, Stop
  <2>2. \A w \in Slots : slots'[w] = slots[w] \/ slots'[w] = [status |-> "running", gen |-> SessionOf(w).gen]
    BY <2>1, Zenon DEF OpenedSlots
  <2>3. \A w \in Slots : slots'[w].status # "closed"
    <3> SUFFICES ASSUME NEW w \in Slots PROVE slots'[w].status # "closed"
      OBVIOUS
    <3>1. CASE slots'[w] = slots[w]
      BY <1>0, <2>1, <3>1 DEF Launchable
    <3>2. ASSUME NEW g, slots'[w] = [status |-> "running", gen |-> g]
          PROVE  slots'[w].status # "closed"
      BY <3>2
    <3> QED
      BY <2>2, <3>1, <3>2, Zenon
  <2> QED
    BY <1>0, <2>1, <2>3 DEF Launchable
<1>9. CASE StopCleanup
  <2>1. /\ pc = "stopping" /\ pc' = "drain" /\ UNCHANGED terminal
        /\ slots' = [w \in Slots |-> IF \E s \in active : s.slot = w
                                     THEN [slots[w] EXCEPT !.status = "idle"] ELSE slots[w]]
    BY <1>9 DEF StopCleanup
  <2>2. \A w \in Slots : slots'[w].status # "closed"
    BY <1>0, <1>00, <2>1 DEF Launchable, SlotStates
  <2> QED
    BY <1>0, <2>1, <2>2 DEF Launchable
<1> QED
  BY <1>1, <1>2, <1>3, <1>4, <1>5, <1>6, <1>7, <1>8, <1>9 DEF Next, Run

\* The positions of follow-ups in the queue.
Added == {i \in DOMAIN queue : queue[i].id \in FollowUps}

LEMMA ExpansionStep == SchedulerInv /\ [Next]_vars => ExpansionBounded'
<1> SUFFICES ASSUME SchedulerInv, [Next]_vars PROVE ExpansionBounded'
  OBVIOUS
<1>0. ExpansionBounded /\ TypeOK
  BY DEF SchedulerInv
<1>1. ASSUME DOMAIN queue' = DOMAIN queue, \A i \in DOMAIN queue : queue'[i].id = queue[i].id,
             UNCHANGED generated
      PROVE  ExpansionBounded'
  <2>1. Added' = Added
    BY <1>1 DEF Added
  <2> QED
    BY <1>0, <1>1, <2>1 DEF ExpansionBounded, Added
<1>2. CASE UNCHANGED <<queue, generated>>
  BY <1>1, <1>2
<1>3. CASE Lease
  BY <1>0, <1>1, <1>3, LeaseFacts DEF Leased, Lease
<1>4. CASE StopCleanup
  BY <1>0, <1>1, <1>4, CleanupFacts DEF StopCleanup
<1>5. ASSUME NEW s \in active, Settle(s) PROVE ExpansionBounded'
  <2>1. PICK j, st, a : Settled(s, j, st, a)
    BY <1>5, SettledItem
  <2>2. /\ a \in Nat /\ generated' = generated + a
        /\ generated <= MaxExpansion => generated' <= MaxExpansion
        /\ DOMAIN queue' = 1..(Len(queue) + a)
        /\ \A i \in DOMAIN queue : i \in DOMAIN queue' /\ queue'[i].id = queue[i].id
        /\ \A i \in DOMAIN queue' \ DOMAIN queue : queue'[i].id \in FollowUps
    BY <2>1 DEF Settled
  <2>3. Len(queue) \in Nat /\ DOMAIN queue = 1..Len(queue)
    BY <1>0 DEF TypeOK
  <2> DEFINE l == Len(queue)
             new == (l + 1)..(l + a)
  <2>4. DOMAIN queue' = DOMAIN queue \cup new /\ DOMAIN queue \cap new = {}
    BY <2>2, <2>3
  <2>5. Added' = Added \cup new /\ Added \cap new = {}
    BY <2>2, <2>4 DEF Added
  <2>6. IsFiniteSet(new) /\ Cardinality(new) = a
    <3>1. l + 1 \in Int /\ l + a \in Int
      BY <2>2, <2>3
    <3>2. IsFiniteSet(new) /\ Cardinality(new) = IF l + 1 > l + a THEN 0 ELSE (l + a) - (l + 1) + 1
      BY <3>1, FS_Interval
    <3> QED
      BY <2>2, <2>3, <3>2
  <2>7. IsFiniteSet(Added)
    <3>1. IsFiniteSet(1..Len(queue))
      BY <2>3, FS_Interval
    <3> QED
      BY <2>3, <3>1, FS_Subset DEF Added
  <2> HIDE DEF new
  <2>8. /\ Cardinality(Added \cup new) = Cardinality(Added) + Cardinality(new) - Cardinality(Added \cap new)
        /\ Cardinality(Added \cap new) = 0
    BY <2>5, <2>6, <2>7, FS_Union, FS_EmptySet
  <2>9. Cardinality(Added) = generated /\ generated \in Nat
    BY <1>0 DEF ExpansionBounded, Added, TypeOK
  <2>10. Cardinality(Added') = generated'
    BY <2>2, <2>5, <2>6, <2>8, <2>9
  <2> QED
    BY <1>0, <2>2, <2>10 DEF ExpansionBounded, Added
<1>6. CASE Start \/ Loop \/ StopWhileWaiting \/ Refill \/ Launched \/ Collected \/ Dispatch
  BY <1>2, <1>6 DEF Start, Loop, StopWhileWaiting, Refill, Launched, Collected, Dispatch
<1>7. CASE Drain \/ Drained \/ Throw
  BY <1>2, <1>7 DEF Drain, Drained, Throw
<1>8. CASE (\E s \in live : WorkerEnds(s)) \/ WallTime \/ Abort \/ Terminated \/ UNCHANGED vars
  BY <1>2, <1>8 DEF WorkerEnds, WallTime, Abort, Signal, Terminated, vars
<1> QED
  BY <1>3, <1>4, <1>5, <1>6, <1>7, <1>8 DEF Next, Run

-----------------------------------------------------------------------------
(* The theorems                                                             *)

LEMMA SchedulerInit == Init => SchedulerInv
<1> SUFFICES ASSUME Init PROVE SchedulerInv
  OBVIOUS
<1>1. /\ queue \in Seq(Items) /\ SlicesOnce
      /\ \A i \in DOMAIN queue : queue[i].id \in Slices /\ queue[i].status = "pending"
  BY FirstQueue DEF Init
<1>2. TypeOK
  <2>1. slots \in [Slots -> [status : {"idle", "running", "closed"}, gen : Nat]]
    BY DEF Init
  <2> QED
    BY <1>1, <2>1 DEF Init, TypeOK, StopReasons
<1>3. Books
  BY <1>1 DEF Init, Books, Booked, Apart, Behind, Out, WithStatus
<1>4. Honest
  BY <1>1 DEF Init, Honest, WithStatus
<1>5. Launchable
  BY DEF Init, Launchable
<1>6. ExpansionBounded
  <2>1. {i \in DOMAIN queue : queue[i].id \in FollowUps} = {}
    BY <1>1, SchedulerAssumption
  <2>2. Cardinality({i \in DOMAIN queue : queue[i].id \in FollowUps}) = 0
    BY <2>1, FS_EmptySet
  <2>3. generated = 0 /\ 0 <= MaxExpansion
    BY SchedulerAssumption DEF Init
  <2> QED
    BY <2>2, <2>3 DEF ExpansionBounded
<1> QED
  BY <1>2, <1>3, <1>4, <1>5, <1>6, PoolInit DEF SchedulerInv

LEMMA SchedulerStep == SchedulerInv /\ [Next]_vars => SchedulerInv'
  BY PoolStep, TypeStep, BooksStep, HonestStep, LaunchableStep, ExpansionStep DEF SchedulerInv

LEMMA SchedulerInvariant == Spec => []SchedulerInv
  BY SchedulerInit, SchedulerStep, PTL DEF Spec

\* For every partition, every number of slots and every fault: the state
\* keeps its types, the workers never enlarge the queue beyond
\* max_queue_expansion, and the stop for a ready queue without a launchable
\* slot cannot happen.
THEOREM PoolSafe == Spec => []PoolInvariant
<1>1. SchedulerInv => PoolInvariant
  BY DEF SchedulerInv, PoolInvariant, Launchable
<1> QED
  BY <1>1, SchedulerInvariant, PTL

\* completion_claim_allowed is honest in every run: it is only set when every
\* item was completed, no follow-up dropped and no session or worker left; and
\* whatever made the run return, no item is left pending or running.
THEOREM ClaimsHonest == Spec => []ReturnHonest
<1>1. SchedulerInv => ReturnHonest
  <2> SUFFICES ASSUME SchedulerInv, pc = "returned"
               PROVE  /\ Unfinished = {} /\ active = {}
                      /\ claim => /\ WithStatus({"completed"}) = DOMAIN queue
                                  /\ ~lost /\ open = {} /\ live = {}
    BY DEF ReturnHonest
  <2>1. Unfinished = {} /\ active = {}
    BY DEF SchedulerInv, Honest
  <2>2. ASSUME claim PROVE ~lost /\ open = {} /\ live = {} /\ WithStatus({"failed", "blocked"}) = {}
    BY <2>1, <2>2 DEF SchedulerInv, Honest
  <2>3. \A i \in DOMAIN queue : queue[i].status \in Statuses
    <3>1. \A i \in DOMAIN queue : queue[i] \in Items
      BY DEF SchedulerInv, TypeOK
    <3> QED
      BY <3>1 DEF Items
  <2>4. ASSUME claim PROVE WithStatus({"completed"}) = DOMAIN queue
    BY <2>1, <2>2, <2>3, <2>4 DEF WithStatus, Unfinished, Statuses
  <2> QED
    BY <2>1, <2>2, <2>4
<1> QED
  BY <1>1, SchedulerInvariant, PTL

\* No two sessions ever work on slices that write the same path.
THEOREM WritesApart == Spec => []SliceWritesDisjoint
<1>1. SchedulerInv => SliceWritesDisjoint
  BY DEF SchedulerInv, Books, Apart, Out, SliceWritesDisjoint
<1> QED
  BY <1>1, SchedulerInvariant, PTL

\* Nothing runs or is completed behind a slice that was not completed.
THEOREM FailuresHold == Spec => []NothingBehindFailure
<1>1. SchedulerInv => NothingBehindFailure
  <2> SUFFICES ASSUME SchedulerInv, NEW i \in WithStatus({"running", "completed"})
               PROVE  Deps[queue[i].id] \cap (Slices \ IdsOf(WithStatus({"completed"}))) = {}
    BY DEF NothingBehindFailure
  <2>1. Deps[queue[i].id] \cap Slices \subseteq Done
    BY DEF SchedulerInv, Books, Behind, DepsDone
  <2> QED
    BY <2>1 DEF Done
<1> QED
  BY <1>1, SchedulerInvariant, PTL
=============================================================================
