--------------------------- MODULE ThreadPoolProofs ---------------------------
(****************************************************************************)
(* Theorems about ThreadPool, for every number of workers, queue size,      *)
(* shrink count, set of connections and number of failed creations.         *)
(****************************************************************************)
EXTENDS ThreadPool, FiniteSetTheorems, WellFoundedInduction, TLAPS

(* A thread holds a task exactly while it runs or hands one over, and one   *)
(* that hands over, or has just handed over, holds a recv_task.             *)
JobsFit ==
  \A t \in Threads :
    /\ job[t] # NoTask <=> pc[t] \in {"task", "add", "full", "rearm"}
    /\ pc[t] \in {"add", "full", "rearm"} => job[t].fn = "recv_task"

\* The inductive invariant: each part needs the others.
Inv == TypeOK /\ JobsFit /\ RingIntact /\ CountersExact
-------------------------------------------------------------------------------
\* The modulus of lines 98 and 140, on an index of the ring.
LEMMA AfterWraps ==
  ASSUME NEW i \in 0..QueueMax-1
  PROVE  After(i) = IF i + 1 = QueueMax THEN 0 ELSE i + 1
  BY PoolAssumption DEF After

\* The epoll thread is not a worker.
LEMMA ThreadFacts == EpollThread \notin Slots /\ EpollThread \in Threads /\ Slots \subseteq Threads
  BY PoolAssumption DEF EpollThread, Slots, Threads

\* What pthread_cond_signal does to the program counters, thread by thread.
LEMMA SignalWakesOne ==
  ASSUME NEW f \in [Threads -> Pcs], NEW from, NEW to \in Pcs, NEW g \in Signal(f, from, to)
  PROVE  /\ g \in [Threads -> Pcs]
         /\ \A t \in Threads : g[t] = f[t] \/ (f[t] = from /\ g[t] = to)
         /\ (\E t \in Threads : f[t] = from) => \E t \in Threads : f[t] = from /\ g[t] = to
<1> DEFINE W == {t \in Threads : f[t] = from}
<1>1. CASE W = {}
  <2>1. g = f
    BY <1>1 DEF Signal
  <2> QED BY <2>1, <1>1
<1>2. CASE W # {}
  <2>1. PICK w \in W : g = [f EXCEPT ![w] = to]
    BY <1>2 DEF Signal
  <2> QED BY <2>1
<1> QED BY <1>1, <1>2

\* The creation loop looks at a slot whenever there is a free one.
LEMMA FirstFreeIsASlot ==
  ASSUME FreeSlots # {}
  PROVE  FirstFree \in FreeSlots /\ FirstFree \in Slots
<1>1. FreeSlots \subseteq Nat /\ FreeSlots \subseteq Slots
  BY PoolAssumption DEF FreeSlots, Slots
<1>2. PICK s \in FreeSlots : \A t \in FreeSlots : s <= t
  <2> DEFINE Less == {p \in Nat \X Nat : p[1] < p[2]}
  <2>0. IsWellFoundedOn(Less, Nat)
    BY NatLessThanWellFounded, Zenon DEF OpToRel
  <2> HIDE DEF Less
  <2>1. PICK s \in FreeSlots : \A t \in FreeSlots : ~ (<<t, s>> \in Less)
    BY <1>1, <2>0, WFMin
  <2>2. \A a, b \in Nat : a < b => <<a, b>> \in Less
    BY DEF Less
  <2>3. ASSUME NEW t \in FreeSlots PROVE s <= t
    <3>1. s \in Nat /\ t \in Nat
      BY <1>1
    <3>2. ~ (t < s)
      BY <2>1, <2>2, <3>1, Zenon
    <3> QED BY <3>1, <3>2
  <2> QED BY <2>3
<1> QED BY <1>1, <1>2 DEF FirstFree

\* TakeTask reads a cell of the live region.
LEMMA TakesATask ==
  ASSUME TypeOK, RingIntact, queue_cur # 0
  PROVE  queue_task[queue_rear] \in Tasks
<1>1. 0 \in 0..queue_cur-1 /\ Cell(0) = queue_rear
  BY PoolAssumption DEF TypeOK, Cell
<1> QED BY <1>1 DEF RingIntact

\* What Producer_add inserts is a task.
LEMMA AddsATask ==
  ASSUME TypeOK, JobsFit, NEW t \in Threads, pc[t] = "add"
  PROVE  ToAdd(t) \in Tasks
<1>1. job[t] \in Tasks
  BY DEF TypeOK, JobsFit
<1> QED BY <1>1 DEF ToAdd, DealTask, Tasks
-------------------------------------------------------------------------------
\* The types of everything but thread_busy survive every step.
LEMMA TypeStep ==
  ASSUME Inv, [Next]_poolVars, CountersExact', Cardinality(Busy') \in Nat
  PROVE  TypeOK'
<1> USE PoolAssumption, ThreadFacts DEF Inv, counters, ring, managerVars
<1>0. thread_busy' \in Nat
  BY DEF CountersExact
<1>1. ASSUME NEW c \in Conns, Accept(c) PROVE TypeOK'
  BY <1>1 DEF Accept, TypeOK
<1>2. ASSUME NEW c \in Conns, RecvEvent(c) PROVE TypeOK'
  BY <1>2 DEF RecvEvent, TypeOK, RecvTask, Tasks, Pcs, BusyPcs
<1>3. ASSUME NEW t \in Threads, AddWait(t) PROVE TypeOK'
  BY <1>3 DEF AddWait, TypeOK, Pcs, BusyPcs
<1>4. ASSUME NEW t \in Threads, Add(t) PROVE TypeOK'
  <2> DEFINE f == [pc EXCEPT ![t] = IF t = EpollThread THEN "poll" ELSE "rearm"]
  <2>1. f \in [Threads -> Pcs] /\ "get" \in Pcs /\ pc' \in Signal(f, "idle", "get")
    BY <1>4 DEF Add, Full, TypeOK, Pcs, BusyPcs
  <2> HIDE DEF f
  <2>2. pc' \in [Threads -> Pcs] /\ \A u \in Threads : pc'[u] = f[u] \/ (f[u] = "idle" /\ pc'[u] = "get")
    BY <2>1, SignalWakesOne
  <2>3. ToAdd(t) \in Tasks /\ queue_front' \in 0..QueueMax-1
    BY <1>4, AddsATask, AfterWraps DEF Add, Full, TypeOK
  <2> QED BY <1>4, <2>2, <2>3, SMTT(60) DEF f, Add, Full, TypeOK
<1>5. ASSUME NEW s \in Slots, WaitTask(s) PROVE TypeOK'
  BY <1>5 DEF WaitTask, TypeOK, Pcs, BusyPcs
<1>6. ASSUME NEW s \in Slots, Leave(s) PROVE TypeOK'
  BY <1>6 DEF Leave, MayLeave, TypeOK, Pcs, BusyPcs
<1>7. ASSUME NEW s \in Slots, TakeTask(s) PROVE TypeOK'
  <2> DEFINE f == [pc EXCEPT ![s] = "task"]
  <2>1. f \in [Threads -> Pcs] /\ "add" \in Pcs /\ pc' \in Signal(f, "full", "add")
    BY <1>7 DEF TakeTask, TypeOK, Pcs, BusyPcs
  <2> HIDE DEF f
  <2>2. pc' \in [Threads -> Pcs] /\ \A u \in Threads : pc'[u] = f[u] \/ (f[u] = "full" /\ pc'[u] = "add")
    BY <2>1, SignalWakesOne
  <2>3. queue_task[queue_rear] \in Tasks /\ queue_rear' \in 0..QueueMax-1
    BY <1>7, TakesATask, AfterWraps DEF TakeTask, TypeOK
  <2>4. pc'[EpollThread] \in {"poll", "add", "full"} /\ \A u \in Slots : pc'[u] # "poll"
    BY <2>2, <1>7 DEF f, TakeTask, TypeOK
  <2>5. queue_cur' \in 0..QueueMax /\ job' \in [Threads -> Tasks \cup {NoTask}]
    BY <1>7, <2>3 DEF TakeTask, TypeOK
  <2> QED BY <1>0, <1>7, <2>2, <2>3, <2>4, <2>5 DEF TakeTask, TypeOK
<1>8. ASSUME NEW s \in Slots, RunStep(s) PROVE TypeOK'
  <2>1. CASE RunDeal(s)
    BY <2>1 DEF RunDeal, TypeOK, Pcs, BusyPcs
  <2>2. CASE RecvPacket(s)
    BY <2>2 DEF RecvPacket, TypeOK, Pcs, BusyPcs
  <2>3. CASE RecvClosed(s)
    BY <2>3 DEF RecvClosed, TypeOK, Pcs, BusyPcs
  <2>4. CASE Rearm(s)
    BY <2>4 DEF Rearm, TypeOK, Pcs, BusyPcs
  <2> QED BY <1>8, <2>1, <2>2, <2>3, <2>4 DEF RunStep
<1>9. ASSUME NEW s \in Slots, TaskDone(s) PROVE TypeOK'
  BY <1>0, <1>9 DEF TaskDone, TypeOK, Pcs, BusyPcs
<1>10. CASE ManagerStep
  <2>1. CASE ManagerCheck
    BY <2>1 DEF ManagerCheck, AfterCreate, WantsShrink, TypeOK
  <2>2. FreeSlots # {} => FirstFree \in Slots
    BY FirstFreeIsASlot
  <2>3. CASE CreateThread
    BY <2>2, <2>3 DEF CreateThread, NextTurn, AfterCreate, TypeOK, Pcs, BusyPcs
  <2>4. CASE CreateFails
    BY <2>2, <2>4 DEF CreateFails, NextTurn, AfterCreate, TypeOK, Pcs, BusyPcs
  <2>5. CASE CreateNothing
    BY <2>5 DEF CreateNothing, NextTurn, AfterCreate, TypeOK
  <2>6. CASE SetWait
    BY <2>6 DEF SetWait, TypeOK
  <2>7. CASE ShrinkSignal
    <3>1. pc \in [Threads -> Pcs] /\ "get" \in Pcs /\ pc' \in Signal(pc, "idle", "get")
      BY <2>7 DEF ShrinkSignal, TypeOK, Pcs
    <3>2. pc' \in [Threads -> Pcs] /\ \A u \in Threads : pc'[u] = pc[u] \/ (pc[u] = "idle" /\ pc'[u] = "get")
      BY <3>1, SignalWakesOne
    <3> QED BY <2>7, <3>2 DEF ShrinkSignal, TypeOK
  <2>8. CASE ManagerWakes
    BY <2>8 DEF ManagerWakes, TypeOK
  <2> QED BY <1>10, <2>1, <2>3, <2>4, <2>5, <2>6, <2>7, <2>8 DEF ManagerStep
<1>11. ASSUME NEW t \in Threads, SpuriousWake(t) PROVE TypeOK'
  BY <1>11 DEF SpuriousWake, TypeOK, Pcs, BusyPcs
<1>12. CASE UNCHANGED poolVars
  BY <1>12 DEF poolVars, TypeOK
<1> QED
  BY <1>1, <1>2, <1>3, <1>4, <1>5, <1>6, <1>7, <1>8, <1>9, <1>10, <1>11, <1>12
     DEF Next, EpollStep, WorkerStep, GetStep, AddStep
-------------------------------------------------------------------------------
\* What a step does to the program counters of the waiters it signals.
LEMMA AddWakes ==
  ASSUME TypeOK, NEW t \in Threads, Add(t)
  PROVE  \A u \in Threads :
           IF u = t THEN pc'[u] = IF t = EpollThread THEN "poll" ELSE "rearm"
           ELSE pc'[u] = pc[u] \/ (pc[u] = "idle" /\ pc'[u] = "get")
<1> DEFINE f == [pc EXCEPT ![t] = IF t = EpollThread THEN "poll" ELSE "rearm"]
<1>1. f \in [Threads -> Pcs] /\ "get" \in Pcs /\ pc' \in Signal(f, "idle", "get")
  BY DEF Add, Full, TypeOK, Pcs, BusyPcs
<1> HIDE DEF f
<1>2. \A u \in Threads : pc'[u] = f[u] \/ (f[u] = "idle" /\ pc'[u] = "get")
  BY <1>1, SignalWakesOne
<1> QED BY <1>2 DEF f, TypeOK

\* Taking a task wakes at most one producer that waits for room (line 142).
LEMMA TakeWakes ==
  ASSUME TypeOK, NEW s \in Slots, TakeTask(s)
  PROVE  \A u \in Threads :
           IF u = s THEN pc'[u] = "task"
           ELSE pc'[u] = pc[u] \/ (pc[u] = "full" /\ pc'[u] = "add")
<1> DEFINE f == [pc EXCEPT ![s] = "task"]
<1>1. f \in [Threads -> Pcs] /\ "add" \in Pcs /\ pc' \in Signal(f, "full", "add")
  BY DEF TakeTask, TypeOK, Pcs, BusyPcs
<1> HIDE DEF f
<1>2. \A u \in Threads : pc'[u] = f[u] \/ (f[u] = "full" /\ pc'[u] = "add")
  BY <1>1, SignalWakesOne
<1> QED BY <1>2, ThreadFacts DEF f, TypeOK

\* A signal of the manager's shrink wakes at most one idle worker (line 199).
LEMMA ShrinkWakes ==
  ASSUME TypeOK, ShrinkSignal
  PROVE  \A u \in Threads : pc'[u] = pc[u] \/ (pc[u] = "idle" /\ pc'[u] = "get")
<1>1. pc \in [Threads -> Pcs] /\ "get" \in Pcs /\ pc' \in Signal(pc, "idle", "get")
  BY DEF ShrinkSignal, TypeOK, Pcs
<1> QED BY <1>1, SignalWakesOne

\* A slot the creation loop picks was never used: line 178 never finds a thread dead.
LEMMA PicksUnusedSlot ==
  ASSUME TypeOK, FreeSlots # {}
  PROVE  FirstFree \in Slots /\ pc[FirstFree] = "none"
<1>1. FirstFree \in FreeSlots /\ FirstFree \in Slots
  BY FirstFreeIsASlot
<1> QED BY <1>1 DEF FreeSlots, if_thread_alive, pthread_kill, ESRCH
-------------------------------------------------------------------------------
\* A worker runs a task exactly when its program counter is inside one, step by step.
LEMMA JobsStep ==
  ASSUME Inv, [Next]_poolVars
  PROVE  JobsFit'
<1> USE ThreadFacts DEF Inv, counters, ring, managerVars
<1>1. ASSUME NEW c \in Conns, Accept(c) PROVE JobsFit'
  BY <1>1 DEF Accept, JobsFit
<1>2. ASSUME NEW c \in Conns, RecvEvent(c) PROVE JobsFit'
  BY <1>2, NoTaskAssumption DEF RecvEvent, JobsFit, TypeOK, RecvTask, Tasks
<1>3. ASSUME NEW t \in Threads, AddWait(t) PROVE JobsFit'
  BY <1>3 DEF AddWait, JobsFit, TypeOK
<1>4. ASSUME NEW t \in Threads, Add(t) PROVE JobsFit'
  BY <1>4, AddWakes, ZenonT(60) DEF Add, Full, JobsFit, TypeOK
<1>5. ASSUME NEW s \in Slots, WaitTask(s) PROVE JobsFit'
  BY <1>5 DEF WaitTask, JobsFit, TypeOK
<1>6. ASSUME NEW s \in Slots, Leave(s) PROVE JobsFit'
  BY <1>6 DEF Leave, JobsFit, TypeOK
<1>7. ASSUME NEW s \in Slots, TakeTask(s) PROVE JobsFit'
  <2>1. queue_task[queue_rear] # NoTask
    BY <1>7, TakesATask, NoTaskAssumption DEF TakeTask
  <2> QED BY <1>7, <2>1, TakeWakes DEF TakeTask, JobsFit, TypeOK
<1>8. ASSUME NEW s \in Slots, RunStep(s) PROVE JobsFit'
  <2>1. CASE RunDeal(s)
    BY <2>1 DEF RunDeal, JobsFit, TypeOK
  <2>2. CASE RecvPacket(s)
    BY <2>2 DEF RecvPacket, JobsFit, TypeOK
  <2>3. CASE RecvClosed(s)
    BY <2>3 DEF RecvClosed, JobsFit, TypeOK
  <2>4. CASE Rearm(s)
    BY <2>4 DEF Rearm, JobsFit, TypeOK
  <2> QED BY <1>8, <2>1, <2>2, <2>3, <2>4 DEF RunStep
<1>9. ASSUME NEW s \in Slots, TaskDone(s) PROVE JobsFit'
  BY <1>9 DEF TaskDone, JobsFit, TypeOK
<1>10. CASE ManagerStep
  <2>1. CASE ManagerCheck \/ CreateNothing \/ SetWait \/ ManagerWakes
    BY <2>1 DEF ManagerCheck, CreateNothing, SetWait, ManagerWakes, JobsFit
  <2>2. CASE CreateThread
    BY <2>2, PicksUnusedSlot DEF CreateThread, JobsFit, TypeOK
  <2>3. CASE CreateFails
    BY <2>3, PicksUnusedSlot DEF CreateFails, JobsFit, TypeOK
  <2>4. CASE ShrinkSignal
    BY <2>4, ShrinkWakes DEF ShrinkSignal, JobsFit, TypeOK
  <2> QED BY <1>10, <2>1, <2>2, <2>3, <2>4 DEF ManagerStep
<1>11. ASSUME NEW t \in Threads, SpuriousWake(t) PROVE JobsFit'
  BY <1>11 DEF SpuriousWake, JobsFit, TypeOK
<1>12. CASE UNCHANGED poolVars
  BY <1>12 DEF poolVars, JobsFit
<1> QED
  BY <1>1, <1>2, <1>3, <1>4, <1>5, <1>6, <1>7, <1>8, <1>9, <1>10, <1>11, <1>12
     DEF Next, EpollStep, WorkerStep, GetStep, AddStep
-------------------------------------------------------------------------------
\* Only Producer_add and the taking of a task touch the ring.
LEMMA RingChanges ==
  ASSUME [Next]_poolVars
  PROVE  \/ UNCHANGED ring
         \/ \E t \in Threads : Add(t)
         \/ \E s \in Slots : TakeTask(s)
<1> USE DEF ring
<1>1. ASSUME NEW s \in Slots, RunStep(s) PROVE UNCHANGED ring
  BY <1>1 DEF RunStep, RunDeal, RecvPacket, RecvClosed, Rearm
<1>2. ASSUME ManagerStep PROVE UNCHANGED ring
  BY <1>2 DEF ManagerStep, ManagerCheck, CreateThread, CreateFails, CreateNothing,
              SetWait, ShrinkSignal, ManagerWakes
<1> QED
  BY <1>1, <1>2, ThreadFacts
     DEF Next, EpollStep, Accept, RecvEvent, WorkerStep, GetStep, AddStep, AddWait,
         WaitTask, Leave, TaskDone, SpuriousWake, poolVars

\* Every step keeps the live region of the ring between queue_rear and queue_front.
LEMMA RingStep ==
  ASSUME Inv, [Next]_poolVars
  PROVE  RingIntact'
<1> USE PoolAssumption DEF Inv
<1>1. CASE UNCHANGED ring
  BY <1>1 DEF RingIntact, Cell, ring
<1>2. ASSUME NEW t \in Threads, Add(t) PROVE RingIntact'
  <2>1. ToAdd(t) \in Tasks /\ queue_front' = IF queue_front + 1 = QueueMax THEN 0 ELSE queue_front + 1
    BY <1>2, AddsATask, AfterWraps DEF Add, Full, TypeOK
  <2>2. queue_front = Cell(queue_cur) /\ \A k \in 0..queue_cur-1 : Cell(k) # queue_front
    BY <1>2 DEF RingIntact, Cell, TypeOK, Add, Full
  <2>3. ASSUME NEW k \in 0..queue_cur'-1 PROVE queue_task'[Cell(k)'] \in Tasks
    <3>1. Cell(k)' = Cell(k) /\ Cell(k) \in 0..QueueMax-1
      BY <1>2 DEF Add, Full, Cell, TypeOK
    <3>2. queue_task' = [queue_task EXCEPT ![queue_front] = ToAdd(t)]
      BY <1>2 DEF Add, Full
    <3>3. CASE k = queue_cur
      BY <2>1, <2>2, <3>1, <3>2, <3>3 DEF TypeOK
    <3>4. CASE k \in 0..queue_cur-1
      BY <2>2, <3>1, <3>2, <3>4 DEF RingIntact, TypeOK
    <3> QED BY <1>2, <3>3, <3>4 DEF Add, Full, TypeOK
  <2>4. queue_front' = IF queue_rear' + queue_cur' < QueueMax THEN queue_rear' + queue_cur'
                       ELSE queue_rear' + queue_cur' - QueueMax
    BY <1>2, <2>1 DEF Add, Full, RingIntact, TypeOK
  <2> QED BY <2>3, <2>4 DEF RingIntact
<1>3. ASSUME NEW s \in Slots, TakeTask(s) PROVE RingIntact'
  <2>1. queue_rear' = IF queue_rear + 1 = QueueMax THEN 0 ELSE queue_rear + 1
    BY <1>3, AfterWraps DEF TakeTask, TypeOK
  <2>2. \A k \in 0..queue_cur'-1 : k + 1 \in 0..queue_cur-1 /\ Cell(k)' = Cell(k+1)
    BY <1>3, <2>1 DEF TakeTask, Cell, TypeOK
  <2>3. ASSUME NEW k \in 0..queue_cur'-1 PROVE queue_task'[Cell(k)'] \in Tasks
    <3>1. queue_task[Cell(k+1)] \in Tasks
      BY <2>2 DEF RingIntact
    <3>2. queue_task' = queue_task /\ Cell(k)' = Cell(k+1)
      BY <1>3, <2>2 DEF TakeTask
    <3> QED BY <3>1, <3>2
  <2> QED BY <1>3, <2>1, <2>3 DEF TakeTask, RingIntact, TypeOK
<1> QED BY <1>1, <1>2, <1>3, RingChanges
-------------------------------------------------------------------------------
\* Sets of slots are finite, so the counters can be compared with them.
LEMMA SlotsFinite ==
  /\ IsFiniteSet(Live) /\ Cardinality(Live) \in Nat
  /\ IsFiniteSet(Busy) /\ Cardinality(Busy) \in Nat
<1>1. IsFiniteSet(Slots)
  BY PoolAssumption, FS_Interval DEF Slots
<1>2. Live \subseteq Slots /\ Busy \subseteq Slots
  BY DEF Live, Busy
<1> QED BY <1>1, <1>2, FS_Subset, FS_CardinalityType

\* The same sets, after a step.
LEMMA SlotsFiniteNext ==
  IsFiniteSet(Live') /\ IsFiniteSet(Busy') /\ Cardinality(Busy') \in Nat
<1>1. IsFiniteSet(Slots)
  BY PoolAssumption, FS_Interval DEF Slots
<1>2. Live' \subseteq Slots /\ Busy' \subseteq Slots
  BY DEF Live, Busy
<1> QED BY <1>1, <1>2, FS_Subset, FS_CardinalityType

\* The steps that start, end or occupy a worker; every other step leaves both sets alone.
WorkersSame == /\ Live' = Live /\ Busy' = Busy
               /\ UNCHANGED <<thread_alive, thread_busy, failed>>

\* Every step changes the counters by as much as the sets of threads they count.
LEMMA CountersStep ==
  ASSUME Inv, [Next]_poolVars
  PROVE  CountersExact'
<1> USE ThreadFacts, SlotsFinite DEF Inv, counters, ring, managerVars
<1>0. ASSUME WorkersSame PROVE CountersExact'
  BY <1>0 DEF WorkersSame, CountersExact
<1>1. ASSUME NEW c \in Conns, Accept(c) \/ RecvEvent(c) PROVE WorkersSame
  BY <1>1 DEF Accept, RecvEvent, WorkersSame, Live, Busy, BusyPcs, TypeOK
<1>2. ASSUME NEW t \in Threads, AddWait(t) PROVE WorkersSame
  BY <1>2 DEF AddWait, WorkersSame, Live, Busy, BusyPcs, TypeOK
<1>3. ASSUME NEW t \in Threads, Add(t) PROVE WorkersSame
  <2>1. \A u \in Slots : /\ pc'[u] \in BusyPcs <=> pc[u] \in BusyPcs
                         /\ pc'[u] \in {"get", "idle"} <=> pc[u] \in {"get", "idle"}
    BY <1>3, AddWakes DEF Add, Full, BusyPcs, TypeOK
  <2> QED BY <1>3, <2>1 DEF Add, Full, WorkersSame, Live, Busy
<1>4. ASSUME NEW s \in Slots, WaitTask(s) PROVE WorkersSame
  BY <1>4 DEF WaitTask, WorkersSame, Live, Busy, BusyPcs, TypeOK
<1>5. ASSUME NEW s \in Slots, Leave(s) PROVE CountersExact'
  <2>1. Live' = Live \ {s} /\ s \in Live /\ Busy' = Busy
    BY <1>5 DEF Leave, Live, Busy, BusyPcs, TypeOK
  <2>2. Cardinality(Live') = Cardinality(Live) - 1
    BY <2>1, FS_RemoveElement
  <2> QED BY <1>5, <2>1, <2>2 DEF Leave, CountersExact, TypeOK
<1>6. ASSUME NEW s \in Slots, TakeTask(s) PROVE CountersExact'
  <2>1. Live' = Live
    BY <1>6, TakeWakes DEF TakeTask, Live, BusyPcs, TypeOK
  <2>2. Busy' = Busy \cup {s} /\ s \notin Busy
    BY <1>6, TakeWakes DEF TakeTask, Busy, BusyPcs, TypeOK
  <2>3. Cardinality(Busy') = Cardinality(Busy) + 1
    BY <2>2, FS_AddElement
  <2> QED BY <1>6, <2>1, <2>3 DEF TakeTask, CountersExact, TypeOK
<1>7. ASSUME NEW s \in Slots, RunStep(s) PROVE WorkersSame
  BY <1>7 DEF RunStep, RunDeal, RecvPacket, RecvClosed, Rearm, WorkersSame, Live, Busy, BusyPcs, TypeOK
<1>8. ASSUME NEW s \in Slots, TaskDone(s) PROVE CountersExact'
  <2>1. Live' = Live /\ Busy' = Busy \ {s} /\ s \in Busy
    BY <1>8 DEF TaskDone, Live, Busy, BusyPcs, TypeOK
  <2>2. Cardinality(Busy') = Cardinality(Busy) - 1
    BY <2>1, FS_RemoveElement
  <2> QED BY <1>8, <2>1, <2>2 DEF TaskDone, CountersExact, TypeOK
<1>9. CASE ManagerCheck \/ CreateNothing \/ SetWait \/ ManagerWakes
  <2>1. WorkersSame
    BY <1>9 DEF ManagerCheck, CreateNothing, SetWait, ManagerWakes, WorkersSame, Live, Busy
  <2> QED BY <1>0, <2>1
<1>10. CASE CreateThread
  <2>1. Live' = Live \cup {FirstFree} /\ FirstFree \notin Live /\ Busy' = Busy
    BY <1>10, PicksUnusedSlot DEF CreateThread, Live, Busy, BusyPcs, TypeOK
  <2>2. Cardinality(Live') = Cardinality(Live) + 1
    BY <2>1, FS_AddElement
  <2> QED BY <1>10, <2>1, <2>2 DEF CreateThread, CountersExact, TypeOK
<1>11. CASE CreateFails
  <2>1. Live' = Live /\ Busy' = Busy
    BY <1>11, PicksUnusedSlot DEF CreateFails, Live, Busy, BusyPcs, TypeOK
  <2> QED BY <1>11, <2>1 DEF CreateFails, CountersExact, TypeOK
<1>12. CASE ShrinkSignal
  <2>1. WorkersSame
    BY <1>12, ShrinkWakes DEF ShrinkSignal, WorkersSame, Live, Busy, BusyPcs, TypeOK
  <2> QED BY <1>0, <2>1
<1>13. ASSUME NEW t \in Threads, SpuriousWake(t) PROVE WorkersSame
  BY <1>13 DEF SpuriousWake, WorkersSame, Live, Busy, BusyPcs, TypeOK
<1>14. CASE UNCHANGED poolVars
  BY <1>0, <1>14 DEF poolVars, WorkersSame, Live, Busy
<1> QED
  BY <1>0, <1>1, <1>2, <1>3, <1>4, <1>5, <1>6, <1>7, <1>8, <1>9, <1>10, <1>11, <1>12, <1>13, <1>14
     DEF Next, EpollStep, WorkerStep, GetStep, AddStep, ManagerStep
-------------------------------------------------------------------------------
\* What Pool_create sets up satisfies the inductive invariant.
LEMMA InvInit ==
  ASSUME Init
  PROVE  Inv
<1> USE PoolAssumption, ThreadFacts
<1>1. TypeOK
  <2>1. pc \in [Threads -> Pcs] /\ pc[EpollThread] = "poll" /\ \A u \in Slots : pc[u] # "poll"
    BY DEF Init, Pcs
  <2>2. job \in [Threads -> Tasks \cup {NoTask}] /\ conn \in [Conns -> {"armed", "taken", "closed"}]
    BY DEF Init
  <2>3. queue_task \in [0..QueueMax-1 -> Tasks \cup {NoTask}]
    BY DEF Init
  <2>4. /\ thread_alive \in Nat /\ thread_busy \in Nat /\ thread_wait \in 0..DefCount
        /\ queue_cur \in 0..QueueMax /\ queue_front \in 0..QueueMax-1
        /\ queue_rear \in 0..QueueMax-1
        /\ count \in Nat /\ failed \in 0..MaxFail
    BY DEF Init
  <2>5. manager \in {"check", "create", "setwait", "signal", "sleep"} /\ shrink \in BOOLEAN
    BY DEF Init
  <2> QED BY <2>1, <2>2, <2>3, <2>4, <2>5 DEF TypeOK
<1>2. JobsFit
  BY DEF Init, JobsFit, EpollThread
<1>3. RingIntact
  BY DEF Init, RingIntact
<1>4. Live = 1..ThreadMin /\ Busy = {}
  BY DEF Init, Live, Busy, BusyPcs, Slots, Threads, EpollThread
<1>5. CountersExact
  BY <1>4, FS_Interval, FS_EmptySet DEF Init, CountersExact
<1> QED BY <1>1, <1>2, <1>3, <1>5 DEF Inv

\* Every step of the pool, the manager, the epoll thread and a signal keeps it.
LEMMA InvStep ==
  ASSUME Inv, [Next]_poolVars
  PROVE  Inv'
<1>1. CountersExact'
  BY CountersStep
<1> QED BY <1>1, JobsStep, RingStep, TypeStep, SlotsFiniteNext DEF Inv

\* The inductive invariant holds in every reachable state.
THEOREM InvAlways == Spec => []Inv
  BY InvInit, InvStep, PTL DEF Spec

\* Type correctness, whatever the sizes of the pool: the ring's indices stay in range and no
\* counter becomes negative.
THEOREM TypeCorrect == Spec => []TypeOK
<1>1. Inv => TypeOK
  BY DEF Inv
<1> QED BY <1>1, InvAlways, PTL

\* thread_alive and thread_busy count the workers there are (lines 66, 133, 143, 148, 184).
THEOREM CountersCorrect == Spec => []CountersExact
<1>1. Inv => CountersExact
  BY DEF Inv
<1> QED BY <1>1, InvAlways, PTL

\* The live region of the ring holds tasks and nothing but tasks (lines 95-100, 138-141).
THEOREM RingCorrect == Spec => []RingIntact
<1>1. Inv => RingIntact
  BY DEF Inv
<1> QED BY <1>1, InvAlways, PTL
-------------------------------------------------------------------------------
\* Only a leaving worker lowers thread_alive, and line 130 lets it leave above thread_min only.
AliveFloor == thread_alive >= ThreadMin

\* The test of line 130, over every other step.
LEMMA AliveFloorStep ==
  ASSUME Inv, AliveFloor, [Next]_poolVars
  PROVE  AliveFloor'
<1> USE PoolAssumption, ThreadFacts DEF Inv, AliveFloor, TypeOK, counters
<1>1. ASSUME NEW s \in Slots, Leave(s) PROVE AliveFloor'
  BY <1>1 DEF Leave, MayLeave
<1>2. CASE ManagerStep
  BY <1>2 DEF ManagerStep, ManagerCheck, CreateThread, CreateFails, CreateNothing,
              SetWait, ShrinkSignal, ManagerWakes
<1>3. ASSUME NEW s \in Slots, RunStep(s) PROVE AliveFloor'
  BY <1>3 DEF RunStep, RunDeal, RecvPacket, RecvClosed, Rearm
<1> QED
  BY <1>1, <1>2, <1>3 DEF Next, EpollStep, Accept, RecvEvent, WorkerStep, GetStep, AddStep,
     Add, Full, AddWait, WaitTask, TakeTask, TaskDone, SpuriousWake, poolVars

\* However many shrinks overlap, the pool keeps its minimum of workers.
THEOREM MinimumKept == Spec => []KeepsMinimum
<1>1. Init => AliveFloor
  BY PoolAssumption DEF Init, AliveFloor
<1>2. Inv /\ AliveFloor /\ [Next]_poolVars => AliveFloor'
  BY AliveFloorStep
<1>3. Inv /\ AliveFloor => KeepsMinimum
  BY PoolAssumption, SlotsFinite DEF Inv, TypeOK, AliveFloor, CountersExact, KeepsMinimum
<1> QED BY <1>1, <1>2, <1>3, InvAlways, PTL DEF Spec
-------------------------------------------------------------------------------
\* A finite set that a step leaves inside another one counts no more than that one.
LEMMA CountSubset ==
  ASSUME NEW S, NEW T, IsFiniteSet(T), S \subseteq T
  PROVE  Cardinality(S) \in Nat /\ Cardinality(T) \in Nat /\ Cardinality(S) <= Cardinality(T)
  BY FS_Subset, FS_CardinalityType

\* ... one less, if the step also adds an element.
LEMMA CountGrows ==
  ASSUME NEW S, NEW T, IsFiniteSet(T), S \subseteq T, NEW x \in T, x \notin S
  PROVE  Cardinality(S) \in Nat /\ Cardinality(T) \in Nat /\ Cardinality(S) + 1 <= Cardinality(T)
<1>1. IsFiniteSet(S) /\ S \cup {x} \subseteq T
  BY FS_Subset
<1>2. Cardinality(S \cup {x}) = Cardinality(S) + 1
  BY <1>1, FS_AddElement
<1>3. Cardinality(S \cup {x}) <= Cardinality(T)
  BY <1>1, CountSubset
<1> QED BY <1>1, <1>2, <1>3, FS_CardinalityType

\* ... and at most one more, if all but one element stay.
LEMMA CountDrops ==
  ASSUME NEW S, NEW T, IsFiniteSet(S), IsFiniteSet(T), NEW x, S \ {x} \subseteq T
  PROVE  Cardinality(S) \in Nat /\ Cardinality(T) \in Nat /\ Cardinality(S) <= Cardinality(T) + 1
<1>1. Cardinality(S \ {x}) \in Nat /\ Cardinality(T) \in Nat /\ Cardinality(S \ {x}) <= Cardinality(T)
  BY CountSubset
<1>2. CASE x \in S
  <2>1. Cardinality(S \ {x}) = Cardinality(S) - 1
    BY <1>2, FS_RemoveElement
  <2> QED BY <1>1, <2>1, FS_CardinalityType
<1>3. CASE x \notin S
  <2>1. S \ {x} = S
    BY <1>3
  <2> QED BY <1>1, <2>1
<1> QED BY <1>2, <1>3

\* Threads are finitely many, and so are the woken ones, before and after a step.
LEMMA WokenFinite ==
  /\ IsFiniteSet(AboutToTest) /\ IsFiniteSet(AboutToTest')
  /\ IsFiniteSet(AboutToAdd) /\ IsFiniteSet(AboutToAdd')
<1>1. IsFiniteSet(Slots)
  BY PoolAssumption, FS_Interval DEF Slots
<1>2. IsFiniteSet(Threads)
  BY <1>1, FS_AddElement DEF Threads
<1>3. /\ AboutToTest \subseteq Slots /\ AboutToTest' \subseteq Slots
      /\ AboutToAdd \subseteq Threads /\ AboutToAdd' \subseteq Threads
  BY DEF AboutToTest, AboutToAdd
<1> QED BY <1>1, <1>2, <1>3, FS_Subset

\* The signal of Producer_add (line 102) wakes an idle worker when there is one.
LEMMA AddWakesIdle ==
  ASSUME TypeOK, NEW t \in Threads, Add(t), NEW s \in Slots, pc[s] = "idle"
  PROVE  \E u \in Slots : pc[u] = "idle" /\ pc'[u] = "get"
<1> USE ThreadFacts
<1> DEFINE f == [pc EXCEPT ![t] = IF t = EpollThread THEN "poll" ELSE "rearm"]
<1>1. f \in [Threads -> Pcs] /\ "get" \in Pcs /\ pc' \in Signal(f, "idle", "get")
  BY DEF Add, Full, TypeOK, Pcs, BusyPcs
<1>2. /\ f[s] = "idle" /\ f[EpollThread] # "idle"
      /\ \A u \in Threads : f[u] = "idle" => pc[u] = "idle"
  BY DEF TypeOK, Add, Full
<1> HIDE DEF f
<1>3. PICK u \in Threads : f[u] = "idle" /\ pc'[u] = "get"
  BY <1>1, <1>2, SignalWakesOne
<1>4. u \in Slots
  BY <1>2, <1>3 DEF Threads
<1> QED BY <1>2, <1>3, <1>4

\* The signal of the worker that takes a task (line 142) wakes a producer that waits for room.
LEMMA TakeWakesFull ==
  ASSUME TypeOK, NEW s \in Slots, TakeTask(s), NEW t \in Threads, pc[t] = "full"
  PROVE  \E u \in Threads : pc[u] = "full" /\ pc'[u] = "add"
<1> USE ThreadFacts
<1> DEFINE f == [pc EXCEPT ![s] = "task"]
<1>1. f \in [Threads -> Pcs] /\ "add" \in Pcs /\ pc' \in Signal(f, "full", "add")
  BY DEF TakeTask, TypeOK, Pcs, BusyPcs
<1>2. f[t] = "full" /\ \A u \in Threads : f[u] = "full" => pc[u] = "full"
  BY DEF TypeOK, TakeTask
<1> HIDE DEF f
<1>3. PICK u \in Threads : f[u] = "full" /\ pc'[u] = "add"
  BY <1>1, <1>2, SignalWakesOne
<1> QED BY <1>2, <1>3

\* A worker that leaves is the one step by which a sleeper may miss a queued task.
LEMMA ExpectedStep ==
  ASSUME Inv, Expected, [Next]_poolVars,
         ~ \E s \in Slots : pc[s] = "get" /\ pc'[s] = "exited"
  PROVE  Expected'
<1> USE PoolAssumption, ThreadFacts DEF Inv, counters, ring, managerVars
<1> DEFINE Same == /\ queue_cur' = queue_cur
                   /\ \A u \in Slots : /\ pc[u] = "get" => pc'[u] = "get"
                                       /\ pc'[u] = "idle" => pc[u] = "idle"
<1>0. ASSUME Same PROVE Expected'
  <2>1. AboutToTest \subseteq AboutToTest' /\ queue_cur \in Int
    BY <1>0 DEF AboutToTest, TypeOK
  <2>2. /\ Cardinality(AboutToTest) \in Nat /\ Cardinality(AboutToTest') \in Nat
        /\ Cardinality(AboutToTest) <= Cardinality(AboutToTest')
    BY <2>1, WokenFinite, CountSubset
  <2> QED BY <1>0, <2>1, <2>2 DEF Expected
<1>1. ASSUME NEW c \in Conns, Accept(c) \/ RecvEvent(c) PROVE Same
  BY <1>1 DEF Accept, RecvEvent, TypeOK
<1>2. ASSUME NEW t \in Threads, AddWait(t) PROVE Same
  BY <1>2 DEF AddWait, TypeOK
<1>3. ASSUME NEW t \in Threads, Add(t) PROVE Expected'
  <2>0. queue_cur \in Int /\ queue_cur' = queue_cur + 1 /\ pc[t] = "add"
    BY <1>3 DEF Add, Full, TypeOK
  <2>1. AboutToTest \subseteq AboutToTest' /\ queue_cur \in Int /\ queue_cur' = queue_cur + 1
    BY <1>3, <2>0, AddWakes DEF AboutToTest
  <2>2. CASE \E s \in Slots : pc[s] = "idle"
    <3>1. PICK u \in Slots : pc[u] = "idle" /\ pc'[u] = "get"
      BY <1>3, <2>2, AddWakesIdle
    <3>2. u \notin AboutToTest /\ u \in AboutToTest'
      BY <3>1 DEF AboutToTest
    <3>3. /\ Cardinality(AboutToTest) \in Nat /\ Cardinality(AboutToTest') \in Nat
          /\ Cardinality(AboutToTest) + 1 <= Cardinality(AboutToTest')
      BY <2>1, <3>2, WokenFinite, CountGrows
    <3> QED BY <2>1, <2>2, <3>3 DEF Expected
  <2>3. CASE ~ \E s \in Slots : pc[s] = "idle"
    <3>1. ~ \E s \in Slots : pc'[s] = "idle"
      BY <1>3, <2>3, AddWakes
    <3> QED BY <3>1 DEF Expected
  <2> QED BY <2>2, <2>3
<1>4. ASSUME NEW s \in Slots, WaitTask(s) PROVE Expected'
  BY <1>4, WokenFinite, FS_CardinalityType DEF WaitTask, Expected, TypeOK
<1>5. ASSUME NEW s \in Slots, Leave(s) PROVE FALSE
  BY <1>5 DEF Leave, TypeOK
<1>6. ASSUME NEW s \in Slots, TakeTask(s) PROVE Expected'
  <2>1. /\ AboutToTest \ {s} \subseteq AboutToTest' /\ queue_cur \in Int /\ queue_cur' = queue_cur - 1
        /\ \A u \in Slots : pc'[u] = "idle" => pc[u] = "idle"
    <3>1. queue_cur \in Int /\ queue_cur' = queue_cur - 1
      BY <1>6 DEF TakeTask, TypeOK
    <3>2. /\ AboutToTest \ {s} \subseteq AboutToTest'
          /\ \A u \in Slots : pc'[u] = "idle" => pc[u] = "idle"
      BY <1>6, TakeWakes DEF AboutToTest
    <3> QED BY <3>1, <3>2
  <2>2. /\ Cardinality(AboutToTest) \in Nat /\ Cardinality(AboutToTest') \in Nat
        /\ Cardinality(AboutToTest) <= Cardinality(AboutToTest') + 1
    BY <2>1, WokenFinite, CountDrops
  <2> QED BY <2>1, <2>2 DEF Expected
<1>7. ASSUME NEW s \in Slots, RunStep(s) \/ TaskDone(s) PROVE Same
  BY <1>7 DEF RunStep, RunDeal, RecvPacket, RecvClosed, Rearm, TaskDone, TypeOK
<1>8. ASSUME ManagerStep PROVE Same
  <2>1. CASE ManagerCheck \/ CreateNothing \/ SetWait \/ ManagerWakes
    BY <2>1 DEF ManagerCheck, CreateNothing, SetWait, ManagerWakes
  <2>2. CASE CreateThread \/ CreateFails
    BY <2>2, PicksUnusedSlot DEF CreateThread, CreateFails, TypeOK
  <2>3. CASE ShrinkSignal
    BY <2>3, ShrinkWakes DEF ShrinkSignal
  <2> QED BY <1>8, <2>1, <2>2, <2>3 DEF ManagerStep
<1>9. ASSUME NEW t \in Threads, SpuriousWake(t) PROVE Same
  BY <1>9 DEF SpuriousWake, TypeOK
<1>10. CASE UNCHANGED poolVars
  BY <1>0, <1>10 DEF poolVars
<1> QED
  BY <1>0, <1>1, <1>2, <1>3, <1>4, <1>5, <1>6, <1>7, <1>8, <1>9, <1>10
     DEF Next, EpollStep, WorkerStep, GetStep, AddStep

(* In every pool, growing and shrinking or not: while a worker sleeps each   *)
(* queued task has an awake worker about to test the queue, until a worker   *)
(* leaves the pool on its wakeup (lines 130-136).                            *)
THEOREM WakeupsLostByLeaving == Spec => WakeupsLostOnlyByLeaving
<1>1. Inv /\ [Next]_poolVars
        => (Expected => Expected' \/ \E s \in Slots : pc[s] = "get" /\ pc'[s] = "exited")
  BY ExpectedStep
<1> QED BY <1>1, InvAlways, PTL DEF Spec, WakeupsLostOnlyByLeaving

\* Every free cell stays spoken for while a producer waits for room, step by step.
LEMMA RoomStep ==
  ASSUME Inv, NoRoomMissed, [Next]_poolVars
  PROVE  NoRoomMissed'
<1> USE PoolAssumption, ThreadFacts DEF Inv, counters, ring, managerVars
<1> DEFINE Same == /\ queue_cur' = queue_cur
                   /\ \A u \in Threads : /\ pc[u] = "add" => pc'[u] = "add"
                                         /\ pc'[u] = "full" => pc[u] = "full"
<1>0. ASSUME Same PROVE NoRoomMissed'
  <2>1. AboutToAdd \subseteq AboutToAdd' /\ queue_cur \in Int
    BY <1>0 DEF AboutToAdd, TypeOK
  <2>2. /\ Cardinality(AboutToAdd) \in Nat /\ Cardinality(AboutToAdd') \in Nat
        /\ Cardinality(AboutToAdd) <= Cardinality(AboutToAdd')
    BY <2>1, WokenFinite, CountSubset
  <2> QED BY <1>0, <2>1, <2>2 DEF NoRoomMissed
<1>1. ASSUME NEW c \in Conns, Accept(c) \/ RecvEvent(c) PROVE Same
  BY <1>1 DEF Accept, RecvEvent, TypeOK
<1>2. ASSUME NEW t \in Threads, AddWait(t) PROVE NoRoomMissed'
  BY <1>2, WokenFinite, FS_CardinalityType DEF AddWait, Full, NoRoomMissed, TypeOK
<1>3. ASSUME NEW t \in Threads, Add(t) PROVE NoRoomMissed'
  <2>1. /\ AboutToAdd \ {t} \subseteq AboutToAdd' /\ queue_cur \in Int /\ queue_cur' = queue_cur + 1
        /\ \A u \in Threads : pc'[u] = "full" => pc[u] = "full"
    <3>1. queue_cur \in Int /\ queue_cur' = queue_cur + 1
      BY <1>3 DEF Add, Full, TypeOK
    <3>2. /\ AboutToAdd \ {t} \subseteq AboutToAdd'
          /\ \A u \in Threads : pc'[u] = "full" => pc[u] = "full"
      BY <1>3, AddWakes DEF AboutToAdd
    <3> QED BY <3>1, <3>2
  <2>2. /\ Cardinality(AboutToAdd) \in Nat /\ Cardinality(AboutToAdd') \in Nat
        /\ Cardinality(AboutToAdd) <= Cardinality(AboutToAdd') + 1
    BY <2>1, WokenFinite, CountDrops
  <2> QED BY <2>1, <2>2 DEF NoRoomMissed
<1>4. ASSUME NEW s \in Slots, WaitTask(s) \/ Leave(s) PROVE Same
  BY <1>4 DEF WaitTask, Leave, TypeOK
<1>5. ASSUME NEW s \in Slots, TakeTask(s) PROVE NoRoomMissed'
  <2>1. AboutToAdd \subseteq AboutToAdd' /\ queue_cur \in Int /\ queue_cur' = queue_cur - 1
    <3>1. queue_cur \in Int /\ queue_cur' = queue_cur - 1 /\ pc[s] = "get"
      BY <1>5 DEF TakeTask, TypeOK
    <3>2. AboutToAdd \subseteq AboutToAdd'
      BY <1>5, <3>1, TakeWakes DEF AboutToAdd
    <3> QED BY <3>1, <3>2
  <2>2. CASE \E t \in Threads : pc[t] = "full"
    <3>1. PICK u \in Threads : pc[u] = "full" /\ pc'[u] = "add"
      BY <1>5, <2>2, TakeWakesFull
    <3>2. u \notin AboutToAdd /\ u \in AboutToAdd'
      BY <3>1 DEF AboutToAdd
    <3>3. /\ Cardinality(AboutToAdd) \in Nat /\ Cardinality(AboutToAdd') \in Nat
          /\ Cardinality(AboutToAdd) + 1 <= Cardinality(AboutToAdd')
      BY <2>1, <3>2, WokenFinite, CountGrows
    <3> QED BY <2>1, <2>2, <3>3 DEF NoRoomMissed
  <2>3. CASE ~ \E t \in Threads : pc[t] = "full"
    <3>1. ~ \E t \in Threads : pc'[t] = "full"
      BY <1>5, <2>3, TakeWakes
    <3> QED BY <3>1 DEF NoRoomMissed
  <2> QED BY <2>2, <2>3
<1>6. ASSUME NEW s \in Slots, RunStep(s) \/ TaskDone(s) PROVE Same
  BY <1>6 DEF RunStep, RunDeal, RecvPacket, RecvClosed, Rearm, TaskDone, TypeOK
<1>7. ASSUME ManagerStep PROVE Same
  <2>1. CASE ManagerCheck \/ CreateNothing \/ SetWait \/ ManagerWakes
    BY <2>1 DEF ManagerCheck, CreateNothing, SetWait, ManagerWakes
  <2>2. CASE CreateThread \/ CreateFails
    BY <2>2, PicksUnusedSlot DEF CreateThread, CreateFails, TypeOK
  <2>3. CASE ShrinkSignal
    BY <2>3, ShrinkWakes DEF ShrinkSignal
  <2> QED BY <1>7, <2>1, <2>2, <2>3 DEF ManagerStep
<1>8. ASSUME NEW t \in Threads, SpuriousWake(t) PROVE Same
  BY <1>8 DEF SpuriousWake, TypeOK
<1>9. CASE UNCHANGED poolVars
  BY <1>0, <1>9 DEF poolVars
<1> QED
  BY <1>0, <1>1, <1>2, <1>3, <1>4, <1>5, <1>6, <1>7, <1>8, <1>9
     DEF Next, EpollStep, WorkerStep, GetStep, AddStep

(* For every number of workers and connections and every queue: as long as a *)
(* thread waits for room (lines 83-87), each free cell of the ring has a     *)
(* thread that is about to fill it.                                          *)
THEOREM RoomNeverMissed == Spec => []NoRoomMissed
<1>1. Init => NoRoomMissed
  BY DEF Init, NoRoomMissed
<1>2. Inv /\ NoRoomMissed /\ [Next]_poolVars => NoRoomMissed'
  BY RoomStep
<1> QED BY <1>1, <1>2, InvAlways, PTL DEF Spec

-------------------------------------------------------------------------------
(* One recv_task per connection taken out of epoll.  Where the recv_tasks of *)
(* a connection are: in the hands of threads, and in cells of the ring.      *)
Held(c) == {t \in Threads : job[t] = RecvTask(c)}
InRing(c) == {k \in 0..queue_cur-1 : queue_task[Cell(k)] = RecvTask(c)}

Nowhere(c) == Held(c) = {} /\ InRing(c) = {}
InOnePlace(c) == \/ \E t \in Threads : Held(c) = {t} /\ InRing(c) = {}
                 \/ \E k \in 0..queue_cur-1 : InRing(c) = {k} /\ Held(c) = {}
Located == \A c \in Conns : IF conn[c] = "taken" THEN InOnePlace(c) ELSE Nowhere(c)

\* A thread takes up or puts down a task; the others hold what they held.
LEMMA HeldChanges ==
  ASSUME Inv, NEW t \in Threads, NEW j \in Tasks \cup {NoTask}, job' = [job EXCEPT ![t] = j], NEW c \in Conns
  PROVE  Held(c)' = IF j = RecvTask(c) THEN Held(c) \cup {t} ELSE Held(c) \ {t}
  BY DEF Inv, TypeOK, Held

\* The recv_tasks of two connections, and the two tasks of one, are different.
LEMMA TasksDiffer ==
  ASSUME NEW c \in Conns, NEW d \in Conns
  PROVE  /\ RecvTask(c) = RecvTask(d) <=> c = d
         /\ DealTask(c) # RecvTask(d) /\ NoTask # RecvTask(c) /\ RecvTask(c) \in Tasks
  BY NoTaskAssumption DEF RecvTask, DealTask, Tasks

\* What Producer_add inserts is the last of the ring (lines 95-100).
LEMMA AddInRing ==
  ASSUME Inv, NEW t \in Threads, Add(t), NEW c \in Conns
  PROVE  InRing(c)' = IF ToAdd(t) = RecvTask(c) THEN InRing(c) \cup {queue_cur} ELSE InRing(c)
<1> USE PoolAssumption DEF Inv
<1>1. /\ queue_task' = [queue_task EXCEPT ![queue_front] = ToAdd(t)] /\ queue_cur' = queue_cur + 1
      /\ \A k : Cell(k)' = Cell(k)
  BY DEF Add, Cell
<1>2. /\ queue_front = Cell(queue_cur) /\ \A k \in 0..queue_cur-1 : Cell(k) # queue_front
      /\ \A k \in 0..queue_cur : Cell(k) \in 0..QueueMax-1
  BY DEF RingIntact, Cell, TypeOK, Add, Full
<1>3. queue_task \in [0..QueueMax-1 -> Tasks \cup {NoTask}] /\ queue_cur \in Nat
  BY DEF TypeOK
<1>4. \A k \in 0..queue_cur : queue_task'[Cell(k)'] = IF k = queue_cur THEN ToAdd(t) ELSE queue_task[Cell(k)]
  BY <1>1, <1>2, <1>3
<1>5. InRing(c)' = {k \in 0..queue_cur : queue_task'[Cell(k)'] = RecvTask(c)}
  BY <1>1, <1>3 DEF InRing
<1> QED BY <1>3, <1>4, <1>5 DEF InRing

\* Custom takes the first of the ring, and the others move up (lines 138-141).
LEMMA TakeInRing ==
  ASSUME Inv, NEW s \in Slots, TakeTask(s), NEW c \in Conns
  PROVE  /\ InRing(c)' = {k \in 0..queue_cur-2 : k + 1 \in InRing(c)}
         /\ 0 \in InRing(c) <=> queue_task[queue_rear] = RecvTask(c)
<1> USE PoolAssumption DEF Inv
<1>1. queue_rear' = IF queue_rear + 1 = QueueMax THEN 0 ELSE queue_rear + 1
  BY AfterWraps DEF TakeTask, TypeOK
<1>2. /\ queue_cur' = queue_cur - 1 /\ queue_task' = queue_task /\ queue_cur \in Nat /\ queue_cur > 0
      /\ Cell(0) = queue_rear
  BY DEF TakeTask, TypeOK, Cell
<1>3. \A k \in 0..queue_cur-2 : Cell(k)' = Cell(k+1)
  BY <1>1 DEF TakeTask, Cell, TypeOK
<1>4. InRing(c)' = {k \in 0..queue_cur-2 : queue_task[Cell(k+1)] = RecvTask(c)}
  <2>1. InRing(c)' = {k \in 0..queue_cur-2 : queue_task[Cell(k)'] = RecvTask(c)}
    BY <1>2 DEF InRing
  <2> QED BY <1>3, <2>1
<1> QED BY <1>2, <1>4 DEF InRing

\* A recv_task goes from the epoll thread through the ring to a worker, and is done when
\* the connection is armed again or closed.
LEMMA LocatedStep ==
  ASSUME Inv, Located, [Next]_poolVars
  PROVE  Located'
<1> USE ThreadFacts DEF Inv
<1>1. ASSUME UNCHANGED <<ring, job>>, NEW c \in Conns
      PROVE  Held(c)' = Held(c) /\ InRing(c)' = InRing(c) /\ queue_cur' = queue_cur
  BY <1>1 DEF Held, InRing, ring, Cell
<1>2. CASE UNCHANGED <<ring, job, conn>>
  BY <1>1, <1>2 DEF Located, InOnePlace, Nowhere
<1>3. ASSUME NEW c \in Conns, Accept(c) PROVE Located'
  <2>1. UNCHANGED <<ring, job>> /\ \A d \in Conns : conn'[d] = "taken" <=> conn[d] = "taken"
    BY <1>3 DEF Accept, TypeOK
  <2> QED BY <1>1, <2>1 DEF Located, InOnePlace, Nowhere
<1>4. ASSUME NEW c \in Conns, RecvEvent(c) PROVE Located'
  <2>1. /\ job[EpollThread] = NoTask /\ job' = [job EXCEPT ![EpollThread] = RecvTask(c)]
        /\ conn[c] = "armed" /\ conn' = [conn EXCEPT ![c] = "taken"] /\ UNCHANGED ring
    BY <1>4 DEF RecvEvent, JobsFit
  <2>2. ASSUME NEW d \in Conns
        PROVE  /\ Held(d)' = IF d = c THEN Held(d) \cup {EpollThread} ELSE Held(d)
               /\ InRing(d)' = InRing(d) /\ queue_cur' = queue_cur
    <3>1. InRing(d)' = InRing(d) /\ queue_cur' = queue_cur
      BY <2>1 DEF InRing, ring, Cell
    <3>2. EpollThread \notin Held(d)
      BY <2>1, TasksDiffer DEF Held
    <3>3. RecvTask(c) \in Tasks \cup {NoTask} /\ (RecvTask(c) = RecvTask(d) <=> c = d)
      BY TasksDiffer
    <3>4. Held(d)' = IF RecvTask(c) = RecvTask(d) THEN Held(d) \cup {EpollThread} ELSE Held(d) \ {EpollThread}
      BY <2>1, <3>3, HeldChanges
    <3> QED BY <3>1, <3>2, <3>3, <3>4
  <2> QED BY <2>1, <2>2 DEF Located, InOnePlace, Nowhere, TypeOK
<1>5. ASSUME NEW t \in Threads, Add(t) PROVE Located'
  <2>1. queue_cur' = queue_cur + 1 /\ queue_cur \in Nat /\ UNCHANGED conn
    BY <1>5 DEF Add, TypeOK
  <2>2. PICK c \in Conns : job[t] = RecvTask(c)
    BY <1>5 DEF Add, JobsFit, TypeOK, Tasks, RecvTask
  <2>3. CASE t = EpollThread
    <3>1. ToAdd(t) = RecvTask(c) /\ job' = [job EXCEPT ![t] = NoTask]
      BY <1>5, <2>2, <2>3 DEF Add, ToAdd
    <3>2. ASSUME NEW d \in Conns
          PROVE  /\ Held(d)' = Held(d) \ {t} /\ (t \in Held(d) <=> d = c)
                 /\ InRing(d)' = IF d = c THEN InRing(d) \cup {queue_cur} ELSE InRing(d)
      <4>1. Held(d)' = Held(d) \ {t}
        <5>1. NoTask \in Tasks \cup {NoTask} /\ NoTask # RecvTask(d)
          BY TasksDiffer
        <5>2. Held(d)' = IF NoTask = RecvTask(d) THEN Held(d) \cup {t} ELSE Held(d) \ {t}
          BY <3>1, <5>1, HeldChanges
        <5> QED BY <5>1, <5>2
      <4> QED BY <1>5, <2>2, <3>1, <4>1, AddInRing, TasksDiffer DEF Held
    <3>3. ASSUME NEW d \in Conns, conn[d] = "taken" PROVE InOnePlace(d)'
      <4>1. InOnePlace(d)
        BY <3>3 DEF Located
      <4>2. CASE d = c
        <5>1. Held(d) = {t} /\ InRing(d) = {}
          BY <3>2, <4>1, <4>2 DEF InOnePlace
        <5> QED BY <2>1, <3>2, <4>2, <5>1 DEF InOnePlace
      <4>3. CASE d # c
        <5>1. Held(d)' = Held(d) /\ InRing(d)' = InRing(d)
          BY <3>2, <4>3
        <5> QED BY <2>1, <4>1, <5>1 DEF InOnePlace
      <4> QED BY <4>2, <4>3
    <3>4. ASSUME NEW d \in Conns, conn[d] # "taken" PROVE Nowhere(d)'
      BY <3>2, <3>4 DEF Located, Nowhere
    <3> QED BY <2>1, <3>3, <3>4 DEF Located
  <2>4. CASE t # EpollThread
    <3>1. ToAdd(t) = DealTask(c) /\ job' = job
      BY <1>5, <2>2, <2>4 DEF Add, ToAdd, RecvTask
    <3>2. ASSUME NEW d \in Conns PROVE Held(d)' = Held(d) /\ InRing(d)' = InRing(d)
      BY <1>5, <3>1, AddInRing, TasksDiffer DEF Held
    <3> QED BY <2>1, <3>2 DEF Located, InOnePlace, Nowhere
  <2> QED BY <2>3, <2>4
<1>6. ASSUME NEW s \in Slots, TakeTask(s) PROVE Located'
  <2> DEFINE task == queue_task[queue_rear]
  <2>1. /\ queue_cur' = queue_cur - 1 /\ queue_cur \in Nat /\ UNCHANGED conn /\ job[s] = NoTask
        /\ job' = [job EXCEPT ![s] = task] /\ task \in Tasks
    BY <1>6, TakesATask DEF TakeTask, TypeOK, JobsFit
  <2>2. ASSUME NEW d \in Conns
        PROVE  /\ Held(d)' = IF 0 \in InRing(d) THEN Held(d) \cup {s} ELSE Held(d)
               /\ InRing(d)' = {k \in 0..queue_cur-2 : k + 1 \in InRing(d)}
    <3>1. s \notin Held(d)
      BY <2>1, TasksDiffer DEF Held
    <3>2. Held(d)' = IF task = RecvTask(d) THEN Held(d) \cup {s} ELSE Held(d) \ {s}
      BY <2>1, HeldChanges
    <3> QED BY <1>6, <3>1, <3>2, TakeInRing
  <2>3. ASSUME NEW d \in Conns, conn[d] = "taken" PROVE InOnePlace(d)'
    <3>1. CASE \E t \in Threads : Held(d) = {t} /\ InRing(d) = {}
      BY <2>2, <3>1 DEF InOnePlace
    <3>2. ASSUME NEW k \in 0..queue_cur-1, InRing(d) = {k}, Held(d) = {} PROVE InOnePlace(d)'
      <4>1. CASE k = 0
        <5>1. Held(d)' = {s} /\ InRing(d)' = {}
          BY <2>1, <2>2, <3>2, <4>1
        <5> QED BY <5>1 DEF InOnePlace
      <4>2. CASE k # 0
        <5>1. Held(d)' = {} /\ InRing(d)' = {k - 1} /\ k - 1 \in 0..queue_cur'-1
          BY <2>1, <2>2, <3>2, <4>2
        <5> QED BY <5>1 DEF InOnePlace
      <4> QED BY <4>1, <4>2
    <3> QED BY <2>3, <3>1, <3>2 DEF Located, InOnePlace
  <2>4. ASSUME NEW d \in Conns, conn[d] # "taken" PROVE Nowhere(d)'
    BY <2>2, <2>4 DEF Located, Nowhere
  <2> QED BY <2>1, <2>3, <2>4 DEF Located
<1>7. ASSUME NEW s \in Slots, RunDeal(s) PROVE Located'
  <2>1. /\ job[s].fn = "Buffer_Deal" /\ job' = [job EXCEPT ![s] = NoTask] /\ UNCHANGED <<ring, conn>>
    BY <1>7 DEF RunDeal
  <2>2. ASSUME NEW d \in Conns
        PROVE  Held(d)' = Held(d) /\ InRing(d)' = InRing(d) /\ queue_cur' = queue_cur
    <3>1. s \notin Held(d)
      BY <2>1 DEF Held, RecvTask
    <3>2. Held(d)' = Held(d) \ {s}
      BY <2>1, HeldChanges, TasksDiffer
    <3>3. InRing(d)' = InRing(d) /\ queue_cur' = queue_cur
      BY <2>1 DEF InRing, ring, Cell
    <3> QED BY <3>1, <3>2, <3>3
  <2> QED BY <2>1, <2>2 DEF Located, InOnePlace, Nowhere
<1>8. ASSUME NEW s \in Slots, RecvClosed(s) \/ Rearm(s) PROVE Located'
  <2>1. PICK c \in Conns : job[s] = RecvTask(c)
    BY <1>8 DEF RecvClosed, Rearm, JobsFit, TypeOK, Tasks, RecvTask
  <2>2. /\ job' = [job EXCEPT ![s] = NoTask] /\ UNCHANGED ring
        /\ \E to \in {"closed", "armed"} : conn' = [conn EXCEPT ![c] = to]
    BY <1>8, <2>1 DEF RecvClosed, Rearm, RecvTask
  <2>3. ASSUME NEW d \in Conns
        PROVE  /\ Held(d)' = Held(d) \ {s} /\ (s \in Held(d) <=> d = c)
               /\ InRing(d)' = InRing(d) /\ queue_cur' = queue_cur
    <3>1. Held(d)' = Held(d) \ {s}
      BY <2>2, HeldChanges, TasksDiffer
    <3>2. InRing(d)' = InRing(d) /\ queue_cur' = queue_cur
      BY <2>2 DEF InRing, ring, Cell
    <3> QED BY <2>1, <3>1, <3>2, TasksDiffer DEF Held
  <2>4. Nowhere(c)' /\ conn'[c] # "taken"
    <3>1. Held(c) = {s} /\ InRing(c) = {}
      BY <2>3 DEF Located, InOnePlace, Nowhere
    <3> QED BY <2>2, <2>3, <3>1 DEF Nowhere, TypeOK
  <2>5. ASSUME NEW d \in Conns, d # c
        PROVE  Held(d)' = Held(d) /\ InRing(d)' = InRing(d) /\ queue_cur' = queue_cur /\ conn'[d] = conn[d]
    BY <2>2, <2>3, <2>5, ZenonT(60) DEF TypeOK
  <2>6. ASSUME NEW d \in Conns
        PROVE  IF conn'[d] = "taken" THEN InOnePlace(d)' ELSE Nowhere(d)'
    BY <2>4, <2>5 DEF Located, InOnePlace, Nowhere
  <2> QED BY <2>6 DEF Located
<1>9. ASSUME NEW s \in Slots, RecvPacket(s) \/ TaskDone(s) \/ WaitTask(s) \/ Leave(s)
      PROVE  UNCHANGED <<ring, job, conn>>
  BY <1>9 DEF RecvPacket, TaskDone, WaitTask, Leave
<1>10. ASSUME NEW t \in Threads, AddWait(t) \/ SpuriousWake(t)
       PROVE  UNCHANGED <<ring, job, conn>>
  BY <1>10 DEF AddWait, SpuriousWake
<1>11. ASSUME ManagerStep
       PROVE  UNCHANGED <<ring, job, conn>>
  BY <1>11 DEF ManagerStep, ManagerCheck, CreateThread, CreateFails, CreateNothing, SetWait, ShrinkSignal, ManagerWakes
<1>12. CASE UNCHANGED poolVars
  BY <1>2, <1>12 DEF poolVars, ring
<1> QED
  BY <1>2, <1>3, <1>4, <1>5, <1>6, <1>7, <1>8, <1>9, <1>10, <1>11, <1>12
     DEF Next, EpollStep, WorkerStep, GetStep, AddStep, RunStep

\* No connection has been taken out of epoll yet.
LEMMA LocatedInit ==
  ASSUME Init
  PROVE  Located
<1>1. ASSUME NEW c \in Conns PROVE Nowhere(c) /\ conn[c] # "taken"
  <2>1. Held(c) = {}
    BY TasksDiffer DEF Init, Held
  <2>2. InRing(c) = {}
    BY DEF Init, InRing
  <2> QED BY <2>1, <2>2 DEF Init, Nowhere
<1> QED BY <1>1 DEF Located

\* A connection taken out of epoll has one recv_task, any other none (block_epoll_net.cpp 131, 147).
THEOREM OneReceiverAlways == Spec => []OneReceiver
<1>1. Init => Located
  BY LocatedInit
<1>2. Inv /\ Located => OneReceiver
  <2> SUFFICES ASSUME Inv, Located, NEW c \in Conns
               PROVE  RecvHolders(c) = IF conn[c] = "taken" THEN 1 ELSE 0
    BY DEF OneReceiver
  <2>1. RecvHolders(c) = Cardinality(Held(c)) + Cardinality(InRing(c))
    BY DEF RecvHolders, Held, InRing
  <2>2. CASE conn[c] = "taken"
    <3>1. InOnePlace(c)
      BY <2>2 DEF Located
    <3>2. \/ Cardinality(Held(c)) = 1 /\ Cardinality(InRing(c)) = 0
          \/ Cardinality(Held(c)) = 0 /\ Cardinality(InRing(c)) = 1
      BY <3>1, FS_EmptySet, FS_Singleton DEF InOnePlace
    <3> QED BY <2>1, <2>2, <3>2
  <2>3. CASE conn[c] # "taken"
    <3>1. Held(c) = {} /\ InRing(c) = {}
      BY <2>3 DEF Located, Nowhere
    <3> QED BY <2>1, <2>3, <3>1, FS_EmptySet
  <2> QED BY <2>2, <2>3
<1>3. Inv /\ Located /\ [Next]_poolVars => Inv' /\ Located'
  BY InvStep, LocatedStep
<1> QED BY <1>1, <1>2, <1>3, InvInit, PTL DEF Spec
===============================================================================
