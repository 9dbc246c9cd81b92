---------------------------- MODULE PoolRefinement ----------------------------
(****************************************************************************)
(* The thread pool implements the bounded FIFO queue of module TaskQueue,   *)
(* for every size of the pool: Producer_add is a Submit, the taking of a    *)
(* task a Take, the return of a task a Finish, and every other step of a    *)
(* worker, of the manager or of the epoll thread leaves the queue alone.    *)
(****************************************************************************)
EXTENDS ThreadPoolProofs, SequenceTheorems

\* The ring, read from queue_rear, is a sequence of queue_cur tasks (queue_cur, lines 98-100, 140-141).
LEMMA PendingIsASeq == Inv => Pending \in Seq(Tasks) /\ Len(Pending) = queue_cur
<1> SUFFICES ASSUME Inv PROVE Pending \in Seq(Tasks) /\ Len(Pending) = queue_cur
  OBVIOUS
<1> USE PoolAssumption DEF Inv, TypeOK
<1>1. Pending \in [1..queue_cur -> Tasks]
  BY DEF Pending, RingIntact
<1>2. queue_cur \in Nat
  OBVIOUS
<1>3. Pending \in Seq(Tasks)
  BY <1>1, <1>2, SeqDef
<1>4. DOMAIN Pending = 1..queue_cur /\ DOMAIN Pending = 1..Len(Pending)
  BY <1>1, <1>3, LenProperties
<1> QED BY <1>2, <1>3, <1>4, LenProperties

\* Producer_add puts its task behind the others and touches none of them (lines 95-100).
LEMMA AddSubmits ==
  ASSUME Inv, Inv', NEW t \in Threads, Add(t)
  PROVE  \E task \in Tasks : Queue!Submit(task)
<1> USE PoolAssumption, ThreadFacts DEF Inv
<1>1. ToAdd(t) \in Tasks
  BY AddsATask DEF Add, Full
<1>2. Pending \in Seq(Tasks) /\ Len(Pending) = queue_cur
  BY PendingIsASeq
<1>3. Pending' \in Seq(Tasks) /\ Len(Pending') = queue_cur + 1
  <2>1. Inv' => (Pending \in Seq(Tasks) /\ Len(Pending) = queue_cur)'
    BY PendingIsASeq, PTL
  <2> QED BY <2>1 DEF Add, Full
<1>4. ASSUME NEW i \in 1..queue_cur+1 PROVE Pending'[i] = Append(Pending, ToAdd(t))[i]
  <2>1. Cell(i-1)' = Cell(i-1)
    BY DEF Add, Full, Cell
  <2>2. queue_task' = [queue_task EXCEPT ![queue_front] = ToAdd(t)]
    BY DEF Add, Full
  <2>3. queue_front = Cell(queue_cur) /\ Cell(i-1) \in 0..QueueMax-1
        /\ (i # queue_cur + 1 => Cell(i-1) # queue_front)
    BY DEF RingIntact, Cell, TypeOK, Add, Full
  <2>4. Pending'[i] = queue_task'[Cell(i-1)']
    BY DEF Pending, Add, Full, TypeOK
  <2>5. Pending'[i] = IF i = queue_cur + 1 THEN ToAdd(t) ELSE queue_task[Cell(i-1)]
    <3>1. queue_task \in [0..QueueMax-1 -> Tasks \cup {NoTask}]
      BY DEF TypeOK
    <3>2. i = queue_cur + 1 => Cell(i-1) = queue_front
      BY <2>3 DEF TypeOK
    <3> QED BY <2>1, <2>2, <2>3, <2>4, <3>1, <3>2
  <2>6. i # queue_cur + 1 => Pending[i] = queue_task[Cell(i-1)]
    BY DEF Pending, TypeOK
  <2> QED BY <1>1, <1>2, <2>5, <2>6, AppendProperties
<1>5. Pending' = Append(Pending, ToAdd(t))
  BY <1>1, <1>2, <1>3, <1>4, AppendProperties, SeqEqual
<1>6. Len(Pending) < QueueMax
  BY <1>2 DEF Add, Full, TypeOK
<1>7. Running' = Running
  BY DEF Add, Full, Running, TypeOK
<1> QED BY <1>1, <1>5, <1>6, <1>7 DEF Queue!Submit

\* Custom takes the oldest task (lines 138-141).
LEMMA TakeTakes ==
  ASSUME Inv, Inv', NEW s \in Slots, TakeTask(s)
  PROVE  Queue!Take(s)
<1> USE PoolAssumption, ThreadFacts DEF Inv
<1>1. Pending \in Seq(Tasks) /\ Len(Pending) = queue_cur
  BY PendingIsASeq
<1>2. Pending' \in Seq(Tasks) /\ Len(Pending') = queue_cur - 1
  <2>1. Inv' => (Pending \in Seq(Tasks) /\ Len(Pending) = queue_cur)'
    BY PendingIsASeq, PTL
  <2> QED BY <2>1 DEF TakeTask
<1>3. Pending # <<>>
  BY <1>1, EmptySeq DEF TakeTask
<1>4. queue_rear' = IF queue_rear + 1 = QueueMax THEN 0 ELSE queue_rear + 1
  BY AfterWraps DEF TakeTask, TypeOK
<1>5. ASSUME NEW i \in 1..queue_cur-1 PROVE Pending'[i] = Tail(Pending)[i]
  <2>1. Cell(i-1)' = Cell(i)
    BY <1>4 DEF TakeTask, Cell, TypeOK
  <2>2. Pending'[i] = queue_task'[Cell(i-1)']
    BY DEF Pending, TakeTask, TypeOK
  <2>3. Pending[i+1] = queue_task[Cell(i)]
    BY DEF Pending, TypeOK
  <2>4. queue_task' = queue_task
    BY DEF TakeTask
  <2> QED BY <1>1, <1>3, <2>1, <2>2, <2>3, <2>4, HeadTailProperties
<1>6. Pending' = Tail(Pending)
  BY <1>1, <1>2, <1>3, <1>5, HeadTailProperties, SeqEqual
<1>7. Head(Pending) = queue_task[queue_rear]
  <2>1. Pending[1] = queue_task[Cell(0)] /\ Cell(0) = queue_rear
    BY DEF Pending, Cell, TypeOK, TakeTask
  <2> QED BY <2>1, <1>1, <1>3
<1>8. Running[s] = NoTask /\ Running' = [Running EXCEPT ![s] = queue_task[queue_rear]]
  BY DEF TakeTask, Running, JobsFit, TypeOK
<1> QED BY <1>3, <1>6, <1>7, <1>8 DEF Queue!Take, Queue!Idle

\* A worker in its task goes on in it or finishes it, and leaves the queue alone.
LEMMA RunFinishes ==
  ASSUME Inv, NEW s \in Slots, RunStep(s)
  PROVE  Queue!Finish(s) \/ UNCHANGED <<Pending, Running>>
<1> USE ThreadFacts DEF Inv
<1>1. UNCHANGED ring
  BY DEF RunStep, RunDeal, RecvPacket, RecvClosed, Rearm
<1>2. Pending' = Pending
  BY <1>1 DEF ring, Pending, Cell
<1>3. CASE RecvPacket(s)
  BY <1>2, <1>3 DEF RecvPacket, Running
<1>4. CASE RunDeal(s) \/ RecvClosed(s) \/ Rearm(s)
  <2>1. Running[s] # NoTask /\ Running' = [Running EXCEPT ![s] = NoTask]
    BY <1>4 DEF RunDeal, RecvClosed, Rearm, Running, JobsFit, TypeOK
  <2> QED BY <1>2, <2>1 DEF Queue!Finish, Queue!Idle
<1> QED BY <1>3, <1>4 DEF RunStep

\* The other steps change neither the ring nor what a worker runs.
LEMMA OthersStutter ==
  ASSUME Inv, Next, \A t \in Threads : ~ Add(t),
         \A s \in Slots : ~ TakeTask(s) /\ ~ RunStep(s)
  PROVE  UNCHANGED <<Pending, Running>>
<1> USE ThreadFacts DEF Inv
<1>1. UNCHANGED ring
  BY RingChanges
<1>2. Running' = Running
  <2>1. CASE EpollStep
    BY <2>1 DEF EpollStep, Accept, RecvEvent, Running, TypeOK, Threads, EpollThread
  <2>2. CASE ManagerStep
    BY <2>2 DEF ManagerStep, ManagerCheck, CreateThread, CreateFails, CreateNothing,
                SetWait, ShrinkSignal, ManagerWakes, Running
  <2> QED
    BY <2>1, <2>2 DEF Next, WorkerStep, GetStep, AddStep, AddWait, WaitTask, Leave, TaskDone,
                      SpuriousWake, Running
<1> QED BY <1>1, <1>2 DEF ring, Pending, Cell

\* Every step of the pool is a step of the queue or leaves the queue as it is.
LEMMA StepRefines ==
  ASSUME Inv, Inv', [Next]_poolVars
  PROVE  [Queue!QueueNext]_<<Pending, Running>>
<1>1. ASSUME NEW t \in Threads, Add(t) PROVE Queue!QueueNext
  BY <1>1, AddSubmits DEF Queue!QueueNext
<1>2. ASSUME NEW s \in Slots, TakeTask(s) PROVE Queue!QueueNext
  BY <1>2, TakeTakes DEF Queue!QueueNext
<1>3. ASSUME NEW s \in Slots, RunStep(s)
      PROVE  Queue!QueueNext \/ UNCHANGED <<Pending, Running>>
  BY <1>3, RunFinishes DEF Queue!QueueNext
<1>4. CASE UNCHANGED poolVars
  BY <1>4 DEF poolVars, Pending, Running, Cell
<1> QED BY <1>1, <1>2, <1>3, <1>4, OthersStutter

\* The pool starts as an empty queue with free servers.
LEMMA InitRefines ==
  ASSUME Init
  PROVE  Queue!QueueInit
<1>1. Inv
  BY InvInit
<1>2. Pending \in Seq(Tasks) /\ Len(Pending) = 0
  BY <1>1, PendingIsASeq DEF Init
<1>3. Pending = <<>>
  BY <1>2, EmptySeq
<1> QED BY <1>3, ThreadFacts DEF Init, Queue!QueueInit, Running

\* The pool of Thread_pool.cpp is a bounded FIFO queue: no task is lost, duplicated,
\* overwritten in the ring, or taken out of order.
THEOREM PoolIsAQueue == Spec => ImplementsQueue
<1>1. Init => Queue!QueueInit
  BY InitRefines
<1>2. Inv /\ Inv' /\ [Next]_poolVars => [Queue!QueueNext]_<<Pending, Running>>
  BY StepRefines
<1> QED BY <1>1, <1>2, InvAlways, PTL DEF Spec, ImplementsQueue, Queue!QueueSpec, Queue!queueVars
===============================================================================
