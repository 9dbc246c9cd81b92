------------------------------ MODULE ThreadPool ------------------------------
(****************************************************************************)
(* The thread pool of src/src/Thread_pool.cpp together with its two         *)
(* producers in src/src/block_epoll_net.cpp: the epoll thread, which hands  *)
(* over one recv_task per readable connection (recv_event), and recv_task   *)
(* itself, which runs ON a worker and hands over the Buffer_Deal task of    *)
(* the packet it read.                                                      *)
(*                                                                          *)
(* A critical section under the pool's mutex is one step; what runs between *)
(* two critical sections is a step of its own.  A wait on a condition       *)
(* variable is a program-counter value, a signal moves at most one waiter   *)
(* back to the loop that rechecks the condition, and a waiter may also wake *)
(* spuriously.  thread_shutdown is TRUE ("running") from the constructor on *)
(* and no code ever clears it, so the tests of it are absent.               *)
(****************************************************************************)
EXTENDS Integers, Sequences, FiniteSets

CONSTANTS ThreadMax,  \* thread_max: slots of tids
          ThreadMin,  \* thread_min: workers created at start, and per growth
          QueueMax,   \* queue_max: capacity of the ring
          DefCount,   \* _DEF_COUNT: workers asked to leave by one shrink
          Conns,      \* connections (a closed one may be connected anew)
          MaxFail,    \* bound: how often pthread_create may fail
          NoTask      \* "no task": never a member of Tasks

ASSUME PoolAssumption ==
  /\ ThreadMin \in Nat \ {0} /\ ThreadMax \in Nat /\ ThreadMin <= ThreadMax
  /\ QueueMax \in Nat \ {0} /\ DefCount \in Nat /\ MaxFail \in Nat

RecvTask(c) == [fn |-> "recv_task", conn |-> c]
DealTask(c) == [fn |-> "Buffer_Deal", conn |-> c]
Tasks == [fn : {"recv_task", "Buffer_Deal"}, conn : Conns]

ASSUME NoTaskAssumption == NoTask \notin Tasks

Slots == 1..ThreadMax          \* indices of tids
EpollThread == 0               \* the thread in EventLoop
Threads == Slots \cup {EpollThread}

VARIABLES
  thread_alive, thread_busy, thread_wait,         \* the pool's counters
  queue_cur, queue_front, queue_rear, queue_task, \* the ring of tasks
  pc,       \* where each thread is
  job,      \* the task a worker runs; the task the epoll thread hands over
  conn,     \* "armed" in epoll, "taken" by its ONESHOT event, or "closed"
  manager,  \* where the manager thread is
  count,    \* the manager's loop counter (j of the creation loop, i of the signals)
  shrink,   \* whether the manager's snapshot calls for a shrink
  failed    \* history: thread creations that failed and were counted alive

poolVars == <<thread_alive, thread_busy, thread_wait, queue_cur, queue_front,
              queue_rear, queue_task, pc, job, conn, manager, count, shrink, failed>>
counters == <<thread_alive, thread_busy, thread_wait, failed>>
ring == <<queue_cur, queue_front, queue_rear, queue_task>>
managerVars == <<manager, count, shrink>>

(* Program counters.  A slot is "none" while tids[i] is 0, and "stale" when *)
(* a failed pthread_create left a value in it.  "get": about to lock and    *)
(* test the queue; "idle": waits on not_empty; "task": runs its task;       *)
(* "add": about to lock in Producer_add; "full": waits there on not_full;   *)
(* "rearm": Producer_add has returned into recv_task; "done": the task has  *)
(* returned.  The epoll thread is at "poll", "add" or "full".               *)
BusyPcs == {"task", "add", "full", "rearm", "done"}
Pcs == {"none", "stale", "get", "idle", "exited", "poll"} \cup BusyPcs
Live == {s \in Slots : pc[s] \in {"get", "idle"} \cup BusyPcs}
Busy == {s \in Slots : pc[s] \in BusyPcs}

(* Definitions named Mutant... are plausible mistakes: each stands in for    *)
(* the definition after it to show that a property notices the mistake.      *)
MutantAfterPastEnd(i) == (i + 1) % (QueueMax + 1)
MutantAfterSkips(i) == (i + 2) % QueueMax

\* The index after i in the ring.
After(i) == (i + 1) % QueueMax

MutantSignalLost(f, from, to) == {f}

\* pthread_cond_signal: at most one of the threads in f that wait at "from" goes on at "to".
Signal(f, from, to) ==
  LET W == {t \in Threads : f[t] = from}
  IN  IF W = {} THEN {f} ELSE {[f EXCEPT ![t] = to] : t \in W}

\* Pool_create has started ThreadMin workers and the manager; no client has connected.
Init ==
  /\ thread_alive = ThreadMin /\ thread_busy = 0 /\ thread_wait = 0
  /\ queue_cur = 0 /\ queue_front = 0 /\ queue_rear = 0
  /\ queue_task = [i \in 0..QueueMax-1 |-> NoTask]
  /\ pc = [t \in Threads |-> IF t = EpollThread THEN "poll"
                             ELSE IF t <= ThreadMin THEN "get" ELSE "none"]
  /\ job = [t \in Threads |-> NoTask]
  /\ conn = [c \in Conns |-> "closed"]
  /\ manager = "check" /\ count = 0 /\ shrink = FALSE
  /\ failed = 0
-----------------------------------------------------------------------------
(* The epoll thread.  A batch of epoll_wait is handed over one event at a   *)
(* time; an event not yet handed over is indistinguishable from one that is *)
(* still armed.                                                             *)

Accept(c) == /\ pc[EpollThread] = "poll" /\ conn[c] = "closed"
             /\ conn' = [conn EXCEPT ![c] = "armed"]
             /\ UNCHANGED <<counters, ring, managerVars, pc, job>>

\* Without EPOLLONESHOT the event stays armed.
MutantRecvEventStaysArmed(c) ==
  /\ pc[EpollThread] = "poll" /\ conn[c] = "armed"
  /\ pc' = [pc EXCEPT ![EpollThread] = "add"]
  /\ job' = [job EXCEPT ![EpollThread] = RecvTask(c)]
  /\ UNCHANGED <<counters, ring, managerVars, conn>>

RecvEvent(c) == /\ pc[EpollThread] = "poll" /\ conn[c] = "armed"
                /\ conn' = [conn EXCEPT ![c] = "taken"]
                /\ pc' = [pc EXCEPT ![EpollThread] = "add"]
                /\ job' = [job EXCEPT ![EpollThread] = RecvTask(c)]
                /\ UNCHANGED <<counters, ring, managerVars>>
-----------------------------------------------------------------------------
(* Producer_add, called by the epoll thread and, inside recv_task, by a     *)
(* worker.                                                                  *)

ToAdd(t) == IF t = EpollThread THEN job[t] ELSE DealTask(job[t].conn)

MutantFull == queue_cur > QueueMax
Full == queue_cur = QueueMax

AddWait(t) == /\ pc[t] = "add" /\ Full
              /\ pc' = [pc EXCEPT ![t] = "full"]
              /\ UNCHANGED <<counters, ring, managerVars, job, conn>>

Add(t) ==
  /\ pc[t] = "add" /\ ~Full
  /\ queue_task' = [queue_task EXCEPT ![queue_front] = ToAdd(t)]
  /\ queue_front' = After(queue_front)
  /\ queue_cur' = queue_cur + 1
  /\ pc' \in Signal([pc EXCEPT ![t] = IF t = EpollThread THEN "poll" ELSE "rearm"], "idle", "get")
  /\ job' = IF t = EpollThread THEN [job EXCEPT ![t] = NoTask] ELSE job
  /\ UNCHANGED <<counters, queue_rear, managerVars, conn>>
-----------------------------------------------------------------------------
(* Custom, the worker.                                                      *)

WaitTask(s) == /\ pc[s] = "get" /\ queue_cur = 0
               /\ pc' = [pc EXCEPT ![s] = "idle"]
               /\ UNCHANGED <<counters, ring, managerVars, job, conn>>

MutantMayLeave == thread_wait > 0
MayLeave == thread_wait > 0 /\ thread_alive > ThreadMin

MutantLeaveUncounted(s) == /\ pc[s] = "get" /\ queue_cur # 0 /\ MayLeave
                           /\ thread_wait' = thread_wait - 1
                           /\ pc' = [pc EXCEPT ![s] = "exited"]
                           /\ UNCHANGED <<thread_alive, thread_busy, failed, ring, managerVars, job, conn>>

\* The worker leaves; the signal that woke it is spent and not passed on.
Leave(s) == /\ pc[s] = "get" /\ queue_cur # 0 /\ MayLeave
            /\ thread_wait' = thread_wait - 1
            /\ thread_alive' = thread_alive - 1
            /\ pc' = [pc EXCEPT ![s] = "exited"]
            /\ UNCHANGED <<thread_busy, failed, ring, managerVars, job, conn>>

TakeTask(s) ==
  /\ pc[s] = "get" /\ queue_cur # 0 /\ ~MayLeave
  /\ job' = [job EXCEPT ![s] = queue_task[queue_rear]]
  /\ queue_rear' = After(queue_rear)
  /\ queue_cur' = queue_cur - 1
  /\ thread_busy' = thread_busy + 1
  /\ pc' \in Signal([pc EXCEPT ![s] = "task"], "full", "add")
  /\ UNCHANGED <<thread_alive, thread_wait, failed, queue_front, queue_task, managerVars, conn>>

(* At "task" a worker is inside the task's own code, which may never come    *)
(* back to the pool: recv_task reads a blocking socket (lines 163, 173), so  *)
(* half a packet holds it, and Buffer_Deal sends on one (line 248).  Nothing *)
(* below says that a step out of "task" is ever taken.                       *)

\* Buffer_Deal has returned; what it does is the subject of other modules.
RunDeal(s) == /\ pc[s] = "task" /\ job[s].fn = "Buffer_Deal"
              /\ pc' = [pc EXCEPT ![s] = "done"]
              /\ job' = [job EXCEPT ![s] = NoTask]
              /\ UNCHANGED <<counters, ring, managerVars, conn>>

\* recv_task has read a whole packet and calls Producer_add.
RecvPacket(s) == /\ pc[s] = "task" /\ job[s].fn = "recv_task"
                 /\ pc' = [pc EXCEPT ![s] = "add"]
                 /\ UNCHANGED <<counters, ring, managerVars, job, conn>>

\* recv_task: read says the peer has closed; the connection is dropped.
RecvClosed(s) == /\ pc[s] = "task" /\ job[s].fn = "recv_task"
                 /\ conn' = [conn EXCEPT ![job[s].conn] = "closed"]
                 /\ pc' = [pc EXCEPT ![s] = "done"]
                 /\ job' = [job EXCEPT ![s] = NoTask]
                 /\ UNCHANGED <<counters, ring, managerVars>>

\* recv_task, after Producer_add: eventadd arms the connection again.
Rearm(s) == /\ pc[s] = "rearm"
            /\ conn' = [conn EXCEPT ![job[s].conn] = "armed"]
            /\ pc' = [pc EXCEPT ![s] = "done"]
            /\ job' = [job EXCEPT ![s] = NoTask]
            /\ UNCHANGED <<counters, ring, managerVars>>

TaskDone(s) == /\ pc[s] = "done"
               /\ thread_busy' = thread_busy - 1
               /\ pc' = [pc EXCEPT ![s] = "get"]
               /\ UNCHANGED <<thread_alive, thread_wait, failed, ring, managerVars, job, conn>>
-----------------------------------------------------------------------------
(* Manager.                                                                 *)

\* The tests of the manager, on its snapshot of the counters.
WantsGrow(alive, busy, cur) == /\ cur > alive - busy \/ busy * 100 >= 80 * alive
                               /\ ThreadMax > alive
WantsShrink(alive, busy) == busy * 2 < alive - busy /\ alive > ThreadMin

AfterCreate(sh) == IF sh THEN "setwait" ELSE "sleep"

ManagerCheck ==
  /\ manager = "check"
  /\ shrink' = WantsShrink(thread_alive, thread_busy)
  /\ manager' = IF WantsGrow(thread_alive, thread_busy, queue_cur)
                THEN "create" ELSE AfterCreate(shrink')
  /\ UNCHANGED <<counters, ring, count, pc, job, conn>>

\* pthread_kill(tid, 0) RETURNS the error number: 0, or ESRCH for a thread that is gone.
ESRCH == 3
pthread_kill(s) == IF pc[s] \in {"exited", "stale"} THEN ESRCH ELSE 0
if_thread_alive(s) == pthread_kill(s) # -1

FreeSlots == {s \in Slots : pc[s] = "none" \/ ~if_thread_alive(s)}
FirstFree == CHOOSE s \in FreeSlots : \A t \in FreeSlots : s <= t

\* One turn of the creation loop is over.
NextTurn == IF count + 1 < ThreadMin
            THEN count' = count + 1 /\ UNCHANGED manager
            ELSE count' = 0 /\ manager' = AfterCreate(shrink)

CreateThread == /\ manager = "create" /\ FreeSlots # {}
                /\ pc' = [pc EXCEPT ![FirstFree] = "get"]
                /\ thread_alive' = thread_alive + 1
                /\ NextTurn
                /\ UNCHANGED <<thread_busy, thread_wait, failed, ring, shrink, job, conn>>

\* pthread_create fails; its result is ignored, and tids[i] may or may not be written.
CreateFails == /\ manager = "create" /\ FreeSlots # {} /\ failed < MaxFail
               /\ \E left \in {"none", "stale"} : pc' = [pc EXCEPT ![FirstFree] = left]
               /\ thread_alive' = thread_alive + 1
               /\ failed' = failed + 1
               /\ NextTurn
               /\ UNCHANGED <<thread_busy, thread_wait, ring, shrink, job, conn>>

CreateNothing == /\ manager = "create" /\ FreeSlots = {}
                 /\ NextTurn
                 /\ UNCHANGED <<counters, ring, shrink, pc, job, conn>>

SetWait == /\ manager = "setwait"
           /\ thread_wait' = DefCount
           /\ manager' = IF DefCount = 0 THEN "sleep" ELSE "signal"
           /\ UNCHANGED <<thread_alive, thread_busy, failed, ring, count, shrink, pc, job, conn>>

\* The signals of a shrink are sent one by one, outside the lock.
ShrinkSignal == /\ manager = "signal"
                /\ pc' \in Signal(pc, "idle", "get")
                /\ IF count + 1 < DefCount
                   THEN count' = count + 1 /\ UNCHANGED manager
                   ELSE count' = 0 /\ manager' = "sleep"
                /\ UNCHANGED <<counters, ring, shrink, job, conn>>

ManagerWakes == /\ manager = "sleep"
                /\ manager' = "check"
                /\ UNCHANGED <<counters, ring, count, shrink, pc, job, conn>>
-----------------------------------------------------------------------------
\* POSIX lets a condition wait return without a signal.
SpuriousWake(t) == /\ pc[t] \in {"idle", "full"}
                   /\ pc' = [pc EXCEPT ![t] = IF @ = "idle" THEN "get" ELSE "add"]
                   /\ UNCHANGED <<counters, ring, managerVars, job, conn>>

EpollStep == \E c \in Conns : Accept(c) \/ RecvEvent(c)

AddStep(t) == AddWait(t) \/ Add(t)
GetStep(s) == WaitTask(s) \/ Leave(s) \/ TakeTask(s)
RunStep(s) == RunDeal(s) \/ RecvPacket(s) \/ RecvClosed(s) \/ Rearm(s)
WorkerStep(s) == GetStep(s) \/ RunStep(s) \/ TaskDone(s) \/ AddStep(s)

ManagerStep == \/ ManagerCheck \/ CreateThread \/ CreateFails \/ CreateNothing
               \/ SetWait \/ ShrinkSignal \/ ManagerWakes

Next == \/ EpollStep \/ AddStep(EpollThread)
        \/ \E s \in Slots : WorkerStep(s)
        \/ ManagerStep
        \/ \E t \in Threads : SpuriousWake(t)

Spec == Init /\ [][Next]_poolVars

(* Threads that can run the pool's code do run it.  Clients, spurious       *)
(* wakeups and failures owe nothing, nor does a task under way, which may    *)
(* hang on its socket.                                                      *)
PoolCode(s) == GetStep(s) \/ Rearm(s) \/ TaskDone(s) \/ AddStep(s)

Fairness == /\ WF_poolVars(AddStep(EpollThread))
            /\ \A s \in Slots : WF_poolVars(PoolCode(s))
            /\ WF_poolVars(ManagerStep)

FairSpec == Spec /\ Fairness
-----------------------------------------------------------------------------
\* Every variable has its type; the ring's indices stay inside queue_task.
TypeOK ==
  /\ thread_alive \in Nat /\ thread_busy \in Nat /\ thread_wait \in 0..DefCount
  /\ queue_cur \in 0..QueueMax
  /\ queue_front \in 0..QueueMax-1 /\ queue_rear \in 0..QueueMax-1
  /\ queue_task \in [0..QueueMax-1 -> Tasks \cup {NoTask}]
  /\ pc \in [Threads -> Pcs]
  /\ pc[EpollThread] \in {"poll", "add", "full"}
  /\ \A s \in Slots : pc[s] # "poll"
  /\ job \in [Threads -> Tasks \cup {NoTask}]
  /\ conn \in [Conns -> {"armed", "taken", "closed"}]
  /\ manager \in {"check", "create", "setwait", "signal", "sleep"}
  /\ count \in Nat /\ shrink \in BOOLEAN
  /\ failed \in 0..MaxFail

(* The two counters the manager steers by agree with the threads there are: *)
(* thread_alive counts the workers that run plus the creations that failed  *)
(* unnoticed, thread_busy the workers between taking a task and giving it   *)
(* back, across every interleaving of takes, nested adds, exits, creations. *)
CountersExact == /\ thread_alive = Cardinality(Live) + failed
                 /\ thread_busy = Cardinality(Busy)

(* The shrinking of Custom (lines 130-136) stops at thread_min: however     *)
(* stale the manager's request and however many workers answer it, the pool *)
(* keeps ThreadMin workers, less those that were counted but never created. *)
KeepsMinimum == Cardinality(Live) >= ThreadMin - failed

(* The live region of the ring is the queue_cur cells from queue_rear up to *)
(* queue_front, and each of them holds a task: a cell that was never        *)
(* written, or was taken before, is never run.                              *)
Cell(k) == IF queue_rear + k < QueueMax THEN queue_rear + k ELSE queue_rear + k - QueueMax
RingIntact ==
  /\ queue_front = IF queue_rear + queue_cur < QueueMax THEN queue_rear + queue_cur
                   ELSE queue_rear + queue_cur - QueueMax
  /\ \A k \in 0..queue_cur-1 : queue_task[Cell(k)] \in Tasks

(* EPOLLONESHOT queues the receptions of a connection (block_epoll_net.cpp  *)
(* 131, 147): a connection taken out of epoll has exactly one recv_task,    *)
(* in the epoll thread's hands, queued, or running, and any other has none. *)
RecvHolders(c) ==
  Cardinality({t \in Threads : job[t] = RecvTask(c)})
    + Cardinality({k \in 0..queue_cur-1 : queue_task[Cell(k)] = RecvTask(c)})
OneReceiver == \A c \in Conns : RecvHolders(c) = IF conn[c] = "taken" THEN 1 ELSE 0

(* The pool implements the bounded FIFO queue of module TaskQueue: the ring *)
(* read from queue_rear is the queue, each worker is a server.              *)
Pending == [i \in 1..queue_cur |-> queue_task[Cell(i-1)]]
Running == [s \in Slots |-> job[s]]
Queue == INSTANCE TaskQueue WITH Servers <- Slots, Bound <- QueueMax,
                                 pending <- Pending, running <- Running
ImplementsQueue == Queue!QueueSpec

(* A task in the queue never waits for a worker that nobody will wake: while *)
(* the queue holds a task, some worker is awake (it will come back to the    *)
(* test of queue_cur at line 118).                                           *)
NoLostWakeup == queue_cur > 0 => \E s \in Live : pc[s] # "idle"

(* What Add and the other wakeups achieve is undone by one step only.  While *)
(* a worker sleeps, every queued task has a worker of its own that is awake  *)
(* and about to test the queue (line 118); if a step breaks that, it is a    *)
(* worker that leaves the pool on the wakeup it was given (lines 130-136).   *)
AboutToTest == {s \in Slots : pc[s] = "get"}
Expected == (\E s \in Slots : pc[s] = "idle") => queue_cur <= Cardinality(AboutToTest)
WakeupsLostOnlyByLeaving ==
  [][Expected => Expected' \/ \E s \in Slots : pc[s] = "get" /\ pc'[s] = "exited"]_poolVars

(* No room in the ring is missed: while a thread sleeps on not_full inside   *)
(* Producer_add, every free cell is spoken for by a thread that has woken up *)
(* or come along and is about to fill it.  Each TakeTask signals one         *)
(* producer only, and a woken producer may find that another one was faster. *)
AboutToAdd == {t \in Threads : pc[t] = "add"}
NoRoomMissed ==
  (\E t \in Threads : pc[t] = "full") => QueueMax - queue_cur <= Cardinality(AboutToAdd)

(* The comment at line 85 of Producer_add: the queue is full, wait until a   *)
(* task is TAKEN.  Someone can take one, unless the ring is full, the pool   *)
(* can grow no more, and every live worker is in Producer_add itself, inside *)
(* its recv_task, which takes a connection for each of them.                 *)
SomeWorkerUnblocked ==
  Full /\ FreeSlots = {} => \E s \in Live : pc[s] \notin {"add", "full"}

(* A recv_task in the queue is taken by some worker, provided that no worker *)
(* hangs in a task for ever and that the workers do not all want room.       *)
Queued(c) == \E k \in 0..queue_cur-1 : queue_task[Cell(k)] = RecvTask(c)
QueuedRecvTaken ==
  /\ []SomeWorkerUnblocked
  /\ \A s \in Slots : []<>(pc[s] # "task")
  => \A c \in Conns : Queued(c) ~> ~Queued(c)

(* The comment at line 177 of the manager says that the slot of a thread     *)
(* that does not exist or HAS ENDED gets a new thread: a turn of the         *)
(* creation loop that finds the slot of an exited worker creates a thread.   *)
EndedSlotsReused ==
  [][(manager = "create" /\ (count' # count \/ manager' # manager)
       /\ \E s \in Slots : pc[s] = "exited") => thread_alive' > thread_alive]_poolVars
===============================================================================
