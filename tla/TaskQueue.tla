------------------------------ MODULE TaskQueue ------------------------------
(****************************************************************************)
(* What the thread pool promises its users: a bounded first-in first-out    *)
(* queue of tasks.  A producer hands a task over (Producer_add), a server   *)
(* takes the oldest task, runs it, and is free again.  No task is lost,     *)
(* duplicated, overwritten or taken out of order.  The ring buffer, the     *)
(* counters, the condition variables and the manager thread of              *)
(* src/src/Thread_pool.cpp are absent here: module ThreadPool has them and  *)
(* is shown to implement this module, and module EpollNet is built on it.   *)
(****************************************************************************)
EXTENDS Naturals, Sequences

CONSTANTS Tasks,     \* what a task_t can be: a function and its argument
          Servers,   \* the threads that can run a task
          Bound,     \* queue_max
          NoTask     \* "runs nothing"

VARIABLES pending,   \* the tasks handed over and not yet taken, oldest first
          running    \* the task each server runs, or NoTask

queueVars == <<pending, running>>

TaskQueueTypeOK == /\ pending \in Seq(Tasks)
                   /\ Len(pending) <= Bound
                   /\ running \in [Servers -> Tasks \cup {NoTask}]

Idle(s) == running[s] = NoTask

QueueInit == /\ pending = <<>>
             /\ running = [s \in Servers |-> NoTask]

\* Producer_add puts the task behind the others, when there is room for it.
Submit(t) == /\ Len(pending) < Bound
             /\ pending' = Append(pending, t)
             /\ UNCHANGED running

\* Custom takes the oldest task and runs it outside the lock.
Take(s) == /\ Idle(s)
           /\ pending # <<>>
           /\ running' = [running EXCEPT ![s] = Head(pending)]
           /\ pending' = Tail(pending)

\* The task's function has returned.
Finish(s) == /\ ~Idle(s)
             /\ running' = [running EXCEPT ![s] = NoTask]
             /\ UNCHANGED pending

QueueNext == \/ \E t \in Tasks : Submit(t)
             \/ \E s \in Servers : Take(s) \/ Finish(s)

QueueSpec == QueueInit /\ [][QueueNext]_queueVars
==============================================================================
