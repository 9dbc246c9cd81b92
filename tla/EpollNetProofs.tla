---------------------------- MODULE EpollNetProofs ----------------------------
(****************************************************************************)
(* Theorems about EpollNet, for every number of connections, descriptors,   *)
(* workers and packets, and every size of the pool's queue.                 *)
(****************************************************************************)
EXTENDS EpollNet, FiniteSetTheorems, TLAPS

\* Where the event of a connection can be.
InQueue(k, i) == i \in 1..Len(pending) /\ pending[i] = RecvTask(k)
WithWorker(k, w) == w \in Workers /\ running[w] = RecvTask(k)

\* It is in no two places, and somewhere exactly as long as it lives.
Alone(k) ==
  /\ \A i, j : InQueue(k, i) /\ InQueue(k, j) => i = j
  /\ \A v, w : WithWorker(k, v) /\ WithWorker(k, w) => v = w
  /\ \A i, w : ~(InQueue(k, i) /\ WithWorker(k, w))
  /\ k \in armed \cup batch => ~(\E i : InQueue(k, i)) /\ ~(\E w : WithWorker(k, w))
  /\ ~(k \in armed /\ k \in batch)
  /\ ev[k] = "live" <=> k \in armed \/ k \in batch \/ (\E i : InQueue(k, i)) \/ (\E w : WithWorker(k, w))

\* A worker is inside the task it runs, and a packet it hands over has been read.
StepFits(w) ==
  /\ running[w] = None => step[w] = "start"
  /\ running[w] # None /\ running[w].fn = "Buffer_Deal" => step[w] \in {"start", "reply"}
  /\ running[w] # None /\ running[w].fn = "recv_task" => step[w] # "reply"
  /\ \A k \in Conns : Receives(w, k, "dispatch") => taken[k] > 0

\* What has been read has been sent, but for the packet cut short; a live event has a descriptor.
ConnFits(k) ==
  /\ taken[k] <= sent[k] \/ (taken[k] = sent[k] + 1 /\ peer[k] = "eof")
  /\ ev[k] # "none" => fd[k] \in Fds

\* The descriptor in a task is the one its connection was accepted with.
Names(t, e, d) == t.fn = "Buffer_Deal" => e[t.from] # "none" /\ t.sockfd = d[t.from]
NamesFit == /\ \A i \in 1..Len(pending) : Names(pending[i], ev, fd)
            /\ \A w \in Workers : running[w] # None => Names(running[w], ev, fd)

Inv == /\ TypeOK
       /\ \A k \in Conns : Alone(k) /\ ConnFits(k)
       /\ \A w \in Workers : StepFits(w)
       /\ NamesFit
       /\ DescriptorIsOwn
       /\ MisdirectedOnlyAfterClose
-------------------------------------------------------------------------------
\* A task of a reception is no task of a packet, and tells its connection.
LEMMA TaskFacts ==
  /\ \A k \in Conns : RecvTask(k) \in Tasks /\ RecvTask(k).fn = "recv_task" /\ RecvTask(k) # None
  /\ \A k, l \in Conns : RecvTask(k) = RecvTask(l) => k = l
  /\ \A f \in Fds, k \in Conns, n \in 1..MaxPackets+1 : DealTask(f, k, n) \in Tasks
  /\ \A f, k, n : /\ DealTask(f, k, n).fn = "Buffer_Deal" /\ DealTask(f, k, n).from = k
                  /\ DealTask(f, k, n).sockfd = f
  /\ \A f, k, n, l : DealTask(f, k, n) # RecvTask(l)
  /\ \A t \in Tasks : t.fn = "Buffer_Deal" => t.from \in Conns /\ t.sockfd \in Fds /\ t.packet \in 1..MaxPackets+1
  /\ \A t \in Tasks : t # None
<1>1. \A f, k, n, l : DealTask(f, k, n).fn = "Buffer_Deal" /\ RecvTask(l).fn = "recv_task"
  BY DEF DealTask, RecvTask
<1>2. \A f, k, n, l : DealTask(f, k, n) # RecvTask(l)
  BY <1>1
<1>3. \A k, l : RecvTask(k).ev = k
  BY DEF RecvTask
<1>4. \A f, k, n : DealTask(f, k, n).from = k /\ DealTask(f, k, n).sockfd = f
  BY DEF DealTask
<1>5. \A k \in Conns : RecvTask(k) \in Tasks
  BY DEF RecvTask, Tasks
<1>6. \A f \in Fds, k \in Conns, n \in 1..MaxPackets+1 : DealTask(f, k, n) \in Tasks
  BY DEF DealTask, Tasks
<1>7. \A t \in Tasks : t.fn = "Buffer_Deal" => t.from \in Conns /\ t.sockfd \in Fds /\ t.packet \in 1..MaxPackets+1
  BY DEF Tasks
<1>8. \A k, l \in Conns : RecvTask(k) = RecvTask(l) => k = l
  BY <1>3
<1> QED BY <1>1, <1>2, <1>4, <1>5, <1>6, <1>7, <1>8, NoTaskAssumption

\* Submit puts one task behind the others (Producer_add).
LEMMA SubmitFacts ==
  ASSUME pending \in Seq(Tasks), NEW t \in Tasks, Pool!Submit(t)
  PROVE  /\ pending' \in Seq(Tasks) /\ Len(pending') = Len(pending) + 1 /\ Len(pending) \in Nat
         /\ Len(pending') <= QueueMax
         /\ \A i \in 1..Len(pending) : pending'[i] = pending[i]
         /\ pending'[Len(pending) + 1] = t
         /\ running' = running
  BY NetAssumption DEF Pool!Submit

\* Take moves the first one to a worker that runs nothing (Custom).
LEMMA TakeFacts ==
  ASSUME pending \in Seq(Tasks), Len(pending) <= QueueMax, NEW w \in Workers, Pool!Take(w)
  PROVE  /\ pending' \in Seq(Tasks) /\ Len(pending) = Len(pending') + 1 /\ Len(pending') \in Nat
         /\ Len(pending') <= QueueMax
         /\ \A i \in 1..Len(pending') : pending'[i] = pending[i+1]
         /\ pending[1] \in Tasks
         /\ running[w] = None /\ running' = [running EXCEPT ![w] = pending[1]]
  BY NetAssumption DEF Pool!Take, Pool!Idle

\* Whose reception is where after a Submit.
LEMMA SubmitMoves ==
  ASSUME pending \in Seq(Tasks), NEW t \in Tasks, Pool!Submit(t), NEW k
  PROVE  /\ \A i : InQueue(k, i)' <=> InQueue(k, i) \/ (i = Len(pending) + 1 /\ t = RecvTask(k))
         /\ \A w : WithWorker(k, w)' <=> WithWorker(k, w)
<1>1. /\ Len(pending') = Len(pending) + 1 /\ Len(pending) \in Nat
      /\ \A i \in 1..Len(pending) : pending'[i] = pending[i]
      /\ pending'[Len(pending) + 1] = t /\ running' = running
  BY SubmitFacts
<1>2. RecvTask(k)' = RecvTask(k)
  BY DEF RecvTask
<1> QED BY <1>1, <1>2 DEF InQueue, WithWorker

\* Whose reception is where after a Take.
LEMMA TakeMoves ==
  ASSUME pending \in Seq(Tasks), Len(pending) <= QueueMax, running \in [Workers -> Tasks \cup {None}],
         NEW w \in Workers, Pool!Take(w), NEW k \in Conns
  PROVE  /\ \A i : InQueue(k, i)' => i + 1 # 1 /\ i \in Nat /\ InQueue(k, i + 1)
         /\ \A i : InQueue(k, i) => IF i = 1 THEN pending[1] = RecvTask(k) ELSE InQueue(k, i - 1)'
         /\ pending[1] = RecvTask(k) => InQueue(k, 1)
         /\ \A v : WithWorker(k, v)' <=> IF v = w THEN pending[1] = RecvTask(k) ELSE WithWorker(k, v)
         /\ ~WithWorker(k, w)
<1>1. /\ Len(pending) = Len(pending') + 1 /\ Len(pending') \in Nat
      /\ \A i \in 1..Len(pending') : pending'[i] = pending[i+1]
      /\ running[w] = None /\ running' = [running EXCEPT ![w] = pending[1]]
  BY TakeFacts
<1>2. RecvTask(k)' = RecvTask(k) /\ RecvTask(k) # None
  BY TaskFacts DEF RecvTask
<1> QED BY <1>1, <1>2 DEF InQueue, WithWorker

\* Whose reception is where after a Finish.
LEMMA FinishMoves ==
  ASSUME running \in [Workers -> Tasks \cup {None}], NEW w \in Workers, Pool!Finish(w), NEW k \in Conns
  PROVE  /\ \A i : InQueue(k, i)' <=> InQueue(k, i)
         /\ \A v : WithWorker(k, v)' <=> v # w /\ WithWorker(k, v)
         /\ pending' = pending /\ running' = [running EXCEPT ![w] = None]
<1>1. RecvTask(k)' = RecvTask(k) /\ RecvTask(k) # None
  BY TaskFacts DEF RecvTask
<1> QED BY <1>1 DEF Pool!Finish, InQueue, WithWorker

\* Nothing that Alone speaks of has moved.
LEMMA NothingMoves ==
  ASSUME UNCHANGED queue, NEW k
  PROVE  /\ \A i : InQueue(k, i)' <=> InQueue(k, i)
         /\ \A w : WithWorker(k, w)' <=> WithWorker(k, w)
  BY DEF queue, InQueue, WithWorker, RecvTask

\* A worker at a step of the reception of k is the only one that has the event of k.
LEMMA ReceiverHolds ==
  ASSUME NEW k \in Conns, Alone(k), NEW w \in Workers, NEW s, Receives(w, k, s)
  PROVE  /\ WithWorker(k, w) /\ ev[k] = "live"
         /\ k \notin armed /\ k \notin batch /\ \A i : ~InQueue(k, i)
         /\ \A v : WithWorker(k, v) => v = w
  BY DEF Receives, WithWorker, Alone

\* The packet a worker hands over has been read from a connection with a descriptor.
LEMMA DispatchedTask ==
  ASSUME Inv, NEW w \in Workers, NEW k \in Conns, Receives(w, k, "dispatch")
  PROVE  /\ DealTask(fd[k], k, taken[k]) \in Tasks /\ ev[k] = "live"
<1>1. ev[k] = "live" /\ fd[k] \in Fds
  BY ReceiverHolds DEF Inv, ConnFits
<1>2. taken[k] \in 0..MaxPackets+1 /\ taken[k] > 0
  BY DEF Inv, TypeOK, StepFits
<1>3. taken[k] \in 1..MaxPackets+1
  BY <1>2, NetAssumption
<1> QED BY <1>1, <1>3, TaskFacts

-------------------------------------------------------------------------------
\* The event of a connection stays in one place (one-shot events, recv_event, recv_task).
LEMMA AloneStep ==
  ASSUME Inv, [Next]_netVars, NEW k \in Conns
  PROVE  Alone(k)'
<1>1. /\ pending \in Seq(Tasks) /\ Len(pending) <= QueueMax /\ Len(pending) \in Nat
      /\ running \in [Workers -> Tasks \cup {None}]
      /\ step \in [Workers -> {"start", "dispatch", "rearm", "close", "erase", "delete", "reply"}]
      /\ ev \in [Conns -> {"none", "live", "deleted"}]
      /\ armed \subseteq Conns /\ batch \subseteq Conns
      /\ \A j \in Conns : Alone(j)
  BY DEF Inv, TypeOK, Pool!TaskQueueTypeOK
<1>2. CASE UNCHANGED <<queue, ev, armed, batch>>
  <2>1. /\ \A i : InQueue(k, i)' <=> InQueue(k, i)
        /\ \A w : WithWorker(k, w)' <=> WithWorker(k, w)
    BY <1>2, NothingMoves
  <2> QED BY <1>1, <1>2, <2>1 DEF Alone
<1>3. ASSUME NEW j \in Conns, NEW f \in Fds, Accept(j, f)
      PROVE  Alone(k)'
  <2>1. /\ \A i : InQueue(k, i)' <=> InQueue(k, i)
        /\ \A w : WithWorker(k, w)' <=> WithWorker(k, w)
    BY <1>3, NothingMoves DEF Accept
  <2>2. ev[j] = "none" /\ ev' = [ev EXCEPT ![j] = "live"] /\ armed' = armed \cup {j} /\ batch' = batch
    BY <1>3 DEF Accept
  <2> QED BY <1>1, <2>1, <2>2 DEF Alone
<1>4. ASSUME NEW S \in SUBSET Conns, EpollWait(S)
      PROVE  Alone(k)'
  <2>1. /\ \A i : InQueue(k, i)' <=> InQueue(k, i)
        /\ \A w : WithWorker(k, w)' <=> WithWorker(k, w)
    BY <1>4, NothingMoves DEF EpollWait
  <2>2. batch = {} /\ S \subseteq armed /\ batch' = S /\ armed' = armed \ S /\ ev' = ev
    BY <1>4 DEF EpollWait
  <2> QED BY <1>1, <2>1, <2>2 DEF Alone
<1>5. ASSUME NEW j \in Conns, RecvEvent(j)
      PROVE  Alone(k)'
  <2>1. /\ \A i : InQueue(k, i)' <=> InQueue(k, i) \/ (i = Len(pending) + 1 /\ RecvTask(j) = RecvTask(k))
        /\ \A w : WithWorker(k, w)' <=> WithWorker(k, w)
    BY <1>1, <1>5, SubmitMoves, TaskFacts DEF RecvEvent
  <2>2. j \in batch /\ batch' = batch \ {j} /\ armed' = armed /\ ev' = ev
    BY <1>5 DEF RecvEvent
  <2>3. RecvTask(j) = RecvTask(k) <=> j = k
    BY TaskFacts
  <2>4. ~InQueue(k, Len(pending) + 1)
    BY <1>1 DEF InQueue
  <2> QED BY <1>1, <2>1, <2>2, <2>3, <2>4 DEF Alone
<1>6. ASSUME NEW w \in Workers, Take(w)
      PROVE  Alone(k)'
  <2>1. /\ \A i : InQueue(k, i)' => i + 1 # 1 /\ i \in Nat /\ InQueue(k, i + 1)
        /\ \A i : InQueue(k, i) => IF i = 1 THEN pending[1] = RecvTask(k) ELSE InQueue(k, i - 1)'
        /\ pending[1] = RecvTask(k) => InQueue(k, 1)
        /\ \A v : WithWorker(k, v)' <=> IF v = w THEN pending[1] = RecvTask(k) ELSE WithWorker(k, v)
        /\ ~WithWorker(k, w)
    BY <1>1, <1>6, TakeMoves DEF Take
  <2>2. batch' = batch /\ armed' = armed /\ ev' = ev
    BY <1>6 DEF Take, epoll
  <2>3. \A i, j : InQueue(k, i)' /\ InQueue(k, j)' => i = j
    BY <1>1, <2>1 DEF Alone
  <2> QED BY <1>1, <2>1, <2>2, <2>3 DEF Alone
<1>7. ASSUME NEW w \in Workers, Dispatch(w)
      PROVE  Alone(k)'
  <2>1. PICK j \in Conns : Receives(w, j, "dispatch") /\ Pool!Submit(DealTask(fd[j], j, taken[j]))
    BY <1>7 DEF Dispatch
  <2>2. DealTask(fd[j], j, taken[j]) \in Tasks
    BY <2>1, DispatchedTask
  <2>3. /\ \A i : InQueue(k, i)' <=> InQueue(k, i)
        /\ \A v : WithWorker(k, v)' <=> WithWorker(k, v)
    BY <1>1, <2>1, <2>2, SubmitMoves, TaskFacts
  <2>4. batch' = batch /\ armed' = armed /\ ev' = ev
    BY <1>7 DEF Dispatch, epoll
  <2> QED BY <1>1, <2>3, <2>4 DEF Alone
<1>8. ASSUME NEW w \in Workers, Rearm(w)
      PROVE  Alone(k)'
  <2>1. PICK j \in Conns : Receives(w, j, "rearm") /\ armed' = armed \cup {j} /\ Pool!Finish(w)
    BY <1>8 DEF Rearm
  <2>2. /\ \A i : InQueue(k, i)' <=> InQueue(k, i)
        /\ \A v : WithWorker(k, v)' <=> v # w /\ WithWorker(k, v)
    BY <1>1, <2>1, FinishMoves
  <2>3. batch' = batch /\ ev' = ev
    BY <1>8 DEF Rearm
  <2>4. /\ WithWorker(j, w) /\ ev[j] = "live" /\ j \notin batch
        /\ \A i : ~InQueue(j, i) /\ \A v : WithWorker(j, v) => v = w
    BY <1>1, <2>1, ReceiverHolds
  <2>5. WithWorker(k, w) => k = j
    BY <2>4, TaskFacts DEF WithWorker
  <2> QED BY <1>1, <2>1, <2>2, <2>3, <2>4, <2>5 DEF Alone
<1>9. ASSUME NEW w \in Workers, EventDel(w)
      PROVE  Alone(k)'
  <2>1. PICK j \in Conns : Receives(w, j, "start") /\ armed' = armed \ {j}
    BY <1>9 DEF EventDel
  <2>2. armed' = armed
    BY <1>1, <2>1, ReceiverHolds
  <2> QED BY <1>2, <1>9, <2>2 DEF EventDel
<1>10. ASSUME NEW w \in Workers, DeleteEvent(w)
       PROVE  Alone(k)'
  <2>1. PICK j \in Conns : Receives(w, j, "delete") /\ ev' = [ev EXCEPT ![j] = "deleted"] /\ Pool!Finish(w)
    BY <1>10 DEF DeleteEvent
  <2>2. /\ \A i : InQueue(k, i)' <=> InQueue(k, i)
        /\ \A v : WithWorker(k, v)' <=> v # w /\ WithWorker(k, v)
    BY <1>1, <2>1, FinishMoves
  <2>3. batch' = batch /\ armed' = armed
    BY <1>10 DEF DeleteEvent, epoll
  <2>4. /\ WithWorker(j, w) /\ ev[j] = "live" /\ j \notin batch /\ j \notin armed
        /\ \A i : ~InQueue(j, i) /\ \A v : WithWorker(j, v) => v = w
    BY <1>1, <2>1, ReceiverHolds
  <2>5. WithWorker(k, w) => k = j
    BY <2>4, TaskFacts DEF WithWorker
  <2> QED BY <1>1, <2>1, <2>2, <2>3, <2>4, <2>5 DEF Alone
<1>11. ASSUME NEW w \in Workers, SendData(w)
       PROVE  Alone(k)'
  <2>1. Pool!Finish(w) /\ running[w].fn = "Buffer_Deal" /\ batch' = batch /\ armed' = armed /\ ev' = ev
    BY <1>11 DEF SendData, Runs, epoll
  <2>2. ~WithWorker(k, w)
    BY <2>1, TaskFacts DEF WithWorker
  <2>3. /\ \A i : InQueue(k, i)' <=> InQueue(k, i)
        /\ \A v : WithWorker(k, v)' <=> v # w /\ WithWorker(k, v)
    BY <1>1, <2>1, FinishMoves
  <2> QED BY <1>1, <2>1, <2>2, <2>3 DEF Alone
<1>12. ASSUME NEW w \in Workers, ReadPacket(w) \/ CloseFd(w) \/ EraseMap(w) \/ Handle(w)
       PROVE  Alone(k)'
  BY <1>2, <1>12 DEF ReadPacket, CloseFd, EraseMap, Handle, epoll
<1>13. ASSUME ClientStep \/ AcceptInsert \/ UNCHANGED netVars
       PROVE  Alone(k)'
  BY <1>2, <1>13 DEF ClientStep, ClientBegins, ClientCompletes, ClientCloses, AcceptInsert, epoll, netVars
<1> QED BY <1>3, <1>4, <1>5, <1>6, <1>7, <1>8, <1>9, <1>10, <1>11, <1>12, <1>13
        DEF Next, EpollStep, HandOver, WorkerStep, RecvStep, DealStep

\* A close under way goes on until the event is deleted (recv_task 180-187).
LEMMA ClosedStays ==
  ASSUME Inv, [Next]_netVars, NEW k \in Conns, Closed(k)
  PROVE  Closed(k)' \/ ev'[k] = "deleted"
<1>1. PICK w \in Workers : Receives(w, k, "erase") \/ Receives(w, k, "delete")
  BY DEF Closed
<1>2. /\ running \in [Workers -> Tasks \cup {None}] /\ ev \in [Conns -> {"none", "live", "deleted"}]
      /\ step \in [Workers -> {"start", "dispatch", "rearm", "close", "erase", "delete", "reply"}]
      /\ pending \in Seq(Tasks) /\ Len(pending) <= QueueMax
  BY DEF Inv, TypeOK, Pool!TaskQueueTypeOK
<1>3. /\ running[w] = RecvTask(k) /\ step[w] \in {"erase", "delete"} /\ running[w] # None
      /\ running[w].fn = "recv_task" /\ RecvTask(k)' = RecvTask(k)
  BY <1>1, TaskFacts DEF Receives, RecvTask
<1>4. CASE running'[w] = running[w] /\ step'[w] \in {"erase", "delete"}
  BY <1>3, <1>4 DEF Closed, Receives
<1>5. CASE UNCHANGED <<running, step>>
  BY <1>3, <1>4, <1>5
<1>6. ASSUME NEW v \in Workers, Take(v)
      PROVE  Closed(k)' \/ ev'[k] = "deleted"
  <2>1. running[v] = None /\ running' = [running EXCEPT ![v] = pending[1]] /\ step' = step
    BY <1>2, <1>6, TakeFacts DEF Take
  <2> QED BY <1>2, <1>3, <1>4, <2>1
<1>7. ASSUME NEW v \in Workers, ReadPacket(v) \/ EventDel(v) \/ CloseFd(v) \/ Handle(v)
      PROVE  Closed(k)' \/ ev'[k] = "deleted"
  <2>1. running' = running /\ step'[w] = step[w]
    BY <1>2, <1>3, <1>7 DEF ReadPacket, EventDel, CloseFd, Handle, Receives, Runs, Goes, queue
  <2> QED BY <1>3, <1>4, <2>1
<1>8. ASSUME NEW v \in Workers, Dispatch(v)
      PROVE  Closed(k)' \/ ev'[k] = "deleted"
  <2>1. running' = running /\ step'[w] = step[w]
    BY <1>2, <1>3, <1>8 DEF Dispatch, Receives, Goes, Pool!Submit
  <2> QED BY <1>3, <1>4, <2>1
<1>9. ASSUME NEW v \in Workers, Rearm(v) \/ SendData(v)
      PROVE  Closed(k)' \/ ev'[k] = "deleted"
  <2>1. running'[w] = running[w] /\ step'[w] = step[w]
    BY <1>2, <1>3, <1>9 DEF Rearm, SendData, Receives, Runs, Goes, Pool!Finish
  <2> QED BY <1>3, <1>4, <2>1
<1>10. ASSUME NEW v \in Workers, EraseMap(v)
       PROVE  Closed(k)' \/ ev'[k] = "deleted"
  <2>1. running' = running /\ step'[w] \in {step[w], "delete"}
    BY <1>2, <1>10 DEF EraseMap, Goes, queue
  <2> QED BY <1>3, <1>4, <2>1
<1>11. ASSUME NEW v \in Workers, DeleteEvent(v)
       PROVE  Closed(k)' \/ ev'[k] = "deleted"
  <2>1. PICK j \in Conns : /\ Receives(v, j, "delete") /\ ev' = [ev EXCEPT ![j] = "deleted"]
                           /\ Pool!Finish(v) /\ Goes(v, "start")
    BY <1>11 DEF DeleteEvent
  <2>2. CASE v = w
    <3>1. RecvTask(j) = RecvTask(k)
      BY <1>3, <2>1, <2>2 DEF Receives
    <3>2. j = k
      BY <3>1, TaskFacts
    <3> QED BY <1>2, <2>1, <3>2
  <2>3. CASE v # w
    BY <1>2, <1>3, <1>4, <2>1, <2>3 DEF Goes, Pool!Finish
  <2> QED BY <2>2, <2>3
<1>12. ASSUME NEW j \in Conns, RecvEvent(j)
       PROVE  Closed(k)' \/ ev'[k] = "deleted"
  BY <1>5, <1>12 DEF RecvEvent, Pool!Submit
<1>13. ASSUME ClientStep \/ AcceptInsert \/ (\E j \in Conns, f \in Fds : Accept(j, f))
                \/ (\E S \in SUBSET Conns : EpollWait(S)) \/ UNCHANGED netVars
       PROVE  Closed(k)' \/ ev'[k] = "deleted"
  BY <1>5, <1>13 DEF ClientStep, ClientBegins, ClientCompletes, ClientCloses, AcceptInsert, Accept, EpollWait, netVars, queue
<1> QED BY <1>6, <1>7, <1>8, <1>9, <1>10, <1>11, <1>12, <1>13
        DEF Next, EpollStep, HandOver, WorkerStep, RecvStep, DealStep

\* A deleted event stays deleted (myevent_s are not made twice for one accept).
LEMMA EventStep ==
  ASSUME Inv, [Next]_netVars, NEW k \in Conns
  PROVE  /\ ev[k] = "deleted" => ev'[k] = "deleted"
         /\ ev[k] # "none" => ev'[k] # "none" /\ fd'[k] = fd[k]
         /\ ev'[k] = "live" => ev[k] = "live" \/ \E f \in Fds : Accept(k, f)
<1>1. ev \in [Conns -> {"none", "live", "deleted"}] /\ fd \in [Conns -> Fds \cup {None}]
  BY DEF Inv, TypeOK
<1>2. CASE UNCHANGED <<ev, fd>>
  BY <1>1, <1>2
<1>3. ASSUME NEW j \in Conns, NEW f \in Fds, Accept(j, f)
      PROVE  /\ ev[k] = "deleted" => ev'[k] = "deleted"
             /\ ev[k] # "none" => ev'[k] # "none" /\ fd'[k] = fd[k]
             /\ ev'[k] = "live" => ev[k] = "live" \/ \E g \in Fds : Accept(k, g)
  <2>1. ev[j] = "none" /\ ev' = [ev EXCEPT ![j] = "live"] /\ fd' = [fd EXCEPT ![j] = f]
    BY <1>3 DEF Accept
  <2>2. CASE k = j
    BY <1>1, <1>3, <2>1, <2>2
  <2>3. CASE k # j
    BY <1>1, <2>1, <2>3
  <2> QED BY <2>2, <2>3
<1>4. ASSUME NEW w \in Workers, DeleteEvent(w)
      PROVE  /\ ev[k] = "deleted" => ev'[k] = "deleted"
             /\ ev[k] # "none" => ev'[k] # "none" /\ fd'[k] = fd[k]
             /\ ev'[k] = "live" => ev[k] = "live"
  BY <1>1, <1>4 DEF DeleteEvent
<1>5. ASSUME NEW w \in Workers, \/ Take(w) \/ ReadPacket(w) \/ Dispatch(w) \/ Rearm(w) \/ EventDel(w)
                                \/ CloseFd(w) \/ EraseMap(w) \/ Handle(w) \/ SendData(w)
      PROVE  UNCHANGED <<ev, fd>>
  BY <1>5 DEF Take, ReadPacket, Dispatch, Rearm, EventDel, CloseFd, EraseMap, Handle, SendData
<1>6. ASSUME \/ ClientStep \/ AcceptInsert \/ (\E S \in SUBSET Conns : EpollWait(S))
             \/ HandOver \/ UNCHANGED netVars
      PROVE  UNCHANGED <<ev, fd>>
  BY <1>6 DEF ClientStep, ClientBegins, ClientCompletes, ClientCloses, AcceptInsert, EpollWait, HandOver, RecvEvent, netVars
<1> QED BY <1>2, <1>3, <1>4, <1>5, <1>6 DEF Next, EpollStep, WorkerStep, RecvStep, DealStep

\* A descriptor is closed by the reception of its own connection, once.
LEMMA OwnStep ==
  ASSUME Inv, [Next]_netVars
  PROVE  DescriptorIsOwn'
<1> SUFFICES ASSUME NEW k \in Conns, ev'[k] = "live", ~Closed(k)'
             PROVE  owner'[fd'[k]] = k
  BY DEF DescriptorIsOwn
<1>1. /\ owner \in [Fds -> Conns \cup {None}] /\ fd \in [Conns -> Fds \cup {None}]
      /\ ev \in [Conns -> {"none", "live", "deleted"}]
      /\ \A j \in Conns : Alone(j) /\ ConnFits(j)
      /\ step \in [Workers -> {"start", "dispatch", "rearm", "close", "erase", "delete", "reply"}]
  BY DEF Inv, TypeOK
<1>2. CASE ev[k] = "live"
  <2>1. ~Closed(k) /\ fd'[k] = fd[k]
    BY <1>2, ClosedStays, EventStep
  <2>2. owner[fd[k]] = k /\ fd[k] \in Fds
    BY <1>1, <1>2, <2>1 DEF Inv, DescriptorIsOwn, ConnFits
  <2>3. CASE UNCHANGED owner
    BY <2>1, <2>2, <2>3
  <2>4. ASSUME NEW j \in Conns, NEW f \in Fds, Accept(j, f)
        PROVE  owner'[fd'[k]] = k
    <3>1. owner[f] = None /\ owner' = [owner EXCEPT ![f] = j]
      BY <2>4 DEF Accept
    <3>2. f # fd[k]
      BY <2>2, <3>1, NetAssumption
    <3> QED BY <1>1, <2>1, <2>2, <3>1, <3>2
  <2>5. ASSUME NEW w \in Workers, CloseFd(w)
        PROVE  owner'[fd'[k]] = k
    <3>1. PICK j \in Conns : /\ Receives(w, j, "close") /\ owner' = [owner EXCEPT ![fd[j]] = None]
                             /\ Goes(w, "erase") /\ UNCHANGED queue
      BY <2>5 DEF CloseFd
    <3>2. Closed(j)'
      BY <1>1, <3>1 DEF Closed, Receives, Goes, RecvTask, queue
    <3>3. j # k
      BY <3>2
    <3>4. /\ ev[j] = "live" /\ WithWorker(j, w) /\ step[w] = "close"
          /\ \A v : WithWorker(j, v) => v = w
      BY <1>1, <3>1, ReceiverHolds DEF Receives
    <3>5. ~Closed(j)
      BY <3>4 DEF Closed, Receives, WithWorker
    <3>6. owner[fd[j]] = j /\ fd[j] \in Fds
      BY <1>1, <3>4, <3>5 DEF Inv, DescriptorIsOwn, ConnFits
    <3> QED BY <1>1, <2>1, <2>2, <3>1, <3>3, <3>6
  <2>6. ASSUME NEW w \in Workers, \/ Take(w) \/ ReadPacket(w) \/ Dispatch(w) \/ Rearm(w) \/ EventDel(w)
                                  \/ EraseMap(w) \/ DeleteEvent(w) \/ Handle(w) \/ SendData(w)
        PROVE  UNCHANGED owner
    BY <2>6 DEF Take, ReadPacket, Dispatch, Rearm, EventDel, EraseMap, DeleteEvent, Handle, SendData
  <2>7. ASSUME \/ ClientStep \/ AcceptInsert \/ (\E S \in SUBSET Conns : EpollWait(S))
               \/ HandOver \/ UNCHANGED netVars
        PROVE  UNCHANGED owner
    BY <2>7 DEF ClientStep, ClientBegins, ClientCompletes, ClientCloses, AcceptInsert, EpollWait, HandOver, RecvEvent, netVars
  <2> QED BY <2>3, <2>4, <2>5, <2>6, <2>7 DEF Next, EpollStep, WorkerStep, RecvStep, DealStep
<1>3. CASE ev[k] # "live"
  <2>1. PICK f \in Fds : Accept(k, f)
    BY <1>3, EventStep
  <2> QED BY <1>1, <2>1 DEF Accept
<1> QED BY <1>2, <1>3

\* A queued or running packet names the descriptor its connection was accepted with (DataBuffer).
LEMMA NamesStep ==
  ASSUME Inv, [Next]_netVars
  PROVE  NamesFit'
<1>1. /\ pending \in Seq(Tasks) /\ Len(pending) <= QueueMax
      /\ running \in [Workers -> Tasks \cup {None}]
  BY DEF Inv, TypeOK, Pool!TaskQueueTypeOK
<1>2. \A t \in Tasks : Names(t, ev, fd) => Names(t, ev', fd')
  BY EventStep, TaskFacts DEF Names
<1>3. CASE UNCHANGED queue
  BY <1>1, <1>2, <1>3 DEF Inv, NamesFit, queue
<1>4. ASSUME NEW t \in Tasks, Pool!Submit(t), Names(t, ev, fd)
      PROVE  NamesFit'
  <2>1. /\ Len(pending') = Len(pending) + 1 /\ Len(pending) \in Nat
        /\ \A i \in 1..Len(pending) : pending'[i] = pending[i] /\ pending[i] \in Tasks
        /\ pending'[Len(pending) + 1] = t /\ running' = running
    BY <1>1, <1>4, SubmitFacts
  <2>2. ASSUME NEW i \in 1..Len(pending')
        PROVE  Names(pending'[i], ev', fd')
    <3>1. i \in 1..Len(pending) \/ i = Len(pending) + 1
      BY <2>1
    <3> QED BY <1>2, <1>4, <2>1, <3>1 DEF Inv, NamesFit
  <2>3. \A w \in Workers : running'[w] # None => Names(running'[w], ev', fd')
    BY <1>1, <1>2, <2>1 DEF Inv, NamesFit
  <2> QED BY <2>2, <2>3 DEF NamesFit
<1>5. ASSUME NEW w \in Workers, Take(w)
      PROVE  NamesFit'
  <2>1. /\ Len(pending) = Len(pending') + 1 /\ Len(pending') \in Nat
        /\ \A i \in 1..Len(pending') : pending'[i] = pending[i+1]
        /\ running[w] = None /\ running' = [running EXCEPT ![w] = pending[1]]
    BY <1>1, <1>5, TakeFacts DEF Take
  <2>2. \A i \in 1..Len(pending) : pending[i] \in Tasks
    BY <1>1
  <2>3. \A i \in 1..Len(pending') : Names(pending'[i], ev', fd')
    BY <1>2, <2>1, <2>2 DEF Inv, NamesFit
  <2>4. \A v \in Workers : running'[v] # None => Names(running'[v], ev', fd')
    BY <1>1, <1>2, <2>1, <2>2 DEF Inv, NamesFit
  <2> QED BY <2>3, <2>4 DEF NamesFit
<1>6. ASSUME NEW w \in Workers, Pool!Finish(w)
      PROVE  NamesFit'
  <2>1. pending' = pending /\ running' = [running EXCEPT ![w] = None]
    BY <1>6 DEF Pool!Finish
  <2> QED BY <1>1, <1>2, <2>1 DEF Inv, NamesFit
<1>7. ASSUME NEW w \in Workers, Dispatch(w)
      PROVE  NamesFit'
  <2>1. PICK k \in Conns : Receives(w, k, "dispatch") /\ Pool!Submit(DealTask(fd[k], k, taken[k]))
    BY <1>7 DEF Dispatch
  <2>2. DealTask(fd[k], k, taken[k]) \in Tasks /\ ev[k] = "live"
    BY <2>1, DispatchedTask
  <2>3. Names(DealTask(fd[k], k, taken[k]), ev, fd)
    BY <2>2, TaskFacts DEF Names
  <2> QED BY <1>4, <2>1, <2>2, <2>3
<1>8. ASSUME NEW k \in Conns, RecvEvent(k)
      PROVE  NamesFit'
  <2>1. RecvTask(k) \in Tasks /\ Names(RecvTask(k), ev, fd) /\ Pool!Submit(RecvTask(k))
    BY <1>8, TaskFacts DEF RecvEvent, Names
  <2> QED BY <1>4, <2>1
<1>9. ASSUME NEW w \in Workers, Rearm(w) \/ DeleteEvent(w) \/ SendData(w)
      PROVE  NamesFit'
  BY <1>6, <1>9 DEF Rearm, DeleteEvent, SendData
<1>10. ASSUME NEW w \in Workers, ReadPacket(w) \/ EventDel(w) \/ CloseFd(w) \/ EraseMap(w) \/ Handle(w)
       PROVE  NamesFit'
  BY <1>3, <1>10 DEF ReadPacket, EventDel, CloseFd, EraseMap, Handle
<1>11. ASSUME ClientStep \/ AcceptInsert \/ (\E j \in Conns, f \in Fds : Accept(j, f))
                \/ (\E S \in SUBSET Conns : EpollWait(S)) \/ UNCHANGED netVars
       PROVE  NamesFit'
  BY <1>3, <1>11 DEF ClientStep, ClientBegins, ClientCompletes, ClientCloses, AcceptInsert, Accept, EpollWait, netVars
<1> QED BY <1>5, <1>7, <1>8, <1>9, <1>10, <1>11
        DEF Next, EpollStep, HandOver, WorkerStep, RecvStep, DealStep

\* An answer that goes to another client finds the requester's connection closed (SendData).
LEMMA MisdirectedStep ==
  ASSUME Inv, [Next]_netVars
  PROVE  MisdirectedOnlyAfterClose'
<1>1. /\ replies \subseteq Conns \X Conns /\ owner \in [Fds -> Conns \cup {None}]
      /\ running \in [Workers -> Tasks \cup {None}] /\ ev \in [Conns -> {"none", "live", "deleted"}]
  BY DEF Inv, TypeOK, Pool!TaskQueueTypeOK
<1>2. \A r \in Conns \X Conns : ev[r[1]] = "deleted" \/ Closed(r[1])
                                  => ev'[r[1]] = "deleted" \/ Closed(r[1])'
  BY ClosedStays, EventStep
<1>3. CASE UNCHANGED replies
  BY <1>1, <1>2, <1>3 DEF Inv, MisdirectedOnlyAfterClose
<1>4. ASSUME NEW w \in Workers, SendData(w)
      PROVE  MisdirectedOnlyAfterClose'
  <2> PICK k, to : k = running[w].from /\ to = owner[running[w].sockfd]
    OBVIOUS
  <2>1. /\ running[w] \in Tasks /\ running[w].fn = "Buffer_Deal" /\ running[w] # None
        /\ replies' = IF to = None THEN replies ELSE replies \cup {<<k, to>>}
    BY <1>1, <1>4 DEF SendData, Runs
  <2>2. k \in Conns /\ ev[k] # "none" /\ running[w].sockfd = fd[k]
    BY <2>1, TaskFacts DEF Inv, NamesFit, Names
  <2>3. ev[k] = "live" /\ ~Closed(k) => to = k
    BY <2>2 DEF Inv, DescriptorIsOwn
  <2>4. to # k => ev[k] = "deleted" \/ Closed(k)
    BY <1>1, <2>2, <2>3
  <2>5. to # k => ev'[k] = "deleted" \/ Closed(k)'
    BY <2>2, <2>4, ClosedStays, EventStep
  <2>6. ASSUME NEW r \in replies', r[1] # r[2]
        PROVE  ev'[r[1]] = "deleted" \/ Closed(r[1])'
    <3>1. CASE r \in replies
      BY <1>1, <1>2, <2>6, <3>1 DEF Inv, MisdirectedOnlyAfterClose
    <3>2. CASE r = <<k, to>>
      <4>1. r[1] = k /\ r[2] = to
        BY <3>2
      <4>2. to # k
        BY <2>6, <4>1
      <4> QED BY <2>5, <4>1, <4>2
    <3> QED BY <2>1, <3>1, <3>2
  <2> QED BY <2>6 DEF MisdirectedOnlyAfterClose
<1>5. ASSUME NEW w \in Workers, \/ Take(w) \/ ReadPacket(w) \/ Dispatch(w) \/ Rearm(w) \/ EventDel(w)
                                \/ CloseFd(w) \/ EraseMap(w) \/ DeleteEvent(w) \/ Handle(w)
      PROVE  UNCHANGED replies
  BY <1>5 DEF Take, ReadPacket, Dispatch, Rearm, EventDel, CloseFd, EraseMap, DeleteEvent, Handle
<1>6. ASSUME \/ ClientStep \/ EpollStep \/ UNCHANGED netVars
      PROVE  UNCHANGED replies
  BY <1>6 DEF ClientStep, ClientBegins, ClientCompletes, ClientCloses, EpollStep, Accept, AcceptInsert, EpollWait,
              HandOver, RecvEvent, netVars
<1> QED BY <1>3, <1>4, <1>5, <1>6 DEF Next, WorkerStep, RecvStep, DealStep

\* A client sends within the bound and not after its close; one packet may be cut short (ReadPacket).
LEMMA ConnStep ==
  ASSUME Inv, [Next]_netVars, NEW k \in Conns
  PROVE  /\ ConnFits(k)' /\ sent'[k] \in 0..MaxPackets /\ taken'[k] \in 0..MaxPackets+1
         /\ taken[k] <= taken'[k]
<1>1. /\ sent \in [Conns -> 0..MaxPackets] /\ taken \in [Conns -> 0..MaxPackets+1]
      /\ peer \in [Conns -> {"open", "half", "eof", "cut"}] /\ MaxPackets \in Nat
      /\ ev \in [Conns -> {"none", "live", "deleted"}] /\ fd \in [Conns -> Fds \cup {None}]
      /\ ConnFits(k)
  BY NetAssumption DEF Inv, TypeOK
<1>2. ev'[k] # "none" => fd'[k] \in Fds
  <2>1. CASE ev[k] # "none"
    BY <1>1, <2>1, EventStep DEF ConnFits
  <2>2. ASSUME ev[k] = "none", ev'[k] # "none"
        PROVE  fd'[k] \in Fds
    <3>1. CASE ev'[k] = "live"
      <4>1. PICK f \in Fds : Accept(k, f)
        BY <2>2, <3>1, EventStep
      <4> QED BY <1>1, <4>1 DEF Accept
    <3>2. ASSUME NEW w \in Workers, DeleteEvent(w)
          PROVE  ev'[k] = "none"
      <4>1. PICK j \in Conns : Receives(w, j, "delete") /\ ev' = [ev EXCEPT ![j] = "deleted"]
        BY <3>2 DEF DeleteEvent
      <4>2. ev[j] = "live"
        BY <4>1, ReceiverHolds DEF Inv
      <4> QED BY <1>1, <2>2, <4>1, <4>2
    <3>3. ASSUME NEW j \in Conns, NEW f \in Fds, Accept(j, f)
          PROVE  ev'[k] \in {"none", "live"}
      BY <1>1, <2>2, <3>3 DEF Accept
    <3>4. ASSUME NEW w \in Workers, \/ Take(w) \/ ReadPacket(w) \/ Dispatch(w) \/ Rearm(w) \/ EventDel(w)
                                    \/ CloseFd(w) \/ EraseMap(w) \/ Handle(w) \/ SendData(w)
          PROVE  UNCHANGED ev
      BY <3>4 DEF Take, ReadPacket, Dispatch, Rearm, EventDel, CloseFd, EraseMap, Handle, SendData
    <3>5. ASSUME \/ ClientStep \/ AcceptInsert \/ (\E S \in SUBSET Conns : EpollWait(S))
                 \/ HandOver \/ UNCHANGED netVars
          PROVE  UNCHANGED ev
      BY <3>5 DEF ClientStep, ClientBegins, ClientCompletes, ClientCloses, AcceptInsert, EpollWait, HandOver, RecvEvent, netVars
    <3> QED BY <2>2, <3>1, <3>2, <3>3, <3>4, <3>5 DEF Next, EpollStep, WorkerStep, RecvStep, DealStep
  <2> QED BY <2>1, <2>2
<1>3. CASE UNCHANGED clients
  BY <1>1, <1>2, <1>3 DEF ConnFits, clients
<1>4. ASSUME NEW j \in Conns, ClientBegins(j) \/ ClientCompletes(j) \/ ClientCloses(j)
      PROVE  /\ ConnFits(k)' /\ sent'[k] \in 0..MaxPackets /\ taken'[k] \in 0..MaxPackets+1
             /\ taken[k] <= taken'[k]
  BY <1>1, <1>2, <1>4 DEF ConnFits, ClientBegins, ClientCompletes, ClientCloses
<1>5. ASSUME NEW w \in Workers, ReadPacket(w)
      PROVE  /\ ConnFits(k)' /\ sent'[k] \in 0..MaxPackets /\ taken'[k] \in 0..MaxPackets+1
             /\ taken[k] <= taken'[k]
  BY <1>1, <1>2, <1>5 DEF ConnFits, ReadPacket
<1>6. ASSUME NEW w \in Workers, \/ Take(w) \/ Dispatch(w) \/ Rearm(w) \/ EventDel(w) \/ CloseFd(w)
                                \/ EraseMap(w) \/ DeleteEvent(w) \/ Handle(w) \/ SendData(w)
      PROVE  UNCHANGED clients
  BY <1>6 DEF Take, Dispatch, Rearm, EventDel, CloseFd, EraseMap, DeleteEvent, Handle, SendData
<1>7. ASSUME EpollStep \/ UNCHANGED netVars
      PROVE  UNCHANGED clients
  BY <1>7 DEF EpollStep, Accept, AcceptInsert, EpollWait, HandOver, RecvEvent, netVars
<1> QED BY <1>3, <1>4, <1>5, <1>6, <1>7 DEF Next, ClientStep, WorkerStep, RecvStep, DealStep

\* A worker goes through recv_task or Buffer_Deal from its start to its end.
LEMMA StepStep ==
  ASSUME Inv, [Next]_netVars, NEW w \in Workers
  PROVE  StepFits(w)'
<1>1. /\ running \in [Workers -> Tasks \cup {None}]
      /\ step \in [Workers -> {"start", "dispatch", "rearm", "close", "erase", "delete", "reply"}]
      /\ pending \in Seq(Tasks) /\ Len(pending) <= QueueMax
      /\ taken \in [Conns -> 0..MaxPackets+1] /\ MaxPackets \in Nat
      /\ \A v \in Workers : StepFits(v)
  BY NetAssumption DEF Inv, TypeOK, Pool!TaskQueueTypeOK
<1>2. \A k \in Conns : /\ taken[k] \in Nat /\ taken'[k] \in Nat /\ taken[k] <= taken'[k]
                       /\ RecvTask(k)' = RecvTask(k) /\ RecvTask(k).fn = "recv_task" /\ RecvTask(k) # None
  BY <1>1, ConnStep, TaskFacts DEF RecvTask
<1>3. CASE running'[w] = running[w] /\ step'[w] = step[w]
  BY <1>1, <1>2, <1>3 DEF StepFits, Receives
<1>4. CASE running'[w] = None /\ step'[w] = "start"
  BY <1>2, <1>4 DEF StepFits, Receives
<1>5. ASSUME NEW v \in Workers, Take(v)
      PROVE  StepFits(w)'
  <2>1. running[v] = None /\ running' = [running EXCEPT ![v] = pending[1]] /\ step' = step
    BY <1>1, <1>5, TakeFacts DEF Take
  <2>2. CASE v = w
    <3>1. step'[w] = "start"
      BY <1>1, <2>1, <2>2 DEF StepFits
    <3> QED BY <3>1 DEF StepFits, Receives
  <2>3. CASE v # w
    BY <1>1, <1>3, <2>1, <2>3
  <2> QED BY <2>2, <2>3
<1>6. ASSUME NEW v \in Workers, Rearm(v) \/ DeleteEvent(v) \/ SendData(v)
      PROVE  StepFits(w)'
  <2>1. running' = [running EXCEPT ![v] = None] /\ step' = [step EXCEPT ![v] = "start"]
    BY <1>6 DEF Rearm, DeleteEvent, SendData, Pool!Finish, Goes
  <2> QED BY <1>1, <1>3, <1>4, <2>1
<1>7. ASSUME NEW v \in Workers, ReadPacket(v)
      PROVE  StepFits(w)'
  <2>1. PICK k \in Conns : /\ running[v] = RecvTask(k) /\ running' = running
                           /\ taken' = [taken EXCEPT ![k] = @ + 1]
                           /\ step' = [step EXCEPT ![v] = "dispatch"]
    BY <1>7 DEF ReadPacket, Receives, Goes, queue
  <2>2. CASE v = w
    <3>1. running'[w] = RecvTask(k) /\ step'[w] = "dispatch" /\ taken'[k] > 0
      BY <1>1, <1>2, <2>1, <2>2
    <3>2. \A j \in Conns : RecvTask(j) = RecvTask(k) => j = k
      BY TaskFacts
    <3> QED BY <1>2, <3>1, <3>2 DEF StepFits, Receives
  <2>3. CASE v # w
    BY <1>1, <1>3, <2>1, <2>3
  <2> QED BY <2>2, <2>3
<1>8. ASSUME NEW v \in Workers, \/ EventDel(v) \/ CloseFd(v) \/ EraseMap(v) \/ Dispatch(v)
      PROVE  StepFits(w)'
  <2>1. PICK k \in Conns, s \in {"close", "erase", "delete", "rearm"} :
          running[v] = RecvTask(k) /\ running' = running /\ step' = [step EXCEPT ![v] = s]
    BY <1>8 DEF EventDel, CloseFd, EraseMap, Dispatch, Receives, Goes, queue, Pool!Submit
  <2>2. CASE v = w
    <3>1. running'[w] = RecvTask(k) /\ step'[w] \in {"close", "erase", "delete", "rearm"}
      BY <1>1, <2>1, <2>2
    <3> QED BY <1>2, <3>1 DEF StepFits, Receives
  <2>3. CASE v # w
    BY <1>1, <1>3, <2>1, <2>3
  <2> QED BY <2>2, <2>3
<1>9. ASSUME NEW v \in Workers, Handle(v)
      PROVE  StepFits(w)'
  <2>1. /\ running[v] # None /\ running[v].fn = "Buffer_Deal" /\ running' = running
        /\ step' = [step EXCEPT ![v] = "reply"]
    BY <1>9 DEF Handle, Runs, Goes, queue
  <2>2. CASE v = w
    <3>1. running'[w] # None /\ running'[w].fn = "Buffer_Deal" /\ step'[w] = "reply"
      BY <1>1, <2>1, <2>2
    <3> QED BY <3>1 DEF StepFits, Receives
  <2>3. CASE v # w
    BY <1>1, <1>3, <2>1, <2>3
  <2> QED BY <2>2, <2>3
<1>10. ASSUME ClientStep \/ EpollStep \/ UNCHANGED netVars
       PROVE  UNCHANGED <<running, step>>
  BY <1>10 DEF ClientStep, ClientBegins, ClientCompletes, ClientCloses, EpollStep, Accept, AcceptInsert, EpollWait,
               HandOver, RecvEvent, netVars, queue, Pool!Submit
<1> QED BY <1>3, <1>5, <1>6, <1>7, <1>8, <1>9, <1>10 DEF Next, WorkerStep, RecvStep, DealStep

\* Every step keeps the types, of the queue among others.
LEMMA TypeStep ==
  ASSUME Inv, [Next]_netVars
  PROVE  TypeOK'
<1>1. /\ TypeOK /\ pending \in Seq(Tasks) /\ Len(pending) <= QueueMax
      /\ running \in [Workers -> Tasks \cup {None}] /\ MaxPackets \in Nat
  BY NetAssumption DEF Inv, TypeOK, Pool!TaskQueueTypeOK
<1>2. CASE UNCHANGED queue
  <2>1. Pool!TaskQueueTypeOK'
    BY <1>1, <1>2 DEF queue, Pool!TaskQueueTypeOK
  <2>2. ASSUME ClientStep \/ UNCHANGED netVars
        PROVE  TypeOK'
    <3>1. ASSUME NEW k \in Conns, ClientCompletes(k)
          PROVE  TypeOK'
      <4>1. sent[k] + 1 \in 0..MaxPackets
        BY <1>1, <3>1 DEF TypeOK, ClientCompletes
      <4> QED BY <1>1, <2>1, <3>1, <4>1 DEF TypeOK, ClientCompletes, epoll
    <3>2. ASSUME NEW k \in Conns, ClientBegins(k) \/ ClientCloses(k)
          PROVE  TypeOK'
      BY <1>1, <2>1, <3>2 DEF TypeOK, ClientBegins, ClientCloses, epoll
    <3>3. CASE UNCHANGED netVars
      BY <1>1, <2>1, <3>3 DEF TypeOK, epoll, clients, netVars
    <3> QED BY <2>2, <3>1, <3>2, <3>3 DEF ClientStep
  <2>3. ASSUME \/ \E k \in Conns, f \in Fds : Accept(k, f)
               \/ AcceptInsert \/ (\E S \in SUBSET Conns : EpollWait(S))
        PROVE  TypeOK'
    <3>1. ASSUME NEW k \in Conns, NEW f \in Fds, Accept(k, f)
          PROVE  TypeOK'
      BY <1>1, <2>1, <3>1 DEF TypeOK, Accept, clients
    <3>2. ASSUME AcceptInsert
          PROVE  TypeOK'
      BY <1>1, <2>1, <3>2 DEF TypeOK, AcceptInsert, clients
    <3>3. ASSUME NEW S \in SUBSET Conns, EpollWait(S)
          PROVE  TypeOK'
      BY <1>1, <2>1, <3>3 DEF TypeOK, EpollWait, clients
    <3> QED BY <2>3, <3>1, <3>2, <3>3
  <2>4. ASSUME NEW w \in Workers, ReadPacket(w)
        PROVE  TypeOK'
    <3>1. PICK k \in Conns : /\ \/ taken[k] < sent[k] /\ UNCHANGED peer
                                \/ taken[k] = sent[k] /\ peer' = [peer EXCEPT ![k] = "eof"]
                             /\ taken' = [taken EXCEPT ![k] = @ + 1]
      BY <2>4 DEF ReadPacket
    <3>2. taken[k] + 1 \in 0..MaxPackets+1 /\ peer' \in [Conns -> {"open", "half", "eof", "cut"}]
      <4>1. sent[k] \in 0..MaxPackets /\ taken[k] \in 0..MaxPackets+1 /\ taken[k] <= sent[k]
        BY <1>1, <3>1 DEF TypeOK
      <4>2. taken[k] + 1 \in 0..MaxPackets+1
        BY <1>1, <4>1
      <4>3. peer' \in [Conns -> {"open", "half", "eof", "cut"}]
        BY <1>1, <3>1 DEF TypeOK
      <4> QED BY <4>2, <4>3
    <3>3. taken' \in [Conns -> 0..MaxPackets+1]
      BY <1>1, <3>1, <3>2 DEF TypeOK
    <3>4. UNCHANGED <<ev, fd, epoll, owner, evmap, sent, handled, replies>> /\ Goes(w, "dispatch")
      BY <2>4 DEF ReadPacket
    <3> QED BY <1>1, <2>1, <3>2, <3>3, <3>4 DEF TypeOK, Goes, epoll
  <2>5. ASSUME NEW w \in Workers, EventDel(w) \/ CloseFd(w) \/ EraseMap(w)
        PROVE  TypeOK'
    BY <1>1, <2>1, <2>5, ZenonT(60) DEF TypeOK, EventDel, CloseFd, EraseMap, Goes, epoll, clients
  <2>6. ASSUME NEW w \in Workers, Handle(w)
        PROVE  TypeOK'
    <3>1. running[w] \in Tasks /\ running[w].fn = "Buffer_Deal"
      BY <1>1, <2>6 DEF Handle, Runs
    <3>2. <<running[w].from, running[w].packet>> \in Conns \X (1..MaxPackets+1)
      BY <3>1, TaskFacts
    <3> QED BY <1>1, <2>1, <2>6, <3>2 DEF TypeOK, Handle, Goes, epoll, clients
  <2>7. ASSUME \/ HandOver
               \/ \E w \in Workers : Take(w) \/ Dispatch(w) \/ Rearm(w) \/ DeleteEvent(w) \/ SendData(w)
        PROVE  FALSE
    <3>1. Len(pending) \in Nat /\ \A t : Append(pending, t) # pending
      BY <1>1
    <3>2. \A k \in Conns : ~RecvEvent(k)
      BY <1>2, <3>1 DEF RecvEvent, Pool!Submit, queue
    <3>3. \A w \in Workers : ~Dispatch(w)
      BY <1>2, <3>1 DEF Dispatch, Pool!Submit, queue
    <3>4. \A w \in Workers : ~Take(w)
      BY <1>1, <1>2, TakeFacts DEF Take, queue
    <3>5. \A w \in Workers : ~Rearm(w) /\ ~DeleteEvent(w) /\ ~SendData(w)
      BY <1>1, <1>2 DEF Rearm, DeleteEvent, SendData, Pool!Finish, Pool!Idle, queue
    <3> QED BY <2>7, <3>2, <3>3, <3>4, <3>5 DEF HandOver
  <2> QED BY <2>2, <2>3, <2>4, <2>5, <2>6, <2>7 DEF Next, EpollStep, WorkerStep, RecvStep, DealStep
<1>3. ASSUME NEW t \in Tasks, Pool!Submit(t)
      PROVE  Pool!TaskQueueTypeOK'
  BY <1>1, <1>3, SubmitFacts DEF Pool!TaskQueueTypeOK
<1>4. ASSUME NEW w \in Workers, Take(w)
      PROVE  TypeOK'
  <2>1. Pool!TaskQueueTypeOK'
    BY <1>1, <1>4, TakeFacts DEF Take, Pool!TaskQueueTypeOK
  <2> QED BY <1>1, <1>4, <2>1 DEF TypeOK, Take, epoll, clients
<1>5. ASSUME NEW w \in Workers, Dispatch(w)
      PROVE  TypeOK'
  <2>1. Pool!TaskQueueTypeOK'
    BY <1>3, <1>5, DispatchedTask DEF Dispatch
  <2> QED BY <1>1, <1>5, <2>1 DEF TypeOK, Dispatch, Goes, epoll, clients
<1>6. ASSUME NEW k \in Conns, RecvEvent(k)
      PROVE  TypeOK'
  <2>1. Pool!TaskQueueTypeOK'
    BY <1>3, <1>6, TaskFacts DEF RecvEvent
  <2> QED BY <1>1, <1>6, <2>1 DEF TypeOK, RecvEvent, clients
<1>7. ASSUME NEW w \in Workers, Pool!Finish(w)
      PROVE  Pool!TaskQueueTypeOK'
  BY <1>1, <1>7 DEF Pool!Finish, Pool!TaskQueueTypeOK
<1>8. ASSUME NEW w \in Workers, Rearm(w) \/ DeleteEvent(w)
      PROVE  TypeOK'
  <2>1. Pool!TaskQueueTypeOK'
    BY <1>7, <1>8 DEF Rearm, DeleteEvent
  <2> QED BY <1>1, <1>8, <2>1 DEF TypeOK, Rearm, DeleteEvent, Goes, epoll, clients
<1>9. ASSUME NEW w \in Workers, SendData(w)
      PROVE  TypeOK'
  <2>1. Pool!TaskQueueTypeOK'
    BY <1>7, <1>9 DEF SendData
  <2>2. /\ running[w] \in Tasks /\ running[w].fn = "Buffer_Deal"
    BY <1>1, <1>9 DEF SendData, Runs
  <2>3. running[w].from \in Conns /\ owner[running[w].sockfd] \in Conns \cup {None}
    BY <1>1, <2>2, TaskFacts DEF TypeOK
  <2>4. replies' \subseteq Conns \X Conns
    BY <1>1, <1>9, <2>3 DEF TypeOK, SendData
  <2> QED BY <1>1, <1>9, <2>1, <2>4 DEF TypeOK, SendData, Goes, epoll, clients
<1>10. CASE ClientStep \/ UNCHANGED netVars
  BY <1>2, <1>10 DEF ClientStep, ClientBegins, ClientCompletes, ClientCloses, netVars
<1>11. CASE EpollStep
  BY <1>2, <1>6, <1>11 DEF EpollStep, Accept, AcceptInsert, EpollWait, HandOver
<1>12. ASSUME NEW w \in Workers, ReadPacket(w) \/ EventDel(w) \/ CloseFd(w) \/ EraseMap(w) \/ Handle(w)
       PROVE  TypeOK'
  BY <1>2, <1>12 DEF ReadPacket, EventDel, CloseFd, EraseMap, Handle
<1> QED BY <1>4, <1>5, <1>8, <1>9, <1>10, <1>11, <1>12 DEF Next, WorkerStep, RecvStep, DealStep

-------------------------------------------------------------------------------
\* What the network layer keeps true, for every size: the inductive invariant.
THEOREM InvAlways == Spec => []Inv
<1>1. Init => Inv
  <2> SUFFICES ASSUME Init PROVE Inv
    OBVIOUS
  <2>1. /\ pending = <<>> /\ running = [w \in Workers |-> None]
    BY DEF Init, Pool!QueueInit
  <2>2. TypeOK
    <3>1. Pool!TaskQueueTypeOK
      BY <2>1, NetAssumption DEF Pool!TaskQueueTypeOK
    <3> QED BY <3>1, NetAssumption DEF Init, TypeOK
  <2>3. ASSUME NEW k \in Conns PROVE Alone(k) /\ ConnFits(k)
    <3>1. (\A i : ~InQueue(k, i)) /\ (\A w : ~WithWorker(k, w))
      BY <2>1, TaskFacts DEF InQueue, WithWorker
    <3> QED BY <3>1 DEF Init, Alone, ConnFits
  <2>4. \A w \in Workers : StepFits(w)
    BY <2>1, TaskFacts DEF Init, StepFits, Receives
  <2>5. NamesFit
    BY <2>1 DEF NamesFit
  <2>6. DescriptorIsOwn /\ MisdirectedOnlyAfterClose
    BY DEF Init, DescriptorIsOwn, MisdirectedOnlyAfterClose
  <2> QED BY <2>2, <2>3, <2>4, <2>5, <2>6 DEF Inv
<1>2. Inv /\ [Next]_netVars => Inv'
  BY TypeStep, AloneStep, ConnStep, StepStep, NamesStep, OwnStep, MisdirectedStep DEF Inv
<1> QED BY <1>1, <1>2, PTL DEF Spec

\* Type correctness, for every number of connections, descriptors, workers and packets.
THEOREM TypeCorrect == Spec => []TypeOK
<1>1. Inv => TypeOK
  BY DEF Inv
<1> QED BY <1>1, InvAlways, PTL

(* A live event is in exactly one place, for every number of connections and *)
(* workers: one thread at a time receives from a connection (EPOLLONESHOT),  *)
(* and no event is lost or freed while something points at it.               *)
THEOREM OneHolderAlways == Spec => []OneHolder
<1>1. Inv => OneHolder
  <2> SUFFICES ASSUME Inv, NEW k \in Conns
               PROVE  Holders(k) = IF ev[k] = "live" THEN 1 ELSE 0
    BY DEF OneHolder
  <2> DEFINE Q == {i \in 1..Len(pending) : pending[i] = RecvTask(k)}
             W == {w \in Workers : running[w] = RecvTask(k)}
  <2>1. Alone(k)
    BY DEF Inv
  <2>2. /\ \A i : i \in Q <=> InQueue(k, i)
        /\ \A w : w \in W <=> WithWorker(k, w)
    BY DEF InQueue, WithWorker
  <2>3. Q = {} \/ \E i : Q = {i} /\ InQueue(k, i)
    BY <2>1, <2>2 DEF Alone
  <2>4. W = {} \/ \E w : W = {w} /\ WithWorker(k, w)
    BY <2>1, <2>2 DEF Alone
  <2>5. \/ Q = {} /\ Cardinality(Q) = 0
        \/ Q # {} /\ Cardinality(Q) = 1 /\ \E i : InQueue(k, i)
    BY <2>3, FS_EmptySet, FS_Singleton
  <2>6. \/ W = {} /\ Cardinality(W) = 0
        \/ W # {} /\ Cardinality(W) = 1 /\ \E w : WithWorker(k, w)
    BY <2>4, FS_EmptySet, FS_Singleton
  <2>7. /\ Q # {} => W = {} /\ k \notin armed /\ k \notin batch
        /\ W # {} => k \notin armed /\ k \notin batch
        /\ k \in armed => k \notin batch
        /\ ev[k] = "live" <=> k \in armed \/ k \in batch \/ Q # {} \/ W # {}
    BY <2>1, <2>2, <2>3, <2>4 DEF Alone
  <2>8. Holders(k) = Cardinality(Q) + Cardinality(W)
                       + (IF k \in armed THEN 1 ELSE 0) + (IF k \in batch THEN 1 ELSE 0)
    BY DEF Holders
  <2> HIDE DEF Q, W
  <2> QED BY <2>5, <2>6, <2>7, <2>8
<1> QED BY <1>1, InvAlways, PTL

(* The descriptor of a live event denotes its own connection until its own   *)
(* recv_task has closed it, however often descriptors are reused.            *)
THEOREM DescriptorIsOwnAlways == Spec => []DescriptorIsOwn
<1>1. Inv => DescriptorIsOwn
  BY DEF Inv
<1> QED BY <1>1, InvAlways, PTL

(* An answer that reaches another client is one to a request of a connection *)
(* closed meanwhile (Buffer_Deal keeps the descriptor only).                 *)
THEOREM MisdirectedAlways == Spec => []MisdirectedOnlyAfterClose
<1>1. Inv => MisdirectedOnlyAfterClose
  BY DEF Inv
<1> QED BY <1>1, InvAlways, PTL

-------------------------------------------------------------------------------
\* Where packet n of connection k can be: queued, with a worker, about to be queued, handled.
Queued(k, n, i) == i \in 1..Len(pending) /\ DealOf(pending[i], k, n)
Dealt(k, n, w) == w \in Workers /\ step[w] = "start" /\ running[w] # None /\ DealOf(running[w], k, n)
JustRead(k, n, w) == w \in Workers /\ n = taken[k] /\ Receives(w, k, "dispatch")

\* It is in no two of these places, and in one of them exactly when it has been read.
Once(k, n) ==
  /\ \A i, j : Queued(k, n, i) /\ Queued(k, n, j) => i = j
  /\ \A v, w : Dealt(k, n, v) /\ Dealt(k, n, w) => v = w
  /\ \A v, w : JustRead(k, n, v) /\ JustRead(k, n, w) => v = w
  /\ \A i, w : ~(Queued(k, n, i) /\ Dealt(k, n, w)) /\ ~(Queued(k, n, i) /\ JustRead(k, n, w))
  /\ \A v, w : ~(Dealt(k, n, v) /\ JustRead(k, n, w))
  /\ <<k, n>> \in handled => \A x : ~Queued(k, n, x) /\ ~Dealt(k, n, x) /\ ~JustRead(k, n, x)
  /\ n <= taken[k] <=> \/ <<k, n>> \in handled
                       \/ \E x : Queued(k, n, x) \/ Dealt(k, n, x) \/ JustRead(k, n, x)

InOrder == \A i, j \in 1..Len(pending) :
             (i < j /\ pending[i].fn = "Buffer_Deal" /\ pending[j].fn = "Buffer_Deal"
                /\ pending[i].from = pending[j].from) => pending[i].packet < pending[j].packet

PacketInv == InOrder /\ \A k \in Conns : \A n \in 1..MaxPackets+1 : Once(k, n)

\* Where a packet is after a step that changes neither the queue nor what is handled,
\* nor, for this packet, who deals with it and who has just read it.
LEMMA PacketStays ==
  ASSUME NEW k \in Conns, NEW n \in 1..MaxPackets+1, Once(k, n), pending' = pending, handled' = handled,
         \A w : Dealt(k, n, w)' <=> Dealt(k, n, w), \A w : JustRead(k, n, w)' <=> JustRead(k, n, w),
         taken'[k] = taken[k]
  PROVE  Once(k, n)'
<1>1. \A i : Queued(k, n, i)' <=> Queued(k, n, i)
  BY DEF Queued, DealOf
<1> QED BY <1>1 DEF Once

\* A packet is read once, queued once, taken once and handled once.
LEMMA OnceStep ==
  ASSUME Inv, [Next]_netVars, NEW k \in Conns, NEW n \in 1..MaxPackets+1, Once(k, n)
  PROVE  Once(k, n)'
<1>1. /\ pending \in Seq(Tasks) /\ Len(pending) <= QueueMax /\ Len(pending) \in Nat
      /\ running \in [Workers -> Tasks \cup {None}]
      /\ step \in [Workers -> {"start", "dispatch", "rearm", "close", "erase", "delete", "reply"}]
      /\ taken \in [Conns -> 0..MaxPackets+1] /\ MaxPackets \in Nat /\ n \in Nat
      /\ \A j \in Conns : Alone(j)
  BY NetAssumption DEF Inv, TypeOK, Pool!TaskQueueTypeOK
<1>2. CASE UNCHANGED <<queue, step, taken, handled>>
  <2>1. \A w : (Dealt(k, n, w)' <=> Dealt(k, n, w)) /\ (JustRead(k, n, w)' <=> JustRead(k, n, w))
    BY <1>2 DEF Dealt, JustRead, Receives, RecvTask, DealOf, queue
  <2> QED BY <1>2, <2>1, PacketStays DEF queue
<1>3. ASSUME NEW t \in Tasks, Pool!Submit(t), UNCHANGED <<taken, handled>>,
             \A w : JustRead(k, n, w)' <=> JustRead(k, n, w) /\ ~DealOf(t, k, n),
             \A w : Dealt(k, n, w)' <=> Dealt(k, n, w),
             DealOf(t, k, n) => \E w : JustRead(k, n, w)
      PROVE  Once(k, n)'
  <2>1. /\ \A i : Queued(k, n, i)' <=> Queued(k, n, i) \/ (i = Len(pending) + 1 /\ DealOf(t, k, n))
        /\ ~Queued(k, n, Len(pending) + 1)
    <3>1. /\ Len(pending') = Len(pending) + 1
          /\ \A i \in 1..Len(pending) : pending'[i] = pending[i]
          /\ pending'[Len(pending) + 1] = t
      BY <1>1, <1>3, SubmitFacts
    <3> QED BY <1>1, <3>1 DEF Queued, DealOf
  <2> QED BY <1>1, <1>3, <2>1 DEF Once
<1>4. ASSUME NEW w \in Workers, Take(w)
      PROVE  Once(k, n)'
  <2>1. /\ Len(pending) = Len(pending') + 1 /\ Len(pending') \in Nat
        /\ \A i \in 1..Len(pending') : pending'[i] = pending[i+1]
        /\ pending[1] \in Tasks /\ pending[1] # None
        /\ running[w] = None /\ running' = [running EXCEPT ![w] = pending[1]]
        /\ UNCHANGED <<step, taken, handled>>
    BY <1>1, <1>4, TakeFacts, TaskFacts DEF Take, clients
  <2>2. step[w] = "start"
    BY <2>1 DEF Inv, StepFits
  <2>3. /\ \A i : Queued(k, n, i)' => i \in Nat /\ i + 1 # 1 /\ Queued(k, n, i + 1)
        /\ \A i : Queued(k, n, i) => IF i = 1 THEN DealOf(pending[1], k, n) ELSE Queued(k, n, i - 1)'
        /\ DealOf(pending[1], k, n) => Queued(k, n, 1)
    <3>1. \A i : i \in 1..Len(pending') <=> i \in Nat /\ i + 1 # 1 /\ i + 1 \in 1..Len(pending)
      BY <2>1
    <3>2. \A i \in 1..Len(pending) : i = 1 \/ (i - 1 \in 1..Len(pending') /\ pending'[i - 1] = pending[i])
      BY <2>1
    <3>3. 1 \in 1..Len(pending)
      BY <2>1
    <3> QED BY <2>1, <3>1, <3>2, <3>3 DEF Queued, DealOf
  <2>4. \A v : Dealt(k, n, v)' <=> IF v = w THEN DealOf(pending[1], k, n) ELSE Dealt(k, n, v)
    BY <1>1, <2>1, <2>2 DEF Dealt, DealOf
  <2>5. ~Dealt(k, n, w)
    BY <2>1 DEF Dealt
  <2>6. \A v : JustRead(k, n, v)' <=> JustRead(k, n, v)
    <3>1. step[w] # "dispatch" /\ step' = step /\ RecvTask(k)' = RecvTask(k)
      BY <2>1, <2>2 DEF RecvTask
    <3>2. \A v \in Workers : v # w => running'[v] = running[v]
      BY <1>1, <2>1
    <3>3. taken' = taken
      BY <2>1
    <3> QED BY <3>1, <3>2, <3>3 DEF JustRead, Receives
  <2>7. \A i, j : Queued(k, n, i)' /\ Queued(k, n, j)' => i = j
    BY <1>1, <2>3 DEF Once
  <2>8. n <= taken'[k] <=> n <= taken[k]
    BY <2>1
  <2>9. (\E x : Queued(k, n, x) \/ Dealt(k, n, x)) <=> (\E x : Queued(k, n, x)' \/ Dealt(k, n, x)')
    BY <2>3, <2>4, <2>5
  <2>10. <<k, n>> \in handled' <=> <<k, n>> \in handled
    BY <2>1
  <2>11. DealOf(pending[1], k, n) => \A v : ~Dealt(k, n, v)
    BY <2>3 DEF Once
  <2>12. DealOf(pending[1], k, n) => \A i : ~Queued(k, n, i)'
    BY <2>3 DEF Once
  <2> QED BY <2>3, <2>4, <2>5, <2>6, <2>7, <2>8, <2>9, <2>10, <2>11, <2>12 DEF Once
<1>5. ASSUME NEW w \in Workers, ReadPacket(w)
      PROVE  Once(k, n)'
  <2>1. PICK j \in Conns : /\ Receives(w, j, "start") /\ taken' = [taken EXCEPT ![j] = @ + 1]
                           /\ step' = [step EXCEPT ![w] = "dispatch"]
                           /\ UNCHANGED <<pending, running, handled>>
    BY <1>5 DEF ReadPacket, Goes, queue
  <2>2. running[w] = RecvTask(j) /\ step[w] = "start" /\ RecvTask(j).fn = "recv_task" /\ RecvTask(k)' = RecvTask(k)
    BY <2>1, TaskFacts DEF Receives, RecvTask
  <2>3. \A v : Dealt(k, n, v)' <=> Dealt(k, n, v)
    BY <1>1, <2>1, <2>2 DEF Dealt, DealOf
  <2>4. CASE j # k
    <3>1. RecvTask(j) # RecvTask(k)
      BY <2>4, TaskFacts
    <3>2. \A v : JustRead(k, n, v)' <=> JustRead(k, n, v)
      BY <1>1, <2>1, <2>2, <2>4, <3>1 DEF JustRead, Receives
    <3> QED BY <1>1, <2>1, <2>3, <2>4, <3>2, PacketStays
  <2>5. CASE j = k
    <3>1. \A v \in Workers : running[v] = RecvTask(k) => v = w
      BY <1>1, <2>1, <2>5, ReceiverHolds DEF WithWorker
    <3>2. \A v : ~JustRead(k, n, v)
      BY <2>2, <3>1 DEF JustRead, Receives
    <3>3. \A v : JustRead(k, n, v)' <=> v = w /\ n = taken[k] + 1
      BY <1>1, <2>1, <2>2, <2>5, <3>1 DEF JustRead, Receives
    <3>4. \A i : Queued(k, n, i)' <=> Queued(k, n, i)
      BY <2>1 DEF Queued, DealOf
    <3>5. taken'[k] = taken[k] + 1 /\ taken[k] \in Nat /\ (n <= taken'[k] <=> n <= taken[k] \/ n = taken[k] + 1)
      BY <1>1, <2>1, <2>5
    <3>6. CASE n = taken[k] + 1
      <4>1. ~(n <= taken[k])
        BY <1>1, <3>5, <3>6
      <4>2. <<k, n>> \notin handled /\ \A x : ~Queued(k, n, x) /\ ~Dealt(k, n, x)
        BY <4>1 DEF Once
      <4> QED BY <2>1, <2>3, <3>3, <3>4, <3>5, <3>6, <4>2 DEF Once
    <3>7. CASE n # taken[k] + 1
      <4>1. n <= taken'[k] <=> n <= taken[k]
        BY <3>5, <3>7
      <4>2. \A v : JustRead(k, n, v)' <=> JustRead(k, n, v)
        BY <3>2, <3>3, <3>7
      <4> QED BY <2>1, <2>3, <3>4, <4>1, <4>2 DEF Once
    <3> QED BY <3>6, <3>7
  <2> QED BY <2>4, <2>5
<1>6. ASSUME NEW w \in Workers, Dispatch(w)
      PROVE  Once(k, n)'
  <2>1. PICK j \in Conns : /\ Receives(w, j, "dispatch") /\ Pool!Submit(DealTask(fd[j], j, taken[j]))
                           /\ step' = [step EXCEPT ![w] = "rearm"] /\ UNCHANGED <<taken, handled>>
    BY <1>6 DEF Dispatch, Goes, clients
  <2>2. DealTask(fd[j], j, taken[j]) \in Tasks /\ running' = running
    BY <2>1, DispatchedTask DEF Pool!Submit
  <2>3. DealOf(DealTask(fd[j], j, taken[j]), k, n) <=> k = j /\ n = taken[k]
    BY DEF DealOf, DealTask
  <2>4. running[w] = RecvTask(j) /\ step[w] = "dispatch" /\ RecvTask(j).fn = "recv_task" /\ RecvTask(k)' = RecvTask(k)
    BY <2>1, TaskFacts DEF Receives, RecvTask
  <2>5. \A v : Dealt(k, n, v)' <=> Dealt(k, n, v)
    BY <1>1, <2>1, <2>2, <2>4 DEF Dealt, DealOf
  <2>6. \A v \in Workers : running[v] = RecvTask(j) => v = w
    BY <1>1, <2>1, ReceiverHolds DEF WithWorker
  <2>7. \A v : JustRead(k, n, v)' <=> JustRead(k, n, v) /\ ~(k = j /\ n = taken[k])
    <3>1. RecvTask(j) = RecvTask(k) <=> j = k
      BY TaskFacts
    <3> QED BY <1>1, <2>1, <2>2, <2>4, <2>6, <3>1 DEF JustRead, Receives
  <2>8. k = j /\ n = taken[k] => JustRead(k, n, w)
    BY <2>1 DEF JustRead
  <2> QED BY <1>3, <2>1, <2>2, <2>3, <2>5, <2>7, <2>8
<1>7. ASSUME NEW j \in Conns, RecvEvent(j)
      PROVE  Once(k, n)'
  <2>1. /\ RecvTask(j) \in Tasks /\ Pool!Submit(RecvTask(j)) /\ ~DealOf(RecvTask(j), k, n)
        /\ UNCHANGED <<taken, handled, step, running>>
    BY <1>7, TaskFacts DEF RecvEvent, DealOf, clients, Pool!Submit
  <2>2. \A w : (Dealt(k, n, w)' <=> Dealt(k, n, w)) /\ (JustRead(k, n, w)' <=> JustRead(k, n, w))
    BY <2>1 DEF Dealt, JustRead, Receives, RecvTask, DealOf
  <2> QED BY <1>3, <2>1, <2>2
<1>8. ASSUME NEW w \in Workers, \/ Rearm(w) \/ EventDel(w) \/ CloseFd(w) \/ EraseMap(w) \/ DeleteEvent(w)
      PROVE  Once(k, n)'
  <2>1. PICK j \in Conns, s \in {"start", "rearm", "close", "erase", "delete"},
             z \in {"start", "close", "erase", "delete"} :
          /\ running[w] = RecvTask(j) /\ step[w] = s /\ step' = [step EXCEPT ![w] = z]
          /\ \/ running' = running
             \/ running' = [running EXCEPT ![w] = None]
          /\ UNCHANGED <<pending, taken, handled>>
    BY <1>8 DEF Rearm, EventDel, CloseFd, EraseMap, DeleteEvent, Receives, Goes, Pool!Finish, queue, clients
  <2>2. RecvTask(j).fn = "recv_task" /\ RecvTask(k)' = RecvTask(k) /\ RecvTask(k) # None
    BY TaskFacts DEF RecvTask
  <2>3. \A v : Dealt(k, n, v)' <=> Dealt(k, n, v)
    BY <1>1, <2>1, <2>2 DEF Dealt, DealOf
  <2>4. \A v : JustRead(k, n, v)' <=> JustRead(k, n, v)
    BY <1>1, <2>1, <2>2 DEF JustRead, Receives
  <2> QED BY <2>1, <2>3, <2>4, PacketStays
<1>9. ASSUME NEW w \in Workers, Handle(w)
      PROVE  Once(k, n)'
  <2>1. /\ running[w] \in Tasks /\ running[w] # None /\ running[w].fn = "Buffer_Deal" /\ step[w] = "start"
        /\ handled' = handled \cup {<<running[w].from, running[w].packet>>}
        /\ step' = [step EXCEPT ![w] = "reply"] /\ UNCHANGED <<pending, running, taken>>
    BY <1>1, <1>9 DEF Handle, Runs, Goes, queue, clients
  <2>2. DealOf(running[w], k, n) <=> <<running[w].from, running[w].packet>> = <<k, n>>
    BY <2>1 DEF DealOf
  <2>3. /\ Dealt(k, n, w) <=> DealOf(running[w], k, n)
        /\ \A v : Dealt(k, n, v)' <=> Dealt(k, n, v) /\ v # w
    BY <1>1, <2>1 DEF Dealt, DealOf
  <2>4. \A v : JustRead(k, n, v)' <=> JustRead(k, n, v)
    <3>1. RecvTask(k)' = RecvTask(k) /\ RecvTask(k) # running[w]
      BY <2>1, TaskFacts DEF RecvTask
    <3> QED BY <1>1, <2>1, <3>1 DEF JustRead, Receives
  <2>5. \A i : Queued(k, n, i)' <=> Queued(k, n, i)
    BY <2>1 DEF Queued, DealOf
  <2>6. <<k, n>> \in handled' <=> <<k, n>> \in handled \/ Dealt(k, n, w)
    BY <2>1, <2>2, <2>3
  <2> QED BY <1>1, <2>1, <2>3, <2>4, <2>5, <2>6 DEF Once
<1>10. ASSUME NEW w \in Workers, SendData(w)
       PROVE  Once(k, n)'
  <2>1. /\ running[w].fn = "Buffer_Deal" /\ step[w] = "reply" /\ step' = [step EXCEPT ![w] = "start"]
        /\ running' = [running EXCEPT ![w] = None] /\ UNCHANGED <<pending, taken, handled>>
    BY <1>10 DEF SendData, Runs, Goes, Pool!Finish, clients
  <2>2. RecvTask(k)' = RecvTask(k) /\ RecvTask(k) # None
    BY TaskFacts DEF RecvTask
  <2>3. \A v : Dealt(k, n, v)' <=> Dealt(k, n, v)
    BY <1>1, <2>1 DEF Dealt, DealOf
  <2>4. \A v : JustRead(k, n, v)' <=> JustRead(k, n, v)
    BY <1>1, <2>1, <2>2 DEF JustRead, Receives
  <2> QED BY <2>1, <2>3, <2>4, PacketStays
<1>11. ASSUME \/ ClientStep \/ AcceptInsert \/ UNCHANGED netVars
              \/ \E j \in Conns, f \in Fds : Accept(j, f)
              \/ \E S \in SUBSET Conns : EpollWait(S)
       PROVE  Once(k, n)'
  BY <1>2, <1>11 DEF ClientStep, ClientBegins, ClientCompletes, ClientCloses, AcceptInsert, Accept, EpollWait, netVars, clients
<1> QED BY <1>4, <1>5, <1>6, <1>7, <1>8, <1>9, <1>10, <1>11
        DEF Next, EpollStep, HandOver, WorkerStep, RecvStep, DealStep

\* Packets join the queue in the order they were read.
LEMMA OrderStep ==
  ASSUME Inv, PacketInv, [Next]_netVars
  PROVE  InOrder'
<1>1. /\ pending \in Seq(Tasks) /\ Len(pending) <= QueueMax /\ Len(pending) \in Nat
      /\ \A i \in 1..Len(pending) : pending[i] \in Tasks
      /\ taken \in [Conns -> 0..MaxPackets+1] /\ MaxPackets \in Nat
  BY NetAssumption DEF Inv, TypeOK, Pool!TaskQueueTypeOK
<1>2. CASE UNCHANGED pending
  BY <1>2 DEF PacketInv, InOrder
<1>3. ASSUME NEW t \in Tasks, Pool!Submit(t),
             \A i \in 1..Len(pending) :
               (pending[i].fn = "Buffer_Deal" /\ t.fn = "Buffer_Deal" /\ pending[i].from = t.from)
                 => pending[i].packet < t.packet
      PROVE  InOrder'
  <2>1. /\ Len(pending') = Len(pending) + 1
        /\ \A i \in 1..Len(pending) : pending'[i] = pending[i]
        /\ pending'[Len(pending) + 1] = t
    BY <1>1, <1>3, SubmitFacts
  <2> SUFFICES ASSUME NEW i \in 1..Len(pending'), NEW j \in 1..Len(pending'), i < j,
                      pending'[i].fn = "Buffer_Deal", pending'[j].fn = "Buffer_Deal",
                      pending'[i].from = pending'[j].from
               PROVE  pending'[i].packet < pending'[j].packet
    BY DEF InOrder
  <2>2. i \in 1..Len(pending) /\ pending'[i] = pending[i]
    BY <1>1, <2>1
  <2>3. CASE j \in 1..Len(pending)
    BY <2>1, <2>2, <2>3 DEF PacketInv, InOrder
  <2>4. CASE j = Len(pending) + 1
    BY <1>3, <2>1, <2>2, <2>4
  <2> QED BY <1>1, <2>1, <2>3, <2>4
<1>4. ASSUME NEW w \in Workers, Dispatch(w)
      PROVE  InOrder'
  <2>1. PICK k \in Conns : Receives(w, k, "dispatch") /\ Pool!Submit(DealTask(fd[k], k, taken[k]))
    BY <1>4 DEF Dispatch
  <2>2. DealTask(fd[k], k, taken[k]) \in Tasks
    BY <2>1, DispatchedTask
  <2>3. /\ taken[k] \in 1..MaxPackets+1 /\ DealTask(fd[k], k, taken[k]).from = k
        /\ DealTask(fd[k], k, taken[k]).packet = taken[k]
    BY <2>2, TaskFacts DEF DealTask
  <2>4. ASSUME NEW i \in 1..Len(pending), pending[i].fn = "Buffer_Deal", pending[i].from = k
        PROVE  pending[i].packet < taken[k]
    <3> DEFINE n == pending[i].packet
    <3>1. n \in 1..MaxPackets+1
      BY <1>1, <2>4, TaskFacts
    <3>2. Queued(k, n, i)
      BY <2>4 DEF Queued, DealOf
    <3>3. n <= taken[k]
      BY <3>1, <3>2 DEF PacketInv, Once
    <3>4. JustRead(k, taken[k], w)
      BY <2>1 DEF JustRead
    <3>5. n # taken[k]
      BY <2>3, <3>2, <3>4 DEF PacketInv, Once
    <3> QED BY <2>3, <3>1, <3>3, <3>5
  <2> QED BY <1>3, <2>1, <2>2, <2>3, <2>4
<1>5. ASSUME NEW k \in Conns, RecvEvent(k)
      PROVE  InOrder'
  <2>1. RecvTask(k) \in Tasks /\ RecvTask(k).fn # "Buffer_Deal" /\ Pool!Submit(RecvTask(k))
    BY <1>5, TaskFacts DEF RecvEvent
  <2> QED BY <1>3, <2>1
<1>6. ASSUME NEW w \in Workers, Take(w)
      PROVE  InOrder'
  <2>1. /\ Len(pending) = Len(pending') + 1 /\ Len(pending') \in Nat
        /\ \A i \in 1..Len(pending') : pending'[i] = pending[i+1]
    BY <1>1, <1>6, TakeFacts DEF Take, Inv, TypeOK, Pool!TaskQueueTypeOK
  <2>2. \A i, j \in 1..Len(pending') : i < j => /\ i + 1 \in 1..Len(pending) /\ j + 1 \in 1..Len(pending)
                                                /\ i + 1 < j + 1
    BY <2>1
  <2> QED BY <2>1, <2>2 DEF PacketInv, InOrder
<1>7. ASSUME NEW w \in Workers, \/ ReadPacket(w) \/ Rearm(w) \/ EventDel(w) \/ CloseFd(w) \/ EraseMap(w)
                                \/ DeleteEvent(w) \/ Handle(w) \/ SendData(w)
      PROVE  UNCHANGED pending
  BY <1>7 DEF ReadPacket, Rearm, EventDel, CloseFd, EraseMap, DeleteEvent, Handle, SendData, queue, Pool!Finish
<1>8. ASSUME \/ ClientStep \/ AcceptInsert \/ UNCHANGED netVars
             \/ \E j \in Conns, f \in Fds : Accept(j, f)
             \/ \E S \in SUBSET Conns : EpollWait(S)
      PROVE  UNCHANGED pending
  BY <1>8 DEF ClientStep, ClientBegins, ClientCompletes, ClientCloses, AcceptInsert, Accept, EpollWait, netVars, queue
<1> QED BY <1>2, <1>4, <1>5, <1>6, <1>7, <1>8
        DEF Next, EpollStep, HandOver, WorkerStep, RecvStep, DealStep

\* Where the packets are, in every state.
LEMMA PacketInvAlways == Spec => []PacketInv
<1>1. Init => PacketInv
  <2> SUFFICES ASSUME Init PROVE PacketInv
    OBVIOUS
  <2>1. pending = <<>> /\ running = [w \in Workers |-> None] /\ handled = {}
        /\ taken = [k \in Conns |-> 0] /\ step = [w \in Workers |-> "start"]
    BY DEF Init, Pool!QueueInit
  <2>2. InOrder
    BY <2>1 DEF InOrder
  <2>3. ASSUME NEW k \in Conns, NEW n \in 1..MaxPackets+1
        PROVE  Once(k, n)
    <3>1. \A x : ~Queued(k, n, x) /\ ~Dealt(k, n, x) /\ ~JustRead(k, n, x)
      BY <2>1 DEF Queued, Dealt, JustRead, Receives
    <3>2. ~(n <= taken[k])
      BY <2>1, NetAssumption
    <3> QED BY <2>1, <3>1, <3>2 DEF Once
  <2> QED BY <2>2, <2>3 DEF PacketInv
<1>2. Inv /\ PacketInv /\ [Next]_netVars => PacketInv'
  <2> SUFFICES ASSUME Inv, PacketInv, [Next]_netVars
               PROVE  PacketInv'
    OBVIOUS
  <2>1. \A k \in Conns : \A n \in 1..MaxPackets+1 : Once(k, n)'
    BY OnceStep DEF PacketInv
  <2> QED BY <2>1, OrderStep DEF PacketInv
<1> QED BY <1>1, <1>2, InvAlways, PTL DEF Spec

(* Every packet read enters the queue once and in the order sent, and is in  *)
(* one place until the kernel has it, for every number of clients, packets   *)
(* and workers and every size of the queue (recv_task, Buffer_Deal).         *)
THEOREM DispatchedAlways == Spec => []DispatchedOnceInOrder
<1>1. Inv /\ PacketInv => DispatchedOnceInOrder
  <2> SUFFICES ASSUME Inv, PacketInv PROVE DispatchedOnceInOrder
    OBVIOUS
  <2>1. ASSUME NEW k \in Conns, NEW n \in 1..taken[k]
        PROVE  Cardinality({i \in 1..Len(pending) : DealOf(pending[i], k, n)})
                 + Cardinality({w \in Workers : step[w] = "start" /\ running[w] # None /\ DealOf(running[w], k, n)})
                 + Cardinality({w \in Workers : n = taken[k] /\ Receives(w, k, "dispatch")})
                 + (IF <<k, n>> \in handled THEN 1 ELSE 0) = 1
    <3> DEFINE Q == {i \in 1..Len(pending) : DealOf(pending[i], k, n)}
               D == {w \in Workers : step[w] = "start" /\ running[w] # None /\ DealOf(running[w], k, n)}
               J == {w \in Workers : n = taken[k] /\ Receives(w, k, "dispatch")}
    <3>1. taken[k] \in 0..MaxPackets+1 /\ MaxPackets \in Nat
      BY NetAssumption DEF Inv, TypeOK
    <3>2. Once(k, n) /\ n <= taken[k]
      BY <3>1 DEF PacketInv
    <3>3. \A x : (x \in Q <=> Queued(k, n, x)) /\ (x \in D <=> Dealt(k, n, x)) /\ (x \in J <=> JustRead(k, n, x))
      BY DEF Queued, Dealt, JustRead
    <3>4. /\ Q = {} \/ \E x : Q = {x}
          /\ D = {} \/ \E x : D = {x}
          /\ J = {} \/ \E x : J = {x}
      <4> HIDE DEF Q, D, J
      <4>1. Q = {} \/ \E x : Q = {x}
        BY <3>2, <3>3 DEF Once
      <4>2. D = {} \/ \E x : D = {x}
        BY <3>2, <3>3 DEF Once
      <4>3. J = {} \/ \E x : J = {x}
        BY <3>2, <3>3, ZenonT(60) DEF Once
      <4> QED BY <4>1, <4>2, <4>3
    <3>5. /\ Cardinality(Q) = IF Q = {} THEN 0 ELSE 1
          /\ Cardinality(D) = IF D = {} THEN 0 ELSE 1
          /\ Cardinality(J) = IF J = {} THEN 0 ELSE 1
      <4>1. ASSUME NEW S, S = {} \/ \E x : S = {x}
            PROVE  Cardinality(S) = IF S = {} THEN 0 ELSE 1
        BY <4>1, FS_EmptySet, FS_Singleton
      <4> HIDE DEF Q, D, J
      <4> QED BY <3>4, <4>1
    <3>6. /\ Q # {} => D = {} /\ J = {} /\ <<k, n>> \notin handled
          /\ D # {} => J = {} /\ <<k, n>> \notin handled
          /\ J # {} => <<k, n>> \notin handled
          /\ Q # {} \/ D # {} \/ J # {} \/ <<k, n>> \in handled
      <4> HIDE DEF Q, D, J
      <4> QED BY <3>2, <3>3 DEF Once
    <3> HIDE DEF Q, D, J
    <3>7. Cardinality(Q) + Cardinality(D) + Cardinality(J) + (IF <<k, n>> \in handled THEN 1 ELSE 0) = 1
      BY <3>5, <3>6
    <3> QED BY <3>7 DEF Q, D, J
  <2> QED BY <2>1 DEF DispatchedOnceInOrder, PacketInv, InOrder
<1> QED BY <1>1, InvAlways, PacketInvAlways, PTL

-------------------------------------------------------------------------------
\* A connection nobody has accepted has sent nothing; one that is being dropped has
\* nothing left to read; a descriptor and a map entry are those of a live event.
Dropped(k) == \/ ev[k] = "deleted"
              \/ \E w \in Workers : \/ Receives(w, k, "close") \/ Receives(w, k, "erase")
                                    \/ Receives(w, k, "delete")
Served(k) ==
  /\ ev[k] = "none" => peer[k] = "open" /\ sent[k] = 0
  /\ Dropped(k) => peer[k] = "eof" /\ sent[k] <= taken[k]
  /\ inserting = k => k \in armed
  /\ \A f \in Fds : owner[f] = k => f = fd[k] /\ ev[k] = "live" /\ ~Closed(k)
  /\ \A f \in Fds : evmap[f] = k => /\ f = fd[k] /\ ev[k] = "live"
                                    /\ \A w \in Workers : ~Receives(w, k, "delete")

\* The steps by which a worker drops a connection come in their order (recv_task 192-198).
LEMMA DropOrder ==
  ASSUME Inv, [Next]_netVars, NEW k \in Conns, NEW w \in Workers,
         NEW s \in {"close", "erase", "delete"}, Receives(w, k, s)'
  PROVE  \/ Receives(w, k, s) /\ running'[w] = running[w]
         \/ s = "close" /\ EventDel(w) /\ Receives(w, k, "start")
         \/ s = "erase" /\ CloseFd(w) /\ Receives(w, k, "close")
         \/ s = "delete" /\ EraseMap(w) /\ Receives(w, k, "erase")
<1>1. /\ running \in [Workers -> Tasks \cup {None}] /\ StepFits(w)
      /\ step \in [Workers -> {"start", "dispatch", "rearm", "close", "erase", "delete", "reply"}]
      /\ pending \in Seq(Tasks) /\ Len(pending) <= QueueMax
  BY DEF Inv, TypeOK, Pool!TaskQueueTypeOK
<1>2. /\ running'[w] = RecvTask(k) /\ step'[w] = s /\ RecvTask(k) # None
      /\ RecvTask(k).fn = "recv_task"
  BY TaskFacts DEF Receives, RecvTask
<1>3. CASE running'[w] = running[w] /\ step'[w] = step[w]
  BY <1>2, <1>3 DEF Receives
<1>4. ASSUME NEW v \in Workers, Take(v)
      PROVE  running'[w] = running[w] /\ step'[w] = step[w]
  <2>1. running[v] = None /\ running' = [running EXCEPT ![v] = pending[1]] /\ step' = step
    BY <1>1, <1>4, TakeFacts DEF Take
  <2>2. v # w
    BY <1>1, <1>2, <2>1 DEF StepFits
  <2> QED BY <1>1, <2>1, <2>2
<1>5. ASSUME NEW v \in Workers, ReadPacket(v) \/ EventDel(v) \/ CloseFd(v) \/ EraseMap(v) \/ Handle(v)
      PROVE  \/ Receives(w, k, s) /\ running'[w] = running[w]
             \/ s = "close" /\ EventDel(w) /\ Receives(w, k, "start")
             \/ s = "erase" /\ CloseFd(w) /\ Receives(w, k, "close")
             \/ s = "delete" /\ EraseMap(w) /\ Receives(w, k, "erase")
  <2>1. running' = running /\ \A u \in Workers : u # v => step'[u] = step[u]
    BY <1>1, <1>5 DEF ReadPacket, EventDel, CloseFd, EraseMap, Handle, Goes, queue
  <2>2. CASE v # w
    BY <1>3, <2>1, <2>2
  <2>3. CASE v = w
    BY <1>1, <1>2, <1>5, <2>1, <2>3 DEF ReadPacket, EventDel, CloseFd, EraseMap, Handle, Goes, Receives
  <2> QED BY <2>2, <2>3
<1>6. ASSUME NEW v \in Workers, Dispatch(v)
      PROVE  running'[w] = running[w] /\ step'[w] = step[w]
  <2>1. running' = running /\ step' = [step EXCEPT ![v] = "rearm"]
    BY <1>6 DEF Dispatch, Goes, Pool!Submit
  <2> QED BY <1>1, <1>2, <2>1
<1>7. ASSUME NEW v \in Workers, Rearm(v) \/ DeleteEvent(v) \/ SendData(v)
      PROVE  running'[w] = running[w] /\ step'[w] = step[w]
  <2>1. running' = [running EXCEPT ![v] = None] /\ step' = [step EXCEPT ![v] = "start"]
    BY <1>7 DEF Rearm, DeleteEvent, SendData, Goes, Pool!Finish
  <2>2. v # w
    BY <1>1, <1>2, <2>1
  <2> QED BY <1>1, <2>1, <2>2
<1>8. ASSUME HandOver
      PROVE  running' = running /\ step' = step
  BY <1>8 DEF HandOver, RecvEvent, Pool!Submit
<1>9. ASSUME \/ ClientStep \/ AcceptInsert \/ (\E j \in Conns, f \in Fds : Accept(j, f))
             \/ (\E S \in SUBSET Conns : EpollWait(S)) \/ UNCHANGED netVars
      PROVE  running' = running /\ step' = step
  BY <1>9 DEF ClientStep, ClientBegins, ClientCompletes, ClientCloses, AcceptInsert, Accept, EpollWait, netVars, queue
<1> QED BY <1>3, <1>4, <1>5, <1>6, <1>7, <1>8, <1>9
        DEF Next, EpollStep, WorkerStep, RecvStep, DealStep

\* What a client's end is worth: a close after a whole packet is final, and nothing is
\* sent on a connection that was not accepted.
LEMMA PeerStep ==
  ASSUME Inv, [Next]_netVars, NEW k \in Conns
  PROVE  /\ peer[k] = "eof" => peer'[k] = "eof" /\ sent'[k] = sent[k]
         /\ ev[k] = "none" /\ peer[k] = "open" => peer'[k] = "open" /\ sent'[k] = sent[k]
<1>1. /\ sent \in [Conns -> 0..MaxPackets] /\ peer \in [Conns -> {"open", "half", "eof", "cut"}]
      /\ \A j \in Conns : Alone(j)
  BY DEF Inv, TypeOK
<1>2. CASE UNCHANGED <<sent, peer>>
  BY <1>2
<1>3. ASSUME NEW j \in Conns, ClientBegins(j) \/ ClientCompletes(j) \/ ClientCloses(j)
      PROVE  /\ peer[k] = "eof" => peer'[k] = "eof" /\ sent'[k] = sent[k]
             /\ ev[k] = "none" /\ peer[k] = "open" => peer'[k] = "open" /\ sent'[k] = sent[k]
  <2>1. CASE j # k
    BY <1>1, <1>3, <2>1 DEF ClientBegins, ClientCompletes, ClientCloses
  <2>2. CASE j = k
    BY <1>1, <1>3, <2>2 DEF ClientBegins, ClientCompletes, ClientCloses
  <2> QED BY <2>1, <2>2
<1>4. ASSUME NEW w \in Workers, ReadPacket(w)
      PROVE  /\ peer[k] = "eof" => peer'[k] = "eof" /\ sent'[k] = sent[k]
             /\ ev[k] = "none" /\ peer[k] = "open" => peer'[k] = "open" /\ sent'[k] = sent[k]
  <2>1. PICK j \in Conns : /\ Receives(w, j, "start") /\ sent' = sent
                           /\ UNCHANGED peer \/ peer' = [peer EXCEPT ![j] = "eof"]
    BY <1>4 DEF ReadPacket
  <2>2. ev[j] = "live"
    BY <1>1, <2>1, ReceiverHolds
  <2> QED BY <1>1, <2>1, <2>2
<1>5. ASSUME NEW w \in Workers, \/ Take(w) \/ Dispatch(w) \/ Rearm(w) \/ EventDel(w) \/ CloseFd(w)
                                \/ EraseMap(w) \/ DeleteEvent(w) \/ Handle(w) \/ SendData(w)
      PROVE  UNCHANGED <<sent, peer>>
  BY <1>5 DEF Take, Dispatch, Rearm, EventDel, CloseFd, EraseMap, DeleteEvent, Handle, SendData, clients
<1>6. ASSUME EpollStep \/ UNCHANGED netVars
      PROVE  UNCHANGED <<sent, peer>>
  BY <1>6 DEF EpollStep, Accept, AcceptInsert, EpollWait, HandOver, RecvEvent, netVars, clients
<1> QED BY <1>2, <1>3, <1>4, <1>5, <1>6 DEF Next, ClientStep, WorkerStep, RecvStep, DealStep

\* What else a step can do to a connection: an event is made, armed, taken out, and deleted.
LEMMA EventMoves ==
  ASSUME Inv, [Next]_netVars, NEW k \in Conns
  PROVE  /\ ev'[k] = "none" => ev[k] = "none"
         /\ ev'[k] # ev[k] => \/ \E f \in Fds : Accept(k, f)
                              \/ \E w \in Workers : Receives(w, k, "delete") /\ DeleteEvent(w)
<1>1. ev \in [Conns -> {"none", "live", "deleted"}]
  BY DEF Inv, TypeOK
<1>2. ev'[k] = "none" => ev[k] = "none"
  BY EventStep
<1>3. ASSUME NEW j \in Conns, NEW f \in Fds, Accept(j, f), ev'[k] # ev[k]
      PROVE  Accept(k, f)
  <2>1. ev' = [ev EXCEPT ![j] = "live"]
    BY <1>3 DEF Accept
  <2>2. j = k
    BY <1>1, <1>3, <2>1
  <2> QED BY <1>3, <2>2
<1>4. ASSUME NEW w \in Workers, DeleteEvent(w), ev'[k] # ev[k]
      PROVE  Receives(w, k, "delete")
  <2>1. PICK j \in Conns : Receives(w, j, "delete") /\ ev' = [ev EXCEPT ![j] = "deleted"]
    BY <1>4 DEF DeleteEvent
  <2>2. j = k
    BY <1>1, <1>4, <2>1
  <2> QED BY <2>1, <2>2
<1>5. ASSUME NEW w \in Workers, \/ Take(w) \/ ReadPacket(w) \/ Dispatch(w) \/ Rearm(w) \/ EventDel(w)
                                \/ CloseFd(w) \/ EraseMap(w) \/ Handle(w) \/ SendData(w)
      PROVE  UNCHANGED ev
  BY <1>5 DEF Take, ReadPacket, Dispatch, Rearm, EventDel, CloseFd, EraseMap, Handle, SendData
<1>6. ASSUME \/ ClientStep \/ AcceptInsert \/ (\E S \in SUBSET Conns : EpollWait(S))
             \/ HandOver \/ UNCHANGED netVars
      PROVE  UNCHANGED ev
  BY <1>6 DEF ClientStep, ClientBegins, ClientCompletes, ClientCloses, AcceptInsert, EpollWait,
              HandOver, RecvEvent, netVars
<1> QED BY <1>2, <1>3, <1>4, <1>5, <1>6 DEF Next, EpollStep, WorkerStep, RecvStep, DealStep

\* A connection is dropped only when its client has closed and nothing is left to read.
LEMMA DroppedStep ==
  ASSUME Inv, [Next]_netVars, NEW k \in Conns, Served(k), Dropped(k)'
  PROVE  peer'[k] = "eof" /\ sent'[k] <= taken'[k]
<1>1. /\ taken[k] <= taken'[k] /\ sent[k] \in 0..MaxPackets /\ taken[k] \in 0..MaxPackets+1
      /\ taken'[k] \in 0..MaxPackets+1
  BY ConnStep DEF Inv, TypeOK
<1>2. peer[k] = "eof" /\ sent[k] <= taken[k]
  <2>1. CASE Dropped(k)
    BY <2>1 DEF Served
  <2>2. ASSUME NEW w \in Workers, NEW s \in {"close", "erase", "delete"}, Receives(w, k, s)', ~Dropped(k)
        PROVE  peer[k] = "eof" /\ sent[k] <= taken[k]
    <3>1. EventDel(w) /\ Receives(w, k, "start")
      BY <2>2, DropOrder DEF Dropped
    <3>2. PICK j \in Conns : Receives(w, j, "start") /\ taken[j] >= sent[j] /\ peer[j] = "eof"
      BY <3>1 DEF EventDel
    <3>3. j = k
      BY <3>1, <3>2, TaskFacts DEF Receives
    <3> QED BY <1>1, <3>2, <3>3
  <2>3. CASE ev'[k] = "deleted" /\ ev[k] # "deleted"
    <3>1. ~ \E f \in Fds : Accept(k, f)
      BY <2>3 DEF Accept, Inv, TypeOK
    <3>2. Dropped(k)
      BY <2>3, <3>1, EventMoves DEF Dropped
    <3> QED BY <2>1, <3>2
  <2> QED BY <2>1, <2>2, <2>3 DEF Dropped
<1>3. peer'[k] = "eof" /\ sent'[k] = sent[k]
  BY <1>2, PeerStep
<1> QED BY <1>1, <1>2, <1>3

\* The epoll thread arms an event before it puts the connection into the map.
LEMMA InsertingStep ==
  ASSUME Inv, [Next]_netVars, NEW k \in Conns, Served(k), inserting' = k
  PROVE  k \in armed'
<1>1. \A j \in Conns : Alone(j)
  BY DEF Inv
<1>2. ASSUME NEW j \in Conns, NEW f \in Fds, Accept(j, f)
      PROVE  k \in armed'
  BY <1>2 DEF Accept
<1>3. ASSUME AcceptInsert \/ (\E S \in SUBSET Conns : EpollWait(S))
      PROVE  FALSE
  BY <1>3, NetAssumption DEF AcceptInsert, EpollWait
<1>4. CASE inserting = k /\ armed \subseteq armed'
  BY <1>4 DEF Served
<1>5. ASSUME NEW w \in Workers, EventDel(w)
      PROVE  k \in armed'
  <2>1. PICK j \in Conns : Receives(w, j, "start") /\ armed' = armed \ {j} /\ inserting' = inserting
    BY <1>5 DEF EventDel
  <2>2. j \notin armed /\ k \in armed
    BY <1>1, <2>1, ReceiverHolds DEF Served
  <2> QED BY <2>1, <2>2
<1>6. ASSUME NEW w \in Workers, \/ Take(w) \/ ReadPacket(w) \/ Dispatch(w) \/ Rearm(w)
                                \/ CloseFd(w) \/ EraseMap(w) \/ DeleteEvent(w) \/ Handle(w) \/ SendData(w)
      PROVE  inserting' = inserting /\ armed \subseteq armed'
  BY <1>6 DEF Take, ReadPacket, Dispatch, Rearm, CloseFd, EraseMap, DeleteEvent, Handle, SendData, epoll
<1>7. ASSUME ClientStep \/ HandOver \/ UNCHANGED netVars
      PROVE  inserting' = inserting /\ armed \subseteq armed'
  BY <1>7 DEF ClientStep, ClientBegins, ClientCompletes, ClientCloses, HandOver, RecvEvent, netVars, epoll
<1> QED BY <1>2, <1>3, <1>4, <1>5, <1>6, <1>7 DEF Next, EpollStep, WorkerStep, RecvStep, DealStep

\* A descriptor denotes the connection it was accepted for, until its reception closes it.
LEMMA OwnerStep ==
  ASSUME Inv, [Next]_netVars, NEW k \in Conns, Served(k), NEW f \in Fds, owner'[f] = k
  PROVE  f = fd'[k] /\ ev'[k] = "live" /\ ~Closed(k)'
<1>1. /\ owner \in [Fds -> Conns \cup {None}] /\ fd \in [Conns -> Fds \cup {None}]
      /\ ev \in [Conns -> {"none", "live", "deleted"}] /\ \A j \in Conns : Alone(j)
      /\ fd[k] \in Fds \/ ev[k] = "none"
  BY DEF Inv, TypeOK, ConnFits
<1>2. CASE Accept(k, f)
  <2>1. ev[k] = "none" /\ ev'[k] = "live" /\ fd'[k] = f /\ UNCHANGED <<queue, step>>
    BY <1>1, <1>2 DEF Accept
  <2>2. \A w \in Workers, s \in {"erase", "delete"} : ~Receives(w, k, s)
    BY <1>1, <2>1, ReceiverHolds
  <2>3. ~Closed(k)'
    BY <2>1, <2>2 DEF Closed, Receives, RecvTask, queue
  <2> QED BY <2>1, <2>3
<1>3. CASE owner[f] = k
  <2>1. f = fd[k] /\ ev[k] = "live" /\ ~Closed(k)
    BY <1>3 DEF Served
  <2>2. f = fd'[k] /\ ev'[k] = "live"
    <3>1. f = fd'[k]
      BY <2>1, EventStep
    <3>2. ~ \E g \in Fds : Accept(k, g)
      BY <2>1 DEF Accept
    <3>3. ~ \E w \in Workers : Receives(w, k, "delete")
      BY <2>1 DEF Closed
    <3> QED BY <2>1, <3>1, <3>2, <3>3, EventMoves
  <2>3. ASSUME NEW w \in Workers, NEW s \in {"erase", "delete"}, Receives(w, k, s)'
        PROVE  FALSE
    <3>1. CloseFd(w) /\ Receives(w, k, "close")
      BY <2>1, <2>3, DropOrder DEF Closed
    <3>2. PICK j \in Conns : Receives(w, j, "close") /\ owner' = [owner EXCEPT ![fd[j]] = None]
      BY <3>1 DEF CloseFd
    <3>3. RecvTask(j) = RecvTask(k)
      BY <3>1, <3>2 DEF Receives
    <3>4. j = k
      BY <3>3, TaskFacts
    <3>5. owner'[f] = None
      BY <1>1, <2>1, <3>2, <3>4
    <3> QED BY <3>5, NetAssumption
  <2> QED BY <2>2, <2>3 DEF Closed
<1>4. ASSUME NEW j \in Conns, NEW g \in Fds, Accept(j, g)
      PROVE  owner[f] = k \/ Accept(k, f)
  <2>1. owner' = [owner EXCEPT ![g] = j]
    BY <1>4 DEF Accept
  <2>2. CASE g = f
    <3>1. j = k
      BY <1>1, <2>1, <2>2
    <3> QED BY <1>4, <2>2, <3>1
  <2>3. CASE g # f
    BY <1>1, <2>1, <2>3
  <2> QED BY <2>2, <2>3
<1>5. ASSUME NEW w \in Workers, CloseFd(w)
      PROVE  owner[f] = k
  BY <1>1, <1>5, NetAssumption DEF CloseFd
<1>6. ASSUME NEW w \in Workers, \/ Take(w) \/ ReadPacket(w) \/ Dispatch(w) \/ Rearm(w) \/ EventDel(w)
                                \/ EraseMap(w) \/ DeleteEvent(w) \/ Handle(w) \/ SendData(w)
      PROVE  UNCHANGED owner
  BY <1>6 DEF Take, ReadPacket, Dispatch, Rearm, EventDel, EraseMap, DeleteEvent, Handle, SendData
<1>7. ASSUME \/ ClientStep \/ AcceptInsert \/ (\E S \in SUBSET Conns : EpollWait(S))
             \/ HandOver \/ UNCHANGED netVars
      PROVE  UNCHANGED owner
  BY <1>7 DEF ClientStep, ClientBegins, ClientCompletes, ClientCloses, AcceptInsert, EpollWait,
              HandOver, RecvEvent, netVars
<1> QED BY <1>2, <1>3, <1>4, <1>5, <1>6, <1>7 DEF Next, EpollStep, WorkerStep, RecvStep, DealStep

\* A map entry is that of a live event, until its reception erases it.
LEMMA EvmapStep ==
  ASSUME Inv, [Next]_netVars, NEW k \in Conns, Served(k), NEW f \in Fds, evmap'[f] = k
  PROVE  f = fd'[k] /\ ev'[k] = "live" /\ \A w \in Workers : ~Receives(w, k, "delete")'
<1>1. /\ evmap \in [Fds -> Conns \cup {None}] /\ fd \in [Conns -> Fds \cup {None}]
      /\ ev \in [Conns -> {"none", "live", "deleted"}] /\ \A j \in Conns : Alone(j)
      /\ fd[k] \in Fds \/ ev[k] = "none"
  BY DEF Inv, TypeOK, ConnFits
<1>2. CASE AcceptInsert /\ inserting = k /\ f = fd[k]
  <2>1. k \in armed /\ ev[k] = "live" /\ UNCHANGED <<queue, step, ev, fd>>
    BY <1>1, <1>2 DEF Served, AcceptInsert, Alone
  <2>2. \A w \in Workers : ~Receives(w, k, "delete")
    BY <1>1, <2>1, ReceiverHolds
  <2> QED BY <1>2, <2>1, <2>2 DEF Receives, RecvTask, queue
<1>3. CASE evmap[f] = k
  <2>1. f = fd[k] /\ ev[k] = "live" /\ \A w \in Workers : ~Receives(w, k, "delete")
    BY <1>3 DEF Served
  <2>2. f = fd'[k] /\ ev'[k] = "live"
    <3>1. f = fd'[k]
      BY <2>1, EventStep
    <3>2. ~ \E g \in Fds : Accept(k, g)
      BY <2>1 DEF Accept
    <3> QED BY <2>1, <3>1, <3>2, EventMoves
  <2>3. ASSUME NEW w \in Workers, Receives(w, k, "delete")'
        PROVE  FALSE
    <3>1. EraseMap(w) /\ Receives(w, k, "erase")
      BY <2>1, <2>3, DropOrder
    <3>2. PICK j \in Conns : Receives(w, j, "erase") /\ evmap' = [evmap EXCEPT ![fd[j]] = None]
      BY <3>1 DEF EraseMap
    <3>3. j = k
      BY <3>1, <3>2, TaskFacts DEF Receives
    <3>4. evmap'[f] = None
      BY <1>1, <2>1, <3>2, <3>3
    <3> QED BY <3>4, NetAssumption
  <2> QED BY <2>2, <2>3
<1>4. ASSUME AcceptInsert
      PROVE  evmap[f] = k \/ (inserting = k /\ f = fd[k])
  <2>1. evmap' = [evmap EXCEPT ![fd[inserting]] = inserting]
    BY <1>4 DEF AcceptInsert
  <2>2. CASE fd[inserting] = f
    <3>1. inserting = k
      BY <1>1, <2>1, <2>2
    <3> QED BY <2>2, <3>1
  <2>3. CASE fd[inserting] # f
    BY <1>1, <2>1, <2>3
  <2> QED BY <2>2, <2>3
<1>5. ASSUME NEW w \in Workers, EraseMap(w)
      PROVE  evmap[f] = k
  BY <1>1, <1>5, NetAssumption DEF EraseMap
<1>6. ASSUME NEW w \in Workers, \/ Take(w) \/ ReadPacket(w) \/ Dispatch(w) \/ Rearm(w) \/ EventDel(w)
                                \/ CloseFd(w) \/ DeleteEvent(w) \/ Handle(w) \/ SendData(w)
      PROVE  UNCHANGED evmap
  BY <1>6 DEF Take, ReadPacket, Dispatch, Rearm, EventDel, CloseFd, DeleteEvent, Handle, SendData
<1>7. ASSUME \/ ClientStep \/ (\E j \in Conns, g \in Fds : Accept(j, g))
             \/ (\E S \in SUBSET Conns : EpollWait(S)) \/ HandOver \/ UNCHANGED netVars
      PROVE  UNCHANGED evmap
  BY <1>7 DEF ClientStep, ClientBegins, ClientCompletes, ClientCloses, Accept, EpollWait,
              HandOver, RecvEvent, netVars
<1> QED BY <1>2, <1>3, <1>4, <1>5, <1>6, <1>7 DEF Next, EpollStep, WorkerStep, RecvStep, DealStep

ServedInv == \A k \in Conns : Served(k)

\* The parts of Served together.
LEMMA ServedAlways == Spec => []ServedInv
<1>1. Init => ServedInv
  <2> SUFFICES ASSUME Init PROVE ServedInv
    OBVIOUS
  <2>1. running = [w \in Workers |-> None]
    BY DEF Init, Pool!QueueInit
  <2>2. \A w \in Workers, k \in Conns : \A s : ~Receives(w, k, s)
    BY <2>1, TaskFacts DEF Receives
  <2> QED BY <2>2, NetAssumption DEF Init, ServedInv, Served, Dropped, Closed
<1>2. Inv /\ ServedInv /\ [Next]_netVars => ServedInv'
  <2> SUFFICES ASSUME Inv, ServedInv, [Next]_netVars, NEW k \in Conns
               PROVE  Served(k)'
    BY DEF ServedInv
  <2>0. Served(k)
    BY DEF ServedInv
  <2>1. ev'[k] = "none" => peer'[k] = "open" /\ sent'[k] = 0
    BY <2>0, EventMoves, PeerStep DEF Served
  <2>2. Dropped(k)' => peer'[k] = "eof" /\ sent'[k] <= taken'[k]
    BY <2>0, DroppedStep
  <2>3. inserting' = k => k \in armed'
    BY <2>0, InsertingStep
  <2>4. \A f \in Fds : owner'[f] = k => f = fd'[k] /\ ev'[k] = "live" /\ ~Closed(k)'
    BY <2>0, OwnerStep
  <2>5. \A f \in Fds : evmap'[f] = k => /\ f = fd'[k] /\ ev'[k] = "live"
                                       /\ \A w \in Workers : ~Receives(w, k, "delete")'
    BY <2>0, EvmapStep
  <2> QED BY <2>1, <2>2, <2>3, <2>4, <2>5 DEF Served
<1> QED BY <1>1, <1>2, InvAlways, PTL DEF Spec

\* A live event nothing is under way for is armed, and its connection silent.
LEMMA SilentWhenIdle ==
  ASSUME Inv, NEW k \in Conns, ~UnderWay(k), ev[k] = "live"
  PROVE  peer[k] = "open" /\ ~(taken[k] < sent[k])
<1>1. Alone(k)
  BY DEF Inv
<1>2. /\ \A i : ~InQueue(k, i)
      /\ \A w : ~WithWorker(k, w)
  BY TaskFacts DEF UnderWay, Concerns, InQueue, WithWorker
<1>3. k \in armed
  BY <1>1, <1>2 DEF Alone, UnderWay
<1> QED BY <1>3 DEF UnderWay, Readable

(* Unless epoll, the pool or a worker still has something to do for it, a    *)
(* connection whose client has closed has been cleaned up: its event is      *)
(* deleted, and neither a descriptor nor the map names it (recv_task).       *)
THEOREM NoCloseForgottenAlways == Spec => []NoCloseForgotten
<1>1. Inv /\ ServedInv => NoCloseForgotten
  <2> SUFFICES ASSUME Inv, ServedInv, NEW k \in Conns, ~UnderWay(k), peer[k] \in {"eof", "cut"}
               PROVE  ev[k] = "deleted" /\ \A f \in Fds : owner[f] # k /\ evmap[f] # k
    BY DEF NoCloseForgotten
  <2>1. Served(k) /\ ev[k] \in {"none", "live", "deleted"}
    BY DEF ServedInv, Inv, TypeOK
  <2>2. ev[k] # "live"
    BY SilentWhenIdle
  <2>3. ev[k] # "none"
    BY <2>1 DEF Served
  <2> QED BY <2>1, <2>2, <2>3 DEF Served
<1> QED BY <1>1, InvAlways, ServedAlways, PTL

(* Unless something is still under way for its connection, a packet sent in  *)
(* full has been handed to the kernel: the close that follows it, and what   *)
(* other connections do, make no difference (recv_task, Buffer_Deal).        *)
THEOREM NoPacketForgottenAlways == Spec => []NoPacketForgotten
<1>1. Inv /\ ServedInv /\ PacketInv => NoPacketForgotten
  <2> SUFFICES ASSUME Inv, ServedInv, PacketInv, NEW k \in Conns, ~UnderWay(k), NEW n \in 1..sent[k]
               PROVE  <<k, n>> \in handled
    BY DEF NoPacketForgotten
  <2>1. /\ Served(k) /\ ev[k] \in {"none", "live", "deleted"} /\ MaxPackets \in Nat
        /\ sent[k] \in 0..MaxPackets /\ taken[k] \in 0..MaxPackets+1
    BY NetAssumption DEF ServedInv, Inv, TypeOK
  <2>2. ev[k] # "none"
    BY <2>1 DEF Served
  <2>3. sent[k] <= taken[k]
    <3>1. CASE ev[k] = "live"
      BY <2>1, <3>1, SilentWhenIdle
    <3>2. CASE ev[k] = "deleted"
      BY <2>1, <3>2 DEF Served, Dropped
    <3> QED BY <2>1, <2>2, <3>1, <3>2
  <2>4. n \in 1..MaxPackets+1 /\ n <= taken[k]
    BY <2>1, <2>3
  <2>5. Once(k, n)
    BY <2>4 DEF PacketInv
  <2>6. ASSUME NEW x PROVE ~Queued(k, n, x) /\ ~Dealt(k, n, x) /\ ~JustRead(k, n, x)
    BY TaskFacts DEF UnderWay, Concerns, Queued, Dealt, JustRead, Receives, DealOf
  <2> QED BY <2>4, <2>5, <2>6 DEF Once
<1> QED BY <1>1, InvAlways, ServedAlways, PacketInvAlways, PTL

===============================================================================
