------------------------------- MODULE EpollNet -------------------------------
(****************************************************************************)
(* The network layer, src/src/block_epoll_net.cpp, on top of the queue the  *)
(* thread pool promises (TaskQueue): the epoll thread accepts connections   *)
(* and hands over one recv_task per EPOLLONESHOT event; a worker running    *)
(* recv_task reads one packet, hands over its Buffer_Deal and arms the      *)
(* event again, or, when the peer is gone, takes the event out of epoll,    *)
(* closes the descriptor, erases the map entry and deletes the event, in    *)
(* four separate calls; a worker running Buffer_Deal lets the kernel handle *)
(* the packet, whose answer goes to whatever the DESCRIPTOR then denotes.   *)
(*                                                                          *)
(* A connection k stands for one accept and for the myevent_s made for it;  *)
(* descriptors are few and the operating system reuses them.  The client    *)
(* side of a connection is external: how many packets it has sent in full,  *)
(* whether it is inside another one ("half"), and whether it closed after a *)
(* whole packet ("eof") or inside one ("cut").  The sockets block: read and *)
(* recv (lines 163, 173) do not return inside a packet the client neither   *)
(* completes nor cuts, and send (line 248) not while the client's side is   *)
(* full.  So no step of a worker is assumed ever to be taken.               *)
(****************************************************************************)
EXTENDS Integers, Sequences, FiniteSets

CONSTANTS Conns,      \* connections, each accepted at most once
          Fds,        \* descriptors the operating system hands out
          Workers,    \* threads of the pool
          QueueMax,   \* queue_max of the pool
          MaxPackets, \* bound: packets a client sends in full on a connection
          None        \* no task, no owner, no event

ASSUME NetAssumption == /\ QueueMax \in Nat \ {0} /\ MaxPackets \in Nat
                        /\ None \notin Conns

RecvTask(k) == [fn |-> "recv_task", ev |-> k]
\* The DataBuffer holds the descriptor; whose packet it is, and which, is history.
DealTask(f, k, n) == [fn |-> "Buffer_Deal", sockfd |-> f, from |-> k, packet |-> n]
Tasks == [fn : {"recv_task"}, ev : Conns]
           \cup [fn : {"Buffer_Deal"}, sockfd : Fds, from : Conns, packet : 1..MaxPackets+1]

ASSUME NoTaskAssumption == None \notin Tasks

VARIABLES
  pending, running,  \* the pool's queue and what each worker runs
  step,      \* where each worker is inside its task
  ev,        \* the myevent_s of a connection: "none", "live" or "deleted"
  fd,        \* ev->fd
  armed,     \* events epoll watches
  batch,     \* events returned by epoll_wait and not yet handed over
  inserting, \* the connection accept_event has armed and not yet put into the map
  owner,     \* the connection a descriptor denotes in the operating system
  evmap,     \* m_mapSockfdToEvent
  sent, taken, peer,  \* per connection: packets sent in full, packets read, the client's end
  handled,   \* <<k, n>>: packets Buffer_Deal has handed to the kernel
  replies    \* history: <<k, to>>: an answer to a request of k went to connection to

queue == <<pending, running>>
epoll == <<armed, batch, inserting>>
clients == <<sent, taken, peer>>
netVars == <<queue, step, ev, fd, epoll, owner, evmap, clients, handled, replies>>

Pool == INSTANCE TaskQueue WITH Servers <- Workers, Bound <- QueueMax, NoTask <- None

Runs(w, fn) == running[w] # None /\ running[w].fn = fn

Init == /\ Pool!QueueInit
        /\ step = [w \in Workers |-> "start"]
        /\ ev = [k \in Conns |-> "none"] /\ fd = [k \in Conns |-> None]
        /\ armed = {} /\ batch = {} /\ inserting = None
        /\ owner = [f \in Fds |-> None] /\ evmap = [f \in Fds |-> None]
        /\ sent = [k \in Conns |-> 0] /\ taken = [k \in Conns |-> 0]
        /\ peer = [k \in Conns |-> "open"]
        /\ handled = {} /\ replies = {}
-----------------------------------------------------------------------------
(* The client.                                                              *)

ClientBegins(k) == /\ ev[k] = "live" /\ peer[k] = "open"
                   /\ peer' = [peer EXCEPT ![k] = "half"]
                   /\ UNCHANGED <<queue, step, ev, fd, epoll, owner, evmap, sent, taken, handled, replies>>

ClientCompletes(k) == /\ peer[k] = "half" /\ sent[k] < MaxPackets
                      /\ sent' = [sent EXCEPT ![k] = @ + 1]
                      /\ peer' = [peer EXCEPT ![k] = "open"]
                      /\ UNCHANGED <<queue, step, ev, fd, epoll, owner, evmap, taken, handled, replies>>

ClientCloses(k) == /\ ev[k] = "live" /\ peer[k] \in {"open", "half"}
                   /\ peer' = [peer EXCEPT ![k] = IF @ = "open" THEN "eof" ELSE "cut"]
                   /\ UNCHANGED <<queue, step, ev, fd, epoll, owner, evmap, sent, taken, handled, replies>>

\* A part of a packet is enough for epoll, and so is a close.
Readable(k) == taken[k] < sent[k] \/ peer[k] # "open"
-----------------------------------------------------------------------------
(* The epoll thread.  Definitions named Mutant... are plausible mistakes:   *)
(* each stands in for the definition after it to show that a property       *)
(* notices the mistake.                                                     *)

\* accept_event up to eventadd: the event is armed before the map knows it.
Accept(k, f) == /\ inserting = None
                /\ ev[k] = "none" /\ owner[f] = None
                /\ owner' = [owner EXCEPT ![f] = k]
                /\ ev' = [ev EXCEPT ![k] = "live"]
                /\ fd' = [fd EXCEPT ![k] = f]
                /\ armed' = armed \cup {k}
                /\ inserting' = k
                /\ UNCHANGED <<queue, step, batch, evmap, clients, handled, replies>>

AcceptInsert == /\ inserting # None
                /\ evmap' = [evmap EXCEPT ![fd[inserting]] = inserting]
                /\ inserting' = None
                /\ UNCHANGED <<queue, step, ev, fd, armed, batch, owner, clients, handled, replies>>

\* Without EPOLLONESHOT the events stay armed.
MutantEpollWaitLevel(S) ==
  /\ inserting = None /\ batch = {}
  /\ S # {} /\ \A k \in S : k \in armed /\ Readable(k)
  /\ batch' = S
  /\ UNCHANGED <<queue, step, ev, fd, armed, inserting, owner, evmap, clients, handled, replies>>

\* epoll_wait: EPOLLONESHOT disarms every event it returns.
EpollWait(S) == /\ inserting = None /\ batch = {}
                /\ S # {} /\ \A k \in S : k \in armed /\ Readable(k)
                /\ batch' = S
                /\ armed' = armed \ S
                /\ UNCHANGED <<queue, step, ev, fd, inserting, owner, evmap, clients, handled, replies>>

RecvEvent(k) == /\ inserting = None /\ k \in batch
                /\ Pool!Submit(RecvTask(k))
                /\ batch' = batch \ {k}
                /\ UNCHANGED <<step, ev, fd, armed, inserting, owner, evmap, clients, handled, replies>>
-----------------------------------------------------------------------------
(* The workers.                                                             *)

Take(w) == /\ Pool!Take(w)
           /\ UNCHANGED <<step, ev, fd, epoll, owner, evmap, clients, handled, replies>>

\* A worker that runs the recv_task of k and is at step s of it.
Receives(w, k, s) == running[w] = RecvTask(k) /\ step[w] = s
Goes(w, s) == step' = [step EXCEPT ![w] = s]

\* The rest of a packet cut short is waited for again and again.
MutantReadPacketForEver(w) ==
  \E k \in Conns :
    /\ Receives(w, k, "start")
    /\ taken[k] < sent[k] \/ peer[k] = "cut"
    /\ taken' = [taken EXCEPT ![k] = @ + 1]
    /\ Goes(w, "dispatch")
    /\ UNCHANGED <<queue, ev, fd, epoll, owner, evmap, sent, peer, handled, replies>>

\* The event is armed again before the packet is in the queue.
MutantReadPacketRearms(w) ==
  \E k \in Conns :
    /\ Receives(w, k, "start")
    /\ \/ taken[k] < sent[k] /\ UNCHANGED peer
       \/ taken[k] = sent[k] /\ peer[k] = "cut" /\ peer' = [peer EXCEPT ![k] = "eof"]
    /\ taken' = [taken EXCEPT ![k] = @ + 1]
    /\ armed' = armed \cup {k}
    /\ Goes(w, "dispatch")
    /\ UNCHANGED <<queue, ev, fd, batch, inserting, owner, evmap, sent, handled, replies>>

(* One packet read, whole or cut short by the close: both are handed over.  *)
(* A worker that has read half a packet stays here as long as the other     *)
(* half is not sent.                                                        *)
ReadPacket(w) ==
  \E k \in Conns :
    /\ Receives(w, k, "start")
    /\ \/ taken[k] < sent[k] /\ UNCHANGED peer
       \/ taken[k] = sent[k] /\ peer[k] = "cut" /\ peer' = [peer EXCEPT ![k] = "eof"]
    /\ taken' = [taken EXCEPT ![k] = @ + 1]
    /\ Goes(w, "dispatch")
    /\ UNCHANGED <<queue, ev, fd, epoll, owner, evmap, sent, handled, replies>>

\* The number of the packet just read: the one cut short counts as the next.
Dispatch(w) ==
  \E k \in Conns :
    /\ Receives(w, k, "dispatch")
    /\ Pool!Submit(DealTask(fd[k], k, taken[k]))
    /\ Goes(w, "rearm")
    /\ UNCHANGED <<ev, fd, epoll, owner, evmap, clients, handled, replies>>

\* recv_task returns without arming the event again.
MutantRearmForgotten(w) == \E k \in Conns :
                             /\ Receives(w, k, "rearm")
                             /\ Pool!Finish(w)
                             /\ Goes(w, "start")
                             /\ UNCHANGED <<ev, fd, epoll, owner, evmap, clients, handled, replies>>

Rearm(w) == \E k \in Conns :
              /\ Receives(w, k, "rearm")
              /\ armed' = armed \cup {k}
              /\ Pool!Finish(w)
              /\ Goes(w, "start")
              /\ UNCHANGED <<ev, fd, batch, inserting, owner, evmap, clients, handled, replies>>

\* The peer's close is seen before its last packets are read.
MutantEventDelEarly(w) == \E k \in Conns :
                            /\ Receives(w, k, "start") /\ peer[k] = "eof"
                            /\ armed' = armed \ {k}
                            /\ Goes(w, "close")
                            /\ UNCHANGED <<queue, ev, fd, batch, inserting, owner, evmap, clients, handled, replies>>

\* eventdel closes the descriptor, too.
MutantEventDelCloses(w) == \E k \in Conns :
                             /\ Receives(w, k, "start")
                             /\ taken[k] >= sent[k] /\ peer[k] = "eof"
                             /\ armed' = armed \ {k}
                             /\ owner' = [owner EXCEPT ![fd[k]] = None]
                             /\ Goes(w, "close")
                             /\ UNCHANGED <<queue, ev, fd, batch, inserting, evmap, clients, handled, replies>>

\* read returned 0 or less: eventdel, close, erase, delete.
EventDel(w) == \E k \in Conns :
                 /\ Receives(w, k, "start")
                 /\ taken[k] >= sent[k] /\ peer[k] = "eof"
                 /\ armed' = armed \ {k}
                 /\ Goes(w, "close")
                 /\ UNCHANGED <<queue, ev, fd, batch, inserting, owner, evmap, clients, handled, replies>>

CloseFd(w) == \E k \in Conns :
                /\ Receives(w, k, "close")
                /\ owner' = [owner EXCEPT ![fd[k]] = None]
                /\ Goes(w, "erase")
                /\ UNCHANGED <<queue, ev, fd, epoll, evmap, clients, handled, replies>>

\* The descriptor is closed a second time with the map entry.
MutantEraseMapCloses(w) == \E k \in Conns :
                             /\ Receives(w, k, "erase")
                             /\ evmap' = [evmap EXCEPT ![fd[k]] = None]
                             /\ owner' = [owner EXCEPT ![fd[k]] = None]
                             /\ Goes(w, "delete")
                             /\ UNCHANGED <<queue, ev, fd, epoll, clients, handled, replies>>

EraseMap(w) == \E k \in Conns :
                 /\ Receives(w, k, "erase")
                 /\ evmap' = [evmap EXCEPT ![fd[k]] = None]
                 /\ Goes(w, "delete")
                 /\ UNCHANGED <<queue, ev, fd, epoll, owner, clients, handled, replies>>

DeleteEvent(w) == \E k \in Conns :
                    /\ Receives(w, k, "delete")
                    /\ ev' = [ev EXCEPT ![k] = "deleted"]
                    /\ Pool!Finish(w)
                    /\ Goes(w, "start")
                    /\ UNCHANGED <<fd, epoll, owner, evmap, clients, handled, replies>>

(* Buffer_Deal: the handler runs, then SendData sends to whatever sockfd     *)
(* denotes by now; it may block there first, however long.                  *)
Handle(w) == /\ Runs(w, "Buffer_Deal") /\ step[w] = "start"
             /\ handled' = handled \cup {<<running[w].from, running[w].packet>>}
             /\ Goes(w, "reply")
             /\ UNCHANGED <<queue, ev, fd, epoll, owner, evmap, clients, replies>>

SendData(w) == /\ Runs(w, "Buffer_Deal") /\ step[w] = "reply"
               /\ LET to == owner[running[w].sockfd]
                  IN  replies' = IF to = None THEN replies
                                 ELSE replies \cup {<<running[w].from, to>>}
               /\ Pool!Finish(w)
               /\ Goes(w, "start")
               /\ UNCHANGED <<ev, fd, epoll, owner, evmap, clients, handled>>
-----------------------------------------------------------------------------
ClientStep == \E k \in Conns : ClientBegins(k) \/ ClientCompletes(k) \/ ClientCloses(k)

HandOver == \E k \in Conns : RecvEvent(k)
EpollStep == \/ \E k \in Conns, f \in Fds : Accept(k, f)
             \/ AcceptInsert
             \/ \E S \in SUBSET Conns : EpollWait(S)
             \/ HandOver

RecvStep(w) == \/ ReadPacket(w) \/ Dispatch(w) \/ Rearm(w)
               \/ EventDel(w) \/ CloseFd(w) \/ EraseMap(w) \/ DeleteEvent(w)
DealStep(w) == Handle(w) \/ SendData(w)
WorkerStep(w) == Take(w) \/ RecvStep(w) \/ DealStep(w)

Next == ClientStep \/ EpollStep \/ \E w \in Workers : WorkerStep(w)

Spec == Init /\ [][Next]_netVars
-----------------------------------------------------------------------------
\* Every variable has its type.
TypeOK ==
  /\ Pool!TaskQueueTypeOK
  /\ step \in [Workers -> {"start", "dispatch", "rearm", "close", "erase", "delete", "reply"}]
  /\ ev \in [Conns -> {"none", "live", "deleted"}]
  /\ fd \in [Conns -> Fds \cup {None}]
  /\ armed \subseteq Conns /\ batch \subseteq Conns /\ inserting \in Conns \cup {None}
  /\ owner \in [Fds -> Conns \cup {None}] /\ evmap \in [Fds -> Conns \cup {None}]
  /\ sent \in [Conns -> 0..MaxPackets] /\ taken \in [Conns -> 0..MaxPackets+1]
  /\ peer \in [Conns -> {"open", "half", "eof", "cut"}]
  /\ handled \subseteq Conns \X (1..MaxPackets+1)
  /\ replies \subseteq Conns \X Conns

(* EPOLLONESHOT lets one thread at a time receive from a connection         *)
(* (block_epoll_net.cpp 131, 147), and no event is ever forgotten or freed  *)
(* while something still points at it: a live event is in exactly one of    *)
(* epoll, the epoll thread's batch, the pool's queue, and a worker's hands; *)
(* an event not yet made, or deleted, is in none.                           *)
Holders(k) == Cardinality({i \in 1..Len(pending) : pending[i] = RecvTask(k)})
                + Cardinality({w \in Workers : running[w] = RecvTask(k)})
                + (IF k \in armed THEN 1 ELSE 0) + (IF k \in batch THEN 1 ELSE 0)
OneHolder == \A k \in Conns : Holders(k) = IF ev[k] = "live" THEN 1 ELSE 0

(* Until its own recv_task has closed it, the descriptor of a live event    *)
(* denotes its connection: recv_task never reads another client's bytes,    *)
(* and never closes another client's descriptor.                            *)
Closed(k) == \E w \in Workers : Receives(w, k, "erase") \/ Receives(w, k, "delete")
DescriptorIsOwn == \A k \in Conns : ev[k] = "live" /\ ~Closed(k) => owner[fd[k]] = k

(* The packets of a connection enter the queue one after the other, each    *)
(* exactly once: the queue holds them in the order sent, and a packet read  *)
(* is handled, in the queue, with a worker, or about to be handed over.     *)
DealOf(t, k, n) == t.fn = "Buffer_Deal" /\ t.from = k /\ t.packet = n
DispatchedOnceInOrder ==
  /\ \A i, j \in 1..Len(pending) :
       (i < j /\ pending[i].fn = "Buffer_Deal" /\ pending[j].fn = "Buffer_Deal"
          /\ pending[i].from = pending[j].from) => pending[i].packet < pending[j].packet
  /\ \A k \in Conns : \A n \in 1..taken[k] :
       Cardinality({i \in 1..Len(pending) : DealOf(pending[i], k, n)})
         + Cardinality({w \in Workers : step[w] = "start" /\ running[w] # None /\ DealOf(running[w], k, n)})
         + Cardinality({w \in Workers : n = taken[k] /\ Receives(w, k, "dispatch")})
         + (IF <<k, n>> \in handled THEN 1 ELSE 0) = 1

(* An answer reaches another client only when the requester's own           *)
(* connection has been closed meanwhile (the descriptor is all that         *)
(* Buffer_Deal keeps of the requester).                                     *)
MisdirectedOnlyAfterClose ==
  \A r \in replies : r[1] # r[2] => ev[r[1]] = "deleted" \/ Closed(r[1])

(* Whose turn it is: somebody still has to do something for connection k,    *)
(* epoll, the epoll thread, the pool or a worker.                            *)
Concerns(t, k) == t = RecvTask(k) \/ (t.fn = "Buffer_Deal" /\ t.from = k)
UnderWay(k) == \/ k \in armed /\ Readable(k)
               \/ k \in batch
               \/ \E i \in 1..Len(pending) : Concerns(pending[i], k)
               \/ \E w \in Workers : running[w] # None /\ Concerns(running[w], k)

(* No packet is forgotten: unless something is under way for a connection,   *)
(* every packet its client has sent in full was handed to the kernel, also   *)
(* when the client closed right after sending it, and whatever other         *)
(* connections do meanwhile.                                                 *)
NoPacketForgotten ==
  \A k \in Conns : ~UnderWay(k) => \A n \in 1..sent[k] : <<k, n>> \in handled

(* No closed connection is forgotten: unless something is under way for it,  *)
(* its event has been deleted and the descriptor it had is not its own.      *)
NoCloseForgotten ==
  \A k \in Conns : ~UnderWay(k) /\ peer[k] \in {"eof", "cut"}
                     => ev[k] = "deleted" /\ \A f \in Fds : owner[f] # k /\ evmap[f] # k
===============================================================================
