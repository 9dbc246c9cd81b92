# Network_disk_server: TLA+ models, model checking and proofs

The program is the server of a network disk. Clients speak a binary protocol
over TCP; an epoll thread and a thread pool receive and handle the packets;
handlers keep files on disk and their catalogue in MySQL; a separate daemon
copies finished files to a distributed file system. This directory holds TLA+
models of the server and the daemon, the TLC runs that check them, and TLAPS
proofs about the thread pool, the network layer, the upload, the catalogue of files,
the folders and the download. `PROJECT.json` lists, machine-readably, the components, runs, mutants,
hazards, findings, theorems, and for every definition the lines it stands for.

    tlc -workers 2 -config pool.cfg MCThreadPool.tla     # one run
    tlapm PoolRefinement.tla                             # the proofs of one module

## 1. Inventory

| Component | State | Operations | Talks to |
|---|---|---|---|
| Thread pool (`src/Thread_pool.cpp`) | ring `queue_task`, `queue_cur/front/rear`, `thread_alive/busy/wait`, `tids`, conditions `not_full`, `not_empty` | `Pool_create`, `Producer_add`, `Custom` (worker), `Manager` | called by the epoll thread and, from inside a task, by its own workers |
| Network layer (`src/block_epoll_net.cpp`, `include/block_epoll_net.h`) | epoll set, one `myevent_s` per connection, `m_mapSockfdToEvent` | `accept_event`, `recv_event`, `recv_task`, `Buffer_Deal`, `SendData` | pool (tasks), kernel (callback), operating system (descriptors) |
| Kernel (`src/TCPKernel.cpp`, `main.cpp`) | table of handlers | `Open`, `DealData`, `EventLoop` | network layer, logic |
| Upload (`src/clogic.cpp` 167-336, 866-921) | `m_UidTimeToFileinfo` (FileInfo: descriptor, `pos`), file on disk, `t_file`, `t_user_file`, `transfer_list.txt` | `HandleUpFileRq`, `FileContentRq`, `ContinueUploadRq` | database, disk, transfer task, client |
| Catalogue (`clogic.cpp` 174-209, 709-795, 1035-1105) | `t_file`, `t_user_file`, files on disk | quick upload, `ShareItem`, `GetShareRq`, `DeleteFileRq` | database, disk |
| Download (`clogic.cpp` 396-551, 798-864, 923-1033) | `m_UidTimeToFileinfo` | `DownloadFileRq`, `DownloadFolderRq`, `FileHeaderRs`, `FileContentRs`, `ContinueDownloadRq` | database, disk, `FileTransfer.cpp`, client |
| Folders (`clogic.cpp` 553-658, 709-795, 1035-1185) | the tree in `f_dir`, share links, directories on disk | `AddFolderRq`, `ShareFileRq`, `GetShareRq`/`GetShareByFolder`, `DeleteFileRq`/`DeleteFolder` | database, disk |
| Accounts (`clogic.cpp` 50-165) | `t_user` | `RegisterRq`, `LoginRq` | database |
| Lists (`clogic.cpp` 338-394, 660-707) | none | `GetFileInfoRq`, `MyShareRq` (read only) | database |
| Database access (`src/Mysql.cpp`) | one connection, one mutex | `SelectMysql`, `UpdataMysql` | MySQL (external) |
| Transfer task and writers (`include/Transfer/`) | pending names | `add`, `execute`, `write` | `transfer_list.txt` |
| Transfer daemon (`transferServer/tranServer.cc`) | `uploaded_` | `scanAndUpload` every ten seconds, `uploadFile` | `transfer_list.txt`, distributed file system (external) |
| Client of the distributed file system (`src/FileTransfer.cpp`) | a socket that is never connected | `downloadFile` | distributed file system (external) |

What is hard in this code: `recv_task` runs on a worker and adds a task to the
very queue the workers empty; the pool shrinks while tasks are being handed over;
packets of one connection are read by one worker and handled by others, two at a
time; a queued packet names its connection by a descriptor the operating system
reuses; the position of an upload or a download lives in an object shared without
a lock, which one handler deletes while others may hold it; every change of the
catalogue is several SQL statements without a transaction; recursions over folders
go on with lists they selected earlier, while others change the tree; a download is
driven by the client's answers, and several tasks of one user share one map; the
process may die between any two statements; the daemon remembers what it has dealt
with only in memory, and remembers more than it has done. `PROJECT.json` "hazards"
lists these places at their lines, with the properties that watch them or the
reason none does.

What makes each component correct: the pool is a bounded FIFO queue whose tasks
are all served, and its counters tell the truth; a connection has one receiver at
a time, its packets are handled once and each, and its descriptor is never touched
once it is somebody else's; a file marked finished is whole, what a client was
told is stored is stored, and an interrupted upload arrives in the end, in the
distributed file system too; a downloading client writes a beginning of the file it
asked for, and in the end the whole; whoever has a file in the list has its bytes,
and a file nobody has is removed; a walk over a folder visits all of it and nothing
else, ends, and leaves nothing that no list shows.

## 2. Modules

    TaskQueue            what the pool promises: a bounded FIFO queue
      ^ implemented by ThreadPool     (MCThreadPool, ThreadPoolProofs, PoolRefinement)
      ^ used by        EpollNet       (MCEpollNet, EpollNetProofs)
    Upload                              (MCUpload, UploadProofs)
      ^ extended by    Transfer       (MCTransfer)
    Catalog                             (MCCatalog, CatalogProofs)
    Download                            (MCDownload, DownloadProofs, DownloadEndProofs)
    Folders                             (MCFolders, FoldersProofs)

**ThreadPool.** One critical section under `lock` is one step; what runs between two
critical sections is a step of its own. Waiting on a condition variable is a value
of `pc` ("idle", "full"); `Signal` moves at most one waiter to the loop that tests
the condition again; waiters may also wake without a signal (`SpuriousWake`). The
epoll thread is thread 0, the workers are the slots of `tids`. `job` is the task a
thread holds, and `ToAdd` the task it hands over: the reception of a connection, or
the handling of the packet a reception has just read. A reception reads from a
blocking socket (`RecvPacket`, `RecvClosed`): it may stay in its read, and nothing is assumed that
brings it back. The manager takes its
snapshot in one step (`ManagerCheck`) and acts on it later, one created thread or
one signal per step; `pthread_create` may fail, which the code does not notice
(`failed` counts this). `if_thread_alive` is modelled as written: `pthread_kill`
returns the error number, never -1. `thread_shutdown` is set at the start and
never cleared anywhere, so the tests of it are absent. A connection that was
closed may be made anew.

**EpollNet** is built on the queue `TaskQueue`, which ThreadPool implements. The epoll
thread arms an event and enters it in the map in two steps; one-shot events are
returned in batches; `recv_task` is read, dispatch, arm, or, when the peer has gone,
`eventdel`, `close`, `erase`, `delete`, each a step; `Buffer_Deal` is the handler and
then the answer. A connection is one accept and its `myevent_s`; descriptors are
few, so that they are reused. The sockets block: a client may have sent half a packet and
leave its connection open (`peer` is "half"), and the worker that reads it stays in its
read until the client goes on or closes; an answer (`SendData`) may never leave, as long as the
client does not read and the buffer is full. A packet cut short by a close is handed over
like a whole one, as the code does.

**Upload** has one step per access to shared state: map, disk, each SQL statement,
the load and the store of `info->pos += len`, the list entry, the answer. The
content is a sequence of units, unit i being i, so that a hole (0), a wrong block
and a block at the wrong place are told apart. The client is external: it sends a
block, waits for its answer and goes on from the position it is told; after a lost
connection it asks to continue (`packdef.h` 629-631). An `open` or a `write` may fail, after
which the handler returns and the client is not answered. `Crash` clears memory and
keeps disk and tables.

**Transfer** extends Upload by what comes before and after: a file nobody is sending
may be deleted (`Delete`, in one step; its steps are Catalog's subject), and the
daemon reads the list (`DaemonOpens`, `DaemonMisses`), sends what it read
(`DaemonSent`), and loses `uploaded_` when it is restarted. The size and the bytes of a
file are read at one moment, which is when the model decides whether the whole or
a part of the right file goes out. A file it cannot open is remembered as
uploaded, as in the code.

**Catalog** has one step per SQL statement, open and unlink; a deletion is
`DeleteRelation`, `LookForOthers`, `DeleteRow`, `Unlink`. A quick upload, a share and an upload end
with the insert of the relation (`Relate`, `RelateUpload`), which may come long after they
selected the file. Whether a file's content has arrived is one step here (`Finish`), which
looks at nothing else; Upload has the details.

**Download** has one client with several tasks, keyed by timestamp as in
`m_UidTimeToFileinfo`: a file, or a folder whose walk makes a session per file and
counts timestamps on. Each folder of a walk is selected, has its header sent, and has its children
selected, in three steps (`SelectFolder`, which also returns when the folder is gone, `SendFolder`,
`SelectChildren`); the rows come in any order. The server sends a header, then a block for
every answer; `FileContentRs` is `Find`, `Load`, `Store`, `Seek`, `Read`, and at the end
`Erase`. The client answers at once or refuses a block; what takes long is the way of the answer
(`inbox`). The faults are a file still being received, a lost connection, a crash, a
refused block, a deletion: one budget, `MaxFaults`, of any kinds. A path that is gone may be
made anew by another upload (`MakeAnew`), so the open after a fetch (`FetchReturns`) may
succeed; the model lets that happen only while no session has the old file open.

**Folders** has one step per SQL statement of the recursions. What a recursion has
still to visit, from lists selected before, is the stack `todo` of its handler; an
entry is user, directory path and file or folder, and paths are sequences of names.
`goal` records what there is, or is to be, when a walk begins: only properties read it.

Definitions named `Mutant...` are no part of any specification. Each is a plausible
mistake in the definition that follows it (a dropped guard, a forgotten reset, a
swapped order), and each property is shown to fail when its mutant takes the place
of that definition.

## 3. Runs

| Run | Bounds | States | Result |
|---|---|---|---|
| `pool` | 1 to 3 workers, queue of 2, shrink by 2, 2 connections, 1 failed creation | 645,526 | all hold |
| `pool_fixed` | 2 workers, queue of 1, 3 connections | 20,176 | all hold, with fairness |
| `pool_wakeup` | 1 to 2 workers, queue of 4, shrink by 1, 1 connection | | `QueuedRecvTaken` fails |
| `pool_slots` | 1 to 2 workers, queue of 2, 2 connections | | `EndedSlotsReused` fails |
| `net` | 2 connections, 2 descriptors, 2 workers, queue of 2, 2 packets each and one cut short | 148,714 | all hold |
| `upload` | 2 uploads of a 3-unit file in blocks of 2, 2 workers, a lost connection, a crash, a short write, a failed write or open, a deletion, a restart of the daemon | 174,066 | all hold, with fairness |
| `upload_race` | 1 upload, 2 workers, 1 lost connection, a client that does not wait | | `FinishedIsWhole` fails |
| `upload_answer` | 1 upload, 1 lost connection | | `ContinueAnswered` fails |
| `catalog` | 2 users, 2 rows, 2 workers | 52,795 | all hold, with fairness |
| `catalog_unlink` | the same, deletions overlap with additions | | `ReferencedOnDisk` fails |
| `download` | a folder with a file of 3 units and a folder with an empty file, and the empty file alone; blocks of 2, 2 workers, one fault of any kind | 611,733 | all hold, with fairness |
| `folders` | 2 users with the same tree of two folders and one file, one taken over from the other; 1 link, 3 requests of up to 2 items, depth 3, 2 workers | 130,056 | all hold, with fairness |

Beside the runs there are configurations that show what an assumption is needed for, or widen a
bound. The first five end with a counterexample, the last passes:

| Configuration | Module | Bounds | Result |
|---|---|---|---|
| `pool_deadlock.cfg` | `MCThreadPool` | 1 to 2 workers, queue of 1, 3 connections | `SomeWorkerUnblocked` fails |
| `upload_overlap.cfg` | `MCUpload` | 2 uploads at the same time, 2 workers, no fault | `FinishedIsWhole` fails |
| `download_keys.cfg` | `MCDownload` | as `download`, the second request two timestamps after the first, no fault | `SessionKept` fails |
| `download_race.cfg` | `MCDownload` | the file of 3 units alone, 2 workers, one fault, a client that does not wait | `ReceivedInOrder` fails |
| `folders_link.cfg` | `MCFolders` | as `folders`, 2 links to draw, 2 requests of 1 item | `LinkIsOneUsers` fails |
| `folders_draws.cfg` | `MCFolders` | the same with 3 requests (145,595 states) | `OneUsersUnlessDrawnTwice` holds |

Why these bounds are enough to be interesting. In `pool` the queue (2) is smaller than
the number of producers, so both conditions have waiters; the manager asks for two
leavers while at most two may go, and asks again before they have gone; after a
failed creation it steers by a wrong count. In `pool_fixed` there are more connections than
workers and one cell, so producers wait inside the workers too. In `net` one worker can clean up while
the other handles an old packet, and the descriptor is accepted anew in between; the
packets of the connections exceed the queue, and both workers may hang in a read or a send at
once. In `upload` a file is one
full block and one partial one, so a crash and a lost connection can fall before,
between and after blocks, and a short write can leave one unit of two; the second
upload can follow the deletion of what the first one stored, with its line still in
the list. In `catalog` two users are both the last ones. In `download` the walk and a
request of its own meet on one file, and files end within, at, and without any block. In
`folders` the two trees share a file and one the rows of the other, so deletions meet
over both, and a share is taken over while its owner deletes elsewhere. That no more
users, files, faults or depth change the safety properties is what the proofs say.

The runs that pass make assumptions about the environment. Most of them are a point where the
code breaks, and a run or a configuration beside them shows it.

* A client continues an upload or a download only when the server is through with its
  last request (`Patient`). Otherwise `FinishedIsWhole` (`upload_race`) and `ReceivedInOrder`
  (`download_race`) fail. With `Patient` no two handlers of one upload or one download are
  there together, so the passing runs say nothing of a handler that uses a FileInfo another one has
  deleted; that is part of the same race.
* An upload does not begin while another of the same file is under way (Upload's
  `Overlap = FALSE`). Otherwise its `O_TRUNC` empties the file under the first (`upload_overlap`).
* Deletions do not overlap with handlers that add a relation (Catalog's `Overlap = FALSE`;
  `catalog_unlink`), nor does anybody change a tree that is being copied (Folders'
  `Overlap = FALSE`). Two requests to share may draw the same number while both are under way in every run of Folders;
  `OneUsersUnlessDrawnTwice` says that nothing else gives two users one link, `folders_link` shows that this does.
* Nobody takes over a share of its own so that a copy of any part of it lands in the
  folder shared (`SelfShare = FALSE`): the recursive copy would meet the entries it has
  just made and go on for ever. A share taken over upwards can do this too, when folders
  of one name lie in each other.
* Requests for downloads have timestamps further apart than a walk takes (`WalksFit`: a
  number `Room` for what is left of a walk, which falls with every row). Otherwise a
  folder's walk replaces the session of another task (`download_keys`).
* No upload makes a path anew while a download still has the old file open (`MakeAnew`): the
  client would be sent another file's bytes, or the same file while it is received.
* The distributed file system takes what it is sent, and SQL statements succeed.

### Fairness

Liveness is checked under weak fairness of the program's own threads, and of clients
that are in the middle of something. In `ThreadPool` a thread that wants the mutex gets it
(critical sections are short and hold nothing else), and the manager goes on; a task is never
assumed to end, since it may hang on its socket, and `QueuedRecvTaken` excuses the workers that do, and
the state in which all of them want room in the queue. EpollNet
assumes no fairness at all: the blocking reads and sends justify none for the workers, so what it says
of packets and of closed connections is said as safety, that nothing is forgotten: whatever
is not done yet is with epoll, in the queue or with a worker.

In the modules above a handler that has
begun goes on, a client that has begun an upload or a download sends its next
block or continues, and the daemon scans again and again. Two things in this are assumptions and no
consequence of the code: that a worker takes up a queued request in the end (`Deal`), which the
pool of 10 to 200 workers does not promise (`pool_wakeup`), and which is the case while there are
workers enough for all that is queued; and that the answers can be sent. A worker in the fetch of `DownloadFileRq` is not
assumed to come back: the socket it reads from was never connected. Nothing is
assumed of accepts, closes, spurious wakeups, failures, losses, crashes and
restarts, nor that users begin anything, an upload or a download either. Deadlock is checked in the pool runs; the
others switch the check off, because clients may close for good and users may stop.

The liveness properties say what they do not promise. `UploadArrives` excuses a write
or an open that failed (the client gets no answer and waits), `FinishedTransferred` a crash before the
list entry and a path the daemon already remembers, `DownloadArrives` a file that was
deleted and one whose download caught up with its upload: the server falls silent on both.

### What the counterexamples show

* `pool_wakeup`: Producer_add signals one worker. If that worker finds
  `thread_wait > 0` (line 130), it leaves without taking the task and without passing
  the signal on, while another worker sleeps. The task, and with it the connection,
  which is out of epoll, waits until something else calls `Producer_add`.
  `WakeupsLostOnlyByLeaving` says that this is the only way: a pool that does not shrink loses
  none (`pool_fixed`).
* `pool_deadlock`: `recv_task` runs on a worker and adds to the queue the workers empty. When the
  queue is full and every worker of a pool that can grow no more has come to its own `Producer_add`,
  nobody is left to take a task. Each of these workers is there for a connection of its own, so there have to be as many
  connections as workers, and as many tasks besides as the queue holds: with the server's 200 workers and
  50,000 cells it takes a burst of packets that are handled more slowly than they come.
* `pool_slots`: a worker that has left keeps its slot for ever, since `if_thread_alive`
  (line 44) expects -1 from `pthread_kill`. After enough shrinks the pool cannot grow.
* `upload_race`: a client loses its connection while its block is between `write` and
  `info->pos += len` and asks to continue; `ContinueUploadRq` sets `pos` to the end of
  the file and the first handler adds the block again. The file is marked finished
  before its last block is there, and every later upload with this MD5 is answered
  from it.
* `upload_overlap`: an upload is not finished, so the `select` of a second upload of the same file
  (line 181) does not see it; its `open` truncates the file. The first one's descriptor stays where it was and writes behind a
  hole, and its last block marks the file finished.
* `upload_answer`: when only the answer to the last block is lost, the request to
  continue finds no row with `f_state = 0` and gets no reply, against `packdef.h` 630.
* `catalog_unlink`: a quick upload between `select` (1095) and `delete`, `unlink`
  (1101-1103) is told it succeeded and refers to nothing.
* `download_keys`: a walk counts its timestamps on into those of a download of its own and puts its
  session in the other's place, against `packdef.h` 331. The first session is never
  closed, and its answers are counted in another file.
* `download_race`: the continuation sets the descriptor to where the client is, and the handler that
  still has the client's last answer from its old connection reads from there before the
  continuation does: the client is sent the block after the one it asked for.
* `folders_link`: two users draw one number, both find it free (line 636), and both use it.

## 4. Proofs

What the runs check on small instances, these theorems state for every value of the
constants. They rest on the `ASSUME`s of the modules (sizes and bounds are naturals, the
values that mean "none" are not among the others), which TLC evaluates in every run.

| Module | Theorem | States | Beyond the modules' assumptions |
|---|---|---|---|
| `ThreadPoolProofs` | `InvAlways` | the inductive invariant | |
| | `TypeCorrect`, `CountersCorrect`, `RingCorrect`, `MinimumKept` | `TypeOK`, `CountersExact`, `RingIntact`, `KeepsMinimum` | |
| | `OneReceiverAlways` | `OneReceiver` | |
| | `WakeupsLostByLeaving`, `RoomNeverMissed` | `WakeupsLostOnlyByLeaving`, `NoRoomMissed` | |
| `PoolRefinement` | `PoolIsAQueue` | `ImplementsQueue` | |
| `EpollNetProofs` | `InvAlways` | the inductive invariant | |
| | `TypeCorrect`, `OneHolderAlways`, `DescriptorIsOwnAlways` | `TypeOK`, `OneHolder`, `DescriptorIsOwn` | |
| | `MisdirectedAlways`, `DispatchedAlways` | `MisdirectedOnlyAfterClose`, `DispatchedOnceInOrder` | |
| | `NoPacketForgottenAlways`, `NoCloseForgottenAlways` | `NoPacketForgotten`, `NoCloseForgotten` | |
| `CatalogProofs` | `TypeCorrect` | `TypeOK` | |
| | `ReferencedAlways` | `ReferencedOnDisk` | `~Overlap` |
| `UploadProofs` | `InvAlways` | the inductive invariant | `Patient`, `~Overlap` |
| | `TypeCorrect`, `FinishedIsWholeAlways`, `DiskIsPrefixAlways` | `TypeOK`, `FinishedIsWhole`, `DiskIsPrefix` | the same |
| | `AckedIsStoredAlways`, `ListedOnceFinishedAlways` | `AckedIsStored`, `ListedOnceFinished` | the same |
| `FoldersProofs` | `TypeCorrect` | `TypeOK` | |
| | `LinksOfOneUser` | `OneUsersUnlessDrawnTwice` | |
| | `StateAlways` | the inductive invariant | `~Overlap` |
| | `NoneOrphaned`, `FilesKeptWhileReferenced` | `NoOrphans`, `FilesMatchEntries` | `~Overlap` |
| | `WalksAreExact` | `WalkExact` | `~Overlap`, `~SelfShare` |
| `DownloadProofs` | `AlwaysInOrder` | the inductive invariant | `Patient`, `WalksFit(Room)` |
| | `TypeCorrect`, `AlwaysReceivedInOrder` | `TypeOK`, `ReceivedInOrder` | the same |
| `DownloadEndProofs` | `AlwaysEnds` | the inductive invariant | the same |
| | `SessionsAreClosed`, `AllOfItArrives` | `SessionsClosed`, `AllOfItArrived` | the same |

**The pool.** The invariant is `TypeOK /\ JobsFit /\ RingIntact /\ CountersExact`. None of its
parts is inductive alone: that `thread_busy` stays a natural when a task is done needs
`CountersExact` (a worker that is done is counted busy); that a worker which takes a
task takes one, and not an unused cell, needs `RingIntact`; that what a worker hands
over is the packet of a reception needs `JobsFit`. The creation loop's slot is shown
never to have been used (`PicksUnusedSlot`), which is what makes `CountersExact` survive
a creation. `KeepsMinimum` follows from `CountersExact` and from
`thread_alive >= ThreadMin`, which the guard of `Leave` keeps. `OneReceiver` counts
holders; what is proved to be inductive says instead where the one `recv_task` of a
connection is, in one thread's hands or in one cell of the ring, and the count follows.
For the wakeups the invariant is a count: while a worker sleeps, there are at least as many awake workers
about to test the queue as there are queued tasks. Every step but one keeps it, an `Add` because
its signal wakes a sleeper when there is one; the one that does not is a worker that
leaves (`WakeupsLostByLeaving`), and `pool_wakeup` shows that this happens. On the other
condition, `not_full`, nothing is lost at all (`RoomNeverMissed`): a producer never leaves
on its signal. `PoolIsAQueue` maps the ring,
read from `queue_rear`, to the sequence `pending` and `job` of the workers to `running`:
`Add` is a `Submit`, `TakeTask` a `Take`, the end of a task a `Finish`, every other step a
stutter. This is why EpollNet may use the queue in the pool's place.

**The network layer.** The invariant says that an event is in one place (`Alone`), which step
goes with which task (`StepFits`), that no more is read than was sent, a packet cut short
apart (`ConnFits`), and that the descriptor in a task is the one its connection was
accepted with (`NamesFit`). A worker that is
between its read and its clean-up is the only one with this event; so its connection
keeps its descriptor until it closes it, and no `accept` can have given the descriptor to
another before. An answer goes astray only when the connection of the request is closed
while the handler works: `closed` is never taken back. That nothing is forgotten adds what is over for
good (`ServedInv`): a connection that is being dropped has been read to its end, and its
descriptor and its entry in the map go in the order of lines 192-198. What was read is somewhere by
`DispatchedOnceInOrder`, and what was not is seen by epoll, which has the event whenever
nobody else has.

**The catalogue.** `ReferencedOnDisk` needs to know what every handler under way has
established: an adding handler keeps its file in use (`InUse`), or has found a row it may refer to
(`Linkable`), the row an upload finds by
path is the smallest `f_id` there (`FirstOfPath`, by well-founded induction on the
naturals), deletions and additions are never under way together (`Separate`, which is
what `~Overlap` says), and a handler that is about to remove a row or a file is right that nobody has
it (`HandlerFine`): deletions only ever take relations away. Without `~Overlap` it is false
(`catalog_unlink`).

**The upload.** One request is under way at a time (`Serial`, `OneAtATime`), which clients
that wait make true; then the invariant is a proof outline of the handlers.
`StageFits` relates, at each step of a handler, `pos`, the offset of the descriptor, the
length of the file, the rows and the request: at `store` the offset is already behind
the block and `pos` still before it; at `setpos` the offset is the end of the file, which
is where the client will go on. `RequestFits` and `ClientFits` say the same of requests in
transit and of clients that wait, have lost their connection, or are through. `RowsFit` says
that a row which is linked or finished is the first of its path that has not been removed,
so the `select` of a handler finds the row its client means. With these,
`FinishedIsWhole`, `DiskIsPrefix` and `AckedIsStored` are preserved together, and none of
them alone. The list needs one part more (`ListFits`): there are at most as many lines as
rows were removed, and one more only when the file is finished and no handler is still
before its entry. Without `Patient` the theorem is false (`upload_race`), and without
`~Overlap` too (`upload_overlap`): what is proved is that crashes, lost connections and failed
writes alone do no harm.

**The folders.** Without `Overlap` the tree grows or falls, never both at once: that is the
first part of `State`. Where it grows, an addition under way has its parent still to see
(`AddReady`, `TakeReady`). Where it falls, `Gone` says what a deletion has already taken out,
`Reachable` that an entry whose folder is gone is one that some deletion has still to
come to, and `Leftover` that a file nobody has loses its row and its bytes at the hands of
a handler that has got that far. When nobody is at work these two are `NoOrphans` and
`FilesMatchEntries`. Links need neither assumption: `LinkState` says of a share under way that
the relations which have its number are its own user's, and only a share with the same number, drawn by another user
before this one was through, can end that (`LinksOfOneUser`; `folders_link` shows that case).
`WalkExact` is about trees of any depth, and is proved without induction on paths. A
deletion's goal is at every step covered by what it has still to visit (`Covered`): each
entry left of it lies at or under an entry of its list, or of another deletion of this
user. A take-over's goal is at every step complete (`TakeState`): each entry of it is there
already, or is the image of an entry under something on its list. `SelfShare = FALSE` is what
keeps the copies apart from the tree they are made from.

**The download.** `Apart` is what the client owes: it waits for its last request to be through
(`Patient`), and the walks have room (`WalksFit`). Then there is one activity at a time for each
timestamp (`Single`: one request, one handler, or a walk that is about to select a folder, send its header
or select what is in it), and what belongs to it is in step: `KeyGood` relates the task of the client to
the session and its FileInfo (`pos` and `offset` stand where the client's file ends, or the
session has gone with the server), `ReqGood` a request on its way, and `HandGood` each step of
a handler: at `store` the client has the block that `pos` does not count yet, after a refused
block the offset is set back first. A walk has a range of timestamps before it that is
`Untouched`: no task, no session, no request in it. `ReceivedInOrder` is read off this.

**How downloads end.** `EndsAsAsked` is eight parts, preserved one after the other. A session
that is still open when its client has the whole file has its last answer on the way to
`Erase` (`Closing`, `Finishing`); this gives `SessionsClosed`. Who waits has a request under
way, as long as no connection, server, file or answer was lost (`Lively`, which rests on
`Connected` and `Untroubled`). For folders (`Walked`) there is a set `D` of folders walked, and
what is in one of them is in `D`, or left in a walk or a request (`Left`), or a file the client
has a task of (`Had`). When nothing is under way nothing is left; so `D` with the files had is
closed under `Children` and holds all of `FilesIn`, which is the least such set: the depth of
the folders never enters.

What the attempts to prove these taught the models: a shared folder taken over upwards
meets its own copy when folders of one name lie in each other, which the guard of
`GetShare` did not exclude at first; the room a walk takes depends on the order of the
rows, which `Children` once fixed; and a walk that had sent a header still named the
FileInfo of that file at the next timestamp, where `TypeOK` read it: `SendHeader` now
forgets it.

Only model-checked are `SessionKept` and `NoLostWakeup`, which hold because of what their runs leave
out (`WalksFit`; a pool that does not shrink) and which stand beside the runs where they fail, and all
liveness (`QueuedRecvTaken`, `UploadArrives`, `FinishedTransferred`, `UnreferencedCollected`,
`DownloadArrives`, `WalksEnd`), since TLAPS has no rules for fairness and ENABLED that the
installed provers can use. Every other property of a passing run is proved. The
proofs take about three quarters of an hour on four cores, most of it for the two modules
of Download (14 and 8 minutes), `UploadProofs` and `FoldersProofs`. Leaves that need Zenon, or
SMT for longer, say so.

## 5. Not modelled

* Bytes: packet layouts, a packet length that makes no sense, an answer that `send`
  accepts only in part, two answers interleaved by two workers on one connection, a
  signal on a write to a closed connection. That a read or a send may never return is
  modelled in EpollNet and ThreadPool; in the modules of the handlers an answer is sent in one step.
* Failing SQL statements, and the schema (triggers, foreign keys, keys, indexes) outside
  what the handlers rely on: it is not in the repository.
* The memory of a deleted event or FileInfo, and its reuse. A write or read through a deleted FileInfo
  fails in the models.
* Accounts: `RegisterRq` selects before it inserts; whether two registrations of one number
  both succeed is decided by the keys of `t_user`, which are not in the repository.
* `GetFileInfoRq` and `MyShareRq` only read one view and format it. `GetShareRq` answers an
  unknown link twice (747-751): answers to it are not told apart.
* What the distributed file system answers: the daemon does not look at it.
* `MQWriter` and `NoOpWriter`, the daemon's `downloadFile` and `deleteFile`, and the server's
  `uploadFile` and `deleteFile` of `FileTransfer.cpp`: nothing calls them.
* Start-up: a straight line from `Open` to `EventLoop`, which never returns.

The map `m_mapSockfdToEvent` is written and never read by the code; `NoCloseForgotten` says that
no entry of a connection that is cleaned up stays in it.

## 6. Plan

Done, in this order: TaskQueue, ThreadPool and its runs; ThreadPoolProofs;
PoolRefinement; EpollNet; Upload; Catalog; EpollNetProofs; CatalogProofs; Download;
Transfer; Folders; UploadProofs; FoldersProofs; DownloadProofs; DownloadEndProofs; the
runs beside each assumption of the environment, and what the pool and the network layer promise with
sockets that block.

Left, most important first:

1. The daemon: that what it opens while the file is finished and nobody sends it anew goes
   out whole, the step that `FinishedTransferred` rests on, from the invariant of UploadProofs.
2. What holds without an assumption, as theorems about single steps: which conjunct of an
   invariant a step with `Overlap`, or of an impatient client, can break, and that no other step can.
3. Accounts, and what failing statements do, once the schema is known.
