------------------------------- MODULE Download -------------------------------
(****************************************************************************)
(* The download of files and folders, src/src/clogic.cpp: DownloadFileRq,   *)
(* DownloadFolderRq with its recursive walk, FileHeaderRs, FileContentRs    *)
(* and ContinueDownloadRq, run by the workers of the pool over the map of   *)
(* sessions and their descriptors; one client with several tasks on one     *)
(* connection, which may be lost and made anew; and a server that crashes   *)
(* and is started again.                                                    *)
(*                                                                          *)
(* The server sends a block, the client answers it, and the answer makes    *)
(* the server send the next one.  A file is a sequence of units: unit i of  *)
(* the right content is i, and 0 one of another file.  The client is        *)
(* external, and answers at once: what takes long is the answer's way.      *)
(****************************************************************************)
EXTENDS Integers, SequencesExt

CONSTANTS Files, FileSize,      \* the files, and t_file.f_size of each
          Children,             \* the folders: what is in each
          Wanted,               \* timestamps of the client's requests: the file or folder it asks for
          Keys,                 \* all timestamps: keys of m_UidTimeToFileinfo (for one user)
          Incomplete,           \* files that may still be being received
          Workers,
          Block,                \* units in one block
          Patient,              \* TRUE: a client continues only when the server has finished its last request
          MaxFaults,            \* bound: files still being received, connections lost, crashes, blocks the
                                \* client could not write, and deletions, taken together
          None                  \* no session, no request, no file

Folders == DOMAIN Children
Items == Files \cup Folders
Requests == [op : {"file", "folder", "header", "content", "continue"}, key : Keys, file : Items, n : Nat,
             ok : BOOLEAN, conn : Nat]

ASSUME DownloadAssumption ==
  /\ FileSize \in [Files -> Nat] /\ Incomplete \subseteq Files /\ IsFiniteSet(Incomplete)
  /\ Files \cap Folders = {} /\ \A d \in Folders : Children[d] \subseteq Items /\ IsFiniteSet(Children[d])
  /\ Wanted \in [DOMAIN Wanted -> Items] /\ DOMAIN Wanted \subseteq Keys /\ Keys \subseteq Nat
  /\ Block \in Nat \ {0} /\ Patient \in BOOLEAN
  /\ MaxFaults \in Nat
  /\ None \notin Nat \cup Items \cup Requests

VARIABLES
  listed,    \* the files and folders the view user_file_info shows
  there,     \* the files that have a path on disk
  stored,    \* the units of each file that have been received
  sessions,  \* m_UidTimeToFileinfo
  infos,     \* per timestamp, the FileInfo objects made for it: file, pos, offset of filefd,
             \* whether filefd is -1, whether deleted
  inbox,     \* requests received and not yet taken up by a worker
  handler,   \* per worker: where its handler is, its request, info, block, rest of the walk, timestamp
  task,      \* per timestamp: what the client waits for, the file, and what it has got of it
  conn,      \* the client's connection
  spent      \* the faults there have been, of each kind; starved: answers that met the end of a
             \* file still being received, on which the server falls silent

catalogue == <<listed, there, stored>>
memory == <<sessions, infos>>
downloadVars == <<catalogue, memory, inbox, handler, task, conn, spent>>

Idle == [pc |-> "idle", rq |-> None, info |-> 0, pos |-> 0, block |-> <<0, 0>>, todo |-> <<>>, key |-> 0]
NoTask == [pc |-> "none", file |-> None, got |-> <<>>]
NewTask(f) == [pc |-> "waiting", file |-> f, got |-> <<>>]
NewInfo(f) == [file |-> f, pos |-> 0, offset |-> 0, bad |-> FALSE, freed |-> FALSE]

Init == /\ listed = Items /\ there = Files
        /\ sessions = [k \in Keys |-> None] /\ infos = [k \in Keys |-> <<>>]
        /\ inbox = {} /\ handler = [w \in Workers |-> Idle]
        /\ task = [k \in Keys |-> NoTask] /\ conn = 0
        /\ \E late \in SUBSET Incomplete :
             /\ Cardinality(late) <= MaxFaults
             /\ stored \in {s \in [Files -> UNION {0..FileSize[f] : f \in Files}] :
                             \A f \in Files : IF f \in late THEN s[f] < FileSize[f] ELSE s[f] = FileSize[f]}
             /\ spent = [late |-> Cardinality(late), lost |-> 0, crash |-> 0, refused |-> 0, removed |-> 0,
                         starved |-> 0]

Faults == spent.late + spent.lost + spent.crash + spent.refused + spent.removed
Spend(what) == Faults < MaxFaults /\ spent' = [spent EXCEPT ![what] = @ + 1]
-----------------------------------------------------------------------------
(* Others: an upload of a file goes on, files and folders are deleted, and  *)
(* what was deleted is uploaded anew.                                       *)

Receive(f) == /\ stored[f] < FileSize[f]
              /\ stored' = [stored EXCEPT ![f] = @ + 1]
              /\ UNCHANGED <<listed, there, memory, inbox, handler, task, conn, spent>>

\* A deletion: the item leaves the view first, its path goes afterwards; who has it open can still read it.
Delete(x) == /\ x \in listed
             /\ Spend("removed")
             /\ listed' = listed \ {x}
             /\ UNCHANGED <<there, stored, memory, inbox, handler, task, conn>>

Unlink(f) == /\ f \in there \ listed
             /\ there' = there \ {f}
             /\ UNCHANGED <<listed, stored, memory, inbox, handler, task, conn, spent>>

\* A path that is gone under a file still in the view: what catalog_unlink shows of module Catalog.
Vanish(f) == /\ f \in listed \cap there
             /\ Spend("removed")
             /\ there' = there \ {f}
             /\ UNCHANGED <<listed, stored, memory, inbox, handler, task, conn>>

\* Another upload makes the path anew, empty; only where nobody reads the old file any more.
MakeAnew(f) == /\ f \in Files \ there
               /\ \A k \in Keys : \A i \in DOMAIN infos[k] :
                    infos[k][i].file = f => infos[k][i].freed \/ infos[k][i].bad
               /\ there' = there \cup {f}
               /\ stored' = [stored EXCEPT ![f] = 0]
               /\ UNCHANGED <<listed, memory, inbox, handler, task, conn, spent>>
-----------------------------------------------------------------------------
(* The client.                                                              *)

Request(op, k, file, n, ok) == [op |-> op, key |-> k, file |-> file, n |-> n, ok |-> ok, conn |-> conn]

Serving(k) == \/ \E r \in inbox : r.key = k
              \/ \E w \in Workers : handler[w].rq # None /\ handler[w].rq.key = k

\* A file is asked for by a task; the headers of a folder's files make tasks as they come.
ClientAsks(k) == /\ task[k] = NoTask
                 /\ LET op == IF Wanted[k] \in Files THEN "file" ELSE "folder"
                    IN  /\ inbox' = inbox \cup {Request(op, k, Wanted[k], 0, TRUE)}
                        /\ task' = [task EXCEPT ![k].pc = IF op = "file" THEN "asked" ELSE "folder"]
                 /\ UNCHANGED <<catalogue, memory, handler, conn, spent>>

Broken(t) == CASE t.pc = "asked" -> [t EXCEPT !.pc = "gone"]
               [] t.pc = "waiting" -> [t EXCEPT !.pc = "lost"]
               [] OTHER -> t

\* The connection breaks; requests not yet received may or may not be lost with it.
Disconnect == /\ Spend("lost")
              /\ \E k \in Keys : task[k].pc \in {"asked", "waiting"} \/ Serving(k)
              /\ conn' = conn + 1
              /\ task' = [k \in Keys |-> Broken(task[k])]
              /\ inbox' \in {inbox, {}}
              /\ UNCHANGED <<catalogue, memory, handler>>

\* A client that knows the file says where to go on (packdef.h 608).
ClientContinues(k) == /\ task[k].pc = "lost"
                      /\ Patient => ~Serving(k)
                      /\ inbox' = inbox \cup {Request("continue", k, task[k].file, Len(task[k].got), TRUE)}
                      /\ task' = [task EXCEPT ![k].pc = "waiting"]
                      /\ UNCHANGED <<catalogue, memory, handler, conn, spent>>

\* A header makes a task of the client, which answers that it is ready.
GetsHeader(rq, k, f) ==
  IF rq.conn = conn
  THEN /\ task' = [task EXCEPT ![k] = NewTask(f)]
       /\ inbox' = inbox \cup {Request("header", k, f, 0, TRUE)}
  ELSE UNCHANGED <<task, inbox>>

\* The units of a block, as the client of a task for file f sees them.
Units(k, info, block) == [i \in 1..block[2] |-> IF info.file = task[k].file THEN block[1] + i ELSE 0]

\* A block the client writes, or cannot write; it answers with its length and whether it could.
Writes(k, got) ==
  task' = [task EXCEPT ![k].got = got, ![k].pc = IF Len(got) >= FileSize[task[k].file] THEN "done" ELSE "waiting"]

GetsBlock(rq, info, block) ==
  LET k == rq.key
      Answers(ok) == inbox' = inbox \cup {Request("content", k, task[k].file, block[2], ok)}
  IN  IF rq.conn # conn \/ block[2] < 0 THEN UNCHANGED <<task, inbox, spent>>
      ELSE \/ Writes(k, task[k].got \o Units(k, info, block)) /\ Answers(TRUE) /\ UNCHANGED spent
           \/ block[2] > 0 /\ Spend("refused") /\ Answers(FALSE) /\ UNCHANGED task
-----------------------------------------------------------------------------
(* A worker takes up a request; At and Goes follow its handler.             *)

First(op) == CASE op = "file" -> "select" [] op = "folder" -> "folder" [] op = "header" -> "find"
               [] op = "content" -> "find" [] op = "continue" -> "lookup"

\* The workers are alike: one of the free ones takes the request.
Deal(w) == \E rq \in inbox :
  /\ handler[w] = Idle /\ w = CHOOSE v \in Workers : handler[v] = Idle
  /\ inbox' = inbox \ {rq}
  /\ handler' = [handler EXCEPT ![w] = [Idle EXCEPT !.pc = First(rq.op), !.rq = rq, !.key = rq.key, !.todo = <<rq.file>>]]
  /\ UNCHANGED <<catalogue, memory, task, conn, spent>>

At(w, pc) == handler[w].pc = pc
Goes(w, pc) == handler' = [handler EXCEPT ![w].pc = pc]
Ends(w) == handler' = [handler EXCEPT ![w] = Idle]
Rq(w) == handler[w].rq
Info(w) == infos[handler[w].key][handler[w].info]
Update(w, info) == infos' = [infos EXCEPT ![handler[w].key][handler[w].info] = info]
New(k, info) == infos' = [infos EXCEPT ![k] = Append(@, info)]
-----------------------------------------------------------------------------
(* DownloadFileRq, and DownloadFile for the files of a folder.  Definitions *)
(* named Mutant... are plausible mistakes: each stands in for the           *)
(* definition after it to show that a property notices it.                  *)

Select(w) == /\ At(w, "select")
             /\ IF Rq(w).file \in listed THEN Goes(w, "open") ELSE Ends(w)
             /\ UNCHANGED <<catalogue, memory, inbox, task, conn, spent>>

\* The timestamp is counted on after its use, and so not before the first file.
MutantOpenOfWalk(w) ==
  LET f == Head(handler[w].todo)
      k == handler[w].key
  IN  /\ At(w, "walk") /\ handler[w].todo # <<>> /\ f \in Files /\ f \in there
      /\ New(k, NewInfo(f))
      /\ handler' = [handler EXCEPT ![w].pc = "map", ![w].info = Len(infos'[k])]
      /\ UNCHANGED <<catalogue, sessions, inbox, task, conn, spent>>

\* The timestamp is counted on once the file is open; a file that cannot be opened is passed over.
OpenOfWalk(w) ==
  LET f == Head(handler[w].todo)
  IN  /\ At(w, "walk") /\ handler[w].todo # <<>> /\ f \in Files
      /\ IF f \in there
         THEN LET k == handler[w].key + 1
              IN  /\ New(k, NewInfo(f))
                  /\ handler' = [handler EXCEPT ![w].pc = "map", ![w].info = Len(infos'[k]), ![w].key = k]
         ELSE /\ handler' = [handler EXCEPT ![w].todo = Tail(@)]
              /\ UNCHANGED infos
      /\ UNCHANGED <<catalogue, sessions, inbox, task, conn, spent>>

OpenOfFile(w) ==
  /\ At(w, "open")
  /\ IF Rq(w).file \in there
     THEN /\ New(Rq(w).key, NewInfo(Rq(w).file))
          /\ handler' = [handler EXCEPT ![w].pc = "map", ![w].info = Len(infos'[Rq(w).key])]
     ELSE Goes(w, "fetch") /\ UNCHANGED infos
  /\ UNCHANGED <<catalogue, sessions, inbox, task, conn, spent>>

\* FileTran never was connected: it writes to and reads from descriptor 0.  At the end of that input
\* downloadFile returns -1; without an end it blocks, and with a number in it says that it succeeded.
FetchFails(w) == /\ At(w, "fetch")
                 /\ Ends(w)
                 /\ UNCHANGED <<catalogue, memory, inbox, task, conn, spent>>

\* The second open (445): downloadFile has not put the file where it looks, so it fails like the first
\* unless an upload has made the path meanwhile; its result is used either way.
FetchReturns(w) == /\ At(w, "fetch")
                   /\ New(Rq(w).key, [NewInfo(Rq(w).file) EXCEPT !.bad = Rq(w).file \notin there])
                   /\ handler' = [handler EXCEPT ![w].pc = "map", ![w].info = Len(infos'[Rq(w).key])]
                   /\ UNCHANGED <<catalogue, sessions, inbox, task, conn, spent>>

MapInsert(w) == /\ At(w, "map")
                /\ sessions' = [sessions EXCEPT ![handler[w].key] = handler[w].info]
                /\ Goes(w, "sendheader")
                /\ UNCHANGED <<catalogue, infos, inbox, task, conn, spent>>

SendHeader(w) ==
  /\ At(w, "sendheader")
  /\ GetsHeader(Rq(w), handler[w].key, Info(w).file)
  /\ IF Rq(w).op = "file" THEN Ends(w)
     ELSE handler' = [handler EXCEPT ![w].pc = "walk", ![w].todo = Tail(@), ![w].info = 0]
  /\ UNCHANGED <<catalogue, memory, conn, spent>>
-----------------------------------------------------------------------------
(* DownloadFolderRq and DownloadFolder.                                     *)

\* The folder that is asked for; the folders in it are not looked for again.
SelectFolder(w) == /\ At(w, "folder")
                   /\ IF Rq(w).file \in listed THEN Goes(w, "walk") ELSE Ends(w)
                   /\ UNCHANGED <<catalogue, memory, inbox, task, conn, spent>>

\* The folder's header, with a timestamp of its own; the client makes a directory and does not answer.
SendFolder(w) == /\ At(w, "walk") /\ handler[w].todo # <<>> /\ Head(handler[w].todo) \in Folders
                 /\ handler' = [handler EXCEPT ![w].key = @ + 1, ![w].pc = "children"]
                 /\ UNCHANGED <<catalogue, memory, inbox, task, conn, spent>>

\* What the select of a folder's contents returns, in any order: it asks for none.
Rows(d) == SetToSeqs(Children[d] \cap listed)

\* What comes after a folder in the folder it is in is forgotten.
MutantSelectChildren(w) ==
  /\ At(w, "children")
  /\ \E rows \in Rows(Head(handler[w].todo)) :
       handler' = [handler EXCEPT ![w].pc = "walk", ![w].todo = rows]
  /\ UNCHANGED <<catalogue, memory, inbox, task, conn, spent>>

SelectChildren(w) ==
  /\ At(w, "children")
  /\ \E rows \in Rows(Head(handler[w].todo)) :
       handler' = [handler EXCEPT ![w].pc = "walk", ![w].todo = rows \o Tail(@)]
  /\ UNCHANGED <<catalogue, memory, inbox, task, conn, spent>>

\* The timestamps a folder's download takes after the request's own, Room[<<folder>>], where Room
\* says for what is left of a walk how many it may still take.
Span(Room, k) == IF Wanted[k] \in Folders THEN Room[<<Wanted[k]>>] ELSE 0

\* Timestamps tell the client's tasks apart (packdef.h 331): no walk reaches another request's.
WalksFit(Room) ==
  /\ \A todo \in DOMAIN Room :
       /\ todo \in Seq(Items) /\ Room[todo] \in Nat
       /\ todo # <<>> =>
            IF Head(todo) \in Files THEN Tail(todo) \in DOMAIN Room /\ Room[Tail(todo)] < Room[todo]
            ELSE \A S \in SUBSET Children[Head(todo)] : \A rows \in SetToSeqs(S) :
                   rows \o Tail(todo) \in DOMAIN Room /\ Room[rows \o Tail(todo)] < Room[todo]
  /\ \A k \in DOMAIN Wanted : /\ Wanted[k] \in Folders => <<Wanted[k]>> \in DOMAIN Room
                              /\ k .. k + Span(Room, k) \subseteq Keys
                              /\ \A l \in DOMAIN Wanted : k < l => k + Span(Room, k) < l

WalkEnds(w) == /\ At(w, "walk") /\ handler[w].todo = <<>>
               /\ Ends(w)
               /\ UNCHANGED <<catalogue, memory, inbox, task, conn, spent>>
-----------------------------------------------------------------------------
(* FileHeaderRs and FileContentRs.                                          *)

AfterFind(rq) == IF rq.op = "header" THEN "read" ELSE IF rq.ok THEN "load" ELSE "back"

Find(w) ==
  /\ At(w, "find")
  /\ IF sessions[Rq(w).key] = None THEN Ends(w)
     ELSE handler' = [handler EXCEPT ![w].pc = AfterFind(Rq(w)), ![w].info = sessions[Rq(w).key]]
  /\ UNCHANGED <<catalogue, memory, inbox, task, conn, spent>>

SeekBack(w) == /\ At(w, "back")
               /\ Update(w, [Info(w) EXCEPT !.offset = @ - Rq(w).n])
               /\ Goes(w, "read")
               /\ UNCHANGED <<catalogue, sessions, inbox, task, conn, spent>>

\* info->pos += len, unprotected: a load and a store.
LoadPos(w) == /\ At(w, "load")
              /\ handler' = [handler EXCEPT ![w].pos = Info(w).pos, ![w].pc = "store"]
              /\ UNCHANGED <<catalogue, memory, inbox, task, conn, spent>>

\* Every block is counted as a full one.
MutantStorePosBlock(w) ==
  LET pos == handler[w].pos + Block
  IN  /\ At(w, "store")
      /\ Update(w, [Info(w) EXCEPT !.pos = pos])
      /\ Goes(w, IF pos >= FileSize[Info(w).file] THEN "erase" ELSE "read")
      /\ UNCHANGED <<catalogue, sessions, inbox, task, conn, spent>>

\* The end is taken for reached only behind the last unit.
MutantStorePos(w) ==
  LET pos == handler[w].pos + Rq(w).n
  IN  /\ At(w, "store")
      /\ Update(w, [Info(w) EXCEPT !.pos = pos])
      /\ Goes(w, IF pos > FileSize[Info(w).file] THEN "erase" ELSE "read")
      /\ UNCHANGED <<catalogue, sessions, inbox, task, conn, spent>>

StorePos(w) ==
  LET pos == handler[w].pos + Rq(w).n
  IN  /\ At(w, "store")
      /\ Update(w, [Info(w) EXCEPT !.pos = pos])
      /\ Goes(w, IF pos >= FileSize[Info(w).file] THEN "erase" ELSE "read")
      /\ UNCHANGED <<catalogue, sessions, inbox, task, conn, spent>>

\* close, erase, delete.
Erase(w) == /\ At(w, "erase")
            /\ sessions' = [sessions EXCEPT ![Rq(w).key] = None]
            /\ Update(w, [Info(w) EXCEPT !.freed = TRUE])
            /\ Ends(w)
            /\ UNCHANGED <<catalogue, inbox, task, conn, spent>>

\* What read returns: -1, or as much as there is up to a block.
ReadLen(info) ==
  IF info.bad \/ info.freed THEN -1
  ELSE LET left == stored[info.file] - info.offset
       IN  IF left <= 0 THEN 0 ELSE IF left < Block THEN left ELSE Block

\* A header is answered with an empty block, too, and a continuation whatever read returns; other
\* answers end when there is nothing to read.
MayEnd(op, n) == (op = "content" /\ n <= 0) \/ (op = "header" /\ n < 0)

Read(w) ==
  LET n == ReadLen(Info(w))
      ends == MayEnd(Rq(w).op, n)
  IN  /\ At(w, "read")
      /\ Update(w, [Info(w) EXCEPT !.offset = @ + (IF n > 0 THEN n ELSE 0)])
      /\ handler' = [handler EXCEPT ![w] = IF ends THEN Idle
                                           ELSE [@ EXCEPT !.pc = "send", !.block = <<Info(w).offset, n>>]]
      /\ spent' = IF ends /\ n = 0 /\ stored[Info(w).file] < FileSize[Info(w).file] THEN [spent EXCEPT !.starved = 1] ELSE spent
      /\ UNCHANGED <<catalogue, sessions, inbox, task, conn>>

SendBlock(w) == /\ At(w, "send")
                /\ GetsBlock(Rq(w), Info(w), handler[w].block)
                /\ Ends(w)
                /\ UNCHANGED <<catalogue, memory, conn>>
-----------------------------------------------------------------------------
(* ContinueDownloadRq.                                                      *)

Lookup(w) ==
  /\ At(w, "lookup")
  /\ handler' = IF sessions[Rq(w).key] = None THEN [handler EXCEPT ![w].pc = "reselect"]
                ELSE [handler EXCEPT ![w].pc = "seek", ![w].info = sessions[Rq(w).key]]
  /\ UNCHANGED <<catalogue, memory, inbox, task, conn, spent>>

Reselect(w) == /\ At(w, "reselect")
               /\ IF Rq(w).file \in listed THEN Goes(w, "reopen") ELSE Ends(w)
               /\ UNCHANGED <<catalogue, memory, inbox, task, conn, spent>>

\* Here a file that cannot be opened ends the handler, without an answer.
Reopen(w) == /\ At(w, "reopen")
             /\ IF Rq(w).file \in there
                THEN /\ New(Rq(w).key, NewInfo(Rq(w).file))
                     /\ handler' = [handler EXCEPT ![w].pc = "remap", ![w].info = Len(infos'[Rq(w).key])]
                ELSE Ends(w) /\ UNCHANGED infos
             /\ UNCHANGED <<catalogue, sessions, inbox, task, conn, spent>>

\* The FileInfo made for the continuation is not put into the map.
MutantRemap(w) == /\ At(w, "remap")
                  /\ Goes(w, "seek")
                  /\ UNCHANGED <<catalogue, memory, inbox, task, conn, spent>>

Remap(w) == /\ At(w, "remap")
            /\ sessions' = [sessions EXCEPT ![Rq(w).key] = handler[w].info]
            /\ Goes(w, "seek")
            /\ UNCHANGED <<catalogue, infos, inbox, task, conn, spent>>

\* A session that is still there is taken to be where the client is.
MutantSeek(w) == /\ At(w, "seek")
                 /\ Goes(w, "setpos")
                 /\ UNCHANGED <<catalogue, memory, inbox, task, conn, spent>>

Seek(w) == /\ At(w, "seek")
           /\ Update(w, [Info(w) EXCEPT !.offset = Rq(w).n])
           /\ Goes(w, "setpos")
           /\ UNCHANGED <<catalogue, sessions, inbox, task, conn, spent>>

SetPos(w) == /\ At(w, "setpos")
             /\ Update(w, [Info(w) EXCEPT !.pos = Rq(w).n])
             /\ Goes(w, "read")
             /\ UNCHANGED <<catalogue, sessions, inbox, task, conn, spent>>
-----------------------------------------------------------------------------
\* The process dies and is started again: memory and connections are gone.
Crash == /\ Spend("crash")
         /\ sessions' = [k \in Keys |-> None] /\ infos' = [k \in Keys |-> <<>>]
         /\ inbox' = {} /\ handler' = [w \in Workers |-> Idle]
         /\ conn' = conn + 1 /\ task' = [k \in Keys |-> Broken(task[k])]
         /\ UNCHANGED catalogue

ClientStep == (\E k \in DOMAIN Wanted : ClientAsks(k)) \/ \E k \in Keys : ClientContinues(k)
FileStep(w) == Select(w) \/ OpenOfFile(w) \/ MapInsert(w) \/ SendHeader(w)
FolderStep(w) == SelectFolder(w) \/ SendFolder(w) \/ SelectChildren(w) \/ OpenOfWalk(w) \/ WalkEnds(w)
BlockStep(w) == Find(w) \/ SeekBack(w) \/ LoadPos(w) \/ StorePos(w) \/ Erase(w) \/ Read(w) \/ SendBlock(w)
ContinueStep(w) == Lookup(w) \/ Reselect(w) \/ Reopen(w) \/ Remap(w) \/ Seek(w) \/ SetPos(w)
WorkerStep(w) == Deal(w) \/ FileStep(w) \/ FolderStep(w) \/ BlockStep(w) \/ ContinueStep(w)

Next == \/ ClientStep \/ Disconnect \/ Crash
        \/ \E w \in Workers : WorkerStep(w) \/ FetchFails(w) \/ FetchReturns(w)
        \/ \E f \in Files : Receive(f) \/ Unlink(f) \/ Vanish(f) \/ MakeAnew(f)
        \/ \E x \in Items : Delete(x)

Spec == Init /\ [][Next]_downloadVars

\* Workers take up requests and go on with them, unless they fetch, and a client that can continue a
\* task does; nobody has to ask for anything.  That a request is taken up in the end is more than a
\* pool that shrinks promises (the runs of ThreadPool); with enough workers for what is queued it holds.
FairSpec == /\ Spec
            /\ \A k \in Keys : WF_downloadVars(ClientContinues(k))
            /\ \A w \in Workers : WF_downloadVars(WorkerStep(w))
-----------------------------------------------------------------------------
\* Every variable has its type; who is past the map has a FileInfo.
TypeOK ==
  /\ listed \subseteq Items /\ there \subseteq Files
  /\ \A f \in Files : stored[f] \in 0..FileSize[f]
  /\ \A k \in Keys : /\ sessions[k] \in DOMAIN infos[k] \cup {None}
                     /\ \A i \in DOMAIN infos[k] :
                          LET f == infos[k][i].file
                          IN  f \in Files /\ {infos[k][i].pos, infos[k][i].offset} \subseteq 0..FileSize[f]
  /\ \A w \in Workers : /\ handler[w].key \in Keys \cup {0}
                        /\ handler[w].info # 0 => handler[w].info \in DOMAIN infos[handler[w].key]
  /\ \A k \in Keys : task[k].pc \in {"none", "folder", "asked", "waiting", "lost", "done", "gone"}
  /\ DOMAIN spent = {"late", "lost", "crash", "refused", "removed", "starved"}

(* What the client has written of a file is always a beginning of that file, *)
(* over refused blocks, lost connections, crashes and continued downloads,   *)
(* while the two tasks and the folder's walk share the map of sessions.      *)
ReceivedInOrder ==
  \A k \in Keys : /\ \A i \in DOMAIN task[k].got : task[k].got[i] = i
                  /\ task[k].file # None => Len(task[k].got) <= FileSize[task[k].file]

(* A session of the map is never put in the place of another one: the tasks  *)
(* of a folder count their timestamps on from the request's, "to tell tasks  *)
(* apart" (packdef.h 331).                                                   *)
SessionKept == [][\A k \in Keys : sessions[k] # None => sessions'[k] \in {sessions[k], None}]_sessions

\* Nothing has been deleted, and no download has caught up with an upload.
Undisturbed == spent.removed = 0 /\ spent.starved = 0

(* The client's tasks come to an end, over lost connections, crashes and     *)
(* refused blocks: those it knows a file of with the whole file.             *)
DownloadArrives == []Undisturbed => <>[](\A k \in Keys : task[k].pc \notin {"asked", "waiting", "lost"})

\* The files in a folder and in the folders in it: they are in every set that holds the folder
\* and with a folder all that is in it.
FilesIn == [x \in Items |-> {f \in Files : \A S \in SUBSET Items :
              x \in S /\ (\A d \in S \cap Folders : Children[d] \subseteq S) => f \in S}]

\* No request is under way, and the connection has held so far.
Quiet == inbox = {} /\ (\A w \in Workers : handler[w] = Idle) /\ spent.lost + spent.crash = 0

(* Whoever asked for a file or a folder has got every file of it when        *)
(* nothing is under way any more.                                            *)
AllOfItArrived ==
  Quiet /\ Undisturbed =>
    \A k \in DOMAIN Wanted : task[k] # NoTask =>
      \A f \in FilesIn[Wanted[k]] : \E l \in Keys : task[l].file = f /\ task[l].pc = "done"

(* A download that is done leaves no session and no open file behind: the    *)
(* last answer closes it.                                                    *)
SessionsClosed == Quiet => \A k \in Keys : task[k].pc = "done" => sessions[k] = None
===============================================================================
