-------------------------------- MODULE Upload --------------------------------
(****************************************************************************)
(* The upload of a file, src/src/clogic.cpp: HandleUpFileRq, FileContentRq  *)
(* and ContinueUploadRq, run by the workers of the pool, each a sequence of *)
(* steps over the upload map, the file on disk and the tables; the clients, *)
(* which send one block at a time and wait for its answer; connections that *)
(* are lost and made anew; and a server that crashes and is started again.  *)
(*                                                                          *)
(* Every upload here stores the same bytes at the same path (same user,     *)
(* directory and MD5), under its own key of the map (user id + timestamp).  *)
(* A file is a sequence of units: unit i of the right content is i, and 0   *)
(* is a hole.  The client is external: it is modelled from the replies the  *)
(* server sends it and from packdef.h.                                      *)
(****************************************************************************)
EXTENDS Integers, SequencesExt

CONSTANTS Uploads,   \* upload tasks: keys of m_UidTimeToFileinfo
          Workers,   \* pool threads that run handlers
          Size,      \* units of the file (FileInfo.size)
          Block,     \* units in one block
          Patient,   \* TRUE: a client reconnects only when the server has finished its last request
          Overlap,   \* TRUE: an upload may begin while another one of the file is under way
          MaxLost,   \* bound: connections lost
          MaxCrash,  \* bound: crashes of the server
          MaxShort,  \* bound: writes that store less than asked
          MaxFail,   \* bound: writes and opens that fail
          None       \* no session, no request

ASSUME UploadAssumption == /\ Size \in Nat \ {0} /\ Block \in 1..Size /\ {Patient, Overlap} \subseteq BOOLEAN
                           /\ {MaxLost, MaxCrash, MaxShort, MaxFail} \subseteq Nat

Ops == {"upload", "content", "continue"}
Requests == [op : Ops, u : Uploads, from : Nat, len : Nat, fid : Nat, conn : Nat]

ASSUME NoneAssumption == None \notin Nat \cup Requests

VARIABLES
  disk,      \* the file at the path, as units
  rows,      \* t_file: f_state of the rows for the path, or Removed; the f_id is the index
  linked,    \* t_user_file: the f_ids the user has a relation to
  listed,    \* how often the path stands in transfer_list.txt
  sessions,  \* m_UidTimeToFileinfo
  infos,     \* the FileInfo objects: pos, offset of filefd, whether deleted
  inbox,     \* requests received and not yet taken up by a worker
  handler,   \* per worker: where its handler is, its request, its info and a local value
  client,    \* per upload: what the client waits for, its position, its f_id, its connection
  spent      \* how much of each bound is used up

database == <<rows, linked>>
files == <<disk, listed>>
memory == <<sessions, infos>>
uploadVars == <<database, files, memory, inbox, handler, client, spent>>

Removed == 2   \* of a row that has been deleted
Finished == \E i \in DOMAIN rows : rows[i] = 1
Whole == [i \in 1..Size |-> i]
Idle == [pc |-> "idle", rq |-> None, info |-> 0, val |-> 0]
NewInfo == [pos |-> 0, offset |-> 0, freed |-> FALSE]

Init == /\ disk = <<>> /\ rows = <<>> /\ linked = {} /\ listed = 0
        /\ sessions = [u \in Uploads |-> None] /\ infos = <<>>
        /\ inbox = {} /\ handler = [w \in Workers |-> Idle]
        /\ client = [u \in Uploads |-> [pc |-> "new", pos |-> 0, fid |-> 0, conn |-> 0]]
        /\ spent = [lost |-> 0, crash |-> 0, short |-> 0, fail |-> 0]

Spend(what, bound) == spent[what] < bound /\ spent' = [spent EXCEPT ![what] = @ + 1]
-----------------------------------------------------------------------------
(* The client.                                                              *)

Request(u, op, from, len) == [op |-> op, u |-> u, from |-> from, len |-> len,
                              fid |-> client[u].fid, conn |-> client[u].conn]

Serving(u) == (\E r \in inbox : r.u = u) \/ (\E w \in Workers : handler[w].rq # None /\ handler[w].rq.u = u)

\* An upload begins; nobody has to.
ClientUploads(u) == /\ client[u].pc = "new"
                    /\ \A v \in Uploads \ {u} :
                         Overlap \/ (client[v].pc \in {"new", "done", "gone"} /\ ~Serving(v))
                    /\ inbox' = inbox \cup {Request(u, "upload", 0, 0)}
                    /\ client' = [client EXCEPT ![u].pc = "uploading"]
                    /\ UNCHANGED <<database, files, memory, handler, spent>>

\* The next block, from the position the last reply gave.
ClientSends(u) ==
  /\ client[u].pc = "send" /\ client[u].pos < Size
  /\ LET left == Size - client[u].pos
     IN  inbox' = inbox \cup {Request(u, "content", client[u].pos + 1, IF left < Block THEN left ELSE Block)}
  /\ client' = [client EXCEPT ![u].pc = "sending"]
  /\ UNCHANGED <<database, files, memory, handler, spent>>

\* The connection breaks; a request not yet received may or may not be lost with it.
Disconnect(u) ==
  /\ client[u].pc \notin {"new", "done", "gone"}
  /\ Spend("lost", MaxLost)
  /\ client' = [client EXCEPT ![u].conn = @ + 1, ![u].pc = IF client[u].fid = 0 THEN "gone" ELSE "lost"]
  /\ \/ UNCHANGED inbox
     \/ inbox' = {r \in inbox : r.u # u}
  /\ UNCHANGED <<database, files, memory, handler>>

\* A client that knows its f_id asks where to go on (packdef.h 629-631).
ClientContinues(u) ==
  /\ client[u].pc = "lost"
  /\ Patient => ~Serving(u)
  /\ inbox' = inbox \cup {Request(u, "continue", 0, 0)}
  /\ client' = [client EXCEPT ![u].pc = "continuing"]
  /\ UNCHANGED <<database, files, memory, handler, spent>>

\* A reply reaches the client on the connection of the request, when that still exists.
Reply(rq, c) == client' = IF client[rq.u].conn = rq.conn THEN [client EXCEPT ![rq.u] = c] ELSE client
-----------------------------------------------------------------------------
(* A worker takes up a request; At and Goes follow its handler.             *)

First(op) == CASE op = "upload" -> "quick" [] op = "content" -> "find" [] op = "continue" -> "lookup"

Deal(w) == \E rq \in inbox :
             /\ handler[w] = Idle
             /\ inbox' = inbox \ {rq}
             /\ handler' = [handler EXCEPT ![w] = [Idle EXCEPT !.pc = First(rq.op), !.rq = rq]]
             /\ UNCHANGED <<database, files, memory, client, spent>>

At(w, pc) == handler[w].pc = pc
Goes(w, pc) == handler' = [handler EXCEPT ![w].pc = pc]
Ends(w) == handler' = [handler EXCEPT ![w] = Idle]
Rq(w) == handler[w].rq
Info(w) == infos[handler[w].info]
-----------------------------------------------------------------------------
(* HandleUpFileRq.  Definitions named Mutant... are plausible mistakes: each *)
(* stands in for the definition after it to show that a property notices it. *)

\* Is there a finished file with this MD5 (lines 178-187)?
UpQuick(w) ==
  /\ At(w, "quick")
  /\ IF Finished THEN \E i \in DOMAIN rows : /\ rows[i] = 1
                                            /\ handler' = [handler EXCEPT ![w].pc = "quicklink", ![w].val = i]
     ELSE Goes(w, "open")
  /\ UNCHANGED <<database, files, memory, inbox, client, spent>>

UpQuickLink(w) == /\ At(w, "quicklink")
                  /\ linked' = linked \cup {handler[w].val}
                  /\ Goes(w, "quickreply")
                  /\ UNCHANGED <<rows, files, memory, inbox, client, spent>>

UpQuickReply(w) == /\ At(w, "quickreply")
                   /\ Reply(Rq(w), [client[Rq(w).u] EXCEPT !.pc = "done"])
                   /\ Ends(w)
                   /\ UNCHANGED <<database, files, memory, inbox, spent>>

\* open(O_CREAT | O_WRONLY | O_TRUNC)
UpOpen(w) == /\ At(w, "open")
             /\ disk' = <<>>
             /\ infos' = Append(infos, NewInfo)
             /\ handler' = [handler EXCEPT ![w].pc = "map", ![w].info = Len(infos')]
             /\ UNCHANGED <<database, listed, sessions, inbox, client, spent>>

\* An open that fails, here and in ContinueUploadRq: the handler ends without an answer
\* (225-229, 904-907).
OpenFails(w) == /\ At(w, "open") \/ At(w, "reopen")
                /\ Spend("fail", MaxFail)
                /\ Ends(w)
                /\ UNCHANGED <<database, files, memory, inbox, client>>

UpMap(w) == /\ At(w, "map")
            /\ sessions' = [sessions EXCEPT ![Rq(w).u] = handler[w].info]
            /\ Goes(w, "insert")
            /\ UNCHANGED <<database, files, infos, inbox, client, spent>>

UpInsert(w) == /\ At(w, "insert")
               /\ rows' = Append(rows, 0)
               /\ Goes(w, "fid")
               /\ UNCHANGED <<linked, files, memory, inbox, client, spent>>

\* The select came back empty and the f_id keeps what it was.
MutantUpFidMissing(w) ==
  /\ At(w, "fid")
  /\ handler' = [handler EXCEPT ![w].pc = "link"]
  /\ UNCHANGED <<database, files, memory, inbox, client, spent>>

\* The f_id is selected by path and MD5, so it is the first row's, whoever inserted it.
UpFid(w) == /\ At(w, "fid")
            /\ handler' = [handler EXCEPT ![w].pc = "link",
                                          ![w].val = SelectInSeq(rows, LAMBDA r : r # Removed)]
            /\ UNCHANGED <<database, files, memory, inbox, client, spent>>

UpLink(w) == /\ At(w, "link")
             /\ linked' = linked \cup {handler[w].val}
             /\ Goes(w, "upreply")
             /\ UNCHANGED <<rows, files, memory, inbox, client, spent>>

UpReply(w) == /\ At(w, "upreply")
              /\ Reply(Rq(w), [client[Rq(w).u] EXCEPT !.pc = "send", !.fid = handler[w].val])
              /\ Ends(w)
              /\ UNCHANGED <<database, files, memory, inbox, spent>>
-----------------------------------------------------------------------------
(* FileContentRq.                                                           *)

ContentFind(w) ==
  /\ At(w, "find")
  /\ IF sessions[Rq(w).u] = None THEN Ends(w)
     ELSE handler' = [handler EXCEPT ![w].pc = "write", ![w].info = sessions[Rq(w).u]]
  /\ UNCHANGED <<database, files, memory, inbox, client, spent>>

\* n units of the request, stored at the descriptor's offset; what lies between is a hole.
Stored(w, n) ==
  LET off == Info(w).offset
  IN  [i \in 1..(IF Len(disk) > off + n THEN Len(disk) ELSE off + n) |->
         IF i \in off+1..off+n THEN Rq(w).from + i - off - 1
         ELSE IF i \in DOMAIN disk THEN disk[i] ELSE 0]

ContentWrite(w) == /\ At(w, "write") /\ ~Info(w).freed
                   /\ disk' = Stored(w, Rq(w).len)
                   /\ infos' = [infos EXCEPT ![handler[w].info].offset = @ + Rq(w).len]
                   /\ Goes(w, "load")
                   /\ UNCHANGED <<database, listed, sessions, inbox, client, spent>>

\* The length write returned is not compared with the length asked for.
MutantContentShortAccepted(w) ==
  /\ At(w, "write") /\ ~Info(w).freed
  /\ Spend("short", MaxShort)
  /\ \E n \in 0..Rq(w).len-1 : /\ disk' = Stored(w, n)
                                /\ infos' = [infos EXCEPT ![handler[w].info].offset = @ + n]
  /\ Goes(w, "load")
  /\ UNCHANGED <<database, listed, sessions, inbox, client>>

\* A short write (292) ...
ContentShort(w) ==
  /\ At(w, "write") /\ ~Info(w).freed
  /\ Spend("short", MaxShort)
  /\ \E n \in 0..Rq(w).len-1 : /\ disk' = Stored(w, n)
                                /\ infos' = [infos EXCEPT ![handler[w].info].offset = @ + n]
                                /\ handler' = [handler EXCEPT ![w].pc = "back", ![w].val = n]
  /\ UNCHANGED <<database, listed, sessions, inbox, client>>

\* ... is taken back (297): the offset, not the units, and not beyond the beginning of the file ...
ContentSeekBack(w) ==
  /\ At(w, "back")
  /\ infos' = [infos EXCEPT ![handler[w].info].offset = IF @ < handler[w].val THEN @ ELSE @ - handler[w].val]
  /\ Goes(w, "refuse")
  /\ UNCHANGED <<database, files, sessions, inbox, client, spent>>

\* ... and the answer says 0: the client sends the block again.
ContentRefuse(w) == /\ At(w, "refuse")
                    /\ Reply(Rq(w), [client[Rq(w).u] EXCEPT !.pc = "send"])
                    /\ Ends(w)
                    /\ UNCHANGED <<database, files, memory, inbox, spent>>

\* write returns -1: no answer (288-291).  It does so, too, when another handler has
\* closed the descriptor and deleted the FileInfo since "find".
ContentFails(w) == /\ At(w, "write")
                   /\ IF Info(w).freed THEN UNCHANGED spent ELSE Spend("fail", MaxFail)
                   /\ Ends(w)
                   /\ UNCHANGED <<database, files, memory, inbox, client>>

\* info->pos += len, unprotected: a load and a store.
ContentLoad(w) == /\ At(w, "load")
                  /\ handler' = [handler EXCEPT ![w].val = Info(w).pos, ![w].pc = "store"]
                  /\ UNCHANGED <<database, files, memory, inbox, client, spent>>

\* Finished one block early.
MutantContentStoreEarly(w) ==
  LET pos == handler[w].val + Rq(w).len
  IN  /\ At(w, "store")
      /\ infos' = [infos EXCEPT ![handler[w].info].pos = pos]
      /\ Goes(w, IF pos + Block >= Size THEN "state" ELSE "answer")
      /\ UNCHANGED <<database, files, sessions, inbox, client, spent>>

\* The file is listed without the update of f_state.
MutantContentStoreSkips(w) ==
  LET pos == handler[w].val + Rq(w).len
  IN  /\ At(w, "store")
      /\ infos' = [infos EXCEPT ![handler[w].info].pos = pos]
      /\ Goes(w, IF pos >= Size THEN "erase" ELSE "answer")
      /\ UNCHANGED <<database, files, sessions, inbox, client, spent>>

ContentStore(w) ==
  LET pos == handler[w].val + Rq(w).len
  IN  /\ At(w, "store")
      /\ infos' = [infos EXCEPT ![handler[w].info].pos = pos]
      /\ Goes(w, IF pos >= Size THEN "state" ELSE "answer")
      /\ UNCHANGED <<database, files, sessions, inbox, client, spent>>

ContentState(w) == /\ At(w, "state")
                   /\ rows' = [rows EXCEPT ![Rq(w).fid] = 1]
                   /\ Goes(w, "erase")
                   /\ UNCHANGED <<linked, files, memory, inbox, client, spent>>

\* close, erase, delete.
ContentErase(w) == /\ At(w, "erase")
                   /\ sessions' = [sessions EXCEPT ![Rq(w).u] = None]
                   /\ infos' = [infos EXCEPT ![handler[w].info].freed = TRUE]
                   /\ Goes(w, "transfer")
                   /\ UNCHANGED <<database, files, inbox, client, spent>>

\* FileTransferTask: the path of the descriptor was put into the buffer of the FileWriter before
\* the close; it reaches transfer_list.txt when the FileWriter is destroyed, at the end of the block.
ContentTransfer(w) == /\ At(w, "transfer")
                      /\ listed' = listed + 1
                      /\ Goes(w, "answer")
                      /\ UNCHANGED <<database, disk, memory, inbox, client, spent>>

ContentAnswer(w) ==
  LET pos == Rq(w).from + Rq(w).len - 1
  IN  /\ At(w, "answer")
      /\ Reply(Rq(w), [client[Rq(w).u] EXCEPT !.pc = IF pos = Size THEN "done" ELSE "send", !.pos = pos])
      /\ Ends(w)
      /\ UNCHANGED <<database, files, memory, inbox, spent>>
-----------------------------------------------------------------------------
(* ContinueUploadRq.                                                        *)

ContinueLookup(w) ==
  /\ At(w, "lookup")
  /\ handler' = IF sessions[Rq(w).u] = None THEN [handler EXCEPT ![w].pc = "select"]
                ELSE [handler EXCEPT ![w].pc = "seek", ![w].info = sessions[Rq(w).u]]
  /\ UNCHANGED <<database, files, memory, inbox, client, spent>>

\* The view is asked for finished files.
MutantContinueSelectFinished(w) ==
  /\ At(w, "select")
  /\ IF Rq(w).fid \in linked /\ rows[Rq(w).fid] = 1 THEN Goes(w, "reopen") ELSE Ends(w)
  /\ UNCHANGED <<database, files, memory, inbox, client, spent>>

\* The view user_file_info, restricted to f_state = 0; no row, no answer (889-896).
ContinueSelect(w) ==
  /\ At(w, "select")
  /\ IF Rq(w).fid \in linked /\ rows[Rq(w).fid] = 0 THEN Goes(w, "reopen") ELSE Ends(w)
  /\ UNCHANGED <<database, files, memory, inbox, client, spent>>

ContinueOpen(w) == /\ At(w, "reopen")
                   /\ infos' = Append(infos, NewInfo)
                   /\ handler' = [handler EXCEPT ![w].pc = "remap", ![w].info = Len(infos')]
                   /\ UNCHANGED <<database, files, sessions, inbox, client, spent>>

ContinueMap(w) == /\ At(w, "remap")
                  /\ sessions' = [sessions EXCEPT ![Rq(w).u] = handler[w].info]
                  /\ Goes(w, "seek")
                  /\ UNCHANGED <<database, files, infos, inbox, client, spent>>

\* The size of the file is asked for, and the descriptor is not moved.
MutantContinueSeekNot(w) ==
  /\ At(w, "seek")
  /\ handler' = [handler EXCEPT ![w].pc = "setpos", ![w].val = Len(disk)]
  /\ UNCHANGED <<database, files, memory, inbox, client, spent>>

\* lseek(SEEK_END), then the store into info->pos.
ContinueSeek(w) == /\ At(w, "seek")
                   /\ infos' = [infos EXCEPT ![handler[w].info].offset = Len(disk)]
                   /\ handler' = [handler EXCEPT ![w].pc = "setpos", ![w].val = Len(disk)]
                   /\ UNCHANGED <<database, files, sessions, inbox, client, spent>>

ContinueSet(w) == /\ At(w, "setpos")
                  /\ infos' = [infos EXCEPT ![handler[w].info].pos = handler[w].val]
                  /\ Reply(Rq(w), [client[Rq(w).u] EXCEPT !.pc = "send", !.pos = handler[w].val])
                  /\ Ends(w)
                  /\ UNCHANGED <<database, files, sessions, inbox, spent>>
-----------------------------------------------------------------------------
\* The process dies and is started again: memory and connections are gone, files and tables stay.
Crash == /\ Spend("crash", MaxCrash)
         /\ sessions' = [u \in Uploads |-> None] /\ infos' = <<>>
         /\ inbox' = {} /\ handler' = [w \in Workers |-> Idle]
         /\ client' = [u \in Uploads |->
              [client[u] EXCEPT !.conn = @ + 1,
                 !.pc = IF @ \in {"new", "done", "gone"} THEN @
                        ELSE IF client[u].fid = 0 THEN "gone" ELSE "lost"]]
         /\ UNCHANGED <<database, files>>

ClientGoesOn(u) == ClientSends(u) \/ ClientContinues(u)
UpStep(w) == \/ UpQuick(w) \/ UpQuickLink(w) \/ UpQuickReply(w) \/ UpOpen(w) \/ OpenFails(w)
             \/ UpMap(w) \/ UpInsert(w) \/ UpFid(w) \/ UpLink(w) \/ UpReply(w)
ContentStep(w) == \/ ContentFind(w) \/ ContentWrite(w) \/ ContentFails(w)
                  \/ ContentShort(w) \/ ContentSeekBack(w) \/ ContentRefuse(w)
                  \/ ContentLoad(w) \/ ContentStore(w) \/ ContentState(w)
                  \/ ContentErase(w) \/ ContentTransfer(w) \/ ContentAnswer(w)
ContinueStep(w) == \/ ContinueLookup(w) \/ ContinueSelect(w) \/ ContinueOpen(w)
                   \/ ContinueMap(w) \/ ContinueSeek(w) \/ ContinueSet(w)
WorkerStep(w) == Deal(w) \/ UpStep(w) \/ ContentStep(w) \/ ContinueStep(w)

Next == \/ \E u \in Uploads : ClientUploads(u) \/ ClientGoesOn(u) \/ Disconnect(u)
        \/ \E w \in Workers : WorkerStep(w)
        \/ Crash

Spec == Init /\ [][Next]_uploadVars

\* Workers take up requests and go on with them, and a client that has begun an upload sends the
\* next block, or asks how far it is; nobody has to begin one, and losses, failures and crashes owe
\* nothing.  That a request is taken up in the end is more than a pool that shrinks promises (the
\* runs of ThreadPool); with enough workers for everything that is queued it holds.
FairSpec == /\ Spec
            /\ \A u \in Uploads : WF_uploadVars(ClientGoesOn(u))
            /\ \A w \in Workers : WF_uploadVars(WorkerStep(w))
-----------------------------------------------------------------------------
Steps == {"idle", "quick", "quicklink", "quickreply", "open", "map", "insert", "fid", "link", "upreply",
          "find", "write", "back", "refuse", "load", "store", "state", "erase", "transfer", "answer",
          "lookup", "select", "reopen", "remap", "seek", "setpos"}

\* Every variable has its type.
TypeOK ==
  /\ disk \in Seq(0..Size) /\ rows \in Seq({0, 1, Removed}) /\ linked \subseteq DOMAIN rows
  /\ listed \in Nat
  /\ infos \in Seq([pos : Nat, offset : Nat, freed : BOOLEAN])
  /\ sessions \in [Uploads -> DOMAIN infos \cup {None}]
  /\ inbox \subseteq Requests
  /\ \A w \in Workers : handler[w].pc \in Steps /\ handler[w].info \in DOMAIN infos \cup {0}
  /\ \A u \in Uploads : client[u].pos \in Nat /\ client[u].fid \in DOMAIN rows \cup {0}
  /\ DOMAIN spent = {"lost", "crash", "short", "fail"}

(* f_state = 1 means that the upload is finished (clogic.cpp 304), and the   *)
(* next upload of the same MD5 is answered from that row alone (180-207): a  *)
(* row with f_state 1 stands for a file that holds exactly the right bytes.  *)
FinishedIsWhole == Finished => disk = Whole

(* What is on disk is always a beginning of the right content, wherever the  *)
(* server crashed and however often blocks were cut short or sent again.     *)
DiskIsPrefix == Len(disk) <= Size /\ \A i \in DOMAIN disk : disk[i] = i

(* A block the client was told is stored is on disk: it need never send it   *)
(* again, after a crash either, as long as the file is not deleted.          *)
AckedIsStored ==
  \A u \in Uploads : client[u].fid # 0 /\ rows[client[u].fid] # Removed => client[u].pos <= Len(disk)

(* The transfer list names a file at most once for every time it was         *)
(* received, and never before it is finished.                                *)
ListedOnceFinished ==
  LET removed == Cardinality({i \in DOMAIN rows : rows[i] = Removed})
  IN  listed <= removed + 1 /\ (listed = removed + 1 => disk = Whole /\ Finished)

(* An upload that has begun ends with the whole file on disk, over lost      *)
(* connections, crashes and short writes, unless a write or an open failed   *)
(* outright and the client, on a connection that is alive, now waits for the *)
(* answer that request is never given.                                       *)
LeftWaiting(u) == client[u].pc \in {"sending", "continuing"} /\ ~Serving(u)
UploadArrives ==
  \A u \in Uploads : client[u].fid # 0 /\ rows[client[u].fid] # Removed
                       ~> disk = Whole \/ (LeftWaiting(u) /\ spent.fail > 0)

(* packdef.h 629: a request to continue an upload asks how far the server    *)
(* is, "so there has to be a reply": a client that asks is answered, or      *)
(* loses its connection.                                                     *)
ContinueAnswered == \A u \in Uploads : client[u].pc = "continuing" ~> client[u].pc # "continuing"
===============================================================================
