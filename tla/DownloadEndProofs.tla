--------------------------- MODULE DownloadEndProofs ---------------------------
(****************************************************************************)
(* Theorems about how downloads end, for any files, folders, timestamps and *)
(* workers: with their sessions closed, and with every file a client has    *)
(* asked for.  They rest on the invariants of DownloadProofs and on its     *)
(* suppositions about the client.                                           *)
(****************************************************************************)
EXTENDS DownloadProofs
USE DEF Between

\* No connection has been lost, and the server has not crashed.
Steady == spent.lost = 0 /\ spent.crash = 0

\* Who is done has the whole file, and a session is closed at the end of it.
HasAll(t) == Len(t.got) >= FileSize[t.file]
Whole == /\ \A k \in Keys : task[k].pc = "done" => HasAll(task[k])
         /\ \A w \in Workers : handler[w].pc = "erase" => HasAll(task[handler[w].key])

\* Requests and handlers are of the connection there is, and no task has lost it.
Connected == Steady => /\ \A r \in inbox : r.conn = conn /\ r.op # "continue"
                       /\ \A w \in Workers : Busy(w) => handler[w].rq.conn = conn /\ handler[w].rq.op # "continue"
                       /\ \A k \in Keys : task[k].pc \notin {"lost", "gone"}

\* The answer to the last block of a timestamp's file is on its way to the erase.
Finishes(h) == h.rq.op = "content" /\ h.rq.ok /\ h.pc \in {"find", "load", "store", "erase"}
Finishing(k) == \/ \E r \in inbox : r.key = k /\ r.op = "content" /\ r.ok
                \/ \E w \in Workers : Busy(w) /\ handler[w].rq.key = k /\ Finishes(handler[w])

Closing == Steady => \A k \in Keys : task[k].pc = "done" /\ sessions[k] # None => Finishing(k)
-----------------------------------------------------------------------------
(* What is left of a download when nothing disturbs it.                     *)

\* Nothing is missing, and every file can be opened and read.
Untroubled == Undisturbed => /\ listed = Items /\ there = Files
                             /\ \A k \in Keys : \A i \in DOMAIN infos[k] : ~infos[k][i].bad
                             /\ \A w \in Workers : /\ handler[w].pc # "fetch"
                                                   /\ handler[w].pc = "send" => handler[w].block[2] >= 0

\* A request of the timestamp with one of these operations is under way.
UnderWay(k, ops) == \/ \E r \in inbox : r.key = k /\ r.op \in ops
                    \/ \E w \in Workers : Busy(w) /\ handler[w].rq.key = k /\ handler[w].rq.op \in ops

\* There is more to come of a file after a block of it.
MoreToCome(op, t) == op = "content" /\ t.pc = "waiting" => ~HasAll(t)

\* Who waits has a request under way, and who has the whole file none that would go on.
LivelyAt(k) == /\ task[k].pc = "asked" => UnderWay(k, {"file"})
               /\ task[k].pc = "waiting" => UnderWay(k, {"header", "content"})
MoreAll == /\ \A r \in inbox : MoreToCome(r.op, task[r.key])
           /\ \A w \in Workers : Busy(w) => MoreToCome(handler[w].rq.op, task[handler[w].rq.key])
Lively == Steady /\ Undisturbed => (\A k \in Keys : LivelyAt(k)) /\ MoreAll

\* A task is of what it was made for.
AsWished(k) == IF Wanted[k] \in Files THEN task[k].pc # "folder" /\ task[k].file \in {None, Wanted[k]}
               ELSE task[k].pc \in {"none", "folder"}
Wishes == \A k \in DOMAIN Wanted : AsWished(k)

\* What a walk has opened is the first of what is left of it.
HeadOf(w) == Opening(w) => Info(w).file = Head(handler[w].todo)
Heads == \A w \in Workers : HeadOf(w)

\* What a request under way still has before it; the files the client has tasks of.
Left(k) == {x \in Items : \/ \E r \in inbox : r.key = k /\ r.file = x
                          \/ \E w \in Workers : Busy(w) /\ handler[w].rq.key = k /\ x \in ToSet(handler[w].todo)}
Had == {task[k].file : k \in Keys}

\* The folders D have been walked: what is in them is walked, or left, or the client has a task of it.
WalkedIn(k, D) == /\ Wanted[k] \in D \cup Left(k)
                  /\ \A d \in D : Children[d] \subseteq D \cup Left(k) \cup Had
Walked == Steady /\ Undisturbed =>
            \A k \in DOMAIN Wanted : task[k] # NoTask /\ Wanted[k] \in Folders => \E D \in SUBSET Folders : WalkedIn(k, D)
-----------------------------------------------------------------------------
(* The steps of the handlers, as far as they are alike.                     *)

\* What a step of handler w may change.
Moves(w) ==
  /\ Busy(w)
  /\ \A v \in Workers \ {w} : handler'[v] = handler[v]
  /\ handler'[w] = Idle \/ (handler'[w].rq = handler[w].rq /\ handler'[w].pc # "idle")
  /\ UNCHANGED <<conn, listed, there>>
  /\ (task' = task /\ inbox' = inbox) \/ handler[w].pc \in {"sendheader", "send"}
  /\ sessions' = sessions \/ handler[w].pc \in {"map", "remap", "erase"}
  /\ \A l \in Keys : l # handler[w].key => task'[l] = task[l] /\ sessions'[l] = sessions[l]
  /\ inbox \subseteq inbox'
  /\ \A r \in inbox' : r \in inbox \/ (r.conn = conn /\ r.key = handler[w].key /\ r.op \in {"header", "content"})
  /\ (Steady' => Steady) /\ (Undisturbed' => Undisturbed)

\* A file received or made anew, or an item deleted.
Others == \/ \E f \in Files : Receive(f) \/ Unlink(f) \/ Vanish(f) \/ MakeAnew(f)
          \/ \E x \in Items : Delete(x)

HandlerSteps(w) == FileStep(w) \/ FolderStep(w) \/ BlockStep(w) \/ ContinueStep(w) \/ FetchFails(w) \/ FetchReturns(w)

\* A handler of a file works at its request's timestamp.
LEMMA AtItsKey ==
  ASSUME Typed, InOrder, NEW w \in Workers, handler[w].pc # "idle"
  PROVE  /\ Busy(w) /\ handler[w] \in HandlerType /\ handler[w].key \in Keys /\ handler[w].rq \in Requests
         /\ HandGood(handler[w], task[handler[w].key], sessions[handler[w].key], infos[handler[w].key])
         /\ ~Walking(w) => handler[w].key = handler[w].rq.key /\ handler[w].pc \notin Between /\ handler[w].rq.op # "folder"
         /\ Walking(w) => handler[w].pc \in Between \cup {"map", "sendheader"} /\ handler[w].rq.op = "folder"
<1>1. Busy(w)
  BY DEF InOrder, Handled, Idle
<1>2. handler[w].key \in Keys /\ HandGood(handler[w], task[handler[w].key], sessions[handler[w].key], infos[handler[w].key])
  BY <1>1 DEF InOrder, Handled
<1>3. Walking(w) => handler[w].pc \in Between \cup {"map", "sendheader"}
  BY DEF InOrder, Walks, WalkGood
<1> QED BY <1>1, <1>2, <1>3, RequestOf DEF HandGood, Walking

\* Faults are not taken back.
LEMMA FaultsStay ==
  ASSUME Typed, \/ spent' = spent \/ spent' = [spent EXCEPT !.starved = 1]
                \/ \E what \in Kinds : Spend(what)
  PROVE  (Steady' => Steady) /\ (Undisturbed' => Undisturbed)
<1>1. \A kind \in Kinds : spent[kind] \in Nat
  BY DEF Typed, SpentType
<1>2. CASE spent' = spent
  BY <1>2 DEF Steady, Undisturbed
<1>3. CASE spent' = [spent EXCEPT !.starved = 1]
  <2>1. spent'["lost"] = spent["lost"] /\ spent'["crash"] = spent["crash"] /\ spent'["removed"] = spent["removed"]
        /\ spent'["starved"] = 1
    BY <1>3 DEF Typed, SpentType, Kinds
  <2> QED BY <2>1 DEF Steady, Undisturbed
<1>4. ASSUME NEW what \in Kinds, Spend(what) PROVE (Steady' => Steady) /\ (Undisturbed' => Undisturbed)
  <2>1. \A kind \in Kinds : spent'[kind] = IF kind = what THEN spent[kind] + 1 ELSE spent[kind]
    BY <1>4 DEF Spend, Typed, SpentType
  <2>2. \A kind \in Kinds : spent'[kind] = 0 => spent[kind] = 0
    BY <1>1, <2>1
  <2> QED BY <2>2 DEF Steady, Undisturbed, Kinds
<1> QED BY <1>2, <1>3, <1>4

LEMMA OthersAre ==
  ASSUME Typed, Others
  PROVE  UNCHANGED <<inbox, handler, task, conn, sessions, infos>> /\ (Steady' => Steady) /\ (Undisturbed' => Undisturbed)
<1>1. UNCHANGED <<inbox, handler, task, conn, sessions, infos>>
  BY DEF Others, Receive, Delete, Unlink, Vanish, MakeAnew, memory
<1>2. spent' = spent \/ Spend("removed")
  BY DEF Others, Receive, Delete, Unlink, Vanish, MakeAnew
<1> QED BY <1>1, <1>2, FaultsStay DEF Kinds

\* A step that only moves handler w on, or ends it.
LEMMA Plain ==
  ASSUME Typed, InOrder, NEW w \in Workers, handler[w].pc # "idle",
         UNCHANGED <<conn, listed, there, task, inbox, sessions>>,
         spent' = spent \/ spent' = [spent EXCEPT !.starved = 1],
         \A v \in Workers \ {w} : handler'[v] = handler[v],
         handler'[w] = Idle \/ (handler'[w].rq = handler[w].rq /\ handler'[w].pc # "idle")
  PROVE  Moves(w)
  BY AtItsKey, FaultsStay DEF Moves

LEMMA FileMoves ==
  ASSUME Typed, InOrder, NEW w \in Workers, Select(w) \/ OpenOfFile(w) \/ FetchFails(w) \/ FetchReturns(w)
  PROVE  Moves(w)
<1>1. handler[w].pc # "idle"
  BY DEF Select, OpenOfFile, FetchFails, FetchReturns, At
<1>2. UNCHANGED <<conn, listed, there, task, inbox, sessions, spent>>
  BY DEF Select, OpenOfFile, FetchFails, FetchReturns, memory, catalogue
<1>3. /\ \A v \in Workers \ {w} : handler'[v] = handler[v]
      /\ handler'[w] = Idle \/ (handler'[w].rq = handler[w].rq /\ handler'[w].pc # "idle")
  BY DEF Select, OpenOfFile, FetchFails, FetchReturns, Goes, Ends, Typed, HandlerType
<1> QED BY <1>1, <1>2, <1>3, Plain

\* A step between two files of a walk: what it makes of its handler.
LEMMA FolderIs ==
  ASSUME Typed, NEW w \in Workers, FolderStep(w)
  PROVE  /\ handler[w].pc \in Between
         /\ \A v \in Workers \ {w} : handler'[v] = handler[v]
         /\ \/ handler'[w] = Idle
            \/ handler'[w].rq = handler[w].rq /\ handler'[w].pc \in Between
            \/ OpenOfWalk(w) /\ handler'[w].rq = handler[w].rq /\ handler'[w].pc = "map"
         /\ UNCHANGED <<conn, listed, there, task, inbox, sessions, spent>>
         /\ infos' = infos \/ OpenOfWalk(w)
<1>1. handler \in [Workers -> HandlerType]
  BY DEF Typed
<1>2. CASE SelectFolder(w)
  <2>1. handler[w].pc = "folder" /\ UNCHANGED <<conn, listed, there, task, inbox, sessions, spent, infos>>
    BY <1>2 DEF SelectFolder, At, memory, catalogue
  <2>2. handler' = [handler EXCEPT ![w].pc = "walk"] \/ handler' = [handler EXCEPT ![w] = Idle]
    BY <1>2 DEF SelectFolder, Goes, Ends
  <2> QED BY <1>1, <2>1, <2>2 DEF HandlerType
<1>3. CASE SendFolder(w)
  <2>1. handler[w].pc = "walk" /\ UNCHANGED <<conn, listed, there, task, inbox, sessions, spent, infos>>
    BY <1>3 DEF SendFolder, At, memory, catalogue
  <2>2. handler' = [handler EXCEPT ![w].key = @ + 1, ![w].pc = "children"]
    BY <1>3 DEF SendFolder
  <2> QED BY <1>1, <2>1, <2>2 DEF HandlerType
<1>4. CASE SelectChildren(w)
  <2>1. handler[w].pc = "children" /\ UNCHANGED <<conn, listed, there, task, inbox, sessions, spent, infos>>
    BY <1>4 DEF SelectChildren, At, memory, catalogue
  <2>2. PICK todo : handler' = [handler EXCEPT ![w].pc = "walk", ![w].todo = todo]
    BY <1>4 DEF SelectChildren
  <2> QED BY <1>1, <2>1, <2>2 DEF HandlerType
<1>5. CASE OpenOfWalk(w)
  <2>1. handler[w].pc = "walk" /\ UNCHANGED <<conn, listed, there, task, inbox, sessions, spent>>
    BY <1>5 DEF OpenOfWalk, At, catalogue
  <2>2. CASE Head(handler[w].todo) \in there
    <3>1. PICK k, n : handler' = [handler EXCEPT ![w].pc = "map", ![w].info = n, ![w].key = k]
      BY <1>5, <2>2 DEF OpenOfWalk
    <3> QED BY <1>1, <1>5, <2>1, <3>1 DEF HandlerType
  <2>3. CASE Head(handler[w].todo) \notin there
    <3>1. PICK todo : handler' = [handler EXCEPT ![w].todo = todo]
      BY <1>5, <2>3 DEF OpenOfWalk
    <3> QED BY <1>1, <1>5, <2>1, <3>1 DEF HandlerType
  <2> QED BY <2>2, <2>3
<1>6. CASE WalkEnds(w)
  <2>1. handler[w].pc = "walk" /\ UNCHANGED <<conn, listed, there, task, inbox, sessions, spent, infos>>
    BY <1>6 DEF WalkEnds, At, memory, catalogue
  <2> QED BY <1>1, <1>6, <2>1 DEF WalkEnds, Ends
<1> QED BY <1>2, <1>3, <1>4, <1>5, <1>6 DEF FolderStep

LEMMA FolderMoves ==
  ASSUME Typed, InOrder, NEW w \in Workers, FolderStep(w)
  PROVE  Moves(w)
<1>1. handler[w].pc # "idle" /\ UNCHANGED <<conn, listed, there, task, inbox, sessions, spent>>
  BY FolderIs
<1>2. \A v \in Workers \ {w} : handler'[v] = handler[v]
  BY FolderIs
<1>3. handler'[w] = Idle \/ (handler'[w].rq = handler[w].rq /\ handler'[w].pc # "idle")
  BY FolderIs
<1> QED BY <1>1, <1>2, <1>3, Plain

LEMMA BlockMoves ==
  ASSUME Typed, InOrder, NEW w \in Workers, Find(w) \/ SeekBack(w) \/ LoadPos(w) \/ StorePos(w) \/ Read(w)
  PROVE  Moves(w)
<1>1. handler[w].pc # "idle"
  BY DEF Find, SeekBack, LoadPos, StorePos, Read, At
<1>2. /\ UNCHANGED <<conn, listed, there, task, inbox, sessions>>
      /\ spent' = spent \/ spent' = [spent EXCEPT !.starved = 1]
  BY DEF Find, SeekBack, LoadPos, StorePos, Read, memory, catalogue
<1>3. /\ \A v \in Workers \ {w} : handler'[v] = handler[v]
      /\ handler'[w] = Idle \/ (handler'[w].rq = handler[w].rq /\ handler'[w].pc # "idle")
  <2>1. CASE Find(w)
    BY <2>1 DEF Find, AfterFind, Ends, Typed, HandlerType
  <2>2. CASE Read(w)
    BY <2>2 DEF Read, Typed, HandlerType
  <2>3. CASE SeekBack(w) \/ LoadPos(w) \/ StorePos(w)
    BY <2>3 DEF SeekBack, LoadPos, StorePos, Goes, Typed, HandlerType
  <2> QED BY <2>1, <2>2, <2>3
<1> QED BY <1>1, <1>2, <1>3, Plain

LEMMA ContinueMoves ==
  ASSUME Typed, InOrder, NEW w \in Workers, Lookup(w) \/ Reselect(w) \/ Reopen(w) \/ Seek(w) \/ SetPos(w)
  PROVE  Moves(w)
<1>1. handler[w].pc # "idle"
  BY DEF Lookup, Reselect, Reopen, Seek, SetPos, At
<1>2. UNCHANGED <<conn, listed, there, task, inbox, sessions, spent>>
  BY DEF Lookup, Reselect, Reopen, Seek, SetPos, memory, catalogue
<1>3. /\ \A v \in Workers \ {w} : handler'[v] = handler[v]
      /\ handler'[w] = Idle \/ (handler'[w].rq = handler[w].rq /\ handler'[w].pc # "idle")
  <2>1. CASE Lookup(w) \/ Reselect(w)
    BY <2>1 DEF Lookup, Reselect, Goes, Ends, Typed, HandlerType
  <2>2. CASE Reopen(w) \/ Seek(w) \/ SetPos(w)
    BY <2>2 DEF Reopen, Seek, SetPos, Goes, Ends, Typed, HandlerType
  <2> QED BY <2>1, <2>2
<1> QED BY <1>1, <1>2, <1>3, Plain

LEMMA SessionMoves ==
  ASSUME Typed, InOrder, NEW w \in Workers, MapInsert(w) \/ Remap(w) \/ Erase(w)
  PROVE  Moves(w)
<1>1. handler[w].pc \in {"map", "remap", "erase"} /\ (~MapInsert(w) => handler[w].pc # "map")
  BY DEF MapInsert, Remap, Erase, At
<1>2. UNCHANGED <<conn, listed, there, task, inbox, spent>>
  BY DEF MapInsert, Remap, Erase, catalogue
<1>3. /\ \A v \in Workers \ {w} : handler'[v] = handler[v]
      /\ handler'[w] = Idle \/ (handler'[w].rq = handler[w].rq /\ handler'[w].pc # "idle")
  BY DEF MapInsert, Remap, Erase, Goes, Ends, Typed, HandlerType
<1>4. Busy(w) /\ (~MapInsert(w) => Rq(w).key = handler[w].key)
  BY <1>1, AtItsKey DEF Rq
<1>5. \A l \in Keys : l # handler[w].key => sessions'[l] = sessions[l]
  BY <1>4 DEF MapInsert, Remap, Erase, Typed
<1> QED BY <1>1, <1>2, <1>3, <1>4, <1>5, FaultsStay DEF Moves

LEMMA SendHeaderMoves ==
  ASSUME Typed, InOrder, NEW w \in Workers, SendHeader(w)
  PROVE  Moves(w)
<1>1. handler[w].pc = "sendheader"
  BY DEF SendHeader, At
<1>2. UNCHANGED <<conn, listed, there, sessions, spent>>
  BY DEF SendHeader, catalogue, memory
<1>3. /\ \A v \in Workers \ {w} : handler'[v] = handler[v]
      /\ handler'[w] = Idle \/ (handler'[w].rq = handler[w].rq /\ handler'[w].pc # "idle")
  BY <1>1 DEF SendHeader, Ends, Typed, HandlerType
<1>4. PICK k, f : k = handler[w].key /\ f = Info(w).file /\ GetsHeader(Rq(w), k, f)
  BY DEF SendHeader
<1>5. /\ \A l \in Keys : l # k => task'[l] = task[l]
      /\ inbox \subseteq inbox'
      /\ \A r \in inbox' : r \in inbox \/ (r.conn = conn /\ r.key = k /\ r.op = "header")
  BY <1>4 DEF GetsHeader, Request, Typed
<1> QED BY <1>1, <1>2, <1>3, <1>4, <1>5, AtItsKey, FaultsStay DEF Moves

LEMMA SendBlockMoves ==
  ASSUME Typed, InOrder, NEW w \in Workers, SendBlock(w)
  PROVE  Moves(w)
<1>1. handler[w].pc = "send"
  BY DEF SendBlock, At
<1>2. UNCHANGED <<conn, listed, there, sessions>>
  BY DEF SendBlock, catalogue, memory
<1>3. handler'[w] = Idle /\ \A v \in Workers \ {w} : handler'[v] = handler[v]
  BY DEF SendBlock, Ends, Typed
<1>4. PICK k : k = handler[w].key /\ Rq(w).key = k /\ Busy(w)
  BY <1>1, AtItsKey DEF Rq
<1>5. GetsBlock(Rq(w), Info(w), handler[w].block)
  BY DEF SendBlock
<1>6. /\ \A l \in Keys : l # k => task'[l] = task[l]
      /\ inbox \subseteq inbox'
      /\ \A r \in inbox' : r \in inbox \/ (r.conn = conn /\ r.key = k /\ r.op = "content")
      /\ spent' = spent \/ Spend("refused")
  BY <1>4, <1>5 DEF GetsBlock, Writes, Request, Typed
<1>7. "refused" \in Kinds
  BY DEF Kinds
<1> QED BY <1>1, <1>2, <1>3, <1>4, <1>6, <1>7, FaultsStay DEF Moves

LEMMA StepMoves ==
  ASSUME Typed, InOrder, NEW w \in Workers, HandlerSteps(w) PROVE Moves(w)
  BY FileMoves, FolderMoves, BlockMoves, ContinueMoves, SessionMoves, SendHeaderMoves, SendBlockMoves
     DEF HandlerSteps, FileStep, BlockStep, ContinueStep
-----------------------------------------------------------------------------
(* Who is done has the whole file.                                          *)

\* Only a position at the end of the file leads to the deletion of its session.
LEMMA EraseAfterStore ==
  ASSUME Typed, InOrder, NEW w \in Workers, HandlerSteps(w), handler'[w].pc = "erase"
  PROVE  StorePos(w)
<1>1. handler \in [Workers -> HandlerType] /\ Idle.pc # "erase"
  BY IdleTyped DEF Typed
<1>2. CASE FileStep(w) \/ FetchFails(w) \/ FetchReturns(w)
  <2>1. CASE Select(w) \/ OpenOfFile(w) \/ FetchFails(w) \/ FetchReturns(w)
    BY <1>1, <2>1 DEF Select, OpenOfFile, FetchFails, FetchReturns, Goes, Ends, HandlerType
  <2>2. CASE MapInsert(w) \/ SendHeader(w)
    BY <1>1, <2>2 DEF MapInsert, SendHeader, Goes, Ends, HandlerType
  <2> QED BY <1>2, <2>1, <2>2 DEF FileStep
<1>3. CASE FolderStep(w)
  BY <1>1, <1>3, FolderIs
<1>4. CASE BlockStep(w)
  <2>1. CASE Find(w)
    BY <1>1, <2>1 DEF Find, AfterFind, Ends, HandlerType
  <2>2. CASE Read(w)
    BY <1>1, <2>2 DEF Read, HandlerType
  <2>3. CASE SeekBack(w) \/ LoadPos(w)
    BY <1>1, <2>3 DEF SeekBack, LoadPos, Goes, HandlerType
  <2>4. CASE Erase(w) \/ SendBlock(w)
    BY <1>1, <2>4 DEF Erase, SendBlock, Ends, HandlerType
  <2> QED BY <1>4, <2>1, <2>2, <2>3, <2>4 DEF BlockStep
<1>5. CASE ContinueStep(w)
  BY <1>1, <1>5 DEF ContinueStep, Lookup, Reselect, Reopen, Remap, Seek, SetPos, Goes, Ends, HandlerType
<1> QED BY <1>2, <1>3, <1>4, <1>5 DEF HandlerSteps

\* What the handler of an answer has when its position is at the end of the file.
LEMMA StoreHasAll ==
  ASSUME Typed, InOrder, NEW w \in Workers, StorePos(w), handler'[w].pc = "erase"
  PROVE  HasAll(task[handler[w].key]) /\ handler'[w].key = handler[w].key
<1>1. handler[w].pc = "store"
  BY DEF StorePos, At
<1>2. PICK h, k, t, s, I : WorksOn(w, h, k, t, s, I)
  BY <1>1, NoWalk, AtWork
<1>3. h = handler[w] /\ h.pc = "store" /\ h.key = k /\ t = task[k] /\ Info(w) = I[h.info]
  BY <1>1, <1>2 DEF WorksOn, Info
<1>4. h.info = s /\ I[s].file = t.file /\ Len(t.got) \in Nat /\ h.rq.n \in Nat
  BY <1>2, <1>3, SessionOpen
<1>5. h.pos = Len(t.got) - h.rq.n
  BY <1>2, <1>3 DEF WorksOn, HandGood, BlockGood
<1>6. handler' = [handler EXCEPT ![w].pc = IF h.pos + h.rq.n >= FileSize[t.file] THEN "erase" ELSE "read"]
  BY <1>3, <1>4 DEF StorePos, Goes, Rq
<1>7. h.pos + h.rq.n >= FileSize[t.file] /\ handler'[w].key = h.key
  BY <1>3, <1>6 DEF Typed, HandlerType
<1>8. Len(t.got) >= FileSize[t.file]
  <2>1. PICK a, b, p, q : a = Len(t.got) /\ b = h.rq.n /\ p = h.pos /\ q = FileSize[t.file]
    OBVIOUS
  <2>2. a \in Nat /\ b \in Nat /\ p = a - b /\ p + b >= q
    BY <1>4, <1>5, <1>7, <2>1
  <2>3. p + b = a
    BY <2>2
  <2> QED BY <2>1, <2>2, <2>3
<1> QED BY <1>3, <1>7, <1>8 DEF HasAll

\* A client is done exactly when it has the whole file.
LEMMA SendsWhole ==
  ASSUME Typed, InOrder, Whole, NEW w \in Workers, SendHeader(w) \/ SendBlock(w), NEW k \in Keys, task'[k].pc = "done"
  PROVE  HasAll(task'[k])
<1>1. task \in [Keys -> TaskType]
  BY DEF Typed
<1>2. CASE SendHeader(w)
  <2>1. PICK l, f : GetsHeader(Rq(w), l, f)
    BY <1>2 DEF SendHeader
  <2>2. task' = task \/ task' = [task EXCEPT ![l] = NewTask(f)]
    BY <2>1 DEF GetsHeader
  <2>3. task'[k] = task[k]
    BY <1>1, <2>2 DEF NewTask
  <2> QED BY <2>3 DEF Whole
<1>3. CASE SendBlock(w)
  <2>1. PICK l : l = Rq(w).key /\ (task' = task \/ \E got : Writes(l, got))
    BY <1>3 DEF SendBlock, GetsBlock
  <2>2. CASE task' = task
    BY <2>2 DEF Whole
  <2>3. ASSUME NEW got, Writes(l, got) PROVE HasAll(task'[k])
    <3>1. CASE k # l
      BY <1>1, <2>3, <3>1 DEF Writes, Whole
    <3>2. CASE k = l
      <4>1. task'[k].got = got /\ task'[k].file = task[k].file
            /\ task'[k].pc = IF Len(got) >= FileSize[task[k].file] THEN "done" ELSE "waiting"
        BY <1>1, <2>3, <3>2 DEF Writes, TaskType
      <4> QED BY <4>1 DEF HasAll
    <3> QED BY <3>1, <3>2
  <2> QED BY <2>1, <2>2, <2>3
<1> QED BY <1>2, <1>3

LEMMA SendsIs ==
  ASSUME NEW w \in Workers, HandlerSteps(w)
  PROVE  /\ handler[w].pc = "sendheader" => SendHeader(w)
         /\ handler[w].pc = "send" => SendBlock(w)
  BY DEF HandlerSteps, FileStep, FolderStep, BlockStep, ContinueStep, At, Select, OpenOfFile, MapInsert, FetchFails,
         FetchReturns, SelectFolder, SendFolder, SelectChildren, OpenOfWalk, WalkEnds, Find, SeekBack, LoadPos, StorePos, Erase, Read, Lookup,
         Reselect, Reopen, Remap, Seek, SetPos, SendHeader, SendBlock

LEMMA WholeStep ==
  ASSUME Typed, InOrder, Whole, NEW w \in Workers, HandlerSteps(w)
  PROVE  Whole'
<1>1. Moves(w)
  BY StepMoves
<1>2. ASSUME NEW k \in Keys, task'[k].pc = "done" PROVE HasAll(task'[k])
  <2>1. CASE task' = task
    BY <1>2, <2>1 DEF Whole
  <2>2. CASE handler[w].pc \in {"sendheader", "send"}
    BY <1>2, <2>2, SendsIs, SendsWhole
  <2> QED BY <1>1, <2>1, <2>2 DEF Moves
<1>3. ASSUME NEW v \in Workers, handler'[v].pc = "erase" PROVE HasAll(task'[handler'[v].key])
  <2>1. CASE v = w
    <3>1. StorePos(w)
      BY <1>3, <2>1, EraseAfterStore
    <3>2. task' = task
      BY <3>1 DEF StorePos
    <3> QED BY <1>3, <2>1, <3>1, <3>2, StoreHasAll
  <2>2. CASE v # w
    <3>1. handler'[v] = handler[v] /\ handler[v].pc = "erase" /\ HasAll(task[handler[v].key])
      BY <1>1, <1>3, <2>2 DEF Moves, Whole
    <3>2. Busy(v) /\ handler[v].rq.op # "folder" /\ handler[v].key \in Keys /\ Busy(w)
      BY <1>1, <3>1, AtItsKey DEF Moves
    <3>3. handler[w].key # handler[v].key \/ handler[w].pc \in Between
      BY <2>2, <3>2, Alone
    <3>4. task'[handler[v].key] = task[handler[v].key]
      BY <1>1, <3>2, <3>3 DEF Moves
    <3> QED BY <3>1, <3>4
  <2> QED BY <2>1, <2>2
<1> QED BY <1>2, <1>3 DEF Whole

\* A task keeps what it has when the client asks, goes on or loses its connection.
LEMMA WholeOf ==
  ASSUME Whole, \A k \in Keys : /\ task'[k].got = task[k].got /\ task'[k].file = task[k].file
                                /\ task'[k].pc = "done" => task[k].pc = "done",
         \A w \in Workers : handler'[w].pc = "erase" => handler'[w] = handler[w] /\ handler[w].key \in Keys
  PROVE  Whole'
  BY DEF Whole, HasAll

\* What a request taken up by a worker makes of it.
LEMMA DealIs ==
  ASSUME Typed, InOrder, NEW w \in Workers, Deal(w)
  PROVE  \E rq \in inbox :
           /\ inbox' = inbox \ {rq} /\ rq \in Requests /\ handler[w] = Idle
           /\ \A v \in Workers \ {w} : handler'[v] = handler[v]
           /\ handler'[w].rq = rq /\ handler'[w].key = rq.key /\ handler'[w].todo = <<rq.file>> /\ handler'[w].info = 0
           /\ handler'[w].pc = First(rq.op)
           /\ rq.op \in {"file", "folder", "header", "content", "continue"}
           /\ handler'[w].pc \in {"select", "folder", "find", "lookup"}
           /\ rq.op = "content" => handler'[w].pc = "find"
           /\ rq.op = "folder" => handler'[w].pc = "folder"
           /\ UNCHANGED <<listed, there, stored, sessions, infos, task, conn, spent>>
<1>1. PICK rq \in inbox :
        /\ handler[w] = Idle
        /\ inbox' = inbox \ {rq}
        /\ handler' = [handler EXCEPT ![w] = [Idle EXCEPT !.pc = First(rq.op), !.rq = rq, !.key = rq.key, !.todo = <<rq.file>>]]
        /\ UNCHANGED <<catalogue, memory, task, conn, spent>>
  BY DEF Deal
<1>2. rq \in Requests /\ rq.op \in {"file", "folder", "header", "content", "continue"}
  BY DEF Typed, Requests
<1>3. PICK pc, todo, key : pc = First(rq.op) /\ todo = <<rq.file>> /\ key = rq.key
  OBVIOUS
<1>4. PICK h : h = [Idle EXCEPT !.pc = pc, !.rq = rq, !.key = key, !.todo = todo]
  OBVIOUS
<1>5. h.pc = pc /\ h.rq = rq /\ h.key = key /\ h.todo = todo /\ h.info = 0
  BY <1>4 DEF Idle
<1>6. handler' = [handler EXCEPT ![w] = h]
  BY <1>1, <1>3, <1>4
<1>7. handler'[w] = h /\ \A v \in Workers \ {w} : handler'[v] = handler[v]
  BY <1>6 DEF Typed
<1>8. /\ pc \in {"select", "folder", "find", "lookup"} /\ (rq.op = "content" => pc = "find")
      /\ rq.op = "folder" => pc = "folder"
  BY <1>2, <1>3 DEF First
<1> QED BY <1>1, <1>2, <1>3, <1>5, <1>7, <1>8 DEF catalogue, memory

LEMMA BrokenIsAt ==
  ASSUME Typed, NEW k \in Keys
  PROVE  /\ Broken(task[k]).got = task[k].got /\ Broken(task[k]).file = task[k].file
         /\ Broken(task[k]).pc = "done" => task[k].pc = "done"
<1>1. task[k] \in TaskType
  BY DEF Typed
<1> QED BY <1>1 DEF Broken, TaskType

\* What a client does changes the pc of one task only.
LEMMA ClientIs ==
  ASSUME Typed, NEW k \in Keys, (k \in DOMAIN Wanted /\ ClientAsks(k)) \/ ClientContinues(k)
  PROVE  /\ \A l \in Keys : task'[l].got = task[l].got /\ task'[l].file = task[l].file /\ (l # k => task'[l] = task[l])
         /\ task'[k].pc \in {"asked", "folder", "waiting"}
         /\ inbox \subseteq inbox' /\ UNCHANGED <<listed, there, stored, sessions, infos, handler, conn, spent>>
<1>1. PICK pc : task' = [task EXCEPT ![k].pc = pc] /\ pc \in {"asked", "folder", "waiting"}
  BY DEF ClientAsks, ClientContinues
<1>2. \A l \in Keys : task[l] \in TaskType
  BY DEF Typed
<1> QED BY <1>1, <1>2 DEF Typed, TaskType, ClientAsks, ClientContinues, catalogue, memory

LEMMA WholeKeeps ==
  ASSUME Apart, Typed, InOrder, Whole, [Next]_downloadVars PROVE Whole'
<1>0. \A w \in Workers : handler[w].pc = "erase" => handler[w].key \in Keys
  BY AtItsKey
<1>1. ASSUME NEW k \in Keys, (k \in DOMAIN Wanted /\ ClientAsks(k)) \/ ClientContinues(k) PROVE Whole'
  <2>1. \A l \in Keys : task'[l].got = task[l].got /\ task'[l].file = task[l].file /\ (task'[l].pc = "done" => task[l].pc = "done")
    BY <1>1, ClientIs
  <2>2. handler' = handler
    BY <1>1, ClientIs
  <2> QED BY <1>0, <2>1, <2>2, WholeOf
<1>2. CASE Disconnect \/ Crash
  <2>1. task' = [k \in Keys |-> Broken(task[k])] /\ \A w \in Workers : handler'[w] = Idle \/ handler'[w] = handler[w]
    BY <1>2 DEF Disconnect, Crash
  <2>2. \A k \in Keys : /\ task'[k].got = task[k].got /\ task'[k].file = task[k].file
                        /\ task'[k].pc = "done" => task[k].pc = "done"
    BY <2>1, BrokenIsAt
  <2>3. \A w \in Workers : handler'[w].pc = "erase" => handler'[w] = handler[w] /\ handler[w].key \in Keys
    BY <1>0, <2>1, IdleTyped
  <2> QED BY <2>2, <2>3, WholeOf
<1>3. ASSUME NEW w \in Workers, Deal(w) PROVE Whole'
  <2>1. task' = task /\ handler'[w].pc # "erase" /\ \A v \in Workers \ {w} : handler'[v] = handler[v]
    BY <1>3, DealIs
  <2>2. \A v \in Workers : handler'[v].pc = "erase" => handler'[v] = handler[v] /\ handler[v].key \in Keys
    BY <1>0, <2>1
  <2> QED BY <2>1, <2>2, WholeOf
<1>4. ASSUME NEW w \in Workers, HandlerSteps(w) PROVE Whole'
  BY <1>4, WholeStep
<1>5. ASSUME Others PROVE Whole'
  <2>1. UNCHANGED <<handler, task>>
    BY <1>5, OthersAre
  <2> QED BY <2>1 DEF Whole, HasAll
<1>6. CASE UNCHANGED downloadVars
  BY <1>6 DEF downloadVars, Whole, HasAll
<1>7. \A k \in DOMAIN Wanted : k \in Keys
  BY DownloadAssumption
<1> QED BY <1>1, <1>2, <1>3, <1>4, <1>5, <1>6, <1>7 DEF Next, Others, ClientStep, WorkerStep, HandlerSteps
-----------------------------------------------------------------------------
(* A download that is done leaves no session.                               *)

\* What the client is sent makes it wait for more, or done.
LEMMA SendsPc ==
  ASSUME Typed, NEW w \in Workers, SendHeader(w) \/ SendBlock(w), NEW k \in Keys
  PROVE  task'[k] = task[k] \/ task'[k].pc \in {"waiting", "done"}
<1>1. task[k] \in TaskType /\ task \in [Keys -> TaskType]
  BY DEF Typed
<1>2. CASE SendHeader(w)
  <2>1. PICK l, f : GetsHeader(Rq(w), l, f)
    BY <1>2 DEF SendHeader
  <2>2. task' = task \/ task' = [task EXCEPT ![l] = NewTask(f)]
    BY <2>1 DEF GetsHeader
  <2> QED BY <1>1, <2>2 DEF NewTask
<1>3. CASE SendBlock(w)
  <2>1. PICK l : l = Rq(w).key /\ (task' = task \/ \E got : Writes(l, got))
    BY <1>3 DEF SendBlock, GetsBlock
  <2>2. ASSUME NEW got, Writes(l, got) PROVE task'[k] = task[k] \/ task'[k].pc \in {"waiting", "done"}
    BY <1>1, <2>2 DEF Writes, TaskType
  <2> QED BY <2>1, <2>2
<1> QED BY <1>2, <1>3

\* A connection lost and a crash are counted.
LEMMA NotSteady == ASSUME Typed, Disconnect \/ Crash PROVE ~Steady'
<1>1. PICK what \in {"lost", "crash"} : Spend(what)
  BY DEF Disconnect, Crash
<1>2. spent \in [Kinds -> Nat] /\ what \in Kinds /\ spent[what] \in Nat
  BY DEF Typed, SpentType, Kinds
<1>3. spent'[what] = spent[what] + 1
  BY <1>1, <1>2 DEF Spend
<1>4. spent'[what] # 0
  BY <1>2, <1>3
<1> QED BY <1>4 DEF Steady

LEMMA ConnectedKeeps ==
  ASSUME Apart, Typed, InOrder, Connected, [Next]_downloadVars PROVE Connected'
<1>1. ASSUME NEW k \in Keys, k \in DOMAIN Wanted, ClientAsks(k) PROVE Connected'
  <2>1. PICK r : inbox' = inbox \cup {r} /\ r.conn = conn /\ r.op \in {"file", "folder"}
    <3>1. PICK op : op = (IF Wanted[k] \in Files THEN "file" ELSE "folder")
      OBVIOUS
    <3>2. PICK r : r = [op |-> op, key |-> k, file |-> Wanted[k], n |-> 0, ok |-> TRUE, conn |-> conn]
      OBVIOUS
    <3>3. inbox' = inbox \cup {r} /\ r.conn = conn /\ r.op = op /\ op \in {"file", "folder"}
      BY <1>1, <3>1, <3>2 DEF ClientAsks, Request
    <3> QED BY <3>3
  <2>2. UNCHANGED <<conn, handler, spent>> /\ \A l \in Keys : task'[l] = task[l] \/ task'[l].pc \in {"asked", "folder"}
    <3>1. PICK pc : task' = [task EXCEPT ![k].pc = pc] /\ pc \in {"asked", "folder"}
      BY <1>1 DEF ClientAsks
    <3> QED BY <1>1, <3>1, ClientIs DEF Typed, TaskType
  <2> QED BY <2>1, <2>2 DEF Connected, Steady, Busy
<1>2. ASSUME NEW k \in Keys, ClientContinues(k) PROVE Connected'
  <2>1. task[k].pc = "lost" /\ spent' = spent
    BY <1>2 DEF ClientContinues
  <2> QED BY <2>1 DEF Connected, Steady
<1>3. CASE Disconnect \/ Crash
  BY <1>3, NotSteady DEF Connected
<1>4. ASSUME NEW w \in Workers, Deal(w) PROVE Connected'
  <2>1. PICK rq \in inbox : /\ inbox' = inbox \ {rq} /\ handler'[w].rq = rq
                            /\ \A v \in Workers \ {w} : handler'[v] = handler[v]
                            /\ UNCHANGED <<task, conn, spent>>
    BY <1>4, DealIs
  <2> QED BY <2>1 DEF Connected, Steady, Busy
<1>5. ASSUME NEW w \in Workers, HandlerSteps(w), Steady'
      PROVE  /\ \A r \in inbox' : r.conn = conn' /\ r.op # "continue"
             /\ \A v \in Workers : Busy(v)' => handler'[v].rq.conn = conn' /\ handler'[v].rq.op # "continue"
             /\ \A k \in Keys : task'[k].pc \notin {"lost", "gone"}
  <2>1. Moves(w) /\ Idle.rq = None
    BY <1>5, StepMoves, IdleTyped
  <2>2. /\ \A r \in inbox : r.conn = conn /\ r.op # "continue"
        /\ \A v \in Workers : Busy(v) => handler[v].rq.conn = conn /\ handler[v].rq.op # "continue"
        /\ \A k \in Keys : task[k].pc \notin {"lost", "gone"}
    BY <1>5, <2>1 DEF Moves, Connected
  <2>3. \A r \in inbox' : r.conn = conn' /\ r.op # "continue"
    BY <2>1, <2>2 DEF Moves
  <2>4. \A v \in Workers : Busy(v)' => handler'[v].rq.conn = conn' /\ handler'[v].rq.op # "continue"
    BY <2>1, <2>2 DEF Moves, Busy
  <2>5. \A k \in Keys : task'[k].pc \notin {"lost", "gone"}
    <3>1. CASE handler[w].pc \in {"sendheader", "send"}
      BY <1>5, <2>2, <3>1, SendsIs, SendsPc
    <3>2. CASE task' = task
      BY <2>2, <3>2
    <3> QED BY <2>1, <3>1, <3>2 DEF Moves
  <2> QED BY <2>3, <2>4, <2>5
<1>6. ASSUME NEW w \in Workers, HandlerSteps(w) PROVE Connected'
  BY <1>5, <1>6 DEF Connected
<1>7. ASSUME Others PROVE Connected'
  <2>1. UNCHANGED <<inbox, handler, task, conn>>
    BY <1>7, OthersAre
  <2>2. Steady' => Steady
    BY <1>7, OthersAre
  <2> QED BY <2>1, <2>2 DEF Connected, Busy
<1>8. CASE UNCHANGED downloadVars
  BY <1>8 DEF downloadVars, Connected, Steady, Busy
<1>9. \A k \in DOMAIN Wanted : k \in Keys
  BY DownloadAssumption
<1> QED BY <1>1, <1>2, <1>3, <1>4, <1>6, <1>7, <1>8, <1>9 DEF Next, Others, ClientStep, WorkerStep, HandlerSteps

\* The step of a handler on its way to the erase brings it there, or the session is gone.
LEMMA FinishesOn ==
  ASSUME Typed, InOrder, Whole, NEW w \in Workers, HandlerSteps(w), Busy(w), Finishes(handler[w]),
         NEW k, k = handler[w].rq.key, task[k].pc = "done", sessions'[k] # None
  PROVE  handler'[w].rq = handler[w].rq /\ Finishes(handler'[w])
<1>1. handler[w].pc \in {"find", "load", "store", "erase"} /\ handler[w].rq.op = "content" /\ handler[w].rq.ok
  BY DEF Finishes
<1>2. Find(w) \/ LoadPos(w) \/ StorePos(w) \/ Erase(w)
  BY <1>1 DEF HandlerSteps, FileStep, FolderStep, BlockStep, ContinueStep, At, Select, OpenOfFile, MapInsert, FetchFails,
         FetchReturns, SelectFolder, SendFolder, SelectChildren, OpenOfWalk, WalkEnds, SeekBack, Read, Lookup,
         Reselect, Reopen, Remap, Seek, SetPos, SendHeader, SendBlock
<1>3. handler \in [Workers -> HandlerType] /\ sessions \in [Keys -> Nat \cup {None}] /\ k \in Keys
  BY RequestOf DEF Typed
<1>4. CASE Find(w)
  <2>1. sessions[k] # None
    BY <1>4 DEF Find, memory
  <2>2. handler' = [handler EXCEPT ![w].pc = "load", ![w].info = sessions[k]]
    BY <1>1, <1>4, <2>1 DEF Find, Rq, AfterFind
  <2> QED BY <1>1, <1>3, <2>2 DEF Finishes, HandlerType
<1>5. CASE LoadPos(w)
  BY <1>1, <1>3, <1>5 DEF LoadPos, Finishes, HandlerType
<1>6. CASE StorePos(w)
  <2>1. handler[w].pc = "store"
    BY <1>6 DEF StorePos, At
  <2>2. PICK h, t, s, I : WorksOn(w, h, k, t, s, I)
    BY <2>1, NoWalk, AtWork DEF WorksOn
  <2>3. h = handler[w] /\ h.pc = "store" /\ t = task[k] /\ Info(w) = I[h.info] /\ HasAll(t)
    BY <1>3, <2>1, <2>2 DEF WorksOn, Info, Whole
  <2>4. h.info = s /\ I[s].file = t.file /\ Len(t.got) \in Nat /\ h.rq.n \in Nat
    BY <2>2, <2>3, SessionOpen
  <2>5. h.pos = Len(t.got) - h.rq.n
    BY <2>2, <2>3 DEF WorksOn, HandGood, BlockGood
  <2>6. handler' = [handler EXCEPT ![w].pc = IF h.pos + h.rq.n >= FileSize[t.file] THEN "erase" ELSE "read"]
    BY <1>6, <2>3, <2>4 DEF StorePos, Goes, Rq
  <2>7. h.pos + h.rq.n >= FileSize[t.file]
    <3>1. PICK a, b, p, q : a = Len(t.got) /\ b = h.rq.n /\ p = h.pos /\ q = FileSize[t.file]
      OBVIOUS
    <3>2. a \in Nat /\ b \in Nat /\ p = a - b /\ a >= q
      BY <2>3, <2>4, <2>5, <3>1 DEF HasAll
    <3>3. p + b = a
      BY <3>2
    <3> QED BY <3>1, <3>2, <3>3
  <2>8. handler' = [handler EXCEPT ![w].pc = "erase"]
    BY <2>6, <2>7
  <2> QED BY <1>1, <1>3, <2>8 DEF Finishes, HandlerType
<1>7. CASE Erase(w)
  BY <1>3, <1>7 DEF Erase, Rq
<1> QED BY <1>2, <1>4, <1>5, <1>6, <1>7

LEMMA ClosingStep ==
  ASSUME Typed, InOrder, Whole, Connected, Closing, NEW w \in Workers, HandlerSteps(w), Steady',
         NEW k \in Keys, task'[k].pc = "done", sessions'[k] # None
  PROVE  Finishing(k)'
<1>1. Moves(w) /\ Busy(w) /\ Steady
  BY StepMoves DEF Moves
<1>2. CASE task'[k] = task[k] /\ sessions'[k] = sessions[k]
  <2>1. Finishing(k)
    BY <1>1, <1>2 DEF Closing
  <2>2. CASE \E r \in inbox : r.key = k /\ r.op = "content" /\ r.ok
    BY <1>1, <2>2 DEF Moves, Finishing
  <2>3. ASSUME NEW v \in Workers, Busy(v), handler[v].rq.key = k, Finishes(handler[v]) PROVE Finishing(k)'
    <3>1. CASE v # w
      <4>1. handler'[v] = handler[v]
        BY <1>1, <3>1 DEF Moves
      <4>2. Busy(v)' /\ handler'[v].rq.key = k /\ Finishes(handler'[v])
        BY <2>3, <4>1 DEF Busy
      <4> QED BY <4>2 DEF Finishing, Finishes
    <3>2. CASE v = w
      <4>1. handler'[w].rq = handler[w].rq /\ Finishes(handler'[w])
        BY <1>2, <2>3, <3>2, FinishesOn
      <4>2. Busy(w)' /\ handler'[w].rq.key = k /\ Finishes(handler'[w])
        BY <1>1, <2>3, <3>2, <4>1 DEF Busy
      <4> QED BY <4>2 DEF Finishing, Finishes
    <3> QED BY <3>1, <3>2
  <2> QED BY <2>1, <2>2, <2>3 DEF Finishing
<1>3. ASSUME ~(task'[k] = task[k] /\ sessions'[k] = sessions[k]) PROVE Finishing(k)'
  <2>1. k = handler[w].key /\ handler[w].pc \in {"sendheader", "send", "map", "remap", "erase"}
    BY <1>1, <1>3 DEF Moves
  <2>2. HandGood(handler[w], task[k], sessions[k], infos[k]) /\ KeyGood(task[k], sessions[k], infos[k])
    BY <2>1, AtItsKey DEF InOrder, Keyed
  <2>3. CASE handler[w].pc \in {"map", "sendheader"}
    <3>1. task[k].pc # "done"
      BY <2>2, <2>3 DEF HandGood, OpenGood, KeyGood
    <3>2. task'[k] = task[k] \/ task'[k].pc = "waiting"
      <4>1. CASE task' = task
        BY <4>1
      <4>2. CASE SendHeader(w)
        <5>1. PICK l, f : GetsHeader(Rq(w), l, f)
          BY <4>2 DEF SendHeader
        <5>2. task' = task \/ task' = [task EXCEPT ![l] = NewTask(f)]
          BY <5>1 DEF GetsHeader
        <5> QED BY <5>2 DEF NewTask, Typed
      <4> QED BY <1>1, <2>3, <4>1, <4>2, SendsIs DEF Moves
    <3> QED BY <3>1, <3>2
  <2>4. CASE handler[w].pc = "remap"
    <3>1. handler[w].rq.op = "continue"
      BY <2>2, <2>4 DEF HandGood, BlockGood
    <3> QED BY <1>1, <3>1 DEF Connected
  <2>5. CASE handler[w].pc = "erase"
    <3>1. Erase(w)
      BY <2>5 DEF HandlerSteps, FileStep, FolderStep, BlockStep, ContinueStep, At, Select, OpenOfFile, MapInsert, FetchFails,
         FetchReturns, SelectFolder, SendFolder, SelectChildren, OpenOfWalk, WalkEnds, Find, SeekBack, LoadPos, StorePos, Read, SendBlock, SendHeader,
         Lookup, Reselect, Reopen, Remap, Seek, SetPos
    <3>2. sessions' = [sessions EXCEPT ![Rq(w).key] = None] /\ task' = task
      BY <3>1 DEF Erase
    <3> QED BY <1>3, <3>2 DEF Typed
  <2>6. CASE handler[w].pc = "send"
    <3>1. SendBlock(w)
      BY <2>6, SendsIs
    <3>2. sessions' = sessions /\ GetsBlock(Rq(w), Info(w), handler[w].block)
      BY <3>1 DEF SendBlock, memory
    <3>3. handler[w].key = Rq(w).key
      BY <2>6, AtItsKey DEF Rq
    <3>4. PICK r : inbox' = inbox \cup {r} /\ r.key = k /\ r.op = "content" /\ r.ok
      <4>1. task' # task
        BY <1>3, <3>2
      <4>2. inbox' = inbox \cup {Request("content", Rq(w).key, task[Rq(w).key].file, handler[w].block[2], TRUE)}
        BY <3>2, <4>1 DEF GetsBlock
      <4>3. PICK f, n : f = task[Rq(w).key].file /\ n = handler[w].block[2]
        OBVIOUS
      <4>4. PICK r : r = [op |-> "content", key |-> k, file |-> f, n |-> n, ok |-> TRUE, conn |-> conn]
        OBVIOUS
      <4>5. inbox' = inbox \cup {r} /\ r.key = k /\ r.op = "content" /\ r.ok
        BY <2>1, <3>3, <4>2, <4>3, <4>4 DEF Request
      <4> QED BY <4>5
    <3> QED BY <3>4 DEF Finishing
  <2> QED BY <2>1, <2>3, <2>4, <2>5, <2>6
<1> QED BY <1>2, <1>3

\* A step that takes nothing away from what is under way.
LEMMA ClosingSame ==
  ASSUME Closing, Steady' => Steady, inbox \subseteq inbox', UNCHANGED <<handler, sessions>>,
         \A k \in Keys : task'[k].pc = "done" => task[k].pc = "done"
  PROVE  Closing'
<1>1. ASSUME NEW k, Finishing(k) PROVE Finishing(k)'
  BY <1>1 DEF Finishing, Busy
<1> QED BY <1>1 DEF Closing

LEMMA ClosingKeeps ==
  ASSUME Apart, Typed, InOrder, Whole, Connected, Closing, [Next]_downloadVars PROVE Closing'
<1>1. ASSUME NEW k \in Keys, (k \in DOMAIN Wanted /\ ClientAsks(k)) \/ ClientContinues(k) PROVE Closing'
  <2>1. /\ inbox \subseteq inbox' /\ UNCHANGED <<handler, sessions, spent>>
        /\ \A l \in Keys : task'[l].pc = "done" => task[l].pc = "done"
    BY <1>1, ClientIs
  <2> QED BY <2>1, ClosingSame DEF Steady
<1>2. CASE Disconnect \/ Crash
  BY <1>2, NotSteady DEF Closing
<1>3. ASSUME NEW w \in Workers, Deal(w) PROVE Closing'
  <2>1. PICK rq \in inbox : /\ inbox' = inbox \ {rq} /\ handler'[w].rq = rq /\ rq \in Requests /\ handler[w] = Idle
                            /\ \A v \in Workers \ {w} : handler'[v] = handler[v]
                            /\ rq.op = "content" => handler'[w].pc = "find"
                            /\ UNCHANGED <<sessions, task, spent>>
    BY <1>3, DealIs
  <2>2. rq # None /\ Idle.rq = None
    BY <2>1, IdleTyped, DownloadAssumption
  <2>3. ASSUME NEW k, Finishing(k) PROVE Finishing(k)'
    <3>1. ASSUME NEW r \in inbox, r.key = k, r.op = "content", r.ok PROVE Finishing(k)'
      <4>1. CASE r = rq
        BY <2>1, <2>2, <3>1, <4>1 DEF Finishing, Finishes, Busy
      <4>2. CASE r # rq
        BY <2>1, <3>1, <4>2 DEF Finishing
      <4> QED BY <4>1, <4>2
    <3>2. ASSUME NEW v \in Workers, Busy(v), handler[v].rq.key = k, Finishes(handler[v]) PROVE Finishing(k)'
      <4>1. v # w /\ handler'[v] = handler[v]
        BY <2>1, <2>2, <3>2 DEF Busy
      <4> QED BY <3>2, <4>1 DEF Finishing, Finishes, Busy
    <3> QED BY <2>3, <3>1, <3>2 DEF Finishing
  <2> QED BY <2>1, <2>3 DEF Closing, Steady
<1>4. ASSUME NEW w \in Workers, HandlerSteps(w) PROVE Closing'
  BY <1>4, ClosingStep DEF Closing
<1>5. ASSUME Others PROVE Closing'
  <2>1. UNCHANGED <<inbox, handler, task, sessions>>
    BY <1>5, OthersAre
  <2>2. Steady' => Steady
    BY <1>5, OthersAre
  <2> QED BY <2>1, <2>2, ClosingSame
<1>6. CASE UNCHANGED downloadVars
  BY <1>6, ClosingSame DEF downloadVars, memory, Steady
<1>7. \A k \in DOMAIN Wanted : k \in Keys
  BY DownloadAssumption
<1> QED BY <1>1, <1>2, <1>3, <1>4, <1>5, <1>6, <1>7 DEF Next, Others, ClientStep, WorkerStep, HandlerSteps
-----------------------------------------------------------------------------
(* Nothing is missing as long as nothing is deleted.                        *)

\* A FileInfo more, made of an open file.
LEMMA OneMoreGood ==
  ASSUME Typed, \A k \in Keys : \A i \in DOMAIN infos[k] : ~infos[k][i].bad,
         NEW l \in Keys, NEW f \in Files, infos' = [infos EXCEPT ![l] = Append(@, NewInfo(f))]
  PROVE  \A k \in Keys : \A i \in DOMAIN infos'[k] : ~infos'[k][i].bad
<1>1. PICK I, e : I = infos[l] /\ e = NewInfo(f) /\ I \in Seq(InfoType) /\ e \in InfoType /\ ~e.bad
  BY NewInfoTyped DEF Typed
<1>2. infos' = [infos EXCEPT ![l] = Append(I, e)]
  BY <1>1
<1>3. DOMAIN Append(I, e) = DOMAIN I \cup {Len(I) + 1} /\ Append(I, e)[Len(I) + 1] = e /\ \A j \in DOMAIN I : Append(I, e)[j] = I[j]
  BY <1>1, OneMore
<1>4. \A i \in DOMAIN Append(I, e) : ~Append(I, e)[i].bad
  BY <1>1, <1>3
<1> QED BY <1>2, <1>4 DEF Typed

\* The FileInfo of a handler changed, but not its descriptor.
LEMMA OneChangedGood ==
  ASSUME Typed, InOrder, \A k \in Keys : \A i \in DOMAIN infos[k] : ~infos[k][i].bad,
         NEW w \in Workers, handler[w].pc # "idle", NEW e, Update(w, e), e.bad = Info(w).bad, handler[w].info \in DOMAIN infos[handler[w].key]
  PROVE  \A k \in Keys : \A i \in DOMAIN infos'[k] : ~infos'[k][i].bad
<1>1. PICK l, j : l = handler[w].key /\ j = handler[w].info /\ l \in Keys
  BY AtItsKey
<1>2. infos' = [infos EXCEPT ![l] = [infos[l] EXCEPT ![j] = e]] /\ j \in DOMAIN infos[l] /\ Info(w) = infos[l][j]
  BY <1>1 DEF Update, Info
<1>3. ~e.bad
  BY <1>1, <1>2
<1>4. \A i \in DOMAIN infos[l] : ~[infos[l] EXCEPT ![j] = e][i].bad
  BY <1>1, <1>2, <1>3
<1> QED BY <1>1, <1>2, <1>4 DEF Typed

\* A handler that goes on reads from a file that is open.
LEMMA StepsGood ==
  ASSUME Apart, Typed, InOrder, \A k \in Keys : \A i \in DOMAIN infos[k] : ~infos[k][i].bad, there = Files,
         NEW w \in Workers, handler[w].pc # "fetch", HandlerSteps(w)
  PROVE  /\ \A k \in Keys : \A i \in DOMAIN infos'[k] : ~infos'[k][i].bad
         /\ handler'[w].pc # "fetch" /\ (handler'[w].pc = "send" => handler'[w].block[2] >= 0)
<1>1. Busy(w) /\ handler[w].pc # "idle" /\ handler \in [Workers -> HandlerType] /\ Idle.pc = "idle" /\ Idle \in HandlerType
  BY StepMoves, IdleTyped DEF Moves, Typed, InOrder, Handled
<1>2. CASE Select(w) \/ MapInsert(w) \/ SendHeader(w)
  <2>1. infos' = infos
    BY <1>2 DEF Select, MapInsert, SendHeader, memory
  <2>2. handler'[w].pc \notin {"fetch", "send"}
    BY <1>1, <1>2 DEF Select, MapInsert, SendHeader, Goes, Ends, HandlerType
  <2> QED BY <2>1, <2>2
<1>3. CASE OpenOfFile(w)
  <2>1. handler[w].pc = "open"
    BY <1>3 DEF OpenOfFile, At
  <2>2. Rq(w).file \in Files /\ Rq(w).key \in Keys
    BY <1>1, <2>1, AtItsKey DEF HandGood, OpenGood, Rq
  <2>3. infos' = [infos EXCEPT ![Rq(w).key] = Append(@, NewInfo(Rq(w).file))]
    BY <1>3, <2>2 DEF OpenOfFile, New
  <2>4. handler'[w].pc = "map"
    BY <1>1, <1>3, <2>2 DEF OpenOfFile, HandlerType
  <2> QED BY <2>2, <2>3, <2>4, OneMoreGood
<1>4. CASE FetchFails(w) \/ FetchReturns(w)
  BY <1>4 DEF FetchFails, FetchReturns, At
<1>5. CASE FolderStep(w)
  <2>2. CASE ~OpenOfWalk(w)
    <3>1. infos' = infos /\ handler'[w].pc \in Between \cup {"idle"}
      BY <1>1, <1>5, <2>2, FolderIs
    <3> QED BY <3>1
  <2>3. CASE OpenOfWalk(w)
    <3>0. handler[w].pc = "walk"
      BY <2>3 DEF OpenOfWalk, At
    <3>1. PICK f : f = Head(handler[w].todo) /\ f \in Files /\ f \in there
      BY <2>3 DEF OpenOfWalk
    <3>2. PICK k, n : infos' = [infos EXCEPT ![k] = Append(@, NewInfo(f))] /\ k = handler[w].key + 1
                      /\ handler' = [handler EXCEPT ![w].pc = "map", ![w].info = n, ![w].key = k]
      BY <2>3, <3>1 DEF OpenOfWalk, New
    <3>3. k \in Keys
      <4>1. Walking(w) /\ handler[w].todo # <<>>
        BY <2>3, <3>0, WalkIs DEF OpenOfWalk
      <4>2. PICK h, r : WalksFor(w, h, r)
        BY <4>1, OnWalk
      <4>3. h = handler[w] /\ h.pc = "walk" /\ h.todo # <<>> /\ Head(h.todo) \in Files
        BY <3>0, <3>1, <4>1, <4>2 DEF WalksFor
      <4>4. h.key + 1 \in Keys
        BY <4>2, <4>3, NextOfWalk
      <4> QED BY <3>2, <4>3, <4>4
    <3>4. handler'[w].pc = "map"
      BY <1>1, <3>2 DEF HandlerType
    <3> QED BY <3>1, <3>2, <3>3, <3>4, OneMoreGood
  <2> QED BY <2>2, <2>3
<1>6. ASSUME handler[w].pc \in {"back", "load", "store", "erase", "read", "send", "seek", "setpos"}
      PROVE  handler[w].info \in DOMAIN infos[handler[w].key] /\ Info(w) \in InfoType /\ ~Info(w).bad /\ ~Info(w).freed
  <2>1. PICK h, k, t, s, I : WorksOn(w, h, k, t, s, I)
    BY <1>6, NoWalk, AtWork
  <2>2. h = handler[w] /\ h.key = k /\ I = infos[k] /\ k \in Keys
    BY <2>1 DEF WorksOn
  <2>3. h.info = s /\ s \in DOMAIN I /\ I[s] \in InfoType /\ ~I[s].freed
    BY <1>6, <2>1, <2>2, SessionOpen
  <2> QED BY <2>2, <2>3 DEF Info
<1>7. CASE Find(w) \/ LoadPos(w) \/ SendBlock(w)
  <2>1. infos' = infos
    BY <1>7 DEF Find, LoadPos, SendBlock, memory
  <2>2. CASE Find(w)
    BY <1>1, <2>1, <2>2 DEF Find, AfterFind, Ends, HandlerType
  <2>3. CASE LoadPos(w) \/ SendBlock(w)
    BY <1>1, <2>1, <2>3 DEF LoadPos, SendBlock, Ends, HandlerType
  <2> QED BY <1>7, <2>2, <2>3
<1>8. CASE SeekBack(w) \/ StorePos(w) \/ Erase(w) \/ Seek(w) \/ SetPos(w)
  <2>1. handler[w].pc \in {"back", "store", "erase", "seek", "setpos"}
    BY <1>8 DEF SeekBack, StorePos, Erase, Seek, SetPos, At
  <2>2. PICK e : Update(w, e) /\ e.bad = Info(w).bad
    <3>1. Info(w) \in InfoType
      BY <1>6, <2>1
    <3>2. CASE SeekBack(w)
      <4>1. Update(w, [Info(w) EXCEPT !.offset = @ - Rq(w).n])
        BY <3>2 DEF SeekBack
      <4> QED BY <3>1, <4>1 DEF InfoType
    <3>3. CASE StorePos(w)
      <4>1. PICK pos : Update(w, [Info(w) EXCEPT !.pos = pos])
        BY <3>3 DEF StorePos
      <4> QED BY <3>1, <4>1 DEF InfoType
    <3>4. CASE Erase(w)
      <4>1. Update(w, [Info(w) EXCEPT !.freed = TRUE])
        BY <3>4 DEF Erase
      <4> QED BY <3>1, <4>1 DEF InfoType
    <3>5. CASE Seek(w)
      <4>1. Update(w, [Info(w) EXCEPT !.offset = Rq(w).n])
        BY <3>5 DEF Seek
      <4> QED BY <3>1, <4>1 DEF InfoType
    <3>6. CASE SetPos(w)
      <4>1. Update(w, [Info(w) EXCEPT !.pos = Rq(w).n])
        BY <3>6 DEF SetPos
      <4> QED BY <3>1, <4>1 DEF InfoType
    <3> QED BY <1>8, <3>2, <3>3, <3>4, <3>5, <3>6
  <2>3. \A k \in Keys : \A i \in DOMAIN infos'[k] : ~infos'[k][i].bad
    BY <1>1, <1>6, <2>1, <2>2, OneChangedGood
  <2>4. handler'[w].pc \notin {"fetch", "send"}
    BY <1>1, <1>8 DEF SeekBack, StorePos, Erase, Seek, SetPos, Goes, Ends, HandlerType
  <2> QED BY <2>3, <2>4
<1>9. CASE Read(w)
  <2>1. handler[w].pc = "read" /\ Info(w) \in InfoType /\ ~Info(w).bad /\ ~Info(w).freed
    BY <1>6, <1>9 DEF Read, At
  <2>2. PICK n, e : n = ReadLen(Info(w)) /\ Update(w, e) /\ e.bad = Info(w).bad
    BY <1>9, <2>1 DEF Read, InfoType
  <2>3. n >= 0
    <3>1. stored[Info(w).file] \in Nat /\ Info(w).offset \in Int /\ Block \in Nat
      BY <2>1, DownloadAssumption DEF Typed, InfoType
    <3> QED BY <2>1, <2>2, <3>1 DEF ReadLen
  <2>4. \A k \in Keys : \A i \in DOMAIN infos'[k] : ~infos'[k][i].bad
    BY <1>1, <1>6, <2>1, <2>2, OneChangedGood
  <2>5. PICK block : block[2] = n /\ (handler'[w] = Idle \/ handler'[w] = [handler[w] EXCEPT !.pc = "send", !.block = block])
    <3>1. handler'[w] = Idle \/ handler'[w] = [handler[w] EXCEPT !.pc = "send", !.block = <<Info(w).offset, n>>]
      BY <1>1, <1>9, <2>2 DEF Read
    <3>2. PICK block : block = <<Info(w).offset, n>>
      OBVIOUS
    <3>3. block[2] = n
      BY <3>2
    <3> QED BY <3>1, <3>2, <3>3
  <2>6. handler'[w].pc # "fetch" /\ (handler'[w].pc = "send" => handler'[w].block[2] = n)
    <3>1. CASE handler'[w] = Idle
      BY <1>1, <3>1
    <3>2. CASE handler'[w] = [handler[w] EXCEPT !.pc = "send", !.block = block]
      <4>1. handler'[w].pc = "send" /\ handler'[w].block = block
        BY <1>1, <3>2 DEF HandlerType
      <4> QED BY <2>5, <4>1
    <3> QED BY <2>5, <3>1, <3>2
  <2> QED BY <2>3, <2>4, <2>6
<1>10. CASE ContinueStep(w) /\ ~Seek(w) /\ ~SetPos(w)
  <2>1. handler'[w].pc \notin {"fetch", "send"}
    BY <1>1, <1>10 DEF ContinueStep, Lookup, Reselect, Reopen, Remap, Goes, Ends, HandlerType
  <2>2. CASE Reopen(w)
    <3>1. handler[w].pc = "reopen"
      BY <2>2 DEF Reopen, At
    <3>2. Rq(w).file \in Files /\ Rq(w).key \in Keys
      BY <1>1, <3>1, AtItsKey DEF HandGood, BlockGood, Rq
    <3>3. infos' = [infos EXCEPT ![Rq(w).key] = Append(@, NewInfo(Rq(w).file))]
      BY <2>2, <3>2 DEF Reopen, New
    <3> QED BY <2>1, <3>2, <3>3, OneMoreGood
  <2>3. CASE ~Reopen(w)
    BY <1>10, <2>1, <2>3 DEF ContinueStep, Lookup, Reselect, Remap, memory
  <2> QED BY <2>2, <2>3
<1> QED BY <1>2, <1>3, <1>4, <1>5, <1>7, <1>8, <1>9, <1>10 DEF HandlerSteps, FileStep, BlockStep, ContinueStep

\* Deletions are counted.
LEMMA NotUndisturbed == ASSUME Typed, Spend("removed") PROVE ~Undisturbed'
<1>1. spent \in [Kinds -> Nat] /\ "removed" \in Kinds /\ spent["removed"] \in Nat
  BY DEF Typed, SpentType, Kinds
<1>2. spent'["removed"] = spent["removed"] + 1
  BY <1>1 DEF Spend
<1>3. spent'["removed"] # 0
  BY <1>1, <1>2
<1> QED BY <1>3 DEF Undisturbed

LEMMA UntroubledKeeps ==
  ASSUME Apart, Typed, InOrder, Untroubled, [Next]_downloadVars PROVE Untroubled'
<1>1. ASSUME NEW k \in Keys, (k \in DOMAIN Wanted /\ ClientAsks(k)) \/ ClientContinues(k) PROVE Untroubled'
  BY <1>1, ClientIs DEF Untroubled, Undisturbed
<1>2. CASE Disconnect \/ Crash
  <2>1. Undisturbed' => Undisturbed
    BY <1>2, FaultsStay DEF Disconnect, Crash, Kinds
  <2>2. CASE Disconnect
    BY <2>1, <2>2 DEF Disconnect, Untroubled, catalogue, memory
  <2>3. CASE Crash
    BY <2>1, <2>3, IdleTyped DEF Crash, Untroubled, catalogue
  <2> QED BY <1>2, <2>2, <2>3
<1>3. ASSUME NEW w \in Workers, Deal(w) PROVE Untroubled'
  <2>1. /\ \A v \in Workers \ {w} : handler'[v] = handler[v]
        /\ handler'[w].pc \in {"select", "folder", "find", "lookup"}
        /\ UNCHANGED <<listed, there, infos, spent>>
    BY <1>3, DealIs
  <2> QED BY <2>1 DEF Untroubled, Undisturbed
<1>4. ASSUME NEW w \in Workers, HandlerSteps(w) PROVE Untroubled'
  <2>1. Moves(w)
    BY <1>4, StepMoves
  <2>2. ASSUME Undisturbed'
        PROVE  /\ listed' = Items /\ there' = Files
               /\ \A k \in Keys : \A i \in DOMAIN infos'[k] : ~infos'[k][i].bad
               /\ \A v \in Workers : handler'[v].pc # "fetch" /\ (handler'[v].pc = "send" => handler'[v].block[2] >= 0)
    <3>1. /\ listed = Items /\ there = Files /\ \A k \in Keys : \A i \in DOMAIN infos[k] : ~infos[k][i].bad
          /\ \A v \in Workers : handler[v].pc # "fetch" /\ (handler[v].pc = "send" => handler[v].block[2] >= 0)
      BY <2>1, <2>2 DEF Moves, Untroubled
    <3>2. /\ \A k \in Keys : \A i \in DOMAIN infos'[k] : ~infos'[k][i].bad
          /\ handler'[w].pc # "fetch" /\ (handler'[w].pc = "send" => handler'[w].block[2] >= 0)
      BY <1>4, <3>1, StepsGood
    <3> QED BY <2>1, <3>1, <3>2 DEF Moves
  <2> QED BY <2>2 DEF Untroubled
<1>5. ASSUME Others PROVE Untroubled'
  <2>1. CASE Spend("removed")
    BY <2>1, NotUndisturbed DEF Untroubled
  <2>2. ASSUME Undisturbed', ~Spend("removed") PROVE listed' = listed /\ there' = there
    <3>1. listed = Items /\ there = Files /\ Files \subseteq Items
      BY <1>5, <2>2, OthersAre DEF Untroubled, Items
    <3>2. PICK f \in Files : Receive(f) \/ Unlink(f) \/ MakeAnew(f)
      BY <1>5, <2>2 DEF Others, Delete, Vanish
    <3>3. ~Unlink(f) /\ ~MakeAnew(f)
      BY <3>1 DEF Unlink, MakeAnew
    <3> QED BY <3>2, <3>3 DEF Receive
  <2>3. UNCHANGED <<infos, handler>> /\ (Undisturbed' => Undisturbed)
    BY <1>5, OthersAre
  <2> QED BY <2>1, <2>2, <2>3 DEF Untroubled
<1>6. CASE UNCHANGED downloadVars
  BY <1>6 DEF downloadVars, catalogue, memory, Untroubled, Undisturbed
<1>7. \A k \in DOMAIN Wanted : k \in Keys
  BY DownloadAssumption
<1> QED BY <1>1, <1>2, <1>3, <1>4, <1>5, <1>6, <1>7 DEF Next, Others, ClientStep, WorkerStep, HandlerSteps
-----------------------------------------------------------------------------
(* Who waits has a request under way, as long as nothing disturbs it.       *)

\* A read that ends its handler has met the end of the file, or of what has been received of it.
LEMMA ReadEnds ==
  ASSUME Typed, InOrder, Untroubled, Undisturbed, Undisturbed', NEW w \in Workers, Read(w), handler'[w] = Idle
  PROVE  handler[w].rq.op = "content" /\ HasAll(task[handler[w].rq.key])
<1>1. handler[w].pc = "read"
  BY DEF Read, At
<1>2. PICK h, k, t, s, I : WorksOn(w, h, k, t, s, I)
  BY <1>1, NoWalk, AtWork
<1>3. h = handler[w] /\ h.pc = "read" /\ k = h.rq.key /\ t = task[k] /\ k \in Keys /\ I = infos[k] /\ Rq(w) = h.rq /\ Info(w) = I[h.info]
      /\ h \in HandlerType
  BY <1>1, <1>2 DEF WorksOn, Info, Rq
<1>4. /\ h.info = s /\ s \in DOMAIN I /\ I[s] \in InfoType /\ ~I[s].freed /\ I[s].file = t.file /\ t.file \in Files
      /\ FileSize[t.file] \in Nat /\ Len(t.got) \in Nat
  <2>1. h.pc \in {"back", "load", "store", "erase", "read", "send", "seek", "setpos"}
    BY <1>3
  <2>2. /\ h.info = s /\ s \in DOMAIN I /\ I[s] \in InfoType /\ ~I[s].freed /\ I[s].file = t.file /\ t.file \in Files
        /\ FileSize[t.file] \in Nat /\ Len(t.got) \in 0 .. FileSize[t.file]
    BY <1>2, <2>1, SessionOpen
  <2> QED BY <2>2
<1>5. Stands(s, I, Len(t.got), Len(t.got))
  BY <1>2, <1>3 DEF WorksOn, HandGood, BlockGood
<1>6. I[s].offset = Len(t.got)
  BY <1>5 DEF Stands
<1>7. ~I[s].bad
  BY <1>3, <1>4 DEF Untroubled
<1>8. PICK n : n = ReadLen(I[s])
  OBVIOUS
<1>9. MayEnd(h.rq.op, n)
  <2>1. handler' = [handler EXCEPT ![w] = IF MayEnd(Rq(w).op, ReadLen(Info(w))) THEN Idle
                                          ELSE [@ EXCEPT !.pc = "send", !.block = <<Info(w).offset, ReadLen(Info(w))>>]]
    BY DEF Read
  <2>2. PICK b : b = <<Info(w).offset, ReadLen(Info(w))>>
    OBVIOUS
  <2>3. ~MayEnd(h.rq.op, n) => handler' = [handler EXCEPT ![w] = [h EXCEPT !.pc = "send", !.block = b]]
    BY <1>3, <1>4, <1>8, <2>1, <2>2
  <2>4. [h EXCEPT !.pc = "send", !.block = b].pc = "send" /\ Idle.pc = "idle"
    BY <1>3, IdleTyped DEF HandlerType
  <2> QED BY <2>3, <2>4 DEF Typed
<1>10. PICK u, l : u = stored[t.file] /\ l = FileSize[t.file] /\ u \in Nat /\ l \in Nat /\ u <= l /\ Block \in Nat \ {0}
  BY <1>4, DownloadAssumption DEF Typed
<1>11. n = (IF u - Len(t.got) <= 0 THEN 0 ELSE IF u - Len(t.got) < Block THEN u - Len(t.got) ELSE Block)
  BY <1>4, <1>6, <1>7, <1>8, <1>10 DEF ReadLen
<1>12. n >= 0 /\ (n = 0 => u <= Len(t.got)) /\ n \in Int
  BY <1>4, <1>10, <1>11
<1>13. h.rq.op = "content" /\ n = 0
  BY <1>9, <1>12 DEF MayEnd
<1>14. u = l
  <2>1. SUFFICES ASSUME u < l PROVE FALSE
    BY <1>10
  <2>2. spent' = [spent EXCEPT !.starved = 1]
    BY <1>3, <1>4, <1>8, <1>9, <1>10, <1>13, <2>1 DEF Read
  <2>3. spent'["starved"] = 1
    BY <2>2 DEF Typed, SpentType, Kinds
  <2> QED BY <2>3 DEF Undisturbed
<1> QED BY <1>3, <1>10, <1>12, <1>13, <1>14 DEF HasAll

\* Nobody who waits is let down by a handler that ends.
LEMMA EndsWell ==
  ASSUME Apart, Typed, InOrder, Whole, Connected, Untroubled, Lively, Steady, Undisturbed, Undisturbed',
         NEW w \in Workers, HandlerSteps(w), handler'[w] = Idle, ~SendHeader(w), ~SendBlock(w)
  PROVE  /\ ~(handler[w].rq.op = "file" /\ task[handler[w].rq.key].pc = "asked")
         /\ ~(handler[w].rq.op \in {"header", "content"} /\ task[handler[w].rq.key].pc = "waiting")
<1>1. Busy(w) /\ handler[w].pc # "idle" /\ handler \in [Workers -> HandlerType] /\ Idle.pc = "idle" /\ handler'[w].pc = "idle"
  BY StepMoves, IdleTyped DEF Moves, Typed, InOrder, Handled
<1>2. CASE Select(w) \/ OpenOfFile(w) \/ MapInsert(w) \/ FetchFails(w) \/ FetchReturns(w)
  <2>1. handler[w].pc # "fetch" /\ listed = Items
    BY DEF Untroubled
  <2>2. CASE Select(w)
    <3>1. handler[w].pc = "select"
      BY <2>2 DEF Select, At
    <3>2. Rq(w).file \in Items
      BY <1>1, <3>1, AtItsKey DEF HandGood, OpenGood, Rq, Items
    <3>3. handler' = [handler EXCEPT ![w].pc = "open"]
      BY <2>1, <2>2, <3>2 DEF Select, Goes
    <3> QED BY <1>1, <3>3 DEF HandlerType
  <2>3. CASE OpenOfFile(w) \/ MapInsert(w)
    BY <1>1, <2>3 DEF OpenOfFile, MapInsert, Goes, HandlerType
  <2> QED BY <1>2, <2>1, <2>2, <2>3 DEF FetchFails, FetchReturns, At
<1>3. CASE FolderStep(w)
  <2>1. handler[w].pc \in Between
    BY <1>3, FolderIs
  <2> QED BY <2>1, WalkIs DEF Walking
<1>4. CASE Find(w)
  <2>1. handler[w].pc = "find"
    BY <1>4 DEF Find, At
  <2>2. PICK h, k, t, s, I : WorksOn(w, h, k, t, s, I)
    BY <2>1, NoWalk, AtWork
  <2>3. h = handler[w] /\ k = h.rq.key /\ s = sessions[k] /\ k \in Keys /\ ReqGood(h.rq, t, s, I) /\ h.rq.op \in {"header", "content"}
    BY <2>1, <2>2 DEF WorksOn, HandGood, BlockGood
  <2>4. s # None
    BY <2>3 DEF ReqGood, Stands
  <2>5. handler' = [handler EXCEPT ![w].pc = AfterFind(Rq(w)), ![w].info = sessions[k]]
    BY <1>4, <2>3, <2>4 DEF Find, Rq
  <2>6. AfterFind(Rq(w)) # "idle"
    BY DEF AfterFind
  <2>7. handler'[w].pc = AfterFind(Rq(w))
    BY <1>1, <2>5 DEF HandlerType
  <2> QED BY <1>1, <2>6, <2>7
<1>5. CASE SeekBack(w) \/ LoadPos(w) \/ StorePos(w)
  BY <1>1, <1>5 DEF SeekBack, LoadPos, StorePos, Goes, HandlerType
<1>6. CASE Erase(w) \/ Read(w)
  <2>1. HasAll(task[handler[w].rq.key]) /\ handler[w].rq.op = "content"
    <3>1. CASE Erase(w)
      <4>1. handler[w].pc = "erase"
        BY <3>1 DEF Erase, At
      <4>2. handler[w].key = handler[w].rq.key /\ handler[w].rq.op = "content"
        BY <4>1, AtItsKey DEF HandGood, BlockGood
      <4> QED BY <4>1, <4>2 DEF Whole
    <3>2. CASE Read(w)
      BY <3>2, ReadEnds
    <3> QED BY <1>6, <3>1, <3>2
  <2>2. MoreToCome(handler[w].rq.op, task[handler[w].rq.key])
    BY <1>1 DEF Lively, MoreAll
  <2> QED BY <2>1, <2>2 DEF MoreToCome
<1>7. CASE ContinueStep(w)
  <2>1. handler[w].pc \in {"lookup", "reselect", "reopen", "remap", "seek", "setpos"}
    BY <1>7 DEF ContinueStep, Lookup, Reselect, Reopen, Remap, Seek, SetPos, At
  <2>2. handler[w].rq.op = "continue"
    BY <2>1, AtItsKey DEF HandGood, BlockGood
  <2> QED BY <1>1, <2>2 DEF Connected
<1> QED BY <1>2, <1>3, <1>4, <1>5, <1>6, <1>7 DEF HandlerSteps, FileStep, BlockStep

\* A request under way stays so until its handler ends.
LEMMA UnderWayStays ==
  ASSUME NEW w \in Workers, Moves(w), NEW k, NEW ops, UnderWay(k, ops),
         handler'[w] = Idle => ~(handler[w].rq.key = k /\ handler[w].rq.op \in ops)
  PROVE  UnderWay(k, ops)'
<1>1. CASE \E r \in inbox : r.key = k /\ r.op \in ops
  BY <1>1 DEF Moves, UnderWay
<1>2. ASSUME NEW v \in Workers, Busy(v), handler[v].rq.key = k, handler[v].rq.op \in ops PROVE UnderWay(k, ops)'
  <2>1. handler'[v].rq = handler[v].rq
    BY <1>2 DEF Moves
  <2>2. Busy(v)' /\ handler'[v].rq.key = k /\ handler'[v].rq.op \in ops
    BY <1>2, <2>1 DEF Busy
  <2> QED BY <2>2 DEF UnderWay
<1> QED BY <1>1, <1>2 DEF UnderWay

\* A header sent makes a task, and a request.
LEMMA SendHeaderLively ==
  ASSUME Apart, Typed, InOrder, Connected, Steady, \A k \in Keys : LivelyAt(k), MoreAll,
         NEW w \in Workers, SendHeader(w)
  PROVE  (\A k \in Keys : LivelyAt(k)') /\ MoreAll'
<1>1. handler[w].pc = "sendheader" /\ Moves(w)
  BY SendHeaderMoves DEF SendHeader, At
<1>2. PICK k, f : k = handler[w].key /\ f = Info(w).file
  OBVIOUS
<1>3. /\ Busy(w) /\ handler[w].rq.conn = conn /\ k \in Keys /\ handler[w].rq.op \in {"file", "folder"} /\ task[k].file = None
      /\ handler[w].rq.op = "file" => handler[w].rq.key = k
  BY <1>1, <1>2, AtItsKey DEF Connected, HandGood, OpenGood
<1>4. PICK r, t : r = [op |-> "header", key |-> k, file |-> f, n |-> 0, ok |-> TRUE, conn |-> conn] /\ t = NewTask(f)
  OBVIOUS
<1>5. GetsHeader(Rq(w), k, f)
  BY <1>2 DEF SendHeader
<1>6. task' = [task EXCEPT ![k] = t] /\ inbox' = inbox \cup {r}
  BY <1>3, <1>4, <1>5 DEF GetsHeader, Rq, Request
<1>7. r.op = "header" /\ r.key = k /\ t.pc = "waiting" /\ task'[k] = t /\ \A l \in Keys : l # k => task'[l] = task[l]
  BY <1>3, <1>4, <1>6 DEF NewTask, Typed
<1>8. ASSUME NEW l \in Keys PROVE LivelyAt(l)'
  <2>1. CASE l = k
    <3>1. UnderWay(k, {"header", "content"})'
      BY <1>6, <1>7 DEF UnderWay
    <3> QED BY <1>7, <2>1, <3>1 DEF LivelyAt
  <2>2. CASE l # k
    <3>1. task'[l] = task[l] /\ ~(handler[w].rq.key = l /\ handler[w].rq.op \in {"header", "content"})
          /\ ~(handler[w].rq.key = l /\ handler[w].rq.op \in {"file"})
      BY <1>3, <1>7, <2>2
    <3>2. UnderWay(l, {"file"}) => UnderWay(l, {"file"})'
      BY <1>1, <3>1, UnderWayStays
    <3>3. UnderWay(l, {"header", "content"}) => UnderWay(l, {"header", "content"})'
      BY <1>1, <3>1, UnderWayStays
    <3> QED BY <3>1, <3>2, <3>3 DEF LivelyAt
  <2> QED BY <2>1, <2>2
<1>9. ASSUME NEW q \in inbox PROVE MoreToCome(q.op, task'[q.key])
  <2>1. q \in Requests /\ q.key \in Keys
    BY DEF Typed, Requests
  <2>2. CASE q.key # k
    BY <1>7, <2>1, <2>2 DEF MoreAll
  <2>3. CASE q.key = k
    <3>1. q.op # "content"
      BY <1>3, <2>3, DownloadAssumption DEF InOrder, Asked, ReqGood, Items
    <3> QED BY <3>1 DEF MoreToCome
  <2> QED BY <2>2, <2>3
<1>10. ASSUME NEW v \in Workers, Busy(v) PROVE MoreToCome(handler[v].rq.op, task'[handler[v].rq.key])
  <2>1. handler[v].rq.key \in Keys /\ handler[v].pc # "idle"
    BY <1>10, RequestOf DEF InOrder, Handled
  <2>2. CASE handler[v].rq.key # k
    BY <1>7, <1>10, <2>1, <2>2 DEF MoreAll
  <2>3. CASE handler[v].rq.key = k
    <3>1. handler[v].rq.op # "content"
      <4>1. SUFFICES ASSUME handler[v].rq.op = "content" PROVE FALSE
        OBVIOUS
      <4>2. handler[v].key = k /\ HandGood(handler[v], task[k], sessions[k], infos[k])
        BY <2>1, <2>3, <4>1, AtItsKey DEF HandGood
      <4>3. task[k].file \in Files
        BY <4>1, <4>2 DEF HandGood, BlockGood
      <4> QED BY <1>3, <4>3, DownloadAssumption DEF Items
    <3> QED BY <3>1 DEF MoreToCome
  <2> QED BY <2>2, <2>3
<1>11. MoreAll'
  <2>1. \A q \in inbox' : MoreToCome(q.op, task'[q.key])
    <3>1. MoreToCome(r.op, task'[r.key])
      BY <1>7 DEF MoreToCome
    <3> QED BY <1>6, <1>9, <3>1
  <2>2. ASSUME NEW v \in Workers, Busy(v)' PROVE MoreToCome(handler'[v].rq.op, task'[handler'[v].rq.key])
    <3>1. handler'[v].rq = handler[v].rq /\ Busy(v)
      BY <1>1, <2>2, IdleTyped DEF Moves, Busy
    <3> QED BY <1>10, <3>1
  <2> QED BY <2>1, <2>2 DEF MoreAll, MoreToCome, HasAll
<1> QED BY <1>8, <1>11

\* A block sent is answered by the client, which is done exactly when it has the whole file.
LEMMA SendBlockLively ==
  ASSUME Apart, Typed, InOrder, Connected, Untroubled, Steady, Undisturbed, \A k \in Keys : LivelyAt(k), MoreAll,
         NEW w \in Workers, SendBlock(w)
  PROVE  (\A k \in Keys : LivelyAt(k)') /\ MoreAll'
<1>1. handler[w].pc = "send" /\ Moves(w)
  BY SendBlockMoves DEF SendBlock, At
<1>2. PICK h, k, t, s, I : WorksOn(w, h, k, t, s, I)
  BY <1>1, NoWalk, AtWork
<1>3. /\ h = handler[w] /\ h.pc = "send" /\ h.key = k /\ k = h.rq.key /\ I = infos[k] /\ t = task[k] /\ k \in Keys /\ t \in TaskType
      /\ Rq(w) = h.rq /\ h.rq.op # "folder" /\ Busy(w)
  BY <1>1, <1>2 DEF WorksOn, Rq, Moves
<1>4. PICK n, a, F : n = h.block[2] /\ a = Len(t.got) /\ F = FileSize[t.file]
  OBVIOUS
<1>5. a \in Nat /\ F \in Nat /\ I[s].offset <= F /\ t.file \in Files /\ t.pc \in {"waiting", "lost", "done"} /\ Info(w) = I[s]
  <2>1. h.pc \in {"back", "load", "store", "erase", "read", "send", "seek", "setpos"}
    BY <1>3
  <2>2. /\ h.info = s /\ FileSize[t.file] \in Nat /\ I[s].offset \in 0 .. FileSize[t.file] /\ Len(t.got) \in 0 .. FileSize[t.file]
        /\ t.file \in Files /\ t.pc \in {"waiting", "lost", "done"}
    BY <1>2, <2>1, SessionOpen
  <2> QED BY <1>3, <1>4, <2>2 DEF Info
<1>6. n \in Nat /\ h.rq.conn = conn
  BY <1>3, <1>4 DEF Untroubled, Connected, HandlerType, Typed
<1>7. n > 0 => a < F
  <2>1. n > 0 => I[s].offset = a + n
    BY <1>2, <1>3, <1>4 DEF WorksOn, HandGood, BlockGood, Stands
  <2> QED BY <1>5, <1>6, <2>1
<1>8. PICK U : U = Units(k, I[s], h.block)
  OBVIOUS
<1>9. GetsBlock(h.rq, I[s], h.block)
  BY <1>3, <1>5 DEF SendBlock
<1>10. PICK ok \in BOOLEAN :
         /\ inbox' = inbox \cup {Request("content", k, t.file, n, ok)}
         /\ Writes(k, t.got \o U) \/ (n > 0 /\ UNCHANGED task)
  <2>1. \/ Writes(k, t.got \o U) /\ inbox' = inbox \cup {Request("content", k, t.file, n, TRUE)}
        \/ n > 0 /\ inbox' = inbox \cup {Request("content", k, t.file, n, FALSE)} /\ UNCHANGED task
    <3>1. ~(h.rq.conn # conn \/ n < 0) /\ n = h.block[2] /\ t = task[k] /\ k = h.rq.key
      BY <1>3, <1>4, <1>6
    <3> QED BY <1>8, <1>9, <3>1 DEF GetsBlock
  <2>2. PICK yes, no : yes = TRUE /\ no = FALSE
    OBVIOUS
  <2>3. \/ Writes(k, t.got \o U) /\ inbox' = inbox \cup {Request("content", k, t.file, n, yes)}
        \/ n > 0 /\ inbox' = inbox \cup {Request("content", k, t.file, n, no)} /\ UNCHANGED task
    BY <2>1, <2>2
  <2> QED BY <2>2, <2>3
<1>11. PICK f, r : f = t.file /\ r = [op |-> "content", key |-> k, file |-> f, n |-> n, ok |-> ok, conn |-> conn]
  OBVIOUS
<1>12. inbox' = inbox \cup {r} /\ r.op = "content" /\ r.key = k
  BY <1>10, <1>11 DEF Request
<1>13. /\ \A l \in Keys : l # k => task'[l] = task[l]
       /\ task'[k].pc # "asked" /\ MoreToCome("content", task'[k])
  <2>1. CASE Writes(k, t.got \o U)
    <3>1. PICK got : got = t.got \o U
      OBVIOUS
    <3>2. task' = [task EXCEPT ![k].got = got, ![k].pc = IF Len(got) >= FileSize[task[k].file] THEN "done" ELSE "waiting"]
      BY <2>1, <3>1 DEF Writes
    <3>3. /\ \A l \in Keys : l # k => task'[l] = task[l]
          /\ task'[k].got = got /\ task'[k].file = t.file
          /\ task'[k].pc = IF Len(got) >= FileSize[t.file] THEN "done" ELSE "waiting"
      BY <1>3, <3>2 DEF Typed, TaskType
    <3> QED BY <3>3 DEF MoreToCome, HasAll
  <2>2. CASE n > 0 /\ UNCHANGED task
    BY <1>3, <1>4, <1>5, <1>7, <2>2 DEF MoreToCome, HasAll
  <2> QED BY <1>10, <2>1, <2>2
<1>14. ASSUME NEW l \in Keys PROVE LivelyAt(l)'
  <2>1. CASE l = k
    <3>1. UnderWay(k, {"header", "content"})'
      BY <1>12 DEF UnderWay
    <3> QED BY <1>13, <2>1, <3>1 DEF LivelyAt
  <2>2. CASE l # k
    <3>1. task'[l] = task[l] /\ handler[w].rq.key # l
      BY <1>3, <1>13, <2>2
    <3>2. UnderWay(l, {"file"}) => UnderWay(l, {"file"})'
      BY <1>1, <3>1, UnderWayStays
    <3>3. UnderWay(l, {"header", "content"}) => UnderWay(l, {"header", "content"})'
      BY <1>1, <3>1, UnderWayStays
    <3> QED BY <3>1, <3>2, <3>3 DEF LivelyAt
  <2> QED BY <2>1, <2>2
<1>15. /\ \A q \in inbox : q.key # k
       /\ \A v \in Workers : v # w /\ Busy(v) => handler[v].rq.key # k
  BY <1>3, Alone
<1>16. MoreAll'
  <2>1. \A q \in inbox' : MoreToCome(q.op, task'[q.key])
    <3>1. ASSUME NEW q \in inbox PROVE MoreToCome(q.op, task'[q.key])
      BY <1>13, <1>15 DEF MoreAll, Typed, Requests
    <3> QED BY <1>12, <1>13, <3>1
  <2>2. ASSUME NEW v \in Workers, Busy(v)' PROVE MoreToCome(handler'[v].rq.op, task'[handler'[v].rq.key])
    <3>1. v # w
      BY <1>1, <2>2, IdleTyped DEF Busy, SendBlock, Ends, Typed
    <3>2. handler'[v] = handler[v] /\ Busy(v)
      BY <1>1, <2>2, <3>1 DEF Moves, Busy
    <3>3. handler[v].rq.key \in Keys /\ handler[v].rq.key # k
      BY <1>15, <3>1, <3>2, RequestOf
    <3> QED BY <1>13, <3>2, <3>3 DEF MoreAll
  <2> QED BY <2>1, <2>2 DEF MoreAll, MoreToCome, HasAll
<1> QED BY <1>14, <1>16

\* A step that leaves the requests and tasks as they are.
LEMMA LivelySame ==
  ASSUME (\A k \in Keys : LivelyAt(k)) /\ MoreAll, UNCHANGED task, inbox' = inbox,
         \A w \in Workers : handler'[w].rq = handler[w].rq
  PROVE  (\A k \in Keys : LivelyAt(k)') /\ MoreAll'
  BY DEF LivelyAt, MoreAll, UnderWay, Busy, MoreToCome, HasAll

LEMMA StepLively ==
  ASSUME Apart, Typed, InOrder, Whole, Connected, Untroubled, Steady, Undisturbed, Undisturbed',
         \A k \in Keys : LivelyAt(k), MoreAll, NEW w \in Workers, HandlerSteps(w)
  PROVE  (\A k \in Keys : LivelyAt(k)') /\ MoreAll'
<1>1. CASE SendHeader(w) \/ SendBlock(w)
  BY <1>1, SendHeaderLively, SendBlockLively
<1>2. CASE ~SendHeader(w) /\ ~SendBlock(w)
  <2>1. Moves(w) /\ Lively
    BY StepMoves DEF Lively
  <2>2. task' = task /\ inbox' = inbox
    BY <1>2, <2>1, SendsIs DEF Moves
  <2>3. handler'[w] = Idle => /\ ~(handler[w].rq.op = "file" /\ task[handler[w].rq.key].pc = "asked")
                              /\ ~(handler[w].rq.op \in {"header", "content"} /\ task[handler[w].rq.key].pc = "waiting")
    BY <1>2, <2>1, EndsWell
  <2>4. ASSUME NEW k \in Keys PROVE LivelyAt(k)'
    <3>1. CASE task[k].pc = "asked"
      <4>1. UnderWay(k, {"file"})
        BY <3>1 DEF LivelyAt
      <4>2. handler'[w] = Idle => ~(handler[w].rq.key = k /\ handler[w].rq.op \in {"file"})
        BY <2>3, <3>1
      <4> QED BY <2>1, <2>2, <3>1, <4>1, <4>2, UnderWayStays DEF LivelyAt
    <3>2. CASE task[k].pc = "waiting"
      <4>1. UnderWay(k, {"header", "content"})
        BY <3>2 DEF LivelyAt
      <4>2. handler'[w] = Idle => ~(handler[w].rq.key = k /\ handler[w].rq.op \in {"header", "content"})
        BY <2>3, <3>2
      <4> QED BY <2>1, <2>2, <3>2, <4>1, <4>2, UnderWayStays DEF LivelyAt
    <3> QED BY <2>2, <3>1, <3>2 DEF LivelyAt
  <2>5. MoreAll'
    <3>1. \A v \in Workers : Busy(v)' => Busy(v) /\ handler'[v].rq = handler[v].rq
      BY <2>1, IdleTyped DEF Moves, Busy
    <3> QED BY <2>2, <3>1 DEF MoreAll, MoreToCome, HasAll
  <2> QED BY <2>4, <2>5
<1> QED BY <1>1, <1>2

LEMMA LivelyKeeps ==
  ASSUME Apart, Typed, InOrder, Whole, Connected, Untroubled, Lively, [Next]_downloadVars PROVE Lively'
<1>1. ASSUME NEW k \in Keys, k \in DOMAIN Wanted, ClientAsks(k) PROVE Lively'
  <2>1. PICK op, f, pc : /\ op = (IF Wanted[k] \in Files THEN "file" ELSE "folder") /\ f = Wanted[k]
                         /\ pc = (IF op = "file" THEN "asked" ELSE "folder")
    OBVIOUS
  <2>2. PICK r : r = [op |-> op, key |-> k, file |-> f, n |-> 0, ok |-> TRUE, conn |-> conn]
    OBVIOUS
  <2>3. /\ inbox' = inbox \cup {r} /\ task' = [task EXCEPT ![k].pc = pc] /\ UNCHANGED <<handler, spent>>
        /\ r.key = k /\ r.op = op
    BY <1>1, <2>1, <2>2 DEF ClientAsks, Request
  <2>4. /\ \A l \in Keys : l # k => task'[l] = task[l]
        /\ task'[k].pc = pc /\ pc # "waiting"
    BY <2>1, <2>3 DEF Typed, TaskType
  <2>5. ASSUME Steady, Undisturbed PROVE (\A l \in Keys : LivelyAt(l)') /\ MoreAll'
    <3>1. (\A l \in Keys : LivelyAt(l)) /\ MoreAll
      BY <2>5 DEF Lively
    <3>2. ASSUME NEW l, NEW ops, UnderWay(l, ops) PROVE UnderWay(l, ops)'
      BY <2>3, <3>2 DEF UnderWay, Busy
    <3>3. ASSUME NEW l \in Keys PROVE LivelyAt(l)'
      <4>1. CASE l = k
        <5>1. pc = "asked" => UnderWay(k, {"file"})'
          BY <2>1, <2>3 DEF UnderWay
        <5> QED BY <2>4, <4>1, <5>1 DEF LivelyAt
      <4>2. CASE l # k
        <5>1. task'[l] = task[l] /\ LivelyAt(l)
          BY <2>4, <3>1, <4>2
        <5>2. UnderWay(l, {"file"}) => UnderWay(l, {"file"})'
          BY <3>2
        <5>3. UnderWay(l, {"header", "content"}) => UnderWay(l, {"header", "content"})'
          BY <3>2
        <5> QED BY <5>1, <5>2, <5>3 DEF LivelyAt
      <4> QED BY <4>1, <4>2
    <3>4. MoreAll'
      <4>1. ASSUME NEW l \in Keys, NEW o, MoreToCome(o, task[l]) PROVE MoreToCome(o, task'[l])
        BY <2>4, <4>1 DEF MoreToCome, HasAll
      <4>2. r.op # "content"
        BY <2>1, <2>3
      <4>3. \A q \in inbox' : MoreToCome(q.op, task'[q.key])
        <5>1. ASSUME NEW q \in inbox PROVE MoreToCome(q.op, task'[q.key])
          <6>1. q.key \in Keys /\ MoreToCome(q.op, task[q.key])
            BY <3>1 DEF MoreAll, Typed, Requests
          <6> QED BY <4>1, <6>1
        <5> QED BY <2>3, <4>2, <5>1 DEF MoreToCome
      <4>4. \A v \in Workers : Busy(v) => MoreToCome(handler[v].rq.op, task'[handler[v].rq.key])
        <5>1. ASSUME NEW v \in Workers, Busy(v) PROVE MoreToCome(handler[v].rq.op, task'[handler[v].rq.key])
          <6>1. handler[v].rq.key \in Keys /\ MoreToCome(handler[v].rq.op, task[handler[v].rq.key])
            BY <3>1, <5>1, RequestOf DEF MoreAll
          <6> QED BY <4>1, <6>1
        <5> QED BY <5>1
      <4> QED BY <2>3, <4>3, <4>4 DEF MoreAll, Busy, MoreToCome, HasAll
    <3> QED BY <3>3, <3>4
  <2> QED BY <2>3, <2>5 DEF Steady, Undisturbed, Lively
<1>2. ASSUME NEW k \in Keys, ClientContinues(k) PROVE Lively'
  <2>1. task[k].pc = "lost" /\ spent' = spent
    BY <1>2 DEF ClientContinues
  <2>2. ~Steady'
    BY <2>1 DEF Connected, Steady
  <2> QED BY <2>2 DEF Lively
<1>3. CASE Disconnect \/ Crash
  BY <1>3, NotSteady DEF Lively
<1>4. ASSUME NEW w \in Workers, Deal(w) PROVE Lively'
  <2>1. PICK rq \in inbox : /\ inbox' = inbox \ {rq} /\ handler'[w].rq = rq /\ rq \in Requests /\ handler[w] = Idle
                            /\ \A v \in Workers \ {w} : handler'[v] = handler[v]
                            /\ UNCHANGED <<task, spent>>
    BY <1>4, DealIs
  <2>2. rq # None /\ Idle.rq = None
    BY <2>1, IdleTyped, DownloadAssumption
  <2>3. ASSUME NEW k, NEW ops, UnderWay(k, ops) PROVE UnderWay(k, ops)'
    <3>1. ASSUME NEW r \in inbox, r.key = k, r.op \in ops PROVE UnderWay(k, ops)'
      BY <2>1, <2>2, <3>1 DEF UnderWay, Busy
    <3>2. ASSUME NEW v \in Workers, Busy(v), handler[v].rq.key = k, handler[v].rq.op \in ops PROVE UnderWay(k, ops)'
      <4>1. v # w /\ handler'[v] = handler[v]
        BY <2>1, <2>2, <3>2 DEF Busy
      <4> QED BY <3>2, <4>1 DEF UnderWay, Busy
    <3> QED BY <2>3, <3>1, <3>2 DEF UnderWay
  <2>4. MoreAll => MoreAll'
    BY <2>1, <2>2 DEF MoreAll, Busy, MoreToCome, HasAll
  <2>5. ASSUME NEW k \in Keys, LivelyAt(k) PROVE LivelyAt(k)'
    <3>1. UnderWay(k, {"file"}) => UnderWay(k, {"file"})'
      BY <2>3
    <3>2. UnderWay(k, {"header", "content"}) => UnderWay(k, {"header", "content"})'
      BY <2>3
    <3> QED BY <2>1, <2>5, <3>1, <3>2 DEF LivelyAt
  <2>6. (Steady' => Steady) /\ (Undisturbed' => Undisturbed)
    BY <2>1 DEF Steady, Undisturbed
  <2> QED BY <2>4, <2>5, <2>6 DEF Lively
<1>5. ASSUME NEW w \in Workers, HandlerSteps(w) PROVE Lively'
  <2>1. Moves(w)
    BY <1>5, StepMoves
  <2>2. Steady' /\ Undisturbed' => (\A k \in Keys : LivelyAt(k)') /\ MoreAll'
    BY <1>5, <2>1, StepLively DEF Moves, Lively
  <2> QED BY <2>2 DEF Lively
<1>6. ASSUME Others PROVE Lively'
  <2>1. UNCHANGED <<inbox, handler, task>>
    BY <1>6, OthersAre
  <2>2. (Steady' => Steady) /\ (Undisturbed' => Undisturbed)
    BY <1>6, OthersAre
  <2> QED BY <2>1, <2>2 DEF Lively, LivelyAt, MoreAll, UnderWay, Busy, MoreToCome, HasAll
<1>7. CASE UNCHANGED downloadVars
  BY <1>7 DEF downloadVars, Lively, LivelyAt, MoreAll, UnderWay, Busy, MoreToCome, HasAll, Steady, Undisturbed
<1>8. \A k \in DOMAIN Wanted : k \in Keys
  BY DownloadAssumption
<1> QED BY <1>1, <1>2, <1>3, <1>4, <1>5, <1>6, <1>7, <1>8 DEF Next, Others, ClientStep, WorkerStep, HandlerSteps
-----------------------------------------------------------------------------
(* A task is of what it was made for.                                       *)

\* Only a header makes a task of a file, where there was none.
LEMMA HeaderAt ==
  ASSUME Apart, Typed, InOrder, NEW w \in Workers, SendHeader(w)
  PROVE  \E k \in Keys, f \in Files :
           /\ k = handler[w].key /\ f = Info(w).file /\ task[k].file = None /\ Rq(w) = handler[w].rq /\ Busy(w)
           /\ handler[w].pc = "sendheader"
           /\ IF Rq(w).conn = conn THEN task' = [task EXCEPT ![k] = NewTask(f)] ELSE task' = task
           /\ handler[w].rq.op # "folder" => k = handler[w].rq.key /\ (k \in DOMAIN Wanted => f = Wanted[k])
           /\ handler[w].rq.op = "folder" => k \notin DOMAIN Wanted
<1>1. handler[w].pc = "sendheader"
  BY DEF SendHeader, At
<1>2. PICK k, f : k = handler[w].key /\ f = Info(w).file
  OBVIOUS
<1>3. /\ Busy(w) /\ handler[w] \in HandlerType /\ k \in Keys /\ handler[w].rq \in Requests
      /\ HandGood(handler[w], task[k], sessions[k], infos[k])
      /\ ~Walking(w) => k = handler[w].rq.key
  BY <1>1, <1>2, AtItsKey
<1>4. f = infos[k][handler[w].info].file /\ handler[w].info \in DOMAIN infos[k] /\ infos[k] \in Seq(InfoType)
  BY <1>1, <1>2, <1>3 DEF HandGood, OpenGood, Info, Typed
<1>5. f \in Files
  <2>1. PICK I, i : I = infos[k] /\ i = handler[w].info /\ I \in Seq(InfoType) /\ i \in DOMAIN I /\ f = I[i].file
    BY <1>4
  <2>2. I[i] \in InfoType
    BY <2>1
  <2> QED BY <2>1, <2>2 DEF InfoType
<1>6. task[k].file = None /\ handler[w].rq.op \in {"file", "folder"} /\ (handler[w].rq.op = "file" => f = handler[w].rq.file /\ handler[w].rq.file = Wanted[handler[w].rq.key])
  BY <1>1, <1>3, <1>4 DEF HandGood, OpenGood
<1>7. IF Rq(w).conn = conn THEN task' = [task EXCEPT ![k] = NewTask(f)] ELSE task' = task
  <2>1. GetsHeader(Rq(w), k, f)
    BY <1>2 DEF SendHeader
  <2> QED BY <2>1 DEF GetsHeader
<1>8. ASSUME handler[w].rq.op = "folder", k \in DOMAIN Wanted PROVE FALSE
  <2>1. PICK j : j = handler[w].rq.key
    OBVIOUS
  <2>2. Walking(w)
    BY <1>3, <1>8 DEF Walking
  <2>3. j \in DOMAIN Wanted /\ k \in j .. LastKey(j) /\ j < k /\ j \in Nat
    BY <1>1, <1>2, <2>1, <2>2, WalkedKeys
  <2>4. k \in k .. LastKey(k) /\ j # k
    BY <1>8, <2>3, Ranges
  <2> QED BY <1>8, <2>3, <2>4, Disjoint
<1> QED BY <1>1, <1>2, <1>3, <1>5, <1>6, <1>7, <1>8 DEF Rq, Walking

LEMMA StepWishes ==
  ASSUME Apart, Typed, InOrder, NEW w \in Workers, HandlerSteps(w), NEW k \in Keys, k \in DOMAIN Wanted, AsWished(k)
  PROVE  AsWished(k)'
<1>1. task[k] \in TaskType /\ task \in [Keys -> TaskType]
  BY DEF Typed
<1>2. CASE task' = task
  BY <1>2 DEF AsWished
<1>3. CASE SendHeader(w)
  <2>1. PICK l \in Keys, f \in Files :
           /\ IF Rq(w).conn = conn THEN task' = [task EXCEPT ![l] = NewTask(f)] ELSE task' = task
           /\ handler[w].rq.op # "folder" => l = handler[w].rq.key /\ (l \in DOMAIN Wanted => f = Wanted[l])
           /\ handler[w].rq.op = "folder" => l \notin DOMAIN Wanted
    BY <1>3, HeaderAt
  <2>2. CASE task' = [task EXCEPT ![l] = NewTask(f)] /\ l = k
    <3>1. task'[k].pc = "waiting" /\ task'[k].file = f /\ f = Wanted[k]
      BY <1>1, <2>1, <2>2 DEF NewTask
    <3> QED BY <3>1 DEF AsWished
  <2>3. CASE task' = [task EXCEPT ![l] = NewTask(f)] /\ l # k
    BY <1>1, <2>3 DEF AsWished
  <2> QED BY <1>2, <2>1, <2>2, <2>3
<1>4. CASE SendBlock(w)
  <2>1. handler[w].pc = "send"
    BY <1>4 DEF SendBlock, At
  <2>2. PICK h, l, t, s, I : WorksOn(w, h, l, t, s, I)
    BY <2>1, NoWalk, AtWork
  <2>3. l = Rq(w).key /\ l \in Keys /\ task[l].pc \in {"waiting", "lost", "done"}
    BY <2>1, <2>2, SessionOpen DEF WorksOn, Rq
  <2>4. task' = task \/ \E got : Writes(l, got)
    BY <1>4, <2>3 DEF SendBlock, GetsBlock
  <2>5. ASSUME NEW got, Writes(l, got), l = k PROVE AsWished(k)'
    <3>1. task'[k].file = task[k].file /\ task'[k].pc \in {"waiting", "done"}
      BY <1>1, <2>5 DEF Writes, TaskType
    <3> QED BY <2>3, <2>5, <3>1 DEF AsWished
  <2>6. ASSUME NEW got, Writes(l, got), l # k PROVE AsWished(k)'
    BY <1>1, <2>6 DEF Writes, AsWished
  <2> QED BY <1>2, <2>4, <2>5, <2>6
<1>5. CASE ~SendHeader(w) /\ ~SendBlock(w)
  BY <1>2, <1>5, StepMoves, SendsIs DEF Moves
<1> QED BY <1>3, <1>4, <1>5

LEMMA WishesKeeps ==
  ASSUME Apart, Typed, InOrder, Wishes, [Next]_downloadVars PROVE Wishes'
<1>0. \A k \in DOMAIN Wanted : k \in Keys /\ AsWished(k)
  BY DownloadAssumption DEF Wishes
<1>1. ASSUME NEW j \in Keys, j \in DOMAIN Wanted, ClientAsks(j), NEW k \in DOMAIN Wanted PROVE AsWished(k)'
  <2>1. PICK pc : task' = [task EXCEPT ![j].pc = pc] /\ pc = IF Wanted[j] \in Files THEN "asked" ELSE "folder"
    BY <1>1 DEF ClientAsks
  <2>2. task[k] \in TaskType /\ task \in [Keys -> TaskType] /\ k \in Keys
    BY <1>0 DEF Typed
  <2>3. CASE k = j
    <3>1. task'[k].pc = pc /\ task'[k].file = task[k].file
      BY <2>1, <2>2, <2>3 DEF TaskType
    <3> QED BY <1>0, <2>1, <2>3, <3>1 DEF AsWished
  <2>4. CASE k # j
    BY <1>0, <2>1, <2>2, <2>4 DEF AsWished
  <2> QED BY <2>3, <2>4
<1>2. ASSUME NEW j \in Keys, ClientContinues(j), NEW k \in DOMAIN Wanted PROVE AsWished(k)'
  <2>1. task' = [task EXCEPT ![j].pc = "waiting"] /\ task[j].pc = "lost"
    BY <1>2 DEF ClientContinues
  <2>2. task[k] \in TaskType /\ task \in [Keys -> TaskType] /\ k \in Keys
    BY <1>0 DEF Typed
  <2>3. CASE k = j
    <3>1. task'[k].pc = "waiting" /\ task'[k].file = task[k].file
      BY <2>1, <2>2, <2>3 DEF TaskType
    <3> QED BY <1>0, <2>1, <2>3, <3>1 DEF AsWished
  <2>4. CASE k # j
    BY <1>0, <2>1, <2>2, <2>4 DEF AsWished
  <2> QED BY <2>3, <2>4
<1>3. ASSUME Disconnect \/ Crash, NEW k \in DOMAIN Wanted PROVE AsWished(k)'
  <2>1. task'[k] = Broken(task[k]) /\ task[k] \in TaskType /\ k \in Keys
    BY <1>0, <1>3 DEF Disconnect, Crash, Typed
  <2>2. /\ task'[k].file = task[k].file
        /\ \/ task[k].pc \in {"asked", "waiting"} /\ task'[k].pc \in {"gone", "lost"}
           \/ task'[k].pc = task[k].pc
    BY <2>1 DEF Broken, TaskType
  <2> QED BY <1>0, <2>2 DEF AsWished
<1>4. ASSUME NEW w \in Workers, Deal(w), NEW k \in DOMAIN Wanted PROVE AsWished(k)'
  BY <1>0, <1>4, DealIs DEF AsWished
<1>5. ASSUME NEW w \in Workers, HandlerSteps(w), NEW k \in DOMAIN Wanted PROVE AsWished(k)'
  BY <1>0, <1>5, StepWishes
<1>6. ASSUME Others, NEW k \in DOMAIN Wanted PROVE AsWished(k)'
  <2>1. task' = task
    BY <1>6, OthersAre
  <2> QED BY <1>0, <2>1 DEF AsWished
<1>7. ASSUME UNCHANGED downloadVars, NEW k \in DOMAIN Wanted PROVE AsWished(k)'
  BY <1>0, <1>7 DEF downloadVars, AsWished
<1>8. \A k \in DOMAIN Wanted : AsWished(k)'
  BY <1>0, <1>1, <1>2, <1>3, <1>4, <1>5, <1>6, <1>7 DEF Next, Others, ClientStep, WorkerStep, HandlerSteps
<1> QED BY <1>8 DEF Wishes
-----------------------------------------------------------------------------
(* What a walk has opened is the file it had to open.                       *)

\* A FileInfo stays one of its file.
InfoKept(k) == \A i \in DOMAIN infos[k] : i \in DOMAIN infos'[k] /\ infos'[k][i].file = infos[k][i].file

LEMMA MadeKept ==
  ASSUME Typed, NEW l \in Keys, NEW e \in InfoType, infos' = [infos EXCEPT ![l] = Append(@, e)], NEW k \in Keys
  PROVE  InfoKept(k)
<1>1. PICK I : I = infos[l] /\ I \in Seq(InfoType)
  BY DEF Typed
<1>2. infos' = [infos EXCEPT ![l] = Append(I, e)]
  BY <1>1
<1>3. DOMAIN Append(I, e) = DOMAIN I \cup {Len(I) + 1} /\ \A j \in DOMAIN I : Append(I, e)[j] = I[j]
  BY <1>1, OneMore
<1> QED BY <1>1, <1>2, <1>3 DEF Typed, InfoKept

LEMMA ChangedKept ==
  ASSUME Typed, NEW w \in Workers, NEW e, Update(w, e), e.file = Info(w).file, NEW k \in Keys
  PROVE  InfoKept(k)
<1>1. PICK l, j : l = handler[w].key /\ j = handler[w].info
  OBVIOUS
<1>2. infos' = [infos EXCEPT ![l] = [infos[l] EXCEPT ![j] = e]] /\ Info(w) = infos[l][j]
  BY <1>1 DEF Update, Info
<1>3. \A i \in DOMAIN infos[l] : i \in DOMAIN [infos[l] EXCEPT ![j] = e] /\ [infos[l] EXCEPT ![j] = e][i].file = infos[l][i].file
  BY <1>2
<1> QED BY <1>2, <1>3 DEF Typed, InfoKept

\* The file a walk opens, at the next timestamp.
LEMMA OpenOfWalkIs ==
  ASSUME Apart, Typed, InOrder, NEW w \in Workers, OpenOfWalk(w)
  PROVE  \E k \in Keys, f \in Files :
           /\ k = handler[w].key + 1 /\ f = Head(handler[w].todo) /\ handler[w].todo # <<>> /\ handler[w].todo \in Seq(Items)
           /\ NewInfo(f) \in InfoType
           /\ IF f \in there
              THEN /\ infos' = [infos EXCEPT ![k] = Append(@, NewInfo(f))]
                   /\ handler' = [handler EXCEPT ![w].pc = "map", ![w].info = Len(infos'[k]), ![w].key = k]
              ELSE infos' = infos /\ handler' = [handler EXCEPT ![w].todo = Tail(@)]
<1>1. handler[w].pc = "walk" /\ handler[w].todo # <<>> /\ Head(handler[w].todo) \in Files
  BY DEF OpenOfWalk, At
<1>2. PICK k, f : k = handler[w].key + 1 /\ f = Head(handler[w].todo)
  OBVIOUS
<1>3. k \in Keys
  <2>1. PICK h, r : WalksFor(w, h, r)
    BY <1>1, WalkIs, OnWalk
  <2>2. h = handler[w] /\ h.pc = "walk" /\ h.todo # <<>> /\ Head(h.todo) \in Files
    BY <1>1, <2>1 DEF WalksFor
  <2>3. h.key + 1 \in Keys
    BY <2>1, <2>2, NextOfWalk
  <2> QED BY <1>2, <2>2, <2>3
<1>4. NewInfo(f) \in InfoType /\ f \in Files
  BY <1>1, <1>2, NewInfoTyped
<1> QED BY <1>1, <1>2, <1>3, <1>4 DEF OpenOfWalk, New, Typed, HandlerType

LEMMA FilesKept ==
  ASSUME Apart, Typed, InOrder, NEW w \in Workers, HandlerSteps(w), NEW k \in Keys
  PROVE  InfoKept(k)
<1>1. CASE infos' = infos
  BY <1>1 DEF InfoKept
<1>2. CASE OpenOfFile(w) \/ FetchReturns(w) \/ Reopen(w)
  <2>1. handler[w].pc \in {"open", "fetch", "reopen"} /\ (Reopen(w) => handler[w].pc = "reopen")
        /\ (handler[w].pc = "reopen" => Reopen(w))
    BY <1>2 DEF OpenOfFile, FetchReturns, Reopen, At
  <2>2. PICK l, f : l = Rq(w).key /\ f = Rq(w).file
    OBVIOUS
  <2>3. l \in Keys /\ f \in Files
    BY <2>1, <2>2, AtItsKey DEF HandGood, OpenGood, BlockGood, Rq
  <2>4. NewInfo(f) \in InfoType /\ [NewInfo(f) EXCEPT !.bad = f \notin there] \in InfoType
    <3>1. PICK b \in BOOLEAN : b = (f \notin there)
      OBVIOUS
    <3> QED BY <2>3, <3>1, NewInfoTyped
  <2>5. infos' = infos \/ \E e \in InfoType : infos' = [infos EXCEPT ![l] = Append(@, e)]
    BY <1>2, <2>2, <2>4 DEF OpenOfFile, FetchReturns, Reopen, New
  <2> QED BY <1>1, <2>3, <2>5, MadeKept
<1>3. CASE OpenOfWalk(w)
  <2>1. PICK l \in Keys, f \in Files :
           NewInfo(f) \in InfoType /\ (infos' = infos \/ infos' = [infos EXCEPT ![l] = Append(@, NewInfo(f))])
    BY <1>3, OpenOfWalkIs
  <2> QED BY <1>1, <2>1, MadeKept
<1>4. CASE SeekBack(w) \/ StorePos(w) \/ Erase(w) \/ Seek(w) \/ SetPos(w) \/ Read(w)
  <2>1. handler[w].pc \in {"back", "store", "erase", "seek", "setpos", "read"}
    BY <1>4 DEF SeekBack, StorePos, Erase, Seek, SetPos, Read, At
  <2>2. PICK h, l, t, s, I : WorksOn(w, h, l, t, s, I)
    BY <2>1, NoWalk, AtWork
  <2>3. Info(w) \in InfoType
    <3>1. h = handler[w] /\ h.key = l /\ I = infos[l]
      BY <2>2 DEF WorksOn
    <3>2. h.info = s /\ I[s] \in InfoType
      BY <2>1, <2>2, <3>1, SessionOpen
    <3> QED BY <3>1, <3>2 DEF Info
  <2>4. PICK e : Update(w, e) /\ e.file = Info(w).file
    <3>2. CASE SeekBack(w)
      <4>1. Update(w, [Info(w) EXCEPT !.offset = @ - Rq(w).n])
        BY <3>2 DEF SeekBack
      <4> QED BY <2>3, <4>1 DEF InfoType
    <3>3. CASE StorePos(w)
      <4>1. PICK pos : Update(w, [Info(w) EXCEPT !.pos = pos])
        BY <3>3 DEF StorePos
      <4> QED BY <2>3, <4>1 DEF InfoType
    <3>4. CASE Erase(w)
      <4>1. Update(w, [Info(w) EXCEPT !.freed = TRUE])
        BY <3>4 DEF Erase
      <4> QED BY <2>3, <4>1 DEF InfoType
    <3>5. CASE Seek(w)
      <4>1. Update(w, [Info(w) EXCEPT !.offset = Rq(w).n])
        BY <3>5 DEF Seek
      <4> QED BY <2>3, <4>1 DEF InfoType
    <3>6. CASE SetPos(w)
      <4>1. Update(w, [Info(w) EXCEPT !.pos = Rq(w).n])
        BY <3>6 DEF SetPos
      <4> QED BY <2>3, <4>1 DEF InfoType
    <3>7. CASE Read(w)
      BY <2>3, <3>7 DEF Read, InfoType
    <3> QED BY <1>4, <3>2, <3>3, <3>4, <3>5, <3>6, <3>7
  <2> QED BY <2>4, ChangedKept
<1>5. CASE Select(w) \/ MapInsert(w) \/ SendHeader(w) \/ FetchFails(w) \/ (FolderStep(w) /\ ~OpenOfWalk(w)) \/ Find(w) \/ LoadPos(w) \/ SendBlock(w)
           \/ Lookup(w) \/ Reselect(w) \/ Remap(w)
  BY <1>1, <1>5, FolderIs DEF Select, MapInsert, SendHeader, FetchFails, Find, LoadPos, SendBlock, Lookup, Reselect, Remap, memory
<1> QED BY <1>2, <1>3, <1>4, <1>5 DEF HandlerSteps, FileStep, BlockStep, ContinueStep

LEMMA OpensWell ==
  ASSUME Typed, InOrder, NEW w \in Workers, Opening(w)
  PROVE  handler[w].pc \in {"map", "sendheader"} /\ handler[w].key \in Keys /\ handler[w].info \in DOMAIN infos[handler[w].key]
<1>1. handler[w].pc # "idle"
  BY DEF Opening, Walking, InOrder, Handled
<1>2. handler[w].pc \in {"map", "sendheader"} /\ handler[w].key \in Keys
  BY <1>1, AtItsKey DEF Opening
<1> QED BY <1>1, <1>2, AtItsKey DEF HandGood, OpenGood

LEMMA StepHeads ==
  ASSUME Apart, Typed, InOrder, Heads, NEW w \in Workers, HandlerSteps(w), NEW v \in Workers
  PROVE  HeadOf(v)'
<1>1. Moves(w) /\ handler \in [Workers -> HandlerType] /\ Idle.rq = None
  BY StepMoves, IdleTyped DEF Typed
<1>2. ASSUME Opening(v), Opening(v)', handler'[v].key = handler[v].key, handler'[v].info = handler[v].info, handler'[v].todo = handler[v].todo
      PROVE  HeadOf(v)'
  <2>1. PICK k, i : k = handler[v].key /\ i = handler[v].info /\ k \in Keys /\ i \in DOMAIN infos[k]
    BY <1>2, OpensWell
  <2>2. InfoKept(k) /\ infos[k][i].file = Head(handler[v].todo)
    BY <1>2, <2>1, FilesKept DEF Heads, HeadOf, Info
  <2>3. infos'[k][i].file = Head(handler'[v].todo)
    BY <1>2, <2>1, <2>2 DEF InfoKept
  <2> QED BY <1>2, <2>1, <2>3 DEF HeadOf, Info
<1>3. CASE v # w
  <2>1. handler'[v] = handler[v]
    BY <1>1, <1>3 DEF Moves
  <2>2. Opening(v)' => Opening(v)
    BY <2>1 DEF Opening, Walking, Busy
  <2> QED BY <1>2, <2>1, <2>2 DEF HeadOf
<1>4. CASE v = w
  <2>1. SUFFICES ASSUME Opening(w)' PROVE Info(w)'.file = Head(handler'[w].todo)
    BY <1>4 DEF HeadOf
  <2>2. handler'[w].rq = handler[w].rq /\ Walking(w) /\ handler'[w].pc \notin Between
    BY <1>1, <2>1 DEF Moves, Opening, Walking, Busy
  <2>3. handler[w].pc \in Between \cup {"map", "sendheader"}
    BY <2>2 DEF InOrder, Walks, WalkGood
  <2>4. CASE handler[w].pc \in Between
    <3>1. FolderStep(w)
      BY <2>4 DEF HandlerSteps, FileStep, FolderStep, BlockStep, ContinueStep, At, Select, OpenOfFile, MapInsert, FetchFails,
         FetchReturns, Find, SeekBack, LoadPos, StorePos, Erase, Read, Lookup, Reselect, Reopen, Remap, Seek, SetPos,
         SendHeader, SendBlock
    <3>2. OpenOfWalk(w)
      <4>1. handler'[w] # Idle
        BY <1>1, <2>1 DEF Opening, Walking, Busy
      <4> QED BY <2>2, <3>1, <4>1, FolderIs
    <3>3. PICK k \in Keys, f \in Files :
           /\ k = handler[w].key + 1 /\ f = Head(handler[w].todo) /\ handler[w].todo # <<>> /\ NewInfo(f) \in InfoType
           /\ IF f \in there
              THEN /\ infos' = [infos EXCEPT ![k] = Append(@, NewInfo(f))]
                   /\ handler' = [handler EXCEPT ![w].pc = "map", ![w].info = Len(infos'[k]), ![w].key = k]
              ELSE infos' = infos /\ handler' = [handler EXCEPT ![w].todo = Tail(@)]
      BY <3>2, OpenOfWalkIs
    <3>4. f \in there
      <4>1. SUFFICES ASSUME f \notin there PROVE FALSE
        OBVIOUS
      <4>2. PICK rest : rest = Tail(handler[w].todo) /\ handler' = [handler EXCEPT ![w].todo = rest]
        BY <3>3, <4>1
      <4>3. handler[w].pc = "walk"
        BY <3>2 DEF OpenOfWalk, At
      <4> QED BY <1>1, <2>2, <4>2, <4>3 DEF HandlerType
    <3>5. PICK I, e, n : I = infos[k] /\ e = NewInfo(f) /\ n = Len(infos'[k]) /\ I \in Seq(InfoType)
      BY DEF Typed
    <3>6. infos' = [infos EXCEPT ![k] = Append(I, e)] /\ handler' = [handler EXCEPT ![w].pc = "map", ![w].info = n, ![w].key = k]
      BY <3>3, <3>4, <3>5
    <3>7. infos'[k] = Append(I, e) /\ handler'[w].key = k /\ handler'[w].info = n /\ handler'[w].todo = handler[w].todo
      BY <1>1, <3>6 DEF Typed, HandlerType
    <3>8. n = Len(I) + 1 /\ Append(I, e)[Len(I) + 1] = e /\ e.file = f
      BY <3>3, <3>5, <3>7, OneMore DEF NewInfo
    <3> QED BY <3>3, <3>7, <3>8 DEF Info
  <2>5. CASE handler[w].pc \notin Between
    <3>1. MapInsert(w) \/ SendHeader(w)
      BY <2>3, <2>5 DEF HandlerSteps, FileStep, FolderStep, BlockStep, ContinueStep, At, Select, OpenOfFile,
         SelectFolder, SendFolder, SelectChildren, OpenOfWalk, WalkEnds, FetchFails, FetchReturns,
         Find, SeekBack, LoadPos, StorePos, Erase, Read, Lookup, Reselect, Reopen, Remap, Seek, SetPos, SendBlock
    <3>2. ~SendHeader(w)
      <4>1. SUFFICES ASSUME SendHeader(w) PROVE FALSE
        OBVIOUS
      <4>2. Rq(w).op # "file"
        BY <2>2 DEF Walking, Rq
      <4>3. handler' = [handler EXCEPT ![w].pc = "walk", ![w].todo = Tail(@), ![w].info = 0]
        BY <4>1, <4>2 DEF SendHeader
      <4> QED BY <1>1, <2>2, <4>3 DEF HandlerType
    <3>3. handler' = [handler EXCEPT ![w].pc = "sendheader"]
      BY <3>1, <3>2 DEF MapInsert, Goes
    <3>4. handler'[w].key = handler[w].key /\ handler'[w].info = handler[w].info /\ handler'[w].todo = handler[w].todo
      BY <1>1, <3>3 DEF HandlerType
    <3>5. HeadOf(v)'
      BY <1>2, <1>4, <2>1, <2>2, <2>5, <3>4 DEF Opening
    <3> QED BY <1>4, <2>1, <3>5 DEF HeadOf
  <2> QED BY <2>4, <2>5
<1> QED BY <1>3, <1>4

\* Where the FileInfos and the handlers stay as they are.
LEMMA HeadsSame ==
  ASSUME Heads, infos' = infos, \A w \in Workers : Opening(w)' => handler'[w] = handler[w]
  PROVE  Heads'
<1>1. ASSUME NEW w \in Workers, Opening(w)' PROVE Info(w)'.file = Head(handler'[w].todo)
  <2>1. handler'[w] = handler[w]
    BY <1>1
  <2>2. Opening(w)
    BY <1>1, <2>1 DEF Opening, Walking, Busy
  <2> QED BY <2>1, <2>2 DEF Heads, HeadOf, Info
<1> QED BY <1>1 DEF Heads, HeadOf

LEMMA HeadsKeeps ==
  ASSUME Apart, Typed, InOrder, Heads, [Next]_downloadVars PROVE Heads'
<1>1. ASSUME NEW k \in Keys, (k \in DOMAIN Wanted /\ ClientAsks(k)) \/ ClientContinues(k) PROVE Heads'
  <2>1. infos' = infos /\ handler' = handler
    BY <1>1, ClientIs
  <2> QED BY <2>1, HeadsSame
<1>2. CASE Disconnect
  BY <1>2, HeadsSame DEF Disconnect, memory
<1>3. CASE Crash
  <2>1. \A w \in Workers : handler'[w].rq = None
    BY <1>3, IdleTyped DEF Crash
  <2> QED BY <2>1 DEF Heads, HeadOf, Opening, Walking, Busy
<1>4. ASSUME NEW w \in Workers, Deal(w) PROVE Heads'
  <2>1. PICK rq \in inbox : /\ handler'[w].rq = rq /\ handler'[w].pc \in {"select", "folder", "find", "lookup"}
                            /\ rq.op = "folder" => handler'[w].pc = "folder"
                            /\ handler'[w].pc = First(rq.op)
                            /\ \A v \in Workers \ {w} : handler'[v] = handler[v]
                            /\ infos' = infos
    BY <1>4, DealIs
  <2>2. ~Opening(w)'
    BY <2>1 DEF Opening, Walking
  <2> QED BY <2>1, <2>2, HeadsSame
<1>5. ASSUME NEW w \in Workers, HandlerSteps(w) PROVE Heads'
  <2>1. \A v \in Workers : HeadOf(v)'
    BY <1>5, StepHeads
  <2> QED BY <2>1 DEF Heads, HeadOf
<1>6. ASSUME Others PROVE Heads'
  <2>1. infos' = infos /\ handler' = handler
    BY <1>6, OthersAre
  <2> QED BY <2>1, HeadsSame
<1>7. CASE UNCHANGED downloadVars
  BY <1>7, HeadsSame DEF downloadVars, memory
<1>8. \A k \in DOMAIN Wanted : k \in Keys
  BY DownloadAssumption
<1> QED BY <1>1, <1>2, <1>3, <1>4, <1>5, <1>6, <1>7, <1>8 DEF Next, Others, ClientStep, WorkerStep, HandlerSteps
-----------------------------------------------------------------------------
(* Of a folder that has been asked for, everything is walked, left, or had. *)

\* A folder E more walked: what was left still is, or is walked, or is a file the client has a task of.
LEMMA WalkedOn ==
  ASSUME NEW k \in DOMAIN Wanted, Wanted[k] \in Folders, NEW D \in SUBSET Folders, WalkedIn(k, D), NEW E \in SUBSET Folders,
         \A x \in Left(k) : x \in E \cup Left(k)' \/ (x \in Files /\ x \in Had'),
         \A d \in E : Children[d] \subseteq Left(k)',
         \A x \in Had \cap Items : x \in Had'
  PROVE  \E S \in SUBSET Folders : WalkedIn(k, S)'
<1>1. Files \cap Folders = {} /\ \A d \in Folders : Children[d] \subseteq Items
  BY DownloadAssumption
<1>2. PICK S : S = D \cup E /\ S \in SUBSET Folders
  OBVIOUS
<1>3. Wanted[k] \in S \cup Left(k)'
  BY <1>1, <1>2 DEF WalkedIn
<1>4. ASSUME NEW d \in S, NEW x \in Children[d] PROVE x \in S \cup Left(k)' \cup Had'
  <2>1. x \in Items
    BY <1>1, <1>2, <1>4
  <2>2. d \in E \/ x \in D \cup Left(k) \cup Had
    BY <1>2, <1>4 DEF WalkedIn
  <2> QED BY <1>2, <1>4, <2>1, <2>2
<1>5. WalkedIn(k, S)'
  BY <1>3, <1>4 DEF WalkedIn
<1> QED BY <1>2, <1>5

\* What is left of a request stays so, where its walk does not move.
LEMMA LeftStays ==
  ASSUME NEW w \in Workers, Moves(w), NEW k, NEW x \in Left(k),
         handler[w].rq.key = k /\ x \in ToSet(handler[w].todo) => handler'[w] # Idle /\ x \in ToSet(handler'[w].todo)
  PROVE  x \in Left(k)'
<1>1. CASE \E r \in inbox : r.key = k /\ r.file = x
  BY <1>1 DEF Moves, Left
<1>2. ASSUME NEW v \in Workers, Busy(v), handler[v].rq.key = k, x \in ToSet(handler[v].todo) PROVE x \in Left(k)'
  <2>1. handler'[v].rq = handler[v].rq /\ x \in ToSet(handler'[v].todo)
    BY <1>2 DEF Moves
  <2>2. Busy(v)' /\ handler'[v].rq.key = k
    BY <1>2, <2>1 DEF Busy
  <2> QED BY <2>1, <2>2 DEF Left
<1> QED BY <1>1, <1>2 DEF Left

\* A file the client has a task of, it keeps it of; and a task of a folder is made by its request.
LEMMA HadStays ==
  ASSUME Apart, Typed, InOrder, NEW w \in Workers, HandlerSteps(w)
  PROVE  /\ \A x \in Had \cap Items : x \in Had'
         /\ \A k \in DOMAIN Wanted : Wanted[k] \in Folders /\ task[k] = NoTask => task'[k] = NoTask
<1>1. \A k \in Keys : task[k] \in TaskType
  BY DEF Typed
<1>2. None \notin Items /\ Files \cap Folders = {} /\ Files \subseteq Items /\ DOMAIN Wanted \subseteq Keys
  BY DownloadAssumption DEF Items
<1>3. /\ \A k \in Keys : task[k].file \in Items => task'[k].file = task[k].file
      /\ \A k \in DOMAIN Wanted : Wanted[k] \in Folders /\ task[k] = NoTask => task'[k] = NoTask
  <2>1. CASE task' = task
    BY <2>1
  <2>2. CASE SendHeader(w)
    <3>1. PICK l \in Keys, f \in Files :
           /\ task[l].file = None
           /\ IF Rq(w).conn = conn THEN task' = [task EXCEPT ![l] = NewTask(f)] ELSE task' = task
           /\ handler[w].rq.op # "folder" => l = handler[w].rq.key /\ (l \in DOMAIN Wanted => f = Wanted[l])
           /\ handler[w].rq.op = "folder" => l \notin DOMAIN Wanted
      BY <2>2, HeaderAt
    <3>2. CASE task' = [task EXCEPT ![l] = NewTask(f)]
      <4>1. \A k \in Keys : k # l => task'[k] = task[k]
        BY <3>2 DEF Typed
      <4>2. ASSUME l \in DOMAIN Wanted, Wanted[l] \in Folders PROVE FALSE
        BY <1>2, <3>1, <4>2
      <4> QED BY <1>2, <3>1, <4>1, <4>2
    <3> QED BY <2>1, <3>1, <3>2
  <2>3. CASE SendBlock(w)
    <3>1. handler[w].pc = "send"
      BY <2>3 DEF SendBlock, At
    <3>2. PICK h, l, t, s, I : WorksOn(w, h, l, t, s, I)
      BY <3>1, NoWalk, AtWork
    <3>3. l = Rq(w).key /\ l \in Keys /\ task[l] # NoTask
      BY <3>2 DEF WorksOn, Rq
    <3>4. task' = task \/ \E got : Writes(l, got)
      BY <2>3, <3>3 DEF SendBlock, GetsBlock
    <3>5. ASSUME NEW got, Writes(l, got)
          PROVE  /\ \A k \in Keys : task'[k].file = task[k].file
                 /\ \A k \in Keys : task[k] = NoTask => task'[k] = task[k]
      BY <1>1, <3>3, <3>5 DEF Writes, TaskType, Typed
    <3> QED BY <1>2, <2>1, <3>4, <3>5
  <2>4. task' = task \/ SendHeader(w) \/ SendBlock(w)
    BY StepMoves, SendsIs DEF Moves
  <2> QED BY <2>1, <2>2, <2>3, <2>4
<1> QED BY <1>2, <1>3 DEF Had

\* Who works for a folder's request is on its walk.
LEMMA OwnWalk ==
  ASSUME Typed, InOrder, NEW k \in DOMAIN Wanted, Wanted[k] \in Folders, task[k].pc \in {"none", "folder"},
         NEW w \in Workers, Busy(w), handler[w].rq.key = k
  PROVE  Walking(w)
<1>1. handler[w].pc # "idle" /\ Files \cap Folders = {} /\ k \in Keys /\ None \notin Files
  BY DownloadAssumption DEF InOrder, Handled, Items
<1>2. SUFFICES ASSUME ~Walking(w) PROVE FALSE
  OBVIOUS
<1>3. handler[w].key = k /\ handler[w].rq \in Requests /\ handler[w].rq.op # "folder" /\ HandGood(handler[w], task[k], sessions[k], infos[k])
  BY <1>1, <1>2, AtItsKey
<1>4. handler[w].rq.op \in {"file", "header", "content", "continue"}
  BY <1>3 DEF Requests
<1>5. handler[w].rq.op # "file"
  BY <1>1, <1>3 DEF HandGood, OpenGood
<1>6. task[k].file \in Files
  BY <1>3, <1>4, <1>5 DEF HandGood, BlockGood
<1>7. KeyGood(task[k], sessions[k], infos[k])
  BY <1>1 DEF InOrder, Keyed
<1> QED BY <1>1, <1>6, <1>7 DEF KeyGood

\* The steps of a walk.
LEMMA WalkingSteps ==
  ASSUME Typed, InOrder, NEW w \in Workers, Walking(w), HandlerSteps(w)
  PROVE  FolderStep(w) \/ MapInsert(w) \/ SendHeader(w)
<1>1. handler[w].pc \in Between \cup {"map", "sendheader"}
  BY DEF InOrder, Walks, WalkGood
<1> QED BY <1>1 DEF HandlerSteps, FileStep, FolderStep, BlockStep, ContinueStep, At, Select, OpenOfFile,
         FetchFails, FetchReturns, Find, SeekBack, LoadPos, StorePos, Erase, Read, SendBlock, Lookup, Reselect, Reopen, Remap,
         Seek, SetPos

\* Of a walk's rest, a step takes what it walks, or a file the client gets a task of.
LEMMA WalkTakes ==
  ASSUME Apart, Typed, InOrder, Connected, Untroubled, Heads, Steady, Undisturbed,
         NEW w \in Workers, Walking(w), HandlerSteps(w)
  PROVE  \E E \in SUBSET Folders :
           /\ \A x \in ToSet(handler[w].todo) : \/ x \in E \/ (x \in Files /\ x \in Had')
                                                \/ handler'[w] # Idle /\ x \in ToSet(handler'[w].todo)
           /\ \A d \in E : Children[d] \subseteq ToSet(handler'[w].todo)
           /\ E # {} => handler'[w] # Idle
<1>1. handler[w] \in HandlerType /\ handler \in [Workers -> HandlerType] /\ handler[w].rq # None /\ Idle.rq = None
  BY IdleTyped DEF Typed, Walking, Busy
<1>2. PICK todo : todo = handler[w].todo /\ todo \in Seq(Items)
  BY <1>1 DEF HandlerType
<1>3. PICK none \in SUBSET Folders : none = {}
  OBVIOUS
<1>4. CASE SelectChildren(w)
  <2>1. PICK d : d = Head(todo) /\ d \in Folders /\ todo # <<>>
    <3>1. handler[w].pc = "children"
      BY <1>4 DEF SelectChildren, At
    <3> QED BY <1>2, <3>1 DEF InOrder, Walks, WalkGood
  <2>2. PICK rows \in Rows(d) : handler' = [handler EXCEPT ![w].pc = "walk", ![w].todo = rows \o Tail(todo)]
    BY <1>2, <1>4, <2>1 DEF SelectChildren
  <2>3. IsFiniteSet(Children[d]) /\ Children[d] \subseteq Items /\ rows \in SetToSeqs(Children[d])
    <3>1. IsFiniteSet(Children[d]) /\ Children[d] \subseteq Items /\ listed = Items
      BY <2>1, DownloadAssumption DEF Untroubled
    <3>2. Children[d] \cap listed = Children[d]
      BY <3>1
    <3> QED BY <3>1, <3>2 DEF Rows
  <2>4. rows \in Seq(Children[d]) /\ ToSet(rows) = Children[d]
    BY <2>3, RowsOfSet
  <2>5. rows \in Seq(Items)
    BY <2>3, <2>4
  <2>6. ToSet(todo) = {d} \cup ToSet(Tail(todo)) /\ Tail(todo) \in Seq(Items)
    BY <1>2, <2>1, HeadAndRest
  <2>7. ToSet(rows \o Tail(todo)) = Children[d] \cup ToSet(Tail(todo))
    <3>1. PICK end : end = Tail(todo) /\ end \in Seq(Items)
      BY <2>6
    <3>2. PICK T : T = Items
      OBVIOUS
    <3>3. PICK s \in Seq(T), t \in Seq(T) : s = rows /\ t = end
      BY <2>5, <3>1, <3>2
    <3>4. ToSet(s \o t) = ToSet(s) \cup ToSet(t)
      BY BothInOne
    <3> QED BY <2>4, <3>1, <3>3, <3>4
  <2>8. PICK rest : rest = rows \o Tail(todo)
    OBVIOUS
  <2>9. handler' = [handler EXCEPT ![w].pc = "walk", ![w].todo = rest]
    BY <2>2, <2>8
  <2>10. handler'[w].todo = rest /\ handler'[w].rq = handler[w].rq
    BY <1>1, <2>9 DEF HandlerType
  <2>11. handler'[w] # Idle
    BY <1>1, <2>10
  <2>12. PICK E : E = {d} /\ E \in SUBSET Folders
    BY <2>1
  <2> QED BY <1>2, <2>6, <2>7, <2>8, <2>10, <2>11, <2>12
<1>5. CASE OpenOfWalk(w)
  <2>1. PICK k \in Keys, f \in Files :
          f \in there => handler' = [handler EXCEPT ![w].pc = "map", ![w].info = Len(infos'[k]), ![w].key = k]
    BY <1>5, OpenOfWalkIs
  <2>2. f \in there
    BY DEF Untroubled
  <2>3. PICK n : n = Len(infos'[k])
    OBVIOUS
  <2>4. handler' = [handler EXCEPT ![w].pc = "map", ![w].info = n, ![w].key = k]
    BY <2>1, <2>2, <2>3
  <2>5. handler'[w].todo = todo /\ handler'[w].rq = handler[w].rq
    BY <1>1, <1>2, <2>4 DEF HandlerType
  <2> QED BY <1>1, <1>2, <1>3, <2>5
<1>6. CASE WalkEnds(w)
  <2>1. todo = <<>>
    BY <1>2, <1>6 DEF WalkEnds
  <2>2. ToSet(todo) = {}
    BY <2>1 DEF ToSet
  <2> QED BY <1>2, <1>3, <2>2
<1>7. CASE MapInsert(w)
  <2>1. handler'[w].todo = todo /\ handler'[w].rq = handler[w].rq
    BY <1>1, <1>2, <1>7 DEF MapInsert, Goes, HandlerType
  <2> QED BY <1>1, <1>2, <1>3, <2>1
<1>8. CASE SendHeader(w)
  <2>1. PICK l \in Keys, f \in Files :
           /\ f = Info(w).file /\ handler[w].pc = "sendheader" /\ Rq(w) = handler[w].rq
           /\ IF Rq(w).conn = conn THEN task' = [task EXCEPT ![l] = NewTask(f)] ELSE task' = task
    BY <1>8, HeaderAt
  <2>2. f = Head(todo) /\ Opening(w)
    BY <1>2, <2>1 DEF Heads, HeadOf, Opening
  <2>3. todo # <<>>
    BY <1>2, <2>2 DEF InOrder, Walks, WalkGood, Opening
  <2>4. Rq(w).conn = conn /\ Rq(w).op = "folder"
    BY <2>1 DEF Connected, Walking
  <2>5. f \in Had'
    <3>1. task'[l].file = f
      BY <2>1, <2>4 DEF NewTask, Typed
    <3> QED BY <3>1 DEF Had
  <2>6. ToSet(todo) = {f} \cup ToSet(Tail(todo)) /\ Tail(todo) \in Seq(Items)
    BY <1>2, <2>2, <2>3, HeadAndRest
  <2>7. PICK rest : rest = Tail(todo)
    OBVIOUS
  <2>8. handler' = [handler EXCEPT ![w].pc = "walk", ![w].todo = rest, ![w].info = 0]
    BY <1>2, <1>8, <2>4, <2>7 DEF SendHeader
  <2>9. handler'[w].todo = rest /\ handler'[w].rq = handler[w].rq
    BY <1>1, <2>8 DEF HandlerType
  <2> QED BY <1>1, <1>2, <1>3, <2>5, <2>6, <2>7, <2>9
<1>9. CASE SelectFolder(w)
  <2>1. handler[w].pc = "folder" /\ listed = Items
    BY <1>9 DEF SelectFolder, At, Untroubled
  <2>2. Rq(w).file \in Items
    BY <1>1 DEF Rq, Walking, Typed, HandlerType, Requests
  <2>3. handler' = [handler EXCEPT ![w].pc = "walk"]
    BY <1>9, <2>1, <2>2 DEF SelectFolder, Goes
  <2>4. handler'[w].todo = todo /\ handler'[w].rq = handler[w].rq
    BY <1>1, <1>2, <2>3 DEF HandlerType
  <2> QED BY <1>1, <1>2, <1>3, <2>4
<1>10. CASE SendFolder(w)
  <2>1. handler' = [handler EXCEPT ![w].key = @ + 1, ![w].pc = "children"]
    BY <1>10 DEF SendFolder
  <2>2. handler'[w].todo = todo /\ handler'[w].rq = handler[w].rq
    BY <1>1, <1>2, <2>1 DEF HandlerType
  <2> QED BY <1>1, <1>2, <1>3, <2>2
<1> QED BY <1>4, <1>5, <1>6, <1>7, <1>8, <1>9, <1>10, WalkingSteps DEF FolderStep

LEMMA StepWalked ==
  ASSUME Apart, Typed, InOrder, Connected, Untroubled, Wishes, Heads, Steady, Undisturbed,
         NEW w \in Workers, HandlerSteps(w), NEW k \in DOMAIN Wanted, Wanted[k] \in Folders, NEW D \in SUBSET Folders, WalkedIn(k, D)
  PROVE  \E S \in SUBSET Folders : WalkedIn(k, S)'
<1>1. Moves(w) /\ \A x \in Had \cap Items : x \in Had'
  BY StepMoves, HadStays
<1>2. CASE handler[w].rq.key # k
  <2>1. \A x \in Left(k) : x \in Left(k)'
    BY <1>1, <1>2, LeftStays
  <2>2. PICK E \in SUBSET Folders : E = {}
    OBVIOUS
  <2> QED BY <1>1, <2>1, <2>2, WalkedOn
<1>3. CASE handler[w].rq.key = k
  <2>1. Walking(w)
    <3>1. task[k].pc \in {"none", "folder"}
      BY DownloadAssumption DEF Wishes, AsWished
    <3> QED BY <1>1, <1>3, <3>1, OwnWalk DEF Moves
  <2>2. PICK E \in SUBSET Folders :
           /\ \A x \in ToSet(handler[w].todo) : \/ x \in E \/ (x \in Files /\ x \in Had')
                                                \/ handler'[w] # Idle /\ x \in ToSet(handler'[w].todo)
           /\ \A d \in E : Children[d] \subseteq ToSet(handler'[w].todo)
           /\ E # {} => handler'[w] # Idle
    BY <2>1, WalkTakes
  <2>3. \A x \in Left(k) : x \in E \cup Left(k)' \/ (x \in Files /\ x \in Had')
    BY <1>1, <2>2, LeftStays
  <2>4. ASSUME NEW d \in E, NEW x \in Children[d] PROVE x \in Left(k)'
    <3>1. handler'[w].rq = handler[w].rq /\ x \in ToSet(handler'[w].todo) /\ Busy(w)
      BY <1>1, <2>2, <2>4 DEF Moves
    <3>2. Busy(w)' /\ handler'[w].rq.key = k /\ x \in Items
      BY <1>3, <2>4, <3>1, DownloadAssumption DEF Busy
    <3> QED BY <3>1, <3>2 DEF Left
  <2> QED BY <1>1, <2>2, <2>3, <2>4, WalkedOn
<1> QED BY <1>2, <1>3

\* Where nothing is taken from what is left, nor from what the client has tasks of.
LEMMA WalkedSame ==
  ASSUME Walked, Steady' => Steady, Undisturbed' => Undisturbed,
         \A k : Left(k) \subseteq Left(k)', \A x \in Had \cap Items : x \in Had',
         \A k \in DOMAIN Wanted : Wanted[k] \in Folders /\ task'[k] # NoTask => task[k] # NoTask
  PROVE  Walked'
<1>1. ASSUME Steady', Undisturbed', NEW k \in DOMAIN Wanted, task'[k] # NoTask, Wanted[k] \in Folders
      PROVE  \E S \in SUBSET Folders : WalkedIn(k, S)'
  <2>1. PICK D \in SUBSET Folders : WalkedIn(k, D)
    BY <1>1 DEF Walked
  <2>2. PICK E \in SUBSET Folders : E = {}
    OBVIOUS
  <2> QED BY <1>1, <2>1, <2>2, WalkedOn
<1> QED BY <1>1 DEF Walked

LEMMA WalkedKeeps ==
  ASSUME Apart, Typed, InOrder, Connected, Untroubled, Wishes, Heads, Walked, [Next]_downloadVars PROVE Walked'
<1>1. ASSUME NEW j \in Keys, j \in DOMAIN Wanted, ClientAsks(j) PROVE Walked'
  <2>1. \A l \in Keys : task'[l].file = task[l].file /\ (l # j => task'[l] = task[l])
    BY <1>1, ClientIs
  <2>2. inbox \subseteq inbox' /\ UNCHANGED <<handler, spent>>
    BY <1>1, ClientIs
  <2>3. /\ \A k : Left(k) \subseteq Left(k)'
        /\ \A x \in Had \cap Items : x \in Had'
    BY <2>1, <2>2 DEF Left, Busy, Had
  <2>4. ASSUME Wanted[j] \in Folders PROVE Wanted[j] \in Left(j)'
    <3>1. PICK op, f : op = (IF Wanted[j] \in Files THEN "file" ELSE "folder") /\ f = Wanted[j]
      OBVIOUS
    <3>2. PICK r : r = [op |-> op, key |-> j, file |-> f, n |-> 0, ok |-> TRUE, conn |-> conn]
      OBVIOUS
    <3>3. r \in inbox' /\ r.key = j /\ r.file = Wanted[j] /\ Wanted[j] \in Items
      BY <1>1, <2>4, <3>1, <3>2 DEF ClientAsks, Request, Items
    <3> QED BY <3>3 DEF Left
  <2>5. ASSUME Steady, Undisturbed, NEW k \in DOMAIN Wanted, task'[k] # NoTask, Wanted[k] \in Folders
        PROVE  \E S \in SUBSET Folders : WalkedIn(k, S)'
    <3>1. PICK none \in SUBSET Folders : none = {}
      OBVIOUS
    <3>2. CASE k = j
      BY <2>4, <2>5, <3>1, <3>2 DEF WalkedIn
    <3>3. CASE k # j
      <4>1. k \in Keys /\ task[k] # NoTask
        BY <2>1, <2>5, <3>3, DownloadAssumption
      <4>2. PICK D \in SUBSET Folders : WalkedIn(k, D)
        BY <2>5, <4>1 DEF Walked
      <4> QED BY <2>3, <2>5, <3>1, <4>2, WalkedOn
    <3> QED BY <3>2, <3>3
  <2> QED BY <2>2, <2>5 DEF Walked, Steady, Undisturbed
<1>2. ASSUME NEW k \in Keys, ClientContinues(k) PROVE Walked'
  <2>1. task[k].pc = "lost" /\ spent' = spent
    BY <1>2 DEF ClientContinues
  <2>2. ~Steady'
    BY <2>1 DEF Connected, Steady
  <2> QED BY <2>2 DEF Walked
<1>3. CASE Disconnect \/ Crash
  BY <1>3, NotSteady DEF Walked
<1>4. ASSUME NEW w \in Workers, Deal(w) PROVE Walked'
  <2>1. PICK rq \in inbox : /\ inbox' = inbox \ {rq} /\ handler'[w].rq = rq /\ rq \in Requests /\ handler[w] = Idle
                            /\ handler'[w].todo = <<rq.file>>
                            /\ \A v \in Workers \ {w} : handler'[v] = handler[v]
                            /\ UNCHANGED <<task, spent>>
    BY <1>4, DealIs
  <2>2. rq # None /\ Idle.rq = None
    BY <2>1, IdleTyped, DownloadAssumption
  <2>3. rq.file \in ToSet(handler'[w].todo)
    <3>1. PICK f : f = rq.file
      OBVIOUS
    <3>2. f \in ToSet(<<f>>)
      <4>1. 1 \in DOMAIN <<f>> /\ <<f>>[1] = f
        OBVIOUS
      <4> QED BY <4>1 DEF ToSet
    <3> QED BY <2>1, <3>1, <3>2
  <2>4. ASSUME NEW k, NEW x \in Left(k) PROVE x \in Left(k)'
    <3>1. ASSUME NEW r \in inbox, r.key = k, r.file = x PROVE x \in Left(k)'
      BY <2>1, <2>2, <2>3, <2>4, <3>1 DEF Left, Busy
    <3>2. ASSUME NEW v \in Workers, Busy(v), handler[v].rq.key = k, x \in ToSet(handler[v].todo) PROVE x \in Left(k)'
      <4>1. v # w /\ handler'[v] = handler[v]
        BY <2>1, <2>2, <3>2 DEF Busy
      <4> QED BY <2>4, <3>2, <4>1 DEF Left, Busy
    <3> QED BY <2>4, <3>1, <3>2 DEF Left
  <2>5. (Steady' => Steady) /\ (Undisturbed' => Undisturbed) /\ Had' = Had
    BY <2>1 DEF Steady, Undisturbed, Had
  <2> QED BY <2>1, <2>4, <2>5, WalkedSame
<1>5. ASSUME NEW w \in Workers, HandlerSteps(w) PROVE Walked'
  <2>1. (Steady' => Steady) /\ (Undisturbed' => Undisturbed)
    BY <1>5, StepMoves DEF Moves
  <2>2. ASSUME Steady, Undisturbed, NEW k \in DOMAIN Wanted, task'[k] # NoTask, Wanted[k] \in Folders
        PROVE  \E S \in SUBSET Folders : WalkedIn(k, S)'
    <3>1. task[k] # NoTask
      BY <1>5, <2>2, HadStays
    <3>2. PICK D \in SUBSET Folders : WalkedIn(k, D)
      BY <2>2, <3>1 DEF Walked
    <3> QED BY <1>5, <2>2, <3>2, StepWalked
  <2> QED BY <2>1, <2>2 DEF Walked
<1>6. ASSUME Others PROVE Walked'
  <2>1. UNCHANGED <<inbox, handler, task>>
    BY <1>6, OthersAre
  <2>2. (Steady' => Steady) /\ (Undisturbed' => Undisturbed)
    BY <1>6, OthersAre
  <2>3. Had' = Had /\ \A k : Left(k)' = Left(k)
    BY <2>1 DEF Had, Left, Busy
  <2> QED BY <2>1, <2>2, <2>3, WalkedSame
<1>7. CASE UNCHANGED downloadVars
  <2>1. UNCHANGED <<inbox, handler, task, spent>>
    BY <1>7 DEF downloadVars
  <2>2. Had' = Had /\ \A k : Left(k)' = Left(k)
    BY <2>1 DEF Had, Left, Busy
  <2> QED BY <2>1, <2>2, WalkedSame DEF Steady, Undisturbed
<1>8. \A k \in DOMAIN Wanted : k \in Keys
  BY DownloadAssumption
<1> QED BY <1>1, <1>2, <1>3, <1>4, <1>5, <1>6, <1>7, <1>8 DEF Next, Others, ClientStep, WorkerStep, HandlerSteps
-----------------------------------------------------------------------------
(* How downloads end.                                                       *)

EndsAsAsked == Whole /\ Connected /\ Closing /\ Untroubled /\ Lively /\ Wishes /\ Heads /\ Walked

LEMMA EndsInit == ASSUME Apart, Init PROVE EndsAsAsked
<1>1. /\ listed = Items /\ there = Files /\ inbox = {}
      /\ \A k \in Keys : task[k] = NoTask /\ sessions[k] = None /\ infos[k] = <<>>
      /\ \A w \in Workers : handler[w] = Idle /\ handler[w].rq = None /\ handler[w].pc = "idle"
  BY IdleTyped DEF Init
<1>2. NoTask.pc = "none" /\ NoTask.file = None
  BY DEF NoTask
<1>3. DOMAIN Wanted \subseteq Keys /\ Files \cap Folders = {}
  BY DownloadAssumption
<1>4. Whole /\ Connected /\ Closing
  BY <1>1, <1>2 DEF Whole, Connected, Closing, Busy
<1>5. Untroubled /\ Lively
  BY <1>1, <1>2 DEF Untroubled, Lively, LivelyAt, MoreAll, Busy
<1>6. Wishes /\ Heads
  BY <1>1, <1>2, <1>3 DEF Wishes, AsWished, Heads, HeadOf, Opening, Walking, Busy
<1>7. Walked
  BY <1>1, <1>3 DEF Walked
<1> QED BY <1>4, <1>5, <1>6, <1>7 DEF EndsAsAsked

(* With what is in order, it stays so that who is done has the whole file,   *)
(* that a session still open then has its last answer on the way, that who   *)
(* waits has a request under way, and that what is in a folder is walked,    *)
(* left to walk, or has a task.                                              *)
THEOREM AlwaysEnds == ASSUME Apart PROVE Spec => [](Typed /\ InOrder /\ EndsAsAsked)
<1>1. Init => Typed /\ InOrder /\ EndsAsAsked
  BY InitKeeps, EndsInit
<1>2. Typed /\ InOrder /\ EndsAsAsked /\ [Next]_downloadVars => Typed' /\ InOrder' /\ EndsAsAsked'
  <2>1. SUFFICES ASSUME Typed, InOrder, EndsAsAsked, [Next]_downloadVars PROVE Typed' /\ InOrder' /\ EndsAsAsked'
    OBVIOUS
  <2>2. Typed' /\ InOrder'
    BY <2>1, NextKeeps
  <2>3. Whole' /\ Connected' /\ Closing' /\ Untroubled'
    BY <2>1, WholeKeeps, ConnectedKeeps, ClosingKeeps, UntroubledKeeps DEF EndsAsAsked
  <2>4. Lively' /\ Wishes' /\ Heads' /\ Walked'
    BY <2>1, LivelyKeeps, WishesKeeps, HeadsKeeps, WalkedKeeps DEF EndsAsAsked
  <2> QED BY <2>2, <2>3, <2>4 DEF EndsAsAsked
<1> QED BY <1>1, <1>2, PTL DEF Spec

\* Nothing is under way, and nothing has been lost.
LEMMA QuietIs ==
  ASSUME Quiet, Typed
  PROVE  Steady /\ inbox = {} /\ (\A w \in Workers : handler[w] = Idle /\ ~Busy(w))
<1>1. spent["lost"] \in Nat /\ spent["crash"] \in Nat
  BY DEF Typed, SpentType, Kinds
<1>2. spent.lost = 0 /\ spent.crash = 0
  BY <1>1 DEF Quiet
<1> QED BY <1>2, IdleTyped DEF Quiet, Steady, Busy

(* When no request is under way, over one connection, a download that is     *)
(* done has left no session open (FileContentRs, clogic.cpp 527).            *)
THEOREM SessionsAreClosed == ASSUME Apart PROVE Spec => []SessionsClosed
<1>1. ASSUME Typed, EndsAsAsked PROVE SessionsClosed
  <2>1. SUFFICES ASSUME Quiet, NEW k \in Keys, task[k].pc = "done", sessions[k] # None PROVE FALSE
    BY DEF SessionsClosed
  <2>2. Finishing(k)
    BY <1>1, <2>1, QuietIs DEF EndsAsAsked, Closing
  <2> QED BY <1>1, <2>1, <2>2, QuietIs DEF Finishing
<1> QED BY <1>1, AlwaysEnds, PTL

\* Who has a task of a file has the file, when nothing is under way.
LEMMA HasIt ==
  ASSUME Typed, InOrder, EndsAsAsked, Quiet, Undisturbed, NEW l \in Keys, task[l].file \in Files
  PROVE  task[l].pc = "done"
<1>1. Steady /\ inbox = {} /\ \A w \in Workers : ~Busy(w)
  BY QuietIs
<1>2. task[l].pc \in {"waiting", "lost", "done"}
  BY DownloadAssumption DEF InOrder, Keyed, KeyGood, Items
<1>3. task[l].pc # "lost"
  BY <1>1 DEF EndsAsAsked, Connected
<1>4. task[l].pc # "waiting"
  BY <1>1 DEF EndsAsAsked, Lively, LivelyAt, UnderWay
<1> QED BY <1>2, <1>3, <1>4

(* When no request is under way, over one connection, and nothing has been   *)
(* deleted or met the end of a file still being received, whoever asked for  *)
(* a file or a folder has every file of it: none is forgotten on the walk,   *)
(* and no task waits for ever.                                               *)
THEOREM AllOfItArrives == ASSUME Apart PROVE Spec => []AllOfItArrived
<1>1. ASSUME Typed, InOrder, EndsAsAsked PROVE AllOfItArrived
  <2>1. SUFFICES ASSUME Quiet, Undisturbed, NEW k \in DOMAIN Wanted, task[k] # NoTask, NEW f \in FilesIn[Wanted[k]]
                 PROVE  \E l \in Keys : task[l].file = f /\ task[l].pc = "done"
    BY DEF AllOfItArrived
  <2>2. Steady /\ inbox = {} /\ \A w \in Workers : ~Busy(w)
    BY <1>1, <2>1, QuietIs
  <2>3. k \in Keys /\ Wanted[k] \in Items /\ None \notin Items /\ Files \cap Folders = {}
    BY DownloadAssumption
  <2>4. /\ f \in Files
        /\ \A S \in SUBSET Items :
             Wanted[k] \in S /\ (\A d \in S \cap Folders : Children[d] \subseteq S) => f \in S
    BY <2>1, <2>3 DEF FilesIn
  <2>5. \E l \in Keys : task[l].file = f
    <3>1. CASE Wanted[k] \in Files
      <4>1. f = Wanted[k]
        <5>1. PICK S : S = {Wanted[k]}
          OBVIOUS
        <5>2. S \in SUBSET Items /\ Wanted[k] \in S /\ S \cap Folders = {}
          BY <2>3, <3>1, <5>1
        <5> QED BY <2>4, <5>1, <5>2
      <4>2. task[k] \in TaskType /\ KeyGood(task[k], sessions[k], infos[k])
        BY <1>1, <2>3 DEF Typed, InOrder, Keyed
      <4>3. task[k].pc # "asked"
        BY <1>1, <2>1, <2>2, <2>3 DEF EndsAsAsked, Lively, LivelyAt, UnderWay
      <4>4. task[k].pc \notin {"folder", "gone"}
        BY <1>1, <2>2, <2>3, <3>1 DEF EndsAsAsked, Wishes, AsWished, Connected
      <4>5. task[k].pc # "none"
        <5>1. SUFFICES ASSUME task[k].pc = "none" PROVE task[k] = NoTask
          BY <2>1
        <5>2. task[k].file = None /\ task[k].got = <<>>
          BY <4>2, <5>1 DEF KeyGood
        <5> QED BY <4>2, <5>1, <5>2 DEF TaskType, NoTask
      <4>6. task[k].file # None
        BY <4>2, <4>3, <4>4, <4>5 DEF KeyGood, TaskType
      <4>7. task[k].file = Wanted[k]
        BY <1>1, <3>1, <4>6 DEF EndsAsAsked, Wishes, AsWished
      <4> QED BY <2>3, <4>1, <4>7
    <3>2. CASE Wanted[k] \notin Files
      <4>1. Wanted[k] \in Folders
        BY <2>3, <3>2 DEF Items
      <4>2. PICK D \in SUBSET Folders : WalkedIn(k, D)
        BY <1>1, <2>1, <2>2, <4>1 DEF EndsAsAsked, Walked
      <4>3. Left(k) = {}
        BY <2>2 DEF Left
      <4>4. PICK S : S = D \cup (Had \cap Files)
        OBVIOUS
      <4>5. Had \subseteq Files \cup {None}
        BY <1>1 DEF Had, Typed, TaskType
      <4>6. S \in SUBSET Items /\ Wanted[k] \in S
        BY <4>2, <4>3, <4>4 DEF WalkedIn, Items
      <4>7. ASSUME NEW d \in S \cap Folders PROVE Children[d] \subseteq S
        <5>1. d \in D /\ Children[d] \subseteq Items
          BY <2>3, <4>4, <4>7, DownloadAssumption
        <5>2. Children[d] \subseteq D \cup Had
          BY <4>2, <4>3, <5>1 DEF WalkedIn
        <5> QED BY <2>3, <4>4, <4>5, <5>1, <5>2
      <4>8. f \in S
        BY <2>4, <4>6, <4>7
      <4>9. f \in Had
        BY <2>3, <2>4, <4>4, <4>8
      <4> QED BY <4>9 DEF Had
    <3> QED BY <3>1, <3>2
  <2> QED BY <1>1, <2>1, <2>4, <2>5, HasIt
<1> QED BY <1>1, AlwaysEnds, PTL
===============================================================================
