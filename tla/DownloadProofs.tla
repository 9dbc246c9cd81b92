---------------------------- MODULE DownloadProofs ----------------------------
(****************************************************************************)
(* Theorems about Download, for any files, folders, timestamps and workers: *)
(* when a client continues a download only after the server has finished    *)
(* its last request, and no folder's download comes to another request's    *)
(* timestamp.                                                               *)
(****************************************************************************)
EXTENDS Download, FiniteSetTheorems, SequenceTheorems, TLAPS

CONSTANT Room       \* for what is left of a walk: the timestamps it may still take

\* What of the client's timestamps and of its patience the theorems suppose.
Apart == Patient /\ WalksFit(Room)
LastKey(k) == k + Span(Room, k)
-----------------------------------------------------------------------------
(* The types the other invariants rest on.                                  *)

InfoType == [file : Files, pos : Int, offset : Int, bad : BOOLEAN, freed : BOOLEAN]
Pcs == {"idle", "select", "open", "fetch", "folder", "walk", "children", "map", "sendheader", "find", "back", "load",
        "store", "erase", "read", "send", "lookup", "reselect", "reopen", "remap", "seek", "setpos"}
HandlerType == [pc : Pcs, rq : Requests \cup {None}, info : Nat, pos : Int, block : Int \X Int,
                todo : Seq(Items), key : Nat]
TaskType == [pc : {"none", "folder", "asked", "waiting", "lost", "done", "gone"}, file : Files \cup {None},
             got : Seq(Nat)]

Kinds == {"late", "lost", "crash", "refused", "removed", "starved"}
SpentType == [Kinds -> Nat]

Typed ==
  /\ listed \subseteq Items /\ there \subseteq Files
  /\ stored \in [Files -> Nat] /\ \A f \in Files : stored[f] <= FileSize[f]
  /\ sessions \in [Keys -> Nat \cup {None}]
  /\ infos \in [Keys -> Seq(InfoType)]
  /\ inbox \subseteq Requests
  /\ handler \in [Workers -> HandlerType]
  /\ task \in [Keys -> TaskType]
  /\ conn \in Nat
  /\ spent \in SpentType
-----------------------------------------------------------------------------
(* What holds at one timestamp of its task t, its session s and the         *)
(* FileInfos I made for it, whoever is at work on them.                     *)

KeyGood(t, s, I) ==
  /\ s # None => s \in DOMAIN I /\ ~I[s].freed
  /\ \A i \in DOMAIN I : /\ I[i].pos \in 0 .. FileSize[I[i].file]
                         /\ I[i].offset \in 0 .. FileSize[I[i].file]
                         /\ t.file # None => I[i].file = t.file
  /\ \A i \in DOMAIN t.got : t.got[i] = i
  /\ t.file # None <=> t.pc \in {"waiting", "lost", "done"}
  /\ IF t.file = None THEN t.got = <<>> ELSE Len(t.got) <= FileSize[t.file]

\* The open session of the timestamp is at position p, and its descriptor at o.
Stands(s, I, p, o) == s # None /\ I[s].pos = p /\ I[s].offset = o

\* A request whose handler has not begun.
ReqGood(r, t, s, I) ==
  LET got == Len(t.got)
  IN  /\ r.op = "file" => /\ r.key \in DOMAIN Wanted /\ r.file = Wanted[r.key] /\ r.file \in Files
                          /\ t.pc \in {"asked", "gone"} /\ s = None /\ I = <<>>
      /\ r.op = "folder" => /\ r.key \in DOMAIN Wanted /\ r.file = Wanted[r.key] /\ r.file \in Folders
                            /\ t.pc = "folder"
      /\ r.op \in {"header", "content", "continue"} => t.file = r.file /\ t.file \in Files
      /\ r.op = "header" => t.got = <<>> /\ Stands(s, I, 0, 0)
      /\ r.op = "content" => IF r.ok THEN Stands(s, I, got - r.n, got)
                             ELSE r.n > 0 /\ Stands(s, I, got, got + r.n)
      /\ r.op = "continue" => r.n = got

\* A handler of a file's download, at the timestamp it works on.
OpenGood(h, t, s, I) ==
  /\ h.rq.op = "file" => /\ h.rq.key \in DOMAIN Wanted /\ h.rq.file = Wanted[h.rq.key] /\ h.rq.file \in Files
                         /\ t.pc \in {"asked", "gone"}
  /\ h.pc \in {"select", "open", "fetch"} => h.rq.op = "file" /\ s = None /\ I = <<>>
  /\ h.pc \in {"map", "sendheader"} =>
       /\ t.file = None
       /\ h.rq.op \in {"file", "folder"}
       /\ s = (IF h.pc = "map" THEN None ELSE h.info)
       /\ h.info \in DOMAIN I /\ I[h.info].pos = 0 /\ I[h.info].offset = 0 /\ ~I[h.info].freed
       /\ \A i \in DOMAIN I : I[i].file = I[h.info].file
       /\ h.rq.op = "file" => I[h.info].file = h.rq.file

BlockGood(h, t, s, I) ==
  LET got == Len(t.got)
      op == h.rq.op
  IN  /\ op \in {"header", "content", "continue"} => t.file = h.rq.file /\ t.file \in Files
      /\ h.pc \in {"find", "lookup"} => ReqGood(h.rq, t, s, I)
      /\ h.pc = "find" => op \in {"header", "content"}
      /\ h.pc \in {"lookup", "reselect", "reopen", "remap", "seek", "setpos"} => op = "continue" /\ h.rq.n = got
      /\ h.pc \in {"back", "load", "store", "erase"} => op = "content"
      /\ h.pc \in {"read", "send"} => op \in {"header", "content", "continue"}
      /\ h.pc \in {"back", "load", "store", "erase", "read", "send", "seek", "setpos"} => h.info = s /\ s # None
      /\ h.pc = "back" => Stands(s, I, got, got + h.rq.n)
      /\ h.pc \in {"load", "store"} => Stands(s, I, got - h.rq.n, got) /\ h.rq.ok
      /\ h.pc = "store" => h.pos = got - h.rq.n
      /\ h.pc \in {"erase", "read"} => Stands(s, I, got, got)
      /\ h.pc = "send" => /\ h.block[1] = got
                          /\ Stands(s, I, got, IF h.block[2] > 0 THEN got + h.block[2] ELSE got)
      /\ h.pc \in {"reselect", "reopen", "remap"} => s = None
      /\ h.pc = "remap" => h.info \in DOMAIN I /\ ~I[h.info].freed
      /\ h.pc = "setpos" => I[s].offset = got

\* Where a walk is between two files.
Between == {"folder", "walk", "children"}
USE DEF Between

\* Who has no FileInfo yet, or no more.
NoInfo == {"idle", "select", "open", "fetch", "folder", "walk", "children", "find", "lookup", "reselect", "reopen"}

HandGood(h, t, s, I) ==
  /\ OpenGood(h, t, s, I)
  /\ BlockGood(h, t, s, I)
  /\ h.pc \in NoInfo => h.info = 0
  /\ h.rq.op # "folder" => h.key = h.rq.key /\ h.pc \notin Between
-----------------------------------------------------------------------------
\* No request with this timestamp is under way; nothing is there of it at all.
Unused(k) == /\ \A r \in inbox : r.key # k
             /\ \A w \in Workers : handler[w].rq # None => handler[w].rq.key # k
Fresh(k) == Unused(k) /\ task[k] = NoTask /\ sessions[k] = None /\ infos[k] = <<>>

\* At most one request of a timestamp is under way.
Single ==
  /\ \A r, q \in inbox : r.key = q.key => r = q
  /\ \A r \in inbox : \A w \in Workers : handler[w].rq # None => handler[w].rq.key # r.key
  /\ \A v, w \in Workers : v # w /\ handler[v].rq # None /\ handler[w].rq # None
                             => handler[v].rq.key # handler[w].rq.key

\* A walk has asked for a folder, and has the timestamps up to the last one it may take for itself.
WalkGood(h, t) ==
  LET k == h.rq.key
  IN  /\ k \in DOMAIN Wanted /\ Wanted[k] \in Folders /\ t.pc = "folder"
      /\ h.pc \in Between \cup {"map", "sendheader"}
      /\ k <= h.key
      /\ h.pc \in {"folder", "walk"} => h.todo \in DOMAIN Room /\ h.key + Room[h.todo] <= LastKey(k)
      /\ h.pc = "children" => /\ h.todo \in DOMAIN Room /\ h.todo # <<>> /\ Head(h.todo) \in Folders
                              /\ h.key <= LastKey(k) /\ h.key + Room[h.todo] <= LastKey(k) + 1
      /\ h.pc \notin Between => /\ h.key > k /\ h.todo # <<>> /\ Tail(h.todo) \in DOMAIN Room
                                /\ h.key + Room[Tail(h.todo)] <= LastKey(k)

\* Who is at work: w, for a folder or not.
Busy(w) == handler[w].rq # None
Walking(w) == Busy(w) /\ handler[w].rq.op = "folder"
Opening(w) == Walking(w) /\ handler[w].pc \notin Between

\* The timestamps nobody has come to are as they were.
Untouched ==
  /\ \A k \in DOMAIN Wanted : task[k] = NoTask => \A l \in k .. LastKey(k) : Fresh(l)
  /\ \A r \in inbox : r.op = "folder" => \A l \in r.key + 1 .. LastKey(r.key) : Fresh(l)
  /\ \A w \in Workers : Walking(w) => \A l \in handler[w].key + 1 .. LastKey(handler[w].rq.key) : Fresh(l)
  /\ \A w \in Workers : Opening(w) => Unused(handler[w].key) /\ task[handler[w].key] = NoTask

Keyed == \A k \in Keys : KeyGood(task[k], sessions[k], infos[k])
Asked == \A r \in inbox : ReqGood(r, task[r.key], sessions[r.key], infos[r.key])
Handled ==
  \A w \in Workers :
    IF Busy(w) THEN /\ handler[w].pc # "idle" /\ handler[w].key \in Keys
                    /\ HandGood(handler[w], task[handler[w].key], sessions[handler[w].key], infos[handler[w].key])
    ELSE handler[w] = Idle
Walks == \A w \in Workers : Walking(w) => WalkGood(handler[w], task[handler[w].rq.key])


InOrder == Keyed /\ Asked /\ Handled /\ Walks /\ Single /\ Untouched
-----------------------------------------------------------------------------
(* Sequences.                                                               *)

\* The elements of a sequence, its first and the others.
LEMMA HeadAndRest ==
  ASSUME NEW T, NEW s \in Seq(T), s # <<>>
  PROVE  /\ ToSet(s) = {Head(s)} \cup ToSet(Tail(s)) /\ Head(s) \in T /\ Tail(s) \in Seq(T)
         /\ Head(s) \in ToSet(s)
<1>1. Len(s) \in Nat \ {0} /\ DOMAIN s = 1..Len(s) /\ Head(s) = s[1]
  BY EmptySeq, LenProperties
<1>2. /\ Head(s) \in T /\ Tail(s) \in Seq(T) /\ DOMAIN Tail(s) = 1..Len(s)-1
      /\ \A i \in 1..Len(s)-1 : Tail(s)[i] = s[i+1]
  BY HeadTailProperties, LenProperties, <1>1
<1>3. ASSUME NEW x \in ToSet(s) PROVE x = Head(s) \/ x \in ToSet(Tail(s))
  <2>1. PICK i \in 1..Len(s) : x = s[i]
    BY <1>1 DEF ToSet
  <2>2. CASE i = 1
    BY <1>1, <2>1, <2>2
  <2>3. CASE i # 1
    <3>1. i - 1 \in 1..Len(s)-1 /\ s[i] = Tail(s)[i-1]
      BY <1>1, <1>2, <2>3
    <3> QED BY <1>2, <2>1, <3>1 DEF ToSet
  <2> QED BY <2>2, <2>3
<1>4. Head(s) \in ToSet(s)
  BY <1>1 DEF ToSet
<1>5. ASSUME NEW x \in ToSet(Tail(s)) PROVE x \in ToSet(s)
  <2>1. PICK i \in 1..Len(s)-1 : x = Tail(s)[i]
    BY <1>2, <1>5 DEF ToSet
  <2>2. i + 1 \in 1..Len(s) /\ x = s[i+1]
    BY <1>1, <1>2, <2>1
  <2> QED BY <1>1, <2>2 DEF ToSet
<1> QED BY <1>2, <1>3, <1>4, <1>5

\* The elements of two sequences, one after the other.
LEMMA BothInOne ==
  ASSUME NEW T, NEW s \in Seq(T), NEW t \in Seq(T)
  PROVE  /\ s \o t \in Seq(T) /\ ToSet(s \o t) = ToSet(s) \cup ToSet(t)
         /\ s \o t = <<>> <=> s = <<>> /\ t = <<>>
<1>1. /\ s \o t \in Seq(T) /\ ToSet(s \o t) = Range(s \o t) /\ ToSet(s) = Range(s) /\ ToSet(t) = Range(t)
  BY ConcatProperties DEF ToSet, Range
<1> QED BY <1>1, RangeConcatenation, ConcatEqualIffEmpty

\* A finite set, in any order: each element, nothing else.
LEMMA RowsOfSet ==
  ASSUME NEW S, IsFiniteSet(S), NEW rows \in SetToSeqs(S)
  PROVE  rows \in Seq(S) /\ ToSet(rows) = S
<1> DEFINE n == Cardinality(S)
<1>1. n \in Nat /\ IsFiniteSet(1..n) /\ Cardinality(1..n) = n
  BY FS_CardinalityType, FS_Interval
<1>2. rows \in [1..n -> S] /\ rows \in Injection(1..n, S)
  BY DEF SetToSeqs, Injection, IsInjective
<1>3. rows \in Seq(S) /\ DOMAIN rows = 1..n
  BY <1>1, <1>2, SeqDef
<1>4. \A x \in S : \E i \in 1..n : rows[i] = x
  <2>1. rows \in Surjection(1..n, S)
    BY <1>1, <1>2, FS_Injection
  <2> QED BY <2>1 DEF Surjection
<1> QED BY <1>2, <1>3, <1>4 DEF ToSet

\* One element of a sequence is changed.
LEMMA OneChanged ==
  ASSUME NEW T, NEW s \in Seq(T), NEW i \in DOMAIN s, NEW e \in T
  PROVE  /\ [s EXCEPT ![i] = e] \in Seq(T) /\ DOMAIN [s EXCEPT ![i] = e] = DOMAIN s
         /\ [s EXCEPT ![i] = e][i] = e
         /\ \A j \in DOMAIN s : j # i => [s EXCEPT ![i] = e][j] = s[j]
  BY ExceptSeq, LenProperties

\* One element is appended to a sequence.
LEMMA OneMore ==
  ASSUME NEW T, NEW s \in Seq(T), NEW e \in T
  PROVE  /\ Append(s, e) \in Seq(T) /\ DOMAIN Append(s, e) = DOMAIN s \cup {Len(s) + 1}
         /\ Len(Append(s, e)) = Len(s) + 1 /\ Append(s, e)[Len(s) + 1] = e /\ Len(s) + 1 \notin DOMAIN s
         /\ Len(s) + 1 \in Nat \ {0}
         /\ \A j \in DOMAIN s : Append(s, e)[j] = s[j]
<1>1. Len(s) \in Nat /\ DOMAIN s = 1 .. Len(s) /\ Append(s, e) \in Seq(T) /\ Len(Append(s, e)) = Len(s) + 1
  BY LenProperties
<1>2. DOMAIN Append(s, e) = 1 .. Len(s) + 1
  BY <1>1, LenProperties
<1> QED BY <1>1, <1>2
-----------------------------------------------------------------------------
(* A step that concerns one timestamp k.                                    *)

\* Who does nothing, and a task nobody has begun.
LEMMA IdleTyped == Idle \in HandlerType /\ Idle.rq = None /\ Idle.pc = "idle" /\ NoTask \in TaskType
<1>1. <<0, 0>> \in Int \X Int /\ <<>> \in Seq(Items) /\ <<>> \in Seq(Nat)
  OBVIOUS
<1> QED BY <1>1 DEF Idle, HandlerType, Pcs, NoTask, TaskType

\* A handler at work has a request.
LEMMA RequestOf ==
  ASSUME Typed, NEW w \in Workers, Busy(w)
  PROVE  /\ handler[w] \in HandlerType /\ handler[w].rq \in Requests
         /\ handler[w].rq.key \in Keys /\ handler[w].rq.key \in Nat
<1>1. handler[w] \in HandlerType
  BY DEF Typed
<1>2. handler[w].rq \in Requests
  BY <1>1 DEF HandlerType, Busy
<1> QED BY <1>1, <1>2, DownloadAssumption DEF Requests

\* What a walk between two files is owed depends on no session.
LEMMA BetweenFits ==
  ASSUME NEW h, NEW t, NEW s, NEW I, h.pc \in Between, HandGood(h, t, s, I), NEW u, NEW r, NEW J
  PROVE  HandGood(h, u, r, J)
<1>1. h.rq.op = "folder"
  BY DEF HandGood
<1>2. OpenGood(h, u, r, J)
  BY <1>1 DEF OpenGood
<1>3. BlockGood(h, u, r, J)
  BY <1>1 DEF BlockGood
<1> QED BY <1>2, <1>3 DEF HandGood

\* The handlers in W, at most one, and what there is of k may change.
LEMMA Touched ==
  ASSUME Typed, Typed', InOrder, NEW k \in Keys, NEW W \in SUBSET Workers,
         KeyGood(task'[k], sessions'[k], infos'[k]),
         \A l \in Keys : l # k => task'[l] = task[l] /\ sessions'[l] = sessions[l] /\ infos'[l] = infos[l],
         \A r \in inbox' : IF r.key = k THEN ReqGood(r, task'[k], sessions'[k], infos'[k]) ELSE r \in inbox,
         \A r, q \in inbox' : r.key = k /\ q.key = k => r = q,
         \A v \in Workers \ W : /\ handler'[v] = handler[v]
                                /\ Busy(v) => /\ handler[v].rq.key # k
                                              /\ handler[v].key # k \/ handler[v].pc \in Between,
         \A v, w \in W : v = w,
         \A w \in W :
           \/ handler'[w] = Idle
           \/ /\ handler'[w].rq # None /\ handler'[w].pc # "idle" /\ handler'[w].key \in Keys
              /\ HandGood(handler'[w], task'[handler'[w].key], sessions'[handler'[w].key], infos'[handler'[w].key])
              /\ handler'[w].rq.op = "folder" => WalkGood(handler'[w], task'[handler'[w].rq.key])
              /\ handler'[w].rq = handler[w].rq \/ handler'[w].rq.key = k
              /\ \A r \in inbox' : r.key # handler'[w].rq.key
  PROVE  /\ Keyed' /\ Asked' /\ Handled' /\ Walks' /\ Single'
         /\ \A l \in Keys : l # k /\ Unused(l) =>
              /\ \A r \in inbox' : r.key # l
              /\ \A v \in Workers : handler'[v].rq # None => handler'[v].rq.key # l
<1>1. Keyed'
  BY DEF Keyed, InOrder
<1>2. Asked'
  <2> SUFFICES ASSUME NEW r \in inbox' PROVE ReqGood(r, task'[r.key], sessions'[r.key], infos'[r.key])
    BY DEF Asked
  <2> QED BY DEF InOrder, Asked, Typed, Requests
<1>3. Handled'
  <2> SUFFICES ASSUME NEW v \in Workers
               PROVE  IF handler'[v].rq # None
                      THEN /\ handler'[v].pc # "idle" /\ handler'[v].key \in Keys
                           /\ HandGood(handler'[v], task'[handler'[v].key], sessions'[handler'[v].key],
                                       infos'[handler'[v].key])
                      ELSE handler'[v] = Idle
    BY DEF Handled, Busy
  <2>1. CASE v \in W
    BY <2>1 DEF Idle
  <2>2. CASE v \notin W
    <3>1. IF handler[v].rq # None
          THEN /\ handler[v].pc # "idle" /\ handler[v].key \in Keys
               /\ HandGood(handler[v], task[handler[v].key], sessions[handler[v].key], infos[handler[v].key])
          ELSE handler[v] = Idle
      BY DEF InOrder, Handled, Busy
    <3>2. CASE ~Busy(v)
      BY <2>2, <3>1, <3>2 DEF Busy
    <3>3. CASE Busy(v) /\ handler[v].key # k
      BY <2>2, <3>1, <3>3 DEF Busy
    <3>4. CASE Busy(v) /\ handler[v].pc \in Between
      <4>1. handler'[v] = handler[v]
        BY <2>2
      <4>2. /\ handler[v].rq # None /\ handler[v].pc # "idle" /\ handler[v].key \in Keys
            /\ HandGood(handler[v], task[handler[v].key], sessions[handler[v].key], infos[handler[v].key])
        BY <3>1, <3>4 DEF Busy
      <4>3. HandGood(handler[v], task'[handler[v].key], sessions'[handler[v].key], infos'[handler[v].key])
        BY <3>4, <4>2, BetweenFits
      <4> QED BY <4>1, <4>2, <4>3
    <3>5. ~Busy(v) \/ (Busy(v) /\ handler[v].key # k) \/ (Busy(v) /\ handler[v].pc \in Between)
      BY <2>2
    <3> QED BY <3>2, <3>3, <3>4, <3>5, Zenon
  <2> QED BY <2>1, <2>2
<1>4. Walks'
  <2> SUFFICES ASSUME NEW v \in Workers, handler'[v].rq # None, handler'[v].rq.op = "folder"
               PROVE  WalkGood(handler'[v], task'[handler'[v].rq.key])
    BY DEF Walks, Walking, Busy
  <2>1. CASE v \in W
    BY <2>1 DEF Idle
  <2>2. CASE v \notin W
    <3>a. handler'[v] = handler[v] /\ Walking(v) /\ handler[v].rq.key # k
      BY <2>2 DEF Walking, Busy
    <3>1. Walking(v) /\ handler[v].rq.key # k /\ handler[v].rq.key \in Keys
      BY <3>a, RequestOf DEF Walking
    <3>2. WalkGood(handler[v], task[handler[v].rq.key])
      BY <3>1 DEF InOrder, Walks
    <3> QED BY <2>2, <3>1, <3>2
  <2> QED BY <2>1, <2>2
<1>5. ASSUME NEW v \in Workers, handler'[v].rq # None
      PROVE  /\ \A r \in inbox' : r.key # handler'[v].rq.key
             /\ handler'[v].rq.key = k \/ handler'[v].rq = handler[v].rq
             /\ v \notin W => Busy(v) /\ handler'[v] = handler[v] /\ handler[v].rq.key # k
  <2>1. CASE v \in W
    BY <1>5, <2>1 DEF Idle
  <2>2. CASE v \notin W
    BY <1>5, <2>2 DEF InOrder, Single, Busy
  <2> QED BY <2>1, <2>2
<1>6. ASSUME NEW v \in Workers, NEW w \in Workers, v # w, handler'[v].rq # None, handler'[w].rq # None
      PROVE  handler'[v].rq.key # handler'[w].rq.key
  <2>1. CASE v \notin W /\ w \notin W
    BY <1>5, <1>6, <2>1 DEF InOrder, Single, Busy
  <2>2. CASE v \in W /\ w \notin W
    BY <1>5, <1>6, <2>2 DEF InOrder, Single, Busy
  <2>3. CASE v \notin W /\ w \in W
    BY <1>5, <1>6, <2>3 DEF InOrder, Single, Busy
  <2> QED BY <1>6, <2>1, <2>2, <2>3
<1>7. ASSUME NEW r \in inbox', NEW q \in inbox', r.key = q.key PROVE r = q
  BY <1>7 DEF InOrder, Single
<1>8. Single'
  BY <1>5, <1>6, <1>7 DEF Single
<1>9. ASSUME NEW l \in Keys, l # k, Unused(l)
      PROVE  /\ \A r \in inbox' : r.key # l
             /\ \A v \in Workers : handler'[v].rq # None => handler'[v].rq.key # l
  <2>1. \A r \in inbox' : r.key # l
    BY <1>9 DEF Unused
  <2>2. \A v \in Workers : handler'[v].rq # None => handler'[v].rq.key # l
    BY <1>5, <1>9 DEF Unused, Busy
  <2> QED BY <2>1, <2>2
<1> QED BY <1>1, <1>2, <1>3, <1>4, <1>8, <1>9

\* The timestamps a request may take.
LEMMA Ranges ==
  ASSUME Apart, NEW k \in DOMAIN Wanted
  PROVE  /\ k \in Nat /\ LastKey(k) \in Nat /\ k <= LastKey(k) /\ k .. LastKey(k) \subseteq Keys
         /\ k \in Keys /\ \A l \in DOMAIN Wanted : l # k => k .. LastKey(k) \cap l .. LastKey(l) = {}
<1>1. \A l \in DOMAIN Wanted : l \in Nat /\ Span(Room, l) \in Nat /\ l .. LastKey(l) \subseteq Keys
  BY DownloadAssumption DEF Apart, WalksFit, Span, LastKey
<1>2. \A j, l \in DOMAIN Wanted : j < l => LastKey(j) < l
  BY DEF Apart, WalksFit, LastKey
<1>3. LastKey(k) = k + Span(Room, k) /\ k \in k .. LastKey(k)
  BY <1>1 DEF LastKey
<1>4. ASSUME NEW l \in DOMAIN Wanted, l # k PROVE k .. LastKey(k) \cap l .. LastKey(l) = {}
  <2>1. LastKey(k) < l \/ LastKey(l) < k
    BY <1>1, <1>2, <1>4
  <2>2. LastKey(k) \in Int /\ LastKey(l) \in Int /\ k \in Int /\ l \in Int
    BY <1>1 DEF LastKey
  <2> QED BY <2>1, <2>2
<1> QED BY <1>1, <1>3, <1>4

\* The timestamps a walk may still take are the request's.
LEMMA WalkedKeys ==
  ASSUME Apart, Typed, InOrder, NEW w \in Workers, Walking(w)
  PROVE  LET h == handler[w]
             k == h.rq.key
         IN  /\ k \in DOMAIN Wanted /\ Wanted[k] \in Folders /\ task[k].pc = "folder"
             /\ k \in Nat /\ h.key \in Nat /\ LastKey(k) \in Nat /\ k <= h.key /\ h.key <= LastKey(k)
             /\ h.key + 1 .. LastKey(k) \subseteq Keys /\ h.key \in k .. LastKey(k)
             /\ h.key + 1 .. LastKey(k) \subseteq k .. LastKey(k)
             /\ h.pc \in Between \cup {"map", "sendheader"} /\ (h.pc \notin Between => k < h.key)
<1> DEFINE h == handler[w]
           k == h.rq.key
<1>1. WalkGood(h, task[k])
  BY DEF InOrder, Walks
<1>2. h \in HandlerType /\ h.key \in Nat
  BY DEF Typed, HandlerType
<1>3. /\ k \in DOMAIN Wanted /\ Wanted[k] \in Folders /\ task[k].pc = "folder"
      /\ h.pc \in Between \cup {"map", "sendheader"} /\ k <= h.key
      /\ h.pc \in {"folder", "walk"} => h.todo \in DOMAIN Room /\ h.key + Room[h.todo] <= LastKey(k)
      /\ h.pc = "children" => h.key <= LastKey(k)
      /\ h.pc \notin Between => h.key > k /\ Tail(h.todo) \in DOMAIN Room /\ h.key + Room[Tail(h.todo)] <= LastKey(k)
  BY <1>1 DEF WalkGood
<1>4. k \in Nat /\ LastKey(k) \in Nat /\ k .. LastKey(k) \subseteq Keys
  BY <1>3, Ranges
<1>5. \A todo \in DOMAIN Room : Room[todo] \in Nat
  BY DEF Apart, WalksFit
<1>6. h.key <= LastKey(k) /\ (h.pc \notin Between => k < h.key)
  BY <1>2, <1>3, <1>4, <1>5
<1>7. h.key \in k .. LastKey(k) /\ h.key + 1 .. LastKey(k) \subseteq k .. LastKey(k)
  BY <1>2, <1>3, <1>4, <1>6
<1> QED BY <1>2, <1>3, <1>4, <1>6, <1>7

\* Nobody but its handler works at the timestamp of a file's request.
LEMMA Alone ==
  ASSUME Typed, InOrder, NEW w \in Workers, Busy(w), handler[w].rq.op # "folder"
  PROVE  LET k == handler[w].rq.key
         IN  /\ \A r \in inbox : r.key # k
             /\ \A v \in Workers \ {w} : Busy(v) => /\ handler[v].rq.key # k
                                                    /\ handler[v].key # k \/ handler[v].pc \in Between
             /\ ~Unused(k) /\ k \in Keys /\ handler[w].key = k
<1> DEFINE k == handler[w].rq.key
<1>1. \A r \in inbox : r.key # k
  BY DEF InOrder, Single, Busy
<1>2. ASSUME NEW v \in Workers \ {w}, Busy(v) PROVE handler[v].rq.key # k
  BY <1>2 DEF InOrder, Single, Busy
<1>3. ASSUME NEW v \in Workers \ {w}, Busy(v), handler[v].pc \notin Between PROVE handler[v].key # k
  <2>1. CASE handler[v].rq.op # "folder"
    <3>1. handler[v].key = handler[v].rq.key
      BY <1>3, <2>1 DEF InOrder, Handled, HandGood
    <3> QED BY <3>1, <1>2, <1>3
  <2>2. CASE handler[v].rq.op = "folder"
    <3>1. Unused(handler[v].key)
      BY <1>3, <2>2 DEF InOrder, Untouched, Opening, Walking
    <3> QED BY <3>1 DEF Unused, Busy
  <2> QED BY <2>1, <2>2
<1>4. ~Unused(k) /\ k \in Keys /\ handler[w].key = k
  BY RequestOf DEF Unused, Busy, InOrder, Handled, HandGood
<1> QED BY <1>1, <1>2, <1>3, <1>4

\* A step of a handler for a file: of what is under way, only its request may be replaced by new ones.
LEMMA FileStepKeeps ==
  ASSUME Apart, Typed, Typed', InOrder, NEW w \in Workers, NEW k \in Keys, NEW new,
         Busy(w), handler[w].rq.op # "folder", handler[w].rq.key = k,
         \A v \in Workers \ {w} : handler'[v] = handler[v],
         \A l \in Keys : l # k => task'[l] = task[l] /\ sessions'[l] = sessions[l] /\ infos'[l] = infos[l],
         task'[k] # NoTask, KeyGood(task'[k], sessions'[k], infos'[k]),
         inbox' = inbox \cup new,
         \A r \in new : r.key = k /\ r.op # "folder" /\ ReqGood(r, task'[k], sessions'[k], infos'[k]),
         \A r, q \in new : r = q,
         \/ handler'[w] = Idle
         \/ /\ new = {} /\ handler'[w].rq = handler[w].rq /\ handler'[w].key = k /\ handler'[w].pc # "idle"
            /\ HandGood(handler'[w], task'[k], sessions'[k], infos'[k])
  PROVE  InOrder'
<1>1. /\ \A r \in inbox : r.key # k
      /\ \A v \in Workers \ {w} : Busy(v) => /\ handler[v].rq.key # k
                                             /\ handler[v].key # k \/ handler[v].pc \in Between
      /\ ~Unused(k)
  BY Alone
<1>2. /\ Keyed' /\ Asked' /\ Handled' /\ Walks' /\ Single'
      /\ \A l \in Keys : l # k /\ Unused(l) =>
              /\ \A r \in inbox' : r.key # l
              /\ \A v \in Workers : handler'[v].rq # None => handler'[v].rq.key # l
  <2> DEFINE W == {w}
  <2>1. \A r \in inbox' : IF r.key = k THEN ReqGood(r, task'[k], sessions'[k], infos'[k]) ELSE r \in inbox
    BY <1>1
  <2>2. \A r, q \in inbox' : r.key = k /\ q.key = k => r = q
    BY <1>1
  <2>3. \A v \in Workers \ W : /\ handler'[v] = handler[v]
                               /\ Busy(v) => /\ handler[v].rq.key # k
                                             /\ handler[v].key # k \/ handler[v].pc \in Between
    BY <1>1
  <2>4. \/ handler'[w] = Idle
        \/ /\ handler'[w].rq # None /\ handler'[w].pc # "idle" /\ handler'[w].key \in Keys
           /\ HandGood(handler'[w], task'[handler'[w].key], sessions'[handler'[w].key], infos'[handler'[w].key])
           /\ handler'[w].rq.op = "folder" => WalkGood(handler'[w], task'[handler'[w].rq.key])
           /\ handler'[w].rq = handler[w].rq \/ handler'[w].rq.key = k
           /\ \A r \in inbox' : r.key # handler'[w].rq.key
    BY <1>1 DEF Busy
  <2>5. \A u \in W :
          \/ handler'[u] = Idle
          \/ /\ handler'[u].rq # None /\ handler'[u].pc # "idle" /\ handler'[u].key \in Keys
             /\ HandGood(handler'[u], task'[handler'[u].key], sessions'[handler'[u].key], infos'[handler'[u].key])
             /\ handler'[u].rq.op = "folder" => WalkGood(handler'[u], task'[handler'[u].rq.key])
             /\ handler'[u].rq = handler[u].rq \/ handler'[u].rq.key = k
             /\ \A r \in inbox' : r.key # handler'[u].rq.key
    BY <2>4
  <2>6. W \in SUBSET Workers /\ \A u, v \in W : u = v
    OBVIOUS
  <2> HIDE DEF W
  <2> QED BY <2>1, <2>2, <2>3, <2>5, <2>6, Touched, ZenonT(60)
<1>3. ASSUME NEW l \in Keys, Fresh(l) PROVE Fresh(l)'
  BY <1>1, <1>2, <1>3 DEF Fresh, Unused
<1>4. ASSUME NEW j \in DOMAIN Wanted, task'[j] = NoTask, NEW l \in j .. LastKey(j) PROVE Fresh(l)'
  <2>1. l \in Keys /\ j \in Keys
    BY Ranges
  <2>2. task[j] = NoTask
    BY <1>4, <2>1
  <2>3. Fresh(l)
    BY <2>2 DEF InOrder, Untouched
  <2> QED BY <1>3, <2>1, <2>3
<1>5. ASSUME NEW r \in inbox', r.op = "folder", NEW l \in r.key + 1 .. LastKey(r.key) PROVE Fresh(l)'
  <2>1. r \in inbox
    BY <1>5
  <2>2. Fresh(l) /\ r.key \in DOMAIN Wanted
    BY <1>5, <2>1 DEF InOrder, Untouched, Asked, ReqGood
  <2>3. l \in Keys
    BY <2>2, Ranges
  <2> QED BY <1>3, <2>2, <2>3
<1>6. ASSUME NEW v \in Workers, Walking(v)' PROVE Walking(v) /\ handler'[v] = handler[v]
  BY <1>6 DEF Walking, Busy, Idle
<1>7. ASSUME NEW v \in Workers, Walking(v)', NEW l \in handler'[v].key + 1 .. LastKey(handler'[v].rq.key)
      PROVE  Fresh(l)'
  <2>1. Walking(v) /\ handler'[v] = handler[v] /\ Fresh(l)
    BY <1>6, <1>7 DEF InOrder, Untouched
  <2>2. l \in Keys
    BY <1>7, <2>1, WalkedKeys
  <2> QED BY <1>3, <2>1, <2>2
<1>8. ASSUME NEW v \in Workers, Opening(v)'
      PROVE  (Unused(handler[v].key) /\ task[handler[v].key] = NoTask)'
  <2>1. Opening(v) /\ handler'[v] = handler[v]
    BY <1>6, <1>8 DEF Opening
  <2>2. PICK l : l = handler[v].key
    OBVIOUS
  <2>3. Unused(l) /\ task[l] = NoTask /\ l \in Keys
    BY <2>1, <2>2 DEF InOrder, Untouched, Handled, Opening, Walking
  <2>4. Unused(l)' /\ task'[l] = NoTask /\ l = handler'[v].key
    BY <1>1, <1>2, <2>1, <2>2, <2>3 DEF Unused
  <2> QED BY <2>4 DEF Unused
<1>9. Untouched'
  BY <1>4, <1>5, <1>7, <1>8 DEF Untouched
<1> QED BY <1>2, <1>9 DEF InOrder

\* A handler at work, and what it works on.
LEMMA FileAt ==
  ASSUME Typed, InOrder, NEW w \in Workers, handler[w].pc # "idle", handler[w].rq.op # "folder"
  PROVE  LET h == handler[w]
             k == h.rq.key
         IN  /\ Busy(w) /\ h \in HandlerType /\ h.rq \in Requests /\ k \in Keys /\ h.key = k
             /\ HandGood(h, task[k], sessions[k], infos[k]) /\ KeyGood(task[k], sessions[k], infos[k])
             /\ task[k] \in TaskType /\ sessions[k] \in Nat \cup {None} /\ infos[k] \in Seq(InfoType)
             /\ task[k] # NoTask
<1> DEFINE h == handler[w]
           k == h.rq.key
<1>1. Busy(w)
  BY DEF InOrder, Handled, Idle
<1>2. h \in HandlerType /\ h.rq \in Requests /\ k \in Keys /\ h.rq.op # "folder"
  BY <1>1, RequestOf
<1>3. HandGood(h, task[h.key], sessions[h.key], infos[h.key])
  BY <1>1 DEF InOrder, Handled
<1>4. h.key = k
  BY <1>3 DEF HandGood
<1>5. KeyGood(task[k], sessions[k], infos[k])
  BY <1>2 DEF InOrder, Keyed
<1>6. task[k] \in TaskType /\ sessions[k] \in Nat \cup {None} /\ infos[k] \in Seq(InfoType)
  BY <1>2 DEF Typed
<1>7. task[k] # NoTask
  <2> HIDE DEF h, k
  <2>0. HandGood(h, task[k], sessions[k], infos[k])
    BY <1>3, <1>4
  <2>1. CASE h.rq.op = "file"
    BY <2>0, <2>1 DEF HandGood, OpenGood, NoTask
  <2>2. CASE h.rq.op \in {"header", "content", "continue"}
    BY <2>0, <2>2, DownloadAssumption DEF HandGood, BlockGood, NoTask, Items
  <2> QED BY <1>2, <2>1, <2>2 DEF Requests
<1> QED BY <1>1, <1>2, <1>3, <1>4, <1>5, <1>6, <1>7

\* Who is neither on the walk of a folder nor at the opening of a file is no walk.
LEMMA NoWalk ==
  ASSUME Typed, InOrder, NEW w \in Workers, handler[w].pc \notin Between \cup {"idle", "map", "sendheader"}
  PROVE  handler[w].rq.op # "folder"
<1>1. Busy(w)
  BY DEF InOrder, Handled, Idle
<1> QED BY <1>1 DEF InOrder, Walks, Walking, WalkGood

\* The handler h of w, its timestamp k, and what there is of k.
WorksOn(w, h, k, t, s, I) ==
  /\ h = handler[w] /\ k = h.rq.key /\ t = task[k] /\ s = sessions[k] /\ I = infos[k]
  /\ h \in HandlerType /\ h.rq \in Requests /\ k \in Keys /\ h.key = k /\ h.rq.op # "folder" /\ h.pc # "idle"
  /\ t \in TaskType /\ s \in Nat \cup {None} /\ I \in Seq(InfoType) /\ t # NoTask
  /\ HandGood(h, t, s, I) /\ KeyGood(t, s, I)

LEMMA AtWork ==
  ASSUME Typed, InOrder, NEW w \in Workers, handler[w].pc # "idle", handler[w].rq.op # "folder"
  PROVE  \E h, k, t, s, I : WorksOn(w, h, k, t, s, I)
  BY FileAt DEF WorksOn

\* A step that moves the handler only.
LEMMA HandlerStep ==
  ASSUME Apart, Typed, InOrder, NEW w \in Workers, NEW h, NEW k, NEW t, NEW s, NEW I, WorksOn(w, h, k, t, s, I),
         NEW h2 \in HandlerType,
         handler' = [handler EXCEPT ![w] = h2],
         UNCHANGED <<catalogue, memory, inbox, task, conn, spent>>,
         h2 = Idle \/ (h2.rq = h.rq /\ h2.key = k /\ h2.pc # "idle" /\ HandGood(h2, t, s, I))
  PROVE  Typed' /\ InOrder'
<1>1. /\ k \in Keys /\ h = handler[w] /\ k = h.rq.key /\ Busy(w) /\ handler[w].rq.op # "folder"
      /\ t = task[k] /\ s = sessions[k] /\ I = infos[k] /\ t # NoTask /\ KeyGood(t, s, I)
  BY FileAt DEF WorksOn
<1>a. PICK new : new = {}
  OBVIOUS
<1>2. Typed'
  BY DEF Typed, catalogue, memory
<1>3. /\ handler'[w] = h2 /\ \A v \in Workers \ {w} : handler'[v] = handler[v]
      /\ task' = task /\ sessions' = sessions /\ infos' = infos /\ inbox' = inbox \cup new
  BY <1>a DEF Typed, memory
<1>4. Busy(w) /\ task[k] # NoTask /\ KeyGood(task[k], sessions[k], infos[k])
  BY <1>1
<1> QED BY <1>1, <1>2, <1>3, <1>4, <1>a, FileStepKeeps

\* A step that moves the handler and the FileInfo it works on, or makes one.
LEMMA InfoStep ==
  ASSUME Apart, Typed, InOrder, NEW w \in Workers, NEW h, NEW k, NEW t, NEW s, NEW I, WorksOn(w, h, k, t, s, I),
         NEW h2 \in HandlerType, NEW J \in Seq(InfoType),
         handler' = [handler EXCEPT ![w] = h2],
         infos' = [infos EXCEPT ![k] = J], spent' \in SpentType,
         UNCHANGED <<catalogue, sessions, inbox, task, conn>>,
         KeyGood(t, s, J),
         h2 = Idle \/ (h2.rq = h.rq /\ h2.key = k /\ h2.pc # "idle" /\ HandGood(h2, t, s, J))
  PROVE  Typed' /\ InOrder'
<1>1. /\ k \in Keys /\ h = handler[w] /\ k = h.rq.key /\ Busy(w) /\ handler[w].rq.op # "folder"
      /\ t = task[k] /\ s = sessions[k] /\ I = infos[k] /\ t # NoTask /\ KeyGood(t, s, I)
  BY FileAt DEF WorksOn
<1>a. PICK new : new = {}
  OBVIOUS
<1>2. Typed'
  BY <1>1 DEF Typed, catalogue
<1>3. /\ handler'[w] = h2 /\ \A v \in Workers \ {w} : handler'[v] = handler[v]
      /\ task' = task /\ sessions' = sessions /\ inbox' = inbox \cup new
      /\ infos'[k] = J /\ \A l \in Keys \ {k} : infos'[l] = infos[l]
  BY <1>1, <1>a DEF Typed
<1>4. Busy(w) /\ task[k] # NoTask
  BY <1>1
<1>5. KeyGood(task'[k], sessions'[k], infos'[k]) /\ task'[k] # NoTask
  BY <1>1, <1>3, <1>4
<1>6. \/ handler'[w] = Idle
      \/ /\ new = {} /\ handler'[w].rq = handler[w].rq /\ handler'[w].key = k /\ handler'[w].pc # "idle"
         /\ HandGood(handler'[w], task'[k], sessions'[k], infos'[k])
  BY <1>1, <1>3, <1>a
<1>7. \A r \in new : FALSE
  BY <1>a
<1>8. \A l \in Keys : l # k => task'[l] = task[l] /\ sessions'[l] = sessions[l] /\ infos'[l] = infos[l]
  BY <1>3
<1>9. k \in Keys /\ Busy(w) /\ handler[w].rq.op # "folder" /\ handler[w].rq.key = k /\ inbox' = inbox \cup new
      /\ \A v \in Workers \ {w} : handler'[v] = handler[v]
  BY <1>1, <1>3, <1>4
<1> QED BY <1>2, <1>5, <1>6, <1>7, <1>8, <1>9, FileStepKeeps

\* A step that moves the handler and puts a session into the map, or takes it out.
LEMMA SessionStep ==
  ASSUME Apart, Typed, InOrder, NEW w \in Workers, NEW h, NEW k, NEW t, NEW s, NEW I, WorksOn(w, h, k, t, s, I),
         NEW h2 \in HandlerType, NEW s2 \in Nat \cup {None},
         NEW J \in Seq(InfoType),
         handler' = [handler EXCEPT ![w] = h2],
         sessions' = [sessions EXCEPT ![k] = s2],
         \/ infos' = [infos EXCEPT ![k] = J]
         \/ infos' = infos /\ J = I,
         UNCHANGED <<catalogue, inbox, task, conn, spent>>,
         KeyGood(t, s2, J),
         h2 = Idle \/ (h2.rq = h.rq /\ h2.key = k /\ h2.pc # "idle" /\ HandGood(h2, t, s2, J))
  PROVE  Typed' /\ InOrder'
<1>1. /\ k \in Keys /\ h = handler[w] /\ k = h.rq.key /\ Busy(w) /\ handler[w].rq.op # "folder"
      /\ t = task[k] /\ s = sessions[k] /\ I = infos[k] /\ t # NoTask /\ KeyGood(t, s, I)
  BY FileAt DEF WorksOn
<1>a. PICK new : new = {}
  OBVIOUS
<1>2. Typed'
  BY <1>1 DEF Typed, catalogue
<1>3. /\ handler'[w] = h2 /\ \A v \in Workers \ {w} : handler'[v] = handler[v]
      /\ task' = task /\ inbox' = inbox \cup new
      /\ sessions'[k] = s2 /\ \A l \in Keys \ {k} : sessions'[l] = sessions[l]
      /\ infos'[k] = J /\ \A l \in Keys \ {k} : infos'[l] = infos[l]
  BY <1>1, <1>a DEF Typed
<1>4. Busy(w) /\ task[k] # NoTask
  BY <1>1
<1>5. KeyGood(task'[k], sessions'[k], infos'[k]) /\ task'[k] # NoTask
  BY <1>1, <1>3, <1>4
<1>6. \/ handler'[w] = Idle
      \/ /\ new = {} /\ handler'[w].rq = handler[w].rq /\ handler'[w].key = k /\ handler'[w].pc # "idle"
         /\ HandGood(handler'[w], task'[k], sessions'[k], infos'[k])
  BY <1>1, <1>3, <1>a
<1>7. \A r \in new : FALSE
  BY <1>a
<1>8. \A l \in Keys : l # k => task'[l] = task[l] /\ sessions'[l] = sessions[l] /\ infos'[l] = infos[l]
  BY <1>3
<1>9. k \in Keys /\ Busy(w) /\ handler[w].rq.op # "folder" /\ handler[w].rq.key = k /\ inbox' = inbox \cup new
      /\ \A v \in Workers \ {w} : handler'[v] = handler[v]
  BY <1>1, <1>3, <1>4
<1> QED BY <1>2, <1>5, <1>6, <1>7, <1>8, <1>9, FileStepKeeps

\* A step that ends the handler with something for the client, which may answer.
LEMMA AnswerStep ==
  ASSUME Apart, Typed, InOrder, NEW w \in Workers, NEW h, NEW k, NEW t, NEW s, NEW I, WorksOn(w, h, k, t, s, I),
         NEW t2 \in TaskType, NEW new \in SUBSET Requests,
         NEW H, H = [handler EXCEPT ![w] = Idle], handler' = H,
         \/ task' = [task EXCEPT ![k] = t2]
         \/ task' = task /\ t2 = t,
         inbox' = inbox \cup new, spent' \in SpentType,
         UNCHANGED <<catalogue, memory, conn>>,
         KeyGood(t2, s, I), t2 # NoTask,
         \A r \in new : r.key = k /\ r.op # "folder" /\ ReqGood(r, t2, s, I),
         \A r, q \in new : r = q
  PROVE  Typed' /\ InOrder'
<1>1. /\ k \in Keys /\ h = handler[w] /\ k = h.rq.key /\ Busy(w) /\ handler[w].rq.op # "folder"
      /\ t = task[k] /\ s = sessions[k] /\ I = infos[k] /\ t # NoTask /\ KeyGood(t, s, I)
  BY FileAt DEF WorksOn
<1>2. Typed'
  BY <1>1, IdleTyped DEF Typed, catalogue, memory
<1>3. /\ handler'[w] = Idle /\ \A v \in Workers \ {w} : handler'[v] = handler[v]
      /\ sessions' = sessions /\ infos' = infos
      /\ task'[k] = t2 /\ \A l \in Keys \ {k} : task'[l] = task[l]
  BY <1>1 DEF Typed, memory
<1>4. KeyGood(task'[k], sessions'[k], infos'[k]) /\ task'[k] # NoTask
  BY <1>1, <1>3
<1>5. \A r \in new : r.key = k /\ r.op # "folder" /\ ReqGood(r, task'[k], sessions'[k], infos'[k])
  BY <1>1, <1>3
<1>6. \A l \in Keys : l # k => task'[l] = task[l] /\ sessions'[l] = sessions[l] /\ infos'[l] = infos[l]
  BY <1>3
<1> QED BY <1>1, <1>2, <1>3, <1>4, <1>5, <1>6, FileStepKeeps
-----------------------------------------------------------------------------
(* The steps of a handler for a file, one lemma each.                       *)

LEMMA PcsAre ==
  /\ "folder" \in Pcs /\ "children" \in Pcs
  /\ "open" \in Pcs /\ "fetch" \in Pcs /\ "walk" \in Pcs /\ "map" \in Pcs /\ "sendheader" \in Pcs
  /\ "find" \in Pcs /\ "back" \in Pcs /\ "load" \in Pcs /\ "store" \in Pcs /\ "erase" \in Pcs
  /\ "read" \in Pcs /\ "send" \in Pcs /\ "reselect" \in Pcs /\ "reopen" \in Pcs /\ "remap" \in Pcs
  /\ "seek" \in Pcs /\ "setpos" \in Pcs /\ "select" \in Pcs /\ "lookup" \in Pcs
  BY DEF Pcs

\* A handler that goes on to pc.
LEMMA GoneOn ==
  ASSUME NEW h \in HandlerType, NEW pc \in Pcs
  PROVE  LET h2 == [h EXCEPT !.pc = pc]
         IN  /\ h2 \in HandlerType /\ h2.pc = pc /\ h2.rq = h.rq /\ h2.info = h.info /\ h2.pos = h.pos
             /\ h2.block = h.block /\ h2.todo = h.todo /\ h2.key = h.key
  BY DEF HandlerType

LEMMA SelectKeeps ==
  ASSUME Apart, Typed, InOrder, NEW w \in Workers, Select(w) PROVE Typed' /\ InOrder'
<1>1. handler[w].pc = "select"
  BY DEF Select, At
<1>2. PICK h, k, t, s, I : WorksOn(w, h, k, t, s, I)
  BY <1>1, NoWalk, AtWork
<1>3. PICK h2 : h2 = [h EXCEPT !.pc = "open"]
  OBVIOUS
<1>4. /\ h2 \in HandlerType /\ h2.pc = "open" /\ h2.rq = h.rq /\ h2.info = h.info /\ h2.key = h.key
      /\ h.pc = "select"
  BY <1>1, <1>2, <1>3, GoneOn, PcsAre DEF WorksOn
<1>5. HandGood(h2, t, s, I)
  BY <1>2, <1>4 DEF WorksOn, HandGood, OpenGood, BlockGood, NoInfo
<1>6. handler' = [handler EXCEPT ![w] = Idle] \/ handler' = [handler EXCEPT ![w] = h2]
  BY <1>2, <1>3 DEF Select, Ends, Goes, WorksOn
<1>7. UNCHANGED <<catalogue, memory, inbox, task, conn, spent>>
  BY DEF Select
<1> QED BY <1>2, <1>4, <1>5, <1>6, <1>7, HandlerStep, IdleTyped DEF WorksOn

LEMMA FetchFailsKeeps ==
  ASSUME Apart, Typed, InOrder, NEW w \in Workers, FetchFails(w) PROVE Typed' /\ InOrder'
<1>1. handler[w].pc = "fetch" /\ handler' = [handler EXCEPT ![w] = Idle]
  BY DEF FetchFails, At, Ends
<1>2. PICK h, k, t, s, I : WorksOn(w, h, k, t, s, I)
  BY <1>1, NoWalk, AtWork
<1>3. UNCHANGED <<catalogue, memory, inbox, task, conn, spent>>
  BY DEF FetchFails
<1> QED BY <1>1, <1>2, <1>3, HandlerStep, IdleTyped

\* A new FileInfo.
LEMMA NewInfoTyped ==
  ASSUME NEW f \in Files, NEW b \in BOOLEAN
  PROVE  LET e == NewInfo(f)
             bad == [NewInfo(f) EXCEPT !.bad = b]
         IN  /\ e \in InfoType /\ e.file = f /\ e.pos = 0 /\ e.offset = 0 /\ ~e.freed /\ ~e.bad
             /\ bad \in InfoType /\ bad.file = f /\ bad.pos = 0 /\ bad.offset = 0 /\ ~bad.freed
<1>1. PICK e : e = NewInfo(f)
  OBVIOUS
<1>2. e \in InfoType /\ e.file = f /\ e.pos = 0 /\ e.offset = 0 /\ ~e.freed /\ ~e.bad
  BY <1>1 DEF NewInfo, InfoType
<1>3. PICK bad : bad = [e EXCEPT !.bad = b]
  OBVIOUS
<1>4. bad \in InfoType /\ bad.file = f /\ bad.pos = 0 /\ bad.offset = 0 /\ ~bad.freed
  BY <1>2, <1>3 DEF InfoType
<1> QED BY <1>1, <1>2, <1>3, <1>4

LEMMA InfoMade ==
  ASSUME NEW t, NEW s, NEW I \in Seq(InfoType), NEW e \in InfoType, KeyGood(t, s, I),
         e.pos = 0, e.offset = 0, t.file # None => e.file = t.file
  PROVE  KeyGood(t, s, Append(I, e))
<1>1. /\ DOMAIN Append(I, e) = DOMAIN I \cup {Len(I) + 1} /\ Append(I, e)[Len(I) + 1] = e
      /\ \A j \in DOMAIN I : Append(I, e)[j] = I[j]
  BY OneMore
<1>2. FileSize[e.file] \in Nat
  BY DownloadAssumption DEF InfoType
<1>3. \A j \in DOMAIN Append(I, e) : Append(I, e)[j] = e \/ (j \in DOMAIN I /\ Append(I, e)[j] = I[j])
  BY <1>1
<1>4. ASSUME NEW j \in DOMAIN Append(I, e)
      PROVE  LET i == Append(I, e)[j]
             IN  /\ i.pos \in 0 .. FileSize[i.file] /\ i.offset \in 0 .. FileSize[i.file]
                 /\ t.file # None => i.file = t.file
  <2>1. CASE Append(I, e)[j] = e
    BY <1>2, <2>1
  <2>2. CASE j \in DOMAIN I /\ Append(I, e)[j] = I[j]
    BY <2>2 DEF KeyGood
  <2> QED BY <1>3, <2>1, <2>2
<1>5. s # None => s \in DOMAIN Append(I, e) /\ ~Append(I, e)[s].freed
  BY <1>1 DEF KeyGood
<1> QED BY <1>4, <1>5 DEF KeyGood

LEMMA InfoChanged ==
  ASSUME NEW t, NEW s, NEW I \in Seq(InfoType), NEW e \in InfoType, NEW i \in DOMAIN I, KeyGood(t, s, I),
         e.file = I[i].file, e.pos \in 0 .. FileSize[e.file], e.offset \in 0 .. FileSize[e.file],
         s = i => ~e.freed
  PROVE  LET J == [I EXCEPT ![i] = e] IN KeyGood(t, s, J) /\ J \in Seq(InfoType) /\ J[i] = e /\ DOMAIN J = DOMAIN I
<1> DEFINE J == [I EXCEPT ![i] = e]
<1>1. /\ J \in Seq(InfoType) /\ DOMAIN J = DOMAIN I /\ J[i] = e /\ \A j \in DOMAIN I : j # i => J[j] = I[j]
  BY OneChanged
<1> HIDE DEF J
<1>2. ASSUME NEW j \in DOMAIN J
      PROVE  /\ J[j].pos \in 0 .. FileSize[J[j].file] /\ J[j].offset \in 0 .. FileSize[J[j].file]
             /\ t.file # None => J[j].file = t.file
  <2>1. CASE j = i
    BY <1>1, <2>1 DEF KeyGood
  <2>2. CASE j # i
    BY <1>1, <1>2, <2>2 DEF KeyGood
  <2> QED BY <2>1, <2>2
<1>3. s # None => s \in DOMAIN J /\ ~J[s].freed
  BY <1>1 DEF KeyGood
<1>4. KeyGood(t, s, J)
  BY <1>2, <1>3 DEF KeyGood
<1> QED BY <1>1, <1>4 DEF J

\* The file of a request is opened: there is a FileInfo of it for MapInsert.
LEMMA OpenedKeeps ==
  ASSUME Apart, Typed, InOrder, NEW w \in Workers, NEW e \in InfoType,
         NEW h, NEW k, NEW t, NEW s, NEW I, WorksOn(w, h, k, t, s, I), h.pc \in {"open", "fetch"},
         e.file = h.rq.file, e.pos = 0, e.offset = 0, ~e.freed,
         New(k, e), handler' = [handler EXCEPT ![w].pc = "map", ![w].info = Len(infos'[k])],
         UNCHANGED <<catalogue, sessions, inbox, task, conn, spent>>
  PROVE  Typed' /\ InOrder'
<1>1. /\ h.rq.op = "file" /\ h.rq.file \in Files /\ s = None /\ I = <<>> /\ t.pc \in {"asked", "gone"}
      /\ h.rq.key \in DOMAIN Wanted /\ h.rq.file = Wanted[h.rq.key] /\ t.file = None
  BY DEF WorksOn, HandGood, OpenGood, KeyGood
<1>2. I \in Seq(InfoType) /\ Len(I) = 0 /\ DOMAIN I = {}
  BY <1>1 DEF WorksOn
<1>3. PICK J : J = Append(I, e)
  OBVIOUS
<1>4. J \in Seq(InfoType) /\ Len(J) = 1 /\ J[1] = e /\ DOMAIN J = {1}
  <2>1. Len(I) + 1 = 1 /\ {} \cup {1} = {1}
    BY <1>2
  <2> QED BY <1>2, <1>3, <2>1, OneMore
<1>5. KeyGood(t, s, J)
  BY <1>1, <1>2, <1>3, InfoMade DEF WorksOn
<1>6. infos' = [infos EXCEPT ![k] = J] /\ infos'[k] = J
  BY <1>3 DEF New, WorksOn, Typed
<1>7. PICK h2 : h2 = [h EXCEPT !.pc = "map", !.info = 1]
  OBVIOUS
<1>8. h2 \in HandlerType /\ h2.pc = "map" /\ h2.rq = h.rq /\ h2.info = 1 /\ h2.key = k
  BY <1>7, PcsAre DEF HandlerType, WorksOn
<1>9. HandGood(h2, t, s, J)
  BY <1>1, <1>4, <1>8 DEF HandGood, OpenGood, BlockGood, NoInfo, WorksOn
<1>10. handler' = [handler EXCEPT ![w] = h2]
  BY <1>4, <1>6, <1>7 DEF WorksOn
<1>11. spent' \in SpentType /\ h2.pc # "idle"
  BY <1>8 DEF Typed
<1>12. UNCHANGED <<catalogue, sessions, inbox, task, conn>>
  OBVIOUS
<1> QED BY <1>4, <1>5, <1>6, <1>8, <1>9, <1>10, <1>11, <1>12, InfoStep DEF WorksOn

LEMMA OpenOfFileKeeps ==
  ASSUME Apart, Typed, InOrder, NEW w \in Workers, OpenOfFile(w) PROVE Typed' /\ InOrder'
<1>1. handler[w].pc = "open"
  BY DEF OpenOfFile, At
<1>2. PICK h, k, t, s, I : WorksOn(w, h, k, t, s, I)
  BY <1>1, NoWalk, AtWork
<1>3. /\ h = handler[w] /\ k = h.rq.key /\ h.pc = "open" /\ h.rq.file \in Files
      /\ UNCHANGED <<catalogue, sessions, inbox, task, conn, spent>>
  BY <1>1, <1>2 DEF WorksOn, HandGood, OpenGood, OpenOfFile
<1>4. CASE h.rq.file \in there
  <2>1. PICK e \in InfoType : e = NewInfo(h.rq.file) /\ e.file = h.rq.file /\ e.pos = 0 /\ e.offset = 0 /\ ~e.freed
    BY <1>3, NewInfoTyped
  <2>2. New(k, e) /\ handler' = [handler EXCEPT ![w].pc = "map", ![w].info = Len(infos'[k])]
    BY <1>3, <1>4, <2>1 DEF OpenOfFile, Rq
  <2> QED BY <1>2, <1>3, <2>1, <2>2, OpenedKeeps
<1>5. CASE h.rq.file \notin there
  <2>1. PICK h2 : h2 = [h EXCEPT !.pc = "fetch"]
    OBVIOUS
  <2>2. h2 \in HandlerType /\ h2.pc = "fetch" /\ h2.rq = h.rq /\ h2.info = h.info /\ h2.key = h.key
    BY <1>2, <2>1, GoneOn, PcsAre DEF WorksOn
  <2>3. HandGood(h2, t, s, I)
    BY <1>2, <1>3, <2>2 DEF WorksOn, HandGood, OpenGood, BlockGood, NoInfo
  <2>4. handler' = [handler EXCEPT ![w] = h2] /\ infos' = infos
    BY <1>3, <1>5, <2>1 DEF OpenOfFile, Goes, Rq
  <2> QED BY <1>2, <1>3, <2>2, <2>3, <2>4, HandlerStep DEF WorksOn, memory
<1> QED BY <1>4, <1>5

LEMMA FetchReturnsKeeps ==
  ASSUME Apart, Typed, InOrder, NEW w \in Workers, FetchReturns(w) PROVE Typed' /\ InOrder'
<1>1. handler[w].pc = "fetch"
  BY DEF FetchReturns, At
<1>2. PICK h, k, t, s, I : WorksOn(w, h, k, t, s, I)
  BY <1>1, NoWalk, AtWork
<1>3. /\ h = handler[w] /\ k = h.rq.key /\ h.pc = "fetch" /\ h.rq.file \in Files
      /\ UNCHANGED <<catalogue, sessions, inbox, task, conn, spent>>
  BY <1>1, <1>2 DEF WorksOn, HandGood, OpenGood, FetchReturns
<1>b. PICK b \in BOOLEAN : b = (h.rq.file \notin there)
  OBVIOUS
<1>4. PICK e \in InfoType : /\ e = [NewInfo(h.rq.file) EXCEPT !.bad = b]
                            /\ e.file = h.rq.file /\ e.pos = 0 /\ e.offset = 0 /\ ~e.freed
  BY <1>3, NewInfoTyped
<1>5. New(k, e) /\ handler' = [handler EXCEPT ![w].pc = "map", ![w].info = Len(infos'[k])]
  BY <1>3, <1>b, <1>4 DEF FetchReturns, Rq
<1> QED BY <1>2, <1>3, <1>4, <1>5, OpenedKeeps

\* A handler that goes on to pc, or ends.
LEMMA GoesOnKeeps ==
  ASSUME Apart, Typed, InOrder, NEW w \in Workers, NEW h, NEW k, NEW t, NEW s, NEW I, WorksOn(w, h, k, t, s, I),
         NEW pc \in Pcs \ {"idle"},
         \A h2 \in HandlerType : /\ h2.pc = pc /\ h2.rq = h.rq /\ h2.info = h.info /\ h2.pos = h.pos
                                 /\ h2.block = h.block /\ h2.key = h.key
                                 => HandGood(h2, t, s, I),
         Goes(w, pc) \/ Ends(w),
         UNCHANGED <<catalogue, memory, inbox, task, conn, spent>>
  PROVE  Typed' /\ InOrder'
<1>1. CASE Ends(w)
  BY <1>1, HandlerStep, IdleTyped DEF Ends
<1>2. CASE Goes(w, pc)
  <2>1. PICK h2 : h2 = [h EXCEPT !.pc = pc]
    OBVIOUS
  <2>2. /\ h2 \in HandlerType /\ h2.pc = pc /\ h2.rq = h.rq /\ h2.info = h.info /\ h2.pos = h.pos
        /\ h2.block = h.block /\ h2.key = h.key /\ h2.key = k
    BY <2>1, GoneOn DEF WorksOn
  <2>3. handler' = [handler EXCEPT ![w] = h2]
    BY <1>2, <2>1 DEF Goes, WorksOn
  <2>4. HandGood(h2, t, s, I)
    BY <2>2
  <2> QED BY <2>2, <2>3, <2>4, HandlerStep
<1> QED BY <1>1, <1>2

\* A handler that changes the FileInfo it works on, and goes on to pc, or ends.
LEMMA UpdateKeeps ==
  ASSUME Apart, Typed, InOrder, NEW w \in Workers, NEW h, NEW k, NEW t, NEW s, NEW I, WorksOn(w, h, k, t, s, I),
         NEW e \in InfoType, h.info = s, s # None, NEW J, J = [I EXCEPT ![s] = e],
         e.file = I[s].file, e.pos \in 0 .. FileSize[e.file], e.offset \in 0 .. FileSize[e.file], ~e.freed,
         Update(w, e), NEW h2 \in HandlerType, handler' = [handler EXCEPT ![w] = h2],
         \/ h2 = Idle
         \/ /\ h2.rq = h.rq /\ h2.key = k /\ h2.pc # "idle"
            /\ HandGood(h2, t, s, J),
         spent' \in SpentType,
         UNCHANGED <<catalogue, sessions, inbox, task, conn>>
  PROVE  Typed' /\ InOrder'
<1>1. s \in DOMAIN I /\ I \in Seq(InfoType) /\ KeyGood(t, s, I)
  BY DEF WorksOn, KeyGood
<1>3. KeyGood(t, s, J) /\ J \in Seq(InfoType) /\ J[s] = e /\ DOMAIN J = DOMAIN I
  BY <1>1, InfoChanged
<1>4. infos' = [infos EXCEPT ![k] = J]
  BY DEF Update, WorksOn
<1> QED BY <1>3, <1>4, InfoStep

\* What is open for a handler that has found its session.
LEMMA SessionOpen ==
  ASSUME NEW w, NEW h, NEW k, NEW t, NEW s, NEW I, WorksOn(w, h, k, t, s, I),
         h.pc \in {"back", "load", "store", "erase", "read", "send", "seek", "setpos"}
  PROVE  /\ h.info = s /\ s # None /\ s \in DOMAIN I /\ I[s] \in InfoType /\ ~I[s].freed
         /\ I[s].file = t.file /\ t.file \in Files /\ t.file = h.rq.file /\ FileSize[t.file] \in Nat
         /\ I[s].pos \in 0 .. FileSize[t.file] /\ I[s].offset \in 0 .. FileSize[t.file]
         /\ t.got \in Seq(Nat) /\ Len(t.got) \in 0 .. FileSize[t.file] /\ \A i \in DOMAIN t.got : t.got[i] = i
         /\ t.pc \in {"waiting", "lost", "done"} /\ h.rq.op \in {"header", "content", "continue"}
         /\ h.rq.n \in Nat /\ h.rq.ok \in BOOLEAN
         /\ s \in Nat
<1>1. /\ HandGood(h, t, s, I) /\ KeyGood(t, s, I) /\ I \in Seq(InfoType) /\ t \in TaskType /\ h.rq \in Requests
      /\ s \in Nat \cup {None} /\ h.rq.op # "folder"
  BY DEF WorksOn
<1>2. h.rq.op \in {"header", "content", "continue"} /\ h.rq.n \in Nat /\ h.rq.ok \in BOOLEAN
  BY <1>1 DEF HandGood, BlockGood, Requests
<1>3. h.info = s /\ s # None /\ t.file = h.rq.file /\ t.file \in Files
  BY <1>1, <1>2 DEF HandGood, BlockGood
<1>4. t.file # None /\ FileSize[t.file] \in Nat
  BY <1>3, DownloadAssumption DEF Items
<1>5. s \in DOMAIN I /\ I[s] \in InfoType /\ ~I[s].freed
  BY <1>1, <1>3, ElementOfSeq, LenProperties DEF KeyGood
<1>6. /\ I[s].file = t.file /\ I[s].pos \in 0 .. FileSize[t.file] /\ I[s].offset \in 0 .. FileSize[t.file]
      /\ Len(t.got) <= FileSize[t.file] /\ t.pc \in {"waiting", "lost", "done"}
      /\ \A i \in DOMAIN t.got : t.got[i] = i
  BY <1>1, <1>4, <1>5 DEF KeyGood
<1>7. t.got \in Seq(Nat) /\ Len(t.got) \in Nat
  BY <1>1, LenProperties DEF TaskType
<1> QED BY <1>1, <1>2, <1>3, <1>4, <1>5, <1>6, <1>7

LEMMA ReselectKeeps ==
  ASSUME Apart, Typed, InOrder, NEW w \in Workers, Reselect(w) PROVE Typed' /\ InOrder'
<1>1. handler[w].pc = "reselect"
  BY DEF Reselect, At
<1>2. PICK h, k, t, s, I : WorksOn(w, h, k, t, s, I)
  BY <1>1, NoWalk, AtWork
<1>3. h = handler[w] /\ h.pc = "reselect" /\ h.key = k /\ k = h.rq.key /\ I = infos[k]
  BY <1>1, <1>2 DEF WorksOn
<1>4. ASSUME NEW h2 \in HandlerType, h2.pc = "reopen", h2.rq = h.rq, h2.info = h.info, h2.key = h.key
      PROVE  HandGood(h2, t, s, I)
  BY <1>2, <1>3, <1>4 DEF WorksOn, HandGood, OpenGood, BlockGood, NoInfo, ReqGood
<1>5. (Goes(w, "reopen") \/ Ends(w)) /\ UNCHANGED <<catalogue, memory, inbox, task, conn, spent>>
  BY DEF Reselect
<1>6. "reopen" \in Pcs \ {"idle"}
  BY PcsAre
<1> QED BY <1>2, <1>4, <1>5, <1>6, GoesOnKeeps

LEMMA FindKeeps ==
  ASSUME Apart, Typed, InOrder, NEW w \in Workers, Find(w) PROVE Typed' /\ InOrder'
<1>1. handler[w].pc = "find"
  BY DEF Find, At
<1>2. PICK h, k, t, s, I : WorksOn(w, h, k, t, s, I)
  BY <1>1, NoWalk, AtWork
<1>3. h = handler[w] /\ h.pc = "find" /\ h.key = k /\ k = h.rq.key /\ I = infos[k]
  BY <1>1, <1>2 DEF WorksOn
<1>4. UNCHANGED <<catalogue, memory, inbox, task, conn, spent>> /\ sessions[Rq(w).key] = s /\ h.rq.op \in {"header", "content"}
      /\ ReqGood(h.rq, t, s, I) /\ s # None /\ t.file = h.rq.file /\ t.file \in Files
  BY <1>2, <1>3 DEF WorksOn, HandGood, OpenGood, BlockGood, NoInfo, Find, Rq, ReqGood, Stands
<1>5. PICK pc : pc = AfterFind(h.rq)
  OBVIOUS
<1>6. pc \in {"read", "load", "back"} /\ pc \in Pcs
  BY <1>5, PcsAre DEF AfterFind
<1>7. PICK h2 : h2 = [h EXCEPT !.pc = pc, !.info = s]
  OBVIOUS
<1>8. h2 \in HandlerType /\ h2.pc = pc /\ h2.rq = h.rq /\ h2.info = s /\ h2.key = h.key
  BY <1>2, <1>4, <1>6, <1>7 DEF HandlerType, WorksOn
<1>9. /\ pc = "read" => h.rq.op = "header" /\ t.got = <<>> /\ Stands(s, I, 0, 0)
      /\ pc = "load" => h.rq.op = "content" /\ h.rq.ok /\ Stands(s, I, Len(t.got) - h.rq.n, Len(t.got))
      /\ pc = "back" => h.rq.op = "content" /\ Stands(s, I, Len(t.got), Len(t.got) + h.rq.n)
  BY <1>4, <1>5 DEF AfterFind, ReqGood
<1>10. pc = "read" => Stands(s, I, Len(t.got), Len(t.got))
  BY <1>9
<1>11. HandGood(h2, t, s, I)
  BY <1>4, <1>6, <1>8, <1>9, <1>10, <1>2 DEF WorksOn, HandGood, OpenGood, BlockGood, NoInfo
<1>12. handler' = [handler EXCEPT ![w] = h2]
  BY <1>3, <1>4, <1>5, <1>7 DEF Find, Rq
<1> QED BY <1>2, <1>3, <1>4, <1>6, <1>8, <1>11, <1>12, HandlerStep

LEMMA LookupKeeps ==
  ASSUME Apart, Typed, InOrder, NEW w \in Workers, Lookup(w) PROVE Typed' /\ InOrder'
<1>1. handler[w].pc = "lookup"
  BY DEF Lookup, At
<1>2. PICK h, k, t, s, I : WorksOn(w, h, k, t, s, I)
  BY <1>1, NoWalk, AtWork
<1>3. h = handler[w] /\ h.pc = "lookup" /\ h.key = k /\ k = h.rq.key /\ I = infos[k]
  BY <1>1, <1>2 DEF WorksOn
<1>4. UNCHANGED <<catalogue, memory, inbox, task, conn, spent>> /\ sessions[Rq(w).key] = s /\ h.rq.op = "continue"
      /\ h.rq.n = Len(t.got) /\ h.info = 0 /\ t.file = h.rq.file /\ t.file \in Files
  BY <1>2, <1>3 DEF WorksOn, HandGood, OpenGood, BlockGood, NoInfo, Lookup, Rq
<1>5. CASE s = None
  <2>1. Goes(w, "reselect") \/ Ends(w)
    BY <1>4, <1>5 DEF Lookup, Goes
  <2>2. ASSUME NEW h2 \in HandlerType, h2.pc = "reselect", h2.rq = h.rq, h2.info = h.info, h2.key = h.key
        PROVE  HandGood(h2, t, s, I)
    BY <1>2, <1>3, <1>4, <1>5, <2>2 DEF WorksOn, HandGood, OpenGood, BlockGood, NoInfo
  <2> QED BY <1>2, <1>4, <2>1, <2>2, GoesOnKeeps, PcsAre
<1>6. CASE s # None
  <2>1. PICK h2 : h2 = [h EXCEPT !.pc = "seek", !.info = s]
    OBVIOUS
  <2>2. h2 \in HandlerType /\ h2.pc = "seek" /\ h2.rq = h.rq /\ h2.info = s /\ h2.key = h.key
    BY <1>2, <1>6, <2>1, PcsAre DEF HandlerType, WorksOn
  <2>3. HandGood(h2, t, s, I)
    BY <1>4, <1>6, <2>2, <1>2 DEF WorksOn, HandGood, OpenGood, BlockGood, NoInfo
  <2>4. handler' = [handler EXCEPT ![w] = h2]
    BY <1>3, <1>4, <1>6, <2>1 DEF Lookup, Rq
  <2> QED BY <1>2, <1>3, <1>4, <2>2, <2>3, <2>4, HandlerStep
<1> QED BY <1>5, <1>6

LEMMA LoadPosKeeps ==
  ASSUME Apart, Typed, InOrder, NEW w \in Workers, LoadPos(w) PROVE Typed' /\ InOrder'
<1>1. handler[w].pc = "load"
  BY DEF LoadPos, At
<1>2. PICK h, k, t, s, I : WorksOn(w, h, k, t, s, I)
  BY <1>1, NoWalk, AtWork
<1>3. h = handler[w] /\ h.pc = "load" /\ h.key = k /\ k = h.rq.key /\ I = infos[k]
  BY <1>1, <1>2 DEF WorksOn
<1>4. PICK h2 : h2 = [h EXCEPT !.pos = I[s].pos, !.pc = "store"]
  OBVIOUS
<1>5. h.info = s /\ s # None /\ I[s] \in InfoType
  BY <1>2, <1>3, SessionOpen
<1>6. /\ h2 \in HandlerType /\ h2.pc = "store" /\ h2.rq = h.rq /\ h2.info = s /\ h2.key = h.key
      /\ h2.pos = I[s].pos
  BY <1>2, <1>4, <1>5, PcsAre DEF HandlerType, WorksOn, InfoType
<1>7. HandGood(h2, t, s, I)
  BY <1>2, <1>3, <1>5, <1>6 DEF WorksOn, HandGood, OpenGood, BlockGood, NoInfo, Stands
<1>8. handler' = [handler EXCEPT ![w] = h2] /\ UNCHANGED <<catalogue, memory, inbox, task, conn, spent>>
  BY <1>3, <1>4, <1>5 DEF LoadPos, Info
<1> QED BY <1>2, <1>3, <1>6, <1>7, <1>8, HandlerStep

LEMMA SeekBackKeeps ==
  ASSUME Apart, Typed, InOrder, NEW w \in Workers, SeekBack(w) PROVE Typed' /\ InOrder'
<1>1. handler[w].pc = "back"
  BY DEF SeekBack, At
<1>2. PICK h, k, t, s, I : WorksOn(w, h, k, t, s, I)
  BY <1>1, NoWalk, AtWork
<1>3. h = handler[w] /\ h.pc = "back" /\ h.key = k /\ k = h.rq.key /\ I = infos[k]
  BY <1>1, <1>2 DEF WorksOn
<1>4. /\ h.info = s /\ s # None /\ s \in DOMAIN I /\ I[s] \in InfoType /\ ~I[s].freed /\ I[s].file = t.file /\ t.file \in Files
      /\ Len(t.got) \in 0 .. FileSize[t.file] /\ FileSize[t.file] \in Nat /\ h.rq.n \in Nat /\ t.file = h.rq.file
      /\ I[s].pos \in 0 .. FileSize[t.file] /\ I[s].offset \in 0 .. FileSize[t.file]
      /\ h.rq.op \in {"header", "content", "continue"}
  BY <1>2, <1>3, SessionOpen
<1>5. Info(w) = I[s] /\ Rq(w) = h.rq
  BY <1>3, <1>4 DEF Info, Rq
<1>a. h.rq.op = "content" /\ Stands(s, I, Len(t.got), Len(t.got) + h.rq.n)
  BY <1>2, <1>3 DEF WorksOn, HandGood, OpenGood, BlockGood, NoInfo
<1>6. h.rq.op = "content" /\ Stands(s, I, Len(t.got), Len(t.got) + h.rq.n) /\ h.rq.n \in Nat /\ Len(t.got) \in Nat
      /\ I[s].pos = Len(t.got) /\ I[s].offset = Len(t.got) + h.rq.n
  BY <1>4, <1>a DEF Stands
<1>7. PICK e : e = [I[s] EXCEPT !.offset = @ - h.rq.n]
  OBVIOUS
<1>c. e.offset = I[s].offset - h.rq.n
  BY <1>4, <1>7 DEF InfoType
<1>d. e.offset = Len(t.got)
  BY <1>4, <1>6, <1>c
<1>e. I[s].offset - h.rq.n \in Int
  BY <1>4, <1>6
<1>8. /\ e \in InfoType /\ e.offset = Len(t.got) /\ e.pos = I[s].pos /\ e.file = t.file /\ ~e.freed
  BY <1>4, <1>7, <1>d, <1>e DEF InfoType
<1>b. e.file = I[s].file /\ e.pos \in 0 .. FileSize[e.file] /\ e.offset \in 0 .. FileSize[e.file]
  BY <1>4, <1>8
<1>9. PICK h2 : h2 = [h EXCEPT !.pc = "read"]
  OBVIOUS
<1>10. h2 \in HandlerType /\ h2.pc = "read" /\ h2.rq = h.rq /\ h2.info = h.info /\ h2.key = h.key
  BY <1>2, <1>9, GoneOn, PcsAre DEF WorksOn
<1>j. PICK J : J = [I EXCEPT ![s] = e]
  OBVIOUS
<1>k. DOMAIN J = DOMAIN I /\ J[s] = e
  BY <1>2, <1>4, <1>8, <1>j, OneChanged DEF WorksOn
<1>11. HandGood(h2, t, s, J)
  BY <1>2, <1>3, <1>4, <1>6, <1>8, <1>10, <1>k DEF WorksOn, HandGood, OpenGood, BlockGood, NoInfo, Stands
<1>12. /\ Update(w, e) /\ handler' = [handler EXCEPT ![w] = h2] /\ spent' \in SpentType
       /\ UNCHANGED <<catalogue, sessions, inbox, task, conn>>
  BY <1>3, <1>5, <1>7, <1>9 DEF SeekBack, Goes, Typed
<1>13. h2.rq = h.rq /\ h2.key = k /\ h2.pc # "idle"
  BY <1>3, <1>10
<1> QED BY <1>2, <1>4, <1>8, <1>b, <1>10, <1>12, <1>11, <1>13, <1>j, UpdateKeeps

LEMMA SeekKeeps ==
  ASSUME Apart, Typed, InOrder, NEW w \in Workers, Seek(w) PROVE Typed' /\ InOrder'
<1>1. handler[w].pc = "seek"
  BY DEF Seek, At
<1>2. PICK h, k, t, s, I : WorksOn(w, h, k, t, s, I)
  BY <1>1, NoWalk, AtWork
<1>3. h = handler[w] /\ h.pc = "seek" /\ h.key = k /\ k = h.rq.key /\ I = infos[k]
  BY <1>1, <1>2 DEF WorksOn
<1>4. /\ h.info = s /\ s # None /\ s \in DOMAIN I /\ I[s] \in InfoType /\ ~I[s].freed /\ I[s].file = t.file /\ t.file \in Files
      /\ Len(t.got) \in 0 .. FileSize[t.file] /\ FileSize[t.file] \in Nat /\ h.rq.n \in Nat /\ t.file = h.rq.file
      /\ I[s].pos \in 0 .. FileSize[t.file] /\ I[s].offset \in 0 .. FileSize[t.file]
      /\ h.rq.op \in {"header", "content", "continue"}
  BY <1>2, <1>3, SessionOpen
<1>5. Info(w) = I[s] /\ Rq(w) = h.rq
  BY <1>3, <1>4 DEF Info, Rq
<1>a. h.rq.op = "continue" /\ h.rq.n = Len(t.got)
  BY <1>2, <1>3 DEF WorksOn, HandGood, OpenGood, BlockGood, NoInfo
<1>6. h.rq.op = "continue" /\ h.rq.n = Len(t.got) /\ Len(t.got) \in Nat
  BY <1>4, <1>a DEF Stands
<1>7. PICK e : e = [I[s] EXCEPT !.offset = h.rq.n]
  OBVIOUS
<1>c. e.offset = h.rq.n
  BY <1>4, <1>7 DEF InfoType
<1>d. e.offset = Len(t.got)
  BY <1>4, <1>6, <1>c
<1>e. h.rq.n \in Int
  BY <1>4, <1>6
<1>8. /\ e \in InfoType /\ e.offset = Len(t.got) /\ e.pos = I[s].pos /\ e.file = t.file /\ ~e.freed
  BY <1>4, <1>7, <1>d, <1>e DEF InfoType
<1>b. e.file = I[s].file /\ e.pos \in 0 .. FileSize[e.file] /\ e.offset \in 0 .. FileSize[e.file]
  BY <1>4, <1>8
<1>9. PICK h2 : h2 = [h EXCEPT !.pc = "setpos"]
  OBVIOUS
<1>10. h2 \in HandlerType /\ h2.pc = "setpos" /\ h2.rq = h.rq /\ h2.info = h.info /\ h2.key = h.key
  BY <1>2, <1>9, GoneOn, PcsAre DEF WorksOn
<1>j. PICK J : J = [I EXCEPT ![s] = e]
  OBVIOUS
<1>k. DOMAIN J = DOMAIN I /\ J[s] = e
  BY <1>2, <1>4, <1>8, <1>j, OneChanged DEF WorksOn
<1>11. HandGood(h2, t, s, J)
  BY <1>2, <1>3, <1>4, <1>6, <1>8, <1>10, <1>k DEF WorksOn, HandGood, OpenGood, BlockGood, NoInfo, Stands
<1>12. /\ Update(w, e) /\ handler' = [handler EXCEPT ![w] = h2] /\ spent' \in SpentType
       /\ UNCHANGED <<catalogue, sessions, inbox, task, conn>>
  BY <1>3, <1>5, <1>7, <1>9 DEF Seek, Goes, Typed
<1>13. h2.rq = h.rq /\ h2.key = k /\ h2.pc # "idle"
  BY <1>3, <1>10
<1> QED BY <1>2, <1>4, <1>8, <1>b, <1>10, <1>12, <1>11, <1>13, <1>j, UpdateKeeps

LEMMA SetPosKeeps ==
  ASSUME Apart, Typed, InOrder, NEW w \in Workers, SetPos(w) PROVE Typed' /\ InOrder'
<1>1. handler[w].pc = "setpos"
  BY DEF SetPos, At
<1>2. PICK h, k, t, s, I : WorksOn(w, h, k, t, s, I)
  BY <1>1, NoWalk, AtWork
<1>3. h = handler[w] /\ h.pc = "setpos" /\ h.key = k /\ k = h.rq.key /\ I = infos[k]
  BY <1>1, <1>2 DEF WorksOn
<1>4. /\ h.info = s /\ s # None /\ s \in DOMAIN I /\ I[s] \in InfoType /\ ~I[s].freed /\ I[s].file = t.file /\ t.file \in Files
      /\ Len(t.got) \in 0 .. FileSize[t.file] /\ FileSize[t.file] \in Nat /\ h.rq.n \in Nat /\ t.file = h.rq.file
      /\ I[s].pos \in 0 .. FileSize[t.file] /\ I[s].offset \in 0 .. FileSize[t.file]
      /\ h.rq.op \in {"header", "content", "continue"}
  BY <1>2, <1>3, SessionOpen
<1>5. Info(w) = I[s] /\ Rq(w) = h.rq
  BY <1>3, <1>4 DEF Info, Rq
<1>a. h.rq.op = "continue" /\ h.rq.n = Len(t.got) /\ I[s].offset = Len(t.got)
  BY <1>2, <1>3 DEF WorksOn, HandGood, OpenGood, BlockGood, NoInfo
<1>6. h.rq.op = "continue" /\ h.rq.n = Len(t.got) /\ Len(t.got) \in Nat /\ I[s].offset = Len(t.got)
  BY <1>4, <1>a DEF Stands
<1>7. PICK e : e = [I[s] EXCEPT !.pos = h.rq.n]
  OBVIOUS
<1>c. e.pos = h.rq.n
  BY <1>4, <1>7 DEF InfoType
<1>d. e.pos = Len(t.got)
  BY <1>4, <1>6, <1>c
<1>e. h.rq.n \in Int
  BY <1>4, <1>6
<1>8. /\ e \in InfoType /\ e.pos = Len(t.got) /\ e.offset = I[s].offset /\ e.file = t.file /\ ~e.freed
  BY <1>4, <1>7, <1>d, <1>e DEF InfoType
<1>b. e.file = I[s].file /\ e.pos \in 0 .. FileSize[e.file] /\ e.offset \in 0 .. FileSize[e.file]
  BY <1>4, <1>8
<1>9. PICK h2 : h2 = [h EXCEPT !.pc = "read"]
  OBVIOUS
<1>10. h2 \in HandlerType /\ h2.pc = "read" /\ h2.rq = h.rq /\ h2.info = h.info /\ h2.key = h.key
  BY <1>2, <1>9, GoneOn, PcsAre DEF WorksOn
<1>j. PICK J : J = [I EXCEPT ![s] = e]
  OBVIOUS
<1>k. DOMAIN J = DOMAIN I /\ J[s] = e
  BY <1>2, <1>4, <1>8, <1>j, OneChanged DEF WorksOn
<1>11. HandGood(h2, t, s, J)
  BY <1>2, <1>3, <1>4, <1>6, <1>8, <1>10, <1>k DEF WorksOn, HandGood, OpenGood, BlockGood, NoInfo, Stands
<1>12. /\ Update(w, e) /\ handler' = [handler EXCEPT ![w] = h2] /\ spent' \in SpentType
       /\ UNCHANGED <<catalogue, sessions, inbox, task, conn>>
  BY <1>3, <1>5, <1>7, <1>9 DEF SetPos, Goes, Typed
<1>13. h2.rq = h.rq /\ h2.key = k /\ h2.pc # "idle"
  BY <1>3, <1>10
<1> QED BY <1>2, <1>4, <1>8, <1>b, <1>10, <1>12, <1>11, <1>13, <1>j, UpdateKeeps

LEMMA StorePosKeeps ==
  ASSUME Apart, Typed, InOrder, NEW w \in Workers, StorePos(w) PROVE Typed' /\ InOrder'
<1>1. handler[w].pc = "store"
  BY DEF StorePos, At
<1>2. PICK h, k, t, s, I : WorksOn(w, h, k, t, s, I)
  BY <1>1, NoWalk, AtWork
<1>3. h = handler[w] /\ h.pc = "store" /\ h.key = k /\ k = h.rq.key /\ I = infos[k]
  BY <1>1, <1>2 DEF WorksOn
<1>4. /\ h.info = s /\ s # None /\ s \in DOMAIN I /\ I[s] \in InfoType /\ ~I[s].freed /\ I[s].file = t.file /\ t.file \in Files
      /\ Len(t.got) \in 0 .. FileSize[t.file] /\ FileSize[t.file] \in Nat /\ h.rq.n \in Nat /\ t.file = h.rq.file
      /\ I[s].pos \in 0 .. FileSize[t.file] /\ I[s].offset \in 0 .. FileSize[t.file]
      /\ h.rq.op \in {"header", "content", "continue"}
  BY <1>2, <1>3, SessionOpen
<1>5. Info(w) = I[s] /\ Rq(w) = h.rq
  BY <1>3, <1>4 DEF Info, Rq
<1>a. h.rq.op = "content" /\ h.rq.ok /\ Stands(s, I, Len(t.got) - h.rq.n, Len(t.got)) /\ h.pos = Len(t.got) - h.rq.n
  BY <1>2, <1>3 DEF WorksOn, HandGood, OpenGood, BlockGood, NoInfo
<1>6. /\ h.rq.op = "content" /\ h.rq.ok /\ h.rq.n \in Nat /\ Len(t.got) \in Nat
      /\ h.pos = Len(t.got) - h.rq.n /\ I[s].offset = Len(t.got)
  BY <1>4, <1>a DEF Stands
<1>7. PICK e : e = [I[s] EXCEPT !.pos = h.pos + h.rq.n]
  OBVIOUS
<1>8. /\ e \in InfoType /\ e.pos = Len(t.got) /\ e.offset = Len(t.got) /\ e.file = t.file /\ ~e.freed
  BY <1>4, <1>6, <1>7 DEF InfoType
<1>b. e.file = I[s].file /\ e.pos \in 0 .. FileSize[e.file] /\ e.offset \in 0 .. FileSize[e.file]
  BY <1>4, <1>8
<1>9. PICK pc : pc = (IF h.pos + h.rq.n >= FileSize[I[s].file] THEN "erase" ELSE "read")
  OBVIOUS
<1>10. PICK h2 : h2 = [h EXCEPT !.pc = pc]
  OBVIOUS
<1>11. pc \in {"erase", "read"} /\ pc \in Pcs
  BY <1>9, PcsAre
<1>12. h2 \in HandlerType /\ h2.pc = pc /\ h2.rq = h.rq /\ h2.info = h.info /\ h2.key = h.key /\ h2.pc # "idle"
  BY <1>2, <1>10, <1>11, GoneOn DEF WorksOn
<1>j. PICK J : J = [I EXCEPT ![s] = e]
  OBVIOUS
<1>k. DOMAIN J = DOMAIN I /\ J[s] = e
  BY <1>2, <1>4, <1>8, <1>j, OneChanged DEF WorksOn
<1>13. HandGood(h2, t, s, J)
  BY <1>2, <1>3, <1>4, <1>6, <1>8, <1>11, <1>12, <1>k DEF WorksOn, HandGood, OpenGood, BlockGood, NoInfo, Stands
<1>14. /\ Update(w, e) /\ handler' = [handler EXCEPT ![w] = h2] /\ spent' \in SpentType
       /\ UNCHANGED <<catalogue, sessions, inbox, task, conn>>
  BY <1>3, <1>5, <1>7, <1>9, <1>10 DEF StorePos, Goes, Typed
<1>15. h2.rq = h.rq /\ h2.key = k /\ h2.pc # "idle"
  BY <1>3, <1>12
<1> QED BY <1>2, <1>4, <1>8, <1>b, <1>12, <1>14, <1>13, <1>15, <1>j, UpdateKeeps

\* What read returns is of the file.
LEMMA ReadsWithin ==
  ASSUME Typed, NEW info \in InfoType
  PROVE  ReadLen(info) \in Int /\ (ReadLen(info) > 0 => info.offset + ReadLen(info) <= FileSize[info.file])
<1>1. /\ stored[info.file] \in Nat /\ stored[info.file] <= FileSize[info.file] /\ FileSize[info.file] \in Nat
      /\ info.offset \in Int /\ Block \in Nat
  BY DownloadAssumption DEF Typed, InfoType
<1> QED BY <1>1 DEF ReadLen

LEMMA ReadKeeps ==
  ASSUME Apart, Typed, InOrder, NEW w \in Workers, Read(w) PROVE Typed' /\ InOrder'
<1>1. handler[w].pc = "read"
  BY DEF Read, At
<1>2. PICK h, k, t, s, I : WorksOn(w, h, k, t, s, I)
  BY <1>1, NoWalk, AtWork
<1>3. h = handler[w] /\ h.pc = "read" /\ h.key = k /\ k = h.rq.key /\ I = infos[k]
  BY <1>1, <1>2 DEF WorksOn
<1>4. /\ h.info = s /\ s # None /\ s \in DOMAIN I /\ I[s] \in InfoType /\ ~I[s].freed /\ I[s].file = t.file /\ t.file \in Files
      /\ Len(t.got) \in 0 .. FileSize[t.file] /\ FileSize[t.file] \in Nat /\ h.rq.n \in Nat /\ t.file = h.rq.file
      /\ I[s].pos \in 0 .. FileSize[t.file] /\ I[s].offset \in 0 .. FileSize[t.file]
      /\ h.rq.op \in {"header", "content", "continue"}
  BY <1>2, <1>3, SessionOpen, SMTT(40)
<1>5. Info(w) = I[s] /\ Rq(w) = h.rq
  BY <1>3, <1>4 DEF Info, Rq
<1>a. Stands(s, I, Len(t.got), Len(t.got))
  BY <1>2, <1>3 DEF WorksOn, HandGood, OpenGood, BlockGood, NoInfo
<1>6. /\ Len(t.got) \in Nat /\ I[s].pos = Len(t.got) /\ I[s].offset = Len(t.got)
      /\ Len(t.got) <= FileSize[t.file] /\ FileSize[t.file] \in Nat
      /\ h.rq.op \in {"header", "content", "continue"} /\ t.file = h.rq.file
  BY <1>4, <1>a DEF Stands
<1>7. PICK n : n = ReadLen(I[s])
  OBVIOUS
<1>8. n \in Int /\ (n > 0 => Len(t.got) + n <= FileSize[t.file])
  BY <1>4, <1>6, <1>7, ReadsWithin
<1>9. PICK e : e = [I[s] EXCEPT !.offset = @ + (IF n > 0 THEN n ELSE 0)]
  OBVIOUS
<1>10. /\ e \in InfoType /\ e.pos = Len(t.got) /\ e.file = t.file /\ ~e.freed
       /\ e.offset = (IF n > 0 THEN Len(t.got) + n ELSE Len(t.got))
  BY <1>4, <1>6, <1>8, <1>9 DEF InfoType
<1>11. e.file = I[s].file /\ e.pos \in 0 .. FileSize[e.file] /\ e.offset \in 0 .. FileSize[e.file]
  BY <1>4, <1>6, <1>8, <1>10
<1>12. PICK h2 : h2 = IF MayEnd(h.rq.op, n) THEN Idle ELSE [h EXCEPT !.pc = "send", !.block = <<I[s].offset, n>>]
  OBVIOUS
<1>13. \/ h2 = Idle
       \/ /\ h2.pc = "send" /\ h2.rq = h.rq /\ h2.info = h.info /\ h2.key = h.key
          /\ h2.block[1] = Len(t.got) /\ h2.block[2] = n
  BY <1>2, <1>6, <1>12 DEF WorksOn, HandlerType
<1>14. h2 \in HandlerType
  <2>1. <<I[s].offset, n>> \in Int \X Int
    BY <1>6, <1>8
  <2> QED BY <1>2, <1>12, <2>1, IdleTyped, PcsAre DEF WorksOn, HandlerType
<1>j. PICK J : J = [I EXCEPT ![s] = e]
  OBVIOUS
<1>k. DOMAIN J = DOMAIN I /\ J[s] = e
  BY <1>2, <1>4, <1>8, <1>j, OneChanged DEF WorksOn
<1>15. h2 # Idle => HandGood(h2, t, s, J)
  BY <1>2, <1>3, <1>4, <1>6, <1>10, <1>13, <1>k DEF WorksOn, HandGood, OpenGood, BlockGood, NoInfo, Stands
<1>16. Update(w, e) /\ handler' = [handler EXCEPT ![w] = h2] /\ UNCHANGED <<catalogue, sessions, inbox, task, conn>>
  BY <1>3, <1>5, <1>7, <1>9, <1>12 DEF Read
<1>17. spent' \in SpentType
  BY DEF Read, Typed, SpentType, Kinds
<1>18. h2 = Idle \/ (h2.rq = h.rq /\ h2.key = k /\ h2.pc # "idle")
  BY <1>3, <1>13
<1> QED BY <1>2, <1>4, <1>10, <1>11, <1>14, <1>16, <1>17, <1>15, <1>18, <1>j, UpdateKeeps

LEMMA EraseKeeps ==
  ASSUME Apart, Typed, InOrder, NEW w \in Workers, Erase(w) PROVE Typed' /\ InOrder'
<1>1. handler[w].pc = "erase"
  BY DEF Erase, At
<1>2. PICK h, k, t, s, I : WorksOn(w, h, k, t, s, I)
  BY <1>1, NoWalk, AtWork
<1>3. h = handler[w] /\ h.pc = "erase" /\ h.key = k /\ k = h.rq.key /\ I = infos[k]
  BY <1>1, <1>2 DEF WorksOn
<1>4. h.info = s /\ s # None /\ s \in DOMAIN I /\ I[s] \in InfoType /\ I[s].file = t.file /\ t.file # None
      /\ I[s].pos \in 0 .. FileSize[I[s].file] /\ I[s].offset \in 0 .. FileSize[I[s].file]
  BY <1>2, <1>3, SessionOpen, DownloadAssumption, SMTT(40) DEF Items
<1>5. PICK e : e = [I[s] EXCEPT !.freed = TRUE]
  OBVIOUS
<1>6. /\ e \in InfoType /\ e.file = I[s].file
      /\ e.pos \in 0 .. FileSize[e.file] /\ e.offset \in 0 .. FileSize[e.file]
  BY <1>4, <1>5 DEF InfoType
<1>7. PICK J : J = [I EXCEPT ![s] = e]
  OBVIOUS
<1>8. KeyGood(t, None, I) /\ I \in Seq(InfoType) /\ s # None
  BY <1>2, <1>4 DEF KeyGood, WorksOn
<1>9. KeyGood(t, None, J) /\ J \in Seq(InfoType)
  BY <1>4, <1>6, <1>7, <1>8, InfoChanged
<1>10. /\ infos' = [infos EXCEPT ![k] = J] /\ sessions' = [sessions EXCEPT ![k] = None]
       /\ handler' = [handler EXCEPT ![w] = Idle] /\ UNCHANGED <<catalogue, inbox, task, conn, spent>>
  BY <1>3, <1>4, <1>5, <1>7 DEF Erase, Update, Info, Rq, Ends
<1> QED BY <1>2, <1>9, <1>10, SessionStep, IdleTyped

\* A FileInfo is put into the map where there is none.
LEMMA MappedKeeps ==
  ASSUME Apart, Typed, InOrder, NEW w \in Workers, NEW h, NEW k, NEW t, NEW s, NEW I, WorksOn(w, h, k, t, s, I),
         NEW pc \in Pcs \ {"idle"}, h.info \in DOMAIN I, ~I[h.info].freed,
         sessions' = [sessions EXCEPT ![k] = h.info], Goes(w, pc),
         \A h2 \in HandlerType : h2.pc = pc /\ h2.rq = h.rq /\ h2.info = h.info /\ h2.key = h.key
                                 => HandGood(h2, t, h.info, I),
         UNCHANGED <<catalogue, infos, inbox, task, conn, spent>>
  PROVE  Typed' /\ InOrder'
<1>1. PICK h2 : h2 = [h EXCEPT !.pc = pc]
  OBVIOUS
<1>2. h2 \in HandlerType /\ h2.pc = pc /\ h2.rq = h.rq /\ h2.info = h.info /\ h2.key = h.key /\ h2.key = k
  BY <1>1, GoneOn DEF WorksOn
<1>3. handler' = [handler EXCEPT ![w] = h2]
  BY <1>1 DEF Goes, WorksOn
<1>4. HandGood(h2, t, h.info, I)
  BY <1>2
<1>5. KeyGood(t, h.info, I) /\ I \in Seq(InfoType) /\ I = infos[k] /\ h.info \in Nat
  BY DEF KeyGood, WorksOn, HandlerType
<1> QED BY <1>2, <1>3, <1>4, <1>5, SessionStep

LEMMA MapInsertKeeps ==
  ASSUME Apart, Typed, InOrder, NEW w \in Workers, MapInsert(w), ~Walking(w) PROVE Typed' /\ InOrder'
<1>1. handler[w].pc = "map"
  BY DEF MapInsert, At
<1>0. handler[w].rq.op # "folder"
  BY <1>1 DEF Walking, InOrder, Handled, Idle
<1>2. PICK h, k, t, s, I : WorksOn(w, h, k, t, s, I)
  BY <1>0, <1>1, AtWork
<1>3. h = handler[w] /\ h.pc = "map" /\ h.key = k /\ k = h.rq.key /\ I = infos[k]
  BY <1>1, <1>2 DEF WorksOn
<1>4. h.info \in DOMAIN I /\ ~I[h.info].freed
  BY <1>2, <1>3 DEF WorksOn, HandGood, OpenGood, BlockGood, NoInfo
<1>5. ASSUME NEW h2 \in HandlerType, h2.pc = "sendheader", h2.rq = h.rq, h2.info = h.info, h2.key = h.key
      PROVE  HandGood(h2, t, h.info, I)
  BY <1>2, <1>3, <1>5 DEF WorksOn, HandGood, OpenGood, BlockGood, NoInfo
<1>6. /\ sessions' = [sessions EXCEPT ![k] = h.info] /\ Goes(w, "sendheader")
      /\ UNCHANGED <<catalogue, infos, inbox, task, conn, spent>>
  BY <1>3 DEF MapInsert
<1>7. PICK pc \in Pcs \ {"idle"} : pc = "sendheader"
  BY PcsAre
<1>8. \A h2 \in HandlerType : h2.pc = pc /\ h2.rq = h.rq /\ h2.info = h.info /\ h2.key = h.key
                               => HandGood(h2, t, h.info, I)
  BY <1>5, <1>7
<1>9. Goes(w, pc) /\ sessions' = [sessions EXCEPT ![k] = h.info] /\ UNCHANGED <<catalogue, infos, inbox, task, conn, spent>>
  BY <1>6, <1>7
<1> QED BY <1>2, <1>4, <1>8, <1>9, MappedKeeps

LEMMA RemapKeeps ==
  ASSUME Apart, Typed, InOrder, NEW w \in Workers, Remap(w) PROVE Typed' /\ InOrder'
<1>1. handler[w].pc = "remap"
  BY DEF Remap, At
<1>2. PICK h, k, t, s, I : WorksOn(w, h, k, t, s, I)
  BY <1>1, NoWalk, AtWork
<1>3. h = handler[w] /\ h.pc = "remap" /\ h.key = k /\ k = h.rq.key /\ I = infos[k]
  BY <1>1, <1>2 DEF WorksOn
<1>4. h.info \in DOMAIN I /\ ~I[h.info].freed /\ h.info # None
  BY <1>2, <1>3, DownloadAssumption DEF WorksOn, HandGood, OpenGood, BlockGood, NoInfo, HandlerType
<1>5. ASSUME NEW h2 \in HandlerType, h2.pc = "seek", h2.rq = h.rq, h2.info = h.info, h2.key = h.key
      PROVE  HandGood(h2, t, h.info, I)
  BY <1>2, <1>3, <1>4, <1>5 DEF WorksOn, HandGood, OpenGood, BlockGood, NoInfo
<1>6. /\ sessions' = [sessions EXCEPT ![k] = h.info] /\ Goes(w, "seek")
      /\ UNCHANGED <<catalogue, infos, inbox, task, conn, spent>>
  BY <1>3 DEF Remap, Rq
<1>7. "seek" \in Pcs \ {"idle"}
  BY PcsAre
<1> QED BY <1>2, <1>4, <1>5, <1>6, <1>7, MappedKeeps

LEMMA ReopenKeeps ==
  ASSUME Apart, Typed, InOrder, NEW w \in Workers, Reopen(w) PROVE Typed' /\ InOrder'
<1>1. handler[w].pc = "reopen"
  BY DEF Reopen, At
<1>2. PICK h, k, t, s, I : WorksOn(w, h, k, t, s, I)
  BY <1>1, NoWalk, AtWork
<1>3. h = handler[w] /\ h.pc = "reopen" /\ h.key = k /\ k = h.rq.key /\ I = infos[k]
  BY <1>1, <1>2 DEF WorksOn
<1>4. /\ UNCHANGED <<catalogue, sessions, inbox, task, conn, spent>>
      /\ h.rq.op = "continue" /\ h.rq.n = Len(t.got) /\ s = None /\ t.file = h.rq.file /\ t.file \in Files
  BY <1>2, <1>3 DEF WorksOn, HandGood, OpenGood, BlockGood, NoInfo, Reopen
<1>5. CASE h.rq.file \notin there
  <2>1. handler' = [handler EXCEPT ![w] = Idle] /\ infos' = infos
    BY <1>3, <1>5 DEF Reopen, Rq, Ends
  <2> QED BY <1>2, <1>4, <2>1, HandlerStep, IdleTyped DEF memory
<1>6. CASE h.rq.file \in there
  <2>1. PICK e \in InfoType : e = NewInfo(h.rq.file) /\ e.file = h.rq.file /\ e.pos = 0 /\ e.offset = 0 /\ ~e.freed
    BY <1>4, NewInfoTyped
  <2>2. PICK J : J = Append(I, e)
    OBVIOUS
  <2>3. I \in Seq(InfoType) /\ KeyGood(t, s, I)
    BY <1>2 DEF WorksOn
  <2>4. KeyGood(t, s, J)
    BY <1>4, <2>1, <2>2, <2>3, InfoMade
  <2>5. PICK i : i = Len(J)
    OBVIOUS
  <2>6. J \in Seq(InfoType) /\ i \in DOMAIN J /\ J[i] = e /\ i \in Nat
    BY <2>2, <2>3, <2>5, OneMore
  <2>7. infos' = [infos EXCEPT ![k] = J] /\ infos'[k] = J
    <3>1. New(k, e)
      BY <1>3, <1>6, <2>1 DEF Reopen, Rq
    <3> QED BY <1>2, <1>3, <2>2, <3>1 DEF New, Typed, WorksOn
  <2>8. PICK h2 : h2 = [h EXCEPT !.pc = "remap", !.info = i]
    OBVIOUS
  <2>9. h2 \in HandlerType /\ h2.pc = "remap" /\ h2.rq = h.rq /\ h2.info = i /\ h2.key = k
    BY <1>2, <1>3, <2>6, <2>8, PcsAre DEF HandlerType, WorksOn
  <2>10. HandGood(h2, t, s, J)
    BY <1>2, <1>3, <1>4, <2>1, <2>6, <2>9 DEF WorksOn, HandGood, OpenGood, BlockGood, NoInfo
  <2>11. handler' = [handler EXCEPT ![w] = h2]
    BY <1>3, <1>6, <2>5, <2>7, <2>8 DEF Reopen, Rq
  <2>12. spent' \in SpentType /\ h2.pc # "idle" /\ UNCHANGED <<catalogue, sessions, inbox, task, conn>>
    BY <1>4, <2>9 DEF Typed
  <2> QED BY <1>2, <2>4, <2>6, <2>7, <2>9, <2>10, <2>11, <2>12, InfoStep
<1> QED BY <1>5, <1>6

\* A header that comes to a client makes a task of the timestamp, and an answer.
LEMMA HeaderMakes ==
  ASSUME NEW k \in Keys, NEW f \in Files, NEW s, NEW I \in Seq(InfoType), KeyGood(NoTask, s, I),
         Stands(s, I, 0, 0), \A i \in DOMAIN I : I[i].file = f, Typed
  PROVE  \E t \in TaskType, r \in Requests :
           /\ t = NewTask(f) /\ r = Request("header", k, f, 0, TRUE)
           /\ t.file # None /\ r.key = k /\ r.op = "header"
           /\ KeyGood(t, s, I) /\ ReqGood(r, t, s, I)
<1>1. PICK t, r : t = NewTask(f) /\ r = Request("header", k, f, 0, TRUE)
  OBVIOUS
<1>2. t \in TaskType /\ t.pc = "waiting" /\ t.file = f /\ t.got = <<>>
  BY <1>1 DEF TaskType, NewTask
<1>5. /\ r \in Requests /\ r.key = k /\ r.op = "header" /\ r.file = f /\ r.n = 0 /\ r.ok
  BY <1>1 DEF Request, Requests, Items, Typed
<1>6. FileSize[f] \in Nat /\ f # None /\ Len(<<>>) = 0 /\ DOMAIN <<>> = {}
  BY DownloadAssumption DEF Items
<1>7. KeyGood(t, s, I)
  BY <1>2, <1>6 DEF KeyGood, NoTask
<1>8. ReqGood(r, t, s, I)
  BY <1>2, <1>5 DEF ReqGood
<1> QED BY <1>1, <1>2, <1>5, <1>6, <1>7, <1>8

LEMMA SendHeaderKeeps ==
  ASSUME Apart, Typed, InOrder, NEW w \in Workers, SendHeader(w), ~Walking(w) PROVE Typed' /\ InOrder'
<1>1. handler[w].pc = "sendheader"
  BY DEF SendHeader, At
<1>0. handler[w].rq.op # "folder"
  BY <1>1 DEF Walking, InOrder, Handled, Idle
<1>2. PICK h, k, t, s, I : WorksOn(w, h, k, t, s, I)
  BY <1>0, <1>1, AtWork
<1>3. h = handler[w] /\ h.pc = "sendheader" /\ h.key = k /\ k = h.rq.key /\ I = infos[k] /\ k \in Keys
  BY <1>1, <1>2 DEF WorksOn
<1>4. PICK f : f = h.rq.file
  OBVIOUS
<1>5. /\ h.rq.op = "file" /\ f \in Files /\ s = h.info /\ s \in DOMAIN I /\ I[s].file = f /\ I[s].pos = 0 /\ I[s].offset = 0
      /\ \A i \in DOMAIN I : I[i].file = f
      /\ t.file = None /\ I \in Seq(InfoType) /\ KeyGood(t, s, I) /\ ~I[s].freed
  BY <1>2, <1>3, <1>4 DEF WorksOn, HandGood, OpenGood, BlockGood, NoInfo, Requests
<1>6. s # None
  BY <1>2, <1>5, DownloadAssumption DEF WorksOn, HandlerType
<1>7. KeyGood(NoTask, s, I) /\ Stands(s, I, 0, 0)
  BY <1>5, <1>6 DEF KeyGood, NoTask, Stands
<1>8. Info(w).file = f /\ Rq(w) = h.rq /\ conn \in Nat
  BY <1>3, <1>5 DEF Info, Rq, Typed
<1>9. /\ handler' = [handler EXCEPT ![w] = Idle] /\ UNCHANGED <<catalogue, memory, conn>> /\ spent' \in SpentType
  BY <1>3, <1>5, <1>8 DEF SendHeader, Ends, Typed
<1>10. GetsHeader(h.rq, k, f)
  BY <1>3, <1>8 DEF SendHeader
<1>11. CASE h.rq.conn = conn
  <2>1. I \in Seq(InfoType) /\ KeyGood(NoTask, s, I) /\ Stands(s, I, 0, 0) /\ k \in Keys /\ f \in Files
    BY <1>3, <1>5, <1>7, <1>8
  <2>a. \A i \in DOMAIN I : I[i].file = f
    BY <1>5
  <2>2. PICK t2 \in TaskType, r \in Requests :
           /\ t2 = NewTask(f) /\ r = Request("header", k, f, 0, TRUE)
           /\ t2.file # None /\ r.key = k /\ r.op = "header"
           /\ KeyGood(t2, s, I) /\ ReqGood(r, t2, s, I)
    BY <2>1, <2>a, HeaderMakes
  <2>9. t2 # NoTask
    BY <2>2 DEF NoTask
  <2>3. PICK new : new = {r}
    OBVIOUS
  <2>4. task' = [task EXCEPT ![k] = t2] /\ inbox' = inbox \cup new
    BY <1>10, <1>11, <2>2, <2>3 DEF GetsHeader
  <2>5. new \in SUBSET Requests /\ \A p, q \in new : p = q
    BY <2>2, <2>3
  <2>b. \A q \in new : q.key = k /\ q.op # "folder" /\ ReqGood(q, t2, s, I)
    BY <2>2, <2>3
  <2>c. KeyGood(t2, s, I) /\ t2 # NoTask /\ t2 \in TaskType
    BY <2>2, <2>9
  <2>6. task' = [task EXCEPT ![k] = t2] \/ (task' = task /\ t2 = t)
    BY <2>4
  <2>d. PICK H : H = [handler EXCEPT ![w] = Idle]
    OBVIOUS
  <2>7. handler' = H /\ UNCHANGED <<catalogue, memory, conn>> /\ spent' \in SpentType
    BY <1>9, <2>d
  <2>8. inbox' = inbox \cup new
    BY <2>4
  <2> QED BY <1>2, <2>b, <2>c, <2>5, <2>6, <2>7, <2>8, <2>d, AnswerStep
<1>12. CASE h.rq.conn # conn
  <2>1. UNCHANGED <<task, inbox, spent>> /\ t # NoTask /\ UNCHANGED <<catalogue, memory, conn>>
    BY <1>2, <1>10, <1>12 DEF GetsHeader, WorksOn, SendHeader
  <2> QED BY <1>2, <1>9, <2>1, HandlerStep, IdleTyped
<1> QED BY <1>11, <1>12

\* What has come in order goes on in order.
LEMMA UnitsFollow ==
  ASSUME NEW got \in Seq(Nat), \A i \in DOMAIN got : got[i] = i, NEW n \in Nat,
         NEW U, U = [i \in 1 .. n |-> Len(got) + i]
  PROVE  /\ got \o U \in Seq(Nat) /\ Len(got \o U) = Len(got) + n
         /\ \A i \in DOMAIN (got \o U) : (got \o U)[i] = i
<1>1. Len(got) \in Nat /\ DOMAIN got = 1 .. Len(got)
  BY LenProperties
<1>2. U \in Seq(Nat) /\ Len(U) = n
  BY <1>1, SeqDef
<1>3. got \o U \in Seq(Nat) /\ Len(got \o U) = Len(got) + n /\ DOMAIN (got \o U) = 1 .. Len(got) + n
  BY <1>1, <1>2
<1>4. ASSUME NEW i \in 1 .. Len(got) + n PROVE (got \o U)[i] = i
  <2>1. CASE i <= Len(got)
    BY <1>1, <1>2, <2>1
  <2>2. CASE i > Len(got)
    <3>1. i - Len(got) \in 1 .. n
      BY <1>1, <2>2
    <3>2. (got \o U)[i] = U[i - Len(got)]
      BY <1>1, <1>2, <2>2
    <3> QED BY <1>1, <3>1, <3>2
  <2> QED BY <1>1, <2>1, <2>2
<1> QED BY <1>3, <1>4

\* A fault is counted.
LEMMA SpentGoes ==
  ASSUME Typed, NEW what \in Kinds, Spend(what) PROVE spent' \in SpentType
  BY DEF Typed, SpentType, Spend

LEMMA SendBlockKeeps ==
  ASSUME Apart, Typed, InOrder, NEW w \in Workers, SendBlock(w) PROVE Typed' /\ InOrder'
<1>1. handler[w].pc = "send"
  BY DEF SendBlock, At
<1>2. PICK h, k, t, s, I : WorksOn(w, h, k, t, s, I)
  BY <1>1, NoWalk, AtWork
<1>3. h = handler[w] /\ h.pc = "send" /\ h.key = k /\ k = h.rq.key /\ I = infos[k]
  BY <1>1, <1>2 DEF WorksOn
<1>4. /\ h.info = s /\ s # None /\ s \in DOMAIN I /\ I[s] \in InfoType /\ ~I[s].freed /\ I[s].file = t.file /\ t.file \in Files
      /\ Len(t.got) \in 0 .. FileSize[t.file] /\ FileSize[t.file] \in Nat
      /\ I[s].offset \in 0 .. FileSize[t.file]
  BY <1>2, <1>3, SessionOpen
<1>5. Info(w) = I[s] /\ Rq(w) = h.rq /\ t = task[k] /\ k \in Keys /\ t \in TaskType /\ I \in Seq(InfoType) /\ KeyGood(t, s, I) /\ t # NoTask
  BY <1>2, <1>3, <1>4 DEF Info, Rq, WorksOn
<1>6. PICK n : n = h.block[2]
  OBVIOUS
<1>f. PICK f : f = t.file
  OBVIOUS
<1>7. h.block[1] = Len(t.got) /\ Stands(s, I, Len(t.got), IF n > 0 THEN Len(t.got) + n ELSE Len(t.got)) /\ n \in Int
  BY <1>2, <1>3, <1>6 DEF WorksOn, HandGood, OpenGood, BlockGood, NoInfo, HandlerType
<1>8. I[s].pos = Len(t.got) /\ I[s].offset = IF n > 0 THEN Len(t.got) + n ELSE Len(t.got)
  BY <1>7 DEF Stands
<1>9. GetsBlock(h.rq, I[s], h.block) /\ UNCHANGED <<catalogue, memory, conn>> /\ handler' = [handler EXCEPT ![w] = Idle]
  BY <1>3, <1>5 DEF SendBlock, Ends
<1>10. PICK H : H = [handler EXCEPT ![w] = Idle]
  OBVIOUS
<1>11. handler' = H
  BY <1>9, <1>10
<1>12. CASE h.rq.conn # conn \/ n < 0
  <2>1. UNCHANGED <<catalogue, memory, inbox, task, conn, spent>>
    BY <1>6, <1>9, <1>12 DEF GetsBlock
  <2> QED BY <1>2, <1>9, <2>1, HandlerStep, IdleTyped
<1>13. CASE ~(h.rq.conn # conn \/ n < 0)
  <2>1. PICK U : U = Units(k, I[s], h.block)
    OBVIOUS
  <2>2. U = [i \in 1 .. n |-> Len(t.got) + i] /\ n \in Nat /\ I[s].offset = Len(t.got) + n
    BY <1>4, <1>5, <1>6, <1>7, <1>8, <1>13, <2>1 DEF Units
  <2>3. \/ Writes(k, t.got \o U) /\ inbox' = inbox \cup {Request("content", k, t.file, n, TRUE)} /\ UNCHANGED spent
        \/ n > 0 /\ Spend("refused") /\ inbox' = inbox \cup {Request("content", k, t.file, n, FALSE)} /\ UNCHANGED task
    BY <1>3, <1>5, <1>6, <1>9, <1>13, <2>1 DEF GetsBlock
  <2>4. CASE Writes(k, t.got \o U) /\ inbox' = inbox \cup {Request("content", k, t.file, n, TRUE)} /\ UNCHANGED spent
    <3>1. PICK pc : pc = IF Len(t.got \o U) >= FileSize[t.file] THEN "done" ELSE "waiting"
      OBVIOUS
    <3>2. PICK t2 : t2 = [t EXCEPT !.got = t.got \o U, !.pc = pc]
      OBVIOUS
    <3>a. PICK got : got = t.got \o U
      OBVIOUS
    <3>b. t.got \in Seq(Nat) /\ (\A i \in DOMAIN t.got : t.got[i] = i) /\ U = [i \in 1 .. n |-> Len(t.got) + i] /\ n \in Nat
      BY <1>5, <2>2 DEF TaskType, KeyGood
    <3>3. got \in Seq(Nat) /\ Len(got) = Len(t.got) + n /\ \A i \in DOMAIN got : got[i] = i
      BY <3>a, <3>b, UnitsFollow
    <3>4. pc \in {"waiting", "done"} /\ Len(got) <= FileSize[t.file] /\ I[s].pos = Len(t.got) /\ I[s].offset = Len(t.got) + n
      BY <1>4, <1>8, <2>2, <3>1, <3>3
    <3>c. t2 \in TaskType /\ t2.pc \in {"waiting", "done"} /\ t2.file = t.file /\ t2.got = got
      BY <1>5, <3>2, <3>3, <3>4, <3>a DEF TaskType
    <3>d. k \in Keys /\ t \in TaskType /\ I \in Seq(InfoType) /\ KeyGood(t, s, I) /\ f \in Files /\ t.file = f /\ s # None /\ n \in Nat
      BY <1>4, <1>5, <1>f, <2>2
    <3>e. PICK r : r = Request("content", k, f, n, TRUE)
      OBVIOUS
    <3>f. r \in Requests /\ r.key = k /\ r.op = "content" /\ r.file = f /\ r.n = n /\ r.ok = TRUE
      BY <3>d, <3>e DEF Request, Requests, Items, Typed
    <3>g. Len(t.got) \in Nat /\ t.file # None /\ Len(got) - n = Len(t.got)
      BY <1>4, <3>3, <3>d, DownloadAssumption DEF Items
    <3>h. KeyGood(t2, s, I)
      BY <3>3, <3>4, <3>c, <3>d, <3>g DEF KeyGood
    <3>i. ReqGood(r, t2, s, I)
      BY <3>3, <3>4, <3>c, <3>d, <3>f, <3>g DEF ReqGood, Stands
    <3>5. t2 # NoTask /\ KeyGood(t2, s, I) /\ ReqGood(r, t2, s, I) /\ r \in Requests /\ r.key = k /\ r.op = "content"
      BY <3>c, <3>f, <3>h, <3>i DEF NoTask
    <3>6. PICK new : new = {r}
      OBVIOUS
    <3>7. task' = [task EXCEPT ![k] = t2] \/ (task' = task /\ t2 = t)
      BY <1>5, <2>4, <3>1, <3>2 DEF Writes, Typed
    <3>8. new \in SUBSET Requests /\ \A p, q \in new : p = q
      BY <3>5, <3>6
    <3>9. \A q \in new : q.key = k /\ q.op # "folder" /\ ReqGood(q, t2, s, I)
      BY <3>5, <3>6
    <3>10. inbox' = inbox \cup new
      BY <1>f, <2>4, <3>e, <3>6
    <3>11. spent' \in SpentType /\ UNCHANGED <<catalogue, memory, conn>>
      BY <1>9, <2>4 DEF Typed
    <3>12. t2 \in TaskType /\ t2 # NoTask /\ KeyGood(t2, s, I)
      BY <3>5, <3>c
    <3> QED BY <1>2, <1>10, <1>11, <3>7, <3>8, <3>9, <3>10, <3>11, <3>12, AnswerStep
  <2>5. CASE n > 0 /\ Spend("refused") /\ inbox' = inbox \cup {Request("content", k, t.file, n, FALSE)} /\ UNCHANGED task
    <3>3. k \in Keys /\ f \in Files /\ t.file = f /\ s # None /\ n \in Nat /\ n > 0 /\ I[s].pos = Len(t.got) /\ I[s].offset = Len(t.got) + n
      BY <1>4, <1>5, <1>8, <1>f, <2>2, <2>5
    <3>e. PICK r : r = Request("content", k, f, n, FALSE)
      OBVIOUS
    <3>f. r \in Requests /\ r.key = k /\ r.op = "content" /\ r.file = f /\ r.n = n /\ r.ok = FALSE
      BY <3>3, <3>e DEF Request, Requests, Items, Typed
    <3>5. r \in Requests /\ r.key = k /\ r.op = "content" /\ ReqGood(r, t, s, I)
      BY <3>3, <3>f DEF ReqGood, Stands
    <3>6. PICK new : new = {r}
      OBVIOUS
    <3>1. PICK t2 : t2 = t
      OBVIOUS
    <3>7. task' = [task EXCEPT ![k] = t2] \/ (task' = task /\ t2 = t)
      BY <2>5, <3>1
    <3>8. new \in SUBSET Requests /\ \A p, q \in new : p = q
      BY <3>5, <3>6
    <3>9. \A q \in new : q.key = k /\ q.op # "folder" /\ ReqGood(q, t2, s, I)
      BY <3>1, <3>5, <3>6
    <3>10. inbox' = inbox \cup new
      BY <1>f, <2>5, <3>e, <3>6
    <3>11. spent' \in SpentType /\ UNCHANGED <<catalogue, memory, conn>>
      BY <1>9, <2>5, SpentGoes DEF Kinds
    <3>12. t2 \in TaskType /\ t2 # NoTask /\ KeyGood(t2, s, I)
      BY <1>5, <3>1
    <3> QED BY <1>2, <1>10, <1>11, <3>7, <3>8, <3>9, <3>10, <3>11, <3>12, AnswerStep
  <2> QED BY <2>3, <2>4, <2>5
<1> QED BY <1>12, <1>13
-----------------------------------------------------------------------------
(* The steps of a walk.                                                     *)

\* Two requests have no timestamp in common.
LEMMA Disjoint ==
  ASSUME Apart, NEW j \in DOMAIN Wanted, NEW k \in DOMAIN Wanted, j # k, NEW l \in j .. LastKey(j), NEW m \in k .. LastKey(k)
  PROVE  l # m
  BY Ranges

\* Nobody else works at a timestamp of a walk that nobody has come to, or at the walk's own.
LEMMA WalksAlone ==
  ASSUME Apart, Typed, InOrder, NEW w \in Workers, Walking(w), NEW l \in Keys,
         l = handler[w].rq.key \/ (l \in handler[w].rq.key .. LastKey(handler[w].rq.key) /\ Unused(l)),
         NEW v \in Workers, v # w, Busy(v)
  PROVE  /\ handler[v].rq.key # l
         /\ handler[v].key # l \/ handler[v].pc \in Between
<1>1. Busy(w) /\ handler[w].rq.key # handler[v].rq.key
  BY DEF InOrder, Single, Busy, Walking
<1>2. handler[v].rq.key # l
  BY <1>1 DEF Unused, Busy
<1>3. CASE handler[v].rq.op # "folder"
  BY <1>2, <1>3 DEF InOrder, Handled, HandGood
<1>4. CASE handler[v].rq.op = "folder" /\ handler[v].pc \notin Between
  <2>1. Opening(v) /\ Walking(v) /\ Unused(handler[v].key)
    BY <1>4 DEF InOrder, Untouched, Opening, Walking
  <2>2. CASE l = handler[w].rq.key
    BY <1>1, <2>1, <2>2 DEF Unused, Busy
  <2>3. CASE l \in handler[w].rq.key .. LastKey(handler[w].rq.key)
    <3>1. /\ handler[v].rq.key \in DOMAIN Wanted /\ handler[v].key \in handler[v].rq.key .. LastKey(handler[v].rq.key)
          /\ handler[w].rq.key \in DOMAIN Wanted
      BY <2>1, WalkedKeys
    <3>2. PICK j, k, m : j = handler[w].rq.key /\ k = handler[v].rq.key /\ m = handler[v].key
      OBVIOUS
    <3>3. j \in DOMAIN Wanted /\ k \in DOMAIN Wanted /\ j # k /\ l \in j .. LastKey(j) /\ m \in k .. LastKey(k)
      BY <1>1, <2>3, <3>1, <3>2
    <3>4. l # m
      BY <3>3, Disjoint
    <3> QED BY <1>2, <3>2, <3>4
  <2> QED BY <2>2, <2>3
<1> QED BY <1>2, <1>3, <1>4

\* A step of a walk that moves its handler only.
LEMMA WalkMoves ==
  ASSUME Apart, Typed, Typed', InOrder, NEW w \in Workers, NEW k, Walking(w), k = handler[w].rq.key,
         UNCHANGED <<memory, inbox, task>>,
         \A v \in Workers \ {w} : handler'[v] = handler[v],
         \/ handler'[w] = Idle
         \/ /\ handler'[w].rq = handler[w].rq /\ handler'[w].pc \in Between /\ handler'[w].info = 0
            /\ handler'[w].key \in Keys /\ handler[w].key <= handler'[w].key
            /\ WalkGood(handler'[w], task[k])
  PROVE  InOrder'
<1>1. task' = task /\ sessions' = sessions /\ infos' = infos /\ inbox' = inbox /\ Busy(w) /\ k \in Keys /\ handler[w].rq.op = "folder"
  BY RequestOf DEF memory, Walking
<1>2. /\ Keyed' /\ Asked' /\ Handled' /\ Walks' /\ Single'
      /\ \A l \in Keys : l # k /\ Unused(l) =>
              /\ \A r \in inbox' : r.key # l
              /\ \A v \in Workers : handler'[v].rq # None => handler'[v].rq.key # l
  <2>1. PICK W : W = {w}
    OBVIOUS
  <2>2. KeyGood(task'[k], sessions'[k], infos'[k])
    BY <1>1 DEF InOrder, Keyed
  <2>3. \A l \in Keys : l # k => task'[l] = task[l] /\ sessions'[l] = sessions[l] /\ infos'[l] = infos[l]
    BY <1>1
  <2>4. \A r \in inbox' : IF r.key = k THEN ReqGood(r, task'[k], sessions'[k], infos'[k]) ELSE r \in inbox
    BY <1>1 DEF InOrder, Asked
  <2>5. \A r, q \in inbox' : r.key = k /\ q.key = k => r = q
    BY <1>1 DEF InOrder, Single
  <2>6. \A v \in Workers \ W : /\ handler'[v] = handler[v]
                               /\ Busy(v) => /\ handler[v].rq.key # k
                                             /\ handler[v].key # k \/ handler[v].pc \in Between
    BY <1>1, <2>1, WalksAlone
  <2>7. ASSUME /\ handler'[w].rq = handler[w].rq /\ handler'[w].pc \in Between /\ handler'[w].info = 0
               /\ handler'[w].key \in Keys /\ WalkGood(handler'[w], task[k])
        PROVE  /\ handler'[w].rq # None /\ handler'[w].pc # "idle" /\ handler'[w].key \in Keys
               /\ HandGood(handler'[w], task'[handler'[w].key], sessions'[handler'[w].key], infos'[handler'[w].key])
               /\ handler'[w].rq.op = "folder" => WalkGood(handler'[w], task'[handler'[w].rq.key])
               /\ handler'[w].rq = handler[w].rq \/ handler'[w].rq.key = k
               /\ \A r \in inbox' : r.key # handler'[w].rq.key
    <3>1. handler'[w].rq # None /\ handler'[w].rq.op = "folder" /\ \A r \in inbox' : r.key # handler'[w].rq.key
      BY <1>1, <2>7 DEF Busy, InOrder, Single
    <3>2. HandGood(handler'[w], task'[handler'[w].key], sessions'[handler'[w].key], infos'[handler'[w].key])
      BY <2>7, <3>1 DEF HandGood, OpenGood, BlockGood, NoInfo
    <3> QED BY <1>1, <2>7, <3>1, <3>2
  <2>8. \A u \in W :
          \/ handler'[u] = Idle
          \/ /\ handler'[u].rq # None /\ handler'[u].pc # "idle" /\ handler'[u].key \in Keys
             /\ HandGood(handler'[u], task'[handler'[u].key], sessions'[handler'[u].key], infos'[handler'[u].key])
             /\ handler'[u].rq.op = "folder" => WalkGood(handler'[u], task'[handler'[u].rq.key])
             /\ handler'[u].rq = handler[u].rq \/ handler'[u].rq.key = k
             /\ \A r \in inbox' : r.key # handler'[u].rq.key
    BY <2>1, <2>7
  <2>9. W \in SUBSET Workers /\ \A u, v \in W : u = v
    BY <2>1
  <2> HIDE DEF Between
  <2> QED BY <1>1, <2>2, <2>3, <2>4, <2>5, <2>6, <2>8, <2>9, Touched, ZenonT(60)
<1>3. ASSUME NEW l \in Keys, Fresh(l) PROVE Fresh(l)'
  <2>1. l # k
    BY <1>1, <1>3 DEF Fresh, Unused, Busy
  <2> QED BY <1>1, <1>2, <1>3, <2>1 DEF Fresh, Unused
<1>4. ASSUME NEW j \in DOMAIN Wanted, task'[j] = NoTask, NEW l \in j .. LastKey(j) PROVE Fresh(l)'
  <2>1. Fresh(l) /\ l \in Keys
    BY <1>1, <1>4, Ranges DEF InOrder, Untouched
  <2> QED BY <1>3, <2>1
<1>5. ASSUME NEW r \in inbox', r.op = "folder", NEW l \in r.key + 1 .. LastKey(r.key) PROVE Fresh(l)'
  <2>1. Fresh(l) /\ r.key \in DOMAIN Wanted
    BY <1>1, <1>5 DEF InOrder, Untouched, Asked, ReqGood
  <2>2. l \in Keys
    BY <1>5, <2>1, Ranges
  <2> QED BY <1>3, <2>1, <2>2
<1>6. ASSUME NEW v \in Workers, Walking(v)', NEW l \in handler'[v].key + 1 .. LastKey(handler'[v].rq.key)
      PROVE  Fresh(l)'
  <2>1. handler'[v].rq = handler[v].rq /\ Walking(v) /\ handler[v].key <= handler'[v].key
    <3>1. CASE v = w
      BY <1>6, <3>1 DEF Walking, Busy, Idle
    <3>2. CASE v # w
      BY <1>6, <3>2, WalkedKeys DEF Walking, Busy
    <3> QED BY <3>1, <3>2
  <2>2. handler'[v].key \in Nat /\ handler[v].key \in Nat /\ LastKey(handler[v].rq.key) \in Nat
        /\ handler[v].key + 1 .. LastKey(handler[v].rq.key) \subseteq Keys
    BY <2>1, WalkedKeys DEF Typed, HandlerType
  <2>3. l \in handler[v].key + 1 .. LastKey(handler[v].rq.key)
    BY <1>6, <2>1, <2>2
  <2>4. Fresh(l)
    BY <2>1, <2>3 DEF InOrder, Untouched
  <2> QED BY <1>3, <2>2, <2>3, <2>4
<1>7. ASSUME NEW v \in Workers, Opening(v)' PROVE (Unused(handler[v].key) /\ task[handler[v].key] = NoTask)'
  <2>1. Opening(v) /\ handler'[v] = handler[v] /\ v # w
    BY <1>7 DEF Opening, Walking, Busy, Idle
  <2>2. PICK l : l = handler[v].key
    OBVIOUS
  <2>3. Unused(l) /\ task[l] = NoTask /\ l \in Keys
    BY <2>1, <2>2 DEF InOrder, Untouched, Handled, Opening, Walking
  <2>4. l # k
    BY <1>1, <2>3 DEF Unused, Busy
  <2>5. Unused(l)' /\ task'[l] = NoTask /\ l = handler'[v].key
    BY <1>1, <1>2, <2>1, <2>2, <2>3, <2>4 DEF Unused
  <2> QED BY <2>5 DEF Unused
<1>8. Untouched'
  BY <1>4, <1>5, <1>6, <1>7 DEF Untouched
<1> QED BY <1>2, <1>8 DEF InOrder

\* A step of the walk w of request k at its timestamp l, of a file, with new requests.
Touches(w, k, l, new) ==
  /\ Walking(w) /\ k = handler[w].rq.key
  /\ l \in Nat /\ k < l /\ l <= LastKey(k) /\ handler[w].key <= l /\ Unused(l) /\ task[l] = NoTask
  /\ \A v \in Workers \ {w} : handler'[v] = handler[v]
  /\ \A j \in Keys : j # l => task'[j] = task[j] /\ sessions'[j] = sessions[j] /\ infos'[j] = infos[j]
  /\ KeyGood(task'[l], sessions'[l], infos'[l])
  /\ inbox' = inbox \cup new
  /\ \A r \in new : r.key = l /\ r.op # "folder" /\ ReqGood(r, task'[l], sessions'[l], infos'[l])
  /\ \A r, q \in new : r = q
  /\ handler'[w].rq = handler[w].rq /\ handler'[w].pc # "idle" /\ handler'[w].key = l
  /\ HandGood(handler'[w], task'[l], sessions'[l], infos'[l]) /\ WalkGood(handler'[w], task[k])
  /\ handler'[w].pc \notin Between => new = {} /\ task'[l] = NoTask

LEMMA WalkTouches ==
  ASSUME Apart, Typed, Typed', InOrder, NEW w \in Workers, NEW k, NEW l, NEW new, Touches(w, k, l, new)
  PROVE  InOrder'
<1>0. /\ Walking(w) /\ k = handler[w].rq.key
      /\ l \in Nat /\ k < l /\ l <= LastKey(k) /\ handler[w].key <= l /\ Unused(l) /\ task[l] = NoTask
  BY DEF Touches
<1>a. /\ inbox' = inbox \cup new
      /\ \A r \in new : r.key = l /\ r.op # "folder" /\ ReqGood(r, task'[l], sessions'[l], infos'[l])
      /\ \A r, q \in new : r = q
  BY DEF Touches
<1>b. /\ handler'[w].rq = handler[w].rq /\ handler'[w].pc # "idle" /\ handler'[w].key = l
      /\ HandGood(handler'[w], task'[l], sessions'[l], infos'[l]) /\ WalkGood(handler'[w], task[k])
      /\ handler'[w].pc \notin Between => new = {} /\ task'[l] = NoTask
  BY DEF Touches
<1>c. /\ \A v \in Workers \ {w} : handler'[v] = handler[v]
      /\ \A j \in Keys : j # l => task'[j] = task[j] /\ sessions'[j] = sessions[j] /\ infos'[j] = infos[j]
      /\ KeyGood(task'[l], sessions'[l], infos'[l])
  BY DEF Touches
<1>1. /\ Busy(w) /\ k \in DOMAIN Wanted /\ k \in Keys /\ handler[w].rq.op = "folder" /\ k # l /\ l \in k .. LastKey(k)
      /\ l \in Keys /\ task[k].pc = "folder" /\ k \in Nat /\ LastKey(k) \in Nat
  <2>1. k \in DOMAIN Wanted /\ k \in Nat /\ LastKey(k) \in Nat /\ task[k].pc = "folder"
    BY <1>0, WalkedKeys
  <2>2. l \in k .. LastKey(k) /\ k # l
    BY <1>0, <2>1
  <2> QED BY <1>0, <2>1, <2>2, Ranges DEF Walking
<1>2. \A v \in Workers : v # w /\ Busy(v) => /\ handler[v].rq.key # l
                                             /\ handler[v].key # l \/ handler[v].pc \in Between
  BY <1>0, <1>1, WalksAlone
<1>3. \A r \in inbox : r.key # l /\ r.key # k
  BY <1>0, <1>1 DEF Unused, InOrder, Single, Busy
<1>4. /\ Keyed' /\ Asked' /\ Handled' /\ Walks' /\ Single'
      /\ \A j \in Keys : j # l /\ Unused(j) =>
              /\ \A r \in inbox' : r.key # j
              /\ \A v \in Workers : handler'[v].rq # None => handler'[v].rq.key # j
  <2>1. PICK W : W = {w}
    OBVIOUS
  <2>2. \A r \in inbox' : IF r.key = l THEN ReqGood(r, task'[l], sessions'[l], infos'[l]) ELSE r \in inbox
    BY <1>3, <1>a
  <2>3. \A r, q \in inbox' : r.key = l /\ q.key = l => r = q
    BY <1>3, <1>a
  <2>4. \A v \in Workers \ W : /\ handler'[v] = handler[v]
                               /\ Busy(v) => /\ handler[v].rq.key # l
                                             /\ handler[v].key # l \/ handler[v].pc \in Between
    BY <1>2, <1>c, <2>1
  <2>5. handler'[w].rq # None /\ \A r \in inbox' : r.key # handler'[w].rq.key
    BY <1>0, <1>1, <1>3, <1>a, <1>b DEF Busy
  <2>6. \A u \in W :
          \/ handler'[u] = Idle
          \/ /\ handler'[u].rq # None /\ handler'[u].pc # "idle" /\ handler'[u].key \in Keys
             /\ HandGood(handler'[u], task'[handler'[u].key], sessions'[handler'[u].key], infos'[handler'[u].key])
             /\ handler'[u].rq.op = "folder" => WalkGood(handler'[u], task'[handler'[u].rq.key])
             /\ handler'[u].rq = handler[u].rq \/ handler'[u].rq.key = l
             /\ \A r \in inbox' : r.key # handler'[u].rq.key
    BY <1>0, <1>1, <1>b, <1>c, <2>1, <2>5
  <2>7. W \in SUBSET Workers /\ \A u, v \in W : u = v
    BY <2>1
  <2>8. /\ l \in Keys /\ KeyGood(task'[l], sessions'[l], infos'[l])
        /\ \A j \in Keys : j # l => task'[j] = task[j] /\ sessions'[j] = sessions[j] /\ infos'[j] = infos[j]
    BY <1>1, <1>c
  <2> QED BY <2>2, <2>3, <2>4, <2>6, <2>7, <2>8, Touched
<1>5. ASSUME NEW j \in Keys, Fresh(j), j # l PROVE Fresh(j)'
  BY <1>4, <1>5, <1>c DEF Fresh, Unused
<1>6. ASSUME NEW j \in DOMAIN Wanted, task'[j] = NoTask, NEW m \in j .. LastKey(j) PROVE Fresh(m)'
  <2>1. m \in Keys /\ j \in Keys
    BY Ranges
  <2>2. task[j] = NoTask
    BY <1>0, <1>6, <1>c, <2>1
  <2>3. Fresh(m) /\ j # k
    BY <1>1, <2>2 DEF InOrder, Untouched, NoTask
  <2>4. m # l
    BY <1>1, <2>3, Disjoint
  <2> QED BY <1>5, <2>1, <2>3, <2>4
<1>7. ASSUME NEW r \in inbox', r.op = "folder", NEW m \in r.key + 1 .. LastKey(r.key) PROVE Fresh(m)'
  <2>1. r \in inbox
    BY <1>7, <1>a
  <2>2. Fresh(m) /\ r.key \in DOMAIN Wanted /\ r.key # k
    BY <1>3, <1>7, <2>1 DEF InOrder, Untouched, Asked, ReqGood
  <2>3. m \in r.key .. LastKey(r.key) /\ m \in Keys
    BY <2>2, Ranges
  <2>4. m # l
    BY <1>1, <2>2, <2>3, Disjoint
  <2> QED BY <1>5, <2>2, <2>3, <2>4
<1>8. ASSUME NEW v \in Workers, Walking(v)', NEW m \in handler'[v].key + 1 .. LastKey(handler'[v].rq.key)
      PROVE  Fresh(m)'
  <2>1. CASE v = w
    <3>1. handler[w].key \in Nat /\ handler[w].key + 1 .. LastKey(k) \subseteq Keys
      BY <1>0, WalkedKeys
    <3>2. m \in l + 1 .. LastKey(k) /\ m \in handler[w].key + 1 .. LastKey(k) /\ m # l
      BY <1>0, <1>1, <1>8, <1>b, <2>1, <3>1
    <3>3. Fresh(m) /\ m \in Keys
      BY <1>0, <3>1, <3>2 DEF InOrder, Untouched
    <3> QED BY <1>5, <3>2, <3>3
  <2>2. CASE v # w
    <3>1. handler'[v] = handler[v] /\ Walking(v)
      BY <1>8, <1>c, <2>2 DEF Walking, Busy
    <3>2. handler[v].rq.key # k
      BY <1>0, <1>1, <2>2, <3>1 DEF InOrder, Single, Walking, Busy
    <3>3. Fresh(m) /\ m \in Keys /\ handler[v].rq.key \in DOMAIN Wanted /\ m \in handler[v].rq.key .. LastKey(handler[v].rq.key)
      BY <1>8, <3>1, WalkedKeys DEF InOrder, Untouched
    <3>4. m # l
      BY <1>1, <3>2, <3>3, Disjoint
    <3> QED BY <1>5, <3>3, <3>4
  <2> QED BY <2>1, <2>2
<1>9. ASSUME NEW v \in Workers, Opening(v)' PROVE (Unused(handler[v].key) /\ task[handler[v].key] = NoTask)'
  <2>1. CASE v = w
    <3>1. inbox' = inbox /\ task'[l] = NoTask /\ handler'[v].key = l
      BY <1>9, <1>a, <1>b, <2>1 DEF Opening
    <3>2. \A u \in Workers : handler'[u].rq = handler[u].rq
      BY <1>b, <1>c
    <3>3. Unused(l)'
      BY <1>0, <3>1, <3>2 DEF Unused
    <3>4. (\A r \in inbox' : r.key # handler'[v].key) /\ \A u \in Workers : handler'[u].rq # None => handler'[u].rq.key # handler'[v].key
      BY <3>1, <3>3 DEF Unused
    <3> QED BY <3>1, <3>4 DEF Unused
  <2>2. CASE v # w
    <3>1. Opening(v) /\ handler'[v] = handler[v]
      BY <1>9, <1>c, <2>2 DEF Opening, Walking, Busy
    <3>2. PICK m : m = handler[v].key
      OBVIOUS
    <3>3. Unused(m) /\ task[m] = NoTask /\ m \in Keys
      BY <3>1, <3>2 DEF InOrder, Untouched, Handled, Opening, Walking
    <3>4. m # l
      BY <1>2, <2>2, <3>1, <3>2 DEF Opening, Walking
    <3>5. Unused(m)' /\ task'[m] = NoTask /\ m = handler'[v].key
      BY <1>4, <1>c, <3>1, <3>2, <3>3, <3>4 DEF Unused
    <3> QED BY <3>5 DEF Unused
  <2> QED BY <2>1, <2>2
<1>10. Untouched'
  BY <1>6, <1>7, <1>8, <1>9 DEF Untouched
<1> QED BY <1>4, <1>10 DEF InOrder

\* The handler h of w, on the walk of request k.
WalksFor(w, h, k) ==
  /\ h = handler[w] /\ k = h.rq.key /\ Walking(w) /\ h \in HandlerType /\ WalkGood(h, task[k])
  /\ k \in DOMAIN Wanted /\ k \in Nat /\ h.key \in Nat /\ LastKey(k) \in Nat /\ k .. LastKey(k) \subseteq Keys
  /\ k <= h.key /\ h.key <= LastKey(k) /\ h.rq.op = "folder" /\ h.rq # None /\ k \in Keys

LEMMA OnWalk ==
  ASSUME Apart, Typed, InOrder, NEW w \in Workers, Walking(w)
  PROVE  \E h, k : WalksFor(w, h, k)
<1>1. /\ handler[w].rq.key \in DOMAIN Wanted /\ handler[w].key \in Nat /\ handler[w] \in HandlerType
      /\ handler[w].rq.key <= handler[w].key /\ handler[w].key <= LastKey(handler[w].rq.key)
      /\ WalkGood(handler[w], task[handler[w].rq.key])
  BY WalkedKeys DEF InOrder, Walks, Typed
<1>2. PICK k : k = handler[w].rq.key
  OBVIOUS
<1>3. k \in Nat /\ LastKey(k) \in Nat /\ k .. LastKey(k) \subseteq Keys /\ k \in Keys
  BY <1>1, <1>2, Ranges
<1> QED BY <1>1, <1>2, <1>3 DEF WalksFor, Walking, Busy

\* Who is at a place of the walk is on one.
LEMMA WalkIs ==
  ASSUME InOrder, NEW w \in Workers, handler[w].pc \in Between
  PROVE  Walking(w) /\ handler[w].info = 0
  BY DEF InOrder, Handled, HandGood, Idle, Walking, Busy, NoInfo

LEMMA WalkStep ==
  ASSUME Apart, Typed, InOrder, NEW w \in Workers, NEW h, NEW k, WalksFor(w, h, k), NEW h2 \in HandlerType,
         handler' = [handler EXCEPT ![w] = h2],
         UNCHANGED <<catalogue, memory, inbox, task, conn, spent>>,
         \/ h2 = Idle
         \/ /\ h2.rq = h.rq /\ h2.pc \in Between /\ h2.info = 0 /\ h2.key \in Keys /\ h.key <= h2.key
            /\ WalkGood(h2, task[k])
  PROVE  Typed' /\ InOrder'
<1>1. Typed'
  BY DEF Typed, catalogue, memory
<1>2. /\ Walking(w) /\ k = handler[w].rq.key /\ UNCHANGED <<memory, inbox, task>> /\ h = handler[w]
      /\ \A v \in Workers \ {w} : handler'[v] = handler[v]
      /\ handler'[w] = h2
  BY DEF WalksFor, Typed
<1> QED BY <1>1, <1>2, WalkMoves

LEMMA WalkEndsKeeps ==
  ASSUME Apart, Typed, InOrder, NEW w \in Workers, WalkEnds(w) PROVE Typed' /\ InOrder'
<1>1. PICK h, k : WalksFor(w, h, k)
  BY WalkIs, OnWalk DEF WalkEnds, At
<1>2. PICK h2 : h2 = Idle
  OBVIOUS
<1>3. handler' = [handler EXCEPT ![w] = h2] /\ UNCHANGED <<catalogue, memory, inbox, task, conn, spent>>
  BY <1>2 DEF WalkEnds, Ends
<1> QED BY <1>1, <1>2, <1>3, WalkStep, IdleTyped

\* Nothing, in order.
LEMMA NoneInOrder == <<>> \in SetToSeqs({})
<1>1. Cardinality({}) = 0 /\ 1..0 = {}
  BY FS_EmptySet
<1>2. <<>> \in [1..0 -> {}] /\ \A i, j \in 1..0 : i = j
  BY <1>1
<1> QED BY <1>1, <1>2 DEF SetToSeqs, IsInjective

\* What may come after the first of a walk's rest.
LEMMA RoomLeft ==
  ASSUME Apart, NEW todo \in DOMAIN Room, todo # <<>>
  PROVE  /\ todo \in Seq(Items) /\ Room[todo] \in Nat
         /\ Head(todo) \in Files => /\ Tail(todo) \in DOMAIN Room /\ Room[Tail(todo)] < Room[todo]
                                    /\ Tail(todo) \in Seq(Items) /\ Room[Tail(todo)] \in Nat
         /\ Head(todo) \in Folders => Room[todo] \in Nat \ {0}
         /\ Head(todo) \in Folders =>
              \A rows \in Rows(Head(todo)) :
                /\ rows \o Tail(todo) \in DOMAIN Room /\ Room[rows \o Tail(todo)] < Room[todo]
                /\ rows \o Tail(todo) \in Seq(Items) /\ Room[rows \o Tail(todo)] \in Nat
<1>1. \A x \in DOMAIN Room : x \in Seq(Items) /\ Room[x] \in Nat
  BY DEF Apart, WalksFit
<1>2. IF Head(todo) \in Files THEN Tail(todo) \in DOMAIN Room /\ Room[Tail(todo)] < Room[todo]
      ELSE \A S \in SUBSET Children[Head(todo)] : \A rows \in SetToSeqs(S) :
             rows \o Tail(todo) \in DOMAIN Room /\ Room[rows \o Tail(todo)] < Room[todo]
  BY DEF Apart, WalksFit
<1>3. Head(todo) \in Folders => Head(todo) \notin Files
  BY DownloadAssumption
<1>4. ASSUME Head(todo) \in Folders, NEW rows \in Rows(Head(todo))
      PROVE  rows \o Tail(todo) \in DOMAIN Room /\ Room[rows \o Tail(todo)] < Room[todo]
  BY <1>2, <1>3, <1>4 DEF Rows
<1>5. ASSUME Head(todo) \in Folders PROVE Room[todo] \in Nat \ {0}
  <2>1. PICK S \in SUBSET Children[Head(todo)] : S = {}
    OBVIOUS
  <2>2. PICK rows : rows \in SetToSeqs(S)
    BY <2>1, NoneInOrder
  <2>3. rows \o Tail(todo) \in DOMAIN Room /\ Room[rows \o Tail(todo)] < Room[todo]
    BY <1>2, <1>3, <1>5, <2>2
  <2> QED BY <1>1, <2>3
<1> QED BY <1>1, <1>2, <1>4, <1>5

LEMMA StepOn ==
  ASSUME NEW a \in Nat, NEW m \in Nat, NEW M \in Nat, NEW L \in Nat, NEW k \in Nat, m < M, a + M <= L, k <= a
  PROVE  /\ a + 1 + m <= L /\ a + m <= L /\ a + 1 \in Nat /\ k < a + 1 /\ k <= a + 1 /\ a + 1 <= L /\ a <= a + 1
         /\ a + 1 \in k .. L /\ a + 1 \in a + 1 .. L
  OBVIOUS

\* The handler h of w, between two files of its walk.
LEMMA BetweenFiles ==
  ASSUME Apart, Typed, InOrder, NEW w \in Workers, handler[w].pc \in Between
  PROVE  \E h, k : /\ WalksFor(w, h, k) /\ h = handler[w] /\ h.info = 0 /\ k = h.rq.key /\ WalkGood(h, task[k])
                   /\ h \in HandlerType /\ h.key \in Nat /\ LastKey(k) \in Nat /\ k \in Nat /\ k <= h.key
                   /\ h.key <= LastKey(k) /\ k .. LastKey(k) \subseteq Keys /\ h.key \in Keys
<1>1. PICK h, k : WalksFor(w, h, k) /\ h = handler[w] /\ h.info = 0
  BY WalkIs, OnWalk DEF WalksFor
<1>2. /\ k = h.rq.key /\ WalkGood(h, task[k]) /\ h \in HandlerType /\ h.key \in Nat /\ LastKey(k) \in Nat /\ k \in Nat
      /\ k <= h.key /\ h.key <= LastKey(k) /\ k .. LastKey(k) \subseteq Keys
  BY <1>1 DEF WalksFor
<1>3. h.key \in k .. LastKey(k)
  BY <1>2
<1> QED BY <1>1, <1>2, <1>3

LEMMA SelectFolderKeeps ==
  ASSUME Apart, Typed, InOrder, NEW w \in Workers, SelectFolder(w) PROVE Typed' /\ InOrder'
<1>1. handler[w].pc = "folder"
  BY DEF SelectFolder, At
<1>2. PICK h, k : /\ WalksFor(w, h, k) /\ h = handler[w] /\ h.info = 0 /\ k = h.rq.key /\ WalkGood(h, task[k])
                  /\ h \in HandlerType /\ h.key \in Nat /\ h.key \in Keys
  BY <1>1, BetweenFiles
<1>3. PICK h2 : h2 = [h EXCEPT !.pc = "walk"]
  OBVIOUS
<1>4. /\ h2 \in HandlerType /\ h2.pc = "walk" /\ h2.rq = h.rq /\ h2.info = 0 /\ h2.key = h.key /\ h2.todo = h.todo
  BY <1>2, <1>3, GoneOn, PcsAre
<1>5. WalkGood(h2, task[k])
  BY <1>1, <1>2, <1>4 DEF WalkGood
<1>6. PICK h3 \in HandlerType : h3 = Idle \/ h3 = h2
  BY <1>4
<1>7. UNCHANGED <<catalogue, memory, inbox, task, conn, spent>>
  BY DEF SelectFolder
<1>8. CASE handler' = [handler EXCEPT ![w] = h2]
  <2>1. h2.key \in Keys /\ h.key <= h2.key /\ h2.pc \in Between
    BY <1>2, <1>4
  <2> QED BY <1>2, <1>4, <1>5, <1>7, <1>8, <2>1, WalkStep
<1>9. CASE handler' = [handler EXCEPT ![w] = Idle]
  BY <1>2, <1>7, <1>9, WalkStep, IdleTyped
<1> QED BY <1>2, <1>3, <1>8, <1>9 DEF SelectFolder, Goes, Ends

LEMMA SendFolderKeeps ==
  ASSUME Apart, Typed, InOrder, NEW w \in Workers, SendFolder(w) PROVE Typed' /\ InOrder'
<1>1. handler[w].pc = "walk"
  BY DEF SendFolder, At
<1>2. PICK h, k : /\ WalksFor(w, h, k) /\ h = handler[w] /\ h.info = 0 /\ k = h.rq.key /\ WalkGood(h, task[k])
                  /\ h \in HandlerType /\ h.key \in Nat /\ LastKey(k) \in Nat /\ k \in Nat /\ k <= h.key
                  /\ k .. LastKey(k) \subseteq Keys
  BY <1>1, BetweenFiles
<1>3. /\ h.pc = "walk" /\ h.todo # <<>> /\ Head(h.todo) \in Folders
      /\ h.todo \in DOMAIN Room /\ h.key + Room[h.todo] <= LastKey(k)
      /\ UNCHANGED <<catalogue, memory, inbox, task, conn, spent>>
  BY <1>1, <1>2 DEF WalkGood, SendFolder
<1>4. Room[h.todo] \in Nat \ {0}
  BY <1>3, RoomLeft
<1>5. /\ h.key + 1 <= LastKey(k) /\ h.key + 1 + Room[h.todo] <= LastKey(k) + 1 /\ h.key + 1 \in Nat
      /\ h.key + 1 \in k .. LastKey(k) /\ k <= h.key + 1 /\ h.key <= h.key + 1
  <2>1. PICK a, m, L : a = h.key /\ m = Room[h.todo] /\ L = LastKey(k)
    OBVIOUS
  <2>2. a \in Nat /\ m \in Nat \ {0} /\ L \in Nat /\ k \in Nat /\ a + m <= L /\ k <= a
    BY <1>2, <1>3, <1>4, <2>1
  <2>3. a + 1 <= L /\ a + 1 + m <= L + 1 /\ a + 1 \in Nat /\ a + 1 \in k .. L /\ k <= a + 1 /\ a <= a + 1
    BY <2>2
  <2> QED BY <2>1, <2>3
<1>6. PICK h2 : h2 = [h EXCEPT !.key = h.key + 1, !.pc = "children"]
  OBVIOUS
<1>7. /\ h2 \in HandlerType /\ h2.pc = "children" /\ h2.rq = h.rq /\ h2.info = 0 /\ h2.key = h.key + 1 /\ h2.todo = h.todo
  BY <1>2, <1>5, <1>6, PcsAre DEF HandlerType
<1>8. handler' = [handler EXCEPT ![w] = h2]
  BY <1>2, <1>6 DEF SendFolder
<1>9. WalkGood(h2, task[k])
  <2>1. k \in DOMAIN Wanted /\ Wanted[k] \in Folders /\ task[k].pc = "folder"
    BY <1>2 DEF WalkGood
  <2> QED BY <1>2, <1>3, <1>5, <1>7, <2>1 DEF WalkGood
<1>10. h2.key \in Keys /\ h.key <= h2.key /\ h2.pc \in Between
  BY <1>2, <1>5, <1>7
<1> QED BY <1>2, <1>3, <1>7, <1>8, <1>9, <1>10, WalkStep

LEMMA SelectChildrenKeeps ==
  ASSUME Apart, Typed, InOrder, NEW w \in Workers, SelectChildren(w) PROVE Typed' /\ InOrder'
<1>1. handler[w].pc = "children"
  BY DEF SelectChildren, At
<1>2. PICK h, k : /\ WalksFor(w, h, k) /\ h = handler[w] /\ h.info = 0 /\ k = h.rq.key /\ WalkGood(h, task[k])
                  /\ h \in HandlerType /\ h.key \in Nat /\ LastKey(k) \in Nat /\ k \in Nat /\ k <= h.key /\ h.key \in Keys
  BY <1>1, BetweenFiles
<1>3. /\ h.pc = "children" /\ h.todo # <<>> /\ Head(h.todo) \in Folders
      /\ h.todo \in DOMAIN Room /\ h.key + Room[h.todo] <= LastKey(k) + 1
      /\ UNCHANGED <<catalogue, memory, inbox, task, conn, spent>>
  BY <1>1, <1>2 DEF WalkGood, SelectChildren
<1>4. PICK rows \in Rows(Head(h.todo)) : handler' = [handler EXCEPT ![w].pc = "walk", ![w].todo = rows \o Tail(@)]
  BY <1>2 DEF SelectChildren
<1>5. PICK todo : todo = rows \o Tail(h.todo)
  OBVIOUS
<1>6. todo \in DOMAIN Room /\ todo \in Seq(Items) /\ Room[todo] \in Nat /\ Room[todo] < Room[h.todo] /\ Room[h.todo] \in Nat
  BY <1>3, <1>5, RoomLeft
<1>7. PICK h2 : h2 = [h EXCEPT !.pc = "walk", !.todo = todo]
  OBVIOUS
<1>8. /\ h2 \in HandlerType /\ h2.pc = "walk" /\ h2.rq = h.rq /\ h2.info = 0 /\ h2.key = h.key /\ h2.todo = todo
  BY <1>2, <1>6, <1>7, PcsAre DEF HandlerType
<1>9. handler' = [handler EXCEPT ![w] = h2]
  BY <1>2, <1>4, <1>5, <1>7
<1>10. h.key + Room[todo] <= LastKey(k)
  <2>1. PICK a, m, M, L : a = h.key /\ m = Room[todo] /\ M = Room[h.todo] /\ L = LastKey(k)
    OBVIOUS
  <2>2. a \in Nat /\ m \in Nat /\ M \in Nat /\ L \in Nat /\ m < M /\ a + M <= L + 1
    BY <1>2, <1>3, <1>6, <2>1
  <2>3. a + m <= L
    BY <2>2
  <2> QED BY <2>1, <2>3
<1>11. WalkGood(h2, task[k])
  <2>1. k \in DOMAIN Wanted /\ Wanted[k] \in Folders /\ task[k].pc = "folder"
    BY <1>2 DEF WalkGood
  <2> QED BY <1>2, <1>6, <1>8, <1>10, <2>1 DEF WalkGood
<1>12. h2.key \in Keys /\ h.key <= h2.key /\ h2.pc \in Between
  BY <1>2, <1>8
<1> QED BY <1>2, <1>3, <1>8, <1>9, <1>11, <1>12, WalkStep

\* The first file of a walk's rest gets the next timestamp.
LEMMA NextOfWalk ==
  ASSUME Apart, Typed, InOrder, NEW w \in Workers, NEW h, NEW k, WalksFor(w, h, k), h.pc = "walk", h.todo # <<>>, Head(h.todo) \in Files
  PROVE  /\ Tail(h.todo) \in DOMAIN Room /\ Tail(h.todo) \in Seq(Items) /\ Room[Tail(h.todo)] \in Nat
         /\ h.key + 1 + Room[Tail(h.todo)] <= LastKey(k) /\ h.key + Room[Tail(h.todo)] <= LastKey(k)
         /\ h.key + 1 \in Nat /\ k < h.key + 1 /\ h.key + 1 <= LastKey(k) /\ h.key <= h.key + 1 /\ h.key + 1 \in Keys
         /\ Fresh(h.key + 1)
<1>1. /\ h.todo \in DOMAIN Room /\ h.key + Room[h.todo] <= LastKey(k)
      /\ h.key \in Nat /\ LastKey(k) \in Nat /\ k \in Nat /\ k <= h.key /\ k .. LastKey(k) \subseteq Keys
      /\ h = handler[w] /\ k = h.rq.key /\ Walking(w)
  BY DEF WalksFor, WalkGood
<1>2. /\ Tail(h.todo) \in DOMAIN Room /\ Tail(h.todo) \in Seq(Items) /\ Room[Tail(h.todo)] \in Nat
      /\ Room[Tail(h.todo)] < Room[h.todo] /\ Room[h.todo] \in Nat
  BY <1>1, RoomLeft
<1>3. /\ h.key + 1 + Room[Tail(h.todo)] <= LastKey(k) /\ h.key + Room[Tail(h.todo)] <= LastKey(k)
      /\ h.key + 1 \in Nat /\ k < h.key + 1 /\ h.key + 1 <= LastKey(k) /\ h.key <= h.key + 1
      /\ h.key + 1 \in k .. LastKey(k) /\ h.key + 1 \in h.key + 1 .. LastKey(k)
  <2>1. PICK a, m, M, L : a = h.key /\ m = Room[Tail(h.todo)] /\ M = Room[h.todo] /\ L = LastKey(k)
    OBVIOUS
  <2>2. a \in Nat /\ m \in Nat /\ M \in Nat /\ L \in Nat /\ k \in Nat /\ m < M /\ a + M <= L /\ k <= a
    BY <1>1, <1>2, <2>1
  <2>3. /\ a + 1 + m <= L /\ a + m <= L /\ a + 1 \in Nat /\ k < a + 1 /\ k <= a + 1 /\ a + 1 <= L /\ a <= a + 1
        /\ a + 1 \in k .. L /\ a + 1 \in a + 1 .. L
    BY <2>2, StepOn
  <2> QED BY <2>1, <2>3
<1>4. Fresh(h.key + 1)
  BY <1>1, <1>3 DEF InOrder, Untouched
<1> QED BY <1>1, <1>2, <1>3, <1>4

\* A step of the walk h of w at the file with timestamp l: what there is of l is t, s and I afterwards.
TouchesAt(w, h, k, l, h2, t, s, I, new) ==
  /\ WalksFor(w, h, k) /\ l \in Nat /\ k < l /\ l <= LastKey(k) /\ h.key <= l /\ Unused(l) /\ task[l] = NoTask
  /\ h2 \in HandlerType /\ t \in TaskType /\ s \in Nat \cup {None} /\ I \in Seq(InfoType) /\ new \in SUBSET Requests
  /\ handler' = [handler EXCEPT ![w] = h2]
  /\ task' = [task EXCEPT ![l] = t] /\ sessions' = [sessions EXCEPT ![l] = s] /\ infos' = [infos EXCEPT ![l] = I]
  /\ inbox' = inbox \cup new /\ UNCHANGED <<catalogue, conn, spent>>
  /\ KeyGood(t, s, I)
  /\ \A r \in new : r.key = l /\ r.op # "folder" /\ ReqGood(r, t, s, I)
  /\ \A r, q \in new : r = q
  /\ h2.rq = h.rq /\ h2.pc # "idle" /\ h2.key = l /\ HandGood(h2, t, s, I) /\ WalkGood(h2, task[k])
  /\ h2.pc \notin Between => new = {} /\ t = NoTask

LEMMA TouchStep ==
  ASSUME Apart, Typed, InOrder, NEW w \in Workers, NEW h, NEW k, NEW l, NEW h2, NEW t, NEW s, NEW I, NEW new,
         TouchesAt(w, h, k, l, h2, t, s, I, new)
  PROVE  Typed' /\ InOrder'
<1>1. /\ WalksFor(w, h, k) /\ l \in Nat /\ k < l /\ l <= LastKey(k) /\ h.key <= l /\ Unused(l) /\ task[l] = NoTask
      /\ h2 \in HandlerType /\ t \in TaskType /\ s \in Nat \cup {None} /\ I \in Seq(InfoType) /\ new \in SUBSET Requests
  BY DEF TouchesAt
<1>2. /\ handler' = [handler EXCEPT ![w] = h2]
      /\ task' = [task EXCEPT ![l] = t] /\ sessions' = [sessions EXCEPT ![l] = s] /\ infos' = [infos EXCEPT ![l] = I]
      /\ inbox' = inbox \cup new /\ UNCHANGED <<catalogue, conn, spent>>
  BY DEF TouchesAt
<1>3. /\ KeyGood(t, s, I) /\ \A r \in new : r.key = l /\ r.op # "folder" /\ ReqGood(r, t, s, I)
      /\ \A r, q \in new : r = q
  BY DEF TouchesAt
<1>4. /\ h2.rq = h.rq /\ h2.pc # "idle" /\ h2.key = l /\ HandGood(h2, t, s, I) /\ WalkGood(h2, task[k])
      /\ h2.pc \notin Between => new = {} /\ t = NoTask
  BY DEF TouchesAt
<1>5. h = handler[w] /\ k = h.rq.key /\ Walking(w) /\ k \in Nat /\ LastKey(k) \in Nat /\ k .. LastKey(k) \subseteq Keys
  BY <1>1 DEF WalksFor
<1>6. l \in Keys
  BY <1>1, <1>5
<1>7. Typed'
  BY <1>1, <1>2, <1>6 DEF Typed, catalogue
<1>8. /\ handler'[w] = h2 /\ \A v \in Workers \ {w} : handler'[v] = handler[v]
      /\ task'[l] = t /\ sessions'[l] = s /\ infos'[l] = I
      /\ \A j \in Keys : j # l => task'[j] = task[j] /\ sessions'[j] = sessions[j] /\ infos'[j] = infos[j]
  BY <1>2, <1>6 DEF Typed
<1>9. Touches(w, k, l, new)
  <2>1. /\ Walking(w) /\ k = handler[w].rq.key
        /\ l \in Nat /\ k < l /\ l <= LastKey(k) /\ handler[w].key <= l /\ Unused(l) /\ task[l] = NoTask
    BY <1>1, <1>5
  <2>2. /\ inbox' = inbox \cup new
        /\ \A r \in new : r.key = l /\ r.op # "folder" /\ ReqGood(r, task'[l], sessions'[l], infos'[l])
        /\ \A r, q \in new : r = q
    BY <1>2, <1>3, <1>8
  <2>3. /\ handler'[w].rq = handler[w].rq /\ handler'[w].pc # "idle" /\ handler'[w].key = l
        /\ HandGood(handler'[w], task'[l], sessions'[l], infos'[l]) /\ WalkGood(handler'[w], task[k])
        /\ handler'[w].pc \notin Between => new = {} /\ task'[l] = NoTask
    BY <1>4, <1>5, <1>8
  <2>4. KeyGood(task'[l], sessions'[l], infos'[l])
    BY <1>3, <1>8
  <2> QED BY <1>8, <2>1, <2>2, <2>3, <2>4 DEF Touches
<1> QED BY <1>5, <1>7, <1>9, WalkTouches

LEMMA OpenOfWalkKeeps ==
  ASSUME Apart, Typed, InOrder, NEW w \in Workers, OpenOfWalk(w) PROVE Typed' /\ InOrder'
<1>0. handler[w].pc = "walk" /\ Walking(w) /\ handler[w].info = 0
  BY WalkIs DEF OpenOfWalk, At
<1>1. PICK h, k : WalksFor(w, h, k)
  BY <1>0, OnWalk
<1>2. PICK f : f = Head(h.todo)
  OBVIOUS
<1>3. /\ h = handler[w] /\ h.pc = "walk" /\ h.info = 0 /\ h.todo # <<>> /\ f \in Files /\ Head(h.todo) \in Files
      /\ UNCHANGED <<catalogue, sessions, inbox, task, conn, spent>>
  BY <1>0, <1>1, <1>2 DEF WalksFor, OpenOfWalk
<1>4. PICK l : l = h.key + 1
  OBVIOUS
<1>5. /\ Tail(h.todo) \in DOMAIN Room /\ Tail(h.todo) \in Seq(Items) /\ Room[Tail(h.todo)] \in Nat
      /\ l + Room[Tail(h.todo)] <= LastKey(k) /\ h.key + Room[Tail(h.todo)] <= LastKey(k)
      /\ l \in Nat /\ k < l /\ l <= LastKey(k) /\ h.key <= l /\ l \in Keys /\ Fresh(l)
  BY <1>1, <1>3, <1>4, NextOfWalk
<1>6. WalkGood(h, task[k]) /\ k = h.rq.key /\ k <= h.key /\ h.rq.op = "folder" /\ h \in HandlerType /\ h.key \in Nat /\ h.key \in Keys /\ k \in Nat
  BY <1>1, WalkedKeys DEF WalksFor
<1>7. CASE f \notin there
  <2>1. PICK h2 : h2 = [h EXCEPT !.todo = Tail(h.todo)]
    OBVIOUS
  <2>2. /\ h2 \in HandlerType /\ h2.pc = "walk" /\ h2.rq = h.rq /\ h2.info = 0 /\ h2.key = h.key /\ h2.todo = Tail(h.todo)
    BY <1>3, <1>5, <1>6, <2>1 DEF HandlerType
  <2>3. WalkGood(h2, task[k])
    BY <1>5, <1>6, <2>2 DEF WalkGood
  <2>4. handler' = [handler EXCEPT ![w] = h2] /\ UNCHANGED <<catalogue, memory, inbox, task, conn, spent>>
    BY <1>2, <1>3, <1>7, <2>1 DEF OpenOfWalk, memory
  <2>5. h2.key \in Keys /\ h.key <= h2.key
    BY <1>6, <2>2
  <2> QED BY <1>1, <2>2, <2>3, <2>4, <2>5, WalkStep
<1>8. CASE f \in there
  <2>1. PICK e \in InfoType : e = NewInfo(f) /\ e.file = f /\ e.pos = 0 /\ e.offset = 0 /\ ~e.freed
    BY <1>3, NewInfoTyped
  <2>2. Unused(l) /\ task[l] = NoTask /\ sessions[l] = None /\ infos[l] = <<>>
    BY <1>5 DEF Fresh
  <2>3. PICK I, J, t, s : I = <<>> /\ J = Append(I, e) /\ t = NoTask /\ s = None
    OBVIOUS
  <2>4. I \in Seq(InfoType) /\ Len(I) = 0 /\ DOMAIN I = {}
    BY <2>3
  <2>5. J \in Seq(InfoType) /\ Len(J) = 1 /\ J[1] = e /\ DOMAIN J = {1}
    <3>1. Len(I) + 1 = 1 /\ {} \cup {1} = {1}
      BY <2>4
    <3> QED BY <2>3, <2>4, <3>1, OneMore
  <2>6. KeyGood(t, s, J) /\ t \in TaskType /\ s \in Nat \cup {None} /\ t.file = None
    <3>1. KeyGood(t, s, I) /\ t.file = None
      BY <1>5, <2>2, <2>3 DEF InOrder, Keyed, NoTask
    <3> QED BY <2>1, <2>3, <2>4, <3>1, InfoMade, IdleTyped
  <2>7. PICK h2 : h2 = [h EXCEPT !.pc = "map", !.info = 1, !.key = l]
    OBVIOUS
  <2>8. h2 \in HandlerType /\ h2.pc = "map" /\ h2.rq = h.rq /\ h2.info = 1 /\ h2.key = l /\ h2.todo = h.todo
    BY <1>5, <1>6, <2>7, PcsAre DEF HandlerType
  <2>9. HandGood(h2, t, s, J)
    BY <1>6, <2>1, <2>3, <2>5, <2>6, <2>8 DEF HandGood, OpenGood, BlockGood, NoInfo
  <2>10. WalkGood(h2, task[k])
    <3>1. k \in DOMAIN Wanted /\ Wanted[k] \in Folders /\ task[k].pc = "folder"
      BY <1>6 DEF WalkGood
    <3>2. h2.rq.key = k /\ h2.pc = "map" /\ h2.key = l /\ h2.todo = h.todo
      BY <1>6, <2>8
    <3>3. l > k /\ k <= l /\ Tail(h.todo) \in DOMAIN Room /\ l + Room[Tail(h.todo)] <= LastKey(k) /\ h.todo # <<>>
      BY <1>3, <1>5, <1>6
    <3> QED BY <3>1, <3>2, <3>3 DEF WalkGood
  <2>11. infos' = [infos EXCEPT ![l] = J] /\ infos'[l] = J
    BY <1>2, <1>3, <1>4, <1>5, <1>8, <2>1, <2>2, <2>3 DEF OpenOfWalk, New, Typed
  <2>12. handler' = [handler EXCEPT ![w] = h2]
    <3>1. handler' = [handler EXCEPT ![w].pc = "map", ![w].info = Len(infos'[l]), ![w].key = l]
      BY <1>2, <1>3, <1>4, <1>8 DEF OpenOfWalk
    <3>2. Len(infos'[l]) = 1
      BY <2>5, <2>11
    <3> QED BY <1>3, <2>7, <3>1, <3>2
  <2>13. task' = [task EXCEPT ![l] = t] /\ sessions' = [sessions EXCEPT ![l] = s] /\ UNCHANGED <<catalogue, conn, spent>>
    BY <1>3, <1>5, <2>2, <2>3 DEF Typed
  <2>14. PICK new : new = {}
    OBVIOUS
  <2>15. inbox' = inbox \cup new /\ new \in SUBSET Requests
    BY <1>3, <2>14
  <2>16. /\ \A r \in new : r.key = l /\ r.op # "folder" /\ ReqGood(r, t, s, J)
         /\ \A r, q \in new : r = q
    BY <2>14
  <2>17. /\ h2.rq = h.rq /\ h2.pc # "idle" /\ h2.key = l
         /\ h2.pc \notin Between => new = {} /\ t = NoTask
    BY <2>3, <2>8, <2>14
  <2>18. TouchesAt(w, h, k, l, h2, t, s, J, new)
    BY <1>1, <1>5, <2>2, <2>5, <2>6, <2>8, <2>9, <2>10, <2>11, <2>12, <2>13, <2>15, <2>16, <2>17 DEF TouchesAt
  <2> QED BY <2>18, TouchStep
<1> QED BY <1>7, <1>8

\* The handler w of a walk has a file open, at timestamp l.
LEMMA OpenOnWalk ==
  ASSUME Apart, Typed, InOrder, NEW w \in Workers, NEW h, NEW k, WalksFor(w, h, k), h.pc \in {"map", "sendheader"},
         NEW l, l = h.key
  PROVE  /\ l \in Nat /\ l \in Keys /\ k < l /\ l <= LastKey(k) /\ h.key <= l /\ Unused(l) /\ task[l] = NoTask
         /\ h.info \in DOMAIN infos[l] /\ infos[l] \in Seq(InfoType) /\ h.info \in Nat /\ infos[l][h.info] \in InfoType
         /\ infos[l][h.info].pos = 0 /\ infos[l][h.info].offset = 0 /\ ~infos[l][h.info].freed
         /\ \A i \in DOMAIN infos[l] : infos[l][i].file = infos[l][h.info].file
         /\ (h.pc # "map" => sessions[l] = h.info)
         /\ KeyGood(NoTask, sessions[l], infos[l]) /\ HandGood(h, NoTask, sessions[l], infos[l])
<1>1. h = handler[w] /\ k = h.rq.key /\ Walking(w) /\ h \in HandlerType /\ l \in Nat /\ LastKey(k) \in Nat /\ k \in Nat /\ l <= LastKey(k)
  BY DEF WalksFor
<1>2. h.rq.key < h.key /\ h.key \in Keys
  BY <1>1, WalkedKeys DEF InOrder, Handled, Walking
<1>3. Unused(l) /\ task[l] = NoTask
  BY <1>1 DEF InOrder, Untouched, Opening
<1>4. HandGood(h, NoTask, sessions[l], infos[l]) /\ KeyGood(NoTask, sessions[l], infos[l])
  BY <1>1, <1>2, <1>3 DEF InOrder, Handled, Keyed, Walking
<1>5. infos[l] \in Seq(InfoType) /\ h.info \in Nat
  BY <1>1, <1>2 DEF Typed, HandlerType
<1>6. /\ h.info \in DOMAIN infos[l]
      /\ infos[l][h.info].pos = 0 /\ infos[l][h.info].offset = 0 /\ ~infos[l][h.info].freed
      /\ \A i \in DOMAIN infos[l] : infos[l][i].file = infos[l][h.info].file
      /\ (h.pc # "map" => sessions[l] = h.info)
  BY <1>4 DEF HandGood, OpenGood
<1>7. infos[l][h.info] \in InfoType
  BY <1>5, <1>6, ElementOfSeq, LenProperties
<1> QED BY <1>1, <1>2, <1>3, <1>4, <1>5, <1>6, <1>7

LEMMA MapInsertOfWalk ==
  ASSUME Apart, Typed, InOrder, NEW w \in Workers, MapInsert(w), Walking(w) PROVE Typed' /\ InOrder'
<1>1. PICK h, k : WalksFor(w, h, k)
  BY OnWalk
<1>2. /\ h = handler[w] /\ h.pc = "map" /\ h \in HandlerType /\ WalkGood(h, task[k]) /\ h.rq.op = "folder" /\ k = h.rq.key
      /\ UNCHANGED <<catalogue, infos, inbox, task, conn, spent>>
  BY <1>1 DEF WalksFor, MapInsert, At
<1>3. PICK l : l = h.key
  OBVIOUS
<1>4. h.pc \in {"map", "sendheader"}
  BY <1>2
<1>5. /\ l \in Nat /\ l \in Keys /\ k < l /\ l <= LastKey(k) /\ h.key <= l /\ Unused(l) /\ task[l] = NoTask
      /\ h.info \in DOMAIN infos[l] /\ infos[l] \in Seq(InfoType) /\ h.info \in Nat
      /\ infos[l][h.info].pos = 0 /\ infos[l][h.info].offset = 0 /\ ~infos[l][h.info].freed
      /\ \A i \in DOMAIN infos[l] : infos[l][i].file = infos[l][h.info].file
      /\ KeyGood(NoTask, sessions[l], infos[l])
  BY <1>1, <1>3, <1>4, OpenOnWalk, ZenonT(60)
<1>6. PICK t, s, I, new : t = NoTask /\ s = h.info /\ I = infos[l] /\ new = {}
  OBVIOUS
<1>7. KeyGood(t, s, I) /\ t.file = None
  BY <1>5, <1>6 DEF KeyGood, NoTask
<1>8. PICK h2 : h2 = [h EXCEPT !.pc = "sendheader"]
  OBVIOUS
<1>9. h2 \in HandlerType /\ h2.pc = "sendheader" /\ h2.rq = h.rq /\ h2.info = h.info /\ h2.key = l /\ h2.todo = h.todo
  BY <1>2, <1>3, <1>8, GoneOn, PcsAre
<1>10. HandGood(h2, t, s, I)
  BY <1>2, <1>5, <1>6, <1>7, <1>9 DEF HandGood, OpenGood, BlockGood, NoInfo
<1>11. WalkGood(h2, task[k])
  BY <1>2, <1>3, <1>9 DEF WalkGood
<1>12. /\ handler' = [handler EXCEPT ![w] = h2] /\ sessions' = [sessions EXCEPT ![l] = s]
       /\ task' = [task EXCEPT ![l] = t] /\ infos' = [infos EXCEPT ![l] = I] /\ inbox' = inbox \cup new
       /\ UNCHANGED <<catalogue, conn, spent>>
  BY <1>2, <1>3, <1>5, <1>6, <1>8 DEF MapInsert, Goes, Typed
<1>13. /\ t \in TaskType /\ s \in Nat \cup {None} /\ I \in Seq(InfoType) /\ new \in SUBSET Requests
  BY <1>5, <1>6, IdleTyped
<1>14. /\ \A r \in new : r.key = l /\ r.op # "folder" /\ ReqGood(r, t, s, I)
       /\ \A r, q \in new : r = q
  BY <1>6
<1>15. h2.rq = h.rq /\ h2.pc # "idle" /\ h2.key = l /\ (h2.pc \notin Between => new = {} /\ t = NoTask)
  BY <1>6, <1>9
<1>16. TouchesAt(w, h, k, l, h2, t, s, I, new)
  BY <1>1, <1>5, <1>7, <1>9, <1>10, <1>11, <1>12, <1>13, <1>14, <1>15 DEF TouchesAt
<1> QED BY <1>16, TouchStep

LEMMA SendHeaderOfWalk ==
  ASSUME Apart, Typed, InOrder, NEW w \in Workers, SendHeader(w), Walking(w) PROVE Typed' /\ InOrder'
<1>1. PICK h, k : WalksFor(w, h, k)
  BY OnWalk
<1>2. /\ h = handler[w] /\ h.pc = "sendheader" /\ h \in HandlerType /\ WalkGood(h, task[k]) /\ h.rq.op = "folder" /\ k = h.rq.key
      /\ UNCHANGED <<catalogue, memory, conn, spent>> /\ k \in Nat /\ k .. LastKey(k) \subseteq Keys
  BY <1>1 DEF WalksFor, SendHeader, At
<1>3. PICK l : l = h.key
  OBVIOUS
<1>4. h.pc \in {"map", "sendheader"}
  BY <1>2
<1>5. /\ l \in Nat /\ l \in Keys /\ k < l /\ l <= LastKey(k) /\ h.key <= l /\ Unused(l) /\ task[l] = NoTask
      /\ h.info \in DOMAIN infos[l] /\ infos[l] \in Seq(InfoType) /\ h.info \in Nat /\ infos[l][h.info] \in InfoType
      /\ infos[l][h.info].pos = 0 /\ infos[l][h.info].offset = 0 /\ ~infos[l][h.info].freed
      /\ \A i \in DOMAIN infos[l] : infos[l][i].file = infos[l][h.info].file
      /\ (h.pc # "map" => sessions[l] = h.info)
      /\ KeyGood(NoTask, sessions[l], infos[l])
  BY <1>1, <1>3, <1>4, OpenOnWalk, ZenonT(60)
<1>6. PICK s, I, f : s = sessions[l] /\ I = infos[l] /\ f = infos[l][h.info].file
  OBVIOUS
<1>7. s = h.info /\ s # None /\ s \in Nat /\ f \in Files /\ I \in Seq(InfoType) /\ KeyGood(NoTask, s, I) /\ Stands(s, I, 0, 0)
  BY <1>2, <1>5, <1>6, DownloadAssumption DEF InfoType, Stands
<1>8. \A i \in DOMAIN I : I[i].file = f
  BY <1>5, <1>6
<1>9. PICK h2 : h2 = [h EXCEPT !.pc = "walk", !.todo = Tail(h.todo), !.info = 0]
  OBVIOUS
<1>10. /\ h.todo # <<>> /\ Tail(h.todo) \in DOMAIN Room /\ h.key + Room[Tail(h.todo)] <= LastKey(k) /\ k <= h.key
       /\ k \in DOMAIN Wanted /\ Wanted[k] \in Folders /\ task[k].pc = "folder"
  BY <1>2 DEF WalkGood
<1>11. Tail(h.todo) \in Seq(Items)
  BY <1>10 DEF Apart, WalksFit
<1>12. h2 \in HandlerType /\ h2.pc = "walk" /\ h2.rq = h.rq /\ h2.info = 0 /\ h2.key = l /\ h2.todo = Tail(h.todo)
  BY <1>2, <1>3, <1>9, <1>11, PcsAre DEF HandlerType
<1>13. WalkGood(h2, task[k])
  BY <1>2, <1>3, <1>10, <1>12 DEF WalkGood
<1>14. \A t : HandGood(h2, t, s, I)
  BY <1>2, <1>12 DEF HandGood, OpenGood, BlockGood, NoInfo
<1>15. /\ handler' = [handler EXCEPT ![w] = h2] /\ sessions' = [sessions EXCEPT ![l] = s]
       /\ infos' = [infos EXCEPT ![l] = I] /\ UNCHANGED <<catalogue, conn, spent>>
  BY <1>2, <1>5, <1>6, <1>9 DEF SendHeader, Rq, Typed, memory
<1>16. GetsHeader(h.rq, l, f)
  BY <1>2, <1>3, <1>6 DEF SendHeader, Rq, Info
<1>17. CASE h.rq.conn # conn
  <2>1. PICK t, new : t = NoTask /\ new = {}
    OBVIOUS
  <2>2. task' = [task EXCEPT ![l] = t] /\ inbox' = inbox \cup new
    BY <1>5, <1>16, <1>17, <2>1 DEF GetsHeader, Typed
  <2>3. t \in TaskType /\ s \in Nat \cup {None} /\ I \in Seq(InfoType) /\ new \in SUBSET Requests /\ KeyGood(t, s, I) /\ HandGood(h2, t, s, I)
    BY <1>7, <1>14, <2>1, IdleTyped
  <2>4. /\ \A r \in new : r.key = l /\ r.op # "folder" /\ ReqGood(r, t, s, I)
        /\ \A r, q \in new : r = q
    BY <2>1
  <2>5. h2.rq = h.rq /\ h2.pc # "idle" /\ h2.key = l /\ (h2.pc \notin Between => new = {} /\ t = NoTask)
    BY <1>12
  <2>6. TouchesAt(w, h, k, l, h2, t, s, I, new)
    BY <1>1, <1>5, <1>12, <1>13, <1>15, <2>2, <2>3, <2>4, <2>5 DEF TouchesAt
  <2> QED BY <2>6, TouchStep
<1>18. CASE h.rq.conn = conn
  <2>1. l \in Keys /\ f \in Files /\ I \in Seq(InfoType) /\ KeyGood(NoTask, s, I) /\ Stands(s, I, 0, 0)
    BY <1>5, <1>7
  <2>2. PICK t \in TaskType, r \in Requests :
           /\ t = NewTask(f) /\ r = Request("header", l, f, 0, TRUE)
           /\ t.file # None /\ r.key = l /\ r.op = "header"
           /\ KeyGood(t, s, I) /\ ReqGood(r, t, s, I)
    BY <1>8, <2>1, HeaderMakes
  <2>3. PICK new : new = {r}
    OBVIOUS
  <2>4. task' = [task EXCEPT ![l] = t] /\ inbox' = inbox \cup new
    BY <1>16, <1>18, <2>2, <2>3 DEF GetsHeader
  <2>5. t \in TaskType /\ s \in Nat \cup {None} /\ I \in Seq(InfoType) /\ new \in SUBSET Requests /\ KeyGood(t, s, I) /\ HandGood(h2, t, s, I)
    BY <1>7, <1>14, <2>2, <2>3
  <2>6. /\ \A q \in new : q.key = l /\ q.op # "folder" /\ ReqGood(q, t, s, I)
        /\ \A p, q \in new : p = q
    BY <2>2, <2>3
  <2>7. h2.rq = h.rq /\ h2.pc # "idle" /\ h2.key = l /\ (h2.pc \notin Between => new = {} /\ t = NoTask)
    BY <1>12
  <2>8. TouchesAt(w, h, k, l, h2, t, s, I, new)
    BY <1>1, <1>5, <1>12, <1>13, <1>15, <2>4, <2>5, <2>6, <2>7 DEF TouchesAt
  <2> QED BY <2>8, TouchStep
<1> QED BY <1>17, <1>18
-----------------------------------------------------------------------------
(* The client, and who takes up its requests.                               *)

\* Of what there is of k, only the client's task changes, and a request r of it comes.
LEMMA Comes ==
  ASSUME Apart, Typed, Typed', InOrder, NEW k \in Keys, NEW r, r.key = k, Unused(k),
         inbox' = inbox \cup {r}, UNCHANGED <<memory, handler>>,
         \A l \in Keys : l # k => task'[l] = task[l],
         KeyGood(task'[k], sessions[k], infos[k]), ReqGood(r, task'[k], sessions[k], infos[k]),
         \A v \in Workers : Opening(v) => handler[v].key # k
  PROVE  /\ Keyed' /\ Asked' /\ Handled' /\ Walks' /\ Single'
         /\ \A l \in Keys : l # k /\ Unused(l) =>
              /\ \A q \in inbox' : q.key # l
              /\ \A v \in Workers : handler'[v].rq # None => handler'[v].rq.key # l
<1>1. PICK W : W = {}
  OBVIOUS
<1>2. sessions' = sessions /\ infos' = infos /\ handler' = handler
  BY DEF memory
<1>3. \A q \in inbox : q.key # k
  BY DEF Unused
<1>4. \A q \in inbox' : IF q.key = k THEN ReqGood(q, task'[k], sessions'[k], infos'[k]) ELSE q \in inbox
  BY <1>2, <1>3
<1>5. \A p, q \in inbox' : p.key = k /\ q.key = k => p = q
  BY <1>3
<1>6. ASSUME NEW v \in Workers, Busy(v) PROVE handler[v].rq.key # k /\ (handler[v].key # k \/ handler[v].pc \in Between)
  <2>1. handler[v].rq.key # k
    BY <1>6 DEF Unused, Busy
  <2>2. CASE handler[v].rq.op = "folder"
    BY <1>6, <2>1, <2>2 DEF Opening, Walking
  <2>3. CASE handler[v].rq.op # "folder"
    BY <1>6, <2>1, <2>3 DEF InOrder, Handled, HandGood
  <2> QED BY <2>1, <2>2, <2>3
<1>7. \A v \in Workers \ W : /\ handler'[v] = handler[v]
                             /\ Busy(v) => /\ handler[v].rq.key # k
                                           /\ handler[v].key # k \/ handler[v].pc \in Between
  BY <1>2, <1>6
<1>8. W \in SUBSET Workers /\ \A u, v \in W : u = v
  BY <1>1
<1>9. \A u \in W :
        \/ handler'[u] = Idle
        \/ /\ handler'[u].rq # None /\ handler'[u].pc # "idle" /\ handler'[u].key \in Keys
           /\ HandGood(handler'[u], task'[handler'[u].key], sessions'[handler'[u].key], infos'[handler'[u].key])
           /\ handler'[u].rq.op = "folder" => WalkGood(handler'[u], task'[handler'[u].rq.key])
           /\ handler'[u].rq = handler[u].rq \/ handler'[u].rq.key = k
           /\ \A q \in inbox' : q.key # handler'[u].rq.key
  BY <1>1
<1>10. /\ KeyGood(task'[k], sessions'[k], infos'[k])
       /\ \A l \in Keys : l # k => task'[l] = task[l] /\ sessions'[l] = sessions[l] /\ infos'[l] = infos[l]
  BY <1>2
<1> QED BY <1>4, <1>5, <1>7, <1>8, <1>9, <1>10, Touched

LEMMA ClientAsksKeeps ==
  ASSUME Apart, Typed, InOrder, NEW k \in DOMAIN Wanted, ClientAsks(k) PROVE Typed' /\ InOrder'
<1>1. /\ k \in Keys /\ k \in Nat /\ LastKey(k) \in Nat /\ k \in k .. LastKey(k) /\ k .. LastKey(k) \subseteq Keys /\ Wanted[k] \in Items
  BY Ranges, DownloadAssumption
<1>2. task[k] = NoTask /\ \A l \in k .. LastKey(k) : Fresh(l)
  BY DEF ClientAsks, InOrder, Untouched
<1>3. Unused(k) /\ sessions[k] = None /\ infos[k] = <<>>
  BY <1>1, <1>2 DEF Fresh
<1>4. PICK op : op = IF Wanted[k] \in Files THEN "file" ELSE "folder"
  OBVIOUS
<1>5. PICK pc : pc = IF op = "file" THEN "asked" ELSE "folder"
  OBVIOUS
<1>6. PICK t : t = [NoTask EXCEPT !.pc = pc]
  OBVIOUS
<1>7. PICK f : f = Wanted[k]
  OBVIOUS
<1>8. PICK r : r = Request(op, k, f, 0, TRUE)
  OBVIOUS
<1>9. /\ task' = [task EXCEPT ![k].pc = pc] /\ inbox' = inbox \cup {r}
      /\ UNCHANGED <<catalogue, memory, handler, conn, spent>>
  BY <1>4, <1>5, <1>7, <1>8 DEF ClientAsks
<1>10. t \in TaskType /\ t.pc = pc /\ t.file = None /\ t.got = <<>> /\ pc \in {"asked", "folder"}
  BY <1>5, <1>6, IdleTyped DEF TaskType, NoTask
<1>11. task' = [task EXCEPT ![k] = t] /\ task'[k] = t
  BY <1>1, <1>2, <1>6, <1>9 DEF Typed
<1>12. r \in Requests /\ r.op = op /\ r.key = k /\ r.file = f /\ r.n = 0 /\ r.ok
  BY <1>1, <1>4, <1>7, <1>8 DEF Request, Requests, Typed
<1>13. Typed'
  BY <1>9, <1>10, <1>11, <1>12 DEF Typed, catalogue, memory
<1>14. ASSUME NEW v \in Workers, Walking(v) PROVE handler[v].rq.key \in DOMAIN Wanted /\ handler[v].rq.key # k
  BY <1>3, <1>14, WalkedKeys DEF Unused, Walking, Busy
<1>15. ASSUME NEW v \in Workers, Opening(v) PROVE handler[v].key # k
  <2>1. PICK j, l : j = handler[v].rq.key /\ l = handler[v].key
    OBVIOUS
  <2>2. j \in DOMAIN Wanted /\ j # k /\ l \in j .. LastKey(j)
    BY <1>14, <1>15, <2>1, WalkedKeys DEF Opening
  <2>3. l # k
    BY <1>1, <2>2, Disjoint
  <2> QED BY <2>1, <2>3
<1>16. KeyGood(t, sessions[k], infos[k])
  BY <1>3, <1>10 DEF KeyGood
<1>17. ReqGood(r, t, sessions[k], infos[k])
  BY <1>1, <1>3, <1>4, <1>5, <1>7, <1>10, <1>12 DEF ReqGood, Items
<1>18. /\ Keyed' /\ Asked' /\ Handled' /\ Walks' /\ Single'
       /\ \A l \in Keys : l # k /\ Unused(l) =>
              /\ \A q \in inbox' : q.key # l
              /\ \A v \in Workers : handler'[v].rq # None => handler'[v].rq.key # l
  <2>1. /\ r.key = k /\ inbox' = inbox \cup {r} /\ UNCHANGED <<memory, handler>>
        /\ KeyGood(task'[k], sessions[k], infos[k]) /\ ReqGood(r, task'[k], sessions[k], infos[k])
    BY <1>9, <1>11, <1>12, <1>16, <1>17
  <2>2. \A l \in Keys : l # k => task'[l] = task[l]
    BY <1>11 DEF Typed
  <2> QED BY <1>1, <1>3, <1>13, <1>15, <2>1, <2>2, Comes
<1>19. ASSUME NEW l \in Keys, l # k, Fresh(l) PROVE Fresh(l)'
  BY <1>9, <1>11, <1>18, <1>19 DEF Fresh, Unused, Typed, memory
<1>20. ASSUME NEW j \in DOMAIN Wanted, j # k, NEW l \in j .. LastKey(j), Fresh(l) PROVE Fresh(l)'
  <2>1. l # k /\ l \in Keys
    BY <1>1, <1>20, Disjoint, Ranges
  <2> QED BY <1>19, <1>20, <2>1
<1>21. ASSUME NEW j \in DOMAIN Wanted, task'[j] = NoTask, NEW l \in j .. LastKey(j) PROVE Fresh(l)'
  <2>1. j # k
    BY <1>10, <1>11, <1>21 DEF NoTask
  <2>2. task[j] = NoTask
    BY <1>11, <1>21, <2>1, Ranges DEF Typed
  <2>3. Fresh(l)
    BY <1>21, <2>2 DEF InOrder, Untouched
  <2> QED BY <1>20, <2>1, <2>3
<1>22. ASSUME NEW q \in inbox', q.op = "folder", NEW l \in q.key + 1 .. LastKey(q.key) PROVE Fresh(l)'
  <2>1. CASE q = r
    <3>1. l \in k .. LastKey(k) /\ l # k /\ l \in Keys
      BY <1>1, <1>12, <1>22, <2>1
    <3> QED BY <1>2, <1>19, <3>1
  <2>2. CASE q \in inbox
    <3>1. Fresh(l) /\ q.key \in DOMAIN Wanted /\ q.key # k
      BY <1>3, <1>22, <2>2 DEF InOrder, Untouched, Asked, ReqGood, Unused
    <3>2. l \in q.key .. LastKey(q.key)
      BY <1>22, <3>1, Ranges
    <3> QED BY <1>20, <3>1, <3>2
  <2> QED BY <1>9, <2>1, <2>2
<1>23. ASSUME NEW v \in Workers, Walking(v)', NEW l \in handler'[v].key + 1 .. LastKey(handler'[v].rq.key)
      PROVE  Fresh(l)'
  <2>1. handler'[v] = handler[v] /\ Walking(v)
    BY <1>9, <1>23 DEF Walking, Busy
  <2>2. Fresh(l) /\ handler[v].rq.key \in DOMAIN Wanted /\ handler[v].rq.key # k
    BY <1>14, <1>23, <2>1 DEF InOrder, Untouched
  <2>3. l \in handler[v].rq.key .. LastKey(handler[v].rq.key)
    BY <1>23, <2>1, WalkedKeys
  <2> QED BY <1>20, <2>2, <2>3
<1>24. ASSUME NEW v \in Workers, Opening(v)' PROVE (Unused(handler[v].key) /\ task[handler[v].key] = NoTask)'
  <2>1. Opening(v) /\ handler'[v] = handler[v]
    BY <1>9, <1>24 DEF Opening, Walking, Busy
  <2>2. PICK l : l = handler[v].key
    OBVIOUS
  <2>3. Unused(l) /\ task[l] = NoTask /\ l \in Keys /\ l # k
    BY <1>15, <2>1, <2>2 DEF InOrder, Untouched, Handled, Opening, Walking
  <2>4. task'[l] = task[l]
    BY <1>11, <2>3 DEF Typed
  <2>5. Unused(l)' /\ task'[l] = NoTask /\ l = handler'[v].key
    BY <1>18, <2>1, <2>2, <2>3, <2>4 DEF Unused
  <2> QED BY <2>5 DEF Unused
<1>25. Untouched'
  BY <1>21, <1>22, <1>23, <1>24 DEF Untouched
<1> QED BY <1>13, <1>18, <1>25 DEF InOrder

LEMMA ClientContinuesKeeps ==
  ASSUME Apart, Typed, InOrder, NEW k \in Keys, ClientContinues(k) PROVE Typed' /\ InOrder'
<1>1. task[k].pc = "lost" /\ ~Serving(k)
  BY DEF Apart, ClientContinues
<1>2. Unused(k)
  BY <1>1 DEF Serving, Unused
<1>3. PICK t : t = task[k]
  OBVIOUS
<1>4. t \in TaskType /\ KeyGood(t, sessions[k], infos[k]) /\ t.pc = "lost"
  BY <1>1, <1>3 DEF Typed, InOrder, Keyed
<1>5. t.file \in Files /\ t.file # None /\ Len(t.got) \in Nat
  BY <1>4, LenProperties DEF KeyGood, TaskType
<1>6. PICK t2 : t2 = [t EXCEPT !.pc = "waiting"]
  OBVIOUS
<1>7. t2 \in TaskType /\ t2.pc = "waiting" /\ t2.file = t.file /\ t2.got = t.got
  BY <1>4, <1>6 DEF TaskType
<1>8. PICK f, n : f = t.file /\ n = Len(t.got)
  OBVIOUS
<1>9. PICK r : r = Request("continue", k, f, n, TRUE)
  OBVIOUS
<1>10. /\ task' = [task EXCEPT ![k] = t2] /\ inbox' = inbox \cup {r}
       /\ UNCHANGED <<catalogue, memory, handler, conn, spent>>
  BY <1>3, <1>6, <1>8, <1>9 DEF ClientContinues
<1>11. r \in Requests /\ r.op = "continue" /\ r.key = k /\ r.file = f /\ r.n = n /\ r.ok
  BY <1>5, <1>8, <1>9 DEF Request, Requests, Typed, Items
<1>12. Typed'
  BY <1>7, <1>10, <1>11 DEF Typed, catalogue, memory
<1>13. task'[k] = t2 /\ \A l \in Keys : l # k => task'[l] = task[l]
  BY <1>10 DEF Typed
<1>14. ASSUME NEW l, Fresh(l) \/ task[l] = NoTask PROVE l # k
  BY <1>1, <1>14 DEF Fresh, NoTask
<1>15. \A v \in Workers : Opening(v) => handler[v].key # k
  BY <1>14 DEF InOrder, Untouched
<1>16. KeyGood(t2, sessions[k], infos[k])
  BY <1>4, <1>5, <1>7 DEF KeyGood
<1>17. ReqGood(r, t2, sessions[k], infos[k])
  BY <1>5, <1>7, <1>8, <1>11 DEF ReqGood
<1>18. /\ Keyed' /\ Asked' /\ Handled' /\ Walks' /\ Single'
       /\ \A l \in Keys : l # k /\ Unused(l) =>
              /\ \A q \in inbox' : q.key # l
              /\ \A v \in Workers : handler'[v].rq # None => handler'[v].rq.key # l
  <2>1. /\ r.key = k /\ inbox' = inbox \cup {r} /\ UNCHANGED <<memory, handler>>
        /\ KeyGood(task'[k], sessions[k], infos[k]) /\ ReqGood(r, task'[k], sessions[k], infos[k])
    BY <1>10, <1>11, <1>13, <1>16, <1>17
  <2> QED BY <1>2, <1>12, <1>13, <1>15, <2>1, Comes
<1>19. ASSUME NEW l \in Keys, Fresh(l) PROVE Fresh(l)'
  <2>1. l # k
    BY <1>14, <1>19
  <2> QED BY <1>10, <1>13, <1>18, <1>19, <2>1 DEF Fresh, Unused, memory
<1>20. ASSUME NEW j \in DOMAIN Wanted, task'[j] = NoTask, NEW l \in j .. LastKey(j) PROVE Fresh(l)'
  <2>1. j # k /\ j \in Keys /\ l \in Keys
    BY <1>7, <1>13, <1>20, Ranges DEF NoTask
  <2>2. Fresh(l)
    BY <1>13, <1>20, <2>1 DEF InOrder, Untouched
  <2> QED BY <1>19, <2>1, <2>2
<1>21. ASSUME NEW q \in inbox', q.op = "folder", NEW l \in q.key + 1 .. LastKey(q.key) PROVE Fresh(l)'
  <2>1. q \in inbox
    BY <1>10, <1>11, <1>21
  <2>2. Fresh(l) /\ q.key \in DOMAIN Wanted
    BY <1>21, <2>1 DEF InOrder, Untouched, Asked, ReqGood
  <2>3. l \in Keys
    BY <1>21, <2>2, Ranges
  <2> QED BY <1>19, <2>2, <2>3
<1>22. ASSUME NEW v \in Workers, Walking(v)', NEW l \in handler'[v].key + 1 .. LastKey(handler'[v].rq.key)
      PROVE  Fresh(l)'
  <2>1. handler'[v] = handler[v] /\ Walking(v)
    BY <1>10, <1>22 DEF Walking, Busy
  <2>2. Fresh(l) /\ l \in Keys
    BY <1>22, <2>1, WalkedKeys DEF InOrder, Untouched
  <2> QED BY <1>19, <2>2
<1>23. ASSUME NEW v \in Workers, Opening(v)' PROVE (Unused(handler[v].key) /\ task[handler[v].key] = NoTask)'
  <2>1. Opening(v) /\ handler'[v] = handler[v]
    BY <1>10, <1>23 DEF Opening, Walking, Busy
  <2>2. PICK l : l = handler[v].key
    OBVIOUS
  <2>3. Unused(l) /\ task[l] = NoTask /\ l \in Keys /\ l # k
    BY <1>14, <2>1, <2>2 DEF InOrder, Untouched, Handled, Opening, Walking
  <2>5. Unused(l)' /\ task'[l] = NoTask /\ l = handler'[v].key
    BY <1>13, <1>18, <2>1, <2>2, <2>3 DEF Unused
  <2> QED BY <2>5 DEF Unused
<1>24. Untouched'
  BY <1>20, <1>21, <1>22, <1>23 DEF Untouched
<1> QED BY <1>12, <1>18, <1>24 DEF InOrder

\* A worker takes up a request.
LEMMA DealKeeps ==
  ASSUME Apart, Typed, InOrder, NEW w \in Workers, Deal(w) PROVE Typed' /\ InOrder'
<1>1. PICK rq \in inbox :
        /\ handler[w] = Idle
        /\ inbox' = inbox \ {rq}
        /\ handler' = [handler EXCEPT ![w] = [Idle EXCEPT !.pc = First(rq.op), !.rq = rq, !.key = rq.key, !.todo = <<rq.file>>]]
        /\ UNCHANGED <<catalogue, memory, task, conn, spent>>
  BY DEF Deal
<1>2. PICK k, t, s, I : k = rq.key /\ t = task[k] /\ s = sessions[k] /\ I = infos[k]
  OBVIOUS
<1>3. rq \in Requests /\ k \in Keys /\ rq.file \in Items /\ rq # None /\ ReqGood(rq, t, s, I) /\ k \in Nat
  BY <1>2, DownloadAssumption DEF InOrder, Asked, Typed, Requests
<1>4. PICK pc : pc = First(rq.op)
  OBVIOUS
<1>5. /\ rq.op \in {"file", "folder", "header", "content", "continue"}
      /\ rq.op = "file" => pc = "select"
      /\ rq.op = "folder" => pc = "folder"
      /\ rq.op \in {"header", "content"} => pc = "find"
      /\ rq.op = "continue" => pc = "lookup"
  BY <1>3, <1>4 DEF First, Requests
<1>6. PICK todo : todo = <<rq.file>>
  OBVIOUS
<1>7. PICK h : h = [Idle EXCEPT !.pc = pc, !.rq = rq, !.key = k, !.todo = todo]
  OBVIOUS
<1>8. todo \in Seq(Items) /\ pc \in Pcs /\ pc # "idle"
  BY <1>3, <1>5, <1>6, PcsAre
<1>9. /\ h \in HandlerType /\ h.pc = pc /\ h.rq = rq /\ h.info = 0 /\ h.key = k /\ h.todo = todo
  BY <1>3, <1>7, <1>8, IdleTyped DEF HandlerType, Idle
<1>10. handler' = [handler EXCEPT ![w] = h]
  BY <1>1, <1>2, <1>4, <1>6, <1>7
<1>11. handler'[w] = h /\ \A v \in Workers \ {w} : handler'[v] = handler[v]
  BY <1>10 DEF Typed
<1>12. task' = task /\ sessions' = sessions /\ infos' = infos /\ inbox' = inbox \ {rq}
  BY <1>1 DEF memory
<1>13. Typed'
  BY <1>1, <1>9, <1>10, <1>12 DEF Typed, catalogue
<1>14. HandGood(h, t, s, I)
  <2>1. CASE rq.op = "file"
    <3>1. /\ rq.key \in DOMAIN Wanted /\ rq.file = Wanted[rq.key] /\ rq.file \in Files
          /\ t.pc \in {"asked", "gone"} /\ s = None /\ I = <<>>
      BY <1>3, <2>1 DEF ReqGood
    <3> QED BY <1>2, <1>3, <1>5, <1>9, <2>1, <3>1 DEF HandGood, OpenGood, BlockGood, NoInfo
  <2>2. CASE rq.op = "folder"
    BY <1>5, <1>9, <2>2 DEF HandGood, OpenGood, BlockGood, NoInfo
  <2>3. CASE rq.op \in {"header", "content"}
    <3>1. t.file = rq.file /\ t.file \in Files
      BY <1>3, <2>3 DEF ReqGood
    <3> QED BY <1>2, <1>3, <1>5, <1>9, <2>3, <3>1 DEF HandGood, OpenGood, BlockGood, NoInfo
  <2>4. CASE rq.op = "continue"
    <3>1. t.file = rq.file /\ t.file \in Files /\ rq.n = Len(t.got)
      BY <1>3, <2>4 DEF ReqGood
    <3> QED BY <1>2, <1>3, <1>5, <1>9, <2>4, <3>1 DEF HandGood, OpenGood, BlockGood, NoInfo
  <2> QED BY <1>5, <2>1, <2>2, <2>3, <2>4
<1>15. ASSUME rq.op = "folder" PROVE WalkGood(h, t) /\ k \in DOMAIN Wanted
  <2>1. k \in DOMAIN Wanted /\ rq.file = Wanted[k] /\ Wanted[k] \in Folders /\ t.pc = "folder"
    BY <1>2, <1>3, <1>15 DEF ReqGood
  <2>2. todo \in DOMAIN Room /\ LastKey(k) = k + Room[todo]
    BY <1>6, <2>1 DEF LastKey, Span, Apart, WalksFit
  <2>3. h.rq.key = k /\ h.key = k /\ h.pc = "folder" /\ h.todo = todo /\ k <= k
    BY <1>2, <1>3, <1>5, <1>9, <1>15
  <2>4. k + Room[todo] <= LastKey(k)
    BY <2>1, <2>2, Ranges
  <2> QED BY <2>1, <2>2, <2>3, <2>4 DEF WalkGood
<1>16. \A r \in inbox' : r.key # k /\ r \in inbox
  BY <1>2, <1>12 DEF InOrder, Single
<1>17. ASSUME NEW v \in Workers, Busy(v) PROVE v # w /\ handler[v].rq.key # k /\ (handler[v].key # k \/ handler[v].pc \in Between)
  <2>1. v # w /\ handler[v].rq.key # k
    BY <1>1, <1>2, <1>17 DEF InOrder, Single, Busy, Idle
  <2>2. CASE handler[v].rq.op # "folder"
    BY <1>17, <2>1, <2>2 DEF InOrder, Handled, HandGood
  <2>3. CASE handler[v].rq.op = "folder" /\ handler[v].pc \notin Between
    <3>1. Unused(handler[v].key)
      BY <1>17, <2>3 DEF InOrder, Untouched, Opening, Walking
    <3>2. handler[v].key # k
      BY <1>2, <3>1 DEF Unused
    <3> QED BY <2>1, <3>2
  <2> QED BY <2>1, <2>2, <2>3
<1>18. /\ Keyed' /\ Asked' /\ Handled' /\ Walks' /\ Single'
       /\ \A l \in Keys : l # k /\ Unused(l) =>
              /\ \A q \in inbox' : q.key # l
              /\ \A v \in Workers : handler'[v].rq # None => handler'[v].rq.key # l
  <2>1. PICK W : W = {w}
    OBVIOUS
  <2>2. /\ KeyGood(task'[k], sessions'[k], infos'[k])
        /\ \A l \in Keys : l # k => task'[l] = task[l] /\ sessions'[l] = sessions[l] /\ infos'[l] = infos[l]
    BY <1>3, <1>12 DEF InOrder, Keyed
  <2>3. \A q \in inbox' : IF q.key = k THEN ReqGood(q, task'[k], sessions'[k], infos'[k]) ELSE q \in inbox
    BY <1>16
  <2>4. \A p, q \in inbox' : p.key = k /\ q.key = k => p = q
    BY <1>16
  <2>5. \A v \in Workers \ W : /\ handler'[v] = handler[v]
                               /\ Busy(v) => /\ handler[v].rq.key # k
                                             /\ handler[v].key # k \/ handler[v].pc \in Between
    BY <1>11, <1>17, <2>1
  <2>6. W \in SUBSET Workers /\ \A u, v \in W : u = v
    BY <2>1
  <2>7. /\ handler'[w].rq # None /\ handler'[w].pc # "idle" /\ handler'[w].key \in Keys
        /\ HandGood(handler'[w], task'[handler'[w].key], sessions'[handler'[w].key], infos'[handler'[w].key])
        /\ handler'[w].rq.op = "folder" => WalkGood(handler'[w], task'[handler'[w].rq.key])
        /\ handler'[w].rq.key = k
        /\ \A q \in inbox' : q.key # handler'[w].rq.key
    BY <1>2, <1>3, <1>8, <1>9, <1>11, <1>12, <1>14, <1>15, <1>16
  <2>8. \A u \in W :
          \/ handler'[u] = Idle
          \/ /\ handler'[u].rq # None /\ handler'[u].pc # "idle" /\ handler'[u].key \in Keys
             /\ HandGood(handler'[u], task'[handler'[u].key], sessions'[handler'[u].key], infos'[handler'[u].key])
             /\ handler'[u].rq.op = "folder" => WalkGood(handler'[u], task'[handler'[u].rq.key])
             /\ handler'[u].rq = handler[u].rq \/ handler'[u].rq.key = k
             /\ \A q \in inbox' : q.key # handler'[u].rq.key
    BY <2>1, <2>7
  <2> QED BY <1>3, <1>13, <2>2, <2>3, <2>4, <2>5, <2>6, <2>8, Touched
<1>19. ASSUME NEW l \in Keys, Fresh(l) PROVE Fresh(l)'
  <2>1. l # k
    BY <1>2, <1>19 DEF Fresh, Unused
  <2> QED BY <1>12, <1>18, <1>19, <2>1 DEF Fresh, Unused
<1>20. ASSUME NEW j \in DOMAIN Wanted, task'[j] = NoTask, NEW l \in j .. LastKey(j) PROVE Fresh(l)'
  <2>1. Fresh(l) /\ l \in Keys
    BY <1>12, <1>20, Ranges DEF InOrder, Untouched
  <2> QED BY <1>19, <2>1
<1>21. ASSUME NEW q \in inbox, q.op = "folder", NEW l \in q.key + 1 .. LastKey(q.key) PROVE Fresh(l)'
  <2>2. Fresh(l) /\ q.key \in DOMAIN Wanted
    BY <1>21 DEF InOrder, Untouched, Asked, ReqGood
  <2>3. l \in Keys
    BY <1>21, <2>2, Ranges
  <2> QED BY <1>19, <2>2, <2>3
<1>22. ASSUME NEW v \in Workers, Walking(v)', NEW l \in handler'[v].key + 1 .. LastKey(handler'[v].rq.key)
      PROVE  Fresh(l)'
  <2>1. CASE v = w
    <3>1. rq.op = "folder" /\ l \in rq.key + 1 .. LastKey(rq.key)
      BY <1>2, <1>9, <1>11, <1>22, <2>1 DEF Walking
    <3> QED BY <1>21, <3>1
  <2>2. CASE v # w
    <3>1. handler'[v] = handler[v] /\ Walking(v)
      BY <1>11, <1>22, <2>2 DEF Walking, Busy
    <3>2. Fresh(l) /\ l \in Keys
      BY <1>22, <3>1, WalkedKeys DEF InOrder, Untouched
    <3> QED BY <1>19, <3>2
  <2> QED BY <2>1, <2>2
<1>23. ASSUME NEW v \in Workers, Opening(v)' PROVE (Unused(handler[v].key) /\ task[handler[v].key] = NoTask)'
  <2>0. v # w
    BY <1>5, <1>9, <1>11, <1>23 DEF Opening, Walking
  <2>1. Opening(v) /\ handler'[v] = handler[v]
    BY <1>11, <1>23, <2>0 DEF Opening, Walking, Busy
  <2>2. PICK l : l = handler[v].key
    OBVIOUS
  <2>3. Unused(l) /\ task[l] = NoTask /\ l \in Keys
    BY <2>1, <2>2 DEF InOrder, Untouched, Handled, Opening, Walking
  <2>4. l # k
    BY <1>2, <2>3 DEF Unused
  <2>5. Unused(l)' /\ task'[l] = NoTask /\ l = handler'[v].key
    BY <1>12, <1>18, <2>1, <2>2, <2>3, <2>4 DEF Unused
  <2> QED BY <2>5 DEF Unused
<1>24. Untouched'
  BY <1>16, <1>20, <1>21, <1>22, <1>23 DEF Untouched
<1> QED BY <1>13, <1>18, <1>24 DEF InOrder

\* The task of a client whose connection broke.
LEMMA BrokenIs ==
  ASSUME NEW t \in TaskType
  PROVE  /\ Broken(t) \in TaskType /\ Broken(t).file = t.file /\ Broken(t).got = t.got
         /\ t.pc \in {"asked", "gone"} => Broken(t).pc = "gone"
         /\ t.pc \in {"waiting", "lost"} => Broken(t).pc = "lost"
         /\ t.pc \notin {"asked", "waiting"} => Broken(t) = t
         /\ Broken(t) = NoTask <=> t = NoTask
<1>1. CASE t.pc = "asked"
  BY <1>1 DEF Broken, TaskType, NoTask
<1>2. CASE t.pc = "waiting"
  BY <1>2 DEF Broken, TaskType, NoTask
<1>3. CASE t.pc \notin {"asked", "waiting"}
  BY <1>3 DEF Broken, TaskType, NoTask
<1> QED BY <1>1, <1>2, <1>3

LEMMA BrokenGood ==
  ASSUME NEW t \in TaskType, NEW s, NEW I
  PROVE  /\ KeyGood(t, s, I) => KeyGood(Broken(t), s, I)
         /\ \A r : ReqGood(r, t, s, I) => ReqGood(r, Broken(t), s, I)
         /\ \A h : HandGood(h, t, s, I) => HandGood(h, Broken(t), s, I)
         /\ \A h : WalkGood(h, t) => WalkGood(h, Broken(t))
<1>1. PICK b : b = Broken(t)
  OBVIOUS
<1>2. /\ b.file = t.file /\ b.got = t.got
      /\ t.pc \in {"asked", "gone"} => b.pc = "gone"
      /\ t.pc \in {"waiting", "lost"} => b.pc = "lost"
      /\ t.pc \notin {"asked", "waiting"} => b = t
  BY <1>1, BrokenIs
<1>3. KeyGood(t, s, I) => KeyGood(b, s, I)
  BY <1>2 DEF KeyGood
<1>4. ASSUME NEW r, ReqGood(r, t, s, I) PROVE ReqGood(r, b, s, I)
  BY <1>2, <1>4 DEF ReqGood
<1>5. ASSUME NEW h, HandGood(h, t, s, I) PROVE HandGood(h, b, s, I)
  <2>1. OpenGood(h, b, s, I)
    BY <1>2, <1>5 DEF HandGood, OpenGood
  <2>2. ReqGood(h.rq, t, s, I) => ReqGood(h.rq, b, s, I)
    BY <1>4
  <2>3. BlockGood(h, b, s, I)
    BY <1>2, <1>5, <2>2 DEF HandGood, BlockGood
  <2> QED BY <1>5, <2>1, <2>3 DEF HandGood
<1>6. ASSUME NEW h, WalkGood(h, t) PROVE WalkGood(h, b)
  BY <1>2, <1>6 DEF WalkGood
<1> QED BY <1>1, <1>3, <1>4, <1>5, <1>6

LEMMA DisconnectKeeps ==
  ASSUME Apart, Typed, InOrder, Disconnect PROVE Typed' /\ InOrder'
<1>1. /\ task' = [k \in Keys |-> Broken(task[k])] /\ inbox' \subseteq inbox /\ conn' = conn + 1
      /\ UNCHANGED <<catalogue, memory, handler>> /\ Spend("lost")
  BY DEF Disconnect
<1>2. sessions' = sessions /\ infos' = infos /\ handler' = handler
  BY <1>1 DEF memory
<1>3. \A k \in Keys : task[k] \in TaskType /\ task'[k] = Broken(task[k])
  BY <1>1 DEF Typed
<1>4. Typed'
  <2>1. task' \in [Keys -> TaskType]
    BY <1>1, <1>3, BrokenIs
  <2>2. spent' \in SpentType
    BY <1>1, SpentGoes DEF Kinds
  <2> QED BY <1>1, <2>1, <2>2 DEF Typed, catalogue, memory
<1>5. Keyed'
  BY <1>2, <1>3, BrokenGood DEF InOrder, Keyed
<1>6. Asked'
  BY <1>1, <1>2, <1>3, BrokenGood DEF InOrder, Asked, Typed, Requests
<1>7. Handled'
  BY <1>2, <1>3, BrokenGood DEF InOrder, Handled, Busy
<1>8. Walks'
  BY <1>2, <1>3, BrokenGood, RequestOf DEF InOrder, Walks, Walking, Busy
<1>9. Single'
  BY <1>1, <1>2 DEF InOrder, Single
<1>10. \A k \in Keys : task'[k] = NoTask <=> task[k] = NoTask
  BY <1>3, BrokenIs
<1>11. ASSUME NEW l \in Keys, Fresh(l) PROVE Fresh(l)'
  BY <1>1, <1>2, <1>10, <1>11 DEF Fresh, Unused
<1>12. ASSUME NEW j \in DOMAIN Wanted, task'[j] = NoTask, NEW l \in j .. LastKey(j) PROVE Fresh(l)'
  <2>1. Fresh(l) /\ l \in Keys
    BY <1>10, <1>12, Ranges DEF InOrder, Untouched
  <2> QED BY <1>11, <2>1
<1>13. ASSUME NEW q \in inbox', q.op = "folder", NEW l \in q.key + 1 .. LastKey(q.key) PROVE Fresh(l)'
  <2>2. Fresh(l) /\ q.key \in DOMAIN Wanted
    BY <1>1, <1>13 DEF InOrder, Untouched, Asked, ReqGood
  <2>3. l \in Keys
    BY <1>13, <2>2, Ranges
  <2> QED BY <1>11, <2>2, <2>3
<1>14. ASSUME NEW v \in Workers, Walking(v)', NEW l \in handler'[v].key + 1 .. LastKey(handler'[v].rq.key)
      PROVE  Fresh(l)'
  <2>1. handler'[v] = handler[v] /\ Walking(v)
    BY <1>2, <1>14 DEF Walking, Busy
  <2>2. Fresh(l) /\ l \in Keys
    BY <1>14, <2>1, WalkedKeys DEF InOrder, Untouched
  <2> QED BY <1>11, <2>2
<1>15. ASSUME NEW v \in Workers, Opening(v)' PROVE (Unused(handler[v].key) /\ task[handler[v].key] = NoTask)'
  <2>1. Opening(v) /\ handler'[v] = handler[v]
    BY <1>2, <1>15 DEF Opening, Walking, Busy
  <2>2. PICK l : l = handler[v].key
    OBVIOUS
  <2>3. Unused(l) /\ task[l] = NoTask /\ l \in Keys
    BY <2>1, <2>2 DEF InOrder, Untouched, Handled, Opening, Walking
  <2>5. Unused(l)' /\ task'[l] = NoTask /\ l = handler'[v].key
    BY <1>1, <1>2, <1>10, <2>1, <2>2, <2>3 DEF Unused
  <2> QED BY <2>5 DEF Unused
<1>16. Untouched'
  BY <1>12, <1>13, <1>14, <1>15 DEF Untouched
<1> QED BY <1>4, <1>5, <1>6, <1>7, <1>8, <1>9, <1>16 DEF InOrder

LEMMA CrashKeeps ==
  ASSUME Apart, Typed, InOrder, Crash PROVE Typed' /\ InOrder'
<1>1. /\ sessions' = [k \in Keys |-> None] /\ infos' = [k \in Keys |-> <<>>]
      /\ inbox' = {} /\ handler' = [w \in Workers |-> Idle]
      /\ conn' = conn + 1 /\ task' = [k \in Keys |-> Broken(task[k])] /\ UNCHANGED catalogue /\ Spend("crash")
  BY DEF Crash
<1>2. \A k \in Keys : task[k] \in TaskType /\ task'[k] = Broken(task[k]) /\ sessions'[k] = None /\ infos'[k] = <<>>
  BY <1>1 DEF Typed
<1>3. Typed'
  <2>1. task' \in [Keys -> TaskType]
    BY <1>1, <1>2, BrokenIs
  <2>2. spent' \in SpentType
    BY <1>1, SpentGoes DEF Kinds
  <2>3. handler' \in [Workers -> HandlerType] /\ infos' \in [Keys -> Seq(InfoType)] /\ sessions' \in [Keys -> Nat \cup {None}]
    BY <1>1, IdleTyped
  <2> QED BY <1>1, <2>1, <2>2, <2>3 DEF Typed, catalogue
<1>4. Keyed'
  <2>1. ASSUME NEW t, NEW s, NEW I, KeyGood(t, s, I) PROVE KeyGood(t, None, <<>>)
    BY <2>1 DEF KeyGood
  <2> QED BY <1>2, <2>1, BrokenGood DEF InOrder, Keyed
<1>5. \A w \in Workers : handler'[w] = Idle /\ handler'[w].rq = None
  BY <1>1, IdleTyped
<1>6. Asked' /\ Single' /\ Handled' /\ Walks'
  BY <1>1, <1>5 DEF Asked, Single, Handled, Walks, Walking, Busy
<1>7. \A l : Unused(l)'
  BY <1>1, <1>5 DEF Unused
<1>8. ASSUME NEW j \in DOMAIN Wanted, task'[j] = NoTask, NEW l \in j .. LastKey(j) PROVE Fresh(l)'
  <2>1. j \in Keys /\ l \in Keys
    BY Ranges
  <2>2. task[j] = NoTask
    BY <1>2, <1>8, <2>1, BrokenIs
  <2>3. task[l] = NoTask
    BY <2>2 DEF InOrder, Untouched, Fresh
  <2>4. task'[l] = NoTask
    BY <1>2, <2>1, <2>3, BrokenIs
  <2> QED BY <1>2, <1>7, <2>1, <2>4 DEF Fresh
<1>9. Untouched'
  BY <1>1, <1>5, <1>8 DEF Untouched, Walking, Opening, Busy
<1> QED BY <1>3, <1>4, <1>6, <1>9 DEF InOrder
-----------------------------------------------------------------------------
(* The theorems.                                                            *)

\* Uploads and deletions leave the downloads alone: whoever has a file open goes on reading it.
LEMMA OthersKeep ==
  ASSUME Apart, Typed, InOrder,
         \/ \E f \in Files : Receive(f) \/ Unlink(f) \/ Vanish(f) \/ MakeAnew(f)
         \/ \E x \in Items : Delete(x)
  PROVE  Typed' /\ InOrder'
<1>1. /\ UNCHANGED <<memory, inbox, handler, task, conn>>
      /\ listed' \subseteq listed /\ there' \subseteq there \cup Files
  BY DEF Receive, Delete, Unlink, Vanish, MakeAnew
<1>2. spent' \in SpentType
  <2>1. CASE spent' = spent
    BY <2>1 DEF Typed
  <2>2. CASE Spend("removed")
    BY <2>2, SpentGoes DEF Kinds
  <2> QED BY <2>1, <2>2 DEF Receive, Delete, Unlink, Vanish, MakeAnew
<1>3. stored' \in [Files -> Nat] /\ \A g \in Files : stored'[g] <= FileSize[g]
  <2>1. ASSUME NEW f \in Files, Receive(f) \/ MakeAnew(f)
        PROVE  stored' \in [Files -> Nat] /\ \A g \in Files : stored'[g] <= FileSize[g]
    <3>1. PICK n : stored' = [stored EXCEPT ![f] = n] /\ (n = 0 \/ (n = stored[f] + 1 /\ stored[f] < FileSize[f]))
      BY <2>1 DEF Receive, MakeAnew
    <3>2. ASSUME NEW g \in Files PROVE stored'[g] <= FileSize[g] /\ stored'[g] \in Nat
      <4>1. FileSize[g] \in Nat /\ stored[g] \in Nat /\ stored[g] <= FileSize[g]
        BY DownloadAssumption DEF Typed
      <4>2. stored'[g] = IF g = f THEN n ELSE stored[g]
        BY <3>1 DEF Typed
      <4> QED BY <3>1, <4>1, <4>2
    <3> QED BY <3>1, <3>2 DEF Typed
  <2>2. CASE stored' = stored
    BY <2>2 DEF Typed
  <2> QED BY <2>1, <2>2 DEF Delete, Unlink, Vanish
<1>4. Typed'
  BY <1>1, <1>2, <1>3 DEF Typed, memory
<1>5. InOrder'
  BY <1>1 DEF InOrder, Keyed, Asked, Handled, Walks, Single, Untouched, Fresh, Unused, Busy, Walking, Opening, memory
<1> QED BY <1>4, <1>5

LEMMA InitKeeps == ASSUME Apart, Init PROVE Typed /\ InOrder
<1>1. PICK late \in SUBSET Incomplete :
        /\ stored \in {s \in [Files -> UNION {0..FileSize[f] : f \in Files}] :
                         \A f \in Files : IF f \in late THEN s[f] < FileSize[f] ELSE s[f] = FileSize[f]}
        /\ spent = [late |-> Cardinality(late), lost |-> 0, crash |-> 0, refused |-> 0, removed |-> 0, starved |-> 0]
  BY DEF Init
<1>2. Cardinality(late) \in Nat
  BY DownloadAssumption, FS_Subset, FS_CardinalityType
<1>3. spent \in SpentType
  BY <1>1, <1>2 DEF SpentType, Kinds
<1>4. stored \in [Files -> Nat] /\ \A f \in Files : stored[f] <= FileSize[f]
  <2>1. stored \in [Files -> UNION {0..FileSize[f] : f \in Files}] /\ \A f \in Files : FileSize[f] \in Nat
    BY <1>1, DownloadAssumption
  <2>2. ASSUME NEW f \in Files PROVE stored[f] \in Nat /\ stored[f] <= FileSize[f]
    <3>1. stored[f] \in Nat
      BY <2>1
    <3>2. stored[f] < FileSize[f] \/ stored[f] = FileSize[f]
      BY <1>1
    <3> QED BY <2>1, <3>1, <3>2
  <2> QED BY <2>1, <2>2
<1>5. /\ listed = Items /\ there = Files /\ inbox = {} /\ conn = 0
      /\ sessions = [k \in Keys |-> None] /\ infos = [k \in Keys |-> <<>>]
      /\ handler = [w \in Workers |-> Idle] /\ task = [k \in Keys |-> NoTask]
  BY DEF Init
<1>6. Typed
  BY <1>3, <1>4, <1>5, IdleTyped DEF Typed
<1>7. Keyed
  BY <1>5 DEF Keyed, KeyGood, NoTask
<1>8. Asked /\ Handled /\ Walks /\ Single
  BY <1>5, IdleTyped DEF Asked, Handled, Walks, Single, Busy, Walking
<1>9. Untouched
  <2>1. \A k \in Keys : Fresh(k)
    BY <1>5, IdleTyped DEF Fresh, Unused
  <2>2. \A w \in Workers : ~Busy(w)
    BY <1>5, IdleTyped DEF Busy
  <2>3. ASSUME NEW k \in DOMAIN Wanted, NEW l \in k .. LastKey(k) PROVE l \in Keys
    BY <2>3, Ranges
  <2> QED BY <1>5, <2>1, <2>2, <2>3 DEF Untouched, Walking, Opening
<1> QED BY <1>6, <1>7, <1>8, <1>9 DEF InOrder

LEMMA NextKeeps == ASSUME Apart, Typed, InOrder, [Next]_downloadVars PROVE Typed' /\ InOrder'
<1>1. CASE ClientStep
  <2>1. CASE \E k \in DOMAIN Wanted : ClientAsks(k)
    BY <2>1, ClientAsksKeeps
  <2>2. CASE \E k \in Keys : ClientContinues(k)
    BY <2>2, ClientContinuesKeeps
  <2> QED BY <1>1, <2>1, <2>2 DEF ClientStep
<1>2. CASE Disconnect
  BY <1>2, DisconnectKeeps
<1>3. CASE Crash
  BY <1>3, CrashKeeps
<1>4. ASSUME NEW w \in Workers, WorkerStep(w) \/ FetchFails(w) \/ FetchReturns(w) PROVE Typed' /\ InOrder'
  <2>1. CASE FileStep(w)
    <3>1. CASE Select(w)
      BY <3>1, SelectKeeps
    <3>2. CASE OpenOfFile(w)
      BY <3>2, OpenOfFileKeeps
    <3>3. CASE MapInsert(w)
      <4>1. CASE Walking(w)
        BY <3>3, <4>1, MapInsertOfWalk
      <4>2. CASE ~Walking(w)
        BY <3>3, <4>2, MapInsertKeeps
      <4> QED BY <4>1, <4>2
    <3>4. CASE SendHeader(w)
      <4>1. CASE Walking(w)
        BY <3>4, <4>1, SendHeaderOfWalk
      <4>2. CASE ~Walking(w)
        BY <3>4, <4>2, SendHeaderKeeps
      <4> QED BY <4>1, <4>2
    <3> QED BY <2>1, <3>1, <3>2, <3>3, <3>4 DEF FileStep
  <2>2. CASE FolderStep(w)
    BY <2>2, SelectFolderKeeps, SendFolderKeeps, SelectChildrenKeeps, OpenOfWalkKeeps, WalkEndsKeeps DEF FolderStep
  <2>3. CASE BlockStep(w)
    BY <2>3, FindKeeps, SeekBackKeeps, LoadPosKeeps, StorePosKeeps, EraseKeeps, ReadKeeps, SendBlockKeeps DEF BlockStep
  <2>4. CASE ContinueStep(w)
    BY <2>4, LookupKeeps, ReselectKeeps, ReopenKeeps, RemapKeeps, SeekKeeps, SetPosKeeps DEF ContinueStep
  <2>5. CASE Deal(w)
    BY <2>5, DealKeeps
  <2>6. CASE FetchFails(w) \/ FetchReturns(w)
    BY <2>6, FetchFailsKeeps, FetchReturnsKeeps
  <2> QED BY <1>4, <2>1, <2>2, <2>3, <2>4, <2>5, <2>6 DEF WorkerStep
<1>5. CASE \/ \E f \in Files : Receive(f) \/ Unlink(f) \/ Vanish(f) \/ MakeAnew(f)
           \/ \E x \in Items : Delete(x)
  BY <1>5, OthersKeep
<1>6. CASE UNCHANGED downloadVars
  BY <1>6 DEF downloadVars, catalogue, memory, Typed, InOrder, Keyed, Asked, Handled, Walks, Single, Untouched,
              Fresh, Unused, Busy, Walking, Opening
<1> QED BY <1>1, <1>2, <1>3, <1>4, <1>5, <1>6 DEF Next

(* The inductive invariant: one activity at a time for each timestamp, which *)
(* stands where the client stands, and the timestamps of the walks apart.    *)
THEOREM AlwaysInOrder == ASSUME Apart PROVE Spec => [](Typed /\ InOrder)
<1>1. Init => Typed /\ InOrder
  BY InitKeeps
<1>2. Typed /\ InOrder /\ [Next]_downloadVars => (Typed /\ InOrder)'
  BY NextKeeps
<1> QED BY <1>1, <1>2, PTL DEF Spec

(* What a handler past the map works on: the FileInfo it has is there, and   *)
(* until the handler of the last answer deletes it, not deleted.             *)
LEMMA HandHas ==
  ASSUME Apart, Typed, InOrder, NEW w \in Workers, handler[w].info # 0
  PROVE  /\ handler[w].info \in DOMAIN infos[handler[w].key] /\ ~Info(w).freed
         /\ handler[w].key \in Keys
<1>1. Busy(w)
  BY DEF InOrder, Handled, Idle
<1>2. PICK h, k, t, s, I : h = handler[w] /\ k = h.key /\ t = task[k] /\ s = sessions[k] /\ I = infos[k]
  OBVIOUS
<1>3. h.pc # "idle" /\ h.pc \in Pcs /\ k \in Keys /\ HandGood(h, t, s, I) /\ KeyGood(t, s, I) /\ h.info # 0
  BY <1>1, <1>2 DEF InOrder, Handled, Keyed, Typed, HandlerType
<1>4. h.info \in DOMAIN I /\ ~I[h.info].freed
  <2>1. h.pc \in {"map", "sendheader", "remap"} \/ h.pc \in {"back", "load", "store", "erase", "read", "send", "seek", "setpos"}
    BY <1>3 DEF HandGood, NoInfo, Pcs
  <2>2. CASE h.pc \in {"map", "sendheader", "remap"}
    BY <1>3, <2>2 DEF HandGood, OpenGood, BlockGood
  <2>3. CASE h.pc \in {"back", "load", "store", "erase", "read", "send", "seek", "setpos"}
    <3>1. h.info = s /\ s # None
      BY <1>3, <2>3 DEF HandGood, BlockGood
    <3> QED BY <1>3, <3>1 DEF KeyGood
  <2> QED BY <2>1, <2>2, <2>3
<1> QED BY <1>2, <1>3, <1>4 DEF Info

(* Every variable has its type, and a handler past the map has a FileInfo.   *)
THEOREM TypeCorrect == ASSUME Apart PROVE Spec => []TypeOK
<1>1. ASSUME Typed, InOrder PROVE TypeOK
  <2>1. \A f \in Files : stored[f] \in 0..FileSize[f]
    BY <1>1, DownloadAssumption DEF Typed
  <2>2. ASSUME NEW k \in Keys
        PROVE  /\ sessions[k] \in DOMAIN infos[k] \cup {None}
               /\ \A i \in DOMAIN infos[k] :
                    LET f == infos[k][i].file
                    IN  f \in Files /\ {infos[k][i].pos, infos[k][i].offset} \subseteq 0..FileSize[f]
    <3>1. PICK I : I = infos[k]
      OBVIOUS
    <3>2. KeyGood(task[k], sessions[k], I) /\ I \in Seq(InfoType)
      BY <1>1, <3>1 DEF InOrder, Keyed, Typed
    <3>3. ASSUME NEW i \in DOMAIN I
          PROVE  I[i].file \in Files /\ I[i].pos \in 0..FileSize[I[i].file] /\ I[i].offset \in 0..FileSize[I[i].file]
      <4>1. I[i] \in InfoType
        BY <3>2, ElementOfSeq, LenProperties
      <4> QED BY <3>2, <4>1 DEF KeyGood, InfoType
    <3> QED BY <3>1, <3>2, <3>3 DEF KeyGood
  <2>3. ASSUME NEW w \in Workers
        PROVE  /\ handler[w].key \in Keys \cup {0}
               /\ handler[w].info # 0 => handler[w].info \in DOMAIN infos[handler[w].key]
    <3>1. handler[w].key \in Keys \cup {0}
      BY <1>1 DEF InOrder, Handled, Idle
    <3> QED BY <1>1, <3>1, HandHas
  <2>4. \A k \in Keys : task[k].pc \in {"none", "folder", "asked", "waiting", "lost", "done", "gone"}
    BY <1>1 DEF Typed, TaskType
  <2>5. DOMAIN spent = {"late", "lost", "crash", "refused", "removed", "starved"}
    BY <1>1 DEF Typed, SpentType, Kinds
  <2> QED BY <1>1, <2>1, <2>2, <2>3, <2>4, <2>5 DEF TypeOK, Typed
<1> QED BY <1>1, AlwaysInOrder, PTL

(* What the client has written of a file is always a beginning of that file, *)
(* over refused blocks, lost connections, crashes and continued downloads.   *)
THEOREM AlwaysReceivedInOrder == ASSUME Apart PROVE Spec => []ReceivedInOrder
<1>1. ASSUME Typed, InOrder PROVE ReceivedInOrder
  BY <1>1 DEF InOrder, Keyed, KeyGood, ReceivedInOrder
<1> QED BY <1>1, AlwaysInOrder, PTL
===============================================================================
