----------------------------- MODULE UploadProofs -----------------------------
(****************************************************************************)
(* Theorems about Upload and Transfer, for every size of file and block and *)
(* every number of uploads, workers, lost connections, crashes, short and   *)
(* failed writes, deletions and restarts: when clients wait for the server  *)
(* before they continue (Patient), and no upload begins while another one   *)
(* of the file is under way (~Overlap).                                     *)
(****************************************************************************)
EXTENDS Transfer, FiniteSetTheorems, WellFoundedInduction, TLAPS

ClientPcs == {"new", "uploading", "send", "sending", "lost", "continuing", "done", "gone"}

Jobs == Requests \cup {None}
InfoRefs == DOMAIN infos \cup {0}
HandlerType == handler \in [Workers -> [pc : Steps, rq : Jobs, info : InfoRefs, val : Nat]]
ClientType == client \in [Uploads -> [pc : ClientPcs, pos : Nat, fid : DOMAIN rows \cup {0}, conn : Nat]]
TypeInv ==
  /\ disk \in Seq(Nat) /\ rows \in Seq({0, 1, Removed}) /\ linked \subseteq DOMAIN rows /\ listed \in Nat
  /\ infos \in Seq([pos : Nat, offset : Nat, freed : BOOLEAN])
  /\ sessions \in [Uploads -> DOMAIN infos \cup {None}]
  /\ inbox \subseteq Requests
  /\ HandlerType /\ ClientType
  /\ spent \in [{"lost", "crash", "short", "fail"} -> Nat]

\* One request is under way at a time, received or with a worker.
Works(w) == handler[w].pc # "idle"
Serial ==
  /\ \A r, s \in inbox : r = s
  /\ \A v, w \in Workers : Works(v) /\ Works(w) => v = w
  /\ inbox # {} => \A w \in Workers : ~Works(w)
  /\ \A w \in Workers : IF Works(w) THEN handler[w].rq \in Requests ELSE handler[w] = Idle

\* One upload is under way at a time.
Current(u) == client[u].pc \notin {"new", "done", "gone"} \/ Serving(u)
OneAtATime == /\ \A u, v \in Uploads : Current(u) /\ Current(v) => u = v
              /\ \A u \in Uploads : Serving(u) => client[u].pc \in {"uploading", "sending", "continuing", "lost", "gone"}

\* What is linked or finished is the first row of the path that has not been removed.
LiveFirst(f) == f \in DOMAIN rows /\ rows[f] # Removed /\ \A g \in DOMAIN rows : g < f => rows[g] = Removed
RowsFit == \A f \in DOMAIN rows : f \in linked \/ rows[f] = 1 => LiveFirst(f)

SessionsFit == /\ \A u \in Uploads : sessions[u] # None => ~infos[sessions[u]].freed
               /\ \A u, v \in Uploads : sessions[u] # None /\ sessions[u] = sessions[v] => u = v

\* A request and the client that sent it.
Waits(op) == CASE op = "upload" -> "uploading" [] op = "content" -> "sending" [] op = "continue" -> "continuing"
RequestFits(r) ==
  /\ r.conn <= client[r.u].conn
  /\ r.conn = client[r.u].conn => client[r.u].pc = Waits(r.op) /\ (r.op = "content" => client[r.u].pos = r.from - 1)
  /\ r.op = "upload" => client[r.u].pc \in {"uploading", "gone"}
  /\ r.op # "upload" => client[r.u].pc \in {"sending", "continuing", "lost"} /\ r.fid = client[r.u].fid
  /\ r.op = "content" => r.len > 0 /\ r.from > 0 /\ r.from - 1 + r.len <= Size

\* A client, the rows and its session.
ClientFits(u) ==
  /\ client[u].pc \in {"new", "gone", "uploading"} => client[u].fid = 0
  /\ client[u].pc \in {"send", "sending", "lost", "continuing"} => LiveFirst(client[u].fid)
  /\ client[u].pc = "done" /\ client[u].fid # 0 => rows[client[u].fid] \in {1, Removed}
  /\ client[u].fid = 0 => client[u].pos = 0
  /\ client[u].pc \in {"new", "done"} => sessions[u] = None
  /\ client[u].pc = "send" => /\ ~Finished
                              /\ sessions[u] # None => /\ infos[sessions[u]].pos = client[u].pos
                                                       /\ infos[sessions[u]].offset = client[u].pos
  /\ client[u].pc \in {"sending", "lost", "continuing"} /\ ~Serving(u) /\ Finished => sessions[u] = None

(* How far a handler at pc, with request r and the locals info and val, is.  *)
Held(r, info) == sessions[r.u] # None /\ info = sessions[r.u]
Stands(info, pos, off) == infos[info].pos = pos /\ infos[info].offset = off /\ off <= Len(disk)
StageFits(pc, r, info, val) ==
  /\ pc \in {"quick", "quicklink", "quickreply", "open", "map"} => sessions[r.u] = None
  /\ pc = "quicklink" => val \in DOMAIN rows /\ rows[val] = 1
  /\ pc \in {"open", "map", "insert", "fid", "link", "upreply", "find", "write", "back", "refuse", "load", "store",
             "state", "reopen", "remap", "seek", "setpos"} => ~Finished
  /\ pc \in {"map", "insert", "fid", "link", "upreply"} => disk = <<>>
  /\ pc \in {"map", "remap"} => info \in DOMAIN infos /\ infos[info] = NewInfo /\ \A v \in Uploads : sessions[v] # info
  /\ pc \in {"insert", "fid", "link", "upreply"} => sessions[r.u] # None /\ infos[sessions[r.u]] = NewInfo
  /\ pc = "fid" => \E f \in DOMAIN rows : rows[f] # Removed
  /\ pc \in {"link", "upreply"} => LiveFirst(val)
  /\ pc = "find" => r.from - 1 <= Len(disk)
                    /\ (sessions[r.u] # None => Stands(sessions[r.u], r.from - 1, r.from - 1))
  /\ pc \in {"write", "back", "refuse", "load", "store", "state", "erase", "seek", "setpos"} => Held(r, info)
  /\ pc = "back" => /\ infos[info].pos = r.from - 1 /\ infos[info].offset = r.from - 1 + val
                    /\ r.from - 1 <= Len(disk)
  /\ pc \in {"write", "refuse"} => Stands(info, r.from - 1, r.from - 1)
  /\ pc \in {"load", "store"} => Stands(info, r.from - 1, r.from - 1 + r.len)
  /\ pc = "store" => val = r.from - 1
  /\ pc \in {"state", "erase", "transfer"} => r.from - 1 + r.len = Size
  /\ pc = "state" => Len(disk) = Size
  /\ pc \in {"erase", "transfer"} => r.fid \in DOMAIN rows /\ rows[r.fid] = 1
  /\ pc \in {"transfer", "select"} => sessions[r.u] = None
  /\ pc = "answer" => /\ r.from - 1 + r.len <= Len(disk)
                      /\ r.from - 1 + r.len = Size => r.fid \in DOMAIN rows /\ rows[r.fid] = 1 /\ sessions[r.u] = None
                      /\ r.from - 1 + r.len # Size => /\ ~Finished /\ Held(r, info)
                                                      /\ Stands(info, r.from - 1 + r.len, r.from - 1 + r.len)
  /\ pc = "lookup" => (Finished => sessions[r.u] = None)
  /\ pc = "setpos" => infos[info].offset = Len(disk) /\ val = Len(disk)

OpOf(pc) == IF pc \in {"quick", "quicklink", "quickreply", "open", "map", "insert", "fid", "link", "upreply"}
            THEN "upload"
            ELSE IF pc \in {"lookup", "select", "reopen", "remap", "seek", "setpos"} THEN "continue" ELSE "content"
HandlerFits(w) ==
  Works(w) => /\ RequestFits(handler[w].rq) /\ handler[w].rq.op = OpOf(handler[w].pc)
              /\ StageFits(handler[w].pc, handler[w].rq, handler[w].info, handler[w].val)
RequestsFit == /\ \A r \in inbox : RequestFits(r) /\ StageFits(First(r.op), r, 0, 0)
               /\ \A w \in Workers : HandlerFits(w)

Inv == /\ TypeInv /\ Serial /\ OneAtATime /\ RowsFit /\ SessionsFit /\ RequestsFit
       /\ \A u \in Uploads : ClientFits(u)
       /\ FinishedIsWhole /\ DiskIsPrefix /\ AckedIsStored

-----------------------------------------------------------------------------
\* The length of a sequence of naturals.
LEMMA LenIsNat == \A s \in Seq(Nat) : Len(s) \in Nat
  OBVIOUS

(* What one worker with a request means for everybody else.                 *)

\* The worker of a request is the only one, and its client the only one under way.
LEMMA Alone ==
  ASSUME Inv, NEW w \in Workers, Works(w), NEW r, r = handler[w].rq
  PROVE  /\ r \in Requests /\ r.u \in Uploads /\ inbox = {}
         /\ \A v \in Workers \ {w} : handler[v] = Idle
         /\ \A u \in Uploads : Serving(u) <=> u = r.u
         /\ \A u \in Uploads \ {r.u} : client[u].pc \in {"new", "done", "gone"}
         /\ client[r.u].pc \in {"uploading", "sending", "continuing", "lost", "gone"}
         /\ RequestFits(r) /\ r.op = OpOf(handler[w].pc)
         /\ StageFits(handler[w].pc, r, handler[w].info, handler[w].val)
<1>1. r \in Requests /\ r.u \in Uploads /\ inbox = {}
  BY DEF Inv, Serial, Requests
<1>2. \A v \in Workers \ {w} : handler[v] = Idle
  BY DEF Inv, Serial
<1>3. r # None
  BY <1>1, NoneAssumption
<1>4. \A u \in Uploads : Serving(u) <=> u = r.u
  BY <1>1, <1>2, <1>3 DEF Serving, Idle
<1>5. \A u \in Uploads \ {r.u} : client[u].pc \in {"new", "done", "gone"}
  BY <1>1, <1>4 DEF Inv, OneAtATime, Current
<1>6. client[r.u].pc \in {"uploading", "sending", "continuing", "lost", "gone"}
  BY <1>1, <1>4 DEF Inv, OneAtATime
<1>7. HandlerFits(w)
  BY DEF Inv, RequestsFit
<1> QED
  BY <1>1, <1>2, <1>4, <1>5, <1>6, <1>7 DEF HandlerFits

\* A handler goes on with its request.
LEMMA GoesOn ==
  ASSUME Inv, TypeInv', NEW w \in Workers, Works(w), NEW r, r = handler[w].rq, NEW h, h = handler'[w],
         h.rq = r, h.pc # "idle", OpOf(h.pc) = r.op, StageFits(h.pc, r, h.info, h.val)',
         \A v \in Workers \ {w} : handler'[v] = handler[v], UNCHANGED <<inbox, client>>
  PROVE  /\ Serial' /\ OneAtATime' /\ RequestsFit'
         /\ \A u \in Uploads : Serving(u)' <=> u = r.u
<1>1. /\ r \in Requests /\ r.u \in Uploads /\ inbox = {}
      /\ \A v \in Workers \ {w} : handler[v] = Idle
      /\ \A u \in Uploads : Serving(u) <=> u = r.u
      /\ RequestFits(r)
  BY Alone
<1>2. r # None
  BY <1>1, NoneAssumption
<1>3. \A v \in Workers \ {w} : handler'[v] = Idle
  BY <1>1
<1>4. Serial'
  BY <1>1, <1>3 DEF Serial, Works, Idle
<1>5. \A u \in Uploads : Serving(u)' <=> u = r.u
  BY <1>1, <1>2, <1>3 DEF Serving, Idle
<1>6. OneAtATime'
  BY <1>1, <1>5 DEF OneAtATime, Current, Inv
<1>7. HandlerFits(w)'
  BY <1>1 DEF HandlerFits, RequestFits, StageFits, Stands, Held
<1>8. \A v \in Workers \ {w} : HandlerFits(v)'
  BY <1>3 DEF HandlerFits, Works, Idle
<1>9. RequestsFit'
  BY <1>1, <1>7, <1>8 DEF RequestsFit
<1> QED
  BY <1>4, <1>5, <1>6, <1>9

\* A handler ends, with or without an answer.
LEMMA EndsHere ==
  ASSUME Inv, TypeInv', NEW w \in Workers, Works(w), NEW r, r = handler[w].rq,
         Ends(w), inbox' = inbox, \A v \in Uploads \ {r.u} : client'[v] = client[v]
  PROVE  /\ Serial' /\ OneAtATime' /\ RequestsFit'
         /\ \A u \in Uploads : ~Serving(u)'
<1>1. /\ r \in Requests /\ r.u \in Uploads /\ inbox = {}
      /\ \A v \in Workers \ {w} : handler[v] = Idle
      /\ \A u \in Uploads : Serving(u) <=> u = r.u
      /\ \A u \in Uploads \ {r.u} : client[u].pc \in {"new", "done", "gone"}
  BY Alone
<1>2. \A v \in Workers : handler'[v] = Idle
  BY <1>1 DEF Ends, Inv, TypeInv, HandlerType
<1>3. Serial'
  BY <1>1, <1>2 DEF Serial, Works, Idle
<1>4. \A u \in Uploads : ~Serving(u)'
  BY <1>1, <1>2 DEF Serving, Idle
<1>5. OneAtATime'
  BY <1>1, <1>4 DEF OneAtATime, Current
<1>6. RequestsFit'
  BY <1>1, <1>2 DEF RequestsFit, HandlerFits, Works, Idle
<1> QED
  BY <1>3, <1>4, <1>5, <1>6

\* The clients that are not under way.
LEMMA OtherClients ==
  ASSUME Inv, TypeInv', NEW w \in Workers, Works(w), NEW r, r = handler[w].rq,
         \A v \in Uploads \ {r.u} : client'[v] = client[v] /\ sessions'[v] = sessions[v],
         \A f \in DOMAIN rows : rows[f] \in {1, Removed} => rows'[f] \in {1, Removed}
  PROVE  \A v \in Uploads \ {r.u} : ClientFits(v)'
<1>1. \A u \in Uploads \ {r.u} : client[u].pc \in {"new", "done", "gone"}
  BY Alone
<1>2. TAKE v \in Uploads \ {r.u}
<1>3. client[v].fid \in DOMAIN rows \cup {0}
  BY DEF Inv, TypeInv, ClientType
<1>4. ClientFits(v)
  BY DEF Inv
<1> QED
  BY <1>1, <1>3, <1>4 DEF ClientFits

\* What stays when neither the tables nor the file change.
LEMMA Undisturbed ==
  ASSUME Inv, UNCHANGED <<rows, linked, disk>>
  PROVE  RowsFit' /\ FinishedIsWhole' /\ DiskIsPrefix' /\ (Finished' <=> Finished)
  BY DEF Inv, RowsFit, LiveFirst, FinishedIsWhole, DiskIsPrefix, Finished


\* A step of the handler of request r, to pc and with these locals.
Becomes(w, pc, r, info, val) ==
  /\ handler'[w].pc = pc /\ handler'[w].rq = r /\ handler'[w].info = info /\ handler'[w].val = val
  /\ \A v \in Workers \ {w} : handler'[v] = handler[v]
  /\ HandlerType'

\* A handler that only goes on: its request and its locals stay.
LEMMA GoingOn ==
  ASSUME HandlerType, NEW w \in Workers, NEW r, r = handler[w].rq, NEW pc \in Steps, NEW info, NEW val,
         info = handler[w].info, val = handler[w].val, InfoRefs \subseteq InfoRefs',
         Goes(w, pc)
  PROVE  info \in InfoRefs' /\ val \in Nat /\ Becomes(w, pc, r, info, val)
<1>1. HandlerType'
  BY DEF HandlerType, Goes
<1>2. /\ handler'[w].pc = pc /\ handler'[w].rq = r /\ handler'[w].info = info /\ handler'[w].val = val
      /\ \A v \in Workers \ {w} : handler'[v] = handler[v]
  BY DEF HandlerType, Goes
<1>3. info \in InfoRefs' /\ val \in Nat
  BY DEF HandlerType
<1> QED
  BY <1>1, <1>2, <1>3 DEF Becomes

\* A handler that goes on with another FileInfo.
LEMMA GoingOnWithInfo ==
  ASSUME HandlerType, NEW w \in Workers, NEW r, r = handler[w].rq, NEW pc \in Steps, NEW info, NEW val,
         info \in InfoRefs', val = handler[w].val, InfoRefs \subseteq InfoRefs',
         handler' = [handler EXCEPT ![w].pc = pc, ![w].info = info]
  PROVE  info \in InfoRefs' /\ val \in Nat /\ Becomes(w, pc, r, info, val)
<1>1. HandlerType'
  BY DEF HandlerType
<1>2. /\ handler'[w].pc = pc /\ handler'[w].rq = r /\ handler'[w].info = info /\ handler'[w].val = val
      /\ \A v \in Workers \ {w} : handler'[v] = handler[v]
  BY DEF HandlerType
<1>3. info \in InfoRefs' /\ val \in Nat
  BY DEF HandlerType
<1> QED
  BY <1>1, <1>2, <1>3 DEF Becomes

\* A handler that goes on with another local value.
LEMMA GoingOnWithVal ==
  ASSUME HandlerType, NEW w \in Workers, NEW r, r = handler[w].rq, NEW pc \in Steps, NEW info, NEW val,
         info = handler[w].info, val \in Nat, InfoRefs \subseteq InfoRefs',
         handler' = [handler EXCEPT ![w].pc = pc, ![w].val = val]
  PROVE  info \in InfoRefs' /\ val \in Nat /\ Becomes(w, pc, r, info, val)
<1>1. HandlerType'
  BY DEF HandlerType
<1>2. /\ handler'[w].pc = pc /\ handler'[w].rq = r /\ handler'[w].info = info /\ handler'[w].val = val
      /\ \A v \in Workers \ {w} : handler'[v] = handler[v]
  BY DEF HandlerType
<1>3. info \in InfoRefs' /\ val \in Nat
  BY DEF HandlerType
<1> QED
  BY <1>1, <1>2, <1>3 DEF Becomes

\* What any step of a handler that goes on has to respect.
LEMMA AnyStep ==
  ASSUME Inv, NEW w \in Workers, Works(w), NEW r, r = handler[w].rq,
         NEW pc \in Steps \ {"idle"}, NEW info \in InfoRefs', NEW val \in Nat,
         Becomes(w, pc, r, info, val), OpOf(pc) = r.op, StageFits(pc, r, info, val)',
         infos' \in Seq([pos : Nat, offset : Nat, freed : BOOLEAN]), DOMAIN infos \subseteq DOMAIN infos',
         sessions' \in [Uploads -> DOMAIN infos' \cup {None}], listed' \in Nat,
         rows' \in Seq({0, 1, Removed}), linked' \subseteq DOMAIN rows', disk' \in Seq(Nat),
         UNCHANGED <<inbox, client>>, spent' = spent \/ spent' \in [{"lost", "crash", "short", "fail"} -> Nat],
         SessionsFit', \A v \in Uploads \ {r.u} : sessions'[v] = sessions[v],
         DOMAIN rows \subseteq DOMAIN rows',
         \A f \in DOMAIN rows : rows[f] \in {1, Removed} => rows'[f] \in {1, Removed},
         \A f : LiveFirst(f) => LiveFirst(f)',
         RowsFit', FinishedIsWhole', DiskIsPrefix', AckedIsStored'
  PROVE  Inv'
<1> PICK h : h = handler'[w]
  OBVIOUS
<1> /\ h.rq = r /\ h.pc = pc /\ h.info = info /\ h.val = val
    /\ \A v \in Workers \ {w} : handler'[v] = handler[v]
  BY DEF Becomes
<1>1. /\ r \in Requests /\ r.u \in Uploads
      /\ client[r.u].pc \in {"uploading", "sending", "continuing", "lost", "gone"}
  BY Alone
<1>2. TypeInv'
  <2>1. HandlerType'
    BY DEF Becomes
  <2>2. ClientType'
    BY DEF Inv, TypeInv, ClientType
  <2> QED
    BY <2>1, <2>2 DEF Inv, TypeInv
<1>3. StageFits(h.pc, r, h.info, h.val)'
  BY Zenon
<1>4. /\ Serial' /\ OneAtATime' /\ RequestsFit'
      /\ \A u \in Uploads : Serving(u)' <=> u = r.u
  BY <1>2, <1>3, GoesOn
<1>5. \A v \in Uploads \ {r.u} : ClientFits(v)'
  BY <1>2, OtherClients
<1>6. ClientFits(r.u)'
  <2>1. ClientFits(r.u)
    BY <1>1 DEF Inv
  <2>2. LiveFirst(client[r.u].fid) => LiveFirst(client[r.u].fid)'
    <3>1. PICK f : f = client[r.u].fid
      OBVIOUS
    <3>2. f = client'[r.u].fid /\ (LiveFirst(f) => LiveFirst(f)')
      BY <3>1
    <3> QED
      BY <3>1, <3>2 DEF LiveFirst
  <2> QED
    BY <1>1, <1>4, <2>1, <2>2 DEF ClientFits, LiveFirst
<1> QED
  BY <1>2, <1>4, <1>5, <1>6 DEF Inv

\* A step of a handler that changes neither the tables nor the file.
LEMMA QuietStep ==
  ASSUME Inv, NEW w \in Workers, Works(w), NEW r, r = handler[w].rq,
         NEW pc \in Steps \ {"idle"}, NEW info \in InfoRefs', NEW val \in Nat,
         Becomes(w, pc, r, info, val), OpOf(pc) = r.op, StageFits(pc, r, info, val)',
         infos' \in Seq([pos : Nat, offset : Nat, freed : BOOLEAN]), DOMAIN infos \subseteq DOMAIN infos',
         sessions' \in [Uploads -> DOMAIN infos' \cup {None}], listed' \in Nat,
         UNCHANGED <<rows, linked, disk, inbox, client, spent>>,
         SessionsFit', \A v \in Uploads \ {r.u} : sessions'[v] = sessions[v]
  PROVE  Inv'
<1>1. RowsFit' /\ FinishedIsWhole' /\ DiskIsPrefix'
  BY Undisturbed
<1>2. AckedIsStored'
  BY DEF Inv, AckedIsStored
<1>3. \A f : LiveFirst(f) => LiveFirst(f)'
  BY DEF LiveFirst
<1>4. /\ rows' \in Seq({0, 1, Removed}) /\ linked' \subseteq DOMAIN rows' /\ disk' \in Seq(Nat)
      /\ DOMAIN rows \subseteq DOMAIN rows'
      /\ \A f \in DOMAIN rows : rows[f] \in {1, Removed} => rows'[f] \in {1, Removed}
  BY DEF Inv, TypeInv
<1> QED
  BY <1>1, <1>2, <1>3, <1>4, AnyStep

\* The end of a handler, likewise.
LEMMA QuietEnd ==
  ASSUME Inv, TypeInv', NEW w \in Workers, Works(w), NEW r, r = handler[w].rq,
         Ends(w), UNCHANGED <<rows, disk, sessions, infos, inbox>>, RowsFit',
         \A v \in Uploads \ {r.u} : client'[v] = client[v],
         ClientFits(r.u)', client'[r.u].fid # 0 => client'[r.u].pos <= Len(disk)
  PROVE  Inv'
<1>1. Serial' /\ OneAtATime' /\ RequestsFit'
  BY EndsHere
<1>2. FinishedIsWhole' /\ DiskIsPrefix' /\ SessionsFit'
  BY DEF Inv, FinishedIsWhole, DiskIsPrefix, Finished, SessionsFit
<1>3. \A v \in Uploads \ {r.u} : ClientFits(v)'
  BY OtherClients
<1>4. AckedIsStored'
  BY DEF Inv, AckedIsStored
<1> QED
  BY <1>1, <1>2, <1>3, <1>4 DEF Inv
-----------------------------------------------------------------------------
(* HandleUpFileRq.                                                          *)

\* Whatever the answer is, only its client can get it.
LEMMA Replied ==
  ASSUME Inv, NEW r \in Requests, NEW c, Reply(r, c),
         c \in [pc : ClientPcs, pos : Nat, fid : DOMAIN rows \cup {0}, conn : Nat]
  PROVE  /\ UNCHANGED rows => ClientType'
         /\ \A v \in Uploads \ {r.u} : client'[v] = client[v]
         /\ client'[r.u] = IF client[r.u].conn = r.conn THEN c ELSE client[r.u]
  BY DEF Reply, Inv, TypeInv, ClientType, Requests

\* A handler that ends leaves the handlers typed.
LEMMA EndsTyped ==
  ASSUME TypeInv, NEW w \in Workers, Ends(w), UNCHANGED infos
  PROVE  HandlerType'
<1>1. Idle \in [pc : Steps, rq : Jobs, info : InfoRefs, val : Nat]
  BY DEF Idle, Steps, Jobs, InfoRefs
<1> QED
  BY <1>1 DEF Ends, TypeInv, HandlerType, InfoRefs

\* The look for a finished file keeps the invariant.
LEMMA UpQuickStep ==
  ASSUME Inv, NEW w \in Workers, UpQuick(w)
  PROVE  Inv'
<1> PICK r : r = handler[w].rq
  OBVIOUS
<1> Works(w) /\ handler[w].pc = "quick"
  BY DEF UpQuick, At, Works
<1>1. /\ r \in Requests /\ r.u \in Uploads /\ r.op = "upload"
      /\ StageFits("quick", r, handler[w].info, handler[w].val)
  BY Alone DEF OpOf
<1>4. UNCHANGED <<rows, linked, disk, listed, sessions, infos, inbox, client, spent>>
  BY DEF UpQuick, database, files, memory
<1>2. CASE Finished
  <2>1. PICK i \in DOMAIN rows : rows[i] = 1 /\ handler' = [handler EXCEPT ![w].pc = "quicklink", ![w].val = i]
    BY <1>2 DEF UpQuick
  <2>2. PICK info : info = handler[w].info
    OBVIOUS
  <2>3. info \in InfoRefs' /\ i \in Nat /\ Becomes(w, "quicklink", r, info, i)
    <3>1. HandlerType /\ "quicklink" \in Steps /\ i \in Nat /\ InfoRefs \subseteq InfoRefs'
      BY <1>4 DEF Inv, TypeInv, Steps, InfoRefs
    <3> QED
      BY <2>1, <2>2, <3>1, GoingOnWithVal
  <2>4. StageFits("quicklink", r, info, i)'
    BY <1>1, <1>4, <2>1 DEF StageFits
  <2>5. SessionsFit' /\ sessions' \in [Uploads -> DOMAIN infos' \cup {None}]
    BY <1>4 DEF Inv, SessionsFit, TypeInv
  <2> QED
    BY <1>1, <1>4, <2>3, <2>4, <2>5, QuietStep DEF Steps, OpOf, Inv, TypeInv
<1>3. CASE ~Finished
  <2>1. Goes(w, "open") /\ UNCHANGED <<rows, linked, disk, listed, sessions, infos, inbox, client, spent>>
    BY <1>3, <1>4 DEF UpQuick
  <2>2. PICK info, val : info = handler[w].info /\ val = handler[w].val
    OBVIOUS
  <2>3. info \in InfoRefs' /\ val \in Nat /\ Becomes(w, "open", r, info, val)
    BY <2>1, <2>2, GoingOn DEF Inv, TypeInv, Steps, InfoRefs
  <2>4. StageFits("open", r, info, val)'
    BY <1>1, <1>3, <2>1 DEF StageFits, Finished
  <2> QED
    BY <1>1, <2>1, <2>3, <2>4, QuietStep DEF OpOf, Inv, TypeInv, SessionsFit, Steps
<1> QED
  BY <1>2, <1>3

\* The relation of a quick upload is one to a finished file.
LEMMA UpQuickLinkStep ==
  ASSUME Inv, NEW w \in Workers, UpQuickLink(w)
  PROVE  Inv'
<1> PICK r, info, val : r = handler[w].rq /\ info = handler[w].info /\ val = handler[w].val
  OBVIOUS
<1> Works(w) /\ handler[w].pc = "quicklink"
  BY DEF UpQuickLink, At, Works
<1>1. r \in Requests /\ r.u \in Uploads /\ r.op = "upload" /\ StageFits("quicklink", r, info, val)
  BY Alone DEF OpOf
<1>2. UNCHANGED <<rows, disk, listed, sessions, infos, inbox, client, spent>> /\ linked' = linked \cup {val}
  BY DEF UpQuickLink, files, memory
<1>3. val \in DOMAIN rows /\ rows[val] = 1 /\ sessions[r.u] = None
  BY <1>1 DEF StageFits
<1>4. info \in InfoRefs' /\ val \in Nat /\ Becomes(w, "quickreply", r, info, val)
  <2>1. HandlerType /\ "quickreply" \in Steps /\ InfoRefs \subseteq InfoRefs'
    BY <1>2 DEF Inv, TypeInv, Steps, InfoRefs
  <2>2. Goes(w, "quickreply")
    BY DEF UpQuickLink
  <2> QED
    BY <2>1, <2>2, GoingOn
<1>5. StageFits("quickreply", r, info, val)'
  BY <1>2, <1>3 DEF StageFits
<1>6. RowsFit'
  BY <1>2, <1>3 DEF Inv, RowsFit, LiveFirst
<1>7. FinishedIsWhole' /\ DiskIsPrefix' /\ AckedIsStored' /\ SessionsFit'
  BY <1>2 DEF Inv, FinishedIsWhole, Finished, DiskIsPrefix, AckedIsStored, SessionsFit
<1>8. /\ infos' \in Seq([pos : Nat, offset : Nat, freed : BOOLEAN]) /\ DOMAIN infos \subseteq DOMAIN infos'
      /\ sessions' \in [Uploads -> DOMAIN infos' \cup {None}] /\ listed' \in Nat
      /\ rows' \in Seq({0, 1, Removed}) /\ linked' \subseteq DOMAIN rows' /\ disk' \in Seq(Nat)
      /\ DOMAIN rows \subseteq DOMAIN rows' /\ \A f \in DOMAIN rows : rows'[f] = rows[f]
      /\ \A v \in Uploads \ {r.u} : sessions'[v] = sessions[v]
  BY <1>2, <1>3 DEF Inv, TypeInv
<1>9. \A f : LiveFirst(f) => LiveFirst(f)'
  BY <1>2 DEF LiveFirst
<1>10. "quickreply" \in Steps \ {"idle"} /\ OpOf("quickreply") = r.op
  BY <1>1 DEF Steps, OpOf
<1> QED
  BY <1>2, <1>4, <1>5, <1>6, <1>7, <1>8, <1>9, <1>10, AnyStep

\* The answer to a quick upload keeps the invariant.
LEMMA UpQuickReplyStep ==
  ASSUME Inv, NEW w \in Workers, UpQuickReply(w)
  PROVE  Inv'
<1> PICK r : r = handler[w].rq
  OBVIOUS
<1> Works(w) /\ handler[w].pc = "quickreply"
  BY DEF UpQuickReply, At, Works
<1>1. /\ r \in Requests /\ r.u \in Uploads
      /\ client[r.u].pc \in {"uploading", "sending", "continuing", "lost", "gone"}
      /\ RequestFits(r) /\ r.op = "upload"
      /\ StageFits("quickreply", r, handler[w].info, handler[w].val)
  BY Alone DEF OpOf
<1>2. PICK c : c = [client[r.u] EXCEPT !.pc = "done"]
  OBVIOUS
<1>3. Reply(r, c) /\ Ends(w) /\ UNCHANGED <<rows, linked, disk, listed, sessions, infos, inbox, spent>>
  BY <1>2 DEF UpQuickReply, Rq, database, files, memory
<1>4. c \in [pc : ClientPcs, pos : Nat, fid : DOMAIN rows \cup {0}, conn : Nat]
  BY <1>1, <1>2, ZenonT(60) DEF Inv, TypeInv, ClientType, ClientPcs
<1>5. /\ ClientType'
      /\ \A v \in Uploads \ {r.u} : client'[v] = client[v]
      /\ client'[r.u] = IF client[r.u].conn = r.conn THEN c ELSE client[r.u]
  BY <1>1, <1>3, <1>4, Replied
<1>6. TypeInv'
  <2>1. HandlerType'
    BY <1>3, EndsTyped DEF Inv
  <2> QED
    BY <1>3, <1>5, <2>1 DEF Inv, TypeInv
<1>7. RowsFit'
  BY <1>3 DEF Inv, RowsFit, LiveFirst
<1>9. client[r.u].fid = 0 /\ client[r.u].pos = 0
  BY <1>1 DEF Inv, ClientFits, RequestFits
<1>10. client'[r.u].fid = 0 /\ client'[r.u].pos = 0 /\ client'[r.u].pc \in {"uploading", "gone", "done"}
  <2>1. client[r.u].pc \in {"uploading", "gone"}
    BY <1>1 DEF RequestFits
  <2> QED
    BY <1>1, <1>2, <1>5, <1>9, <2>1, ZenonT(60) DEF Inv, TypeInv, ClientType
<1>11. ClientFits(r.u)'
  <2>1. sessions[r.u] = None
    BY <1>1 DEF StageFits
  <2> QED
    BY <1>3, <1>10, <2>1 DEF ClientFits
<1> QED
  BY <1>3, <1>5, <1>6, <1>7, <1>10, <1>11, QuietEnd

\* The f_id that UpFid selects is that of the first row that has not been removed.
LEMMA SmallestExists ==
  ASSUME NEW S, S \subseteq Nat, S # {}
  PROVE  \E f \in S : \A g \in S : f <= g
<1> DEFINE R == {ss \in Nat \X Nat : ss[1] < ss[2]}
<1>1. IsWellFoundedOn(R, Nat)
  BY NatLessThanWellFounded, Zenon DEF OpToRel
<1>2. \A f, g \in Nat : g < f => <<g, f>> \in R
  OBVIOUS
<1> HIDE DEF R
<1>3. PICK f \in S : \A g \in S : ~ (<<g, f>> \in R)
  BY <1>1, WFMin
<1>4. ASSUME NEW g \in S
      PROVE  f <= g
  <2>1. f \in Nat /\ g \in Nat /\ ~(g < f)
    BY <1>2, <1>3
  <2> QED
    BY <2>1
<1> QED
  BY <1>4

\* The select by path finds the first row that has not been removed.
LEMMA FirstSelected ==
  ASSUME TypeInv, \E g \in DOMAIN rows : rows[g] # Removed,
         NEW f, f = SelectInSeq(rows, LAMBDA x : x # Removed)
  PROVE  LiveFirst(f) /\ f \in Nat
<1> PICK S : S = {i \in 1..Len(rows) : rows[i] # Removed}
  OBVIOUS
<1>1. S \subseteq Nat /\ S # {} /\ DOMAIN rows = 1..Len(rows)
  BY SMTT(60) DEF TypeInv
<1>2. f = CHOOSE x \in S : \A y \in S : x =< y
  BY <1>1 DEF SelectInSeq, Min
<1>3. \E x \in S : \A y \in S : x =< y
  BY <1>1, SmallestExists
<1>4. f \in S /\ \A y \in S : f =< y
  BY <1>2, <1>3
<1>5. ASSUME NEW g \in DOMAIN rows, g < f
      PROVE  rows[g] = Removed
  <2>1. g \in S => f =< g
    BY <1>4
  <2>2. f \in Nat /\ g \in Nat /\ g \notin S
    BY <1>1, <1>4, <1>5, <2>1
  <2> QED
    BY <1>1, <2>2
<1> QED
  BY <1>1, <1>4, <1>5 DEF LiveFirst


\* What Append does to a sequence.
LEMMA Appended ==
  ASSUME NEW S, NEW s \in Seq(S), NEW x \in S, NEW t, t = Append(s, x)
  PROVE  /\ t \in Seq(S) /\ Len(t) = Len(s) + 1 /\ Len(t) \notin DOMAIN s
         /\ DOMAIN t = DOMAIN s \cup {Len(t)} /\ t[Len(t)] = x
         /\ \A i \in DOMAIN s : t[i] = s[i]
  OBVIOUS

\* A new FileInfo gets a number no other has.
LEMMA Opened ==
  ASSUME TypeInv, infos' = Append(infos, NewInfo), NEW n, n = Len(infos')
  PROVE  /\ infos' \in Seq([pos : Nat, offset : Nat, freed : BOOLEAN]) /\ DOMAIN infos' = DOMAIN infos \cup {n}
         /\ n \in Nat /\ n \notin DOMAIN infos /\ infos'[n] = NewInfo
         /\ \A i \in DOMAIN infos : infos'[i] = infos[i]
<1>1. PICK I, x, t : I = [pos : Nat, offset : Nat, freed : BOOLEAN] /\ x = NewInfo /\ t = Append(infos, x)
  OBVIOUS
<1>2. infos \in Seq(I) /\ x \in I
  BY <1>1 DEF TypeInv, NewInfo
<1>3. /\ t \in Seq(I) /\ Len(t) = Len(infos) + 1 /\ Len(t) \notin DOMAIN infos /\ t[Len(t)] = x
      /\ DOMAIN t = DOMAIN infos \cup {Len(t)} /\ \A i \in DOMAIN infos : t[i] = infos[i]
  BY <1>1, <1>2, Appended
<1>4. Len(infos) \in Nat
  BY DEF TypeInv
<1> QED
  BY <1>1, <1>3, <1>4

\* The step UpOpen keeps the invariant.
LEMMA UpOpenStep ==
  ASSUME Inv, NEW w \in Workers, UpOpen(w)
  PROVE  Inv'
<1> PICK r, val : r = handler[w].rq /\ val = handler[w].val
  OBVIOUS
<1> Works(w) /\ handler[w].pc = "open"
  BY DEF UpOpen, At, Works
<1>1. /\ r \in Requests /\ r.u \in Uploads
      /\ client[r.u].pc \in {"uploading", "sending", "continuing", "lost", "gone"}
      /\ \A u \in Uploads \ {r.u} : client[u].pc \in {"new", "done", "gone"}
      /\ RequestFits(r) /\ r.op = "upload"
      /\ StageFits("open", r, handler[w].info, handler[w].val)
  BY Alone DEF OpOf
<1>2. UNCHANGED <<rows, linked, listed, sessions, inbox, client, spent>> /\ disk' = <<>>
  BY DEF UpOpen, database
<1>3. PICK n : n = Len(infos')
  OBVIOUS
<1>4. /\ infos' \in Seq([pos : Nat, offset : Nat, freed : BOOLEAN]) /\ DOMAIN infos' = DOMAIN infos \cup {n}
      /\ n \in Nat /\ n \notin DOMAIN infos /\ infos'[n] = NewInfo
      /\ \A i \in DOMAIN infos : infos'[i] = infos[i]
  BY <1>3, Opened DEF UpOpen, Inv
<1>5. n \in InfoRefs' /\ val \in Nat /\ Becomes(w, "map", r, n, val)
  <2>1. HandlerType /\ "map" \in Steps /\ n \in InfoRefs' /\ InfoRefs \subseteq InfoRefs'
    BY <1>4 DEF Inv, TypeInv, Steps, InfoRefs
  <2>2. handler' = [handler EXCEPT ![w].pc = "map", ![w].info = n]
    BY <1>3 DEF UpOpen
  <2> QED
    BY <2>1, <2>2, GoingOnWithInfo
<1>6. ~Finished
  BY <1>1 DEF StageFits
<1>7. sessions' \in [Uploads -> DOMAIN infos' \cup {None}]
  BY <1>2, <1>4 DEF Inv, TypeInv
<1>8. StageFits("map", r, n, val)'
  <2>1. \A v \in Uploads : sessions'[v] # n
    BY <1>2, <1>4, NoneAssumption DEF Inv, TypeInv
  <2> QED
    BY <1>1, <1>2, <1>4, <1>6, <2>1 DEF StageFits, Finished, NewInfo
<1>9. SessionsFit'
  BY <1>2, <1>4 DEF Inv, TypeInv, SessionsFit
<1>10. RowsFit' /\ FinishedIsWhole' /\ DiskIsPrefix'
  BY <1>2, <1>6, UploadAssumption DEF Inv, RowsFit, LiveFirst, Finished, FinishedIsWhole, DiskIsPrefix
<1>11. AckedIsStored'
  <2> SUFFICES ASSUME NEW u \in Uploads, client[u].fid # 0, rows[client[u].fid] # Removed
               PROVE  FALSE
    BY <1>2 DEF AckedIsStored
  <2>1. ClientFits(u) /\ client[u].fid \in DOMAIN rows
    BY DEF Inv, TypeInv, ClientType
  <2>2. client[u].pc \in {"new", "done", "gone", "uploading"}
    BY <1>1 DEF RequestFits
  <2> QED
    BY <1>6, <2>1, <2>2 DEF ClientFits, Finished
<1>12. /\ rows' \in Seq({0, 1, Removed}) /\ linked' \subseteq DOMAIN rows' /\ disk' \in Seq(Nat) /\ listed' \in Nat
       /\ DOMAIN rows \subseteq DOMAIN rows'
       /\ \A f \in DOMAIN rows : rows[f] \in {1, Removed} => rows'[f] \in {1, Removed}
       /\ \A f : LiveFirst(f) => LiveFirst(f)'
  BY <1>2 DEF Inv, TypeInv, LiveFirst
<1> QED
  BY <1>1, <1>2, <1>4, <1>5, <1>7, <1>8, <1>9, <1>10, <1>11, <1>12, AnyStep DEF Steps, OpOf

\* The step UpMap keeps the invariant.
LEMMA UpMapStep ==
  ASSUME Inv, NEW w \in Workers, UpMap(w)
  PROVE  Inv'
<1> PICK r, info, val : r = handler[w].rq /\ info = handler[w].info /\ val = handler[w].val
  OBVIOUS
<1> Works(w) /\ handler[w].pc = "map"
  BY DEF UpMap, At, Works
<1>1. r \in Requests /\ r.u \in Uploads /\ r.op = "upload" /\ StageFits("map", r, info, val)
  BY Alone DEF OpOf
<1>2. UNCHANGED <<rows, linked, disk, listed, infos, inbox, client, spent>> /\ sessions' = [sessions EXCEPT ![r.u] = info]
  BY DEF UpMap, database, files, Rq
<1>3. info \in InfoRefs' /\ val \in Nat /\ Becomes(w, "insert", r, info, val)
  BY <1>2, GoingOn DEF UpMap, Inv, TypeInv, Steps, InfoRefs
<1>4. info \in DOMAIN infos /\ infos[info] = NewInfo /\ disk = <<>> /\ ~Finished /\ \A v \in Uploads : sessions[v] # info
  BY <1>1 DEF StageFits
<1>5. /\ sessions' \in [Uploads -> DOMAIN infos' \cup {None}] /\ sessions'[r.u] = info
      /\ \A v \in Uploads \ {r.u} : sessions'[v] = sessions[v]
  BY <1>1, <1>2, <1>4 DEF Inv, TypeInv
<1>6. info # None
  BY <1>4, NoneAssumption DEF Inv, TypeInv
<1>7. StageFits("insert", r, info, val)'
  BY <1>2, <1>4, <1>5, <1>6 DEF StageFits, Finished, NewInfo
<1>8. SessionsFit'
  BY <1>2, <1>4, <1>5 DEF Inv, SessionsFit, NewInfo
<1> QED
  BY <1>1, <1>2, <1>3, <1>5, <1>7, <1>8, QuietStep DEF Steps, OpOf, Inv, TypeInv

\* The step UpFid keeps the invariant.
LEMMA UpFidStep ==
  ASSUME Inv, NEW w \in Workers, UpFid(w)
  PROVE  Inv'
<1> PICK r, info : r = handler[w].rq /\ info = handler[w].info
  OBVIOUS
<1> Works(w) /\ handler[w].pc = "fid"
  BY DEF UpFid, At, Works
<1>1. r \in Requests /\ r.u \in Uploads /\ r.op = "upload" /\ StageFits("fid", r, info, handler[w].val)
  BY Alone DEF OpOf
<1>2. UNCHANGED <<rows, linked, disk, listed, sessions, infos, inbox, client, spent>>
  BY DEF UpFid, database, files, memory
<1>3. PICK f : f = SelectInSeq(rows, LAMBDA x : x # Removed)
  OBVIOUS
<1>4. LiveFirst(f) /\ f \in Nat
  <2>1. \E g \in DOMAIN rows : rows[g] # Removed
    BY <1>1 DEF StageFits
  <2> QED
    BY <1>3, <2>1, FirstSelected DEF Inv
<1>5. info \in InfoRefs' /\ f \in Nat /\ Becomes(w, "link", r, info, f)
  <2>1. HandlerType /\ "link" \in Steps /\ InfoRefs \subseteq InfoRefs'
    BY <1>2 DEF Inv, TypeInv, Steps, InfoRefs
  <2>2. handler' = [handler EXCEPT ![w].pc = "link", ![w].val = f]
    BY <1>3 DEF UpFid
  <2> QED
    BY <1>4, <2>1, <2>2, GoingOnWithVal
<1>6. StageFits("link", r, info, f)'
  BY <1>1, <1>2, <1>4 DEF StageFits, Finished, LiveFirst
<1>7. SessionsFit' /\ sessions' \in [Uploads -> DOMAIN infos' \cup {None}]
  BY <1>2 DEF Inv, SessionsFit, TypeInv
<1> QED
  BY <1>1, <1>2, <1>5, <1>6, <1>7, QuietStep DEF Steps, OpOf, Inv, TypeInv


\* The step UpInsert keeps the invariant.
LEMMA UpInsertStep ==
  ASSUME Inv, NEW w \in Workers, UpInsert(w)
  PROVE  Inv'
<1> PICK r, info, val : r = handler[w].rq /\ info = handler[w].info /\ val = handler[w].val
  OBVIOUS
<1> Works(w) /\ handler[w].pc = "insert"
  BY DEF UpInsert, At, Works
<1>1. r \in Requests /\ r.u \in Uploads /\ r.op = "upload" /\ StageFits("insert", r, info, val)
  BY Alone DEF OpOf
<1>2. /\ UNCHANGED <<linked, disk, listed, sessions, infos, inbox, client, spent>>
      /\ rows' = Append(rows, 0) /\ Goes(w, "fid")
  BY DEF UpInsert, files, memory
<1>3. PICK n, t : t = Append(rows, 0) /\ n = Len(t)
  OBVIOUS
<1>4. /\ rows' \in Seq({0, 1, Removed}) /\ DOMAIN rows' = DOMAIN rows \cup {n} /\ n \notin DOMAIN rows
      /\ rows'[n] = 0 /\ n \in Nat /\ DOMAIN rows \subseteq Nat
      /\ \A i \in DOMAIN rows : rows'[i] = rows[i] /\ i < n
  <2>1. PICK S : S = {0, 1, Removed}
    OBVIOUS
  <2>2. rows \in Seq(S) /\ 0 \in S
    BY <2>1 DEF Inv, TypeInv
  <2>3. /\ t \in Seq(S) /\ Len(t) = Len(rows) + 1 /\ Len(t) \notin DOMAIN rows /\ t[Len(t)] = 0
        /\ DOMAIN t = DOMAIN rows \cup {Len(t)} /\ \A i \in DOMAIN rows : t[i] = rows[i]
    BY <1>3, <2>2, Appended
  <2>4. n \in Nat /\ DOMAIN rows \subseteq Nat /\ \A i \in DOMAIN rows : i < n
    BY <1>3, <2>2, <2>3
  <2> QED
    BY <1>2, <1>3, <2>1, <2>3, <2>4
<1>5. info \in InfoRefs' /\ val \in Nat /\ Becomes(w, "fid", r, info, val)
  BY <1>2, GoingOn DEF Inv, TypeInv, Steps, InfoRefs
<1>6. Finished' <=> Finished
  BY <1>4 DEF Finished
<1>7. \A f : LiveFirst(f) => LiveFirst(f)'
  <2> SUFFICES ASSUME NEW f, LiveFirst(f)
               PROVE  LiveFirst(f)'
    OBVIOUS
  <2>1. f \in DOMAIN rows' /\ rows'[f] # Removed
    BY <1>4 DEF LiveFirst
  <2>2. ASSUME NEW g \in DOMAIN rows', g < f
        PROVE  rows'[g] = Removed
    <3>1. f < n /\ f \in Int /\ g \in Int /\ n \in Int
      BY <1>4 DEF LiveFirst
    <3>2. g # n
      BY <2>2, <3>1
    <3> QED
      BY <1>4, <2>2, <3>2 DEF LiveFirst
  <2> QED
    BY <2>1, <2>2 DEF LiveFirst
<1>8. RowsFit'
  <2> SUFFICES ASSUME NEW f \in DOMAIN rows', f \in linked \/ rows'[f] = 1
               PROVE  LiveFirst(f)'
    BY <1>2 DEF RowsFit
  <2>1. f \in DOMAIN rows
    BY <1>4 DEF Inv, TypeInv
  <2>2. LiveFirst(f)
    BY <1>4, <2>1 DEF Inv, RowsFit
  <2> QED
    BY <1>7, <2>2
<1>9. FinishedIsWhole' /\ DiskIsPrefix' /\ SessionsFit'
  BY <1>2, <1>6 DEF Inv, FinishedIsWhole, DiskIsPrefix, SessionsFit
<1>10. AckedIsStored'
  BY <1>2, <1>4 DEF Inv, TypeInv, ClientType, AckedIsStored
<1>11. StageFits("fid", r, info, val)'
  <2>1. \E f \in DOMAIN rows' : rows'[f] # Removed
    BY <1>4 DEF Removed
  <2> QED
    BY <1>1, <1>2, <1>6, <2>1 DEF StageFits
<1>12. /\ infos' \in Seq([pos : Nat, offset : Nat, freed : BOOLEAN]) /\ DOMAIN infos \subseteq DOMAIN infos'
       /\ sessions' \in [Uploads -> DOMAIN infos' \cup {None}]
       /\ linked' \subseteq DOMAIN rows' /\ disk' \in Seq(Nat) /\ listed' \in Nat
       /\ \A v \in Uploads \ {r.u} : sessions'[v] = sessions[v]
  BY <1>2, <1>4 DEF Inv, TypeInv
<1> QED
  BY <1>1, <1>2, <1>4, <1>5, <1>7, <1>8, <1>9, <1>10, <1>11, <1>12, AnyStep DEF Steps, OpOf

\* The step UpLink keeps the invariant.
LEMMA UpLinkStep ==
  ASSUME Inv, NEW w \in Workers, UpLink(w)
  PROVE  Inv'
<1> PICK r, info, val : r = handler[w].rq /\ info = handler[w].info /\ val = handler[w].val
  OBVIOUS
<1> Works(w) /\ handler[w].pc = "link"
  BY DEF UpLink, At, Works
<1>1. r \in Requests /\ r.u \in Uploads /\ r.op = "upload" /\ StageFits("link", r, info, val)
  BY Alone DEF OpOf
<1>2. /\ UNCHANGED <<rows, disk, listed, sessions, infos, inbox, client, spent>>
      /\ linked' = linked \cup {val} /\ Goes(w, "upreply")
  BY DEF UpLink, files, memory
<1>3. LiveFirst(val)
  BY <1>1 DEF StageFits
<1>4. info \in InfoRefs' /\ val \in Nat /\ Becomes(w, "upreply", r, info, val)
  BY <1>2, GoingOn DEF Inv, TypeInv, Steps, InfoRefs
<1>5. RowsFit'
  BY <1>2, <1>3 DEF Inv, RowsFit, LiveFirst
<1>6. FinishedIsWhole' /\ DiskIsPrefix' /\ AckedIsStored' /\ SessionsFit'
  BY <1>2 DEF Inv, Finished, FinishedIsWhole, DiskIsPrefix, AckedIsStored, SessionsFit
<1>7. StageFits("upreply", r, info, val)'
  BY <1>1, <1>2, <1>3 DEF StageFits, LiveFirst, Finished
<1>8. /\ infos' \in Seq([pos : Nat, offset : Nat, freed : BOOLEAN]) /\ DOMAIN infos \subseteq DOMAIN infos'
      /\ sessions' \in [Uploads -> DOMAIN infos' \cup {None}]
      /\ rows' \in Seq({0, 1, Removed}) /\ linked' \subseteq DOMAIN rows' /\ disk' \in Seq(Nat) /\ listed' \in Nat
      /\ \A v \in Uploads \ {r.u} : sessions'[v] = sessions[v]
      /\ DOMAIN rows \subseteq DOMAIN rows' /\ \A f \in DOMAIN rows : rows'[f] = rows[f]
  BY <1>2, <1>3 DEF Inv, TypeInv, LiveFirst
<1>9. \A f : LiveFirst(f) => LiveFirst(f)'
  BY <1>2 DEF LiveFirst
<1> QED
  BY <1>1, <1>2, <1>4, <1>5, <1>6, <1>7, <1>8, <1>9, AnyStep DEF Steps, OpOf

\* The step UpReply keeps the invariant.
LEMMA UpReplyStep ==
  ASSUME Inv, NEW w \in Workers, UpReply(w)
  PROVE  Inv'
<1> PICK r, info, val : r = handler[w].rq /\ info = handler[w].info /\ val = handler[w].val
  OBVIOUS
<1> Works(w) /\ handler[w].pc = "upreply"
  BY DEF UpReply, At, Works
<1>1. r \in Requests /\ r.u \in Uploads /\ r.op = "upload" /\ RequestFits(r) /\ StageFits("upreply", r, info, val)
  BY Alone DEF OpOf
<1>2. PICK c : c = [client[r.u] EXCEPT !.pc = "send", !.fid = val]
  OBVIOUS
<1>3. Reply(r, c) /\ Ends(w) /\ UNCHANGED <<rows, linked, disk, listed, sessions, infos, inbox, spent>>
  BY <1>2 DEF UpReply, Rq, database, files, memory
<1>4. /\ LiveFirst(val) /\ ~Finished /\ disk = <<>> /\ sessions[r.u] # None /\ infos[sessions[r.u]] = NewInfo
      /\ client[r.u].pc \in {"uploading", "gone"}
  BY <1>1 DEF StageFits, RequestFits
<1>5. /\ c \in [pc : ClientPcs, pos : Nat, fid : DOMAIN rows \cup {0}, conn : Nat]
      /\ c.pc = "send" /\ c.fid = val /\ c.pos = client[r.u].pos /\ client[r.u].fid = 0 /\ client[r.u].pos = 0
  <2>1. ClientFits(r.u) /\ client[r.u] \in [pc : ClientPcs, pos : Nat, fid : DOMAIN rows \cup {0}, conn : Nat]
    BY <1>1 DEF Inv, TypeInv, ClientType
  <2> QED
    BY <1>2, <1>4, <2>1 DEF ClientFits, LiveFirst, ClientPcs
<1>6. /\ ClientType'
      /\ \A v \in Uploads \ {r.u} : client'[v] = client[v]
      /\ client'[r.u] = IF client[r.u].conn = r.conn THEN c ELSE client[r.u]
  BY <1>1, <1>3, <1>5, Replied
<1>7. TypeInv'
  <2>1. HandlerType'
    BY <1>3, EndsTyped DEF Inv
  <2> QED
    BY <1>3, <1>6, <2>1 DEF Inv, TypeInv
<1>8. \A u \in Uploads : ~Serving(u)'
  BY <1>3, <1>6, <1>7, EndsHere
<1>9. RowsFit'
  BY <1>3 DEF Inv, RowsFit, LiveFirst
<1>10. ClientFits(r.u)'
  <2>1. CASE client[r.u].conn = r.conn
    BY <1>3, <1>4, <1>5, <1>6, <2>1 DEF ClientFits, LiveFirst, Finished, NewInfo
  <2>2. CASE client[r.u].conn # r.conn
    BY <1>1, <1>3, <1>4, <1>5, <1>6, <2>2 DEF ClientFits, RequestFits
  <2> QED
    BY <2>1, <2>2
<1>11. client'[r.u].fid # 0 => client'[r.u].pos <= Len(disk)
  BY <1>4, <1>5, <1>6
<1> QED
  BY <1>3, <1>6, <1>7, <1>9, <1>10, <1>11, QuietEnd

-----------------------------------------------------------------------------
(* The end of a handler of a block, or of a request to continue.            *)

\* A handler that ends keeps the invariant when the client it answered, the disk and the sessions fit.
LEMMA AnyEnd ==
  ASSUME Inv, TypeInv', NEW w \in Workers, Works(w), NEW r, r = handler[w].rq,
         Ends(w), UNCHANGED <<rows, linked, sessions, inbox>>,
         FinishedIsWhole', DiskIsPrefix', SessionsFit', Len(disk) <= Len(disk'),
         \A v \in Uploads \ {r.u} : client'[v] = client[v],
         ClientFits(r.u)', client'[r.u].pos <= Len(disk')
  PROVE  Inv'
<1>1. Serial' /\ OneAtATime' /\ RequestsFit'
  BY EndsHere
<1>2. RowsFit'
  BY DEF Inv, RowsFit, LiveFirst
<1>3. \A v \in Uploads \ {r.u} : ClientFits(v)'
  BY OtherClients
<1>4. AckedIsStored'
  <2> SUFFICES ASSUME NEW u \in Uploads, client'[u].fid # 0, rows[client'[u].fid] # Removed
               PROVE  client'[u].pos <= Len(disk')
    BY DEF AckedIsStored
  <2>1. CASE u = r.u
    BY <2>1
  <2>2. CASE u # r.u
    <3>1. client'[u] = client[u] /\ client[u].pos <= Len(disk)
      BY <2>2 DEF Inv, AckedIsStored
    <3>2. client[u].pos \in Int /\ Len(disk) \in Int /\ Len(disk') \in Int
      BY DEF Inv, TypeInv, ClientType
    <3> QED
      BY <3>1, <3>2
  <2> QED
    BY <2>1, <2>2
<1> QED
  BY <1>1, <1>2, <1>3, <1>4 DEF Inv

\* The client gets no answer.
LEMMA Unanswered ==
  ASSUME Inv, NEW w \in Workers, Works(w), NEW r, r = handler[w].rq,
         Ends(w), UNCHANGED <<rows, linked, disk, listed, sessions, infos, inbox, client>>,
         spent' \in [{"lost", "crash", "short", "fail"} -> Nat], Finished => sessions[r.u] = None
  PROVE  Inv'
<1>1. /\ r \in Requests /\ r.u \in Uploads
      /\ client[r.u].pc \in {"uploading", "sending", "continuing", "lost", "gone"}
  BY Alone
<1>2. TypeInv'
  <2>1. HandlerType'
    BY EndsTyped DEF Inv
  <2> QED
    BY <2>1 DEF Inv, TypeInv, ClientType
<1>3. RowsFit'
  BY DEF Inv, RowsFit, LiveFirst
<1>4. ClientFits(r.u)'
  <2>1. ClientFits(r.u) /\ (Finished' <=> Finished)
    BY <1>1 DEF Inv, Finished
  <2> QED
    BY <1>1, <2>1 DEF ClientFits, LiveFirst
<1>5. Serial' /\ OneAtATime' /\ RequestsFit'
  BY <1>2, EndsHere
<1>6. \A v \in Uploads \ {r.u} : ClientFits(v)'
  BY <1>2, OtherClients
<1>7. FinishedIsWhole' /\ DiskIsPrefix' /\ SessionsFit' /\ AckedIsStored'
  BY DEF Inv, FinishedIsWhole, DiskIsPrefix, Finished, SessionsFit, AckedIsStored
<1> QED
  BY <1>1, <1>2, <1>3, <1>4, <1>5, <1>6, <1>7 DEF Inv

\* A bound that is used up leaves spent typed.
LEMMA SpendTyped ==
  ASSUME TypeInv, NEW what \in {"lost", "crash", "short", "fail"}, NEW bound, Spend(what, bound)
  PROVE  spent' \in [{"lost", "crash", "short", "fail"} -> Nat]
  BY DEF TypeInv, Spend

\* An open that fails leaves the client without an answer, and everything as it was.
LEMMA OpenFailsStep ==
  ASSUME Inv, NEW w \in Workers, OpenFails(w)
  PROVE  Inv'
<1> PICK r : r = handler[w].rq
  OBVIOUS
<1> Works(w) /\ handler[w].pc \in {"open", "reopen"}
  BY DEF OpenFails, At, Works
<1>1. ~Finished
  BY Alone DEF StageFits
<1>2. UNCHANGED <<rows, linked, disk, listed, sessions, infos, inbox, client>> /\ Ends(w)
  BY DEF OpenFails, database, files, memory
<1>3. spent' \in [{"lost", "crash", "short", "fail"} -> Nat]
  BY SpendTyped DEF OpenFails, Inv
<1> QED
  BY <1>1, <1>2, <1>3, Unanswered
-----------------------------------------------------------------------------
(* FileContentRq.                                                           *)

\* The step ContentFind keeps the invariant.
LEMMA ContentFindStep ==
  ASSUME Inv, NEW w \in Workers, ContentFind(w)
  PROVE  Inv'
<1> PICK r, val : r = handler[w].rq /\ val = handler[w].val
  OBVIOUS
<1> Works(w) /\ handler[w].pc = "find"
  BY DEF ContentFind, At, Works
<1>1. r \in Requests /\ r.u \in Uploads /\ r.op = "content" /\ StageFits("find", r, handler[w].info, val)
  BY Alone DEF OpOf
<1>2. UNCHANGED <<rows, linked, disk, listed, sessions, infos, inbox, client, spent>>
  BY DEF ContentFind, database, files, memory
<1>3. CASE sessions[r.u] = None
  <2>1. Ends(w) /\ spent' \in [{"lost", "crash", "short", "fail"} -> Nat]
    BY <1>2, <1>3 DEF ContentFind, Rq, Inv, TypeInv
  <2> QED
    BY <1>2, <1>3, <2>1, Unanswered
<1>4. CASE sessions[r.u] # None
  <2>1. PICK i : i = sessions[r.u]
    OBVIOUS
  <2>2. i \in DOMAIN infos
    BY <1>1, <1>4, <2>1 DEF Inv, TypeInv
  <2>3. i \in InfoRefs' /\ val \in Nat /\ Becomes(w, "write", r, i, val)
    <3>1. HandlerType /\ "write" \in Steps /\ i \in InfoRefs' /\ InfoRefs \subseteq InfoRefs'
      BY <1>2, <2>2 DEF Inv, TypeInv, Steps, InfoRefs
    <3>2. handler' = [handler EXCEPT ![w].pc = "write", ![w].info = i]
      BY <1>4, <2>1 DEF ContentFind, Rq
    <3> QED
      BY <3>1, <3>2, GoingOnWithInfo
  <2>4. StageFits("write", r, i, val)'
    BY <1>1, <1>2, <1>4, <2>1 DEF StageFits, Finished, Held, Stands
  <2>5. SessionsFit' /\ sessions' \in [Uploads -> DOMAIN infos' \cup {None}]
    BY <1>2 DEF Inv, SessionsFit, TypeInv
  <2> QED
    BY <1>1, <1>2, <2>3, <2>4, <2>5, QuietStep DEF Steps, OpOf, Inv, TypeInv
<1> QED
  BY <1>3, <1>4

\* A block, or its beginning, is stored where the file ends or before, and is what belongs there.
LEMMA StoredFits ==
  ASSUME Inv, NEW w \in Workers, Works(w), handler[w].pc = "write", NEW r, r = handler[w].rq,
         NEW n \in Nat, n <= r.len, NEW s, s = Stored(w, n)
  PROVE  /\ s \in Seq(Nat) /\ Len(s) >= Len(disk) /\ Len(s) >= r.from - 1 + n /\ Len(s) <= Size
         /\ \A i \in 1..Len(s) : s[i] = i
<1>1. /\ r \in Requests /\ r.op = "content" /\ RequestFits(r)
      /\ StageFits("write", r, handler[w].info, handler[w].val)
  BY Alone DEF OpOf
<1>2. PICK off, m : /\ off = Info(w).offset
                    /\ m = IF Len(disk) > off + n THEN Len(disk) ELSE off + n
  OBVIOUS
<1>3. off = r.from - 1 /\ off <= Len(disk)
  BY <1>1, <1>2 DEF StageFits, Stands, Info
<1>4. r.from > 0 /\ off + r.len <= Size /\ off \in Nat /\ r.len \in Nat /\ r.from \in Nat
  BY <1>1, <1>3 DEF RequestFits, Requests
<1>5. Len(disk) \in Nat /\ Len(disk) <= Size /\ DOMAIN disk = 1..Len(disk) /\ \A i \in DOMAIN disk : disk[i] = i
  BY DEF Inv, TypeInv, DiskIsPrefix
<1>6. s = [i \in 1..m |-> IF i \in off+1..off+n THEN r.from + i - off - 1
                          ELSE IF i \in DOMAIN disk THEN disk[i] ELSE 0]
  BY <1>2 DEF Stored, Rq, Info
<1>7. m \in Nat /\ m >= Len(disk) /\ m >= off + n /\ m <= Size /\ Size \in Nat
  <2>1. PICK d, k : d = Len(disk) /\ k = r.len
    OBVIOUS
  <2>2. /\ d \in Nat /\ k \in Nat /\ Size \in Nat /\ d <= Size /\ n <= k /\ off + k <= Size
        /\ m = IF d > off + n THEN d ELSE off + n
    BY <1>2, <1>4, <1>5, <2>1, UploadAssumption
  <2>3. m \in Nat /\ m >= d /\ m >= off + n /\ m <= Size
    BY <1>4, <2>2
  <2> QED
    BY <2>1, <2>2, <2>3
<1>8. ASSUME NEW i \in 1..m
      PROVE  s[i] = i
  <2>1. CASE i \in off+1..off+n
    <3>1. s[i] = r.from + i - off - 1
      BY <1>6, <2>1
    <3>2. PICK a : a = r.from
      OBVIOUS
    <3>3. a \in Nat /\ off = a - 1 /\ i \in Nat /\ s[i] = a + i - off - 1
      BY <1>3, <1>4, <1>7, <3>1, <3>2
    <3> QED
      BY <3>3
  <2>2. CASE i \notin off+1..off+n
    <3>1. PICK d : d = Len(disk)
      OBVIOUS
    <3>2. d \in Nat /\ off <= d /\ m = IF d > off + n THEN d ELSE off + n
      BY <1>2, <1>3, <1>5, <3>1
    <3>3. i \in 1..d
      BY <1>4, <1>7, <2>2, <3>2
    <3>4. i \in DOMAIN disk
      BY <1>5, <3>1, <3>3
    <3>5. s[i] = disk[i]
      BY <1>6, <2>2, <3>4
    <3> QED
      BY <1>5, <3>4, <3>5
  <2> QED
    BY <2>1, <2>2
<1>9. s \in [1..m -> Nat]
  BY <1>6, <1>8
<1>10. s \in Seq(Nat) /\ Len(s) = m
  BY <1>7, <1>9
<1> QED
  BY <1>3, <1>7, <1>8, <1>10


\* Sequences are the functions on 1..n.
LEMMA SeqIsFunction ==
  ASSUME NEW S
  PROVE  /\ \A s \in Seq(S) : s \in [1..Len(s) -> S] /\ Len(s) \in Nat
         /\ \A m \in Nat : \A s \in [1..m -> S] : s \in Seq(S)
  OBVIOUS

\* A new offset of one FileInfo changes nothing else.
LEMMA OffsetSet ==
  ASSUME TypeInv, NEW i \in DOMAIN infos, NEW n \in Nat, infos' = [infos EXCEPT ![i].offset = n]
  PROVE  /\ infos' \in Seq([pos : Nat, offset : Nat, freed : BOOLEAN]) /\ DOMAIN infos' = DOMAIN infos
         /\ infos'[i].pos = infos[i].pos /\ infos'[i].offset = n
         /\ \A j \in DOMAIN infos : infos'[j].freed = infos[j].freed
<1>1. PICK I, m, s : I = [pos : Nat, offset : Nat, freed : BOOLEAN] /\ m = Len(infos) /\ s = infos'
  OBVIOUS
<1>2. infos \in [1..m -> I] /\ m \in Nat
  BY <1>1, SeqIsFunction DEF TypeInv
<1>3. s \in [1..m -> I]
  BY <1>1, <1>2
<1>4. s \in Seq(I) /\ DOMAIN s = DOMAIN infos
  BY <1>2, <1>3, SeqIsFunction
<1>5. infos'[i].pos = infos[i].pos /\ infos'[i].offset = n /\ \A j \in DOMAIN infos : infos'[j].freed = infos[j].freed
  BY <1>1, <1>2
<1> QED
  BY <1>1, <1>4, <1>5

\* A new pos of one FileInfo changes nothing else.
LEMMA PosSet ==
  ASSUME TypeInv, NEW i \in DOMAIN infos, NEW n \in Nat, infos' = [infos EXCEPT ![i].pos = n]
  PROVE  /\ infos' \in Seq([pos : Nat, offset : Nat, freed : BOOLEAN]) /\ DOMAIN infos' = DOMAIN infos
         /\ infos'[i].pos = n /\ infos'[i].offset = infos[i].offset
         /\ \A j \in DOMAIN infos : infos'[j].freed = infos[j].freed
<1>1. PICK I, m, s : I = [pos : Nat, offset : Nat, freed : BOOLEAN] /\ m = Len(infos) /\ s = infos'
  OBVIOUS
<1>2. infos \in [1..m -> I] /\ m \in Nat
  BY <1>1, SeqIsFunction DEF TypeInv
<1>3. s \in [1..m -> I]
  BY <1>1, <1>2
<1>4. s \in Seq(I) /\ DOMAIN s = DOMAIN infos
  BY <1>2, <1>3, SeqIsFunction
<1>5. infos'[i].pos = n /\ infos'[i].offset = infos[i].offset /\ \A j \in DOMAIN infos : infos'[j].freed = infos[j].freed
  BY <1>1, <1>2
<1> QED
  BY <1>1, <1>4, <1>5

\* The step ContentWrite keeps the invariant.
LEMMA ContentWriteStep ==
  ASSUME Inv, NEW w \in Workers, ContentWrite(w)
  PROVE  Inv'
<1> PICK r, info, val : r = handler[w].rq /\ info = handler[w].info /\ val = handler[w].val
  OBVIOUS
<1> Works(w) /\ handler[w].pc = "write"
  BY DEF ContentWrite, At, Works
<1>1. r \in Requests /\ r.u \in Uploads /\ r.op = "content" /\ RequestFits(r) /\ StageFits("write", r, info, val)
  BY Alone DEF OpOf
<1>2. /\ UNCHANGED <<rows, linked, listed, sessions, inbox, client, spent>>
      /\ disk' = Stored(w, r.len) /\ Goes(w, "load")
      /\ infos' = [infos EXCEPT ![info].offset = @ + r.len]
  BY DEF ContentWrite, database, Rq
<1>3. /\ r.len \in Nat /\ r.len > 0 /\ r.from \in Nat /\ r.from > 0
      /\ sessions[r.u] # None /\ info = sessions[r.u] /\ infos[info].pos = r.from - 1 /\ infos[info].offset = r.from - 1
      /\ ~Finished
  BY <1>1 DEF RequestFits, Requests, StageFits, Held, Stands
<1>4. info \in DOMAIN infos
  BY <1>1, <1>3 DEF Inv, TypeInv
<1>5. /\ infos' \in Seq([pos : Nat, offset : Nat, freed : BOOLEAN]) /\ DOMAIN infos' = DOMAIN infos
      /\ infos'[info].pos = r.from - 1 /\ infos'[info].offset = r.from - 1 + r.len
      /\ \A i \in DOMAIN infos : infos'[i].freed = infos[i].freed
  <2>1. PICK n : n = r.from - 1 + r.len
    OBVIOUS
  <2>2. n \in Nat /\ infos' = [infos EXCEPT ![info].offset = n]
    <3>1. n \in Nat /\ infos[info].offset + r.len = n
      BY <1>3, <2>1
    <3> QED
      BY <1>2, <3>1, Zenon
  <2> QED
    BY <1>3, <1>4, <2>1, <2>2, OffsetSet DEF Inv
<1>6. /\ disk' \in Seq(Nat) /\ Len(disk') >= Len(disk) /\ Len(disk') >= r.from - 1 + r.len /\ Len(disk') <= Size
      /\ \A i \in 1..Len(disk') : disk'[i] = i
  <2>1. r.len \in Nat /\ r.len <= r.len
    BY <1>3
  <2>2. PICK s : s = Stored(w, r.len)
    OBVIOUS
  <2>3. /\ s \in Seq(Nat) /\ Len(s) >= Len(disk) /\ Len(s) >= r.from - 1 + r.len /\ Len(s) <= Size
        /\ \A i \in 1..Len(s) : s[i] = i
    BY <2>1, <2>2, StoredFits
  <2>4. disk' = s
    BY <1>2, <2>2, Zenon
  <2> QED
    BY <2>3, <2>4, Zenon
<1>7. info \in InfoRefs' /\ val \in Nat /\ Becomes(w, "load", r, info, val)
  <2>1. InfoRefs' = InfoRefs
    BY <1>5 DEF InfoRefs
  <2> QED
    BY <1>2, <2>1, GoingOn DEF Inv, TypeInv, Steps
<1>8. ~Finished'
  BY <1>2, <1>3 DEF Finished
<1>9. StageFits("load", r, info, val)'
  BY <1>2, <1>3, <1>5, <1>6, <1>8 DEF StageFits, Held, Stands
<1>10. SessionsFit'
  BY <1>2, <1>5 DEF Inv, TypeInv, SessionsFit
<1>11. RowsFit' /\ FinishedIsWhole' /\ DiskIsPrefix'
  BY <1>2, <1>6, <1>8 DEF Inv, RowsFit, LiveFirst, FinishedIsWhole, DiskIsPrefix
<1>12. AckedIsStored'
  <2> SUFFICES ASSUME NEW u \in Uploads, client[u].fid # 0, rows[client[u].fid] # Removed
               PROVE  client[u].pos <= Len(disk')
    BY <1>2 DEF AckedIsStored
  <2>1. client[u].pos <= Len(disk)
    BY DEF Inv, AckedIsStored
  <2>2. client[u].pos \in Int /\ Len(disk) \in Int /\ Len(disk') \in Int
    BY <1>6 DEF Inv, TypeInv, ClientType
  <2> QED
    BY <1>6, <2>1, <2>2
<1>13. /\ DOMAIN infos \subseteq DOMAIN infos' /\ sessions' \in [Uploads -> DOMAIN infos' \cup {None}] /\ listed' \in Nat
       /\ rows' \in Seq({0, 1, Removed}) /\ linked' \subseteq DOMAIN rows'
       /\ \A v \in Uploads \ {r.u} : sessions'[v] = sessions[v]
       /\ DOMAIN rows \subseteq DOMAIN rows' /\ \A f \in DOMAIN rows : rows'[f] = rows[f]
  BY <1>2, <1>5 DEF Inv, TypeInv
<1>14. \A f : LiveFirst(f) => LiveFirst(f)'
  BY <1>2 DEF LiveFirst
<1> QED
  BY <1>1, <1>2, <1>5, <1>6, <1>7, <1>9, <1>10, <1>11, <1>12, <1>13, <1>14, AnyStep DEF Steps, OpOf

\* A client of a block, or of a request to continue, is told a position; its answer may get lost.
LEMMA Answered ==
  ASSUME Inv, NEW w \in Workers, Works(w), NEW r, r = handler[w].rq, r.op # "upload", NEW pc \in {"send", "done"},
         NEW pos \in Nat, NEW c \in [pc : ClientPcs, pos : Nat, fid : DOMAIN rows \cup {0}, conn : Nat],
         c.pc = pc, c.pos = pos, c.fid = client[r.u].fid, Reply(r, c),
         Ends(w), UNCHANGED <<rows, linked, sessions, listed, inbox>>,
         infos' \in Seq([pos : Nat, offset : Nat, freed : BOOLEAN]), DOMAIN infos' = DOMAIN infos, SessionsFit',
         disk' \in Seq(Nat), Len(disk) <= Len(disk'), FinishedIsWhole', DiskIsPrefix',
         spent' \in [{"lost", "crash", "short", "fail"} -> Nat],
         pos <= Len(disk'), Finished => sessions[r.u] = None, pc = "send" => ~Finished,
         pc = "send" /\ client[r.u].conn = r.conn /\ sessions[r.u] # None =>
           infos'[sessions[r.u]].pos = pos /\ infos'[sessions[r.u]].offset = pos,
         pc = "done" => sessions[r.u] = None /\ (r.fid # 0 => rows[r.fid] = 1)
  PROVE  Inv'
<1>1. /\ r \in Requests /\ r.u \in Uploads /\ RequestFits(r)
      /\ client[r.u].pc \in {"sending", "continuing", "lost"} /\ r.fid = client[r.u].fid
  BY Alone DEF RequestFits
<1>2. /\ ClientFits(r.u) /\ LiveFirst(client[r.u].fid)
      /\ client[r.u] \in [pc : ClientPcs, pos : Nat, fid : DOMAIN rows \cup {0}, conn : Nat]
  BY <1>1 DEF Inv, TypeInv, ClientType, ClientFits
<1>4. /\ ClientType'
      /\ \A v \in Uploads \ {r.u} : client'[v] = client[v]
      /\ client'[r.u] = IF client[r.u].conn = r.conn THEN c ELSE client[r.u]
  BY <1>1, Replied
<1>5. TypeInv'
  <2>1. HandlerType'
    <3>1. Idle \in [pc : Steps, rq : Jobs, info : InfoRefs, val : Nat] /\ InfoRefs' = InfoRefs
      BY DEF Idle, Steps, Jobs, InfoRefs
    <3> QED
      BY <3>1 DEF Ends, Inv, TypeInv, HandlerType
  <2> QED
    BY <1>4, <2>1 DEF Inv, TypeInv
<1>6. Finished' <=> Finished
  BY DEF Finished
<1>7. 0 \notin DOMAIN rows
  BY DEF Inv, TypeInv
<1>8. ClientFits(r.u)'
  <2>1. CASE client[r.u].conn = r.conn
    <3>1. client'[r.u] = c /\ LiveFirst(c.fid) /\ c.fid # 0 /\ r.fid = c.fid
      BY <1>1, <1>2, <1>4, <1>7, <2>1 DEF LiveFirst
    <3>2. CASE pc = "send"
      BY <1>6, <2>1, <3>1, <3>2 DEF ClientFits, LiveFirst
    <3>3. CASE pc = "done"
      BY <1>1, <3>1, <3>3 DEF ClientFits
    <3> QED
      BY <3>2, <3>3
  <2>2. CASE client[r.u].conn # r.conn
    BY <1>1, <1>2, <1>4, <1>6, <2>2 DEF ClientFits, LiveFirst
  <2> QED
    BY <2>1, <2>2
<1>9. client'[r.u].pos <= Len(disk')
  <2>1. client[r.u].pos <= Len(disk)
    BY <1>1, <1>2, <1>7 DEF Inv, AckedIsStored, LiveFirst
  <2>2. disk \in Seq(Nat) /\ disk' \in Seq(Nat)
    BY <1>5 DEF Inv, TypeInv
  <2>3. client[r.u].pos \in Nat /\ Len(disk) \in Nat /\ Len(disk') \in Nat
    <3>1. client[r.u].pos \in Nat
      BY <1>2
    <3>2. Len(disk) \in Nat /\ Len(disk') \in Nat
      BY <2>2, LenIsNat, Zenon
    <3> QED
      BY <3>1, <3>2, Zenon
  <2>4. client'[r.u].pos = client[r.u].pos \/ client'[r.u].pos = pos
    BY <1>4
  <2>5. CASE client'[r.u].pos = client[r.u].pos
    <3>1. PICK a, b, d : a = client[r.u].pos /\ b = Len(disk) /\ d = Len(disk')
      OBVIOUS
    <3>2. a \in Nat /\ b \in Nat /\ d \in Nat /\ a <= b /\ b <= d
      BY <2>1, <2>3, <3>1, Zenon
    <3>3. a <= d
      BY <3>2
    <3> QED
      BY <2>5, <3>1, <3>3, Zenon
  <2>6. CASE client'[r.u].pos = pos
    BY <2>6, Zenon
  <2> QED
    BY <2>4, <2>5, <2>6
<1> QED
  BY <1>4, <1>5, <1>8, <1>9, AnyEnd

\* The step ContentShort keeps the invariant.
LEMMA ContentShortStep ==
  ASSUME Inv, NEW w \in Workers, ContentShort(w)
  PROVE  Inv'
<1> PICK r, info : r = handler[w].rq /\ info = handler[w].info
  OBVIOUS
<1> Works(w) /\ handler[w].pc = "write"
  BY DEF ContentShort, At, Works
<1>1. /\ r \in Requests /\ r.u \in Uploads /\ r.op = "content" /\ RequestFits(r)
      /\ StageFits("write", r, info, handler[w].val)
  BY Alone DEF OpOf
<1>2. UNCHANGED <<rows, linked, listed, sessions, inbox, client>> /\ Spend("short", MaxShort)
  BY DEF ContentShort, database
<1>3. PICK n \in 0..r.len-1 : /\ disk' = Stored(w, n)
                             /\ infos' = [infos EXCEPT ![info].offset = @ + n]
                             /\ handler' = [handler EXCEPT ![w].pc = "back", ![w].val = n]
  BY DEF ContentShort, Rq
<1>4. /\ r.len \in Nat /\ r.len > 0 /\ r.from \in Nat /\ r.from > 0 /\ r.from - 1 <= Len(disk)
      /\ sessions[r.u] # None /\ info = sessions[r.u] /\ infos[info].pos = r.from - 1 /\ infos[info].offset = r.from - 1
      /\ ~Finished
  BY <1>1 DEF RequestFits, Requests, StageFits, Held, Stands
<1>5. n \in Nat /\ n <= r.len
  BY <1>4
<1>6. info \in DOMAIN infos
  BY <1>1, <1>4 DEF Inv, TypeInv
<1>7. /\ infos' \in Seq([pos : Nat, offset : Nat, freed : BOOLEAN]) /\ DOMAIN infos' = DOMAIN infos
      /\ infos'[info].pos = r.from - 1 /\ infos'[info].offset = r.from - 1 + n
      /\ \A i \in DOMAIN infos : infos'[i].freed = infos[i].freed
  <2>1. PICK m : m = r.from - 1 + n
    OBVIOUS
  <2>2. m \in Nat /\ infos[info].offset + n = m
    BY <1>4, <1>5, <2>1
  <2>3. infos' = [infos EXCEPT ![info].offset = m]
    BY <1>3, <2>2, Zenon
  <2> QED
    BY <1>4, <1>6, <2>1, <2>2, <2>3, OffsetSet DEF Inv
<1>8. PICK s : s = Stored(w, n)
  OBVIOUS
<1>9. /\ s \in Seq(Nat) /\ Len(s) >= Len(disk) /\ Len(s) <= Size
      /\ \A i \in 1..Len(s) : s[i] = i
  BY <1>5, <1>8, StoredFits
<1>10. /\ disk' \in Seq(Nat) /\ Len(disk') >= Len(disk) /\ Len(disk') <= Size
       /\ \A i \in 1..Len(disk') : disk'[i] = i
  <2>1. disk' = s
    BY <1>3, <1>8, Zenon
  <2> QED
    BY <1>9, <2>1, Zenon
<1>11. info \in InfoRefs' /\ n \in Nat /\ Becomes(w, "back", r, info, n)
  <2>1. HandlerType /\ "back" \in Steps /\ InfoRefs \subseteq InfoRefs'
    BY <1>7 DEF Inv, TypeInv, Steps, InfoRefs
  <2> QED
    BY <1>3, <1>5, <2>1, GoingOnWithVal
<1>12. ~Finished'
  BY <1>2, <1>4 DEF Finished
<1>13. r.from - 1 <= Len(disk')
  <2>1. PICK a, b, d : a = r.from - 1 /\ b = Len(disk) /\ d = Len(disk')
    OBVIOUS
  <2>2. disk \in Seq(Nat) /\ disk' \in Seq(Nat)
    BY <1>10 DEF Inv, TypeInv
  <2>3. b \in Nat /\ d \in Nat
    BY <2>1, <2>2, LenIsNat, Zenon
  <2>4. a \in Int /\ a <= b /\ b <= d
    BY <1>4, <1>10, <2>1
  <2> QED
    BY <2>1, <2>3, <2>4
<1>14. StageFits("back", r, info, n)'
  BY <1>2, <1>4, <1>7, <1>12, <1>13 DEF StageFits, Held
<1>15. SessionsFit'
  BY <1>2, <1>7 DEF Inv, TypeInv, SessionsFit
<1>16. RowsFit' /\ FinishedIsWhole' /\ DiskIsPrefix'
  BY <1>2, <1>10, <1>12 DEF Inv, RowsFit, LiveFirst, FinishedIsWhole, DiskIsPrefix
<1>17. AckedIsStored'
  <2> SUFFICES ASSUME NEW u \in Uploads, client[u].fid # 0, rows[client[u].fid] # Removed
               PROVE  client[u].pos <= Len(disk')
    BY <1>2 DEF AckedIsStored
  <2>1. client[u].pos <= Len(disk)
    BY DEF Inv, AckedIsStored
  <2>2. client[u].pos \in Int /\ Len(disk) \in Int /\ Len(disk') \in Int
    BY <1>10 DEF Inv, TypeInv, ClientType
  <2> QED
    BY <1>10, <2>1, <2>2
<1>18. /\ DOMAIN infos \subseteq DOMAIN infos' /\ sessions' \in [Uploads -> DOMAIN infos' \cup {None}] /\ listed' \in Nat
       /\ rows' \in Seq({0, 1, Removed}) /\ linked' \subseteq DOMAIN rows'
       /\ \A v \in Uploads \ {r.u} : sessions'[v] = sessions[v]
       /\ DOMAIN rows \subseteq DOMAIN rows' /\ \A f \in DOMAIN rows : rows'[f] = rows[f]
  BY <1>2, <1>7 DEF Inv, TypeInv
<1>19. \A f : LiveFirst(f) => LiveFirst(f)'
  BY <1>2 DEF LiveFirst
<1>20. spent' \in [{"lost", "crash", "short", "fail"} -> Nat]
  BY <1>2, SpendTyped DEF Inv
<1>21. "back" \in Steps \ {"idle"} /\ OpOf("back") = r.op
  BY <1>1 DEF Steps, OpOf
<1> QED
  BY <1>1, <1>2, <1>7, <1>10, <1>11, <1>14, <1>15, <1>16, <1>17, <1>18, <1>19, <1>20, <1>21, AnyStep

\* The step ContentSeekBack keeps the invariant.
LEMMA ContentSeekBackStep ==
  ASSUME Inv, NEW w \in Workers, ContentSeekBack(w)
  PROVE  Inv'
<1> PICK r, info, val : r = handler[w].rq /\ info = handler[w].info /\ val = handler[w].val
  OBVIOUS
<1> Works(w) /\ handler[w].pc = "back"
  BY DEF ContentSeekBack, At, Works
<1>1. r \in Requests /\ r.u \in Uploads /\ r.op = "content" /\ RequestFits(r) /\ StageFits("back", r, info, val)
  BY Alone DEF OpOf
<1>2. PICK off, n : off = infos[info].offset /\ n = r.from - 1
  OBVIOUS
<1>3. /\ UNCHANGED <<rows, linked, disk, listed, sessions, inbox, client, spent>>
      /\ infos' = [infos EXCEPT ![info].offset = IF @ < val THEN @ ELSE @ - val]
  BY DEF ContentSeekBack, database, files
<1>4. /\ sessions[r.u] # None /\ info = sessions[r.u] /\ ~Finished
      /\ infos[info].pos = n /\ off = n + val /\ n <= Len(disk) /\ n \in Nat
  BY <1>1, <1>2 DEF StageFits, Held, RequestFits, Requests
<1>5. info \in DOMAIN infos /\ val \in Nat
  BY <1>1, <1>4 DEF Inv, TypeInv, HandlerType
<1>6. infos' = [infos EXCEPT ![info].offset = n]
  <2>1. ~(off < val) /\ off - val = n
    BY <1>4, <1>5
  <2> QED
    BY <1>2, <1>3, <2>1, Zenon
<1>7. /\ infos' \in Seq([pos : Nat, offset : Nat, freed : BOOLEAN]) /\ DOMAIN infos' = DOMAIN infos
      /\ infos'[info].pos = n /\ infos'[info].offset = n
      /\ \A j \in DOMAIN infos : infos'[j].freed = infos[j].freed
  BY <1>4, <1>5, <1>6, OffsetSet DEF Inv
<1>8. info \in InfoRefs' /\ val \in Nat /\ Becomes(w, "refuse", r, info, val)
  <2>1. HandlerType /\ "refuse" \in Steps /\ InfoRefs \subseteq InfoRefs'
    BY <1>7 DEF Inv, TypeInv, Steps, InfoRefs
  <2>2. Goes(w, "refuse")
    BY DEF ContentSeekBack
  <2> QED
    BY <2>1, <2>2, GoingOn
<1>9. StageFits("refuse", r, info, val)'
  BY <1>2, <1>3, <1>4, <1>7 DEF StageFits, Finished, Held, Stands
<1>10. SessionsFit' /\ sessions' \in [Uploads -> DOMAIN infos' \cup {None}]
  BY <1>3, <1>7 DEF Inv, TypeInv, SessionsFit
<1> QED
  BY <1>1, <1>3, <1>7, <1>8, <1>9, <1>10, QuietStep DEF Steps, OpOf, Inv, TypeInv

\* The step ContentRefuse keeps the invariant.
LEMMA ContentRefuseStep ==
  ASSUME Inv, NEW w \in Workers, ContentRefuse(w)
  PROVE  Inv'
<1> PICK r, info, val : r = handler[w].rq /\ info = handler[w].info /\ val = handler[w].val
  OBVIOUS
<1> Works(w) /\ handler[w].pc = "refuse"
  BY DEF ContentRefuse, At, Works
<1>1. r \in Requests /\ r.u \in Uploads /\ r.op = "content" /\ RequestFits(r) /\ StageFits("refuse", r, info, val)
  BY Alone DEF OpOf
<1>2. PICK c, pos : pos = client[r.u].pos /\ c = [client[r.u] EXCEPT !.pc = "send"]
  OBVIOUS
<1>3. /\ UNCHANGED <<rows, linked, disk, listed, sessions, infos, inbox, spent>>
      /\ Reply(r, c) /\ Ends(w)
  BY <1>2 DEF ContentRefuse, database, files, memory, Rq
<1>5. /\ sessions[r.u] # None /\ info = sessions[r.u] /\ infos[info].pos = r.from - 1 /\ infos[info].offset = r.from - 1
      /\ ~Finished
  BY <1>1 DEF StageFits, Held, Stands
<1>7. client[r.u] \in [pc : ClientPcs, pos : Nat, fid : DOMAIN rows \cup {0}, conn : Nat] /\ client[r.u].fid # 0
  <2>1. ClientFits(r.u) /\ client[r.u].pc \in {"sending", "continuing", "lost"} /\ 0 \notin DOMAIN rows
    BY <1>1 DEF Inv, TypeInv, RequestFits
  <2> QED
    BY <1>1, <2>1 DEF Inv, TypeInv, ClientType, ClientFits, LiveFirst
<1>8. /\ c \in [pc : ClientPcs, pos : Nat, fid : DOMAIN rows \cup {0}, conn : Nat]
      /\ c.pc = "send" /\ c.pos = pos /\ c.fid = client[r.u].fid /\ pos \in Nat
  BY <1>2, <1>7 DEF ClientPcs
<1>6. disk \in Seq(Nat) /\ Len(disk) \in Nat
  BY DEF Inv, TypeInv
<1>9. pos <= Len(disk') /\ Len(disk) <= Len(disk') /\ disk' \in Seq(Nat)
  <2>1. LiveFirst(client[r.u].fid)
    BY <1>1 DEF Inv, ClientFits, RequestFits
  <2>2. pos <= Len(disk)
    BY <1>1, <1>2, <1>7, <2>1 DEF Inv, AckedIsStored, LiveFirst
  <2> QED
    BY <1>3, <1>6, <2>2
<1>10. client[r.u].conn = r.conn => infos[sessions[r.u]].pos = pos /\ infos[sessions[r.u]].offset = pos
  BY <1>1, <1>2, <1>5 DEF RequestFits
<1>11. /\ infos' \in Seq([pos : Nat, offset : Nat, freed : BOOLEAN]) /\ DOMAIN infos' = DOMAIN infos /\ SessionsFit'
       /\ spent' \in [{"lost", "crash", "short", "fail"} -> Nat]
  BY <1>3 DEF Inv, TypeInv, SessionsFit
<1>12. FinishedIsWhole' /\ DiskIsPrefix'
  BY <1>3 DEF Inv, FinishedIsWhole, Finished, DiskIsPrefix
<1> QED
  BY <1>1, <1>3, <1>5, <1>8, <1>9, <1>10, <1>11, <1>12, Answered

\* The step ContentFails keeps the invariant.
LEMMA ContentFailsStep ==
  ASSUME Inv, NEW w \in Workers, ContentFails(w)
  PROVE  Inv'
<1> PICK r, info, val : r = handler[w].rq /\ info = handler[w].info /\ val = handler[w].val
  OBVIOUS
<1> Works(w) /\ handler[w].pc = "write"
  BY DEF ContentFails, At, Works
<1>1. ~Finished
  BY Alone DEF StageFits
<1>2. UNCHANGED <<rows, linked, disk, listed, sessions, infos, inbox, client>> /\ Ends(w)
  BY DEF ContentFails, database, files, memory
<1>3. spent' \in [{"lost", "crash", "short", "fail"} -> Nat]
  BY SpendTyped DEF ContentFails, Inv, TypeInv
<1> QED
  BY <1>1, <1>2, <1>3, Unanswered

\* The step ContentLoad keeps the invariant.
LEMMA ContentLoadStep ==
  ASSUME Inv, NEW w \in Workers, ContentLoad(w)
  PROVE  Inv'
<1> PICK r, info, pos : r = handler[w].rq /\ info = handler[w].info /\ pos = Info(w).pos
  OBVIOUS
<1> Works(w) /\ handler[w].pc = "load"
  BY DEF ContentLoad, At, Works
<1>1. r \in Requests /\ r.u \in Uploads /\ r.op = "content" /\ RequestFits(r) /\ StageFits("load", r, info, handler[w].val)
  BY Alone DEF OpOf
<1>2. UNCHANGED <<rows, linked, disk, listed, sessions, infos, inbox, client, spent>>
  BY DEF ContentLoad, database, files, memory
<1>3. pos = r.from - 1 /\ pos \in Nat
  BY <1>1, SMTT(60) DEF StageFits, Stands, Info, RequestFits, Requests
<1>4. info \in InfoRefs' /\ pos \in Nat /\ Becomes(w, "store", r, info, pos)
  <2>1. HandlerType /\ "store" \in Steps /\ InfoRefs \subseteq InfoRefs'
    BY <1>2 DEF Inv, TypeInv, Steps, InfoRefs
  <2>2. handler' = [handler EXCEPT ![w].pc = "store", ![w].val = pos]
    BY DEF ContentLoad
  <2> QED
    BY <1>3, <2>1, <2>2, GoingOnWithVal
<1>5. StageFits("store", r, info, pos)'
  BY <1>1, <1>2, <1>3 DEF StageFits, Finished, Held, Stands
<1>6. SessionsFit' /\ sessions' \in [Uploads -> DOMAIN infos' \cup {None}]
  BY <1>2 DEF Inv, SessionsFit, TypeInv
<1> QED
  BY <1>1, <1>2, <1>4, <1>5, <1>6, QuietStep DEF Steps, OpOf, Inv, TypeInv

\* The step ContentStore keeps the invariant.
LEMMA ContentStoreStep ==
  ASSUME Inv, NEW w \in Workers, ContentStore(w)
  PROVE  Inv'
<1> PICK r, info, val : r = handler[w].rq /\ info = handler[w].info /\ val = handler[w].val
  OBVIOUS
<1> Works(w) /\ handler[w].pc = "store"
  BY DEF ContentStore, At, Works
<1>1. r \in Requests /\ r.u \in Uploads /\ r.op = "content" /\ RequestFits(r) /\ StageFits("store", r, info, val)
  BY Alone DEF OpOf
<1>2. PICK pos : pos = r.from - 1 + r.len
  OBVIOUS
<1>3. /\ sessions[r.u] # None /\ info = sessions[r.u] /\ ~Finished /\ pos \in Nat /\ pos <= Size
      /\ infos[info].offset = pos /\ pos <= Len(disk) /\ val = r.from - 1
  BY <1>1, <1>2 DEF StageFits, Held, Stands, RequestFits, Requests
<1>4. /\ UNCHANGED <<rows, linked, disk, listed, sessions, inbox, client, spent>>
      /\ infos' = [infos EXCEPT ![info].pos = pos]
      /\ Goes(w, IF pos >= Size THEN "state" ELSE "answer")
  BY <1>2, <1>3 DEF ContentStore, database, files, Rq
<1>5. info \in DOMAIN infos
  BY <1>1, <1>3 DEF Inv, TypeInv
<1>6. /\ infos' \in Seq([pos : Nat, offset : Nat, freed : BOOLEAN]) /\ DOMAIN infos' = DOMAIN infos
      /\ infos'[info].pos = pos /\ infos'[info].offset = pos
      /\ \A j \in DOMAIN infos : infos'[j].freed = infos[j].freed
  BY <1>3, <1>4, <1>5, PosSet DEF Inv
<1>7. PICK pc : pc = IF pos >= Size THEN "state" ELSE "answer"
  OBVIOUS
<1>8. info \in InfoRefs' /\ val \in Nat /\ Becomes(w, pc, r, info, val)
  <2>1. HandlerType /\ pc \in Steps /\ InfoRefs' = InfoRefs /\ Goes(w, pc)
    BY <1>4, <1>6, <1>7 DEF Inv, TypeInv, Steps, InfoRefs
  <2> QED
    BY <2>1, GoingOn
<1>9. ~Finished'
  BY <1>3, <1>4 DEF Finished
<1>10. StageFits(pc, r, info, val)'
  <2>1. CASE pos >= Size
    <3>1. pos = Size
      BY <1>3, <2>1, UploadAssumption
    <3>2. Len(disk) = Size
      <4>1. PICK d : d = Len(disk)
        OBVIOUS
      <4>2. d \in Nat /\ d <= Size /\ pos <= d /\ Size \in Nat
        BY <1>3, <4>1, UploadAssumption DEF Inv, TypeInv, DiskIsPrefix
      <4> QED
        BY <3>1, <4>1, <4>2
    <3> QED
      BY <1>2, <1>3, <1>4, <1>7, <1>9, <2>1, <3>1, <3>2 DEF StageFits, Held
  <2>2. CASE ~(pos >= Size)
    <3>1. pos # Size
      BY <1>3, <2>2, UploadAssumption
    <3> QED
      BY <1>2, <1>3, <1>4, <1>6, <1>7, <1>9, <2>2, <3>1 DEF StageFits, Held, Stands
  <2> QED
    BY <2>1, <2>2
<1>11. SessionsFit' /\ sessions' \in [Uploads -> DOMAIN infos' \cup {None}]
  BY <1>4, <1>6 DEF Inv, TypeInv, SessionsFit
<1>12. pc \in Steps \ {"idle"} /\ OpOf(pc) = r.op
  BY <1>1, <1>7 DEF Steps, OpOf
<1> QED
  BY <1>1, <1>4, <1>6, <1>8, <1>10, <1>11, <1>12, QuietStep DEF Inv, TypeInv


\* The step ContentState keeps the invariant.
LEMMA ContentStateStep ==
  ASSUME Inv, NEW w \in Workers, ContentState(w)
  PROVE  Inv'
<1> PICK r, info, val : r = handler[w].rq /\ info = handler[w].info /\ val = handler[w].val
  OBVIOUS
<1> Works(w) /\ handler[w].pc = "state"
  BY DEF ContentState, At, Works
<1>1. r \in Requests /\ r.u \in Uploads /\ r.op = "content" /\ RequestFits(r) /\ StageFits("state", r, info, val)
  BY Alone DEF OpOf
<1>2. /\ UNCHANGED <<linked, disk, listed, sessions, infos, inbox, client, spent>>
      /\ rows' = [rows EXCEPT ![r.fid] = 1] /\ Goes(w, "erase")
  BY DEF ContentState, files, memory, Rq
<1>3. PICK f : f = r.fid
  OBVIOUS
<1>4. LiveFirst(f) /\ f \in DOMAIN rows
  <2>1. f = client[r.u].fid /\ client[r.u].pc \in {"sending", "continuing", "lost"} /\ ClientFits(r.u)
    BY <1>1, <1>3 DEF Inv, RequestFits
  <2> QED
    BY <2>1 DEF ClientFits, LiveFirst
<1>5. sessions[r.u] # None /\ info = sessions[r.u] /\ Len(disk) = Size /\ r.from - 1 + r.len = Size
  BY <1>1 DEF StageFits, Held
<1>6. /\ rows' \in Seq({0, 1, Removed}) /\ DOMAIN rows' = DOMAIN rows /\ rows'[f] = 1
      /\ \A g \in DOMAIN rows \ {f} : rows'[g] = rows[g]
  <2>1. PICK S, m, t : S = {0, 1, Removed} /\ m = Len(rows) /\ t = rows'
    OBVIOUS
  <2>2. rows \in [1..m -> S] /\ m \in Nat
    BY <2>1, SeqIsFunction DEF Inv, TypeInv
  <2>3. t \in [1..m -> S]
    BY <1>2, <1>3, <1>4, <2>1, <2>2
  <2>4. t \in Seq(S) /\ DOMAIN t = DOMAIN rows
    BY <2>2, <2>3, SeqIsFunction
  <2> QED
    BY <1>2, <1>3, <1>4, <2>1, <2>2, <2>4
<1>7. info \in InfoRefs' /\ val \in Nat /\ Becomes(w, "erase", r, info, val)
  BY <1>2, GoingOn, SMTT(60) DEF Inv, TypeInv, Steps, InfoRefs
<1>8. \A g : LiveFirst(g) => LiveFirst(g)'
  BY <1>4, <1>6 DEF LiveFirst, Removed
<1>9. RowsFit'
  <2> SUFFICES ASSUME NEW g \in DOMAIN rows', g \in linked \/ rows'[g] = 1
               PROVE  LiveFirst(g)'
    BY <1>2 DEF RowsFit
  <2>1. LiveFirst(g)
    BY <1>4, <1>6 DEF Inv, RowsFit
  <2> QED
    BY <1>8, <2>1
<1>10. FinishedIsWhole' /\ DiskIsPrefix'
  <2>1. disk = Whole
    <3>1. disk \in [1..Size -> Nat] /\ \A i \in 1..Size : disk[i] = i
      BY <1>5, SeqIsFunction DEF Inv, TypeInv, DiskIsPrefix
    <3> QED
      BY <3>1 DEF Whole
  <2> QED
    BY <1>2, <2>1 DEF Inv, FinishedIsWhole, DiskIsPrefix, Whole
<1>11. AckedIsStored'
  <2> SUFFICES ASSUME NEW u \in Uploads, client[u].fid # 0, rows'[client[u].fid] # Removed
               PROVE  client[u].pos <= Len(disk)
    BY <1>2 DEF AckedIsStored
  <2>1. client[u].fid \in DOMAIN rows
    BY DEF Inv, TypeInv, ClientType
  <2>2. rows[client[u].fid] # Removed
    BY <1>4, <1>6, <2>1 DEF LiveFirst
  <2> QED
    BY <2>2 DEF Inv, AckedIsStored
<1>12. StageFits("erase", r, info, val)'
  BY <1>2, <1>3, <1>4, <1>5, <1>6 DEF StageFits, Held
<1>13. SessionsFit'
  BY <1>2 DEF Inv, SessionsFit
<1>14. /\ infos' \in Seq([pos : Nat, offset : Nat, freed : BOOLEAN]) /\ DOMAIN infos \subseteq DOMAIN infos'
       /\ sessions' \in [Uploads -> DOMAIN infos' \cup {None}]
       /\ linked' \subseteq DOMAIN rows' /\ disk' \in Seq(Nat) /\ listed' \in Nat
       /\ \A v \in Uploads \ {r.u} : sessions'[v] = sessions[v]
       /\ DOMAIN rows \subseteq DOMAIN rows'
       /\ \A g \in DOMAIN rows : rows[g] \in {1, Removed} => rows'[g] \in {1, Removed}
  BY <1>2, <1>6 DEF Inv, TypeInv
<1> QED
  BY <1>1, <1>2, <1>6, <1>7, <1>8, <1>9, <1>10, <1>11, <1>12, <1>13, <1>14, AnyStep DEF Steps, OpOf

\* The step ContentErase keeps the invariant.
LEMMA ContentEraseStep ==
  ASSUME Inv, NEW w \in Workers, ContentErase(w)
  PROVE  Inv'
<1> PICK r, info, val : r = handler[w].rq /\ info = handler[w].info /\ val = handler[w].val
  OBVIOUS
<1> Works(w) /\ handler[w].pc = "erase"
  BY DEF ContentErase, At, Works
<1>1. r \in Requests /\ r.u \in Uploads /\ r.op = "content" /\ RequestFits(r) /\ StageFits("erase", r, info, val)
  BY Alone DEF OpOf
<1>2. /\ UNCHANGED <<rows, linked, disk, listed, inbox, client, spent>>
      /\ sessions' = [sessions EXCEPT ![r.u] = None]
      /\ infos' = [infos EXCEPT ![info].freed = TRUE] /\ Goes(w, "transfer")
  BY DEF ContentErase, database, files, Rq
<1>3. sessions[r.u] # None /\ info = sessions[r.u] /\ info \in DOMAIN infos
  BY <1>1 DEF StageFits, Held, Inv, TypeInv
<1>4. /\ infos' \in Seq([pos : Nat, offset : Nat, freed : BOOLEAN]) /\ DOMAIN infos' = DOMAIN infos
      /\ \A i \in DOMAIN infos \ {info} : infos'[i] = infos[i]
  <2>1. PICK I, m, s : I = [pos : Nat, offset : Nat, freed : BOOLEAN] /\ m = Len(infos) /\ s = infos'
    OBVIOUS
  <2>2. infos \in [1..m -> I] /\ m \in Nat
    BY <2>1, SeqIsFunction DEF Inv, TypeInv
  <2>3. s \in [1..m -> I]
    BY <1>2, <1>3, <2>1, <2>2
  <2>4. s \in Seq(I) /\ DOMAIN s = DOMAIN infos
    BY <2>2, <2>3, SeqIsFunction
  <2> QED
    BY <1>2, <1>3, <2>1, <2>2, <2>4
<1>5. /\ sessions' \in [Uploads -> DOMAIN infos' \cup {None}] /\ sessions'[r.u] = None
      /\ \A v \in Uploads \ {r.u} : sessions'[v] = sessions[v]
  BY <1>1, <1>2, <1>4 DEF Inv, TypeInv
<1>6. info \in InfoRefs' /\ val \in Nat /\ Becomes(w, "transfer", r, info, val)
  <2>1. HandlerType /\ "transfer" \in Steps /\ InfoRefs' = InfoRefs
    BY <1>4 DEF Inv, TypeInv, Steps, InfoRefs
  <2> QED
    BY <1>2, <2>1, GoingOn
<1>7. SessionsFit'
  <2>1. \A v \in Uploads \ {r.u} : sessions[v] # None => sessions[v] # info /\ sessions[v] \in DOMAIN infos
    BY <1>1, <1>3 DEF Inv, TypeInv, SessionsFit
  <2>2. \A v \in Uploads : sessions'[v] # None => v # r.u /\ sessions'[v] = sessions[v]
    BY <1>5
  <2>3. \A v \in Uploads : sessions'[v] # None => ~infos'[sessions'[v]].freed
    BY <1>4, <2>1, <2>2 DEF Inv, SessionsFit
  <2>4. \A u, v \in Uploads : sessions'[u] # None /\ sessions'[u] = sessions'[v] => u = v
    BY <2>2 DEF Inv, SessionsFit
  <2> QED
    BY <2>3, <2>4 DEF SessionsFit
<1>8. StageFits("transfer", r, info, val)'
  BY <1>1, <1>2, <1>5 DEF StageFits
<1> QED
  BY <1>1, <1>2, <1>4, <1>5, <1>6, <1>7, <1>8, QuietStep DEF Steps, OpOf, Inv, TypeInv

\* The step ContentTransfer keeps the invariant.
LEMMA ContentTransferStep ==
  ASSUME Inv, NEW w \in Workers, ContentTransfer(w)
  PROVE  Inv'
<1> PICK r, info, val : r = handler[w].rq /\ info = handler[w].info /\ val = handler[w].val
  OBVIOUS
<1> Works(w) /\ handler[w].pc = "transfer"
  BY DEF ContentTransfer, At, Works
<1>1. r \in Requests /\ r.u \in Uploads /\ r.op = "content" /\ RequestFits(r) /\ StageFits("transfer", r, info, val)
  BY Alone DEF OpOf
<1>2. /\ UNCHANGED <<rows, linked, disk, sessions, infos, inbox, client, spent>>
      /\ listed' \in Nat /\ Goes(w, "answer")
  BY DEF ContentTransfer, database, memory, Inv, TypeInv
<1>3. info \in InfoRefs' /\ val \in Nat /\ Becomes(w, "answer", r, info, val)
  BY <1>2, GoingOn DEF Inv, TypeInv, Steps, InfoRefs
<1>4. StageFits("answer", r, info, val)'
  <2>1. Len(disk) = Size
    <3>1. Finished
      BY <1>1 DEF StageFits, Finished
    <3> QED
      BY <3>1, UploadAssumption DEF Inv, FinishedIsWhole, Whole
  <2>2. r.from - 1 + r.len = Size /\ r.fid \in DOMAIN rows /\ rows[r.fid] = 1 /\ sessions[r.u] = None
    BY <1>1 DEF StageFits
  <2> QED
    BY <1>2, <2>1, <2>2, UploadAssumption DEF StageFits
<1>5. SessionsFit' /\ sessions' \in [Uploads -> DOMAIN infos' \cup {None}]
  BY <1>2 DEF Inv, SessionsFit, TypeInv
<1> QED
  BY <1>1, <1>2, <1>3, <1>4, <1>5, QuietStep DEF Steps, OpOf, Inv, TypeInv

\* The step ContentAnswer keeps the invariant.
LEMMA ContentAnswerStep ==
  ASSUME Inv, NEW w \in Workers, ContentAnswer(w)
  PROVE  Inv'
<1> PICK r, info, val : r = handler[w].rq /\ info = handler[w].info /\ val = handler[w].val
  OBVIOUS
<1> Works(w) /\ handler[w].pc = "answer"
  BY DEF ContentAnswer, At, Works
<1>1. r \in Requests /\ r.u \in Uploads /\ r.op = "content" /\ RequestFits(r) /\ StageFits("answer", r, info, val)
  BY Alone DEF OpOf
<1>2. PICK pos, pc, c : /\ pos = r.from + r.len - 1 /\ pc = IF pos = Size THEN "done" ELSE "send"
                        /\ c = [client[r.u] EXCEPT !.pc = pc, !.pos = pos]
  OBVIOUS
<1>3. Reply(r, c) /\ Ends(w) /\ UNCHANGED <<rows, linked, disk, listed, sessions, infos, inbox, spent>>
  BY <1>2 DEF ContentAnswer, Rq, database, files, memory
<1>4. pos \in Nat /\ pos = r.from - 1 + r.len
  <2>1. r.from \in Nat /\ r.len \in Nat /\ r.from > 0
    BY <1>1 DEF RequestFits, Requests
  <2> QED
    BY <1>2, <2>1
<1>5. /\ pos <= Len(disk)
      /\ pos = Size => rows[r.fid] = 1 /\ sessions[r.u] = None
      /\ pos # Size => /\ ~Finished /\ info = sessions[r.u]
                       /\ infos[info].pos = pos /\ infos[info].offset = pos
  BY <1>1, <1>4 DEF StageFits, Held, Stands
<1>6. client[r.u] \in [pc : ClientPcs, pos : Nat, fid : DOMAIN rows \cup {0}, conn : Nat]
  BY <1>1 DEF Inv, TypeInv, ClientType
<1>7. /\ c \in [pc : ClientPcs, pos : Nat, fid : DOMAIN rows \cup {0}, conn : Nat]
      /\ c.pc = pc /\ c.pos = pos /\ c.fid = client[r.u].fid /\ pc \in {"send", "done"}
  BY <1>2, <1>4, <1>6 DEF ClientPcs
<1>8. /\ infos' \in Seq([pos : Nat, offset : Nat, freed : BOOLEAN]) /\ DOMAIN infos' = DOMAIN infos /\ SessionsFit'
      /\ spent' \in [{"lost", "crash", "short", "fail"} -> Nat] /\ disk' \in Seq(Nat) /\ Len(disk) <= Len(disk')
      /\ pos <= Len(disk')
  <2>1. Len(disk) \in Nat
    BY DEF Inv, TypeInv
  <2> QED
    BY <1>3, <1>5, <2>1 DEF Inv, TypeInv, SessionsFit
<1>9. FinishedIsWhole' /\ DiskIsPrefix'
  BY <1>3 DEF Inv, FinishedIsWhole, Finished, DiskIsPrefix
<1>10. /\ Finished => sessions[r.u] = None
       /\ pc = "send" => ~Finished
       /\ pc = "send" => infos'[sessions[r.u]].pos = pos /\ infos'[sessions[r.u]].offset = pos
       /\ pc = "done" => sessions[r.u] = None /\ rows[r.fid] = 1
  BY <1>2, <1>3, <1>5
<1> QED
  BY <1>1, <1>3, <1>4, <1>7, <1>8, <1>9, <1>10, Answered

-----------------------------------------------------------------------------
(* ContinueUploadRq.                                                        *)

\* The step ContinueLookup keeps the invariant.
LEMMA ContinueLookupStep ==
  ASSUME Inv, NEW w \in Workers, ContinueLookup(w)
  PROVE  Inv'
<1> PICK r, val : r = handler[w].rq /\ val = handler[w].val
  OBVIOUS
<1> Works(w) /\ handler[w].pc = "lookup"
  BY DEF ContinueLookup, At, Works
<1>1. r \in Requests /\ r.u \in Uploads /\ r.op = "continue" /\ StageFits("lookup", r, handler[w].info, val)
  BY Alone DEF OpOf
<1>2. UNCHANGED <<rows, linked, disk, listed, sessions, infos, inbox, client, spent>>
  BY DEF ContinueLookup, database, files, memory
<1>3. SessionsFit' /\ sessions' \in [Uploads -> DOMAIN infos' \cup {None}]
  BY <1>2 DEF Inv, SessionsFit, TypeInv
<1>4. CASE sessions[r.u] = None
  <2>1. PICK info : info = handler[w].info
    OBVIOUS
  <2>2. Goes(w, "select")
    BY <1>4 DEF ContinueLookup, Rq, Goes
  <2>3. info \in InfoRefs' /\ val \in Nat /\ Becomes(w, "select", r, info, val)
    BY <1>2, <2>1, <2>2, GoingOn DEF Inv, TypeInv, Steps, InfoRefs
  <2>4. StageFits("select", r, info, val)'
    BY <1>2, <1>4 DEF StageFits
  <2> QED
    BY <1>1, <1>2, <1>3, <2>3, <2>4, QuietStep DEF Steps, OpOf, Inv, TypeInv
<1>5. CASE sessions[r.u] # None
  <2>1. PICK i : i = sessions[r.u]
    OBVIOUS
  <2>2. i \in DOMAIN infos
    BY <1>1, <1>5, <2>1 DEF Inv, TypeInv
  <2>3. i \in InfoRefs' /\ val \in Nat /\ Becomes(w, "seek", r, i, val)
    <3>1. HandlerType /\ "seek" \in Steps /\ i \in InfoRefs' /\ InfoRefs \subseteq InfoRefs'
      BY <1>2, <2>2 DEF Inv, TypeInv, Steps, InfoRefs
    <3>2. handler' = [handler EXCEPT ![w].pc = "seek", ![w].info = i]
      BY <1>5, <2>1 DEF ContinueLookup, Rq
    <3> QED
      BY <3>1, <3>2, GoingOnWithInfo
  <2>4. StageFits("seek", r, i, val)'
    BY <1>1, <1>2, <1>5, <2>1 DEF StageFits, Finished, Held
  <2> QED
    BY <1>1, <1>2, <1>3, <2>3, <2>4, QuietStep DEF Steps, OpOf, Inv, TypeInv
<1> QED
  BY <1>4, <1>5

\* The step ContinueSelect keeps the invariant.
LEMMA ContinueSelectStep ==
  ASSUME Inv, NEW w \in Workers, ContinueSelect(w)
  PROVE  Inv'
<1> PICK r, info, val : r = handler[w].rq /\ info = handler[w].info /\ val = handler[w].val
  OBVIOUS
<1> Works(w) /\ handler[w].pc = "select"
  BY DEF ContinueSelect, At, Works
<1>1. r \in Requests /\ r.u \in Uploads /\ r.op = "continue" /\ StageFits("select", r, info, val)
  BY Alone DEF OpOf
<1>2. UNCHANGED <<rows, linked, disk, listed, sessions, infos, inbox, client, spent>>
  BY DEF ContinueSelect, database, files, memory
<1>3. sessions[r.u] = None
  BY <1>1 DEF StageFits
<1>4. CASE r.fid \in linked /\ rows[r.fid] = 0
  <2>1. Goes(w, "reopen")
    BY <1>4 DEF ContinueSelect, Rq
  <2>2. info \in InfoRefs' /\ val \in Nat /\ Becomes(w, "reopen", r, info, val)
    BY <1>2, <2>1, GoingOn DEF Inv, TypeInv, Steps, InfoRefs
  <2>3. ~Finished
    <3> SUFFICES ASSUME NEW i \in DOMAIN rows, rows[i] = 1
                 PROVE  FALSE
      BY DEF Finished
    <3>1. PICK f : f = r.fid
      OBVIOUS
    <3>2. f \in DOMAIN rows /\ LiveFirst(f) /\ LiveFirst(i) /\ rows[f] = 0
      BY <1>4, <3>1 DEF Inv, TypeInv, RowsFit
    <3>3. i \in Nat /\ f \in Nat
      BY <3>2 DEF Inv, TypeInv
    <3>4. ~(i < f) /\ ~(f < i)
      BY <3>2 DEF LiveFirst, Removed
    <3>5. i = f
      BY <3>3, <3>4
    <3> QED
      BY <3>2, <3>5
  <2>4. StageFits("reopen", r, info, val)'
    BY <1>2, <2>3 DEF StageFits, Finished
  <2>5. SessionsFit' /\ sessions' \in [Uploads -> DOMAIN infos' \cup {None}]
    BY <1>2 DEF Inv, SessionsFit, TypeInv
  <2> QED
    BY <1>1, <1>2, <2>2, <2>4, <2>5, QuietStep DEF Steps, OpOf, Inv, TypeInv
<1>5. CASE ~(r.fid \in linked /\ rows[r.fid] = 0)
  <2>1. Ends(w)
    BY <1>5 DEF ContinueSelect, Rq
  <2>2. spent' \in [{"lost", "crash", "short", "fail"} -> Nat]
    BY <1>2 DEF Inv, TypeInv
  <2> QED
    BY <1>2, <1>3, <2>1, <2>2, Unanswered
<1> QED
  BY <1>4, <1>5

\* The step ContinueOpen keeps the invariant.
LEMMA ContinueOpenStep ==
  ASSUME Inv, NEW w \in Workers, ContinueOpen(w)
  PROVE  Inv'
<1> PICK r, val, n : r = handler[w].rq /\ val = handler[w].val /\ n = Len(infos')
  OBVIOUS
<1> Works(w) /\ handler[w].pc = "reopen"
  BY DEF ContinueOpen, At, Works
<1>1. r \in Requests /\ r.u \in Uploads /\ r.op = "continue" /\ StageFits("reopen", r, handler[w].info, val)
  BY Alone DEF OpOf
<1>2. UNCHANGED <<rows, linked, disk, listed, sessions, inbox, client, spent>>
  BY DEF ContinueOpen, database, files
<1>3. /\ infos' \in Seq([pos : Nat, offset : Nat, freed : BOOLEAN]) /\ DOMAIN infos' = DOMAIN infos \cup {n}
      /\ n \in Nat /\ n \notin DOMAIN infos /\ infos'[n] = NewInfo
      /\ \A i \in DOMAIN infos : infos'[i] = infos[i]
  BY Opened DEF ContinueOpen, Inv
<1>4. n \in InfoRefs' /\ val \in Nat /\ Becomes(w, "remap", r, n, val)
  <2>1. HandlerType /\ "remap" \in Steps /\ n \in InfoRefs' /\ InfoRefs \subseteq InfoRefs'
    BY <1>3 DEF Inv, TypeInv, Steps, InfoRefs
  <2>2. handler' = [handler EXCEPT ![w].pc = "remap", ![w].info = n]
    BY DEF ContinueOpen
  <2> QED
    BY <2>1, <2>2, GoingOnWithInfo
<1>5. sessions' \in [Uploads -> DOMAIN infos' \cup {None}] /\ \A v \in Uploads : sessions'[v] # n
  BY <1>2, <1>3, NoneAssumption DEF Inv, TypeInv
<1>6. StageFits("remap", r, n, val)'
  BY <1>1, <1>2, <1>3, <1>5 DEF StageFits, Finished, NewInfo
<1>7. SessionsFit'
  BY <1>2, <1>3 DEF Inv, TypeInv, SessionsFit
<1> QED
  BY <1>1, <1>2, <1>3, <1>4, <1>5, <1>6, <1>7, QuietStep DEF Steps, OpOf, Inv, TypeInv

\* The step ContinueMap keeps the invariant.
LEMMA ContinueMapStep ==
  ASSUME Inv, NEW w \in Workers, ContinueMap(w)
  PROVE  Inv'
<1> PICK r, info, val : r = handler[w].rq /\ info = handler[w].info /\ val = handler[w].val
  OBVIOUS
<1> Works(w) /\ handler[w].pc = "remap"
  BY DEF ContinueMap, At, Works
<1>1. r \in Requests /\ r.u \in Uploads /\ r.op = "continue" /\ StageFits("remap", r, info, val)
  BY Alone DEF OpOf
<1>2. UNCHANGED <<rows, linked, disk, listed, infos, inbox, client, spent>> /\ sessions' = [sessions EXCEPT ![r.u] = info]
  BY DEF ContinueMap, database, files, Rq
<1>3. info \in InfoRefs' /\ val \in Nat /\ Becomes(w, "seek", r, info, val)
  BY <1>2, GoingOn DEF ContinueMap, Inv, TypeInv, Steps, InfoRefs
<1>4. info \in DOMAIN infos /\ infos[info] = NewInfo /\ ~Finished /\ \A v \in Uploads : sessions[v] # info
  BY <1>1 DEF StageFits
<1>5. /\ sessions' \in [Uploads -> DOMAIN infos' \cup {None}] /\ sessions'[r.u] = info
      /\ \A v \in Uploads \ {r.u} : sessions'[v] = sessions[v]
  BY <1>1, <1>2, <1>4 DEF Inv, TypeInv
<1>6. info # None
  BY <1>4, NoneAssumption DEF Inv, TypeInv
<1>7. StageFits("seek", r, info, val)'
  BY <1>2, <1>4, <1>5, <1>6 DEF StageFits, Finished, Held
<1>8. SessionsFit'
  BY <1>2, <1>4, <1>5 DEF Inv, SessionsFit, NewInfo
<1> QED
  BY <1>1, <1>2, <1>3, <1>5, <1>7, <1>8, QuietStep DEF Steps, OpOf, Inv, TypeInv

\* The step ContinueSeek keeps the invariant.
LEMMA ContinueSeekStep ==
  ASSUME Inv, NEW w \in Workers, ContinueSeek(w)
  PROVE  Inv'
<1> PICK r, info, len : r = handler[w].rq /\ info = handler[w].info /\ len = Len(disk)
  OBVIOUS
<1> Works(w) /\ handler[w].pc = "seek"
  BY DEF ContinueSeek, At, Works
<1>1. r \in Requests /\ r.u \in Uploads /\ r.op = "continue" /\ StageFits("seek", r, info, handler[w].val)
  BY Alone DEF OpOf
<1>2. /\ UNCHANGED <<rows, linked, disk, listed, sessions, inbox, client, spent>>
      /\ infos' = [infos EXCEPT ![info].offset = len]
  BY DEF ContinueSeek, database, files
<1>3. sessions[r.u] # None /\ info = sessions[r.u] /\ info \in DOMAIN infos /\ ~Finished /\ len \in Nat
  BY <1>1 DEF StageFits, Held, Inv, TypeInv
<1>4. /\ infos' \in Seq([pos : Nat, offset : Nat, freed : BOOLEAN]) /\ DOMAIN infos' = DOMAIN infos
      /\ infos'[info].offset = len
      /\ \A j \in DOMAIN infos : infos'[j].freed = infos[j].freed
  BY <1>2, <1>3, OffsetSet DEF Inv
<1>5. info \in InfoRefs' /\ len \in Nat /\ Becomes(w, "setpos", r, info, len)
  <2>1. HandlerType /\ "setpos" \in Steps /\ InfoRefs' = InfoRefs
    BY <1>4 DEF Inv, TypeInv, Steps, InfoRefs
  <2>2. handler' = [handler EXCEPT ![w].pc = "setpos", ![w].val = len]
    BY DEF ContinueSeek
  <2> QED
    BY <1>3, <2>1, <2>2, GoingOnWithVal
<1>6. StageFits("setpos", r, info, len)'
  BY <1>2, <1>3, <1>4 DEF StageFits, Finished, Held
<1>7. SessionsFit' /\ sessions' \in [Uploads -> DOMAIN infos' \cup {None}]
  BY <1>2, <1>4, SMTT(60) DEF Inv, SessionsFit, TypeInv
<1> QED
  BY <1>1, <1>2, <1>4, <1>5, <1>6, <1>7, QuietStep DEF Steps, OpOf, Inv, TypeInv

\* The step ContinueSet keeps the invariant.
LEMMA ContinueSetStep ==
  ASSUME Inv, NEW w \in Workers, ContinueSet(w)
  PROVE  Inv'
<1> PICK r, info, pos, c : /\ r = handler[w].rq /\ info = handler[w].info /\ pos = handler[w].val
                           /\ c = [client[r.u] EXCEPT !.pc = "send", !.pos = pos]
  OBVIOUS
<1> Works(w) /\ handler[w].pc = "setpos"
  BY DEF ContinueSet, At, Works
<1>1. r \in Requests /\ r.u \in Uploads /\ r.op = "continue" /\ StageFits("setpos", r, info, pos)
  BY Alone DEF OpOf
<1>2. /\ UNCHANGED <<rows, linked, disk, listed, sessions, inbox, spent>>
      /\ infos' = [infos EXCEPT ![info].pos = pos] /\ Reply(r, c) /\ Ends(w)
  BY DEF ContinueSet, database, files, Rq
<1>3. /\ sessions[r.u] # None /\ info = sessions[r.u] /\ info \in DOMAIN infos /\ ~Finished
      /\ pos = Len(disk) /\ pos \in Nat /\ infos[info].offset = pos
  <2>1. sessions[r.u] # None /\ info = sessions[r.u] /\ ~Finished /\ pos = Len(disk) /\ infos[info].offset = pos
    BY <1>1 DEF StageFits, Held
  <2>2. info \in DOMAIN infos /\ Len(disk) \in Nat
    BY <1>1, <2>1 DEF Inv, TypeInv
  <2> QED
    BY <2>1, <2>2
<1>4. /\ infos' \in Seq([pos : Nat, offset : Nat, freed : BOOLEAN]) /\ DOMAIN infos' = DOMAIN infos
      /\ infos'[info].offset = pos /\ infos'[info].pos = pos
      /\ \A j \in DOMAIN infos : infos'[j].freed = infos[j].freed
  BY <1>2, <1>3, PosSet DEF Inv
<1>5. client[r.u] \in [pc : ClientPcs, pos : Nat, fid : DOMAIN rows \cup {0}, conn : Nat]
  BY <1>1 DEF Inv, TypeInv, ClientType
<1>6. /\ c \in [pc : ClientPcs, pos : Nat, fid : DOMAIN rows \cup {0}, conn : Nat]
      /\ c.pc = "send" /\ c.pos = pos /\ c.fid = client[r.u].fid
  BY <1>3, <1>5 DEF ClientPcs
<1>7. /\ Len(disk) <= Len(disk') /\ pos <= Len(disk') /\ disk' \in Seq(Nat)
      /\ spent' \in [{"lost", "crash", "short", "fail"} -> Nat]
  <2>1. disk \in Seq(Nat) /\ spent \in [{"lost", "crash", "short", "fail"} -> Nat]
    BY DEF Inv, TypeInv
  <2>2. Len(disk) \in Nat
    BY <2>1
  <2> QED
    BY <1>2, <1>3, <2>1, <2>2
<1>8. SessionsFit'
  BY <1>2, <1>4 DEF Inv, TypeInv, SessionsFit
<1>9. FinishedIsWhole' /\ DiskIsPrefix'
  BY <1>2 DEF Inv, FinishedIsWhole, Finished, DiskIsPrefix
<1>10. infos'[sessions[r.u]].pos = pos /\ infos'[sessions[r.u]].offset = pos /\ r.op # "upload"
  BY <1>1, <1>3, <1>4
<1>11. Reply(r, c) /\ Ends(w) /\ UNCHANGED <<rows, linked, sessions, listed, inbox>>
  BY <1>2
<1>12. infos' \in Seq([pos : Nat, offset : Nat, freed : BOOLEAN]) /\ DOMAIN infos' = DOMAIN infos
  BY <1>4
<1> QED
  BY <1>3, <1>6, <1>7, <1>8, <1>9, <1>10, <1>11, <1>12, Answered

-----------------------------------------------------------------------------
(* Requests, lost connections, crashes and deletions.                       *)

\* DealData: a request goes to an idle worker, and the invariant is kept.
LEMMA DealStep ==
  ASSUME Inv, NEW w \in Workers, Deal(w)
  PROVE  Inv'
<1>1. PICK q \in inbox : /\ inbox' = inbox \ {q}
                         /\ handler' = [handler EXCEPT ![w] = [Idle EXCEPT !.pc = First(q.op), !.rq = q]]
  BY DEF Deal
<1>2. UNCHANGED <<rows, linked, disk, listed, sessions, infos, client, spent>>
  BY DEF Deal, database, files, memory
<1>3. /\ q \in Requests /\ q.op \in Ops /\ q.u \in Uploads /\ inbox = {q} /\ q # None
      /\ \A v \in Workers : handler[v] = Idle
      /\ RequestFits(q) /\ StageFits(First(q.op), q, 0, 0)
  BY NoneAssumption DEF Inv, TypeInv, Requests, Serial, RequestsFit
<1>4. PICK pc, h : pc = First(q.op) /\ h = [Idle EXCEPT !.pc = pc, !.rq = q]
  OBVIOUS
<1>5. pc \in {"quick", "find", "lookup"} /\ OpOf(pc) = q.op
  BY <1>3, <1>4 DEF First, OpOf, Ops
<1>6. /\ h.pc = pc /\ h.rq = q /\ h.info = 0 /\ h.val = 0
      /\ h \in [pc : Steps, rq : Jobs, info : InfoRefs, val : Nat]
  BY <1>3, <1>4, <1>5 DEF Idle, Steps, Jobs, InfoRefs
<1>7. handler'[w] = h /\ \A v \in Workers \ {w} : handler'[v] = Idle
  BY <1>1, <1>3, <1>4 DEF Inv, TypeInv, HandlerType
<1>8. TypeInv'
  <2>1. handler' \in [Workers -> [pc : Steps, rq : Jobs, info : InfoRefs, val : Nat]]
    BY <1>1, <1>4, <1>6 DEF Inv, TypeInv, HandlerType
  <2>2. HandlerType'
    BY <1>2, <2>1 DEF HandlerType, InfoRefs
  <2> QED
    BY <1>1, <1>2, <2>2 DEF Inv, TypeInv, ClientType
<1>9. inbox' = {}
  BY <1>1, <1>3
<1>10. \A u \in Uploads : Serving(u)' <=> Serving(u)
  <2>1. \A u \in Uploads : Serving(u) <=> u = q.u
    BY <1>3 DEF Serving, Idle
  <2>2. \A u \in Uploads : Serving(u)' <=> u = q.u
    BY <1>3, <1>6, <1>7, <1>9 DEF Serving, Idle
  <2> QED
    BY <2>1, <2>2
<1>11. Serial'
  <2>1. \A v \in Workers : Works(v)' => v = w
    BY <1>7 DEF Works, Idle
  <2>2. \A v \in Workers : IF Works(v)' THEN handler'[v].rq \in Requests ELSE handler'[v] = Idle
    BY <1>3, <1>5, <1>6, <1>7 DEF Works, Idle
  <2> QED
    BY <1>9, <2>1, <2>2 DEF Serial
<1>12. OneAtATime'
  BY <1>2, <1>10 DEF Inv, OneAtATime, Current
<1>13. RequestsFit'
  <2>1. RequestFits(q)' /\ StageFits(pc, q, 0, 0)'
    BY <1>2, <1>3, <1>4 DEF RequestFits, StageFits, LiveFirst, Finished, Held, Stands
  <2>2. HandlerFits(w)'
    BY <1>5, <1>6, <1>7, <2>1 DEF HandlerFits, RequestFits, StageFits, Held, Stands
  <2>3. \A v \in Workers \ {w} : HandlerFits(v)'
    BY <1>7 DEF HandlerFits, Works, Idle
  <2> QED
    BY <1>9, <2>2, <2>3 DEF RequestsFit
<1>14. \A u \in Uploads : ClientFits(u)'
  BY <1>2, <1>10 DEF Inv, ClientFits, LiveFirst, Finished
<1>15. RowsFit' /\ SessionsFit' /\ FinishedIsWhole' /\ DiskIsPrefix' /\ AckedIsStored'
  BY <1>2 DEF Inv, RowsFit, LiveFirst, SessionsFit, FinishedIsWhole, Finished, DiskIsPrefix, AckedIsStored
<1> QED
  BY <1>8, <1>11, <1>12, <1>13, <1>14, <1>15 DEF Inv

\* When no upload is served there is nothing in the server.
LEMMA Quiescent ==
  ASSUME Inv, \A v \in Uploads : ~Serving(v)
  PROVE  inbox = {} /\ \A w \in Workers : handler[w] = Idle
<1>1. inbox = {}
  BY DEF Inv, TypeInv, Requests, Serving
<1>2. ASSUME NEW w \in Workers
      PROVE  handler[w] = Idle
  <2> SUFFICES ASSUME Works(w)
               PROVE  FALSE
    BY DEF Inv, Serial
  <2>1. handler[w].rq \in Requests
    BY DEF Inv, Serial
  <2> QED
    BY <2>1, NoneAssumption DEF Serving, Requests
<1> QED
  BY <1>1, <1>2

\* A client sends a request while none is under way.
LEMMA Received ==
  ASSUME Inv, \A v \in Uploads : ~Serving(v), NEW u \in Uploads,
         NEW q \in Requests, q.u = u, inbox' = inbox \cup {q},
         NEW pc \in {"uploading", "sending", "continuing"}, client' = [client EXCEPT ![u].pc = pc],
         UNCHANGED <<rows, linked, disk, listed, sessions, infos, handler, spent>>,
         \A v \in Uploads \ {u} : client[v].pc \in {"new", "done", "gone"},
         RequestFits(q)', StageFits(First(q.op), q, 0, 0), ClientFits(u)'
  PROVE  Inv'
<1>1. inbox = {} /\ \A w \in Workers : handler[w] = Idle
  BY Quiescent
<1>2. /\ client'[u].pc = pc /\ client'[u].pos = client[u].pos /\ client'[u].fid = client[u].fid
      /\ \A v \in Uploads \ {u} : client'[v] = client[v]
      /\ ClientType'
  <2>1. PICK C, P : C = DOMAIN rows \cup {0} /\ P = ClientPcs
    OBVIOUS
  <2>2. client \in [Uploads -> [pc : P, pos : Nat, fid : C, conn : Nat]] /\ pc \in P
    BY <2>1 DEF Inv, TypeInv, ClientType, ClientPcs
  <2>3. /\ client'[u].pc = pc /\ client'[u].pos = client[u].pos /\ client'[u].fid = client[u].fid
        /\ \A v \in Uploads \ {u} : client'[v] = client[v]
        /\ client' \in [Uploads -> [pc : P, pos : Nat, fid : C, conn : Nat]]
    BY <2>2
  <2> QED
    BY <2>1, <2>3 DEF ClientType
<1>3. TypeInv'
  BY <1>1, <1>2 DEF Inv, TypeInv, HandlerType, InfoRefs
<1>4. inbox' = {q}
  BY <1>1
<1>5. \A v \in Uploads : Serving(v)' <=> v = u
  BY <1>1, <1>4 DEF Serving, Idle
<1>6. Serial'
  BY <1>1, <1>4 DEF Serial, Works, Idle
<1>7. OneAtATime'
  BY <1>2, <1>5 DEF OneAtATime, Current
<1>8. RequestsFit'
  <2>1. StageFits(First(q.op), q, 0, 0)'
    <3>1. PICK p : p = First(q.op)
      OBVIOUS
    <3>2. StageFits(p, q, 0, 0)'
      BY <3>1 DEF StageFits, LiveFirst, Finished, Held, Stands
    <3> QED
      BY <3>1, <3>2
  <2>2. \A w \in Workers : HandlerFits(w)'
    BY <1>1 DEF HandlerFits, Works, Idle
  <2> QED
    BY <1>4, <2>1, <2>2 DEF RequestsFit
<1>9. \A v \in Uploads \ {u} : ClientFits(v)'
  <2> SUFFICES ASSUME NEW v \in Uploads \ {u}
               PROVE  ClientFits(v)'
    OBVIOUS
  <2>1. ClientFits(v) /\ client[v].pc \in {"new", "done", "gone"}
    BY DEF Inv
  <2> QED
    BY <1>2, <2>1 DEF ClientFits
<1>10. AckedIsStored'
  BY <1>2 DEF Inv, AckedIsStored
<1>11. RowsFit' /\ SessionsFit' /\ FinishedIsWhole' /\ DiskIsPrefix'
  BY DEF Inv, RowsFit, LiveFirst, SessionsFit, FinishedIsWhole, Finished, DiskIsPrefix
<1> QED
  BY <1>3, <1>6, <1>7, <1>8, <1>9, <1>10, <1>11 DEF Inv


\* A client that begins an upload keeps the invariant.
LEMMA ClientUploadsStep ==
  ASSUME Inv, ~Overlap, NEW u \in Uploads, ClientUploads(u)
  PROVE  Inv'
<1>1. PICK q : q = Request(u, "upload", 0, 0)
  OBVIOUS
<1>2. /\ inbox' = inbox \cup {q} /\ client' = [client EXCEPT ![u].pc = "uploading"] /\ client[u].pc = "new"
      /\ UNCHANGED <<rows, linked, disk, listed, sessions, infos, handler, spent>>
      /\ \A v \in Uploads \ {u} : client[v].pc \in {"new", "done", "gone"} /\ ~Serving(v)
  BY <1>1 DEF ClientUploads, database, files, memory
<1>3. client[u] \in [pc : ClientPcs, pos : Nat, fid : DOMAIN rows \cup {0}, conn : Nat] /\ DOMAIN rows \subseteq Nat
  BY DEF Inv, TypeInv, ClientType
<1>4. /\ q \in Requests /\ q.u = u /\ q.op = "upload" /\ q.fid = client[u].fid /\ q.conn = client[u].conn
  BY <1>1, <1>3 DEF Request, Requests, Ops
<1>5. \A v \in Uploads : ~Serving(v)
  BY <1>2 DEF Inv, OneAtATime
<1>6. client[u].fid = 0 /\ client[u].pos = 0 /\ sessions[u] = None
  BY <1>2 DEF Inv, ClientFits
<1>7. /\ client'[u].pc = "uploading" /\ client'[u].fid = client[u].fid
      /\ client'[u].pos = client[u].pos /\ client'[u].conn = client[u].conn
  BY <1>2, <1>3 DEF Inv, TypeInv, ClientType
<1>8. RequestFits(q)' /\ ClientFits(u)' /\ StageFits(First(q.op), q, 0, 0)
  <2>1. RequestFits(q)'
    BY <1>3, <1>4, <1>7 DEF RequestFits, Waits
  <2>2. ClientFits(u)'
    BY <1>6, <1>7 DEF ClientFits
  <2>3. StageFits(First(q.op), q, 0, 0)
    BY <1>4, <1>6 DEF StageFits, First
  <2> QED
    BY <2>1, <2>2, <2>3
<1> QED
  BY <1>2, <1>4, <1>5, <1>8, Received

\* A client that sends a block keeps the invariant.
LEMMA ClientSendsStep ==
  ASSUME Inv, NEW u \in Uploads, ClientSends(u)
  PROVE  Inv'
<1>1. PICK pos, len : pos = client[u].pos /\ len = IF Size - pos < Block THEN Size - pos ELSE Block
  OBVIOUS
<1>2. PICK q : q = Request(u, "content", pos + 1, len)
  OBVIOUS
<1>3. /\ inbox' = inbox \cup {q} /\ client' = [client EXCEPT ![u].pc = "sending"] /\ client[u].pc = "send" /\ pos < Size
      /\ UNCHANGED <<rows, linked, disk, listed, sessions, infos, handler, spent>>
  BY <1>1, <1>2 DEF ClientSends, database, files, memory
<1>4. client[u] \in [pc : ClientPcs, pos : Nat, fid : DOMAIN rows \cup {0}, conn : Nat] /\ DOMAIN rows \subseteq Nat \ {0}
  BY DEF Inv, TypeInv, ClientType
<1>5. pos \in Nat /\ len \in Nat /\ len > 0 /\ pos + len <= Size
  <2>1. Size \in Nat /\ Block \in Nat /\ Block > 0 /\ pos \in Nat
    BY <1>1, <1>4, UploadAssumption
  <2> QED
    BY <1>1, <1>3, <2>1
<1>6. /\ q \in Requests /\ q.u = u /\ q.op = "content" /\ q.fid = client[u].fid /\ q.conn = client[u].conn
      /\ q.from = pos + 1 /\ q.len = len
  BY <1>2, <1>4, <1>5 DEF Request, Requests, Ops
<1>7. (\A v \in Uploads : ~Serving(v)) /\ \A v \in Uploads \ {u} : client[v].pc \in {"new", "done", "gone"}
  BY <1>3 DEF Inv, OneAtATime, Current
<1>8. /\ ~Finished /\ LiveFirst(client[u].fid) /\ client[u].fid # 0 /\ pos <= Len(disk)
      /\ sessions[u] # None => infos[sessions[u]].pos = pos /\ infos[sessions[u]].offset = pos
  <2>1. ClientFits(u) /\ (client[u].fid # 0 /\ rows[client[u].fid] # Removed => client[u].pos <= Len(disk))
    BY DEF Inv, AckedIsStored
  <2> QED
    BY <1>1, <1>3, <1>4, <2>1 DEF ClientFits, LiveFirst
<1>9. /\ client'[u].pc = "sending" /\ client'[u].fid = client[u].fid
      /\ client'[u].pos = pos /\ client'[u].conn = client[u].conn
  BY <1>1, <1>3, <1>4 DEF Inv, TypeInv, ClientType
<1>10. RequestFits(q)'
  <2>1. q.from - 1 = pos
    BY <1>5, <1>6
  <2> QED
    BY <1>4, <1>5, <1>6, <1>9, <2>1 DEF RequestFits, Waits
<1>11. ClientFits(u)'
  BY <1>3, <1>8, <1>9 DEF ClientFits, LiveFirst, Finished
<1>12. StageFits(First(q.op), q, 0, 0)
  <2>1. q.from - 1 = pos
    BY <1>5, <1>6
  <2> QED
    BY <1>6, <1>8, <2>1 DEF StageFits, First, Stands
<1> QED
  BY <1>3, <1>6, <1>7, <1>10, <1>11, <1>12, Received

\* A client that asks to continue keeps the invariant.
LEMMA ClientContinuesStep ==
  ASSUME Inv, Patient, NEW u \in Uploads, ClientContinues(u)
  PROVE  Inv'
<1>1. PICK q : q = Request(u, "continue", 0, 0)
  OBVIOUS
<1>2. /\ inbox' = inbox \cup {q} /\ client' = [client EXCEPT ![u].pc = "continuing"] /\ client[u].pc = "lost"
      /\ UNCHANGED <<rows, linked, disk, listed, sessions, infos, handler, spent>> /\ ~Serving(u)
  BY <1>1 DEF ClientContinues, database, files, memory
<1>3. client[u] \in [pc : ClientPcs, pos : Nat, fid : DOMAIN rows \cup {0}, conn : Nat] /\ DOMAIN rows \subseteq Nat \ {0}
  BY DEF Inv, TypeInv, ClientType
<1>4. /\ q \in Requests /\ q.u = u /\ q.op = "continue" /\ q.fid = client[u].fid /\ q.conn = client[u].conn
  BY <1>1, <1>3 DEF Request, Requests, Ops
<1>5. (\A v \in Uploads : ~Serving(v)) /\ \A v \in Uploads \ {u} : client[v].pc \in {"new", "done", "gone"}
  BY <1>2 DEF Inv, OneAtATime, Current
<1>6. LiveFirst(client[u].fid) /\ client[u].fid # 0 /\ (Finished => sessions[u] = None)
  BY <1>2, <1>3 DEF Inv, ClientFits, LiveFirst
<1>7. /\ client'[u].pc = "continuing" /\ client'[u].fid = client[u].fid
      /\ client'[u].pos = client[u].pos /\ client'[u].conn = client[u].conn
  BY <1>2, <1>3 DEF Inv, TypeInv, ClientType
<1>8. RequestFits(q)'
  BY <1>3, <1>4, <1>7 DEF RequestFits, Waits
<1>9. ClientFits(u)'
  BY <1>2, <1>6, <1>7 DEF ClientFits, LiveFirst, Finished
<1>10. StageFits(First(q.op), q, 0, 0)
  BY <1>4, <1>6 DEF StageFits, First
<1> QED
  BY <1>2, <1>4, <1>5, <1>8, <1>9, <1>10, Received

\* A lost connection keeps the invariant.
LEMMA DisconnectStep ==
  ASSUME Inv, NEW u \in Uploads, Disconnect(u)
  PROVE  Inv'
<1>1. /\ UNCHANGED <<rows, linked, disk, listed, sessions, infos, handler>> /\ Spend("lost", MaxLost)
      /\ client[u].pc \notin {"new", "done", "gone"} /\ inbox' \subseteq inbox
  BY DEF Disconnect, database, files, memory
<1>2. PICK fid, pc : fid = client[u].fid /\ pc = IF fid = 0 THEN "gone" ELSE "lost"
  OBVIOUS
<1>3. client[u] \in [pc : ClientPcs, pos : Nat, fid : DOMAIN rows \cup {0}, conn : Nat] /\ 0 \notin DOMAIN rows
  BY DEF Inv, TypeInv, ClientType
<1>4. /\ client'[u].pc = pc /\ client'[u].fid = fid /\ client'[u].pos = client[u].pos
      /\ client'[u].conn = client[u].conn + 1
      /\ \A v \in Uploads \ {u} : client'[v] = client[v]
      /\ ClientType'
  <2>1. PICK C, P, n : C = DOMAIN rows \cup {0} /\ P = ClientPcs /\ n = client[u].conn + 1
    OBVIOUS
  <2>2. client \in [Uploads -> [pc : P, pos : Nat, fid : C, conn : Nat]] /\ pc \in P /\ n \in Nat
    BY <1>2, <1>3, <2>1 DEF Inv, TypeInv, ClientType, ClientPcs
  <2>3. client' = [client EXCEPT ![u].conn = n, ![u].pc = pc]
    BY <1>2, <2>1 DEF Disconnect
  <2>4. /\ client'[u].pc = pc /\ client'[u].pos = client[u].pos /\ client'[u].fid = client[u].fid
        /\ client'[u].conn = n
        /\ \A v \in Uploads \ {u} : client'[v] = client[v]
    BY <2>2, <2>3
  <2>5. client' \in [Uploads -> [pc : P, pos : Nat, fid : C, conn : Nat]]
    BY <2>2, <2>3
  <2> QED
    BY <1>1, <1>2, <2>1, <2>4, <2>5 DEF ClientType
<1>5. TypeInv'
  BY <1>1, <1>4, SpendTyped DEF Inv, TypeInv, HandlerType, InfoRefs
<1>6. \A v \in Uploads : Serving(v)' => Serving(v)
  BY <1>1 DEF Serving
<1>7. Serial'
  BY <1>1 DEF Inv, Serial, Works, Idle
<1>8. ClientFits(u)
  BY DEF Inv
<1>9. OneAtATime'
  BY <1>1, <1>2, <1>4, <1>6 DEF Inv, OneAtATime, Current
<1>10. \A r \in Requests : RequestFits(r) => RequestFits(r)'
  <2> SUFFICES ASSUME NEW r \in Requests, RequestFits(r)
               PROVE  RequestFits(r)'
    OBVIOUS
  <2>1. CASE r.u # u
    BY <1>4, <2>1 DEF RequestFits, Requests
  <2>2. CASE r.u = u
    <3>1. r.conn <= client'[u].conn /\ r.conn # client'[u].conn
      <4>1. r.conn \in Nat /\ client[u].conn \in Nat /\ r.conn <= client[u].conn
        BY <1>3, <2>2 DEF RequestFits, Requests
      <4> QED
        BY <1>4, <4>1
    <3>2. r.op = "upload" => pc = "gone"
      BY <1>1, <1>2, <1>8, <2>2 DEF RequestFits, ClientFits
    <3>3. r.op # "upload" => pc = "lost" /\ r.fid = fid
      BY <1>2, <1>3, <1>8, <2>2 DEF RequestFits, ClientFits, LiveFirst
    <3> QED
      BY <1>4, <2>2, <3>1, <3>2, <3>3 DEF RequestFits
  <2> QED
    BY <2>1, <2>2
<1>11. RequestsFit'
  <2>1. \A r \in inbox' : RequestFits(r)' /\ StageFits(First(r.op), r, 0, 0)'
    <3> SUFFICES ASSUME NEW r \in inbox'
                 PROVE  RequestFits(r)' /\ StageFits(First(r.op), r, 0, 0)'
      OBVIOUS
    <3>1. r \in Requests /\ RequestFits(r) /\ StageFits(First(r.op), r, 0, 0)
      BY <1>1 DEF Inv, TypeInv, RequestsFit
    <3>2. PICK p : p = First(r.op)
      OBVIOUS
    <3>3. StageFits(p, r, 0, 0)'
      BY <1>1, <3>1, <3>2 DEF StageFits, LiveFirst, Finished, Held, Stands
    <3> QED
      BY <1>10, <3>1, <3>2, <3>3
  <2>2. ASSUME NEW w \in Workers
        PROVE  HandlerFits(w)'
    <3>1. PICK h : h = handler[w]
      OBVIOUS
    <3>2. CASE h.pc = "idle"
      BY <1>1, <3>1, <3>2 DEF HandlerFits, Works
    <3>3. CASE h.pc # "idle"
      <4>1. /\ h.rq \in Requests /\ RequestFits(h.rq) /\ h.rq.op = OpOf(h.pc)
            /\ StageFits(h.pc, h.rq, h.info, h.val)
        BY <3>1, <3>3 DEF Inv, Serial, RequestsFit, HandlerFits, Works
      <4>2. RequestFits(h.rq)'
        BY <1>10, <4>1
      <4>3. StageFits(h.pc, h.rq, h.info, h.val)'
        BY <1>1, <4>1 DEF StageFits, LiveFirst, Finished, Held, Stands
      <4>4. h = handler'[w]
        BY <1>1, <3>1
      <4> QED
        BY <4>1, <4>2, <4>3, <4>4, ZenonT(60) DEF HandlerFits, RequestFits, StageFits, Held, Stands, LiveFirst, Finished
    <3> QED
      BY <3>2, <3>3
  <2> QED
    BY <2>1, <2>2 DEF RequestsFit
<1>12. ClientFits(u)'
  <2>1. CASE fid = 0
    BY <1>2, <1>4, <1>8, <2>1 DEF ClientFits
  <2>2. CASE fid # 0
    <3>1. LiveFirst(fid) /\ client[u].pc \in {"send", "sending", "lost", "continuing"}
      BY <1>1, <1>2, <1>3, <1>8, <2>2 DEF ClientFits, ClientPcs
    <3>2. ~Serving(u)' /\ Finished => sessions[u] = None
      <4>1. CASE ~Serving(u)
        BY <1>8, <3>1, <4>1 DEF ClientFits
      <4>2. CASE \E w \in Workers : handler[w].rq # None /\ handler[w].rq.u = u
        BY <1>1, <4>2 DEF Serving
      <4>3. ASSUME NEW r \in inbox, r.u = u
            PROVE  Finished => sessions[u] = None
        <5>1. r \in Requests /\ RequestFits(r) /\ StageFits(First(r.op), r, 0, 0)
          BY DEF Inv, TypeInv, RequestsFit
        <5>2. r.op \in {"content", "continue"}
          BY <1>2, <2>2, <4>3, <3>1, <5>1 DEF RequestFits, Requests, Ops
        <5> QED
          BY <4>3, <5>1, <5>2 DEF StageFits, First
      <4> QED
        BY <4>1, <4>2, <4>3 DEF Serving
    <3>3. client'[u].pc = "lost" /\ client'[u].fid = fid /\ UNCHANGED <<rows, sessions>>
      BY <1>1, <1>2, <1>4, <2>2
    <3>4. Finished' <=> Finished
      BY <1>1 DEF Finished
    <3> QED
      BY <2>2, <3>1, <3>2, <3>3, <3>4 DEF ClientFits, LiveFirst
  <2> QED
    BY <2>1, <2>2
<1>13. \A v \in Uploads \ {u} : ClientFits(v)'
  <2> SUFFICES ASSUME NEW v \in Uploads \ {u}
               PROVE  ClientFits(v)'
    OBVIOUS
  <2>1. ClientFits(v) /\ client[v].pc \in {"new", "done", "gone"}
    BY <1>1 DEF Inv, OneAtATime, Current
  <2> QED
    BY <1>1, <1>4, <2>1 DEF ClientFits
<1>14. AckedIsStored'
  BY <1>1, <1>2, <1>4 DEF Inv, AckedIsStored
<1>15. RowsFit' /\ SessionsFit' /\ FinishedIsWhole' /\ DiskIsPrefix'
  BY <1>1 DEF Inv, RowsFit, LiveFirst, SessionsFit, FinishedIsWhole, Finished, DiskIsPrefix
<1> QED
  BY <1>5, <1>7, <1>9, <1>11, <1>12, <1>13, <1>14, <1>15 DEF Inv


\* A crash, which loses the sessions and the handlers, keeps the invariant.
LEMMA CrashStep ==
  ASSUME Inv, Crash
  PROVE  Inv'
<1>1. /\ UNCHANGED <<rows, linked, disk, listed>> /\ Spend("crash", MaxCrash)
      /\ sessions' = [u \in Uploads |-> None] /\ infos' = <<>>
      /\ inbox' = {} /\ handler' = [w \in Workers |-> Idle]
  BY DEF Crash, database, files
<1>2. ASSUME NEW u \in Uploads
      PROVE  /\ client'[u] \in [pc : ClientPcs, pos : Nat, fid : DOMAIN rows \cup {0}, conn : Nat]
             /\ client'[u].fid = client[u].fid /\ client'[u].pos = client[u].pos
             /\ client'[u].pc = IF client[u].pc \in {"new", "done", "gone"} THEN client[u].pc
                                ELSE IF client[u].fid = 0 THEN "gone" ELSE "lost"
  <2>1. PICK c, pc, n : /\ c = client[u] /\ n = c.conn + 1
                        /\ pc = IF c.pc \in {"new", "done", "gone"} THEN c.pc ELSE IF c.fid = 0 THEN "gone" ELSE "lost"
    OBVIOUS
  <2>2. client'[u] = [c EXCEPT !.conn = n, !.pc = pc]
    BY <2>1 DEF Crash
  <2>3. c \in [pc : ClientPcs, pos : Nat, fid : DOMAIN rows \cup {0}, conn : Nat]
    BY <2>1 DEF Inv, TypeInv, ClientType
  <2>4. n \in Nat /\ pc \in ClientPcs
    BY <2>1, <2>3 DEF ClientPcs
  <2> QED
    BY <2>1, <2>2, <2>3, <2>4
<1>3. TypeInv'
  <2>1. ClientType'
    <3>1. client' = [u \in Uploads |-> client'[u]]
      BY DEF Crash
    <3> QED
      BY <1>1, <1>2, <3>1 DEF ClientType
  <2>2. HandlerType'
    <3>1. Idle \in [pc : Steps, rq : Jobs, info : DOMAIN infos' \cup {0}, val : Nat]
      BY DEF Idle, Steps, Jobs
    <3> QED
      BY <1>1, <3>1 DEF HandlerType, InfoRefs
  <2>3. infos' \in Seq([pos : Nat, offset : Nat, freed : BOOLEAN]) /\ sessions' \in [Uploads -> DOMAIN infos' \cup {None}]
    BY <1>1
  <2> QED
    BY <1>1, <2>1, <2>2, <2>3, SpendTyped DEF Inv, TypeInv
<1>4. \A v \in Uploads : ~Serving(v)'
  BY <1>1 DEF Serving, Idle
<1>5. Serial' /\ RequestsFit'
  BY <1>1 DEF Serial, RequestsFit, HandlerFits, Works, Idle
<1>6. OneAtATime'
  BY <1>2, <1>4 DEF Inv, OneAtATime, Current
<1>7. \A u \in Uploads : ClientFits(u)'
  <2> SUFFICES ASSUME NEW u \in Uploads
               PROVE  ClientFits(u)'
    OBVIOUS
  <2>1. ClientFits(u) /\ client[u].pc \in ClientPcs /\ sessions'[u] = None
    BY <1>1 DEF Inv, TypeInv, ClientType
  <2>2. PICK fid : fid = client[u].fid
    OBVIOUS
  <2>3. CASE client[u].pc \in {"new", "done", "gone"}
    BY <1>1, <1>2, <2>1, <2>3 DEF ClientFits
  <2>4. CASE client[u].pc \notin {"new", "done", "gone"} /\ fid = 0
    BY <1>1, <1>2, <2>1, <2>2, <2>4 DEF ClientFits
  <2>5. CASE client[u].pc \notin {"new", "done", "gone"} /\ fid # 0
    <3>1. LiveFirst(fid) /\ client'[u].pc = "lost" /\ client'[u].fid = fid
      BY <1>2, <2>1, <2>2, <2>5 DEF ClientFits, ClientPcs
    <3> QED
      BY <1>1, <2>1, <2>5, <3>1 DEF ClientFits, LiveFirst
  <2> QED
    BY <2>3, <2>4, <2>5
<1>8. SessionsFit'
  BY <1>1 DEF SessionsFit
<1>9. AckedIsStored'
  BY <1>1, <1>2 DEF Inv, AckedIsStored
<1>10. RowsFit' /\ FinishedIsWhole' /\ DiskIsPrefix'
  BY <1>1 DEF Inv, RowsFit, LiveFirst, FinishedIsWhole, Finished, DiskIsPrefix
<1> QED
  BY <1>3, <1>5, <1>6, <1>7, <1>8, <1>9, <1>10 DEF Inv

\* A deletion, which nobody makes during an upload, keeps the invariant.
LEMMA DeleteStep ==
  ASSUME Inv, NEW f, Delete(f)
  PROVE  Inv'
<1>1. /\ \A u \in Uploads : client[u].pc \in {"new", "done", "gone"} /\ ~Serving(u)
      /\ f \in linked /\ rows' = [rows EXCEPT ![f] = Removed] /\ linked' = linked \ {f} /\ disk' = <<>>
      /\ UNCHANGED <<listed, sessions, infos, inbox, handler, client, spent>>
  BY DEF Delete, memory
<1>2. inbox = {} /\ \A w \in Workers : handler[w] = Idle
  BY <1>1, Quiescent
<1>3. f \in DOMAIN rows /\ LiveFirst(f)
  BY <1>1 DEF Inv, TypeInv, RowsFit
<1>4. /\ rows' \in Seq({0, 1, Removed}) /\ DOMAIN rows' = DOMAIN rows /\ rows'[f] = Removed
      /\ \A g \in DOMAIN rows \ {f} : rows'[g] = rows[g]
  <2>1. PICK S, m, t : S = {0, 1, Removed} /\ m = Len(rows) /\ t = rows'
    OBVIOUS
  <2>2. rows \in [1..m -> S] /\ m \in Nat
    BY <2>1, SeqIsFunction DEF Inv, TypeInv
  <2>3. t \in [1..m -> S]
    BY <1>1, <1>3, <2>1, <2>2
  <2>4. t \in Seq(S) /\ DOMAIN t = DOMAIN rows
    BY <2>2, <2>3, SeqIsFunction
  <2> QED
    BY <1>1, <1>3, <2>1, <2>2, <2>4
<1>5. ASSUME NEW g \in DOMAIN rows, g \in linked \/ rows[g] = 1
      PROVE  g = f
  <2>1. LiveFirst(g)
    BY <1>5 DEF Inv, RowsFit
  <2>2. f \in Nat /\ g \in Nat /\ ~(f < g) /\ ~(g < f)
    BY <1>3, <2>1 DEF Inv, TypeInv, LiveFirst
  <2> QED
    BY <2>2
<1>6. (\A g \in DOMAIN rows : rows'[g] # 1) /\ linked' = {}
  BY <1>1, <1>4, <1>5 DEF Inv, TypeInv, Removed
<1>7. TypeInv'
  BY <1>1, <1>4, <1>6 DEF Inv, TypeInv, HandlerType, InfoRefs, ClientType
<1>8. Serial' /\ OneAtATime' /\ RequestsFit'
  BY <1>1, <1>2 DEF Inv, Serial, Works, OneAtATime, Current, Serving, RequestsFit, HandlerFits, Idle
<1>9. RowsFit' /\ FinishedIsWhole' /\ DiskIsPrefix' /\ SessionsFit'
  BY <1>1, <1>4, <1>6, UploadAssumption
     DEF Inv, RowsFit, FinishedIsWhole, Finished, DiskIsPrefix, SessionsFit
<1>10. ASSUME NEW u \in Uploads
       PROVE  ClientFits(u)' /\ (client[u].fid # 0 => rows'[client[u].fid] = Removed)
  <2>1. ClientFits(u) /\ client[u].fid \in DOMAIN rows \cup {0}
    BY DEF Inv, TypeInv, ClientType
  <2>2. client[u].fid # 0 => rows'[client[u].fid] = Removed
    BY <1>1, <1>4, <1>5, <2>1 DEF ClientFits
  <2> QED
    BY <1>1, <2>1, <2>2 DEF ClientFits
<1>11. AckedIsStored'
  BY <1>1, <1>10 DEF AckedIsStored
<1> QED
  BY <1>7, <1>8, <1>9, <1>10, <1>11 DEF Inv
-----------------------------------------------------------------------------
(* The theorems.                                                            *)

\* The invariant holds at the start.
LEMMA InitInv == TransferInit => Inv
<1> SUFFICES ASSUME TransferInit
             PROVE  Inv
  OBVIOUS
<1> USE DEF TransferInit, Init
<1>1. TypeInv
  <2>1. HandlerType
    BY DEF HandlerType, InfoRefs, Jobs, Idle, Steps
  <2>2. ClientType
    BY DEF ClientType, ClientPcs
  <2> QED
    BY <2>1, <2>2 DEF TypeInv
<1>2. \A u \in Uploads : ~Serving(u)
  BY DEF Serving, Idle
<1>3. Serial /\ RequestsFit
  BY DEF Serial, RequestsFit, HandlerFits, Works, Idle
<1>4. OneAtATime
  BY <1>2 DEF OneAtATime, Current
<1>5. RowsFit /\ SessionsFit /\ FinishedIsWhole /\ AckedIsStored
  BY DEF RowsFit, SessionsFit, FinishedIsWhole, Finished, AckedIsStored
<1>6. DiskIsPrefix
  BY UploadAssumption DEF DiskIsPrefix
<1>7. \A u \in Uploads : ClientFits(u)
  BY DEF ClientFits
<1> QED
  BY <1>1, <1>3, <1>4, <1>5, <1>6, <1>7 DEF Inv

\* What changes nothing of the upload, as the daemon's steps, keeps the invariant.
LEMMA StutterInv ==
  ASSUME Inv, UNCHANGED uploadVars
  PROVE  Inv'
<1> USE DEF uploadVars, database, files, memory
<1>1. TypeInv' /\ Serial' /\ OneAtATime' /\ RowsFit' /\ SessionsFit'
  BY DEF Inv, TypeInv, HandlerType, InfoRefs, ClientType, Serial, Works, OneAtATime, Current, Serving, RowsFit, LiveFirst,
         SessionsFit
<1>2. RequestsFit'
  <2>1. ASSUME NEW pc, NEW r, NEW info, NEW val, StageFits(pc, r, info, val)
        PROVE  StageFits(pc, r, info, val)'
    <3>1. /\ Finished' <=> Finished
          /\ Held(r, info)' <=> Held(r, info)
          /\ \A i, p, o : Stands(i, p, o)' <=> Stands(i, p, o)
          /\ \A f : LiveFirst(f)' <=> LiveFirst(f)
      BY DEF Finished, Held, Stands, LiveFirst
    <3> QED
      BY <2>1, <3>1, SMTT(30) DEF StageFits
  <2>2. ASSUME NEW r, RequestFits(r)
        PROVE  RequestFits(r)'
    BY <2>2 DEF RequestFits, LiveFirst
  <2>3. \A w \in Workers : HandlerFits(w)'
    BY <2>1, <2>2 DEF Inv, RequestsFit, HandlerFits, Works
  <2>4. \A r \in inbox' : RequestFits(r)' /\ StageFits(First(r.op), r, 0, 0)'
    BY <2>1, <2>2 DEF Inv, RequestsFit
  <2> QED
    BY <2>3, <2>4 DEF RequestsFit
<1>3. \A u \in Uploads : ClientFits(u)'
  BY DEF Inv, ClientFits, LiveFirst, Finished, Serving
<1>4. FinishedIsWhole' /\ DiskIsPrefix' /\ AckedIsStored'
  BY DEF Inv, FinishedIsWhole, Finished, DiskIsPrefix, AckedIsStored
<1> QED
  BY <1>1, <1>2, <1>3, <1>4 DEF Inv

\* Every step keeps the invariant.
LEMMA NextInv ==
  ASSUME Patient, ~Overlap, Inv, [TransferNext]_transferVars
  PROVE  Inv'
<1>1. CASE Next
  <2>1. ASSUME NEW u \in Uploads, ClientUploads(u) \/ ClientGoesOn(u) \/ Disconnect(u)
        PROVE  Inv'
    BY <2>1, ClientUploadsStep, ClientSendsStep, ClientContinuesStep, DisconnectStep DEF ClientGoesOn
  <2>2. ASSUME NEW w \in Workers, Deal(w) \/ UpStep(w)
        PROVE  Inv'
    BY <2>2, DealStep, UpQuickStep, UpQuickLinkStep, UpQuickReplyStep, UpOpenStep, OpenFailsStep, UpMapStep,
       UpInsertStep, UpFidStep, UpLinkStep, UpReplyStep DEF UpStep
  <2>3. ASSUME NEW w \in Workers, ContentStep(w)
        PROVE  Inv'
    BY <2>3, ContentFindStep, ContentWriteStep, ContentShortStep, ContentSeekBackStep, ContentRefuseStep,
       ContentFailsStep, ContentLoadStep,
       ContentStoreStep, ContentStateStep, ContentEraseStep, ContentTransferStep, ContentAnswerStep DEF ContentStep
  <2>4. ASSUME NEW w \in Workers, ContinueStep(w)
        PROVE  Inv'
    BY <2>4, ContinueLookupStep, ContinueSelectStep, ContinueOpenStep, ContinueMapStep, ContinueSeekStep,
       ContinueSetStep DEF ContinueStep
  <2> QED
    BY <1>1, <2>1, <2>2, <2>3, <2>4, CrashStep DEF Next, WorkerStep
<1>2. CASE \E f \in linked : Delete(f)
  BY <1>2, DeleteStep
<1>3. CASE UNCHANGED uploadVars
  BY <1>3, StutterInv
<1> QED
  BY <1>1, <1>2, <1>3 DEF TransferNext, ServerStep, transferVars

(* The invariant.                                                           *)
THEOREM InvAlways == ASSUME Patient, ~Overlap PROVE TransferSpec => []Inv
<1>1. TransferInit => Inv
  BY InitInv
<1>2. Inv /\ [TransferNext]_transferVars => Inv'
  BY NextInv
<1> QED
  BY <1>1, <1>2, PTL DEF TransferSpec


\* Every variable has its type.
THEOREM TypeCorrect == ASSUME Patient, ~Overlap PROVE TransferSpec => []TypeOK
<1>1. Inv => TypeOK
  <2> SUFFICES ASSUME Inv
               PROVE  TypeOK
    OBVIOUS
  <2>1. disk \in Seq(0..Size)
    <3>1. PICK m, S : m = Len(disk) /\ S = 0..Size
      OBVIOUS
    <3>2. disk \in [1..m -> Nat] /\ m \in Nat /\ m <= Size /\ \A i \in 1..m : disk[i] = i
      BY <3>1, SeqIsFunction DEF Inv, TypeInv, DiskIsPrefix
    <3>3. disk \in [1..m -> S]
      BY <3>1, <3>2, UploadAssumption
    <3> QED
      BY <3>1, <3>2, <3>3, SeqIsFunction
  <2>2. \A w \in Workers : handler[w].pc \in Steps /\ handler[w].info \in DOMAIN infos \cup {0}
    BY DEF Inv, TypeInv, HandlerType, InfoRefs
  <2>3. \A u \in Uploads : client[u].pos \in Nat /\ client[u].fid \in DOMAIN rows \cup {0}
    BY DEF Inv, TypeInv, ClientType
  <2> QED
    BY <2>1, <2>2, <2>3 DEF Inv, TypeInv, TypeOK
<1> QED
  BY <1>1, InvAlways, PTL

\* A row with f_state 1 stands for a file that holds exactly the right bytes.
THEOREM FinishedIsWholeAlways == ASSUME Patient, ~Overlap PROVE TransferSpec => []FinishedIsWhole
<1>1. Inv => FinishedIsWhole
  BY DEF Inv
<1> QED
  BY <1>1, InvAlways, PTL

\* What is on disk is always a beginning of the right content.
THEOREM DiskIsPrefixAlways == ASSUME Patient, ~Overlap PROVE TransferSpec => []DiskIsPrefix
<1>1. Inv => DiskIsPrefix
  BY DEF Inv
<1> QED
  BY <1>1, InvAlways, PTL

\* A block the client was told is stored is on disk.
THEOREM AckedIsStoredAlways == ASSUME Patient, ~Overlap PROVE TransferSpec => []AckedIsStored
<1>1. Inv => AckedIsStored
  BY DEF Inv
<1> QED
  BY <1>1, InvAlways, PTL

-----------------------------------------------------------------------------
(* The transfer list: a finished upload is on it, or its handler is about   *)
(* to write the line.                                                       *)

Gone == {i \in DOMAIN rows : rows[i] = Removed}
Listing(w) == handler[w].pc \in {"erase", "transfer"}
ListFits == listed <= Cardinality(Gone) + (IF Finished /\ \A w \in Workers : ~Listing(w) THEN 1 ELSE 0)

\* The removed rows can be counted.
LEMMA GoneFinite == ASSUME TypeInv PROVE IsFiniteSet(Gone) /\ Cardinality(Gone) \in Nat
<1>1. PICK n : n = Len(rows)
  OBVIOUS
<1>2. n \in Nat /\ Gone \subseteq 1..n
  BY <1>1 DEF TypeInv, Gone
<1>3. IsFiniteSet(1..n)
  BY <1>2, FS_Interval
<1>4. IsFiniteSet(Gone)
  BY <1>2, <1>3, FS_Subset
<1> QED
  BY <1>4, FS_CardinalityType

NoneEnters == \A v \in Workers : Listing(v)' => Listing(v)

\* What a handler does elsewhere starts no list entry.
LEMMA NotListing ==
  ASSUME HandlerType, NEW w \in Workers
  PROVE  /\ Ends(w) => NoneEnters
         /\ \A pc : (pc \notin {"erase", "transfer"} \/ Listing(w)) /\ Goes(w, pc) => NoneEnters
         /\ \A pc, x : pc \notin {"erase", "transfer"} /\ handler' = [handler EXCEPT ![w].pc = pc, ![w].info = x] => NoneEnters
         /\ \A pc, x : pc \notin {"erase", "transfer"} /\ handler' = [handler EXCEPT ![w].pc = pc, ![w].val = x] => NoneEnters
         /\ \A pc, x : pc \notin {"erase", "transfer"} /\ handler' = [handler EXCEPT ![w] = [Idle EXCEPT !.pc = pc, !.rq = x]]
                         => NoneEnters
<1> USE DEF HandlerType, NoneEnters, Listing
<1>1. Ends(w) => NoneEnters
  BY DEF Ends, Idle
<1>2. \A pc : (pc \notin {"erase", "transfer"} \/ Listing(w)) /\ Goes(w, pc) => NoneEnters
  BY DEF Goes
<1>3. ASSUME NEW pc, NEW x, pc \notin {"erase", "transfer"}, handler' = [handler EXCEPT ![w].pc = pc, ![w].info = x]
      PROVE  NoneEnters
  <2>1. handler'[w].pc = pc /\ \A v \in Workers \ {w} : handler'[v] = handler[v]
    BY <1>3
  <2> QED
    BY <1>3, <2>1
<1>4. ASSUME NEW pc, NEW x, pc \notin {"erase", "transfer"}, handler' = [handler EXCEPT ![w].pc = pc, ![w].val = x]
      PROVE  NoneEnters
  <2>1. handler'[w].pc = pc /\ \A v \in Workers \ {w} : handler'[v] = handler[v]
    BY <1>4
  <2> QED
    BY <1>4, <2>1
<1>5. ASSUME NEW pc, NEW x, pc \notin {"erase", "transfer"},
             handler' = [handler EXCEPT ![w] = [Idle EXCEPT !.pc = pc, !.rq = x]]
      PROVE  NoneEnters
  <2>1. handler'[w].pc = pc /\ \A v \in Workers \ {w} : handler'[v] = handler[v]
    BY <1>5 DEF Idle
  <2> QED
    BY <1>5, <2>1
<1> QED
  BY <1>1, <1>2, <1>3, <1>4, <1>5

\* Only ContentState makes a handler one that is about to write a line.
LEMMA ListersStay ==
  ASSUME Inv, NEW w \in Workers, WorkerStep(w), ~ContentState(w), ~ContentTransfer(w)
  PROVE  listed' = listed /\ NoneEnters
<1>0. HandlerType /\ listed' = listed
  BY DEF Inv, TypeInv, WorkerStep, Deal, UpStep, ContentStep, ContinueStep, files,
         UpQuick, UpQuickLink, UpQuickReply, UpOpen, OpenFails, UpMap, UpInsert, UpFid, UpLink, UpReply,
         ContentFind, ContentWrite, ContentShort, ContentSeekBack, ContentRefuse, ContentFails, ContentLoad, ContentStore, ContentErase, ContentAnswer,
         ContinueLookup, ContinueSelect, ContinueOpen, ContinueMap, ContinueSeek, ContinueSet
<1>1. CASE Deal(w)
  <2>1. PICK rq \in inbox : handler' = [handler EXCEPT ![w] = [Idle EXCEPT !.pc = First(rq.op), !.rq = rq]]
    BY <1>1 DEF Deal
  <2>2. First(rq.op) \notin {"erase", "transfer"}
    BY DEF Inv, TypeInv, Requests, First, Ops
  <2> QED
    BY <1>0, <2>1, <2>2, NotListing
<1>2. CASE UpStep(w)
  <2>1. \/ Ends(w) \/ \E pc \in {"open", "quickreply", "insert", "fid", "upreply"} : Goes(w, pc)
        \/ \E i \in DOMAIN rows : handler' = [handler EXCEPT ![w].pc = "quicklink", ![w].val = i]
        \/ handler' = [handler EXCEPT ![w].pc = "map", ![w].info = Len(infos')]
        \/ handler' = [handler EXCEPT ![w].pc = "link", ![w].val = SelectInSeq(rows, LAMBDA r : r # Removed)]
    BY <1>2 DEF UpStep, UpQuick, UpQuickLink, UpQuickReply, UpOpen, OpenFails, UpMap, UpInsert, UpFid, UpLink, UpReply
  <2>2. /\ "quicklink" \notin {"erase", "transfer"} /\ "map" \notin {"erase", "transfer"}
        /\ "link" \notin {"erase", "transfer"}
    OBVIOUS
  <2>3. handler' = [handler EXCEPT ![w].pc = "map", ![w].info = Len(infos')] => NoneEnters
    BY <1>0, <2>2, NotListing
  <2>4. handler' = [handler EXCEPT ![w].pc = "link", ![w].val = SelectInSeq(rows, LAMBDA r : r # Removed)] => NoneEnters
    BY <1>0, <2>2, NotListing
  <2>5. \A pc \in {"open", "quickreply", "insert", "fid", "upreply"} : Goes(w, pc) => NoneEnters
    <3>1. TAKE pc \in {"open", "quickreply", "insert", "fid", "upreply"}
    <3>2. pc \notin {"erase", "transfer"}
      OBVIOUS
    <3> QED
      BY <1>0, <3>2, NotListing
  <2>6. \A i : handler' = [handler EXCEPT ![w].pc = "quicklink", ![w].val = i] => NoneEnters
    BY <1>0, <2>2, NotListing
  <2> QED
    BY <1>0, <2>1, <2>3, <2>4, <2>5, <2>6, NotListing
<1>3. CASE ContentErase(w)
  <2>1. Goes(w, "transfer") /\ Listing(w)
    BY <1>3 DEF ContentErase, At, Listing
  <2> QED
    BY <1>0, <2>1, NotListing
<1>4. CASE ContentStep(w) /\ ~ContentErase(w)
  <2>1. \/ Ends(w) \/ \E pc \in {"refuse", "load", "state", "answer"} : Goes(w, pc)
        \/ \E n : handler' = [handler EXCEPT ![w].pc = "back", ![w].val = n]
        \/ handler' = [handler EXCEPT ![w].pc = "write", ![w].info = sessions[Rq(w).u]]
        \/ handler' = [handler EXCEPT ![w].pc = "store", ![w].val = Info(w).pos]
    <3>1. ContentLoad(w) => handler' = [handler EXCEPT ![w].pc = "store", ![w].val = Info(w).pos]
      BY <1>0 DEF ContentLoad, HandlerType
    <3>2. ContentShort(w) => \E n : handler' = [handler EXCEPT ![w].pc = "back", ![w].val = n]
      BY DEF ContentShort
    <3> QED
      BY <1>4, <3>1, <3>2 DEF ContentStep, ContentFind, ContentWrite, ContentSeekBack, ContentRefuse, ContentFails,
                              ContentStore, ContentAnswer
  <2>2. /\ "back" \notin {"erase", "transfer"} /\ "write" \notin {"erase", "transfer"}
        /\ "store" \notin {"erase", "transfer"}
    OBVIOUS
  <2>3. handler' = [handler EXCEPT ![w].pc = "write", ![w].info = sessions[Rq(w).u]] => NoneEnters
    BY <1>0, <2>2, NotListing
  <2>4. handler' = [handler EXCEPT ![w].pc = "store", ![w].val = Info(w).pos] => NoneEnters
    BY <1>0, <2>2, NotListing
  <2>5. \A pc \in {"refuse", "load", "state", "answer"} : Goes(w, pc) => NoneEnters
    <3>1. TAKE pc \in {"refuse", "load", "state", "answer"}
    <3>2. pc \notin {"erase", "transfer"}
      OBVIOUS
    <3> QED
      BY <1>0, <3>2, NotListing
  <2>6. \A n : handler' = [handler EXCEPT ![w].pc = "back", ![w].val = n] => NoneEnters
    BY <1>0, <2>2, NotListing
  <2> QED
    BY <1>0, <2>1, <2>3, <2>4, <2>5, <2>6, NotListing
<1>5. CASE ContinueStep(w)
  <2>1. \/ Ends(w) \/ Goes(w, "select") \/ Goes(w, "reopen")
        \/ handler' = [handler EXCEPT ![w].pc = "seek", ![w].info = sessions[Rq(w).u]]
        \/ handler' = [handler EXCEPT ![w].pc = "remap", ![w].info = Len(infos')]
        \/ Goes(w, "seek")
        \/ handler' = [handler EXCEPT ![w].pc = "setpos", ![w].val = Len(disk)]
    BY <1>5 DEF ContinueStep, ContinueLookup, ContinueSelect, ContinueOpen, ContinueMap, ContinueSeek, ContinueSet, Goes
  <2>2. "select" \notin {"erase", "transfer"} /\ "reopen" \notin {"erase", "transfer"} /\ "remap" \notin {"erase", "transfer"} /\ "seek" \notin {"erase", "transfer"} /\ "setpos" \notin {"erase", "transfer"}
    OBVIOUS
  <2>3. handler' = [handler EXCEPT ![w].pc = "seek", ![w].info = sessions[Rq(w).u]] => NoneEnters
    BY <1>0, <2>2, NotListing
  <2>4. handler' = [handler EXCEPT ![w].pc = "remap", ![w].info = Len(infos')] => NoneEnters
    BY <1>0, <2>2, NotListing
  <2>5. handler' = [handler EXCEPT ![w].pc = "setpos", ![w].val = Len(disk)] => NoneEnters
    BY <1>0, <2>2, NotListing
  <2>6. Goes(w, "select") \/ Goes(w, "reopen") \/ Goes(w, "seek") => NoneEnters
    BY <1>0, <2>2, NotListing
  <2> QED
    BY <1>0, <2>1, <2>3, <2>4, <2>5, <2>6, NotListing
<1> QED
  BY <1>0, <1>1, <1>2, <1>3, <1>4, <1>5 DEF WorkerStep


\* A step that removes no row, writes no line and starts no list entry keeps ListFits.
LEMMA ListKeeps ==
  ASSUME Inv, ListFits, listed' = listed, NoneEnters, Gone' = Gone, Finished => Finished'
  PROVE  ListFits'
<1>1. PICK n, l, b, c : /\ n = Cardinality(Gone) /\ l = listed
                        /\ b = (Finished /\ \A w \in Workers : ~Listing(w))
                        /\ c = (Finished' /\ \A w \in Workers : ~Listing(w)')
  OBVIOUS
<1>2. n \in Nat /\ l \in Nat
  BY <1>1, GoneFinite DEF Inv, TypeInv
<1>3. l <= n + (IF b THEN 1 ELSE 0)
  BY <1>1 DEF ListFits
<1>4. b => c
  BY <1>1 DEF NoneEnters
<1>5. l <= n + (IF c THEN 1 ELSE 0)
  BY <1>2, <1>3, <1>4
<1> QED
  BY <1>1, <1>5 DEF ListFits

\* A step that leaves the rows and the list as they are, and starts no list entry, keeps ListFits.
LEMMA ListSameRows ==
  ASSUME Inv, ListFits, UNCHANGED <<rows, listed>>, NoneEnters
  PROVE  ListFits'
<1>1. Gone' = Gone /\ (Finished => Finished')
  BY DEF Gone, Finished
<1> QED
  BY <1>1, ListKeeps

\* A new row is not removed: ListFits is kept.
LEMMA UpInsertList ==
  ASSUME Inv, ListFits, NEW w \in Workers, UpInsert(w)
  PROVE  ListFits'
<1>1. PICK t, n : t = Append(rows, 0) /\ n = Len(t)
  OBVIOUS
<1>2. DOMAIN rows' = DOMAIN rows \cup {n} /\ rows'[n] = 0 /\ \A i \in DOMAIN rows : rows'[i] = rows[i]
  <2>1. PICK S : S = {0, 1, Removed}
    OBVIOUS
  <2>2. rows \in Seq(S) /\ 0 \in S
    BY <2>1 DEF Inv, TypeInv
  <2>3. DOMAIN t = DOMAIN rows \cup {n} /\ t[n] = 0 /\ \A i \in DOMAIN rows : t[i] = rows[i]
    BY <1>1, <2>2, Appended
  <2> QED
    BY <1>1, <2>3 DEF UpInsert
<1>3. Gone' = Gone /\ (Finished => Finished')
  <2>1. \A i : i \in Gone' <=> i \in Gone
    BY <1>2 DEF Gone, Removed
  <2> QED
    BY <1>2, <2>1 DEF Finished
<1>4. listed' = listed /\ NoneEnters
  BY ListersStay DEF WorkerStep, UpStep, ContentState, ContentTransfer, UpInsert, At
<1> QED
  BY <1>3, <1>4, ListKeeps

\* After the last block the row is finished, or the handler is about to write the list: ListFits is kept.
LEMMA ContentStateList ==
  ASSUME Inv, ListFits, NEW w \in Workers, ContentState(w)
  PROVE  ListFits'
<1>1. PICK r, f : r = handler[w].rq /\ f = r.fid
  OBVIOUS
<1>2. Works(w) /\ handler[w].pc = "state"
  BY DEF ContentState, At, Works
<1>3. r \in Requests /\ r.u \in Uploads /\ r.op = "content" /\ RequestFits(r) /\ ~Finished
  BY <1>1, <1>2, Alone DEF OpOf, StageFits
<1>4. f \in DOMAIN rows /\ rows[f] # Removed
  <2>1. f = client[r.u].fid /\ client[r.u].pc \in {"sending", "continuing", "lost"} /\ ClientFits(r.u)
    BY <1>1, <1>3 DEF Inv, RequestFits
  <2> QED
    BY <2>1 DEF ClientFits, LiveFirst
<1>5. rows' = [rows EXCEPT ![f] = 1] /\ listed' = listed
  BY <1>1 DEF ContentState, Rq, files
<1>6. Gone' = Gone
  <2>1. \A i : i \in Gone' <=> i \in Gone
    BY <1>4, <1>5 DEF Gone, Removed
  <2> QED
    BY <2>1
<1>7. PICK n, l, c : n = Cardinality(Gone) /\ l = listed /\ c = (Finished' /\ \A v \in Workers : ~Listing(v)')
  OBVIOUS
<1>8. n \in Nat /\ l \in Nat /\ l <= n
  BY <1>3, <1>7, GoneFinite DEF Inv, TypeInv, ListFits
<1>9. l <= n + (IF c THEN 1 ELSE 0)
  BY <1>8
<1> QED
  BY <1>5, <1>6, <1>7, <1>9 DEF ListFits

\* The list entry keeps ListFits.
LEMMA ContentTransferList ==
  ASSUME Inv, ListFits, NEW w \in Workers, ContentTransfer(w)
  PROVE  ListFits'
<1>1. PICK r, n, l : r = handler[w].rq /\ n = Cardinality(Gone) /\ l = listed
  OBVIOUS
<1>2. Works(w) /\ handler[w].pc = "transfer" /\ Listing(w)
  BY DEF ContentTransfer, At, Works, Listing
<1>3. n \in Nat /\ l \in Nat /\ l <= n
  BY <1>1, <1>2, GoneFinite DEF Inv, TypeInv, ListFits
<1>4. Finished /\ \A v \in Workers \ {w} : handler[v] = Idle
  BY <1>1, <1>2, Alone DEF StageFits, Finished
<1>5. rows' = rows /\ listed' = l + 1 /\ Goes(w, "answer")
  BY <1>1 DEF ContentTransfer, database
<1>6. \A v \in Workers : ~Listing(v)'
  BY <1>4, <1>5 DEF Listing, Goes, Idle, Inv, TypeInv, HandlerType
<1>7. Finished' /\ Gone' = Gone
  BY <1>4, <1>5 DEF Finished, Gone
<1>8. listed' <= n + 1
  BY <1>3, <1>5
<1> QED
  BY <1>1, <1>6, <1>7, <1>8 DEF ListFits

\* A deletion removes a row, which makes room for one more line: ListFits is kept.
LEMMA DeleteList ==
  ASSUME Inv, ListFits, NEW f, Delete(f)
  PROVE  ListFits'
<1>1. /\ f \in linked /\ rows' = [rows EXCEPT ![f] = Removed]
      /\ UNCHANGED <<listed, handler>>
  BY DEF Delete
<1>2. f \in DOMAIN rows /\ rows[f] # Removed
  BY <1>1 DEF Inv, TypeInv, RowsFit, LiveFirst
<1>3. f \notin Gone /\ Gone' = Gone \cup {f}
  <2>1. \A i : i \in Gone' <=> i \in Gone \cup {f}
    BY <1>1, <1>2 DEF Gone
  <2> QED
    BY <1>2, <2>1 DEF Gone
<1>4. PICK n, l, b : n = Cardinality(Gone) /\ l = listed /\ b = (Finished' /\ \A v \in Workers : ~Listing(v)')
  OBVIOUS
<1>5. n \in Nat /\ l \in Nat /\ l <= n + 1
  BY <1>4, GoneFinite DEF Inv, TypeInv, ListFits
<1>6. Cardinality(Gone') = n + 1
  BY <1>3, <1>4, GoneFinite, FS_AddElement DEF Inv
<1>7. l <= n + 1 + (IF b THEN 1 ELSE 0)
  BY <1>5
<1> QED
  BY <1>1, <1>4, <1>6, <1>7 DEF ListFits

\* Every step keeps ListFits.
LEMMA ListInv ==
  ASSUME Inv, ListFits, [TransferNext]_transferVars
  PROVE  ListFits'
<1>1. CASE \E u \in Uploads : ClientUploads(u) \/ ClientGoesOn(u) \/ Disconnect(u)
  <2>1. UNCHANGED <<rows, listed, handler>>
    BY <1>1 DEF ClientGoesOn, ClientUploads, ClientSends, ClientContinues, Disconnect, database, files
  <2> QED
    BY <2>1, ListSameRows DEF NoneEnters, Listing
<1>2. CASE Crash
  <2>1. UNCHANGED <<rows, listed>> /\ NoneEnters
    BY <1>2 DEF Crash, database, files, NoneEnters, Listing, Idle
  <2> QED
    BY <2>1, ListSameRows
<1>3. ASSUME NEW w \in Workers, WorkerStep(w)
      PROVE  ListFits'
  <2>1. CASE UpInsert(w)
    BY <2>1, UpInsertList
  <2>2. CASE ContentState(w)
    BY <2>2, ContentStateList
  <2>3. CASE ContentTransfer(w)
    BY <2>3, ContentTransferList
  <2>4. CASE ~UpInsert(w) /\ ~ContentState(w) /\ ~ContentTransfer(w)
    <3>1. listed' = listed /\ NoneEnters
      BY <1>3, <2>4, ListersStay
    <3>2. rows' = rows
      BY <1>3, <2>4 DEF WorkerStep, Deal, UpStep, ContentStep, ContinueStep, database,
         UpQuick, UpQuickLink, UpQuickReply, UpOpen, OpenFails, UpMap, UpFid, UpLink, UpReply,
         ContentFind, ContentWrite, ContentShort, ContentSeekBack, ContentRefuse, ContentFails, ContentLoad, ContentStore, ContentErase, ContentAnswer,
         ContinueLookup, ContinueSelect, ContinueOpen, ContinueMap, ContinueSeek, ContinueSet
    <3> QED
      BY <3>1, <3>2, ListSameRows
  <2> QED
    BY <2>1, <2>2, <2>3, <2>4
<1>4. CASE \E f \in linked : Delete(f)
  BY <1>4, DeleteList
<1>5. CASE UNCHANGED uploadVars
  <2>1. UNCHANGED <<rows, listed, handler>>
    BY <1>5 DEF uploadVars, database, files
  <2> QED
    BY <2>1, ListSameRows DEF NoneEnters, Listing
<1> QED
  BY <1>1, <1>2, <1>3, <1>4, <1>5 DEF TransferNext, ServerStep, Next, transferVars

\* The transfer list names a file at most once for every time it was received, and never before it is finished.
THEOREM ListedOnceFinishedAlways == ASSUME Patient, ~Overlap PROVE TransferSpec => []ListedOnceFinished
<1>1. TransferInit => ListFits
  <2> SUFFICES ASSUME TransferInit
               PROVE  ListFits
    OBVIOUS
  <2>1. Inv /\ listed = 0 /\ ~Finished
    BY InitInv DEF TransferInit, Init, Finished
  <2>2. PICK n : n = Cardinality(Gone) /\ n \in Nat
    BY <2>1, GoneFinite DEF Inv
  <2> QED
    BY <2>1, <2>2 DEF ListFits
<1>2. Inv /\ ListFits /\ [TransferNext]_transferVars => ListFits'
  BY ListInv
<1>3. Inv /\ ListFits => ListedOnceFinished
  <2> SUFFICES ASSUME Inv, ListFits
               PROVE  ListedOnceFinished
    OBVIOUS
  <2>1. PICK n, l : n = Cardinality(Gone) /\ l = listed
    OBVIOUS
  <2>2. n \in Nat /\ l \in Nat
    BY <2>1, GoneFinite DEF Inv, TypeInv
  <2>3. l <= n + (IF Finished THEN 1 ELSE 0)
    BY <2>1, <2>2 DEF ListFits
  <2>4. l <= n + 1 /\ (l = n + 1 => Finished)
    BY <2>2, <2>3
  <2>5. Finished => disk = Whole
    BY DEF Inv, FinishedIsWhole
  <2> QED
    BY <2>1, <2>4, <2>5 DEF ListedOnceFinished, Gone
<1>4. TransferSpec => []Inv
  BY InvAlways
<1> QED
  BY <1>1, <1>2, <1>3, <1>4, PTL DEF TransferSpec
==============================================================================
