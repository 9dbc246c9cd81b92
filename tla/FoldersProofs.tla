----------------------------- MODULE FoldersProofs ----------------------------
(****************************************************************************)
(* Theorems about Folders, for any users, workers, files, names and links,  *)
(* any relations at the start, and requests for any number of items: when   *)
(* deletions keep away from additions, and nobody changes the tree somebody *)
(* copies from (~Overlap).                                                  *)
(****************************************************************************)
EXTENDS Folders, FiniteSetTheorems, SequenceTheorems, WellFoundedInduction, TLAPS

\* The elements of a sequence, its first and the others.
LEMMA HeadAndRest ==
  ASSUME NEW T, NEW s \in Seq(T), s # <<>>
  PROVE  /\ ToSet(s) = {Head(s)} \cup ToSet(Tail(s)) /\ Head(s) \in T /\ Tail(s) \in Seq(T)
         /\ Head(s) \in ToSet(s)
<1>1. Len(s) \in Nat \ {0} /\ DOMAIN s = 1..Len(s) /\ Head(s) = s[1]
  BY EmptySeq, LenProperties
<1>2. /\ Head(s) \in T /\ Tail(s) \in Seq(T) /\ DOMAIN Tail(s) = 1..Len(s)-1
      /\ \A i \in 1..Len(s)-1 : Tail(s)[i] = s[i+1]
  BY HeadTailProperties, LenProperties, <1>1
<1>3. ASSUME NEW x \in ToSet(s) PROVE x = Head(s) \/ x \in ToSet(Tail(s))
  <2>1. PICK i \in 1..Len(s) : x = s[i]
    BY <1>1 DEF ToSet
  <2>2. CASE i = 1
    BY <1>1, <2>1, <2>2
  <2>3. CASE i # 1
    <3>1. i - 1 \in 1..Len(s)-1 /\ s[i] = Tail(s)[i-1]
      BY <1>1, <1>2, <2>3
    <3> QED BY <1>2, <2>1, <3>1 DEF ToSet
  <2> QED BY <2>2, <2>3
<1>4. Head(s) \in ToSet(s)
  BY <1>1 DEF ToSet
<1>5. ASSUME NEW x \in ToSet(Tail(s)) PROVE x \in ToSet(s)
  <2>1. PICK i \in 1..Len(s)-1 : x = Tail(s)[i]
    BY <1>2, <1>5 DEF ToSet
  <2>2. i + 1 \in 1..Len(s) /\ x = s[i+1]
    BY <1>1, <1>2, <2>1
  <2> QED BY <1>1, <2>2 DEF ToSet
<1> QED BY <1>2, <1>3, <1>4, <1>5

\* The elements of two sequences, one after the other.
LEMMA BothInOne ==
  ASSUME NEW T, NEW s \in Seq(T), NEW t \in Seq(T)
  PROVE  /\ s \o t \in Seq(T) /\ ToSet(s \o t) = ToSet(s) \cup ToSet(t)
         /\ s \o t = <<>> <=> s = <<>> /\ t = <<>>
<1>1. /\ s \o t \in Seq(T) /\ ToSet(s \o t) = Range(s \o t) /\ ToSet(s) = Range(s) /\ ToSet(t) = Range(t)
  BY ConcatProperties DEF ToSet, Range
<1> QED BY <1>1, RangeConcatenation, ConcatEqualIffEmpty

\* A finite set, selected as a list: each element, nothing else.
LEMMA ListOfSet ==
  ASSUME NEW S, IsFiniteSet(S)
  PROVE  SetToSeq(S) \in Seq(S) /\ ToSet(SetToSeq(S)) = S /\ (SetToSeq(S) = <<>> <=> S = {})
<1> DEFINE n == Cardinality(S)
<1>1. n \in Nat /\ IsFiniteSet(1..n) /\ Cardinality(1..n) = n
  BY FS_CardinalityType, FS_Interval
<1>2. \E f \in [1..n -> S] : IsInjective(f)
  <2>1. ExistsBijection(1..n, S)
    BY FS_NatBijection, <1>1, FS_CountingElements
  <2> QED BY <2>1 DEF ExistsBijection, Bijection, Injection
<1>3. SetToSeq(S) \in [1..n -> S] /\ IsInjective(SetToSeq(S))
  BY <1>2 DEF SetToSeq
<1>4. SetToSeq(S) \in Seq(S) /\ DOMAIN SetToSeq(S) = 1..n
  BY <1>1, <1>3, SeqDef
<1>5. \A x \in S : \E i \in 1..n : SetToSeq(S)[i] = x
  <2>1. SetToSeq(S) \in Injection(1..n, S)
    BY <1>3 DEF Injection
  <2>2. SetToSeq(S) \in Surjection(1..n, S)
    BY <1>1, <2>1, FS_Injection
  <2> QED BY <2>2 DEF Surjection
<1> QED BY <1>1, <1>3, <1>4, <1>5, FS_EmptySet, EmptySeq, LenProperties DEF ToSet

\* A list of one.
LEMMA ListOfOne ==
  ASSUME NEW T, NEW x \in T
  PROVE  <<x>> \in Seq(T) /\ ToSet(<<x>>) = {x} /\ Head(<<x>>) = x /\ Tail(<<x>>) = <<>> /\ <<x>> # <<>>
  BY DEF ToSet

\* An empty list.
LEMMA ListOfNone == \A T : <<>> \in Seq(T) /\ ToSet(<<>>) = {}
  BY DEF ToSet
-------------------------------------------------------------------------------
(* What a handler can be: one of four kinds, by the request it serves.      *)
Copies == [u : Users, dir : Seq(Names), f : Files \cup FolderIds, from : Users, fromdir : Seq(Names)]

AddHandlers == [pc : {"stat", "mkdir", "row", "fid", "relate"}, op : {"add"}, u : Users, from : {{}},
                items : {<<>>}, todo : Seq(Relations), goal : {{}}]
DeleteHandlers == [pc : {"item", "unfolder", "children", "unrelate", "look", "unrow", "unlink"},
                   op : {"delete"}, u : Users, from : {{}}, items : Seq(Relations),
                   todo : Seq(Relations), goal : SUBSET Relations]
ShareHandlers == [pc : {"setlink"}, op : {"share"}, u : Users, from : {{}},
                  items : {<<>>}, todo : Seq(Relations), goal : SUBSET (Relations \X Links)]
TakeHandlers == [pc : {"insert", "children"}, op : {"take"}, u : Users, from : SUBSET Users,
                 items : {<<>>}, todo : Seq(Copies), goal : SUBSET Relations]
Handlers == {Idle} \cup AddHandlers \cup DeleteHandlers \cup ShareHandlers \cup TakeHandlers

Adds(w) == handler[w].op = "add"
Takes(w) == handler[w].op = "take"

\* Where a deletion can be with an item: a folder and a file go different ways (lines 1066-1081).
DeletePcs(e) == IF IsFolder(e.f) THEN {"unfolder", "children"} ELSE {"unrelate", "look", "unrow", "unlink"}

(* A handler is at a step that fits its item, and all of its items are its   *)
(* user's; a handler that is not idle has something to do.                   *)
AddFits(h) == \E e \in Relations : h.todo = <<e>> /\ e.u = h.u /\ IsFolder(e.f)
DeleteFits(h) == /\ \A e \in ToSet(h.items) \cup ToSet(h.todo) : e.u = h.u
                 /\ h.todo = <<>> => h.pc = "item" /\ h.items # <<>>
                 /\ h.todo # <<>> => h.pc \in DeletePcs(Head(h.todo))
ShareFits(h) == h.todo # <<>> /\ \A g \in h.goal : g[1].u = h.u /\ \A k \in h.goal : k[2] = g[2]
TakeFits(h) == /\ h.todo # <<>> /\ (h.pc = "children" => IsFolder(Head(h.todo).f))
               /\ \A c \in ToSet(h.todo) : c.u = h.u /\ c.from \in h.from
Fits(h) == /\ h.op = "add" => AddFits(h)
           /\ h.op = "delete" => DeleteFits(h)
           /\ h.op = "share" => ShareFits(h)
           /\ h.op = "take" => TakeFits(h)

HandlersFit == handler \in [Workers -> Handlers] /\ \A w \in Workers : Fits(handler[w])

LinksFit == \A l \in links : l[1] \in entries /\ l[2] \in Links /\ \A k \in links : k[1] = l[1] => k = l

\* Types, and what is selected is a list.
Typed == /\ entries \subseteq Relations /\ IsFiniteSet(entries) /\ LinksFit
         /\ disk \subseteq Files /\ (\A d \in dirs : d[1] \in Users)
         /\ requests \in 0..MaxRequests /\ HandlersFit
-------------------------------------------------------------------------------
\* An idle handler is none of the four kinds.
LEMMA IdleFacts ==
  Idle.op = None /\ Idle.todo = <<>> /\ Idle.items = <<>> /\ Idle \in Handlers /\ Fits(Idle)
  /\ None \notin {"add", "delete", "share", "take"}
  BY FoldersAssumption DEF Idle, Handlers, Fits

\* A handler's kind, from its request.
LEMMA Kinds ==
  ASSUME HandlersFit, NEW w \in Workers
  PROVE  /\ Adds(w) => handler[w] \in AddHandlers
         /\ Deletes(w) => handler[w] \in DeleteHandlers
         /\ Shares(w) => handler[w] \in ShareHandlers
         /\ Takes(w) => handler[w] \in TakeHandlers
         /\ handler[w] # Idle => Adds(w) \/ Deletes(w) \/ Shares(w) \/ Takes(w)
<1>1. handler[w] \in Handlers
  BY DEF HandlersFit
<1> QED BY <1>1, IdleFacts DEF Handlers, AddHandlers, DeleteHandlers, ShareHandlers, TakeHandlers,
                               Adds, Deletes, Shares, Takes

\* What each kind of handler is at, where it is.
LEMMA At_Add ==
  ASSUME HandlersFit, NEW w \in Workers, handler[w].pc \in {"stat", "mkdir", "row", "fid", "relate"}
  PROVE  /\ Adds(w) /\ handler[w] \in AddHandlers /\ Item(w) \in Relations
         /\ Item(w).u = handler[w].u /\ IsFolder(Item(w).f)
<1>1. handler[w] \in Handlers /\ Fits(handler[w])
  BY DEF HandlersFit
<1>2. Adds(w) /\ handler[w] \in AddHandlers
  BY <1>1, IdleFacts DEF Handlers, AddHandlers, DeleteHandlers, ShareHandlers, TakeHandlers, Adds, Idle
<1> QED BY <1>1, <1>2 DEF Fits, AddFits, Adds, Item

\* The same for a deletion.
LEMMA At_Delete ==
  ASSUME HandlersFit, NEW w \in Workers,
         \/ handler[w].pc \in {"unfolder", "unrelate", "look", "unrow", "unlink"}
         \/ handler[w].pc = "children" /\ Deletes(w)
  PROVE  /\ Deletes(w) /\ handler[w] \in DeleteHandlers /\ handler[w].todo # <<>>
         /\ Item(w) \in Relations /\ Rest(w) \in Seq(Relations)
         /\ ToSet(handler[w].todo) = {Item(w)} \cup ToSet(Rest(w))
         /\ Item(w).u = handler[w].u /\ \A e \in ToSet(Rest(w)) : e.u = handler[w].u
         /\ IsFolder(Item(w).f) <=> handler[w].pc \in {"unfolder", "children"}
<1>1. handler[w] \in Handlers /\ Fits(handler[w])
  BY DEF HandlersFit
<1>2. Deletes(w) /\ handler[w] \in DeleteHandlers
  BY <1>1, IdleFacts DEF Handlers, AddHandlers, DeleteHandlers, ShareHandlers, TakeHandlers, Deletes, Idle
<1>3. handler[w].todo \in Seq(Relations) /\ DeleteFits(handler[w])
  BY <1>1, <1>2 DEF Fits, Deletes, DeleteHandlers
<1>4. handler[w].todo # <<>> /\ handler[w].pc \in DeletePcs(Head(handler[w].todo))
  BY <1>2, <1>3 DEF DeleteFits
<1>5. /\ ToSet(handler[w].todo) = {Item(w)} \cup ToSet(Rest(w))
      /\ Item(w) \in Relations /\ Rest(w) \in Seq(Relations)
  BY <1>3, <1>4, HeadAndRest DEF Item, Rest
<1> QED BY <1>2, <1>3, <1>4, <1>5 DEF DeleteFits, DeletePcs, Item

\* A share, and a take-over.
LEMMA At_Share ==
  ASSUME HandlersFit, NEW w \in Workers, At(w, "setlink")
  PROVE  /\ Shares(w) /\ handler[w] \in ShareHandlers /\ Item(w) \in Relations /\ Rest(w) \in Seq(Relations)
         /\ ShareFits(handler[w])
<1>1. handler[w] \in Handlers /\ Fits(handler[w])
  BY DEF HandlersFit
<1>2. Shares(w) /\ handler[w] \in ShareHandlers
  BY <1>1, IdleFacts DEF At, Handlers, AddHandlers, DeleteHandlers, ShareHandlers, TakeHandlers, Shares, Idle
<1>3. handler[w].todo \in Seq(Relations) /\ ShareFits(handler[w]) /\ handler[w].todo # <<>>
  BY <1>1, <1>2 DEF Fits, Shares, ShareHandlers, ShareFits
<1> QED BY <1>2, <1>3, HeadAndRest DEF Item, Rest

\* A take-over.
LEMMA At_Take ==
  ASSUME HandlersFit, NEW w \in Workers, At(w, "insert") \/ (At(w, "children") /\ Takes(w))
  PROVE  /\ Takes(w) /\ handler[w] \in TakeHandlers /\ handler[w].todo # <<>>
         /\ Item(w) \in Copies /\ Rest(w) \in Seq(Copies)
         /\ ToSet(handler[w].todo) = {Item(w)} \cup ToSet(Rest(w))
         /\ \A c \in ToSet(handler[w].todo) : c.u = handler[w].u /\ c.from \in handler[w].from
         /\ At(w, "children") => IsFolder(Item(w).f)
<1>1. handler[w] \in Handlers /\ Fits(handler[w])
  BY DEF HandlersFit
<1>2. Takes(w) /\ handler[w] \in TakeHandlers
  BY <1>1, IdleFacts DEF At, Handlers, AddHandlers, DeleteHandlers, ShareHandlers, TakeHandlers, Takes, Idle
<1>3. handler[w].todo \in Seq(Copies) /\ TakeFits(handler[w]) /\ handler[w].todo # <<>>
  BY <1>1, <1>2 DEF Fits, Takes, TakeHandlers, TakeFits
<1>4. /\ ToSet(handler[w].todo) = {Item(w)} \cup ToSet(Rest(w))
      /\ Item(w) \in Copies /\ Rest(w) \in Seq(Copies)
  BY <1>3, HeadAndRest DEF Item, Rest
<1> QED BY <1>2, <1>3, <1>4 DEF TakeFits, Item, At
-------------------------------------------------------------------------------
\* One handler changes, to one that fits.
LEMMA OneHandlerFits ==
  ASSUME HandlersFit, NEW w \in Workers, NEW h \in Handlers, Fits(h), handler' = [handler EXCEPT ![w] = h]
  PROVE  HandlersFit'
<1>1. handler' \in [Workers -> Handlers] /\ \A v \in Workers : handler'[v] = IF v = w THEN h ELSE handler[v]
  BY DEF HandlersFit
<1> QED BY <1>1 DEF HandlersFit, Fits, AddFits, DeleteFits, ShareFits, TakeFits, DeletePcs

\* A request is begun by an idle handler; the handlers of the others are as they were.
LEMMA Begun ==
  ASSUME HandlersFit, NEW h \in Handlers, Fits(h), Begins(h)
  PROVE  /\ HandlersFit' /\ (Overlap \/ Apart(h.op, h.u, h.from)) /\ requests' = requests + 1 /\ requests < MaxRequests
         /\ \E w \in Workers : handler[w] = Idle /\ handler' = [handler EXCEPT ![w] = h]
<1>1. PICK w \in Workers : handler[w] = Idle /\ handler' = [handler EXCEPT ![w] = h]
  BY DEF Begins
<1> QED BY <1>1, OneHandlerFits DEF Begins

\* A handler goes to another step of its kind.
LEMMA GoneTo ==
  ASSUME HandlersFit, NEW w \in Workers, NEW pc, Goes(w, pc)
  PROVE  handler' = [handler EXCEPT ![w] = [handler[w] EXCEPT !.pc = pc]]
  BY DEF Goes, HandlersFit

\* A deletion goes on with what is left.
LEMMA DeleteProceeds ==
  ASSUME HandlersFit, NEW w \in Workers, Deletes(w), NEW todo \in Seq(Relations),
         \A e \in ToSet(todo) : e.u = handler[w].u, Proceeds(w, todo)
  PROVE  /\ HandlersFit' /\ handler' = [handler EXCEPT ![w] = handler'[w]]
         /\ IF todo = <<>> /\ handler[w].items = <<>> THEN handler'[w] = Idle
            ELSE \E pc \in {"item", "unfolder", "unrelate"} :
                   handler'[w] = [handler[w] EXCEPT !.todo = todo, !.pc = pc]
<1>1. handler[w] \in DeleteHandlers /\ Fits(handler[w]) /\ handler \in [Workers -> Handlers]
  BY Kinds DEF HandlersFit
<1> DEFINE pc == IF todo = <<>> THEN "item" ELSE IF IsFolder(Head(todo).f) THEN "unfolder" ELSE "unrelate"
           h == IF todo = <<>> /\ handler[w].items = <<>> THEN Idle
                ELSE [handler[w] EXCEPT !.todo = todo, !.pc = pc]
<1>2. handler' = [handler EXCEPT ![w] = h]
  <2>1. handler[w].op = "delete"
    BY DEF Deletes
  <2> QED BY <2>1 DEF Proceeds
<1>3. h \in Handlers /\ Fits(h)
  <2>1. CASE todo = <<>> /\ handler[w].items = <<>>
    BY <2>1, IdleFacts
  <2>2. CASE ~ (todo = <<>> /\ handler[w].items = <<>>)
    <3>1. h \in DeleteHandlers /\ h.todo = todo /\ h.pc = pc /\ h.items = handler[w].items /\ h.u = handler[w].u
      BY <1>1, <2>2 DEF DeleteHandlers
    <3>2. h.op = "delete"
      BY <3>1 DEF DeleteHandlers
    <3> HIDE DEF h
    <3>3. DeleteFits(h)
      BY <1>1, <2>2, <3>1 DEF DeleteFits, DeletePcs, Fits, Deletes
    <3> QED BY <3>1, <3>2, <3>3 DEF Fits, Handlers
  <2> QED BY <2>1, <2>2
<1>4. HandlersFit' /\ handler'[w] = h
  BY <1>1, <1>2, <1>3, OneHandlerFits
<1> QED BY <1>2, <1>4

\* A share goes on with the relations it has not come to.
LEMMA ShareProceeds ==
  ASSUME HandlersFit, NEW w \in Workers, At(w, "setlink"), Proceeds(w, Rest(w))
  PROVE  /\ HandlersFit' /\ handler' = [handler EXCEPT ![w] = handler'[w]]
         /\ handler'[w] = Idle \/ handler'[w] = [handler[w] EXCEPT !.todo = Rest(w)]
<1>1. /\ handler[w] \in ShareHandlers /\ Rest(w) \in Seq(Relations) /\ ShareFits(handler[w])
      /\ handler \in [Workers -> Handlers] /\ Shares(w)
  BY At_Share DEF HandlersFit
<1> DEFINE h == IF Rest(w) = <<>> THEN Idle ELSE [handler[w] EXCEPT !.todo = Rest(w)]
<1>2. handler' = [handler EXCEPT ![w] = h]
  <2>1. handler[w].op = "share" /\ handler[w].items = <<>> /\ handler[w].pc = "setlink"
    BY <1>1 DEF Shares, ShareHandlers
  <2>2. [handler[w] EXCEPT !.todo = Rest(w), !.pc = "setlink"] = [handler[w] EXCEPT !.todo = Rest(w)]
    BY <1>1 DEF ShareHandlers
  <2> QED BY <1>1, <2>1, <2>2 DEF Proceeds
<1>3. h \in Handlers /\ Fits(h)
  <2>1. CASE Rest(w) = <<>>
    BY <2>1, IdleFacts
  <2>2. CASE Rest(w) # <<>>
    <3>1. h \in ShareHandlers /\ h.todo = Rest(w) /\ h.u = handler[w].u /\ h.goal = handler[w].goal /\ h.op = "share"
      BY <1>1, <2>2 DEF ShareHandlers
    <3> HIDE DEF h
    <3>2. ShareFits(h)
      BY <1>1, <2>2, <3>1 DEF ShareFits
    <3> QED BY <3>1, <3>2 DEF Fits, Handlers
  <2> QED BY <2>1, <2>2
<1>4. HandlersFit' /\ handler'[w] = h
  BY <1>1, <1>2, <1>3, OneHandlerFits
<1> QED BY <1>2, <1>4

\* A take-over goes on with what is left.
LEMMA TakeProceeds ==
  ASSUME HandlersFit, NEW w \in Workers, Takes(w), NEW todo \in Seq(Copies),
         \A c \in ToSet(todo) : c.u = handler[w].u /\ c.from \in handler[w].from, Proceeds(w, todo)
  PROVE  /\ HandlersFit' /\ handler' = [handler EXCEPT ![w] = handler'[w]]
         /\ handler'[w] = IF todo = <<>> THEN Idle ELSE [handler[w] EXCEPT !.todo = todo, !.pc = "insert"]
<1>1. handler[w] \in TakeHandlers /\ Fits(handler[w]) /\ handler \in [Workers -> Handlers]
  BY Kinds DEF HandlersFit
<1> DEFINE h == IF todo = <<>> THEN Idle ELSE [handler[w] EXCEPT !.todo = todo, !.pc = "insert"]
<1>2. handler' = [handler EXCEPT ![w] = h]
  <2>1. handler[w].op = "take" /\ handler[w].items = <<>>
    BY <1>1 DEF TakeHandlers
  <2> QED BY <1>1, <2>1 DEF Proceeds
<1>3. h \in Handlers /\ Fits(h)
  <2>1. CASE todo = <<>>
    BY <2>1, IdleFacts
  <2>2. CASE todo # <<>>
    <3>1. /\ h \in TakeHandlers /\ h.todo = todo /\ h.u = handler[w].u /\ h.from = handler[w].from
          /\ h.op = "take" /\ h.pc = "insert"
      BY <1>1, <2>2 DEF TakeHandlers
    <3> HIDE DEF h
    <3>2. TakeFits(h)
      BY <1>1, <2>2, <3>1 DEF TakeFits
    <3> QED BY <3>1, <3>2 DEF Fits, Handlers
  <2> QED BY <2>1, <2>2
<1>4. HandlersFit' /\ handler'[w] = h
  BY <1>1, <1>2, <1>3, OneHandlerFits
<1> QED BY <1>2, <1>4
-------------------------------------------------------------------------------
\* What is in a directory is a list that can be visited.
LEMMA ListOfIn ==
  ASSUME Typed, NEW u, NEW dir
  PROVE  /\ IsFiniteSet(In(u, dir)) /\ SetToSeq(In(u, dir)) \in Seq(Relations)
         /\ ToSet(SetToSeq(In(u, dir))) = In(u, dir) /\ In(u, dir) \subseteq entries
<1>1. In(u, dir) \subseteq entries
  BY DEF In, Visible
<1>2. IsFiniteSet(In(u, dir))
  BY <1>1, FS_Subset DEF Typed
<1>3. SetToSeq(In(u, dir)) \in Seq(In(u, dir)) /\ ToSet(SetToSeq(In(u, dir))) = In(u, dir)
  BY <1>2, ListOfSet
<1>4. In(u, dir) \subseteq Relations
  BY <1>1 DEF Typed
<1> QED BY <1>1, <1>2, <1>3, <1>4, SeqMonotonic

\* What a request asks for is a list of relations of the user.
LEMMA ListOfAsked ==
  ASSUME Typed, NEW u, NEW es \in Asked(u)
  PROVE  /\ es \subseteq entries /\ (\A e \in es : e.u = u) /\ es # {}
         /\ SetToSeq(es) \in Seq(Relations) /\ SetToSeq(es) # <<>> /\ ToSet(SetToSeq(es)) = es
         /\ \E dir \in Paths(u) : es \subseteq In(u, dir)
<1>1. PICK dir \in Paths(u) : es \subseteq In(u, dir)
  BY DEF Asked
<1>2. es \subseteq entries /\ (\A e \in es : e.u = u) /\ IsFiniteSet(es)
  <2>1. es \subseteq entries /\ \A e \in es : e.u = u
    BY <1>1 DEF In, Visible
  <2> QED BY <2>1, FS_Subset DEF Typed
<1>3. es # {}
  BY FS_EmptySet DEF Asked
<1>4. SetToSeq(es) \in Seq(es) /\ SetToSeq(es) # <<>> /\ ToSet(SetToSeq(es)) = es
  BY <1>2, <1>3, ListOfSet
<1>5. es \subseteq Relations
  BY <1>2 DEF Typed
<1>6. SetToSeq(es) \in Seq(Relations)
  BY <1>4, <1>5, SeqMonotonic
<1> QED BY <1>1, <1>2, <1>3, <1>4, <1>6

\* The path of a folder is a path.
LEMMA InsideIsPath ==
  ASSUME NEW e, e.dir \in Seq(Names), e.f \in FolderIds
  PROVE  /\ Inside(e) \in Seq(Names) /\ Len(Inside(e)) = Len(e.dir) + 1 /\ Len(e.dir) \in Nat /\ e.f.name \in Names
         /\ \A i \in 1..Len(e.dir) : Inside(e)[i] = e.dir[i]
         /\ Inside(e)[Len(e.dir) + 1] = e.f.name
<1>1. e.f.name \in Names
  BY DEF FolderIds
<1> QED BY <1>1, AppendProperties, LenProperties DEF Inside

\* Relations are of folders or of files.
LEMMA FolderOrFile ==
  /\ \A e \in Relations : e.dir \in Seq(Names) /\ e.u \in Users /\ (IsFolder(e.f) <=> e.f \in FolderIds)
  /\ \A c \in Copies : /\ c.dir \in Seq(Names) /\ c.fromdir \in Seq(Names) /\ c.u \in Users /\ c.from \in Users
                       /\ (IsFolder(c.f) <=> c.f \in FolderIds)
  BY FoldersAssumption DEF Relations, Copies, IsFolder

\* The paths users can go to are paths.
LEMMA PathsArePaths ==
  ASSUME Typed, NEW u
  PROVE  Paths(u) \subseteq Seq(Names)
<1>1. ASSUME NEW e \in Visible, IsFolder(e.f) PROVE Inside(e) \in Seq(Names)
  BY <1>1, FolderOrFile, InsideIsPath DEF Visible, Typed
<1> QED BY <1>1, ListOfNone DEF Paths

\* Copies of relations are of the list's type.
LEMMA ListOfCopies ==
  ASSUME NEW u \in Users, NEW dir \in Seq(Names), NEW es \in SUBSET Relations, IsFiniteSet(es)
  PROVE  LET cs == {Copy(u, dir, e.u, e) : e \in es}
         IN  SetToSeq(cs) \in Seq(Copies) /\ ToSet(SetToSeq(cs)) = cs /\ (SetToSeq(cs) = <<>> <=> es = {})
<1> DEFINE cs == {Copy(u, dir, e.u, e) : e \in es}
           copy == [e \in es |-> Copy(u, dir, e.u, e)]
<1>1. copy \in Surjection(es, cs)
  BY DEF Surjection
<1>2. IsFiniteSet(cs)
  BY <1>1, FS_Surjection
<1>3. SetToSeq(cs) \in Seq(cs) /\ ToSet(SetToSeq(cs)) = cs /\ (SetToSeq(cs) = <<>> <=> cs = {})
  BY <1>2, ListOfSet
<1>4. cs \subseteq Copies
  BY DEF Copy, Copies, Relations
<1>5. SetToSeq(cs) \in Seq(Copies)
  BY <1>3, <1>4, SeqMonotonic
<1> QED BY <1>3, <1>5

\* What is to be there when a share is taken over is made of relations.
LEMMA CopiedTyped ==
  ASSUME Typed, NEW u \in Users, NEW dir \in Seq(Names), NEW e \in entries
  PROVE  Copied(u, dir, e) \subseteq Relations
<1> SUFFICES ASSUME NEW d \in Tree(e)
             PROVE  Entry(u, dir \o SubSeq(d.dir, Len(e.dir) + 1, Len(d.dir)), d.f) \in Relations
  BY DEF Copied
<1>1. d \in Relations /\ e \in Relations
  BY DEF Tree, Visible, Typed
<1>2. /\ d.dir \in Seq(Names) /\ Len(e.dir) \in Nat /\ Len(d.dir) \in Nat
      /\ \A i \in Len(e.dir)+1..Len(d.dir) : d.dir[i] \in Names
  BY <1>1, LenProperties, ElementOfSeq DEF Relations
<1>3. SubSeq(d.dir, Len(e.dir) + 1, Len(d.dir)) \in Seq(Names)
  BY <1>2, SubSeqProperties
<1>4. dir \o SubSeq(d.dir, Len(e.dir) + 1, Len(d.dir)) \in Seq(Names)
  BY <1>3, ConcatProperties
<1> QED BY <1>1, <1>4 DEF Entry, Relations
-------------------------------------------------------------------------------
\* Nothing but handlers and the count of requests changes when a request begins.
Tables == <<entries, links, rows, disk, dirs>>

\* A step that changes no relation and no link leaves all but handlers as typed as it was.
LEMMA TypedSame ==
  ASSUME Typed, UNCHANGED <<entries, links>>, HandlersFit', disk' \subseteq Files,
         \A d \in dirs' : d[1] \in Users, requests' \in 0..MaxRequests
  PROVE  Typed'
<1>1. LinksFit'
  BY DEF Typed, LinksFit
<1> QED BY <1>1 DEF Typed

\* A request begins: the types.
LEMMA TypedBegins ==
  ASSUME Typed, NEW h \in Handlers, Fits(h), Begins(h), UNCHANGED Tables
  PROVE  Typed'
<1>1. HandlersFit' /\ requests' = requests + 1 /\ requests < MaxRequests
  BY Begun DEF Typed
<1>2. requests' \in 0..MaxRequests
  BY <1>1, FoldersAssumption DEF Typed
<1> QED BY <1>1, <1>2, TypedSame DEF Tables, Typed

\* What is requested fits.
LEMMA RequestFits ==
  ASSUME Typed, NEW u \in Users
  PROVE  /\ \A es \in Asked(u) :
              LET h == [Idle EXCEPT !.op = "delete", !.pc = "item", !.u = u,
                                    !.items = SetToSeq(es), !.goal = UNION {Tree(e) : e \in es}]
              IN  h \in DeleteHandlers /\ h \in Handlers /\ Fits(h)
         /\ \A es \in Asked(u), link \in Links :
              LET h == [Idle EXCEPT !.op = "share", !.pc = "setlink", !.u = u,
                                    !.todo = SetToSeq(es), !.goal = es \X {link}]
              IN  h \in ShareHandlers /\ h \in Handlers /\ Fits(h)
         /\ \A dir \in Paths(u), name \in Names :
              LET h == [Idle EXCEPT !.op = "add", !.pc = "stat", !.u = u,
                                    !.todo = <<Entry(u, dir, Folder(u, dir, name))>>]
              IN  h \in AddHandlers /\ h \in Handlers /\ Fits(h)
<1>1. ASSUME NEW es \in Asked(u)
      PROVE  LET h == [Idle EXCEPT !.op = "delete", !.pc = "item", !.u = u,
                                   !.items = SetToSeq(es), !.goal = UNION {Tree(e) : e \in es}]
             IN  h \in DeleteHandlers /\ h \in Handlers /\ Fits(h)
  <2> DEFINE h == [Idle EXCEPT !.op = "delete", !.pc = "item", !.u = u,
                               !.items = SetToSeq(es), !.goal = UNION {Tree(e) : e \in es}]
  <2>1. SetToSeq(es) \in Seq(Relations) /\ SetToSeq(es) # <<>> /\ ToSet(SetToSeq(es)) = es /\ \A e \in es : e.u = u
    BY ListOfAsked
  <2>2. UNION {Tree(e) : e \in es} \subseteq Relations
    <3>1. \A e \in es : Tree(e) \subseteq Relations
      BY ListOfAsked DEF Tree, Visible, Typed
    <3> QED BY <3>1
  <2>3. /\ h.items = SetToSeq(es) /\ h.todo = <<>> /\ h.u = u /\ h.pc = "item" /\ h.op = "delete"
        /\ h \in DeleteHandlers
    BY <2>1, <2>2, ListOfNone DEF Idle, DeleteHandlers
  <2> HIDE DEF h
  <2>4. Fits(h)
    BY <2>1, <2>3, ListOfNone DEF Fits, DeleteFits
  <2>5. h \in DeleteHandlers /\ h \in Handlers /\ Fits(h)
    BY <2>3, <2>4 DEF Handlers
  <2> QED BY <2>5 DEF h
<1>2. ASSUME NEW es \in Asked(u), NEW link \in Links
      PROVE  LET h == [Idle EXCEPT !.op = "share", !.pc = "setlink", !.u = u,
                                   !.todo = SetToSeq(es), !.goal = es \X {link}]
             IN  h \in ShareHandlers /\ h \in Handlers /\ Fits(h)
  <2> DEFINE h == [Idle EXCEPT !.op = "share", !.pc = "setlink", !.u = u,
                               !.todo = SetToSeq(es), !.goal = es \X {link}]
  <2>1. SetToSeq(es) \in Seq(Relations) /\ SetToSeq(es) # <<>> /\ (\A e \in es : e.u = u) /\ es \subseteq Relations
    BY ListOfAsked DEF Typed
  <2>2. /\ h.goal = es \X {link} /\ h.todo = SetToSeq(es) /\ h.u = u /\ h.op = "share"
        /\ h \in ShareHandlers
    BY <2>1 DEF Idle, ShareHandlers
  <2> HIDE DEF h
  <2>3. Fits(h)
    BY <2>1, <2>2 DEF Fits, ShareFits
  <2>4. h \in ShareHandlers /\ h \in Handlers /\ Fits(h)
    BY <2>2, <2>3 DEF Handlers
  <2> QED BY <2>4 DEF h
<1>3. ASSUME NEW dir \in Paths(u), NEW name \in Names
      PROVE  LET h == [Idle EXCEPT !.op = "add", !.pc = "stat", !.u = u,
                                   !.todo = <<Entry(u, dir, Folder(u, dir, name))>>]
             IN  h \in AddHandlers /\ h \in Handlers /\ Fits(h)
  <2> DEFINE e == Entry(u, dir, Folder(u, dir, name))
             h == [Idle EXCEPT !.op = "add", !.pc = "stat", !.u = u, !.todo = <<e>>]
  <2>1. e \in Relations /\ e.u = u /\ IsFolder(e.f)
    <3>1. dir \in Seq(Names)
      BY PathsArePaths
    <3>2. Folder(u, dir, name) \in FolderIds
      BY <3>1 DEF Folder, FolderIds
    <3> QED BY <3>1, <3>2, FoldersAssumption DEF Entry, Relations, IsFolder
  <2> HIDE DEF e
  <2>2. h.todo = <<e>> /\ h.u = u /\ h.op = "add" /\ h \in AddHandlers
    BY <2>1, ListOfOne DEF Idle, AddHandlers
  <2> HIDE DEF h
  <2>3. h \in AddHandlers /\ h \in Handlers /\ Fits(h)
    BY <2>1, <2>2 DEF Fits, AddFits, Handlers
  <2> QED BY <2>3 DEF h, e
<1> QED BY <1>1, <1>2, <1>3

\* The handler of a take-over that begins.
TakeOver(u, dir, items) ==
  [Idle EXCEPT !.op = "take", !.pc = "insert", !.u = u, !.from = {e.u : e \in items},
               !.todo = SetToSeq({Copy(u, dir, e.u, e) : e \in items}),
               !.goal = UNION {Copied(u, dir, e) : e \in items}]

\* It fits.
LEMMA TakeOverFits ==
  ASSUME Typed, NEW u \in Users, NEW dir \in Paths(u), NEW items \in SUBSET entries, items # {}
  PROVE  LET h == TakeOver(u, dir, items)
         IN  /\ h \in TakeHandlers /\ h \in Handlers /\ Fits(h) /\ h.op = "take" /\ h.pc = "insert" /\ h.u = u
             /\ h.from = {e.u : e \in items} /\ h.goal = UNION {Copied(u, dir, e) : e \in items}
             /\ ToSet(h.todo) = {Copy(u, dir, e.u, e) : e \in items}
<1> DEFINE h == TakeOver(u, dir, items)
<1>1. dir \in Seq(Names) /\ items \subseteq Relations /\ IsFiniteSet(items)
  BY PathsArePaths, FS_Subset DEF Typed
<1>2. /\ SetToSeq({Copy(u, dir, e.u, e) : e \in items}) \in Seq(Copies)
      /\ ToSet(SetToSeq({Copy(u, dir, e.u, e) : e \in items})) = {Copy(u, dir, e.u, e) : e \in items}
      /\ SetToSeq({Copy(u, dir, e.u, e) : e \in items}) # <<>>
  BY <1>1, ListOfCopies
<1>3. UNION {Copied(u, dir, e) : e \in items} \subseteq Relations /\ {e.u : e \in items} \subseteq Users
  BY <1>1, CopiedTyped, FolderOrFile
<1>4. /\ h.from = {e.u : e \in items} /\ h.goal = UNION {Copied(u, dir, e) : e \in items}
      /\ h.todo = SetToSeq({Copy(u, dir, e.u, e) : e \in items})
      /\ h.op = "take" /\ h.pc = "insert" /\ h.u = u /\ h \in TakeHandlers
  BY <1>2, <1>3 DEF TakeOver, Idle, TakeHandlers
<1> HIDE DEF h
<1>5. TakeFits(h)
  BY <1>2, <1>4 DEF TakeFits, Copy
<1>6. Fits(h) /\ h \in Handlers
  BY <1>4, <1>5 DEF Fits, Handlers
<1> QED BY <1>2, <1>4, <1>6 DEF h

\* What GetShareRq begins is a take-over.
LEMMA GetShareBegins ==
  ASSUME Typed, NEW u \in Users, GetShare(u)
  PROVE  \E link \in Links, dir \in Paths(u), items \in SUBSET entries :
           /\ items = {e \in Visible : <<e, link>> \in links} /\ items # {}
           /\ Begins(TakeOver(u, dir, items)) /\ UNCHANGED Tables
           /\ SelfShare \/ \A e \in items, g \in UNION {Copied(u, dir, d) : d \in items} :
                             ~(e.u = u /\ IsFolder(e.f) /\ IsPrefix(Inside(e), g.dir))
<1>1. PICK link \in Links, dir \in Paths(u) :
        LET items == {e \in Visible : <<e, link>> \in links}
        IN  /\ items # {} /\ Begins(TakeOver(u, dir, items)) /\ UNCHANGED Tables
            /\ SelfShare \/ \A e \in items, g \in UNION {Copied(u, dir, d) : d \in items} :
                              ~(e.u = u /\ IsFolder(e.f) /\ IsPrefix(Inside(e), g.dir))
  BY Zenon DEF GetShare, TakeOver, Tables
<1> DEFINE items == {e \in Visible : <<e, link>> \in links}
<1>2. items \in SUBSET entries
  BY DEF Visible
<1> QED BY <1>1, <1>2
-------------------------------------------------------------------------------
\* What a deletion does to the relations and links.
LEMMA WithoutEntryTyped ==
  ASSUME Typed, NEW e, WithoutEntry(e)
  PROVE  entries' \subseteq Relations /\ IsFiniteSet(entries') /\ LinksFit'
<1>1. entries' \subseteq Relations /\ IsFiniteSet(entries')
  BY FS_RemoveElement DEF WithoutEntry, Typed
<1> QED BY <1>1 DEF WithoutEntry, Typed, LinksFit

\* A relation is inserted.
LEMMA InsertTyped ==
  ASSUME Typed, NEW e \in Relations, entries' = entries \cup {e}, UNCHANGED links
  PROVE  entries' \subseteq Relations /\ IsFiniteSet(entries') /\ LinksFit'
<1>1. entries' \subseteq Relations /\ IsFiniteSet(entries')
  BY FS_AddElement DEF Typed
<1> QED BY <1>1 DEF Typed, LinksFit

\* The steps of a request to add a folder keep the types.
LEMMA TypedAdd ==
  ASSUME Typed, NEW w \in Workers, AddStep(w)
  PROVE  Typed'
<1> USE DEF At
<1>0. HandlersFit /\ requests \in 0..MaxRequests /\ disk \subseteq Files /\ \A d \in dirs : d[1] \in Users
  BY DEF Typed
<1>1. ASSUME handler[w] \in AddHandlers, Fits(handler[w]), NEW pc \in {"row", "mkdir", "fid", "relate"}, Goes(w, pc),
             Adds(w)
      PROVE  HandlersFit'
  <2> DEFINE h == [handler[w] EXCEPT !.pc = pc]
  <2>1. handler' = [handler EXCEPT ![w] = h]
    BY <1>0, <1>1, GoneTo
  <2>2. h \in AddHandlers /\ h.todo = handler[w].todo /\ h.u = handler[w].u /\ h.op = "add"
    BY <1>1 DEF AddHandlers
  <2> HIDE DEF h
  <2>3. Fits(h) /\ h \in Handlers
    BY <1>1, <2>2 DEF Fits, AddFits, Adds, Handlers
  <2> QED BY <1>0, <2>1, <2>3, OneHandlerFits
<1>2. CASE Stat(w)
  <2>1. handler[w] \in AddHandlers /\ Adds(w) /\ Fits(handler[w])
    BY <1>0, <1>2, At_Add DEF Stat, HandlersFit
  <2>2. \E pc \in {"row", "mkdir"} : Goes(w, pc)
    BY <1>2 DEF Stat
  <2> QED BY <1>0, <1>1, <1>2, <2>1, <2>2, TypedSame DEF Stat
<1>3. CASE MakeDir(w)
  <2>1. handler[w] \in AddHandlers /\ Adds(w) /\ Fits(handler[w]) /\ Item(w).u \in Users
    BY <1>0, <1>3, At_Add, FolderOrFile DEF MakeDir, HandlersFit
  <2>2. CASE Goes(w, "row") /\ dirs' = dirs \cup {<<Item(w).u, Inside(Item(w))>>}
    <3>1. HandlersFit'
      BY <1>1, <2>1, <2>2
    <3>2. \A d \in dirs' : d[1] \in Users
      BY <1>0, <2>1, <2>2
    <3> QED BY <1>0, <1>3, <3>1, <3>2, TypedSame DEF MakeDir
  <2>3. CASE handler' = [handler EXCEPT ![w] = Idle] /\ UNCHANGED dirs
    <3>1. HandlersFit'
      BY <1>0, <2>3, IdleFacts, OneHandlerFits
    <3> QED BY <1>0, <1>3, <2>3, <3>1, TypedSame DEF MakeDir
  <2> QED BY <1>3, <2>2, <2>3 DEF MakeDir
<1>4. CASE InsertFolderRow(w)
  <2>1. handler[w] \in AddHandlers /\ Adds(w) /\ Fits(handler[w])
    BY <1>0, <1>4, At_Add DEF InsertFolderRow, HandlersFit
  <2> QED BY <1>0, <1>1, <1>4, <2>1, TypedSame DEF InsertFolderRow
<1>5. CASE RelateFolder(w)
  <2>1. Item(w) \in Relations
    BY <1>0, <1>5, At_Add DEF RelateFolder
  <2>2. HandlersFit'
    BY <1>0, <1>5, IdleFacts, OneHandlerFits DEF RelateFolder
  <2>3. entries' \subseteq Relations /\ IsFiniteSet(entries') /\ LinksFit'
    BY <1>5, <2>1, InsertTyped DEF RelateFolder
  <2> QED BY <1>0, <1>5, <2>2, <2>3 DEF RelateFolder, Typed
<1>6. CASE SelectFolder(w)
  <2>1. handler[w] \in AddHandlers /\ Adds(w) /\ Fits(handler[w])
    BY <1>0, <1>6, At_Add DEF SelectFolder, HandlersFit
  <2>2. HandlersFit'
    <3>1. CASE Goes(w, "relate")
      BY <1>1, <2>1, <3>1
    <3>2. CASE handler' = [handler EXCEPT ![w] = Idle]
      BY <1>0, <3>2, IdleFacts, OneHandlerFits
    <3> QED BY <1>6, <3>1, <3>2 DEF SelectFolder
  <2> QED BY <1>0, <1>6, <2>2, TypedSame DEF SelectFolder
<1> QED BY <1>2, <1>3, <1>4, <1>5, <1>6 DEF AddStep

\* A deletion goes to another step with the same item.
LEMMA DeleteGoes ==
  ASSUME HandlersFit, NEW w \in Workers, NEW pc, Goes(w, pc), Deletes(w), handler[w].todo # <<>>, pc \in DeletePcs(Item(w))
  PROVE  /\ HandlersFit' /\ handler' = [handler EXCEPT ![w] = handler'[w]]
         /\ handler'[w] = [handler[w] EXCEPT !.pc = pc]
<1> DEFINE h == [handler[w] EXCEPT !.pc = pc]
<1>1. handler' = [handler EXCEPT ![w] = h] /\ handler[w] \in DeleteHandlers /\ Fits(handler[w])
  BY GoneTo, Kinds DEF HandlersFit
<1>2. /\ h \in DeleteHandlers /\ h.todo = handler[w].todo /\ h.items = handler[w].items /\ h.u = handler[w].u
      /\ h.op = "delete" /\ h.pc = pc
  BY <1>1 DEF DeleteHandlers, DeletePcs
<1>3. handler'[w] = h
  BY <1>1 DEF HandlersFit
<1> HIDE DEF h
<1>4. Fits(h) /\ h \in Handlers
  BY <1>1, <1>2 DEF Fits, DeleteFits, Deletes, Handlers, Item
<1>5. HandlersFit'
  BY <1>1, <1>4, OneHandlerFits
<1> QED BY <1>1, <1>3, <1>5 DEF h

\* The next item of a deletion (lines 1057-1082).
LEMMA DeleteItemBegins ==
  ASSUME HandlersFit, NEW w \in Workers, DeleteOneItem(w)
  PROVE  /\ HandlersFit' /\ handler' = [handler EXCEPT ![w] = handler'[w]]
         /\ Deletes(w) /\ handler[w] \in DeleteHandlers /\ handler[w].todo = <<>>
         /\ \E e \in Relations :
              /\ ToSet(handler[w].items) = {e} \cup ToSet(Tail(handler[w].items)) /\ e.u = handler[w].u
              /\ IF e \in Visible
                 THEN \E pc \in {"unfolder", "unrelate"} :
                        handler'[w] = [handler[w] EXCEPT !.items = Tail(handler[w].items), !.todo = <<e>>, !.pc = pc]
                 ELSE \/ handler'[w] = Idle /\ Tail(handler[w].items) = <<>>
                      \/ handler'[w] = [handler[w] EXCEPT !.items = Tail(handler[w].items)]
<1> USE DEF At
<1>1. handler[w] \in Handlers /\ Fits(handler[w]) /\ handler[w].pc = "item" /\ handler \in [Workers -> Handlers]
  BY DEF HandlersFit, DeleteOneItem
<1>2. Deletes(w) /\ handler[w] \in DeleteHandlers
  BY <1>1, IdleFacts DEF Handlers, AddHandlers, DeleteHandlers, ShareHandlers, TakeHandlers, Deletes, Idle
<1>3. /\ handler[w].todo = <<>> /\ handler[w].items # <<>> /\ handler[w].items \in Seq(Relations)
      /\ \A e \in ToSet(handler[w].items) : e.u = handler[w].u
  BY <1>1, <1>2 DEF Fits, Deletes, DeleteFits, DeletePcs, DeleteHandlers
<1> DEFINE e == Head(handler[w].items)
           rest == Tail(handler[w].items)
           isHere == e \in Visible
           pc == IF ~isHere THEN "item" ELSE IF IsFolder(e.f) THEN "unfolder" ELSE "unrelate"
           h == IF ~isHere /\ rest = <<>> THEN Idle
                ELSE [handler[w] EXCEPT !.items = rest, !.todo = IF isHere THEN <<e>> ELSE <<>>, !.pc = pc]
<1>4. handler' = [handler EXCEPT ![w] = h]
  BY <1>1, Zenon DEF DeleteOneItem
<1>5. e \in Relations /\ rest \in Seq(Relations) /\ ToSet(handler[w].items) = {e} \cup ToSet(rest) /\ e.u = handler[w].u
  BY <1>3, HeadAndRest
<1>6. handler'[w] = h
  BY <1>1, <1>4
<1>7. CASE isHere
  <2>1. \E p \in {"unfolder", "unrelate"} : h = [handler[w] EXCEPT !.items = rest, !.todo = <<e>>, !.pc = p]
    BY <1>7
  <2>2. /\ h \in DeleteHandlers /\ h.todo = <<e>> /\ h.items = rest /\ h.u = handler[w].u /\ h.op = "delete"
        /\ h.pc = pc
    BY <1>2, <1>5, <1>7, ListOfOne DEF DeleteHandlers
  <2> HIDE DEF h
  <2>3. DeleteFits(h)
    BY <1>3, <1>5, <1>7, <2>2, ListOfOne DEF DeleteFits, DeletePcs
  <2>4. Fits(h) /\ h \in Handlers
    BY <2>2, <2>3 DEF Fits, Handlers
  <2>5. HandlersFit'
    BY <1>4, <2>4, OneHandlerFits
  <2> QED BY <1>2, <1>3, <1>4, <1>5, <1>6, <1>7, <2>1, <2>5
<1>8. CASE ~isHere
  <2>1. CASE rest = <<>>
    <3>1. h = Idle
      BY <1>8, <2>1
    <3> HIDE DEF h
    <3>2. HandlersFit'
      BY <1>4, <3>1, IdleFacts, OneHandlerFits
    <3> QED BY <1>2, <1>3, <1>4, <1>5, <1>6, <1>8, <2>1, <3>1, <3>2
  <2>2. CASE rest # <<>>
    <3>1. h = [handler[w] EXCEPT !.items = rest]
      BY <1>1, <1>2, <1>3, <1>8, <2>2 DEF DeleteHandlers
    <3> HIDE DEF h
    <3>2. /\ h \in DeleteHandlers /\ h.todo = <<>> /\ h.items = rest /\ h.u = handler[w].u /\ h.op = "delete"
          /\ h.pc = "item"
      BY <1>1, <1>2, <1>3, <1>5, <3>1 DEF DeleteHandlers
    <3>3. DeleteFits(h)
      BY <1>3, <1>5, <2>2, <3>2, ListOfNone DEF DeleteFits
    <3>4. Fits(h) /\ h \in Handlers
      BY <3>2, <3>3 DEF Fits, Handlers
    <3>5. HandlersFit'
      BY <1>4, <3>4, OneHandlerFits
    <3> QED BY <1>2, <1>3, <1>4, <1>5, <1>6, <1>8, <3>1, <3>5
  <2> QED BY <2>1, <2>2
<1> QED BY <1>7, <1>8

\* The children of a folder come before what was left (lines 1117-1150).
LEMMA DeleteChildrenBegins ==
  ASSUME Typed, NEW w \in Workers, DeleteChildren(w)
  PROVE  LET todo == SetToSeq(In(Item(w).u, Inside(Item(w)))) \o Rest(w)
         IN  /\ todo \in Seq(Relations) /\ Proceeds(w, todo) /\ \A e \in ToSet(todo) : e.u = handler[w].u
             /\ ToSet(todo) = In(Item(w).u, Inside(Item(w))) \cup ToSet(Rest(w))
<1>1. /\ Deletes(w) /\ Rest(w) \in Seq(Relations) /\ Item(w).u = handler[w].u
      /\ \A e \in ToSet(Rest(w)) : e.u = handler[w].u
  BY At_Delete DEF Typed, DeleteChildren, At, Deletes
<1>2. ToSet(SetToSeq(In(Item(w).u, Inside(Item(w)))) \o Rest(w)) = In(Item(w).u, Inside(Item(w))) \cup ToSet(Rest(w))
  BY <1>1, ListOfIn, BothInOne
<1>3. SetToSeq(In(Item(w).u, Inside(Item(w)))) \o Rest(w) \in Seq(Relations)
  BY <1>1, ListOfIn, BothInOne
<1> QED BY <1>1, <1>2, <1>3 DEF DeleteChildren, In

\* The steps of a deletion keep the types.
LEMMA TypedDelete ==
  ASSUME Typed, NEW w \in Workers, DeleteStep(w)
  PROVE  Typed'
<1> USE DEF At
<1>0. HandlersFit /\ requests \in 0..MaxRequests /\ disk \subseteq Files /\ \A d \in dirs : d[1] \in Users
  BY DEF Typed
<1>1. CASE DeleteOneItem(w)
  <2>1. HandlersFit'
    BY <1>0, <1>1, DeleteItemBegins
  <2> QED BY <1>0, <1>1, <2>1, TypedSame DEF DeleteOneItem
<1>2. CASE DeleteFolderRelation(w)
  <2>1. HandlersFit'
    BY <1>0, <1>2, At_Delete, DeleteGoes DEF DeleteFolderRelation, DeletePcs
  <2> QED BY <1>0, <1>2, <2>1, WithoutEntryTyped DEF DeleteFolderRelation, Typed
<1>3. CASE DeleteChildren(w)
  <2>1. Deletes(w)
    BY <1>3 DEF DeleteChildren, Deletes
  <2>2. HandlersFit'
    BY <1>0, <1>3, <2>1, DeleteChildrenBegins, DeleteProceeds
  <2> QED BY <1>0, <1>3, <2>2, TypedSame DEF DeleteChildren
<1>4. CASE DeleteFileRelation(w)
  <2>1. HandlersFit'
    BY <1>0, <1>4, At_Delete, DeleteGoes DEF DeleteFileRelation, DeletePcs
  <2> QED BY <1>0, <1>4, <2>1, WithoutEntryTyped DEF DeleteFileRelation, Typed
<1>5. CASE LookForOthers(w)
  <2>1. HandlersFit'
    BY <1>0, <1>5, At_Delete, DeleteGoes, DeleteProceeds DEF LookForOthers, DeletePcs
  <2> QED BY <1>0, <1>5, <2>1, TypedSame DEF LookForOthers
<1>6. CASE DeleteRow(w)
  <2>1. HandlersFit'
    BY <1>0, <1>6, At_Delete, DeleteGoes DEF DeleteRow, DeletePcs
  <2> QED BY <1>0, <1>6, <2>1, TypedSame DEF DeleteRow
<1>7. CASE Unlink(w)
  <2>1. HandlersFit'
    BY <1>0, <1>7, At_Delete, DeleteProceeds DEF Unlink
  <2> QED BY <1>0, <1>7, <2>1, TypedSame DEF Unlink
<1> QED BY <1>1, <1>2, <1>3, <1>4, <1>5, <1>6, <1>7 DEF DeleteStep

\* What the sharer has in a folder becomes copies, before what was left (lines 1152-1185).
LEMMA CopyChildrenBegins ==
  ASSUME Typed, NEW w \in Workers, CopyChildren(w)
  PROVE  LET c == Item(w)
             fromdir == Append(c.fromdir, c.f.name)
             todo == SetToSeq({Copy(c.u, Inside(c), c.from, e) : e \in In(c.from, fromdir)}) \o Rest(w)
         IN  /\ Takes(w) /\ todo \in Seq(Copies) /\ Proceeds(w, todo)
             /\ \A d \in ToSet(todo) : d.u = handler[w].u /\ d.from \in handler[w].from
             /\ ToSet(todo) = {Copy(c.u, Inside(c), c.from, e) : e \in In(c.from, fromdir)} \cup ToSet(Rest(w))
<1> DEFINE c == Item(w)
           fromdir == Append(c.fromdir, c.f.name)
           es == In(c.from, fromdir)
           cs == {Copy(c.u, Inside(c), c.from, e) : e \in es}
<1>1. /\ Takes(w) /\ c \in Copies /\ IsFolder(c.f) /\ Rest(w) \in Seq(Copies)
      /\ ToSet(handler[w].todo) = {c} \cup ToSet(Rest(w))
      /\ \A d \in ToSet(handler[w].todo) : d.u = handler[w].u /\ d.from \in handler[w].from
      /\ Proceeds(w, SetToSeq(cs) \o Rest(w))
  BY At_Take DEF Typed, CopyChildren, At, Takes
<1>2. c.u \in Users /\ Inside(c) \in Seq(Names)
  BY <1>1, FolderOrFile, InsideIsPath
<1>3. es \subseteq Relations /\ IsFiniteSet(es) /\ \A e \in es : e.u = c.from
  <2>1. es \subseteq entries /\ IsFiniteSet(es)
    BY ListOfIn
  <2> QED BY <2>1 DEF In, Typed
<1>4. cs = {Copy(c.u, Inside(c), e.u, e) : e \in es}
  BY <1>3
<1>5. SetToSeq(cs) \in Seq(Copies) /\ ToSet(SetToSeq(cs)) = cs
  BY <1>2, <1>3, <1>4, ListOfCopies
<1>6. /\ SetToSeq(cs) \o Rest(w) \in Seq(Copies)
      /\ ToSet(SetToSeq(cs) \o Rest(w)) = cs \cup ToSet(Rest(w))
  <2> HIDE DEF cs
  <2> QED BY <1>1, <1>5, BothInOne
<1>7. \A d \in cs : d.u = c.u /\ d.from = c.from
  BY DEF Copy
<1> QED BY <1>1, <1>6, <1>7

\* The steps of a share and of a take-over keep the types.
LEMMA TypedShare ==
  ASSUME Typed, NEW w \in Workers, ShareStep(w)
  PROVE  Typed'
<1> USE DEF At
<1>0. HandlersFit /\ requests \in 0..MaxRequests /\ disk \subseteq Files /\ \A d \in dirs : d[1] \in Users
  BY DEF Typed
<1>1. CASE ShareItem(w)
  <2>1. HandlersFit'
    BY <1>0, <1>1, ShareProceeds DEF ShareItem
  <2>2. handler[w].goal \subseteq Relations \X Links /\ \A g, k \in handler[w].goal : k[2] = g[2]
    BY <1>0, <1>1, At_Share DEF ShareItem, ShareHandlers, ShareFits
  <2>3. LinksFit'
    <3>1. ASSUME NEW l \in links' PROVE l[1] \in entries /\ l[2] \in Links
      BY <1>1, <2>2, <3>1 DEF ShareItem, Typed, LinksFit
    <3>2. ASSUME NEW l \in links', NEW k \in links', k[1] = l[1] PROVE k = l
      <4>1. CASE l[1] = Item(w)
        <5>1. l \in handler[w].goal /\ k \in handler[w].goal
          BY <1>1, <3>2, <4>1 DEF ShareItem
        <5>2. l = <<l[1], l[2]>> /\ k = <<k[1], k[2]>>
          BY <2>2, <5>1
        <5> QED BY <2>2, <3>2, <5>1, <5>2
      <4>2. CASE l[1] # Item(w)
        BY <1>1, <3>2, <4>2 DEF ShareItem, Typed, LinksFit
      <4> QED BY <4>1, <4>2
    <3> QED BY <1>1, <3>1, <3>2 DEF ShareItem, LinksFit
  <2> QED BY <1>0, <1>1, <2>1, <2>3 DEF ShareItem, Typed
<1>2. CASE InsertCopy(w)
  <2> DEFINE c == Item(w)
  <2>1. /\ Takes(w) /\ handler[w] \in TakeHandlers /\ c \in Copies /\ Rest(w) \in Seq(Copies)
        /\ (\A d \in ToSet(Rest(w)) : d.u = handler[w].u /\ d.from \in handler[w].from) /\ Fits(handler[w])
    BY <1>0, <1>2, At_Take DEF InsertCopy, HandlersFit
  <2>2. HandlersFit'
    <3>1. CASE Proceeds(w, Rest(w))
      BY <1>0, <2>1, <3>1, TakeProceeds
    <3>2. CASE IsFolder(c.f) /\ Goes(w, "children")
      <4> DEFINE h == [handler[w] EXCEPT !.pc = "children"]
      <4>1. handler' = [handler EXCEPT ![w] = h]
        BY <1>0, <3>2, GoneTo
      <4>2. /\ h \in TakeHandlers /\ h.todo = handler[w].todo /\ h.u = handler[w].u /\ h.from = handler[w].from
            /\ h.op = "take" /\ h.pc = "children"
        BY <2>1 DEF TakeHandlers
      <4> HIDE DEF h
      <4>3. Fits(h) /\ h \in Handlers
        BY <2>1, <3>2, <4>2 DEF Fits, TakeFits, Takes, Handlers, Item
      <4> QED BY <1>0, <4>1, <4>3, OneHandlerFits
    <3> QED BY <1>2, <3>1, <3>2 DEF InsertCopy
  <2>3. Entry(c.u, c.dir, c.f) \in Relations
    BY <2>1 DEF Copies, Relations, Entry
  <2>4. entries' \subseteq Relations /\ IsFiniteSet(entries') /\ LinksFit'
    BY <1>2, <2>3, InsertTyped DEF InsertCopy
  <2> QED BY <1>0, <1>2, <2>2, <2>4 DEF InsertCopy, Typed
<1>3. CASE CopyChildren(w)
  <2>1. HandlersFit'
    BY <1>0, <1>3, CopyChildrenBegins, TakeProceeds
  <2> QED BY <1>0, <1>3, <2>1, TypedSame DEF CopyChildren
<1> QED BY <1>1, <1>2, <1>3 DEF ShareStep

\* A request that begins keeps the types.
LEMMA TypedRequest ==
  ASSUME Typed, NEW u \in Users, Request(u)
  PROVE  Typed'
<1>1. CASE DeleteFiles(u)
  <2>1. PICK es \in Asked(u) :
          /\ Begins([Idle EXCEPT !.op = "delete", !.pc = "item", !.u = u,
                                 !.items = SetToSeq(es), !.goal = UNION {Tree(e) : e \in es}])
          /\ UNCHANGED Tables
    BY <1>1 DEF DeleteFiles, Tables
  <2> QED BY <2>1, RequestFits, TypedBegins
<1>2. CASE Share(u)
  <2>1. PICK es \in Asked(u), link \in Links :
          /\ Begins([Idle EXCEPT !.op = "share", !.pc = "setlink", !.u = u, !.todo = SetToSeq(es), !.goal = es \X {link}])
          /\ UNCHANGED Tables
    BY <1>2 DEF Share, Tables
  <2> QED BY <2>1, RequestFits, TypedBegins
<1>3. CASE GetShare(u)
  BY <1>3, GetShareBegins, TakeOverFits, TypedBegins
<1>4. ASSUME NEW name \in Names, AddFolder(u, name) PROVE Typed'
  <2>1. PICK dir \in Paths(u) :
          /\ Begins([Idle EXCEPT !.op = "add", !.pc = "stat", !.u = u, !.todo = <<Entry(u, dir, Folder(u, dir, name))>>])
          /\ UNCHANGED Tables
    BY <1>4 DEF AddFolder, Tables
  <2> QED BY <2>1, RequestFits, TypedBegins
<1>5. ASSUME NEW f \in Files, Upload(u, f) PROVE Typed'
  <2>1. PICK dir \in Paths(u) : entries' = entries \cup {Entry(u, dir, f)}
    BY <1>5 DEF Upload
  <2>2. Entry(u, dir, f) \in Relations
    BY PathsArePaths DEF Entry, Relations
  <2>3. entries' \subseteq Relations /\ IsFiniteSet(entries') /\ LinksFit'
    BY <1>5, <2>1, <2>2, InsertTyped DEF Upload
  <2>4. requests' \in 0..MaxRequests
    BY <1>5, FoldersAssumption DEF Upload, Typed
  <2>5. HandlersFit'
    BY <1>5 DEF Upload, Typed, HandlersFit, Fits, AddFits, DeleteFits, ShareFits, TakeFits, DeletePcs
  <2> QED BY <1>5, <2>3, <2>4, <2>5 DEF Upload, Typed
<1> QED BY <1>1, <1>2, <1>3, <1>4, <1>5 DEF Request

\* Every step keeps the types.
LEMMA TypedStep ==
  ASSUME Typed, [Next]_folderVars
  PROVE  Typed'
<1>1. CASE UNCHANGED folderVars
  BY <1>1 DEF folderVars, Typed, LinksFit, HandlersFit, Fits, AddFits, DeleteFits, ShareFits, TakeFits, DeletePcs
<1> QED BY <1>1, TypedAdd, TypedDelete, TypedShare, TypedRequest DEF Next, WorkerStep

\* The database at the start is typed.
LEMMA TypedInit ==
  ASSUME Init
  PROVE  Typed
<1>1. HandlersFit
  BY IdleFacts DEF Init, HandlersFit
<1>2. LinksFit
  BY FoldersAssumption DEF Init, LinksFit
<1>3. entries \subseteq Relations /\ IsFiniteSet(entries) /\ disk \subseteq Files /\ requests \in 0..MaxRequests
  BY FoldersAssumption DEF Init
<1>4. \A d \in dirs : d[1] \in Users
  BY FoldersAssumption, FolderOrFile DEF Init, FolderIds
<1> QED BY <1>1, <1>2, <1>3, <1>4 DEF Typed

\* The inductive part that only types need.
LEMMA TypedAlways == Spec => []Typed
  BY TypedInit, TypedStep, PTL DEF Spec

\* Every variable has its type, a relation has at most one link, and a handler that is not idle has
\* something to do, whatever the interleaving of handlers.
THEOREM TypeCorrect == Spec => []TypeOK
<1>1. Typed => TypeOK
  <2> SUFFICES ASSUME Typed PROVE TypeOK
    OBVIOUS
  <2>1. ASSUME NEW w \in Workers, handler[w] # Idle PROVE handler[w].todo # <<>> \/ handler[w].items # <<>>
    <3>1. Fits(handler[w]) /\ (Adds(w) \/ Deletes(w) \/ Shares(w) \/ Takes(w))
      BY <2>1, Kinds DEF Typed, HandlersFit
    <3>2. \A e \in Relations : <<e>> # <<>>
      BY ListOfOne
    <3> QED BY <3>1, <3>2 DEF Fits, AddFits, DeleteFits, ShareFits, TakeFits, Adds, Deletes, Shares, Takes
  <2> QED BY <2>1 DEF Typed, LinksFit, TypeOK
<1> QED BY <1>1, TypedAlways, PTL
-------------------------------------------------------------------------------
(* What a handler keeps until it ends: its kind, whose it is, from whom it   *)
(* takes, and what it is to reach.                                          *)
Keeps(w) == /\ handler' = [handler EXCEPT ![w] = handler'[w]]
            /\ \/ handler'[w] = Idle
               \/ /\ handler'[w].op = handler[w].op /\ handler'[w].u = handler[w].u
                  /\ handler'[w].from = handler[w].from /\ handler'[w].goal = handler[w].goal

\* The handlers of the others are as they were.
LEMMA OthersSame ==
  ASSUME HandlersFit, NEW w \in Workers, handler' = [handler EXCEPT ![w] = handler'[w]]
  PROVE  \A v \in Workers \ {w} : handler'[v] = handler[v]
  BY DEF HandlersFit

\* The steps of a handler that adds a folder.
LEMMA AddKeeps ==
  ASSUME HandlersFit, NEW w \in Workers, AddStep(w)
  PROVE  /\ Adds(w) /\ Keeps(w)
         /\ \/ handler'[w] = Idle /\ (MakeDir(w) \/ SelectFolder(w) \/ RelateFolder(w))
            \/ /\ \E pc \in {"row", "mkdir"} : handler'[w] = [handler[w] EXCEPT !.pc = pc]
               /\ Stat(w) \/ MakeDir(w)
            \/ handler'[w] = [handler[w] EXCEPT !.pc = "fid"] /\ InsertFolderRow(w)
            \/ handler'[w] = [handler[w] EXCEPT !.pc = "relate"] /\ SelectFolder(w) /\ Item(w).f \in rows
<1>1. Adds(w) /\ handler[w] \in AddHandlers /\ handler \in [Workers -> Handlers]
  BY At_Add DEF AddStep, Stat, MakeDir, InsertFolderRow, SelectFolder, RelateFolder, At, HandlersFit
<1>2. \/ handler' = [handler EXCEPT ![w] = Idle] /\ (MakeDir(w) \/ SelectFolder(w) \/ RelateFolder(w))
      \/ (\E pc \in {"row", "mkdir"} : Goes(w, pc)) /\ (Stat(w) \/ MakeDir(w))
      \/ Goes(w, "fid") /\ InsertFolderRow(w)
      \/ Goes(w, "relate") /\ SelectFolder(w) /\ Item(w).f \in rows
  BY DEF AddStep, Stat, MakeDir, InsertFolderRow, SelectFolder, RelateFolder
<1>3. ASSUME NEW pc, Goes(w, pc)
      PROVE  /\ handler' = [handler EXCEPT ![w] = handler'[w]] /\ handler'[w] = [handler[w] EXCEPT !.pc = pc]
             /\ handler'[w].op = handler[w].op /\ handler'[w].u = handler[w].u
             /\ handler'[w].from = handler[w].from /\ handler'[w].goal = handler[w].goal
  <2>1. handler' = [handler EXCEPT ![w] = [handler[w] EXCEPT !.pc = pc]]
    BY <1>3, GoneTo
  <2>2. handler'[w] = [handler[w] EXCEPT !.pc = pc]
    BY <1>1, <2>1
  <2> QED BY <1>1, <2>1, <2>2 DEF AddHandlers
<1>4. ASSUME handler' = [handler EXCEPT ![w] = Idle]
      PROVE  handler'[w] = Idle /\ handler' = [handler EXCEPT ![w] = handler'[w]]
  BY <1>1, <1>4
<1>5. CASE handler' = [handler EXCEPT ![w] = Idle] /\ (MakeDir(w) \/ SelectFolder(w) \/ RelateFolder(w))
  BY <1>1, <1>4, <1>5 DEF Keeps
<1>6. CASE (\E pc \in {"row", "mkdir"} : Goes(w, pc)) /\ (Stat(w) \/ MakeDir(w))
  BY <1>1, <1>3, <1>6 DEF Keeps
<1>7. CASE Goes(w, "fid") /\ InsertFolderRow(w)
  BY <1>1, <1>3, <1>7 DEF Keeps
<1>8. CASE Goes(w, "relate") /\ SelectFolder(w) /\ Item(w).f \in rows
  BY <1>1, <1>3, <1>8 DEF Keeps
<1> QED BY <1>2, <1>5, <1>6, <1>7, <1>8

\* The steps of a deletion.
LEMMA DeleteKeeps ==
  ASSUME Typed, NEW w \in Workers, DeleteStep(w)
  PROVE  Deletes(w) /\ Keeps(w)
<1> USE DEF At
<1>0. HandlersFit
  BY DEF Typed
<1>1. CASE DeleteOneItem(w)
  <2>1. Deletes(w) /\ handler[w] \in DeleteHandlers /\ handler' = [handler EXCEPT ![w] = handler'[w]]
    BY <1>0, <1>1, DeleteItemBegins
  <2>2. \/ handler'[w] = Idle
        \/ \E e, pc : handler'[w] = [handler[w] EXCEPT !.items = Tail(handler[w].items), !.todo = <<e>>, !.pc = pc]
        \/ handler'[w] = [handler[w] EXCEPT !.items = Tail(handler[w].items)]
    <3>1. PICK e \in Relations :
            IF e \in Visible
            THEN \E pc \in {"unfolder", "unrelate"} :
                   handler'[w] = [handler[w] EXCEPT !.items = Tail(handler[w].items), !.todo = <<e>>, !.pc = pc]
            ELSE \/ handler'[w] = Idle /\ Tail(handler[w].items) = <<>>
                 \/ handler'[w] = [handler[w] EXCEPT !.items = Tail(handler[w].items)]
      BY <1>0, <1>1, DeleteItemBegins
    <3> QED BY <3>1, Zenon
  <2> QED BY <2>1, <2>2 DEF Keeps, DeleteHandlers
<1>2. ASSUME NEW pc, Goes(w, pc), Deletes(w), handler[w].todo # <<>>, pc \in DeletePcs(Item(w)) PROVE Keeps(w)
  <2>1. handler[w] \in DeleteHandlers
    BY <1>0, <1>2, Kinds
  <2> QED BY <1>0, <1>2, <2>1, DeleteGoes DEF Keeps, DeleteHandlers
<1>3. ASSUME NEW todo \in Seq(Relations), Proceeds(w, todo), Deletes(w), \A e \in ToSet(todo) : e.u = handler[w].u
      PROVE  Keeps(w)
  <2>1. handler[w] \in DeleteHandlers
    BY <1>0, <1>3, Kinds
  <2>2. /\ handler' = [handler EXCEPT ![w] = handler'[w]]
        /\ \/ handler'[w] = Idle
           \/ \E pc : handler'[w] = [handler[w] EXCEPT !.todo = todo, !.pc = pc]
    <3>1. /\ handler' = [handler EXCEPT ![w] = handler'[w]]
          /\ IF todo = <<>> /\ handler[w].items = <<>> THEN handler'[w] = Idle
             ELSE \E pc \in {"item", "unfolder", "unrelate"} :
                    handler'[w] = [handler[w] EXCEPT !.todo = todo, !.pc = pc]
      BY <1>0, <1>3, DeleteProceeds
    <3> QED BY <3>1, Zenon
  <2> QED BY <2>1, <2>2 DEF Keeps, DeleteHandlers
<1>4. CASE DeleteFolderRelation(w) \/ DeleteFileRelation(w) \/ DeleteRow(w)
  BY <1>0, <1>2, <1>4, At_Delete DEF DeleteFolderRelation, DeleteFileRelation, DeleteRow, DeletePcs
<1>5. CASE LookForOthers(w) \/ Unlink(w)
  BY <1>0, <1>2, <1>3, <1>5, At_Delete DEF LookForOthers, Unlink, DeletePcs
<1>6. CASE DeleteChildren(w)
  <2>1. Deletes(w)
    BY <1>6 DEF DeleteChildren, Deletes
  <2> QED BY <1>3, <1>6, <2>1, DeleteChildrenBegins
<1> QED BY <1>1, <1>4, <1>5, <1>6 DEF DeleteStep

\* The steps of a share and of a take-over.
LEMMA ShareKeeps ==
  ASSUME Typed, NEW w \in Workers, ShareStep(w)
  PROVE  Keeps(w) /\ IF ShareItem(w) THEN Shares(w) ELSE Takes(w)
<1>0. HandlersFit
  BY DEF Typed
<1>1. CASE ShareItem(w)
  <2>1. Shares(w) /\ handler[w] \in ShareHandlers
    BY <1>0, <1>1, At_Share DEF ShareItem
  <2> QED BY <1>0, <1>1, <2>1, ShareProceeds DEF ShareItem, Keeps, ShareHandlers
<1>2. CASE InsertCopy(w)
  <2>1. /\ Takes(w) /\ handler[w] \in TakeHandlers /\ Rest(w) \in Seq(Copies) /\ handler \in [Workers -> Handlers]
        /\ \A d \in ToSet(Rest(w)) : d.u = handler[w].u /\ d.from \in handler[w].from
    BY <1>0, <1>2, At_Take DEF InsertCopy, HandlersFit
  <2>2. ~ ShareItem(w)
    BY <1>2 DEF InsertCopy, ShareItem, At
  <2>3. CASE Proceeds(w, Rest(w))
    <3>1. /\ handler' = [handler EXCEPT ![w] = handler'[w]]
          /\ handler'[w] = Idle \/ handler'[w] = [handler[w] EXCEPT !.todo = Rest(w), !.pc = "insert"]
      BY <1>0, <2>1, <2>3, TakeProceeds
    <3> QED BY <2>1, <2>2, <3>1 DEF Keeps, TakeHandlers
  <2>4. CASE Goes(w, "children")
    <3>1. handler' = [handler EXCEPT ![w] = [handler[w] EXCEPT !.pc = "children"]]
      BY <1>0, <2>4, GoneTo
    <3>2. handler'[w] = [handler[w] EXCEPT !.pc = "children"]
      BY <2>1, <3>1
    <3> QED BY <2>1, <2>2, <3>1, <3>2 DEF Keeps, TakeHandlers
  <2> QED BY <1>2, <2>3, <2>4 DEF InsertCopy
<1>3. CASE CopyChildren(w)
  <2>1. Takes(w) /\ handler[w] \in TakeHandlers
    BY <1>0, <1>3, At_Take DEF CopyChildren, Takes
  <2>2. ~ ShareItem(w)
    BY <1>3 DEF CopyChildren, ShareItem, At
  <2>3. PICK todo \in Seq(Copies) :
          Proceeds(w, todo) /\ \A d \in ToSet(todo) : d.u = handler[w].u /\ d.from \in handler[w].from
    BY <1>3, CopyChildrenBegins
  <2>4. /\ handler' = [handler EXCEPT ![w] = handler'[w]]
        /\ handler'[w] = Idle \/ handler'[w] = [handler[w] EXCEPT !.todo = todo, !.pc = "insert"]
    BY <1>0, <2>1, <2>3, TakeProceeds
  <2> QED BY <2>1, <2>2, <2>4 DEF Keeps, TakeHandlers
<1> QED BY <1>1, <1>2, <1>3 DEF ShareStep

\* What a request begins: an upload is done at once, the others take a handler that is idle.
BeginsWith(u, h) ==
  /\ h \in Handlers /\ Fits(h) /\ h.u = u /\ UNCHANGED Tables
  /\ \E w \in Workers : handler[w] = Idle /\ handler' = [handler EXCEPT ![w] = h]
  /\ Overlap \/ Apart(h.op, h.u, h.from)

\* The five requests.
LEMMA RequestBegins ==
  ASSUME Typed, NEW u \in Users, Request(u)
  PROVE  \/ \E f \in Files : Upload(u, f)
         \/ \E es \in Asked(u) : BeginsWith(u,
              [Idle EXCEPT !.op = "delete", !.pc = "item", !.u = u,
                           !.items = SetToSeq(es), !.goal = UNION {Tree(e) : e \in es}])
         \/ \E es \in Asked(u), link \in Links :
              /\ ~InUse(link)
              /\ BeginsWith(u, [Idle EXCEPT !.op = "share", !.pc = "setlink", !.u = u,
                                            !.todo = SetToSeq(es), !.goal = es \X {link}])
         \/ \E link \in Links, dir \in Paths(u), items \in SUBSET entries :
              /\ items = {e \in Visible : <<e, link>> \in links} /\ items # {}
              /\ SelfShare \/ \A e \in items, g \in UNION {Copied(u, dir, d) : d \in items} :
                                ~(e.u = u /\ IsFolder(e.f) /\ IsPrefix(Inside(e), g.dir))
              /\ BeginsWith(u, TakeOver(u, dir, items))
         \/ \E dir \in Paths(u), name \in Names : BeginsWith(u,
              [Idle EXCEPT !.op = "add", !.pc = "stat", !.u = u,
                           !.todo = <<Entry(u, dir, Folder(u, dir, name))>>])
<1>0. HandlersFit
  BY DEF Typed
<1>1. ASSUME NEW h \in Handlers, Fits(h), h.u = u, Begins(h), UNCHANGED Tables
      PROVE  BeginsWith(u, h)
  BY <1>0, <1>1, Begun DEF BeginsWith
<1>2. CASE DeleteFiles(u)
  <2>1. PICK es \in Asked(u) :
          /\ Begins([Idle EXCEPT !.op = "delete", !.pc = "item", !.u = u,
                                 !.items = SetToSeq(es), !.goal = UNION {Tree(e) : e \in es}])
          /\ UNCHANGED Tables
    BY <1>2 DEF DeleteFiles, Tables
  <2> DEFINE h == [Idle EXCEPT !.op = "delete", !.pc = "item", !.u = u,
                               !.items = SetToSeq(es), !.goal = UNION {Tree(e) : e \in es}]
  <2>2. h \in Handlers /\ Fits(h)
    BY RequestFits
  <2>3. h.u = u
    BY DEF Idle
  <2> QED BY <1>1, <2>1, <2>2, <2>3
<1>3. CASE Share(u)
  <2>1. PICK es \in Asked(u), link \in {l \in Links : ~InUse(l)} :
          /\ Begins([Idle EXCEPT !.op = "share", !.pc = "setlink", !.u = u, !.todo = SetToSeq(es), !.goal = es \X {link}])
          /\ UNCHANGED Tables
    BY <1>3 DEF Share, Tables
  <2> DEFINE h == [Idle EXCEPT !.op = "share", !.pc = "setlink", !.u = u, !.todo = SetToSeq(es), !.goal = es \X {link}]
  <2>2. h \in Handlers /\ Fits(h)
    BY RequestFits
  <2>3. h.u = u
    BY DEF Idle
  <2> QED BY <1>1, <2>1, <2>2, <2>3
<1>4. CASE GetShare(u)
  <2>1. PICK link \in Links, dir \in Paths(u), items \in SUBSET entries :
          /\ items = {e \in Visible : <<e, link>> \in links} /\ items # {}
          /\ Begins(TakeOver(u, dir, items)) /\ UNCHANGED Tables
          /\ SelfShare \/ \A e \in items, g \in UNION {Copied(u, dir, d) : d \in items} :
                            ~(e.u = u /\ IsFolder(e.f) /\ IsPrefix(Inside(e), g.dir))
    BY <1>4, GetShareBegins
  <2>2. BeginsWith(u, TakeOver(u, dir, items))
    <3>1. TakeOver(u, dir, items) \in Handlers /\ Fits(TakeOver(u, dir, items)) /\ TakeOver(u, dir, items).u = u
      <4>1. items # {}
        BY <2>1
      <4> QED BY <4>1, TakeOverFits
    <3> QED BY <1>1, <2>1, <3>1
  <2> QED BY <2>1, <2>2
<1>5. ASSUME NEW name \in Names, AddFolder(u, name)
      PROVE  \E dir \in Paths(u) : BeginsWith(u,
               [Idle EXCEPT !.op = "add", !.pc = "stat", !.u = u, !.todo = <<Entry(u, dir, Folder(u, dir, name))>>])
  <2>1. PICK dir \in Paths(u) :
          /\ Begins([Idle EXCEPT !.op = "add", !.pc = "stat", !.u = u, !.todo = <<Entry(u, dir, Folder(u, dir, name))>>])
          /\ UNCHANGED Tables
    BY <1>5 DEF AddFolder, Tables
  <2> DEFINE h == [Idle EXCEPT !.op = "add", !.pc = "stat", !.u = u, !.todo = <<Entry(u, dir, Folder(u, dir, name))>>]
  <2>2. h \in Handlers /\ Fits(h)
    BY RequestFits
  <2>3. h.u = u
    BY DEF Idle
  <2> QED BY <1>1, <2>1, <2>2, <2>3
<1> QED BY <1>2, <1>3, <1>4, <1>5 DEF Request
-------------------------------------------------------------------------------
(* What holds between the steps when handlers keep away from each other.  At *)
(* any time nobody deletes, or nobody adds: the tree grows or falls.        *)
NoDeletes == \A w \in Workers : ~ Deletes(w)
NoAdditions == \A w \in Workers : ~ Adds(w) /\ ~ Takes(w)

\* What is related to has its row, and a file its bytes.
There(f) == f \in rows /\ (f \in Files => f \in disk)
Present == \A e \in entries : There(e.f)

(* What is to be added has a directory to be in, and what is to be taken    *)
(* over is there; the row comes before the relation, the folder before what *)
(* is in it.                                                                *)
AddReady(h) == /\ Head(h.todo).dir \in Paths(Head(h.todo).u)
               /\ h.pc \in {"fid", "relate"} => Head(h.todo).f \in rows
TakeReady(h) ==
  /\ \A c \in ToSet(h.todo) : There(c.f) /\ c.dir \in Paths(c.u)
  /\ h.pc = "children" => Entry(Head(h.todo).u, Head(h.todo).dir, Head(h.todo).f) \in entries
Ready == \A w \in Workers : /\ Adds(w) => AddReady(handler[w])
                            /\ Takes(w) => TakeReady(handler[w])

(* A deletion that is past the relation of its item: the relation is gone,  *)
(* and past the look for others, nobody refers to the file (clogic.cpp      *)
(* 1100): nobody can have come to refer to it.                              *)
GoneAt(w) == /\ handler[w].pc \in {"children", "look", "unrow", "unlink"} => Item(w) \notin entries
             /\ handler[w].pc \in {"unrow", "unlink"} => ~ Referenced(Item(w).f)
Gone == \A w \in Workers : Deletes(w) => GoneAt(w)

\* The deletion that removes the row of a file, and its bytes.
RowGoes(w, f) == Deletes(w) /\ handler[w].pc \in {"look", "unrow"} /\ Item(w).f = f
BytesGo(w, f) == Deletes(w) /\ handler[w].pc \in {"look", "unrow", "unlink"} /\ Item(w).f = f

\* A file nobody has is about to lose its row and its bytes.
Leftover == \A f \in Files : ~ Referenced(f) =>
              /\ f \in rows => \E w \in Workers : RowGoes(w, f)
              /\ f \in disk => \E w \in Workers : BytesGo(w, f)

\* A deletion is to come to a relation: it is in its list, or in the folder whose relation is just deleted.
Visits(w, e) == /\ Deletes(w) /\ handler[w].u = e.u
                /\ \/ e \in ToSet(handler[w].todo)
                   \/ handler[w].pc = "children" /\ Inside(Item(w)) = e.dir

\* What a user has lies in a folder of the user, or a deletion is to come to it.
Reachable == \A e \in entries : e.dir \in Paths(e.u) \/ \E w \in Workers : Visits(w, e)

State == (NoDeletes \/ NoAdditions) /\ Present /\ Ready /\ Gone /\ Leftover /\ Reachable
-------------------------------------------------------------------------------
\* All relations can be seen.
LEMMA AllSeen ==
  ASSUME Present
  PROVE  /\ Visible = entries
         /\ \A u : Paths(u) = {<<>>} \cup {Inside(e) : e \in {d \in entries : d.u = u /\ IsFolder(d.f)}}
  BY DEF Present, There, Visible, Paths

\* Paths, the same after a step.
LEMMA AllSeenThen ==
  ASSUME Present'
  PROVE  /\ Visible' = entries'
         /\ \A u : Paths(u)' = {<<>>} \cup {Inside(e) : e \in {d \in entries' : d.u = u /\ IsFolder(d.f)}}
  BY DEF Present, There, Visible, Paths, Inside, IsFolder

(* A step that adds, while nobody deletes: what it adds has its row and a    *)
(* directory, and rows and bytes come only for what is related to.          *)
LEMMA Grows ==
  ASSUME State, NoDeletes, NoDeletes',
         entries \subseteq entries', rows \subseteq rows', disk \subseteq disk',
         \A e \in entries' \ entries : There(e.f)' /\ e.dir \in Paths(e.u),
         \A f \in Files : f \in rows' \ rows \/ f \in disk' \ disk => Referenced(f)'
  PROVE  /\ (NoDeletes \/ NoAdditions)' /\ Present' /\ Gone' /\ Leftover' /\ Reachable'
         /\ \A u : Paths(u) \subseteq Paths(u)'
<1>1. Present'
  BY DEF State, Present, There
<1>2. \A u : Paths(u) \subseteq Paths(u)'
  BY <1>1, AllSeen, AllSeenThen DEF State
<1>3. Gone' /\ (NoDeletes \/ NoAdditions)'
  BY DEF NoDeletes, Gone
<1>4. Leftover'
  <2>1. ASSUME NEW f \in Files, ~ Referenced(f)' PROVE f \notin rows' /\ f \notin disk'
    <3>1. ~ Referenced(f)
      BY <2>1 DEF Referenced
    <3>2. f \notin rows /\ f \notin disk
      BY <3>1 DEF State, Leftover, NoDeletes, RowGoes, BytesGo
    <3> QED BY <2>1, <3>2
  <2> QED BY <2>1 DEF Leftover
<1>5. Reachable'
  <2>1. \A e \in entries : e.dir \in Paths(e.u)
    BY DEF State, Reachable, Visits, NoDeletes
  <2> QED BY <1>2, <2>1 DEF Reachable
<1> QED BY <1>1, <1>2, <1>3, <1>4, <1>5

\* What was ready is ready when the tree has grown.
LEMMA StaysReady ==
  ASSUME State, NEW w \in Workers, handler' = [handler EXCEPT ![w] = handler'[w]], HandlersFit,
         entries \subseteq entries', rows \subseteq rows', disk \subseteq disk', \A u : Paths(u) \subseteq Paths(u)',
         Adds(w)' => AddReady(handler[w])', Takes(w)' => TakeReady(handler[w])'
  PROVE  Ready'
<1>1. \A v \in Workers \ {w} : handler'[v] = handler[v]
  BY OthersSame
<1>2. \A f : There(f) => There(f)'
  BY DEF There
<1>3. ASSUME NEW v \in Workers \ {w}, Adds(v)' PROVE AddReady(handler[v])'
  <2>1. Adds(v) /\ handler'[v] = handler[v]
    BY <1>1, <1>3 DEF Adds
  <2>2. AddReady(handler[v])
    BY <2>1 DEF State, Ready
  <2> QED BY <2>1, <2>2 DEF AddReady
<1>4. ASSUME NEW v \in Workers \ {w}, Takes(v)' PROVE TakeReady(handler[v])'
  <2>1. Takes(v) /\ handler'[v] = handler[v]
    BY <1>1, <1>4 DEF Takes
  <2>2. TakeReady(handler[v])
    BY <2>1 DEF State, Ready
  <2> QED BY <1>2, <2>1, <2>2 DEF TakeReady
<1> QED BY <1>3, <1>4 DEF Ready

(* A step that deletes, while nobody adds: what it takes away nobody needs, *)
(* and what was left to this deletion still is, or is done.                 *)
LEMMA Falls ==
  ASSUME State, HandlersFit, NEW w \in Workers, Deletes(w), Keeps(w),
         entries' \subseteq entries, rows' \subseteq rows, disk' \subseteq disk,
         Present', Deletes(w)' => GoneAt(w)',
         \A f \in Files : ~ Referenced(f)' /\ f \in rows' /\ (Referenced(f) \/ RowGoes(w, f)) => RowGoes(w, f)',
         \A f \in Files : ~ Referenced(f)' /\ f \in disk' /\ (Referenced(f) \/ BytesGo(w, f)) => BytesGo(w, f)',
         \A e \in entries' :
            Visits(w, e) \/ (\E d \in entries \ entries' : d.u = e.u /\ IsFolder(d.f) /\ Inside(d) = e.dir)
              => Visits(w, e)'
  PROVE  State'
<1>1. /\ \A v \in Workers \ {w} : handler'[v] = handler[v]
      /\ handler'[w] = Idle \/ handler'[w].op = "delete"
  BY OthersSame DEF Keeps, Deletes
<1>2. NoAdditions'
  <2>1. NoAdditions
    BY DEF State, NoDeletes
  <2> QED BY <1>1, <2>1, IdleFacts DEF NoAdditions, Adds, Takes
<1>3. Ready'
  BY <1>2 DEF NoAdditions, Ready
<1>4. Gone'
  <2>1. ASSUME NEW v \in Workers \ {w}, Deletes(v)' PROVE GoneAt(v)'
    <3>1. handler'[v] = handler[v] /\ Deletes(v)
      BY <1>1, <2>1 DEF Deletes
    <3>2. GoneAt(v)
      BY <3>1 DEF State, Gone
    <3> QED BY <3>1, <3>2 DEF GoneAt, Item, Referenced
  <2> QED BY <2>1 DEF Gone
<1>5. Leftover'
  <2>1. \A f : \A v \in Workers \ {w} : (RowGoes(v, f) => RowGoes(v, f)') /\ (BytesGo(v, f) => BytesGo(v, f)')
    BY <1>1 DEF RowGoes, BytesGo, Deletes, Item
  <2>2. ASSUME NEW f \in Files, ~ Referenced(f)', f \in rows' PROVE \E v \in Workers : RowGoes(v, f)'
    <3>1. Referenced(f) \/ \E v \in Workers : RowGoes(v, f)
      BY <2>2 DEF State, Leftover
    <3> QED BY <2>1, <2>2, <3>1
  <2>3. ASSUME NEW f \in Files, ~ Referenced(f)', f \in disk' PROVE \E v \in Workers : BytesGo(v, f)'
    <3>1. Referenced(f) \/ \E v \in Workers : BytesGo(v, f)
      BY <2>3 DEF State, Leftover
    <3> QED BY <2>1, <2>3, <3>1
  <2> QED BY <2>2, <2>3 DEF Leftover
<1>6. Reachable'
  <2>1. \A e : \A v \in Workers \ {w} : Visits(v, e) => Visits(v, e)'
    BY <1>1 DEF Visits, Deletes, Item
  <2>2. ASSUME NEW e \in entries' PROVE e.dir \in Paths(e.u)' \/ \E v \in Workers : Visits(v, e)'
    <3>1. CASE e.dir \in Paths(e.u)
      <4>1. CASE e.dir = <<>>
        BY <4>1, AllSeenThen
      <4>2. CASE e.dir # <<>>
        <5>1. PICK d \in entries : d.u = e.u /\ IsFolder(d.f) /\ Inside(d) = e.dir
          BY <3>1, <4>2, AllSeen DEF State
        <5>2. CASE d \in entries'
          BY <5>1, <5>2, AllSeenThen
        <5> QED BY <5>1, <5>2
      <4> QED BY <4>1, <4>2
    <3>2. CASE \E v \in Workers : Visits(v, e)
      BY <2>1, <3>2
    <3> QED BY <3>1, <3>2 DEF State, Reachable
  <2> QED BY <2>2 DEF Reachable
<1> QED BY <1>2, <1>3, <1>4, <1>5, <1>6 DEF State
-------------------------------------------------------------------------------
\* A deletion at work, and what holds of its item.
LEMMA AtWork ==
  ASSUME Typed, State, NEW w \in Workers, DeleteStep(w)
  PROVE  /\ HandlersFit /\ Deletes(w) /\ Keeps(w) /\ Present /\ GoneAt(w) /\ handler \in [Workers -> Handlers]
         /\ handler[w] \in DeleteHandlers /\ Visible = entries
  BY DeleteKeeps, Kinds, AllSeen DEF Typed, HandlersFit, State, Gone

\* The next item is begun: nobody waits for a deletion between two items.
LEMMA ItemKeepsState ==
  ASSUME Typed, State, NEW w \in Workers, DeleteOneItem(w)
  PROVE  State'
<1>1. HandlersFit /\ Deletes(w) /\ Keeps(w) /\ Present /\ Visible = entries /\ handler[w].pc = "item"
  BY AtWork DEF DeleteStep, DeleteOneItem, At
<1>2. handler[w].todo = <<>> /\ handler[w] \in DeleteHandlers
  BY <1>1, DeleteItemBegins
<1>3. Deletes(w)' => handler'[w].pc \in {"item", "unfolder", "unrelate"}
  <2>1. PICK e \in Relations :
          IF e \in Visible
          THEN \E pc \in {"unfolder", "unrelate"} :
                 handler'[w] = [handler[w] EXCEPT !.items = Tail(handler[w].items), !.todo = <<e>>, !.pc = pc]
          ELSE \/ handler'[w] = Idle /\ Tail(handler[w].items) = <<>>
               \/ handler'[w] = [handler[w] EXCEPT !.items = Tail(handler[w].items)]
    BY <1>1, DeleteItemBegins
  <2>2. CASE e \in Visible
    BY <1>2, <2>1, <2>2 DEF DeleteHandlers
  <2>3. CASE handler'[w] = Idle
    BY <2>3, IdleFacts DEF Deletes
  <2>4. CASE handler'[w] = [handler[w] EXCEPT !.items = Tail(handler[w].items)]
    BY <1>1, <1>2, <2>4 DEF DeleteHandlers
  <2> QED BY <2>1, <2>2, <2>3, <2>4
<1>4. Deletes(w)' => GoneAt(w)'
  BY <1>3 DEF GoneAt
<1>5. UNCHANGED Tables /\ Present'
  BY <1>1 DEF DeleteOneItem, Tables, Present, There
<1>6. \A f : ~ RowGoes(w, f) /\ ~ BytesGo(w, f)
  BY <1>1 DEF RowGoes, BytesGo
<1>7. \A e : ~ Visits(w, e)
  BY <1>1, <1>2, ListOfNone DEF Visits
<1>8. \A f : Referenced(f)' = Referenced(f)
  BY <1>5 DEF Tables, Referenced
<1> QED BY <1>1, <1>4, <1>5, <1>6, <1>7, <1>8, Falls DEF Tables

\* A deletion that goes to another step with the same item.
LEMMA GoesOn ==
  ASSUME HandlersFit, NEW w \in Workers, NEW pc, Goes(w, pc), Deletes(w), handler[w].todo # <<>>, pc \in DeletePcs(Item(w))
  PROVE  /\ Deletes(w)' /\ handler'[w].pc = pc /\ handler'[w].todo = handler[w].todo /\ Item(w)' = Item(w)
         /\ handler'[w].u = handler[w].u
<1>1. handler[w] \in DeleteHandlers /\ handler'[w] = [handler[w] EXCEPT !.pc = pc]
  BY DeleteGoes, Kinds
<1> QED BY <1>1 DEF Deletes, Item, DeleteHandlers

\* The relation of a folder is deleted: what is in the folder is visited next.
LEMMA FolderKeepsState ==
  ASSUME Typed, State, NEW w \in Workers, DeleteFolderRelation(w)
  PROVE  State'
<1> DEFINE e0 == Item(w)
<1>1. HandlersFit /\ Deletes(w) /\ Keeps(w) /\ Present /\ handler[w].pc = "unfolder"
  BY AtWork DEF DeleteStep, DeleteFolderRelation, At
<1>2. /\ handler[w].todo # <<>> /\ e0 \in Relations /\ e0.u = handler[w].u /\ IsFolder(e0.f) /\ handler[w].u = e0.u
  BY <1>1, At_Delete
<1>3. /\ entries' = entries \ {e0} /\ UNCHANGED <<rows, disk>>
      /\ Deletes(w)' /\ handler'[w].pc = "children" /\ handler'[w].todo = handler[w].todo /\ Item(w)' = e0
      /\ handler'[w].u = handler[w].u
  BY <1>1, <1>2, GoesOn DEF DeleteFolderRelation, WithoutEntry, DeletePcs
<1>4. Present' /\ GoneAt(w)'
  BY <1>1, <1>3 DEF Present, There, GoneAt
<1>5. \A f \in Files : Referenced(f) => Referenced(f)'
  BY <1>2, <1>3 DEF Referenced, IsFolder
<1>6. \A f : ~ RowGoes(w, f) /\ ~ BytesGo(w, f)
  BY <1>1 DEF RowGoes, BytesGo
<1>7. ASSUME NEW e \in entries',
             Visits(w, e) \/ \E d \in entries \ entries' : d.u = e.u /\ IsFolder(d.f) /\ Inside(d) = e.dir
      PROVE  Visits(w, e)'
  <2>1. CASE Visits(w, e)
    BY <1>1, <1>3, <2>1 DEF Visits
  <2>2. CASE e0.u = e.u /\ Inside(e0) = e.dir
    <3>1. Inside(Item(w))' = e.dir
      BY <1>3, <2>2 DEF Inside
    <3> QED BY <1>2, <1>3, <2>2, <3>1 DEF Visits
  <2> QED BY <1>3, <1>7, <2>1, <2>2
<1> QED BY <1>1, <1>3, <1>4, <1>5, <1>6, <1>7, Falls

\* The relation of a file is deleted: others are looked for next.
LEMMA FileKeepsState ==
  ASSUME Typed, State, NEW w \in Workers, DeleteFileRelation(w)
  PROVE  State'
<1> DEFINE e0 == Item(w)
<1>1. HandlersFit /\ Deletes(w) /\ Keeps(w) /\ Present /\ handler[w].pc = "unrelate"
  BY AtWork DEF DeleteStep, DeleteFileRelation, At
<1>2. handler[w].todo # <<>> /\ ~ IsFolder(e0.f)
  BY <1>1, At_Delete
<1>3. /\ entries' = entries \ {e0} /\ UNCHANGED <<rows, disk>>
      /\ Deletes(w)' /\ handler'[w].pc = "look" /\ handler'[w].todo = handler[w].todo /\ Item(w)' = e0
      /\ handler'[w].u = handler[w].u
  BY <1>1, <1>2, GoesOn DEF DeleteFileRelation, WithoutEntry, DeletePcs
<1>4. Present' /\ GoneAt(w)'
  BY <1>1, <1>3 DEF Present, There, GoneAt
<1>5. \A f : Referenced(f) /\ ~ Referenced(f)' => RowGoes(w, f)' /\ BytesGo(w, f)'
  BY <1>3 DEF Referenced, RowGoes, BytesGo
<1>6. \A f : ~ RowGoes(w, f) /\ ~ BytesGo(w, f)
  BY <1>1 DEF RowGoes, BytesGo
<1>7. ASSUME NEW e \in entries',
             Visits(w, e) \/ \E d \in entries \ entries' : d.u = e.u /\ IsFolder(d.f) /\ Inside(d) = e.dir
      PROVE  Visits(w, e)'
  <2>1. Visits(w, e)
    BY <1>2, <1>3, <1>7
  <2> QED BY <1>1, <1>3, <2>1 DEF Visits
<1> QED BY <1>1, <1>3, <1>4, <1>5, <1>6, <1>7, Falls

\* A deletion that goes on with what is left has what is left, and is at the beginning of an item.
LEMMA GoesToNext ==
  ASSUME HandlersFit, NEW w \in Workers, Deletes(w), NEW todo \in Seq(Relations),
         \A e \in ToSet(todo) : e.u = handler[w].u, Proceeds(w, todo)
  PROVE  /\ Deletes(w)' => handler'[w].pc \in {"item", "unfolder", "unrelate"}
         /\ ToSet(todo) # {} => Deletes(w)' /\ handler'[w].u = handler[w].u /\ handler'[w].todo = todo
<1>1. handler[w] \in DeleteHandlers
  BY Kinds
<1>2. CASE todo = <<>> /\ handler[w].items = <<>>
  <2>1. handler'[w] = Idle
    BY <1>2, DeleteProceeds
  <2> QED BY <1>2, <2>1, IdleFacts, ListOfNone DEF Deletes
<1>3. CASE ~ (todo = <<>> /\ handler[w].items = <<>>)
  <2>1. PICK pc \in {"item", "unfolder", "unrelate"} : handler'[w] = [handler[w] EXCEPT !.todo = todo, !.pc = pc]
    BY <1>3, DeleteProceeds
  <2> QED BY <1>1, <2>1 DEF DeleteHandlers, Deletes
<1> QED BY <1>2, <1>3

(* A deletion is done with an item whose relation is gone and goes on with   *)
(* a list that has at least what was left: whoever waited for it still does,*)
(* but for the item.                                                        *)
LEMMA GoesOnWith ==
  ASSUME Typed, State, NEW w \in Workers, DeleteStep(w), handler[w].todo # <<>>,
         handler[w].pc \in {"children", "look", "unlink"},
         NEW todo \in Seq(Relations), \A e \in ToSet(todo) : e.u = handler[w].u, Proceeds(w, todo),
         ToSet(Rest(w)) \subseteq ToSet(todo),
         handler[w].pc = "children" => In(Item(w).u, Inside(Item(w))) \subseteq ToSet(todo),
         UNCHANGED <<entries, rows>>, disk' \subseteq disk, Present',
         handler[w].pc = "look" => Referenced(Item(w).f),
         handler[w].pc = "unlink" => Item(w).f \notin disk'
  PROVE  State'
<1>1. /\ HandlersFit /\ Deletes(w) /\ Keeps(w) /\ GoneAt(w) /\ Visible = entries
      /\ ToSet(handler[w].todo) = {Item(w)} \cup ToSet(Rest(w)) /\ Item(w).u = handler[w].u
  BY AtWork, At_Delete
<1>2. \A f : Referenced(f)' = Referenced(f)
  BY DEF Referenced
<1>3. Deletes(w)' => GoneAt(w)'
  BY <1>1, GoesToNext DEF GoneAt
<1>4. \A f \in Files : ~ Referenced(f) => ~ RowGoes(w, f) /\ (f \in disk' => ~ BytesGo(w, f))
  BY DEF RowGoes, BytesGo
<1>5. ASSUME NEW e \in entries, Visits(w, e) PROVE Visits(w, e)'
  <2>1. Item(w) \notin entries
    BY <1>1 DEF GoneAt
  <2>2. e \in ToSet(todo)
    <3>1. CASE e \in ToSet(handler[w].todo)
      BY <1>1, <2>1, <3>1
    <3>2. CASE handler[w].pc = "children" /\ Inside(Item(w)) = e.dir
      BY <1>1, <1>5, <3>2 DEF Visits, In
    <3> QED BY <1>5, <3>1, <3>2 DEF Visits
  <2> QED BY <1>1, <1>5, <2>2, GoesToNext DEF Visits
<1> QED BY <1>1, <1>2, <1>3, <1>4, <1>5, Falls

\* What is in the folder is selected.
LEMMA ChildrenKeepState ==
  ASSUME Typed, State, NEW w \in Workers, DeleteChildren(w)
  PROVE  State'
<1>1. /\ DeleteStep(w) /\ handler[w].pc = "children" /\ Deletes(w) /\ HandlersFit /\ Present
      /\ UNCHANGED <<entries, rows, disk>>
  BY AtWork DEF DeleteStep, DeleteChildren, At, Deletes
<1>2. handler[w].todo # <<>>
  BY <1>1, At_Delete
<1>3. Present'
  BY <1>1 DEF Present, There
<1> QED BY <1>1, <1>2, <1>3, DeleteChildrenBegins, GoesOnWith

\* Others are looked for: when there are none, the row and the bytes go.
LEMMA LookKeepsState ==
  ASSUME Typed, State, NEW w \in Workers, LookForOthers(w)
  PROVE  State'
<1>1. /\ DeleteStep(w) /\ handler[w].pc = "look" /\ Deletes(w) /\ HandlersFit /\ Present /\ Keeps(w) /\ GoneAt(w)
      /\ UNCHANGED <<entries, rows, disk>>
  BY AtWork DEF DeleteStep, LookForOthers, At
<1>2. /\ handler[w].todo # <<>> /\ ~ IsFolder(Item(w).f) /\ Rest(w) \in Seq(Relations)
      /\ \A e \in ToSet(Rest(w)) : e.u = handler[w].u
  BY <1>1, At_Delete
<1>3. Present'
  BY <1>1 DEF Present, There
<1>4. CASE Referenced(Item(w).f) /\ Proceeds(w, Rest(w))
  BY <1>1, <1>2, <1>3, <1>4, GoesOnWith
<1>5. CASE ~ Referenced(Item(w).f) /\ Goes(w, "unrow")
  <2>1. /\ Deletes(w)' /\ handler'[w].pc = "unrow" /\ handler'[w].todo = handler[w].todo /\ Item(w)' = Item(w)
        /\ handler'[w].u = handler[w].u
    BY <1>1, <1>2, <1>5, GoesOn DEF DeletePcs
  <2>2. \A f : Referenced(f)' = Referenced(f)
    BY <1>1 DEF Referenced
  <2>3. GoneAt(w)'
    BY <1>1, <1>5, <2>1, <2>2 DEF GoneAt, Referenced
  <2>4. \A f : (RowGoes(w, f) => RowGoes(w, f)') /\ (BytesGo(w, f) => BytesGo(w, f)')
    BY <2>1 DEF RowGoes, BytesGo
  <2>5. \A e : Visits(w, e) => Visits(w, e)'
    BY <1>1, <2>1 DEF Visits
  <2> QED BY <1>1, <1>3, <2>2, <2>3, <2>4, <2>5, Falls
<1> QED BY <1>4, <1>5 DEF LookForOthers

\* The row of a file nobody has is deleted.
LEMMA RowKeepsState ==
  ASSUME Typed, State, NEW w \in Workers, DeleteRow(w)
  PROVE  State'
<1>1. /\ DeleteStep(w) /\ handler[w].pc = "unrow" /\ Deletes(w) /\ HandlersFit /\ Present /\ Keeps(w) /\ GoneAt(w)
      /\ UNCHANGED <<entries, disk>> /\ rows' = rows \ {Item(w).f}
  BY AtWork DEF DeleteStep, DeleteRow, At
<1>2. handler[w].todo # <<>> /\ ~ IsFolder(Item(w).f)
  BY <1>1, At_Delete
<1>3. ~ Referenced(Item(w).f)
  BY <1>1 DEF GoneAt
<1>4. Present'
  BY <1>1, <1>3 DEF Present, There, Referenced
<1>5. /\ Deletes(w)' /\ handler'[w].pc = "unlink" /\ handler'[w].todo = handler[w].todo /\ Item(w)' = Item(w)
      /\ handler'[w].u = handler[w].u
  BY <1>1, <1>2, GoesOn DEF DeleteRow, DeletePcs
<1>6. \A f : Referenced(f)' = Referenced(f)
  BY <1>1 DEF Referenced
<1>7. GoneAt(w)'
  BY <1>1, <1>3, <1>5, <1>6 DEF GoneAt, Referenced
<1>8. \A f : (f \in rows' => ~ RowGoes(w, f)) /\ (BytesGo(w, f) => BytesGo(w, f)')
  BY <1>1, <1>5 DEF RowGoes, BytesGo
<1>9. \A e : Visits(w, e) => Visits(w, e)'
  BY <1>1, <1>5 DEF Visits
<1> QED BY <1>1, <1>4, <1>6, <1>7, <1>8, <1>9, Falls

\* The bytes of a file nobody has are deleted.
LEMMA UnlinkKeepsState ==
  ASSUME Typed, State, NEW w \in Workers, Unlink(w)
  PROVE  State'
<1>1. /\ DeleteStep(w) /\ handler[w].pc = "unlink" /\ Deletes(w) /\ HandlersFit /\ Present /\ GoneAt(w)
      /\ UNCHANGED <<entries, rows>> /\ disk' = disk \ {Item(w).f} /\ Proceeds(w, Rest(w))
  BY AtWork DEF DeleteStep, Unlink, At
<1>2. /\ handler[w].todo # <<>> /\ Rest(w) \in Seq(Relations)
      /\ \A e \in ToSet(Rest(w)) : e.u = handler[w].u
  BY <1>1, At_Delete
<1>3. ~ Referenced(Item(w).f)
  BY <1>1 DEF GoneAt
<1>4. Present'
  BY <1>1, <1>3 DEF Present, There, Referenced
<1> QED BY <1>1, <1>2, <1>4, GoesOnWith

\* Every step of a deletion keeps the state.
LEMMA DeleteKeepsState ==
  ASSUME Typed, State, NEW w \in Workers, DeleteStep(w)
  PROVE  State'
  BY ItemKeepsState, FolderKeepsState, ChildrenKeepState, FileKeepsState, LookKeepsState, RowKeepsState,
     UnlinkKeepsState DEF DeleteStep
-------------------------------------------------------------------------------
\* A handler that changes leaves the others at their kinds.
LEMMA KindsKept ==
  ASSUME HandlersFit, NEW w \in Workers, Keeps(w)
  PROVE  /\ NoDeletes => NoDeletes'
         /\ NoAdditions => NoAdditions'
<1>1. \A v \in Workers : handler'[v] = handler[v] \/ handler'[v] = Idle \/ handler'[v].op = handler[v].op
  BY OthersSame DEF Keeps
<1> QED BY <1>1, IdleFacts DEF NoDeletes, NoAdditions, Deletes, Adds, Takes

\* The steps of a request to add a folder keep the state.
LEMMA AddKeepsState ==
  ASSUME Typed, State, NEW w \in Workers, AddStep(w)
  PROVE  State'
<1> DEFINE e0 == Item(w)
<1>1. HandlersFit /\ Adds(w) /\ Keeps(w) /\ handler' = [handler EXCEPT ![w] = handler'[w]]
  BY AddKeeps DEF Typed, Keeps
<1>2. NoDeletes /\ NoDeletes'
  <2>1. NoDeletes
    BY <1>1 DEF State, NoAdditions
  <2> QED BY <1>1, <2>1, KindsKept
<1>3. /\ e0 \in Relations /\ IsFolder(e0.f) /\ handler[w] \in AddHandlers
      /\ e0.dir \in Paths(e0.u) /\ (handler[w].pc \in {"fid", "relate"} => e0.f \in rows)
  <2>1. handler[w] \in AddHandlers
    BY <1>1, Kinds
  <2>2. handler[w].pc \in {"stat", "mkdir", "row", "fid", "relate"}
    BY <2>1 DEF AddHandlers
  <2>3. AddReady(handler[w])
    BY <1>1 DEF State, Ready
  <2> QED BY <1>1, <2>1, <2>2, <2>3, At_Add DEF AddReady, Item
<1>4. /\ entries \subseteq entries' /\ rows \subseteq rows' /\ disk' = disk
      /\ rows' \ rows \subseteq {e0.f} /\ entries' \ entries \subseteq {e0}
      /\ RelateFolder(w) => e0.f \in rows'
      /\ ~ RelateFolder(w) => entries' = entries
  BY <1>1, <1>3 DEF AddStep, Stat, MakeDir, InsertFolderRow, SelectFolder, RelateFolder, At
<1>5. \A e \in entries' \ entries : There(e.f)' /\ e.dir \in Paths(e.u)
  BY <1>3, <1>4 DEF There, IsFolder
<1>6. \A f \in Files : f \notin rows' \ rows /\ f \notin disk' \ disk
  BY <1>3, <1>4 DEF IsFolder
<1>7. /\ (NoDeletes \/ NoAdditions)' /\ Present' /\ Gone' /\ Leftover' /\ Reachable'
      /\ \A u : Paths(u) \subseteq Paths(u)'
  BY <1>2, <1>4, <1>5, <1>6, Grows
<1>8. ~ Takes(w)' /\ (Adds(w)' => AddReady(handler[w])')
  <2>1. CASE handler'[w] = Idle
    BY <2>1, IdleFacts DEF Adds, Takes
  <2>2. CASE \E pc \in {"row", "mkdir"} : handler'[w] = [handler[w] EXCEPT !.pc = pc]
    <3>1. handler'[w].todo = handler[w].todo /\ handler'[w].pc \notin {"fid", "relate"} /\ handler'[w].op = "add"
      BY <1>3, <2>2 DEF AddHandlers
    <3> QED BY <1>3, <1>7, <3>1 DEF AddReady, Item, Takes
  <2>3. CASE handler'[w] = [handler[w] EXCEPT !.pc = "fid"] /\ InsertFolderRow(w)
    <3>1. handler'[w].todo = handler[w].todo /\ handler'[w].op = "add"
      BY <1>3, <2>3 DEF AddHandlers
    <3>2. e0.f \in rows'
      BY <2>3 DEF InsertFolderRow
    <3> QED BY <1>3, <1>7, <3>1, <3>2 DEF AddReady, Item, Takes
  <2>4. CASE handler'[w] = [handler[w] EXCEPT !.pc = "relate"] /\ SelectFolder(w) /\ Item(w).f \in rows
    <3>1. handler'[w].todo = handler[w].todo /\ handler'[w].op = "add"
      BY <1>3, <2>4 DEF AddHandlers
    <3>2. e0.f \in rows'
      BY <2>4 DEF SelectFolder
    <3> QED BY <1>3, <1>7, <3>1, <3>2 DEF AddReady, Item, Takes
  <2> QED BY <2>1, <2>2, <2>3, <2>4, AddKeeps DEF Typed
<1>9. Ready'
  BY <1>1, <1>4, <1>7, <1>8, StaysReady
<1> QED BY <1>7, <1>9 DEF State

\* A relation of a take-over is inserted.
LEMMA InsertKeepsState ==
  ASSUME Typed, State, NEW w \in Workers, InsertCopy(w)
  PROVE  State'
<1> DEFINE c == Item(w)
           e0 == Entry(c.u, c.dir, c.f)
<1>1. HandlersFit /\ Takes(w) /\ Keeps(w) /\ handler' = [handler EXCEPT ![w] = handler'[w]]
  BY At_Take, ShareKeeps DEF Typed, Keeps, ShareStep, InsertCopy
<1>2. NoDeletes /\ NoDeletes'
  <2>1. NoDeletes
    BY <1>1 DEF State, NoAdditions
  <2> QED BY <1>1, <2>1, KindsKept
<1>3. /\ handler[w] \in TakeHandlers /\ c \in Copies /\ Rest(w) \in Seq(Copies)
      /\ ToSet(handler[w].todo) = {c} \cup ToSet(Rest(w))
      /\ \A d \in ToSet(handler[w].todo) : d.u = handler[w].u /\ d.from \in handler[w].from
      /\ \A d \in ToSet(handler[w].todo) : There(d.f) /\ d.dir \in Paths(d.u)
  BY <1>1, At_Take DEF InsertCopy, State, Ready, TakeReady
<1>4. entries' = entries \cup {e0} /\ UNCHANGED <<rows, disk>> /\ e0.f = c.f /\ e0.dir = c.dir /\ e0.u = c.u
  BY DEF InsertCopy, Entry
<1>5. \A e \in entries' \ entries : There(e.f)' /\ e.dir \in Paths(e.u)
  <2>1. \A e \in entries' \ entries : e.f = c.f /\ e.dir = c.dir /\ e.u = c.u
    BY <1>4
  <2>2. There(c.f) /\ c.dir \in Paths(c.u)
    BY <1>3
  <2>3. \A f : There(f) => There(f)'
    BY <1>4 DEF There
  <2> QED BY <2>1, <2>2, <2>3
<1>6. /\ (NoDeletes \/ NoAdditions)' /\ Present' /\ Gone' /\ Leftover' /\ Reachable'
      /\ \A u : Paths(u) \subseteq Paths(u)'
  <2> HIDE DEF e0
  <2> QED BY <1>2, <1>4, <1>5, Grows
<1>7. \A d \in ToSet(handler[w].todo) : There(d.f)' /\ d.dir \in Paths(d.u)'
  BY <1>3, <1>4, <1>6 DEF There
<1>8. ~ Adds(w)' /\ (Takes(w)' => TakeReady(handler[w])')
  <2>1. CASE Proceeds(w, Rest(w))
    <3>1. handler'[w] = IF Rest(w) = <<>> THEN Idle ELSE [handler[w] EXCEPT !.todo = Rest(w), !.pc = "insert"]
      BY <1>1, <1>3, <2>1, TakeProceeds
    <3>2. CASE Rest(w) = <<>>
      BY <3>1, <3>2, IdleFacts DEF Adds, Takes
    <3>3. CASE Rest(w) # <<>>
      <4>1. handler'[w].todo = Rest(w) /\ handler'[w].pc = "insert" /\ handler'[w].op = "take"
        BY <1>3, <3>1, <3>3 DEF TakeHandlers
      <4> QED BY <1>3, <1>7, <4>1 DEF TakeReady, Adds
    <3> QED BY <3>2, <3>3
  <2>2. CASE Goes(w, "children")
    <3>1. handler' = [handler EXCEPT ![w] = [handler[w] EXCEPT !.pc = "children"]]
      BY <1>1, <2>2, GoneTo
    <3>2. handler'[w].todo = handler[w].todo /\ handler'[w].op = "take"
      BY <1>1, <1>3, <3>1 DEF TakeHandlers, HandlersFit
    <3>3. e0 \in entries'
      BY <1>4
    <3> QED BY <1>7, <3>2, <3>3 DEF TakeReady, Adds, Item
  <2> QED BY <2>1, <2>2 DEF InsertCopy
<1>9. Ready'
  BY <1>1, <1>4, <1>6, <1>8, StaysReady
<1> QED BY <1>6, <1>9 DEF State

\* What the sharer has in a folder is selected: it goes into the folder just inserted.
LEMMA CopiesKeepState ==
  ASSUME Typed, State, NEW w \in Workers, CopyChildren(w)
  PROVE  State'
<1> DEFINE c == Item(w)
           fromdir == Append(c.fromdir, c.f.name)
           cs == {Copy(c.u, Inside(c), c.from, e) : e \in In(c.from, fromdir)}
           todo == SetToSeq(cs) \o Rest(w)
<1>1. HandlersFit /\ Takes(w) /\ Keeps(w) /\ handler' = [handler EXCEPT ![w] = handler'[w]] /\ At(w, "children")
  BY CopyChildrenBegins, ShareKeeps DEF Typed, Keeps, ShareStep, CopyChildren
<1>2. NoDeletes /\ NoDeletes'
  <2>1. NoDeletes
    BY <1>1 DEF State, NoAdditions
  <2> QED BY <1>1, <2>1, KindsKept
<1>3. /\ handler[w] \in TakeHandlers /\ IsFolder(c.f) /\ ToSet(handler[w].todo) = {c} \cup ToSet(Rest(w))
      /\ \A d \in ToSet(handler[w].todo) : There(d.f) /\ d.dir \in Paths(d.u)
      /\ Entry(c.u, c.dir, c.f) \in entries
  BY <1>1, At_Take DEF State, Ready, TakeReady, At, Item
<1>4. UNCHANGED <<entries, rows, disk>>
  BY DEF CopyChildren
<1>5. /\ (NoDeletes \/ NoAdditions)' /\ Present' /\ Gone' /\ Leftover' /\ Reachable'
      /\ \A u : Paths(u) \subseteq Paths(u)'
  BY <1>2, <1>4, Grows
<1>6. /\ todo \in Seq(Copies) /\ Proceeds(w, todo) /\ ToSet(todo) = cs \cup ToSet(Rest(w))
      /\ \A d \in ToSet(todo) : d.u = handler[w].u /\ d.from \in handler[w].from
  BY CopyChildrenBegins
<1>7. \A d \in ToSet(todo) : There(d.f)' /\ d.dir \in Paths(d.u)'
  <2>1. ASSUME NEW e \in In(c.from, fromdir)
        PROVE  LET d == Copy(c.u, Inside(c), c.from, e) IN There(d.f) /\ d.dir \in Paths(d.u)
    <3>1. There(e.f)
      BY DEF In, Visible, State, Present
    <3>2. Inside(c) \in Paths(c.u)
      <4>1. LET e0 == Entry(c.u, c.dir, c.f) IN e0.u = c.u /\ e0.f = c.f /\ Inside(e0) = Inside(c)
        BY DEF Entry, Inside
      <4> QED BY <1>3, <4>1, AllSeen DEF State
    <3> QED BY <3>1, <3>2 DEF Copy
  <2>2. \A d \in cs : There(d.f) /\ d.dir \in Paths(d.u)
    BY <2>1
  <2> HIDE DEF cs
  <2>3. \A d \in ToSet(todo) : There(d.f) /\ d.dir \in Paths(d.u)
    BY <1>3, <1>6, <2>2
  <2> HIDE DEF todo
  <2> QED BY <1>4, <1>5, <2>3 DEF There
<1> HIDE DEF todo
<1>8. ~ Adds(w)' /\ (Takes(w)' => TakeReady(handler[w])')
  <2>1. handler'[w] = IF todo = <<>> THEN Idle ELSE [handler[w] EXCEPT !.todo = todo, !.pc = "insert"]
    BY <1>1, <1>6, TakeProceeds
  <2>2. CASE todo = <<>>
    BY <2>1, <2>2, IdleFacts DEF Adds, Takes
  <2>3. CASE todo # <<>>
    <3>1. handler'[w].todo = todo /\ handler'[w].pc = "insert" /\ handler'[w].op = "take"
      BY <1>3, <2>1, <2>3 DEF TakeHandlers
    <3> QED BY <1>7, <3>1 DEF TakeReady, Adds
  <2> QED BY <2>2, <2>3
<1>9. Ready'
  BY <1>1, <1>4, <1>5, <1>8, StaysReady
<1> QED BY <1>5, <1>9 DEF State

\* A step of a handler that does not delete, and that leaves the tree alone.
LEMMA OthersKeepState ==
  ASSUME State, HandlersFit, NEW w \in Workers, handler' = [handler EXCEPT ![w] = handler'[w]],
         UNCHANGED <<entries, rows, disk>>, ~ Deletes(w), (NoDeletes \/ NoAdditions)',
         Deletes(w)' => GoneAt(w)', Adds(w)' => AddReady(handler[w])', Takes(w)' => TakeReady(handler[w])'
  PROVE  State'
<1>1. \A v \in Workers \ {w} : handler'[v] = handler[v]
  BY OthersSame
<1>3. Present' /\ (\A u : Paths(u)' = Paths(u)) /\ \A f : There(f)' = There(f)
  BY DEF State, Present, There, Paths, Visible
<1>4. Ready'
  BY <1>3, StaysReady
<1>5. Gone'
  <2>1. ASSUME NEW v \in Workers \ {w}, Deletes(v)' PROVE GoneAt(v)'
    <3>1. handler'[v] = handler[v] /\ Deletes(v)
      BY <1>1, <2>1 DEF Deletes
    <3>2. GoneAt(v)
      BY <3>1 DEF State, Gone
    <3> QED BY <3>1, <3>2 DEF GoneAt, Item, Referenced
  <2> QED BY <2>1 DEF Gone
<1>6. Leftover'
  <2>1. \A f : \A v \in Workers : (RowGoes(v, f) => RowGoes(v, f)') /\ (BytesGo(v, f) => BytesGo(v, f)')
    BY <1>1 DEF RowGoes, BytesGo, Deletes, Item
  <2>2. \A f : Referenced(f)' = Referenced(f)
    BY DEF Referenced
  <2> QED BY <2>1, <2>2 DEF State, Leftover
<1>7. Reachable'
  <2>1. \A e : \A v \in Workers : Visits(v, e) => Visits(v, e)'
    BY <1>1 DEF Visits, Deletes, Item
  <2> QED BY <1>3, <2>1 DEF State, Reachable
<1> QED BY <1>3, <1>4, <1>5, <1>6, <1>7 DEF State

\* The steps of a share and of a take-over keep the state.
LEMMA ShareKeepsState ==
  ASSUME Typed, State, NEW w \in Workers, ShareStep(w)
  PROVE  State'
<1>1. CASE ShareItem(w)
  <2>1. HandlersFit /\ Shares(w) /\ Keeps(w) /\ UNCHANGED <<entries, rows, disk>>
    BY <1>1, ShareKeeps DEF Typed, ShareItem
  <2>2. handler'[w] = Idle \/ handler'[w].op = "share"
    BY <2>1 DEF Keeps, Shares
  <2>3. ~ Deletes(w) /\ ~ Deletes(w)' /\ ~ Adds(w)' /\ ~ Takes(w)'
    BY <2>1, <2>2, IdleFacts DEF Shares, Deletes, Adds, Takes
  <2>4. (NoDeletes \/ NoAdditions)'
    BY <2>1, KindsKept DEF State
  <2> QED BY <2>1, <2>3, <2>4, OthersKeepState DEF Keeps
<1> QED BY <1>1, InsertKeepsState, CopiesKeepState DEF ShareStep
-------------------------------------------------------------------------------
(* A request begins: without Overlap, a deletion only when nobody adds, and  *)
(* an addition only when nobody deletes.                                    *)
LEMMA BeginKeepsState ==
  ASSUME Typed, State, ~ Overlap, NEW u, NEW h, BeginsWith(u, h), h.op = "delete" => h.pc = "item",
         h.op = "add" => AddReady(h), h.op = "take" => TakeReady(h)
  PROVE  State'
<1>1. PICK w \in Workers : handler[w] = Idle /\ handler' = [handler EXCEPT ![w] = h]
  BY DEF BeginsWith
<1>2. /\ HandlersFit /\ UNCHANGED <<entries, rows, disk>> /\ handler'[w] = h
      /\ handler' = [handler EXCEPT ![w] = handler'[w]] /\ Apart(h.op, h.u, h.from)
  BY <1>1 DEF BeginsWith, Typed, HandlersFit, Tables
<1>3. \A v \in Workers \ {w} : handler'[v] = handler[v]
  BY <1>2, OthersSame
<1>4. \A v \in Workers : handler[v].op \in {"add", "delete", "take"} /\ h.op # "share" =>
                           (handler[v].op = "delete") = (h.op = "delete")
  <2>1. \A v \in Workers : handler[v].op \in {"add", "delete", "take"} => handler[v] \in Busy
    BY IdleFacts DEF Busy
  <2> QED BY <1>2, <2>1 DEF Apart
<1>5. (NoDeletes \/ NoAdditions)'
  <2>1. CASE h.op = "share"
    BY <1>2, <1>3, <2>1 DEF State, NoDeletes, NoAdditions, Deletes, Adds, Takes
  <2>2. CASE h.op = "delete"
    BY <1>2, <1>3, <1>4, <2>2 DEF NoAdditions, Adds, Takes
  <2>3. CASE h.op \notin {"share", "delete"}
    BY <1>2, <1>3, <1>4, <2>3 DEF NoDeletes, Deletes
  <2> QED BY <2>1, <2>2, <2>3
<1>6. ~ Deletes(w) /\ (Deletes(w)' => GoneAt(w)')
  BY <1>1, <1>2, IdleFacts DEF Deletes, GoneAt
<1>7. (\A v : Paths(v)' = Paths(v)) /\ \A f : There(f)' = There(f)
  BY <1>2 DEF There, Paths, Visible
<1>8. (Adds(w)' => AddReady(handler[w])') /\ (Takes(w)' => TakeReady(handler[w])')
  BY <1>2, <1>7 DEF Adds, Takes, AddReady, TakeReady
<1> QED BY <1>2, <1>5, <1>6, <1>8, OthersKeepState

\* A file is put into a folder.
LEMMA UploadKeepsState ==
  ASSUME Typed, State, ~ Overlap, NEW u \in Users, NEW f \in Files, Upload(u, f)
  PROVE  State'
<1>1. PICK dir \in Paths(u) : entries' = entries \cup {Entry(u, dir, f)}
  BY DEF Upload
<1>2. Apart("add", u, {}) /\ rows' = rows \cup {f} /\ disk' = disk \cup {f} /\ UNCHANGED handler
  BY DEF Upload
<1>3. NoDeletes /\ NoDeletes'
  <2>1. \A v \in Workers : Deletes(v) => handler[v] \in Busy /\ handler[v].op = "delete"
    BY IdleFacts DEF Busy, Deletes
  <2> QED BY <1>2, <2>1 DEF Apart, NoDeletes, Deletes
<1>4. \A e \in entries' \ entries : There(e.f)' /\ e.dir \in Paths(e.u)
  BY <1>1, <1>2 DEF There, Entry
<1>5. \A g \in Files : g \in rows' \ rows \/ g \in disk' \ disk => Referenced(g)'
  <2>1. Entry(u, dir, f) \in entries' /\ Entry(u, dir, f).f = f
    BY <1>1 DEF Entry
  <2>2. Referenced(f)'
    BY <2>1 DEF Referenced
  <2> QED BY <1>2, <2>2
<1>6. /\ (NoDeletes \/ NoAdditions)' /\ Present' /\ Gone' /\ Leftover' /\ Reachable'
      /\ \A v : Paths(v) \subseteq Paths(v)'
  BY <1>1, <1>2, <1>3, <1>4, <1>5, Grows
<1>7. Ready'
  <2>1. \A v \in Workers : Adds(v)' => AddReady(handler[v])'
    BY <1>2, <1>6 DEF State, Ready, Adds, AddReady
  <2>2. \A g : There(g) => There(g)'
    BY <1>2 DEF There
  <2>3. \A v \in Workers : Takes(v)' => TakeReady(handler[v])'
    BY <1>1, <1>2, <1>6, <2>2 DEF State, Ready, Takes, TakeReady
  <2> QED BY <2>1, <2>3 DEF Ready
<1> QED BY <1>6, <1>7 DEF State

\* The five requests keep the state.
LEMMA RequestKeepsState ==
  ASSUME Typed, State, ~ Overlap, NEW u \in Users, Request(u)
  PROVE  State'
<1>1. CASE \E f \in Files : Upload(u, f)
  BY <1>1, UploadKeepsState
<1>2. ASSUME NEW es \in Asked(u), BeginsWith(u, [Idle EXCEPT !.op = "delete", !.pc = "item", !.u = u,
                    !.items = SetToSeq(es), !.goal = UNION {Tree(e) : e \in es}])
      PROVE  State'
  <2> DEFINE h == [Idle EXCEPT !.op = "delete", !.pc = "item", !.u = u,
                    !.items = SetToSeq(es), !.goal = UNION {Tree(e) : e \in es}]
  <2>1. h.op = "delete" /\ h.pc = "item"
    BY DEF Idle
  <2> HIDE DEF h
  <2>2. BeginsWith(u, h)
    BY <1>2 DEF h
  <2> QED BY <2>1, <2>2, BeginKeepsState
<1>3. ASSUME NEW es \in Asked(u), NEW link \in Links,
             BeginsWith(u, [Idle EXCEPT !.op = "share", !.pc = "setlink", !.u = u,
                                        !.todo = SetToSeq(es), !.goal = es \X {link}])
      PROVE  State'
  <2> DEFINE h == [Idle EXCEPT !.op = "share", !.pc = "setlink", !.u = u,
                               !.todo = SetToSeq(es), !.goal = es \X {link}]
  <2>1. h.op = "share"
    BY DEF Idle
  <2> HIDE DEF h
  <2>2. BeginsWith(u, h)
    BY <1>3 DEF h
  <2> QED BY <2>1, <2>2, BeginKeepsState
<1>4. ASSUME NEW dir \in Paths(u), NEW items \in SUBSET entries, items # {}, BeginsWith(u, TakeOver(u, dir, items))
      PROVE  State'
  <2> DEFINE h == TakeOver(u, dir, items)
  <2>1. h.op = "take" /\ h.pc = "insert" /\ ToSet(h.todo) = {Copy(u, dir, e.u, e) : e \in items}
    BY <1>4, TakeOverFits
  <2>2. \A e \in items : There(e.f)
    BY DEF State, Present
  <2>3. BeginsWith(u, h)
    BY <1>4
  <2> HIDE DEF h
  <2>4. TakeReady(h)
    BY <2>1, <2>2 DEF TakeReady, Copy
  <2> QED BY <2>1, <2>3, <2>4, BeginKeepsState
<1>5. ASSUME NEW dir \in Paths(u), NEW name \in Names,
             BeginsWith(u, [Idle EXCEPT !.op = "add", !.pc = "stat", !.u = u,
                                        !.todo = <<Entry(u, dir, Folder(u, dir, name))>>])
      PROVE  State'
  <2> DEFINE e0 == Entry(u, dir, Folder(u, dir, name))
             h == [Idle EXCEPT !.op = "add", !.pc = "stat", !.u = u, !.todo = <<e0>>]
  <2>1. h.op = "add" /\ h.pc = "stat" /\ h.todo = <<e0>>
    BY DEF Idle
  <2>2. Head(h.todo) = e0 /\ e0.dir = dir /\ e0.u = u
    BY <2>1, ListOfOne DEF Entry
  <2>3. BeginsWith(u, h)
    BY <1>5
  <2> HIDE DEF h, e0
  <2>4. AddReady(h)
    BY <2>1, <2>2 DEF AddReady
  <2> QED BY <2>1, <2>3, <2>4, BeginKeepsState
<1> QED BY <1>1, <1>2, <1>3, <1>4, <1>5, RequestBegins

\* Every step keeps the state, when handlers keep away from each other.
LEMMA StateStep ==
  ASSUME Typed, State, ~ Overlap, [Next]_folderVars
  PROVE  State'
<1>1. CASE UNCHANGED folderVars
  <2>1. UNCHANGED <<entries, rows, disk, handler>>
    BY <1>1 DEF folderVars
  <2>2. (\A v : Paths(v)' = Paths(v)) /\ \A f : There(f)' = There(f) /\ Referenced(f)' = Referenced(f)
    BY <2>1 DEF There, Paths, Visible, Referenced
  <2>3. (NoDeletes \/ NoAdditions)' /\ Present' /\ Ready'
    BY <2>1, <2>2 DEF State, NoDeletes, NoAdditions, Present, Ready, AddReady, TakeReady, Adds, Takes, Deletes
  <2>4. Gone'
    BY <2>1, <2>2 DEF State, Gone, GoneAt, Deletes, Item, Referenced
  <2>5. Leftover'
    BY <2>1, <2>2 DEF State, Leftover, RowGoes, BytesGo, Deletes, Item
  <2>6. Reachable'
    BY <2>1, <2>2 DEF State, Reachable, Visits, Deletes, Item
  <2> QED BY <2>3, <2>4, <2>5, <2>6 DEF State
<1> QED BY <1>1, AddKeepsState, DeleteKeepsState, ShareKeepsState, RequestKeepsState DEF Next, WorkerStep

\* The state at the start.
LEMMA StateInit ==
  ASSUME Init
  PROVE  State
<1>1. \A w \in Workers : handler[w] = Idle
  BY DEF Init
<1>2. (NoDeletes \/ NoAdditions) /\ Ready /\ Gone
  BY <1>1, IdleFacts DEF NoDeletes, Ready, Gone, Deletes, Adds, Takes
<1>3. Present /\ Leftover
  BY DEF Init, Present, There, Leftover, Referenced
<1>4. Reachable
  <2>1. ASSUME NEW e \in entries PROVE e.dir \in Paths(e.u)
    <3>1. e.dir = <<>> \/ \E d \in entries : d.u = e.u /\ IsFolder(d.f) /\ Inside(d) = e.dir
      BY FoldersAssumption DEF Init
    <3> QED BY <1>3, <3>1, AllSeen
  <2> QED BY <2>1 DEF Reachable
<1> QED BY <1>2, <1>3, <1>4 DEF State

\* The inductive invariant of the tree.
LEMMA StateAlways == ASSUME ~ Overlap PROVE Spec => []State
<1>1. Init => State
  BY StateInit
<1>2. Typed /\ State /\ [Next]_folderVars => State'
  BY StateStep
<1> QED BY <1>1, <1>2, TypedAlways, PTL DEF Spec

\* When nothing is under way, no handler is anywhere.
LEMMA QuietMeans ==
  ASSUME Quiet
  PROVE  \A w \in Workers : ~ Deletes(w)
  BY IdleFacts DEF Quiet, Busy, Deletes

(* Whatever the users, their trees and the requests they make: when nothing   *)
(* is under way, whatever a user has lies in a folder the user has, as long  *)
(* as deletions keep away from additions: no list of the user misses it, and *)
(* no walk through a tree ends with its recursion half done.                 *)
THEOREM NoneOrphaned == ASSUME ~ Overlap PROVE Spec => []NoOrphans
<1>1. State => NoOrphans
  BY QuietMeans DEF State, Reachable, Visits, NoOrphans
<1> QED BY <1>1, StateAlways, PTL

(* And a file has its row and its bytes exactly as long as somebody has it,  *)
(* also when trees that share files are deleted at the same time: the look   *)
(* for others (clogic.cpp 1100) loses no file and leaves none behind.        *)
THEOREM FilesKeptWhileReferenced == ASSUME ~ Overlap PROVE Spec => []FilesMatchEntries
<1>1. State => FilesMatchEntries
  <2> SUFFICES ASSUME State, Quiet, NEW f \in Files
               PROVE  Referenced(f) = (f \in rows) /\ Referenced(f) = (f \in disk)
    BY DEF FilesMatchEntries
  <2>1. Referenced(f) => f \in rows /\ f \in disk
    BY DEF State, Present, There, Referenced
  <2>2. ~ Referenced(f) => f \notin rows /\ f \notin disk
    BY QuietMeans DEF State, Leftover, RowGoes, BytesGo
  <2>3. Referenced(f) \in BOOLEAN
    BY DEF Referenced
  <2> QED BY <2>1, <2>2, <2>3
<1> QED BY <1>1, StateAlways, PTL
-------------------------------------------------------------------------------
(* A number that is being given to relations is not another user's already:  *)
(* it was in nobody's use when it was drawn, and while nobody else has drawn *)
(* it, it stays so.                                                          *)
NumberIsOwn(w) == \A g \in handler[w].goal : \A k \in links : k[2] = g[2] => k[1].u = handler[w].u

LinkState == LinkIsOneUsers /\ \A w \in Workers : Shares(w) => NumberIsOwn(w)

\* A step that gives no link, and of no new share.
LEMMA NoNewLink ==
  ASSUME LinkState, links' \subseteq links,
         \A w \in Workers : Shares(w)' => /\ Shares(w) /\ handler'[w].goal = handler[w].goal
                                          /\ handler'[w].u = handler[w].u
  PROVE  LinkState'
<1>1. LinkIsOneUsers'
  BY DEF LinkState, LinkIsOneUsers
<1>2. ASSUME NEW w \in Workers, Shares(w)' PROVE NumberIsOwn(w)'
  BY <1>2 DEF LinkState, NumberIsOwn
<1> QED BY <1>1, <1>2 DEF LinkState

\* The steps of a handler give no link, but one that sets one.
LEMMA HandlerKeepsLinks ==
  ASSUME Typed, LinkState, NEW w \in Workers, Keeps(w), links' \subseteq links
  PROVE  LinkState'
<1>1. \A v \in Workers : handler'[v] = handler[v] \/ (v = w /\ Keeps(w))
  BY OthersSame DEF Typed, Keeps
<1>2. \A v \in Workers : Shares(v)' => /\ Shares(v) /\ handler'[v].goal = handler[v].goal
                                       /\ handler'[v].u = handler[v].u
  BY <1>1, IdleFacts DEF Keeps, Shares
<1> QED BY <1>2, NoNewLink

\* A relation is given its link.
LEMMA ItemKeepsLinks ==
  ASSUME Typed, LinkState, DrawnApart, NEW w \in Workers, ShareItem(w)
  PROVE  LinkState'
<1>1. /\ Shares(w) /\ Keeps(w) /\ HandlersFit /\ ShareFits(handler[w]) /\ NumberIsOwn(w)
      /\ handler[w].goal \subseteq Relations \X Links
  BY ShareKeeps, At_Share DEF ShareStep, Typed, ShareItem, LinkState, ShareHandlers
<1>2. \A l \in links' : l \in links \/ l \in handler[w].goal
  BY DEF ShareItem
<1>3. ASSUME NEW k \in links', NEW l \in links', k[2] = l[2] PROVE k[1].u = l[1].u
  <2>1. CASE k \in links /\ l \in links
    BY <1>3, <2>1 DEF LinkState, LinkIsOneUsers
  <2>2. CASE k \in handler[w].goal \/ l \in handler[w].goal
    BY <1>1, <1>2, <1>3, <2>2 DEF NumberIsOwn, ShareFits
  <2> QED BY <1>2, <2>1, <2>2
<1>4. /\ \A v \in Workers \ {w} : handler'[v] = handler[v]
      /\ handler'[w] = Idle \/ (handler'[w].u = handler[w].u /\ handler'[w].goal = handler[w].goal)
  BY <1>1, OthersSame DEF Keeps
<1>5. ASSUME NEW v \in Workers, Shares(v)' PROVE NumberIsOwn(v)'
  <2>1. Shares(v) /\ handler'[v].u = handler[v].u /\ handler'[v].goal = handler[v].goal
    BY <1>1, <1>4, <1>5, IdleFacts DEF Shares
  <2>2. ASSUME NEW g \in handler'[v].goal, NEW k \in links', k[2] = g[2] PROVE k[1].u = handler'[v].u
    <3>1. CASE k \in links
      BY <2>1, <2>2, <3>1 DEF LinkState, NumberIsOwn
    <3>2. CASE k \in handler[w].goal
      <4>1. handler[v].u = handler[w].u
        BY <1>1, <2>1, <2>2, <3>2 DEF DrawnApart
      <4> QED BY <1>1, <2>1, <3>2, <4>1 DEF ShareFits
    <3> QED BY <1>2, <2>2, <3>1, <3>2
  <2> QED BY <2>2 DEF NumberIsOwn
<1> QED BY <1>3, <1>5 DEF LinkState, LinkIsOneUsers

\* A share begins, with a number no relation has.
LEMMA ShareBeginsKeepsLinks ==
  ASSUME Typed, LinkState, NEW u, NEW h, BeginsWith(u, h), NEW es, NEW link, h.goal = es \X {link},
         ~ InUse(link)
  PROVE  LinkState'
<1>1. PICK w \in Workers : handler[w] = Idle /\ handler' = [handler EXCEPT ![w] = h]
  BY DEF BeginsWith
<1>2. UNCHANGED links /\ handler'[w] = h /\ \A v \in Workers \ {w} : handler'[v] = handler[v]
  BY <1>1 DEF BeginsWith, Typed, HandlersFit, Tables
<1>3. \A g \in h.goal : g[2] = link
  OBVIOUS
<1>4. \A k \in links : k[2] # link
  BY DEF InUse
<1>5. ASSUME NEW v \in Workers, Shares(v)' PROVE NumberIsOwn(v)'
  <2>1. CASE v = w
    BY <1>2, <1>3, <1>4, <2>1 DEF NumberIsOwn
  <2>2. CASE v # w
    BY <1>2, <1>5, <2>2 DEF Shares, LinkState, NumberIsOwn
  <2> QED BY <2>1, <2>2
<1> QED BY <1>2, <1>5 DEF LinkState, LinkIsOneUsers

\* Another request begins.
LEMMA OtherBeginsKeepsLinks ==
  ASSUME Typed, LinkState, NEW u, NEW h, BeginsWith(u, h), h.op # "share"
  PROVE  LinkState'
<1>1. PICK w \in Workers : handler[w] = Idle /\ handler' = [handler EXCEPT ![w] = h]
  BY DEF BeginsWith
<1>2. UNCHANGED links /\ handler'[w] = h /\ \A v \in Workers \ {w} : handler'[v] = handler[v]
  BY <1>1 DEF BeginsWith, Typed, HandlersFit, Tables
<1> QED BY <1>2, NoNewLink DEF Shares

\* Every step keeps the links apart, while the numbers drawn are apart.
LEMMA LinkStep ==
  ASSUME Typed, LinkState, DrawnApart, [Next]_folderVars
  PROVE  LinkState'
<1>1. CASE UNCHANGED folderVars
  BY <1>1, NoNewLink DEF folderVars, Shares
<1>2. ASSUME NEW w \in Workers, AddStep(w) PROVE LinkState'
  <2>1. Keeps(w) /\ links' = links
    BY <1>2, AddKeeps DEF Typed, AddStep, Stat, MakeDir, InsertFolderRow, SelectFolder, RelateFolder
  <2> QED BY <2>1, HandlerKeepsLinks
<1>3. ASSUME NEW w \in Workers, DeleteStep(w) PROVE LinkState'
  <2>1. Keeps(w)
    BY <1>3, DeleteKeeps
  <2>2. links' \subseteq links
    BY <1>3 DEF DeleteStep, DeleteOneItem, DeleteFolderRelation, DeleteChildren, DeleteFileRelation,
                LookForOthers, DeleteRow, Unlink, WithoutEntry
  <2> QED BY <2>1, <2>2, HandlerKeepsLinks
<1>4. ASSUME NEW w \in Workers, ShareStep(w) PROVE LinkState'
  <2>1. CASE ShareItem(w)
    BY <2>1, ItemKeepsLinks
  <2>2. CASE InsertCopy(w) \/ CopyChildren(w)
    <3>1. Keeps(w) /\ links' = links
      BY <1>4, <2>2, ShareKeeps DEF InsertCopy, CopyChildren
    <3> QED BY <3>1, HandlerKeepsLinks
  <2> QED BY <1>4, <2>1, <2>2 DEF ShareStep
<1>5. ASSUME NEW u \in Users, Request(u) PROVE LinkState'
  <2>1. CASE \E f \in Files : Upload(u, f)
    <3>1. UNCHANGED <<links, handler>>
      BY <2>1 DEF Upload
    <3> QED BY <3>1, NoNewLink DEF Shares
  <2>2. ASSUME NEW es \in Asked(u), NEW link \in Links, ~ InUse(link),
               BeginsWith(u, [Idle EXCEPT !.op = "share", !.pc = "setlink", !.u = u,
                                          !.todo = SetToSeq(es), !.goal = es \X {link}])
        PROVE  LinkState'
    <3> DEFINE h == [Idle EXCEPT !.op = "share", !.pc = "setlink", !.u = u,
                                 !.todo = SetToSeq(es), !.goal = es \X {link}]
    <3>1. h.goal = es \X {link} /\ BeginsWith(u, h)
      BY <2>2 DEF Idle
    <3> HIDE DEF h
    <3> QED BY <2>2, <3>1, ShareBeginsKeepsLinks
  <2>3. ASSUME NEW es \in Asked(u), BeginsWith(u, [Idle EXCEPT !.op = "delete", !.pc = "item", !.u = u,
                      !.items = SetToSeq(es), !.goal = UNION {Tree(e) : e \in es}])
        PROVE  LinkState'
    <3> DEFINE h == [Idle EXCEPT !.op = "delete", !.pc = "item", !.u = u,
                      !.items = SetToSeq(es), !.goal = UNION {Tree(e) : e \in es}]
    <3>1. h.op # "share" /\ BeginsWith(u, h)
      BY <2>3 DEF Idle
    <3> HIDE DEF h
    <3> QED BY <3>1, OtherBeginsKeepsLinks
  <2>4. ASSUME NEW dir \in Paths(u), NEW items \in SUBSET entries, BeginsWith(u, TakeOver(u, dir, items))
        PROVE  LinkState'
    <3>1. TakeOver(u, dir, items).op # "share"
      BY DEF TakeOver, Idle
    <3> QED BY <2>4, <3>1, OtherBeginsKeepsLinks
  <2>5. ASSUME NEW dir \in Paths(u), NEW name \in Names,
               BeginsWith(u, [Idle EXCEPT !.op = "add", !.pc = "stat", !.u = u,
                                          !.todo = <<Entry(u, dir, Folder(u, dir, name))>>])
        PROVE  LinkState'
    <3> DEFINE h == [Idle EXCEPT !.op = "add", !.pc = "stat", !.u = u,
                                 !.todo = <<Entry(u, dir, Folder(u, dir, name))>>]
    <3>1. h.op # "share" /\ BeginsWith(u, h)
      BY <2>5 DEF Idle
    <3> HIDE DEF h
    <3> QED BY <3>1, OtherBeginsKeepsLinks
  <2> QED BY <1>5, <2>1, <2>2, <2>3, <2>4, <2>5, RequestBegins
<1> QED BY <1>1, <1>2, <1>3, <1>4, <1>5 DEF Next, WorkerStep

(* Only the race between the look for a number (clogic.cpp 636) and its use   *)
(* gives two users one link: unless shares of two users under way at the     *)
(* same time have drawn the same number, a link shows the items of one user, *)
(* however handlers overlap.                                                 *)
THEOREM LinksOfOneUser == Spec => OneUsersUnlessDrawnTwice
<1>1. Init => LinkState
  <2> SUFFICES ASSUME Init PROVE LinkState
    OBVIOUS
  <2>1. \A w \in Workers : ~ Shares(w)
    BY IdleFacts DEF Init, Shares
  <2> QED BY <2>1, FoldersAssumption DEF Init, LinkState, LinkIsOneUsers
<1>2. Typed /\ LinkState /\ DrawnApart /\ [Next]_folderVars => LinkState'
  BY LinkStep
<1>3. LinkState => LinkIsOneUsers
  BY DEF LinkState
<1> QED BY <1>1, <1>2, <1>3, TypedAlways, PTL DEF Spec, OneUsersUnlessDrawnTwice
-------------------------------------------------------------------------------
\* A prefix, name by name.
LEMMA PrefixByNames ==
  ASSUME NEW s \in Seq(Names), NEW t \in Seq(Names)
  PROVE  IsPrefix(s, t) <=> Len(s) <= Len(t) /\ \A i \in 1..Len(s) : s[i] = t[i]
<1>1. Len(s) \in Nat /\ Len(t) \in Nat
  BY LenProperties
<1>2. SubSeq(s, 1, Len(s)) = s
  BY SubSeqFull
<1>3. CASE Len(s) <= Len(t)
  <2>1. \A i \in 1..Len(s) : t[i] \in Names
    BY <1>1, <1>3, ElementOfSeq
  <2>2. /\ SubSeq(t, 1, Len(s)) \in Seq(Names) /\ Len(SubSeq(t, 1, Len(s))) = Len(s)
        /\ \A i \in 1..Len(s) : SubSeq(t, 1, Len(s))[i] = t[i]
    <3>1. /\ SubSeq(t, 1, Len(s)) \in Seq(Names)
          /\ Len(SubSeq(t, 1, Len(s))) = IF 1 <= Len(s) THEN Len(s) - 1 + 1 ELSE 0
          /\ \A i \in 1..(Len(s) - 1 + 1) : SubSeq(t, 1, Len(s))[i] = t[1 + i - 1]
      BY <1>1, <2>1, SubSeqProperties
    <3> QED BY <1>1, <3>1
  <2>3. (\A i \in 1..Len(s) : s[i] = t[i]) => s = SubSeq(t, 1, Len(s))
    <3> SUFFICES ASSUME \A i \in 1..Len(s) : s[i] = t[i] PROVE s = SubSeq(t, 1, Len(s))
      OBVIOUS
    <3>1. \A i \in 1..Len(s) : s[i] = SubSeq(t, 1, Len(s))[i]
      BY <2>2
    <3> QED BY <2>2, <3>1, SeqEqual
  <2> QED BY <1>2, <1>3, <2>2, <2>3 DEF IsPrefix
<1> QED BY <1>3 DEF IsPrefix

\* A path is its own prefix, and the only one of its length.
LEMMA PrefixOfItself ==
  ASSUME NEW s \in Seq(Names), NEW t \in Seq(Names)
  PROVE  IsPrefix(s, s) /\ (IsPrefix(s, t) /\ s # t => Len(s) < Len(t))
<1>1. Len(s) \in Nat /\ Len(t) \in Nat
  BY LenProperties
<1> QED BY <1>1, PrefixByNames, SeqEqual

\* What is below a folder is below the directory the folder is in.
LEMMA BelowFolder ==
  ASSUME NEW e, e.dir \in Seq(Names), e.f \in FolderIds, NEW t \in Seq(Names), IsPrefix(Inside(e), t)
  PROVE  IsPrefix(e.dir, t) /\ Len(e.dir) < Len(t) /\ t[Len(e.dir) + 1] = e.f.name
<1>1. Len(e.dir) \in Nat /\ Len(t) \in Nat
  BY LenProperties
<1>2. /\ Inside(e) \in Seq(Names) /\ Len(Inside(e)) = Len(e.dir) + 1 /\ Inside(e)[Len(e.dir) + 1] = e.f.name
      /\ \A i \in 1..Len(e.dir) : Inside(e)[i] = e.dir[i]
  BY InsideIsPath
<1>3. Len(e.dir) + 1 <= Len(t) /\ \A i \in 1..(Len(e.dir) + 1) : Inside(e)[i] = t[i]
  BY <1>2, PrefixByNames
<1>4. \A i \in 1..Len(e.dir) : e.dir[i] = t[i]
  BY <1>1, <1>2, <1>3
<1>5. t[Len(e.dir) + 1] = e.f.name
  BY <1>1, <1>2, <1>3
<1> QED BY <1>1, <1>3, <1>4, <1>5, PrefixByNames

\* A folder on the way: what is above the path of a folder, and is not that path, is above the folder.
LEMMA FolderOnTheWay ==
  ASSUME NEW e, e.dir \in Seq(Names), e.f \in FolderIds, NEW s \in Seq(Names), IsPrefix(s, Inside(e)), s # Inside(e)
  PROVE  IsPrefix(s, e.dir) /\ Len(e.dir) < Len(Inside(e))
<1>1. Len(e.dir) \in Nat /\ Len(s) \in Nat
  BY LenProperties
<1>2. /\ Inside(e) \in Seq(Names) /\ Len(Inside(e)) = Len(e.dir) + 1
      /\ \A i \in 1..Len(e.dir) : Inside(e)[i] = e.dir[i]
  BY InsideIsPath
<1>3. Len(s) < Len(Inside(e)) /\ \A i \in 1..Len(s) : s[i] = Inside(e)[i]
  BY <1>2, PrefixOfItself, PrefixByNames
<1>4. Len(s) <= Len(e.dir) /\ \A i \in 1..Len(s) : s[i] = e.dir[i]
  BY <1>1, <1>2, <1>3
<1> QED BY <1>1, <1>2, <1>4, PrefixByNames

\* Where a copy goes: below the copied folder as the original is below the original folder (lines 1152-1185).
LEMMA CopyPath ==
  ASSUME NEW s \in Seq(Names), NEW name \in Names, NEW p \in Seq(Names), NEW k \in Nat, k < Len(p), p[k + 1] = name
  PROVE  Append(s, name) \o SubSeq(p, k + 2, Len(p)) = s \o SubSeq(p, k + 1, Len(p))
<1>1. Len(p) \in Nat
  BY LenProperties
<1>2. k + 1 \in 1..Len(p) /\ Len(p) \in k+1..Len(p) /\ k + 1 + 1 = k + 2
  BY <1>1
<1>3. SubSeq(p, k + 1, Len(p)) = <<name>> \o SubSeq(p, k + 2, Len(p))
  BY <1>2, SubSeqRecursiveFirst
<1>4. SubSeq(p, k + 2, Len(p)) \in Seq(Names)
  <2>1. \A i \in k+2..Len(p) : p[i] \in Names
    BY <1>1, ElementOfSeq
  <2> QED BY <1>1, <2>1, SubSeqProperties
<1>5. <<name>> \in Seq(Names) /\ Append(s, name) = s \o <<name>>
  BY AppendIsConcat, ListOfOne
<1>6. (s \o <<name>>) \o SubSeq(p, k + 2, Len(p)) = s \o (<<name>> \o SubSeq(p, k + 2, Len(p)))
  <2>1. \A one \in Seq(Names), two \in Seq(Names) : (s \o one) \o two = s \o (one \o two)
    BY SMTT(60)
  <2> QED BY <1>4, <1>5, <2>1, Zenon
<1> QED BY <1>3, <1>5, <1>6, Zenon

\* The copy of the folder itself goes where the folder is to go.
LEMMA CopyOfItself ==
  ASSUME NEW s \in Seq(Names), NEW t \in Seq(Names)
  PROVE  s \o SubSeq(t, Len(t) + 1, Len(t)) = s
<1>1. Len(t) \in Nat
  BY LenProperties
<1>2. SubSeq(t, Len(t) + 1, Len(t)) = <<>>
  BY <1>1, SubSeqEmpty
<1> QED BY <1>2, ConcatEmptySeq

\* Of some entries there is one that is nobody's below in the tree: its path is a shortest.
LEMMA OneOfShortestPath ==
  ASSUME NEW S, S # {}, \A e \in S : e.dir \in Seq(Names)
  PROVE  \E e \in S : \A d \in S : Len(e.dir) <= Len(d.dir)
<1> DEFINE L == {Len(e.dir) : e \in S}
           R == {p \in Nat \X Nat : p[1] < p[2]}
<1>1. IsWellFoundedOn(R, Nat)
  BY NatLessThanWellFounded, Zenon DEF OpToRel
<1>2. \A m, n \in Nat : m < n => <<m, n>> \in R
  OBVIOUS
<1>3. L \subseteq Nat /\ L # {}
  <2>1. \A e \in S : Len(e.dir) \in Nat
    BY LenProperties
  <2> QED BY <2>1
<1> HIDE DEF R
<1>4. PICK n \in L : \A m \in L : ~ (<<m, n>> \in R)
  BY <1>1, <1>3, WFMin
<1>5. \A m \in L : n <= m
  <2> HIDE DEF L
  <2> SUFFICES ASSUME NEW m \in L PROVE n <= m
    OBVIOUS
  <2>1. m \in Nat /\ n \in Nat /\ ~ (m < n)
    BY <1>2, <1>3, <1>4
  <2> QED BY <2>1
<1> QED BY <1>4, <1>5
-------------------------------------------------------------------------------
\* An entry is another, or is below it.
Under(d, x) == d = x \/ (IsFolder(x.f) /\ IsPrefix(Inside(x), d.dir))

(* What is below a folder of a user is in the folder, or below something that*)
(* is; but on the way there may be a folder whose relation is just deleted:  *)
(* then a deletion is to come to what is below it.                          *)
LEMMA WayDown ==
  ASSUME Typed, Present, Reachable, NEW x, x.dir \in Seq(Names), x.f \in FolderIds,
         NEW d \in entries, d.u = x.u, IsPrefix(Inside(x), d.dir)
  PROVE  \E z \in entries : /\ z.u = x.u /\ Under(d, z) /\ IsPrefix(Inside(x), z.dir)
                            /\ z.dir = Inside(x) \/ \E v \in Workers : Visits(v, z)
<1> DEFINE S == {z \in entries : z.u = x.u /\ Under(d, z) /\ IsPrefix(Inside(x), z.dir)}
<1>1. \A e \in entries : e \in Relations /\ e.dir \in Seq(Names) /\ (IsFolder(e.f) <=> e.f \in FolderIds)
  BY FolderOrFile DEF Typed
<1>2. Inside(x) \in Seq(Names) /\ Len(Inside(x)) = Len(x.dir) + 1 /\ Len(x.dir) \in Nat
  BY InsideIsPath
<1>3. d \in S
  BY DEF Under
<1>4. PICK z \in S : \A y \in S : Len(z.dir) <= Len(y.dir)
  <2>1. \A e \in S : e.dir \in Seq(Names)
    BY <1>1
  <2> HIDE DEF S
  <2> QED BY <1>3, <2>1, OneOfShortestPath
<1>5. CASE z.dir = Inside(x) \/ \E v \in Workers : Visits(v, z)
  BY <1>4, <1>5
<1>6. CASE z.dir # Inside(x) /\ ~ \E v \in Workers : Visits(v, z)
  <2>1. z \in entries /\ z.u = x.u /\ Under(d, z) /\ IsPrefix(Inside(x), z.dir) /\ z.dir \in Seq(Names) /\ d.dir \in Seq(Names)
    BY <1>1, <1>4
  <2>2. z.dir # <<>>
    <3>1. Len(Inside(x)) <= Len(z.dir)
      BY <2>1 DEF IsPrefix
    <3>2. Len(<<>>) = 0
      OBVIOUS
    <3> QED BY <1>2, <3>1, <3>2
  <2>3. z.dir \in Paths(z.u)
    BY <1>6, <2>1 DEF Reachable
  <2>4. PICK y \in entries : y.u = z.u /\ IsFolder(y.f) /\ Inside(y) = z.dir
    BY <2>2, <2>3, AllSeen
  <2>5. IsPrefix(Inside(x), y.dir) /\ Len(y.dir) < Len(z.dir) /\ Len(y.dir) \in Nat /\ Len(z.dir) \in Nat
    <3>1. y.dir \in Seq(Names) /\ y.f \in FolderIds
      BY <1>1, <2>4
    <3> QED BY <1>2, <1>6, <2>1, <2>4, <3>1, FolderOnTheWay, LenProperties
  <2>6. Under(d, y)
    <3>1. CASE d = z
      BY <2>1, <2>4, <3>1, PrefixOfItself DEF Under
    <3>2. CASE IsFolder(z.f) /\ IsPrefix(Inside(z), d.dir)
      <4>1. IsPrefix(z.dir, d.dir)
        BY <1>1, <2>1, <3>2, BelowFolder
      <4> QED BY <2>4, <4>1 DEF Under
    <3> QED BY <2>1, <3>1, <3>2 DEF Under
  <2>7. y \in S
    BY <2>1, <2>4, <2>5, <2>6
  <2> HIDE DEF S
  <2> QED BY <1>4, <2>5, <2>7
<1> QED BY <1>5, <1>6
-------------------------------------------------------------------------------
(* What a deletion has still to come to: its list, and the items requested,  *)
(* those of them that are there.                                            *)
Pending(v) == ToSet(handler[v].todo) \cup (ToSet(handler[v].items) \cap entries)

\* A deletion of the user is to come to an entry, or to one that it is below.
CoveredBy(u, d) == \E v \in Workers : Deletes(v) /\ handler[v].u = u /\ \E x \in Pending(v) : Under(d, x)

(* Of the trees a request is to delete, what is still there some deletion of *)
(* the user is to come to: another one, when that one selected it first.    *)
Covered == \A w \in Workers : Deletes(w) =>
             \A d \in handler[w].goal : d.u = handler[w].u /\ (d \in entries => CoveredBy(handler[w].u, d))

\* An entry a deletion has in its list after a step.
LEMMA HasInList ==
  ASSUME NEW w \in Workers, NEW u, Deletes(w)', handler'[w].u = u, NEW d, NEW x, Under(d, x),
         x \in ToSet(handler'[w].todo) \/ (x \in ToSet(handler'[w].items) /\ x \in entries')
  PROVE  CoveredBy(u, d)'
  BY DEF CoveredBy, Pending, Under

(* A step of one deletion, when the others keep what they have selected: what*)
(* was covered by this one is covered still.                                *)
LEMMA StaysCovered ==
  ASSUME HandlersFit, NEW w \in Workers, Deletes(w), Keeps(w), NEW u, u = handler[w].u, NEW d, CoveredBy(u, d),
         \A e \in entries \ entries' : Deletes(w)' /\ e \in ToSet(handler'[w].todo),
         \A x \in Pending(w) : Under(d, x) => CoveredBy(u, d)'
  PROVE  CoveredBy(u, d)'
<1>1. PICK v \in Workers : Deletes(v) /\ handler[v].u = u /\ \E x \in Pending(v) : Under(d, x)
  BY DEF CoveredBy
<1>2. PICK x \in Pending(v) : Under(d, x)
  BY <1>1
<1>3. CASE v = w
  BY <1>2, <1>3
<1>4. CASE v # w
  <2>1. Deletes(v)' /\ handler'[v] = handler[v]
    BY <1>1, <1>4, OthersSame DEF Keeps, Deletes
  <2>2. CASE x \in ToSet(handler[v].todo)
    BY <1>1, <1>2, <2>1, <2>2, HasInList
  <2>3. CASE x \in ToSet(handler[v].items) /\ x \in entries'
    BY <1>1, <1>2, <2>1, <2>3, HasInList
  <2>4. CASE x \in entries \ entries'
    <3>1. Deletes(w)' /\ x \in ToSet(handler'[w].todo)
      BY <2>4
    <3>2. handler'[w].u = u
      BY <3>1, IdleFacts DEF Keeps, Deletes
    <3> QED BY <1>2, <3>1, <3>2, HasInList
  <2> QED BY <1>2, <2>2, <2>3, <2>4 DEF Pending
<1> QED BY <1>3, <1>4

\* What a deletion takes away is its item.
LEMMA TakesAway ==
  ASSUME Typed, State, NEW w \in Workers, DeleteStep(w)
  PROVE  /\ entries' \subseteq entries
         /\ \/ entries' = entries
            \/ (DeleteFolderRelation(w) \/ DeleteFileRelation(w)) /\ entries' = entries \ {Item(w)}
         /\ \A e \in entries \ entries' : e = Item(w) /\ e.u = handler[w].u
<1>1. \/ entries' = entries
      \/ (DeleteFolderRelation(w) \/ DeleteFileRelation(w)) /\ entries' = entries \ {Item(w)}
  BY DEF DeleteStep, DeleteOneItem, DeleteFolderRelation, DeleteChildren, DeleteFileRelation,
         LookForOthers, DeleteRow, Unlink, WithoutEntry
<1>2. DeleteFolderRelation(w) \/ DeleteFileRelation(w) => Item(w).u = handler[w].u
  BY At_Delete DEF DeleteFolderRelation, DeleteFileRelation, At, Typed
<1>3. CASE entries' = entries
  BY <1>3
<1>4. CASE (DeleteFolderRelation(w) \/ DeleteFileRelation(w)) /\ entries' = entries \ {Item(w)}
  <2>1. \A e \in entries \ entries' : e = Item(w)
    BY <1>4
  <2> QED BY <1>2, <1>4, <2>1
<1> QED BY <1>1, <1>3, <1>4

\* A deletion that has the same items and the same list after a step.
LEMMA SameListCovers ==
  ASSUME Typed, State, NEW w \in Workers, DeleteStep(w), Deletes(w)', handler'[w].u = handler[w].u,
         handler[w].todo # <<>>, handler[w].pc # "item",
         handler'[w].todo = handler[w].todo, handler'[w].items = handler[w].items,
         NEW u, u = handler[w].u, NEW d, CoveredBy(u, d)
  PROVE  CoveredBy(u, d)'
<1>1. HandlersFit /\ Deletes(w) /\ Keeps(w)
  BY AtWork
<1>2. Item(w) \in ToSet(handler'[w].todo)
  BY <1>1, HeadAndRest, Kinds DEF Item, DeleteHandlers
<1>3. \A x \in Pending(w) : Under(d, x) => CoveredBy(u, d)'
  BY <1>2, TakesAway, HasInList DEF Pending
<1> QED BY <1>1, <1>2, <1>3, StaysCovered, TakesAway

\* A deletion that is done with an item, that does not lead to the entry.
LEMMA RestCovers ==
  ASSUME Typed, State, NEW w \in Workers, DeleteStep(w), handler[w].todo # <<>>, entries' = entries,
         NEW todo \in Seq(Relations), \A e \in ToSet(todo) : e.u = handler[w].u, Proceeds(w, todo),
         ToSet(Rest(w)) \subseteq ToSet(todo),
         NEW u, u = handler[w].u, NEW d, CoveredBy(u, d), Under(d, Item(w)) => CoveredBy(u, d)'
  PROVE  CoveredBy(u, d)'
<1>1. /\ HandlersFit /\ Deletes(w) /\ Keeps(w) /\ handler[w] \in DeleteHandlers
      /\ ToSet(handler[w].todo) = {Item(w)} \cup ToSet(Rest(w))
  BY AtWork, HeadAndRest DEF DeleteHandlers, Item, Rest
<1>2. todo # <<>> \/ handler[w].items # <<>> =>
        /\ Deletes(w)' /\ handler'[w].u = u /\ handler'[w].todo = todo /\ handler'[w].items = handler[w].items
  <2> SUFFICES ASSUME todo # <<>> \/ handler[w].items # <<>>
               PROVE  /\ Deletes(w)' /\ handler'[w].u = u /\ handler'[w].todo = todo
                      /\ handler'[w].items = handler[w].items
    OBVIOUS
  <2>1. PICK pc \in {"item", "unfolder", "unrelate"} : handler'[w] = [handler[w] EXCEPT !.todo = todo, !.pc = pc]
    BY <1>1, DeleteProceeds
  <2> QED BY <1>1, <2>1 DEF DeleteHandlers, Deletes
<1>3. ASSUME NEW x \in Pending(w), Under(d, x) PROVE CoveredBy(u, d)'
  <2>1. CASE x = Item(w)
    BY <1>3, <2>1
  <2>2. CASE x \in ToSet(Rest(w))
    BY <1>2, <1>3, <2>2, HasInList, ListOfNone
  <2>3. CASE x \in ToSet(handler[w].items) /\ x \in entries
    BY <1>2, <1>3, <2>3, HasInList, ListOfNone
  <2> QED BY <1>1, <1>3, <2>1, <2>2, <2>3 DEF Pending
<1> QED BY <1>1, <1>3, StaysCovered

\* What is in a folder whose relation is gone is selected; so what is below it is covered.
LEMMA ChildrenCover ==
  ASSUME Typed, State, NEW w \in Workers, DeleteChildren(w), NEW u, u = handler[w].u,
         NEW d \in entries, d.u = u, Under(d, Item(w))
  PROVE  CoveredBy(u, d)'
<1> DEFINE todo == SetToSeq(In(Item(w).u, Inside(Item(w)))) \o Rest(w)
<1>1. /\ HandlersFit /\ Deletes(w) /\ Keeps(w) /\ GoneAt(w) /\ handler[w].pc = "children" /\ DeleteStep(w)
      /\ Visible = entries /\ Present /\ Reachable
  BY AtWork DEF DeleteStep, DeleteChildren, At, State
<1>2. /\ Item(w) \in Relations /\ IsFolder(Item(w).f) /\ Item(w).u = u /\ Item(w) \notin entries
      /\ ToSet(handler[w].todo) = {Item(w)} \cup ToSet(Rest(w))
  BY <1>1, At_Delete DEF GoneAt
<1>3. /\ todo \in Seq(Relations) /\ Proceeds(w, todo) /\ \A e \in ToSet(todo) : e.u = handler[w].u
      /\ ToSet(todo) = In(Item(w).u, Inside(Item(w))) \cup ToSet(Rest(w))
  BY DeleteChildrenBegins
<1> HIDE DEF todo
<1>4. ToSet(todo) # {} => Deletes(w)' /\ handler'[w].u = u /\ handler'[w].todo = todo
  BY <1>1, <1>3, GoesToNext
<1>5. PICK z \in entries : /\ z.u = u /\ Under(d, z)
                           /\ z.dir = Inside(Item(w)) \/ \E v \in Workers : Visits(v, z)
  <2>1. Item(w).dir \in Seq(Names) /\ Item(w).f \in FolderIds
    BY <1>2, FolderOrFile
  <2>2. IsPrefix(Inside(Item(w)), d.dir)
    BY <1>2 DEF Under
  <2> QED BY <1>1, <1>2, <2>1, <2>2, WayDown
<1>6. CASE z \in ToSet(todo)
  BY <1>4, <1>5, <1>6, HasInList
<1>7. CASE z.dir = Inside(Item(w))
  <2>1. z \in In(Item(w).u, Inside(Item(w)))
    BY <1>1, <1>2, <1>5, <1>7 DEF In
  <2> QED BY <1>3, <1>6, <2>1
<1>8. ASSUME NEW v \in Workers, Visits(v, z), z.dir # Inside(Item(w)) PROVE CoveredBy(u, d)'
  <2>1. Deletes(v) /\ handler[v].u = u
    BY <1>5, <1>8 DEF Visits
  <2>2. CASE v = w
    <3>1. z \in ToSet(Rest(w))
      BY <1>2, <1>8, <2>2 DEF Visits
    <3> QED BY <1>3, <1>6, <3>1
  <2>3. CASE v # w
    <3>1. Deletes(v)' /\ handler'[v] = handler[v]
      BY <1>1, <2>1, <2>3, OthersSame DEF Keeps, Deletes
    <3>2. CASE z \in ToSet(handler[v].todo)
      BY <1>5, <2>1, <3>1, <3>2, HasInList
    <3>3. CASE handler[v].pc = "children" /\ Inside(Item(v)) = z.dir
      <4>1. Item(v) \in ToSet(handler[v].todo) /\ IsFolder(Item(v).f)
        BY <1>1, <2>1, <3>3, At_Delete
      <4>2. IsPrefix(z.dir, d.dir)
        <5>1. z \in Relations /\ d \in Relations
          BY DEF Typed
        <5>2. z.dir \in Seq(Names) /\ d.dir \in Seq(Names) /\ (IsFolder(z.f) => z.f \in FolderIds)
          BY <5>1, FolderOrFile
        <5>3. CASE d = z
          BY <5>2, <5>3, PrefixOfItself
        <5>4. CASE IsFolder(z.f) /\ IsPrefix(Inside(z), d.dir)
          BY <5>2, <5>4, BelowFolder
        <5> QED BY <1>5, <5>3, <5>4 DEF Under
      <4>3. Under(d, Item(v))
        BY <3>3, <4>1, <4>2 DEF Under
      <4> QED BY <2>1, <3>1, <4>1, <4>3, HasInList
    <3> QED BY <1>8, <3>2, <3>3 DEF Visits
  <2> QED BY <2>2, <2>3
<1> QED BY <1>5, <1>7, <1>8

\* No step of a deletion uncovers what is left.
LEMMA CoveredStep ==
  ASSUME Typed, State, NEW w \in Workers, DeleteStep(w), NEW u, u = handler[w].u,
         NEW d \in entries', d.u = u, CoveredBy(u, d)
  PROVE  CoveredBy(u, d)'
<1>1. /\ HandlersFit /\ Deletes(w) /\ Keeps(w) /\ GoneAt(w) /\ handler[w] \in DeleteHandlers
      /\ Visible = entries /\ d \in entries
  BY AtWork, TakesAway
<1>2. CASE DeleteOneItem(w)
  <2>1. PICK e \in Relations :
          /\ handler[w].todo = <<>> /\ entries' = entries
          /\ ToSet(handler[w].items) = {e} \cup ToSet(Tail(handler[w].items))
          /\ IF e \in Visible
             THEN \E pc \in {"unfolder", "unrelate"} :
                    handler'[w] = [handler[w] EXCEPT !.items = Tail(handler[w].items), !.todo = <<e>>, !.pc = pc]
             ELSE \/ handler'[w] = Idle /\ Tail(handler[w].items) = <<>>
                  \/ handler'[w] = [handler[w] EXCEPT !.items = Tail(handler[w].items)]
    BY <1>1, <1>2, DeleteItemBegins DEF DeleteOneItem
  <2>2. \A x \in Pending(w) : x \in entries /\ (x = e \/ x \in ToSet(Tail(handler[w].items)))
    BY <2>1, ListOfNone DEF Pending
  <2>3. CASE e \in entries
    <3>1. PICK pc \in {"unfolder", "unrelate"} :
            handler'[w] = [handler[w] EXCEPT !.items = Tail(handler[w].items), !.todo = <<e>>, !.pc = pc]
      BY <1>1, <2>1, <2>3
    <3>2. /\ Deletes(w)' /\ handler'[w].u = u /\ handler'[w].todo = <<e>>
          /\ handler'[w].items = Tail(handler[w].items)
      BY <1>1, <3>1 DEF DeleteHandlers, Deletes
    <3>3. e \in ToSet(handler'[w].todo)
      BY <3>2, ListOfOne
    <3>4. \A x \in Pending(w) : Under(d, x) => CoveredBy(u, d)'
      BY <2>1, <2>2, <3>2, <3>3, HasInList
    <3> QED BY <1>1, <2>1, <3>4, StaysCovered
  <2>4. CASE e \notin entries /\ handler'[w] = Idle /\ Tail(handler[w].items) = <<>>
    <3>1. Pending(w) = {}
      BY <2>2, <2>4, ListOfNone
    <3> QED BY <1>1, <2>1, <3>1, StaysCovered
  <2>5. CASE e \notin entries /\ handler'[w] = [handler[w] EXCEPT !.items = Tail(handler[w].items)]
    <3>1. Deletes(w)' /\ handler'[w].u = u /\ handler'[w].items = Tail(handler[w].items)
      BY <1>1, <2>5 DEF DeleteHandlers, Deletes
    <3>2. \A x \in Pending(w) : Under(d, x) => CoveredBy(u, d)'
      BY <2>1, <2>2, <2>5, <3>1, HasInList
    <3> QED BY <1>1, <2>1, <3>2, StaysCovered
  <2> QED BY <1>1, <2>1, <2>3, <2>4, <2>5
<1>3. ASSUME NEW pc, Goes(w, pc), handler[w].todo # <<>>, handler[w].pc # "item", pc \in DeletePcs(Item(w))
      PROVE  CoveredBy(u, d)'
  <2>1. handler'[w] = [handler[w] EXCEPT !.pc = pc]
    BY <1>1, <1>3, DeleteGoes
  <2>2. /\ Deletes(w)' /\ handler'[w].u = handler[w].u /\ handler'[w].todo = handler[w].todo
        /\ handler'[w].items = handler[w].items
    BY <1>1, <2>1 DEF DeleteHandlers, Deletes
  <2> QED BY <1>3, <2>2, SameListCovers
<1>4. CASE DeleteFolderRelation(w) \/ DeleteFileRelation(w) \/ DeleteRow(w)
  BY <1>1, <1>3, <1>4, At_Delete DEF DeleteFolderRelation, DeleteFileRelation, DeleteRow, DeletePcs, At
<1>5. CASE LookForOthers(w) \/ Unlink(w)
  <2>1. /\ handler[w].pc \in {"look", "unlink"} /\ entries' = entries
        /\ Proceeds(w, Rest(w)) \/ (Goes(w, "unrow") /\ handler[w].pc = "look")
    BY <1>5 DEF LookForOthers, Unlink, At
  <2>2. /\ handler[w].todo # <<>> /\ ~ IsFolder(Item(w).f) /\ Rest(w) \in Seq(Relations)
        /\ \A e \in ToSet(Rest(w)) : e.u = handler[w].u
    BY <1>1, <2>1, At_Delete
  <2>3. CASE Goes(w, "unrow")
    BY <1>3, <2>1, <2>2, <2>3 DEF DeletePcs
  <2>4. CASE Proceeds(w, Rest(w))
    <3>1. ~ Under(d, Item(w))
      BY <1>1, <2>1, <2>2 DEF Under, GoneAt
    <3> QED BY <2>1, <2>2, <2>4, <3>1, RestCovers
  <2> QED BY <2>1, <2>3, <2>4
<1>6. CASE DeleteChildren(w)
  <2> DEFINE todo == SetToSeq(In(Item(w).u, Inside(Item(w)))) \o Rest(w)
  <2>1. /\ todo \in Seq(Relations) /\ Proceeds(w, todo) /\ \A e \in ToSet(todo) : e.u = handler[w].u
        /\ ToSet(Rest(w)) \subseteq ToSet(todo)
    BY <1>6, DeleteChildrenBegins
  <2>2. handler[w].todo # <<>> /\ entries' = entries
    BY <1>1, <1>6, At_Delete DEF DeleteChildren, At
  <2>3. Under(d, Item(w)) => CoveredBy(u, d)'
    BY <1>1, <1>6, ChildrenCover
  <2> HIDE DEF todo
  <2> QED BY <2>1, <2>2, <2>3, RestCovers
<1> QED BY <1>2, <1>4, <1>5, <1>6 DEF DeleteStep

\* A step that leaves the relations and the deletions alone.
LEMMA OthersKeepCovered ==
  ASSUME NEW u, NEW d, CoveredBy(u, d), UNCHANGED entries,
         \A v \in Workers : Deletes(v) => handler'[v] = handler[v]
  PROVE  CoveredBy(u, d)'
<1>1. PICK v \in Workers : Deletes(v) /\ handler[v].u = u /\ \E x \in Pending(v) : Under(d, x)
  BY DEF CoveredBy
<1>2. handler'[v] = handler[v]
  BY <1>1
<1> QED BY <1>1, <1>2 DEF CoveredBy, Deletes, Pending, Under

\* A step of one deletion leaves covered what deletions of any user cover.
LEMMA CoveredByAny ==
  ASSUME Typed, State, NEW w \in Workers, DeleteStep(w), NEW u, NEW d \in entries', d.u = u, CoveredBy(u, d)
  PROVE  CoveredBy(u, d)'
<1>1. HandlersFit /\ Deletes(w) /\ Keeps(w)
  BY AtWork
<1>2. CASE u = handler[w].u
  BY <1>2, CoveredStep
<1>3. CASE u # handler[w].u
  <2>1. PICK v \in Workers : Deletes(v) /\ handler[v].u = u /\ \E x \in Pending(v) : Under(d, x)
    BY DEF CoveredBy
  <2>2. PICK x \in Pending(v) : Under(d, x)
    BY <2>1
  <2>3. v # w /\ handler'[v] = handler[v] /\ Deletes(v)'
    BY <1>1, <1>3, <2>1, OthersSame DEF Keeps, Deletes
  <2>4. CASE x \in ToSet(handler[v].todo)
    BY <2>1, <2>2, <2>3, <2>4, HasInList
  <2>5. CASE x \in ToSet(handler[v].items) /\ x \in entries
    <3>1. x.u = u
      BY <1>1, <2>1, <2>5 DEF HandlersFit, Fits, DeleteFits, Deletes
    <3>2. x \in entries'
      BY <1>3, <2>5, <3>1, TakesAway
    <3> QED BY <2>1, <2>2, <2>3, <2>5, <3>2, HasInList
  <2> QED BY <2>2, <2>4, <2>5 DEF Pending
<1> QED BY <1>2, <1>3

\* Deletions that are what they were still have their trees covered.
LEMMA CoveredKept ==
  ASSUME Covered, UNCHANGED entries, \A v \in Workers : Deletes(v) \/ Deletes(v)' => handler'[v] = handler[v]
  PROVE  Covered'
<1>1. ASSUME NEW v \in Workers, Deletes(v)', NEW d \in handler'[v].goal
      PROVE  d.u = handler'[v].u /\ (d \in entries' => CoveredBy(handler[v].u, d)')
  <2>1. Deletes(v) /\ handler'[v] = handler[v]
    BY <1>1 DEF Deletes
  <2>2. d.u = handler[v].u /\ (d \in entries => CoveredBy(handler[v].u, d))
    BY <1>1, <2>1 DEF Covered
  <2>3. ASSUME NEW u, CoveredBy(u, d) PROVE CoveredBy(u, d)'
    BY <2>3, OthersKeepCovered
  <2>4. PICK u : u = handler[v].u
    OBVIOUS
  <2>5. d \in entries' => CoveredBy(u, d)'
    BY <2>2, <2>3, <2>4
  <2> QED BY <2>1, <2>2, <2>4, <2>5
<1> QED BY <1>1 DEF Covered

\* A deletion that begins has its trees in its list: what is requested, and what is below it.
LEMMA CoveredBegins ==
  ASSUME Typed, Covered, NEW u \in Users, NEW es \in Asked(u), NEW h, BeginsWith(u, h), h.op = "delete",
         h.items = SetToSeq(es), h.goal = UNION {Tree(e) : e \in es}
  PROVE  Covered'
<1>1. PICK w \in Workers : handler[w] = Idle /\ handler' = [handler EXCEPT ![w] = h]
  BY DEF BeginsWith
<1>2. /\ handler'[w] = h /\ h.u = u /\ entries' = entries /\ \A v \in Workers \ {w} : handler'[v] = handler[v]
      /\ ~ Deletes(w)
  BY <1>1, IdleFacts DEF BeginsWith, Typed, HandlersFit, Tables, Deletes
<1>3. es \subseteq entries /\ (\A e \in es : e.u = u) /\ ToSet(h.items) = es
  BY ListOfAsked
<1>4. ASSUME NEW v \in Workers \ {w}, Deletes(v)', NEW d \in handler'[v].goal
      PROVE  d.u = handler'[v].u /\ (d \in entries' => CoveredBy(handler[v].u, d)')
  <2>1. Deletes(v) /\ handler'[v] = handler[v]
    BY <1>2, <1>4 DEF Deletes
  <2>2. d.u = handler[v].u /\ (d \in entries => CoveredBy(handler[v].u, d))
    BY <1>4, <2>1 DEF Covered
  <2>3. PICK x : x = handler[v].u
    OBVIOUS
  <2>4. CoveredBy(x, d) => CoveredBy(x, d)'
    BY <1>2, OthersKeepCovered
  <2> QED BY <1>2, <2>1, <2>2, <2>3, <2>4
<1>5. ASSUME NEW d \in h.goal PROVE d.u = u /\ CoveredBy(u, d)'
  <2>1. PICK e \in es : d \in Tree(e)
    BY <1>5
  <2>2. d.u = u /\ Under(d, e)
    BY <1>3, <2>1 DEF Tree, Under
  <2>3. Deletes(w)' /\ handler'[w].u = u /\ e \in ToSet(handler'[w].items) /\ e \in entries'
    BY <1>2, <1>3 DEF Deletes
  <2> QED BY <2>2, <2>3, HasInList
<1>6. ASSUME NEW d \in handler'[w].goal
      PROVE  d.u = handler'[w].u /\ (d \in entries' => CoveredBy(handler[w].u, d)')
  BY <1>2, <1>5, <1>6
<1> QED BY <1>4, <1>6 DEF Covered

\* A request that begins, and is no deletion.
LEMMA CoveredOtherBegins ==
  ASSUME Typed, Covered, NEW u, NEW h, BeginsWith(u, h), h.op # "delete"
  PROVE  Covered'
<1>1. PICK w \in Workers : handler[w] = Idle /\ handler' = [handler EXCEPT ![w] = h]
  BY DEF BeginsWith
<1>2. /\ handler'[w] = h /\ entries' = entries /\ \A v \in Workers \ {w} : handler'[v] = handler[v]
      /\ ~ Deletes(w) /\ ~ Deletes(w)'
  BY <1>1, IdleFacts DEF BeginsWith, Typed, HandlersFit, Tables, Deletes
<1> QED BY <1>2, CoveredKept

\* A step while nobody deletes.
LEMMA CoveredWhenNone ==
  ASSUME NoDeletes'
  PROVE  Covered'
  BY DEF NoDeletes, Covered

\* Whose step it is: another handler's, or its own.
LEMMA WhoseStep ==
  ASSUME Typed, [Next]_folderVars, NEW w \in Workers, handler'[w] # handler[w], handler[w] # Idle
  PROVE  WorkerStep(w)
<1>1. ~ UNCHANGED folderVars
  BY DEF folderVars
<1>2. ASSUME NEW v \in Workers, WorkerStep(v) PROVE v = w
  <2>1. Keeps(v)
    BY <1>2, AddKeeps, DeleteKeeps, ShareKeeps DEF WorkerStep, Typed
  <2> QED BY <2>1, OthersSame DEF Keeps, Typed
<1>3. ASSUME NEW u \in Users, Request(u) PROVE FALSE
  <2>1. ASSUME NEW h, BeginsWith(u, h) PROVE FALSE
    <3>1. PICK v \in Workers : handler[v] = Idle /\ handler' = [handler EXCEPT ![v] = h]
      BY <2>1 DEF BeginsWith
    <3> QED BY <3>1 DEF Typed, HandlersFit
  <2>2. ASSUME NEW f \in Files, Upload(u, f) PROVE FALSE
    BY <2>2 DEF Upload
  <2> QED BY <1>3, <2>1, <2>2, RequestBegins
<1> QED BY <1>1, <1>2, <1>3 DEF Next

\* Every step keeps the trees of deletions covered.
LEMMA CoveredNext ==
  ASSUME Typed, State, Covered, ~ Overlap, [Next]_folderVars
  PROVE  Covered'
<1>1. CASE UNCHANGED folderVars
  BY <1>1, CoveredKept DEF folderVars
<1>2. ASSUME NEW w \in Workers, DeleteStep(w) PROVE Covered'
  <2>1. HandlersFit /\ Deletes(w) /\ Keeps(w) /\ entries' \subseteq entries
    BY <1>2, AtWork, TakesAway
  <2>2. ASSUME NEW v \in Workers, Deletes(v)', NEW d \in handler'[v].goal
        PROVE  d.u = handler'[v].u /\ (d \in entries' => CoveredBy(handler[v].u, d)')
    <3>1. Deletes(v) /\ handler'[v].u = handler[v].u /\ handler'[v].goal = handler[v].goal
      BY <2>1, <2>2, OthersSame, IdleFacts DEF Keeps, Deletes
    <3>2. d.u = handler[v].u /\ (d \in entries => CoveredBy(handler[v].u, d))
      BY <2>2, <3>1 DEF Covered
    <3>3. PICK x : x = handler[v].u
      OBVIOUS
    <3>4. d \in entries' /\ CoveredBy(x, d) => CoveredBy(x, d)'
      BY <1>2, <3>2, <3>3, CoveredByAny
    <3> QED BY <2>1, <3>1, <3>2, <3>3, <3>4
  <2> QED BY <2>2 DEF Covered
<1>3. ASSUME NEW w \in Workers, AddStep(w) \/ InsertCopy(w) \/ CopyChildren(w) PROVE Covered'
  <2>1. Keeps(w) /\ (Adds(w) \/ Takes(w))
    BY <1>3, AddKeeps, ShareKeeps DEF Typed, ShareStep, ShareItem, InsertCopy, CopyChildren, At
  <2>2. NoDeletes
    BY <2>1 DEF State, NoAdditions
  <2>3. NoDeletes'
    BY <2>1, <2>2, KindsKept DEF Typed
  <2> QED BY <2>3, CoveredWhenNone
<1>4. ASSUME NEW w \in Workers, ShareItem(w) PROVE Covered'
  <2>1. Keeps(w) /\ Shares(w) /\ HandlersFit /\ entries' = entries
    BY <1>4, ShareKeeps DEF ShareStep, ShareItem, Typed
  <2>2. ~ Deletes(w) /\ ~ Deletes(w)'
    BY <2>1, IdleFacts DEF Keeps, Shares, Deletes
  <2> QED BY <2>1, <2>2, OthersSame, CoveredKept DEF Keeps
<1>5. ASSUME NEW u \in Users, Request(u) PROVE Covered'
  <2>1. CASE \E f \in Files : Upload(u, f)
    <3>1. UNCHANGED handler /\ Apart("add", u, {})
      BY <2>1 DEF Upload
    <3>2. NoDeletes'
      <4>1. \A v \in Workers : Deletes(v) => handler[v] \in Busy /\ handler[v].op = "delete"
        BY IdleFacts DEF Busy, Deletes
      <4> QED BY <3>1, <4>1 DEF Apart, NoDeletes, Deletes
    <3> QED BY <3>2, CoveredWhenNone
  <2>2. ASSUME NEW es \in Asked(u), BeginsWith(u, [Idle EXCEPT !.op = "delete", !.pc = "item", !.u = u,
                      !.items = SetToSeq(es), !.goal = UNION {Tree(e) : e \in es}])
        PROVE  Covered'
    <3> DEFINE h == [Idle EXCEPT !.op = "delete", !.pc = "item", !.u = u,
                      !.items = SetToSeq(es), !.goal = UNION {Tree(e) : e \in es}]
    <3>1. h.op = "delete" /\ h.items = SetToSeq(es) /\ h.goal = UNION {Tree(e) : e \in es} /\ BeginsWith(u, h)
      BY <2>2 DEF Idle
    <3> HIDE DEF h
    <3> QED BY <3>1, CoveredBegins
  <2>3. ASSUME NEW h, BeginsWith(u, h), h.op # "delete" PROVE Covered'
    BY <2>3, CoveredOtherBegins
  <2>4. ASSUME NEW es \in Asked(u), NEW link \in Links,
               BeginsWith(u, [Idle EXCEPT !.op = "share", !.pc = "setlink", !.u = u,
                                          !.todo = SetToSeq(es), !.goal = es \X {link}])
        PROVE  Covered'
    <3>1. [Idle EXCEPT !.op = "share", !.pc = "setlink", !.u = u,
                       !.todo = SetToSeq(es), !.goal = es \X {link}].op # "delete"
      BY DEF Idle
    <3> QED BY <2>3, <2>4, <3>1
  <2>5. ASSUME NEW dir \in Paths(u), NEW items \in SUBSET entries, BeginsWith(u, TakeOver(u, dir, items))
        PROVE  Covered'
    <3>1. TakeOver(u, dir, items).op # "delete"
      BY DEF TakeOver, Idle
    <3> QED BY <2>3, <2>5, <3>1
  <2>6. ASSUME NEW dir \in Paths(u), NEW name \in Names,
               BeginsWith(u, [Idle EXCEPT !.op = "add", !.pc = "stat", !.u = u,
                                          !.todo = <<Entry(u, dir, Folder(u, dir, name))>>])
        PROVE  Covered'
    <3>1. [Idle EXCEPT !.op = "add", !.pc = "stat", !.u = u,
                       !.todo = <<Entry(u, dir, Folder(u, dir, name))>>].op # "delete"
      BY DEF Idle
    <3> QED BY <2>3, <2>6, <3>1
  <2> QED BY <1>5, <2>1, <2>2, <2>4, <2>5, <2>6, RequestBegins
<1> QED BY <1>1, <1>2, <1>3, <1>4, <1>5 DEF Next, WorkerStep, ShareStep

(* What is left of the trees of a deletion when it ends is in the list of    *)
(* another one of that user.                                                *)
LEMMA NothingLeft ==
  ASSUME Typed, State, Covered, [Next]_folderVars, NEW w \in Workers, Deletes(w), handler'[w] = Idle,
         \A v \in Workers \ {w} : Deletes(v) => handler[v].u # handler[w].u
  PROVE  handler[w].goal \cap entries' = {}
<1>1. handler'[w] # handler[w] /\ handler[w] # Idle /\ ~ Deletes(w)'
  BY IdleFacts DEF Deletes
<1>2. DeleteStep(w)
  <2>1. WorkerStep(w)
    BY <1>1, WhoseStep
  <2>2. ~ Adds(w) /\ ~ Shares(w) /\ ~ Takes(w)
    BY DEF Deletes, Adds, Shares, Takes
  <2> QED BY <2>1, <2>2, AddKeeps, ShareKeeps DEF WorkerStep, Typed
<1>3. Keeps(w) /\ entries' \subseteq entries /\ HandlersFit
  BY <1>2, AtWork, TakesAway
<1>4. ASSUME NEW d \in handler[w].goal, d \in entries' PROVE FALSE
  <2>1. PICK u : u = handler[w].u
    OBVIOUS
  <2>2. d.u = u /\ CoveredBy(u, d)
    BY <1>3, <1>4, <2>1 DEF Covered
  <2>3. CoveredBy(u, d)'
    BY <1>2, <1>4, <2>1, <2>2, CoveredStep
  <2>4. PICK v \in Workers : Deletes(v)' /\ handler'[v].u = u
    BY <2>3 DEF CoveredBy
  <2>5. v # w
    BY <1>1, <2>4
  <2>6. handler'[v] = handler[v] /\ Deletes(v)
    BY <1>3, <2>4, <2>5, OthersSame DEF Keeps, Deletes
  <2> QED BY <2>1, <2>4, <2>5, <2>6
<1> QED BY <1>4
-------------------------------------------------------------------------------
\* What a copy is of, and where something below it is copied to.
Source(c) == Entry(c.from, c.fromdir, c.f)
CopyOf(c, d) == Entry(c.u, c.dir \o SubSeq(d.dir, Len(c.fromdir) + 1, Len(d.dir)), d.f)

(* A copy that is to be inserted is of something that is there; with all that*)
(* is below, it is in the goal; and nothing of the goal comes below what is *)
(* still to be copied, so the walk does not find its own copies.            *)
CopyFits(h, c) == /\ Source(c) \in entries
                  /\ \A d \in Tree(Source(c)) : CopyOf(c, d) \in h.goal
                  /\ IsFolder(c.f) => \A g \in h.goal : ~(c.from = g.u /\ IsPrefix(Inside(Source(c)), g.dir))

\* The goal is reached, but for what is to be copied with the list.
Complete(h, todo) == \A g \in h.goal : g \in entries \/ \E c \in ToSet(todo) : \E d \in Tree(Source(c)) : g = CopyOf(c, d)

TakeAt(w) == /\ \A c \in ToSet(handler[w].todo) : CopyFits(handler[w], c)
             /\ Complete(handler[w], handler[w].todo)
             /\ \A g \in handler[w].goal : g.u = handler[w].u

\* Nobody changes the trees a share is taken over from.
TakeState == \A w \in Workers : Takes(w) =>
               TakeAt(w) /\ \A v \in Workers \ {w} : Adds(v) \/ Takes(v) => handler[v].u \notin handler[w].from
-------------------------------------------------------------------------------
\* The parts of a source.
LEMMA SourceParts ==
  ASSUME NEW c
  PROVE  /\ Source(c).u = c.from /\ Source(c).dir = c.fromdir /\ Source(c).f = c.f
         /\ Inside(Source(c)) = Append(c.fromdir, c.f.name)
  BY DEF Source, Entry, Inside

\* A tree that nothing is put into stays.
LEMMA TreeStays ==
  ASSUME Present, Present', entries \subseteq entries', NEW e,
         \A x \in entries' \ entries : ~(x.u = e.u /\ IsFolder(e.f) /\ IsPrefix(Inside(e), x.dir))
  PROVE  Tree(e)' = Tree(e)
<1>1. Visible = entries /\ Visible' = entries'
  BY AllSeen, AllSeenThen
<1> QED BY <1>1 DEF Tree

\* A copy still fits when what is added is another user's, or of the goal.
LEMMA CopyStays ==
  ASSUME Present, Present', entries \subseteq entries', NEW h, NEW c, CopyFits(h, c),
         \A x \in entries' \ entries : x.u # c.from \/ x \in h.goal
  PROVE  CopyFits(h, c)' /\ Tree(Source(c))' = Tree(Source(c))
<1>1. Tree(Source(c))' = Tree(Source(c))
  <2>1. PICK e : e = Source(c)
    OBVIOUS
  <2>2. \A x \in entries' \ entries : ~(x.u = e.u /\ IsFolder(e.f) /\ IsPrefix(Inside(e), x.dir))
    BY <2>1, SourceParts DEF CopyFits
  <2> QED BY <2>1, <2>2, TreeStays
<1> QED BY <1>1 DEF CopyFits

\* And the goal is as complete as it was.
LEMMA CompleteStays ==
  ASSUME NEW h, NEW todo, Complete(h, todo), entries \subseteq entries',
         \A c \in ToSet(todo) : Tree(Source(c))' = Tree(Source(c))
  PROVE  Complete(h, todo)'
  BY DEF Complete

\* What a take-over of another handler needs stays.
LEMMA TakeStays ==
  ASSUME Typed, Present, Present', entries \subseteq entries', NEW v \in Workers, Takes(v), TakeAt(v),
         handler'[v] = handler[v], \A x \in entries' \ entries : x.u \notin handler[v].from
  PROVE  TakeAt(v)'
<1>1. PICK h : h = handler[v]
  OBVIOUS
<1>2. \A c \in ToSet(h.todo) : c.from \in h.from
  BY <1>1 DEF Typed, HandlersFit, Fits, TakeFits, Takes
<1>3. \A c \in ToSet(h.todo) : CopyFits(h, c)' /\ Tree(Source(c))' = Tree(Source(c))
  BY <1>1, <1>2, CopyStays DEF TakeAt
<1>4. Complete(h, h.todo)'
  BY <1>1, <1>3, CompleteStays DEF TakeAt
<1> QED BY <1>1, <1>3, <1>4 DEF TakeAt

\* A copy is inserted: it is in the goal, and what is still to come fits as before.
LEMMA InsertTakes ==
  ASSUME Typed, State, TakeState, NEW w \in Workers, InsertCopy(w), Present',
         NEW h, h = handler[w], NEW c, c = Item(w), NEW rest, rest = Rest(w)
  PROVE  /\ entries \subseteq entries'
         /\ (\A x \in entries' \ entries : x \in h.goal /\ x.u = h.u)
         /\ (\A k \in ToSet(h.todo) : CopyFits(h, k)')
         /\ Complete(h, h.todo)'
         /\ (~ IsFolder(c.f) => Complete(h, rest)')
<1>1. /\ Takes(w) /\ c \in Copies /\ ToSet(h.todo) = {c} \cup ToSet(rest) /\ c.u = h.u
      /\ entries' = entries \cup {Entry(c.u, c.dir, c.f)} /\ TakeAt(w) /\ Present
  BY At_Take DEF Typed, InsertCopy, TakeState, State
<1>2. c.dir \in Seq(Names) /\ c.fromdir \in Seq(Names)
  BY <1>1, FolderOrFile
<1>3. CopyOf(c, Source(c)) = Entry(c.u, c.dir, c.f)
  BY <1>2, SourceParts, CopyOfItself DEF CopyOf
<1>4. /\ (\A k \in ToSet(h.todo) : CopyFits(h, k)) /\ Complete(h, h.todo)
      /\ CopyOf(c, Source(c)) \in h.goal
  <2>1. CopyFits(h, c) /\ (\A k \in ToSet(h.todo) : CopyFits(h, k)) /\ Complete(h, h.todo)
    BY <1>1 DEF TakeAt
  <2>2. Source(c) \in Tree(Source(c))
    BY DEF Tree
  <2> QED BY <2>1, <2>2 DEF CopyFits
<1>5. entries \subseteq entries' /\ \A x \in entries' \ entries : x \in h.goal /\ x.u = h.u
  <2>1. \A x \in entries' \ entries : x = Entry(c.u, c.dir, c.f)
    BY <1>1
  <2> QED BY <1>1, <1>3, <1>4, <2>1 DEF Entry
<1>6. \A k \in ToSet(h.todo) : CopyFits(h, k)' /\ Tree(Source(k))' = Tree(Source(k))
  BY <1>1, <1>4, <1>5, CopyStays
<1>7. Complete(h, h.todo)'
  BY <1>4, <1>5, <1>6, CompleteStays
<1>8. ~ IsFolder(c.f) => Complete(h, rest)'
  <2> HAVE ~ IsFolder(c.f)
  <2>1. Tree(Source(c))' = {Source(c)}
    BY SourceParts DEF Tree
  <2>2. CopyOf(c, Source(c)) \in entries'
    BY <1>1, <1>3
  <2> QED BY <1>1, <1>7, <2>1, <2>2 DEF Complete
<1>9. \A k \in ToSet(h.todo) : CopyFits(h, k)'
  BY <1>6
<1> QED BY <1>5, <1>7, <1>8, <1>9

\* What is in a folder goes into the copy of the folder: where the goal has it.
LEMMA ChildCopy ==
  ASSUME Typed, NEW h, NEW c \in Copies, IsFolder(c.f), CopyFits(h, c), h.goal \subseteq Relations,
         NEW e \in In(c.from, Append(c.fromdir, c.f.name)), NEW k, k = Copy(c.u, Inside(c), c.from, e)
  PROVE  /\ Source(k) = e /\ CopyFits(h, k)
         /\ \A d \in Tree(e) : d \in Tree(Source(c)) /\ CopyOf(k, d) = CopyOf(c, d)
<1>1. /\ c.dir \in Seq(Names) /\ c.fromdir \in Seq(Names) /\ c.f \in FolderIds /\ c.f.name \in Names
      /\ Len(c.fromdir) \in Nat
  BY FolderOrFile, LenProperties DEF FolderIds
<1>2. /\ e \in entries /\ e \in Visible /\ e \in Relations /\ e.u = c.from /\ e.dir = Append(c.fromdir, c.f.name)
      /\ e.dir \in Seq(Names) /\ (IsFolder(e.f) => e.f \in FolderIds)
  BY FolderOrFile DEF In, Visible, Typed
<1>3. Source(k) = e /\ k.u = c.u /\ k.dir = Inside(c) /\ k.fromdir = e.dir /\ k.f = e.f /\ k.from = c.from
  BY <1>2 DEF Source, Entry, Copy, Relations
<1>4. ASSUME NEW p \in Seq(Names), IsPrefix(Inside(e), p), IsFolder(e.f) PROVE IsPrefix(Inside(Source(c)), p)
  BY <1>2, <1>4, SourceParts, BelowFolder
<1>5. ASSUME NEW d \in Tree(e) PROVE d \in Tree(Source(c)) /\ CopyOf(k, d) = CopyOf(c, d)
  <2>1. d \in Visible /\ d.u = c.from /\ d.dir \in Seq(Names)
    <3>1. d \in Visible /\ d.u = c.from
      BY <1>2, <1>5 DEF Tree
    <3> QED BY <3>1, FolderOrFile DEF Visible, Typed
  <2>2. IsPrefix(Inside(Source(c)), d.dir)
    <3>1. CASE d = e
      BY <1>2, <3>1, SourceParts, PrefixOfItself
    <3>2. CASE IsFolder(e.f) /\ IsPrefix(Inside(e), d.dir)
      BY <1>4, <2>1, <3>2
    <3> QED BY <1>5, <3>1, <3>2 DEF Tree
  <2>3. d \in Tree(Source(c))
    BY <2>1, <2>2, SourceParts DEF Tree
  <2>4. Len(c.fromdir) < Len(d.dir) /\ d.dir[Len(c.fromdir) + 1] = c.f.name
    <3>1. Source(c).dir \in Seq(Names) /\ Source(c).f \in FolderIds
      BY <1>1, SourceParts
    <3> QED BY <2>1, <2>2, <3>1, SourceParts, BelowFolder
  <2>5. Inside(c) \o SubSeq(d.dir, Len(c.fromdir) + 2, Len(d.dir)) = c.dir \o SubSeq(d.dir, Len(c.fromdir) + 1, Len(d.dir))
    BY <1>1, <2>1, <2>4, CopyPath DEF Inside
  <2>6. Len(e.dir) + 1 = Len(c.fromdir) + 2
    <3>1. Len(e.dir) = Len(c.fromdir) + 1
      BY <1>1, <1>2, AppendProperties
    <3> QED BY <1>1, <3>1
  <2> QED BY <1>3, <2>3, <2>5, <2>6 DEF CopyOf
<1>6. CopyFits(h, k)
  <2>1. \A d \in Tree(e) : CopyOf(k, d) \in h.goal
    BY <1>5 DEF CopyFits
  <2>2. ASSUME IsFolder(k.f), NEW g \in h.goal, k.from = g.u, IsPrefix(Inside(Source(k)), g.dir) PROVE FALSE
    <3>1. IsPrefix(Inside(e), g.dir) /\ IsFolder(e.f) /\ g.dir \in Seq(Names) /\ c.from = g.u
      BY <1>3, <2>2, FolderOrFile
    <3>2. IsPrefix(Inside(Source(c)), g.dir)
      BY <1>4, <3>1
    <3> QED BY <3>1, <3>2 DEF CopyFits
  <2> QED BY <1>2, <1>3, <2>1, <2>2 DEF CopyFits
<1> QED BY <1>3, <1>5, <1>6

\* What the sharer has in a folder is to be copied in place of the folder: the goal is as complete as it was.
LEMMA CopiesTake ==
  ASSUME Typed, State, TakeState, NEW w \in Workers, CopyChildren(w), NEW h, h = handler[w], NEW c, c = Item(w),
         NEW todo,
         ToSet(todo) = {Copy(c.u, Inside(c), c.from, e) : e \in In(c.from, Append(c.fromdir, c.f.name))} \cup ToSet(Rest(w))
  PROVE  (\A k \in ToSet(todo) : CopyFits(h, k)) /\ Complete(h, todo)
<1> DEFINE es == In(c.from, Append(c.fromdir, c.f.name))
<1>1. /\ HandlersFit /\ Takes(w) /\ h \in TakeHandlers /\ h.pc = "children" /\ c \in Copies /\ IsFolder(c.f)
      /\ ToSet(h.todo) = {c} \cup ToSet(Rest(w)) /\ c = Head(h.todo) /\ TakeAt(w) /\ TakeReady(h)
  BY At_Take DEF Typed, CopyChildren, At, Takes, TakeState, State, Ready, Item
<1>2. NoDeletes /\ Present /\ Reachable /\ Visible = entries
  BY <1>1, AllSeen DEF State, NoAdditions
<1>3. /\ h.goal \subseteq Relations /\ Complete(h, h.todo) /\ Entry(c.u, c.dir, c.f) \in entries
      /\ \A k \in ToSet(h.todo) : CopyFits(h, k)
  BY <1>1 DEF TakeHandlers, TakeAt, TakeReady
<1>4. ASSUME NEW e \in es, NEW k, k = Copy(c.u, Inside(c), c.from, e)
      PROVE  Source(k) = e /\ CopyFits(h, k) /\ \A d \in Tree(e) : CopyOf(k, d) = CopyOf(c, d)
  <2>1. CopyFits(h, c) /\ c \in Copies /\ IsFolder(c.f) /\ h.goal \subseteq Relations
    BY <1>1, <1>3
  <2>2. e \in In(c.from, Append(c.fromdir, c.f.name))
    BY <1>4
  <2> HIDE DEF es
  <2>3. \A x \in In(c.from, Append(c.fromdir, c.f.name)) : \A y : y = Copy(c.u, Inside(c), c.from, x) =>
          Source(y) = x /\ CopyFits(h, y) /\ \A d \in Tree(x) : CopyOf(y, d) = CopyOf(c, d)
    BY <2>1, ChildCopy
  <2> QED BY <1>4, <2>2, <2>3, Zenon
<1>5. \A k \in ToSet(todo) : CopyFits(h, k)
  BY <1>1, <1>3, <1>4
<1>6. ASSUME NEW d \in Tree(Source(c)), CopyOf(c, d) \notin entries
      PROVE  \E k \in ToSet(todo) : \E x \in Tree(Source(k)) : CopyOf(c, d) = CopyOf(k, x)
  <2>1. c.dir \in Seq(Names) /\ c.fromdir \in Seq(Names) /\ c.f \in FolderIds
    BY <1>1, FolderOrFile
  <2>2. d # Source(c)
    <3>1. CopyOf(c, Source(c)) = Entry(c.u, c.dir, c.f)
      BY <2>1, SourceParts, CopyOfItself DEF CopyOf
    <3> QED BY <1>3, <1>6, <3>1
  <2>3. PICK s : s = Source(c)
    OBVIOUS
  <2>4. d \in entries /\ d.u = s.u /\ IsPrefix(Inside(s), d.dir) /\ s.dir \in Seq(Names) /\ s.f \in FolderIds
    BY <1>2, <1>6, <2>1, <2>2, <2>3, SourceParts DEF Tree
  <2>5. PICK z \in entries : /\ z.u = s.u /\ Under(d, z)
                             /\ z.dir = Inside(s) \/ \E v \in Workers : Visits(v, z)
    BY <1>2, <2>4, WayDown
  <2>6. z.dir = Inside(s)
    BY <1>2, <2>5 DEF Visits, NoDeletes
  <2>7. z \in es
    BY <1>2, <2>3, <2>5, <2>6, SourceParts DEF In
  <2>8. d \in Tree(z)
    BY <1>2, <2>4, <2>5 DEF Under, Tree
  <2>9. PICK k : k = Copy(c.u, Inside(c), c.from, z)
    OBVIOUS
  <2>10. k \in ToSet(todo)
    BY <2>7, <2>9
  <2> QED BY <1>4, <2>7, <2>8, <2>9, <2>10
<1>7. Complete(h, todo)
  <2>1. ASSUME NEW g \in h.goal, g \notin entries
        PROVE  \E k \in ToSet(todo) : \E x \in Tree(Source(k)) : g = CopyOf(k, x)
    <3>1. PICK k \in ToSet(h.todo) : \E x \in Tree(Source(k)) : g = CopyOf(k, x)
      BY <1>3, <2>1 DEF Complete
    <3>2. CASE k = c
      BY <1>6, <2>1, <3>1, <3>2
    <3>3. CASE k \in ToSet(Rest(w))
      BY <3>1, <3>3
    <3> QED BY <1>1, <3>1, <3>2, <3>3
  <2> QED BY <2>1 DEF Complete
<1> QED BY <1>5, <1>7

\* A take-over goes on: with the same goal, and a list that fits.
LEMMA TakeGoesOn ==
  ASSUME NEW w, NEW h, NEW g, handler'[w] = g, g.goal = h.goal, g.u = h.u, \A x \in h.goal : x.u = h.u,
         NEW todo, g.todo = todo, \A k \in ToSet(todo) : CopyFits(h, k)', Complete(h, todo)'
  PROVE  TakeAt(w)'
  BY DEF TakeAt, CopyFits, Complete

\* The step of a take-over: it goes on as it should, or all of the goal is there.
LEMMA OwnTake ==
  ASSUME Typed, State, TakeState, NEW w \in Workers, InsertCopy(w) \/ CopyChildren(w), Present'
  PROVE  IF handler'[w] = Idle THEN handler[w].goal \subseteq entries' ELSE TakeAt(w)'
<1>1. PICK h : h = handler[w]
  OBVIOUS
<1>2. PICK c : c = Item(w)
  OBVIOUS
<1>3. HandlersFit /\ Takes(w) /\ h \in TakeHandlers /\ \A x \in h.goal : x.u = h.u
  BY <1>1, At_Take DEF Typed, InsertCopy, CopyChildren, At, Takes, TakeState, TakeAt
<1>4. ASSUME NEW todo \in Seq(Copies), \A k \in ToSet(todo) : CopyFits(h, k)', Complete(h, todo)',
             handler'[w] = IF todo = <<>> THEN Idle ELSE [handler[w] EXCEPT !.todo = todo, !.pc = "insert"]
      PROVE  IF handler'[w] = Idle THEN handler[w].goal \subseteq entries' ELSE TakeAt(w)'
  <2>1. CASE todo = <<>>
    <3>1. handler'[w] = Idle
      BY <1>4, <2>1
    <3>2. \A g \in h.goal : g \in entries'
      BY <1>4, <2>1, ListOfNone DEF Complete
    <3> QED BY <1>1, <3>1, <3>2
  <2>2. CASE todo # <<>>
    <3>1. PICK g : g = handler'[w]
      OBVIOUS
    <3>2. g.goal = h.goal /\ g.u = h.u /\ g.todo = todo /\ g.op = "take"
      BY <1>1, <1>3, <1>4, <2>2, <3>1 DEF TakeHandlers
    <3>3. TakeAt(w)'
      BY <1>3, <1>4, <3>1, <3>2, TakeGoesOn
    <3> QED BY <3>1, <3>2, <3>3, IdleFacts
  <2> QED BY <2>1, <2>2
<1>5. CASE InsertCopy(w)
  <2>1. PICK rest : rest = Rest(w)
    OBVIOUS
  <2>2. /\ ToSet(h.todo) = {c} \cup ToSet(rest) /\ rest \in Seq(Copies)
        /\ \A d \in ToSet(rest) : d.u = handler[w].u /\ d.from \in handler[w].from
    BY <1>1, <1>2, <1>3, <1>5, <2>1, At_Take DEF InsertCopy
  <2>3. /\ \A k \in ToSet(h.todo) : CopyFits(h, k)'
        /\ Complete(h, h.todo)' /\ (~ IsFolder(c.f) => Complete(h, rest)')
    BY <1>1, <1>2, <1>5, <2>1, InsertTakes
  <2>4. CASE ~ IsFolder(c.f)
    <3>1. Proceeds(w, rest)
      BY <1>2, <1>5, <2>1, <2>4 DEF InsertCopy
    <3>2. handler'[w] = IF rest = <<>> THEN Idle ELSE [handler[w] EXCEPT !.todo = rest, !.pc = "insert"]
      BY <1>3, <2>2, <3>1, TakeProceeds
    <3> QED BY <1>4, <2>2, <2>3, <2>4, <3>2
  <2>5. CASE IsFolder(c.f)
    <3>1. Goes(w, "children")
      BY <1>2, <1>5, <2>5 DEF InsertCopy
    <3>2. PICK g : g = handler'[w]
      OBVIOUS
    <3>3. g = [h EXCEPT !.pc = "children"]
      <4>1. handler' = [handler EXCEPT ![w] = [handler[w] EXCEPT !.pc = "children"]]
        BY <1>3, <3>1, GoneTo
      <4> QED BY <1>1, <1>3, <3>2, <4>1 DEF HandlersFit
    <3>4. g.goal = h.goal /\ g.u = h.u /\ g.todo = h.todo /\ g.op = "take"
      BY <1>3, <3>3 DEF TakeHandlers
    <3>5. TakeAt(w)'
      BY <1>3, <2>3, <3>2, <3>4, TakeGoesOn
    <3> QED BY <3>2, <3>4, <3>5, IdleFacts
  <2> QED BY <2>4, <2>5
<1>6. CASE CopyChildren(w)
  <2> DEFINE copies(i) == {Copy(i.u, Inside(i), i.from, e) : e \in In(i.from, Append(i.fromdir, i.f.name))}
  <2>1. PICK todo : todo = SetToSeq(copies(Item(w))) \o Rest(w)
    OBVIOUS
  <2>a. /\ todo \in Seq(Copies) /\ Proceeds(w, todo)
        /\ \A d \in ToSet(todo) : d.u = handler[w].u /\ d.from \in handler[w].from
        /\ ToSet(todo) = copies(Item(w)) \cup ToSet(Rest(w))
    BY <1>6, <2>1, CopyChildrenBegins
  <2>2. ToSet(todo) = {Copy(c.u, Inside(c), c.from, e) : e \in In(c.from, Append(c.fromdir, c.f.name))} \cup ToSet(Rest(w))
    BY <1>2, <2>a
  <2>3. (\A k \in ToSet(todo) : CopyFits(h, k)) /\ Complete(h, todo)
    <3> HIDE DEF copies
    <3> QED BY <1>1, <1>2, <1>6, <2>2, CopiesTake
  <2>4. entries' = entries /\ Present
    BY <1>6 DEF CopyChildren, State
  <2>5. \A k \in ToSet(todo) : CopyFits(h, k)' /\ Tree(Source(k))' = Tree(Source(k))
    BY <2>3, <2>4, CopyStays
  <2>6. Complete(h, todo)'
    BY <2>3, <2>4, <2>5, CompleteStays
  <2>7. handler'[w] = IF todo = <<>> THEN Idle ELSE [handler[w] EXCEPT !.todo = todo, !.pc = "insert"]
    BY <1>3, <2>a, TakeProceeds
  <2> HIDE DEF copies
  <2> QED BY <1>4, <2>a, <2>5, <2>6, <2>7
<1> QED BY <1>5, <1>6

\* A step that puts something of one user's into the tree leaves the take-overs from others as they were.
LEMMA OthersTake ==
  ASSUME Typed, State, TakeState, Present', NEW u, entries \subseteq entries', \A x \in entries' \ entries : x.u = u,
         NEW v \in Workers, Takes(v), handler'[v] = handler[v], u \notin handler[v].from \/ entries' = entries
  PROVE  TakeAt(v)'
<1>1. TakeAt(v) /\ Present
  BY DEF TakeState, State
<1>2. \A x \in entries' \ entries : x.u \notin handler[v].from
  OBVIOUS
<1> QED BY <1>1, <1>2, TakeStays

\* When nobody takes anything over, there is nothing to keep.
LEMMA NobodyTakes ==
  ASSUME NoAdditions'
  PROVE  TakeState'
  BY DEF NoAdditions, TakeState

\* A handler goes on: what the others take over from is kept away from as before.
LEMMA ApartStays ==
  ASSUME HandlersFit, TakeState, NEW w \in Workers, Keeps(w), NEW v \in Workers, Takes(v)'
  PROVE  /\ Takes(v) /\ handler'[v] # Idle
         /\ \A x \in Workers \ {v} : Adds(x)' \/ Takes(x)' => handler'[x].u \notin handler'[v].from
<1>1. \A x \in Workers : handler'[x] = handler[x] \/ handler'[x] = Idle
                         \/ (handler'[x].op = handler[x].op /\ handler'[x].u = handler[x].u /\ handler'[x].from = handler[x].from)
  BY OthersSame DEF Keeps
<1>2. \A x \in Workers : Takes(x)' \/ Adds(x)' =>
        /\ handler'[x].op = handler[x].op /\ handler'[x].u = handler[x].u /\ handler'[x].from = handler[x].from
        /\ handler'[x] # Idle
  BY <1>1, IdleFacts DEF Takes, Adds
<1>3. Takes(v) /\ handler'[v].from = handler[v].from /\ handler'[v] # Idle
  BY <1>2 DEF Takes
<1>4. \A x \in Workers \ {v} : Adds(x) \/ Takes(x) => handler[x].u \notin handler[v].from
  BY <1>3 DEF TakeState
<1>5. \A x \in Workers : Adds(x)' \/ Takes(x)' => (Adds(x) \/ Takes(x)) /\ handler'[x].u = handler[x].u
  BY <1>2 DEF Adds, Takes
<1> QED BY <1>3, <1>4, <1>5

\* The steps of handlers keep what take-overs need.
LEMMA WorkersKeepTakes ==
  ASSUME Typed, State, TakeState, Present', NEW w \in Workers, WorkerStep(w)
  PROVE  TakeState'
<1>1. HandlersFit /\ Keeps(w) /\ \A v \in Workers \ {w} : handler'[v] = handler[v]
  BY AddKeeps, DeleteKeeps, ShareKeeps, OthersSame DEF Typed, WorkerStep, Keeps
<1>2. CASE DeleteStep(w)
  <2>1. Deletes(w)
    BY <1>2, AtWork
  <2>2. NoAdditions
    BY <2>1 DEF State, NoDeletes
  <2> QED BY <1>1, <2>2, KindsKept, NobodyTakes
<1>3. ASSUME ~ DeleteStep(w), NEW v \in Workers, Takes(v)' PROVE TakeAt(v)'
  <2>1. Takes(v) /\ handler'[v] # Idle
    BY <1>1, <1>3, ApartStays
  <2>2. CASE InsertCopy(w) \/ CopyChildren(w)
    <3>1. CASE v = w
      BY <2>1, <2>2, <3>1, OwnTake
    <3>2. CASE v # w
      <4>1. Takes(w) /\ handler[w].u \notin handler[v].from
        BY <1>1, <2>1, <2>2, <3>2, At_Take DEF TakeState, InsertCopy, CopyChildren, At, Takes
      <4>2. entries \subseteq entries' /\ \A x \in entries' \ entries : x.u = handler[w].u
        <5>1. CASE InsertCopy(w)
          <6>1. Item(w).u = handler[w].u
            BY <1>1, <5>1, At_Take DEF InsertCopy
          <6>2. entries' = entries \cup {Entry(Item(w).u, Item(w).dir, Item(w).f)}
            BY <5>1 DEF InsertCopy
          <6> QED BY <6>1, <6>2 DEF Entry
        <5>2. CASE CopyChildren(w)
          BY <5>2 DEF CopyChildren
        <5> QED BY <2>2, <5>1, <5>2
      <4>3. PICK u : u = handler[w].u
        OBVIOUS
      <4> QED BY <1>1, <2>1, <3>2, <4>1, <4>2, <4>3, OthersTake
    <3> QED BY <3>1, <3>2
  <2>3. CASE ShareItem(w)
    <3>1. Shares(w) /\ entries' = entries
      BY <2>3, ShareKeeps DEF ShareStep, ShareItem
    <3>2. v # w
      BY <2>1, <3>1 DEF Shares, Takes
    <3> QED BY <1>1, <2>1, <3>1, <3>2, OthersTake
  <2>4. CASE AddStep(w)
    <3>1. Adds(w) /\ v # w
      BY <2>1, <2>4, AddKeeps DEF Typed, Adds, Takes
    <3>2. handler[w].u \notin handler[v].from
      BY <2>1, <3>1 DEF TakeState
    <3>3. entries \subseteq entries' /\ \A x \in entries' \ entries : x.u = handler[w].u
      <4>1. CASE RelateFolder(w)
        <5>1. Item(w).u = handler[w].u /\ entries' = entries \cup {Item(w)}
          BY <1>1, <4>1, At_Add DEF RelateFolder, At
        <5> QED BY <5>1
      <4>2. CASE Stat(w) \/ MakeDir(w) \/ InsertFolderRow(w) \/ SelectFolder(w)
        BY <4>2 DEF Stat, MakeDir, InsertFolderRow, SelectFolder
      <4> QED BY <2>4, <4>1, <4>2 DEF AddStep
    <3>4. PICK u : u = handler[w].u
      OBVIOUS
    <3> QED BY <1>1, <2>1, <3>1, <3>2, <3>3, <3>4, OthersTake
  <2> QED BY <1>3, <2>2, <2>3, <2>4 DEF WorkerStep, ShareStep
<1>4. CASE ~ DeleteStep(w)
  BY <1>1, <1>3, <1>4, ApartStays DEF TakeState
<1> QED BY <1>2, <1>4

\* A request begins, away from the take-overs; and a take-over from the additions.
LEMMA TakeBegins ==
  ASSUME Typed, State, TakeState, Present', ~ Overlap, NEW u, NEW h, BeginsWith(u, h),
         h.op = "take" => /\ (\A k \in ToSet(h.todo) : CopyFits(h, k)) /\ Complete(h, h.todo)
                          /\ \A g \in h.goal : g.u = h.u
  PROVE  TakeState'
<1>1. PICK w \in Workers : handler[w] = Idle /\ handler' = [handler EXCEPT ![w] = h]
  BY DEF BeginsWith
<1>2. /\ HandlersFit /\ entries' = entries /\ handler'[w] = h /\ Apart(h.op, h.u, h.from) /\ Present
      /\ \A v \in Workers \ {w} : handler'[v] = handler[v]
  BY <1>1 DEF BeginsWith, Typed, HandlersFit, Tables, State
<1>3. \A v \in Workers : Adds(v) \/ Takes(v) =>
        h.op = "share" \/ (h.u \notin handler[v].from /\ handler[v].u \notin h.from)
  <2>1. \A v \in Workers : Adds(v) \/ Takes(v) => handler[v] \in Busy /\ handler[v].op # "share"
    BY IdleFacts DEF Adds, Takes, Busy
  <2> QED BY <1>2, <2>1 DEF Apart
<1>4. ASSUME NEW v \in Workers, Takes(v)' PROVE TakeAt(v)'
  <2>1. CASE v = w
    <3>1. h.op = "take"
      BY <1>2, <1>4, <2>1 DEF Takes
    <3>2. \A k \in ToSet(h.todo) : CopyFits(h, k)' /\ Tree(Source(k))' = Tree(Source(k))
      BY <1>2, <3>1, CopyStays
    <3>3. Complete(h, h.todo)'
      BY <1>2, <3>1, <3>2, CompleteStays
    <3> QED BY <1>2, <2>1, <3>1, <3>2, <3>3, TakeGoesOn
  <2>2. CASE v # w
    <3>1. Takes(v) /\ handler'[v] = handler[v]
      BY <1>2, <1>4, <2>2 DEF Takes
    <3> QED BY <1>2, <3>1, OthersTake
  <2> QED BY <2>1, <2>2
<1>5. ASSUME NEW v \in Workers, Takes(v)', NEW x \in Workers \ {v}, Adds(x)' \/ Takes(x)'
      PROVE  handler'[x].u \notin handler'[v].from
  <2>1. CASE v = w
    <3>1. (Adds(x) \/ Takes(x)) /\ handler'[x] = handler[x] /\ h.op = "take"
      BY <1>2, <1>5, <2>1 DEF Adds, Takes
    <3> QED BY <1>2, <1>3, <2>1, <3>1
  <2>2. CASE x = w
    <3>1. Takes(v) /\ handler'[v] = handler[v] /\ h.op # "share"
      BY <1>2, <1>5, <2>2 DEF Adds, Takes
    <3> QED BY <1>2, <1>3, <2>2, <3>1
  <2>3. CASE v # w /\ x # w
    BY <1>2, <1>5, <2>3 DEF TakeState, Takes, Adds
  <2> QED BY <2>1, <2>2, <2>3
<1> QED BY <1>4, <1>5 DEF TakeState

\* The list of a take-over that begins: the items of the share, to be copied into a folder of the user.
LEMMA TakeOverComplete ==
  ASSUME Typed, ~ SelfShare, NEW u \in Users, NEW dir \in Paths(u), NEW items \in SUBSET entries, items # {},
         SelfShare \/ \A e \in items, g \in UNION {Copied(u, dir, d) : d \in items} :
                        ~(e.u = u /\ IsFolder(e.f) /\ IsPrefix(Inside(e), g.dir)),
         NEW h, h = TakeOver(u, dir, items)
  PROVE  (\A k \in ToSet(h.todo) : CopyFits(h, k)) /\ Complete(h, h.todo) /\ \A g \in h.goal : g.u = h.u
<1>1. /\ h.u = u /\ h.goal = UNION {Copied(u, dir, e) : e \in items}
      /\ ToSet(h.todo) = {Copy(u, dir, e.u, e) : e \in items}
  BY TakeOverFits
<1>2. ASSUME NEW e \in items, NEW k, k = Copy(u, dir, e.u, e)
      PROVE  /\ Source(k) = e /\ k.from = e.u /\ k.f = e.f
             /\ Copied(u, dir, e) = {CopyOf(k, d) : d \in Tree(e)}
  <2>1. e = [u |-> e.u, dir |-> e.dir, f |-> e.f]
    BY DEF Typed, Relations
  <2>2. k.u = u /\ k.dir = dir /\ k.from = e.u /\ k.fromdir = e.dir /\ k.f = e.f
    BY <1>2 DEF Copy
  <2>3. Source(k) = e
    BY <2>1, <2>2 DEF Source, Entry
  <2>4. \A d : CopyOf(k, d) = Entry(u, dir \o SubSeq(d.dir, Len(e.dir) + 1, Len(d.dir)), d.f)
    BY <2>2 DEF CopyOf
  <2> QED BY <2>2, <2>3, <2>4 DEF Copied
<1>3. \A g \in h.goal : g.u = h.u
  <2>1. ASSUME NEW e, NEW g \in Copied(u, dir, e) PROVE g.u = u
    <3>1. PICK d \in Tree(e) : g = Entry(u, dir \o SubSeq(d.dir, Len(e.dir) + 1, Len(d.dir)), d.f)
      BY DEF Copied
    <3> QED BY <3>1 DEF Entry
  <2> QED BY <1>1, <2>1
<1>4. ASSUME NEW e \in items, NEW k, k = Copy(u, dir, e.u, e) PROVE CopyFits(h, k)
  <2>1. Source(k) = e /\ k.from = e.u /\ k.f = e.f /\ Copied(u, dir, e) = {CopyOf(k, d) : d \in Tree(e)}
    BY <1>2, <1>4
  <2>2. Copied(u, dir, e) \subseteq h.goal
    BY <1>1
  <2>3. \A d \in Tree(e) : CopyOf(k, d) \in h.goal
    BY <2>1, <2>2
  <2>4. ASSUME IsFolder(k.f), NEW g \in h.goal, k.from = g.u, IsPrefix(Inside(Source(k)), g.dir) PROVE FALSE
    <3>1. e.u = u
      BY <1>1, <1>3, <2>1, <2>4
    <3> QED BY <1>1, <2>1, <2>4, <3>1
  <2> QED BY <2>1, <2>3, <2>4 DEF CopyFits
<1>5. Complete(h, h.todo)
  <2>1. ASSUME NEW g \in h.goal PROVE \E k \in ToSet(h.todo) : \E d \in Tree(Source(k)) : g = CopyOf(k, d)
    <3>1. PICK e \in items : g \in Copied(u, dir, e)
      BY <1>1, <2>1
    <3>2. PICK k : k = Copy(u, dir, e.u, e)
      OBVIOUS
    <3>3. k \in ToSet(h.todo)
      BY <1>1, <3>2
    <3> QED BY <1>2, <3>1, <3>2, <3>3
  <2> QED BY <2>1 DEF Complete
<1> QED BY <1>1, <1>3, <1>4, <1>5

\* Every step keeps what take-overs need, when no user takes over its own share into itself.
LEMMA TakeNext ==
  ASSUME Typed, State, State', TakeState, ~ Overlap, ~ SelfShare, [Next]_folderVars
  PROVE  TakeState'
<1>1. Present /\ Present'
  BY DEF State
<1>2. ASSUME UNCHANGED <<entries, handler>> PROVE TakeState'
  <2>1. \A v \in Workers : Takes(v) => TakeAt(v)'
    BY <1>1, <1>2, OthersTake
  <2> QED BY <1>2, <2>1 DEF TakeState, Takes, Adds
<1>3. ASSUME NEW u \in Users, NEW f \in Files, Upload(u, f) PROVE TakeState'
  <2>1. handler' = handler /\ Apart("add", u, {}) /\ entries \subseteq entries' /\ \A x \in entries' \ entries : x.u = u
    BY <1>3 DEF Upload, Entry
  <2>2. \A v \in Workers : Takes(v) => u \notin handler[v].from
    <3>1. \A v \in Workers : Takes(v) => handler[v] \in Busy /\ handler[v].op = "take"
      BY IdleFacts DEF Takes, Busy
    <3> QED BY <2>1, <3>1 DEF Apart
  <2>3. \A v \in Workers : Takes(v) => TakeAt(v)'
    BY <1>1, <2>1, <2>2, OthersTake
  <2> QED BY <2>1, <2>3 DEF TakeState, Takes, Adds
<1>4. ASSUME NEW u \in Users, Request(u) PROVE TakeState'
  <2>1. ASSUME NEW h, BeginsWith(u, h), h.op # "take" PROVE TakeState'
    BY <1>1, <2>1, TakeBegins
  <2>2. ASSUME NEW es \in Asked(u), BeginsWith(u, [Idle EXCEPT !.op = "delete", !.pc = "item", !.u = u,
                      !.items = SetToSeq(es), !.goal = UNION {Tree(e) : e \in es}])
        PROVE  TakeState'
    <3>1. [Idle EXCEPT !.op = "delete", !.pc = "item", !.u = u,
                       !.items = SetToSeq(es), !.goal = UNION {Tree(e) : e \in es}].op # "take"
      BY DEF Idle
    <3> QED BY <2>1, <2>2, <3>1
  <2>3. ASSUME NEW es \in Asked(u), NEW link \in Links,
               BeginsWith(u, [Idle EXCEPT !.op = "share", !.pc = "setlink", !.u = u,
                                          !.todo = SetToSeq(es), !.goal = es \X {link}])
        PROVE  TakeState'
    <3>1. [Idle EXCEPT !.op = "share", !.pc = "setlink", !.u = u,
                       !.todo = SetToSeq(es), !.goal = es \X {link}].op # "take"
      BY DEF Idle
    <3> QED BY <2>1, <2>3, <3>1
  <2>4. ASSUME NEW dir \in Paths(u), NEW name \in Names,
               BeginsWith(u, [Idle EXCEPT !.op = "add", !.pc = "stat", !.u = u,
                                          !.todo = <<Entry(u, dir, Folder(u, dir, name))>>])
        PROVE  TakeState'
    <3>1. [Idle EXCEPT !.op = "add", !.pc = "stat", !.u = u,
                       !.todo = <<Entry(u, dir, Folder(u, dir, name))>>].op # "take"
      BY DEF Idle
    <3> QED BY <2>1, <2>4, <3>1
  <2>5. ASSUME NEW dir \in Paths(u), NEW items \in SUBSET entries, items # {},
               SelfShare \/ \A e \in items, g \in UNION {Copied(u, dir, d) : d \in items} :
                              ~(e.u = u /\ IsFolder(e.f) /\ IsPrefix(Inside(e), g.dir)),
               BeginsWith(u, TakeOver(u, dir, items))
        PROVE  TakeState'
    <3>1. PICK h : h = TakeOver(u, dir, items)
      OBVIOUS
    <3>2. (\A k \in ToSet(h.todo) : CopyFits(h, k)) /\ Complete(h, h.todo) /\ \A g \in h.goal : g.u = h.u
      BY <2>5, <3>1, TakeOverComplete
    <3>3. BeginsWith(u, h)
      BY <2>5, <3>1
    <3> QED BY <1>1, <3>2, <3>3, TakeBegins
  <2> QED BY <1>3, <1>4, <2>2, <2>3, <2>4, <2>5, RequestBegins
<1>5. ASSUME NEW w \in Workers, WorkerStep(w) PROVE TakeState'
  BY <1>1, <1>5, WorkersKeepTakes
<1> QED BY <1>2, <1>4, <1>5 DEF Next, folderVars

\* A take-over that ends has its goal.
LEMMA AllTaken ==
  ASSUME Typed, State, State', TakeState, [Next]_folderVars, NEW w \in Workers, Takes(w), handler'[w] = Idle
  PROVE  handler[w].goal \subseteq entries'
<1>1. handler[w] # Idle /\ handler'[w] # handler[w]
  BY IdleFacts DEF Takes
<1>2. WorkerStep(w)
  BY <1>1, WhoseStep
<1>3. ~ Adds(w) /\ ~ Deletes(w) /\ ~ Shares(w)
  BY DEF Takes, Adds, Deletes, Shares
<1>4. InsertCopy(w) \/ CopyChildren(w)
  BY <1>2, <1>3, AddKeeps, AtWork, ShareKeeps DEF WorkerStep, ShareStep, Typed
<1> QED BY <1>4, OwnTake DEF State

\* What a take-over inserts is of its goal.
LEMMA NothingElse ==
  ASSUME Typed, State, State', TakeState, [Next]_folderVars, NEW w \in Workers, At(w, "insert"), handler'[w] # handler[w]
  PROVE  entries' \ entries \subseteq handler[w].goal
<1>1. handler[w] # Idle
  BY DEF At, Idle
<1>2. WorkerStep(w)
  BY <1>1, WhoseStep
<1>3. InsertCopy(w)
  BY <1>2 DEF At, WorkerStep, AddStep, DeleteStep, ShareStep, Stat, MakeDir, InsertFolderRow, SelectFolder, RelateFolder, DeleteOneItem,
              DeleteFolderRelation, DeleteChildren, DeleteFileRelation, LookForOthers, DeleteRow, Unlink, ShareItem, CopyChildren
<1>4. \A x \in entries' \ entries : x \in handler[w].goal
  <2>1. PICK h : h = handler[w]
    OBVIOUS
  <2>2. PICK c : c = Item(w)
    OBVIOUS
  <2>3. PICK rest : rest = Rest(w)
    OBVIOUS
  <2>4. \A x \in entries' \ entries : x \in h.goal /\ x.u = h.u
    BY <1>3, <2>1, <2>2, <2>3, InsertTakes DEF State
  <2> QED BY <2>1, <2>4
<1> QED BY <1>4

(* The recursions are exact: a deletion that ends has left nothing of its    *)
(* trees, unless another one of that user has still to come to it; a share   *)
(* that has been taken over is there with all that is below it              *)
(* (clogic.cpp 721-723), and nothing else was put there on the way.          *)
THEOREM WalksAreExact == ASSUME ~ Overlap, ~ SelfShare PROVE Spec => WalkExact
<1> DEFINE Exact(w) ==
      /\ Deletes(w) /\ handler'[w] = Idle /\ (\A v \in Workers \ {w} : Deletes(v) => handler[v].u # handler[w].u)
           => handler[w].goal \cap entries' = {}
      /\ handler[w].op = "take" /\ handler'[w] = Idle => handler[w].goal \subseteq entries'
      /\ At(w, "insert") /\ handler'[w] # handler[w] => entries' \ entries \subseteq handler[w].goal
<1>1. Init => Covered /\ TakeState
  <2>1. ASSUME Init PROVE \A w \in Workers : handler[w] = Idle
    BY <2>1 DEF Init
  <2> QED BY <2>1, IdleFacts DEF Covered, TakeState, Deletes, Takes
<1>2. Typed /\ State /\ State' /\ Covered /\ TakeState /\ [Next]_folderVars => Covered' /\ TakeState'
  BY CoveredNext, TakeNext
<1>3. Typed /\ State /\ State' /\ Covered /\ TakeState /\ [Next]_folderVars => [\A w \in Workers : Exact(w)]_folderVars
  <2> SUFFICES ASSUME Typed, State, State', Covered, TakeState, [Next]_folderVars, NEW w \in Workers
               PROVE  Exact(w)
    OBVIOUS
  <2> QED BY NothingLeft, AllTaken, NothingElse DEF Takes
<1>4. Spec => []Typed
  BY TypedAlways
<1>5. Spec => []State
  BY StateAlways
<1> QED BY <1>1, <1>2, <1>3, <1>4, <1>5, PTL DEF Spec, WalkExact
===============================================================================
