-------------------------------- MODULE Folders --------------------------------
(****************************************************************************)
(* The folder tree, src/src/clogic.cpp: AddFolderRq, DeleteFileRq with the  *)
(* recursion of DeleteFolder, ShareFileRq, and GetShareRq with the recursion*)
(* of GetShareByFolder.  One SQL statement or one call of the file system   *)
(* is one step; what a recursion has still to visit, from lists it selected *)
(* before, is the stack `todo' of its handler.                              *)
(*                                                                          *)
(* A path is a sequence of names below the user's root.  The f_id of a      *)
(* folder is selected by the path it was made at, and its row is never      *)
(* deleted: so it is known by that path, and carries its name.  How a file  *)
(* gets its row and its bytes is the subject of Upload and Catalog: here it *)
(* is one step.                                                             *)
(****************************************************************************)
EXTENDS Integers, SequencesExt

CONSTANTS Users, Workers, Files, Links,
          Names,         \* names of folders
          MaxDepth,      \* bound: names in the path of a directory
          MaxRequests,   \* bound: requests
          Overlap,       \* TRUE: handlers may change what others walk through or refer to
          SelfShare,     \* TRUE: a user may take over its own share into the folders it is copied from
          MaxItems,      \* bound: items of a request
          InitEntries,   \* the relations at the start
          InitLinks,     \* and their links
          None           \* no user, no file, no link

VARIABLES
  entries,   \* t_user_file: [u, dir, f], each u_id, f_dir, f_id
  links,     \* s_link of t_user_file: <<entry, link>>
  rows,      \* t_file: the f_ids
  disk,      \* the files whose bytes are on disk
  dirs,      \* the directories on disk: <<user, path>>
  handler,   \* per worker: where its handler is, what it is at, what it has still to visit
  requests

folderVars == <<entries, links, rows, disk, dirs, handler, requests>>

\* The f_id of the folder made at a path.
Folder(u, dir, name) == [owner |-> u, at |-> dir, name |-> name]
FolderIds == [owner : Users, at : Seq(Names), name : Names]
Relations == [u : Users, dir : Seq(Names), f : Files \cup FolderIds]
IsFolder(f) == f \notin Files
Inside(e) == Append(e.dir, e.f.name)       \* the path of the folder of an entry: dir + name + "/"

\* A directory that is not the root is one the user has a folder for.
ASSUME FoldersAssumption ==
  /\ {MaxDepth, MaxRequests, MaxItems} \subseteq Nat /\ {Overlap, SelfShare} \subseteq BOOLEAN
  /\ None \notin {"add", "delete", "share", "take"} /\ \A f \in Files : f \notin FolderIds
  /\ IsFiniteSet(InitEntries) /\ \A e \in InitEntries : e \in Relations
  /\ \A e \in InitEntries : e.dir = <<>> \/ \E d \in InitEntries : d.u = e.u /\ IsFolder(d.f) /\ Inside(d) = e.dir
  /\ InitLinks \subseteq InitEntries \X Links
  /\ \A k, l \in InitLinks : (k[1] = l[1] => k = l) /\ (k[2] = l[2] => k[1].u = l[1].u)

\* items: requested, and not yet begun; todo: entries to delete, or to insert with the path they are copied
\* from; from: whose they are; goal: what there is, or is to be, when the walk begins (no variable of the code).
Idle == [pc |-> "idle", op |-> None, u |-> None, from |-> {}, items |-> <<>>, todo |-> <<>>, goal |-> {}]

Init == /\ entries = InitEntries /\ links = InitLinks
        /\ rows = {e.f : e \in InitEntries} /\ disk = {e.f : e \in InitEntries} \cap Files
        /\ dirs = {<<u, <<>> >> : u \in Users} \cup
                   {<<e.f.owner, Append(e.f.at, e.f.name)>> : e \in {d \in InitEntries : IsFolder(d.f)}}
        /\ handler = [w \in Workers |-> Idle] /\ requests = 0
-----------------------------------------------------------------------------
Entry(u, dir, f) == [u |-> u, dir |-> dir, f |-> f]

\* The view user_file_info: relations joined with their rows.
Visible == {e \in entries : e.f \in rows}
In(u, dir) == {e \in Visible : e.u = u /\ e.dir = dir}

\* The paths a user can go to: the root, and the folders that can be seen.
Paths(u) == {<<>>} \cup {Inside(e) : e \in {d \in Visible : d.u = u /\ IsFolder(d.f)}}

\* An entry and all that is below it.
Tree(e) == {e} \cup {d \in Visible : d.u = e.u /\ IsFolder(e.f) /\ IsPrefix(Inside(e), d.dir)}

Busy == {handler[w] : w \in Workers} \ {Idle}

\* Without Overlap: deletions keep away from additions, and nobody changes the tree somebody copies from.
Apart(op, u, from) ==
  \A h \in Busy : \/ "share" \in {op, h.op}
                  \/ (h.op = "delete") = (op = "delete") /\ h.u \notin from /\ u \notin h.from

Begins(h) ==
  /\ requests < MaxRequests
  /\ requests' = requests + 1
  /\ Overlap \/ Apart(h.op, h.u, h.from)
  /\ \E w \in Workers :
       /\ handler[w] = Idle /\ w = CHOOSE v \in Workers : handler[v] = Idle   \* the workers are alike
       /\ handler' = [handler EXCEPT ![w] = h]

\* What a request asks for: items of one directory.
Asked(u) == {es \in UNION {SUBSET In(u, dir) : dir \in Paths(u)} : Cardinality(es) \in 1..MaxItems}

At(w, pc) == handler[w].pc = pc
Goes(w, pc) == handler' = [handler EXCEPT ![w].pc = pc]
Item(w) == Head(handler[w].todo)
Rest(w) == Tail(handler[w].todo)

\* The handler goes on with the first item of what is left, or with the next one requested, or ends.
Proceeds(w, todo) ==
  LET h == handler[w]
      pc == IF todo = <<>> THEN "item"
            ELSE CASE h.op = "share"  -> "setlink"
                   [] h.op = "take"   -> "insert"
                   [] h.op = "delete" -> IF IsFolder(Head(todo).f) THEN "unfolder" ELSE "unrelate"
  IN  handler' = [handler EXCEPT ![w] = IF todo = <<>> /\ h.items = <<>> THEN Idle
                                        ELSE [h EXCEPT !.todo = todo, !.pc = pc]]
-----------------------------------------------------------------------------
(* A file gets into a folder: a new one, which needs the directory on disk, *)
(* or one the server has already.                                           *)

Upload(u, f) == \E dir \in Paths(u) :
  /\ f \in rows \/ <<u, dir>> \in dirs
  /\ requests < MaxRequests
  /\ Overlap \/ Apart("add", u, {})
  /\ requests' = requests + 1
  /\ entries' = entries \cup {Entry(u, dir, f)}
  /\ rows' = rows \cup {f} /\ disk' = disk \cup {f}
  /\ UNCHANGED <<links, dirs, handler>>
-----------------------------------------------------------------------------
(* AddFolderRq.                                                             *)

AddFolder(u, name) == \E dir \in Paths(u) :
  /\ Len(dir) < MaxDepth
  /\ Begins([Idle EXCEPT !.op = "add", !.pc = "stat", !.u = u, !.todo = <<Entry(u, dir, Folder(u, dir, name))>>])
  /\ UNCHANGED <<entries, links, rows, disk, dirs>>

Stat(w) == /\ At(w, "stat")
           /\ Goes(w, IF <<Item(w).u, Inside(Item(w))>> \in dirs THEN "row" ELSE "mkdir")
           /\ UNCHANGED <<entries, links, rows, disk, dirs, requests>>

\* mkdir fails when the directory above is not there, and when this one is there meanwhile.
MakeDir(w) ==
  LET e == Item(w)
  IN  /\ At(w, "mkdir")
      /\ IF <<e.u, e.dir>> \in dirs /\ <<e.u, Inside(e)>> \notin dirs
         THEN dirs' = dirs \cup {<<e.u, Inside(e)>>} /\ Goes(w, "row")
         ELSE handler' = [handler EXCEPT ![w] = Idle] /\ UNCHANGED dirs
      /\ UNCHANGED <<entries, links, rows, disk, requests>>

\* insert into t_file.
InsertFolderRow(w) == /\ At(w, "row")
                      /\ rows' = rows \cup {Item(w).f}
                      /\ Goes(w, "fid")
                      /\ UNCHANGED <<entries, links, disk, dirs, requests>>

\* The f_id is selected by the path; without one the request fails.
SelectFolder(w) == /\ At(w, "fid")
                   /\ IF Item(w).f \in rows THEN Goes(w, "relate") ELSE handler' = [handler EXCEPT ![w] = Idle]
                   /\ UNCHANGED <<entries, links, rows, disk, dirs, requests>>

\* insert into t_user_file.
RelateFolder(w) == /\ At(w, "relate")
                   /\ entries' = entries \cup {Item(w)}
                   /\ handler' = [handler EXCEPT ![w] = Idle]
                   /\ UNCHANGED <<links, rows, disk, dirs, requests>>
-----------------------------------------------------------------------------
(* DeleteFileRq, DeleteOneItem, DeleteFolder and DeleteFile.  Definitions   *)
(* named Mutant... are plausible mistakes: each stands in for the           *)
(* definition after it to show that a property notices it.                  *)

DeleteFiles(u) == \E es \in Asked(u) :
  /\ Begins([Idle EXCEPT !.op = "delete", !.pc = "item", !.u = u,
                         !.items = SetToSeq(es), !.goal = UNION {Tree(e) : e \in es}])
  /\ UNCHANGED <<entries, links, rows, disk, dirs>>

\* select the next item: passed over when it is not there any more.
DeleteOneItem(w) ==
  LET e == Head(handler[w].items)
      rest == Tail(handler[w].items)
      isHere == e \in Visible
      pc == IF ~isHere THEN "item" ELSE IF IsFolder(e.f) THEN "unfolder" ELSE "unrelate"
  IN  /\ At(w, "item")
      /\ handler' = [handler EXCEPT ![w] =
           IF ~isHere /\ rest = <<>> THEN Idle
           ELSE [@ EXCEPT !.items = rest, !.todo = IF isHere THEN <<e>> ELSE <<>>, !.pc = pc]]
      /\ UNCHANGED <<entries, links, rows, disk, dirs, requests>>

WithoutEntry(e) == /\ entries' = entries \ {e}
                   /\ links' = {l \in links : l[1] # e}

\* delete the relation of a folder.  Its row and its directory stay.
DeleteFolderRelation(w) == /\ At(w, "unfolder")
                           /\ WithoutEntry(Item(w))
                           /\ Goes(w, "children")
                           /\ UNCHANGED <<rows, disk, dirs, requests>>

\* The folders in the folder are passed over.
MutantDeleteChildren(w) ==
  LET e == Item(w)
  IN  /\ At(w, "children") /\ handler[w].op = "delete"
      /\ Proceeds(w, SetToSeq({d \in In(e.u, Inside(e)) : ~IsFolder(d.f)}) \o Rest(w))
      /\ UNCHANGED <<entries, links, rows, disk, dirs, requests>>

\* The folder stays in the list.
MutantDeleteChildrenAgain(w) ==
  LET e == Item(w)
  IN  /\ At(w, "children") /\ handler[w].op = "delete"
      /\ Proceeds(w, SetToSeq(In(e.u, Inside(e))) \o handler[w].todo)
      /\ UNCHANGED <<entries, links, rows, disk, dirs, requests>>

\* select what is in the folder: visited one after the other, each folder with all that is in it.
DeleteChildren(w) ==
  LET e == Item(w)
  IN  /\ At(w, "children") /\ handler[w].op = "delete"
      /\ Proceeds(w, SetToSeq(In(e.u, Inside(e))) \o Rest(w))
      /\ UNCHANGED <<entries, links, rows, disk, dirs, requests>>

DeleteFileRelation(w) == /\ At(w, "unrelate")
                         /\ WithoutEntry(Item(w))
                         /\ Goes(w, "look")
                         /\ UNCHANGED <<rows, disk, dirs, requests>>

Referenced(f) == \E e \in entries : e.f = f

\* Only relations of the deleting user are looked for.
MutantLookForOthers(w) ==
  /\ At(w, "look")
  /\ IF \E e \in entries : e.f = Item(w).f /\ e.u = Item(w).u THEN Proceeds(w, Rest(w)) ELSE Goes(w, "unrow")
  /\ UNCHANGED <<entries, links, rows, disk, dirs, requests>>

LookForOthers(w) ==
  /\ At(w, "look")
  /\ IF Referenced(Item(w).f) THEN Proceeds(w, Rest(w)) ELSE Goes(w, "unrow")
  /\ UNCHANGED <<entries, links, rows, disk, dirs, requests>>

DeleteRow(w) == /\ At(w, "unrow")
                /\ rows' = rows \ {Item(w).f}
                /\ Goes(w, "unlink")
                /\ UNCHANGED <<entries, links, disk, dirs, requests>>

Unlink(w) == /\ At(w, "unlink")
             /\ disk' = disk \ {Item(w).f}
             /\ Proceeds(w, Rest(w))
             /\ UNCHANGED <<entries, links, rows, dirs, requests>>
-----------------------------------------------------------------------------
(* ShareFileRq and ShareItem: a link no relation has; then the relations of *)
(* the items are given it.                                                  *)

\* Whatever number is drawn is used.
MutantInUse(link) == FALSE

InUse(link) == \E l \in links : l[2] = link

\* A number of nine digits is drawn until no relation has it; another request may have drawn it, too.
Share(u) == \E es \in Asked(u), link \in {l \in Links : ~InUse(l)} :
  /\ Begins([Idle EXCEPT !.op = "share", !.pc = "setlink", !.u = u, !.todo = SetToSeq(es), !.goal = es \X {link}])
  /\ UNCHANGED <<entries, links, rows, disk, dirs>>

\* The link is set whether the relation is there or not.
MutantShareItem(w) == /\ At(w, "setlink")
                      /\ links' = {l \in links : l[1] # Item(w)} \cup {l \in handler[w].goal : l[1] = Item(w)}
                      /\ Proceeds(w, Rest(w))
                      /\ UNCHANGED <<entries, rows, disk, dirs, requests>>

\* update t_user_file: of a relation deleted meanwhile, it changes nothing.
ShareItem(w) == /\ At(w, "setlink")
                /\ links' = {l \in links : l[1] # Item(w)} \cup
                              {l \in handler[w].goal : l[1] = Item(w) /\ l[1] \in entries}
                /\ Proceeds(w, Rest(w))
                /\ UNCHANGED <<entries, rows, disk, dirs, requests>>
-----------------------------------------------------------------------------
(* GetShareRq, GetShareByFile and GetShareByFolder.                         *)

Copy(u, dir, from, e) == [u |-> u, dir |-> dir, f |-> e.f, from |-> from, fromdir |-> e.dir]

\* What is to be there when the share is taken over: the tree, below dir.
Copied(u, dir, e) ==
  {Entry(u, dir \o SubSeq(d.dir, Len(e.dir) + 1, Len(d.dir)), d.f) : d \in Tree(e)}

\* The items of the share are selected by the link.
GetShare(u) == \E link \in Links, dir \in Paths(u) :
  LET items == {e \in Visible : <<e, link>> \in links}
      goal == UNION {Copied(u, dir, e) : e \in items}
  IN  /\ items # {}
      /\ \A g \in goal : Len(g.dir) <= MaxDepth
      /\ SelfShare \/ \A e \in items, g \in goal : ~(e.u = u /\ IsFolder(e.f) /\ IsPrefix(Inside(e), g.dir))
      /\ Begins([Idle EXCEPT !.op = "take", !.pc = "insert", !.u = u, !.from = {e.u : e \in items},
                             !.todo = SetToSeq({Copy(u, dir, e.u, e) : e \in items}), !.goal = goal])
      /\ UNCHANGED <<entries, links, rows, disk, dirs>>

\* insert into t_user_file.
InsertCopy(w) == LET c == Item(w)
                 IN  /\ At(w, "insert")
                     /\ entries' = entries \cup {Entry(c.u, c.dir, c.f)}
                     /\ IF IsFolder(c.f) THEN Goes(w, "children") ELSE Proceeds(w, Rest(w))
                     /\ UNCHANGED <<links, rows, disk, dirs, requests>>

\* The copies go where the folder went, and not into it.
MutantCopyChildren(w) ==
  LET c == Item(w)
      fromdir == Append(c.fromdir, c.f.name)
  IN  /\ At(w, "children") /\ handler[w].op = "take"
      /\ Proceeds(w, SetToSeq({Copy(c.u, c.dir, c.from, e) : e \in In(c.from, fromdir)}) \o Rest(w))
      /\ UNCHANGED <<entries, links, rows, disk, dirs, requests>>

\* select what the sharer has in the folder: copied into the folder just inserted.
CopyChildren(w) ==
  LET c == Item(w)
      fromdir == Append(c.fromdir, c.f.name)
  IN  /\ At(w, "children") /\ handler[w].op = "take"
      /\ Proceeds(w, SetToSeq({Copy(c.u, Inside(c), c.from, e) : e \in In(c.from, fromdir)}) \o Rest(w))
      /\ UNCHANGED <<entries, links, rows, disk, dirs, requests>>
-----------------------------------------------------------------------------
AddStep(w) == Stat(w) \/ MakeDir(w) \/ InsertFolderRow(w) \/ SelectFolder(w) \/ RelateFolder(w)
DeleteStep(w) == \/ DeleteOneItem(w) \/ DeleteFolderRelation(w) \/ DeleteChildren(w) \/ DeleteFileRelation(w)
                 \/ LookForOthers(w) \/ DeleteRow(w) \/ Unlink(w)
ShareStep(w) == ShareItem(w) \/ InsertCopy(w) \/ CopyChildren(w)
WorkerStep(w) == AddStep(w) \/ DeleteStep(w) \/ ShareStep(w)
Request(u) == \/ DeleteFiles(u) \/ Share(u) \/ GetShare(u)
              \/ \E name \in Names : AddFolder(u, name)
              \/ \E f \in Files : Upload(u, f)

Next == (\E w \in Workers : WorkerStep(w)) \/ \E u \in Users : Request(u)

Spec == Init /\ [][Next]_folderVars

\* A handler that has begun goes on; users need not ask for anything.
FairSpec == Spec /\ \A w \in Workers : WF_folderVars(WorkerStep(w))
-----------------------------------------------------------------------------
\* Every variable has its type; only relations there are have links, and one each.
TypeOK == /\ \A e \in entries : e \in Relations
          /\ \A l \in links : l[1] \in entries /\ l[2] \in Links /\ \A k \in links : k[1] = l[1] => k = l
          /\ disk \subseteq Files /\ \A d \in dirs : d[1] \in Users
          /\ \A w \in Workers : handler[w] = Idle \/ handler[w].todo # <<>> \/ handler[w].items # <<>>
          /\ requests \in 0..MaxRequests

Quiet == Busy = {}

(* When nothing is under way, whatever a user has lies in a folder the user  *)
(* has: nothing is left where no list shows it, and no walk leaves its       *)
(* recursion half done.                                                      *)
NoOrphans == Quiet => \A e \in entries : e.dir \in Paths(e.u)

(* When nothing is under way, a file has its row and its bytes exactly as    *)
(* long as somebody has it ("really nobody refers to it", clogic.cpp 1100),  *)
(* also when trees that share files are deleted at the same time.            *)
FilesMatchEntries == Quiet => \A f \in Files : Referenced(f) = (f \in rows) /\ Referenced(f) = (f \in disk)

(* A deletion that ends has left nothing of the tree, but for what another   *)
(* deletion of that user has selected and not come to; a share that has been *)
(* taken over is there with all that is below it (clogic.cpp 721-723), and   *)
(* nothing else was put there on the way.                                    *)
Deletes(w) == handler[w].op = "delete"
WalkExact ==
  [][\A w \in Workers :
       /\ Deletes(w) /\ handler'[w] = Idle /\ (\A v \in Workers \ {w} : Deletes(v) => handler[v].u # handler[w].u)
            => handler[w].goal \cap entries' = {}
       /\ handler[w].op = "take" /\ handler'[w] = Idle => handler[w].goal \subseteq entries'
       /\ At(w, "insert") /\ handler'[w] # handler[w] => entries' \ entries \subseteq handler[w].goal]_folderVars

(* A link is one user's: it shows the items of one request, for its number   *)
(* was looked up ("whether the link exists already", clogic.cpp 634).        *)
LinkIsOneUsers == \A k, l \in links : k[2] = l[2] => k[1].u = l[1].u

(* Only the race between that look and the use of the number gives two users *)
(* one link: unless shares of two users that are under way at the same time  *)
(* have drawn the same number, a link is one user's, whatever is shared      *)
(* anew, taken over and deleted meanwhile.                                   *)
Shares(w) == handler[w].op = "share"
DrawnApart == \A v, w \in Workers : Shares(v) /\ Shares(w) /\ handler[v].u # handler[w].u =>
                \A k \in handler[v].goal, l \in handler[w].goal : k[2] # l[2]
OneUsersUnlessDrawnTwice == []DrawnApart => []LinkIsOneUsers

(* A handler that has begun ends: the recursions do not go on for ever.      *)
WalksEnd == \A w \in Workers : handler[w] # Idle ~> handler[w] = Idle
===============================================================================
