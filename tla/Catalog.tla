------------------------------- MODULE Catalog -------------------------------
(****************************************************************************)
(* Who has which file, src/src/clogic.cpp: t_file, t_user_file and the      *)
(* files on disk, under uploads, quick uploads, shares taken over by other  *)
(* users, and deletions, run concurrently by the workers of the pool.  One  *)
(* SQL statement, one open or one unlink is one step; nothing in the code   *)
(* puts two of them into a transaction.                                     *)
(*                                                                          *)
(* All files here have the same content (MD5) and lie in the root folder of *)
(* their user, so the path of a file is known by the user who uploaded it.  *)
(* Receiving the content is the subject of module Upload: here an upload    *)
(* that has begun may at some time be finished.                             *)
(****************************************************************************)
EXTENDS Integers, FiniteSets, Functions

CONSTANTS Users,
          Workers,   \* pool threads that run handlers
          MaxFile,   \* bound: rows ever inserted into t_file
          Overlap,   \* TRUE: a deletion may overlap with a handler that adds a relation
          NoUser     \* of a worker that runs no handler

ASSUME CatalogAssumption == /\ MaxFile \in Nat \ {0} /\ Overlap \in BOOLEAN
                            /\ NoUser \notin Users /\ IsFiniteSet(Workers)

VARIABLES
  rows,      \* t_file: f_id -> the user in f_path, and f_state
  inserted,  \* the last f_id given out (AUTO_INCREMENT)
  relations, \* t_user_file: <<u_id, f_id>>
  shared,    \* the relations with an s_link
  disk,      \* the paths that exist
  receiving, \* f_ids of the uploads that have been answered and send their content
  handler    \* per worker: where its handler is, for which user, file and path

catalogVars == <<rows, inserted, relations, shared, disk, receiving, handler>>

Files == 0..MaxFile   \* 0: the fid of a FileInfo before it is set (packdef.h 153)
Free == [pc |-> "idle", u |-> NoUser, f |-> 0, path |-> NoUser]

Init == /\ rows = <<>> /\ inserted = 0 /\ relations = {} /\ shared = {} /\ disk = {}
        /\ receiving = {} /\ handler = [w \in Workers |-> Free]

\* The view user_file_info: relations joined with their rows.
Visible(u, f) == <<u, f>> \in relations /\ f \in DOMAIN rows

Deleting == {"unrelate", "look", "unrow", "unlink"}
Adding == {"open", "insert", "fid", "link", "relate"}
Among(pcs) == \E w \in Workers : handler[w].pc \in pcs
Begins(w, pc, u, f, path) ==
  /\ handler[w] = Free
  /\ Overlap \/ ~Among(IF pc \in Deleting THEN Adding ELSE Deleting)
  /\ handler' = [handler EXCEPT ![w] = [pc |-> pc, u |-> u, f |-> f, path |-> path]]

At(w, pc) == handler[w].pc = pc
Goes(w, pc) == handler' = [handler EXCEPT ![w].pc = pc]
Ends(w) == handler' = [handler EXCEPT ![w] = Free]
-----------------------------------------------------------------------------
(* HandleUpFileRq, and the end of FileContentRq.                            *)

Finished == {f \in DOMAIN rows : rows[f].state = 1}

\* A finished file with this MD5 exists: only a relation is to be inserted.
QuickUpload(w, u) == /\ \E f \in Finished : Begins(w, "relate", u, f, u)
                     /\ UNCHANGED <<rows, inserted, relations, shared, disk, receiving>>

FullUpload(w, u) == /\ Finished = {}
                    /\ inserted + Cardinality({v \in Workers : handler[v].pc \in {"open", "insert"}}) < MaxFile
                    /\ Begins(w, "open", u, 0, u)
                    /\ UNCHANGED <<rows, inserted, relations, shared, disk, receiving>>

Open(w) == /\ At(w, "open")
           /\ disk' = disk \cup {handler[w].path}
           /\ Goes(w, "insert")
           /\ UNCHANGED <<rows, inserted, relations, shared, receiving>>

InsertRow(w) == /\ At(w, "insert")
                /\ inserted' = inserted + 1
                /\ rows' = [f \in DOMAIN rows \cup {inserted'} |->
                              IF f = inserted' THEN [owner |-> handler[w].path, state |-> 0] ELSE rows[f]]
                /\ Goes(w, "fid")
                /\ UNCHANGED <<relations, shared, disk, receiving>>

\* The first row with this path, or none at all.
SelectFid(w) ==
  /\ At(w, "fid")
  /\ LET found == {f \in DOMAIN rows : rows[f].owner = handler[w].path}
         fid == IF found = {} THEN 0 ELSE CHOOSE f \in found : \A g \in found : f <= g
     IN  handler' = [handler EXCEPT ![w].pc = "link", ![w].f = fid]
  /\ UNCHANGED <<rows, inserted, relations, shared, disk, receiving>>

\* INSERT INTO t_user_file of an upload, and its answer: now the client sends the content.
RelateUpload(w) == /\ At(w, "link")
                   /\ relations' = relations \cup {<<handler[w].u, handler[w].f>>}
                   /\ receiving' = receiving \cup {handler[w].f}
                   /\ Ends(w)
                   /\ UNCHANGED <<rows, inserted, shared, disk>>

\* INSERT INTO t_user_file of a quick upload or a share.
Relate(w) == /\ At(w, "relate")
             /\ relations' = relations \cup {<<handler[w].u, handler[w].f>>}
             /\ Ends(w)
             /\ UNCHANGED <<rows, inserted, shared, disk, receiving>>

\* update t_file set f_state=1: of a row deleted meanwhile, it changes nothing.
Finish(f) == /\ f \in receiving
             /\ receiving' = receiving \ {f}
             /\ rows' = [g \in DOMAIN rows |-> IF g = f THEN [rows[g] EXCEPT !.state = 1] ELSE rows[g]]
             /\ UNCHANGED <<inserted, relations, shared, disk, handler>>
-----------------------------------------------------------------------------
(* ShareItem and GetShareRq, for one file.                                  *)

ShareItem(u, f) == /\ <<u, f>> \in relations
                   /\ shared' = shared \cup {<<u, f>>}
                   /\ UNCHANGED <<rows, inserted, relations, disk, receiving, handler>>

GetShare(w, u) == /\ \E r \in shared : Visible(r[1], r[2]) /\ Begins(w, "relate", u, r[2], u)
                  /\ UNCHANGED <<rows, inserted, relations, shared, disk, receiving>>
-----------------------------------------------------------------------------
(* DeleteOneItem and DeleteFile, for one file.  Definitions named Mutant... *)
(* are plausible mistakes: each stands in for the definition after it to    *)
(* show that a property notices the mistake.                                *)

DeleteOneItem(w, u) == /\ \E f \in DOMAIN rows : Visible(u, f) /\ Begins(w, "unrelate", u, f, rows[f].owner)
                       /\ UNCHANGED <<rows, inserted, relations, shared, disk, receiving>>

\* The share link outlives the relation it is a link to.
MutantDeleteRelationKeepsLink(w) ==
  /\ At(w, "unrelate")
  /\ relations' = relations \ {<<handler[w].u, handler[w].f>>}
  /\ Goes(w, "look")
  /\ UNCHANGED <<rows, inserted, shared, disk, receiving>>

DeleteRelation(w) == LET r == <<handler[w].u, handler[w].f>>
                     IN  /\ At(w, "unrelate")
                         /\ relations' = relations \ {r}
                         /\ shared' = shared \ {r}
                         /\ Goes(w, "look")
                         /\ UNCHANGED <<rows, inserted, disk, receiving>>

Referenced(f) == \E u \in Users : <<u, f>> \in relations

\* Only the deleting user's relations are looked for.
MutantLookAtOwn(w) ==
  /\ At(w, "look")
  /\ IF <<handler[w].u, handler[w].f>> \in relations THEN Ends(w) ELSE Goes(w, "unrow")
  /\ UNCHANGED <<rows, inserted, relations, shared, disk, receiving>>

LookForOthers(w) == /\ At(w, "look")
                    /\ IF Referenced(handler[w].f) THEN Ends(w) ELSE Goes(w, "unrow")
                    /\ UNCHANGED <<rows, inserted, relations, shared, disk, receiving>>

DeleteRow(w) == /\ At(w, "unrow")
                /\ rows' = Restrict(rows, DOMAIN rows \ {handler[w].f})
                /\ Goes(w, "unlink")
                /\ UNCHANGED <<inserted, relations, shared, disk, receiving>>

\* The bytes are kept.
MutantUnlinkForgets(w) == /\ At(w, "unlink")
                          /\ Ends(w)
                          /\ UNCHANGED <<rows, inserted, relations, shared, disk, receiving>>

Unlink(w) == /\ At(w, "unlink")
             /\ disk' = disk \ {handler[w].path}
             /\ Ends(w)
             /\ UNCHANGED <<rows, inserted, relations, shared, receiving>>
-----------------------------------------------------------------------------
AddStep(w) == Open(w) \/ InsertRow(w) \/ SelectFid(w) \/ RelateUpload(w) \/ Relate(w)
DeleteStep(w) == DeleteRelation(w) \/ LookForOthers(w) \/ DeleteRow(w) \/ Unlink(w)
Request(w, u) == QuickUpload(w, u) \/ FullUpload(w, u) \/ GetShare(w, u) \/ DeleteOneItem(w, u)

Next == \/ \E w \in Workers : AddStep(w) \/ DeleteStep(w) \/ \E u \in Users : Request(w, u)
        \/ \E f \in Files : Finish(f) \/ \E u \in Users : ShareItem(u, f)

Spec == Init /\ [][Next]_catalogVars

\* A handler that has begun goes on; users need not ask for anything.
FairSpec == Spec /\ \A w \in Workers : WF_catalogVars(AddStep(w) \/ DeleteStep(w))
-----------------------------------------------------------------------------
\* Every variable has its type; a share is a share of a file its user still has.
TypeOK == /\ DOMAIN rows \subseteq 1..inserted /\ inserted \in 0..MaxFile
          /\ \A f \in DOMAIN rows : rows[f] \in [owner : Users, state : {0, 1}]
          /\ relations \subseteq Users \X Files /\ shared \subseteq relations
          /\ disk \subseteq Users /\ receiving \subseteq Files
          /\ \A w \in Workers : handler[w].pc \in Adding \cup Deleting \cup {"idle"}

(* DeleteFile removes the row and the file only when "really nobody refers   *)
(* to it any more" (clogic.cpp 1094-1100): whoever has a file in the list    *)
(* has its row and its bytes, however many users delete it at the same time. *)
ReferencedOnDisk == \A r \in relations : r[2] \in DOMAIN rows /\ rows[r[2]].owner \in disk

(* A file that somebody had and nobody has any longer is removed in the end, *)
(* its row and its bytes, also when the last users delete it at the same     *)
(* time and each could take the other for the one that still refers to it    *)
(* (clogic.cpp 1094-1104).  Where its bytes lay there may be another file    *)
(* of the user by then.                                                      *)
Had(f, u) == Referenced(f) /\ f \in DOMAIN rows /\ rows[f].owner = u
Gone(f, u) == f \notin DOMAIN rows /\ (u \in disk => \E g \in DOMAIN rows : rows[g].owner = u)
UnreferencedCollected ==
  \A f \in 1..MaxFile, u \in Users :
    [](Had(f, u) => [](~Referenced(f) => <>(Referenced(f) \/ Gone(f, u))))
===============================================================================
