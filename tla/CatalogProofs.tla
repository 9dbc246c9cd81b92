---------------------------- MODULE CatalogProofs ----------------------------
(****************************************************************************)
(* Theorems about Catalog: type correctness for every set of users and of   *)
(* workers, and, when deletions keep away from handlers that add a          *)
(* relation, that whoever has a file in the list has its row and its bytes. *)
(****************************************************************************)
EXTENDS Catalog, FiniteSetTheorems, WellFoundedInduction, TLAPS

Handlers == [pc : Adding \cup Deleting \cup {"idle"}, u : Users \cup {NoUser}, f : Files, path : Users \cup {NoUser}]

\* The uploads that are going to insert a row.
Opening == {v \in Workers : handler[v].pc \in {"open", "insert"}}

\* A handler that is not idle is one for a user and a path; f_ids are given out within the bound.
TypeInv ==
  /\ TypeOK
  /\ handler \in [Workers -> Handlers]
  /\ \A w \in Workers : handler[w].pc # "idle" => handler[w].u \in Users /\ handler[w].path \in Users
  /\ inserted + Cardinality(Opening) <= MaxFile

\* A set of natural numbers that is not empty has a smallest one.
LEMMA SmallestExists ==
  ASSUME NEW S, S \subseteq Nat, S # {}
  PROVE  \E f \in S : \A g \in S : f <= g
<1> DEFINE R == {ss \in Nat \X Nat : ss[1] < ss[2]}
<1>1. IsWellFoundedOn(R, Nat)
  BY NatLessThanWellFounded, Zenon DEF OpToRel
<1>2. \A f, g \in Nat : g < f => <<g, f>> \in R
  OBVIOUS
<1> HIDE DEF R
<1>3. \E f \in S : \A g \in S : ~ (<<g, f>> \in R)
  BY <1>1, WFMin
<1>4. PICK f \in S : \A g \in S : ~ (<<g, f>> \in R)
  BY <1>3
<1>5. ASSUME NEW g \in S
      PROVE  f <= g
  <2>1. f \in Nat /\ g \in Nat
    OBVIOUS
  <2>2. ~(g < f)
    BY <1>2, <1>4, <2>1
  <2> QED BY <2>1, <2>2
<1> QED BY <1>5

\* The row an upload is given by SelectFid: the first of its path, when there is one.
LEMMA FirstFound ==
  ASSUME TypeInv, NEW p, NEW found, found = {f \in DOMAIN rows : rows[f].owner = p}, found # {}
  PROVE  /\ (CHOOSE f \in found : \A g \in found : f <= g) \in found
         /\ \A g \in found : (CHOOSE f \in found : \A h \in found : f <= h) <= g
<1>1. found \subseteq Nat
  BY DEF TypeInv, TypeOK
<1>2. \E f \in found : \A g \in found : f <= g
  BY <1>1, SmallestExists
<1> QED BY <1>2

\* A handler goes on, ends or begins: what that means for the handlers.
LEMMA GoesType ==
  ASSUME handler \in [Workers -> Handlers], NEW w \in Workers, NEW pc \in Adding \cup Deleting, Goes(w, pc)
  PROVE  /\ handler' \in [Workers -> Handlers] /\ handler'[w] = [handler[w] EXCEPT !.pc = pc]
         /\ \A v \in Workers \ {w} : handler'[v] = handler[v]
  BY DEF Goes, Handlers

\* A handler that ends.
LEMMA EndsType ==
  ASSUME handler \in [Workers -> Handlers], NEW w \in Workers, Ends(w)
  PROVE  /\ handler' \in [Workers -> Handlers] /\ handler'[w] = Free
         /\ \A v \in Workers \ {w} : handler'[v] = handler[v]
  BY CatalogAssumption DEF Ends, Handlers, Free, Files

\* A handler that begins.
LEMMA BeginsType ==
  ASSUME handler \in [Workers -> Handlers], NEW w \in Workers, NEW pc \in Adding \cup Deleting,
         NEW u \in Users, NEW f \in Files, NEW path \in Users, Begins(w, pc, u, f, path)
  PROVE  /\ handler' \in [Workers -> Handlers] /\ handler[w].pc = "idle"
         /\ handler'[w] = [pc |-> pc, u |-> u, f |-> f, path |-> path]
         /\ \A v \in Workers \ {w} : handler'[v] = handler[v]
  BY DEF Begins, Handlers, Free

\* How many uploads are going to insert a row after a step of one worker.
LEMMA OpeningStep ==
  ASSUME NEW w \in Workers, \A v \in Workers \ {w} : handler'[v] = handler[v]
  PROVE  /\ Cardinality(Opening) \in Nat
         /\ Cardinality(Opening)' = Cardinality(Opening)
              + (IF w \notin Opening /\ handler'[w].pc \in {"open", "insert"} THEN 1 ELSE 0)
              - (IF w \in Opening /\ handler'[w].pc \notin {"open", "insert"} THEN 1 ELSE 0)
<1>1. IsFiniteSet(Opening)
  BY CatalogAssumption, FS_Subset DEF Opening
<1>2. Cardinality(Opening) \in Nat
  BY <1>1, FS_CardinalityType
<1>3. CASE handler'[w].pc \in {"open", "insert"}
  <2>1. Opening' = Opening \cup {w}
    BY <1>3 DEF Opening
  <2>2. Cardinality(Opening)' = IF w \in Opening THEN Cardinality(Opening) ELSE Cardinality(Opening) + 1
    BY <1>1, <2>1, FS_AddElement
  <2> QED BY <1>2, <1>3, <2>2
<1>4. CASE handler'[w].pc \notin {"open", "insert"}
  <2>1. Opening' = Opening \ {w}
    BY <1>4 DEF Opening
  <2>2. Cardinality(Opening)' = IF w \in Opening THEN Cardinality(Opening) - 1 ELSE Cardinality(Opening)
    BY <1>1, <2>1, FS_RemoveElement
  <2> QED BY <1>2, <1>4, <2>2
<1> QED BY <1>3, <1>4

-------------------------------------------------------------------------------
\* Every statement, open and unlink keeps the types and the bound on f_ids.
LEMMA TypeStep ==
  ASSUME TypeInv, [Next]_catalogVars
  PROVE  TypeInv'
<1>1. /\ DOMAIN rows \subseteq 1..inserted /\ inserted \in 0..MaxFile /\ MaxFile \in Nat
      /\ \A f \in DOMAIN rows : rows[f] \in [owner : Users, state : {0, 1}]
      /\ relations \subseteq Users \X Files /\ shared \subseteq relations
      /\ disk \subseteq Users /\ receiving \subseteq Files
      /\ handler \in [Workers -> Handlers] /\ inserted + Cardinality(Opening) <= MaxFile
      /\ \A w \in Workers : handler[w].pc # "idle" => handler[w].u \in Users /\ handler[w].path \in Users
  BY CatalogAssumption DEF TypeInv, TypeOK
<1>2. ASSUME DOMAIN rows' \subseteq 1..inserted', inserted' \in 0..MaxFile,
             \A f \in DOMAIN rows' : rows'[f] \in [owner : Users, state : {0, 1}],
             relations' \subseteq Users \X Files, shared' \subseteq relations',
             disk' \subseteq Users, receiving' \subseteq Files,
             handler' \in [Workers -> Handlers], inserted' + Cardinality(Opening)' <= MaxFile,
             \A w \in Workers : handler'[w].pc # "idle" => handler'[w].u \in Users /\ handler'[w].path \in Users
      PROVE  TypeInv'
  <2>1. \A w \in Workers : handler'[w].pc \in Adding \cup Deleting \cup {"idle"}
    BY <1>2 DEF Handlers
  <2> QED BY <1>2, <2>1 DEF TypeInv, TypeOK
<1>3. ASSUME NEW w \in Workers, handler' \in [Workers -> Handlers],
             \A v \in Workers \ {w} : handler'[v] = handler[v]
      PROVE  /\ Cardinality(Opening) \in Nat
             /\ Cardinality(Opening)' \in Int
             /\ handler'[w].pc \notin {"open", "insert"} \/ handler[w].pc \in {"open", "insert"}
                  => Cardinality(Opening)' <= Cardinality(Opening)
             /\ handler[w].pc \in {"open", "insert"} /\ handler'[w].pc \notin {"open", "insert"}
                  => Cardinality(Opening)' = Cardinality(Opening) - 1
             /\ Cardinality(Opening)' <= Cardinality(Opening) + 1
             /\ (\A v \in Workers : handler'[v].pc # "idle" => handler'[v].u \in Users /\ handler'[v].path \in Users)
                  <=> (handler'[w].pc # "idle" => handler'[w].u \in Users /\ handler'[w].path \in Users)
  <2>1. w \in Opening <=> handler[w].pc \in {"open", "insert"}
    BY DEF Opening
  <2> QED BY <1>1, <1>3, <2>1, OpeningStep
<1>4. ASSUME NEW w \in Workers, NEW u \in Users, QuickUpload(w, u) \/ GetShare(w, u)
      PROVE  TypeInv'
  <2>1. PICK f \in Files : Begins(w, "relate", u, f, u)
    <3>1. Finished \subseteq Files
      BY <1>1 DEF Finished, Files
    <3> QED BY <1>1, <1>4, <3>1 DEF QuickUpload, GetShare
  <2>2. /\ handler' \in [Workers -> Handlers] /\ handler[w].pc = "idle"
        /\ handler'[w] = [pc |-> "relate", u |-> u, f |-> f, path |-> u]
        /\ \A v \in Workers \ {w} : handler'[v] = handler[v]
    BY <1>1, <2>1, BeginsType DEF Adding
  <2>3. UNCHANGED <<rows, inserted, relations, shared, disk, receiving>>
    BY <1>4 DEF QuickUpload, GetShare
  <2>4. Cardinality(Opening)' <= Cardinality(Opening) /\ Cardinality(Opening)' \in Int /\ Cardinality(Opening) \in Nat
    BY <1>3, <2>2
  <2>5. \A v \in Workers : handler'[v].pc # "idle" => handler'[v].u \in Users /\ handler'[v].path \in Users
    BY <1>1, <2>2
  <2> QED BY <1>1, <1>2, <2>2, <2>3, <2>4, <2>5
<1>5. ASSUME NEW w \in Workers, NEW u \in Users, FullUpload(w, u)
      PROVE  TypeInv'
  <2>1. Begins(w, "open", u, 0, u) /\ 0 \in Files
    BY <1>1, <1>5 DEF FullUpload, Files
  <2>2. /\ handler' \in [Workers -> Handlers] /\ handler[w].pc = "idle"
        /\ handler'[w] = [pc |-> "open", u |-> u, f |-> 0, path |-> u]
        /\ \A v \in Workers \ {w} : handler'[v] = handler[v]
    BY <1>1, <2>1, BeginsType DEF Adding
  <2>3. UNCHANGED <<rows, inserted, relations, shared, disk, receiving>> /\ inserted + Cardinality(Opening) < MaxFile
    BY <1>5 DEF FullUpload, Opening
  <2>4. Cardinality(Opening)' <= Cardinality(Opening) + 1 /\ Cardinality(Opening)' \in Int /\ Cardinality(Opening) \in Nat
    BY <1>3, <2>2
  <2>5. \A v \in Workers : handler'[v].pc # "idle" => handler'[v].u \in Users /\ handler'[v].path \in Users
    BY <1>1, <2>2
  <2> QED BY <1>1, <1>2, <2>2, <2>3, <2>4, <2>5
<1>6. ASSUME NEW w \in Workers, NEW u \in Users, DeleteOneItem(w, u)
      PROVE  TypeInv'
  <2>1. PICK f \in DOMAIN rows : Begins(w, "unrelate", u, f, rows[f].owner)
    BY <1>6 DEF DeleteOneItem
  <2>2. f \in Files /\ rows[f].owner \in Users
    BY <1>1, <2>1 DEF Files
  <2>3. /\ handler' \in [Workers -> Handlers] /\ handler[w].pc = "idle"
        /\ handler'[w] = [pc |-> "unrelate", u |-> u, f |-> f, path |-> rows[f].owner]
        /\ \A v \in Workers \ {w} : handler'[v] = handler[v]
    BY <1>1, <2>1, <2>2, BeginsType DEF Deleting
  <2>4. UNCHANGED <<rows, inserted, relations, shared, disk, receiving>>
    BY <1>6 DEF DeleteOneItem
  <2>5. Cardinality(Opening)' <= Cardinality(Opening) /\ Cardinality(Opening)' \in Int /\ Cardinality(Opening) \in Nat
    BY <1>3, <2>3
  <2>6. \A v \in Workers : handler'[v].pc # "idle" => handler'[v].u \in Users /\ handler'[v].path \in Users
    BY <1>1, <2>2, <2>3
  <2> QED BY <1>1, <1>2, <2>3, <2>4, <2>5, <2>6
<1>7. ASSUME NEW w \in Workers, NEW pc \in Adding \cup Deleting, Goes(w, pc), handler[w].pc # "idle",
             pc \notin {"open", "insert"} \/ handler[w].pc \in {"open", "insert"}
      PROVE  /\ handler' \in [Workers -> Handlers]
             /\ Cardinality(Opening)' <= Cardinality(Opening)
             /\ Cardinality(Opening)' \in Int /\ Cardinality(Opening) \in Nat
             /\ handler[w].pc \in {"open", "insert"} /\ pc \notin {"open", "insert"}
                  => Cardinality(Opening)' = Cardinality(Opening) - 1
             /\ \A v \in Workers : handler'[v].pc # "idle" => handler'[v].u \in Users /\ handler'[v].path \in Users
  <2>1. /\ handler' \in [Workers -> Handlers] /\ handler'[w] = [handler[w] EXCEPT !.pc = pc]
        /\ \A v \in Workers \ {w} : handler'[v] = handler[v]
    BY <1>1, <1>7, GoesType
  <2>2. handler'[w].pc = pc /\ handler'[w].u = handler[w].u /\ handler'[w].path = handler[w].path
    BY <1>1, <2>1 DEF Handlers
  <2> QED BY <1>1, <1>3, <1>7, <2>1, <2>2
<1>8. ASSUME NEW w \in Workers, Ends(w)
      PROVE  /\ handler' \in [Workers -> Handlers]
             /\ Cardinality(Opening)' <= Cardinality(Opening)
             /\ Cardinality(Opening)' \in Int /\ Cardinality(Opening) \in Nat
             /\ \A v \in Workers : handler'[v].pc # "idle" => handler'[v].u \in Users /\ handler'[v].path \in Users
  <2>1. /\ handler' \in [Workers -> Handlers] /\ handler'[w].pc = "idle"
        /\ \A v \in Workers \ {w} : handler'[v] = handler[v]
    BY <1>1, <1>8, EndsType DEF Free
  <2> QED BY <1>1, <1>3, <2>1
<1>9. ASSUME NEW w \in Workers, Open(w)
      PROVE  TypeInv'
  <2>1. /\ handler[w].pc = "open" /\ Goes(w, "insert") /\ disk' = disk \cup {handler[w].path}
        /\ UNCHANGED <<rows, inserted, relations, shared, receiving>> /\ "insert" \in Adding
    BY <1>9 DEF Open, At, Adding
  <2>2. disk' \subseteq Users
    BY <1>1, <2>1
  <2> QED BY <1>1, <1>2, <1>7, <2>1, <2>2
<1>10. ASSUME NEW w \in Workers, InsertRow(w)
       PROVE  TypeInv'
  <2>1. /\ handler[w].pc = "insert" /\ Goes(w, "fid") /\ inserted' = inserted + 1
        /\ rows' = [f \in DOMAIN rows \cup {inserted'} |->
                      IF f = inserted' THEN [owner |-> handler[w].path, state |-> 0] ELSE rows[f]]
        /\ UNCHANGED <<relations, shared, disk, receiving>> /\ "fid" \in Adding
    BY <1>10 DEF InsertRow, At, Adding
  <2>2. /\ handler' \in [Workers -> Handlers] /\ Cardinality(Opening)' = Cardinality(Opening) - 1
        /\ Cardinality(Opening)' \in Int /\ Cardinality(Opening) \in Nat
        /\ \A v \in Workers : handler'[v].pc # "idle" => handler'[v].u \in Users /\ handler'[v].path \in Users
    BY <1>7, <2>1
  <2>3. Cardinality(Opening) > 0
    <3>1. w \in Opening /\ IsFiniteSet(Opening)
      BY <2>1, CatalogAssumption, FS_Subset DEF Opening
    <3> QED BY <2>2, <3>1, FS_EmptySet
  <2>4. inserted' \in 0..MaxFile /\ inserted' + Cardinality(Opening)' <= MaxFile
    BY <1>1, <2>1, <2>2, <2>3
  <2>5. DOMAIN rows' \subseteq 1..inserted'
    BY <1>1, <2>1
  <2>6. \A f \in DOMAIN rows' : rows'[f] \in [owner : Users, state : {0, 1}]
    BY <1>1, <2>1
  <2> QED BY <1>1, <1>2, <2>1, <2>2, <2>4, <2>5, <2>6
<1>11. ASSUME NEW w \in Workers, SelectFid(w)
       PROVE  TypeInv'
  <2> DEFINE found == {f \in DOMAIN rows : rows[f].owner = handler[w].path}
             fid == IF found = {} THEN 0 ELSE CHOOSE f \in found : \A g \in found : f <= g
  <2>1. /\ handler[w].pc = "fid" /\ handler' = [handler EXCEPT ![w].pc = "link", ![w].f = fid]
        /\ UNCHANGED <<rows, inserted, relations, shared, disk, receiving>>
    BY <1>11 DEF SelectFid, At
  <2>2. fid \in 0..inserted
    <3>1. found # {} => fid \in found
      BY FirstFound
    <3> HIDE DEF fid
    <3>2. CASE found = {}
      BY <1>1, <3>2 DEF fid
    <3>3. CASE found # {}
      BY <1>1, <3>1, <3>3
    <3> QED BY <3>2, <3>3
  <2> HIDE DEF fid, found
  <2>3. fid \in Files
    BY <1>1, <2>2 DEF Files
  <2>4. /\ handler' \in [Workers -> Handlers] /\ \A v \in Workers \ {w} : handler'[v] = handler[v]
        /\ handler'[w].pc = "link" /\ handler'[w].u = handler[w].u /\ handler'[w].path = handler[w].path
    BY <1>1, <2>1, <2>3, ZenonT(60) DEF Handlers, Adding
  <2>5. Cardinality(Opening)' <= Cardinality(Opening) /\ Cardinality(Opening)' \in Int /\ Cardinality(Opening) \in Nat
    BY <1>3, <2>4
  <2>6. \A v \in Workers : handler'[v].pc # "idle" => handler'[v].u \in Users /\ handler'[v].path \in Users
    BY <1>1, <2>1, <2>4
  <2> QED BY <1>1, <1>2, <2>1, <2>2, <2>4, <2>5, <2>6
<1>12. ASSUME NEW w \in Workers, Relate(w) \/ RelateUpload(w)
       PROVE  TypeInv'
  <2>1. /\ handler[w].pc \in {"relate", "link"} /\ Ends(w)
        /\ relations' = relations \cup {<<handler[w].u, handler[w].f>>}
        /\ receiving' \subseteq receiving \cup {handler[w].f}
        /\ UNCHANGED <<rows, inserted, shared, disk>>
    BY <1>12 DEF Relate, RelateUpload, At
  <2>2. handler[w].u \in Users /\ handler[w].f \in Files
    BY <1>1, <2>1 DEF Handlers
  <2>3. relations' \subseteq Users \X Files /\ shared' \subseteq relations' /\ receiving' \subseteq Files
    BY <1>1, <2>1, <2>2
  <2> QED BY <1>1, <1>2, <1>8, <2>1, <2>3
<1>13. ASSUME NEW f \in Files, Finish(f)
       PROVE  TypeInv'
  <2>1. /\ receiving' = receiving \ {f}
        /\ rows' = [g \in DOMAIN rows |-> IF g = f THEN [rows[g] EXCEPT !.state = 1] ELSE rows[g]]
        /\ UNCHANGED <<inserted, relations, shared, disk, handler>>
    BY <1>13 DEF Finish
  <2>2. \A g \in DOMAIN rows' : rows'[g] \in [owner : Users, state : {0, 1}]
    BY <1>1, <2>1
  <2>3. Opening' = Opening
    BY <2>1 DEF Opening
  <2> QED BY <1>1, <1>2, <2>1, <2>2, <2>3
<1>14. ASSUME NEW u \in Users, NEW f \in Files, ShareItem(u, f)
       PROVE  TypeInv'
  <2>1. Opening' = Opening
    BY <1>14 DEF ShareItem, Opening
  <2> QED BY <1>1, <1>2, <1>14, <2>1 DEF ShareItem
<1>15. ASSUME NEW w \in Workers, DeleteRelation(w)
       PROVE  TypeInv'
  <2>1. /\ handler[w].pc = "unrelate" /\ Goes(w, "look") /\ "look" \in Deleting
        /\ UNCHANGED <<rows, inserted, disk, receiving>>
        /\ relations' \subseteq relations /\ shared' \subseteq relations'
    BY <1>1, <1>15 DEF DeleteRelation, At, Deleting
  <2> QED BY <1>1, <1>2, <1>7, <2>1
<1>16. ASSUME NEW w \in Workers, LookForOthers(w)
       PROVE  TypeInv'
  <2>1. /\ handler[w].pc = "look" /\ (Ends(w) \/ Goes(w, "unrow")) /\ "unrow" \in Deleting
        /\ UNCHANGED <<rows, inserted, relations, shared, disk, receiving>>
    BY <1>16 DEF LookForOthers, At, Deleting
  <2> QED BY <1>1, <1>2, <1>7, <1>8, <2>1
<1>17. ASSUME NEW w \in Workers, DeleteRow(w)
       PROVE  TypeInv'
  <2>1. /\ handler[w].pc = "unrow" /\ Goes(w, "unlink") /\ "unlink" \in Deleting
        /\ rows' = [f \in DOMAIN rows \ {handler[w].f} |-> rows[f]]
        /\ UNCHANGED <<inserted, relations, shared, disk, receiving>>
    BY <1>17 DEF DeleteRow, At, Deleting, Restrict
  <2>2. DOMAIN rows' \subseteq 1..inserted' /\ \A f \in DOMAIN rows' : rows'[f] \in [owner : Users, state : {0, 1}]
    BY <1>1, <2>1
  <2> QED BY <1>1, <1>2, <1>7, <2>1, <2>2
<1>18. ASSUME NEW w \in Workers, Unlink(w)
       PROVE  TypeInv'
  <2>1. /\ handler[w].pc = "unlink" /\ Ends(w) /\ disk' \subseteq disk
        /\ UNCHANGED <<rows, inserted, relations, shared, receiving>>
    BY <1>18 DEF Unlink, At
  <2> QED BY <1>1, <1>2, <1>8, <2>1
<1>19. CASE UNCHANGED catalogVars
  <2>1. Opening' = Opening
    BY <1>19 DEF catalogVars, Opening
  <2> QED BY <1>1, <1>2, <1>19, <2>1 DEF catalogVars
<1> QED BY <1>4, <1>5, <1>6, <1>9, <1>10, <1>11, <1>12, <1>13, <1>14, <1>15, <1>16, <1>17, <1>18, <1>19
        DEF Next, AddStep, DeleteStep, Request

\* An upload is linked to and received under an f_id that has been given out.
Given == /\ receiving \subseteq 0..inserted
         /\ \A w \in Workers : handler[w].pc = "link" => handler[w].f \in 0..inserted

\* SelectFid finds a row that was inserted, or none.
LEMMA GivenStep ==
  ASSUME TypeInv, Given, [Next]_catalogVars
  PROVE  Given'
<1>1. /\ DOMAIN rows \subseteq 1..inserted /\ inserted \in Nat
      /\ handler \in [Workers -> Handlers] /\ "idle" # "link"
  BY CatalogAssumption DEF TypeInv, TypeOK
<1>2. inserted' \in Nat /\ inserted <= inserted'
  <2>1. CASE \E w \in Workers : InsertRow(w)
    BY <1>1, <2>1 DEF InsertRow
  <2>2. CASE ~ \E w \in Workers : InsertRow(w)
    <3>1. UNCHANGED inserted
      BY <2>2 DEF Next, AddStep, DeleteStep, Request, QuickUpload, FullUpload, GetShare, DeleteOneItem, Open,
                  SelectFid, RelateUpload, Relate, DeleteRelation, LookForOthers, DeleteRow, Unlink, Finish,
                  ShareItem, catalogVars
    <3> QED BY <1>1, <3>1
  <2> QED BY <2>1, <2>2
<1>3. ASSUME NEW w \in Workers, \A v \in Workers \ {w} : handler'[v] = handler[v],
             handler'[w].pc = "link" => handler'[w].f \in 0..inserted, receiving' \subseteq 0..inserted
      PROVE  Given'
  <2>1. 0..inserted \subseteq 0..inserted'
    BY <1>1, <1>2
  <2> QED BY <1>3, <2>1 DEF Given
<1>4. ASSUME NEW w \in Workers, NEW pc, pc # "link", Goes(w, pc), UNCHANGED receiving
      PROVE  Given'
  <2>1. handler'[w].pc = pc /\ \A v \in Workers \ {w} : handler'[v] = handler[v]
    BY <1>1, <1>4 DEF Goes, Handlers
  <2> QED BY <1>3, <1>4, <2>1 DEF Given
<1>5. ASSUME NEW w \in Workers, Ends(w), receiving' \subseteq 0..inserted
      PROVE  Given'
  <2>1. handler'[w].pc = "idle" /\ \A v \in Workers \ {w} : handler'[v] = handler[v]
    BY <1>1, <1>5 DEF Ends, Free
  <2> QED BY <1>1, <1>3, <1>5, <2>1
<1>6. ASSUME NEW w \in Workers, NEW u \in Users, Request(w, u)
      PROVE  Given'
  <2>1. PICK pc \in {"relate", "open", "unrelate"} : \E f, path : Begins(w, pc, u, f, path)
    BY <1>6 DEF Request, QuickUpload, FullUpload, GetShare, DeleteOneItem
  <2>2. handler'[w].pc = pc /\ \A v \in Workers \ {w} : handler'[v] = handler[v]
    BY <1>1, <2>1 DEF Begins
  <2>3. UNCHANGED receiving
    BY <1>6 DEF Request, QuickUpload, FullUpload, GetShare, DeleteOneItem
  <2> QED BY <1>3, <2>1, <2>2, <2>3 DEF Given
<1>7. ASSUME NEW w \in Workers, SelectFid(w)
      PROVE  Given'
  <2> DEFINE found == {f \in DOMAIN rows : rows[f].owner = handler[w].path}
             fid == IF found = {} THEN 0 ELSE CHOOSE f \in found : \A g \in found : f <= g
  <2>1. handler' = [handler EXCEPT ![w].pc = "link", ![w].f = fid] /\ UNCHANGED receiving
    BY <1>7 DEF SelectFid
  <2>2. fid \in 0..inserted
    <3>1. found # {} => fid \in found
      BY FirstFound
    <3> HIDE DEF fid
    <3>2. CASE found = {}
      BY <1>1, <3>2 DEF fid
    <3>3. CASE found # {}
      BY <1>1, <3>1, <3>3
    <3> QED BY <3>2, <3>3
  <2> HIDE DEF fid, found
  <2>3. handler'[w].f = fid /\ \A v \in Workers \ {w} : handler'[v] = handler[v]
    BY <1>1, <2>1 DEF Handlers
  <2> QED BY <1>3, <2>1, <2>2, <2>3 DEF Given
<1>8. ASSUME NEW w \in Workers, RelateUpload(w)
      PROVE  Given'
  <2>1. handler[w].pc = "link" /\ receiving' = receiving \cup {handler[w].f} /\ Ends(w)
    BY <1>8 DEF RelateUpload, At
  <2> QED BY <1>5, <2>1 DEF Given
<1>9. ASSUME NEW w \in Workers, Open(w) \/ InsertRow(w) \/ DeleteRelation(w) \/ DeleteRow(w)
      PROVE  Given'
  BY <1>4, <1>9 DEF Open, InsertRow, DeleteRelation, DeleteRow
<1>10. ASSUME NEW w \in Workers, Relate(w) \/ Unlink(w) \/ LookForOthers(w)
       PROVE  Given'
  <2>1. UNCHANGED receiving /\ (Ends(w) \/ Goes(w, "unrow"))
    BY <1>10 DEF Relate, Unlink, LookForOthers
  <2> QED BY <1>4, <1>5, <2>1 DEF Given
<1>11. ASSUME NEW f \in Files, Finish(f) \/ (\E u \in Users : ShareItem(u, f))
       PROVE  Given'
  <2>1. UNCHANGED <<inserted, handler>> /\ receiving' \subseteq receiving
    BY <1>11 DEF Finish, ShareItem
  <2> QED BY <2>1 DEF Given
<1>12. CASE UNCHANGED catalogVars
  BY <1>12 DEF catalogVars, Given
<1> QED BY <1>6, <1>7, <1>8, <1>9, <1>10, <1>11, <1>12 DEF Next, AddStep, DeleteStep

\* Nothing has happened yet: the types hold.
LEMMA TypeInit == Init => TypeInv
<1> SUFFICES ASSUME Init PROVE TypeInv
  OBVIOUS
<1>1. Opening = {}
  BY DEF Init, Opening, Free
<1>2. Cardinality(Opening) = 0
  BY <1>1, FS_EmptySet
<1>3. handler \in [Workers -> Handlers]
  BY CatalogAssumption DEF Init, Handlers, Free, Files
<1> QED BY <1>2, <1>3, CatalogAssumption DEF Init, TypeInv, TypeOK, Files, Free

\* Types and the bound on f_ids, for every number of users and workers, with or without Overlap.
THEOREM TypeCorrect == Spec => []TypeOK
<1>1. TypeInv /\ [Next]_catalogVars => TypeInv'
  BY TypeStep
<1>2. TypeInv => TypeOK
  BY DEF TypeInv
<1> QED BY <1>1, <1>2, TypeInit, PTL DEF Spec

-------------------------------------------------------------------------------
(* With ~Overlap, who has a file has its row and its bytes.  A file is in   *)
(* use while it is referenced, finished or being received; an upload always *)
(* gets the first row of its path, so a path in use belongs to one file,    *)
(* and a deletion of that file takes away the bytes of no other.            *)
InUse(f) == f \in DOMAIN rows /\ (Referenced(f) \/ rows[f].state = 1 \/ f \in receiving)
FirstOfPath(f) == \A g \in DOMAIN rows : rows[g].owner = rows[f].owner => f <= g
Separate == ~(Among(Adding) /\ Among(Deleting))
InUseFine == \A f \in DOMAIN rows : InUse(f) => FirstOfPath(f) /\ rows[f].owner \in disk

Linkable(f) == f \in DOMAIN rows /\ FirstOfPath(f) /\ rows[f].owner \in disk

HandlerFine(w) ==
  /\ handler[w].pc \in {"insert", "fid"} => handler[w].path \in disk
  /\ handler[w].pc = "fid" => \E f \in DOMAIN rows : rows[f].owner = handler[w].path
  /\ handler[w].pc = "link" => Linkable(handler[w].f)
  /\ handler[w].pc = "relate" => InUse(handler[w].f)
  /\ handler[w].pc \in Deleting =>
       \A g \in DOMAIN rows : InUse(g) /\ rows[g].owner = handler[w].path => g = handler[w].f
  /\ handler[w].pc \in {"unrow", "unlink"} => ~Referenced(handler[w].f)
  /\ handler[w].pc = "unlink" => handler[w].f \notin DOMAIN rows

DiskInv == Separate /\ ReferencedOnDisk /\ InUseFine /\ \A w \in Workers : HandlerFine(w)

\* Additions and deletions stay apart: the statements of a handler are all of one kind.
LEMMA SeparateStep ==
  ASSUME ~Overlap, TypeInv, Separate, [Next]_catalogVars
  PROVE  Separate'
<1>1. handler \in [Workers -> Handlers] /\ Adding \cap Deleting = {} /\ "idle" \notin Adding \cup Deleting
  BY DEF TypeInv, Adding, Deleting
<1>2. ASSUME NEW w \in Workers, \A v \in Workers \ {w} : handler'[v] = handler[v],
             \/ handler'[w].pc \in Adding /\ (handler[w].pc \in Adding \/ ~Among(Deleting))
             \/ handler'[w].pc \in Deleting /\ (handler[w].pc \in Deleting \/ ~Among(Adding))
             \/ handler'[w].pc = "idle"
      PROVE  Separate'
  BY <1>1, <1>2 DEF Separate, Among
<1>3. ASSUME NEW w \in Workers, NEW pc, Goes(w, pc),
             \/ pc \in Adding /\ handler[w].pc \in Adding
             \/ pc \in Deleting /\ handler[w].pc \in Deleting
      PROVE  Separate'
  <2>1. handler'[w].pc = pc /\ \A v \in Workers \ {w} : handler'[v] = handler[v]
    BY <1>1, <1>3 DEF Goes, Handlers
  <2> QED BY <1>2, <1>3, <2>1
<1>4. ASSUME NEW w \in Workers, Ends(w)
      PROVE  Separate'
  <2>1. handler'[w].pc = "idle" /\ \A v \in Workers \ {w} : handler'[v] = handler[v]
    BY <1>1, <1>4 DEF Ends, Free
  <2> QED BY <1>2, <2>1
<1>5. ASSUME NEW w \in Workers, NEW pc \in Adding \cup Deleting, NEW u, NEW f, NEW path, Begins(w, pc, u, f, path)
      PROVE  Separate'
  <2>1. handler'[w].pc = pc /\ \A v \in Workers \ {w} : handler'[v] = handler[v]
    BY <1>1, <1>5 DEF Begins
  <2>2. pc \in Deleting => ~Among(Adding)
    BY <1>5 DEF Begins
  <2>3. pc \in Adding => ~Among(Deleting)
    BY <1>1, <1>5 DEF Begins
  <2> QED BY <1>2, <2>1, <2>2, <2>3
<1>6. ASSUME UNCHANGED handler
      PROVE  Separate'
  BY <1>6 DEF Separate, Among
<1>7. ASSUME NEW w \in Workers, NEW u \in Users, Request(w, u)
      PROVE  Separate'
  <2>1. CASE QuickUpload(w, u) \/ GetShare(w, u)
    BY <1>5, <2>1 DEF QuickUpload, GetShare, Adding
  <2>2. CASE FullUpload(w, u)
    BY <1>5, <2>2 DEF FullUpload, Adding
  <2>3. CASE DeleteOneItem(w, u)
    BY <1>5, <2>3 DEF DeleteOneItem, Deleting
  <2> QED BY <1>7, <2>1, <2>2, <2>3 DEF Request
<1>8. ASSUME NEW w \in Workers, AddStep(w)
      PROVE  Separate'
  <2>1. CASE Open(w)
    <3>1. Goes(w, "insert") /\ handler[w].pc \in Adding /\ "insert" \in Adding
      BY <2>1 DEF Open, At, Adding
    <3> QED BY <1>3, <3>1
  <2>2. CASE InsertRow(w)
    <3>1. Goes(w, "fid") /\ handler[w].pc \in Adding /\ "fid" \in Adding
      BY <2>2 DEF InsertRow, At, Adding
    <3> QED BY <1>3, <3>1
  <2>3. CASE SelectFid(w)
    <3>1. /\ handler[w].pc \in Adding /\ handler'[w].pc \in Adding
          /\ \A v \in Workers \ {w} : handler'[v] = handler[v]
      BY <1>1, <2>3 DEF SelectFid, At, Handlers, Adding
    <3> QED BY <1>2, <3>1
  <2>4. CASE Relate(w) \/ RelateUpload(w)
    BY <1>4, <2>4 DEF Relate, RelateUpload
  <2> QED BY <1>8, <2>1, <2>2, <2>3, <2>4 DEF AddStep
<1>9. ASSUME NEW w \in Workers, DeleteStep(w)
      PROVE  Separate'
  <2>1. CASE DeleteRelation(w)
    BY <1>3, <2>1 DEF DeleteRelation, At, Deleting
  <2>2. CASE LookForOthers(w)
    BY <1>3, <1>4, <2>2 DEF LookForOthers, At, Deleting
  <2>3. CASE DeleteRow(w)
    BY <1>3, <2>3 DEF DeleteRow, At, Deleting
  <2>4. CASE Unlink(w)
    BY <1>4, <2>4 DEF Unlink
  <2> QED BY <1>9, <2>1, <2>2, <2>3, <2>4 DEF DeleteStep
<1>10. CASE \E f \in Files : Finish(f) \/ \E u \in Users : ShareItem(u, f)
  BY <1>6, <1>10 DEF Finish, ShareItem
<1>11. CASE UNCHANGED catalogVars
  BY <1>6, <1>11 DEF catalogVars
<1> QED BY <1>7, <1>8, <1>9, <1>10, <1>11 DEF Next

\* A step of one handler that changes neither tables nor files need only be right for that handler.
LEMMA HandlerOnly ==
  ASSUME DiskInv, Separate', NEW w \in Workers, \A v \in Workers \ {w} : handler'[v] = handler[v],
         UNCHANGED <<rows, relations, disk, receiving>>, HandlerFine(w)'
  PROVE  DiskInv'
<1>1. \A f : InUse(f)' <=> InUse(f)
  BY DEF InUse, Referenced
<1>2. ReferencedOnDisk' /\ InUseFine'
  BY DEF DiskInv, ReferencedOnDisk, InUseFine, InUse, FirstOfPath, Referenced
<1>3. ASSUME NEW v \in Workers
      PROVE  HandlerFine(v)'
  <2>1. CASE v = w
    BY <2>1
  <2>2. CASE v # w
    <3>1. HandlerFine(v) /\ handler'[v] = handler[v]
      BY <2>2 DEF DiskInv
    <3> QED BY <3>1 DEF HandlerFine, InUse, Referenced, Linkable, FirstOfPath
  <2> QED BY <2>1, <2>2
<1> QED BY <1>2, <1>3 DEF DiskInv

\* Tables and files that grow disturb no other handler that adds, and there is none that deletes.
LEMMA AddFrame ==
  ASSUME DiskInv, Separate', NEW w \in Workers, handler[w].pc \in Adding,
         \A v \in Workers \ {w} : handler'[v] = handler[v],
         DOMAIN rows \subseteq DOMAIN rows', \A f \in DOMAIN rows : rows'[f] = rows[f],
         \A f \in DOMAIN rows, g \in DOMAIN rows' \ DOMAIN rows : f <= g,
         relations \subseteq relations', disk \subseteq disk', receiving \subseteq receiving',
         ReferencedOnDisk', InUseFine', HandlerFine(w)'
  PROVE  DiskInv'
<1>1. ASSUME NEW v \in Workers, v # w
      PROVE  HandlerFine(v)'
  <2>1. HandlerFine(v) /\ handler'[v] = handler[v] /\ handler[v].pc \notin Deleting
    BY <1>1 DEF DiskInv, Separate, Among
  <2>2. \A f : InUse(f) => InUse(f)'
    BY DEF InUse, Referenced
  <2>3. handler[v].pc \notin {"unrow", "unlink"}
    BY <2>1 DEF Deleting
  <2>4. handler[v].pc = "relate" => InUse(handler[v].f)'
    <3>1. handler[v].pc = "relate" => InUse(handler[v].f)
      BY <2>1 DEF HandlerFine
    <3> QED BY <2>1, <3>1 DEF InUse, Referenced
  <2>5. handler[v].pc = "fid" => \E f \in DOMAIN rows' : rows'[f].owner = handler[v].path
    BY <2>1 DEF HandlerFine
  <2>6. handler[v].pc \in {"insert", "fid"} => handler[v].path \in disk'
    BY <2>1 DEF HandlerFine
  <2>7. handler[v].pc = "link" => Linkable(handler[v].f)'
    <3>1. handler[v].pc = "link" => Linkable(handler[v].f)
      BY <2>1 DEF HandlerFine
    <3>2. \A f : Linkable(f) => Linkable(f)'
      BY DEF Linkable, FirstOfPath
    <3> QED BY <2>1, <3>1, <3>2 DEF Linkable, FirstOfPath
  <2> QED BY <2>1, <2>3, <2>4, <2>5, <2>6, <2>7 DEF HandlerFine, InUse, Referenced, Linkable, FirstOfPath
<1> QED BY <1>1 DEF DiskInv

\* Tables that shrink disturb no other handler that deletes, and there is none that adds.
LEMMA DeleteFrame ==
  ASSUME DiskInv, Separate', NEW w \in Workers, handler[w].pc \in Deleting,
         \A v \in Workers \ {w} : handler'[v] = handler[v],
         DOMAIN rows' \subseteq DOMAIN rows, \A f \in DOMAIN rows' : rows'[f] = rows[f],
         relations' \subseteq relations, receiving' = receiving,
         ReferencedOnDisk', InUseFine', HandlerFine(w)'
  PROVE  DiskInv'
<1>1. ASSUME NEW v \in Workers, v # w
      PROVE  HandlerFine(v)'
  <2>1. HandlerFine(v) /\ handler'[v] = handler[v] /\ handler[v].pc \notin Adding
    BY <1>1 DEF DiskInv, Separate, Among
  <2>2. handler[v].pc \notin {"insert", "fid", "link", "relate"}
    BY <2>1 DEF Adding
  <2>3. ASSUME handler[v].pc \in Deleting, NEW g \in DOMAIN rows', InUse(g)', rows'[g].owner = handler[v].path
        PROVE  g = handler[v].f
    <3>1. g \in DOMAIN rows /\ InUse(g) /\ rows[g].owner = handler[v].path
      BY <2>3 DEF InUse, Referenced
    <3> QED BY <2>1, <2>3, <3>1 DEF HandlerFine
  <2>4. handler[v].pc \in {"unrow", "unlink"} => ~Referenced(handler[v].f)'
    <3>1. handler[v].pc \in {"unrow", "unlink"} => ~Referenced(handler[v].f)
      BY <2>1 DEF HandlerFine
    <3> QED BY <2>1, <3>1 DEF Referenced
  <2>5. handler[v].pc = "unlink" => handler[v].f \notin DOMAIN rows'
    BY <2>1 DEF HandlerFine
  <2>6. \A g \in DOMAIN rows' : handler[v].pc \in Deleting /\ InUse(g)' /\ rows'[g].owner = handler[v].path
                                  => g = handler[v].f
    BY <2>3
  <2> QED BY <2>1, <2>2, <2>4, <2>5, <2>6 DEF HandlerFine, InUse, Referenced
<1> QED BY <1>1 DEF DiskInv

\* The statements that add.
LEMMA AddKeeps ==
  ASSUME TypeInv, Given, DiskInv, Separate', NEW w \in Workers, AddStep(w)
  PROVE  DiskInv'
<1>1. /\ DOMAIN rows \subseteq 1..inserted /\ inserted \in Nat /\ receiving \subseteq 0..inserted
      /\ relations \subseteq Users \X Files /\ handler \in [Workers -> Handlers]
  BY CatalogAssumption DEF TypeInv, TypeOK, Given
<1>2. HandlerFine(w) /\ ReferencedOnDisk /\ InUseFine
  BY DEF DiskInv
<1>3. handler[w].pc # "idle" => handler[w].u \in Users
  BY DEF TypeInv
<1>4. CASE Open(w)
  <2>1. /\ handler[w].pc = "open" /\ disk' = disk \cup {handler[w].path}
        /\ UNCHANGED <<rows, relations, receiving>> /\ \A v \in Workers \ {w} : handler'[v] = handler[v]
        /\ handler'[w].pc = "insert" /\ handler'[w].path = handler[w].path /\ handler[w].pc \in Adding
    BY <1>1, <1>4 DEF Open, At, Goes, Handlers, Adding
  <2>2. ReferencedOnDisk' /\ InUseFine'
    BY <1>2, <2>1 DEF ReferencedOnDisk, InUseFine, InUse, FirstOfPath, Referenced
  <2>3. HandlerFine(w)'
    BY <2>1 DEF HandlerFine, Deleting
  <2> QED BY <2>1, <2>2, <2>3, AddFrame
<1>5. CASE InsertRow(w)
  <2> DEFINE new == inserted + 1
  <2>1. /\ handler[w].pc = "insert" /\ UNCHANGED <<relations, disk, receiving>>
        /\ rows' = [f \in DOMAIN rows \cup {new} |->
                      IF f = new THEN [owner |-> handler[w].path, state |-> 0] ELSE rows[f]]
    BY <1>5 DEF InsertRow, At
  <2>2. /\ \A v \in Workers \ {w} : handler'[v] = handler[v]
        /\ handler'[w].pc = "fid" /\ handler'[w].path = handler[w].path /\ handler[w].pc \in Adding
    BY <1>1, <1>5 DEF InsertRow, At, Goes, Handlers, Adding
  <2>3. /\ new \notin DOMAIN rows /\ new \notin receiving /\ new \in Int
        /\ \A f \in DOMAIN rows : f \in Int /\ f <= new
    BY <1>1
  <2>4. /\ DOMAIN rows' = DOMAIN rows \cup {new} /\ \A f \in DOMAIN rows : rows'[f] = rows[f]
        /\ rows'[new].owner = handler[w].path /\ rows'[new].state = 0
    BY <2>1, <2>3
  <2>5. ~Referenced(new)
    BY <1>2, <2>3 DEF ReferencedOnDisk, Referenced
  <2> HIDE DEF new
  <2>6. ReferencedOnDisk'
    BY <1>2, <2>1, <2>4 DEF ReferencedOnDisk
  <2>7. ASSUME NEW f \in DOMAIN rows', InUse(f)'
        PROVE  FirstOfPath(f)' /\ rows'[f].owner \in disk'
    <3>1. f \in DOMAIN rows /\ InUse(f)
      BY <2>1, <2>3, <2>4, <2>5, <2>7 DEF InUse, Referenced
    <3>2. FirstOfPath(f) /\ rows[f].owner \in disk
      BY <1>2, <3>1 DEF InUseFine
    <3> QED BY <2>1, <2>3, <2>4, <3>1, <3>2 DEF FirstOfPath
  <2>8. InUseFine'
    BY <2>7 DEF InUseFine, InUse, FirstOfPath, Referenced
  <2>9. HandlerFine(w)'
    <3>1. handler[w].path \in disk'
      BY <1>2, <2>1 DEF HandlerFine
    <3>2. \E f \in DOMAIN rows' : rows'[f].owner = handler[w].path
      BY <2>4
    <3> QED BY <2>2, <3>1, <3>2 DEF HandlerFine, Deleting
  <2>10. \A f \in DOMAIN rows, g \in DOMAIN rows' \ DOMAIN rows : f <= g
    BY <2>3, <2>4
  <2> QED BY <2>1, <2>2, <2>4, <2>6, <2>8, <2>9, <2>10, AddFrame
<1>6. CASE SelectFid(w)
  <2> DEFINE found == {f \in DOMAIN rows : rows[f].owner = handler[w].path}
             first == CHOOSE f \in found : \A g \in found : f <= g
  <2>1. handler[w].pc = "fid" /\ handler[w].path \in disk /\ found # {}
    BY <1>2, <1>6 DEF SelectFid, At, HandlerFine
  <2>2. /\ handler' = [handler EXCEPT ![w].pc = "link", ![w].f = first]
        /\ UNCHANGED <<rows, relations, disk, receiving>>
    BY <1>6, <2>1 DEF SelectFid
  <2>3. first \in found /\ \A g \in found : first <= g
    BY <2>1, FirstFound
  <2> PICK f : f = first
    OBVIOUS
  <2> HIDE DEF first
  <2>4. Linkable(f)
    BY <2>1, <2>3 DEF Linkable, FirstOfPath
  <2>5. /\ \A v \in Workers \ {w} : handler'[v] = handler[v]
        /\ handler'[w].pc = "link" /\ handler'[w].f = f
    BY <1>1, <2>1, <2>2 DEF Handlers, Adding
  <2>6. /\ f \in DOMAIN rows' /\ rows'[f].owner \in disk'
        /\ \A g \in DOMAIN rows' : rows'[g].owner = rows'[f].owner => f <= g
    BY <2>2, <2>4 DEF Linkable, FirstOfPath
  <2>7. HandlerFine(w)'
    BY <2>5, <2>6 DEF HandlerFine, Deleting, Linkable, FirstOfPath
  <2> QED BY <2>2, <2>5, <2>7, HandlerOnly
<1>7. CASE Relate(w)
  <2> DEFINE f == handler[w].f
             u == handler[w].u
  <2>1. /\ handler[w].pc = "relate" /\ relations' = relations \cup {<<u, f>>} /\ Ends(w)
        /\ UNCHANGED <<rows, disk, receiving>> /\ handler[w].pc \in Adding
    BY <1>7 DEF Relate, At, Adding
  <2>2. InUse(f)
    BY <1>2, <2>1 DEF HandlerFine
  <2> HIDE DEF f, u
  <2>3. f \in DOMAIN rows /\ rows[f].owner \in disk
    BY <1>2, <2>2 DEF InUseFine, InUse
  <2>4. ReferencedOnDisk'
    BY <1>2, <2>1, <2>3 DEF ReferencedOnDisk
  <2>5. \A g : InUse(g)' => InUse(g)
    <3>1. \A g : Referenced(g)' => Referenced(g) \/ g = f
      BY <2>1 DEF Referenced
    <3> QED BY <2>1, <2>2, <3>1 DEF InUse, Referenced
  <2>6. \A g \in DOMAIN rows' : InUse(g)' => FirstOfPath(g) /\ rows[g].owner \in disk
    BY <1>2, <2>1, <2>5 DEF InUseFine
  <2>7. InUseFine'
    BY <2>1, <2>6 DEF InUseFine, FirstOfPath, InUse, Referenced
  <2>8. handler'[w].pc = "idle" /\ \A v \in Workers \ {w} : handler'[v] = handler[v]
    BY <1>1, <2>1, EndsType DEF Free
  <2>9. HandlerFine(w)'
    BY <2>8 DEF HandlerFine, Deleting
  <2> QED BY <2>1, <2>4, <2>7, <2>8, <2>9, AddFrame
<1>8. CASE RelateUpload(w)
  <2> DEFINE f == handler[w].f
             u == handler[w].u
  <2>1. /\ handler[w].pc = "link" /\ relations' = relations \cup {<<u, f>>} /\ Ends(w)
        /\ UNCHANGED <<rows, disk>> /\ receiving' = receiving \cup {f} /\ handler[w].pc \in Adding
    BY <1>8 DEF RelateUpload, At, Adding
  <2>2. f \in DOMAIN rows /\ FirstOfPath(f) /\ rows[f].owner \in disk
    BY <1>2, <2>1 DEF HandlerFine, Linkable
  <2> HIDE DEF f, u
  <2>3. ReferencedOnDisk'
    BY <1>2, <2>1, <2>2 DEF ReferencedOnDisk
  <2>4. \A g : InUse(g)' => InUse(g) \/ g = f
    BY <2>1 DEF InUse, Referenced
  <2>5. \A g \in DOMAIN rows' : InUse(g)' => FirstOfPath(g) /\ rows[g].owner \in disk
    BY <1>2, <2>1, <2>2, <2>4 DEF InUseFine
  <2>6. InUseFine'
    BY <2>1, <2>5 DEF InUseFine, FirstOfPath, InUse, Referenced
  <2>7. handler'[w].pc = "idle" /\ \A v \in Workers \ {w} : handler'[v] = handler[v]
    BY <1>1, <2>1, EndsType DEF Free
  <2>8. HandlerFine(w)'
    BY <2>7 DEF HandlerFine, Deleting
  <2> QED BY <2>1, <2>3, <2>6, <2>7, <2>8, AddFrame
<1> QED BY <1>4, <1>5, <1>6, <1>7, <1>8 DEF AddStep

\* The statements that delete.
LEMMA DeleteKeeps ==
  ASSUME TypeInv, DiskInv, Separate', NEW w \in Workers, DeleteStep(w)
  PROVE  DiskInv'
<1>1. /\ DOMAIN rows \subseteq 1..inserted /\ inserted \in Nat
      /\ relations \subseteq Users \X Files /\ handler \in [Workers -> Handlers]
  BY CatalogAssumption DEF TypeInv, TypeOK
<1>2. HandlerFine(w) /\ ReferencedOnDisk /\ InUseFine
  BY DEF DiskInv
<1>3. CASE DeleteRelation(w)
  <2>1. /\ handler[w].pc = "unrelate" /\ Goes(w, "look") /\ UNCHANGED <<rows, disk, receiving>>
        /\ relations' \subseteq relations /\ handler[w].pc \in Deleting
    BY <1>3 DEF DeleteRelation, At, Deleting
  <2>2. /\ \A v \in Workers \ {w} : handler'[v] = handler[v]
        /\ handler'[w].pc = "look"
        /\ handler'[w].f = handler[w].f /\ handler'[w].path = handler[w].path
    BY <1>1, <2>1 DEF Goes, Handlers
  <2>3. \A g : InUse(g)' => InUse(g)
    BY <2>1 DEF InUse, Referenced
  <2>4. \A g \in DOMAIN rows' : InUse(g)' => FirstOfPath(g) /\ rows[g].owner \in disk
    BY <1>2, <2>1, <2>3 DEF InUseFine
  <2>5. ReferencedOnDisk' /\ InUseFine'
    BY <1>2, <2>1, <2>4 DEF ReferencedOnDisk, InUseFine, FirstOfPath, InUse, Referenced
  <2>6. \A g \in DOMAIN rows' : InUse(g)' /\ rows'[g].owner = handler[w].path => g = handler[w].f
    BY <1>2, <2>1, <2>3 DEF HandlerFine
  <2>7. HandlerFine(w)'
    BY <2>2, <2>6 DEF HandlerFine, InUse, Referenced
  <2> QED BY <2>1, <2>2, <2>5, <2>7, DeleteFrame
<1>4. CASE LookForOthers(w)
  <2>1. /\ handler[w].pc = "look" /\ UNCHANGED <<rows, relations, disk, receiving>> /\ handler[w].pc \in Deleting
        /\ Ends(w) \/ (Goes(w, "unrow") /\ ~Referenced(handler[w].f))
    BY <1>4 DEF LookForOthers, At, Deleting
  <2>2. CASE Ends(w)
    <3>1. handler'[w].pc = "idle" /\ \A v \in Workers \ {w} : handler'[v] = handler[v]
      BY <1>1, <2>2, EndsType DEF Free
    <3>2. HandlerFine(w)'
      BY <3>1 DEF HandlerFine, Deleting
    <3> QED BY <2>1, <3>1, <3>2, HandlerOnly
  <2>3. CASE Goes(w, "unrow") /\ ~Referenced(handler[w].f)
    <3>1. /\ \A v \in Workers \ {w} : handler'[v] = handler[v]
          /\ handler'[w].pc = "unrow"
          /\ handler'[w].f = handler[w].f /\ handler'[w].path = handler[w].path
      BY <1>1, <2>3 DEF Goes, Handlers
    <3>2. \A g \in DOMAIN rows : InUse(g) /\ rows[g].owner = handler[w].path => g = handler[w].f
      BY <1>2, <2>1 DEF HandlerFine
    <3>3. HandlerFine(w)'
      BY <2>1, <2>3, <3>1, <3>2 DEF HandlerFine, InUse, Referenced
    <3> QED BY <2>1, <3>1, <3>3, HandlerOnly
  <2> QED BY <2>1, <2>2, <2>3
<1>5. CASE DeleteRow(w)
  <2> PICK f : f = handler[w].f
    OBVIOUS
  <2>1. /\ handler[w].pc = "unrow" /\ Goes(w, "unlink") /\ UNCHANGED <<relations, disk, receiving>>
        /\ rows' = [g \in DOMAIN rows \ {f} |-> rows[g]] /\ handler[w].pc \in Deleting
    BY <1>5 DEF DeleteRow, At, Deleting, Restrict
  <2>2. /\ \A v \in Workers \ {w} : handler'[v] = handler[v]
        /\ handler'[w].pc = "unlink" /\ handler'[w].f = f /\ handler'[w].path = handler[w].path
    BY <1>1, <2>1 DEF Goes, Handlers
  <2>3. ~Referenced(f) /\ \A g \in DOMAIN rows : InUse(g) /\ rows[g].owner = handler[w].path => g = f
    BY <1>2, <2>1 DEF HandlerFine
  <2>4. DOMAIN rows' = DOMAIN rows \ {f} /\ \A g \in DOMAIN rows' : rows'[g] = rows[g]
    BY <2>1
  <2>5. \A r \in relations : r[2] # f
    BY <1>1, <2>3 DEF Referenced
  <2>6. ReferencedOnDisk'
    BY <1>2, <2>1, <2>4, <2>5 DEF ReferencedOnDisk
  <2>7. \A g \in DOMAIN rows' : InUse(g)' => InUse(g)
    BY <2>1, <2>4 DEF InUse, Referenced
  <2>8. \A g \in DOMAIN rows' : InUse(g)' => FirstOfPath(g) /\ rows[g].owner \in disk
    BY <1>2, <2>4, <2>7 DEF InUseFine
  <2>9. InUseFine'
    BY <2>1, <2>4, <2>8 DEF InUseFine, FirstOfPath, InUse, Referenced
  <2>10. \A g \in DOMAIN rows' : InUse(g)' /\ rows'[g].owner = handler[w].path => g = f
    BY <2>3, <2>4, <2>7
  <2>11. ~Referenced(f)'
    BY <2>1, <2>3 DEF Referenced
  <2>12. HandlerFine(w)'
    BY <2>2, <2>4, <2>10, <2>11 DEF HandlerFine, InUse, Referenced
  <2> QED BY <2>1, <2>2, <2>4, <2>6, <2>9, <2>12, DeleteFrame
<1>6. CASE Unlink(w)
  <2> DEFINE path == handler[w].path
  <2>1. /\ handler[w].pc = "unlink" /\ Ends(w) /\ disk' = disk \ {path}
        /\ UNCHANGED <<rows, relations, receiving>> /\ handler[w].pc \in Deleting
    BY <1>6 DEF Unlink, At, Deleting
  <2>2. handler'[w].pc = "idle" /\ \A v \in Workers \ {w} : handler'[v] = handler[v]
    BY <1>1, <2>1, EndsType DEF Free
  <2>3. \A g \in DOMAIN rows : InUse(g) => rows[g].owner # path
    BY <1>2, <2>1 DEF HandlerFine, Deleting
  <2> HIDE DEF path
  <2>4. \A r \in relations : InUse(r[2])
    BY <1>1, <1>2 DEF ReferencedOnDisk, InUse, Referenced
  <2>5. ReferencedOnDisk'
    BY <1>2, <2>1, <2>3, <2>4 DEF ReferencedOnDisk
  <2>6. InUseFine'
    BY <1>2, <2>1, <2>3 DEF InUseFine, FirstOfPath, InUse, Referenced
  <2>7. HandlerFine(w)'
    BY <2>2 DEF HandlerFine, Deleting
  <2> QED BY <2>1, <2>2, <2>5, <2>6, <2>7, DeleteFrame
<1> QED BY <1>3, <1>4, <1>5, <1>6 DEF DeleteStep

\* A request only puts a handler on its way, for a file that is in use.
LEMMA RequestKeeps ==
  ASSUME TypeInv, DiskInv, Separate', NEW w \in Workers, NEW u \in Users, Request(w, u)
  PROVE  DiskInv'
<1>1. /\ handler \in [Workers -> Handlers] /\ ReferencedOnDisk /\ InUseFine
      /\ DOMAIN rows \subseteq Int
  BY CatalogAssumption DEF TypeInv, TypeOK, DiskInv
<1>2. ASSUME NEW pc \in Adding \cup Deleting, NEW v, NEW f, NEW path, Begins(w, pc, v, f, path)
      PROVE  /\ handler'[w].pc = pc /\ handler'[w].f = f /\ handler'[w].path = path
             /\ \A x \in Workers \ {w} : handler'[x] = handler[x]
  BY <1>1, <1>2 DEF Begins
<1>3. \A f : Visible(u, f) => InUse(f)
  BY DEF Visible, InUse, Referenced
<1>4. CASE QuickUpload(w, u) \/ GetShare(w, u)
  <2>1. PICK f : InUse(f) /\ Begins(w, "relate", u, f, u)
    <3>1. \A r \in shared : Visible(r[1], r[2]) => InUse(r[2])
      BY DEF TypeInv, TypeOK, Visible, InUse, Referenced
    <3>2. \A f \in Finished : InUse(f)
      BY DEF Finished, InUse
    <3> QED BY <1>4, <3>1, <3>2 DEF QuickUpload, GetShare
  <2>2. /\ handler'[w].pc = "relate" /\ handler'[w].f = f
        /\ \A x \in Workers \ {w} : handler'[x] = handler[x]
    BY <1>2, <2>1 DEF Adding
  <2>3. UNCHANGED <<rows, relations, disk, receiving>>
    BY <1>4 DEF QuickUpload, GetShare
  <2>4. HandlerFine(w)'
    BY <2>1, <2>2, <2>3 DEF HandlerFine, InUse, Referenced, Deleting
  <2> QED BY <2>2, <2>3, <2>4, HandlerOnly
<1>5. CASE FullUpload(w, u)
  <2>1. Begins(w, "open", u, 0, u) /\ UNCHANGED <<rows, relations, disk, receiving>>
    BY <1>5 DEF FullUpload
  <2>2. handler'[w].pc = "open" /\ \A x \in Workers \ {w} : handler'[x] = handler[x]
    BY <1>2, <2>1 DEF Adding
  <2>3. HandlerFine(w)'
    BY <2>2 DEF HandlerFine, Deleting
  <2> QED BY <2>1, <2>2, <2>3, HandlerOnly
<1>6. CASE DeleteOneItem(w, u)
  <2>1. PICK f \in DOMAIN rows : InUse(f) /\ Begins(w, "unrelate", u, f, rows[f].owner)
    BY <1>3, <1>6 DEF DeleteOneItem
  <2>2. /\ handler'[w].pc = "unrelate" /\ handler'[w].f = f /\ handler'[w].path = rows[f].owner
        /\ \A x \in Workers \ {w} : handler'[x] = handler[x]
    BY <1>2, <2>1 DEF Deleting
  <2>3. UNCHANGED <<rows, relations, disk, receiving>>
    BY <1>6 DEF DeleteOneItem
  <2>4. \A g \in DOMAIN rows : InUse(g) /\ rows[g].owner = rows[f].owner => g = f
    <3>1. ASSUME NEW g \in DOMAIN rows, InUse(g), rows[g].owner = rows[f].owner
          PROVE  g = f
      <4>1. FirstOfPath(g) /\ FirstOfPath(f)
        BY <1>1, <2>1, <3>1 DEF InUseFine
      <4>2. g <= f /\ f <= g /\ g \in Int /\ f \in Int
        BY <1>1, <3>1, <4>1 DEF FirstOfPath
      <4> QED BY <4>2
    <3> QED BY <3>1
  <2>5. HandlerFine(w)'
    BY <2>2, <2>3, <2>4 DEF HandlerFine, InUse, Referenced
  <2> QED BY <2>2, <2>3, <2>5, HandlerOnly
<1> QED BY <1>4, <1>5, <1>6 DEF Request

\* The last block: a file that was being received is finished, and still in use.
LEMMA FinishKeeps ==
  ASSUME TypeInv, DiskInv, Separate', NEW f \in Files, Finish(f)
  PROVE  DiskInv'
<1>1. /\ f \in receiving /\ receiving' = receiving \ {f} /\ UNCHANGED <<relations, disk, handler>>
      /\ rows' = [g \in DOMAIN rows |-> IF g = f THEN [rows[g] EXCEPT !.state = 1] ELSE rows[g]]
      /\ \A g \in DOMAIN rows : rows[g] \in [owner : Users, state : {0, 1}]
  BY DEF Finish, TypeInv, TypeOK
<1>2. /\ DOMAIN rows' = DOMAIN rows /\ \A g \in DOMAIN rows : rows'[g].owner = rows[g].owner
      /\ \A g \in DOMAIN rows : rows'[g].state = IF g = f THEN 1 ELSE rows[g].state
  BY <1>1
<1>3. \A g : InUse(g)' <=> InUse(g)
  BY <1>1, <1>2 DEF InUse, Referenced
<1>4. ReferencedOnDisk'
  BY <1>1, <1>2 DEF DiskInv, ReferencedOnDisk
<1>5. \A g \in DOMAIN rows : InUse(g)' => FirstOfPath(g) /\ rows[g].owner \in disk
  BY <1>3 DEF DiskInv, InUseFine
<1>6. InUseFine'
  <2>1. ASSUME NEW g \in DOMAIN rows', InUse(g)'
        PROVE  FirstOfPath(g)' /\ rows'[g].owner \in disk'
    BY <1>1, <1>2, <1>5, <2>1 DEF FirstOfPath
  <2> QED BY <2>1 DEF InUseFine, FirstOfPath, InUse, Referenced
<1>7. ASSUME NEW w \in Workers
      PROVE  HandlerFine(w)'
  <2>1. HandlerFine(w) /\ handler'[w] = handler[w]
    BY <1>1 DEF DiskInv
  <2>2. handler[w].pc = "relate" => InUse(handler[w].f)'
    <3>1. handler[w].pc = "relate" => InUse(handler[w].f)
      BY <2>1 DEF HandlerFine
    <3> QED BY <1>1, <1>2, <3>1 DEF InUse, Referenced
  <2>3. \A g \in DOMAIN rows : handler[w].pc \in Deleting /\ InUse(g)' /\ rows'[g].owner = handler[w].path
                                 => g = handler[w].f
    BY <1>2, <1>3, <2>1 DEF HandlerFine
  <2>4. /\ handler[w].pc \in {"insert", "fid"} => handler[w].path \in disk'
        /\ handler[w].pc = "fid" => \E g \in DOMAIN rows' : rows'[g].owner = handler[w].path
        /\ handler[w].pc = "unlink" => handler[w].f \notin DOMAIN rows'
    BY <1>1, <1>2, <2>1 DEF HandlerFine
  <2>6. handler[w].pc = "link" => Linkable(handler[w].f)'
    <3>1. handler[w].pc = "link" => Linkable(handler[w].f)
      BY <2>1 DEF HandlerFine
    <3> QED BY <1>1, <1>2, <3>1 DEF Linkable, FirstOfPath
  <2>5. handler[w].pc \in {"unrow", "unlink"} => ~Referenced(handler[w].f)'
    <3>1. handler[w].pc \in {"unrow", "unlink"} => ~Referenced(handler[w].f)
      BY <2>1 DEF HandlerFine
    <3> QED BY <1>1, <3>1 DEF Referenced
  <2> QED BY <1>2, <2>1, <2>2, <2>3, <2>4, <2>5, <2>6 DEF HandlerFine, InUse, Referenced, Linkable, FirstOfPath
<1> QED BY <1>4, <1>6, <1>7 DEF DiskInv

(* Whoever has a file in the list has its row and its bytes, for every number  *)
(* of users, workers and files, when deletions keep away from additions.        *)
THEOREM ReferencedAlways == ASSUME ~Overlap PROVE Spec => []ReferencedOnDisk
<1>1. Init => TypeInv /\ Given /\ DiskInv
  <2> SUFFICES ASSUME Init PROVE TypeInv /\ Given /\ DiskInv
    OBVIOUS
  <2>1. \A w \in Workers : handler[w].pc = "idle"
    BY DEF Init, Free
  <2>2. Separate /\ ReferencedOnDisk /\ InUseFine
    BY <2>1 DEF Init, Separate, Among, Adding, ReferencedOnDisk, InUseFine
  <2>3. \A w \in Workers : HandlerFine(w)
    BY <2>1 DEF HandlerFine, Deleting
  <2>4. Given
    BY <2>1 DEF Init, Given
  <2> QED BY <2>2, <2>3, <2>4, TypeInit DEF DiskInv
<1>2. TypeInv /\ Given /\ DiskInv /\ [Next]_catalogVars => TypeInv' /\ Given' /\ DiskInv'
  <2> SUFFICES ASSUME TypeInv, Given, DiskInv, [Next]_catalogVars PROVE DiskInv'
    BY TypeStep, GivenStep
  <2>1. Separate'
    BY SeparateStep DEF DiskInv
  <2>2. ASSUME NEW u \in Users, NEW f \in Files, ShareItem(u, f) 
        PROVE  DiskInv'
    BY <2>2 DEF ShareItem, DiskInv, Separate, Among, ReferencedOnDisk, InUseFine, HandlerFine, InUse, FirstOfPath, Referenced, Linkable
  <2>3. CASE UNCHANGED catalogVars
    BY <2>3 DEF catalogVars, DiskInv, Separate, Among, ReferencedOnDisk, InUseFine, HandlerFine, InUse, FirstOfPath, Referenced, Linkable
  <2> QED BY <2>1, <2>2, <2>3, AddKeeps, DeleteKeeps, RequestKeeps, FinishKeeps DEF Next
<1>3. DiskInv => ReferencedOnDisk
  BY DEF DiskInv
<1> QED BY <1>1, <1>2, <1>3, PTL DEF Spec

==============================================================================
