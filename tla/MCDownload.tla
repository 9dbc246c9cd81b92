------------------------------ MODULE MCDownload ------------------------------
(* Small instances of Download for TLC: a folder that holds a file and a     *)
(* folder with another, empty one; and a request for the empty file alone,   *)
(* with a timestamp beyond those the folder takes, or among them.            *)
EXTENDS Download

CONSTANTS long, empty, root, sub

MCFiles == {long, empty}
MCFileSize == [f \in MCFiles |-> IF f = long THEN 3 ELSE 0]
MCChildren == [d \in {root, sub} |-> IF d = root THEN {sub, long} ELSE {empty}]
MCWanted == [k \in {1, 6} |-> IF k = 1 THEN root ELSE empty]
MCWantedNear == [k \in {1, 3} |-> IF k = 1 THEN root ELSE empty]
MCWantedFile == [k \in {1} |-> long]
MCKeys == 1..6

\* Each file and each folder of a walk takes one timestamp; those of MCWanted leave room for it.
MCLists == {<<root>>} \cup UNION {SetToSeqs(S) : S \in SUBSET {sub, long} \cup SUBSET {empty, long}}
MCTakes(x) == IF x = root THEN 4 ELSE IF x = sub THEN 2 ELSE 1
MCRoom == [todo \in MCLists |-> FoldLeft(LAMBDA n, x : n + MCTakes(x), 0, todo)]
ASSUME MCWalksFit == Wanted = MCWanted => WalksFit(MCRoom)
===============================================================================
