------------------------------ MODULE MCFolders ------------------------------
(* Small instances of Folders for TLC: one user has a folder with a file and *)
(* a folder in it that holds the same file; the folder is shared, and        *)
(* another user has taken it over.                                           *)
EXTENDS Folders

CONSTANTS u1, u2, f1, a, l1

MCTree(u) == {Entry(u, <<>>, Folder(u1, <<>>, a)), Entry(u, <<a>>, Folder(u1, <<a>>, a)),
              Entry(u, <<a>>, f1), Entry(u, <<a, a>>, f1)}
MCInitEntries == MCTree(u1) \cup MCTree(u2)
MCInitLinks == {<<Entry(u1, <<>>, Folder(u1, <<>>, a)), l1>>}
===============================================================================
