----------------------------- MODULE MCThreadPool -----------------------------
(* Small instances of ThreadPool for TLC.                                   *)
EXTENDS ThreadPool, TLC

\* Connections are interchangeable (used by the safety runs only).
ConnSymmetry == Permutations(Conns)
===============================================================================
