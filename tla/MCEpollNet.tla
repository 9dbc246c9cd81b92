------------------------------ MODULE MCEpollNet ------------------------------
(* Small instances of EpollNet for TLC.                                     *)
EXTENDS EpollNet, TLC

\* Connections, descriptors and workers are interchangeable.
NetSymmetry == Permutations(Conns) \cup Permutations(Fds) \cup Permutations(Workers)
===============================================================================
