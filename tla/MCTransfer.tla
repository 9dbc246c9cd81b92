------------------------------ MODULE MCTransfer ------------------------------
(* Small instances of Transfer, and so of Upload, for TLC.                   *)
EXTENDS Transfer
===============================================================================
