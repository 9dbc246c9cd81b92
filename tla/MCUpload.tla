------------------------------- MODULE MCUpload -------------------------------
(* Small instances of Upload for TLC.                                       *)
EXTENDS Upload
===============================================================================
