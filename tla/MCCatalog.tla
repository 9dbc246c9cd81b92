------------------------------ MODULE MCCatalog ------------------------------
(* Small instances of Catalog for TLC.                                      *)
EXTENDS Catalog
===============================================================================
