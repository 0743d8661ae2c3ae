-------------------------- MODULE MCDocumentStorage --------------------------
(* DocumentStorage for TLC: no symmetry, since documents are ordered and two  *)
(* properties are temporal.                                                   *)
EXTENDS DocumentStorage
===============================================================================
