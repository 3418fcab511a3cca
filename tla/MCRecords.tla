----------------------------- MODULE MCRecords ------------------------------
(***************************************************************************)
(* Small instances of Records.                                             *)
(***************************************************************************)
EXTENDS Records

CONSTANTS p, q
=============================================================================
