------------------------------ MODULE MCIngest ------------------------------
(***************************************************************************)
(* Ingest on two symbols and two runs.                                     *)
(***************************************************************************)
EXTENDS Ingest
=============================================================================
