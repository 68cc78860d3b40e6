---------------------------- MODULE MCIngestion ----------------------------
(***************************************************************************)
(* The ingestion worker over a few days with a few records.                *)
(***************************************************************************)
EXTENDS Ingestion
=============================================================================
