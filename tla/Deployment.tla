----------------------------- MODULE Deployment -----------------------------
(***************************************************************************)
(* What a gateway process decides once, when it starts: its mode and its   *)
(* store.                                                                  *)
(***************************************************************************)
VARIABLES
  mode,   \* DEPLOYMENT_MODE
  memory  \* the in-memory store, not PostgreSQL

deployment == <<mode, memory>>

\* DATABASE_URL is required outside demo and has to answer there; a demo falls
\* back to memory.
Deployed ==
  /\ mode \in {"demo", "self_hosted", "cloud"}
  /\ memory \in BOOLEAN
  /\ memory => mode = "demo"
=============================================================================
