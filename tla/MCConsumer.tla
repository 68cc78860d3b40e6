----------------------------- MODULE MCConsumer -----------------------------
(***************************************************************************)
(* Values of the constants of Consumer for TLC, and the abstract log       *)
(* mirror.  A history variable says what the mirror needs to know of the   *)
(* replicas: whether one went on with a message after it lost the          *)
(* partition.                                                              *)
(***************************************************************************)
EXTENDS Consumer

CONSTANTS k1, k2

VARIABLE overlapped

\* Two versions of one opportunity compete with a message of each other kind.
MCKeys == {k1, k2}
MCEvents ==
  {[key |-> k1, kind |-> "valid"], [key |-> k2, kind |-> "valid"],
   [key |-> k1, kind |-> "invalid"], [key |-> k2, kind |-> "refused"]}

StaleOwner == \E r \in Replicas : held[r] # 0 /\ owner # r

MCInit == Init /\ overlapped = FALSE
MCNext == Next /\ overlapped' = (overlapped \/ StaleOwner')
MCSpec == MCInit /\ [][MCNext]_<<vars, overlapped>> /\ Fairness

Mirror == INSTANCE LogMirror WITH
  Keys <- Keys, Events <- Events, log <- log, rows <- rows, deadLetters <- deadLetters,
  persisted <- persisted, overlapped <- overlapped

\* The messages of the partition are settled in log order and the rows mirror
\* the settled prefix: a redelivered message repeats the last upsert and never
\* an older one, through crashes, restarts and failed calls, until a replica goes
\* on with a message after a rebalance took the partition from it.
MirrorsLog == Mirror!Spec
=============================================================================
