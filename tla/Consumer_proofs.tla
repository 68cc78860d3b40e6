-------------------------- MODULE Consumer_proofs --------------------------
(***************************************************************************)
(* For any number of replicas, any events and any number of faults, no     *)
(* message of the partition is ever lost.                                  *)
(***************************************************************************)
EXTENDS Consumer, TLAPS

\* What a replica knows about the messages before the one it works on.
HeldInOrder ==
  \A r \in Replicas :
    /\ pc[r] \in {"put", "deadLetter", "commit"} =>
         held[r] \in Offsets /\ 1..(held[r] - 1) \subseteq Settled
    /\ pc[r] = "commit" => held[r] \in Settled
    /\ pc[r] \in {"fetch", "down"} => held[r] = 0

\* A replica never reads past a message that nobody has settled, but for the
\* one it holds.
ReadInOrder ==
  \A r \in Replicas : 1..position[r] \subseteq Settled \cup {held[r]}

\* The inductive invariant.  NoEventLost alone is not inductive: CommitMessages
\* preserves it only because everything up to the held message is settled,
\* which HeldInOrder says and Fetch establishes from ReadInOrder.
IInv == TypeOK /\ NoEventLost /\ SettledWithoutGap /\ HeldInOrder /\ ReadInOrder

-----------------------------------------------------------------------------
LEMMA InitIInv == Init => IInv
<1> SUFFICES ASSUME Init PROVE IInv
  OBVIOUS
<1>1. TypeOK
  BY ConsumerAssumption DEF Init, TypeOK, Offsets
<1>2. NoEventLost /\ SettledWithoutGap
  BY DEF Init, NoEventLost, SettledWithoutGap, Settled
<1>3. HeldInOrder /\ ReadInOrder
  BY DEF Init, HeldInOrder, ReadInOrder
<1>4. QED
  BY <1>1, <1>2, <1>3 DEF IInv

\* Publish only appends: offsets keep their messages.
LEMMA PublishIInv ==
  ASSUME IInv, NEW e \in Events, Publish(e)
  PROVE  IInv'
<1> USE DEF IInv, Publish, group, tables
<1>1. log' \in Seq(Events) /\ Len(log') = Len(log) + 1
  BY DEF TypeOK
<1>2. TypeOK'
  BY <1>1 DEF TypeOK, Offsets
<1>3. (NoEventLost /\ SettledWithoutGap)'
  BY DEF NoEventLost, SettledWithoutGap, Settled
<1>4. (HeldInOrder /\ ReadInOrder)'
  BY <1>1 DEF HeldInOrder, ReadInOrder, Settled, Offsets, TypeOK
<1>5. QED
  BY <1>2, <1>3, <1>4

\* A new generation reads from the committed offset.
LEMMA StartGenerationIInv ==
  ASSUME IInv, NEW r \in Replicas, StartGeneration(r), faults' \in 0..MaxFaults
  PROVE  IInv'
<1> USE DEF IInv, StartGeneration, tables
<1>1. TypeOK'
  BY DEF TypeOK, Offsets
<1>2. (NoEventLost /\ SettledWithoutGap)'
  BY DEF NoEventLost, SettledWithoutGap, Settled
<1>3. HeldInOrder'
  BY DEF HeldInOrder, Settled, Offsets
<1>4. ReadInOrder'
  BY DEF ReadInOrder, Settled, NoEventLost, TypeOK
<1>5. QED
  BY <1>1, <1>2, <1>3, <1>4

\* A process that ends forgets what it held; what it settled stays settled.
LEMMA ExitIInv ==
  ASSUME IInv, NEW r \in Replicas, Exit(r), faults' \in 0..MaxFaults,
         committed' \in 0..Len(log), rows' \in [Keys -> 0..Len(log)],
         persisted' \subseteq Offsets, deadLetters' \subseteq Offsets,
         Settled \subseteq Settled', NoEventLost', SettledWithoutGap'
  PROVE  IInv'
<1> USE DEF IInv, Exit
<1>1. TypeOK'
  BY DEF TypeOK, Offsets
<1>2. HeldInOrder'
  BY DEF HeldInOrder, Offsets, TypeOK
<1>3. ReadInOrder'
  BY DEF ReadInOrder, TypeOK
<1>4. QED
  BY <1>1, <1>2, <1>3

\* Settling the message a replica holds leaves no gap.
LEMMA SettleHeld ==
  ASSUME IInv, NEW r \in Replicas, pc[r] \in {"put", "deadLetter"},
         \/ Upsert(held[r])
         \/ CopyToDeadLetters(held[r])
         \/ UNCHANGED tables,
         committed' = committed, log' = log
  PROVE  /\ rows' \in [Keys -> 0..Len(log)]
         /\ persisted' \subseteq Offsets /\ deadLetters' \subseteq Offsets
         /\ Settled \subseteq Settled'
         /\ Settled' \subseteq Settled \cup {held[r]}
         /\ NoEventLost' /\ SettledWithoutGap'
<1> USE DEF IInv
<1>1. held[r] \in Offsets /\ held[r] \in 0..Len(log) /\ 1..(held[r] - 1) \subseteq Settled
  BY DEF HeldInOrder, TypeOK
<1>2. /\ rows' \in [Keys -> 0..Len(log)]
      /\ persisted' \subseteq Offsets /\ deadLetters' \subseteq Offsets
  BY <1>1 DEF Upsert, CopyToDeadLetters, tables, TypeOK
<1>3. Settled \subseteq Settled' /\ Settled' \subseteq Settled \cup {held[r]}
  BY DEF Upsert, CopyToDeadLetters, tables, Settled
<1>4. NoEventLost'
  BY <1>3 DEF NoEventLost
<1>5. SettledWithoutGap'
  <2> SUFFICES ASSUME NEW o \in Settled', NEW p \in 1..o PROVE p \in Settled'
    BY DEF SettledWithoutGap
  <2>1. CASE o \in Settled
    BY <2>1, <1>3 DEF SettledWithoutGap
  <2>2. CASE o \notin Settled
    <3>1. o = held[r] /\ held[r] \in Settled'
      BY <2>2, <1>3
    <3>2. CASE p = o
      BY <3>1, <3>2
    <3>3. CASE p # o
      BY <3>1, <3>3, <1>1, <1>3 DEF Offsets
    <3>4. QED
      BY <3>2, <3>3
  <2>3. QED
    BY <2>1, <2>2
<1>6. QED
  BY <1>2, <1>3, <1>4, <1>5

LEMMA NextIInv == IInv /\ [Next]_vars => IInv'
<1> SUFFICES ASSUME IInv, [Next]_vars PROVE IInv'
  OBVIOUS
<1> USE DEF IInv, Fault, group
<1>0. faults \in 0..MaxFaults /\ committed \in 0..Len(log) /\ MaxFaults \in Nat
  BY ConsumerAssumption DEF TypeOK
<1>1. ASSUME NEW e \in Events, Publish(e) PROVE IInv'
  BY <1>1, PublishIInv
<1>2. ASSUME NEW r \in Replicas, Restart(r) PROVE IInv'
  <2> USE <1>2 DEF Restart, tables
  <2>1. (TypeOK /\ NoEventLost /\ SettledWithoutGap)'
    BY DEF TypeOK, NoEventLost, SettledWithoutGap, Settled, Offsets
  <2>2. (HeldInOrder /\ ReadInOrder)'
    BY DEF HeldInOrder, ReadInOrder, Settled, Offsets, TypeOK
  <2>3. QED
    BY <2>1, <2>2
<1>3. ASSUME NEW r \in Replicas, Assign(r) PROVE IInv'
  BY <1>3, <1>0, StartGenerationIInv DEF Assign
<1>4. ASSUME NEW r \in Replicas, Rebalance(r) PROVE IInv'
  BY <1>4, <1>0, StartGenerationIInv DEF Rebalance
<1>5. ASSUME NEW r \in Replicas, Crash(r) PROVE IInv'
  <2>1. UNCHANGED <<log, committed, tables>>
    BY <1>5 DEF Crash, Exit
  <2>2. (NoEventLost /\ SettledWithoutGap)' /\ Settled \subseteq Settled'
    BY <2>1 DEF NoEventLost, SettledWithoutGap, Settled, tables
  <2>3. /\ Exit(r) /\ faults' \in 0..MaxFaults /\ committed' \in 0..Len(log)
        /\ rows' \in [Keys -> 0..Len(log)]
        /\ persisted' \subseteq Offsets /\ deadLetters' \subseteq Offsets
    BY <1>5, <1>0, <2>1 DEF Crash, TypeOK, tables
  <2>4. QED
    BY <2>2, <2>3, ExitIInv
<1>6. ASSUME NEW r \in Replicas, Fetch(r) PROVE IInv'
  <2> USE <1>6 DEF Fetch, tables
  <2>1. (TypeOK /\ NoEventLost /\ SettledWithoutGap)'
    BY DEF TypeOK, NoEventLost, SettledWithoutGap, Settled, Offsets
  <2>2. 1..position[r] \subseteq Settled /\ position[r] \in Nat
    BY DEF HeldInOrder, ReadInOrder, TypeOK
  <2>3. HeldInOrder'
    BY <2>2 DEF HeldInOrder, Settled, Offsets, TypeOK
  <2>4. /\ position' = [position EXCEPT ![r] = position[r] + 1]
        /\ held' = [held EXCEPT ![r] = position[r] + 1]
        /\ Settled' = Settled
    BY DEF Settled
  <2>5. \A n \in 1..(position[r] + 1) : n \in Settled \/ n = position[r] + 1
    BY <2>2
  <2>6. ReadInOrder'
    BY <2>4, <2>5 DEF ReadInOrder, TypeOK
  <2>7. QED
    BY <2>1, <2>3, <2>6
<1>7. ASSUME NEW r \in Replicas, PutOpportunity(r) \/ DeadLetter(r) PROVE IInv'
  <2>1. /\ pc[r] \in {"put", "deadLetter"}
        /\ Upsert(held[r]) \/ CopyToDeadLetters(held[r])
        /\ pc' = [pc EXCEPT ![r] = "commit"]
        /\ UNCHANGED <<log, committed, owner, position, held, faults>>
    BY <1>7 DEF PutOpportunity, DeadLetter
  <2>2. held[r] \in Settled'
    BY <2>1 DEF Upsert, CopyToDeadLetters, Settled
  <2>3. /\ rows' \in [Keys -> 0..Len(log)]
        /\ persisted' \subseteq Offsets /\ deadLetters' \subseteq Offsets
        /\ Settled \subseteq Settled'
        /\ NoEventLost' /\ SettledWithoutGap'
    BY <2>1, SettleHeld
  <2>4. TypeOK'
    BY <2>1, <2>3 DEF TypeOK, Offsets
  <2>5. HeldInOrder'
    BY <2>1, <2>2, <2>3 DEF HeldInOrder, Offsets, TypeOK
  <2>6. ReadInOrder'
    BY <2>1, <2>3 DEF ReadInOrder
  <2>7. QED
    BY <2>3, <2>4, <2>5, <2>6
<1>8. ASSUME NEW r \in Replicas, PutRefused(r) PROVE IInv'
  <2>1. UNCHANGED <<log, committed, tables, faults>>
    BY <1>8 DEF PutRefused, Exit
  <2>2. (NoEventLost /\ SettledWithoutGap)' /\ Settled \subseteq Settled'
    BY <2>1 DEF NoEventLost, SettledWithoutGap, Settled, tables
  <2>3. QED
    BY <1>8, <1>0, <2>1, <2>2, ExitIInv DEF PutRefused, TypeOK, tables
<1>9. ASSUME NEW r \in Replicas, PutFails(r) \/ DeadLetterFails(r) PROVE IInv'
  <2>1. /\ pc[r] \in {"put", "deadLetter"}
        /\ Upsert(held[r]) \/ CopyToDeadLetters(held[r]) \/ UNCHANGED tables
        /\ Exit(r) /\ UNCHANGED <<log, committed>> /\ faults' \in 0..MaxFaults
    BY <1>9, <1>0 DEF PutFails, DeadLetterFails, Exit
  <2>2. QED
    BY <1>0, <2>1, SettleHeld, ExitIInv
<1>10. ASSUME NEW r \in Replicas, CommitMessages(r) PROVE IInv'
  <2> USE <1>10 DEF CommitMessages, tables
  <2>1. held[r] \in Offsets /\ 1..held[r] \subseteq Settled
    BY DEF HeldInOrder, Offsets, SettledWithoutGap
  <2>2. TypeOK'
    BY <2>1 DEF TypeOK, Offsets
  <2>3. (NoEventLost /\ SettledWithoutGap)'
    BY <2>1 DEF NoEventLost, SettledWithoutGap, Settled
  <2>4. HeldInOrder'
    BY DEF HeldInOrder, Settled, Offsets, TypeOK
  <2>5. ReadInOrder'
    BY <2>1 DEF ReadInOrder, HeldInOrder, Settled, TypeOK
  <2>6. QED
    BY <2>2, <2>3, <2>4, <2>5
<1>11. ASSUME NEW r \in Replicas, CommitFails(r) PROVE IInv'
  <2>1. 1..held[r] \subseteq Settled /\ held[r] \in 0..Len(log)
    BY <1>11 DEF CommitFails, HeldInOrder, Offsets, SettledWithoutGap, TypeOK
  <2>2. UNCHANGED <<log, tables>> /\ committed' \in {committed, held[r]}
    BY <1>11 DEF CommitFails, Exit
  <2>3. (NoEventLost /\ SettledWithoutGap)' /\ Settled \subseteq Settled'
    BY <2>1, <2>2 DEF NoEventLost, SettledWithoutGap, Settled, tables
  <2>4. faults' \in 0..MaxFaults
    BY <1>11, <1>0 DEF CommitFails
  <2>5. QED
    BY <1>11, <1>0, <2>1, <2>2, <2>3, <2>4, ExitIInv DEF CommitFails, TypeOK, tables
<1>12. CASE UNCHANGED vars
  BY <1>12 DEF vars, TypeOK, NoEventLost, SettledWithoutGap, HeldInOrder, ReadInOrder,
               Settled, Offsets
<1>13. QED
  BY <1>1, <1>2, <1>3, <1>4, <1>5, <1>6, <1>7, <1>8, <1>9, <1>10, <1>11, <1>12 DEF Next

THEOREM Invariance == SafeSpec => []IInv
  BY InitIInv, NextIInv, PTL DEF SafeSpec

\* Every variable of the consumer keeps its type.
THEOREM TypeCorrect == SafeSpec => []TypeOK
  BY Invariance, PTL DEF IInv

\* No message behind the committed offset is unsettled, for any number of
\* replicas and any interleaving of rebalances, failed calls and restarts.
THEOREM ConsumerLosesNothing == SafeSpec => []NoEventLost
  BY Invariance, PTL DEF IInv

\* Messages are settled in log order, without a gap.
THEOREM ConsumerKeepsOrder == SafeSpec => []SettledWithoutGap
  BY Invariance, PTL DEF IInv
=============================================================================
