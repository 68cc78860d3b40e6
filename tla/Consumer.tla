------------------------------ MODULE Consumer ------------------------------
(***************************************************************************)
(* The procurement consumer: internal/ingestion/consumer.go run by         *)
(* cmd/procurement, on ONE partition of procurement.discovered.v1.  The    *)
(* publisher hashes the opportunity's source id, so a row of               *)
(* procurement.opportunities is only ever written from one partition and   *)
(* partitions do not interact.                                             *)
(*                                                                         *)
(* A replica fetches a message, upserts its opportunity (or copies an      *)
(* invalid message to the dead-letter topic), commits its offset, and ends *)
(* the process on any error.  The group coordinator, outside src/, gives   *)
(* the partition to one replica at a time, but a replica that lost it may  *)
(* still be working on the message it holds.                               *)
(*                                                                         *)
(* Offsets are numbered from 1: an offset counter n says that 1..n are     *)
(* behind it.  An event's version is its offset.                           *)
(***************************************************************************)
EXTENDS Integers, Sequences

CONSTANTS
  Replicas,   \* processes of the service (Helm's procurement.replicas)
  Keys,       \* opportunity ids
  Events,     \* what may be published: records of EventType
  MaxLog,     \* bound: messages in the partition
  MaxFaults,  \* bound: crashes, failed calls and lost sessions
  NoReplica   \* the partition is assigned to nobody

\* "valid": decodes, has an id and PostgreSQL accepts the row.  "invalid": bad
\* JSON or no id.  "refused": decodes and has an id, but the row breaks a
\* constraint of the table (a state longer than char(2), say), every time.
EventType == [key : Keys, kind : {"valid", "invalid", "refused"}]

ASSUME ConsumerAssumption ==
  /\ MaxLog \in Nat
  /\ MaxFaults \in Nat
  /\ Events \subseteq EventType
  /\ NoReplica \notin Replicas

VARIABLES
  log,         \* the partition, append-only
  committed,   \* the group's committed offset
  owner,       \* the replica the partition is assigned to
  position,    \* position[r]: the last offset r's reader has delivered
  held,        \* held[r]: the offset of the message r works on
  pc,          \* pc[r]: where r is in Run
  rows,        \* rows[k]: the offset of the event row k was last written from, or 0
  deadLetters, \* offsets copied to the dead-letter topic (the id of a dead letter)
  persisted,   \* history: offsets whose upsert has been executed
  faults       \* how many faults have happened

group == <<committed, owner, position>>
tables == <<rows, deadLetters, persisted>>
vars == <<log, committed, owner, position, held, pc, rows, deadLetters, persisted, faults>>

Offsets == 1..Len(log)
Settled == persisted \cup deadLetters

Init ==
  /\ log = <<>>
  /\ committed = 0
  /\ owner = NoReplica
  /\ position = [r \in Replicas |-> 0]
  /\ held = [r \in Replicas |-> 0]
  /\ pc = [r \in Replicas |-> "down"]
  /\ rows = [k \in Keys |-> 0]
  /\ deadLetters = {}
  /\ persisted = {}
  /\ faults = 0

Fault == faults < MaxFaults /\ faults' = faults + 1

\* The publisher of the ingestion worker, or an operator republishing a
\* repaired dead letter.
Publish(e) ==
  /\ Len(log) < MaxLog
  /\ log' = Append(log, e)
  /\ UNCHANGED <<group, held, pc, tables, faults>>

-----------------------------------------------------------------------------
(* The group coordinator and the supervisor of the process.                *)

Restart(r) ==
  /\ pc[r] = "down"
  /\ pc' = [pc EXCEPT ![r] = "fetch"]
  /\ UNCHANGED <<log, group, held, tables, faults>>

\* A reader starts its generation at the committed offset.
StartGeneration(r) ==
  /\ pc[r] # "down"
  /\ owner' = r
  /\ position' = [position EXCEPT ![r] = committed]
  /\ UNCHANGED <<log, committed, held, pc, tables>>

Assign(r) ==
  /\ owner = NoReplica
  /\ StartGeneration(r)
  /\ UNCHANGED faults

\* A rebalance or an expired session moves the partition while its owner, which
\* learns of it in the background, goes on with the message it holds.
Rebalance(r) ==
  /\ owner # NoReplica
  /\ StartGeneration(r)
  /\ Fault

\* log.Fatal, a signal or a crash: nothing in memory survives.
Exit(r) ==
  /\ pc' = [pc EXCEPT ![r] = "down"]
  /\ held' = [held EXCEPT ![r] = 0]
  /\ position' = [position EXCEPT ![r] = 0]
  /\ owner' = IF owner = r THEN NoReplica ELSE owner
  /\ UNCHANGED log

Crash(r) ==
  /\ pc[r] # "down"
  /\ Exit(r)
  /\ Fault
  /\ UNCHANGED <<committed, tables>>

-----------------------------------------------------------------------------
(* Consumer.Run                                                            *)

\* FetchMessage returns the next message of the generation; decoding and the
\* check of the id are local.
Fetch(r) ==
  LET next == position[r] + 1
  IN  /\ pc[r] = "fetch"
      /\ owner = r
      /\ next \in Offsets
      /\ position' = [position EXCEPT ![r] = next]
      /\ held' = [held EXCEPT ![r] = next]
      /\ pc' = [pc EXCEPT ![r] = IF log[next].kind = "invalid" THEN "deadLetter" ELSE "put"]
      /\ UNCHANGED <<log, committed, owner, tables, faults>>

\* Mutant: ON CONFLICT (id) DO NOTHING.
InsertOnly(o) ==
  /\ rows' = [rows EXCEPT ![log[o].key] = IF @ = 0 THEN o ELSE @]
  /\ persisted' = persisted \cup {o}
  /\ UNCHANGED deadLetters

\* INSERT ... ON CONFLICT (id) DO UPDATE, whatever the row held before.
Upsert(o) ==
  /\ rows' = [rows EXCEPT ![log[o].key] = o]
  /\ persisted' = persisted \cup {o}
  /\ UNCHANGED deadLetters

CopyToDeadLetters(o) ==
  /\ deadLetters' = deadLetters \cup {o}
  /\ UNCHANGED <<rows, persisted>>

PutOpportunity(r) ==
  /\ pc[r] = "put"
  /\ log[held[r]].kind = "valid"
  /\ Upsert(held[r])
  /\ pc' = [pc EXCEPT ![r] = "commit"]
  /\ UNCHANGED <<log, group, held, faults>>

\* Mutant: a refused row is logged and its message committed.
SkipRefused(r) ==
  /\ pc[r] = "put"
  /\ log[held[r]].kind = "refused"
  /\ pc' = [pc EXCEPT ![r] = "commit"]
  /\ UNCHANGED <<log, group, held, tables, faults>>

\* The row is refused and Run returns; the process ends.
PutRefused(r) ==
  /\ pc[r] = "put"
  /\ log[held[r]].kind = "refused"
  /\ Exit(r)
  /\ UNCHANGED <<committed, tables, faults>>

\* The call fails; the statement may have been executed all the same.
PutFails(r) ==
  /\ pc[r] = "put"
  /\ log[held[r]].kind = "valid"
  /\ Upsert(held[r]) \/ UNCHANGED tables
  /\ Exit(r)
  /\ Fault
  /\ UNCHANGED committed

\* Mutant: an invalid message is committed without a copy.
DropInvalid(r) ==
  /\ pc[r] = "deadLetter"
  /\ pc' = [pc EXCEPT ![r] = "commit"]
  /\ UNCHANGED <<log, group, held, tables, faults>>

\* Mutant: an invalid message ends the process, like a refused row.
EndOnInvalid(r) ==
  /\ pc[r] = "deadLetter"
  /\ Exit(r)
  /\ UNCHANGED <<committed, tables, faults>>

DeadLetter(r) ==
  /\ pc[r] = "deadLetter"
  /\ CopyToDeadLetters(held[r])
  /\ pc' = [pc EXCEPT ![r] = "commit"]
  /\ UNCHANGED <<log, group, held, faults>>

DeadLetterFails(r) ==
  /\ pc[r] = "deadLetter"
  /\ CopyToDeadLetters(held[r]) \/ UNCHANGED tables
  /\ Exit(r)
  /\ Fault
  /\ UNCHANGED committed

\* Mutant: the offset to read next is committed.
CommitNext(r) ==
  /\ pc[r] = "commit"
  /\ committed' = held[r] + 1
  /\ pc' = [pc EXCEPT ![r] = "fetch"]
  /\ held' = [held EXCEPT ![r] = 0]
  /\ UNCHANGED <<log, owner, position, tables, faults>>

\* The coordinator checks the member, not the assignment: the commit of a
\* replica that lost the partition may still be accepted, and moves the offset
\* to where that replica is, back included.
CommitMessages(r) ==
  /\ pc[r] = "commit"
  /\ committed' = held[r]
  /\ pc' = [pc EXCEPT ![r] = "fetch"]
  /\ held' = [held EXCEPT ![r] = 0]
  /\ UNCHANGED <<log, owner, position, tables, faults>>

CommitFails(r) ==
  /\ pc[r] = "commit"
  /\ committed' \in {committed, held[r]}
  /\ Exit(r)
  /\ Fault
  /\ UNCHANGED tables

-----------------------------------------------------------------------------
Work(r) ==
  \/ Fetch(r)
  \/ PutOpportunity(r)
  \/ PutRefused(r)
  \/ DeadLetter(r)
  \/ CommitMessages(r)

Next ==
  \/ \E e \in Events : Publish(e)
  \/ \E r \in Replicas :
       \/ Restart(r)
       \/ Assign(r)
       \/ Rebalance(r)
       \/ Crash(r)
       \/ Fetch(r)
       \/ PutOpportunity(r)
       \/ PutRefused(r)
       \/ PutFails(r)
       \/ DeadLetter(r)
       \/ DeadLetterFails(r)
       \/ CommitMessages(r)
       \/ CommitFails(r)

\* The loop of Run never waits for anything but its calls, the supervisor
\* restarts an ended process and the coordinator assigns an orphan partition.
\* Faults are finitely many, so no strong fairness is asked.
Fairness ==
  \A r \in Replicas :
    WF_vars(Restart(r)) /\ WF_vars(Assign(r)) /\ WF_vars(Work(r))

SafeSpec == Init /\ [][Next]_vars
Spec == SafeSpec /\ Fairness

-----------------------------------------------------------------------------
TypeOK ==
  /\ log \in Seq(Events)
  /\ committed \in 0..Len(log)
  /\ owner \in Replicas \cup {NoReplica}
  /\ position \in [Replicas -> 0..Len(log)]
  /\ held \in [Replicas -> 0..Len(log)]
  /\ pc \in [Replicas -> {"down", "fetch", "put", "deadLetter", "commit"}]
  /\ rows \in [Keys -> 0..Len(log)]
  /\ deadLetters \subseteq Offsets
  /\ persisted \subseteq Offsets
  /\ faults \in 0..MaxFaults

\* Every message behind the committed offset has been written to its row or
\* copied to the dead-letter topic, whatever replica committed it and however
\* often the partition changed hands: consumer.go commits only after
\* PutOpportunity or WriteMessages succeeded.
NoEventLost == 1..committed \subseteq Settled

\* Messages are settled without a gap: no replica writes or sets aside a
\* message while an earlier one of the partition has never been settled, also
\* when the commit of a replica that lost the partition moves the offset back.
SettledWithoutGap == \A o \in Settled : 1..o \subseteq Settled

\* A message without a refused one at or before it ends in a row or in the
\* dead-letter topic: restarts, rebalances and failed calls only delay it.  (A
\* refused row stops the partition for good: Run returns and the restarted
\* process fetches the same message.)
Unblocked(o) == o \in Offsets /\ \A p \in 1..o : log[p].kind # "refused"
EventuallySettled ==
  \A o \in 1..MaxLog : Unblocked(o) ~> o \in Settled
=============================================================================
