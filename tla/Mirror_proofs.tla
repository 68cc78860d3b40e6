---------------------------- MODULE Mirror_proofs -----------------------------
(***************************************************************************)
(* The consumer implements the log mirror, for any number of replicas, any *)
(* events, any log and any faults: each of its steps is a step of LogMirror *)
(* or leaves the mirror as it is.                                          *)
(***************************************************************************)
EXTENDS MCConsumer, Consumer_proofs

MCSafe == MCInit /\ [][MCNext]_<<vars, overlapped>>

\* A message is settled, and worked on, as its kind demands.
Kinds ==
  /\ \A o \in persisted : log[o].kind = "valid"
  /\ \A o \in deadLetters : log[o].kind = "invalid"
  /\ \A r \in Replicas : /\ pc[r] = "put" => log[held[r]].kind # "invalid"
                         /\ pc[r] = "deadLetter" => log[held[r]].kind = "invalid"

UpTo(n) == \A o \in Settled : o <= n

\* While the partition has one replica at a time: nothing is settled further than
\* one message behind the committed offset, that message is the one at hand, and a
\* row is the newest settled event of its opportunity.  (A replica that is given
\* its own partition anew reads the message it holds a second time.)
OneReader ==
  /\ UpTo(committed + 1)
  /\ \A r \in Replicas : held[r] # 0 =>
       /\ owner = r
       /\ \/ held[r] = committed + 1 /\ position[r] \in {committed, committed + 1}
          \/ held[r] = committed /\ position[r] = committed /\ UpTo(committed)
  /\ \A r \in Replicas : held[r] = 0 /\ owner = r =>
       position[r] = committed \/ (position[r] = committed - 1 /\ UpTo(committed))

NewestRows ==
  /\ \A o \in persisted : rows[log[o].key] >= o
  /\ \A k \in Keys : rows[k] # 0 => rows[k] \in persisted

MirrorInv ==
  /\ IInv
  /\ Kinds
  /\ StaleOwner => overlapped
  /\ ~overlapped => OneReader /\ NewestRows
  /\ overlapped \in BOOLEAN

-----------------------------------------------------------------------------
LEMMA LogFacts ==
  ASSUME IInv
  PROVE  /\ committed \in Nat /\ Len(log) \in Nat /\ Settled \subseteq Offsets /\ Offsets \subseteq Nat
         /\ rows \in [Keys -> 0..Len(log)]
         /\ \A o \in Offsets : /\ o \in 1..Len(log) /\ log[o].key \in Keys
                               /\ log[o].kind \in {"valid", "invalid", "refused"}
         /\ \A r \in Replicas : held[r] \in Nat /\ position[r] \in Nat
         /\ persisted \subseteq Settled /\ deadLetters \subseteq Settled
<1>1. TypeOK
  BY DEF IInv
<1>2. log \in Seq(Events) /\ Len(log) \in Nat
  BY <1>1 DEF TypeOK
<1>3. \A o \in Offsets : log[o] \in EventType
  BY <1>2, ConsumerAssumption DEF Offsets
<1>4. \A o \in Offsets : log[o].key \in Keys /\ log[o].kind \in {"valid", "invalid", "refused"}
  BY <1>3 DEF EventType
<1>5. QED
  BY <1>1, <1>2, <1>4 DEF TypeOK, Settled, Offsets

\* Only a new generation can leave a replica with a message it has lost.
LEMMA NothingNew ==
  ASSUME MirrorInv, overlapped' = (overlapped \/ StaleOwner'), StaleOwner' => StaleOwner
  PROVE  overlapped' = overlapped
BY Zenon DEF MirrorInv

\* The message at hand, if it is not settled, is the next one of the mirror.
LEMMA HeldIsNext ==
  ASSUME IInv, NEW r \in Replicas, pc[r] \in {"put", "deadLetter"}
  PROVE  /\ held[r] \in Offsets
         /\ held[r] \notin Settled => Mirror!IsNext(held[r])
<1>1. held[r] \in Offsets /\ 1..(held[r] - 1) \subseteq Settled
  BY DEF IInv, HeldInOrder
<1>2. ASSUME held[r] \notin Settled, NEW o \in Settled PROVE o \in 1..(held[r] - 1)
  <2>1. o \in Offsets /\ o \in Nat /\ held[r] \in Nat /\ o >= 1 /\ held[r] >= 1
    BY <1>1, LogFacts DEF Offsets
  <2>2. 1..o \subseteq Settled
    BY <1>2 DEF IInv, SettledWithoutGap
  <2>3. ~(held[r] <= o)
    BY <1>2, <2>1, <2>2
  <2>4. QED
    BY <2>1, <2>3
<1>3. QED
  BY <1>1, <1>2 DEF Mirror!IsNext, Settled, Offsets

LEMMA PutStep ==
  ASSUME MirrorInv, NEW r \in Replicas, pc[r] = "put", log[held[r]].kind = "valid",
         Upsert(held[r]), log' = log
  PROVE  /\ overlapped' = overlapped => [Mirror!Next]_Mirror!mirror
         /\ ~overlapped => NewestRows'
         /\ Settled' = Settled \cup {held[r]}
         /\ \A o \in persisted' : log'[o].kind = "valid"
         /\ deadLetters' = deadLetters
<1>1. PICK h : h = held[r]
  OBVIOUS
<1>2. IInv /\ Kinds /\ h \in Offsets /\ h \in Nat /\ log[h].key \in Keys /\ log[h].kind = "valid"
  BY <1>1, HeldIsNext, LogFacts DEF MirrorInv
<1>3. /\ rows' = [rows EXCEPT ![log[h].key] = h] /\ persisted' = persisted \cup {h}
      /\ deadLetters' = deadLetters
  BY <1>1 DEF Upsert
<1>4. h \in Settled => h \in persisted
  BY <1>2 DEF Kinds, Settled
<1>5. ~overlapped => \A o \in Settled : o <= h
  <2>1. SUFFICES ASSUME ~overlapped, NEW o \in Settled PROVE o <= h
    OBVIOUS
  <2>2. OneReader /\ o \in Nat /\ committed \in Nat /\ h # 0
    BY <1>2, <2>1, LogFacts DEF MirrorInv, Offsets
  <2>3. \/ h = committed + 1
        \/ h = committed /\ UpTo(committed)
    BY <1>1, <2>2 DEF OneReader
  <2>4. QED
    BY <2>1, <2>2, <2>3 DEF OneReader, UpTo
<1>6. ASSUME ~overlapped PROVE NewestRows'
  <2>1. NewestRows
    BY <1>6 DEF MirrorInv
  <2>2. rows \in [Keys -> 0..Len(log)] /\ persisted \subseteq Settled /\ Settled \subseteq Offsets
        /\ \A o \in Offsets : log[o].key \in Keys /\ o \in Nat
    BY <1>2, LogFacts
  <2>3. \A k \in Keys : rows'[k] = IF k = log[h].key THEN h ELSE rows[k]
    BY <1>3, <2>2
  <2>4. \A o \in persisted' : rows'[log'[o].key] >= o
    BY <1>2, <1>3, <1>5, <1>6, <2>1, <2>2, <2>3 DEF NewestRows
  <2>5. \A k \in Keys : rows'[k] # 0 => rows'[k] \in persisted'
    BY <1>3, <2>1, <2>3 DEF NewestRows
  <2>6. QED
    BY <2>4, <2>5 DEF NewestRows
<1>7. ASSUME overlapped' = overlapped PROVE [Mirror!Next]_Mirror!mirror
  <2>1. CASE h \notin Settled
    <3>1. Mirror!IsNext(h)
      BY <1>1, <2>1, HeldIsNext, <1>2
    <3>2. Mirror!Apply(h)
      BY <1>2, <1>3, <1>7, <3>1 DEF Mirror!Apply
    <3>3. QED
      BY <1>2, <3>2 DEF Mirror!Next, Offsets
  <2>2. CASE h \in Settled /\ overlapped
    <3>1. Mirror!Repeat(h)
      BY <1>3, <1>4, <1>7, <2>2 DEF Mirror!Repeat
    <3>2. QED
      BY <1>2, <3>1 DEF Mirror!Next, Offsets
  <2>3. CASE h \in Settled /\ ~overlapped
    <3>1. NewestRows /\ h \in persisted
      BY <1>4, <2>3 DEF MirrorInv
    <3>2. rows[log[h].key] >= h /\ rows[log[h].key] \in Nat
      BY <1>2, <3>1, LogFacts DEF NewestRows
    <3>3. rows[log[h].key] \in persisted
      <4>1. rows[log[h].key] # 0
        BY <1>2, <3>2 DEF Offsets
      <4>2. QED
        BY <1>2, <3>1, <4>1 DEF NewestRows
    <3>4. rows[log[h].key] = h
      BY <1>2, <1>5, <2>3, <3>2, <3>3 DEF Settled
    <3>5. rows' = rows
      BY <1>2, <1>3, <3>4, LogFacts
    <3>6. persisted' = persisted
      BY <1>3, <3>1
    <3>7. QED
      BY <1>3, <1>7, <3>5, <3>6 DEF Mirror!mirror
  <2>4. QED
    BY <2>1, <2>2, <2>3
<1>8. Settled' = Settled \cup {h}
  BY <1>3 DEF Settled
<1>9. \A o \in persisted' : log'[o].kind = "valid"
  BY <1>2, <1>3 DEF Kinds
<1>10. QED
  BY <1>1, <1>3, <1>6, <1>7, <1>8, <1>9

LEMMA SetAsideStep ==
  ASSUME MirrorInv, NEW r \in Replicas, pc[r] = "deadLetter",
         CopyToDeadLetters(held[r]), log' = log
  PROVE  /\ overlapped' = overlapped => [Mirror!Next]_Mirror!mirror
         /\ ~overlapped => NewestRows'
         /\ Settled' = Settled \cup {held[r]}
         /\ \A o \in deadLetters' : log'[o].kind = "invalid"
         /\ persisted' = persisted
<1>1. PICK h : h = held[r]
  OBVIOUS
<1>2. IInv /\ Kinds /\ h \in Offsets /\ log[h].kind = "invalid"
  BY <1>1, HeldIsNext DEF MirrorInv, Kinds
<1>3. deadLetters' = deadLetters \cup {h} /\ UNCHANGED <<rows, persisted>>
  BY <1>1 DEF CopyToDeadLetters
<1>4. h \in Settled => h \in deadLetters
  BY <1>2 DEF Kinds, Settled
<1>5. ~overlapped => NewestRows'
  BY <1>3 DEF MirrorInv, NewestRows
<1>6. ASSUME overlapped' = overlapped PROVE [Mirror!Next]_Mirror!mirror
  <2>1. CASE h \notin Settled
    <3>1. Mirror!IsNext(h)
      BY <1>1, <2>1, HeldIsNext, <1>2
    <3>2. Mirror!SetAside(h)
      BY <1>2, <1>3, <1>6, <3>1 DEF Mirror!SetAside
    <3>3. QED
      BY <1>2, <3>2 DEF Mirror!Next, Offsets
  <2>2. CASE h \in Settled
    <3>1. deadLetters' = deadLetters
      BY <1>3, <1>4, <2>2
    <3>2. QED
      BY <1>3, <1>6, <3>1 DEF Mirror!mirror
  <2>3. QED
    BY <2>1, <2>2
<1>7. Settled' = Settled \cup {h}
  BY <1>3 DEF Settled
<1>8. \A o \in deadLetters' : log'[o].kind = "invalid"
  BY <1>2, <1>3 DEF Kinds
<1>9. QED
  BY <1>1, <1>3, <1>5, <1>6, <1>7, <1>8

-----------------------------------------------------------------------------
(* The steps.                                                              *)

\* What a step does to the mirror and to what keeps the two together.
Mirrored ==
  /\ Kinds'
  /\ ~overlapped' => OneReader' /\ NewestRows'
  /\ [Mirror!Next]_Mirror!mirror

Watched == overlapped' = (overlapped \/ StaleOwner')

LEMMA WatchedFacts ==
  ASSUME Watched, ~overlapped'
  PROVE  ~overlapped /\ \A r \in Replicas : held'[r] # 0 => owner' = r
<1>1. ~overlapped /\ ~StaleOwner'
  BY Zenon DEF Watched
<1>2. QED
  BY <1>1 DEF StaleOwner

LEMMA PublishMirrored ==
  ASSUME MirrorInv, Watched, NEW e \in Events, Publish(e)
  PROVE  Mirrored
<1>1. IInv /\ Kinds /\ log \in Seq(Events) /\ log' = Append(log, e)
      /\ UNCHANGED <<committed, owner, position, held, pc, rows, deadLetters, persisted>>
  BY DEF MirrorInv, IInv, TypeOK, Publish, group, tables
<1>2. \A o \in Offsets : log'[o] = log[o]
  BY <1>1 DEF Offsets
<1>3. overlapped' = overlapped
  <2>1. StaleOwner' => StaleOwner
    BY <1>1 DEF StaleOwner
  <2>2. QED
    BY <2>1, NothingNew DEF Watched
<1>4. persisted \subseteq Offsets /\ deadLetters \subseteq Offsets
      /\ \A r \in Replicas : pc[r] \in {"put", "deadLetter"} => held[r] \in Offsets
  BY <1>1 DEF IInv, TypeOK, HeldInOrder
<1>5. Kinds'
  BY <1>1, <1>2, <1>4 DEF Kinds
<1>6. ~overlapped => OneReader' /\ NewestRows'
  <2>1. SUFFICES ASSUME ~overlapped PROVE OneReader' /\ NewestRows'
    OBVIOUS
  <2>2. OneReader /\ NewestRows
    BY <2>1 DEF MirrorInv
  <2>3. OneReader'
    BY <1>1, <2>2 DEF OneReader, UpTo, Settled
  <2>4. NewestRows'
    BY <1>1, <1>2, <1>4, <2>2 DEF NewestRows
  <2>5. QED
    BY <2>3, <2>4
<1>7. Mirror!Publish
  BY <1>1, <1>3 DEF Mirror!Publish
<1>8. QED
  BY <1>3, <1>5, <1>6, <1>7 DEF Mirrored, Mirror!Next

LEMMA RestartMirrored ==
  ASSUME MirrorInv, Watched, NEW r \in Replicas, Restart(r)
  PROVE  Mirrored
<1>1. /\ UNCHANGED <<log, committed, owner, position, held, rows, deadLetters, persisted>>
      /\ Kinds /\ pc' = [pc EXCEPT ![r] = "fetch"] /\ pc \in [Replicas -> {"down", "fetch", "put", "deadLetter", "commit"}]
  BY DEF MirrorInv, IInv, TypeOK, Restart, group, tables
<1>2. overlapped' = overlapped
  <2>1. StaleOwner' => StaleOwner
    BY <1>1 DEF StaleOwner
  <2>2. QED
    BY <2>1, NothingNew DEF Watched
<1>3. Kinds'
  BY <1>1 DEF Kinds
<1>4. ~overlapped => OneReader' /\ NewestRows'
  BY <1>1 DEF MirrorInv, OneReader, UpTo, Settled, NewestRows
<1>5. QED
  BY <1>1, <1>2, <1>3, <1>4 DEF Mirrored, Mirror!mirror

\* The only step that lets two replicas work on the partition.
LEMMA GenerationMirrored ==
  ASSUME MirrorInv, Watched, NEW r \in Replicas, StartGeneration(r)
  PROVE  Mirrored
<1>1. /\ UNCHANGED <<log, committed, held, pc, rows, deadLetters, persisted>>
      /\ owner' = r /\ position' = [position EXCEPT ![r] = committed]
      /\ IInv /\ Kinds /\ position \in [Replicas -> 0..Len(log)]
  BY DEF MirrorInv, IInv, TypeOK, StartGeneration, tables
<1>2. Kinds'
  BY <1>1 DEF Kinds
<1>3. ASSUME ~overlapped' PROVE OneReader' /\ NewestRows'
  <2>1. ~overlapped /\ \A q \in Replicas : held[q] # 0 => q = r
    BY <1>1, <1>3, WatchedFacts
  <2>2. OneReader /\ NewestRows
    BY <2>1 DEF MirrorInv
  <2>3. \A n : UpTo(n)' <=> UpTo(n)
    BY <1>1 DEF UpTo, Settled
  <2>4. position'[r] = committed
    BY <1>1
  <2>5. OneReader'
    BY <1>1, <2>1, <2>2, <2>3, <2>4 DEF OneReader
  <2>6. NewestRows'
    BY <1>1, <2>2 DEF NewestRows
  <2>7. QED
    BY <2>5, <2>6
<1>4. [Mirror!Next]_Mirror!mirror
  <2>1. overlapped' = TRUE \/ overlapped' = overlapped
    BY Zenon DEF Watched, MirrorInv
  <2>2. CASE overlapped' = TRUE
    BY <1>1, <2>2 DEF Mirror!Next, Mirror!Overlap
  <2>3. CASE overlapped' = overlapped
    BY <1>1, <2>3 DEF Mirror!mirror
  <2>4. QED
    BY <2>1, <2>2, <2>3
<1>5. QED
  BY <1>2, <1>3, <1>4 DEF Mirrored

\* A process that ends leaves the partition to the next one.
LEMMA ExitNotStale ==
  ASSUME MirrorInv, Watched, NEW r \in Replicas, Exit(r)
  PROVE  overlapped' = overlapped
<1>1. held \in [Replicas -> 0..Len(log)] /\ held' = [held EXCEPT ![r] = 0]
      /\ owner' = IF owner = r THEN NoReplica ELSE owner
  BY DEF MirrorInv, IInv, TypeOK, Exit
<1>2. ASSUME NEW q \in Replicas, held'[q] # 0, owner' # q PROVE held[q] # 0 /\ owner # q
  <2>1. q # r /\ held[q] # 0
    BY <1>1, <1>2
  <2>2. QED
    BY <1>1, <1>2, <2>1
<1>3. StaleOwner' => StaleOwner
  BY <1>2 DEF StaleOwner
<1>4. QED
  BY <1>3, NothingNew DEF Watched

LEMMA StillBehind ==
  ASSUME NEW c \in Nat, NEW d \in {c, c + 1}, NEW o \in Nat, o <= c + 1
  PROVE  o <= d + 1
OBVIOUS

LEMMA ExitMirrored ==
  ASSUME MirrorInv, Watched, NEW r \in Replicas, Exit(r),
         committed' = committed \/ (committed' = held[r] /\ held[r] # 0),
         Settled' = Settled \/ (Settled' = Settled \cup {held[r]} /\ held[r] # 0),
         \A o \in persisted' : log'[o].kind = "valid",
         \A o \in deadLetters' : log'[o].kind = "invalid",
         ~overlapped => NewestRows',
         overlapped' = overlapped => [Mirror!Next]_Mirror!mirror
  PROVE  Mirrored
<1>1. /\ pc' = [pc EXCEPT ![r] = "down"] /\ held' = [held EXCEPT ![r] = 0]
      /\ position' = [position EXCEPT ![r] = 0] /\ log' = log
      /\ owner' = IF owner = r THEN NoReplica ELSE owner
      /\ IInv /\ Kinds
      /\ pc \in [Replicas -> {"down", "fetch", "put", "deadLetter", "commit"}]
      /\ held \in [Replicas -> 0..Len(log)] /\ position \in [Replicas -> 0..Len(log)]
  BY DEF MirrorInv, IInv, TypeOK, Exit
<1>2. overlapped' = overlapped
  BY ExitNotStale
<1>3. Kinds'
  BY <1>1 DEF Kinds
<1>4. ASSUME ~overlapped PROVE OneReader'
  <2>1. OneReader
    BY <1>4 DEF MirrorInv
  <2>2. committed \in Nat /\ held[r] \in Nat /\ Settled \subseteq Nat
    BY <1>1, LogFacts
  <2>3. held[r] # 0 => owner = r /\ held[r] \in {committed, committed + 1}
    BY <2>1 DEF OneReader
  <2>4. /\ \A q \in Replicas : q # r => held'[q] = held[q] /\ position'[q] = position[q]
        /\ held'[r] = 0 /\ owner' # r
    BY <1>1, ConsumerAssumption
  <2>5. CASE owner = r
    <3>1. owner' = NoReplica /\ \A q \in Replicas : held'[q] = 0 /\ q # NoReplica
      BY <1>1, <2>1, <2>4, <2>5, ConsumerAssumption DEF OneReader
    <3>2. ASSUME NEW o \in Settled' PROVE o <= committed' + 1
      <4>1. \A p \in Settled : p <= committed + 1
        BY <2>1 DEF OneReader, UpTo
      <4>2. o \in Nat /\ o <= committed + 1
        <5>1. o \in Settled \/ (o = held[r] /\ held[r] # 0)
          BY <3>2
        <5>2. CASE o \in Settled
          BY <2>2, <4>1, <5>2
        <5>3. CASE o = held[r] /\ held[r] # 0
          BY <2>2, <2>3, <5>3
        <5>4. QED
          BY <5>1, <5>2, <5>3
      <4>3. committed' \in {committed, held[r]} /\ (committed' = held[r] => held[r] # 0 \/ held[r] = committed)
        BY <2>2
      <4>4. committed' \in {committed, committed + 1}
        BY <2>3, <4>3
      <4>5. QED
        BY <2>2, <4>2, <4>4, StillBehind
    <3>3. QED
      BY <3>1, <3>2 DEF OneReader, UpTo
  <2>6. CASE owner # r
    <3>1. committed' = committed /\ Settled' = Settled /\ owner' = owner
      BY <1>1, <2>3, <2>6
    <3>2. \A n : UpTo(n)' <=> UpTo(n)
      BY <3>1 DEF UpTo
    <3>3. QED
      BY <2>1, <2>4, <3>1, <3>2 DEF OneReader
  <2>7. QED
    BY <2>5, <2>6
<1>5. QED
  BY <1>2, <1>3, <1>4 DEF Mirrored

\* A process may end at any point of its work, whether or not its call was
\* executed.
LEMMA EndMirrored ==
  ASSUME MirrorInv, Watched, NEW r \in Replicas,
         Crash(r) \/ PutRefused(r) \/ PutFails(r) \/ DeadLetterFails(r) \/ CommitFails(r)
  PROVE  Mirrored
<1>1. Exit(r) /\ log' = log /\ IInv /\ Kinds
  BY DEF MirrorInv, Crash, PutRefused, PutFails, DeadLetterFails, CommitFails, Exit
<1>2. pc[r] \in {"put", "deadLetter", "commit"} => held[r] # 0
  BY <1>1 DEF IInv, HeldInOrder, Offsets
<1>3. CASE UNCHANGED tables /\ (committed' = committed \/ (committed' = held[r] /\ held[r] # 0))
  <2>1. Settled' = Settled
    BY <1>3 DEF tables, Settled
  <2>2. /\ \A o \in persisted' : log'[o].kind = "valid"
        /\ \A o \in deadLetters' : log'[o].kind = "invalid"
    BY <1>1, <1>3 DEF Kinds, tables
  <2>3. ~overlapped => NewestRows'
    BY <1>1, <1>3 DEF MirrorInv, NewestRows, tables
  <2>4. overlapped' = overlapped => [Mirror!Next]_Mirror!mirror
    BY <1>1, <1>3 DEF Mirror!mirror, tables
  <2>5. QED
    BY <1>1, <1>3, <2>1, <2>2, <2>3, <2>4, ExitMirrored
<1>4. CASE PutFails(r) /\ Upsert(held[r])
  <2>1. pc[r] = "put" /\ log[held[r]].kind = "valid" /\ committed' = committed /\ held[r] # 0
    BY <1>2, <1>4 DEF PutFails
  <2>2. /\ overlapped' = overlapped => [Mirror!Next]_Mirror!mirror
        /\ ~overlapped => NewestRows'
        /\ Settled' = Settled \cup {held[r]}
        /\ \A o \in persisted' : log'[o].kind = "valid"
        /\ deadLetters' = deadLetters
    BY <1>1, <1>4, <2>1, PutStep
  <2>3. \A o \in deadLetters' : log'[o].kind = "invalid"
    BY <1>1, <2>2 DEF Kinds
  <2>4. QED
    BY <1>1, <2>1, <2>2, <2>3, ExitMirrored
<1>5. CASE DeadLetterFails(r) /\ CopyToDeadLetters(held[r])
  <2>1. pc[r] = "deadLetter" /\ committed' = committed /\ held[r] # 0
    BY <1>2, <1>5 DEF DeadLetterFails
  <2>2. /\ overlapped' = overlapped => [Mirror!Next]_Mirror!mirror
        /\ ~overlapped => NewestRows'
        /\ Settled' = Settled \cup {held[r]}
        /\ \A o \in deadLetters' : log'[o].kind = "invalid"
        /\ persisted' = persisted
    BY <1>1, <1>5, <2>1, SetAsideStep
  <2>3. \A o \in persisted' : log'[o].kind = "valid"
    BY <1>1, <2>2 DEF Kinds
  <2>4. QED
    BY <1>1, <2>1, <2>2, <2>3, ExitMirrored
<1>6. Crash(r) \/ PutRefused(r) => UNCHANGED tables /\ committed' = committed
  BY DEF Crash, PutRefused
<1>7. CommitFails(r) => UNCHANGED tables /\ (committed' = committed \/ committed' = held[r]) /\ pc[r] = "commit"
  BY DEF CommitFails
<1>8. PutFails(r) => committed' = committed /\ (Upsert(held[r]) \/ UNCHANGED tables)
  BY DEF PutFails
<1>9. DeadLetterFails(r) => committed' = committed /\ (CopyToDeadLetters(held[r]) \/ UNCHANGED tables)
  BY DEF DeadLetterFails
<1>10. QED
  BY <1>2, <1>3, <1>4, <1>5, <1>6, <1>7, <1>8, <1>9

\* The message fetched is the one after the committed offset, or, for a replica
\* that was given its own partition anew, the one it has just committed.
LEMMA FetchMirrored ==
  ASSUME MirrorInv, Watched, NEW r \in Replicas, Fetch(r)
  PROVE  Mirrored
<1>1. PICK next : next = position[r] + 1
  OBVIOUS
<1>2. /\ pc[r] = "fetch" /\ owner = r /\ next \in Offsets
      /\ position' = [position EXCEPT ![r] = next]
      /\ held' = [held EXCEPT ![r] = next]
      /\ pc' = [pc EXCEPT ![r] = IF log[next].kind = "invalid" THEN "deadLetter" ELSE "put"]
      /\ UNCHANGED <<log, committed, owner, rows, deadLetters, persisted>>
      /\ IInv /\ Kinds
  BY <1>1 DEF MirrorInv, Fetch, tables
<1>3. /\ pc \in [Replicas -> {"down", "fetch", "put", "deadLetter", "commit"}]
      /\ held \in [Replicas -> 0..Len(log)] /\ position \in [Replicas -> 0..Len(log)]
      /\ committed \in Nat /\ next \in Nat /\ held[r] = 0
  BY <1>1, <1>2, LogFacts DEF IInv, TypeOK, HeldInOrder
<1>4. /\ \A q \in Replicas : q # r => held'[q] = held[q] /\ position'[q] = position[q] /\ pc'[q] = pc[q]
      /\ held'[r] = next /\ position'[r] = next
      /\ pc'[r] = IF log[next].kind = "invalid" THEN "deadLetter" ELSE "put"
  BY <1>2, <1>3
<1>5. overlapped' = overlapped
  <2>1. StaleOwner' => StaleOwner
    BY <1>2, <1>4 DEF StaleOwner
  <2>2. QED
    BY <2>1, NothingNew DEF Watched
<1>6. Kinds'
  BY <1>2, <1>4 DEF Kinds
<1>7. \A n : UpTo(n)' <=> UpTo(n)
  BY <1>2 DEF UpTo, Settled
<1>8. ASSUME ~overlapped PROVE OneReader'
  <2>1. OneReader
    BY <1>8 DEF MirrorInv
  <2>2. \/ position[r] = committed
        \/ position[r] = committed - 1 /\ UpTo(committed)
    BY <1>2, <1>3, <2>1 DEF OneReader
  <2>3. \/ next = committed + 1
        \/ next = committed /\ UpTo(committed)
    BY <1>1, <1>3, <2>2
  <2>4. \A q \in Replicas : q # r => held'[q] = 0
    BY <1>2, <1>4, <2>1 DEF OneReader
  <2>5. next # 0
    BY <1>2 DEF Offsets
  <2>6. UpTo(committed + 1)
    BY <2>1 DEF OneReader
  <2>7. QED
    BY <1>2, <1>4, <1>7, <2>3, <2>4, <2>5, <2>6 DEF OneReader
<1>9. ~overlapped => NewestRows'
  BY <1>2 DEF MirrorInv, NewestRows
<1>10. Mirror!mirror' = Mirror!mirror
  BY <1>2, <1>5 DEF Mirror!mirror
<1>11. QED
  BY <1>5, <1>6, <1>8, <1>9, <1>10 DEF Mirrored

\* Once its message is settled, the replica goes on to commit it.
LEMMA SettleMirrored ==
  ASSUME MirrorInv, Watched, NEW r \in Replicas, PutOpportunity(r) \/ DeadLetter(r)
  PROVE  Mirrored
<1>1. /\ pc' = [pc EXCEPT ![r] = "commit"]
      /\ UNCHANGED <<log, committed, owner, position, held>>
      /\ IInv /\ Kinds
      /\ pc[r] \in {"put", "deadLetter"}
  BY DEF MirrorInv, PutOpportunity, DeadLetter, group
<1>2. pc \in [Replicas -> {"down", "fetch", "put", "deadLetter", "commit"}]
      /\ held[r] # 0 /\ held[r] \in Nat /\ committed \in Nat /\ Settled \subseteq Nat
  BY <1>1, LogFacts DEF IInv, TypeOK, HeldInOrder, Offsets
<1>3. overlapped' = overlapped
  <2>1. StaleOwner' => StaleOwner
    BY <1>1 DEF StaleOwner
  <2>2. QED
    BY <2>1, NothingNew DEF Watched
<1>4. /\ [Mirror!Next]_Mirror!mirror
      /\ ~overlapped => NewestRows'
      /\ Settled' = Settled \cup {held[r]}
      /\ \A o \in persisted' : log'[o].kind = "valid"
      /\ \A o \in deadLetters' : log'[o].kind = "invalid"
  <2>1. CASE PutOpportunity(r)
    <3>1. pc[r] = "put" /\ log[held[r]].kind = "valid" /\ Upsert(held[r]) /\ log' = log
      BY <2>1 DEF PutOpportunity
    <3>2. QED
      BY <1>1, <1>3, <3>1, PutStep DEF Kinds
  <2>2. CASE DeadLetter(r)
    <3>1. pc[r] = "deadLetter" /\ CopyToDeadLetters(held[r]) /\ log' = log
      BY <2>2 DEF DeadLetter
    <3>2. QED
      BY <1>1, <1>3, <3>1, SetAsideStep DEF Kinds
  <2>3. QED
    BY <2>1, <2>2
<1>5. Kinds'
  BY <1>1, <1>2, <1>4 DEF Kinds
<1>6. ASSUME ~overlapped PROVE OneReader'
  <2>1. OneReader
    BY <1>6 DEF MirrorInv
  <2>2. owner = r
        /\ \/ held[r] = committed + 1
           \/ held[r] = committed /\ UpTo(committed)
    BY <1>2, <2>1 DEF OneReader
  <2>3. \A o \in Settled : o <= committed + 1
    BY <2>1 DEF OneReader, UpTo
  <2>4. \A o \in Settled' : o <= committed + 1
    BY <1>2, <1>4, <2>2, <2>3
  <2>5. UpTo(committed) /\ held[r] = committed => UpTo(committed)'
    BY <1>1, <1>2, <1>4 DEF UpTo
  <2>6. \A q \in Replicas : q # r => held[q] = 0 /\ owner # q
    BY <2>1, <2>2 DEF OneReader
  <2>7. UpTo(committed + 1)'
    BY <1>1, <2>4 DEF UpTo
  <2>8. \/ held[r] = committed + 1 /\ position[r] \in {committed, committed + 1}
        \/ held[r] = committed /\ position[r] = committed /\ UpTo(committed)
    BY <1>2, <2>1 DEF OneReader
  <2>9. QED
    BY <1>1, <1>2, <2>2, <2>5, <2>6, <2>7, <2>8 DEF OneReader
<1>7. QED
  BY <1>3, <1>4, <1>5, <1>6 DEF Mirrored

LEMMA CommitMirrored ==
  ASSUME MirrorInv, Watched, NEW r \in Replicas, CommitMessages(r)
  PROVE  Mirrored
<1>1. PICK h : h = held[r]
  OBVIOUS
<1>2. /\ committed' = h /\ pc' = [pc EXCEPT ![r] = "fetch"] /\ held' = [held EXCEPT ![r] = 0]
      /\ UNCHANGED <<log, owner, position, rows, deadLetters, persisted>>
      /\ IInv /\ Kinds /\ pc[r] = "commit"
  BY <1>1 DEF MirrorInv, CommitMessages, tables
<1>3. /\ pc \in [Replicas -> {"down", "fetch", "put", "deadLetter", "commit"}]
      /\ held \in [Replicas -> 0..Len(log)]
      /\ committed \in Nat /\ h \in Nat /\ h # 0 /\ Settled \subseteq Nat
      /\ \A q \in Replicas : position[q] \in Nat
  BY <1>1, <1>2, LogFacts DEF IInv, TypeOK, HeldInOrder, Offsets
<1>4. held'[r] = 0 /\ pc'[r] = "fetch"
      /\ \A q \in Replicas : q # r => held'[q] = held[q] /\ pc'[q] = pc[q]
  BY <1>2, <1>3
<1>5. overlapped' = overlapped
  <2>1. StaleOwner' => StaleOwner
    BY <1>2, <1>4 DEF StaleOwner
  <2>2. QED
    BY <2>1, NothingNew DEF Watched
<1>6. Kinds'
  BY <1>2, <1>4 DEF Kinds
<1>7. Settled' = Settled
  BY <1>2 DEF Settled
<1>8. ASSUME ~overlapped PROVE OneReader'
  <2>1. OneReader
    BY <1>8 DEF MirrorInv
  <2>2. /\ owner = r
        /\ \/ h = committed + 1 /\ position[r] \in {committed, committed + 1}
           \/ h = committed /\ position[r] = committed /\ UpTo(committed)
    BY <1>1, <1>3, <2>1 DEF OneReader
  <2>3. \A q \in Replicas : held'[q] = 0 /\ (owner = q => q = r)
    BY <1>4, <2>1, <2>2 DEF OneReader
  <2>4. UpTo(committed + 1)
    BY <2>1 DEF OneReader
  <2>5. \A o \in Settled : o <= h
    BY <2>2, <2>4 DEF UpTo
  <2>6. position[r] = h \/ position[r] = h - 1
    BY <1>3, <2>2
  <2>7. UpTo(committed)' /\ UpTo(committed + 1)'
    BY <1>2, <1>3, <1>7, <2>5 DEF UpTo
  <2>8. QED
    BY <1>2, <2>2, <2>3, <2>6, <2>7 DEF OneReader
<1>9. ~overlapped => NewestRows'
  BY <1>2 DEF MirrorInv, NewestRows
<1>10. Mirror!mirror' = Mirror!mirror
  BY <1>2, <1>5 DEF Mirror!mirror
<1>11. QED
  BY <1>5, <1>6, <1>8, <1>9, <1>10 DEF Mirrored

-----------------------------------------------------------------------------
(* The refinement.                                                         *)

LEMMA MirrorInitially == MCInit => MirrorInv /\ Mirror!Init
<1> SUFFICES ASSUME MCInit PROVE MirrorInv /\ Mirror!Init
  OBVIOUS
<1>1. IInv
  BY InitIInv DEF MCInit
<1>2. Kinds /\ ~StaleOwner /\ NewestRows
  BY DEF MCInit, Init, Kinds, StaleOwner, NewestRows
<1>3. OneReader
  BY DEF MCInit, Init, OneReader, UpTo, Settled
<1>4. Mirror!Init
  BY DEF MCInit, Init, Mirror!Init
<1>5. QED
  BY <1>1, <1>2, <1>3, <1>4 DEF MirrorInv, MCInit

LEMMA MirrorStep ==
  MirrorInv /\ [MCNext]_<<vars, overlapped>> => MirrorInv' /\ [Mirror!Next]_Mirror!mirror
<1> SUFFICES ASSUME MirrorInv, [MCNext]_<<vars, overlapped>>
             PROVE  MirrorInv' /\ [Mirror!Next]_Mirror!mirror
  OBVIOUS
<1>1. CASE MCNext
  <2>1. Next /\ Watched
    BY <1>1 DEF MCNext, Watched
  <2>2. ASSUME NEW e \in Events, Publish(e) PROVE Mirrored
    BY <2>1, <2>2, PublishMirrored
  <2>3. ASSUME NEW r \in Replicas, Restart(r) PROVE Mirrored
    BY <2>1, <2>3, RestartMirrored
  <2>4. ASSUME NEW r \in Replicas, Assign(r) \/ Rebalance(r) PROVE Mirrored
    BY <2>1, <2>4, GenerationMirrored DEF Assign, Rebalance
  <2>5. ASSUME NEW r \in Replicas,
               Crash(r) \/ PutRefused(r) \/ PutFails(r) \/ DeadLetterFails(r) \/ CommitFails(r)
        PROVE  Mirrored
    BY <2>1, <2>5, EndMirrored
  <2>6. ASSUME NEW r \in Replicas, Fetch(r) PROVE Mirrored
    BY <2>1, <2>6, FetchMirrored
  <2>7. ASSUME NEW r \in Replicas, PutOpportunity(r) \/ DeadLetter(r) PROVE Mirrored
    BY <2>1, <2>7, SettleMirrored
  <2>8. ASSUME NEW r \in Replicas, CommitMessages(r) PROVE Mirrored
    BY <2>1, <2>8, CommitMirrored
  <2>9. Mirrored
    BY <2>1, <2>2, <2>3, <2>4, <2>5, <2>6, <2>7, <2>8 DEF Next
  <2>10. IInv'
    BY <2>1, NextIInv DEF MirrorInv
  <2>11. (StaleOwner' => overlapped') /\ overlapped' \in BOOLEAN
    BY <2>1, Zenon DEF Watched, MirrorInv
  <2>12. QED
    BY <2>9, <2>10, <2>11 DEF Mirrored, MirrorInv
<1>2. CASE UNCHANGED <<vars, overlapped>>
  <2>1. UNCHANGED <<log, committed, owner, position, held, pc, rows, deadLetters, persisted, overlapped>>
    BY <1>2 DEF vars
  <2>2. IInv'
    BY <1>2, NextIInv DEF MirrorInv
  <2>3. Kinds' /\ (StaleOwner' => StaleOwner) /\ NewestRows' = NewestRows /\ OneReader' = OneReader
    BY <2>1 DEF MirrorInv, Kinds, StaleOwner, NewestRows, OneReader, UpTo, Settled
  <2>4. MirrorInv'
    BY <2>1, <2>2, <2>3 DEF MirrorInv
  <2>5. QED
    BY <2>1, <2>4 DEF Mirror!mirror
<1>3. QED
  BY <1>1, <1>2

\* The messages of the partition are settled in log order and the rows mirror
\* the settled prefix, through crashes, restarts and failed calls, until a
\* replica goes on with a message after a rebalance took the partition from it:
\* consumer.go implements LogMirror, whatever the constants are.
THEOREM ConsumerImplementsMirror == MCSafe => MirrorsLog
<1>1. MCSafe => []MirrorInv
  BY MirrorInitially, MirrorStep, PTL DEF MCSafe
<1>2. QED
  BY <1>1, MirrorInitially, MirrorStep, PTL DEF MCSafe, MirrorsLog, Mirror!Spec
=============================================================================
