------------------------- MODULE Notifications_proofs -------------------------
(***************************************************************************)
(* The notification worker, for any number of opportunities, follow-ups,   *)
(* tokens, operators and days: the cursor and the quota hold however the   *)
(* runs overlap; that each e-mail and each digest goes out once, and that  *)
(* none is skipped, holds where they do not.                               *)
(***************************************************************************)
EXTENDS Notifications, FiniteSetTheorems, WellFoundedInduction, TLAPS

-----------------------------------------------------------------------------
(* The invariant, in parts.                                                *)

Collecting == {"scan", "push", "recordPush", "recordPushFailure"}
Sending == {"send", "recordDigest", "consume", "mark", "limited"}
Reminding == {"followups", "followup", "recordFollowUp", "recordFollowUpFailure"}
Labels == {"idle", "start", "recordDigestFailure"} \cup Collecting \cup Sending \cup Reminding

Letter(o) == <<"opportunity", o>>
DayKey(d) == <<"opportunity_digest", d>>
Reminder(f) == <<"followup", f>>
PushOf(o, t) == <<"push", o, t>>

Items == {<<>>} \cup {<<"push", o>> : o \in Opportunities} \cup {Reminder(f) : f \in FollowUps}
Locals == [now : Nat, tokens : SUBSET Tokens, digestSent : BOOLEAN,
           todo : SUBSET (Opportunities \cup FollowUps), batch : SUBSET Opportunities,
           rest : SUBSET (Opportunities \cup Tokens), item : Items, limited : BOOLEAN]
Delivery == [status : {"none", "failed", "sent", "suppressed"}, attempts : Nat]

\* What a run that is at a step may hold.
Hand(at, me) ==
  /\ at \in Collecting \cup {"start"} => me.todo \subseteq Opportunities
  /\ at \in Reminding \ {"followups"} => me.todo \subseteq FollowUps
  /\ at \in {"push", "recordPush", "recordPushFailure"} =>
       /\ \E o \in Opportunities : me.item = <<"push", o>>
       /\ me.tokens # {}
  /\ at \in {"push", "recordPushFailure"} => me.rest # {} /\ me.rest \subseteq me.tokens
  /\ at = "start" => me.batch = {}
  /\ at \in Sending => me.batch # {}
  /\ at \in {"recordDigest", "recordDigestFailure", "consume"} =>
       me.rest # {} /\ me.rest \subseteq me.batch
  /\ at \in {"recordFollowUp", "recordFollowUpFailure"} =>
       \E f \in FollowUps : me.item = Reminder(f)

Running ==
  /\ pc \in [Runs -> Labels]
  /\ run \in [Runs -> Locals]
  /\ \A r \in Runs : run[r].now <= now /\ Hand(pc[r], run[r])

Stores ==
  /\ now \in 1..MaxTime
  /\ prefs \in Preferences
  /\ stored \in [Opportunities -> 0..now]
  /\ due \subseteq FollowUps
  /\ tokens \subseteq Tokens
  /\ cursor \in 0..now
  /\ deliveries \in [Keys -> Delivery]
  /\ used \in [UTCDays -> 0..DailyAlerts]

Histories ==
  /\ digests \in [UTCDays -> Nat]
  /\ mailed \in [Keys -> Nat]
  /\ \A o \in Opportunities, t \in Tokens : mailed[PushOf(o, t)] = 0
  /\ metered \in [UTCDays -> Nat]
  /\ noticed \subseteq Opportunities
  /\ cut \subseteq UTCDays
  /\ overlapped \in BOOLEAN
  /\ begun \in Nat
  /\ faults \in Nat

Types == Running /\ Stores /\ Histories

\* What the worker has e-mailed and not yet counted.
Uncounted(d) ==
  IF Today(Worker) # d THEN 0
  ELSE IF pc[Worker] = "recordDigest" THEN Cardinality(run[Worker].batch)
  ELSE IF pc[Worker] = "consume" THEN Cardinality(run[Worker].rest)
  ELSE 0

\* The quota has room for what the worker is about to e-mail or to count.
Counted ==
  /\ \A r \in Runs : pc[r] = "consume" => Metered(r)
  /\ CloudMode /\ pc[Worker] \in {"send", "recordDigest"} =>
       used[Today(Worker)] + Cardinality(run[Worker].batch) <= DailyAlerts
  /\ CloudMode /\ pc[Worker] = "consume" =>
       used[Today(Worker)] + Cardinality(run[Worker].rest) <= DailyAlerts
  /\ CloudMode /\ faults = 0 => \A d \in UTCDays : metered[d] = used[d] + Uncounted(d)

Settled(k) == deliveries[k].status \in {"sent", "suppressed"}

\* What a run is about to e-mail, or has e-mailed and not recorded, is not settled.
Unsettled(at, me) ==
  /\ at \in Collecting \cup {"send"} => \A o \in me.batch : ~Settled(Letter(o))
  /\ at \in {"recordDigest", "recordDigestFailure"} => \A o \in me.rest : ~Settled(Letter(o))
  /\ at \in {"recordFollowUp", "recordFollowUpFailure"} => ~Settled(me.item)

\* A run with a digest found its day unmarked, and the day stays so until the run
\* marks it; if the quota has cut the digest short, the day is in cut.
Unmarked(at, me) ==
  /\ at \in Collecting => me.batch = {} \/ (prefs.email /\ ~me.digestSent)
  /\ at \in Sending => prefs.email /\ ~me.digestSent
  /\ at \in Collecting \cup Sending /\ prefs.email /\ ~me.digestSent => ~Settled(DayKey(Day(me.now)))
  /\ at \in Sending /\ me.limited => Day(me.now) \in cut
  /\ at = "limited" => me.limited

\* An opportunity that was found, that the cursor has not passed and that is not
\* settled is in the hands of the run at work, if that run may move the cursor.
Ahead == {o \in noticed : stored[o] > cursor /\ ~Settled(Letter(o))}

Held(at, me) ==
  /\ at = "start" => \A o \in Opportunities : stored[o] > 0 /\ o \in noticed => o \in me.todo
  /\ at = "start" => \A o \in me.todo : stored[o] > 0
  /\ at \in {"start", "mark"} \cup Collecting \cup Reminding => ~me.limited
  /\ prefs.email /\ ~me.digestSent /\ ~me.limited =>
       /\ at \in Collecting => Ahead \subseteq me.todo \cup me.batch
       /\ at = "send" => Ahead \subseteq me.batch
       /\ at = "recordDigest" => Ahead \subseteq me.rest
       /\ at \in {"consume", "mark"} \cup Reminding => Ahead = {}

\* What was found is stored, and settled once the cursor has passed it.
Found ==
  /\ \A o \in noticed : stored[o] > 0
  /\ cursor = 0 => noticed = {}
  /\ prefs.email => \A o \in noticed : cursor >= stored[o] => Settled(Letter(o))

\* An e-mail that has gone out and whose delivery is not recorded yet, and a digest
\* whose day is not marked yet.
Underway(at, me, k) ==
  \/ at = "recordDigest" /\ \E o \in me.rest : k = Letter(o)
  \/ at = "recordFollowUp" /\ k = me.item
Marking(at, me, d) == at \in Sending \ {"send"} /\ Day(me.now) = d

\* Each crash allows one repetition.
Repeated(at, me) ==
  /\ \A k \in Keys :
       mailed[k] <= IF Settled(k) \/ Underway(at, me, k) THEN faults + 1 ELSE faults
  /\ \A d \in UTCDays \ cut :
       digests[d] <= IF Settled(DayKey(d)) \/ Marking(at, me, d) THEN faults + 1 ELSE faults

\* The run at work, where there is but one.
Lone(at, me) == Unsettled(at, me) /\ Unmarked(at, me) /\ Held(at, me) /\ Found /\ Repeated(at, me)

OneByOne ==
  ~overlapped =>
    /\ \A r, q \in Runs : pc[r] # "idle" /\ pc[q] # "idle" => r = q
    /\ \A r \in Runs : pc[r] # "idle" => Lone(pc[r], run[r])
    /\ (\A r \in Runs : pc[r] = "idle") => Lone("idle", Idle)

\* The inductive invariant.  The properties speak of what has gone out and of the
\* cursor; the parts about the run at hand say why the next step may count, mark or
\* move the cursor.
IInv == Types /\ Counted /\ OneByOne

-----------------------------------------------------------------------------
(* Days, keys and tokens.                                                  *)

LEMMA Quotient ==
  ASSUME NEW x \in Nat, NEW s \in Nat \ {0}
  PROVE  x \div s \in Nat /\ (x \div s) * s <= x /\ x < (x \div s) * s + s
OBVIOUS

LEMMA Multiples ==
  ASSUME NEW a \in Nat, NEW b \in Nat, NEW s \in Nat, a <= b
  PROVE  a * s <= b * s
<1>1. PICK c \in Nat : b = a + c
  OBVIOUS
<1>2. (a + c) * s = a * s + c * s /\ c * s \in Nat /\ a * s \in Nat
  OBVIOUS
<1>3. QED
  BY <1>1, <1>2

LEMMA Constants ==
  /\ SuppressAfter \in Nat \ {0} /\ DayLength \in Nat \ {0} /\ MaxTime \in Nat \ {0}
  /\ NumTokens \in Nat /\ DailyAlerts \in Nat /\ MaxFaults \in Nat
  /\ IsFiniteSet(Opportunities) /\ CloudMode \in BOOLEAN /\ Worker \in Runs
BY NotificationsAssumption DEF Runs

\* The day of any time of the model is one of its days.
LEMMA DayType ==
  ASSUME NEW t \in Nat, t <= MaxTime
  PROVE  Day(t) \in UTCDays
<1>1. PICK s \in Nat \ {0} : s = DayLength
  BY Constants
<1>2. PICK a : a = t \div s
  OBVIOUS
<1>3. PICK b : b = MaxTime \div s
  OBVIOUS
<1>4. a \in Nat /\ a * s <= t /\ b \in Nat /\ MaxTime < b * s + s
  BY <1>2, <1>3, Constants, Quotient
<1>5. a <= b
  <2>1. SUFFICES ASSUME b + 1 <= a PROVE FALSE
    BY <1>4
  <2>2. (b + 1) * s <= a * s
    BY <1>4, <2>1, Multiples
  <2>3. (b + 1) * s = b * s + s /\ b * s \in Nat /\ a * s \in Nat
    BY <1>4
  <2>4. QED
    BY <1>4, <2>2, <2>3, Constants
<1>6. QED
  BY <1>1, <1>2, <1>3, <1>4, <1>5 DEF Day, UTCDays

\* Deliveries of different kinds, or for different things, are different rows.
LEMMA KeysDiffer ==
  /\ \A o \in Opportunities : Letter(o) \in Keys
  /\ \A o \in Opportunities, t \in Tokens : PushOf(o, t) \in Keys
  /\ \A f \in FollowUps : Reminder(f) \in Keys
  /\ \A d \in UTCDays : DayKey(d) \in Keys
  /\ \A o, p : Letter(o) = Letter(p) => o = p
  /\ \A o, p, t : Letter(o) # PushOf(p, t)
  /\ \A o, x : Letter(o) # Reminder(x) /\ Letter(o) # DayKey(x)
  /\ \A d, x : DayKey(d) # Reminder(x)
  /\ \A d, o, t : DayKey(d) # PushOf(o, t)
  /\ \A f, o, t : Reminder(f) # PushOf(o, t)
  /\ \A d, e : DayKey(d) = DayKey(e) => d = e
BY DEF Keys, Letter, PushOf, Reminder, DayKey

\* A set of tokens has an oldest one.
LEMMA OldestIn ==
  ASSUME NEW T \in SUBSET Tokens, T # {}
  PROVE  Oldest(T) \in T
<1>1. T \subseteq Nat /\ \E x : x \in T
  BY Constants DEF Tokens
<1>2. PICK x \in T : \A y \in T : ~ (<<y, x>> \in OpToRel(<, Nat))
  BY <1>1, WFMin, NatLessThanWellFounded
<1>3. ASSUME NEW y \in T PROVE x <= y
  <2>1. x \in Nat /\ y \in Nat /\ <<y, x>> \in Nat \X Nat
    BY <1>1
  <2>2. y < x => <<y, x>> \in OpToRel(<, Nat)
    BY <2>1, Zenon DEF OpToRel
  <2>3. ~(y < x)
    BY <1>2, <2>2, Zenon
  <2>4. QED
    BY <2>1, <2>3
<1>4. QED
  BY <1>3 DEF Oldest

\* What AlertSent asks of an e-mail, a digest and a reminder.
LEMMA SentIs ==
  /\ \A o : AlertSent("opportunity", o) <=> Settled(Letter(o))
  /\ \A d : AlertSent("opportunity_digest", d) <=> Settled(DayKey(d))
  /\ \A f : AlertSent("followup", f) <=> Settled(Reminder(f))
BY DEF AlertSent, Channels, Settled, Letter, DayKey, Reminder

-----------------------------------------------------------------------------
(* A step of a run moves that run.                                         *)

Moved(r, label, me) ==
  /\ pc' \in [Runs -> Labels] /\ run' \in [Runs -> Locals]
  /\ pc'[r] = label /\ run'[r] = me
  /\ \A q \in Runs : q # r => pc'[q] = pc[q] /\ run'[q] = run[q]

LEMMA DoMoves ==
  ASSUME Running, NEW r \in Runs, NEW label \in Labels, NEW me \in Locals, Do(r, label, me)
  PROVE  Moved(r, label, me)
BY DEF Running, Do, Goto, Moved

LEMMA GotoMoves ==
  ASSUME Running, NEW r \in Runs, NEW label \in Labels, Goto(r, label), run' = run
  PROVE  Moved(r, label, run[r])
BY DEF Running, Goto, Moved

LEMMA IdleType ==
  /\ Idle \in Locals /\ Idle.now = 0 /\ Idle.rest = {} /\ Idle.batch = {} /\ Idle.todo = {}
  /\ \A at : at = "idle" => Hand(at, Idle)
BY DEF Idle, Locals, Items, Hand, Collecting, Sending, Reminding

LEMMA ReturnMoves ==
  ASSUME Running, NEW r \in Runs, Return(r)
  PROVE  Moved(r, "idle", Idle)
BY DoMoves, IdleType DEF Return, Labels

LEMMA RunningStep ==
  ASSUME Running, NEW r \in Runs, NEW label, NEW me, Moved(r, label, me), now' = now,
         me.now <= now, Hand(label, me)
  PROVE  Running'
BY DEF Running, Moved

LEMMA Alert ==
  ASSUME Stores, NEW k \in Keys, RecordAlert(k)
  PROVE  /\ deliveries' \in [Keys -> Delivery]
         /\ Settled(k)'
         /\ \A j \in Keys : j # k => deliveries'[j] = deliveries[j]
<1>1. deliveries \in [Keys -> Delivery] /\ deliveries' = [deliveries EXCEPT ![k].status = "sent"]
  BY DEF Stores, RecordAlert
<1>2. deliveries[k] \in Delivery /\ deliveries'[k] = [deliveries[k] EXCEPT !.status = "sent"]
  BY <1>1
<1>3. deliveries'[k] \in Delivery /\ deliveries'[k].status = "sent"
  BY <1>2 DEF Delivery
<1>4. \A j \in Keys : j # k => deliveries'[j] = deliveries[j]
  BY <1>1
<1>5. deliveries' \in [Keys -> Delivery]
  BY <1>1, <1>3, <1>4
<1>6. QED
  BY <1>3, <1>4, <1>5 DEF Settled

LEMMA Failure ==
  ASSUME Stores, NEW k \in Keys, RecordFailure(k)
  PROVE  /\ deliveries' \in [Keys -> Delivery]
         /\ \A j \in Keys : j # k => deliveries'[j] = deliveries[j]
<1>1. /\ deliveries \in [Keys -> Delivery]
      /\ deliveries' = [deliveries EXCEPT ![k] =
           [status |-> IF @.attempts + 1 >= SuppressAfter THEN "suppressed" ELSE "failed",
            attempts |-> @.attempts + 1]]
  BY DEF Stores, RecordFailure
<1>2. deliveries'[k].status \in {"suppressed", "failed"}
      /\ deliveries'[k] = [status |-> deliveries'[k].status, attempts |-> deliveries[k].attempts + 1]
  BY <1>1
<1>3. deliveries[k].attempts \in Nat
  BY <1>1 DEF Delivery
<1>4. deliveries'[k] \in Delivery
  BY <1>2, <1>3 DEF Delivery
<1>5. \A j \in Keys : j # k => deliveries'[j] = deliveries[j]
  BY <1>1
<1>6. QED
  BY <1>1, <1>4, <1>5

-----------------------------------------------------------------------------
(* What concerns the quota, or the only run, is moved with it.             *)

Uncounting == {"recordDigest", "consume"}

LEMMA WorkerIsOne == Worker \in Runs
BY DEF Runs

\* A step that neither sends nor counts.
LEMMA CountedQuiet ==
  ASSUME Types, Counted, NEW r \in Runs, NEW label, NEW me, Moved(r, label, me),
         used' = used, metered' = metered, faults' = faults \/ faults' = faults + 1,
         label \notin {"send", "recordDigest", "consume"},
         pc[r] \notin Uncounting \/ faults' = faults + 1
  PROVE  Counted'
<1>1. \A q \in Runs : pc'[q] = "consume" => Metered(q)'
  BY DEF Moved, Counted, Metered
<1>2. CASE r = Worker
  <2>1. pc'[Worker] = label
    BY <1>2 DEF Moved
  <2>2. ASSUME faults' = 0 PROVE faults = 0 /\ pc[Worker] \notin Uncounting
    BY <1>2, <2>2 DEF Types, Histories
  <2>3. ASSUME CloudMode, faults' = 0, NEW d \in UTCDays PROVE metered'[d] = used'[d] + Uncounted(d)'
    <3>1. Uncounted(d) = 0 /\ Uncounted(d)' = 0
      BY <2>1, <2>2, <2>3 DEF Uncounted, Uncounting
    <3>2. metered[d] = used[d] + Uncounted(d)
      BY <2>2, <2>3 DEF Counted
    <3>3. QED
      BY <3>1, <3>2
  <2>4. QED
    BY <1>1, <2>1, <2>3 DEF Counted
<1>3. CASE r # Worker
  <2>1. pc'[Worker] = pc[Worker] /\ run'[Worker] = run[Worker]
    BY <1>3, WorkerIsOne DEF Moved
  <2>2. Today(Worker)' = Today(Worker)
    BY <2>1 DEF Today
  <2>3. faults' = 0 => faults = 0
    BY DEF Types, Histories
  <2>4. \A d \in UTCDays : Uncounted(d)' = Uncounted(d)
    BY <2>1, <2>2 DEF Uncounted
  <2>5. QED
    BY <1>1, <2>1, <2>2, <2>3, <2>4 DEF Counted
<1>4. QED
  BY <1>2, <1>3

\* Around the worker.
LEMMA CountedAround ==
  ASSUME Counted, UNCHANGED <<pc, run, used, metered, faults>>
  PROVE  Counted'
BY DEF Counted, Metered, Uncounted, Today

LEMMA LoneBefore ==
  ASSUME OneByOne, ~overlapped, NEW r \in Runs, pc[r] # "idle"
  PROVE  Lone(pc[r], run[r])
BY DEF OneByOne

LEMMA LoneAfter ==
  ASSUME OneByOne, NEW r \in Runs, NEW label, NEW me, Moved(r, label, me),
         pc[r] # "idle", overlapped' = overlapped,
         ~overlapped => Lone(label, me)',
         label = "idle" => me = Idle
  PROVE  OneByOne'
<1>1. SUFFICES ASSUME ~overlapped PROVE OneByOne'
  BY DEF OneByOne
<1>2. \A q \in Runs : q # r => pc[q] = "idle" /\ pc'[q] = "idle"
  BY <1>1 DEF OneByOne, Moved
<1>3. \A p, q \in Runs : pc'[p] # "idle" /\ pc'[q] # "idle" => p = q
  BY <1>2
<1>4. Lone(label, me)' /\ pc'[r] = label /\ run'[r] = me
  BY <1>1 DEF Moved
<1>5. \A q \in Runs : pc'[q] # "idle" => Lone(pc[q], run[q])'
  BY <1>2, <1>4
<1>6. (\A q \in Runs : pc'[q] = "idle") => Lone("idle", Idle)'
  BY <1>4
<1>7. QED
  BY <1>3, <1>5, <1>6 DEF OneByOne

LEMMA LoneLocal ==
  ASSUME Histories, NEW at, NEW my, NEW label, NEW me, Lone(at, my),
         Unsettled(label, me), Unmarked(label, me)', Held(label, me),
         UNCHANGED <<prefs, stored, cursor, deliveries, digests, mailed, noticed>>,
         cut \subseteq cut',
         faults' = faults \/ faults' = faults + 1,
         faults' = faults =>
           /\ \A k \in Keys : Underway(at, my, k) => Underway(label, me, k)
           /\ \A d \in UTCDays \ cut : Marking(at, my, d) => Marking(label, me, d)
  PROVE  Lone(label, me)'
<1>1. Unsettled(label, me)' /\ Held(label, me)' /\ Found'
  BY DEF Unsettled, Held, Found, Ahead, Settled, Lone
<1>2. \A k : Settled(k)' <=> Settled(k)
  BY DEF Settled
<1>3. \A k : Underway(label, me, k)' <=> Underway(label, me, k)
  BY DEF Underway
<1>4. \A d : Marking(label, me, d)' <=> Marking(label, me, d)
  BY DEF Marking
<1>5. Repeated(at, my) /\ faults \in Nat /\ mailed \in [Keys -> Nat] /\ digests \in [UTCDays -> Nat]
  BY DEF Lone, Histories
<1>6. ASSUME NEW k \in Keys
      PROVE  mailed'[k] <= IF Settled(k)' \/ Underway(label, me, k)' THEN faults' + 1 ELSE faults'
  BY <1>2, <1>3, <1>5, <1>6 DEF Repeated
<1>7. ASSUME NEW d \in UTCDays \ cut'
      PROVE  digests'[d] <= IF Settled(DayKey(d))' \/ Marking(label, me, d)' THEN faults' + 1 ELSE faults'
  BY <1>2, <1>4, <1>5, <1>7 DEF Repeated
<1>8. Repeated(label, me)'
  BY <1>6, <1>7 DEF Repeated
<1>9. QED
  BY <1>1, <1>8 DEF Lone

LEMMA StoresKept ==
  ASSUME Stores, UNCHANGED <<environment, tokens, cursor, deliveries, used>>
  PROVE  Stores'
BY DEF Stores, environment

LEMMA HistoriesKept ==
  ASSUME Histories, UNCHANGED <<history, begun>>, faults' = faults \/ faults' = faults + 1
  PROVE  Histories'
BY DEF Histories, history

\* A step that changes nothing but where its run is and what it holds.
LEMMA LocalStep ==
  ASSUME IInv, NEW r \in Runs, NEW label, NEW me, Moved(r, label, me),
         pc[r] # "idle", me.now <= now, Hand(label, me), label = "idle" => me = Idle,
         UNCHANGED <<environment, tokens, cursor, deliveries, used, history, begun>>,
         faults' = faults \/ faults' = faults + 1,
         label \notin {"send", "recordDigest", "consume"},
         pc[r] \notin Uncounting \/ faults' = faults + 1,
         ~overlapped => Unsettled(label, me) /\ Unmarked(label, me) /\ Held(label, me),
         ~overlapped /\ faults' = faults =>
           /\ \A k \in Keys : Underway(pc[r], run[r], k) => Underway(label, me, k)
           /\ \A d \in UTCDays \ cut : Marking(pc[r], run[r], d) => Marking(label, me, d)
  PROVE  IInv'
<1>1. Types /\ Counted /\ OneByOne /\ Running /\ Stores /\ Histories
  BY DEF IInv, Types
<1>2. Types'
  <2>1. Running'
    BY <1>1, RunningStep DEF environment
  <2>2. Stores' /\ Histories'
    BY <1>1, StoresKept, HistoriesKept
  <2>3. QED
    BY <2>1, <2>2 DEF Types
<1>3. Counted'
  BY <1>1, CountedQuiet DEF history
<1>4. ASSUME ~overlapped PROVE Lone(label, me)'
  <2>1. PICK at, my : at = pc[r] /\ my = run[r]
    OBVIOUS
  <2>2. Lone(at, my)
    BY <1>1, <1>4, <2>1, LoneBefore
  <2>3. UNCHANGED <<prefs, stored, cursor, deliveries, digests, mailed, noticed, cut>>
    BY DEF environment, history
  <2>4. Unsettled(label, me) /\ Unmarked(label, me)' /\ Held(label, me)
    BY <1>4, <2>3 DEF Unmarked, Settled
  <2>5. faults' = faults =>
          /\ \A k \in Keys : Underway(at, my, k) => Underway(label, me, k)
          /\ \A d \in UTCDays \ cut : Marking(at, my, d) => Marking(label, me, d)
    BY <1>4, <2>1
  <2>6. QED
    BY <1>1, <2>2, <2>3, <2>4, <2>5, LoneLocal
<1>5. OneByOne'
  <2>1. overlapped' = overlapped
    BY DEF history
  <2>2. QED
    BY <1>1, <1>4, <2>1, LoneAfter
<1>6. QED
  BY <1>2, <1>3, <1>5 DEF IInv

\* Where no run is at work nothing is in hand.
LEMMA IdleFree ==
  ASSUME NEW at, at = "idle"
  PROVE  Unsettled(at, Idle) /\ Unmarked(at, Idle) /\ Held(at, Idle)
BY DEF Unsettled, Unmarked, Held, Collecting, Sending, Reminding

LEMMA MyType ==
  ASSUME IInv, NEW r \in Runs
  PROVE  /\ run[r] \in Locals /\ pc[r] \in Labels /\ run[r].now <= now /\ run[r].now \in Nat
         /\ Hand(pc[r], run[r]) /\ Day(run[r].now) \in UTCDays
         /\ now \in Nat /\ now <= MaxTime /\ Running /\ Stores /\ Histories
<1>1. /\ run[r] \in Locals /\ pc[r] \in Labels /\ run[r].now <= now /\ Hand(pc[r], run[r])
      /\ now \in 1..MaxTime /\ Running /\ Stores /\ Histories
  BY DEF IInv, Types, Running, Stores
<1>2. run[r].now \in Nat
  BY <1>1 DEF Locals
<1>3. PICK t : t = run[r].now
  OBVIOUS
<1>4. t \in Nat /\ t <= MaxTime
  BY <1>1, <1>2, <1>3, Constants
<1>5. Day(run[r].now) \in UTCDays
  BY <1>3, <1>4, DayType
<1>6. QED
  BY <1>1, <1>2, <1>5, Constants

-----------------------------------------------------------------------------
(* The steps that only move their run.                                     *)

LEMMA Abort_Kept ==
  ASSUME IInv, NEW r \in Runs, Abort(r)
  PROVE  IInv'
<1>1. PICK label, me : label = "idle" /\ me = Idle
  OBVIOUS
<1>2. Moved(r, label, me)
  BY <1>1, MyType, ReturnMoves DEF Abort
<1>3. me.now <= now /\ Hand(label, me)
  BY <1>1, MyType, IdleType, Constants
<1>4. Unsettled(label, me) /\ Unmarked(label, me) /\ Held(label, me)
  BY <1>1, IdleFree
<1>5. faults' = faults + 1 /\ faults' # faults
  BY MyType DEF Abort, Histories
<1>6. QED
  BY <1>1, <1>2, <1>3, <1>4, <1>5, LocalStep DEF Abort

LEMMA Limited_Kept ==
  ASSUME IInv, NEW r \in Runs, Limited(r)
  PROVE  IInv'
<1>1. PICK label, me : label = "idle" /\ me = Idle
  OBVIOUS
<1>2. Moved(r, label, me)
  BY <1>1, MyType, ReturnMoves DEF Limited
<1>3. me.now <= now /\ Hand(label, me)
  BY <1>1, MyType, IdleType, Constants
<1>4. Unsettled(label, me) /\ Unmarked(label, me) /\ Held(label, me)
  BY <1>1, IdleFree
<1>5. pc[r] = "limited" /\ faults' = faults
  BY DEF Limited, At
<1>6. ASSUME ~overlapped
      PROVE  /\ \A k \in Keys : Underway(pc[r], run[r], k) => Underway(label, me, k)
             /\ \A d \in UTCDays \ cut : Marking(pc[r], run[r], d) => Marking(label, me, d)
  <2>1. Unmarked(pc[r], run[r])
    BY <1>5, <1>6, LoneBefore DEF IInv, Lone
  <2>2. Day(run[r].now) \in cut
    BY <1>5, <2>1 DEF Unmarked, Sending
  <2>3. QED
    BY <1>5, <2>2 DEF Underway, Marking
<1>7. QED
  BY <1>1, <1>2, <1>3, <1>4, <1>5, <1>6, LocalStep DEF Limited, Uncounting

LEMMA PushToken_Kept ==
  ASSUME IInv, NEW r \in Runs, PushToken(r)
  PROVE  IInv'
<1>1. PICK my : my = run[r]
  OBVIOUS
<1>2. PICK left : left = my.rest \ {Oldest(my.rest)}
  OBVIOUS
<1>3. PICK label, me : /\ label = IF left = {} THEN "recordPush" ELSE "push"
                       /\ me = [my EXCEPT !.rest = left]
  OBVIOUS
<1>4. /\ pc[r] = "push" /\ Do(r, label, me) /\ my \in Locals /\ Hand("push", my) /\ my.now <= now
      /\ Running /\ faults' = faults
  BY <1>1, <1>2, <1>3, MyType DEF PushToken, At
<1>5. /\ me \in Locals /\ me.now = my.now /\ me.rest = left /\ me.todo = my.todo
      /\ me.item = my.item /\ me.tokens = my.tokens /\ me.batch = my.batch
      /\ me.digestSent = my.digestSent /\ me.limited = my.limited
  BY <1>2, <1>3, <1>4 DEF Locals
<1>6. label \in {"push", "recordPush"}
  BY <1>3
<1>7. Moved(r, label, me)
  BY <1>4, <1>5, <1>6, DoMoves DEF Labels, Collecting
<1>8. Hand(label, me)
  BY <1>2, <1>3, <1>4, <1>5 DEF Hand, Collecting, Sending, Reminding
<1>9. ASSUME ~overlapped PROVE Unsettled(label, me) /\ Unmarked(label, me) /\ Held(label, me)
  <2>1. Unsettled("push", my) /\ Unmarked("push", my) /\ Held("push", my)
    BY <1>1, <1>4, <1>9, LoneBefore DEF IInv, Lone
  <2>2. QED
    BY <1>5, <1>6, <2>1 DEF Unsettled, Unmarked, Held, Collecting, Sending, Reminding
<1>10. /\ \A k \in Keys : ~Underway(pc[r], run[r], k)
       /\ \A d \in UTCDays : ~Marking(pc[r], run[r], d)
  BY <1>4 DEF Underway, Marking, Sending
<1>11. QED
  BY <1>4, <1>5, <1>6, <1>7, <1>8, <1>9, <1>10, LocalStep DEF PushToken, Uncounting

LEMMA PushFails_Kept ==
  ASSUME IInv, NEW r \in Runs, PushFails(r)
  PROVE  IInv'
<1>1. PICK label, me : label = "recordPushFailure" /\ me = run[r]
  OBVIOUS
<1>2. /\ pc[r] = "push" /\ me \in Locals /\ Hand("push", me) /\ me.now <= now
      /\ Running /\ faults' = faults
  BY <1>1, MyType DEF PushFails, At
<1>3. Moved(r, label, me)
  BY <1>1, <1>2, GotoMoves DEF PushFails, Labels, Collecting
<1>4. Hand(label, me)
  BY <1>1, <1>2 DEF Hand, Collecting, Sending, Reminding
<1>5. ASSUME ~overlapped PROVE Unsettled(label, me) /\ Unmarked(label, me) /\ Held(label, me)
  <2>1. Unsettled("push", me) /\ Unmarked("push", me) /\ Held("push", me)
    BY <1>1, <1>2, <1>5, LoneBefore DEF IInv, Lone
  <2>2. QED
    BY <1>1, <2>1 DEF Unsettled, Unmarked, Held, Collecting, Sending, Reminding
<1>6. /\ \A k \in Keys : ~Underway(pc[r], run[r], k)
      /\ \A d \in UTCDays : ~Marking(pc[r], run[r], d)
  BY <1>2 DEF Underway, Marking, Sending
<1>7. QED
  BY <1>1, <1>2, <1>3, <1>4, <1>5, <1>6, LocalStep DEF PushFails, Uncounting

LEMMA DigestFails_Kept ==
  ASSUME IInv, NEW r \in Runs, DigestFails(r)
  PROVE  IInv'
<1>1. PICK my : my = run[r]
  OBVIOUS
<1>2. PICK label, me : label = "recordDigestFailure" /\ me = [my EXCEPT !.rest = my.batch]
  OBVIOUS
<1>3. /\ pc[r] = "send" /\ Do(r, label, me) /\ my \in Locals /\ my.now <= now
      /\ Running /\ faults' = faults
  BY <1>1, <1>2, MyType DEF DigestFails, At
<1>4. me \in Locals /\ me.now = my.now /\ me.rest = my.batch /\ me.batch = my.batch
  BY <1>2, <1>3 DEF Locals
<1>5. Moved(r, label, me)
  BY <1>2, <1>3, <1>4, DoMoves DEF Labels
<1>6. Hand(label, me)
  BY <1>1, <1>2, <1>3, <1>4, MyType DEF Hand, Collecting, Sending, Reminding
<1>7. ASSUME ~overlapped PROVE Unsettled(label, me) /\ Unmarked(label, me) /\ Held(label, me)
  <2>1. Unsettled("send", my)
    BY <1>1, <1>3, <1>7, LoneBefore DEF IInv, Lone
  <2>2. QED
    BY <1>2, <1>4, <2>1 DEF Unsettled, Unmarked, Held, Collecting, Sending, Reminding
<1>8. /\ \A k \in Keys : ~Underway(pc[r], run[r], k)
      /\ \A d \in UTCDays : ~Marking(pc[r], run[r], d)
  BY <1>3 DEF Underway, Marking, Sending
<1>9. /\ me.now <= now /\ pc[r] # "idle" /\ pc[r] \notin Uncounting /\ label # "idle"
      /\ label \notin {"send", "recordDigest", "consume"}
      /\ UNCHANGED <<environment, tokens, cursor, deliveries, used, history, begun>>
  BY <1>2, <1>3, <1>4 DEF DigestFails, Uncounting
<1>10. QED
  BY <1>3, <1>5, <1>6, <1>7, <1>8, <1>9, LocalStep

LEMMA ReadDeals_Kept ==
  ASSUME IInv, NEW r \in Runs, ReadDeals(r)
  PROVE  IInv'
<1>1. PICK my : my = run[r]
  OBVIOUS
<1>2. /\ pc[r] = "followups" /\ my \in Locals /\ my.now <= now /\ Running /\ Stores /\ faults' = faults
  BY <1>1, MyType DEF ReadDeals, At
<1>3. PICK label, me :
        \/ label = "followup" /\ me = [my EXCEPT !.todo = due, !.batch = {}] /\ Do(r, label, me)
        \/ label = "idle" /\ me = Idle /\ Return(r)
  BY <1>1 DEF ReadDeals
<1>4. CASE label = "followup"
  <2>1. /\ me \in Locals /\ me.now = my.now /\ me.todo \subseteq FollowUps
        /\ me.digestSent = my.digestSent /\ me.limited = my.limited
    BY <1>2, <1>3, <1>4 DEF Locals, Stores
  <2>2. Moved(r, label, me)
    BY <1>2, <1>3, <1>4, <2>1, DoMoves DEF Labels, Reminding
  <2>3. Hand(label, me)
    BY <1>4, <2>1 DEF Hand, Collecting, Sending, Reminding
  <2>4. ASSUME ~overlapped PROVE Unsettled(label, me) /\ Unmarked(label, me) /\ Held(label, me)
    <3>1. Held("followups", my)
      BY <1>1, <1>2, <2>4, LoneBefore DEF IInv, Lone
    <3>2. QED
      BY <1>4, <2>1, <3>1 DEF Unsettled, Unmarked, Held, Collecting, Sending, Reminding
  <2>5. /\ \A k \in Keys : ~Underway(pc[r], run[r], k)
        /\ \A d \in UTCDays : ~Marking(pc[r], run[r], d)
    BY <1>2 DEF Underway, Marking, Sending
  <2>6. QED
    BY <1>2, <1>4, <2>1, <2>2, <2>3, <2>4, <2>5, LocalStep DEF ReadDeals, Uncounting
<1>5. CASE label = "idle"
  <2>1. me = Idle /\ Moved(r, label, me)
    BY <1>2, <1>3, <1>5, ReturnMoves
  <2>2. me.now <= now /\ Hand(label, me)
    BY <1>5, <2>1, MyType, IdleType, Constants
  <2>3. Unsettled(label, me) /\ Unmarked(label, me) /\ Held(label, me)
    BY <1>5, <2>1, IdleFree
  <2>4. /\ \A k \in Keys : ~Underway(pc[r], run[r], k)
        /\ \A d \in UTCDays : ~Marking(pc[r], run[r], d)
    BY <1>2 DEF Underway, Marking, Sending
  <2>5. QED
    BY <1>2, <1>5, <2>1, <2>2, <2>3, <2>4, LocalStep DEF ReadDeals, Uncounting
<1>6. QED
  BY <1>3, <1>4, <1>5

LEMMA SkipFollowUp_Kept ==
  ASSUME IInv, NEW r \in Runs, NEW f \in FollowUps, SkipFollowUp(r, f)
  PROVE  IInv'
<1>1. PICK my : my = run[r]
  OBVIOUS
<1>2. PICK label, me : label = "followup" /\ me = [my EXCEPT !.todo = my.todo \ {f}]
  OBVIOUS
<1>3. /\ pc[r] = "followup" /\ Do(r, label, me) /\ my \in Locals /\ my.now <= now
      /\ Hand("followup", my) /\ Running
  BY <1>1, <1>2, MyType DEF SkipFollowUp, At
<1>4. /\ me \in Locals /\ me.now = my.now /\ me.todo \subseteq my.todo
      /\ me.digestSent = my.digestSent /\ me.limited = my.limited
  BY <1>2, <1>3 DEF Locals
<1>5. Moved(r, label, me)
  BY <1>2, <1>3, <1>4, DoMoves DEF Labels, Reminding
<1>6. Hand(label, me)
  BY <1>2, <1>3, <1>4 DEF Hand, Collecting, Sending, Reminding
<1>7. ASSUME ~overlapped PROVE Unsettled(label, me) /\ Unmarked(label, me) /\ Held(label, me)
  <2>1. Held("followup", my)
    BY <1>1, <1>3, <1>7, LoneBefore DEF IInv, Lone
  <2>2. QED
    BY <1>2, <1>4, <2>1 DEF Unsettled, Unmarked, Held, Collecting, Sending, Reminding
<1>8. /\ \A k \in Keys : ~Underway(pc[r], run[r], k)
      /\ \A d \in UTCDays : ~Marking(pc[r], run[r], d)
  BY <1>3 DEF Underway, Marking, Sending
<1>9. faults' = faults \/ faults' = faults + 1
  BY DEF SkipFollowUp
<1>10. QED
  BY <1>2, <1>3, <1>4, <1>5, <1>6, <1>7, <1>8, <1>9, LocalStep DEF SkipFollowUp, Uncounting

LEMMA Scan_Kept ==
  ASSUME IInv, NEW r \in Runs, NEW o \in Opportunities, Scan(r, o)
  PROVE  IInv'
<1>1. PICK my : my = run[r]
  OBVIOUS
<1>2. PICK mail, push :
        /\ mail = (prefs.email /\ ~my.digestSent /\ ~AlertSent("opportunity", o))
        /\ push = (prefs.push /\ my.tokens # {} /\ ~AlertSent("push", o))
  OBVIOUS
<1>3. PICK next : next = [my EXCEPT !.todo = my.todo \ {o},
                                    !.batch = IF mail THEN my.batch \cup {o} ELSE my.batch]
  OBVIOUS
<1>4. /\ pc[r] = "scan" /\ my \in Locals /\ my.now <= now /\ Hand("scan", my) /\ Running
      /\ faults' = faults
      /\ UNCHANGED <<environment, tokens, cursor, deliveries, used, history, begun>>
  BY <1>1, MyType DEF Scan, At
<1>5. IF push THEN Do(r, "push", [next EXCEPT !.item = <<"push", o>>, !.rest = my.tokens])
              ELSE Do(r, "scan", next)
  BY <1>1, <1>2, <1>3 DEF Scan
<1>6. PICK label, me :
        /\ Do(r, label, me)
        /\ \/ push /\ label = "push" /\ me = [next EXCEPT !.item = <<"push", o>>, !.rest = my.tokens]
           \/ label = "scan" /\ me = next
  BY <1>5
<1>7. /\ next \in Locals /\ next.now = my.now /\ next.todo = my.todo \ {o}
      /\ next.batch = IF mail THEN my.batch \cup {o} ELSE my.batch
      /\ next.digestSent = my.digestSent /\ next.limited = my.limited /\ next.tokens = my.tokens
  BY <1>3, <1>4 DEF Locals
<1>8. <<"push", o>> \in Items /\ my.tokens \subseteq Tokens
  BY <1>4 DEF Items, Locals
<1>9. /\ me \in Locals /\ me.now = my.now /\ me.todo = my.todo \ {o}
      /\ me.batch = IF mail THEN my.batch \cup {o} ELSE my.batch
      /\ me.digestSent = my.digestSent /\ me.limited = my.limited /\ me.tokens = my.tokens
      /\ label = "push" => me.item = <<"push", o>> /\ me.rest = my.tokens
      /\ label \in {"scan", "push"}
  BY <1>6, <1>7, <1>8 DEF Locals
<1>10. Moved(r, label, me)
  BY <1>4, <1>6, <1>9, DoMoves DEF Labels, Collecting
<1>11. Hand(label, me)
  BY <1>2, <1>4, <1>6, <1>9 DEF Hand, Collecting, Sending, Reminding
<1>12. ASSUME ~overlapped PROVE Unsettled(label, me) /\ Unmarked(label, me) /\ Held(label, me)
  <2>1. Unsettled("scan", my) /\ Unmarked("scan", my) /\ Held("scan", my)
    BY <1>1, <1>4, <1>12, LoneBefore DEF IInv, Lone
  <2>2. mail <=> prefs.email /\ ~my.digestSent /\ ~Settled(Letter(o))
    BY <1>2, SentIs
  <2>3. Unsettled(label, me)
    BY <1>9, <2>1, <2>2 DEF Unsettled, Collecting
  <2>4. Unmarked(label, me)
    BY <1>9, <2>1, <2>2 DEF Unmarked, Collecting, Sending
  <2>5. prefs.email /\ ~my.digestSent /\ ~my.limited => Ahead \subseteq me.todo \cup me.batch
    <3>1. prefs.email /\ ~my.digestSent /\ ~my.limited => Ahead \subseteq my.todo \cup my.batch
      BY <2>1 DEF Held, Collecting
    <3>2. o \in Ahead => ~Settled(Letter(o))
      BY DEF Ahead
    <3>3. QED
      BY <1>9, <2>2, <3>1, <3>2
  <2>6. Held(label, me)
    BY <1>9, <2>1, <2>5 DEF Held, Collecting, Reminding
  <2>7. QED
    BY <2>3, <2>4, <2>6
<1>13. /\ \A k \in Keys : ~Underway(pc[r], run[r], k)
       /\ \A d \in UTCDays : ~Marking(pc[r], run[r], d)
  BY <1>4 DEF Underway, Marking, Sending
<1>14. /\ me.now <= now /\ pc[r] # "idle" /\ pc[r] \notin Uncounting /\ label # "idle"
       /\ label \notin {"send", "recordDigest", "consume"}
  BY <1>4, <1>9 DEF Uncounting
<1>15. QED
  BY <1>4, <1>10, <1>11, <1>12, <1>13, <1>14, LocalStep

-----------------------------------------------------------------------------
(* The quota and the digest.                                               *)

LEMMA Sizes ==
  ASSUME NEW S \in SUBSET Opportunities
  PROVE  /\ IsFiniteSet(S) /\ Cardinality(S) \in Nat
         /\ Cardinality(S) = 0 <=> S = {}
<1>1. IsFiniteSet(S)
  BY Constants, FS_Subset
<1>2. QED
  BY <1>1, FS_CardinalityType, FS_EmptySet

LEMMA OneLess ==
  ASSUME NEW S \in SUBSET Opportunities, NEW o \in S
  PROVE  /\ Cardinality(S \ {o}) \in Nat /\ Cardinality(S) = Cardinality(S \ {o}) + 1
BY Sizes, FS_RemoveElement

\* A digest is sent for no more than the quota leaves.
LEMMA CountedSend ==
  ASSUME Types, Counted, NEW r \in Runs, NEW label, NEW me, Moved(r, label, me),
         label = "send", pc[r] = "scan",
         used' = used, metered' = metered, faults' = faults,
         Metered(r) => used[Day(me.now)] + Cardinality(me.batch) <= DailyAlerts
  PROVE  Counted'
<1>1. \A q \in Runs : pc'[q] = "consume" => Metered(q)'
  BY DEF Moved, Counted, Metered
<1>2. CASE r = Worker
  <2>1. pc'[Worker] = "send" /\ run'[Worker] = me /\ pc[Worker] = "scan"
    BY <1>2 DEF Moved
  <2>2. CloudMode => Metered(r)
    BY <1>2 DEF Metered
  <2>3. \A d \in UTCDays : Uncounted(d) = 0 /\ Uncounted(d)' = 0
    BY <2>1 DEF Uncounted
  <2>4. CloudMode => used'[Today(Worker)'] + Cardinality(run'[Worker].batch) <= DailyAlerts
    BY <2>1, <2>2 DEF Today
  <2>5. QED
    BY <1>1, <2>1, <2>3, <2>4 DEF Counted
<1>3. CASE r # Worker
  <2>1. pc'[Worker] = pc[Worker] /\ run'[Worker] = run[Worker]
    BY <1>3, WorkerIsOne DEF Moved
  <2>2. Today(Worker)' = Today(Worker)
    BY <2>1 DEF Today
  <2>3. \A d \in UTCDays : Uncounted(d)' = Uncounted(d)
    BY <2>1, <2>2 DEF Uncounted
  <2>4. QED
    BY <1>1, <2>1, <2>2, <2>3 DEF Counted
<1>4. QED
  BY <1>2, <1>3

LEMMA CheckQuota_Kept ==
  ASSUME IInv, NEW r \in Runs, CheckQuota(r)
  PROVE  IInv'
<1>1. PICK my : my = run[r]
  OBVIOUS
<1>2. /\ pc[r] = "scan" /\ my \in Locals /\ my.now <= now /\ Hand("scan", my) /\ Running
      /\ Types /\ Counted /\ OneByOne /\ Histories /\ Day(my.now) \in UTCDays /\ Today(r) = Day(my.now)
      /\ my.todo = {} /\ my.batch \subseteq Opportunities
  BY <1>1, MyType DEF CheckQuota, At, IInv, Today, Locals
<1>3. /\ UNCHANGED <<environment, tokens, cursor, deliveries, used, begun, faults>>
      /\ UNCHANGED <<digests, mailed, metered, noticed, overlapped>>
  BY DEF CheckQuota
<1>4. used \in [UTCDays -> 0..DailyAlerts] /\ used[Day(my.now)] \in Nat /\ cut \subseteq UTCDays
  BY <1>2, Constants DEF Types, Stores, Histories
<1>5. ~overlapped => Unsettled("scan", my) /\ Unmarked("scan", my) /\ Held("scan", my) /\ Lone("scan", my)
  BY <1>1, <1>2, LoneBefore DEF IInv, Lone
<1>6. /\ \A k \in Keys : ~Underway(pc[r], run[r], k)
      /\ \A d \in UTCDays : ~Marking(pc[r], run[r], d)
  BY <1>2 DEF Underway, Marking, Sending
<1>7. PICK label, me :
        \/ /\ label = "followups" /\ me = my /\ my.batch = {}
           /\ Goto(r, label) /\ UNCHANGED <<run, cut>>
        \/ /\ label = "idle" /\ me = Idle /\ Return(r) /\ UNCHANGED cut
        \/ /\ label = "send" /\ me = my /\ my.batch # {} /\ Goto(r, label) /\ UNCHANGED <<run, cut>>
           /\ ~Metered(r) \/ Cardinality(my.batch) <= Allowed(r)
        \/ /\ label = "send" /\ Do(r, label, me) /\ cut' = cut \cup {Today(r)} /\ ~(Allowed(r) <= 0)
           /\ \E T \in SUBSET my.batch :
                Takes(my.batch, T, Allowed(r)) /\ me = [my EXCEPT !.batch = T, !.limited = TRUE]
  BY <1>1, Zenon DEF CheckQuota
<1>8. CASE label = "followups"
  <2>1. me = my /\ my.batch = {} /\ Goto(r, label) /\ UNCHANGED <<run, cut>>
    BY <1>7, <1>8
  <2>2. Moved(r, label, me)
    BY <1>1, <1>2, <1>8, <2>1, GotoMoves DEF Labels, Reminding
  <2>3. Hand(label, me)
    BY <1>8, <2>1 DEF Hand, Collecting, Sending, Reminding
  <2>4. ASSUME ~overlapped PROVE Unsettled(label, me) /\ Unmarked(label, me) /\ Held(label, me)
    <3>1. prefs.email /\ ~my.digestSent /\ ~my.limited => Ahead = {}
      BY <1>2, <1>5, <2>1, <2>4 DEF Held, Collecting
    <3>2. QED
      BY <1>5, <1>8, <2>1, <2>4, <3>1 DEF Unsettled, Unmarked, Held, Collecting, Sending, Reminding
  <2>5. QED
    BY <1>2, <1>3, <1>6, <1>8, <2>1, <2>2, <2>3, <2>4, LocalStep DEF Uncounting, history
<1>9. CASE label = "idle"
  <2>1. me = Idle /\ Return(r) /\ UNCHANGED cut
    BY <1>7, <1>9
  <2>2. Moved(r, label, me)
    BY <1>2, <1>9, <2>1, ReturnMoves
  <2>3. me.now <= now /\ Hand(label, me)
    BY <1>9, <2>1, MyType, IdleType, Constants
  <2>4. Unsettled(label, me) /\ Unmarked(label, me) /\ Held(label, me)
    BY <1>9, <2>1, IdleFree
  <2>5. QED
    BY <1>2, <1>3, <1>6, <1>9, <2>1, <2>2, <2>3, <2>4, LocalStep DEF Uncounting, history
<1>10. CASE label = "send"
  <2>1. /\ Moved(r, label, me) /\ me.now = my.now /\ me.batch # {} /\ me.batch \subseteq my.batch
        /\ Metered(r) => used[Day(me.now)] + Cardinality(me.batch) <= DailyAlerts
        /\ me.digestSent = my.digestSent
        /\ me.limited => me.batch \subseteq my.batch /\ (my.limited \/ Today(r) \in cut')
        /\ ~me.limited => me.batch = my.batch
        /\ cut \subseteq cut' /\ cut' \subseteq UTCDays
    <3>1. CASE me = my /\ my.batch # {} /\ Goto(r, label) /\ UNCHANGED <<run, cut>>
               /\ (~Metered(r) \/ Cardinality(my.batch) <= Allowed(r))
      <4>1. Moved(r, label, me)
        BY <1>1, <1>2, <1>10, <3>1, GotoMoves DEF Labels, Sending
      <4>2. Cardinality(my.batch) \in Nat
        BY <1>2, Sizes
      <4>3. Metered(r) => used[Day(me.now)] + Cardinality(me.batch) <= DailyAlerts
        BY <1>2, <1>4, <3>1, <4>2, Constants DEF Allowed
      <4>4. QED
        BY <1>4, <3>1, <4>1, <4>3
    <3>2. CASE /\ Do(r, label, me) /\ cut' = cut \cup {Today(r)} /\ ~(Allowed(r) <= 0)
               /\ \E T \in SUBSET my.batch :
                    Takes(my.batch, T, Allowed(r)) /\ me = [my EXCEPT !.batch = T, !.limited = TRUE]
      <4>1. PICK T \in SUBSET my.batch :
              Cardinality(T) = Allowed(r) /\ me = [my EXCEPT !.batch = T, !.limited = TRUE]
        BY <3>2 DEF Takes
      <4>2. T \subseteq Opportunities /\ Cardinality(T) \in Nat /\ (Cardinality(T) = 0 <=> T = {})
        BY <1>2, Sizes
      <4>3. T # {}
        BY <3>2, <4>1, <4>2
      <4>4. /\ me \in Locals /\ me.now = my.now /\ me.batch = T /\ me.limited
            /\ me.digestSent = my.digestSent
        BY <1>2, <4>1, <4>2 DEF Locals
      <4>5. used[Day(me.now)] + Cardinality(me.batch) <= DailyAlerts
        BY <1>2, <1>4, <4>1, <4>2, <4>4, Constants DEF Allowed
      <4>6. Moved(r, label, me)
        BY <1>2, <1>10, <3>2, <4>4, DoMoves DEF Labels, Sending
      <4>7. QED
        BY <1>2, <1>4, <3>2, <4>3, <4>4, <4>5, <4>6
    <3>3. QED
      BY <1>7, <1>10, <3>1, <3>2
  <2>2. Types'
    <3>1. Running'
      BY <1>2, <1>3, <1>10, <2>1, RunningStep DEF environment, Hand, Collecting, Sending, Reminding
    <3>2. Stores'
      BY <1>2, <1>3, StoresKept DEF Types
    <3>3. Histories'
      BY <1>2, <1>3, <2>1 DEF Histories
    <3>4. QED
      BY <3>1, <3>2, <3>3 DEF Types
  <2>3. Counted'
    BY <1>2, <1>3, <1>10, <2>1, CountedSend
  <2>4. ASSUME ~overlapped PROVE Lone(label, me)'
    <3>1. Unsettled(label, me)
      BY <1>5, <1>10, <2>1, <2>4 DEF Unsettled, Collecting
    <3>2. ~my.limited
      BY <1>5, <2>4 DEF Held, Collecting
    <3>3. Unmarked(label, me)'
      BY <1>2, <1>3, <1>5, <1>10, <2>1, <2>4, <3>2
      DEF Unmarked, Collecting, Sending, Settled, environment
    <3>4. Held(label, me)
      BY <1>2, <1>5, <1>10, <2>1, <2>4, <3>2 DEF Held, Collecting, Sending, Reminding
    <3>5. /\ \A k \in Keys : ~Underway("scan", my, k)
          /\ \A d \in UTCDays : ~Marking("scan", my, d)
      BY <1>1, <1>2, <1>6
    <3>6. QED
      BY <1>2, <1>3, <1>5, <2>1, <2>4, <3>1, <3>3, <3>4, <3>5, LoneLocal DEF environment
  <2>5. OneByOne'
    BY <1>2, <1>3, <1>10, <2>1, <2>4, LoneAfter
  <2>6. QED
    BY <2>2, <2>3, <2>5 DEF IInv
<1>11. QED
  BY <1>7, <1>8, <1>9, <1>10

\* A step that sends or counts.
LEMMA CountedMoves ==
  ASSUME Types, Counted, NEW r \in Runs, NEW label, NEW me, Moved(r, label, me),
         faults' = faults, label = "consume" => Metered(r),
         r # Worker \/ ~CloudMode => used' = used /\ metered' = metered,
         r = Worker /\ CloudMode =>
           /\ label \in {"send", "recordDigest"} =>
                used'[Day(me.now)] + Cardinality(me.batch) <= DailyAlerts
           /\ label = "consume" => used'[Day(me.now)] + Cardinality(me.rest) <= DailyAlerts
           /\ \A d \in UTCDays :
                metered[d] = used[d] + Uncounted(d) => metered'[d] = used'[d] + Uncounted(d)'
  PROVE  Counted'
<1>1. \A q \in Runs : pc'[q] = "consume" => Metered(q)'
  BY DEF Moved, Counted, Metered
<1>2. CASE ~CloudMode
  BY <1>1, <1>2 DEF Counted
<1>3. CASE r = Worker /\ CloudMode
  <2>1. pc'[Worker] = label /\ run'[Worker] = me
    BY <1>3 DEF Moved
  <2>2. Today(Worker)' = Day(me.now)
    BY <2>1 DEF Today
  <2>3. faults' = 0 => \A d \in UTCDays : metered'[d] = used'[d] + Uncounted(d)'
    BY <1>3 DEF Counted
  <2>4. QED
    BY <1>1, <1>3, <2>1, <2>2, <2>3 DEF Counted
<1>4. CASE r # Worker
  <2>1. pc'[Worker] = pc[Worker] /\ run'[Worker] = run[Worker]
    BY <1>4, WorkerIsOne DEF Moved
  <2>2. Today(Worker)' = Today(Worker)
    BY <2>1 DEF Today
  <2>3. \A d \in UTCDays : Uncounted(d)' = Uncounted(d)
    BY <2>1, <2>2 DEF Uncounted
  <2>4. QED
    BY <1>1, <1>4, <2>1, <2>2, <2>3 DEF Counted
<1>5. QED
  BY <1>2, <1>3, <1>4

\* A delivery is recorded: what an earlier e-mail had settled stays settled.
LEMMA LoneSettles ==
  ASSUME Histories, NEW at, NEW my, NEW label, NEW me, Lone(at, my),
         UNCHANGED <<prefs, stored, cursor, digests, mailed, noticed, cut, faults>>,
         \A o \in Opportunities : Settled(Letter(o)) => Settled(Letter(o))',
         \A d \in UTCDays : Settled(DayKey(d)) => Settled(DayKey(d))',
         \A k \in Keys : Settled(k) \/ Underway(at, my, k) =>
                           Settled(k)' \/ Underway(label, me, k) \/ mailed[k] = 0,
         \A d \in UTCDays : Marking(at, my, d) => Marking(label, me, d) \/ Settled(DayKey(d))'
  PROVE  Found' /\ Repeated(label, me)' /\ Ahead' \subseteq Ahead
<1>1. Repeated(at, my) /\ Found /\ noticed \subseteq Opportunities
      /\ faults \in Nat /\ mailed \in [Keys -> Nat] /\ digests \in [UTCDays -> Nat]
  BY DEF Lone, Histories
<1>2. Found'
  BY <1>1 DEF Found
<1>3. Ahead' \subseteq Ahead
  BY <1>1 DEF Ahead
<1>4. ASSUME NEW k \in Keys
      PROVE  mailed'[k] <= IF Settled(k)' \/ Underway(label, me, k)' THEN faults' + 1 ELSE faults'
  <2>1. mailed[k] <= IF Settled(k) \/ Underway(at, my, k) THEN faults + 1 ELSE faults
    BY <1>1 DEF Repeated
  <2>2. Underway(label, me, k)' <=> Underway(label, me, k)
    BY DEF Underway
  <2>3. mailed[k] \in Nat
    BY <1>1
  <2>4. QED
    BY <1>1, <2>1, <2>2, <2>3
<1>5. ASSUME NEW d \in UTCDays \ cut'
      PROVE  digests'[d] <= IF Settled(DayKey(d))' \/ Marking(label, me, d)' THEN faults' + 1 ELSE faults'
  <2>1. digests[d] <= IF Settled(DayKey(d)) \/ Marking(at, my, d) THEN faults + 1 ELSE faults
    BY <1>1, <1>5 DEF Repeated
  <2>2. Marking(label, me, d)' <=> Marking(label, me, d)
    BY DEF Marking
  <2>3. digests[d] \in Nat
    BY <1>1, <1>5
  <2>4. QED
    BY <1>1, <1>5, <2>1, <2>2, <2>3
<1>6. Repeated(label, me)'
  BY <1>4, <1>5 DEF Repeated
<1>7. QED
  BY <1>2, <1>3, <1>6

LEMMA SendDigest_Kept ==
  ASSUME IInv, NEW r \in Runs, SendDigest(r)
  PROVE  IInv'
<1>1. PICK my : my = run[r]
  OBVIOUS
<1>2. PICK label, me : label = "recordDigest" /\ me = [my EXCEPT !.rest = my.batch]
  OBVIOUS
<1>3. /\ pc[r] = "send" /\ my \in Locals /\ my.now <= now /\ Hand("send", my) /\ Running
      /\ Types /\ Counted /\ OneByOne /\ Histories /\ Stores
      /\ Day(my.now) \in UTCDays /\ Today(r) = Day(my.now) /\ my.batch \subseteq Opportunities
  BY <1>1, MyType DEF SendDigest, At, IInv, Today, Locals
<1>4. /\ digests' = [digests EXCEPT ![Day(my.now)] = @ + 1]
      /\ mailed' = [k \in Keys |-> IF k \in {Letter(o) : o \in my.batch} THEN mailed[k] + 1 ELSE mailed[k]]
      /\ metered' = IF Metered(r)
                    THEN [metered EXCEPT ![Day(my.now)] = @ + Cardinality(my.batch)] ELSE metered
      /\ Do(r, label, me)
  BY <1>1, <1>2, <1>3 DEF SendDigest, Letter
<1>5. UNCHANGED <<environment, tokens, cursor, deliveries, used, noticed, cut, overlapped, begun, faults>>
  BY DEF SendDigest
<1>6. /\ me \in Locals /\ me.now = my.now /\ me.rest = my.batch /\ me.batch = my.batch
      /\ me.digestSent = my.digestSent /\ me.limited = my.limited
  BY <1>2, <1>3 DEF Locals
<1>7. Moved(r, label, me)
  BY <1>2, <1>3, <1>4, <1>6, DoMoves DEF Labels, Sending
<1>8. Cardinality(my.batch) \in Nat
  BY <1>3, Sizes
<1>9. /\ digests \in [UTCDays -> Nat] /\ mailed \in [Keys -> Nat] /\ metered \in [UTCDays -> Nat]
      /\ faults \in Nat /\ used \in [UTCDays -> 0..DailyAlerts]
  BY <1>3 DEF Histories, Stores
<1>10. /\ digests'[Day(my.now)] = digests[Day(my.now)] + 1
       /\ \A d \in UTCDays : d # Day(my.now) => digests'[d] = digests[d]
  BY <1>3, <1>4, <1>9
<1>11. /\ \A o \in my.batch : mailed'[Letter(o)] = mailed[Letter(o)] + 1
       /\ \A k \in Keys : (\A o \in my.batch : k # Letter(o)) => mailed'[k] = mailed[k]
  BY <1>3, <1>4, KeysDiffer
<1>12. Types'
  <2>1. Running'
    <3>1. Hand(label, me)
      BY <1>2, <1>3, <1>6 DEF Hand, Collecting, Sending, Reminding
    <3>2. now' = now /\ me.now <= now
      BY <1>3, <1>5, <1>6 DEF environment
    <3>3. QED
      BY <1>3, <1>7, <3>1, <3>2, RunningStep
  <2>2. Stores'
    BY <1>3, <1>5, StoresKept
  <2>3. digests' \in [UTCDays -> Nat] /\ mailed' \in [Keys -> Nat] /\ metered' \in [UTCDays -> Nat]
    <3>1. digests' \in [UTCDays -> Nat]
      BY <1>3, <1>4, <1>9
    <3>2. \A k \in Keys : mailed[k] \in Nat /\ mailed[k] + 1 \in Nat
      BY <1>9
    <3>3. mailed' \in [Keys -> Nat]
      BY <1>4, <3>2
    <3>4. metered' \in [UTCDays -> Nat]
      BY <1>3, <1>4, <1>8, <1>9
    <3>5. QED
      BY <3>1, <3>3, <3>4
  <2>4. \A o \in Opportunities, t \in Tokens : mailed'[PushOf(o, t)] = 0
    BY <1>3, <1>11, KeysDiffer DEF Histories
  <2>5. Histories'
    BY <1>3, <1>5, <2>3, <2>4 DEF Histories
  <2>6. QED
    BY <2>1, <2>2, <2>5 DEF Types
<1>13. Counted'
  <2>1. r # Worker \/ ~CloudMode => metered' = metered
    BY <1>4 DEF Metered
  <2>2. ASSUME r = Worker, CloudMode
        PROVE  /\ used'[Day(me.now)] + Cardinality(me.batch) <= DailyAlerts
               /\ \A d \in UTCDays :
                    metered[d] = used[d] + Uncounted(d) => metered'[d] = used'[d] + Uncounted(d)'
    <3>1. used[Day(my.now)] + Cardinality(my.batch) <= DailyAlerts
      BY <1>1, <1>3, <2>2 DEF Counted
    <3>2. pc'[Worker] = "recordDigest" /\ run'[Worker] = me /\ pc[Worker] = "send"
      BY <1>2, <1>3, <1>7, <2>2 DEF Moved
    <3>3. metered' = [metered EXCEPT ![Day(my.now)] = @ + Cardinality(my.batch)]
      BY <1>4, <2>2 DEF Metered
    <3>4. ASSUME NEW d \in UTCDays, metered[d] = used[d] + Uncounted(d)
          PROVE  metered'[d] = used'[d] + Uncounted(d)'
      <4>1. Uncounted(d) = 0
        BY <3>2 DEF Uncounted
      <4>2. Uncounted(d)' = IF Day(my.now) # d THEN 0 ELSE Cardinality(my.batch)
        BY <1>6, <3>2 DEF Uncounted, Today
      <4>3. QED
        BY <1>3, <1>5, <1>8, <1>9, <3>3, <3>4, <4>1, <4>2
    <3>5. QED
      BY <1>5, <1>6, <3>1, <3>4
  <2>3. label # "consume" /\ used' = used /\ faults' = faults
    BY <1>2, <1>5
  <2>4. QED
    BY <1>3, <1>7, <2>1, <2>2, <2>3, CountedMoves
<1>14. ASSUME ~overlapped PROVE Lone(label, me)'
  <2>1. Lone("send", my) /\ Unsettled("send", my) /\ Unmarked("send", my) /\ Held("send", my)
        /\ Found /\ Repeated("send", my)
    BY <1>1, <1>3, <1>14, LoneBefore DEF Lone
  <2>2. UNCHANGED <<prefs, stored>>
    BY <1>5 DEF environment
  <2>3. \A o \in my.batch : ~Settled(Letter(o))
    BY <2>1 DEF Unsettled
  <2>4. ~Settled(DayKey(Day(my.now)))
    BY <2>1 DEF Unmarked, Sending
  <2>5. Unsettled(label, me)' /\ Unmarked(label, me)' /\ Held(label, me)' /\ Found'
    <3>1. Unsettled(label, me)'
      BY <1>2, <1>5, <1>6, <2>3 DEF Unsettled, Collecting, Settled
    <3>2. Unmarked(label, me)'
      BY <1>2, <1>5, <1>6, <2>1, <2>2 DEF Unmarked, Collecting, Sending, Settled
    <3>3. Held(label, me)'
      BY <1>2, <1>5, <1>6, <2>1, <2>2 DEF Held, Collecting, Sending, Reminding, Ahead, Settled
    <3>4. Found'
      BY <1>5, <2>1, <2>2 DEF Found, Settled
    <3>5. QED
      BY <3>1, <3>2, <3>3, <3>4
  <2>6. ASSUME NEW k \in Keys
        PROVE  mailed'[k] <= IF Settled(k)' \/ Underway(label, me, k)' THEN faults' + 1 ELSE faults'
    <3>1. mailed[k] <= IF Settled(k) THEN faults + 1 ELSE faults
      BY <2>1 DEF Repeated, Underway
    <3>2. Settled(k)' <=> Settled(k)
      BY <1>5 DEF Settled
    <3>3. CASE \E o \in my.batch : k = Letter(o)
      <4>1. ~Settled(k) /\ mailed'[k] = mailed[k] + 1 /\ Underway(label, me, k)'
        BY <1>2, <1>6, <1>11, <2>3, <3>3 DEF Underway
      <4>2. QED
        BY <1>5, <1>9, <3>1, <4>1
    <3>4. CASE \A o \in my.batch : k # Letter(o)
      <4>1. mailed'[k] = mailed[k]
        BY <1>11, <3>4
      <4>2. QED
        BY <1>5, <1>9, <3>1, <3>2, <4>1
    <3>5. QED
      BY <3>3, <3>4
  <2>7. ASSUME NEW d \in UTCDays \ cut'
        PROVE  digests'[d] <= IF Settled(DayKey(d))' \/ Marking(label, me, d)' THEN faults' + 1 ELSE faults'
    <3>1. digests[d] <= IF Settled(DayKey(d)) THEN faults + 1 ELSE faults
      BY <1>5, <2>1, <2>7 DEF Repeated, Marking
    <3>2. Settled(DayKey(d))' <=> Settled(DayKey(d))
      BY <1>5 DEF Settled
    <3>3. CASE d = Day(my.now)
      <4>1. Marking(label, me, d)'
        BY <1>2, <1>6, <3>3 DEF Marking, Sending
      <4>2. QED
        BY <1>5, <1>9, <1>10, <2>4, <3>1, <3>3, <4>1
    <3>4. CASE d # Day(my.now)
      BY <1>5, <1>9, <1>10, <3>1, <3>2, <3>4
    <3>5. QED
      BY <3>3, <3>4
  <2>8. Repeated(label, me)'
    BY <2>6, <2>7 DEF Repeated
  <2>9. QED
    BY <2>5, <2>8 DEF Lone
<1>15. OneByOne'
  BY <1>2, <1>3, <1>5, <1>7, <1>14, LoneAfter
<1>16. QED
  BY <1>12, <1>13, <1>15 DEF IInv

LEMMA RecordDigestFailure_Kept ==
  ASSUME IInv, NEW r \in Runs, NEW o \in Opportunities, RecordDigestFailure(r, o)
  PROVE  IInv'
<1>1. PICK my : my = run[r]
  OBVIOUS
<1>2. /\ pc[r] = "recordDigestFailure" /\ my \in Locals /\ my.now <= now /\ Running
      /\ Hand("recordDigestFailure", my)
      /\ Types /\ Counted /\ OneByOne /\ Histories /\ Stores /\ o \in my.rest
      /\ my.rest \subseteq my.batch /\ my.batch \subseteq Opportunities
  BY <1>1, MyType DEF RecordDigestFailure, At, IInv, Newest, Locals, Hand
<1>3. PICK label, me :
        \/ /\ label = "recordDigestFailure" /\ me = [my EXCEPT !.rest = my.rest \ {o}]
           /\ my.rest # {o} /\ Do(r, label, me)
        \/ label = "idle" /\ me = Idle /\ Return(r)
  BY <1>1 DEF RecordDigestFailure
<1>4. UNCHANGED <<environment, tokens, cursor, used, history, begun, faults>>
  BY DEF RecordDigestFailure
<1>5. RecordFailure(Letter(o)) /\ Letter(o) \in Keys
  BY KeysDiffer DEF RecordDigestFailure, Letter
<1>6. /\ deliveries' \in [Keys -> Delivery]
      /\ \A j \in Keys : j # Letter(o) => deliveries'[j] = deliveries[j]
  BY <1>2, <1>5, Failure
<1>7. /\ Moved(r, label, me) /\ me.now <= now /\ Hand(label, me)
      /\ label \in {"idle", "recordDigestFailure"} /\ (label = "idle" => me = Idle)
      /\ label = "recordDigestFailure" => me.rest = my.rest \ {o}
  <2>1. CASE label = "idle"
    <3>1. me = Idle /\ Moved(r, label, me)
      BY <1>2, <1>3, <2>1, ReturnMoves
    <3>2. me.now <= now /\ Hand(label, me)
      BY <2>1, <3>1, MyType, IdleType, Constants
    <3>3. QED
      BY <2>1, <3>1, <3>2
  <2>2. CASE label = "recordDigestFailure"
    <3>1. /\ me = [my EXCEPT !.rest = my.rest \ {o}] /\ my.rest # {o} /\ Do(r, label, me)
      BY <1>3, <2>2
    <3>2. me \in Locals /\ me.now = my.now /\ me.rest = my.rest \ {o} /\ me.batch = my.batch
      BY <1>2, <3>1 DEF Locals
    <3>3. Moved(r, label, me)
      BY <1>2, <2>2, <3>1, <3>2, DoMoves DEF Labels
    <3>4. Hand(label, me)
      BY <1>2, <2>2, <3>1, <3>2 DEF Hand, Collecting, Sending, Reminding
    <3>5. QED
      BY <1>2, <2>2, <3>2, <3>3, <3>4
  <2>3. QED
    BY <1>3, <2>1, <2>2
<1>8. Types'
  <2>1. Running'
    BY <1>2, <1>4, <1>7, RunningStep DEF environment
  <2>2. Stores'
    BY <1>2, <1>4, <1>6 DEF Stores, environment
  <2>3. Histories'
    BY <1>2, <1>4, HistoriesKept
  <2>4. QED
    BY <2>1, <2>2, <2>3 DEF Types
<1>9. Counted'
  <2>1. /\ used' = used /\ metered' = metered /\ faults' = faults /\ pc[r] \notin Uncounting
        /\ label \notin {"send", "recordDigest", "consume"}
    BY <1>2, <1>4, <1>7 DEF history, Uncounting
  <2>2. QED
    BY <1>2, <1>7, <2>1, CountedQuiet
<1>10. ASSUME ~overlapped PROVE Lone(label, me)'
  <2>1. Lone("recordDigestFailure", my) /\ Unsettled("recordDigestFailure", my)
    BY <1>1, <1>2, <1>10, LoneBefore DEF Lone
  <2>2. ~Settled(Letter(o)) /\ \A p \in my.rest : ~Settled(Letter(p))
    BY <1>2, <2>1 DEF Unsettled
  <2>3. \A j \in Keys : Settled(j) => Settled(j)'
    BY <1>6, <2>2 DEF Settled
  <2>4. \A p \in my.rest \ {o} : ~Settled(Letter(p))'
    BY <1>2, <1>6, <2>2, KeysDiffer DEF Settled
  <2>5. \A k : ~Underway("recordDigestFailure", my, k)
    BY DEF Underway
  <2>6. \A d : ~Marking("recordDigestFailure", my, d)
    BY DEF Marking, Sending
  <2>7. Found' /\ Repeated(label, me)'
    <3>1. UNCHANGED <<prefs, stored, cursor, digests, mailed, noticed, cut, faults>>
      BY <1>4 DEF environment, history
    <3>2. /\ \A p \in Opportunities : Settled(Letter(p)) => Settled(Letter(p))'
          /\ \A d \in UTCDays : Settled(DayKey(d)) => Settled(DayKey(d))'
      BY <2>3, KeysDiffer
    <3>3. QED
      BY <1>2, <2>1, <2>3, <2>5, <2>6, <3>1, <3>2, LoneSettles
  <2>8. Unsettled(label, me)'
    BY <1>7, <2>4 DEF Unsettled, Collecting
  <2>9. Unmarked(label, me)' /\ Held(label, me)'
    BY <1>7 DEF Unmarked, Held, Collecting, Sending, Reminding
  <2>10. QED
    BY <2>7, <2>8, <2>9 DEF Lone
<1>11. OneByOne'
  <2>1. overlapped' = overlapped /\ pc[r] # "idle"
    BY <1>2, <1>4 DEF history
  <2>2. QED
    BY <1>2, <1>7, <1>10, <2>1, LoneAfter
<1>12. QED
  BY <1>8, <1>9, <1>11 DEF IInv

LEMMA RecordDigest_Kept ==
  ASSUME IInv, NEW r \in Runs, NEW o \in Opportunities, RecordDigest(r, o)
  PROVE  IInv'
<1>1. PICK my : my = run[r]
  OBVIOUS
<1>2. PICK left : left = my.rest \ {o}
  OBVIOUS
<1>3. /\ pc[r] = "recordDigest" /\ my \in Locals /\ my.now <= now /\ Running
      /\ Hand("recordDigest", my) /\ Day(my.now) \in UTCDays
      /\ Types /\ Counted /\ OneByOne /\ Histories /\ Stores /\ o \in my.rest
      /\ my.rest \subseteq my.batch /\ my.batch \subseteq Opportunities
  BY <1>1, MyType DEF RecordDigest, At, IInv, Newest, Locals, Hand
<1>4. PICK label, me :
        /\ Do(r, label, me)
        /\ \/ left # {} /\ label = "recordDigest" /\ me = [my EXCEPT !.rest = left]
           \/ left = {} /\ Metered(r) /\ label = "consume" /\ me = [my EXCEPT !.rest = my.batch]
           \/ /\ left = {} /\ ~Metered(r) /\ me = [my EXCEPT !.rest = {}]
              /\ label = IF my.limited THEN "limited" ELSE "mark"
  BY <1>1, <1>2 DEF RecordDigest, AfterDigest
<1>5. UNCHANGED <<environment, tokens, cursor, used, history, begun, faults>>
  BY DEF RecordDigest
<1>6. RecordAlert(Letter(o)) /\ Letter(o) \in Keys
  BY KeysDiffer DEF RecordDigest, Letter
<1>7. /\ deliveries' \in [Keys -> Delivery] /\ Settled(Letter(o))'
      /\ \A j \in Keys : j # Letter(o) => deliveries'[j] = deliveries[j]
  BY <1>3, <1>6, Alert
<1>8. /\ me \in Locals /\ me.now = my.now /\ me.batch = my.batch
      /\ me.digestSent = my.digestSent /\ me.limited = my.limited
      /\ label \in {"recordDigest", "consume", "limited", "mark"}
      /\ label = "recordDigest" => me.rest = left /\ left # {}
      /\ label # "recordDigest" => left = {}
      /\ label = "consume" => me.rest = my.batch /\ Metered(r)
      /\ Metered(r) => label \in {"recordDigest", "consume"}
      /\ label = "limited" => my.limited
      /\ label = "mark" => ~my.limited
  BY <1>2, <1>3, <1>4 DEF Locals
<1>9. Moved(r, label, me)
  BY <1>3, <1>4, <1>8, DoMoves DEF Labels, Sending
<1>10. Hand(label, me)
  BY <1>2, <1>3, <1>8 DEF Hand, Collecting, Sending, Reminding
<1>11. Types'
  <2>1. Running'
    BY <1>3, <1>5, <1>8, <1>9, <1>10, RunningStep DEF environment
  <2>2. Stores'
    BY <1>3, <1>5, <1>7 DEF Stores, environment
  <2>3. Histories'
    BY <1>3, <1>5, HistoriesKept
  <2>4. QED
    BY <2>1, <2>2, <2>3 DEF Types
<1>12. Counted'
  <2>1. used' = used /\ metered' = metered /\ faults' = faults
    BY <1>5 DEF history
  <2>2. ASSUME r = Worker, CloudMode
        PROVE  /\ label \in {"send", "recordDigest"} =>
                    used'[Day(me.now)] + Cardinality(me.batch) <= DailyAlerts
               /\ label = "consume" => used'[Day(me.now)] + Cardinality(me.rest) <= DailyAlerts
               /\ \A d \in UTCDays :
                    metered[d] = used[d] + Uncounted(d) => metered'[d] = used'[d] + Uncounted(d)'
    <3>1. used[Day(my.now)] + Cardinality(my.batch) <= DailyAlerts
      BY <1>1, <1>3, <2>2 DEF Counted, Today
    <3>2. pc'[Worker] = label /\ run'[Worker] = me /\ pc[Worker] = "recordDigest" /\ run[Worker] = my
      BY <1>1, <1>3, <1>9, <2>2 DEF Moved
    <3>3. label \in {"recordDigest", "consume"}
      BY <1>8, <2>2 DEF Metered
    <3>4. \A d \in UTCDays : Uncounted(d)' = Uncounted(d)
      BY <1>8, <3>2, <3>3 DEF Uncounted, Today
    <3>5. QED
      BY <1>8, <2>1, <3>1, <3>3, <3>4
  <2>3. QED
    BY <1>3, <1>8, <1>9, <2>1, <2>2, CountedMoves
<1>13. ASSUME ~overlapped PROVE Lone(label, me)'
  <2>1. /\ Lone("recordDigest", my) /\ Unsettled("recordDigest", my)
        /\ Unmarked("recordDigest", my) /\ Held("recordDigest", my)
    BY <1>1, <1>3, <1>13, LoneBefore DEF Lone
  <2>2. \A p \in my.rest : ~Settled(Letter(p))
    BY <2>1 DEF Unsettled
  <2>3. \A j \in Keys : Settled(j) => Settled(j)'
    BY <1>7 DEF Settled
  <2>4. \A p \in my.rest \ {o} : ~Settled(Letter(p))'
    BY <1>3, <1>7, <2>2, KeysDiffer DEF Settled
  <2>5. ASSUME NEW k \in Keys, Underway("recordDigest", my, k)
        PROVE  Settled(k)' \/ Underway(label, me, k)
    BY <1>2, <1>7, <1>8, <2>5 DEF Underway
  <2>6. \A d \in UTCDays : Marking("recordDigest", my, d) => Marking(label, me, d)
    BY <1>8 DEF Marking, Sending
  <2>7. UNCHANGED <<prefs, stored, cursor, digests, mailed, noticed, cut, faults>>
    BY <1>5 DEF environment, history
  <2>8. /\ \A p \in Opportunities : Settled(Letter(p)) => Settled(Letter(p))'
        /\ \A d \in UTCDays : Settled(DayKey(d)) => Settled(DayKey(d))'
    BY <2>3, KeysDiffer
  <2>9. Found' /\ Repeated(label, me)' /\ Ahead' \subseteq Ahead
    BY <1>3, <2>1, <2>3, <2>5, <2>6, <2>7, <2>8, LoneSettles
  <2>10. Unsettled(label, me)'
    BY <1>2, <1>8, <2>4 DEF Unsettled, Collecting
  <2>11. Settled(DayKey(Day(my.now)))' <=> Settled(DayKey(Day(my.now)))
    BY <1>3, <1>7, KeysDiffer DEF Settled
  <2>12. Unmarked(label, me)'
    BY <1>8, <2>1, <2>7, <2>11 DEF Unmarked, Collecting, Sending
  <2>13. prefs'.email /\ ~me.digestSent /\ ~me.limited => Ahead' \subseteq left
    <3>1. prefs.email /\ ~my.digestSent /\ ~my.limited => Ahead \subseteq my.rest
      BY <2>1 DEF Held
    <3>2. o \notin Ahead'
      BY <1>7 DEF Ahead
    <3>3. QED
      BY <1>2, <1>8, <2>7, <2>9, <3>1, <3>2
  <2>14. Held(label, me)'
    BY <1>8, <2>13 DEF Held, Collecting, Reminding
  <2>15. QED
    BY <2>9, <2>10, <2>12, <2>14 DEF Lone
<1>14. OneByOne'
  <2>1. overlapped' = overlapped /\ pc[r] # "idle" /\ label # "idle"
    BY <1>3, <1>5, <1>8 DEF history
  <2>2. QED
    BY <1>3, <1>9, <1>13, <2>1, LoneAfter
<1>15. QED
  BY <1>11, <1>12, <1>14 DEF IInv

LEMMA Consume_Kept ==
  ASSUME IInv, NEW r \in Runs, NEW o \in Opportunities, Consume(r, o)
  PROVE  IInv'
<1>1. PICK my : my = run[r]
  OBVIOUS
<1>2. PICK left, day : left = my.rest \ {o} /\ day = Day(my.now)
  OBVIOUS
<1>3. /\ pc[r] = "consume" /\ my \in Locals /\ my.now <= now /\ Running
      /\ Hand("consume", my) /\ day \in UTCDays /\ Today(r) = day
      /\ Types /\ Counted /\ OneByOne /\ Histories /\ Stores /\ o \in my.rest
      /\ my.rest \subseteq my.batch /\ my.batch \subseteq Opportunities /\ my.batch # {}
  BY <1>1, <1>2, MyType DEF Consume, At, IInv, Newest, Locals, Hand, Today, Sending
<1>4. r = Worker /\ CloudMode
  BY <1>3 DEF Counted, Metered
<1>5. /\ used[day] + Cardinality(my.rest) <= DailyAlerts
      /\ used \in [UTCDays -> 0..DailyAlerts] /\ used[day] \in Nat
  BY <1>1, <1>2, <1>3, <1>4, Constants DEF Counted, Today, Stores
<1>6. Cardinality(left) \in Nat /\ Cardinality(my.rest) = Cardinality(left) + 1
      /\ (left = {} => Cardinality(left) = 0)
  BY <1>2, <1>3, OneLess, Sizes
<1>7. used[Today(r)] < DailyAlerts
  BY <1>3, <1>5, <1>6, Constants
<1>8. PICK label, me :
        /\ Do(r, label, me) /\ me = [my EXCEPT !.rest = left]
        /\ label = IF left = {} THEN AfterDigest(r) ELSE "consume"
  BY <1>1, <1>2, <1>7 DEF Consume
<1>9. used' = [used EXCEPT ![day] = @ + 1]
  BY <1>3, <1>7 DEF Consume
<1>10. UNCHANGED <<environment, tokens, cursor, deliveries, history, begun, faults>>
  BY DEF Consume
<1>11. /\ me \in Locals /\ me.now = my.now /\ me.batch = my.batch /\ me.rest = left
       /\ me.digestSent = my.digestSent /\ me.limited = my.limited
       /\ label \in {"consume", "limited", "mark"}
       /\ label = "consume" <=> left # {}
       /\ label = "limited" => my.limited
       /\ label = "mark" => ~my.limited
  BY <1>1, <1>2, <1>3, <1>8 DEF Locals, AfterDigest
<1>12. Moved(r, label, me)
  BY <1>3, <1>8, <1>11, DoMoves DEF Labels, Sending
<1>13. Hand(label, me)
  BY <1>2, <1>3, <1>11 DEF Hand, Collecting, Sending, Reminding
<1>14. /\ used' \in [UTCDays -> 0..DailyAlerts] /\ used'[day] = used[day] + 1
       /\ \A d \in UTCDays : d # day => used'[d] = used[d]
  <2>1. used[day] + 1 \in 0..DailyAlerts
    BY <1>3, <1>5, <1>7, Constants
  <2>2. QED
    BY <1>3, <1>5, <1>9, <2>1
<1>15. Types'
  <2>1. Running'
    BY <1>3, <1>10, <1>11, <1>12, <1>13, RunningStep DEF environment
  <2>2. Stores'
    BY <1>3, <1>10, <1>14 DEF Stores, environment
  <2>3. Histories'
    BY <1>3, <1>10, HistoriesKept
  <2>4. QED
    BY <2>1, <2>2, <2>3 DEF Types
<1>16. Counted'
  <2>1. metered' = metered /\ faults' = faults
    BY <1>10 DEF history
  <2>2. pc'[Worker] = label /\ run'[Worker] = me /\ pc[Worker] = "consume" /\ run[Worker] = my
    BY <1>1, <1>3, <1>4, <1>12 DEF Moved
  <2>3. used'[day] + Cardinality(me.rest) <= DailyAlerts
    BY <1>5, <1>6, <1>11, <1>14, Constants
  <2>4. ASSUME NEW d \in UTCDays, metered[d] = used[d] + Uncounted(d)
        PROVE  metered'[d] = used'[d] + Uncounted(d)'
    <3>1. Uncounted(d) = IF day = d THEN Cardinality(my.rest) ELSE 0
      BY <1>2, <2>2 DEF Uncounted, Today
    <3>2. Uncounted(d)' = IF day = d THEN Cardinality(left) ELSE 0
      BY <1>2, <1>6, <1>11, <2>2 DEF Uncounted, Today
    <3>3. QED
      BY <1>5, <1>6, <1>14, <2>1, <2>4, <3>1, <3>2
  <2>5. Metered(r)
    BY <1>4 DEF Metered
  <2>6. QED
    BY <1>2, <1>3, <1>4, <1>11, <1>12, <2>1, <2>3, <2>4, <2>5, CountedMoves
<1>17. ASSUME ~overlapped PROVE Lone(label, me)'
  <2>1. Lone("consume", my) /\ Unmarked("consume", my) /\ Held("consume", my)
    BY <1>1, <1>3, <1>17, LoneBefore DEF Lone
  <2>2. UNCHANGED <<prefs, stored, cursor, deliveries, digests, mailed, noticed, cut>> /\ faults' = faults
    BY <1>10 DEF environment, history
  <2>3. Unsettled(label, me) /\ Held(label, me)
    BY <1>11, <2>1 DEF Unsettled, Held, Collecting, Reminding
  <2>4. Unmarked(label, me)'
    BY <1>11, <2>1, <2>2 DEF Unmarked, Collecting, Sending, Settled
  <2>5. /\ \A k : ~Underway("consume", my, k)
        /\ \A d : Marking("consume", my, d) => Marking(label, me, d)
    BY <1>11 DEF Underway, Marking, Sending
  <2>6. QED
    BY <1>3, <2>1, <2>2, <2>3, <2>4, <2>5, LoneLocal
<1>18. OneByOne'
  <2>1. overlapped' = overlapped /\ pc[r] # "idle" /\ label # "idle"
    BY <1>3, <1>10, <1>11 DEF history
  <2>2. QED
    BY <1>3, <1>12, <1>17, <2>1, LoneAfter
<1>19. QED
  BY <1>15, <1>16, <1>18 DEF IInv

LEMMA MarkDay_Kept ==
  ASSUME IInv, NEW r \in Runs, MarkDay(r)
  PROVE  IInv'
<1>1. PICK my, label, day : my = run[r] /\ label = "followups" /\ day = Day(my.now)
  OBVIOUS
<1>2. /\ pc[r] = "mark" /\ my \in Locals /\ my.now <= now /\ Running
      /\ Hand("mark", my) /\ day \in UTCDays /\ Today(r) = day
      /\ Types /\ Counted /\ OneByOne /\ Histories /\ Stores
  BY <1>1, MyType DEF MarkDay, At, IInv, Today
<1>3. UNCHANGED <<environment, tokens, cursor, used, run, history, begun, faults>>
  BY DEF MarkDay
<1>4. RecordAlert(DayKey(day)) /\ DayKey(day) \in Keys
  BY <1>2, KeysDiffer DEF MarkDay, DayKey
<1>5. /\ deliveries' \in [Keys -> Delivery] /\ Settled(DayKey(day))'
      /\ \A j \in Keys : j # DayKey(day) => deliveries'[j] = deliveries[j]
  BY <1>2, <1>4, Alert
<1>6. Moved(r, label, my)
  BY <1>1, <1>2, <1>3, GotoMoves DEF MarkDay, Labels, Reminding
<1>7. Hand(label, my)
  BY <1>1, <1>2 DEF Hand, Collecting, Sending, Reminding
<1>8. Types'
  <2>1. Running'
    BY <1>2, <1>3, <1>6, <1>7, RunningStep DEF environment
  <2>2. Stores'
    BY <1>2, <1>3, <1>5 DEF Stores, environment
  <2>3. Histories'
    BY <1>2, <1>3, HistoriesKept
  <2>4. QED
    BY <2>1, <2>2, <2>3 DEF Types
<1>9. Counted'
  <2>1. /\ used' = used /\ metered' = metered /\ faults' = faults /\ pc[r] \notin Uncounting
        /\ label \notin {"send", "recordDigest", "consume"}
    BY <1>1, <1>2, <1>3 DEF history, Uncounting
  <2>2. QED
    BY <1>2, <1>6, <2>1, CountedQuiet
<1>10. ASSUME ~overlapped PROVE Lone(label, my)'
  <2>1. Lone("mark", my) /\ Held("mark", my)
    BY <1>1, <1>2, <1>10, LoneBefore DEF Lone
  <2>2. \A j \in Keys : Settled(j) => Settled(j)'
    BY <1>5 DEF Settled
  <2>3. /\ \A k : ~Underway("mark", my, k)
        /\ \A d : Marking("mark", my, d) => d = day
    BY <1>1 DEF Underway, Marking
  <2>4. UNCHANGED <<prefs, stored, cursor, digests, mailed, noticed, cut, faults>>
    BY <1>3 DEF environment, history
  <2>5. /\ \A p \in Opportunities : Settled(Letter(p)) => Settled(Letter(p))'
        /\ \A d \in UTCDays : Settled(DayKey(d)) => Settled(DayKey(d))'
    BY <2>2, KeysDiffer
  <2>6. Found' /\ Repeated(label, my)' /\ Ahead' \subseteq Ahead
    BY <1>2, <1>5, <2>1, <2>2, <2>3, <2>4, <2>5, LoneSettles
  <2>7. Unsettled(label, my)' /\ Unmarked(label, my)'
    BY <1>1 DEF Unsettled, Unmarked, Collecting, Sending
  <2>8. Held(label, my)'
    BY <1>1, <2>1, <2>4, <2>6 DEF Held, Collecting, Reminding
  <2>9. QED
    BY <2>6, <2>7, <2>8 DEF Lone
<1>11. OneByOne'
  <2>1. overlapped' = overlapped /\ pc[r] # "idle" /\ label # "idle"
    BY <1>1, <1>2, <1>3 DEF history
  <2>2. QED
    BY <1>2, <1>6, <1>10, <2>1, LoneAfter
<1>12. QED
  BY <1>8, <1>9, <1>11 DEF IInv

-----------------------------------------------------------------------------
(* Pushes and follow-ups.                                                  *)

\* A push is recorded, as sent or as failed, and the run looks at the next
\* opportunity.
LEMMA RecordPush_Kept ==
  ASSUME IInv, NEW r \in Runs, NEW t \in Tokens, NEW o \in Opportunities, NEW at,
         at \in {"recordPush", "recordPushFailure"}, RecordPush(r, t, at),
         deliveries' \in [Keys -> Delivery],
         \A j \in Keys : j # PushOf(o, t) => deliveries'[j] = deliveries[j]
  PROVE  IInv'
<1>1. PICK my : my = run[r]
  OBVIOUS
<1>2. PICK label, me : label = "scan" /\ me = [my EXCEPT !.item = <<>>, !.rest = {}]
  OBVIOUS
<1>3. /\ pc[r] = at /\ my \in Locals /\ my.now <= now /\ Running
      /\ Hand(at, my) /\ Do(r, label, me) /\ tokens' = tokens \cup {t}
      /\ Types /\ Counted /\ OneByOne /\ Histories /\ Stores
  BY <1>1, <1>2, MyType DEF RecordPush, At, IInv, EnsureChannel
<1>4. UNCHANGED <<environment, cursor, used, history, begun, faults>>
  BY DEF RecordPush
<1>5. /\ me \in Locals /\ me.now = my.now /\ me.batch = my.batch /\ me.todo = my.todo
      /\ me.digestSent = my.digestSent /\ me.limited = my.limited
  BY <1>2, <1>3 DEF Locals, Items
<1>6. Moved(r, label, me)
  BY <1>2, <1>3, <1>5, DoMoves DEF Labels, Collecting
<1>7. Hand(label, me)
  BY <1>2, <1>3, <1>5 DEF Hand, Collecting, Sending, Reminding
<1>8. Types'
  <2>1. Running'
    BY <1>3, <1>4, <1>5, <1>6, <1>7, RunningStep DEF environment
  <2>2. Stores'
    BY <1>3, <1>4 DEF Stores, environment
  <2>3. Histories'
    BY <1>3, <1>4, HistoriesKept
  <2>4. QED
    BY <2>1, <2>2, <2>3 DEF Types
<1>9. Counted'
  <2>1. /\ used' = used /\ metered' = metered /\ faults' = faults /\ pc[r] \notin Uncounting
        /\ label \notin {"send", "recordDigest", "consume"}
    BY <1>2, <1>3, <1>4 DEF history, Uncounting
  <2>2. QED
    BY <1>3, <1>6, <2>1, CountedQuiet
<1>10. ASSUME ~overlapped PROVE Lone(label, me)'
  <2>1. Lone(at, my) /\ Unsettled(at, my) /\ Unmarked(at, my) /\ Held(at, my)
    BY <1>1, <1>3, <1>10, LoneBefore DEF Lone
  <2>2. /\ \A p \in Opportunities : Settled(Letter(p))' <=> Settled(Letter(p))
        /\ \A d \in UTCDays : Settled(DayKey(d))' <=> Settled(DayKey(d))
    BY KeysDiffer DEF Settled
  <2>3. \A k \in Keys : Settled(k) => Settled(k)' \/ mailed[k] = 0
    BY <1>3 DEF Settled, Histories
  <2>4. /\ \A k : ~Underway(at, my, k)
        /\ \A d : ~Marking(at, my, d)
    BY DEF Underway, Marking, Sending
  <2>5. UNCHANGED <<prefs, stored, cursor, digests, mailed, noticed, cut, faults>>
    BY <1>4 DEF environment, history
  <2>6. Found' /\ Repeated(label, me)' /\ Ahead' \subseteq Ahead
    BY <1>3, <2>1, <2>2, <2>3, <2>4, <2>5, LoneSettles
  <2>7. me.batch \subseteq Opportunities
    BY <1>5 DEF Locals
  <2>8. Unsettled(label, me)'
    BY <1>2, <1>5, <2>1, <2>2, <2>7 DEF Unsettled, Collecting
  <2>9. Settled(DayKey(Day(my.now)))' <=> Settled(DayKey(Day(my.now)))
    BY <1>1, <2>2, MyType
  <2>10. Unmarked(label, me)'
    BY <1>2, <1>5, <2>1, <2>5, <2>9 DEF Unmarked, Collecting, Sending
  <2>11. Held(label, me)'
    BY <1>2, <1>5, <2>1, <2>5, <2>6 DEF Held, Collecting, Reminding
  <2>12. QED
    BY <2>6, <2>8, <2>10, <2>11 DEF Lone
<1>11. OneByOne'
  <2>1. overlapped' = overlapped /\ pc[r] # "idle" /\ label # "idle"
    BY <1>2, <1>3, <1>4 DEF history
  <2>2. QED
    BY <1>3, <1>6, <1>10, <2>1, LoneAfter
<1>12. QED
  BY <1>8, <1>9, <1>11 DEF IInv

LEMMA RecordPushSent_Kept ==
  ASSUME IInv, NEW r \in Runs, RecordPushSent(r)
  PROVE  IInv'
<1>1. PICK t : t = Oldest(run[r].tokens)
  OBVIOUS
<1>2. /\ RecordPush(r, t, "recordPush") /\ RecordAlert(<<"push", run[r].item[2], t>>)
      /\ pc[r] = "recordPush"
  BY <1>1 DEF RecordPushSent, RecordPush, At
<1>3. PICK o \in Opportunities : run[r].item = <<"push", o>>
  BY <1>2, MyType DEF Hand
<1>4. run[r].tokens \subseteq Tokens /\ run[r].tokens # {}
  BY <1>2, MyType DEF Hand, Locals
<1>5. t \in Tokens
  BY <1>1, <1>4, OldestIn
<1>6. <<"push", run[r].item[2], t>> = PushOf(o, t) /\ PushOf(o, t) \in Keys
  BY <1>3, <1>5, KeysDiffer DEF PushOf
<1>7. /\ deliveries' \in [Keys -> Delivery]
      /\ \A j \in Keys : j # PushOf(o, t) => deliveries'[j] = deliveries[j]
  BY <1>2, <1>6, MyType, Alert
<1>8. QED
  BY <1>2, <1>5, <1>7, RecordPush_Kept

LEMMA RecordPushFailure_Kept ==
  ASSUME IInv, NEW r \in Runs, RecordPushFailure(r)
  PROVE  IInv'
<1>1. PICK t : t = Oldest(run[r].rest)
  OBVIOUS
<1>2. /\ RecordPush(r, t, "recordPushFailure") /\ RecordFailure(<<"push", run[r].item[2], t>>)
      /\ pc[r] = "recordPushFailure"
  BY <1>1 DEF RecordPushFailure, RecordPush, At
<1>3. PICK o \in Opportunities : run[r].item = <<"push", o>>
  BY <1>2, MyType DEF Hand
<1>4. run[r].rest \subseteq Tokens /\ run[r].rest # {}
  BY <1>2, MyType DEF Hand, Locals
<1>5. t \in Tokens
  BY <1>1, <1>4, OldestIn
<1>6. <<"push", run[r].item[2], t>> = PushOf(o, t) /\ PushOf(o, t) \in Keys
  BY <1>3, <1>5, KeysDiffer DEF PushOf
<1>7. /\ deliveries' \in [Keys -> Delivery]
      /\ \A j \in Keys : j # PushOf(o, t) => deliveries'[j] = deliveries[j]
  BY <1>2, <1>6, MyType, Failure
<1>8. QED
  BY <1>2, <1>5, <1>7, RecordPush_Kept

LEMMA RecordFollowUp_Kept ==
  ASSUME IInv, NEW r \in Runs, RecordFollowUp(r)
  PROVE  IInv'
<1>1. PICK at, my : at = pc[r] /\ my = run[r]
  OBVIOUS
<1>2. PICK label, me : label = "followup" /\ me = [my EXCEPT !.item = <<>>]
  OBVIOUS
<1>3. /\ at \in {"recordFollowUp", "recordFollowUpFailure"} /\ my \in Locals /\ my.now <= now
      /\ Running /\ Hand(at, my) /\ Do(r, label, me)
      /\ Types /\ Counted /\ OneByOne /\ Histories /\ Stores
  BY <1>1, <1>2, MyType DEF RecordFollowUp, At, IInv
<1>4. UNCHANGED <<environment, tokens, cursor, used, history, begun, faults>>
  BY DEF RecordFollowUp
<1>5. PICK f \in FollowUps : my.item = Reminder(f)
  BY <1>3 DEF Hand
<1>6. /\ deliveries' \in [Keys -> Delivery]
      /\ \A j \in Keys : j # Reminder(f) => deliveries'[j] = deliveries[j]
      /\ at = "recordFollowUp" => Settled(Reminder(f))'
  <2>1. Reminder(f) \in Keys
    BY KeysDiffer
  <2>2. CASE at = "recordFollowUp"
    <3>1. RecordAlert(Reminder(f))
      BY <1>1, <1>5, <2>2 DEF RecordFollowUp, At
    <3>2. QED
      BY <1>3, <2>1, <3>1, Alert
  <2>3. CASE at = "recordFollowUpFailure"
    <3>1. RecordFailure(Reminder(f))
      BY <1>1, <1>5, <2>3 DEF RecordFollowUp, At
    <3>2. QED
      BY <1>3, <2>1, <2>3, <3>1, Failure
  <2>4. QED
    BY <1>3, <2>2, <2>3
<1>7. /\ me \in Locals /\ me.now = my.now /\ me.batch = my.batch /\ me.todo = my.todo
      /\ me.digestSent = my.digestSent /\ me.limited = my.limited
  BY <1>2, <1>3 DEF Locals, Items
<1>8. Moved(r, label, me)
  BY <1>2, <1>3, <1>7, DoMoves DEF Labels, Reminding
<1>9. Hand(label, me)
  BY <1>2, <1>3, <1>7 DEF Hand, Collecting, Sending, Reminding
<1>10. Types'
  <2>1. Running'
    BY <1>3, <1>4, <1>7, <1>8, <1>9, RunningStep DEF environment
  <2>2. Stores'
    BY <1>3, <1>4, <1>6 DEF Stores, environment
  <2>3. Histories'
    BY <1>3, <1>4, HistoriesKept
  <2>4. QED
    BY <2>1, <2>2, <2>3 DEF Types
<1>11. Counted'
  <2>1. /\ used' = used /\ metered' = metered /\ faults' = faults /\ pc[r] \notin Uncounting
        /\ label \notin {"send", "recordDigest", "consume"}
    BY <1>1, <1>2, <1>3, <1>4 DEF history, Uncounting
  <2>2. QED
    BY <1>3, <1>8, <2>1, CountedQuiet
<1>12. ASSUME ~overlapped PROVE Lone(label, me)'
  <2>1. Lone(at, my) /\ Unsettled(at, my) /\ Held(at, my)
    BY <1>1, <1>3, <1>12, LoneBefore DEF Lone
  <2>2. ~Settled(Reminder(f))
    BY <1>3, <1>5, <2>1 DEF Unsettled
  <2>3. \A k \in Keys : Settled(k) => Settled(k)'
    BY <1>6, <2>2 DEF Settled
  <2>4. ASSUME NEW k \in Keys, Underway(at, my, k) PROVE Settled(k)'
    BY <1>3, <1>5, <1>6, <2>4 DEF Underway
  <2>5. \A d : ~Marking(at, my, d)
    BY <1>3 DEF Marking, Sending
  <2>6. UNCHANGED <<prefs, stored, cursor, digests, mailed, noticed, cut, faults>>
    BY <1>4 DEF environment, history
  <2>7. /\ \A p \in Opportunities : Settled(Letter(p)) => Settled(Letter(p))'
        /\ \A d \in UTCDays : Settled(DayKey(d)) => Settled(DayKey(d))'
    BY <2>3, KeysDiffer
  <2>8. Found' /\ Repeated(label, me)' /\ Ahead' \subseteq Ahead
    BY <1>3, <2>1, <2>3, <2>4, <2>5, <2>6, <2>7, LoneSettles
  <2>9. Unsettled(label, me)' /\ Unmarked(label, me)'
    BY <1>2 DEF Unsettled, Unmarked, Collecting, Sending
  <2>10. Held(label, me)'
    BY <1>2, <1>3, <1>7, <2>1, <2>6, <2>8 DEF Held, Collecting, Reminding
  <2>11. QED
    BY <2>8, <2>9, <2>10 DEF Lone
<1>13. OneByOne'
  <2>1. overlapped' = overlapped /\ pc[r] # "idle" /\ label # "idle"
    BY <1>1, <1>2, <1>3, <1>4 DEF history
  <2>2. QED
    BY <1>3, <1>8, <1>12, <2>1, LoneAfter
<1>14. QED
  BY <1>10, <1>11, <1>13 DEF IInv

LEMMA SendFollowUp_Kept ==
  ASSUME IInv, NEW r \in Runs, NEW f \in FollowUps, SendFollowUp(r, f)
  PROVE  IInv'
<1>1. PICK my : my = run[r]
  OBVIOUS
<1>2. PICK me : me = [my EXCEPT !.item = <<"followup", f>>, !.todo = my.todo \ {f}]
  OBVIOUS
<1>3. /\ pc[r] = "followup" /\ my \in Locals /\ my.now <= now /\ Running
      /\ Hand("followup", my)
      /\ Types /\ Counted /\ OneByOne /\ Histories /\ Stores
  BY <1>1, MyType DEF SendFollowUp, At, IInv
<1>4. /\ UNCHANGED <<environment, tokens, cursor, deliveries, used, begun, faults>>
      /\ UNCHANGED <<digests, metered, noticed, cut, overlapped>>
      /\ ~AlertSent("followup", f)
  BY DEF SendFollowUp
<1>5. PICK label :
        /\ Do(r, label, me)
        /\ \/ label = "recordFollowUp" /\ mailed' = [mailed EXCEPT ![Reminder(f)] = @ + 1]
           \/ label = "recordFollowUpFailure" /\ mailed' = mailed
  BY <1>1, <1>2 DEF SendFollowUp, Reminder
<1>6. /\ me \in Locals /\ me.now = my.now /\ me.todo \subseteq my.todo /\ me.item = Reminder(f)
      /\ me.digestSent = my.digestSent /\ me.limited = my.limited
  <2>1. <<"followup", f>> = Reminder(f) /\ Reminder(f) \in Items
    BY DEF Reminder, Items
  <2>2. QED
    BY <1>2, <1>3, <2>1 DEF Locals
<1>7. Moved(r, label, me)
  BY <1>3, <1>5, <1>6, DoMoves DEF Labels, Reminding
<1>8. Hand(label, me)
  BY <1>3, <1>5, <1>6 DEF Hand, Collecting, Sending, Reminding
<1>9. Reminder(f) \in Keys /\ mailed \in [Keys -> Nat] /\ faults \in Nat
  BY <1>3, KeysDiffer DEF Histories
<1>10. /\ mailed' \in [Keys -> Nat]
       /\ \A k \in Keys : k # Reminder(f) => mailed'[k] = mailed[k]
       /\ mailed'[Reminder(f)] <= mailed[Reminder(f)] + 1
       /\ label = "recordFollowUp" \/ mailed' = mailed
  <2>1. CASE label = "recordFollowUp" /\ mailed' = [mailed EXCEPT ![Reminder(f)] = @ + 1]
    BY <1>9, <2>1
  <2>2. CASE mailed' = mailed
    BY <1>9, <2>2
  <2>3. QED
    BY <1>5, <2>1, <2>2
<1>11. Types'
  <2>1. Running'
    BY <1>3, <1>4, <1>6, <1>7, <1>8, RunningStep DEF environment
  <2>2. Stores'
    BY <1>3, <1>4, StoresKept
  <2>3. \A o \in Opportunities, t \in Tokens : mailed'[PushOf(o, t)] = 0
    BY <1>3, <1>10, KeysDiffer DEF Histories
  <2>4. Histories'
    BY <1>3, <1>4, <1>10, <2>3 DEF Histories
  <2>5. QED
    BY <2>1, <2>2, <2>4 DEF Types
<1>12. Counted'
  <2>1. /\ used' = used /\ metered' = metered /\ faults' = faults /\ pc[r] \notin Uncounting
        /\ label \notin {"send", "recordDigest", "consume"}
    BY <1>3, <1>4, <1>5 DEF Uncounting
  <2>2. QED
    BY <1>3, <1>7, <2>1, CountedQuiet
<1>13. ASSUME ~overlapped PROVE Lone(label, me)'
  <2>1. Lone("followup", my) /\ Held("followup", my) /\ Found /\ Repeated("followup", my)
    BY <1>1, <1>3, <1>13, LoneBefore DEF Lone
  <2>2. ~Settled(Reminder(f))
    BY <1>4, SentIs
  <2>3. UNCHANGED <<prefs, stored>>
    BY <1>4 DEF environment
  <2>4. \A k : Settled(k)' <=> Settled(k)
    BY <1>4 DEF Settled
  <2>5. Found' /\ Ahead' = Ahead
    BY <1>4, <2>1, <2>3, <2>4 DEF Found, Ahead
  <2>6. Unsettled(label, me)'
    BY <1>5, <1>6, <2>2, <2>4 DEF Unsettled, Collecting
  <2>7. Unmarked(label, me)'
    BY <1>5 DEF Unmarked, Collecting, Sending
  <2>8. Held(label, me)'
    BY <1>5, <1>6, <2>1, <2>3, <2>5 DEF Held, Collecting, Reminding
  <2>9. ASSUME NEW k \in Keys
        PROVE  mailed'[k] <= IF Settled(k)' \/ Underway(label, me, k)' THEN faults' + 1 ELSE faults'
    <3>1. mailed[k] <= IF Settled(k) THEN faults + 1 ELSE faults
      BY <2>1 DEF Repeated, Underway
    <3>2. CASE label = "recordFollowUp" /\ k = Reminder(f)
      <4>1. Underway(label, me, k)'
        BY <1>6, <3>2 DEF Underway
      <4>2. mailed[k] <= faults /\ mailed'[k] <= mailed[k] + 1
        BY <1>10, <2>2, <3>1, <3>2
      <4>3. mailed[k] \in Nat /\ mailed'[k] \in Nat
        BY <1>9, <1>10
      <4>4. QED
        BY <1>4, <1>9, <4>1, <4>2, <4>3
    <3>3. CASE ~(label = "recordFollowUp" /\ k = Reminder(f))
      <4>1. mailed'[k] = mailed[k]
        BY <1>10, <3>3
      <4>2. mailed[k] \in Nat
        BY <1>9
      <4>3. QED
        BY <1>4, <1>9, <2>4, <3>1, <4>1, <4>2
    <3>4. QED
      BY <3>2, <3>3
  <2>10. ASSUME NEW d \in UTCDays \ cut'
         PROVE  digests'[d] <= IF Settled(DayKey(d))' \/ Marking(label, me, d)' THEN faults' + 1 ELSE faults'
    <3>1. digests[d] <= IF Settled(DayKey(d)) THEN faults + 1 ELSE faults
      BY <1>4, <2>1, <2>10 DEF Repeated, Marking, Sending
    <3>2. digests[d] \in Nat
      BY <1>3, <1>4, <2>10 DEF Histories
    <3>3. QED
      BY <1>4, <1>9, <2>4, <3>1, <3>2
  <2>11. Repeated(label, me)'
    BY <2>9, <2>10 DEF Repeated
  <2>12. QED
    BY <2>5, <2>6, <2>7, <2>8, <2>11 DEF Lone
<1>14. OneByOne'
  <2>1. overlapped' = overlapped /\ pc[r] # "idle" /\ label # "idle"
    BY <1>3, <1>4, <1>5
  <2>2. QED
    BY <1>3, <1>7, <1>13, <2>1, LoneAfter
<1>15. QED
  BY <1>11, <1>12, <1>14 DEF IInv

LEMMA Finish_Kept ==
  ASSUME IInv, NEW r \in Runs, Finish(r)
  PROVE  IInv'
<1>1. PICK my, label, me : my = run[r] /\ label = "idle" /\ me = Idle
  OBVIOUS
<1>2. /\ pc[r] = "followup" /\ my \in Locals /\ my.now <= now /\ Running
      /\ Types /\ Counted /\ OneByOne /\ Histories /\ Stores
  BY <1>1, MyType DEF Finish, At, IInv
<1>3. UNCHANGED <<environment, tokens, deliveries, used, history, begun, faults>>
  BY DEF Finish
<1>4. my.now \in Nat /\ my.digestSent \in BOOLEAN /\ now \in Nat /\ cursor \in Nat /\ cursor <= now
  BY <1>2 DEF Locals, Stores
<1>5. /\ cursor' \in 0..now /\ cursor' >= cursor
      /\ my.digestSent => cursor' = cursor
  BY <1>1, <1>2, <1>4 DEF Finish, AdvanceCursor, Later
<1>6. Moved(r, label, me)
  BY <1>1, <1>2, ReturnMoves DEF Finish
<1>7. me.now <= now /\ Hand(label, me)
  BY <1>1, IdleType, MyType, Constants
<1>8. Types'
  <2>1. Running'
    BY <1>2, <1>3, <1>6, <1>7, RunningStep DEF environment
  <2>2. Stores'
    BY <1>2, <1>3, <1>5 DEF Stores, environment
  <2>3. Histories'
    BY <1>2, <1>3, HistoriesKept
  <2>4. QED
    BY <2>1, <2>2, <2>3 DEF Types
<1>9. Counted'
  <2>1. /\ used' = used /\ metered' = metered /\ faults' = faults /\ pc[r] \notin Uncounting
        /\ label \notin {"send", "recordDigest", "consume"}
    BY <1>1, <1>2, <1>3 DEF history, Uncounting
  <2>2. QED
    BY <1>2, <1>6, <2>1, CountedQuiet
<1>10. ASSUME ~overlapped PROVE Lone(label, me)'
  <2>1. Lone("followup", my) /\ Held("followup", my) /\ Found /\ Repeated("followup", my)
    BY <1>1, <1>2, <1>10, LoneBefore DEF Lone
  <2>2. UNCHANGED <<prefs, stored, digests, mailed, noticed, cut, faults>>
    BY <1>3 DEF environment, history
  <2>3. \A k : Settled(k)' <=> Settled(k)
    BY <1>3 DEF Settled
  <2>4. prefs.email /\ ~my.digestSent => Ahead = {}
    BY <2>1 DEF Held, Reminding
  <2>5. ASSUME prefs.email, NEW o \in noticed, cursor' >= stored[o] PROVE Settled(Letter(o))
    <3>1. stored[o] \in Nat
      BY <1>2 DEF Histories, Stores
    <3>2. CASE cursor >= stored[o]
      BY <2>1, <2>5, <3>2 DEF Found
    <3>3. CASE stored[o] > cursor
      <4>1. ~my.digestSent
        BY <1>4, <1>5, <2>5, <3>1, <3>3
      <4>2. QED
        BY <2>4, <2>5, <3>3, <4>1 DEF Ahead
    <3>4. QED
      BY <1>4, <3>1, <3>2, <3>3
  <2>6. Found'
    <3>1. cursor' = 0 => cursor = 0
      BY <1>4, <1>5
    <3>2. QED
      BY <2>1, <2>2, <2>3, <2>5, <3>1 DEF Found
  <2>7. Unsettled(label, me)' /\ Unmarked(label, me)' /\ Held(label, me)'
    BY <1>1, IdleFree DEF Unsettled, Unmarked, Held, Collecting, Sending, Reminding
  <2>8. Repeated(label, me)'
    BY <1>1, <2>1, <2>2, <2>3 DEF Repeated, Underway, Marking, Sending
  <2>9. QED
    BY <2>6, <2>7, <2>8 DEF Lone
<1>11. OneByOne'
  <2>1. overlapped' = overlapped /\ pc[r] # "idle"
    BY <1>2, <1>3 DEF history
  <2>2. QED
    BY <1>1, <1>2, <1>6, <1>10, <2>1, LoneAfter
<1>12. QED
  BY <1>8, <1>9, <1>11 DEF IInv

-----------------------------------------------------------------------------
(* The start of a run.                                                     *)

LEMMA ProcessTarget_Kept ==
  ASSUME IInv, NEW r \in Runs, ProcessTarget(r)
  PROVE  IInv'
<1>1. PICK my : my = run[r]
  OBVIOUS
<1>2. PICK new : new = {o \in my.todo : stored[o] > Cutoff(my.now)}
  OBVIOUS
<1>3. PICK sent : sent = (prefs.email /\ AlertSent("opportunity_digest", Day(my.now)))
  OBVIOUS
<1>4. PICK label, me : label = "scan" /\ me = [my EXCEPT !.todo = new, !.digestSent = sent]
  OBVIOUS
<1>5. /\ pc[r] = "start" /\ my \in Locals /\ my.now <= now /\ Running /\ Hand("start", my)
      /\ Types /\ Counted /\ OneByOne /\ Histories /\ Stores
  BY <1>1, MyType DEF ProcessTarget, At, IInv
<1>6. /\ Do(r, label, me)
      /\ noticed' = IF cursor = 0 THEN noticed ELSE noticed \cup new
  BY <1>1, <1>2, <1>3, <1>4 DEF ProcessTarget, NewOpportunities
<1>7. UNCHANGED <<environment, tokens, cursor, deliveries, used, digests, mailed, metered, cut,
                  overlapped, begun, faults>>
  BY DEF ProcessTarget
<1>8. my.todo \subseteq Opportunities /\ my.batch = {} /\ sent \in BOOLEAN
  BY <1>3, <1>5 DEF Hand
<1>9. /\ me \in Locals /\ me.now = my.now /\ me.batch = {} /\ me.todo = new
      /\ me.digestSent = sent /\ me.limited = my.limited
  BY <1>2, <1>4, <1>5, <1>8 DEF Locals
<1>10. Moved(r, label, me)
  BY <1>4, <1>5, <1>6, <1>9, DoMoves DEF Labels, Collecting
<1>11. Hand(label, me)
  BY <1>2, <1>4, <1>8, <1>9 DEF Hand, Collecting, Sending, Reminding
<1>12. Types'
  <2>1. Running'
    BY <1>5, <1>7, <1>9, <1>10, <1>11, RunningStep DEF environment
  <2>2. Stores'
    BY <1>5, <1>7, StoresKept
  <2>3. noticed' \subseteq Opportunities
    BY <1>2, <1>5, <1>6, <1>8 DEF Histories
  <2>4. Histories'
    BY <1>5, <1>7, <2>3 DEF Histories
  <2>5. QED
    BY <2>1, <2>2, <2>4 DEF Types
<1>13. Counted'
  <2>1. /\ used' = used /\ metered' = metered /\ faults' = faults /\ pc[r] \notin Uncounting
        /\ label \notin {"send", "recordDigest", "consume"}
    BY <1>4, <1>5, <1>7 DEF Uncounting
  <2>2. QED
    BY <1>5, <1>10, <2>1, CountedQuiet
<1>14. ASSUME ~overlapped PROVE Lone(label, me)'
  <2>1. Lone("start", my) /\ Held("start", my) /\ Found /\ Repeated("start", my)
    BY <1>1, <1>5, <1>14, LoneBefore DEF Lone
  <2>2. /\ \A o \in Opportunities : stored[o] > 0 /\ o \in noticed => o \in my.todo
        /\ \A o \in my.todo : stored[o] > 0
        /\ ~my.limited
    BY <2>1 DEF Held
  <2>3. UNCHANGED <<prefs, stored>>
    BY <1>7 DEF environment
  <2>4. \A k : Settled(k)' <=> Settled(k)
    BY <1>7 DEF Settled
  <2>5. cursor \in Nat /\ \A o \in Opportunities : stored[o] \in Nat
    BY <1>5 DEF Stores
  <2>6. /\ \A o \in noticed' : o \in Opportunities /\ stored[o] > 0
        /\ cursor # 0 => \A o \in noticed' : stored[o] > cursor => o \in new
        /\ cursor # 0 => \A o \in noticed' : o \in noticed \/ stored[o] > cursor
        /\ cursor = 0 => noticed' = {}
    <3>1. \A o \in noticed : o \in Opportunities /\ stored[o] > 0 /\ o \in my.todo
      BY <1>5, <2>1, <2>2 DEF Found, Histories
    <3>2. cursor # 0 => \A o : o \in new <=> o \in my.todo /\ stored[o] > cursor
      BY <1>2 DEF Cutoff
    <3>3. cursor = 0 => noticed' = {}
      BY <1>6, <2>1 DEF Found
    <3>4. cursor # 0 => noticed' = noticed \cup new
      BY <1>6
    <3>5. QED
      BY <1>8, <2>2, <3>1, <3>2, <3>3, <3>4
  <2>7. Found'
    <3>1. ASSUME prefs.email, NEW o \in noticed', cursor >= stored[o] PROVE Settled(Letter(o))
      <4>1. o \in noticed
        BY <2>5, <2>6, <3>1
      <4>2. QED
        BY <2>1, <3>1, <4>1 DEF Found
    <3>2. QED
      BY <1>7, <2>3, <2>4, <2>6, <3>1 DEF Found
  <2>8. Unsettled(label, me)'
    BY <1>4, <1>9 DEF Unsettled, Collecting
  <2>9. prefs.email /\ ~sent => ~Settled(DayKey(Day(my.now)))
    BY <1>3, SentIs
  <2>10. Unmarked(label, me)'
    BY <1>4, <1>9, <2>3, <2>4, <2>9 DEF Unmarked, Collecting, Sending
  <2>11. Ahead' \subseteq new
    BY <1>7, <2>3, <2>6 DEF Ahead
  <2>12. Held(label, me)'
    BY <1>4, <1>9, <2>2, <2>11 DEF Held, Collecting, Reminding
  <2>13. Repeated(label, me)'
    BY <1>4, <1>7, <2>1, <2>4 DEF Repeated, Underway, Marking, Sending
  <2>14. QED
    BY <2>7, <2>8, <2>10, <2>12, <2>13 DEF Lone
<1>15. OneByOne'
  <2>1. overlapped' = overlapped /\ pc[r] # "idle" /\ label # "idle"
    BY <1>4, <1>5, <1>7
  <2>2. QED
    BY <1>5, <1>10, <1>14, <2>1, LoneAfter
<1>16. QED
  BY <1>12, <1>13, <1>15 DEF IInv

LEMMA Begin_Kept ==
  ASSUME IInv, NEW r \in Runs, Begin(r)
  PROVE  IInv'
<1>1. PICK there : there = {o \in Opportunities : stored[o] > 0}
  OBVIOUS
<1>2. PICK label, me : label = "start" /\ me = [Idle EXCEPT !.now = now, !.tokens = tokens, !.todo = there]
  OBVIOUS
<1>3. /\ pc[r] = "idle" /\ Running /\ Types /\ Counted /\ OneByOne /\ Histories /\ Stores
      /\ Do(r, label, me) /\ begun' = begun + 1 /\ overlapped' = (overlapped \/ AtWork # {})
  BY <1>1, <1>2, MyType DEF Begin, At, IInv
<1>4. UNCHANGED <<environment, tokens, cursor, deliveries, used, digests, mailed, metered, cut,
                  noticed, faults>>
  BY DEF Begin
<1>5. now \in Nat /\ tokens \subseteq Tokens
  BY <1>3 DEF Stores
<1>6. /\ me \in Locals /\ me.now = now /\ me.batch = {} /\ me.todo = there /\ me.limited = FALSE
      /\ me.digestSent = FALSE
  BY <1>1, <1>2, <1>5, IdleType DEF Locals, Idle
<1>7. Moved(r, label, me)
  BY <1>2, <1>3, <1>6, DoMoves DEF Labels
<1>8. Hand(label, me)
  BY <1>1, <1>2, <1>6 DEF Hand, Collecting, Sending, Reminding
<1>9. Types'
  <2>1. Running'
    <3>1. now' = now /\ me.now <= now
      BY <1>4, <1>5, <1>6 DEF environment
    <3>2. QED
      BY <1>3, <1>7, <1>8, <3>1, RunningStep
  <2>2. Stores'
    BY <1>3, <1>4, StoresKept
  <2>3. overlapped' \in BOOLEAN
    BY <1>3, Zenon DEF Histories
  <2>4. Histories'
    BY <1>3, <1>4, <2>3 DEF Histories
  <2>5. QED
    BY <2>1, <2>2, <2>4 DEF Types
<1>10. Counted'
  <2>1. /\ used' = used /\ metered' = metered /\ faults' = faults /\ pc[r] \notin Uncounting
        /\ label \notin {"send", "recordDigest", "consume"}
    BY <1>2, <1>3, <1>4 DEF Uncounting
  <2>2. QED
    BY <1>3, <1>7, <2>1, CountedQuiet
<1>11. OneByOne'
  <2>1. SUFFICES ASSUME ~overlapped' PROVE OneByOne'
    BY DEF OneByOne
  <2>2. ~overlapped /\ AtWork = {}
    BY <1>3, <2>1
  <2>3. \A q \in Runs : pc[q] = "idle"
    BY <2>2 DEF AtWork
  <2>4. Found /\ Repeated("idle", Idle)
    <3>1. Lone("idle", Idle)
      BY <1>3, <2>2, <2>3 DEF OneByOne
    <3>2. QED
      BY <3>1 DEF Lone
  <2>5. UNCHANGED <<prefs, stored, cursor, digests, mailed, noticed, cut, faults>>
        /\ \A k : Settled(k)' <=> Settled(k)
    BY <1>4 DEF environment, Settled
  <2>6. Found'
    BY <2>4, <2>5 DEF Found
  <2>7. Repeated(label, me)'
    BY <1>2, <2>4, <2>5 DEF Repeated, Underway, Marking, Sending
  <2>8. Unsettled(label, me)' /\ Unmarked(label, me)'
    BY <1>2 DEF Unsettled, Unmarked, Collecting, Sending
  <2>9. Held(label, me)'
    BY <1>1, <1>2, <1>6, <2>5 DEF Held, Collecting, Reminding
  <2>10. Lone(label, me)'
    BY <2>6, <2>7, <2>8, <2>9 DEF Lone
  <2>11. /\ \A q \in Runs : q # r => pc'[q] = "idle"
         /\ pc'[r] = label /\ run'[r] = me
    BY <1>7, <2>3 DEF Moved
  <2>12. \A p, q \in Runs : pc'[p] # "idle" /\ pc'[q] # "idle" => p = q
    BY <2>11
  <2>13. \A q \in Runs : pc'[q] # "idle" => Lone(pc[q], run[q])'
    BY <2>10, <2>11
  <2>14. ~(\A q \in Runs : pc'[q] = "idle")
    BY <1>2, <2>11
  <2>15. QED
    BY <2>12, <2>13, <2>14 DEF OneByOne
<1>12. QED
  BY <1>9, <1>10, <1>11 DEF IInv

LEMMA Step_Kept ==
  ASSUME IInv, NEW r \in Runs, Step(r)
  PROVE  IInv'
<1>1. ASSUME NEW o \in Opportunities, Scan(r, o) PROVE IInv'
  BY <1>1, Scan_Kept
<1>2. ASSUME NEW o \in Opportunities, RecordDigestFailure(r, o) \/ RecordDigest(r, o) \/ Consume(r, o)
      PROVE  IInv'
  BY <1>2, RecordDigestFailure_Kept, RecordDigest_Kept, Consume_Kept
<1>3. ASSUME NEW f \in FollowUps, SkipFollowUp(r, f) \/ SendFollowUp(r, f)
      PROVE  IInv'
  BY <1>3, SkipFollowUp_Kept, SendFollowUp_Kept
<1>4. QED
  BY <1>1, <1>2, <1>3, Begin_Kept, ProcessTarget_Kept, PushToken_Kept, PushFails_Kept,
     RecordPushSent_Kept, RecordPushFailure_Kept, CheckQuota_Kept, SendDigest_Kept,
     DigestFails_Kept, Limited_Kept, MarkDay_Kept, ReadDeals_Kept, RecordFollowUp_Kept,
     Finish_Kept DEF Step

-----------------------------------------------------------------------------
(* The steps around the worker.                                            *)

LEMMA LoneAround ==
  ASSUME Stores, Histories, NEW at, NEW my, Lone(at, my), at = "start" => my.todo \subseteq Opportunities,
         UNCHANGED <<prefs, cursor, deliveries, digests, mailed, noticed, cut, faults>>,
         \A o \in Opportunities : stored'[o] = stored[o] \/ (stored[o] = 0 /\ stored'[o] > 0)
  PROVE  Lone(at, my)'
<1>1. Found /\ noticed \subseteq Opportunities /\ \A o \in noticed : stored[o] > 0
  BY DEF Lone, Found, Histories
<1>2. \A o \in noticed : stored'[o] = stored[o]
  BY <1>1
<1>3. \A o \in Opportunities : stored[o] > 0 => stored'[o] > 0
  OBVIOUS
<1>4. \A k : Settled(k)' <=> Settled(k)
  BY DEF Settled
<1>5. Found'
  BY <1>1, <1>2, <1>4 DEF Found
<1>6. Ahead' = Ahead
  BY <1>2, <1>4 DEF Ahead
<1>7. Unsettled(at, my)' /\ Unmarked(at, my)'
  BY <1>4 DEF Lone, Unsettled, Unmarked
<1>8. Held(at, my)'
  <2>1. Held(at, my)
    BY DEF Lone
  <2>2. at = "start" => /\ \A o \in Opportunities : stored'[o] > 0 /\ o \in noticed => o \in my.todo
                        /\ \A o \in my.todo : stored'[o] > 0
    BY <1>1, <1>2, <1>3, <2>1 DEF Held
  <2>3. QED
    BY <1>6, <2>1, <2>2 DEF Held
<1>9. Repeated(at, my)'
  <2>1. Repeated(at, my)
    BY DEF Lone
  <2>2. \A k : Underway(at, my, k)' <=> Underway(at, my, k)
    BY DEF Underway
  <2>3. \A d : Marking(at, my, d)' <=> Marking(at, my, d)
    BY DEF Marking
  <2>4. QED
    BY <1>4, <2>1, <2>2, <2>3 DEF Repeated
<1>10. QED
  BY <1>5, <1>7, <1>8, <1>9 DEF Lone

LEMMA AroundStep ==
  ASSUME IInv, Stores', UNCHANGED <<prefs, cursor, deliveries, used, pc, run, history, begun, faults>>,
         now' \in Nat, now' >= now,
         \A o \in Opportunities : stored'[o] = stored[o] \/ (stored[o] = 0 /\ stored'[o] > 0)
  PROVE  IInv'
<1>1. Types /\ Running /\ Stores /\ Histories /\ Counted /\ OneByOne
  BY DEF IInv, Types
<1>2. Types'
  <2>1. Running'
    <3>1. \A q \in Runs : run[q].now <= now /\ run[q].now \in Nat
      BY <1>1 DEF Running, Locals
    <3>2. now \in Nat
      BY <1>1 DEF Stores
    <3>3. \A q \in Runs : run'[q].now <= now'
      BY <3>1, <3>2
    <3>4. QED
      BY <1>1, <3>3 DEF Running
  <2>2. Histories'
    BY <1>1, HistoriesKept
  <2>3. QED
    BY <2>1, <2>2 DEF Types
<1>3. Counted'
  BY <1>1, CountedAround DEF history
<1>4. OneByOne'
  <2>1. SUFFICES ASSUME ~overlapped PROVE OneByOne'
    BY DEF OneByOne, history
  <2>2. UNCHANGED <<prefs, cursor, deliveries, digests, mailed, noticed, cut, faults>>
    BY DEF history
  <2>3. ASSUME NEW q \in Runs, pc'[q] # "idle" PROVE Lone(pc[q], run[q])'
    <3>1. PICK at, my : at = pc[q] /\ my = run[q]
      OBVIOUS
    <3>2. Lone(at, my) /\ Hand(at, my)
      BY <1>1, <2>1, <2>3, <3>1 DEF OneByOne, Running
    <3>3. at = "start" => my.todo \subseteq Opportunities
      BY <3>2 DEF Hand
    <3>4. Lone(at, my)'
      BY <1>1, <2>2, <3>2, <3>3, LoneAround
    <3>5. at = pc'[q] /\ my = run'[q]
      BY <3>1
    <3>6. QED
      BY <3>4, <3>5
  <2>4. ASSUME \A q \in Runs : pc'[q] = "idle" PROVE Lone("idle", Idle)'
    <3>1. PICK at, my : at = "idle" /\ my = Idle
      OBVIOUS
    <3>2. Lone(at, my)
      BY <1>1, <2>1, <2>4, <3>1 DEF OneByOne
    <3>3. Lone(at, my)'
      BY <1>1, <2>2, <3>1, <3>2, LoneAround
    <3>4. QED
      BY <3>1, <3>3
  <2>5. \A p, q \in Runs : pc'[p] # "idle" /\ pc'[q] # "idle" => p = q
    BY <1>1, <2>1 DEF OneByOne
  <2>6. QED
    BY <2>3, <2>4, <2>5 DEF OneByOne
<1>5. QED
  BY <1>2, <1>3, <1>4 DEF IInv

LEMMA Around ==
  ASSUME IInv,
         \/ Tick
         \/ \E o \in Opportunities, published \in 1..now : Store(o, published)
         \/ \E f \in FollowUps : ChangeDue(f)
         \/ \E t \in Tokens : RegisterPushToken(t) \/ RemovePushToken(t)
  PROVE  IInv'
<1>1. Stores /\ now \in 1..MaxTime /\ now \in Nat /\ stored \in [Opportunities -> 0..now]
      /\ \A o \in Opportunities : stored[o] \in 0..now
  BY Constants DEF IInv, Types, Stores
<1>2. CASE Tick
  <2>1. now' \in 1..MaxTime /\ now' = now + 1
    BY <1>1, <1>2, Constants DEF Tick
  <2>2. stored' = stored /\ stored' \in [Opportunities -> 0..now'] /\ cursor' \in 0..now'
    BY <1>1, <1>2, <2>1 DEF Tick, Stores
  <2>3. Stores'
    BY <1>1, <1>2, <2>1, <2>2 DEF Stores, Tick
  <2>4. QED
    BY <1>1, <1>2, <2>1, <2>2, <2>3, AroundStep DEF Tick
<1>3. ASSUME NEW o \in Opportunities, NEW published \in 1..now, Store(o, published) PROVE IInv'
  <2>1. /\ stored[o] = 0 /\ stored' = [stored EXCEPT ![o] = published]
        /\ UNCHANGED <<now, prefs, due, tokens, cursor, deliveries, used, pc, run, history, begun, faults>>
    BY <1>3 DEF Store
  <2>2. published \in 0..now /\ published > 0
    BY <1>1, <1>3
  <2>3. stored' \in [Opportunities -> 0..now]
    BY <1>1, <2>1, <2>2
  <2>4. \A p \in Opportunities : stored'[p] = stored[p] \/ (stored[p] = 0 /\ stored'[p] > 0)
    BY <1>1, <2>1, <2>2
  <2>5. Stores'
    BY <1>1, <2>1, <2>3 DEF Stores
  <2>6. QED
    BY <1>1, <2>1, <2>4, <2>5, AroundStep
<1>4. ASSUME NEW f \in FollowUps, ChangeDue(f) PROVE IInv'
  <2>1. /\ UNCHANGED <<now, prefs, stored, tokens, cursor, deliveries, used, pc, run, history, begun, faults>>
        /\ due' = IF f \in due THEN due \ {f} ELSE due \cup {f}
    BY <1>4 DEF ChangeDue
  <2>2. Stores'
    BY <1>1, <2>1 DEF Stores
  <2>3. QED
    BY <1>1, <2>1, <2>2, AroundStep
<1>5. ASSUME NEW t \in Tokens, RegisterPushToken(t) \/ RemovePushToken(t) PROVE IInv'
  <2>1. /\ UNCHANGED <<environment, cursor, deliveries, used, pc, run, history, begun, faults>>
        /\ tokens' = tokens \cup {t} \/ tokens' = tokens \ {t}
    BY <1>5 DEF RegisterPushToken, RemovePushToken
  <2>2. UNCHANGED <<now, prefs, stored, due>>
    BY <2>1 DEF environment
  <2>3. Stores'
    BY <1>1, <2>1, <2>2 DEF Stores
  <2>4. QED
    BY <1>1, <2>1, <2>2, <2>3, AroundStep
<1>6. QED
  BY <1>2, <1>3, <1>4, <1>5

-----------------------------------------------------------------------------
(* The theorems.                                                           *)

LEMMA InitHolds == Init => IInv
<1>1. SUFFICES ASSUME Init PROVE IInv
  OBVIOUS
<1>2. Stores
  <2>1. 1 \in 1..MaxTime /\ 0 \in 0..1 /\ 0 \in 0..DailyAlerts
    BY Constants
  <2>2. deliveries \in [Keys -> Delivery]
    BY <1>1 DEF Init, Delivery
  <2>3. QED
    BY <1>1, <2>1, <2>2 DEF Init, Stores
<1>3. Running
  BY <1>1, IdleType DEF Init, Running, Labels
<1>4. Histories
  BY <1>1, KeysDiffer DEF Init, Histories
<1>5. Counted
  <2>1. \A d \in UTCDays : Uncounted(d) = 0
    BY <1>1, WorkerIsOne DEF Init, Uncounted
  <2>2. QED
    BY <1>1, <2>1, WorkerIsOne DEF Init, Counted
<1>6. OneByOne
  <2>1. PICK at : at = "idle"
    OBVIOUS
  <2>2. Unsettled(at, Idle) /\ Unmarked(at, Idle) /\ Held(at, Idle)
    BY <2>1, IdleFree
  <2>3. Found
    BY <1>1 DEF Init, Found
  <2>4. Repeated(at, Idle)
    BY <1>1 DEF Init, Repeated
  <2>5. Lone("idle", Idle)
    BY <2>1, <2>2, <2>3, <2>4 DEF Lone
  <2>6. \A q \in Runs : pc[q] = "idle"
    BY <1>1 DEF Init
  <2>7. QED
    BY <2>5, <2>6 DEF OneByOne
<1>7. QED
  BY <1>2, <1>3, <1>4, <1>5, <1>6 DEF IInv, Types

LEMMA Kept == IInv /\ [Next]_vars => IInv'
<1>1. SUFFICES ASSUME IInv, [Next]_vars PROVE IInv'
  OBVIOUS
<1>2. ASSUME NEW r \in Runs, Step(r) \/ Abort(r) PROVE IInv'
  BY <1>1, <1>2, Step_Kept, Abort_Kept
<1>3. CASE UNCHANGED vars
  <2>1. UNCHANGED <<environment, tokens, cursor, deliveries, used, pc, run, history, begun, faults>>
    BY <1>3 DEF vars
  <2>2. UNCHANGED <<now, prefs, stored, due>>
    BY <2>1 DEF environment
  <2>3. Stores /\ Stores' /\ now \in Nat
    BY <1>1, <2>1, <2>2 DEF IInv, Types, Stores
  <2>4. QED
    BY <1>1, <2>1, <2>2, <2>3, AroundStep
<1>4. QED
  BY <1>1, <1>2, <1>3, Around DEF Next

LEMMA Invariance == Spec => []IInv
BY InitHolds, Kept, PTL DEF Spec

\* Every part of the state has its type; what a run holds was, at the time, in the
\* tables, and neither the cursor nor a run is ahead of the clock.
THEOREM TypeCorrect == Spec => []TypeOK
<1>1. IInv => TypeOK
  BY DEF IInv, Types, Running, Stores, Locals, Delivery, TypeOK
<1>2. QED
  BY Invariance, <1>1, PTL

\* Where there is but one run at a time, the last two parts of the invariant hold.
LEMMA Alone ==
  ASSUME IInv, ~overlapped
  PROVE  /\ Found
         /\ \A k \in Keys : mailed[k] <= faults + 1
         /\ \A d \in UTCDays \ cut : digests[d] <= faults + 1
<1>1. PICK at, my : Lone(at, my)
  BY DEF IInv, OneByOne
<1>2. Histories
  BY DEF IInv, Types
<1>3. QED
  BY <1>1, <1>2 DEF Lone, Repeated, Histories

\* An opportunity that a run has found is not passed by the cursor before its e-mail
\* was sent or given up: between the moment it is found and the end of the run it
\* is in the hands of the run, or the run keeps the cursor.
THEOREM NoEmailIsSkipped == Spec => []EmailNeverSkipped
<1>1. IInv => EmailNeverSkipped
  BY Alone, SentIs DEF EmailNeverSkipped, Found
<1>2. QED
  BY Invariance, <1>1, PTL

\* The digest of a day goes out once, and once more for each crash.
THEOREM OneDigestADay == Spec => []DigestOncePerDay
<1>1. IInv => DigestOncePerDay
  <2>1. SUFFICES ASSUME IInv, ~overlapped, NEW d \in UTCDays \ cut PROVE digests[d] <= 1 + faults
    BY DEF DigestOncePerDay
  <2>2. digests[d] <= faults + 1 /\ faults \in Nat /\ digests[d] \in Nat
    BY <2>1, Alone DEF IInv, Types, Histories
  <2>3. QED
    BY <2>2
<1>2. QED
  BY Invariance, <1>1, PTL

\* An opportunity or a follow-up is e-mailed once, and once more for each crash.
THEOREM EmailedOnce == Spec => []MailedOnce
<1>1. IInv => MailedOnce
  <2>1. SUFFICES ASSUME IInv, ~overlapped, NEW k \in Keys PROVE mailed[k] <= 1 + faults
    BY DEF MailedOnce
  <2>2. mailed[k] <= faults + 1 /\ faults \in Nat /\ mailed[k] \in Nat
    BY <2>1, Alone DEF IInv, Types, Histories
  <2>3. QED
    BY <2>2
<1>2. QED
  BY Invariance, <1>1, PTL

\* The worker e-mails no more opportunities for a day than the plan allows, however
\* its runs overlap with those of the operators.
THEOREM PlanIsKept == Spec => []QuotaKept
<1>1. IInv => QuotaKept
  <2>1. SUFFICES ASSUME IInv, CloudMode, faults = 0, NEW d \in UTCDays PROVE metered[d] <= DailyAlerts
    BY DEF QuotaKept
  <2>2. /\ Counted /\ used[d] \in 0..DailyAlerts /\ metered[d] \in Nat /\ Running
        /\ metered[d] = used[d] + Uncounted(d)
    BY <2>1 DEF IInv, Types, Counted, Stores, Histories
  <2>3. used[d] + Uncounted(d) <= DailyAlerts
    <3>1. CASE Today(Worker) = d /\ pc[Worker] = "recordDigest"
      BY <2>1, <2>2, <3>1 DEF Counted, Uncounted
    <3>2. CASE Today(Worker) = d /\ pc[Worker] = "consume"
      BY <2>1, <2>2, <3>2 DEF Counted, Uncounted
    <3>3. CASE ~(Today(Worker) = d /\ pc[Worker] \in {"recordDigest", "consume"})
      <4>1. Uncounted(d) = 0
        BY <3>3 DEF Uncounted
      <4>2. QED
        BY <2>2, <4>1, Constants
    <3>4. QED
      BY <3>1, <3>2, <3>3
  <2>4. QED
    BY <2>2, <2>3
<1>2. QED
  BY Invariance, <1>1, PTL

\* The cursor never goes back, however the runs overlap.
THEOREM CursorOnlyAdvances == Spec => CursorNeverBack
<1>1. IInv /\ [Next]_vars => [cursor' >= cursor]_cursor
  <2>1. SUFFICES ASSUME IInv, [Next]_vars, cursor' # cursor PROVE cursor' >= cursor
    OBVIOUS
  <2>2. PICK r \in Runs : Finish(r)
    <3>1. \A r \in Runs : Abort(r) => cursor' = cursor
      BY DEF Abort
    <3>2. ASSUME NEW r \in Runs, Step(r), ~Finish(r) PROVE cursor' = cursor
      BY <3>2 DEF Step, Begin, ProcessTarget, Scan, PushToken, PushFails, RecordPushSent,
        RecordPushFailure, RecordPush, CheckQuota, SendDigest, DigestFails, RecordDigestFailure,
        RecordDigest, Consume, Limited, MarkDay, ReadDeals, SkipFollowUp, SendFollowUp, RecordFollowUp
    <3>3. QED
      BY <2>1, <3>1, <3>2 DEF Next, Tick, Store, ChangeDue, RegisterPushToken, RemovePushToken, vars
  <2>3. run[r].now \in Nat /\ cursor \in Nat
    BY <2>1, MyType DEF Stores
  <2>4. QED
    BY <2>1, <2>2, <2>3 DEF Finish, AdvanceCursor, Later
<1>2. QED
  BY Invariance, <1>1, PTL DEF Spec, CursorNeverBack
=============================================================================
