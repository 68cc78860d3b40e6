------------------------ MODULE Subscription_proofs -------------------------
(***************************************************************************)
(* For any number of organizations, Stripe events, reconcilers, overrides  *)
(* and interruptions: the tables of the billing state agree, nothing is    *)
(* applied twice and nothing accepted is undone by something older, except *)
(* by an operator.                                                         *)
(***************************************************************************)
EXTENDS Subscription, SequenceTheorems, TLAPS

\* What Stripe has and has announced; nothing is dated in the future.
EventOf(n, t) == [sub : 1..n, state : States, created : 0..t]
DatedBy(t) == [number : 1..MaxOverrides, org : Orgs, state : Supported, date : 1..t]
Outside ==
  /\ now \in 1..MaxTime
  /\ stripe \in Seq([org : Orgs, state : States])
  /\ events \in Seq(EventOf(Len(stripe), now))
  /\ Len(stripe) <= Len(events) /\ Len(events) <= MaxEvents
  /\ overrides \in 0..MaxOverrides
  /\ dated \subseteq DatedBy(now)

Entry == [sub : {Manual} \cup 0..MaxEvents, state : Supported, recordedAt : 0..MaxTime,
          id : Ids \cup {OperatorId}]
Tables ==
  /\ row \in [Orgs -> [sub : 0..Len(stripe), state : Supported, updatedAt : 0..now]]
  /\ orgStatus \in [Orgs -> OrgStatus]
  /\ history \in [Orgs -> Seq(Entry)]
  /\ seen \subseteq Ids

\* A reconciler is within its list, of subscriptions that Stripe has.
ItemOf(n, t) == [org : Orgs, sub : 1..n, state : States, stamp : 0..t]
Reconciling ==
  /\ faults \in 0..MaxFaults
  /\ phase \in [Reconcilers -> {"idle", "listed", "applying", "done", "failed"}]
  /\ at \in [Reconcilers -> 1..(MaxEvents + 1)]
  /\ items \in [Reconcilers -> Seq(ItemOf(Len(stripe), now))]
  /\ \A r \in Reconcilers :
       /\ Len(items[r]) <= MaxEvents
       /\ phase[r] = "listed" => at[r] = 1
       /\ phase[r] = "applying" => at[r] <= Len(items[r])

\* Only announced events are recorded as seen.
SeenAnnounced == \A i \in 1..MaxEvents : EventId(i) \in seen => i <= Len(events)

\* An entry of the history is an operator's or of an id that was seen, and one
\* of an event tells what the event said.
Tells(entry, i) ==
  /\ i <= Len(events)
  /\ entry.sub = events[i].sub
  /\ entry.state = events[i].state
  /\ entry.recordedAt = events[i].created
Remembers(entry) ==
  /\ entry.id # OperatorId => entry.id \in seen
  /\ \A i \in 1..MaxEvents : entry.id = EventId(i) => Tells(entry, i)
HistoryRemembers ==
  \A o \in Orgs :
    /\ \A n \in 1..Len(history[o]) : Remembers(history[o][n])
    /\ Len(history[o]) = 0 => row[o].updatedAt = 0

\* The inductive invariant.  NewestWins needs SeenAnnounced (a new event is not
\* seen yet) and TablesAgree (the write before an override left its date in the
\* row); AppliedOnce needs HistoryRemembers: an id that is not seen is in no history.
IInv ==
  /\ Outside /\ Tables /\ Reconciling /\ SeenAnnounced
  /\ HistoryRemembers /\ TablesAgree /\ NewestWins /\ AppliedOnce

\* What NewestWins says of an accepted event with this date.
Kept(o, date) ==
  \/ date <= row[o].updatedAt
  \/ \E n \in DOMAIN history[o] : TakenBack(o, n, date) /\ history[o][n].id = OperatorId

\* The part of it that speaks of the tables.
TablesInv ==
  Tables /\ SeenAnnounced /\ HistoryRemembers /\ TablesAgree /\ NewestWins /\ AppliedOnce

\* NewestWins gives it for every accepted event.
LEMMA KeptNow ==
  ASSUME NewestWins, NEW i \in DOMAIN events, EventId(i) \in seen
  PROVE  Kept(stripe[events[i].sub].org, events[i].created)
BY DEF NewestWins, Kept

-----------------------------------------------------------------------------
(* Ids, statuses, seconds and sequences.                                   *)

LEMMA IdsDiffer ==
  /\ \A i, j \in Nat : EventId(i) = EventId(j) => i = j
  /\ \A i, s, st : EventId(i) # ReconcileId(s, st)
  /\ OperatorId \notin Ids
<1>1. \A i, s, st : EventId(i)[1] = "evt" /\ ReconcileId(s, st)[1] = "stripe-reconcile"
  BY DEF EventId, ReconcileId
<1>2. \A i : EventId(i)[2] = i
  BY DEF EventId
<1>3. OperatorId[1] = "operator"
  BY DEF OperatorId
<1>4. QED
  BY <1>1, <1>2, <1>3 DEF Ids

LEMMA StatusOf ==
  ASSUME NEW st \in Supported
  PROVE  /\ organizationStatus(st) \in OrgStatus
         /\ organizationStatus(st) = "active" <=> st \in {"active", "trialing"}
         /\ organizationStatus(st) = "past_due" <=> st = "past_due"
<1>1. st \in {"active", "past_due", "canceled", "trialing"}
  BY SubscriptionAssumption DEF OrgStatus
<1>2. QED
  BY <1>1 DEF organizationStatus, OrgStatus

LEMMA SecondOf ==
  ASSUME NEW t \in Nat
  PROVE  Second(t) \in 0..t
BY DEF Second

LEMMA WiderSeq ==
  ASSUME NEW S, NEW T, S \subseteq T
  PROVE  Seq(S) \subseteq Seq(T)
BY SeqDef

LEMMA FunctionSeq ==
  ASSUME NEW S, NEW n \in Nat, NEW f \in [1..n -> S]
  PROVE  f \in Seq(S) /\ Len(f) = n
<1>1. f \in Seq(S)
  BY SeqDef
<1>2. QED
  BY <1>1, LenProperties

LEMMA Later ==
  ASSUME NEW m \in Nat, NEW n \in Nat, m <= n, NEW t \in Nat, NEW u \in Nat, t <= u
  PROVE  /\ Seq(EventOf(m, t)) \subseteq Seq(EventOf(n, u))
         /\ Seq(ItemOf(m, t)) \subseteq Seq(ItemOf(n, u))
<1>1. 0..t \subseteq 0..u /\ 1..m \subseteq 1..n
  OBVIOUS
<1>2. EventOf(m, t) \subseteq EventOf(n, u) /\ ItemOf(m, t) \subseteq ItemOf(n, u)
  BY <1>1 DEF EventOf, ItemOf
<1>3. QED
  BY <1>2, WiderSeq

-----------------------------------------------------------------------------
LEMMA InitIInv == Init => IInv
<1> SUFFICES ASSUME Init PROVE IInv
  OBVIOUS
<1>1. Outside /\ Tables /\ Reconciling
  BY SubscriptionAssumption DEF Init, Outside, Tables, Reconciling, OrgStatus
<1>2. SeenAnnounced
  BY DEF Init, SeenAnnounced
<1>3. HistoryRemembers
  <2>1. \A o \in Orgs : Len(history[o]) = 0 /\ row[o].updatedAt = 0
    BY DEF Init
  <2>2. ASSUME NEW o \in Orgs, NEW n \in 1..Len(history[o]) PROVE FALSE
    BY <2>1
  <2>3. QED
    BY <2>1, <2>2 DEF HistoryRemembers
<1>4. TablesAgree /\ NewestWins /\ AppliedOnce
  BY DEF Init, TablesAgree, NewestWins, AppliedOnce
<1>5. QED
  BY <1>1, <1>2, <1>3, <1>4 DEF IInv

\* The invariant gives the types of the run.
LEMMA IInvTypes == IInv => TypeOK
<1> SUFFICES ASSUME IInv PROVE TypeOK
  OBVIOUS
<1> USE SubscriptionAssumption DEF IInv
<1>1. events \in Seq([sub : DOMAIN stripe, state : States, created : 0..MaxTime])
  <2>1. Len(stripe) \in Nat /\ DOMAIN stripe = 1..Len(stripe) /\ now \in Nat /\ now <= MaxTime
    BY DEF Outside
  <2>2. EventOf(Len(stripe), MaxTime) = [sub : DOMAIN stripe, state : States, created : 0..MaxTime]
    BY <2>1 DEF EventOf
  <2>3. Seq(EventOf(Len(stripe), now)) \subseteq Seq(EventOf(Len(stripe), MaxTime))
    BY <2>1, Later
  <2>4. QED
    BY <2>2, <2>3 DEF Outside
<1>2. row \in [Orgs -> [sub : 0..Len(stripe), state : Supported, updatedAt : 0..MaxTime]]
  BY DEF Outside, Tables
<1>3. dated \subseteq [number : 1..MaxOverrides, org : Orgs, state : Supported, date : 1..MaxTime]
  BY DEF Outside, DatedBy
<1>4. QED
  BY <1>1, <1>2, <1>3 DEF TypeOK, Outside, Tables, Reconciling

\* The clock.
LEMMA TickIInv == ASSUME IInv, Tick PROVE IInv'
<1> USE DEF IInv, Tick, db, outside, operator, rec
<1>1. /\ now \in Nat /\ now' \in 1..MaxTime /\ now <= now' /\ Len(stripe) \in Nat
  BY SubscriptionAssumption DEF Outside
<1>2. /\ Seq(EventOf(Len(stripe), now)) \subseteq Seq(EventOf(Len(stripe), now'))
      /\ Seq(ItemOf(Len(stripe), now)) \subseteq Seq(ItemOf(Len(stripe), now'))
  BY <1>1, Later
<1>3. Outside'
  <2>1. DatedBy(now) \subseteq DatedBy(now')
    BY <1>1 DEF DatedBy
  <2>2. QED
    BY <1>1, <1>2, <2>1 DEF Outside
<1>4. Tables'
  BY <1>1 DEF Tables
<1>5. Reconciling'
  BY <1>1, <1>2 DEF Reconciling
<1>6. (SeenAnnounced /\ HistoryRemembers /\ TablesAgree /\ NewestWins /\ AppliedOnce)'
  <2>1. SeenAnnounced' /\ TablesAgree' /\ AppliedOnce'
    BY DEF SeenAnnounced, TablesAgree, AppliedOnce
  <2>2. HistoryRemembers'
    BY DEF HistoryRemembers, Remembers, Tells
  <2>3. NewestWins'
    BY DEF NewestWins, TakenBack
  <2>4. QED
    BY <2>1, <2>2, <2>3
<1>7. QED
  BY <1>3, <1>4, <1>5, <1>6

-----------------------------------------------------------------------------
(* Stripe: a new announcement has not been seen, and the old ones stay.    *)

LEMMA AnnounceIInv ==
  ASSUME IInv, UNCHANGED <<now, db, operator, rec>>,
         stripe' \in Seq([org : Orgs, state : States]),
         Len(stripe) <= Len(stripe'), Len(stripe') <= Len(events) + 1,
         \A s \in 1..Len(stripe) : stripe'[s].org = stripe[s].org,
         NEW t \in 1..Len(stripe'), NEW st \in States, Announce(t, st)
  PROVE  IInv'
<1> DEFINE e == [sub |-> t, state |-> st, created |-> Second(now)]
<1> USE DEF IInv, db, operator, rec
<1>1. /\ now \in Nat /\ Len(stripe) \in Nat /\ Len(stripe') \in Nat
      /\ Len(events) \in Nat /\ Len(events) < MaxEvents /\ events' = Append(events, e)
  BY SubscriptionAssumption DEF Outside, Announce
<1>2. /\ Seq(EventOf(Len(stripe), now)) \subseteq Seq(EventOf(Len(stripe'), now))
      /\ Seq(ItemOf(Len(stripe), now)) \subseteq Seq(ItemOf(Len(stripe'), now))
  BY <1>1, Later
<1>3. e \in EventOf(Len(stripe'), now)
  BY <1>1, SecondOf DEF EventOf
<1>4. /\ events' \in Seq(EventOf(Len(stripe'), now))
      /\ Len(events') = Len(events) + 1
      /\ \A i \in 1..Len(events) : events'[i] = events[i]
  BY <1>1, <1>2, <1>3 DEF Outside
<1>5. Outside'
  <2>1. now' = now /\ overrides' = overrides /\ dated' = dated
    OBVIOUS
  <2>2. Len(stripe') <= Len(events') /\ Len(events') <= MaxEvents
    BY <1>1, <1>4, SubscriptionAssumption
  <2>3. QED
    BY <1>4, <2>1, <2>2 DEF Outside
<1>6. Tables'
  <2>1. row \in [Orgs -> [sub : 0..Len(stripe'), state : Supported, updatedAt : 0..now]]
    BY <1>1 DEF Tables
  <2>2. QED
    BY <2>1 DEF Tables
<1>7. Reconciling'
  BY <1>2 DEF Reconciling
<1>8. SeenAnnounced' /\ TablesAgree' /\ AppliedOnce'
  BY <1>1, <1>4 DEF SeenAnnounced, TablesAgree, AppliedOnce
<1>9. HistoryRemembers'
  BY <1>1, <1>4 DEF HistoryRemembers, Remembers, Tells
<1>10. NewestWins'
  <2> SUFFICES ASSUME NEW i \in 1..Len(events'), EventId(i) \in seen
               PROVE  Kept(stripe'[events'[i].sub].org, events'[i].created)
    <3>1. /\ DOMAIN events' = 1..Len(events')
          /\ row' = row /\ history' = history /\ seen' = seen
      BY <1>4
    <3>2. QED
      BY <3>1 DEF NewestWins, Kept, TakenBack, EventId
  <2>1. i \in 1..Len(events)
    BY <1>1, <1>4, SubscriptionAssumption DEF SeenAnnounced
  <2>2. events[i].sub \in 1..Len(stripe)
    <3>1. events[i] \in EventOf(Len(stripe), now)
      BY <2>1, ElementOfSeq DEF Outside
    <3>2. QED
      BY <3>1 DEF EventOf
  <2>3. Kept(stripe[events[i].sub].org, events[i].created)
    <3>1. i \in DOMAIN events
      BY <2>1 DEF Outside
    <3>2. QED
      BY <3>1, KeptNow
  <2>4. events'[i] = events[i] /\ stripe'[events[i].sub].org = stripe[events[i].sub].org
    BY <1>4, <2>1, <2>2
  <2>5. QED
    BY <2>3, <2>4
<1>11. QED
  BY <1>5, <1>6, <1>7, <1>8, <1>9, <1>10

LEMMA SubscribeIInv ==
  ASSUME IInv, NEW o \in Orgs, NEW st \in States, Subscribe(o, st)
  PROVE  IInv'
<1>1. /\ stripe' \in Seq([org : Orgs, state : States])
      /\ Len(stripe') = Len(stripe) + 1 /\ Len(stripe) \in Nat /\ Len(events) \in Nat
      /\ \A s \in 1..Len(stripe) : stripe'[s] = stripe[s]
      /\ Len(stripe) <= Len(events)
  <2>1. stripe \in Seq([org : Orgs, state : States]) /\ [org |-> o, state |-> st] \in [org : Orgs, state : States]
    BY DEF IInv, Outside
  <2>2. stripe' = Append(stripe, [org |-> o, state |-> st])
    BY DEF Subscribe
  <2>3. QED
    BY <2>1, <2>2, AppendProperties DEF IInv, Outside
<1>2. UNCHANGED <<now, db, operator, rec>> /\ Announce(Len(stripe) + 1, st)
  BY DEF Subscribe
<1>3. QED
  BY <1>1, <1>2, AnnounceIInv

LEMMA ChangeIInv ==
  ASSUME IInv, NEW s \in DOMAIN stripe, NEW st \in States, ChangeSubscription(s, st)
  PROVE  IInv'
<1>1. /\ stripe' \in Seq([org : Orgs, state : States])
      /\ Len(stripe') = Len(stripe) /\ Len(stripe) \in Nat /\ Len(events) \in Nat
      /\ \A t \in 1..Len(stripe) : stripe'[t].org = stripe[t].org
      /\ Len(stripe) <= Len(events) /\ s \in 1..Len(stripe)
  <2> DEFINE changed == [stripe[s] EXCEPT !.state = st]
  <2>1. /\ stripe \in Seq([org : Orgs, state : States]) /\ Len(stripe) \in Nat /\ s \in 1..Len(stripe)
        /\ Len(stripe) <= Len(events) /\ Len(events) \in Nat
    BY DEF IInv, Outside
  <2>2. stripe[s] \in [org : Orgs, state : States]
    BY <2>1, ElementOfSeq
  <2>3. changed \in [org : Orgs, state : States] /\ changed.org = stripe[s].org
    BY <2>2
  <2>4. stripe' = [stripe EXCEPT ![s] = changed]
    BY DEF ChangeSubscription
  <2> HIDE DEF changed
  <2>5. /\ stripe' \in Seq([org : Orgs, state : States]) /\ Len(stripe') = Len(stripe)
        /\ \A t \in 1..Len(stripe) : stripe'[t] = IF t = s THEN changed ELSE stripe[t]
    BY <2>1, <2>3, <2>4, ExceptSeq
  <2>6. QED
    BY <2>1, <2>3, <2>5
<1>2. UNCHANGED <<now, db, operator, rec>> /\ Announce(s, st)
  BY DEF ChangeSubscription
<1>3. QED
  BY <1>1, <1>2, AnnounceIInv

-----------------------------------------------------------------------------
(* A reconciler moves through its list: the tables stay as they are.       *)

LEMMA TablesUntouched ==
  ASSUME IInv, UNCHANGED <<now, outside, db>>
  PROVE  TablesInv'
<1>1. /\ now' = now /\ stripe' = stripe /\ events' = events
      /\ row' = row /\ orgStatus' = orgStatus /\ history' = history /\ seen' = seen
  BY DEF outside, db
<1>2. Tables'
  BY <1>1 DEF IInv, Tables
<1>3. SeenAnnounced'
  BY <1>1 DEF IInv, SeenAnnounced
<1>4. HistoryRemembers'
  BY <1>1 DEF IInv, HistoryRemembers, Remembers, Tells
<1>5. TablesAgree'
  BY <1>1 DEF IInv, TablesAgree
<1>6. NewestWins'
  BY <1>1 DEF IInv, NewestWins, TakenBack
<1>7. AppliedOnce'
  BY <1>1 DEF IInv, AppliedOnce
<1>8. QED
  BY <1>2, <1>3, <1>4, <1>5, <1>6, <1>7 DEF TablesInv

LEMMA RecOnlyIInv ==
  ASSUME IInv, UNCHANGED <<now, outside, db, operator>>, Reconciling'
  PROVE  IInv'
<1>1. Outside'
  BY DEF IInv, Outside, outside, operator
<1>2. QED
  BY <1>1, TablesUntouched DEF IInv, TablesInv

LEMMA ListIInv ==
  ASSUME IInv, NEW r \in Reconcilers, ListSubscriptions(r)
  PROVE  IInv'
<1> DEFINE N == Len(stripe)
           list == [n \in 1..N |-> [org |-> stripe[N + 1 - n].org, sub |-> N + 1 - n,
                                    state |-> stripe[N + 1 - n].state, stamp |-> 0]]
<1>1. N \in Nat /\ N <= MaxEvents /\ now \in Nat
  BY SubscriptionAssumption DEF IInv, Outside
<1>2. list \in Seq(ItemOf(N, now)) /\ Len(list) = N
  <2>1. \A n \in 1..N : list[n] \in ItemOf(N, now)
    <3>1. \A s \in 1..N : stripe[s] \in [org : Orgs, state : States]
      BY ElementOfSeq DEF IInv, Outside
    <3>2. \A n \in 1..N : N + 1 - n \in 1..N
      BY <1>1
    <3>3. QED
      BY <1>1, <3>1, <3>2 DEF ItemOf
  <2>2. list \in [1..N -> ItemOf(N, now)]
    BY <2>1
  <2> HIDE DEF list
  <2>3. QED
    BY <1>1, <2>2, FunctionSeq
<1>3. items' = [items EXCEPT ![r] = list]
  BY DEF ListSubscriptions
<1> HIDE DEF list
<1>4. Reconciling'
  <2>1. /\ faults' = faults /\ now' = now /\ stripe' = stripe
        /\ phase' = [phase EXCEPT ![r] = "listed"] /\ at' = [at EXCEPT ![r] = 1]
    BY DEF ListSubscriptions, outside
  <2>2. items' \in [Reconcilers -> Seq(ItemOf(N, now))]
    BY <1>2, <1>3 DEF IInv, Reconciling
  <2>3. \A q \in Reconcilers : items'[q] = IF q = r THEN list ELSE items[q]
    BY <1>3 DEF IInv, Reconciling
  <2>4. at' \in [Reconcilers -> 1..(MaxEvents + 1)]
    BY <2>1, SubscriptionAssumption DEF IInv, Reconciling
  <2>5. phase' \in [Reconcilers -> {"idle", "listed", "applying", "done", "failed"}]
    BY <2>1 DEF IInv, Reconciling
  <2>6. ASSUME NEW q \in Reconcilers
        PROVE  /\ Len(items'[q]) <= MaxEvents
               /\ phase'[q] = "listed" => at'[q] = 1
               /\ phase'[q] = "applying" => at'[q] <= Len(items'[q])
    BY <1>1, <1>2, <2>1, <2>3 DEF IInv, Reconciling
  <2>7. QED
    BY <2>1, <2>2, <2>4, <2>5, <2>6 DEF IInv, Reconciling
<1>5. QED
  BY <1>4, RecOnlyIInv DEF ListSubscriptions

LEMMA DateIInv ==
  ASSUME IInv, NEW r \in Reconcilers, DateItems(r)
  PROVE  IInv'
<1> DEFINE N == Len(items[r])
           list == [n \in DOMAIN items[r] |-> [items[r][n] EXCEPT !.stamp = now]]
<1>1. /\ N \in Nat /\ N <= MaxEvents /\ now \in Nat /\ DOMAIN items[r] = 1..N
      /\ items[r] \in Seq(ItemOf(Len(stripe), now))
  BY SubscriptionAssumption DEF IInv, Outside, Reconciling
<1>2. list \in Seq(ItemOf(Len(stripe), now)) /\ Len(list) = N
  <2>1. \A n \in 1..N : list[n] \in ItemOf(Len(stripe), now)
    <3>1. \A n \in 1..N : items[r][n] \in ItemOf(Len(stripe), now)
      BY <1>1, ElementOfSeq
    <3>2. QED
      <4> SUFFICES ASSUME NEW n \in 1..N
                   PROVE  [items[r][n] EXCEPT !.stamp = now] \in ItemOf(Len(stripe), now)
        BY <1>1
      <4>1. items[r][n] \in ItemOf(Len(stripe), now) /\ now \in 0..now
        BY <1>1, <3>1
      <4>2. QED
        BY <4>1 DEF ItemOf
  <2>2. list \in [1..N -> ItemOf(Len(stripe), now)]
    BY <1>1, <2>1
  <2> HIDE DEF list
  <2>3. QED
    BY <1>1, <2>2, FunctionSeq
<1>3. items' = [items EXCEPT ![r] = list]
  BY DEF DateItems, IInv, Reconciling
<1> HIDE DEF list
<1>4. items[r] # <<>> => 1 <= N
  BY <1>1, EmptySeq
<1>5. Reconciling'
  BY <1>1, <1>2, <1>3, <1>4 DEF IInv, Reconciling, DateItems, outside
<1>6. QED
  BY <1>5, RecOnlyIInv DEF DateItems

LEMMA StopIInv ==
  ASSUME IInv, NEW r \in Reconcilers, RefuseItem(r) \/ Interrupt(r)
  PROVE  IInv'
<1>1. Reconciling'
  BY SubscriptionAssumption DEF IInv, Reconciling, RefuseItem, Interrupt, outside
<1>2. QED
  BY <1>1, RecOnlyIInv DEF RefuseItem, Interrupt

-----------------------------------------------------------------------------
(* Writes to the tables.                                                   *)

\* What an id of an event stands for.
Means(id, o, sub, st, stamp) ==
  \A i \in 1..MaxEvents : id = EventId(i) =>
    /\ i <= Len(events)
    /\ sub = events[i].sub /\ st = events[i].state /\ stamp = events[i].created
    /\ stripe[sub].org = o

\* A date that a row is kept for stays so when the row gets newer, and when an
\* operator writes it.
LEMMA KeptByWrite ==
  ASSUME Tables, TablesAgree, HistoryRemembers, now \in Nat,
         NEW o \in Orgs, NEW date \in Nat, NEW stamp \in Nat,
         row'[o].updatedAt = stamp,
         history'[o] \in Seq(Entry),
         Len(history'[o]) = Len(history[o]) + 1,
         history'[o][Len(history[o]) + 1].recordedAt = stamp,
         \/ row[o].updatedAt <= stamp
         \/ history'[o][Len(history[o]) + 1].id = OperatorId,
         \A n \in 1..Len(history[o]) : history'[o][n] = history[o][n],
         Kept(o, date)
  PROVE  Kept(o, date)'
<1> DEFINE h == history[o]
           g == history'[o]
<1>1. /\ h \in Seq(Entry) /\ Len(h) \in Nat /\ DOMAIN h = 1..Len(h)
      /\ Len(g) = Len(h) + 1 /\ DOMAIN g = 1..(Len(h) + 1)
      /\ row[o].updatedAt \in Nat
  BY DEF Tables
<1>2. CASE date <= stamp
  BY <1>2 DEF Kept
<1>3. ASSUME stamp < date, NEW n \in 1..Len(h), TakenBack(o, n, date), h[n].id = OperatorId
      PROVE  Kept(o, date)'
  <2>1. n \in 1..Len(g) /\ n > 1 /\ g[n].id = OperatorId /\ date <= g[n - 1].recordedAt
    <3>1. n > 1 /\ date <= h[n - 1].recordedAt
      BY <1>3 DEF TakenBack
    <3>2. n \in Nat /\ n - 1 \in 1..Len(h) /\ n \in 1..Len(g)
      BY <1>1, <3>1
    <3>3. g[n] = h[n] /\ g[n - 1] = h[n - 1]
      BY <3>2
    <3>4. QED
      BY <1>3, <3>1, <3>2, <3>3
  <2>2. ASSUME NEW m \in n..Len(g) PROVE g[m].recordedAt < date
    <3>1. CASE m = Len(h) + 1
      BY <1>3, <3>1
    <3>2. CASE m # Len(h) + 1
      <4>1. m \in n..Len(h) /\ m \in 1..Len(h)
        BY <1>1, <3>2
      <4>2. QED
        BY <1>3, <4>1 DEF TakenBack
    <3>3. QED
      BY <3>1, <3>2
  <2>3. QED
    BY <1>1, <2>1, <2>2 DEF Kept, TakenBack
<1>4. ASSUME stamp < date, date <= row[o].updatedAt PROVE Kept(o, date)'
  <2>1. Len(h) # 0 /\ g[Len(h) + 1].id = OperatorId
    BY <1>1, <1>4 DEF HistoryRemembers
  <2>2. h # <<>> /\ Len(h) \in 1..Len(h) /\ Len(h) \in DOMAIN h
    BY <1>1, <2>1
  <2>3. h[Len(h)].recordedAt = row[o].updatedAt
    BY <2>2 DEF TablesAgree
  <2>4. PICK n \in 1..Len(g) : n = Len(h) + 1
    BY <1>1
  <2>5. n > 1 /\ g[n].id = OperatorId /\ date <= g[n - 1].recordedAt
    BY <1>1, <1>4, <2>1, <2>2, <2>3, <2>4
  <2>6. \A m \in n..Len(g) : g[m].recordedAt < date
    BY <1>1, <1>4, <2>4
  <2>7. QED
    BY <1>1, <2>4, <2>5, <2>6 DEF Kept, TakenBack
<1>5. QED
  BY <1>1, <1>2, <1>3, <1>4 DEF Kept

\* A row that gets newer, or is an operator's, together with an entry whose id was
\* not seen.
LEMMA WriteKeeps ==
  ASSUME IInv, UNCHANGED <<now, outside>>,
         NEW o \in Orgs, NEW sub \in {Manual} \cup 0..Len(stripe), NEW st \in Supported,
         NEW stamp \in 0..now, NEW id \in Ids \cup {OperatorId},
         NEW new \in [sub : 0..Len(stripe), state : Supported, updatedAt : 0..now],
         new.state = st, new.updatedAt = stamp, sub \in {new.sub, Manual},
         row[o].updatedAt <= stamp \/ id = OperatorId,
         row' = [row EXCEPT ![o] = new],
         orgStatus' = [orgStatus EXCEPT ![o] = organizationStatus(st)],
         Record(o, sub, st, stamp, id),
         seen' = IF id = OperatorId THEN seen ELSE seen \cup {id},
         id = OperatorId \/ id \notin seen,
         Means(id, o, sub, st, stamp)
  PROVE  TablesInv'
<1> DEFINE e == [sub |-> sub, state |-> st, recordedAt |-> stamp, id |-> id]
<1>1. /\ now \in Nat /\ now <= MaxTime /\ Len(stripe) \in Nat /\ Len(stripe) <= MaxEvents
      /\ stamp \in Nat /\ now' = now /\ stripe' = stripe /\ events' = events /\ Len(events) \in Nat
      /\ Len(events) <= MaxEvents
  BY SubscriptionAssumption DEF IInv, Outside, outside
<1>2. e \in Entry
  <2>1. sub \in {Manual} \cup 0..MaxEvents /\ stamp \in 0..MaxTime
    BY <1>1, SubscriptionAssumption
  <2>2. QED
    BY <2>1 DEF Entry
<1>3. /\ e.sub = sub /\ e.state = st /\ e.recordedAt = stamp /\ e.id = id
      /\ history' = [history EXCEPT ![o] = Append(history[o], e)]
  BY DEF Record
<1> HIDE DEF e
<1>4. \A p \in Orgs :
        /\ history[p] \in Seq(Entry) /\ Len(history[p]) \in Nat
        /\ history'[p] \in Seq(Entry)
        /\ p # o => history'[p] = history[p] /\ row'[p] = row[p] /\ orgStatus'[p] = orgStatus[p]
  BY <1>2, <1>3 DEF IInv, Tables
<1>5. /\ row'[o] = new /\ orgStatus'[o] = organizationStatus(st)
      /\ Len(history'[o]) = Len(history[o]) + 1
      /\ history'[o][Len(history[o]) + 1] = e
      /\ \A n \in 1..Len(history[o]) : history'[o][n] = history[o][n]
  BY <1>2, <1>3, <1>4 DEF IInv, Tables
<1>6. Tables'
  <2>1. row' \in [Orgs -> [sub : 0..Len(stripe'), state : Supported, updatedAt : 0..now']]
    BY <1>1 DEF IInv, Tables
  <2>2. orgStatus' \in [Orgs -> OrgStatus]
    BY StatusOf DEF IInv, Tables
  <2>3. history' \in [Orgs -> Seq(Entry)]
    BY <1>2, <1>3, <1>4 DEF IInv, Tables
  <2>4. seen' \subseteq Ids
    BY DEF IInv, Tables
  <2>5. QED
    BY <2>1, <2>2, <2>3, <2>4 DEF Tables
<1>7. SeenAnnounced'
  BY <1>1 DEF IInv, SeenAnnounced, Means
<1>8. HistoryRemembers'
  <2>1. Remembers(e)'
    BY <1>1, <1>3 DEF Remembers, Tells, Means
  <2>2. ASSUME NEW p \in Orgs, NEW n \in 1..Len(history[p]) PROVE Remembers(history[p][n])'
    <3>1. Remembers(history[p][n])
      BY DEF IInv, HistoryRemembers
    <3>2. history'[p][n] = history[p][n]
      BY <1>4, <1>5
    <3>3. QED
      BY <1>1, <3>1, <3>2 DEF Remembers, Tells
  <2>3. ASSUME NEW p \in Orgs, NEW n \in 1..Len(history'[p]) PROVE Remembers(history[p][n])'
    <3>1. CASE n \in 1..Len(history[p])
      BY <2>2, <3>1
    <3>2. CASE n \notin 1..Len(history[p])
      <4>1. p = o /\ n = Len(history[o]) + 1
        BY <1>4, <1>5, <3>2
      <4>2. QED
        BY <1>5, <2>1, <4>1 DEF Remembers, Tells
    <3>3. QED
      BY <3>1, <3>2
  <2>4. \A p \in Orgs : Len(history'[p]) = 0 => row'[p].updatedAt = 0
    BY <1>4, <1>5 DEF IInv, HistoryRemembers
  <2>5. QED
    BY <2>3, <2>4 DEF HistoryRemembers
<1>9. TablesAgree'
  BY <1>3, <1>4, <1>5, StatusOf DEF IInv, TablesAgree
<1>10. NewestWins'
  <2> SUFFICES ASSUME NEW i \in 1..Len(events), EventId(i) \in seen'
               PROVE  Kept(stripe[events[i].sub].org, events[i].created)'
    <3>1. DOMAIN events = 1..Len(events)
      BY DEF IInv, Outside
    <3>2. events' = events /\ stripe' = stripe
      BY <1>1
    <3>3. QED
      BY <3>1, <3>2 DEF NewestWins, EventId, Kept, TakenBack
  <2>1. events[i] \in EventOf(Len(stripe), now)
    BY ElementOfSeq DEF IInv, Outside
  <2>2. events[i].sub \in 1..Len(stripe) /\ events[i].created \in Nat
    BY <2>1 DEF EventOf
  <2>3. PICK p \in Orgs : p = stripe[events[i].sub].org
    <3>1. stripe[events[i].sub] \in [org : Orgs, state : States]
      BY <2>2, ElementOfSeq DEF IInv, Outside
    <3>2. QED
      BY <3>1
  <2>4. PICK date \in Nat : date = events[i].created
    BY <2>2
  <2>5. CASE EventId(i) = id
    <3>1. i \in 1..MaxEvents
      BY <1>1, SubscriptionAssumption
    <3>2. date = stamp /\ p = o
      BY <2>3, <2>4, <2>5, <3>1 DEF Means
    <3>3. date <= row'[p].updatedAt
      BY <1>1, <1>5, <3>2
    <3>4. QED
      BY <1>1, <2>3, <2>4, <3>3 DEF Kept
  <2>6. CASE EventId(i) \in seen
    <3>1. Kept(p, date)
      <4>1. NewestWins /\ i \in DOMAIN events
        BY DEF IInv, Outside
      <4>2. QED
        BY <2>3, <2>4, <2>6, <4>1, KeptNow
    <3>2. Kept(p, date)'
      <4>1. CASE p # o
        BY <1>4, <3>1, <4>1 DEF Kept, TakenBack
      <4>2. CASE p = o
        <5>1. /\ row'[o].updatedAt = stamp /\ history'[o] \in Seq(Entry) /\ Kept(o, date)
              /\ history'[o][Len(history[o]) + 1].recordedAt = stamp
              /\ \/ row[o].updatedAt <= stamp
                 \/ history'[o][Len(history[o]) + 1].id = OperatorId
              /\ Len(history'[o]) = Len(history[o]) + 1
              /\ \A n \in 1..Len(history[o]) : history'[o][n] = history[o][n]
              /\ now \in Nat /\ stamp \in Nat
          BY <1>1, <1>3, <1>4, <1>5, <3>1, <4>2
        <5>2. Tables /\ TablesAgree /\ HistoryRemembers
          BY DEF IInv
        <5>3. Kept(o, date)'
          BY <5>1, <5>2, KeptByWrite
        <5>4. QED
          BY <4>2, <5>3
      <4>3. QED
        BY <4>1, <4>2
    <3>3. QED
      BY <1>1, <2>3, <2>4, <3>2 DEF Kept, TakenBack
  <2>7. QED
    BY <2>5, <2>6
<1>11. AppliedOnce'
  <2>1. ASSUME NEW p \in Orgs, NEW n \in DOMAIN history'[p]
        PROVE  \/ n \in DOMAIN history[p] /\ history'[p][n] = history[p][n]
               \/ p = o /\ n = Len(history[o]) + 1 /\ history'[p][n] = e
    <3>1. CASE p # o
      BY <1>4, <2>1, <3>1
    <3>2. CASE p = o
      <4>1. /\ DOMAIN history'[o] = 1..(Len(history[o]) + 1) /\ DOMAIN history[o] = 1..Len(history[o])
            /\ Len(history[o]) \in Nat
        BY <1>4, <1>5, LenProperties
      <4>2. QED
        BY <1>5, <2>1, <3>2, <4>1
    <3>3. QED
      BY <3>1, <3>2
  <2>2. ASSUME NEW p \in Orgs, NEW n \in DOMAIN history[p], history[p][n].id # OperatorId
        PROVE  history[p][n].id # id
    BY <1>4, <2>2 DEF IInv, HistoryRemembers, Remembers
  <2>3. QED
    BY <1>3, <2>1, <2>2 DEF IInv, AppliedOnce
<1>12. QED
  BY <1>6, <1>7, <1>8, <1>9, <1>10, <1>11 DEF TablesInv

\* ApplySubscription, whoever calls it.
LEMMA ApplyKeeps ==
  ASSUME IInv, UNCHANGED <<now, outside, operator>>, Reconciling',
         NEW o \in Orgs, NEW sub \in 1..Len(stripe), NEW st \in Supported,
         NEW stamp \in 0..now, NEW id \in Ids,
         ApplySubscription(o, sub, st, stamp, id),
         Means(id, o, sub, st, stamp)
  PROVE  IInv'
<1> DEFINE new == [sub |-> sub, state |-> st, updatedAt |-> stamp]
<1>1. /\ now \in Nat /\ Len(stripe) \in Nat /\ row[o].updatedAt \in Nat /\ stamp \in Nat
      /\ id # OperatorId
  BY SubscriptionAssumption, IdsDiffer DEF IInv, Outside, Tables
<1>2. Outside'
  BY DEF IInv, Outside, outside, operator
<1>3. TablesInv'
  <2>1. CASE id \in seen
    <3>1. UNCHANGED db
      BY <2>1 DEF ApplySubscription
    <3>2. QED
      BY <3>1, TablesUntouched
  <2>2. CASE id \notin seen /\ row[o].updatedAt < stamp
    <3>1. /\ new \in [sub : 0..Len(stripe), state : Supported, updatedAt : 0..now]
          /\ new.sub = sub /\ new.state = st /\ new.updatedAt = stamp
      BY <1>1
    <3>2. /\ seen' = seen \cup {id} /\ row' = [row EXCEPT ![o] = new]
          /\ orgStatus' = [orgStatus EXCEPT ![o] = organizationStatus(st)]
          /\ Record(o, sub, st, stamp, id)
      BY <2>2 DEF ApplySubscription, Write
    <3> HIDE DEF new
    <3>3. sub \in {Manual} \cup 0..Len(stripe) /\ row[o].updatedAt <= stamp
      BY <1>1, <2>2
    <3>4. QED
      BY <1>1, <2>2, <3>1, <3>2, <3>3, WriteKeeps
  <2>3. CASE id \notin seen /\ ~(row[o].updatedAt < stamp)
    <3>1. seen' = seen \cup {id} /\ UNCHANGED <<row, orgStatus, history>>
      BY <2>3 DEF ApplySubscription
    <3>2. (Tables /\ TablesAgree /\ AppliedOnce)'
      BY <3>1 DEF IInv, Tables, TablesAgree, AppliedOnce, outside
    <3>3. (SeenAnnounced /\ HistoryRemembers)'
      BY <3>1 DEF IInv, SeenAnnounced, HistoryRemembers, Remembers, Tells, outside, Means
    <3>4. NewestWins'
      <4> SUFFICES ASSUME NEW i \in 1..Len(events), EventId(i) = id
                   PROVE  events[i].created <= row[stripe[events[i].sub].org].updatedAt
        <5>1. NewestWins /\ DOMAIN events = 1..Len(events)
          BY DEF IInv, Outside
        <5>2. /\ row' = row /\ history' = history /\ events' = events /\ stripe' = stripe
              /\ \A i : EventId(i) \in seen' <=> EventId(i) \in seen \/ EventId(i) = id
          BY <3>1 DEF outside
        <5>3. QED
          BY <5>1, <5>2 DEF NewestWins, TakenBack, EventId
      <4>1. i \in 1..MaxEvents
        BY SubscriptionAssumption DEF IInv, Outside
      <4>2. events[i].created = stamp /\ stripe[events[i].sub].org = o
        BY <4>1 DEF Means
      <4>3. QED
        BY <1>1, <2>3, <4>2
    <3>5. QED
      BY <3>2, <3>3, <3>4 DEF TablesInv
  <2>4. QED
    BY <2>1, <2>2, <2>3
<1>4. QED
  BY <1>2, <1>3 DEF IInv, TablesInv

LEMMA DeliverIInv ==
  ASSUME IInv, NEW i \in DOMAIN events, Deliver(i)
  PROVE  IInv'
<1> DEFINE e == events[i]
<1>1. /\ i \in 1..Len(events) /\ Len(events) \in Nat /\ i \in 1..MaxEvents /\ i \in Nat
      /\ e \in EventOf(Len(stripe), now)
  BY ElementOfSeq, SubscriptionAssumption DEF IInv, Outside
<1>2. e.sub \in 1..Len(stripe) /\ e.created \in 0..now
  BY <1>1 DEF EventOf
<1>3. stripe[e.sub] \in [org : Orgs, state : States]
  BY <1>2, ElementOfSeq DEF IInv, Outside
<1>4. stripe[e.sub].org \in Orgs
  BY <1>3
<1>5. EventId(i) \in Ids
  BY <1>1 DEF Ids
<1>6. Means(EventId(i), stripe[e.sub].org, e.sub, e.state, e.created)
  <2> SUFFICES ASSUME NEW j \in 1..MaxEvents, EventId(i) = EventId(j)
               PROVE  i = j
    BY <1>1 DEF Means
  <2>1. QED
    BY <1>1, IdsDiffer, SubscriptionAssumption
<1>7. Reconciling'
  BY DEF IInv, Reconciling, Deliver, rec, outside
<1>8. /\ e.state \in Supported
      /\ ApplySubscription(stripe[e.sub].org, e.sub, e.state, e.created, EventId(i))
      /\ UNCHANGED <<now, outside, operator>>
  BY DEF Deliver
<1> HIDE DEF e
<1>9. QED
  BY <1>2, <1>4, <1>5, <1>6, <1>7, <1>8, ApplyKeeps

LEMMA ApplyItemIInv ==
  ASSUME IInv, NEW r \in Reconcilers, ApplyItem(r)
  PROVE  IInv'
<1> DEFINE item == items[r][at[r]]
<1>1. /\ at[r] \in 1..Len(items[r]) /\ Len(items[r]) \in Nat /\ Len(items[r]) <= MaxEvents
      /\ items[r] \in Seq(ItemOf(Len(stripe), now)) /\ Len(stripe) \in Nat /\ Len(stripe) <= MaxEvents
  BY SubscriptionAssumption DEF IInv, Outside, Reconciling, ApplyItem
<1>2. item \in ItemOf(Len(stripe), now)
  BY <1>1, ElementOfSeq
<1>3. item.org \in Orgs /\ item.sub \in 1..Len(stripe) /\ item.stamp \in 0..now
  BY <1>2 DEF ItemOf
<1>4. /\ item.state \in Supported /\ phase[r] = "applying"
      /\ ApplySubscription(item.org, item.sub, item.state, item.stamp,
                           ReconcileId(item.sub, item.state))
      /\ UNCHANGED <<now, outside, operator, faults, items>>
      /\ at' = [at EXCEPT ![r] = @ + 1]
      /\ phase' = [phase EXCEPT ![r] = IF at[r] = Len(items[r]) THEN "done" ELSE @]
  BY DEF ApplyItem
<1>5. ReconcileId(item.sub, item.state) \in Ids
  <2>1. item.sub \in 1..MaxEvents
    BY <1>1, <1>3, SubscriptionAssumption
  <2>2. QED
    BY <1>4, <2>1 DEF Ids
<1>6. Means(ReconcileId(item.sub, item.state), item.org, item.sub, item.state, item.stamp)
  BY IdsDiffer DEF Means
<1> HIDE DEF item
<1>7. Reconciling'
  <2>1. stripe' = stripe /\ now' = now
    BY <1>4 DEF outside
  <2>2. at' \in [Reconcilers -> 1..(MaxEvents + 1)]
    BY <1>1, <1>4, SubscriptionAssumption DEF IInv, Reconciling
  <2>3. phase' \in [Reconcilers -> {"idle", "listed", "applying", "done", "failed"}]
    BY <1>4 DEF IInv, Reconciling
  <2>4. ASSUME NEW q \in Reconcilers
        PROVE  /\ Len(items'[q]) <= MaxEvents
               /\ phase'[q] = "listed" => at'[q] = 1
               /\ phase'[q] = "applying" => at'[q] <= Len(items'[q])
    BY <1>1, <1>4 DEF IInv, Reconciling
  <2>5. QED
    BY <1>4, <2>1, <2>2, <2>3, <2>4 DEF IInv, Reconciling
<1>8. QED
  BY <1>3, <1>4, <1>5, <1>6, <1>7, ApplyKeeps

LEMMA DateOverrideIInv ==
  ASSUME IInv, NEW o \in Orgs, NEW st \in Supported, DateOverride(o, st)
  PROVE  IInv'
<1>1. /\ overrides \in 0..MaxOverrides /\ overrides < MaxOverrides /\ MaxOverrides \in Nat
      /\ overrides' = overrides + 1 /\ UNCHANGED <<now, outside, db, rec>> /\ now \in 1..now
  BY SubscriptionAssumption DEF DateOverride, IInv, Outside
<1>2. dated' \subseteq DatedBy(now)
  <2>1. overrides' \in 1..MaxOverrides
    BY <1>1
  <2>2. [number |-> overrides', org |-> o, state |-> st, date |-> now] \in DatedBy(now)
    BY <1>1, <2>1 DEF DatedBy
  <2>3. QED
    BY <2>2 DEF DateOverride, IInv, Outside
<1>3. Outside' /\ Reconciling'
  BY <1>1, <1>2 DEF IInv, Outside, Reconciling, outside, rec
<1>4. QED
  BY <1>1, <1>3, TablesUntouched DEF IInv, TablesInv

LEMMA FailOverrideIInv ==
  ASSUME IInv, NEW p \in dated, FailOverride(p)
  PROVE  IInv'
<1>1. Outside' /\ Reconciling'
  BY DEF FailOverride, IInv, Outside, Reconciling, outside, rec
<1>2. QED
  BY <1>1, TablesUntouched DEF FailOverride, IInv, TablesInv

LEMMA OverrideIInv ==
  ASSUME IInv, NEW p \in dated, Override(p)
  PROVE  IInv'
<1>1. PICK o \in Orgs, st \in Supported, date \in 1..now :
        o = p.org /\ st = p.state /\ date = p.date
  <2>1. p \in DatedBy(now)
    BY DEF IInv, Outside
  <2>2. QED
    BY <2>1 DEF DatedBy
<1>2. PICK new : new = [sub |-> row[o].sub, state |-> st, updatedAt |-> date]
  OBVIOUS
<1>3. /\ now \in Nat /\ row[o] \in [sub : 0..Len(stripe), state : Supported, updatedAt : 0..now]
      /\ date \in 0..now
  BY DEF IInv, Outside, Tables
<1>4. /\ new \in [sub : 0..Len(stripe), state : Supported, updatedAt : 0..now]
      /\ new.sub = row[o].sub /\ new.state = st /\ new.updatedAt = date
  BY <1>2, <1>3
<1>5. /\ row' = [row EXCEPT ![o] = new]
      /\ orgStatus' = [orgStatus EXCEPT ![o] = organizationStatus(st)]
      /\ Record(o, Manual, st, date, OperatorId)
      /\ seen' = seen /\ UNCHANGED <<now, outside, overrides, rec>> /\ dated' \subseteq dated
  BY <1>1, <1>2 DEF Override
<1>6. Means(OperatorId, o, Manual, st, date)
  <2>1. \A i \in 1..MaxEvents : EventId(i) # OperatorId
    BY IdsDiffer DEF Ids
  <2>2. QED
    BY <2>1 DEF Means
<1>7. TablesInv'
  BY <1>3, <1>4, <1>5, <1>6, WriteKeeps
<1>8. Outside' /\ Reconciling'
  BY <1>5 DEF IInv, Outside, Reconciling, outside, rec
<1>9. QED
  BY <1>7, <1>8 DEF IInv, TablesInv

-----------------------------------------------------------------------------
LEMMA NextIInv == IInv /\ [Next]_vars => IInv'
<1> SUFFICES ASSUME IInv, [Next]_vars PROVE IInv'
  OBVIOUS
<1>1. CASE Tick
  BY <1>1, TickIInv
<1>2. CASE \E o \in Orgs, st \in States : Subscribe(o, st)
  BY <1>2, SubscribeIInv
<1>3. CASE \E s \in DOMAIN stripe, st \in States : ChangeSubscription(s, st)
  BY <1>3, ChangeIInv
<1>4. CASE \E i \in DOMAIN events : Deliver(i)
  BY <1>4, DeliverIInv
<1>5. CASE \E o \in Orgs, st \in Supported : DateOverride(o, st)
  BY <1>5, DateOverrideIInv
<1>8. CASE \E p \in dated : Override(p) \/ FailOverride(p)
  BY <1>8, OverrideIInv, FailOverrideIInv
<1>6. ASSUME NEW r \in Reconcilers,
             \/ ListSubscriptions(r) \/ DateItems(r) \/ ApplyItem(r)
             \/ RefuseItem(r) \/ Interrupt(r)
      PROVE  IInv'
  BY <1>6, ListIInv, DateIInv, ApplyItemIInv, StopIInv
<1>7. CASE UNCHANGED vars
  <2>1. Reconciling'
    BY <1>7 DEF IInv, Reconciling, vars, outside, rec
  <2>2. QED
    BY <1>7, <2>1, RecOnlyIInv DEF vars, outside, db, operator
<1>9. QED
  BY <1>1, <1>2, <1>3, <1>4, <1>5, <1>6, <1>7, <1>8 DEF Next

\* The inductive invariant holds whatever Stripe, the reconcilers, the operators
\* and the clock do, in any order and number.
THEOREM Invariance == SafeSpec => []IInv
BY InitIInv, NextIInv, PTL DEF SafeSpec

\* The rows, statuses and ids keep their types and their bounds.
THEOREM TypeCorrect == SafeSpec => []TypeOK
BY Invariance, IInvTypes, PTL

\* No announcement and no listed state enters the history twice: the insert into
\* webhook_events comes first in ApplySubscription.
THEOREM NothingAppliedTwice == SafeSpec => []AppliedOnce
<1>1. IInv => AppliedOnce
  BY DEF IInv
<1>2. QED
  BY <1>1, Invariance, PTL

\* The subscription, its history and the status of the organization agree.
THEOREM TablesStayTogether == SafeSpec => []TablesAgree
<1>1. IInv => TablesAgree
  BY DEF IInv
<1>2. QED
  BY <1>1, Invariance, PTL

\* An accepted event is never undone by an older webhook or reconciler: only a write
\* of an operator takes a row back.
THEOREM NewestStays == SafeSpec => []NewestWins
<1>1. IInv => NewestWins
  BY DEF IInv
<1>2. QED
  BY <1>1, Invariance, PTL

-----------------------------------------------------------------------------
\* Where only the webhook wrote, the row is an event's; of the events that were
\* all accepted NewestWins leaves the newest only.
LEMMA OrderFromIInv == IInv => DeliveryOrderIrrelevant
<1> SUFFICES ASSUME IInv, NEW o \in Orgs, NEW i \in EventsOf(o),
                    OnlyWebhookWrote(o),
                    \A j \in EventsOf(o) : EventId(j) \in seen,
                    \A j \in EventsOf(o) \ {i} : events[j].created < events[i].created,
                    events[i].created > 0
             PROVE  row[o].sub = events[i].sub /\ row[o].state = events[i].state
  BY DEF DeliveryOrderIrrelevant
<1>1. /\ Len(events) \in Nat /\ DOMAIN events = 1..Len(events) /\ Len(events) <= MaxEvents
      /\ \A j \in EventsOf(o) : j \in 1..MaxEvents /\ j \in 1..Len(events)
  BY SubscriptionAssumption DEF IInv, Outside, EventsOf
<1>2. \A j \in EventsOf(o) : events[j].created \in Nat /\ events[j].sub # Manual
  <2>1. \A j \in 1..Len(events) : events[j] \in EventOf(Len(stripe), now)
    BY ElementOfSeq DEF IInv, Outside
  <2>2. QED
    BY <1>1, <2>1 DEF EventOf, Manual
<1>3. events[i].created <= row[o].updatedAt
  <2>1. \A n \in DOMAIN history[o] : history[o][n].id # OperatorId
    <3>1. \A j \in EventsOf(o) : EventId(j) # OperatorId
      BY <1>1, IdsDiffer DEF Ids
    <3>2. QED
      BY <3>1 DEF OnlyWebhookWrote
  <2>2. QED
    BY <1>1, <2>1 DEF IInv, NewestWins, EventsOf
<1>4. row[o].updatedAt \in Nat /\ history[o] \in Seq(Entry) /\ Len(history[o]) \in Nat
  BY DEF IInv, Tables
<1>5. Len(history[o]) # 0
  BY <1>2, <1>3, <1>4 DEF IInv, HistoryRemembers
<1> DEFINE last == history[o][Len(history[o])]
<1>6. /\ history[o] # <<>> /\ Len(history[o]) \in DOMAIN history[o] /\ Len(history[o]) \in 1..Len(history[o])
  BY <1>4, <1>5
<1>7. /\ row[o].state = last.state /\ row[o].updatedAt = last.recordedAt
      /\ last.sub \in {row[o].sub, Manual}
  BY <1>6 DEF IInv, TablesAgree
<1>8. PICK j \in EventsOf(o) : last.id = EventId(j)
  BY <1>6 DEF OnlyWebhookWrote
<1>9. Tells(last, j)
  BY <1>1, <1>6, <1>8 DEF IInv, HistoryRemembers, Remembers
<1>10. row[o].sub = events[j].sub /\ row[o].state = events[j].state /\ row[o].updatedAt = events[j].created
  BY <1>2, <1>7, <1>9 DEF Tells
<1>11. j = i
  BY <1>2, <1>3, <1>10
<1>12. QED
  BY <1>10, <1>11

\* The order in which Stripe's events are delivered does not show in the row.
THEOREM OrderDoesNotMatter == SafeSpec => []DeliveryOrderIrrelevant
BY OrderFromIInv, Invariance, PTL
=============================================================================
