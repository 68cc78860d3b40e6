---------------------------- MODULE Subscription ----------------------------
(***************************************************************************)
(* The billing state of the organizations: tenancy.subscriptions,          *)
(* subscription_history, webhook_events and organizations.status, written  *)
(* by three parties that do not coordinate:                                *)
(*   - the Stripe webhook (httpapi stripeWebhook), whose deliveries are    *)
(*     lost, repeated and reordered;                                       *)
(*   - the reconcilers (runtime RunBillingReconciler and the admin         *)
(*     endpoint adminReconcileBilling), which list Stripe and offer what   *)
(*     they listed, one subscription after the other;                      *)
(*   - the platform operators (adminUpdateSubscription).                   *)
(* ApplySubscription and the transaction of ApplyPlatformSubscription lock *)
(* the row of the organization, so each is one step; an operator's update  *)
(* and a reconciler's list get their dates in a step before.               *)
(*                                                                         *)
(* A clock unit is half a second: Stripe dates its events in whole         *)
(* seconds, the reconcilers and the operators use the full clock.  A       *)
(* "state" of a subscription stands for its plan, status and period end.   *)
(***************************************************************************)
EXTENDS Integers, Sequences

CONSTANTS
  Orgs,         \* organizations
  Reconcilers,  \* processes that may run a reconciliation
  Supported,    \* states with a status and a plan ApplySubscription accepts
  Unsupported,  \* states it refuses (incomplete, unpaid, an unknown plan, ...)
  MaxTime,      \* bound: clock
  MaxEvents,    \* bound: changes on the side of Stripe
  MaxOverrides, \* bound: updates by operators
  MaxFaults     \* bound: interrupted reconciliations

\* The statuses an organization can have.
OrgStatus == {"active", "past_due", "canceled"}

ASSUME SubscriptionAssumption ==
  /\ MaxTime \in Nat \ {0} /\ MaxEvents \in Nat /\ MaxOverrides \in Nat /\ MaxFaults \in Nat
  /\ Supported \subseteq OrgStatus \cup {"trialing"}
  /\ "trialing" \in Supported
  /\ Supported \cap Unsupported = {}

VARIABLES
  now,         \* clock
  stripe,      \* external: the subscriptions Stripe has, in creation order
  events,      \* external: what Stripe has announced, event i at index i
  row,         \* row[o]: tenancy.subscriptions
  orgStatus,   \* orgStatus[o]: tenancy.organizations.status
  history,     \* history[o]: tenancy.subscription_history
  seen,        \* tenancy.webhook_events: ids already processed
  overrides,   \* how many updates operators have asked for
  dated,       \* the ones of them that have a date and are not written yet
  faults,      \* how many reconciliations have been interrupted
  phase,       \* phase[r]: where reconciler r is
  items,       \* items[r]: what r has listed
  at           \* at[r]: the item r offers next

db == <<row, orgStatus, history, seen>>
outside == <<stripe, events>>
operator == <<overrides, dated>>
rec == <<phase, items, at, faults>>
vars == <<now, stripe, events, row, orgStatus, history, seen, overrides, dated, faults, phase, items, at>>

States == Supported \cup Unsupported
Second(t) == 2 * (t \div 2)

\* Mutant: the status of the subscription is copied.
rawStatus(status) == status

organizationStatus(status) ==
  CASE status \in {"active", "trialing"} -> "active"
    [] status = "past_due" -> "past_due"
    [] OTHER -> "canceled"

\* Ids of webhook_events.  A reconciler's id has no time in it.
EventId(i) == <<"evt", i>>
ReconcileId(s, st) == <<"stripe-reconcile", s, st>>

\* Every organization has the trial row its registration wrote, earlier than
\* anything that can reach Stripe.
Init ==
  /\ now = 1
  /\ stripe = <<>>
  /\ events = <<>>
  /\ row = [o \in Orgs |-> [sub |-> 0, state |-> "trialing", updatedAt |-> 0]]
  /\ orgStatus = [o \in Orgs |-> "active"]
  /\ history = [o \in Orgs |-> <<>>]
  /\ seen = {}
  /\ overrides = 0
  /\ dated = {}
  /\ faults = 0
  /\ phase = [r \in Reconcilers |-> "idle"]
  /\ items = [r \in Reconcilers |-> <<>>]
  /\ at = [r \in Reconcilers |-> 1]

Tick ==
  /\ now < MaxTime
  /\ now' = now + 1
  /\ UNCHANGED <<outside, db, operator, rec>>

-----------------------------------------------------------------------------
(* Stripe, outside src/.  A canceled subscription stays canceled.          *)

Announce(s, st) ==
  /\ Len(events) < MaxEvents
  /\ events' = Append(events, [sub |-> s, state |-> st, created |-> Second(now)])

Subscribe(o, st) ==
  /\ st # "canceled"
  /\ stripe' = Append(stripe, [org |-> o, state |-> st])
  /\ Announce(Len(stripe) + 1, st)
  /\ UNCHANGED <<now, db, operator, rec>>

ChangeSubscription(s, st) ==
  /\ stripe[s].state \notin {st, "canceled"}
  /\ stripe' = [stripe EXCEPT ![s].state = st]
  /\ Announce(s, st)
  /\ UNCHANGED <<now, db, operator, rec>>

-----------------------------------------------------------------------------
(* store.ApplySubscription                                                 *)

Record(o, sub, st, stamp, id) ==
  history' = [history EXCEPT ![o] =
    Append(@, [sub |-> sub, state |-> st, recordedAt |-> stamp, id |-> id])]

Write(o, sub, st, stamp, id) ==
  /\ row' = [row EXCEPT ![o] = [sub |-> sub, state |-> st, updatedAt |-> stamp]]
  /\ orgStatus' = [orgStatus EXCEPT ![o] = organizationStatus(st)]
  /\ Record(o, sub, st, stamp, id)

\* Mutant: the id is recorded but not looked up.
ApplyAgain(o, sub, st, stamp, id) ==
  /\ seen' = seen \cup {id}
  /\ IF row[o].updatedAt < stamp
     THEN Write(o, sub, st, stamp, id)
     ELSE UNCHANGED <<row, orgStatus, history>>

\* Mutant: no WHERE on the update of the row.
ApplyAnyOrder(o, sub, st, stamp, id) ==
  IF id \in seen
  THEN UNCHANGED db
  ELSE seen' = seen \cup {id} /\ Write(o, sub, st, stamp, id)

\* The id is recorded first: an event that was seen, or is not newer than the
\* row, changes nothing else.
ApplySubscription(o, sub, st, stamp, id) ==
  IF id \in seen
  THEN UNCHANGED db
  ELSE /\ seen' = seen \cup {id}
       /\ IF row[o].updatedAt < stamp
          THEN Write(o, sub, st, stamp, id)
          ELSE UNCHANGED <<row, orgStatus, history>>

-----------------------------------------------------------------------------
(* stripeWebhook: any announced event, any number of times, in any order,  *)
(* or never.  A refused state answers 500 and changes nothing.             *)

\* Mutant: the event is dated when it arrives.
DeliverDatedNow(i) ==
  LET e == events[i]
  IN  /\ e.state \in Supported
      /\ ApplySubscription(stripe[e.sub].org, e.sub, e.state, now, EventId(i))
      /\ UNCHANGED <<now, outside, operator, rec>>

Deliver(i) ==
  LET e == events[i]
  IN  /\ e.state \in Supported
      /\ ApplySubscription(stripe[e.sub].org, e.sub, e.state, e.created, EventId(i))
      /\ UNCHANGED <<now, outside, operator, rec>>

-----------------------------------------------------------------------------
(* A reconciliation: ListSubscriptions, then one ApplySubscription per     *)
(* item, newest subscription first.                                        *)

\* Stripe answers with the states of this moment ...
ListSubscriptions(r) ==
  /\ phase[r] \in {"idle", "done", "failed"}
  /\ phase' = [phase EXCEPT ![r] = "listed"]
  /\ items' = [items EXCEPT ![r] =
       [n \in 1..Len(stripe) |->
          LET s == Len(stripe) + 1 - n
          IN  [org |-> stripe[s].org, sub |-> s, state |-> stripe[s].state, stamp |-> 0]]]
  /\ at' = [at EXCEPT ![r] = 1]
  /\ UNCHANGED <<now, outside, db, operator, faults>>

\* ... and the items are dated when the answer has arrived.
DateItems(r) ==
  /\ phase[r] = "listed"
  /\ phase' = [phase EXCEPT ![r] = IF items[r] = <<>> THEN "done" ELSE "applying"]
  /\ items' = [items EXCEPT ![r] = [n \in DOMAIN @ |-> [@[n] EXCEPT !.stamp = now]]]
  /\ UNCHANGED <<now, outside, db, operator, faults, at>>

ApplyItem(r) ==
  LET item == items[r][at[r]]
  IN  /\ phase[r] = "applying"
      /\ item.state \in Supported
      /\ ApplySubscription(item.org, item.sub, item.state, item.stamp,
                           ReconcileId(item.sub, item.state))
      /\ at' = [at EXCEPT ![r] = @ + 1]
      /\ phase' = [phase EXCEPT ![r] = IF at[r] = Len(items[r]) THEN "done" ELSE @]
      /\ UNCHANGED <<now, outside, operator, faults, items>>

\* An item that is refused, or any other error, ends the cycle: the items
\* after it are not offered.
RefuseItem(r) ==
  /\ phase[r] = "applying"
  /\ items[r][at[r]].state \in Unsupported
  /\ phase' = [phase EXCEPT ![r] = "failed"]
  /\ UNCHANGED <<now, outside, db, operator, faults, items, at>>

\* The database or the process fails in the middle of a cycle.
Interrupt(r) ==
  /\ phase[r] \in {"listed", "applying"}
  /\ faults < MaxFaults
  /\ faults' = faults + 1
  /\ phase' = [phase EXCEPT ![r] = "failed"]
  /\ UNCHANGED <<now, outside, db, operator, items, at>>

-----------------------------------------------------------------------------
(* ApplyPlatformSubscription: the date is taken first, and the transaction *)
(* that carries it begins later and is unconditional.  The row keeps its   *)
(* subscription, the history says "manual".                                *)

Manual == -1
OperatorId == <<"operator">>

DateOverride(o, st) ==
  /\ overrides < MaxOverrides
  /\ overrides' = overrides + 1
  /\ dated' = dated \cup {[number |-> overrides', org |-> o, state |-> st, date |-> now]}
  /\ UNCHANGED <<now, outside, db, rec>>

\* Mutant: organizations.status is left alone.
OverrideRowOnly(p) ==
  /\ dated' = dated \ {p}
  /\ row' = [row EXCEPT ![p.org] = [sub |-> @.sub, state |-> p.state, updatedAt |-> p.date]]
  /\ Record(p.org, Manual, p.state, p.date, OperatorId)
  /\ UNCHANGED <<now, outside, seen, orgStatus, overrides, rec>>

Override(p) ==
  /\ dated' = dated \ {p}
  /\ row' = [row EXCEPT ![p.org] = [sub |-> @.sub, state |-> p.state, updatedAt |-> p.date]]
  /\ orgStatus' = [orgStatus EXCEPT ![p.org] = organizationStatus(p.state)]
  /\ Record(p.org, Manual, p.state, p.date, OperatorId)
  /\ UNCHANGED <<now, outside, seen, overrides, rec>>

\* The transaction does not begin or is rolled back.
FailOverride(p) ==
  /\ dated' = dated \ {p}
  /\ UNCHANGED <<now, outside, db, overrides, rec>>

-----------------------------------------------------------------------------
Reconcile(r) ==
  \/ ListSubscriptions(r)
  \/ DateItems(r)
  \/ ApplyItem(r)
  \/ RefuseItem(r)

Next ==
  \/ Tick
  \/ \E o \in Orgs, st \in States : Subscribe(o, st)
  \/ \E s \in DOMAIN stripe, st \in States : ChangeSubscription(s, st)
  \/ \E i \in DOMAIN events : Deliver(i)
  \/ \E o \in Orgs, st \in Supported : DateOverride(o, st)
  \/ \E p \in dated : Override(p) \/ FailOverride(p)
  \/ \E r \in Reconcilers :
       \/ ListSubscriptions(r)
       \/ DateItems(r)
       \/ ApplyItem(r)
       \/ RefuseItem(r)
       \/ Interrupt(r)

\* The reconciler's ticker starts a cycle again and again, and a cycle waits
\* for nothing but its calls; interruptions are finitely many.
Fairness == \A r \in Reconcilers : WF_vars(Reconcile(r))

SafeSpec == Init /\ [][Next]_vars
Spec == SafeSpec /\ Fairness

-----------------------------------------------------------------------------
Ids == {EventId(i) : i \in 1..MaxEvents}
         \cup {ReconcileId(s, st) : s \in 1..MaxEvents, st \in Supported}

TypeOK ==
  /\ now \in 1..MaxTime
  /\ stripe \in Seq([org : Orgs, state : States])
  /\ events \in Seq([sub : DOMAIN stripe, state : States, created : 0..MaxTime])
  /\ row \in [Orgs -> [sub : 0..Len(stripe), state : Supported, updatedAt : 0..MaxTime]]
  /\ orgStatus \in [Orgs -> OrgStatus]
  /\ seen \subseteq Ids
  /\ overrides \in 0..MaxOverrides
  /\ dated \subseteq [number : 1..MaxOverrides, org : Orgs, state : Supported, date : 1..MaxTime]
  /\ faults \in 0..MaxFaults
  /\ phase \in [Reconcilers -> {"idle", "listed", "applying", "done", "failed"}]
  /\ at \in [Reconcilers -> 1..(MaxEvents + 1)]

\* One announcement, or one listed state, enters the history at most once,
\* however often Stripe redelivers it and whichever of the webhook and the
\* reconcilers offers it: the insert into webhook_events and the update are
\* one transaction.
AppliedOnce ==
  \A o, p \in Orgs : \A m \in DOMAIN history[o], n \in DOMAIN history[p] :
    history[o][m].id = history[p][n].id /\ history[o][m].id # OperatorId => o = p /\ m = n

\* The three tables tell the same story: the entry of the history that was
\* written last is the row, and the organization has access exactly while the row says so.
TablesAgree ==
  \A o \in Orgs :
    /\ history[o] # <<>> =>
         LET last == history[o][Len(history[o])]
         IN  /\ row[o].state = last.state /\ row[o].updatedAt = last.recordedAt
             /\ last.sub \in {row[o].sub, Manual}
    /\ orgStatus[o] = "active" <=> row[o].state \in {"active", "trialing"}
    /\ orgStatus[o] = "past_due" <=> row[o].state = "past_due"

\* The n-th write of an organization took its row back behind a date, and no
\* later write has reached that date again.
TakenBack(o, n, date) ==
  /\ n > 1
  /\ date <= history[o][n - 1].recordedAt
  /\ \A m \in n..Len(history[o]) : history[o][m].recordedAt < date

\* No event is put aside as processed and then undone by an older webhook or
\* reconciler: the row is at least as new as every announcement the webhook has
\* accepted, also after reconcilers and operators wrote it, unless the write that
\* took it back was an operator's.  (An override is dated before its transaction
\* begins and is written unconditionally, so one that is delayed past a newer
\* event does take the row back.)
NewestWins ==
  \A i \in DOMAIN events :
    LET o == stripe[events[i].sub].org
    IN  EventId(i) \in seen =>
          \/ events[i].created <= row[o].updatedAt
          \/ \E n \in DOMAIN history[o] :
               TakenBack(o, n, events[i].created) /\ history[o][n].id = OperatorId

\* Where only the webhook has written an organization and all its events were
\* accepted, the row shows the newest one, whatever the order of delivery, if
\* no other event of the organization carries the same second.
EventsOf(o) == {i \in DOMAIN events : stripe[events[i].sub].org = o}
OnlyWebhookWrote(o) ==
  \A n \in DOMAIN history[o] : \E i \in EventsOf(o) : history[o][n].id = EventId(i)
DeliveryOrderIrrelevant ==
  \A o \in Orgs : \A i \in EventsOf(o) :
    /\ OnlyWebhookWrote(o)
    /\ \A j \in EventsOf(o) : EventId(j) \in seen
    /\ \A j \in EventsOf(o) \ {i} : events[j].created < events[i].created
    /\ events[i].created > 0
    => row[o].sub = events[i].sub /\ row[o].state = events[i].state

\* "RunBillingReconciler periodically repairs missed Stripe webhook deliveries":
\* a completed cycle leaves an organization showing the state it listed, where
\* that is still the state Stripe has, no operator interfered and the row was
\* older than the listing.  It must hold where the listed state is one that an
\* earlier cycle has applied before, too.  (Of organizations with one
\* subscription.)
Alone(o) == \A s, t \in DOMAIN stripe : stripe[s].org = o /\ stripe[t].org = o => s = t
AppliedBefore(item) ==
  \E n \in DOMAIN history[item.org] :
    /\ history[item.org][n].id = ReconcileId(item.sub, item.state)
    /\ history[item.org][n].recordedAt < item.stamp
CycleRepairs ==
  \A r \in Reconcilers : phase[r] = "done" /\ overrides = 0 =>
    \A n \in DOMAIN items[r] :
      LET item == items[r][n]
      IN  /\ Alone(item.org)
          /\ stripe[item.sub].state = item.state
          /\ row[item.org].updatedAt < item.stamp
          /\ AppliedBefore(item)
          => row[item.org].state = item.state

\* The same promise for each organization: a subscription with a supported
\* state that stays as it is gets offered to the store by some cycle.
Offered(s) ==
  \E r \in Reconcilers : \E n \in DOMAIN items[r] :
    items[r][n].sub = s /\ items[r][n].state = stripe[s].state /\ n < at[r]
EverySubscriptionOffered ==
  \A s \in 1..MaxEvents :
    []<>(s \in DOMAIN stripe /\ stripe[s].state \in Supported => Offered(s))
=============================================================================
