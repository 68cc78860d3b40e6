--------------------------- MODULE Notifications ----------------------------
(***************************************************************************)
(* The notification worker (internal/notifications/worker.go over          *)
(* store/notifications_postgres.go) for ONE organization, which has an     *)
(* owner with an e-mail address and profiles that match every opportunity  *)
(* of the model.  A run takes the organizations one after the other and an *)
(* error of one does not touch the next.                                   *)
(*                                                                         *)
(* Runs come from the worker's loop and from the button of the operators   *)
(* (adminRunNotifications), which may be at work at the same time.  A run  *)
(* does one database statement or one delivery per step and holds no lock  *)
(* or transaction across them.                                             *)
(***************************************************************************)
EXTENDS Integers, FiniteSets

CONSTANTS
  Worker,        \* the loop of the worker process
  Operators,     \* runs started from the admin panel
  Opportunities, \* opportunities that match the organization's profiles
  FollowUps,     \* dedupe keys of follow-ups: a deal and its date
  NumTokens,     \* push tokens of the organization, by age
  Preferences,   \* notification preferences the organization may have
  CloudMode,     \* whether the worker's loop enforces the plan's quota
  DailyAlerts,   \* the quota: opportunities e-mailed per UTC day
  SuppressAfter, \* failures after which a delivery is suppressed (5)
  DayLength,     \* clock units of a UTC day
  MaxTime,       \* bound: clock
  MaxRuns,       \* bound: runs
  MaxAtOnce,     \* bound: runs at the same time
  MaxFaults      \* bound: crashes and failed statements

Runs == {Worker} \cup Operators
Tokens == 1..NumTokens

ASSUME NotificationsAssumption ==
  /\ Worker \notin Operators
  /\ IsFiniteSet(Opportunities)
  /\ Preferences \subseteq [email : BOOLEAN, push : BOOLEAN, reminder : BOOLEAN]
  /\ CloudMode \in BOOLEAN
  /\ {SuppressAfter, DayLength, MaxTime} \subseteq Nat \ {0}
  /\ {NumTokens, DailyAlerts, MaxRuns, MaxAtOnce, MaxFaults} \subseteq Nat

VARIABLES
  now,        \* clock
  prefs,      \* organizations.notification_preferences
  stored,     \* stored[o]: published_at of an opportunity in the table, 0 is none
  due,        \* follow-ups that are due
  tokens,     \* enabled channels of type expo_push
  cursor,     \* notification_scan.last_opportunity_at, 0 is none
  deliveries, \* deliveries[k]: notifications.deliveries, by key and channel
  used,       \* used[d]: usage_counters of kind daily_alert
  pc,         \* pc[r]: where run r is
  run,        \* run[r]: the local variables of run r
  digests,    \* history, digests[d]: digests e-mailed for day d
  mailed,     \* history, mailed[k]: e-mails with opportunity or follow-up k
  metered,    \* history, metered[d]: opportunities the worker e-mailed for day d
  noticed,    \* history: opportunities some run has found newer than the cursor
  cut,        \* history: days of digests the quota has cut short
  overlapped, \* history: two runs have been at work at the same time
  begun,      \* how many runs have begun
  faults      \* how many faults have happened

environment == <<now, prefs, stored, due>>
history == <<digests, mailed, metered, noticed, cut, overlapped>>
vars == <<environment, tokens, cursor, deliveries, used, pc, run, history, begun, faults>>

Day(t) == t \div DayLength
UTCDays == 0..Day(MaxTime)
Later(a, b) == IF a > b THEN a ELSE b

Keys == {<<"opportunity", o>> : o \in Opportunities}
          \cup {<<"push", o, t>> : o \in Opportunities, t \in Tokens}
          \cup {<<"followup", f>> : f \in FollowUps}
          \cup {<<"opportunity_digest", d>> : d \in UTCDays}

Idle == [now |-> 0, tokens |-> {}, digestSent |-> FALSE, todo |-> {}, batch |-> {},
         rest |-> {}, item |-> <<>>, limited |-> FALSE]

Init ==
  /\ now = 1
  /\ prefs \in Preferences
  /\ stored = [o \in Opportunities |-> 0]
  /\ due = {}
  /\ tokens = Tokens
  /\ cursor = 0
  /\ deliveries = [k \in Keys |-> [status |-> "none", attempts |-> 0]]
  /\ used = [d \in UTCDays |-> 0]
  /\ pc = [r \in Runs |-> "idle"]
  /\ run = [r \in Runs |-> Idle]
  /\ digests = [d \in UTCDays |-> 0]
  /\ mailed = [k \in Keys |-> 0]
  /\ metered = [d \in UTCDays |-> 0]
  /\ noticed = {}
  /\ cut = {}
  /\ overlapped = FALSE
  /\ begun = 0
  /\ faults = 0

-----------------------------------------------------------------------------
(* Around the worker.                                                      *)

Tick ==
  /\ now < MaxTime
  /\ now' = now + 1
  /\ UNCHANGED <<prefs, stored, due, tokens, cursor, deliveries, used, pc, run, history, begun, faults>>

\* The consumer writes an opportunity, some time after its publication.
Store(o, published) ==
  /\ stored[o] = 0
  /\ stored' = [stored EXCEPT ![o] = published]
  /\ UNCHANGED <<now, prefs, due, tokens, cursor, deliveries, used, pc, run, history, begun, faults>>

\* A follow-up comes due, or its deal is closed or given another date.
ChangeDue(f) ==
  /\ due' = IF f \in due THEN due \ {f} ELSE due \cup {f}
  /\ UNCHANGED <<now, prefs, stored, tokens, cursor, deliveries, used, pc, run, history, begun, faults>>

\* RegisterPushToken enables the channel.
RegisterPushToken(t) ==
  /\ t \notin tokens
  /\ tokens' = tokens \cup {t}
  /\ UNCHANGED <<environment, cursor, deliveries, used, pc, run, history, begun, faults>>

\* RemovePushToken disables the channel.
RemovePushToken(t) ==
  /\ t \in tokens
  /\ tokens' = tokens \ {t}
  /\ UNCHANGED <<environment, cursor, deliveries, used, pc, run, history, begun, faults>>

-----------------------------------------------------------------------------
(* notifications.deliveries                                                *)

\* NotificationAlertSent looks for the key on any channel.
Channels(kind, id) == IF kind = "push" THEN {<<kind, id, t>> : t \in Tokens} ELSE {<<kind, id>>}
AlertSent(kind, id) ==
  \E k \in Channels(kind, id) : deliveries[k].status \in {"sent", "suppressed"}

\* Mutant: ON CONFLICT DO NOTHING.
InsertAlert(k) ==
  deliveries' = [deliveries EXCEPT ![k].status = IF @ = "none" THEN "sent" ELSE @]

RecordAlert(k) == deliveries' = [deliveries EXCEPT ![k].status = "sent"]

RecordFailure(k) ==
  deliveries' = [deliveries EXCEPT ![k] =
    [status |-> IF @.attempts + 1 >= SuppressAfter THEN "suppressed" ELSE "failed",
     attempts |-> @.attempts + 1]]

\* ensureChannel, part of both for a push channel, enables it.
EnsureChannel(t) == tokens' = tokens \cup {t}

-----------------------------------------------------------------------------
(* Run and processTarget                                                   *)

Goto(r, label) == pc' = [pc EXCEPT ![r] = label]
At(r, label) == pc[r] = label
Do(r, label, locals) == Goto(r, label) /\ run' = [run EXCEPT ![r] = locals]
Return(r) == Do(r, "idle", Idle)

AtWork == {r \in Runs : pc[r] # "idle"}

\* Run reads the targets with their tokens, the clock and the opportunities.
Begin(r) ==
  /\ At(r, "idle")
  /\ begun < MaxRuns /\ Cardinality(AtWork) < MaxAtOnce
  /\ begun' = begun + 1
  /\ Do(r, "start", [Idle EXCEPT !.now = now, !.tokens = tokens,
                                !.todo = {o \in Opportunities : stored[o] > 0}])
  /\ overlapped' = (overlapped \/ AtWork # {})
  /\ UNCHANGED <<environment, tokens, cursor, deliveries, used, digests, mailed, metered, cut,
                 noticed, faults>>

\* opportunityCutoff and isNewOpportunity
Cutoff(at) == IF cursor = 0 THEN at - DayLength ELSE cursor
NewOpportunities(r) == {o \in run[r].todo : stored[o] > Cutoff(run[r].now)}

\* processTarget, some time later, reads the cursor and the mark of the day.
ProcessTarget(r) ==
  LET me == run[r]
  IN  /\ At(r, "start")
      /\ Do(r, "scan",
            [me EXCEPT !.todo = NewOpportunities(r),
                       !.digestSent = prefs.email /\ AlertSent("opportunity_digest", Day(me.now))])
      /\ noticed' = IF cursor = 0 THEN noticed ELSE noticed \cup NewOpportunities(r)
      /\ UNCHANGED <<environment, tokens, cursor, deliveries, used, digests, mailed, metered, cut,
                     overlapped, begun, faults>>

\* A statement fails or the process ends.  What the step at hand was to do has
\* been done or not: both orders are behaviours.
Abort(r) ==
  /\ pc[r] # "idle"
  /\ faults < MaxFaults
  /\ faults' = faults + 1
  /\ Return(r)
  /\ UNCHANGED <<environment, tokens, cursor, deliveries, used, history, begun>>

\* The store lists the newest first.
Newest(S) == {o \in S : \A p \in S : stored[p] <= stored[o]}

\* An opportunity is put aside for the digest and pushed at once.
Scan(r, o) ==
  LET me == run[r]
      mail == prefs.email /\ ~me.digestSent /\ ~AlertSent("opportunity", o)
      push == prefs.push /\ me.tokens # {} /\ ~AlertSent("push", o)
      next == [me EXCEPT !.todo = me.todo \ {o},
                         !.batch = IF mail THEN me.batch \cup {o} ELSE me.batch]
  IN  /\ At(r, "scan")
      /\ o \in Newest(me.todo)
      /\ IF push
         THEN Do(r, "push", [next EXCEPT !.item = <<"push", o>>, !.rest = me.tokens])
         ELSE Do(r, "scan", next)
      /\ UNCHANGED <<environment, tokens, cursor, deliveries, used, history, begun, faults>>

Oldest(T) == CHOOSE t \in T : \A u \in T : t <= u

\* The push is accepted by the provider; the next token follows.
PushToken(r) ==
  LET left == run[r].rest \ {Oldest(run[r].rest)}
  IN  /\ At(r, "push")
      /\ Do(r, IF left = {} THEN "recordPush" ELSE "push", [run[r] EXCEPT !.rest = left])
      /\ UNCHANGED <<environment, tokens, cursor, deliveries, used, history, begun, faults>>

\* A failed push ends the opportunity: it is recorded for the token that failed.
PushFails(r) ==
  /\ At(r, "push")
  /\ Goto(r, "recordPushFailure")
  /\ UNCHANGED <<environment, tokens, cursor, deliveries, used, run, history, begun, faults>>

RecordPush(r, t, label) ==
  /\ At(r, label)
  /\ EnsureChannel(t)
  /\ Do(r, "scan", [run[r] EXCEPT !.item = <<>>, !.rest = {}])
  /\ UNCHANGED <<environment, cursor, used, history, begun, faults>>

RecordPushSent(r) ==
  LET t == Oldest(run[r].tokens)
  IN  RecordPush(r, t, "recordPush") /\ RecordAlert(<<"push", run[r].item[2], t>>)

RecordPushFailure(r) ==
  LET t == Oldest(run[r].rest)
  IN  RecordPush(r, t, "recordPushFailure") /\ RecordFailure(<<"push", run[r].item[2], t>>)

-----------------------------------------------------------------------------
(* The quota and the digest                                                *)

Today(r) == Day(run[r].now)
Metered(r) == CloudMode /\ r = Worker

\* Mutant: what the day has used is not counted.
FullQuota(r) == DailyAlerts

Allowed(r) == DailyAlerts - used[Today(r)]

\* S reduced to n opportunities, the newest first.
Takes(S, T, n) ==
  /\ T \subseteq S /\ Cardinality(T) = n
  /\ \A o \in T, p \in S \ T : stored[p] <= stored[o]

\* With nothing to send, a run that the quota has limited returns an error.
CheckQuota(r) ==
  LET me == run[r]
  IN  /\ At(r, "scan")
      /\ me.todo = {}
      /\ IF ~Metered(r) \/ Cardinality(me.batch) <= Allowed(r)
         THEN Goto(r, IF me.batch = {} THEN "followups" ELSE "send") /\ UNCHANGED <<run, cut>>
         ELSE IF Allowed(r) <= 0
         THEN Return(r) /\ UNCHANGED cut
         ELSE /\ \E T \in SUBSET me.batch :
                   /\ Takes(me.batch, T, Allowed(r))
                   /\ Do(r, "send", [me EXCEPT !.batch = T, !.limited = TRUE])
              /\ cut' = cut \cup {Today(r)}
      /\ UNCHANGED <<environment, tokens, cursor, deliveries, used, begun, faults>>
      /\ UNCHANGED <<digests, mailed, metered, noticed, overlapped>>

SendDigest(r) ==
  LET batch == run[r].batch
      keys == {<<"opportunity", o>> : o \in batch}
  IN  /\ At(r, "send")
      /\ digests' = [digests EXCEPT ![Today(r)] = @ + 1]
      /\ mailed' = [k \in Keys |-> IF k \in keys THEN mailed[k] + 1 ELSE mailed[k]]
      /\ metered' = IF Metered(r)
                    THEN [metered EXCEPT ![Today(r)] = @ + Cardinality(batch)] ELSE metered
      /\ Do(r, "recordDigest", [run[r] EXCEPT !.rest = batch])
      /\ UNCHANGED <<environment, tokens, cursor, deliveries, used, noticed, cut, overlapped, begun, faults>>

DigestFails(r) ==
  /\ At(r, "send")
  /\ Do(r, "recordDigestFailure", [run[r] EXCEPT !.rest = run[r].batch])
  /\ UNCHANGED <<environment, tokens, cursor, deliveries, used, history, begun, faults>>

\* Mutant: like a failed push, a failed digest does not end the run.
DigestFailureRecordedAndRunGoesOn(r, o) ==
  /\ At(r, "recordDigestFailure")
  /\ o \in Newest(run[r].rest)
  /\ RecordFailure(<<"opportunity", o>>)
  /\ IF run[r].rest = {o}
     THEN Do(r, "followups", [run[r] EXCEPT !.rest = {}])
     ELSE Do(r, "recordDigestFailure", [run[r] EXCEPT !.rest = run[r].rest \ {o}])
  /\ UNCHANGED <<environment, tokens, cursor, used, history, begun, faults>>

\* Every opportunity of the failed digest has its failure recorded, and the run
\* returns the error: the cursor stays.
RecordDigestFailure(r, o) ==
  /\ At(r, "recordDigestFailure")
  /\ o \in Newest(run[r].rest)
  /\ RecordFailure(<<"opportunity", o>>)
  /\ IF run[r].rest = {o}
     THEN Return(r)
     ELSE Do(r, "recordDigestFailure", [run[r] EXCEPT !.rest = run[r].rest \ {o}])
  /\ UNCHANGED <<environment, tokens, cursor, used, history, begun, faults>>

\* Once all are recorded, the quota is consumed, then the day is marked; a run
\* that the quota has limited leaves the day unmarked and returns an error.
AfterDigest(r) == IF run[r].limited THEN "limited" ELSE "mark"

RecordDigest(r, o) ==
  LET left == run[r].rest \ {o}
  IN  /\ At(r, "recordDigest")
      /\ o \in Newest(run[r].rest)
      /\ RecordAlert(<<"opportunity", o>>)
      /\ IF left # {}
         THEN Do(r, "recordDigest", [run[r] EXCEPT !.rest = left])
         ELSE IF Metered(r)
         THEN Do(r, "consume", [run[r] EXCEPT !.rest = run[r].batch])
         ELSE Do(r, AfterDigest(r), [run[r] EXCEPT !.rest = {}])
      /\ UNCHANGED <<environment, tokens, cursor, used, history, begun, faults>>

\* ConsumeUsage, once for each opportunity; refused at the limit.
Consume(r, o) ==
  LET left == run[r].rest \ {o}
  IN  /\ At(r, "consume")
      /\ o \in Newest(run[r].rest)
      /\ IF used[Today(r)] < DailyAlerts
         THEN /\ used' = [used EXCEPT ![Today(r)] = @ + 1]
              /\ Do(r, IF left = {} THEN AfterDigest(r) ELSE "consume", [run[r] EXCEPT !.rest = left])
         ELSE Return(r) /\ UNCHANGED used
      /\ UNCHANGED <<environment, tokens, cursor, deliveries, history, begun, faults>>

Limited(r) ==
  /\ At(r, "limited")
  /\ Return(r)
  /\ UNCHANGED <<environment, tokens, cursor, deliveries, used, history, begun, faults>>

\* Mutant: the day is not marked.
LeaveUnmarked(r) ==
  /\ At(r, "mark")
  /\ Goto(r, "followups")
  /\ UNCHANGED <<environment, tokens, cursor, deliveries, used, run, history, begun, faults>>

MarkDay(r) ==
  /\ At(r, "mark")
  /\ RecordAlert(<<"opportunity_digest", Today(r)>>)
  /\ Goto(r, "followups")
  /\ UNCHANGED <<environment, tokens, cursor, used, run, history, begun, faults>>

-----------------------------------------------------------------------------
(* Follow-ups and the cursor                                               *)

\* Without the reminder preference the run is over and the cursor stays.
ReadDeals(r) ==
  /\ At(r, "followups")
  /\ IF prefs.reminder
     THEN Do(r, "followup", [run[r] EXCEPT !.todo = due, !.batch = {}])
     ELSE Return(r)
  /\ UNCHANGED <<environment, tokens, cursor, deliveries, used, history, begun, faults>>

\* One that was sent is left out, also where this cannot be found out.
SkipFollowUp(r, f) ==
  /\ At(r, "followup")
  /\ f \in run[r].todo
  /\ \/ AlertSent("followup", f) /\ UNCHANGED faults
     \/ ~prefs.email /\ UNCHANGED faults
     \/ faults < MaxFaults /\ faults' = faults + 1
  /\ Do(r, "followup", [run[r] EXCEPT !.todo = run[r].todo \ {f}])
  /\ UNCHANGED <<environment, tokens, cursor, deliveries, used, history, begun>>

\* Checked and sent: the provider accepts the reminder or does not.
SendFollowUp(r, f) ==
  LET next == [run[r] EXCEPT !.item = <<"followup", f>>, !.todo = run[r].todo \ {f}]
  IN  /\ At(r, "followup")
      /\ f \in run[r].todo
      /\ ~AlertSent("followup", f) /\ prefs.email
      /\ \/ /\ mailed' = [mailed EXCEPT ![<<"followup", f>>] = @ + 1]
            /\ Do(r, "recordFollowUp", next)
         \/ Do(r, "recordFollowUpFailure", next) /\ UNCHANGED mailed
      /\ UNCHANGED <<environment, tokens, cursor, deliveries, used, begun, faults>>
      /\ UNCHANGED <<digests, metered, noticed, cut, overlapped>>

RecordFollowUp(r) ==
  /\ \/ At(r, "recordFollowUp") /\ RecordAlert(run[r].item)
     \/ At(r, "recordFollowUpFailure") /\ RecordFailure(run[r].item)
  /\ Do(r, "followup", [run[r] EXCEPT !.item = <<>>])
  /\ UNCHANGED <<environment, tokens, cursor, used, history, begun, faults>>

\* Mutant: the last writer wins.
LastCursorWins(at) == cursor' = at

\* Mutant: the whole day is taken as read.
CursorToEndOfDay(at) == cursor' = (Day(at) + 1) * DayLength

\* GREATEST(last_opportunity_at, EXCLUDED.last_opportunity_at)
AdvanceCursor(at) == cursor' = Later(cursor, at)

\* The cursor follows the clock of the run unless the day had its digest before.
Finish(r) ==
  /\ At(r, "followup")
  /\ run[r].todo = {}
  /\ IF run[r].digestSent THEN UNCHANGED cursor ELSE AdvanceCursor(run[r].now)
  /\ Return(r)
  /\ UNCHANGED <<environment, tokens, deliveries, used, history, begun, faults>>

-----------------------------------------------------------------------------
Step(r) ==
  \/ Begin(r)
  \/ ProcessTarget(r)
  \/ \E o \in Opportunities : Scan(r, o)
  \/ PushToken(r)
  \/ PushFails(r)
  \/ RecordPushSent(r)
  \/ RecordPushFailure(r)
  \/ CheckQuota(r)
  \/ SendDigest(r)
  \/ DigestFails(r)
  \/ \E o \in Opportunities : RecordDigestFailure(r, o) \/ RecordDigest(r, o) \/ Consume(r, o)
  \/ Limited(r)
  \/ MarkDay(r)
  \/ ReadDeals(r)
  \/ \E f \in FollowUps : SkipFollowUp(r, f) \/ SendFollowUp(r, f)
  \/ RecordFollowUp(r)
  \/ Finish(r)

Next ==
  \/ Tick
  \/ \E o \in Opportunities, published \in 1..now : Store(o, published)
  \/ \E f \in FollowUps : ChangeDue(f)
  \/ \E t \in Tokens : RegisterPushToken(t) \/ RemovePushToken(t)
  \/ \E r \in Runs : Step(r) \/ Abort(r)

Spec == Init /\ [][Next]_vars

-----------------------------------------------------------------------------
TypeOK ==
  /\ now \in 1..MaxTime
  /\ prefs \in Preferences
  /\ stored \in [Opportunities -> 0..now]
  /\ due \subseteq FollowUps
  /\ tokens \subseteq Tokens
  /\ cursor \in 0..now
  /\ DOMAIN deliveries = Keys
  /\ \A k \in Keys : /\ deliveries[k].status \in {"none", "failed", "sent", "suppressed"}
                     /\ deliveries[k].attempts \in Nat
  /\ used \in [UTCDays -> 0..DailyAlerts]
  /\ \A r \in Runs : /\ run[r].now \in 0..now
                     /\ run[r].tokens \subseteq Tokens
                     /\ run[r].todo \subseteq Opportunities \cup FollowUps
                     /\ run[r].batch \subseteq Opportunities

\* An opportunity that a run has found newer than the cursor is not passed by it
\* before its e-mail was sent or suppressed: a failed digest, an exhausted quota,
\* a digest the day already had and a crash all leave the cursor where it is.
\* (Where runs do not overlap.  The first runs have no cursor but a window of
\* 24 hours, which moves on without regard to what they have found.)
EmailNeverSkipped ==
  ~overlapped /\ prefs.email =>
    \A o \in noticed : cursor >= stored[o] => AlertSent("opportunity", o)

\* The summary goes out at most once per UTC day, but for one repetition for each
\* crash between the delivery and its mark.  (Where runs do not overlap, and
\* unless the quota has cut the day's digest short: that one leaves the day
\* unmarked, and the run of an operator, which has no quota, sends another.)
DigestOncePerDay == ~overlapped => \A d \in UTCDays \ cut : digests[d] <= 1 + faults

\* An opportunity or a follow-up is e-mailed at most once, with the same
\* allowance for crashes, whether one digest or several carried it.
MailedOnce == ~overlapped => \A k \in Keys : mailed[k] <= 1 + faults

\* The worker e-mails no more opportunities for a day than the plan allows,
\* whatever the days, the batches and the runs of operators in between, as long
\* as no crash comes between a delivery and its count.
QuotaKept == CloudMode /\ faults = 0 => \A d \in UTCDays : metered[d] <= DailyAlerts

\* The cursor never goes back, also when a slow run ends after a later one.
CursorNeverBack == [][cursor' >= cursor]_cursor

\* "Failures are retried on later worker cycles; after five failed attempts the
\* delivery is marked suppressed [...] instead of silently advancing the
\* notification cursor": between runs, a push that failed and is not suppressed
\* is still in front of the cursor, so that a later cycle finds it.
FailedPushRetried ==
  (\A r \in Runs : pc[r] = "idle") /\ prefs.push =>
    \A o \in Opportunities, t \in tokens :
      deliveries[<<"push", o, t>>].status = "failed" => stored[o] > cursor
=============================================================================
