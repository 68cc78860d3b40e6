# LicitaLens in TLA+

LicitaLens finds public tenders for Brazilian suppliers. Its Go backend
(`src/licitalens-backend`) reads the publications of PNCP, stores them, matches
them with the profiles of its customers, mails and pushes the matches, and bills
the organizations through Stripe. This directory holds TLA+ models of the parts
of it whose behaviour depends on order, failure and concurrency, the TLC
configurations that check them, and proofs that TLAPS checks.

Paths below are relative to `src/licitalens-backend` unless they say otherwise.

- [1. Inventory](#1-inventory)
- [2. Modules](#2-modules)
- [3. Runs](#3-runs)
- [4. Proofs](#4-proofs)
- [5. What the checks found](#5-what-the-checks-found)
- [6. What is not modelled](#6-what-is-not-modelled)
- [7. Plan](#7-plan)

## 1. Inventory

| component | code | state it keeps | operations |
| --- | --- | --- | --- |
| ingestion worker | `cmd/ingestion`, `internal/ingestion/runner.go` | checkpoints `<day>:<modality>` and `recovery` (`db/postgres`), raw pages in object storage | a sync cycle every `SYNC_INTERVAL`; per day and modality `SyncRecent`: archive, publish, checkpoint |
| procurement consumer | `cmd/procurement`, `internal/ingestion/consumer.go` | the group's offset in Kafka, `procurement.opportunities`, the dead-letter topic | fetch, upsert or dead-letter, commit |
| billing | `internal/runtime/billing_reconciler.go`, `internal/billing`, `internal/httpapi` (webhook, admin), `internal/store/postgres.go`, `platform_postgres.go` | `tenancy.subscriptions`, `subscription_history`, `webhook_events`, `organizations.status` | Stripe webhook, reconciliation (ticker and button), override by an operator |
| notification worker | `internal/notifications`, `internal/runtime/notifications_worker.go`, `internal/store/notifications_postgres.go` | `notifications.deliveries`, `channels`, the opportunity cursor, `usage_counters` | a run over all organizations (ticker and button): push, digest, follow-ups |
| accounts and sessions | `internal/httpapi/account_handlers.go`, `internal/store/account_postgres.go`, `internal/auth` | `tenancy.accounts`, `account_tokens`, `memberships` | register, login, logout, verify, reset, delete |
| Keycloak authenticator | `internal/auth/keycloak.go` | the key set and its expiry (memory) | look a key up, fetch the set |
| CRM | same handlers, `internal/domain/crm.go` | `crm.deals`, `deal_followups` | create, update, follow up |
| gateway | `internal/httpapi/server.go` | profiles, favourites, usage counters, login limiter (memory) | profiles, lists and ranking, AI explanations, limits |
| checkout | `internal/httpapi/commercial.go`, `internal/billing/stripe.go` | `organizations.stripe_customer_id` | open a checkout, take its event |
| platform operators | `internal/httpapi/admin_platform.go`, `admin_panel.go`, `cmd/platform-admin` | `tenancy.platform_operators` | register, login, logout, lists, overrides, runs |
| service runtime | `internal/runtime/server.go` | the mode and the store of a process | start |
| in-memory store | `internal/store/*memory.go` | maps under one lock | those of the PostgreSQL store, for demos |
| PNCP client, backfill | `internal/providers/pncp/client.go`, `cmd/licitalens`, `Runner.SyncDay` | none that lasts | one day page by page, with retries and a fallback |
| SMTP, Expo, AI, object storage | `internal/notifications/smtp.go`, `expo_push.go`, `internal/providers/ai` | none | one call each |
| mobile client | `src/licitalens-mobile` | a stored session | screens over the gateway |

How they interact:

```
 PNCP --pages--> ingestion worker --events--> Kafka --events--> procurement consumer
                   |  checkpoints                                  |  upsert
                   v                                               v
                 PostgreSQL  <------------------------------  opportunities
                   ^   ^  ^                                        |
     Stripe --webhook  |  +---- deliveries, cursor, quota ---- notification worker --> SMTP, Expo
        ^              |                                           ^
        +--listing-- reconcilers       gateway / admin panel ------+ (button)
```

No component calls another: they meet in the topic and in the tables. Every
service may be restarted at any time. Helm runs two replicas of gateway, tenancy
and procurement and one of ingestion, notifications and billing
(`deploy/helm/licitalens/values.yaml:6-12`), but the admin panel starts a
reconciliation or a notification run inside a gateway replica, beside the
worker, so these two are concurrent as well.

What is hard, and what makes each component correct:

- **procurement consumer**: at-least-once delivery, crashes between the write
  and the commit, rebalances that leave an old owner at work. Correct when no
  message behind the committed offset is unwritten, when messages are settled
  without a gap, and when a redelivery leaves no trace.
- **billing**: three writers, deliveries lost, repeated and reordered, three
  clocks (whole seconds of Stripe, the reconciler's after its listing, the
  operator's). Correct when the three tables agree, nothing is applied twice,
  nothing accepted is undone by something older, and a missed event is repaired.
- **ingestion**: a list that grows while it is read, a window that moves, a crash
  between any two of archive, publish and checkpoint, days that fail. Correct
  when a checkpoint or the recovery cursor never stands for something that was
  not delivered.
- **notifications**: an external delivery between two database statements, a
  quota read before and counted after it, two cursors of progress (the mark of
  the day and the opportunity cursor). Correct when nothing found is passed
  unsent, nothing is sent twice but for a crash, and the quota is kept.
- **gateway, CRM**: handlers that read, decide and write in separate statements
  while others do the same, under a plan that changes. Correct when what a limit
  or a card gives up to an overlap is bounded and nothing else is lost.
- **keys, sessions, limiter, lists**: a copy or a cursor that is older than what it
  is compared with. Correct when a withdrawn key or an ended session dies in
  bounded time, the limiter refuses only who used up the quota, and a walk
  through a list misses nothing that stayed in place.
- **checkout, PNCP client, SMTP**: another party that answers late, twice, partly
  or differently. Correct when no payment makes a needless customer, a backfill that ends well is
  whole, and the password is not sent in the clear.

`PROJECT.json` lists every hazard of this kind at its line.

## 2. Modules

| module | what it is |
| --- | --- |
| `Consumer` | the procurement consumer on one partition, any number of replicas |
| `LogMirror` | the abstract promise: messages are settled one by one in log order |
| `MCConsumer` | constants for TLC, a history variable and the refinement `MirrorsLog` |
| `Consumer_proofs` | theorems about `Consumer` |
| `Mirror_proofs` | the theorem that `Consumer` implements `LogMirror` |
| `Subscription`, `MCSubscription` | billing state of the organizations |
| `Subscription_proofs` | theorems about `Subscription` |
| `Ingestion`, `MCIngestion` | the sync cycle over days, modalities and pages |
| `Ingestion_proofs` | theorems about `Ingestion` |
| `Notifications`, `MCNotifications` | the notification worker for one organization |
| `Notifications_proofs` | theorems about `Notifications` |
| `Accounts`, `MCAccounts` | registration, sessions and e-mail tokens of one address |
| `Accounts_proofs` | theorems about `Accounts` |
| `Deployment` | the mode and the store of a process, shared by `Deals`, `Plans` and `Paging` |
| `Deals` | the cards of one organization, over PostgreSQL or memory |
| `Deals_proofs` | theorems about `Deals` |
| `Plans` | admission, profiles and the monthly quota of explanations |
| `Paging` | a client's walk through the list of opportunities |
| `Limiter` | the limiter of the public account routes, for one address |
| `KeyCache` | the signing keys of Keycloak in one gateway |
| `Operators` | the sessions of one platform operator |
| `Checkout` | how an organization comes by its Stripe customer |
| `Pncp` | a backfill of one day through the PNCP client and its fallback |
| `Smtp` | one e-mail over one connection |
| `MCServices` | constants for TLC and the sum of `Deals` and the eight modules after it |
| `Services_proofs` | theorems about those eight modules and about `MCServices` |

Each module models what runs between two points where another party can act or
the process can end: a call to the broker, a database statement or transaction,
a delivery. Definitions named "Mutant" in a comment are wrong versions of the one
below them; no specification uses them. They document what each property guards
against: with the mutant in place the property's run fails.

### Consumer

One partition is enough: the publisher hashes the opportunity's source id
(`adapters.go:43`), so a row is written from one partition only. `pc[r]` is the
place of replica `r` in `Consumer.Run`; `held[r]` the message in its hands;
`position[r]` what its reader has delivered in this generation. `rows[k]` holds
the offset of the event the row shows, which stands for its content.

- `Fetch`, `PutOpportunity`, `DeadLetter`, `CommitMessages` are the calls of the
  loop; `PutFails`, `DeadLetterFails`, `CommitFails` the same calls with an error,
  which may hide a success; any error ends the process (`Exit`, the
  `log.Fatal` of `cmd/procurement/main.go`).
- `PutRefused` is a row that violates a constraint of the table every time.
- `Assign`, `Rebalance`, `Restart`, `Crash` are the coordinator and the
  supervisor, outside `src/`. A replica that lost the partition keeps working on
  the message it holds, and its commit may still be accepted: this is the weakest
  assumption on Kafka, and the committed offset may go back.

`LogMirror` keeps `log`, `rows`, `deadLetters` and `persisted` and settles the
first unsettled message at each step. `Consumer` implements it (`MirrorsLog`): a
redelivered message rewrites what the row shows already, and that step is a
stutter of the mirror. A stale owner can do more: it can write an older event over
a newer row, since the upsert (`postgres.go:198`) compares no versions. The mirror
allows this (`Repeat`) once `overlapped` holds, a history variable of `MCConsumer`
that becomes true when a replica holds a message of a partition it has lost. So
the refinement says two things at once: what the rows show after any overlap, and
that nothing but an overlap makes a row go back.

### Subscription

A clock unit is half a second, so `Second` shows what Stripe's whole seconds do
against the full clock of the others. A state stands for plan, status and period
end together. `ApplySubscription` is one step, because its transaction first
inserts the event id (a second transaction with the same id waits) and locks the
row of the organization.

- `Deliver(i)`: any announced event, at any time, any number of times, or never.
- `ListSubscriptions` and `DateItems` are two steps: Stripe's answer is of one
  moment, `UpdatedAt: time.Now()` of a later one. `ApplyItem` and `RefuseItem` go
  through the list; `Interrupt` stops it anywhere. The listing fits one page.
- `ApplyPlatformSubscription` takes its date (`platform_postgres.go:78`) before its
  transaction begins (`:86`), so it is two steps: `DateOverride` keeps state and
  date in `dated`, and `Override` writes them at any later time, without a
  condition, with "manual" in the history and the subscription's id kept in the
  row; or the transaction fails (`FailOverride`).

### Ingestion

`Probe`, `Fetch`, `ArchivePage`, `PublishPage`, `SavePage` are the calls of
`SyncRecent`; `BeginCycle` computes the range of days (lookback, recovery cursor,
limit), `NextModality`, `SaveDay` are the loop of `sync`. Every call can fail
(`SyncFails`, `SaveDayFails`, `BeginCycleBlind`), with or without its effect, and
the process can end anywhere (`Crash`). PNCP (`Grow`) appends records to the days
it still changes. `base`, `synced`, `skipped` and `blind` are history variables
for the properties. A call that fails is one whose retries are used up.

### Notifications

One organization, since a run goes through the targets one after the other and
no row is shared between them. A run's local variables are the record `run[r]`.
`Begin` is `Run` up to the list of targets; `ProcessTarget` what is read at the
start of `processTarget`; `Scan`, `PushToken`, `RecordPush*` the loop over the
opportunities; `CheckQuota`, `SendDigest`, `RecordDigest`, `Consume`, `MarkDay`
the digest; `SkipFollowUp`, `SendFollowUp`, `RecordFollowUp` the reminders;
`Finish` the cursor. Deliveries succeed or fail as they like. `Abort` ends a run
at any step (a failed statement or the end of the process): whether the step's
statement had its effect is covered by both orders of the step and the abort.
Runs of an operator (`adminRunNotifications`) build their worker without
`CloudMode` and so without quota (`Metered`).

### Accounts

One e-mail address, since every statement of these handlers finds its row by the
address or by the subject of one account, and one registration after another of
that address. A clock unit is half a second, as in `Subscription`: a JWT carries
whole seconds (`Second`), `sessions_revoked_at` the full clock. `cloud`, whether
a confirmed address is required, is chosen in `Init`, and so is whether the
address has a row older than the migrations, with a bcrypt hash. `req[r]` is what
request `r` has read so far, and `pc` its place between two statements:

| handler | steps |
| --- | --- |
| `authSignup` | `Signup`, `SignupToken`, `CreateAccountToken` (or `TokenFails`), `Issue` |
| `authLogin` | `Login`, `Rehash`, `Admit`, `Issue` |
| `authVerificationRequest`, `authPasswordRecovery` | `RequestToken`, `CreateAccountToken` |
| `authVerifyEmail` | `VerifyEmail`, `MarkEmailVerified` |
| `authPasswordReset` | `PasswordReset`, `ResetPassword` |
| `authLogout` | `Enter`, `DateLogout`, `RevokeSessions` |
| `accountDelete` | `Enter`, `DeleteAccount` or `DeleteFails` |

The statement of `CreateAccountToken` reads the tokens it will consume and writes
later, so it is two steps (`BeginToken` keeps what it sees); every other statement
locks the row it writes and is one. `Abandon` is a handler that ends in the
middle. The clock of the gateway and that of the database are taken as one.
`ended` (sessions that some logout, reset or deletion has ended) and `late` (a
logout has written an older date over a newer one) are history variables.

### Deployment, Deals, Plans, Paging

`Deployed` is what `dataStore` and `validateDeploymentConfig` allow: memory only
in a demo. `Deals` and `Paging` follow the PostgreSQL store and, when `memory`
holds, the in-memory one, which differs: no unique index, a PATCH merged into the
card of the moment, a follow-up in one step that clears the reminder when it has
no date, and equals in no order.

- `Deals`: `DealByOpportunity` and `CreateDeal` are the two store calls of
  `createDeal`, `Deal` and `UpdateDeal` those of `updateDeal`, `AddNote` and
  `Remind` the two statements of `AddDealFollowUp`. `asked` is each card as the
  requests asked for it, `raced` the cards on which a request may have lost
  something: written from a copy that was stale, or a reminder that failed.
- `Plans`: `Admit` is the end of `middleware`: the request carries the
  subscription it was admitted with. `Renew` stands for all that `Subscription`
  describes. `CountProfiles` and `LoadProfile` are the reads, `PutProfile` the
  write. `ConsumeUsage` is one statement. `topPlan` is the largest limit any
  request was admitted with, `grants` the limits of the month's explanations.
- `Paging`: one step is one query and what `listOpportunities` makes of its rows;
  between two of them the consumer may store what it likes. `filtered` is a walk
  with a profile, whose answers are filled from several queries.

### Limiter, KeyCache, Operators

Each holds something in a process or a row that is compared with a clock.
`Limiter` is one entry of the table of attempts; `passed` is a history, a running
total of the attempts let through. `KeyCache` splits a request at
its locks: `LookUp`, `FetchKeys` (Keycloak answers), `StoreKeys`, `LookAgain`, so
that several fetches are under way and end in any order; a fetch takes at most the
client's timeout (`KeyTick`). `Operators` is to operators what `Accounts` is to
customers: `IssuedAt` keeps the second of a login only, and `AdminAuthLogout` and
`RevokePlatformSessions` are two steps, as `time.Now()` is evaluated before the
statement runs.

### Checkout, Pncp, Smtp

Each talks to one outside party. In `Checkout` Stripe's sessions are paid and
their events delivered in any order, any number of times or never. The read of the
customer may fail, and as its error is dropped (`commercial.go:64`) the checkout is
then opened without one (`FailedRead`). `informed` holds the sessions whose request
did read the customer after some event had been delivered. In `Pncp` both
endpoints list subsets of the day in orders of their own, and every page is asked
for anew from the first endpoint. In `Smtp` each step of `SendSMTPText` may fail
with or without its effect on the server.

### MCServices

These nine parts share no variable but the deployment, which never changes. A
behaviour of `MCServices` runs the part it begins with (`part`), and the variables
of the others keep one initial value. This is sound because a step of the whole
would be a step of one part that leaves the others alone, so that a state of the
whole is a tuple of states found here, and every property speaks of one part.

## 3. Runs

| run | specification and bounds | checks |
| --- | --- | --- |
| `consumer_group` | 2 replicas, 4 messages of 4 kinds, 2 faults, fairness | `TypeOK`, `NoEventLost`, `SettledWithoutGap`, `EventuallySettled`, `MirrorsLog` (refinement) |
| `billing` | 1 organization, 2 Stripe events, 3 supported states, 1 override, 1 interruption, 4 half seconds | `TypeOK`, `AppliedOnce`, `TablesAgree`, `NewestWins`, `DeliveryOrderIrrelevant` |
| `billing_repair` | 3 Stripe events, 8 half seconds, no override | `CycleRepairs` is violated |
| `billing_blocked` | 2 organizations, fairness | `EverySubscriptionOffered` is violated |
| `ingestion_pages` | 2 days, 5 records in pages of 2, window of 2 pages, 1 fault, fairness | `ArchivedFirst`, `SkippedPagesDelivered`, `RecentRecordsArrive` |
| `ingestion_days` | 4 days, 2 modalities, recovery limited to 2 days, 2 faults | `TypeOK`, `NoGapBehindCursor` |
| `ingestion_recovery` | 3 days, no fault | `RecoversPendingDays` is violated |
| `notifications_quota` | 3 runs one at a time, 2 opportunities, 1 follow-up, 2 UTC days, quota 1, 1 fault | `EmailNeverSkipped`, `DigestOncePerDay`, `MailedOnce`, `QuotaKept` |
| `notifications_overlap` | 2 runs at a time, 1 opportunity, 1 follow-up, 1 fault | `TypeOK`, `CursorNeverBack` |
| `notifications_push` | 1 opportunity, 1 token, no fault | `FailedPushRetried` is violated |
| `accounts` | 2 requests at a time, 2 passwords, 2 registrations, 2 tokens, 2 half seconds, 1 fault | `TypeOK`, `EndedSessionsStayDead`, `TokenSpentOnce`, `OneLivingToken`, `SessionsAreConfirmed`, `PasswordsAreChosen` |
| `services` | one part of nine in each behaviour, see below | `TypeOK`; `OneCard`, `ChangesKept`; `ProfilesBounded`, `QuotaHeld`; `WalkComplete`; `QuotaPerWindow`; `WithdrawnKeysExpire`, `RefusedOnlyIfOverwritten`; `LogoutEndsTheEarlier`; `OneCustomer`; `DayAsListed`; `ClearTextOnlyIfAllowed` |

Run one with `tlc -config MCConsumerGroup.cfg MCConsumer`.

**Bounds.** They are chosen so that the shortest story of each hazard fits:

- Two replicas and four messages let a stale owner commit behind the new one and
  a third message be fetched after it, with two versions of one opportunity among
  them; two faults let a crash follow a rebalance.
- Two events, one override and one reconciliation give every order of the three
  writers on one row, with an override that is dated before any of the others and
  written after it; the three supported states are one for each status of the
  organization ("active", which gives the same status as "trialing", is left to
  the proofs). Four half seconds give two events of one second and two of
  different seconds. Organizations do not share rows, so one is enough except for
  the order within a listing (`billing_blocked`).
- Five records in pages of two and a window of two pages let the window move past
  a checkpoint. With `RecentPages = 1` in `ingestion_days` a cursor at the end of
  the window arises at once. Four days and a lookback of one let a recovery reach
  back beyond its limit.
- Quota 1 with two opportunities splits a digest; a day of two clock units with
  three runs lets one day be resumed and another begin. The two opportunities are
  interchangeable, hence `SYMMETRY` in that run, which checks no liveness.
- In `accounts` two requests are what it takes for one handler to run between two
  statements of another; two registrations of the address let the second inherit
  from the first; two tokens are one spent and one that replaces it, or two of
  statements that overlap; three moments are two of one second and one of the
  next, so that a session and a revocation meet in one second and in different
  ones, either way round. Requests are
  interchangeable, hence `SYMMETRY`.
- In `services`:
  - `Deals`: two requests at a time, three in all and one opportunity: two
    creations that both find nothing, a PATCH between the read and the write of
    another, a follow-up between them.
  - `Plans`: plans of one and two profiles and explanations, two requests at a
    time, five in all, one change of the plan or of the month: a limit of two
    passed by one, and a plan that shrinks while an old request is under way. The
    bound of `ProfilesBounded` is reached: TLC finds a state in which it is met
    with equality.
  - `Paging`: four opportunities, two dates, pages of two and two changes: ties,
    a walk of two and of three queries, an answer that is filled within a page.
  - `KeyCache`: two requests, two keys, a life of two units and a fetch of one, the
    shortest in which a slow fetch brings a withdrawn key back.
  - `Limiter`: quota 2, windows of 3 units, 7 moments and one restart: two windows
    that meet within one stretch, and the restart in either.
  - `Operators`: two logouts, seconds of two units, three seconds.
  - `Pncp`: three publications in pages of two, in every order and every part of
    them in the fallback; three attempts; with and without a limit of one page.
  - `Checkout`: two requests, three sessions, three deliveries: the third session
    is opened after either of the two events, delivered in either order.
  - `Smtp`: every configuration and every server, no bound.
- `SuppressAfter` is 2 where the code has 5: both need more than one failure.

`CHECK_DEADLOCK FALSE` stands where the system really stops: a partition that is
read to its end, or whose refused row has stopped it with every fault used; the
last run of a bounded number of runs; an address whose registrations are used up
when the clock stands at its bound; the parts of `services`, whose walk, backfill
or e-mail comes to its end.

**Fairness.** `Consumer`: the loop never waits for anything but its calls, the
supervisor restarts an ended process and the coordinator assigns an orphan
partition; faults are finitely many, so weak fairness suffices. `Subscription`:
the ticker starts cycle after cycle; nothing is assumed of Stripe's deliveries.
`Ingestion`: the ticker again, calls have timeouts; nothing is assumed of the
clock or of PNCP. `Notifications`, `Accounts` and the parts of `services` have
safety properties only: what they would have to reach depends on clients and
outside parties that owe them nothing.

## 4. Proofs

Every safety invariant and every action property that a passing run checks is a
theorem, for all values of the constants, and so is the refinement `MirrorsLog`.
Each module proves that a strengthened invariant holds at the start and is kept by
every action, and draws the properties from it. The only assumptions are those the
modules name (`ConsumerAssumption` and so on): the types of the constants; that what
is counted is finite (opportunities, requests, visitors, publications, notices); and
that there is at least one of what a bound allows (a key, a moment, a record, a
second), since a bound of zero is a model without behaviour. The strengthened
invariants were checked by TLC on the bounds of section 3 before they were proved.

| module | theorems |
| --- | --- |
| `Consumer_proofs` | `TypeCorrect`, `ConsumerLosesNothing` (`NoEventLost`), `ConsumerKeepsOrder` (`SettledWithoutGap`) |
| `Mirror_proofs` | `ConsumerImplementsMirror` (`MirrorsLog`) |
| `Subscription_proofs` | `TypeCorrect`, `NothingAppliedTwice` (`AppliedOnce`), `TablesStayTogether` (`TablesAgree`), `NewestStays` (`NewestWins`), `OrderDoesNotMatter` (`DeliveryOrderIrrelevant`) |
| `Ingestion_proofs` | `TypeCorrect`, `ArchiveComesFirst` (`ArchivedFirst`), `NothingSkippedIsMissing` (`SkippedPagesDelivered`), `NoDayIsLeftBehind` (`NoGapBehindCursor`) |
| `Notifications_proofs` | `TypeCorrect`, `NoEmailIsSkipped` (`EmailNeverSkipped`), `OneDigestADay` (`DigestOncePerDay`), `EmailedOnce` (`MailedOnce`), `PlanIsKept` (`QuotaKept`), `CursorOnlyAdvances` (`CursorNeverBack`) |
| `Accounts_proofs` | `TypeCorrect`, `TokensActOnce` (`TokenSpentOnce`), `NewTokenReplacesOlder` (`OneLivingToken`), `OnlyConfirmedGetSessions` (`SessionsAreConfirmed`), `EndedStaysEnded` (`EndedSessionsStayDead`), `PasswordsHaveAnAuthor` (`PasswordsAreChosen`) |
| `Deals_proofs` | `TypeCorrect`, `OneCardPerOpportunity` (`OneCard`), `ChangesStay` (`ChangesKept`) |
| `Services_proofs` | `NothingInTheClear`, `LogoutsAreObeyed`, `WithdrawnKeysAreForgotten`, `PublishedKeysAreFound`, `NoSecondCustomer`, `ProfilesStayBounded`, `QuotaIsHeld`, `DayIsDelivered`, `QuotaIsSpentFirst`, `WalkIsComplete`, one for each property of the other eight parts; `AllTypes` and `AllPromisesHold` of the composition `MCServices` |

### Consumer

`NoEventLost` is not inductive: `CommitMessages` moves the offset to the held
message, and nothing in `NoEventLost` says that what lies before that message was
settled, least of all for a replica that lost the partition long ago. `IInv` adds

- `HeldInOrder`: a replica holds a message only when everything before it is
  settled, and is at `commit` only when the message itself is;
- `ReadInOrder`: everything a replica's reader has delivered is settled, but for
  the message it holds.

Settled messages stay settled, so both survive whatever other replicas do; that is
why a stale owner is harmless to them. `StartGeneration` establishes `ReadInOrder`
from `NoEventLost` (a generation reads from the committed offset), `Fetch`
establishes `HeldInOrder` from `ReadInOrder`, `SettleHeld` is the lemma shared by
the upsert and the dead letter, and `NextIInv` puts the actions together.

**The refinement.** A step that settles a message settles either the first
unsettled one, which is a step of `LogMirror` by `HeldInOrder` alone, or one that was
settled before. The second must not change a row while `overlapped` is false, and
for that `MirrorInv` adds what holds as long as one replica at a time works on the
partition:

- `OneReader`: nothing is settled beyond the message after the committed offset,
  and the message at hand is that one. There is one more case, which TLC found
  when the first version of `OneReader` turned out not to be inductive: a replica
  that is given its own partition anew reads the message it holds a second time,
  so the message at hand may be the committed one, if nothing lies beyond it;
- `NewestRows`: a row shows the newest settled event of its opportunity. So an
  upsert of a settled message, which is the last one, rewrites what the row shows;
- `Kinds`: what is settled was valid or invalid as it should be. This needs no
  exclusion.

`MirrorStep` takes the actions one by one, `PutStep` and `SetAsideStep` are shared by
the calls that succeed and those that fail after they were executed.

### Subscription

`AppliedOnce`, `TablesAgree` and `NewestWins` are not inductive, alone or together.
`IInv` is their conjunction with

- `Outside`, `Tables`, `Reconciling`: types, with dates bounded by the clock;
- `SeenAnnounced`: an id that was seen belongs to an announced event, hence a new
  announcement is not seen yet and owes `NewestWins` nothing;
- `HistoryRemembers`: every entry of the history is an operator's or carries an id
  that was seen, hence applying an unseen id repeats none (`AppliedOnce`); the
  entry of an event tells what the event said, and a row without history has no
  date, which is how `DeliveryOrderIrrelevant` follows from the invariant without
  being a part of it: the newest event is in the history of a row that is at least
  as new, and the last entry is the row.

`NewestWins` lets a row lie behind an accepted event where an operator's write took
it back and nothing has reached that date since (`TakenBack`). The exception has to
survive later writes, and has to cover the override itself: its date may be any
earlier one, so either the row stays new enough or the override is the write that
took it back, and the entry before it reaches the event's date because
`TablesAgree` says that this entry was the row.

Four lemmas carry the invariant: `KeptByWrite` (a write that is not older than the
row keeps what `NewestWins` says of an event), `WriteKeeps` (the write shared by the
webhook and the reconcilers), `ApplyKeeps` (`ApplySubscription` with its refusals and
early returns) and `TablesUntouched` (steps that leave the tables alone).

### Ingestion

A checkpoint says something about pages the worker read long ago, so
`SkippedPagesDelivered` is kept only because the worker knows, wherever it is, that
the pages of the window before the one at hand are delivered, and that what it
holds of that page begins with the page's first record (`InThePages`). The window
moves while this is so; `PagesGrow` and the lemmas about `PageOf` and `Window` say
that it only moves on. `InTheDays` does the same for `NoGapBehindCursor`: the days of
the cycle since the first saved one are synchronized, and the modalities of the day
at hand unless one of them failed.

### Notifications

`IInv` is `Types` (with `Hand`, what a run may hold at each step), `Counted` and
`OneByOne`.

- `Counted` is about the quota and holds however runs overlap, since only the
  worker is metered and it has one run at a time: what it is about to mail or to
  count still fits (`used` plus the batch), and, as long as nothing crashed,
  `metered` is `used` and what is mailed but not counted (`Uncounted`).
- `OneByOne` is about the run at work where runs do not overlap. What it is about
  to mail is not settled (`Unsettled`), its day is not marked (`Unmarked`), each
  opportunity that was found and neither settled nor passed is in its hands (`Held`,
  `Found`), and each repetition was paid for by a crash (`Repeated`). `Held` is the
  heart of `EmailNeverSkipped`: `Finish` may move the cursor because at the end of
  the run there is nothing left in `Ahead`, and a run that was limited, or that found
  its day marked, does not move it.

`MailedOnce` and `DigestOncePerDay` are bounds by `faults + 1`; they are inductive
only with the sharper bound `faults` for what is neither settled nor under way.

### Accounts

Each handler is cut at its statements, so the invariant says what a handler that
has read something may still rely on (`Fit`), and `StaysFit` shows that no step of
another one takes it away (`Grows`: tokens are only inserted, used and ended; an
account gets back neither its subject nor its legacy hash). `Spending` (a token that
lives was never spent and is the account's of today), `Confirmed` (who may be called
confirmed) and `Ended` (the dates of the revocations) are the parts of the rows.
`Room` is a count: the statements at work have room for their tokens, which is where
the finite set of requests is needed.

### Deals and the other parts

- `Deals`: `OneCard` needs that no write changes the opportunity of a card, and that
  a request which will write one names a card that is there (`Pointed`).
- `KeyCache`: the set in use expires within a life and a fetch of the withdrawal of
  any of its keys (`Lifetimes`), which a slow fetch keeps, because the set it brings
  is no older than the fetch (`Answered`).
- `Limiter`: `passed` counts what was let through so far, so that a stretch is a
  difference and no sum is needed. `Recent` says of every stretch that ends now
  what the entry in memory knows of it: what came after the window was opened is
  counted in it, before that lies one window more, and one for each restart.
- `Plans`: every request stores at most one profile, so the profiles stored or about
  to be are those that were counted and the other requests under way. Used
  explanations and requests under way are requests (`used + Cardinality(Busy)`).
- `Paging`: of what is expected (`Expected`) at least as many rows lie before a match
  as the cursor has passed, unless a row sank.
- `Pncp`: as long as every page came from one source, what is delivered is the pages
  of that source up to the one at hand.
- `Checkout`: each customer is the payment of a session that was opened without one
  (`Roots`), and the request of such a session was not informed: the customer it
  read would have been sent along. `Operators`: the recorded date is that of the latest logout, unless one
  was late. `Smtp`: what the server was sent depends on the step.
- `MCServices`: a step of one part leaves the variables of the others alone, and with
  them their invariants (`AllKept`); so the properties of the parts are properties of
  the composition.

### What is only model-checked

The liveness properties `EventuallySettled` and `RecentRecordsArrive`: fairness and
`ENABLED` are out of the prover's reach. The four properties of section 5 are
violated, so there is nothing to prove. No module declares a RECURSIVE operator.

## 5. What the checks found

Four statements of the repository do not hold of the code. Each is a run whose
property is the statement and whose counterexample is a short story.

1. **A reconciliation repairs a missed webhook only once per state**
   (`billing_repair`). `internal/billing/stripe.go:219` names a listed state by
   subscription, status, plan and period end. A subscription goes active,
   past due, active; the first two states are reconciled; the last one has the id
   of the first and is skipped as already processed. The row stays past due.
2. **One refused subscription blocks those after it** (`billing_blocked`).
   `billing_reconciler.go:84-90` ends the cycle at the first error, and a status
   such as `incomplete` is an error for ever.
3. **The tail of the day before an outage is not recovered**
   (`ingestion_recovery`). `cmd/ingestion/main.go:149` saves today as recovered
   after every cycle; after an outage longer than the lookback the cycle starts on
   the following day.
4. **A failed push is not retried** (`notifications_push`). `worker.go:163-175`
   records the failure and goes on, `worker.go:260` moves the cursor past the
   opportunity.

A fifth statement fails by reading alone and has no run. `deploy/self-hosted/README.md:52`
says that the initial synchronization reads the previous seven days and that pending
days are caught up. `PNCP_INITIAL_DAYS` is for the first cycle of a process only
(`cmd/ingestion/main.go:175`): if that cycle fails before it has saved a day, the next
one reads no more than the lookback (`:186`) and saves a cursor beyond the days that
were left. `NoGapBehindCursor` speaks of the days from the first saved one (`base`)
and so does not reach them.

More statements hold only with an exclusion, which the property names.
`deploy/self-hosted/README.md:74` says of a logout that "an old session token
cannot be reused": a delayed `RevokeSessions` carries the date of its own logout
and moves `sessions_revoked_at` back behind that of a reset
(`EndedSessionsStayDead` without `~late` is violated). And a login that has read
a bcrypt hash puts the old password back when a reset ends between its two
statements (`PasswordsAreChosen` without its second case is violated). The same
delayed logout exists for operators (`LogoutEndsTheEarlier` without `~belated` is
violated). An override has the same weakness: dated at `platform_postgres.go:78`
and written later without a condition, it can put an older date over that of an event
accepted meanwhile, after which older events are accepted again (`NewestWins` without
its second case is violated). And an event created between Stripe's answer to a
listing and the date of its items is dropped as older than the stale item
(`stripe.go:220`): the row stays stale until a later cycle lists the new state, for
ever if that state was applied before, which is the first finding.

The parts of `services` give up the following, each time exactly as far as its
property says:

- `README.md:62` promises "criação idempotente por `opportunity_id`". There is
  one card (`OneCard`), but of two requests at the same time the second is
  answered `deal_create_failed` (500) and not with the card; with the memory store
  there are two cards.
- A PATCH from a stale copy undoes another change of the card, and a reminder whose
  statement failed is lost while the client is told that all went well
  (`ChangesKept`, `raced`). With the memory store a follow-up without a date
  clears the reminder, with PostgreSQL it stays.
- The limit of profiles is passed by as many as there are other requests under
  way (`ProfilesBounded`). A failed explanation is not given back
  (`httpapi/server.go:591-607`), although `docs/runbook.md:21` asks "não consumir cota
  em falhas"; `QuotaHeld` counts the units, whatever became of their explanations.
- A slow fetch of the keys puts an older set over a newer one; until the next
  fetch a token of the newest key may be refused, and a withdrawn key lives longer
  by the time of that fetch (`WithdrawnKeysExpire`, `RefusedOnlyIfOverwritten`).
- A client that walks through the list misses an opportunity when another one is
  dated earlier meanwhile, and with the memory store also without (`WalkComplete`).
- A backfill whose pages came from both endpoints may end well with a gap
  (`DayAsListed`).
- A checkout makes a customer of its own when its request read before Stripe's
  first event arrived, and at any later time when its read failed; the row keeps
  the customer whose event came last (`OneCustomer`).
- In the modes "auto" and "disabled" a message without authentication travels in
  the clear when the server offers no STARTTLS (`ClearTextOnlyIfAllowed`); a cloud
  deployment refuses to start with these modes.

## 6. What is not modelled

- Wire formats, matching scores (`internal/domain/ranking.go`, arithmetic on
  floating-point numbers), metrics, health checks, the AI and Expo clients, object
  storage: they keep no state that a property could speak of.
- The mobile client, the panel's pages and the deployment files: presentation and
  data; the constraints of the tables and the numbers of replicas are in the models.
- The in-memory store but for the cards and the list of opportunities: a second
  copy of what is modelled, under one lock.
- In billing the portal session and the signature of the webhook; in
  `Notifications` a change of preferences during the behaviour; in `Accounts` the
  expiry of sessions, cookies, CSRF and the export; in the gateway favourites.
- Two gateway replicas have two limiters and two caches of keys; one is modelled,
  and what it allows is allowed by each.

`PROJECT.json` has the status of each component.

## 7. Plan

Done: `Consumer` with `LogMirror`, `Subscription`, `Ingestion`, `Notifications`,
`Accounts` and the nine parts of `services`, each with the theorems of section 4.

Next, in this order:

1. Abstract specifications beside `LogMirror`: a subscription as the newest of
   what was accepted, refined by `Subscription`; a limiter as a log of attempts.
2. `Notifications` under overlap: what two runs can do to a digest at most, as a
   bound in the number of runs, which is the hazard that has no property yet.
3. `Pipeline`: ingestion, topic, consumer and notification worker composed, for
   the promise that a listed record is alerted.
