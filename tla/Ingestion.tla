----------------------------- MODULE Ingestion ------------------------------
(***************************************************************************)
(* The ingestion worker: the sync cycle of cmd/ingestion and               *)
(* Runner.SyncRecent of internal/ingestion/runner.go.                      *)
(*                                                                         *)
(* PNCP, outside src/, lists the records of a day and a modality in pages, *)
(* oldest first, and the list of a day grows while the worker reads it.  A *)
(* cycle walks the days from a start to today.  For every modality of a    *)
(* day it reads the last RecentPages pages and, page by page, archives the *)
(* raw page, publishes its records and saves the page cursor.  When all    *)
(* modalities of a day succeeded it saves the day as the recovery cursor,  *)
(* from which the cycle after an outage starts.                            *)
(*                                                                         *)
(* Days are numbered from 1, the first day with records; days before it    *)
(* are not walked.                                                         *)
(***************************************************************************)
EXTENDS Integers, FiniteSets

CONSTANTS
  Modalities,      \* how many modalities a day has (PNCP_MODALITIES)
  PageSize,        \* PNCP_PAGE_SIZE
  RecentPages,     \* PNCP_RECENT_PAGES
  InitialDays,     \* PNCP_INITIAL_DAYS: days of the first cycle of a process
  LookbackDays,    \* PNCP_LOOKBACK_DAYS: days of every other cycle
  MaxRecoveryDays, \* PNCP_MAX_RECOVERY_DAYS, 0 is no limit
  Delay,           \* external: days after which PNCP adds nothing to a day
  MaxDay,          \* bound: days
  MaxRecords,      \* bound: records in all
  MaxFaults        \* bound: failed calls and crashes

ASSUME IngestionAssumption ==
  /\ {Modalities, PageSize, RecentPages, InitialDays, LookbackDays} \subseteq Nat \ {0}
  /\ {MaxDay, MaxRecords} \subseteq Nat \ {0}
  /\ {MaxRecoveryDays, Delay, MaxFaults} \subseteq Nat

Days == 1..MaxDay
Kinds == 1..Modalities

VARIABLES
  today,      \* the current day
  count,      \* external, count[d, m]: records PNCP lists
  archived,   \* records <<d, m, i>> in an archived raw page
  published,  \* records <<d, m, i>> published to procurement.discovered.v1
  pageCursor, \* pageCursor[d, m]: ingestion checkpoint "<d>:<m>", 0 is none
  recovery,   \* ingestion checkpoint "recovery", 0 is none
  pc,         \* where the worker is
  fresh,      \* the process has not run its first cycle
  day,        \* the day the cycle is at
  end,        \* the last day of the cycle
  modality,   \* the modality SyncRecent runs for
  dayOK,      \* no modality of the day has failed
  total,      \* probe.TotalPages
  page,       \* the page SyncRecent is at
  listed,     \* how many records PNCP listed when the page at hand was read
  base,       \* history: the first day ever saved as recovery cursor, 0 is none
  synced,     \* history: <<d, m>> for which a SyncRecent has succeeded
  skipped,    \* history: days the limit of the recovery has given up
  blind,      \* history: a cycle has started without its recovery cursor
  faults      \* how many faults have happened

world == <<today, count>>
output == <<archived, published>>
cycle == <<day, end, modality, dayOK>>
sync == <<total, page, listed>>
history == <<base, synced, skipped, blind>>
marks == <<base, skipped, blind>>
vars == <<world, output, pageCursor, recovery, pc, fresh, cycle, sync, history, faults>>

Later(a, b) == IF a > b THEN a ELSE b
Earlier(a, b) == IF a < b THEN a ELSE b

PageOf(i) == (i + PageSize - 1) \div PageSize
FirstOf(p) == (p - 1) * PageSize + 1
\* The records of page p when PNCP lists n.
PageRecords(p, n) == FirstOf(p)..Earlier(p * PageSize, n)

Fault == faults < MaxFaults /\ faults' = faults + 1

Init ==
  /\ today = 1
  /\ count = [k \in Days \X Kinds |-> 0]
  /\ archived = {}
  /\ published = {}
  /\ pageCursor = [k \in Days \X Kinds |-> 0]
  /\ recovery = 0
  /\ pc = "down"
  /\ fresh = TRUE
  /\ day = 1 /\ end = 1 /\ modality = 1 /\ dayOK = TRUE
  /\ total = 0 /\ page = 1 /\ listed = 0
  /\ base = 0 /\ synced = {} /\ skipped = {} /\ blind = FALSE
  /\ faults = 0

-----------------------------------------------------------------------------
(* The clock, PNCP and the supervisor of the process.                      *)

NextDay ==
  /\ today < MaxDay
  /\ today' = today + 1
  /\ UNCHANGED <<count, output, pageCursor, recovery, pc, fresh, cycle, sync, history, faults>>

Listed == {r \in Days \X Kinds \X (1..MaxRecords) : r[3] <= count[<<r[1], r[2]>>]}

Grow(d, m) ==
  /\ today - Delay <= d /\ d <= today
  /\ Cardinality(Listed) < MaxRecords
  /\ count' = [count EXCEPT ![<<d, m>>] = @ + 1]
  /\ UNCHANGED <<today, output, pageCursor, recovery, pc, fresh, cycle, sync, history, faults>>

Restart ==
  /\ pc = "down"
  /\ pc' = "idle"
  /\ fresh' = TRUE
  /\ UNCHANGED <<world, output, pageCursor, recovery, cycle, sync, history, faults>>

Crash ==
  /\ pc # "down"
  /\ pc' = "down"
  /\ Fault
  /\ UNCHANGED <<world, output, pageCursor, recovery, fresh, cycle, sync, history>>

-----------------------------------------------------------------------------
(* sync: the range of days of a cycle                                      *)

\* From the start without recovery, the start with the recovery cursor and the
\* limit of the recovery.
LookbackStart == today - (IF fresh THEN InitialDays ELSE LookbackDays) + 1
RecoveryStart(from) ==
  IF recovery # 0 /\ recovery + 1 < from THEN recovery + 1 ELSE from
LimitedStart(from) ==
  IF MaxRecoveryDays > 0 THEN Later(from, today - MaxRecoveryDays + 1) ELSE from

Begin(from) ==
  /\ pc = "idle"
  /\ pc' = "probe"
  /\ fresh' = FALSE
  /\ day' = Later(1, LimitedStart(from))
  /\ end' = today
  /\ modality' = 1
  /\ dayOK' = TRUE
  /\ skipped' = skipped \cup (Later(1, from)..(LimitedStart(from) - 1))
  /\ UNCHANGED <<world, output, pageCursor, recovery, sync, base, synced>>

BeginCycle ==
  /\ Begin(RecoveryStart(LookbackStart))
  /\ UNCHANGED <<blind, faults>>

\* The recovery cursor cannot be read: the error is logged and the cycle goes on
\* without it.
BeginCycleBlind ==
  /\ Begin(LookbackStart)
  /\ blind' = TRUE
  /\ Fault

-----------------------------------------------------------------------------
(* Runner.SyncRecent                                                       *)

\* Mutant: a failed modality is forgotten when a later one succeeds.
LastModalityDecides(ok) ==
  /\ dayOK' = ok
  /\ synced' = IF ok THEN synced \cup {<<day, modality>>} ELSE synced
  /\ IF modality < Modalities
     THEN modality' = modality + 1 /\ pc' = "probe"
     ELSE modality' = 1 /\ pc' = IF dayOK' THEN "saveDay" ELSE "idle"
  /\ UNCHANGED <<day, end>>

\* A modality is done: the day's next one, also after a failure, or the end of
\* the day, where a failure ends the cycle.
NextModality(ok) ==
  /\ dayOK' = (dayOK /\ ok)
  /\ synced' = IF ok THEN synced \cup {<<day, modality>>} ELSE synced
  /\ IF modality < Modalities
     THEN modality' = modality + 1 /\ pc' = "probe"
     ELSE modality' = 1 /\ pc' = IF dayOK' THEN "saveDay" ELSE "idle"
  /\ UNCHANGED <<day, end>>

\* Mutant: a page that was the last one is never read again.
PastCursor(window, cursor, pages) ==
  IF cursor >= window /\ cursor # 0 THEN cursor + 1 ELSE window

\* The first page to read: the page after the cursor, where the cursor is in
\* the window and not its end, otherwise the whole window.
FirstPage(window, cursor, pages) ==
  IF cursor # 0 /\ cursor >= window /\ cursor < pages THEN cursor + 1 ELSE window

Window(pages) == Later(1, pages - RecentPages + 1)

\* Page 1 tells how many pages there are; the cursor of the pages is read.
Probe ==
  LET pages == PageOf(count[<<day, modality>>])
      start == FirstPage(Window(pages), pageCursor[<<day, modality>>], pages)
  IN  /\ pc = "probe"
      /\ total' = pages
      /\ page' = start
      /\ listed' = count[<<day, modality>>]
      /\ IF start <= pages
         THEN pc' = (IF start = 1 THEN "archive" ELSE "fetch") /\ UNCHANGED <<cycle, synced>>
         ELSE NextModality(TRUE)
      /\ UNCHANGED <<world, output, pageCursor, recovery, fresh, marks, faults>>

\* Page 1 is the one the probe has read; any other is read now.
Fetch ==
  /\ pc = "fetch"
  /\ listed' = count[<<day, modality>>]
  /\ pc' = "archive"
  /\ UNCHANGED <<world, output, pageCursor, recovery, fresh, cycle, total, page, history, faults>>

PageAtHand == {<<day, modality, i>> : i \in PageRecords(page, listed)}

\* Mutant: an error of the archive is ignored.
ArchiveMaybe ==
  /\ pc = "archive"
  /\ archived' \in {archived, archived \cup PageAtHand}
  /\ pc' = "publish"
  /\ UNCHANGED <<world, published, pageCursor, recovery, fresh, cycle, sync, history, faults>>

ArchivePage ==
  /\ pc = "archive"
  /\ archived' = archived \cup PageAtHand
  /\ pc' = "publish"
  /\ UNCHANGED <<world, published, pageCursor, recovery, fresh, cycle, sync, history, faults>>

PublishPage ==
  /\ pc = "publish"
  /\ published' = published \cup PageAtHand
  /\ pc' = "checkpoint"
  /\ UNCHANGED <<world, archived, pageCursor, recovery, fresh, cycle, sync, history, faults>>

\* Mutant: the number of pages is saved as the cursor.
SaveTotalPages ==
  /\ pc = "checkpoint"
  /\ pageCursor' = [pageCursor EXCEPT ![<<day, modality>>] = total]
  /\ IF page < total
     THEN page' = page + 1 /\ pc' = "fetch" /\ UNCHANGED <<cycle, synced>>
     ELSE NextModality(TRUE) /\ UNCHANGED page
  /\ UNCHANGED <<world, output, recovery, fresh, total, listed, marks, faults>>

SavePage ==
  /\ pc = "checkpoint"
  /\ pageCursor' = [pageCursor EXCEPT ![<<day, modality>>] = page]
  /\ IF page < total
     THEN page' = page + 1 /\ pc' = "fetch" /\ UNCHANGED <<cycle, synced>>
     ELSE NextModality(TRUE) /\ UNCHANGED page
  /\ UNCHANGED <<world, output, recovery, fresh, total, listed, marks, faults>>

\* A call fails after its retries, and SyncRecent returns.  A failed write may
\* have taken place, and a part of the page may have been published.
SyncFails ==
  /\ \/ pc \in {"probe", "fetch"} /\ UNCHANGED <<output, pageCursor>>
     \/ /\ pc = "archive"
        /\ archived' \in {archived, archived \cup PageAtHand}
        /\ UNCHANGED <<published, pageCursor>>
     \/ /\ pc = "publish"
        /\ \E i \in PageRecords(page, listed) :
             published' = published \cup {r \in PageAtHand : r[3] < i}
        /\ UNCHANGED <<archived, pageCursor>>
     \/ /\ pc = "checkpoint"
        /\ pageCursor' \in {pageCursor, [pageCursor EXCEPT ![<<day, modality>>] = page]}
        /\ UNCHANGED output
  /\ NextModality(FALSE)
  /\ Fault
  /\ UNCHANGED <<world, recovery, fresh, sync, marks>>

-----------------------------------------------------------------------------
(* sync: the end of a day                                                  *)

Advance == recovery' = day /\ base' = IF base = 0 THEN day ELSE base

SaveDay ==
  /\ pc = "saveDay"
  /\ Advance
  /\ IF day < end
     THEN day' = day + 1 /\ dayOK' = TRUE /\ pc' = "probe"
     ELSE pc' = "idle" /\ UNCHANGED <<day, dayOK>>
  /\ UNCHANGED <<world, output, pageCursor, fresh, end, modality, sync, synced, skipped, blind, faults>>

SaveDayFails ==
  /\ pc = "saveDay"
  /\ Advance \/ UNCHANGED <<recovery, base>>
  /\ pc' = "idle"
  /\ Fault
  /\ UNCHANGED <<world, output, pageCursor, fresh, cycle, sync, synced, skipped, blind>>

-----------------------------------------------------------------------------
Work ==
  \/ BeginCycle
  \/ Probe
  \/ Fetch
  \/ ArchivePage
  \/ PublishPage
  \/ SavePage
  \/ SaveDay

Next ==
  \/ NextDay
  \/ \E d \in Days, m \in Kinds : Grow(d, m)
  \/ Restart
  \/ Crash
  \/ BeginCycleBlind
  \/ SyncFails
  \/ SaveDayFails
  \/ Work

\* The ticker starts one cycle after the other and a cycle waits for nothing but
\* its calls, which have timeouts; an ended process is restarted.
SafeSpec == Init /\ [][Next]_vars
Spec == SafeSpec /\ WF_vars(Restart) /\ WF_vars(Work)

-----------------------------------------------------------------------------
Records == Days \X Kinds \X (1..MaxRecords)

TypeOK ==
  /\ today \in Days
  /\ count \in [Days \X Kinds -> 0..MaxRecords]
  /\ archived \subseteq Listed
  /\ pageCursor \in [Days \X Kinds -> 0..PageOf(MaxRecords)]
  /\ recovery \in 0..today
  /\ pc \in {"down", "idle", "probe", "fetch", "archive", "publish", "checkpoint", "saveDay"}
  /\ fresh \in BOOLEAN /\ dayOK \in BOOLEAN /\ blind \in BOOLEAN
  /\ end \in Days /\ day \in 1..end /\ modality \in Kinds
  /\ total \in 0..PageOf(MaxRecords) /\ page \in 1..PageOf(MaxRecords) /\ listed \in 0..MaxRecords
  /\ base \in 0..today
  /\ synced \subseteq Days \X Kinds
  /\ skipped \subseteq Days
  /\ faults \in 0..MaxFaults

\* An event is only published from a page whose raw body is in the archive,
\* whatever failed or crashed in between (processPage archives first).
ArchivedFirst == published \subseteq archived

\* What a resumed SyncRecent skips has been delivered: of the pages in the
\* window, as PNCP lists them now, every page up to the saved cursor has been
\* published at least as far as its first record, although the window moves
\* while pages are read, calls fail and the process restarts.
SkippedPagesDelivered ==
  \A d \in Days, m \in Kinds :
    \A p \in Window(PageOf(count[<<d, m>>]))..pageCursor[<<d, m>>] :
      <<d, m, FirstOf(p)>> \in published

\* From the first day it was saved for, the recovery cursor has no day behind it
\* of which a modality was never synchronized, except the days beyond
\* PNCP_MAX_RECOVERY_DAYS: a failed day ends the cycle, and the next cycle
\* starts no later than the day after the cursor.  (Not so once a cycle could
\* not read the cursor: it goes on from its own start.)
NoGapBehindCursor ==
  recovery # 0 /\ ~blind =>
    \A d \in base..recovery : d \in skipped \/ {d} \X Kinds \subseteq synced

\* A record PNCP lists is published, also one added to a page that has its
\* checkpoint, unless its day leaves the lookback or its page the window first.
InReach(d, m, i) ==
  /\ today - LookbackDays < d
  /\ Window(PageOf(count[<<d, m>>])) <= PageOf(i)
RecentRecordsArrive ==
  \A r \in Records :
    r \in Listed ~> r \in published \/ ~InReach(r[1], r[2], r[3])

\* "A durable day cursor lets a restarted worker recover every pending day": when
\* a cycle has come to today, the records of the days before it, back to the
\* first recovered day, are published.  (Without limit of the recovery, of days
\* no longer than the window and to which PNCP adds nothing once they are over.)
RecoversPendingDays ==
  pc = "idle" /\ recovery = today /\ skipped = {} =>
    \A r \in Listed : r[1] \in base..(today - 1) => r \in published
=============================================================================
