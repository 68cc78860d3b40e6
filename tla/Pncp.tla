-------------------------------- MODULE Pncp --------------------------------
(***************************************************************************)
(* A backfill reads one day page by page (Runner.SyncDay) through the PNCP *)
(* client, which asks the configured fallback when the primary endpoint    *)
(* fails transiently.  Each page is asked for anew, so that the pages of a *)
(* day may come from both.  What the endpoints list is outside src/: each  *)
(* has an order of its own and may miss what the other has.                *)
(***************************************************************************)
EXTENDS Integers, Sequences, FiniteSets, SequencesExt

CONSTANTS
  Publications, \* those of the day
  PncpPageSize, \* PNCP_PAGE_SIZE
  MaxAttempts,  \* tries of one page (3)
  MaxPages      \* values of --max-pages; 0 is no limit

ASSUME PncpAssumption ==
  /\ IsFiniteSet(Publications)
  /\ PncpPageSize \in Nat \ {0} /\ MaxAttempts \in Nat \ {0} /\ MaxPages \subseteq Nat

VARIABLES
  lists,     \* lists[s]: what source s lists, in its order
  limit,     \* the value of --max-pages
  hasFallback, \* PNCP_FALLBACK_URL is set
  asking,    \* the source that is asked, or "done" or "failed"
  pageNumber,
  attempt,
  delivered, \* archived and printed
  servedBy,  \* history: the sources of the pages
  transient  \* history: the primary failed transiently

pncpVars == <<lists, limit, hasFallback, asking, pageNumber, attempt, delivered, servedBy, transient>>
setting == <<lists, limit, hasFallback>>

Sources == {"primary", "fallback"}
Listings == UNION {SetToSeqs(S) : S \in SUBSET Publications}

PncpInit ==
  /\ \E p \in SetToSeqs(Publications), f \in Listings : lists = [primary |-> p, fallback |-> f]
  /\ limit \in MaxPages
  /\ hasFallback \in BOOLEAN
  /\ asking = "primary"
  /\ pageNumber = 1 /\ attempt = 1
  /\ delivered = {}
  /\ servedBy = {}
  /\ transient = FALSE

PageOf(s, n) ==
  SubSeq(lists[s], (n - 1) * PncpPageSize + 1,
         IF n * PncpPageSize < Len(lists[s]) THEN n * PncpPageSize ELSE Len(lists[s]))
Remaining(s, n) == (Len(lists[s]) - n * PncpPageSize + PncpPageSize - 1) \div PncpPageSize

\* Mutant: the last page is not asked for.
LastButOne(s) == Remaining(s, pageNumber) <= 1 \/ PageOf(s, pageNumber) = <<>>

LastPage(s) == Remaining(s, pageNumber) <= 0 \/ PageOf(s, pageNumber) = <<>>

\* processPage and the end of SyncDay's loop.
Serve(s) ==
  /\ delivered' = delivered \cup ToSet(PageOf(s, pageNumber))
  /\ servedBy' = servedBy \cup {s}
  /\ IF LastPage(s) \/ pageNumber = limit
       THEN asking' = "done" /\ UNCHANGED <<pageNumber, attempt>>
       ELSE asking' = "primary" /\ pageNumber' = pageNumber + 1 /\ attempt' = 1
  /\ UNCHANGED <<setting, transient>>

\* publications tries again whatever the error was.
TryAgain ==
  /\ IF attempt < MaxAttempts
       THEN asking' = "primary" /\ attempt' = attempt + 1
       ELSE asking' = "failed" /\ UNCHANGED attempt
  /\ UNCHANGED <<setting, pageNumber, delivered, servedBy>>

Answer(s) == asking = s /\ Serve(s)

\* Transport and read errors, 429 and 5xx.
FailTransiently ==
  /\ asking = "primary"
  /\ transient' = TRUE
  /\ IF hasFallback
       THEN asking' = "fallback" /\ UNCHANGED <<setting, pageNumber, attempt, delivered, servedBy>>
       ELSE TryAgain

\* Mutant: every error goes to the fallback.
FallBackOnAny ==
  /\ asking = "primary"
  /\ asking' = "fallback"
  /\ UNCHANGED <<setting, pageNumber, attempt, delivered, servedBy, transient>>

\* Another status, or a body that is not what was expected.
FailForGood == asking = "primary" /\ TryAgain /\ UNCHANGED transient

FallbackFails == asking = "fallback" /\ TryAgain /\ UNCHANGED transient

\* The archive or the output refuses the page, and the command ends.
PageRefused ==
  /\ asking \in Sources
  /\ asking' = "failed"
  /\ UNCHANGED <<setting, pageNumber, attempt, delivered, servedBy, transient>>

PncpNext ==
  \/ \E s \in Sources : Answer(s)
  \/ FailTransiently
  \/ FailForGood
  \/ FallbackFails
  \/ PageRefused

PncpSpec == PncpInit /\ [][PncpNext]_pncpVars

-----------------------------------------------------------------------------
PncpTypeOK ==
  /\ lists \in [Sources -> Listings]
  /\ limit \in MaxPages /\ hasFallback \in BOOLEAN
  /\ asking \in Sources \cup {"done", "failed"}
  /\ pageNumber \in 1..(Cardinality(Publications) + 1)
  /\ attempt \in 1..MaxAttempts
  /\ delivered \subseteq Publications
  /\ servedBy \subseteq Sources
  /\ transient \in BOOLEAN

\* A backfill that ends well and was not cut short has delivered the day as the
\* primary lists it when the primary never failed transiently, and as a source
\* lists it when every page came from that source.  Pages of both can leave a
\* gap between them, and the command ends well all the same.
DayAsListed ==
  asking = "done" /\ (pageNumber # limit) =>
    /\ ~transient => delivered = ToSet(lists["primary"])
    /\ \A s \in Sources : servedBy = {s} => delivered = ToSet(lists[s])
=============================================================================
