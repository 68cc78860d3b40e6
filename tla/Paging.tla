------------------------------- MODULE Paging -------------------------------
(***************************************************************************)
(* A client walks through the list of opportunities (listOpportunities)    *)
(* while the consumer stores new ones and new versions of old ones.  The   *)
(* cursor is the number of rows passed, in an order by publication date    *)
(* that may change between two queries.  The walk of a profile asks for    *)
(* pages until one answer is full and may stop within a page.              *)
(***************************************************************************)
EXTENDS Integers, Sequences, FiniteSets, FiniteSetsExt, Deployment

CONSTANTS
  Notices,   \* ids, as numbers: the order of ids breaks ties
  Ranked,    \* those the profile matches (domain.Rank)
  Dates,     \* publication dates; 0 is a notice not stored
  PageLimit, \* limit
  MaxPuts    \* bound: notices stored during the walk

ASSUME PagingAssumption ==
  /\ Notices \subseteq Nat /\ IsFiniteSet(Notices) /\ Ranked \subseteq Notices
  /\ Dates \subseteq Nat \ {0} /\ PageLimit \in Nat \ {0} /\ MaxPuts \in Nat

VARIABLES
  dates,    \* dates[n]: published_at of procurement.opportunities
  filtered, \* the walk is a profile's
  offset,   \* the cursor, and pageOffset within a request
  values,   \* the length of the answer so far
  listing,  \* pages are asked for
  received, \* history: what the answers held
  before,   \* history: stored when the walk began and not dated later since
  sunk,     \* history: a stored notice was given an earlier date
  puts

pageVars == <<dates, filtered, offset, values, listing, received, before, sunk, puts>>

StoredNotices == {n \in Notices : dates[n] # 0}

PageInit ==
  /\ dates \in [Notices -> {0} \cup Dates]
  /\ filtered \in BOOLEAN
  /\ offset = 0 /\ values = 0
  /\ listing = TRUE
  /\ received = {}
  /\ before = StoredNotices
  /\ sunk = FALSE
  /\ puts = 0

\* The upsert of the consumer: a new version has any date.
PutOpportunity(n, date) ==
  /\ puts < MaxPuts
  /\ puts' = puts + 1
  /\ date # dates[n]
  /\ dates' = [dates EXCEPT ![n] = date]
  /\ sunk' = (sunk \/ date < dates[n])
  /\ before' = IF date > dates[n] THEN before \ {n} ELSE before
  /\ UNCHANGED <<filtered, offset, values, listing, received>>

\* Newest first.  PostgreSQL puts the later id first among equals; the memory
\* store sorts the entries of a map, and equals come in any order.
Before(m, n) == dates[m] > dates[n] \/ (dates[m] = dates[n] /\ (memory \/ m > n))
Orders ==
  {s \in [1..Cardinality(StoredNotices) -> StoredNotices] :
     \A i, j \in DOMAIN s : i < j => s[i] # s[j] /\ Before(s[i], s[j])}

Matches(n) == filtered => n \in Ranked

\* Mutant: the rest of the page is passed with the match that fills the answer.
WholePage(start, matched, page) == start + page

\* The answer is full with the last of these matches: the cursor stays behind it.
NextOffset(start, matched, page) == start + matched

\* The rows of one page, or those up to the match that fills the answer.
Passed(rows) ==
  LET room == PageLimit - values
      hits(k) == Cardinality({i \in 1..k : Matches(rows[i])})
      full == {k \in 1..Len(rows) : hits(k) = room}
  IN  IF full = {} THEN Len(rows) ELSE Min(full)

\* One query of OpportunitiesPage and what listOpportunities makes of it: the
\* answer goes out when it is full, the table has no more, or without a profile.
OpportunitiesPage ==
  /\ listing
  /\ \E order \in Orders :
       LET rows == SubSeq(order, offset + 1, Min({offset + PageLimit, Len(order)}))
           more == Len(order) > offset + PageLimit
           k == Passed(rows)
           hits == {rows[i] : i \in {j \in 1..k : Matches(rows[j])}}
           answered == ~filtered \/ ~more \/ values + Cardinality(hits) = PageLimit
           hasMore == k < Len(rows) \/ more
       IN  /\ received' = received \cup hits
           /\ offset' = IF k < Len(rows) THEN NextOffset(offset, k, Len(rows))
                                         ELSE offset + k
           /\ values' = IF answered THEN 0 ELSE values + Cardinality(hits)
           /\ listing' = (hasMore \/ ~answered)
  /\ UNCHANGED <<dates, filtered, before, sunk, puts>>

PageNext == OpportunitiesPage \/ \E n \in Notices, date \in Dates : PutOpportunity(n, date)

PageSpec == Deployed /\ PageInit /\ [][PageNext /\ UNCHANGED deployment]_<<pageVars, deployment>>

-----------------------------------------------------------------------------
PageTypeOK ==
  /\ dates \in [Notices -> {0} \cup Dates]
  /\ {filtered, listing, sunk} \subseteq BOOLEAN
  /\ offset \in 0..Cardinality(Notices)
  /\ values \in 0..(PageLimit - 1)
  /\ received \cup before \subseteq Notices
  /\ puts \in 0..MaxPuts

\* A walk that comes to its end has met every matching opportunity that was there
\* when it began, those excepted that were dated later meanwhile: they moved to
\* pages already read.  What is new only pushes rows towards the end, and they
\* come twice.  An opportunity dated earlier pulls others over the cursor, and
\* the memory store may order equals anew for each page.
WalkComplete ==
  ~listing /\ ~sunk /\ ~memory => {n \in before : Matches(n)} \subseteq received
=============================================================================
