--------------------------- MODULE Ingestion_proofs ---------------------------
(***************************************************************************)
(* The ingestion worker, for any number of days, modalities, records and   *)
(* pages: what is published is archived, what a resumed synchronization    *)
(* skips was delivered, and no day is left behind the recovery cursor.     *)
(***************************************************************************)
EXTENDS Ingestion, FiniteSetTheorems, TLAPS

Syncing == pc \in {"fetch", "archive", "publish", "checkpoint"}

\* The first records of the pages of the window up to page p are published.
DeliveredUpTo(d, m, p) ==
  \A q \in Window(PageOf(count[<<d, m>>]))..p : <<d, m, FirstOf(q)>> \in published

\* Where SyncRecent is in its pages: it goes from the window, or from the cursor, to
\* the page at hand, and what it holds of that page begins with its first record.
InThePages ==
  /\ Syncing =>
       /\ page \in 1..total /\ total <= PageOf(count[<<day, modality>>])
       /\ DeliveredUpTo(day, modality, page - 1)
  /\ pc \in {"archive", "publish", "checkpoint"} =>
       listed <= count[<<day, modality>>] /\ page <= PageOf(listed)
  /\ pc \in {"publish", "checkpoint"} => PageAtHand \subseteq archived
  /\ pc = "checkpoint" => <<day, modality, FirstOf(page)>> \in published

\* All modalities of the day were synchronized, or the recovery gave it up.
Done(d) == d \in skipped \/ {d} \X Kinds \subseteq synced

\* Where the cycle is in its days: those it has passed since the first saved one are
\* done, and so are the modalities of the day at hand unless one failed.
InTheDays ==
  /\ end <= today
  /\ recovery = 0 <=> base = 0
  /\ pc \notin {"down", "idle"} /\ ~blind /\ base # 0 => \A d \in base..(day - 1) : Done(d)
  /\ Syncing \/ pc = "probe" => (dayOK => \A m \in 1..(modality - 1) : <<day, m>> \in synced)
  /\ pc = "saveDay" => modality = 1 /\ {day} \X Kinds \subseteq synced

\* The inductive invariant.  The three properties are kept by the steps that move a
\* cursor only because of what InThePages and InTheDays say of the steps before.
IInv ==
  /\ TypeOK
  /\ InThePages
  /\ InTheDays
  /\ ArchivedFirst
  /\ SkippedPagesDelivered
  /\ NoGapBehindCursor

-----------------------------------------------------------------------------
(* Pages and windows.                                                      *)

LEMMA Quotient ==
  ASSUME NEW x \in Nat, NEW s \in Nat \ {0}
  PROVE  x \div s \in Nat /\ (x \div s) * s <= x /\ x < (x \div s) * s + s
OBVIOUS

LEMMA Multiples ==
  ASSUME NEW a \in Nat, NEW b \in Nat, NEW s \in Nat, a <= b
  PROVE  a * s <= b * s
<1>1. PICK c \in Nat : b = a + c
  OBVIOUS
<1>2. (a + c) * s = a * s + c * s /\ c * s \in Nat /\ a * s \in Nat
  OBVIOUS
<1>3. QED
  BY <1>1, <1>2

\* A page is there when its first record is.
LEMMA Pages ==
  ASSUME NEW n \in Nat
  PROVE  /\ PageOf(n) \in Nat
         /\ \A p \in Nat \ {0} : FirstOf(p) \in Nat \ {0} /\ (p <= PageOf(n) <=> FirstOf(p) <= n)
<1>1. PICK s \in Nat \ {0} : s = PageSize
  BY IngestionAssumption
<1>2. PICK x \in Nat : x = n + s - 1
  BY <1>1
<1>3. PICK q : q = PageOf(n)
  OBVIOUS
<1>4. q \in Nat /\ q * s <= x /\ x < q * s + s /\ q * s \in Nat
  BY <1>1, <1>2, <1>3, Quotient DEF PageOf
<1>5. ASSUME NEW p \in Nat \ {0}
      PROVE  FirstOf(p) \in Nat \ {0} /\ (p <= q <=> FirstOf(p) <= n)
  <2>1. PICK o \in Nat : o = p - 1
    OBVIOUS
  <2>2. FirstOf(p) = o * s + 1 /\ o * s \in Nat
    BY <1>1, <2>1 DEF FirstOf
  <2>3. p * s = o * s + s
    BY <2>1
  <2>4. ASSUME p <= q PROVE FirstOf(p) <= n
    <3>1. p * s <= q * s
      BY <1>4, <2>4, Multiples
    <3>2. QED
      BY <1>2, <1>4, <2>2, <2>3, <3>1
  <2>5. ASSUME q < p PROVE ~(FirstOf(p) <= n)
    <3>1. q * s <= o * s
      BY <1>4, <2>1, <2>5, Multiples
    <3>2. QED
      BY <1>2, <1>4, <2>2, <3>1
  <2>6. QED
    BY <1>4, <2>2, <2>4, <2>5
<1>6. QED
  BY <1>3, <1>4, <1>5

LEMMA PagesGrow ==
  ASSUME NEW m \in Nat, NEW n \in Nat, m <= n
  PROVE  PageOf(m) <= PageOf(n)
<1>1. PICK p \in Nat : p = PageOf(m)
  BY Pages
<1>2. PageOf(n) \in Nat
  BY Pages
<1>3. CASE p = 0
  BY <1>1, <1>2, <1>3
<1>4. CASE p # 0
  <2>1. p \in Nat \ {0} /\ p <= PageOf(m)
    BY <1>1, <1>4
  <2>2. FirstOf(p) <= m /\ FirstOf(p) \in Nat
    BY <2>1, Pages
  <2>3. FirstOf(p) <= n
    BY <2>2
  <2>4. QED
    BY <1>1, <2>1, <2>3, Pages
<1>5. QED
  BY <1>3, <1>4

LEMMA Windows ==
  ASSUME NEW m \in Nat, NEW n \in Nat, m <= n
  PROVE  /\ Window(m) \in Nat \ {0} /\ Window(m) <= Window(n)
         /\ n # 0 => Window(n) <= n
BY IngestionAssumption DEF Window, Later

\* The window of a day moves only forward.
LEMMA WindowsMove ==
  ASSUME NEW m \in Nat, NEW n \in Nat, m <= n
  PROVE  /\ Window(PageOf(m)) \in Nat \ {0} /\ Window(PageOf(n)) \in Nat \ {0}
         /\ Window(PageOf(m)) <= Window(PageOf(n))
BY Pages, PagesGrow, Windows
-----------------------------------------------------------------------------
(* Types.                                                                  *)

LEMMA Typed ==
  ASSUME TypeOK
  PROVE  /\ day \in Days /\ day \in Nat /\ modality \in Nat /\ today \in Nat /\ end \in Nat
         /\ today <= MaxDay /\ day <= end /\ end <= MaxDay /\ day >= 1
         /\ modality >= 1 /\ modality <= Modalities /\ Modalities \in Nat
         /\ recovery \in Nat /\ base \in Nat /\ MaxDay \in Nat /\ MaxRecords \in Nat
         /\ page \in Nat /\ page >= 1 /\ page <= PageOf(MaxRecords) /\ total \in Nat /\ listed \in Nat
         /\ PageOf(MaxRecords) \in Nat /\ PageOf(MaxRecords) >= 1
         /\ <<day, modality>> \in Days \X Kinds
         /\ \A d \in Days, m \in Kinds : /\ count[<<d, m>>] \in Nat /\ count[<<d, m>>] <= MaxRecords
                                         /\ pageCursor[<<d, m>>] \in Nat
<1>1. MaxDay \in Nat /\ MaxRecords \in Nat \ {0} /\ Modalities \in Nat
  BY IngestionAssumption
<1>2. PageOf(MaxRecords) \in Nat /\ PageOf(MaxRecords) >= 1
  <2>1. FirstOf(1) = 1
    BY IngestionAssumption DEF FirstOf
  <2>2. QED
    BY <1>1, <2>1, Pages
<1>3. /\ day \in Days /\ day \in Nat /\ modality \in Nat /\ today \in Nat /\ end \in Nat
      /\ today <= MaxDay /\ day <= end /\ end <= MaxDay /\ day >= 1
      /\ modality >= 1 /\ modality <= Modalities /\ recovery \in Nat /\ base \in Nat
      /\ <<day, modality>> \in Days \X Kinds
  BY <1>1 DEF TypeOK, Days, Kinds
<1>4. /\ page \in Nat /\ page >= 1 /\ page <= PageOf(MaxRecords) /\ total \in Nat /\ listed \in Nat
  BY <1>1, <1>2 DEF TypeOK
<1>5. ASSUME NEW d \in Days, NEW m \in Kinds
      PROVE  count[<<d, m>>] \in Nat /\ count[<<d, m>>] <= MaxRecords /\ pageCursor[<<d, m>>] \in Nat
  BY <1>1, <1>2 DEF TypeOK
<1>6. QED
  BY <1>1, <1>2, <1>3, <1>4, <1>5

\* PNCP lists no more of a day and a modality than in all.
LEMMA ListedOfOne ==
  ASSUME TypeOK, NEW d \in Days, NEW m \in Kinds, Cardinality(Listed) < MaxRecords
  PROVE  count[<<d, m>>] + 1 \in 0..MaxRecords
<1>1. count[<<d, m>>] \in Nat /\ count[<<d, m>>] <= MaxRecords /\ MaxRecords \in Nat
      /\ MaxDay \in Nat /\ Modalities \in Nat
  BY Typed
<1>2. PICK n \in Nat : n = count[<<d, m>>]
  BY <1>1
<1>3. IsFiniteSet(1..n) /\ Cardinality(1..n) = n
  BY FS_Interval
<1>4. PICK f : f = [i \in 1..n |-> <<d, m, i>>]
  OBVIOUS
<1>5. f \in Injection(1..n, Listed)
  <2>1. \A i \in 1..n : f[i] \in Listed
    <3> SUFFICES ASSUME NEW i \in 1..n PROVE f[i] \in Listed
      OBVIOUS
    <3>1. n <= MaxRecords
      BY <1>1, <1>2
    <3>2. i \in 1..MaxRecords
      BY <1>1, <3>1
    <3>3. f[i] = <<d, m, i>>
      BY <1>4
    <3>4. i <= count[<<d, m>>]
      BY <1>2
    <3>5. QED
      BY <3>2, <3>3, <3>4 DEF Listed
  <2>2. \A i, j \in 1..n : f[i] = f[j] => i = j
    BY <1>4
  <2>3. f \in [1..n -> Listed]
    BY <1>4, <2>1
  <2>4. QED
    BY <2>2, <2>3 DEF Injection, IsInjective
<1>6. IsFiniteSet(Listed)
  <2>1. IsFiniteSet(Days) /\ IsFiniteSet(Kinds) /\ IsFiniteSet(1..MaxRecords)
    <3>1. \A k \in Nat : IsFiniteSet(1..k)
      BY FS_Interval
    <3>2. QED
      BY <1>1, <3>1 DEF Days, Kinds
  <2>2. PICK S : S = (Days \X Kinds) \X (1..MaxRecords)
    OBVIOUS
  <2>3. IsFiniteSet(S)
    BY <2>1, <2>2, FS_Product
  <2>4. PICK T : T = Days \X Kinds \X (1..MaxRecords)
    OBVIOUS
  <2>5. PICK g : g = [t \in S |-> <<t[1][1], t[1][2], t[2]>>]
    OBVIOUS
  <2>6. g \in [S -> T]
    BY <2>2, <2>4, <2>5
  <2>7. \A r \in T : \E t \in S : g[t] = r
    <3> SUFFICES ASSUME NEW r \in T PROVE \E t \in S : g[t] = r
      OBVIOUS
    <3>1. PICK t : t = <<<<r[1], r[2]>>, r[3]>>
      OBVIOUS
    <3>2. t \in S /\ r = <<r[1], r[2], r[3]>>
      BY <2>2, <2>4, <3>1
    <3>3. g[t] = <<r[1], r[2], r[3]>>
      BY <2>5, <3>1, <3>2
    <3>4. QED
      BY <3>2, <3>3
  <2>8. g \in Surjection(S, T)
    BY <2>6, <2>7 DEF Surjection
  <2>9. IsFiniteSet(T)
    BY <2>3, <2>8, FS_Surjection
  <2>10. Listed \in SUBSET T
    BY <2>4 DEF Listed
  <2>11. QED
    BY <2>9, <2>10, FS_Subset
<1>7. Cardinality(Listed) \in Nat /\ n <= Cardinality(Listed)
  BY <1>3, <1>5, <1>6, FS_Injection, FS_CardinalityType
<1>8. QED
  BY <1>1, <1>2, <1>7

LEMMA InitIInv == Init => IInv
<1> SUFFICES ASSUME Init PROVE IInv
  OBVIOUS
<1> USE DEF Init
<1>1. MaxDay \in Nat \ {0} /\ MaxRecords \in Nat \ {0} /\ MaxFaults \in Nat /\ Modalities \in Nat \ {0}
  BY IngestionAssumption
<1>2. PageOf(MaxRecords) \in Nat /\ PageOf(MaxRecords) >= 1
  <2>1. FirstOf(1) = 1
    BY IngestionAssumption DEF FirstOf
  <2>2. QED
    BY <1>1, <2>1, Pages
<1>3. /\ count \in [Days \X Kinds -> 0..MaxRecords]
      /\ pageCursor \in [Days \X Kinds -> 0..PageOf(MaxRecords)]
  BY <1>1, <1>2
<1>4. TypeOK
  <2>1. /\ today \in Days /\ recovery \in 0..today /\ base \in 0..today /\ faults \in 0..MaxFaults
        /\ end \in Days /\ day \in 1..end /\ modality \in Kinds
    BY <1>1 DEF Days, Kinds
  <2>2. /\ total \in 0..PageOf(MaxRecords) /\ page \in 1..PageOf(MaxRecords)
        /\ listed \in 0..MaxRecords
    BY <1>1, <1>2
  <2>3. /\ archived \subseteq Listed /\ synced \subseteq Days \X Kinds /\ skipped \subseteq Days
        /\ fresh \in BOOLEAN /\ dayOK \in BOOLEAN /\ blind \in BOOLEAN /\ pc = "down"
    OBVIOUS
  <2>4. QED
    BY <1>3, <2>1, <2>2, <2>3 DEF TypeOK
<1>5. InThePages /\ InTheDays
  BY DEF InThePages, InTheDays, Syncing
<1>6. ArchivedFirst /\ NoGapBehindCursor
  BY DEF ArchivedFirst, NoGapBehindCursor
<1>7. SkippedPagesDelivered
  <2> SUFFICES ASSUME NEW d \in Days, NEW m \in Kinds,
                      NEW p \in Window(PageOf(count[<<d, m>>]))..pageCursor[<<d, m>>]
               PROVE  FALSE
    BY DEF SkippedPagesDelivered
  <2>1. count[<<d, m>>] \in Nat /\ pageCursor[<<d, m>>] = 0
    BY <1>3
  <2>2. Window(PageOf(count[<<d, m>>])) \in Nat \ {0}
    BY <2>1, WindowsMove
  <2>3. QED
    BY <2>1, <2>2
<1>8. QED
  BY <1>4, <1>5, <1>6, <1>7 DEF IInv

-----------------------------------------------------------------------------
(* What the steps have in common.                                          *)

LEMMA AtHand ==
  ASSUME TypeOK, InThePages, pc \in {"archive", "publish", "checkpoint"}
  PROVE  /\ PageAtHand \subseteq Listed
         /\ <<day, modality, FirstOf(page)>> \in PageAtHand
<1>1. PICK n \in Nat : n = count[<<day, modality>>] /\ n <= MaxRecords /\ MaxRecords \in Nat
  BY Typed DEF TypeOK
<1>2. /\ page \in Nat \ {0} /\ listed \in Nat /\ listed <= n /\ page <= PageOf(listed)
  BY <1>1, Typed DEF InThePages
<1>3. PICK a \in Nat \ {0} : a = FirstOf(page) /\ a <= listed
  BY <1>2, Pages
<1>4. PICK b \in Nat : b = page * PageSize
  BY <1>2, IngestionAssumption
<1>5. a <= b
  <2>1. PICK s \in Nat \ {0} : s = PageSize
    BY IngestionAssumption
  <2>2. (page - 1) * s + 1 <= page * s
    BY <1>2, <2>1
  <2>3. QED
    BY <1>3, <1>4, <2>1, <2>2 DEF FirstOf
<1>6. PageRecords(page, listed) = a..(IF b < listed THEN b ELSE listed)
  BY <1>3, <1>4 DEF PageRecords, Earlier
<1>7. \A i \in PageRecords(page, listed) : i \in 1..MaxRecords /\ i <= n
  BY <1>1, <1>2, <1>3, <1>4, <1>6
<1>8. ASSUME NEW r \in PageAtHand PROVE r \in Listed
  <2>1. PICK i \in PageRecords(page, listed) : r = <<day, modality, i>>
    BY DEF PageAtHand
  <2>2. day \in Days /\ modality \in Kinds /\ i \in 1..MaxRecords /\ i <= count[<<day, modality>>]
    BY <1>1, <1>7, Typed DEF TypeOK
  <2>3. QED
    BY <2>1, <2>2 DEF Listed
<1>9. a \in PageRecords(page, listed)
  BY <1>2, <1>3, <1>4, <1>5, <1>6
<1>10. QED
  BY <1>3, <1>8, <1>9 DEF PageAtHand

\* The next modality, or the end of the day.
LEMMA ModalityDone ==
  ASSUME TypeOK, NEW ok \in BOOLEAN, NextModality(ok),
         dayOK => \A m \in 1..(modality - 1) : <<day, m>> \in synced
  PROVE  /\ modality' \in Kinds /\ dayOK' \in BOOLEAN /\ pc' \in {"probe", "saveDay", "idle"}
         /\ synced \subseteq synced' /\ synced' \subseteq Days \X Kinds
         /\ day' = day /\ end' = end
         /\ pc' = "probe" => (dayOK' => \A m \in 1..(modality' - 1) : <<day', m>> \in synced')
         /\ pc' = "saveDay" => modality' = 1 /\ {day'} \X Kinds \subseteq synced'
<1>1. /\ modality \in 1..Modalities /\ Modalities \in Nat \ {0} /\ dayOK \in BOOLEAN
      /\ <<day, modality>> \in Days \X Kinds /\ synced \subseteq Days \X Kinds
  BY Typed, IngestionAssumption DEF TypeOK, Kinds
<1>2. /\ dayOK' = (dayOK /\ ok) /\ day' = day /\ end' = end
      /\ synced' = IF ok THEN synced \cup {<<day, modality>>} ELSE synced
      /\ IF modality < Modalities
         THEN modality' = modality + 1 /\ pc' = "probe"
         ELSE modality' = 1 /\ pc' = IF dayOK' THEN "saveDay" ELSE "idle"
  BY DEF NextModality
<1>3. modality' \in Kinds /\ dayOK' \in BOOLEAN /\ pc' \in {"probe", "saveDay", "idle"}
  BY <1>1, <1>2 DEF Kinds
<1>4. synced \subseteq synced' /\ synced' \subseteq Days \X Kinds
  BY <1>1, <1>2
<1>5. dayOK' => \A m \in 1..modality : <<day, m>> \in synced'
  <2> SUFFICES ASSUME dayOK', NEW m \in 1..modality PROVE <<day, m>> \in synced'
    OBVIOUS
  <2>1. dayOK /\ ok
    BY <1>2
  <2>2. m \in 1..(modality - 1) \/ m = modality
    BY <1>1
  <2>3. QED
    BY <1>2, <1>4, <2>1, <2>2
<1>6. pc' = "probe" => modality' - 1 = modality
  BY <1>1, <1>2
<1>7. pc' = "saveDay" => modality' = 1 /\ modality = Modalities /\ dayOK'
  BY <1>1, <1>2
<1>8. pc' = "probe" => (dayOK' => \A m \in 1..(modality' - 1) : <<day', m>> \in synced')
  BY <1>2, <1>5, <1>6
<1>9. pc' = "saveDay" => {day'} \X Kinds \subseteq synced'
  BY <1>2, <1>5, <1>7 DEF Kinds
<1>10. QED
  BY <1>2, <1>3, <1>4, <1>7, <1>8, <1>9

\* A cycle starts no later than today and than the day after the recovery cursor,
\* but for the days it gives up.
LEMMA Starts ==
  ASSUME TypeOK, NEW from, from \in {LookbackStart, RecoveryStart(LookbackStart)}
  PROVE  /\ from \in Int /\ from <= today
         /\ LimitedStart(from) \in Int /\ LimitedStart(from) <= today
         /\ from = RecoveryStart(LookbackStart) /\ recovery # 0 => from <= recovery + 1
<1>1. today \in Nat /\ recovery \in Nat /\ InitialDays \in Nat \ {0} /\ LookbackDays \in Nat \ {0}
      /\ MaxRecoveryDays \in Nat
  BY Typed, IngestionAssumption
<1>2. LookbackStart \in Int /\ LookbackStart <= today
  BY <1>1 DEF LookbackStart
<1>3. /\ RecoveryStart(LookbackStart) \in Int /\ RecoveryStart(LookbackStart) <= today
      /\ recovery # 0 => RecoveryStart(LookbackStart) <= recovery + 1
  BY <1>1, <1>2 DEF RecoveryStart
<1>4. from \in Int /\ from <= today
  BY <1>2, <1>3
<1>5. LimitedStart(from) \in Int /\ LimitedStart(from) <= today
  BY <1>1, <1>4 DEF LimitedStart, Later
<1>6. QED
  BY <1>3, <1>4, <1>5

-----------------------------------------------------------------------------
(* The types are kept.                                                     *)

LEMMA ProbeFacts ==
  ASSUME TypeOK, Probe,
         NEW pages, pages = PageOf(count[<<day, modality>>])
  PROVE  /\ pages \in Nat /\ pages <= PageOf(MaxRecords) /\ total' = pages
         /\ page' \in Nat \ {0} /\ page' <= PageOf(MaxRecords)
         /\ \/ page' = Window(pages)
            \/ page' = pageCursor[<<day, modality>>] + 1 /\ pageCursor[<<day, modality>>] >= Window(pages)
                 /\ page' <= pages
         /\ page' <= pages => /\ pc' = IF page' = 1 THEN "archive" ELSE "fetch"
                              /\ UNCHANGED <<cycle, synced>>
         /\ ~(page' <= pages) => NextModality(TRUE)
         /\ listed' = count[<<day, modality>>]
<1>1. PICK n \in Nat : n = count[<<day, modality>>] /\ n <= MaxRecords /\ MaxRecords \in Nat
  BY Typed DEF TypeOK
<1>2. pages \in Nat /\ pages <= PageOf(MaxRecords) /\ PageOf(MaxRecords) \in Nat
      /\ PageOf(MaxRecords) >= 1
  BY <1>1, Pages, PagesGrow, Typed
<1>3. PICK window \in Nat \ {0} : window = Window(pages) /\ (pages # 0 => window <= pages)
                                  /\ (pages = 0 => window = 1)
  BY <1>2, IngestionAssumption DEF Window, Later
<1>4. PICK cursor \in Nat : cursor = pageCursor[<<day, modality>>]
  BY Typed DEF TypeOK
<1>5. PICK start : start = FirstPage(window, cursor, pages)
  OBVIOUS
<1>6. \/ start = window
      \/ start = cursor + 1 /\ cursor >= window /\ start <= pages
  BY <1>2, <1>3, <1>4, <1>5 DEF FirstPage
<1>7. start \in Nat \ {0} /\ start <= PageOf(MaxRecords)
  BY <1>2, <1>3, <1>4, <1>6
<1>8. /\ total' = pages /\ page' = start /\ listed' = count[<<day, modality>>]
      /\ IF start <= pages
         THEN pc' = (IF start = 1 THEN "archive" ELSE "fetch") /\ UNCHANGED <<cycle, synced>>
         ELSE NextModality(TRUE)
  BY <1>3, <1>4, <1>5 DEF Probe
<1>9. QED
  BY <1>2, <1>3, <1>4, <1>6, <1>7, <1>8

LEMMA FaultTypes == ASSUME TypeOK, Fault PROVE faults' \in 0..MaxFaults
BY IngestionAssumption DEF Fault, TypeOK

LEMMA WorldTypes ==
  ASSUME TypeOK, InThePages, InTheDays,
         NextDay \/ (\E d \in Days, m \in Kinds : Grow(d, m)) \/ Restart \/ Crash
  PROVE  TypeOK'
<1> USE DEF world, output, cycle, sync, history
<1>1. CASE NextDay
  <2>1. today' \in Days /\ today <= today'
    BY <1>1, Typed DEF NextDay, Days
  <2>2. recovery \in 0..today' /\ base \in 0..today'
    BY <2>1, Typed DEF TypeOK, Days
  <2>3. Listed' = Listed
    BY <1>1 DEF NextDay, Listed
  <2>4. QED
    BY <1>1, <2>1, <2>2, <2>3 DEF NextDay, TypeOK
<1>2. ASSUME NEW d \in Days, NEW m \in Kinds, Grow(d, m) PROVE TypeOK'
  <2>1. count[<<d, m>>] + 1 \in 0..MaxRecords /\ count[<<d, m>>] \in Nat
    BY <1>2, ListedOfOne, Typed DEF Grow
  <2>2. count' = [count EXCEPT ![<<d, m>>] = count[<<d, m>>] + 1]
        /\ count \in [Days \X Kinds -> 0..MaxRecords]
    BY <1>2 DEF Grow, TypeOK
  <2>3. /\ count' \in [Days \X Kinds -> 0..MaxRecords]
        /\ \A k \in Days \X Kinds : count[k] \in Nat /\ count[k] <= count'[k]
    BY <2>1, <2>2, Typed
  <2>4. ASSUME NEW r \in Listed PROVE r \in Listed'
    <3>1. PICK k \in Days \X Kinds : k = <<r[1], r[2]>>
      BY DEF Listed
    <3>2. r \in Days \X Kinds \X (1..MaxRecords) /\ r[3] <= count[k] /\ r[3] \in Nat
      BY <3>1 DEF Listed
    <3>3. count'[k] \in Nat /\ count[k] \in Nat /\ count[k] <= count'[k]
      BY <2>3
    <3>4. r[3] <= count'[k]
      BY <3>2, <3>3
    <3>5. QED
      BY <3>1, <3>2, <3>4 DEF Listed
  <2>5. QED
    BY <1>2, <2>3, <2>4 DEF Grow, TypeOK
<1>3. CASE Restart
  BY <1>3 DEF Restart, TypeOK, Listed
<1>4. CASE Crash
  <2>1. faults' \in 0..MaxFaults
    BY <1>4, FaultTypes DEF Crash
  <2>2. QED
    BY <1>4, <2>1 DEF Crash, TypeOK, Listed
<1>5. QED
  BY <1>1, <1>2, <1>3, <1>4

LEMMA BeginTypes ==
  ASSUME TypeOK, BeginCycle \/ BeginCycleBlind
  PROVE  TypeOK'
<1> USE DEF world, output, sync
<1>1. PICK from : from \in {LookbackStart, RecoveryStart(LookbackStart)} /\ Begin(from)
  BY DEF BeginCycle, BeginCycleBlind
<1>2. from \in Int /\ from <= today /\ LimitedStart(from) \in Int /\ LimitedStart(from) <= today
  BY <1>1, Starts
<1>3. today \in Nat /\ today >= 1 /\ today <= MaxDay /\ MaxDay \in Nat /\ today \in Days
  BY Typed DEF TypeOK, Days
<1>4. day' \in 1..end' /\ end' \in Days /\ modality' \in Kinds /\ fresh' \in BOOLEAN
      /\ dayOK' \in BOOLEAN /\ pc' = "probe"
  <2>1. day' = Later(1, LimitedStart(from)) /\ end' = today
    BY <1>1 DEF Begin
  <2>2. 1 \in Kinds
    BY IngestionAssumption DEF Kinds
  <2>3. QED
    <3>1. day' \in 1..today
      BY <1>2, <1>3, <2>1 DEF Later
    <3>2. modality' = 1 /\ fresh' = FALSE /\ dayOK' = TRUE /\ pc' = "probe"
      BY <1>1 DEF Begin
    <3>3. QED
      BY <1>3, <2>1, <2>2, <3>1, <3>2
<1>5. skipped' \subseteq Days
  <2>1. skipped' = skipped \cup (Later(1, from)..(LimitedStart(from) - 1))
    BY <1>1 DEF Begin
  <2>2. \A d \in Later(1, from)..(LimitedStart(from) - 1) : d \in 1..MaxDay
    BY <1>2, <1>3 DEF Later
  <2>3. QED
    BY <2>1, <2>2 DEF TypeOK, Days
<1>6. blind' \in BOOLEAN /\ faults' \in 0..MaxFaults
  <2>1. CASE BeginCycle
    BY <2>1 DEF BeginCycle, TypeOK
  <2>2. CASE BeginCycleBlind
    BY <2>2, FaultTypes DEF BeginCycleBlind
  <2>3. QED
    BY <2>1, <2>2
<1>7. Listed' = Listed
  BY <1>1 DEF Begin, Listed
<1>8. QED
  BY <1>1, <1>4, <1>5, <1>6, <1>7 DEF Begin, TypeOK

LEMMA SyncTypes ==
  ASSUME TypeOK, InThePages, InTheDays,
         Probe \/ Fetch \/ ArchivePage \/ PublishPage \/ SavePage \/ SyncFails
  PROVE  TypeOK'
<1> USE DEF world, output, cycle, sync, history, marks
<1>1. Listed' = Listed
  BY DEF Probe, Fetch, ArchivePage, PublishPage, SavePage, SyncFails, Listed
<1>2. count[<<day, modality>>] \in 0..MaxRecords
  BY Typed DEF TypeOK
<1>3. pc \in {"archive", "publish", "checkpoint"} => PageAtHand \subseteq Listed
  BY AtHand
<1>4. Syncing => page \in 1..total /\ total \in Nat /\ total <= PageOf(MaxRecords)
                 /\ PageOf(MaxRecords) \in Nat
  BY Typed DEF InThePages, TypeOK
<1>5. ASSUME NEW ok \in BOOLEAN, NextModality(ok), Syncing \/ pc = "probe"
      PROVE  /\ modality' \in Kinds /\ dayOK' \in BOOLEAN /\ pc' \in {"probe", "saveDay", "idle"}
             /\ synced' \subseteq Days \X Kinds /\ day' = day /\ end' = end
  BY <1>5, ModalityDone DEF InTheDays
<1>6. CASE Probe
  <2>1. PICK pages : pages = PageOf(count[<<day, modality>>])
    OBVIOUS
  <2>2. /\ pages \in Nat /\ pages <= PageOf(MaxRecords) /\ total' = pages
        /\ page' \in Nat \ {0} /\ page' <= PageOf(MaxRecords)
        /\ page' <= pages => /\ pc' = IF page' = 1 THEN "archive" ELSE "fetch"
                             /\ UNCHANGED <<cycle, synced>>
        /\ ~(page' <= pages) => NextModality(TRUE)
        /\ listed' = count[<<day, modality>>]
    BY <1>6, <2>1, ProbeFacts
  <2>3. total' \in 0..PageOf(MaxRecords) /\ page' \in 1..PageOf(MaxRecords)
        /\ listed' \in 0..MaxRecords
    BY <1>2, <2>2, Typed
  <2>4. pc = "probe"
    BY <1>6 DEF Probe
  <2>5. /\ modality' \in Kinds /\ dayOK' \in BOOLEAN
        /\ pc' \in {"probe", "saveDay", "idle", "archive", "fetch"}
        /\ synced' \subseteq Days \X Kinds /\ day' = day /\ end' = end
    <3>1. CASE page' <= pages
      BY <2>2, <3>1 DEF TypeOK
    <3>2. CASE ~(page' <= pages)
      BY <1>5, <2>2, <2>4, <3>2
    <3>3. QED
      BY <3>1, <3>2
  <2>6. QED
    BY <1>1, <1>6, <2>3, <2>5 DEF Probe, TypeOK
<1>7. CASE Fetch
  BY <1>1, <1>2, <1>7 DEF Fetch, TypeOK
<1>8. CASE ArchivePage
  BY <1>1, <1>3, <1>8 DEF ArchivePage, TypeOK
<1>9. CASE PublishPage
  BY <1>1, <1>9 DEF PublishPage, TypeOK
<1>10. ASSUME pc = "checkpoint"
       PROVE  [pageCursor EXCEPT ![<<day, modality>>] = page]
                \in [Days \X Kinds -> 0..PageOf(MaxRecords)]
  <2>1. page \in 0..PageOf(MaxRecords)
    BY Typed
  <2>2. QED
    BY <2>1, Typed DEF TypeOK
<1>11. CASE SavePage
  <2>1. pc = "checkpoint" /\ Syncing
    BY <1>11 DEF SavePage, Syncing
  <2>2. pageCursor' \in [Days \X Kinds -> 0..PageOf(MaxRecords)]
    BY <1>10, <1>11, <2>1 DEF SavePage
  <2>3. /\ page' \in 1..PageOf(MaxRecords) /\ modality' \in Kinds /\ dayOK' \in BOOLEAN
        /\ pc' \in {"probe", "saveDay", "idle", "fetch"}
        /\ synced' \subseteq Days \X Kinds /\ day' = day /\ end' = end
    <3>1. CASE page < total
      <4>1. page + 1 \in 1..PageOf(MaxRecords)
        BY <1>4, <2>1, <3>1
      <4>2. QED
        BY <1>11, <3>1, <4>1 DEF SavePage, TypeOK
    <3>2. CASE ~(page < total)
      <4>1. NextModality(TRUE) /\ page' = page
        BY <1>11, <3>2 DEF SavePage
      <4>2. QED
        BY <1>5, <2>1, <4>1 DEF TypeOK
    <3>3. QED
      BY <3>1, <3>2
  <2>4. QED
    BY <1>1, <1>11, <2>2, <2>3 DEF SavePage, TypeOK
<1>12. CASE SyncFails
  <2>1. /\ archived' \subseteq Listed
        /\ pageCursor' \in [Days \X Kinds -> 0..PageOf(MaxRecords)]
        /\ Syncing \/ pc = "probe"
    BY <1>3, <1>10, <1>12 DEF SyncFails, TypeOK, Syncing
  <2>2. NextModality(FALSE) /\ faults' \in 0..MaxFaults
    BY <1>12, FaultTypes DEF SyncFails
  <2>3. QED
    BY <1>1, <1>5, <1>12, <2>1, <2>2 DEF SyncFails, TypeOK
<1>13. QED
  BY <1>6, <1>7, <1>8, <1>9, <1>11, <1>12

LEMMA DayTypes ==
  ASSUME TypeOK, InTheDays, SaveDay \/ SaveDayFails
  PROVE  TypeOK'
<1> USE DEF world, output, cycle, sync
<1>1. Listed' = Listed /\ today' = today /\ end' = end
  BY DEF SaveDay, SaveDayFails, Listed
<1>2. day \in 0..today /\ day \in Nat /\ end \in Nat /\ base \in 0..today /\ day <= end
  BY Typed DEF InTheDays, TypeOK
<1>3. recovery' \in 0..today /\ base' \in 0..today
  BY <1>2 DEF SaveDay, SaveDayFails, Advance, TypeOK
<1>4. day' \in 1..end /\ dayOK' \in BOOLEAN /\ pc' \in {"probe", "idle"}
  <2>1. CASE SaveDay
    <3>1. day + 1 \in 1..end \/ ~(day < end)
      BY <1>2
    <3>2. QED
      BY <2>1, <3>1 DEF SaveDay, TypeOK
  <2>2. CASE SaveDayFails
    BY <2>2 DEF SaveDayFails, TypeOK
  <2>3. QED
    BY <2>1, <2>2
<1>5. faults' \in 0..MaxFaults
  BY FaultTypes DEF SaveDay, SaveDayFails, TypeOK
<1>6. QED
  BY <1>1, <1>3, <1>4, <1>5 DEF SaveDay, SaveDayFails, TypeOK

-----------------------------------------------------------------------------
(* The pages: ArchivedFirst, SkippedPagesDelivered and what they need.     *)

PageInv == InThePages /\ ArchivedFirst /\ SkippedPagesDelivered

LEMMA SkippedByCursor ==
  SkippedPagesDelivered
    <=> \A d \in Days, m \in Kinds : DeliveredUpTo(d, m, pageCursor[<<d, m>>])
BY DEF SkippedPagesDelivered, DeliveredUpTo

\* PNCP lists no less than before.
CountGrows == \A k \in Days \X Kinds : count[k] \in Nat /\ count'[k] \in Nat /\ count[k] <= count'[k]

\* What was delivered of a window is delivered of a later one.
LEMMA StillDelivered ==
  ASSUME CountGrows, published \subseteq published',
         NEW d \in Days, NEW m \in Kinds, NEW p \in Int, DeliveredUpTo(d, m, p)
  PROVE  DeliveredUpTo(d, m, p)'
<1>1. PICK k \in Days \X Kinds : k = <<d, m>>
  OBVIOUS
<1>2. /\ Window(PageOf(count[k])) \in Nat \ {0} /\ Window(PageOf(count'[k])) \in Nat \ {0}
      /\ Window(PageOf(count[k])) <= Window(PageOf(count'[k]))
  BY WindowsMove DEF CountGrows
<1>3. ASSUME NEW q \in Window(PageOf(count'[k]))..p PROVE <<d, m, FirstOf(q)>> \in published'
  <2>1. q \in Window(PageOf(count[k]))..p
    BY <1>2
  <2>2. QED
    BY <1>1, <2>1 DEF DeliveredUpTo
<1>4. QED
  BY <1>1, <1>3 DEF DeliveredUpTo

LEMMA CountStays == ASSUME TypeOK, count' = count PROVE CountGrows
<1>1. \A k \in Days \X Kinds : count[k] \in 0..MaxRecords
  BY DEF TypeOK
<1>2. QED
  BY <1>1 DEF CountGrows

LEMMA CursorKept ==
  ASSUME TypeOK, CountGrows, published \subseteq published', pageCursor' = pageCursor,
         SkippedPagesDelivered
  PROVE  SkippedPagesDelivered'
<1>1. ASSUME NEW d \in Days, NEW m \in Kinds
      PROVE  DeliveredUpTo(d, m, pageCursor[<<d, m>>])'
  <2>1. PICK c \in Int : c = pageCursor[<<d, m>>]
    BY Typed
  <2>2. DeliveredUpTo(d, m, c)
    BY <2>1, SkippedByCursor
  <2>3. DeliveredUpTo(d, m, c)'
    BY <2>2, StillDelivered
  <2>4. pageCursor'[<<d, m>>] = c
    BY <2>1
  <2>5. QED
    BY <2>3, <2>4 DEF DeliveredUpTo
<1>2. QED
  BY <1>1 DEF SkippedPagesDelivered, DeliveredUpTo

\* The steps that leave the pages alone, or end the synchronization.
LEMMA PagesKept ==
  ASSUME TypeOK, PageInv, CountGrows, UNCHANGED <<output, pageCursor>>,
         UNCHANGED <<pc, day, modality, sync>>
           \/ pc' \notin {"fetch", "archive", "publish", "checkpoint"}
  PROVE  PageInv'
<1>1. published' = published /\ archived' = archived /\ pageCursor' = pageCursor
  BY DEF output
<1>2. SkippedPagesDelivered' /\ ArchivedFirst'
  BY <1>1, CursorKept DEF PageInv, ArchivedFirst
<1>3. CASE pc' \notin {"fetch", "archive", "publish", "checkpoint"}
  BY <1>2, <1>3 DEF PageInv, InThePages, Syncing
<1>4. CASE UNCHANGED <<pc, day, modality, sync>>
  <2>1. /\ pc' = pc /\ day' = day /\ modality' = modality /\ total' = total
        /\ page' = page /\ listed' = listed
    BY <1>4 DEF sync
  <2>2. PICK k \in Days \X Kinds : k = <<day, modality>>
    BY Typed
  <2>3. /\ count[k] \in Nat /\ count'[k] \in Nat /\ count[k] <= count'[k]
        /\ PageOf(count[k]) \in Nat /\ PageOf(count'[k]) \in Nat
        /\ PageOf(count[k]) <= PageOf(count'[k])
    BY Pages, PagesGrow DEF CountGrows
  <2>4. total \in Nat /\ listed \in Nat /\ PageAtHand' = PageAtHand
    BY <2>1, Typed DEF PageAtHand
  <2>5. ASSUME Syncing
        PROVE  /\ page \in 1..total /\ total <= PageOf(count'[k])
               /\ DeliveredUpTo(day, modality, page - 1)'
    <3>1. PICK p \in Int : p = page - 1
      BY Typed
    <3>2. PICK d \in Days, m \in Kinds : d = day /\ m = modality
      BY Typed DEF TypeOK
    <3>3. page \in 1..total /\ total <= PageOf(count[k]) /\ DeliveredUpTo(d, m, p)
      BY <2>2, <2>5, <3>1, <3>2 DEF PageInv, InThePages
    <3>4. DeliveredUpTo(d, m, p)'
      BY <1>1, <3>3, StillDelivered
    <3>5. DeliveredUpTo(day, modality, page - 1)'
      BY <2>1, <3>1, <3>2, <3>4 DEF DeliveredUpTo
    <3>6. QED
      BY <2>3, <2>4, <3>3, <3>5
  <2>6. pc \in {"archive", "publish", "checkpoint"} => listed <= count'[k] /\ page <= PageOf(listed)
    BY <2>2, <2>3, <2>4 DEF PageInv, InThePages
  <2>7. InThePages'
    BY <1>1, <2>1, <2>2, <2>4, <2>5, <2>6 DEF PageInv, InThePages, Syncing
  <2>8. QED
    BY <1>2, <2>7 DEF PageInv
<1>5. QED
  BY <1>3, <1>4

LEMMA ProbePages ==
  ASSUME TypeOK, InTheDays, PageInv, Probe
  PROVE  PageInv'
<1> USE DEF world, output, cycle, sync, history, marks
<1>1. /\ count' = count /\ published' = published /\ archived' = archived
      /\ pageCursor' = pageCursor /\ pc = "probe"
  BY DEF Probe
<1>2. PICK d \in Days, m \in Kinds : d = day /\ m = modality
  BY Typed DEF TypeOK
<1>3. PICK n \in Nat : n = count[<<d, m>>]
  BY <1>2, Typed
<1>4. PICK pages \in Nat : pages = PageOf(n)
  BY Pages
<1>5. /\ total' = pages /\ page' \in Nat \ {0}
      /\ \/ page' = Window(pages)
         \/ page' = pageCursor[<<d, m>>] + 1 /\ pageCursor[<<d, m>>] >= Window(pages)
              /\ page' <= pages
      /\ page' <= pages => /\ pc' = IF page' = 1 THEN "archive" ELSE "fetch"
                           /\ UNCHANGED <<cycle, synced>>
      /\ ~(page' <= pages) => NextModality(TRUE)
      /\ listed' = n
  BY <1>2, <1>3, <1>4, ProbeFacts
<1>6. CountGrows
  BY <1>1, CountStays
<1>7. CASE ~(page' <= pages)
  <2>1. pc' \in {"probe", "saveDay", "idle"}
    BY <1>1, <1>5, <1>7, ModalityDone DEF InTheDays
  <2>2. QED
    BY <1>1, <1>6, <2>1, PagesKept
<1>8. CASE page' <= pages
  <2>1. /\ pc' \in {"archive", "fetch"} /\ day' = d /\ modality' = m
        /\ pc' = "archive" => page' = 1
    BY <1>2, <1>5, <1>8
  <2>2. \A q \in Window(pages)..(page' - 1) : <<d, m, FirstOf(q)>> \in published
    <3>1. Window(pages) \in Nat
      BY Windows
    <3>2. CASE page' = Window(pages)
      <4>1. ~ \E q \in Window(pages)..(page' - 1) : TRUE
        BY <3>1, <3>2
      <4>2. QED
        BY <4>1
    <3>3. CASE page' = pageCursor[<<d, m>>] + 1
      <4>1. page' - 1 = pageCursor[<<d, m>>]
        BY <3>3, Typed
      <4>2. QED
        BY <1>3, <1>4, <4>1 DEF PageInv, SkippedPagesDelivered
    <3>4. QED
      BY <1>5, <3>2, <3>3
  <2>3. DeliveredUpTo(day, modality, page - 1)'
    BY <1>1, <1>3, <1>4, <2>1, <2>2 DEF DeliveredUpTo
  <2>4. SkippedPagesDelivered' /\ ArchivedFirst'
    BY <1>1, <1>6, CursorKept DEF PageInv, ArchivedFirst
  <2>5. page' \in 1..total' /\ total' <= PageOf(count[<<d, m>>])
    BY <1>3, <1>4, <1>5, <1>8
  <2>6. QED
    BY <1>1, <1>3, <1>4, <1>5, <1>8, <2>1, <2>3, <2>4, <2>5 DEF PageInv, InThePages, Syncing
<1>9. QED
  BY <1>7, <1>8

\* A page that is read has its first record: PNCP lists no less than at the probe.
LEMMA FetchPages ==
  ASSUME TypeOK, PageInv, Fetch
  PROVE  PageInv'
<1> USE DEF world, output, cycle, history
<1>1. /\ count' = count /\ published' = published /\ archived' = archived
      /\ pageCursor' = pageCursor /\ pc = "fetch" /\ pc' = "archive" /\ day' = day
      /\ modality' = modality /\ total' = total /\ page' = page
      /\ listed' = count[<<day, modality>>]
  BY DEF Fetch
<1>2. SkippedPagesDelivered' /\ ArchivedFirst'
  BY <1>1, CountStays, CursorKept DEF PageInv, ArchivedFirst
<1>3. /\ page \in 1..total /\ total <= PageOf(count[<<day, modality>>])
      /\ DeliveredUpTo(day, modality, page - 1)
  BY <1>1 DEF PageInv, InThePages, Syncing
<1>4. DeliveredUpTo(day, modality, page - 1)'
  BY <1>1, <1>3 DEF DeliveredUpTo
<1>5. PICK n \in Nat : n = count[<<day, modality>>] /\ PageOf(n) \in Nat
  BY Typed, Pages DEF TypeOK
<1>6. page \in Nat /\ total \in Nat /\ page <= PageOf(n) /\ n <= n
  BY <1>3, <1>5, Typed
<1>7. QED
  BY <1>1, <1>2, <1>3, <1>4, <1>5, <1>6 DEF PageInv, InThePages, Syncing

LEMMA ArchivePages ==
  ASSUME TypeOK, PageInv, ArchivePage
  PROVE  PageInv'
<1> USE DEF world, cycle, sync, history
<1>1. /\ count' = count /\ published' = published /\ archived' = archived \cup PageAtHand
      /\ pageCursor' = pageCursor /\ pc = "archive" /\ pc' = "publish" /\ day' = day
      /\ modality' = modality /\ total' = total /\ page' = page /\ listed' = listed
  BY DEF ArchivePage
<1>2. SkippedPagesDelivered' /\ ArchivedFirst'
  BY <1>1, CountStays, CursorKept DEF PageInv, ArchivedFirst
<1>3. PageAtHand' = PageAtHand
  BY <1>1 DEF PageAtHand
<1>4. DeliveredUpTo(day, modality, page - 1)'
  BY <1>1 DEF DeliveredUpTo, PageInv, InThePages, Syncing
<1>5. QED
  BY <1>1, <1>2, <1>3, <1>4 DEF PageInv, InThePages, Syncing

LEMMA PublishPages ==
  ASSUME TypeOK, PageInv, PublishPage
  PROVE  PageInv'
<1> USE DEF world, cycle, sync, history
<1>1. /\ count' = count /\ published' = published \cup PageAtHand /\ archived' = archived
      /\ pageCursor' = pageCursor /\ pc = "publish" /\ pc' = "checkpoint" /\ day' = day
      /\ modality' = modality /\ total' = total /\ page' = page /\ listed' = listed
  BY DEF PublishPage
<1>2. PageAtHand \subseteq archived /\ <<day, modality, FirstOf(page)>> \in PageAtHand
  BY <1>1, AtHand DEF PageInv, InThePages
<1>3. SkippedPagesDelivered' /\ ArchivedFirst'
  BY <1>1, <1>2, CountStays, CursorKept DEF PageInv, ArchivedFirst
<1>4. PageAtHand' = PageAtHand
  BY <1>1 DEF PageAtHand
<1>5. DeliveredUpTo(day, modality, page - 1)'
  BY <1>1 DEF DeliveredUpTo, PageInv, InThePages, Syncing
<1>6. QED
  BY <1>1, <1>2, <1>3, <1>4, <1>5 DEF PageInv, InThePages, Syncing

\* The cursor moves to a page up to which the window is delivered.
LEMMA CursorSaved ==
  ASSUME TypeOK, PageInv, pc = "checkpoint", UNCHANGED <<count, published>>,
         pageCursor' = [pageCursor EXCEPT ![<<day, modality>>] = page]
  PROVE  /\ DeliveredUpTo(day, modality, page)
         /\ SkippedPagesDelivered'
<1>1. PICK d \in Days, m \in Kinds : d = day /\ m = modality
  BY Typed DEF TypeOK
<1>2. \A q \in Window(PageOf(count[<<d, m>>]))..page : <<d, m, FirstOf(q)>> \in published
  <2> SUFFICES ASSUME NEW q \in Window(PageOf(count[<<d, m>>]))..page
               PROVE  <<d, m, FirstOf(q)>> \in published
    OBVIOUS
  <2>1. Window(PageOf(count[<<d, m>>])) \in Nat /\ page \in Nat
    BY Typed, WindowsMove
  <2>2. q = page \/ q \in Window(PageOf(count[<<d, m>>]))..(page - 1)
    BY <2>1
  <2>3. QED
    BY <1>1, <2>2 DEF PageInv, InThePages, Syncing, DeliveredUpTo
<1>3. ASSUME NEW e \in Days, NEW k \in Kinds
      PROVE  DeliveredUpTo(e, k, pageCursor[<<e, k>>])'
  <2>1. CASE <<e, k>> = <<d, m>>
    <3>1. pageCursor'[<<e, k>>] = page /\ e = d /\ k = m
      BY <1>1, <2>1 DEF TypeOK
    <3>2. QED
      BY <1>2, <3>1 DEF DeliveredUpTo
  <2>2. CASE <<e, k>> # <<d, m>>
    <3>1. pageCursor'[<<e, k>>] = pageCursor[<<e, k>>]
      BY <1>1, <2>2 DEF TypeOK
    <3>2. QED
      BY <3>1 DEF PageInv, SkippedPagesDelivered, DeliveredUpTo
  <2>3. QED
    BY <2>1, <2>2
<1>4. QED
  BY <1>1, <1>2, <1>3 DEF SkippedPagesDelivered, DeliveredUpTo

LEMMA SavePages ==
  ASSUME TypeOK, InTheDays, PageInv, SavePage
  PROVE  PageInv'
<1> USE DEF world, output, cycle, marks
<1>1. /\ count' = count /\ published' = published /\ archived' = archived
      /\ pageCursor' = [pageCursor EXCEPT ![<<day, modality>>] = page]
      /\ pc = "checkpoint" /\ total' = total /\ listed' = listed
  BY DEF SavePage
<1>2. DeliveredUpTo(day, modality, page) /\ SkippedPagesDelivered' /\ ArchivedFirst'
  BY <1>1, CursorSaved DEF PageInv, ArchivedFirst
<1>3. CASE page < total
  <2>1. page' = page + 1 /\ pc' = "fetch" /\ day' = day /\ modality' = modality
    BY <1>3 DEF SavePage
  <2>2. /\ page \in 1..total /\ total <= PageOf(count[<<day, modality>>]) /\ total \in Nat
    BY <1>1, Typed DEF PageInv, InThePages, Syncing
  <2>3. page' \in 1..total' /\ page' - 1 = page
    BY <1>1, <1>3, <2>1, <2>2
  <2>4. DeliveredUpTo(day, modality, page - 1)'
    BY <1>1, <1>2, <2>1, <2>3 DEF DeliveredUpTo
  <2>5. QED
    BY <1>1, <1>2, <2>1, <2>2, <2>3, <2>4 DEF PageInv, InThePages, Syncing
<1>4. CASE ~(page < total)
  <2>1. pc' \in {"probe", "saveDay", "idle"}
    BY <1>1, <1>4, ModalityDone DEF SavePage, InTheDays, Syncing
  <2>2. QED
    BY <1>2, <2>1 DEF PageInv, InThePages, Syncing
<1>5. QED
  BY <1>3, <1>4

LEMMA FailPages ==
  ASSUME TypeOK, InTheDays, PageInv, SyncFails
  PROVE  PageInv'
<1> USE DEF world, output, sync, marks
<1>1. count' = count /\ pc' \in {"probe", "saveDay", "idle"}
  <2>1. NextModality(FALSE) /\ (Syncing \/ pc = "probe")
    BY DEF SyncFails, Syncing
  <2>2. QED
    BY <2>1, ModalityDone DEF SyncFails, InTheDays
<1>2. published \subseteq published' /\ published' \subseteq archived'
  <2>1. PageInv /\ published \subseteq archived
    BY DEF PageInv, ArchivedFirst
  <2>2. CASE pc = "publish"
    BY <2>1, <2>2 DEF SyncFails, PageInv, InThePages
  <2>3. CASE pc # "publish"
    BY <2>1, <2>3 DEF SyncFails
  <2>4. QED
    BY <2>2, <2>3
<1>3. SkippedPagesDelivered'
  <2>1. CASE pageCursor' = pageCursor
    BY <1>1, <1>2, <2>1, CountStays, CursorKept DEF PageInv
  <2>2. CASE pageCursor' # pageCursor
    <3>1. /\ pc = "checkpoint" /\ published' = published
          /\ pageCursor' = [pageCursor EXCEPT ![<<day, modality>>] = page]
      BY <2>2 DEF SyncFails
    <3>2. QED
      BY <1>1, <3>1, CursorSaved
  <2>3. QED
    BY <2>1, <2>2
<1>4. QED
  BY <1>1, <1>2, <1>3 DEF PageInv, ArchivedFirst, InThePages, Syncing

LEMMA PageStep ==
  ASSUME TypeOK, InTheDays, PageInv, [Next]_vars
  PROVE  PageInv'
<1> USE DEF world, output, cycle, sync, history
<1>1. CASE NextDay
  BY <1>1, CountStays, PagesKept DEF NextDay
<1>2. ASSUME NEW d \in Days, NEW m \in Kinds, Grow(d, m) PROVE PageInv'
  <2>1. CountGrows
    <3>1. count' = [count EXCEPT ![<<d, m>>] = count[<<d, m>>] + 1]
      BY <1>2 DEF Grow
    <3>2. \A k \in Days \X Kinds : count[k] \in Nat
      BY CountStays, Typed DEF TypeOK
    <3>3. QED
      BY <3>1, <3>2 DEF CountGrows, TypeOK
  <2>2. QED
    BY <1>2, <2>1, PagesKept DEF Grow
<1>3. CASE Restart
  BY <1>3, CountStays, PagesKept DEF Restart
<1>4. CASE Crash
  BY <1>4, CountStays, PagesKept DEF Crash
<1>5. CASE BeginCycle \/ BeginCycleBlind
  BY <1>5, CountStays, PagesKept DEF BeginCycle, BeginCycleBlind, Begin
<1>6. CASE SaveDay \/ SaveDayFails
  BY <1>6, CountStays, PagesKept DEF SaveDay, SaveDayFails
<1>7. CASE UNCHANGED vars
  BY <1>7, CountStays, PagesKept DEF vars
<1>8. QED
  BY <1>1, <1>2, <1>3, <1>4, <1>5, <1>6, <1>7, ProbePages, FetchPages, ArchivePages, PublishPages,
     SavePages, FailPages DEF Next, Work

-----------------------------------------------------------------------------
(* The days: NoGapBehindCursor and what it needs.                          *)

DayInv == InTheDays /\ NoGapBehindCursor

\* The steps within a day, and those that end the cycle without saving a day.
LEMMA DaysKept ==
  ASSUME TypeOK, DayInv, today' \in Nat, today <= today', synced \subseteq synced',
         UNCHANGED <<day, end, recovery, base, skipped, blind>>,
         pc' \notin {"down", "idle"} => pc \notin {"down", "idle"},
         Syncing' \/ pc' = "probe" => (dayOK' => \A m \in 1..(modality' - 1) : <<day', m>> \in synced'),
         pc' = "saveDay" => modality' = 1 /\ {day'} \X Kinds \subseteq synced'
  PROVE  DayInv'
<1>1. \A d : Done(d) => Done(d)'
  BY DEF Done
<1>2. end' <= today'
  BY Typed DEF DayInv, InTheDays
<1>3. recovery' = 0 <=> base' = 0
  BY DEF DayInv, InTheDays
<1>4. pc' \notin {"down", "idle"} /\ ~blind' /\ base' # 0 => \A d \in base'..(day' - 1) : Done(d)'
  BY <1>1 DEF DayInv, InTheDays
<1>5. InTheDays'
  BY <1>2, <1>3, <1>4 DEF InTheDays
<1>6. NoGapBehindCursor'
  BY <1>1 DEF DayInv, NoGapBehindCursor, Done
<1>7. QED
  BY <1>5, <1>6 DEF DayInv

\* A cycle starts at most one day after the cursor, or gives up the days between.
LEMMA BeginDays ==
  ASSUME TypeOK, DayInv, BeginCycle \/ BeginCycleBlind
  PROVE  DayInv'
<1> USE DEF world, output, sync
<1>1. PICK from : /\ from \in {LookbackStart, RecoveryStart(LookbackStart)} /\ Begin(from)
                  /\ ~blind' => from = RecoveryStart(LookbackStart) /\ ~blind
  BY DEF BeginCycle, BeginCycleBlind
<1>2. PICK limited \in Int : limited = LimitedStart(from)
  BY <1>1, Starts
<1>3. from \in Int /\ (~blind' /\ recovery # 0 => from <= recovery + 1)
  BY <1>1, Starts
<1>4. /\ today' = today /\ end' = today /\ modality' = 1 /\ pc' = "probe" /\ synced' = synced
      /\ recovery' = recovery /\ base' = base
      /\ day' = Later(1, limited) /\ skipped' = skipped \cup (Later(1, from)..(limited - 1))
  BY <1>1, <1>2 DEF Begin
<1>5. today \in Nat /\ recovery \in Nat /\ base \in Nat
  BY Typed
<1>6. \A d : Done(d) => Done(d)'
  BY <1>4 DEF Done
<1>7. ASSUME ~blind', base # 0, NEW d \in base..(day' - 1) PROVE Done(d)'
  <2>1. recovery # 0 /\ ~blind /\ from <= recovery + 1
    BY <1>1, <1>3, <1>7 DEF DayInv, InTheDays
  <2>2. d \in Nat /\ d >= 1 /\ d <= limited - 1
    BY <1>2, <1>4, <1>5, <1>7 DEF Later
  <2>3. CASE d < from
    <3>1. d \in base..recovery
      BY <1>3, <1>5, <1>7, <2>1, <2>2, <2>3
    <3>2. Done(d)
      BY <2>1, <3>1 DEF DayInv, NoGapBehindCursor, Done
    <3>3. QED
      BY <1>6, <3>2
  <2>4. CASE d >= from
    <3>1. d \in Later(1, from)..(limited - 1)
      BY <1>2, <1>3, <2>2, <2>4 DEF Later
    <3>2. QED
      BY <1>4, <3>1 DEF Done
  <2>5. QED
    BY <1>3, <2>2, <2>3, <2>4
<1>8. ~ \E m \in 1..(modality' - 1) : TRUE
  BY <1>4
<1>9. InTheDays'
  BY <1>4, <1>5, <1>7, <1>8 DEF DayInv, InTheDays, Syncing
<1>10. NoGapBehindCursor'
  BY <1>1, <1>4, <1>6 DEF DayInv, NoGapBehindCursor, Done
<1>11. QED
  BY <1>9, <1>10 DEF DayInv

\* The steps of SyncRecent.
LEMMA SyncDays ==
  ASSUME TypeOK, DayInv,
         Probe \/ Fetch \/ ArchivePage \/ PublishPage \/ SavePage \/ SyncFails
  PROVE  DayInv'
<1> USE DEF world, output, cycle, sync, history, marks
<1>1. /\ today' = today /\ recovery' = recovery /\ base' = base /\ skipped' = skipped
      /\ blind' = blind /\ pc \notin {"down", "idle", "saveDay"} /\ today \in Nat /\ today <= today
  <2>1. /\ today' = today /\ recovery' = recovery /\ base' = base /\ skipped' = skipped
        /\ blind' = blind
    BY DEF Probe, Fetch, ArchivePage, PublishPage, SavePage, SyncFails
  <2>2. pc \notin {"down", "idle", "saveDay"}
    BY DEF Probe, Fetch, ArchivePage, PublishPage, SavePage, SyncFails
  <2>3. today \in Nat /\ today <= today
    BY Typed
  <2>4. QED
    BY <2>1, <2>2, <2>3
<1>2. dayOK => \A m \in 1..(modality - 1) : <<day, m>> \in synced
  <2>1. pc \in {"probe", "fetch", "archive", "publish", "checkpoint"}
    BY <1>1 DEF TypeOK
  <2>2. QED
    BY <2>1 DEF DayInv, InTheDays, Syncing
<1>3. ASSUME NEW ok \in BOOLEAN, NextModality(ok) PROVE DayInv'
  <2>1. /\ pc' \in {"probe", "saveDay", "idle"} /\ synced \subseteq synced'
        /\ day' = day /\ end' = end
        /\ pc' = "probe" => (dayOK' => \A m \in 1..(modality' - 1) : <<day', m>> \in synced')
        /\ pc' = "saveDay" => modality' = 1 /\ {day'} \X Kinds \subseteq synced'
    BY <1>2, <1>3, ModalityDone
  <2>2. ~Syncing'
    BY <2>1 DEF Syncing
  <2>3. QED
    BY <1>1, <2>1, <2>2, DaysKept
<1>4. ASSUME pc' \in {"fetch", "archive", "publish", "checkpoint"},
             UNCHANGED <<day, end, modality, dayOK, synced>>
      PROVE  DayInv'
  BY <1>1, <1>2, <1>4, DaysKept
<1>5. CASE Probe
  <2>1. NextModality(TRUE) \/ (pc' \in {"fetch", "archive"}
                               /\ UNCHANGED <<day, end, modality, dayOK, synced>>)
    BY <1>5 DEF Probe
  <2>2. QED
    BY <1>3, <1>4, <2>1
<1>6. CASE Fetch \/ ArchivePage \/ PublishPage
  BY <1>4, <1>6 DEF Fetch, ArchivePage, PublishPage
<1>7. CASE SavePage
  <2>1. NextModality(TRUE) \/ (pc' = "fetch" /\ UNCHANGED <<day, end, modality, dayOK, synced>>)
    BY <1>7 DEF SavePage
  <2>2. QED
    BY <1>3, <1>4, <2>1
<1>8. CASE SyncFails
  BY <1>3, <1>8 DEF SyncFails
<1>9. QED
  BY <1>5, <1>6, <1>7, <1>8

\* The end of a day: with it the days up to it are done.
LEMMA SaveDays ==
  ASSUME TypeOK, DayInv, SaveDay \/ SaveDayFails
  PROVE  DayInv'
<1> USE DEF world, output, cycle, sync
<1>1. /\ today' = today /\ synced' = synced /\ skipped' = skipped /\ blind' = blind
      /\ end' = end /\ modality' = modality /\ pc = "saveDay" /\ pc' \in {"probe", "idle"}
  BY DEF SaveDay, SaveDayFails
<1>2. day \in Nat /\ day # 0 /\ base \in Nat /\ recovery \in Nat
  BY Typed
<1>3. Done(day) /\ modality = 1
  BY <1>1 DEF Done, DayInv, InTheDays
<1>4. \A d : Done(d)' <=> Done(d)
  BY <1>1 DEF Done
<1>5. PICK b : b = IF base = 0 THEN day ELSE base
  OBVIOUS
<1>6. b \in Nat /\ b # 0
  BY <1>2, <1>5
<1>7. ASSUME ~blind, NEW d \in b..day PROVE Done(d)
  <2>1. CASE d = day
    BY <1>3, <2>1
  <2>2. CASE d # day
    <3>1. base # 0 /\ b = base /\ d \in base..(day - 1)
      BY <1>2, <1>5, <1>6, <1>7, <2>2
    <3>2. QED
      BY <1>1, <1>7, <3>1 DEF DayInv, InTheDays
  <2>3. QED
    BY <2>1, <2>2
<1>8. CASE Advance
  <2>1. recovery' = day /\ base' = b
    BY <1>5, <1>8 DEF Advance
  <2>2. NoGapBehindCursor'
    BY <1>1, <1>4, <1>7, <2>1 DEF NoGapBehindCursor, Done
  <2>3. CASE pc' = "idle"
    BY <1>1, <1>2, <1>6, <2>1, <2>2, <2>3 DEF DayInv, InTheDays, Syncing
  <2>4. CASE pc' = "probe"
    <3>1. day' = day + 1
      BY <1>1, <2>4 DEF SaveDay, SaveDayFails
    <3>2. day' - 1 = day /\ 1..(modality' - 1) = {}
      BY <1>1, <1>2, <1>3, <3>1
    <3>3. ~blind' => \A d \in base'..(day' - 1) : Done(d)'
      BY <1>1, <1>4, <1>7, <2>1, <3>2
    <3>4. QED
      BY <1>1, <1>2, <1>6, <2>1, <2>2, <2>4, <3>2, <3>3 DEF DayInv, InTheDays
  <2>5. QED
    BY <1>1, <2>3, <2>4
<1>9. CASE ~Advance
  <2>1. recovery' = recovery /\ base' = base /\ pc' = "idle"
    BY <1>9 DEF SaveDay, SaveDayFails
  <2>2. QED
    BY <1>1, <1>4, <2>1 DEF DayInv, InTheDays, NoGapBehindCursor, Done, Syncing
<1>10. QED
  BY <1>8, <1>9

LEMMA DayStep ==
  ASSUME TypeOK, DayInv, [Next]_vars
  PROVE  DayInv'
<1> USE DEF world, output, cycle, sync, history
<1>1. CASE NextDay
  <2>1. today' \in Nat /\ today <= today'
    BY <1>1, Typed DEF NextDay
  <2>2. QED
    BY <1>1, <2>1, DaysKept DEF NextDay, DayInv, InTheDays, Syncing
<1>2. today \in Nat /\ today <= today
  BY Typed
<1>3. CASE Restart \/ Crash
  BY <1>2, <1>3, DaysKept DEF Restart, Crash, Syncing
<1>4. ASSUME NEW d \in Days, NEW m \in Kinds, Grow(d, m) PROVE DayInv'
  BY <1>2, <1>4, DaysKept DEF Grow, DayInv, InTheDays, Syncing
<1>5. CASE UNCHANGED vars
  BY <1>2, <1>5, DaysKept DEF vars, DayInv, InTheDays, Syncing
<1>6. QED
  BY <1>1, <1>3, <1>4, <1>5, BeginDays, SyncDays, SaveDays DEF Next, Work

-----------------------------------------------------------------------------
LEMMA Invariance == SafeSpec => []IInv
<1>1. IInv /\ [Next]_vars => IInv'
  <2> SUFFICES ASSUME IInv, [Next]_vars PROVE IInv'
    OBVIOUS
  <2>1. TypeOK /\ InThePages /\ InTheDays /\ PageInv /\ DayInv
    BY DEF IInv, PageInv, DayInv
  <2>2. TypeOK'
    <3>1. CASE UNCHANGED vars
      BY <2>1, <3>1 DEF vars, world, output, cycle, sync, history, TypeOK, Listed
    <3>2. QED
      BY <2>1, <3>1, WorldTypes, BeginTypes, SyncTypes, DayTypes DEF Next, Work
  <2>3. QED
    BY <2>1, <2>2, PageStep, DayStep DEF IInv, PageInv, DayInv
<1>2. QED
  BY <1>1, InitIInv, PTL DEF SafeSpec

\* Types of the cursors, the pages and the days, for all values of the constants.
THEOREM TypeCorrect == SafeSpec => []TypeOK
BY Invariance, PTL DEF IInv

\* Every event comes from a page whose raw body is in the archive, whatever call has
\* failed or whenever the process has crashed.
THEOREM ArchiveComesFirst == SafeSpec => []ArchivedFirst
BY Invariance, PTL DEF IInv

\* What a resumed synchronization skips of the window has been delivered, however the
\* list of the day grows, calls fail and the process restarts.
THEOREM NothingSkippedIsMissing == SafeSpec => []SkippedPagesDelivered
BY Invariance, PTL DEF IInv

\* Once it is saved for the first time, the recovery cursor leaves no day behind it
\* that was not synchronized in all its modalities, but those beyond the limit of the
\* recovery, as long as the cursor could be read.
THEOREM NoDayIsLeftBehind == SafeSpec => []NoGapBehindCursor
BY Invariance, PTL DEF IInv
===============================================================================
