----------------------------- MODULE Deals_proofs -----------------------------
(***************************************************************************)
(* For any number of sellers, opportunities and requests: PostgreSQL keeps *)
(* one card for an opportunity, and a change of a card is undone only by a *)
(* request that had read the card before it.                               *)
(***************************************************************************)
EXTENDS Deals, SequenceTheorems, TLAPS

\* A request that will write a card has the number of one, and a reminder's
\* second statement writes nothing but the reminder.
Pointed ==
  \A s \in Sellers :
    /\ deal[s].at \in {"update", "remind"} => deal[s].card \in 1..Len(cards)
    /\ deal[s].at = "remind" =>
         deal[s].patch.opportunity = NoOpportunity /\ deal[s].patch.stage = NoOpportunity

\* The inductive invariant.  OneCard needs to know that no write changes the
\* opportunity of a card (Pointed); ChangesKept is inductive with it.
IInv == DealTypeOK /\ memory \in BOOLEAN /\ Pointed /\ OneCard /\ ChangesKept

-----------------------------------------------------------------------------
(* A merged card.                                                          *)

LEMMA MergedCard ==
  ASSUME NEW card \in Card, NEW patch \in Patch, NEW m, m = Merged(card, patch)
  PROVE  /\ m \in Card
         /\ m.opportunity = IF patch.opportunity = NoOpportunity THEN card.opportunity
                                                                 ELSE patch.opportunity
         /\ m.stage = IF patch.stage = NoOpportunity THEN card.stage ELSE patch.stage
         /\ m.reminder = IF patch.reminder = 0 THEN card.reminder ELSE patch.reminder
         /\ m.closedAt = card.closedAt
BY DEF Merged, Card, Patch, Optional

\* A card as a patch of the memory store sets everything but an empty reminder.
LEMMA MergedInMemory ==
  ASSUME NEW current \in Card, NEW card \in Card, NEW m, m = Merged(current, card)
  PROVE  /\ m \in Card /\ m.stage = card.stage
         /\ m.reminder = IF card.reminder = 0 THEN current.reminder ELSE card.reminder
<1>1. card.stage # NoOpportunity
  BY DealsAssumption DEF Card, Stages
<1>2. QED
  BY <1>1 DEF Merged, Card, Optional

LEMMA BlankCard == Blank \in Card /\ Empty \in Patch
BY DealsAssumption DEF Blank, Empty, Card, Patch, Optional, Stages

-----------------------------------------------------------------------------
(* Init and the steps.                                                     *)

DealOf(n) == [at : {"idle", "create", "update", "remind"}, card : 0..n, patch : Patch, seen : Card]

LEMMA Typed ==
  ASSUME DealTypeOK
  PROVE  /\ Len(cards) \in Nat /\ DOMAIN cards = 1..Len(cards) /\ DOMAIN asked = 1..Len(cards)
         /\ Len(asked) = Len(cards) /\ dealCalls \in Nat /\ dealCalls <= MaxDealCalls
         /\ \A i \in 1..Len(cards) : cards[i] \in Card /\ asked[i] \in Card
         /\ \A s \in Sellers : deal[s] \in DealOf(Len(cards))
         /\ deal \in [Sellers -> DealOf(Len(cards))]
<1>1. DOMAIN cards = 1..Len(cards) /\ DOMAIN asked = 1..Len(asked) /\ Len(cards) \in Nat
      /\ Len(asked) \in Nat
  BY DEF DealTypeOK
<1>2. Len(asked) = Len(cards)
  BY <1>1 DEF DealTypeOK
<1>3. \A i \in 1..Len(cards) : cards[i] \in Card /\ asked[i] \in Card
  BY <1>1, <1>2, ElementOfSeq DEF DealTypeOK
<1>4. deal \in [Sellers -> DealOf(Len(cards))]
  BY DEF DealTypeOK, DealOf
<1>5. QED
  BY <1>1, <1>2, <1>3, <1>4, DealsAssumption DEF DealTypeOK

\* A request without a card.
LEMMA IdleDeal == ASSUME NEW n \in Nat PROVE Idle \in DealOf(n) /\ Idle.at = "idle"
BY BlankCard DEF Idle, DealOf

LEMMA InitIInv == Deployed /\ DealInit => IInv
<1> SUFFICES ASSUME Deployed, DealInit PROVE IInv
  OBVIOUS
<1>1. cards = <<>> /\ asked = <<>> /\ Len(cards) = 0 /\ DOMAIN cards = {} /\ DOMAIN asked = {}
  BY DEF DealInit
<1>2. deal \in [Sellers -> DealOf(0)] /\ \A s \in Sellers : deal[s].at = "idle"
  BY IdleDeal DEF DealInit
<1>3. DealTypeOK
  BY <1>1, <1>2, DealsAssumption DEF DealInit, DealTypeOK, DealOf
<1>4. QED
  BY <1>1, <1>2, <1>3 DEF Deployed, IInv, Pointed, OneCard, ChangesKept

\* A step of seller s that writes no card.
LEMMA NoCardWritten ==
  ASSUME IInv, UNCHANGED <<cards, asked, raced, memory>>,
         NEW s \in Sellers, NEW q \in DealOf(Len(cards)), deal' = [deal EXCEPT ![s] = q],
         q.at \in {"update", "remind"} => q.card \in 1..Len(cards),
         q.at = "remind" => q.patch.opportunity = NoOpportunity /\ q.patch.stage = NoOpportunity,
         dealCalls' \in 0..MaxDealCalls,
         notes' \subseteq (DOMAIN cards) \X (1..dealCalls')
  PROVE  IInv'
<1> USE DEF IInv
<1>1. deal' \in [Sellers -> DealOf(Len(cards))]
  BY Typed
<1>2. DealTypeOK'
  BY <1>1 DEF DealTypeOK, DealOf
<1>3. Pointed'
  BY Typed DEF Pointed
<1>4. OneCard' /\ ChangesKept'
  BY DEF OneCard, ChangesKept
<1>5. QED
  BY <1>2, <1>3, <1>4

LEMMA BodyIsPatch ==
  ASSUME DealTypeOK, dealCalls < MaxDealCalls, NEW body \in Bodies
  PROVE  body \in Patch
<1>1. dealCalls + 1 \in 0..MaxDealCalls /\ 0 \in 0..MaxDealCalls
  BY DealsAssumption, Typed
<1>2. QED
  BY <1>1 DEF Bodies, Patch

\* The number of a new request; the older notes keep theirs.
LEMMA Arrived ==
  ASSUME DealTypeOK, NEW s \in Sellers, Arrive(s)
  PROVE  /\ dealCalls' \in 1..MaxDealCalls /\ dealCalls < MaxDealCalls
         /\ notes \subseteq (DOMAIN cards) \X (1..dealCalls')
<1>1. dealCalls' \in 1..MaxDealCalls /\ dealCalls < MaxDealCalls /\ 1..dealCalls \subseteq 1..dealCalls'
  BY Typed, DealsAssumption DEF Arrive
<1>2. QED
  BY <1>1 DEF DealTypeOK

LEMMA ReadSteps ==
  ASSUME IInv, UNCHANGED deployment, NEW s \in Sellers,
         \/ \E body \in Bodies : DealByOpportunity(s, body)
         \/ \E i \in DOMAIN cards, body \in Bodies : Deal(s, i, body)
         \/ \E i \in DOMAIN cards, dated \in BOOLEAN : AddNote(s, i, dated)
  PROVE  IInv'
<1> USE DEF IInv, deployment
<1>1. Idle \in DealOf(Len(cards))
  BY IdleDeal, Typed
<1>2. ASSUME NEW body \in Bodies, DealByOpportunity(s, body) PROVE IInv'
  <2>1. PICK q : q = [Idle EXCEPT !.at = "create", !.patch = body]
    OBVIOUS
  <2>2. Arrive(s) /\ notes' = notes
    BY <1>2 DEF DealByOpportunity
  <2>3. body \in Patch /\ dealCalls' \in 0..MaxDealCalls
        /\ notes' \subseteq (DOMAIN cards) \X (1..dealCalls')
    BY <2>2, Arrived, BodyIsPatch
  <2>4. q \in DealOf(Len(cards)) /\ q.at = "create"
    BY <1>1, <2>1, <2>3 DEF DealOf
  <2>5. QED
    BY <1>2, <2>1, <2>3, <2>4, NoCardWritten DEF DealByOpportunity
<1>3. ASSUME NEW i \in DOMAIN cards, NEW body \in Bodies, Deal(s, i, body) PROVE IInv'
  <2>1. PICK q : q = [at |-> "update", card |-> i, patch |-> body, seen |-> cards[i]]
    OBVIOUS
  <2>2. body \in Patch /\ dealCalls' \in 0..MaxDealCalls
        /\ notes' \subseteq (DOMAIN cards) \X (1..dealCalls')
    BY <1>3, Arrived, BodyIsPatch DEF Deal
  <2>3. q \in DealOf(Len(cards)) /\ q.at = "update" /\ q.card \in 1..Len(cards)
    BY <2>1, <2>2, Typed DEF DealOf
  <2>4. QED
    BY <1>3, <2>1, <2>2, <2>3, NoCardWritten DEF Deal
<1>4. ASSUME NEW i \in DOMAIN cards, NEW dated \in BOOLEAN, AddNote(s, i, dated) PROVE IInv'
  <2>1. PICK date : date = IF dated THEN dealCalls' ELSE 0
    OBVIOUS
  <2>2. PICK patch : patch = [Empty EXCEPT !.reminder = date]
    OBVIOUS
  <2>3. PICK q : q = [Idle EXCEPT !.at = "remind", !.card = i, !.patch = patch]
    OBVIOUS
  <2>4. Arrive(s) /\ notes' = notes \cup {<<i, dealCalls'>>}
        /\ UNCHANGED <<cards, asked, raced>>
    BY <1>4 DEF AddNote
  <2>5. /\ dealCalls' \in 1..MaxDealCalls /\ date \in 0..MaxDealCalls
        /\ notes \subseteq (DOMAIN cards) \X (1..dealCalls')
    BY <2>4, <2>1, Arrived, DealsAssumption
  <2>6. /\ patch \in Patch /\ patch.opportunity = NoOpportunity /\ patch.stage = NoOpportunity
    BY <2>2, <2>5, BlankCard DEF Patch, Empty
  <2>7. i \in 1..Len(cards) /\ i \in 0..Len(cards)
    BY Typed
  <2>8. q \in DealOf(Len(cards)) /\ q.card = i /\ q.patch = patch
    BY <1>1, <2>3, <2>6, <2>7 DEF DealOf
  <2>9. notes' \subseteq (DOMAIN cards) \X (1..dealCalls')
    BY <2>4, <2>5
  <2>10. deal' = [deal EXCEPT ![s] = q]
    BY <1>4, <2>1, <2>2, <2>3 DEF AddNote
  <2>11. dealCalls' \in 0..MaxDealCalls /\ UNCHANGED <<cards, asked, raced, memory>>
    BY <2>4, <2>5
  <2>12. q.patch.opportunity = NoOpportunity /\ q.patch.stage = NoOpportunity
        /\ q.card \in 1..Len(cards)
    BY <2>6, <2>7, <2>8
  <2>13. QED
    BY <2>8, <2>9, <2>10, <2>11, <2>12, NoCardWritten
<1>5. QED
  BY <1>2, <1>3, <1>4

\* A step that writes the card i and what it was asked to be.
LEMMA CardWritten ==
  ASSUME IInv, UNCHANGED memory, NEW i \in 1..Len(cards), NEW c \in Card, NEW a \in Card,
         cards' = [cards EXCEPT ![i] = c], asked' = [asked EXCEPT ![i] = a],
         memory \/ c.opportunity = cards[i].opportunity,
         raced \subseteq raced', raced' \subseteq raced \cup {i},
         i \notin raced' => c.stage = a.stage /\ c.reminder = a.reminder,
         a.closedAt => c.closedAt,
         deal' \in [Sellers -> DealOf(Len(cards))],
         \A s \in Sellers : deal'[s] = deal[s] \/ deal'[s] = Idle,
         dealCalls' \in 0..MaxDealCalls,
         notes' \subseteq (DOMAIN cards) \X (1..dealCalls')
  PROVE  IInv'
<1> USE DEF IInv
<1>1. /\ cards' \in Seq(Card) /\ asked' \in Seq(Card) /\ Len(cards') = Len(cards)
      /\ DOMAIN cards' = 1..Len(cards) /\ DOMAIN asked' = 1..Len(cards)
      /\ \A k \in 1..Len(cards) : cards'[k] = IF k = i THEN c ELSE cards[k]
      /\ \A k \in 1..Len(cards) : asked'[k] = IF k = i THEN a ELSE asked[k]
  BY ExceptSeq, Typed DEF DealTypeOK
<1>2. DealTypeOK'
  BY <1>1, Typed DEF DealTypeOK, DealOf
<1>3. Pointed'
  BY <1>1, IdleDeal, Typed DEF Pointed
<1>4. OneCard'
  <2>1. memory \/ \A k \in 1..Len(cards) : cards'[k].opportunity = cards[k].opportunity
    BY <1>1
  <2>2. QED
    BY <1>1, <2>1, Typed DEF OneCard
<1>5. ChangesKept'
  <2>1. ASSUME NEW k \in 1..Len(cards)
        PROVE  /\ k \notin raced' => /\ cards'[k].stage = asked'[k].stage
                                     /\ cards'[k].reminder = asked'[k].reminder
               /\ asked'[k].closedAt => cards'[k].closedAt
    <3>1. CASE k = i
      BY <1>1, <3>1
    <3>2. CASE k # i
      BY <1>1, <3>2, Typed DEF ChangesKept
    <3>3. QED
      BY <3>1, <3>2
  <2>2. QED
    BY <1>1, <2>1 DEF ChangesKept
<1>6. QED
  BY <1>2, <1>3, <1>4, <1>5

\* The index lets no second card of an opportunity in.
LEMMA CreateDealStep ==
  ASSUME IInv, UNCHANGED deployment, NEW s \in Sellers, CreateDeal(s)
  PROVE  IInv'
<1> USE DEF IInv, deployment
<1>1. PICK card : card = Merged(Blank, deal[s].patch)
  OBVIOUS
<1>2. /\ card \in Card /\ card.closedAt = FALSE
  BY <1>1, MergedCard, BlankCard, Typed DEF DealOf, Blank
<1>3. deal' = [deal EXCEPT ![s] = Idle] /\ UNCHANGED <<notes, dealCalls, raced, memory>>
  BY DEF CreateDeal, Leave
<1>4. Idle \in DealOf(Len(cards)) /\ Idle.at = "idle"
  BY IdleDeal, Typed
<1>5. dealCalls' \in 0..MaxDealCalls /\ notes' \subseteq (DOMAIN cards) \X (1..dealCalls')
  BY <1>3 DEF DealTypeOK
<1>6. CASE Refused(card.opportunity)
  <2>1. UNCHANGED <<cards, asked>>
    BY <1>1, <1>6 DEF CreateDeal
  <2>2. QED
    BY <1>3, <1>4, <1>5, <2>1, NoCardWritten
<1>7. CASE ~Refused(card.opportunity)
  <2>1. cards' = Append(cards, card) /\ asked' = Append(asked, card)
    BY <1>1, <1>7 DEF CreateDeal
  <2>2. /\ cards' \in Seq(Card) /\ asked' \in Seq(Card) /\ Len(cards') = Len(cards) + 1
        /\ DOMAIN cards' = 1..(Len(cards) + 1) /\ DOMAIN asked' = 1..(Len(cards) + 1)
        /\ \A k \in 1..Len(cards) : cards'[k] = cards[k] /\ asked'[k] = asked[k]
        /\ cards'[Len(cards) + 1] = card /\ asked'[Len(cards) + 1] = card
    BY <1>2, <2>1, AppendProperties, LenProperties, Typed DEF DealTypeOK
  <2>3. DealTypeOK'
    <3>1. DealOf(Len(cards)) \subseteq DealOf(Len(cards'))
      BY <2>2, Typed DEF DealOf
    <3>2. deal' \in [Sellers -> DealOf(Len(cards'))]
      BY <1>3, <1>4, <3>1, Typed
    <3>3. DOMAIN cards \subseteq DOMAIN cards'
      BY <2>2, Typed
    <3>4. QED
      BY <1>3, <1>5, <2>2, <3>2, <3>3 DEF DealTypeOK, DealOf
  <2>4. Pointed'
    BY <1>3, <1>4, <2>2, Typed DEF Pointed
  <2>5. OneCard'
    <3>1. SUFFICES ASSUME NEW i \in 1..(Len(cards) + 1), NEW j \in 1..(Len(cards) + 1),
                          cards'[i].opportunity = cards'[j].opportunity, i < j,
                          ~memory
                   PROVE  cards'[i].opportunity = NoOpportunity
      <4>1. \A i, j \in 1..(Len(cards) + 1) : i # j => i < j \/ j < i
        BY Typed
      <4>2. QED
        BY <1>3, <2>2, <4>1 DEF OneCard
    <3>2. i \in 1..Len(cards)
      BY <3>1, Typed
    <3>3. CASE j \in 1..Len(cards)
      BY <2>2, <3>1, <3>2, <3>3, Typed DEF OneCard
    <3>4. CASE j = Len(cards) + 1
      BY <1>7, <2>2, <3>1, <3>2, <3>4, Typed DEF Refused, Holds
    <3>5. QED
      BY <3>3, <3>4, Typed
  <2>6. ChangesKept'
    BY <1>2, <1>3, <2>2, Typed DEF ChangesKept
  <2>7. QED
    BY <1>3, <2>3, <2>4, <2>5, <2>6
<1>8. QED
  BY <1>6, <1>7

\* A PATCH writes the card it read; what it undoes was changed since it read it.
LEMMA UpdateDealStep ==
  ASSUME IInv, UNCHANGED deployment, NEW s \in Sellers, UpdateDeal(s)
  PROVE  IInv'
<1> USE DEF IInv, deployment
<1>1. PICK i : i = deal[s].card
  OBVIOUS
<1>2. PICK patch : patch = deal[s].patch
  OBVIOUS
<1>3. PICK seen : seen = deal[s].seen
  OBVIOUS
<1>4. i \in 1..Len(cards) /\ patch \in Patch /\ seen \in Card /\ cards[i] \in Card
      /\ asked[i] \in Card
  BY <1>1, <1>2, <1>3, Typed DEF UpdateDeal, Pointed, DealOf
<1>5. PICK card : card = Merged(seen, patch)
  OBVIOUS
<1>6. /\ card \in Card
      /\ card.stage = IF patch.stage = NoOpportunity THEN seen.stage ELSE patch.stage
      /\ card.reminder = IF patch.reminder = 0 THEN seen.reminder ELSE patch.reminder
      /\ card.closedAt = seen.closedAt
  BY <1>4, <1>5, MergedCard
<1>7. PICK c : c = IF memory THEN UpdateInMemory(cards[i], card) ELSE UpdateRow(cards[i], card)
  OBVIOUS
<1>8. PICK closed \in BOOLEAN : closed = (asked[i].closedAt \/ patch.stage = "closed")
  OBVIOUS
<1>9. PICK n : n = Merged(asked[i], patch)
  OBVIOUS
<1>10. PICK a : a = [n EXCEPT !.closedAt = closed]
  OBVIOUS
<1>11. /\ cards' = [cards EXCEPT ![i] = c] /\ asked' = [asked EXCEPT ![i] = a]
      /\ raced' = (IF cards[i] = seen THEN raced ELSE raced \cup {i})
      /\ deal' = [deal EXCEPT ![s] = Idle] /\ UNCHANGED <<notes, dealCalls, memory>>
  BY <1>1, <1>2, <1>3, <1>5, <1>7, <1>10, <1>8, <1>9 DEF UpdateDeal, Ask, Leave
<1>12. /\ a \in Card
       /\ a.stage = IF patch.stage = NoOpportunity THEN asked[i].stage ELSE patch.stage
       /\ a.reminder = IF patch.reminder = 0 THEN asked[i].reminder ELSE patch.reminder
       /\ a.closedAt <=> asked[i].closedAt \/ patch.stage = "closed"
  <2>1. /\ a \in Card
        /\ a.stage = IF patch.stage = NoOpportunity THEN asked[i].stage ELSE patch.stage
        /\ a.reminder = IF patch.reminder = 0 THEN asked[i].reminder ELSE patch.reminder
        /\ a.closedAt = closed
    <3>1. /\ n \in Card
          /\ n.stage = IF patch.stage = NoOpportunity THEN asked[i].stage ELSE patch.stage
          /\ n.reminder = IF patch.reminder = 0 THEN asked[i].reminder ELSE patch.reminder
      BY <1>4, <1>9, MergedCard
    <3>2. QED
      BY <1>10, <3>1 DEF Card
  <2>2. QED
    BY <1>8, <2>1
<1>13. /\ c \in Card
       /\ memory \/ c.opportunity = cards[i].opportunity
       /\ c.stage = card.stage
       /\ c.reminder = card.reminder \/ (card.reminder = 0 /\ c.reminder = cards[i].reminder)
       /\ c.closedAt <=> cards[i].closedAt \/ card.stage = "closed"
  <2>1. CASE memory
    <3>1. PICK m : m = Merged(cards[i], card)
      OBVIOUS
    <3>2. c = [m EXCEPT !.closedAt = cards[i].closedAt \/ card.stage = "closed"]
      BY <1>7, <2>1, <3>1 DEF UpdateInMemory
    <3>3. m \in Card /\ m.stage = card.stage
          /\ m.reminder = IF card.reminder = 0 THEN cards[i].reminder ELSE card.reminder
      BY <1>4, <1>6, <3>1, MergedInMemory
    <3>4. QED
      BY <2>1, <3>2, <3>3 DEF Card
  <2>2. CASE ~memory
    <3>1. c = [card EXCEPT !.opportunity = cards[i].opportunity,
                           !.closedAt = cards[i].closedAt \/ card.stage = "closed"]
      BY <1>7, <2>2 DEF UpdateRow
    <3>2. QED
      BY <1>4, <1>6, <2>2, <3>1 DEF Card
  <2>3. QED
    BY <2>1, <2>2
<1>14. i \notin raced' => c.stage = a.stage /\ c.reminder = a.reminder
  <2>1. SUFFICES ASSUME i \notin raced' PROVE c.stage = a.stage /\ c.reminder = a.reminder
    OBVIOUS
  <2>2. cards[i] = seen /\ i \notin raced
    BY <1>11, <2>1
  <2>3. seen.stage = asked[i].stage /\ seen.reminder = asked[i].reminder
    BY <1>4, <2>2, Typed DEF ChangesKept
  <2>4. QED
    BY <1>6, <1>12, <1>13, <2>2, <2>3
<1>15. a.closedAt => c.closedAt
  <2>1. patch.stage = "closed" => card.stage = "closed"
    BY <1>6, DealsAssumption
  <2>2. asked[i].closedAt => cards[i].closedAt
    BY <1>4, Typed DEF ChangesKept
  <2>3. QED
    BY <1>12, <1>13, <2>1, <2>2
<1>16. /\ deal' \in [Sellers -> DealOf(Len(cards))]
       /\ \A r \in Sellers : deal'[r] = deal[r] \/ deal'[r] = Idle
  BY <1>11, IdleDeal, Typed
<1>17. dealCalls' \in 0..MaxDealCalls /\ notes' \subseteq (DOMAIN cards) \X (1..dealCalls')
  BY <1>11 DEF DealTypeOK
<1>18. raced \subseteq raced' /\ raced' \subseteq raced \cup {i}
  BY <1>11
<1>19. memory \/ c.opportunity = cards[i].opportunity
  BY <1>13
<1>20. c \in Card /\ a \in Card
  BY <1>12, <1>13
<1>21. cards' = [cards EXCEPT ![i] = c] /\ asked' = [asked EXCEPT ![i] = a] /\ memory' = memory
  BY <1>11
<1>22. QED
  BY <1>4, <1>14, <1>15, <1>16, <1>17, <1>18, <1>19, <1>20, <1>21, CardWritten

\* The second statement of a follow-up writes the reminder of the card, or fails.
LEMMA RemindStep ==
  ASSUME IInv, UNCHANGED deployment, NEW s \in Sellers, Remind(s)
  PROVE  IInv'
<1> USE DEF IInv, deployment
<1>1. PICK i : i = deal[s].card
  OBVIOUS
<1>2. PICK patch : patch = deal[s].patch
  OBVIOUS
<1>3. /\ i \in 1..Len(cards) /\ patch \in Patch /\ cards[i] \in Card /\ asked[i] \in Card
      /\ patch.opportunity = NoOpportunity /\ patch.stage = NoOpportunity
  BY <1>1, <1>2, Typed DEF Remind, Pointed, DealOf
<1>4. PICK m : m = Merged(cards[i], patch)
  OBVIOUS
<1>5. /\ m \in Card /\ m.opportunity = cards[i].opportunity /\ m.stage = cards[i].stage
      /\ m.reminder = IF patch.reminder = 0 THEN cards[i].reminder ELSE patch.reminder
      /\ m.closedAt = cards[i].closedAt
  BY <1>3, <1>4, MergedCard
<1>6. PICK closed \in BOOLEAN : closed = (asked[i].closedAt \/ patch.stage = "closed")
  OBVIOUS
<1>7. PICK n : n = Merged(asked[i], patch)
  OBVIOUS
<1>8. PICK a : a = [n EXCEPT !.closedAt = closed]
  OBVIOUS
<1>9. /\ a \in Card /\ a.stage = asked[i].stage
      /\ a.reminder = IF patch.reminder = 0 THEN asked[i].reminder ELSE patch.reminder
      /\ a.closedAt <=> asked[i].closedAt
  <2>1. /\ a \in Card
        /\ a.stage = IF patch.stage = NoOpportunity THEN asked[i].stage ELSE patch.stage
        /\ a.reminder = IF patch.reminder = 0 THEN asked[i].reminder ELSE patch.reminder
        /\ a.closedAt = closed
    <3>1. /\ n \in Card
          /\ n.stage = IF patch.stage = NoOpportunity THEN asked[i].stage ELSE patch.stage
          /\ n.reminder = IF patch.reminder = 0 THEN asked[i].reminder ELSE patch.reminder
      BY <1>3, <1>7, MergedCard
    <3>2. QED
      BY <1>8, <3>1 DEF Card
  <2>2. patch.stage # "closed"
    BY <1>3, DealsAssumption
  <2>3. QED
    BY <1>6, <1>3, <2>1, <2>2
<1>10. /\ asked' = [asked EXCEPT ![i] = a] /\ deal' = [deal EXCEPT ![s] = Idle]
      /\ UNCHANGED <<notes, dealCalls, memory>>
      /\ \/ cards' = [cards EXCEPT ![i] = m] /\ raced' = raced
         \/ raced' = raced \cup {i} /\ cards' = cards
  BY <1>1, <1>2, <1>4, <1>8, <1>6, <1>7 DEF Remind, Ask, Leave
<1>11. /\ deal' \in [Sellers -> DealOf(Len(cards))]
      /\ \A r \in Sellers : deal'[r] = deal[r] \/ deal'[r] = Idle
  BY <1>10, IdleDeal, Typed
<1>12. dealCalls' \in 0..MaxDealCalls /\ notes' \subseteq (DOMAIN cards) \X (1..dealCalls')
  BY <1>10 DEF DealTypeOK
<1>13. asked[i].closedAt => cards[i].closedAt
  BY <1>3, Typed DEF ChangesKept
<1>14. CASE cards' = [cards EXCEPT ![i] = m] /\ raced' = raced
  <2>1. i \notin raced' => m.stage = a.stage /\ m.reminder = a.reminder
    BY <1>3, <1>5, <1>9, <1>14, Typed DEF ChangesKept
  <2>2. a.closedAt => m.closedAt
    BY <1>5, <1>9, <1>13
  <2>3. QED
    BY <1>3, <1>5, <1>9, <1>10, <1>11, <1>12, <1>14, <2>1, <2>2, CardWritten
<1>15. CASE raced' = raced \cup {i} /\ cards' = cards
  <2>1. cards' = [cards EXCEPT ![i] = cards[i]]
    BY <1>3, <1>15 DEF DealTypeOK
  <2>2. a.closedAt => cards[i].closedAt
    BY <1>9, <1>13
  <2>3. QED
    BY <1>3, <1>9, <1>10, <1>11, <1>12, <1>15, <2>1, <2>2, CardWritten
<1>16. QED
  BY <1>10, <1>14, <1>15

LEMMA AddNoteInMemoryStep ==
  ASSUME IInv, UNCHANGED deployment, NEW s \in Sellers, NEW i \in DOMAIN cards,
         NEW dated \in BOOLEAN, AddNoteInMemory(s, i, dated)
  PROVE  IInv'
<1> USE DEF IInv, deployment
<1>1. PICK date : date = IF dated THEN dealCalls' ELSE 0
  OBVIOUS
<1>2. /\ Arrive(s) /\ notes' = notes \cup {<<i, dealCalls'>>}
      /\ UNCHANGED <<deal, raced, memory>>
  BY DEF AddNoteInMemory
<1>3. /\ dealCalls' \in 1..MaxDealCalls /\ date \in 0..MaxDealCalls
      /\ notes \subseteq (DOMAIN cards) \X (1..dealCalls')
  BY <1>1, <1>2, Arrived, DealsAssumption
<1>4. i \in 1..Len(cards) /\ cards[i] \in Card /\ asked[i] \in Card
  BY Typed
<1>5. PICK c : c = [cards[i] EXCEPT !.reminder = date]
  OBVIOUS
<1>6. PICK a : a = [asked[i] EXCEPT !.reminder = date]
  OBVIOUS
<1>7. cards' = [cards EXCEPT ![i] = c] /\ asked' = [asked EXCEPT ![i] = a]
  BY <1>1, <1>5, <1>6 DEF AddNoteInMemory
<1>8. /\ c \in Card /\ c.opportunity = cards[i].opportunity /\ c.stage = cards[i].stage
      /\ c.reminder = date /\ c.closedAt = cards[i].closedAt
  BY <1>3, <1>4, <1>5 DEF Card
<1>9. /\ a \in Card /\ a.stage = asked[i].stage /\ a.reminder = date
      /\ a.closedAt = asked[i].closedAt
  BY <1>3, <1>4, <1>6 DEF Card
<1>10. /\ i \notin raced' => c.stage = a.stage /\ c.reminder = a.reminder
       /\ a.closedAt => c.closedAt
  BY <1>2, <1>8, <1>9, Typed DEF ChangesKept
<1>11. /\ deal' \in [Sellers -> DealOf(Len(cards))] /\ \A r \in Sellers : deal'[r] = deal[r]
  BY <1>2, Typed
<1>12. dealCalls' \in 0..MaxDealCalls /\ notes' \subseteq (DOMAIN cards) \X (1..dealCalls')
  BY <1>2, <1>3
<1>13. QED
  BY <1>2, <1>4, <1>7, <1>8, <1>9, <1>10, <1>11, <1>12, CardWritten

-----------------------------------------------------------------------------
(* The theorems.                                                           *)

LEMMA NextIInv ==
  IInv /\ [DealNext /\ UNCHANGED deployment]_<<dealVars, deployment>> => IInv'
<1> SUFFICES ASSUME IInv, [DealNext /\ UNCHANGED deployment]_<<dealVars, deployment>>
             PROVE  IInv'
  OBVIOUS
<1>1. ASSUME UNCHANGED deployment, NEW s \in Sellers,
             \/ \E body \in Bodies : DealByOpportunity(s, body)
             \/ \E i \in DOMAIN cards, body \in Bodies : Deal(s, i, body)
             \/ \E i \in DOMAIN cards, dated \in BOOLEAN : AddNote(s, i, dated)
      PROVE  IInv'
  BY <1>1, ReadSteps
<1>2. ASSUME UNCHANGED deployment, NEW s \in Sellers,
             CreateDeal(s) \/ UpdateDeal(s) \/ Remind(s)
      PROVE  IInv'
  BY <1>2, CreateDealStep, UpdateDealStep, RemindStep
<1>3. ASSUME UNCHANGED deployment, NEW s \in Sellers, NEW i \in DOMAIN cards,
             NEW dated \in BOOLEAN, AddNoteInMemory(s, i, dated)
      PROVE  IInv'
  BY <1>3, AddNoteInMemoryStep
<1>4. CASE UNCHANGED <<dealVars, deployment>>
  BY <1>4 DEF dealVars, deployment, IInv, DealTypeOK, Pointed, OneCard, ChangesKept
<1>5. QED
  BY <1>1, <1>2, <1>3, <1>4 DEF DealNext

LEMMA Invariance == DealSpec => []IInv
BY InitIInv, NextIInv, PTL DEF DealSpec

\* Types of the cards, the notes and the requests, for all values of the constants.
THEOREM TypeCorrect == DealSpec => []DealTypeOK
BY Invariance, PTL DEF IInv

\* In PostgreSQL an opportunity has one card: two requests may both have found
\* none, the index refuses the second, and no PATCH moves a card to another
\* opportunity.
THEOREM OneCardPerOpportunity == DealSpec => []OneCard
BY Invariance, PTL DEF IInv

\* A change of a card stays unless a PATCH that had read the card before it, or the
\* failure of a follow-up's second statement, undoes it; a closing date always stays.
THEOREM ChangesStay == DealSpec => []ChangesKept
BY Invariance, PTL DEF IInv
===============================================================================
