-------------------------------- MODULE Deals -------------------------------
(***************************************************************************)
(* The sales pipeline of one organization: the deal handlers of            *)
(* httpapi/account_handlers.go over either store.  A handler is split      *)
(* where it calls the store, and the follow-up once more between the two   *)
(* statements of its store call.  A card's title, buyer and value are      *)
(* merged like its stage and are not kept.                                 *)
(***************************************************************************)
EXTENDS Integers, Sequences, Deployment

CONSTANTS
  Sellers,       \* requests that may overlap
  Opportunities, \* opportunity ids
  NoOpportunity, \* a card of no opportunity, or a field a PATCH leaves out
  MaxDealCalls   \* bound: requests

ASSUME DealsAssumption ==
  MaxDealCalls \in Nat /\ NoOpportunity \notin Opportunities \cup {"open", "closed"}

VARIABLES
  cards,     \* crm.deals, in the order of their creation
  notes,     \* crm.deal_followups: <<card, request>>
  deal,      \* deal[s]: the request s is working on
  dealCalls, \* requests so far: the newest one's number
  asked,     \* history: asked[i]: card i as it was asked to be; closedAt: by a PATCH
  raced      \* history: cards written from a stale copy, or whose reminder failed

dealVars == <<cards, notes, deal, dealCalls, asked, raced>>

\* "open" stands for the stages before "won" and "lost", which behave alike.
Stages == {"open", "closed"}
Optional(S) == S \cup {NoOpportunity}

\* A reminder is the number of the request that asked for it; 0 is none.
Card == [opportunity : Optional(Opportunities), stage : Stages,
         reminder : 0..MaxDealCalls, closedAt : BOOLEAN]
Patch == [opportunity : Optional(Opportunities), stage : Optional(Stages),
          reminder : 0..MaxDealCalls]

Empty == [opportunity |-> NoOpportunity, stage |-> NoOpportunity, reminder |-> 0]
Blank == [opportunity |-> NoOpportunity, stage |-> "open", reminder |-> 0, closedAt |-> FALSE]
Idle == [at |-> "idle", card |-> 0, patch |-> Empty, seen |-> Blank]

DealInit ==
  /\ cards = <<>>
  /\ notes = {}
  /\ deal = [s \in Sellers |-> Idle]
  /\ dealCalls = 0
  /\ asked = <<>>
  /\ raced = {}

\* The body of a request: the fields it sets, of which a date is its own.
Bodies == {[opportunity |-> o, stage |-> g, reminder |-> n] :
  o \in Optional(Opportunities), g \in Optional(Stages), n \in {0, dealCalls + 1}}

Arrive(s) ==
  /\ deal[s].at = "idle"
  /\ dealCalls < MaxDealCalls
  /\ dealCalls' = dealCalls + 1

Leave(s) == deal' = [deal EXCEPT ![s] = Idle]
Holds(o) == o # NoOpportunity /\ \E i \in DOMAIN cards : cards[i].opportunity = o

\* createDeal answers the card the opportunity has already, or goes on.
DealByOpportunity(s, body) ==
  /\ Arrive(s)
  /\ ~Holds(body.opportunity)
  /\ deal' = [deal EXCEPT ![s] = [Idle EXCEPT !.at = "create", !.patch = body]]
  /\ UNCHANGED <<cards, notes, asked, raced>>

\* mergeDealPatch: what the body leaves out stays as it was read.
Merged(card, patch) ==
  [card EXCEPT
    !.opportunity = IF patch.opportunity = NoOpportunity THEN @ ELSE patch.opportunity,
    !.stage = IF patch.stage = NoOpportunity THEN @ ELSE patch.stage,
    !.reminder = IF patch.reminder = 0 THEN @ ELSE patch.reminder]

Ask(i, patch) ==
  asked' = [asked EXCEPT ![i] =
              [Merged(asked[i], patch) EXCEPT
                 !.closedAt = asked[i].closedAt \/ patch.stage = "closed"]]

\* Mutant: without the unique index of migration 009.
NoIndex(o) == FALSE

\* The unique index; the memory store has nothing of the kind.
Refused(o) == ~memory /\ Holds(o)

\* CreateDeal; a card created in its last stage gets no closing date.  A refused
\* insert is answered with an error.
CreateDeal(s) ==
  LET card == Merged(Blank, deal[s].patch)
  IN  /\ deal[s].at = "create"
      /\ Leave(s)
      /\ IF Refused(card.opportunity)
           THEN UNCHANGED <<cards, asked>>
           ELSE /\ cards' = Append(cards, card)
                /\ asked' = Append(asked, card)
      /\ UNCHANGED <<notes, dealCalls, raced>>

\* updateDeal reads the card ...
Deal(s, i, body) ==
  /\ Arrive(s)
  /\ deal' = [deal EXCEPT ![s] =
                [at |-> "update", card |-> i, patch |-> body, seen |-> cards[i]]]
  /\ UNCHANGED <<cards, notes, asked, raced>>

\* Mutant: closed_at is written as it was read.
RowClosedAsRead(current, card) ==
  [card EXCEPT !.opportunity = current.opportunity, !.closedAt = @ \/ card.stage = "closed"]

\* Mutant: a PATCH without a date clears the reminder.
RowNoReminder(current, card) ==
  [card EXCEPT !.opportunity = current.opportunity, !.reminder = 0,
               !.closedAt = current.closedAt \/ card.stage = "closed"]

\* ... and writes it back: PostgreSQL every column but the opportunity,
UpdateRow(current, card) ==
  [card EXCEPT !.opportunity = current.opportunity,
               !.closedAt = current.closedAt \/ card.stage = "closed"]

\* and memory the fields that are set, over the card of the moment.
UpdateInMemory(current, card) ==
  [Merged(current, card) EXCEPT !.closedAt = current.closedAt \/ card.stage = "closed"]

UpdateDeal(s) ==
  LET i == deal[s].card
      card == Merged(deal[s].seen, deal[s].patch)
  IN  /\ deal[s].at = "update"
      /\ cards' = [cards EXCEPT ![i] =
           IF memory THEN UpdateInMemory(cards[i], card) ELSE UpdateRow(cards[i], card)]
      /\ Ask(i, deal[s].patch)
      /\ raced' = IF cards[i] = deal[s].seen THEN raced ELSE raced \cup {i}
      /\ Leave(s)
      /\ UNCHANGED <<notes, dealCalls>>

\* addDealFollowUp: the note first, a statement of its own in PostgreSQL.
AddNote(s, i, dated) ==
  /\ Arrive(s)
  /\ ~memory
  /\ notes' = notes \cup {<<i, dealCalls'>>}
  /\ deal' = [deal EXCEPT ![s] =
       [Idle EXCEPT !.at = "remind", !.card = i,
                    !.patch = [Empty EXCEPT !.reminder = IF dated THEN dealCalls' ELSE 0]]]
  /\ UNCHANGED <<cards, asked, raced>>

\* Then the card's reminder, kept when the note has no date; its error is not
\* looked at.
Remind(s) ==
  LET i == deal[s].card
  IN  /\ deal[s].at = "remind"
      /\ Ask(i, deal[s].patch)
      /\ Leave(s)
      /\ \/ cards' = [cards EXCEPT ![i] = Merged(cards[i], deal[s].patch)] /\ UNCHANGED raced
         \/ raced' = raced \cup {i} /\ UNCHANGED cards
      /\ UNCHANGED <<notes, dealCalls>>

\* The memory store does both under its lock, and a note without a date clears
\* the reminder.
AddNoteInMemory(s, i, dated) ==
  LET date == IF dated THEN dealCalls' ELSE 0
  IN  /\ Arrive(s)
      /\ memory
      /\ notes' = notes \cup {<<i, dealCalls'>>}
      /\ cards' = [cards EXCEPT ![i].reminder = date]
      /\ asked' = [asked EXCEPT ![i].reminder = date]
      /\ UNCHANGED <<deal, raced>>

DealNext ==
  \E s \in Sellers :
    \/ \E body \in Bodies : DealByOpportunity(s, body)
    \/ CreateDeal(s)
    \/ \E i \in DOMAIN cards, body \in Bodies : Deal(s, i, body)
    \/ UpdateDeal(s)
    \/ \E i \in DOMAIN cards, dated \in BOOLEAN :
         AddNote(s, i, dated) \/ AddNoteInMemory(s, i, dated)
    \/ Remind(s)

DealSpec == Deployed /\ DealInit /\ [][DealNext /\ UNCHANGED deployment]_<<dealVars, deployment>>

-----------------------------------------------------------------------------
DealTypeOK ==
  /\ cards \in Seq(Card)
  /\ notes \subseteq (DOMAIN cards) \X (1..dealCalls)
  /\ deal \in [Sellers -> [at : {"idle", "create", "update", "remind"},
                           card : 0..Len(cards), patch : Patch, seen : Card]]
  /\ dealCalls \in 0..MaxDealCalls
  /\ asked \in Seq(Card) /\ DOMAIN asked = DOMAIN cards
  /\ raced \subseteq DOMAIN cards

\* In PostgreSQL an opportunity has one card, however the requests that create
\* and change cards overlap: createDeal looks and then inserts, and two requests
\* may both find nothing.
OneCard ==
  \A i, j \in DOMAIN cards :
    cards[i].opportunity = cards[j].opportunity /\ i # j =>
      cards[i].opportunity = NoOpportunity \/ memory

\* What a request changed stays changed until another one asks otherwise.  Only a
\* PATCH that read the card before somebody else's change can undo it, since it
\* writes the whole card, and only a failed second statement loses a reminder.
\* The closing date is not lost even then, nor when a card is opened again.
ChangesKept ==
  \A i \in DOMAIN cards :
    /\ i \notin raced => /\ cards[i].stage = asked[i].stage
                        /\ cards[i].reminder = asked[i].reminder
    /\ asked[i].closedAt => cards[i].closedAt
=============================================================================
