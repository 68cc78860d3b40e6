------------------------------ MODULE Checkout ------------------------------
(***************************************************************************)
(* How an organization comes by its Stripe customer: checkout sessions are *)
(* opened with the customer that was read, also where the read has failed, *)
(* Stripe makes a new one for a session without, and its                   *)
(* checkout.session.completed events arrive in any order, more than once   *)
(* or never.  The subscription events of the same payments are the subject *)
(* of Subscription.  Stripe is outside src/.                               *)
(***************************************************************************)
EXTENDS Integers, FiniteSets, Sequences

CONSTANTS
  Buyers,      \* requests of members that may overlap
  MaxSessions, \* bound: checkout sessions
  MaxWebhooks  \* bound: deliveries of events

ASSUME CheckoutAssumption == MaxSessions \in Nat /\ MaxWebhooks \in Nat

NoCustomer == 0

VARIABLES
  customer,   \* tenancy.organizations.stripe_customer_id
  buyer,      \* buyer[b]: the customer a request has read
  checkouts,  \* Stripe's sessions: the customer it was given, the one it has paid
  deliveries,
  informed    \* history: sessions whose request has read the customer after a delivery

checkoutVars == <<customer, buyer, checkouts, deliveries, informed>>

Away == [at |-> "away", customer |-> NoCustomer, told |-> FALSE]

CheckoutInit ==
  /\ customer = NoCustomer
  /\ buyer = [b \in Buyers |-> Away]
  /\ checkouts = <<>>
  /\ deliveries = 0
  /\ informed = {}

PaidSessions == {i \in DOMAIN checkouts : checkouts[i].paidBy # NoCustomer}
Customers == {checkouts[i].paidBy : i \in PaidSessions}

\* billingCheckout reads the customer first.
OrganizationStripeCustomer(b) ==
  /\ buyer[b].at = "away"
  /\ buyer' = [buyer EXCEPT ![b] = [at |-> "checkout", customer |-> customer, told |-> deliveries > 0]]
  /\ UNCHANGED <<customer, checkouts, deliveries, informed>>

\* The error of that read is dropped: the request goes on without a customer.
FailedRead(b) ==
  /\ buyer[b].at = "away"
  /\ buyer' = [buyer EXCEPT ![b] = [at |-> "checkout", customer |-> NoCustomer, told |-> FALSE]]
  /\ UNCHANGED <<customer, checkouts, deliveries, informed>>

\* Mutant: the customer is not sent along.
ForgetCustomer(b) == NoCustomer

SentCustomer(b) == buyer[b].customer

CreateCheckoutSession(b) ==
  /\ buyer[b].at = "checkout"
  /\ Len(checkouts) < MaxSessions
  /\ checkouts' = Append(checkouts, [given |-> SentCustomer(b), paidBy |-> NoCustomer])
  /\ informed' = IF buyer[b].told THEN informed \cup {Len(checkouts')} ELSE informed
  /\ buyer' = [buyer EXCEPT ![b] = Away]
  /\ UNCHANGED <<customer, deliveries>>

\* The request ends without its call.
GiveUp(b) ==
  /\ buyer[b].at = "checkout"
  /\ buyer' = [buyer EXCEPT ![b] = Away]
  /\ UNCHANGED <<customer, checkouts, deliveries, informed>>

\* The member pays; customers are numbered by the session that made them.
Pay(i) ==
  /\ checkouts[i].paidBy = NoCustomer
  /\ checkouts' = [checkouts EXCEPT ![i].paidBy =
       IF checkouts[i].given = NoCustomer THEN i ELSE checkouts[i].given]
  /\ UNCHANGED <<customer, buyer, deliveries, informed>>

\* handleCheckoutCompleted: every delivery of an event writes its customer.
SetOrganizationStripeCustomer(i) ==
  /\ i \in PaidSessions
  /\ deliveries < MaxWebhooks
  /\ deliveries' = deliveries + 1
  /\ customer' = checkouts[i].paidBy
  /\ UNCHANGED <<buyer, checkouts, informed>>

CheckoutNext ==
  \/ \E b \in Buyers :
       \/ OrganizationStripeCustomer(b)
       \/ FailedRead(b)
       \/ CreateCheckoutSession(b)
       \/ GiveUp(b)
  \/ \E i \in DOMAIN checkouts : Pay(i) \/ SetOrganizationStripeCustomer(i)

CheckoutSpec == CheckoutInit /\ [][CheckoutNext]_checkoutVars

-----------------------------------------------------------------------------
CheckoutTypeOK ==
  /\ customer \in {NoCustomer} \cup Customers
  /\ buyer \in [Buyers -> [at : {"away", "checkout"},
                           customer : {NoCustomer} \cup Customers, told : BOOLEAN]]
  /\ checkouts \in Seq([given : 0..MaxSessions, paidBy : 0..MaxSessions])
  /\ Len(checkouts) <= MaxSessions /\ informed \subseteq DOMAIN checkouts
  /\ deliveries \in 0..MaxWebhooks

\* Every customer Stripe has for the organization is owed to a paid session of its
\* own whose request had not learnt of one: it read before the first event arrived,
\* or its read failed.  All other payments are of one of these customers, however
\* the events that name them are repeated and reordered.
OneCustomer == Cardinality(Customers) <= Cardinality(PaidSessions \ informed)
=============================================================================
