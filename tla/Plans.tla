-------------------------------- MODULE Plans -------------------------------
(***************************************************************************)
(* The limits of an organization's plan in the gateway: the middleware     *)
(* that admits a request, the profile handlers and the monthly allowance   *)
(* of explanations (httpapi/server.go over store/postgres.go).  A request  *)
(* carries the subscription it was admitted with to its end.  One that     *)
(* fails or is abandoned takes no further step.  Outside cloud mode nothing *)
(* is limited.                                                             *)
(***************************************************************************)
EXTENDS Integers, Sequences, FiniteSets, FiniteSetsExt, Deployment

CONSTANTS
  Visitors,   \* requests that may overlap
  Plan,       \* billing.Plan: plan |-> [profiles, monthlyAI]
  MaxVisits,  \* bound: requests
  MaxRenewals \* bound: changes of the subscription and of the month

ASSUME PlansAssumption ==
  /\ \A p \in DOMAIN Plan : Plan[p].profiles \in Nat \ {0} /\ Plan[p].monthlyAI \in Nat \ {0}
  /\ IsFiniteSet(Visitors)
  /\ MaxVisits \in Nat /\ MaxRenewals \in Nat

VARIABLES
  subscription, \* [plan, active] as the billing component leaves it
  profiles,     \* tenancy.commercial_profiles: ids
  used,         \* usage_counters of the month, "ai_analysis"
  visit,        \* visit[v]: where the request is, its entitlement, its profile
  visits,       \* requests so far: a new profile's id is its request's number
  renewals,     \* changes of subscription and month so far
  topPlan,      \* history: the largest profile limit a request was admitted with
  grants        \* history: entitlements of the month's admitted explanations

planVars == <<subscription, profiles, used, visit, visits, renewals, topPlan, grants>>

Resting == [at |-> "idle", limits |-> [profiles |-> 1, monthlyAI |-> 1], profile |-> 0]

PlanInit ==
  /\ subscription \in [plan : DOMAIN Plan, active : {TRUE}]
  /\ profiles = {}
  /\ used = 0
  /\ visit = [v \in Visitors |-> Resting]
  /\ visits = 0
  /\ renewals = 0
  /\ topPlan = 1
  /\ grants = <<>>

\* The webhook, the reconcilers and the operators.
Renew ==
  /\ renewals < MaxRenewals
  /\ renewals' = renewals + 1
  /\ subscription' \in [plan : DOMAIN Plan, active : BOOLEAN] \ {subscription}
  /\ UNCHANGED <<profiles, used, visit, visits, topPlan, grants>>

\* The period of the counter is the month of the statement.
NewMonth ==
  /\ renewals < MaxRenewals
  /\ renewals' = renewals + 1
  /\ used' = 0
  /\ grants' = <<>>
  /\ UNCHANGED <<subscription, profiles, visit, visits, topPlan>>

\* middleware: in cloud mode the subscription has to be active, and the handler sees
\* the one read here (entitlement).
Admit(v, handler) ==
  /\ visit[v].at = "idle"
  /\ visits < MaxVisits
  /\ visits' = visits + 1
  /\ mode = "cloud" => subscription.active
  /\ visit' = [visit EXCEPT ![v] =
       [at |-> handler, limits |-> Plan[subscription.plan], profile |-> visits + 1]]
  /\ topPlan' = Max({topPlan, Plan[subscription.plan].profiles})
  /\ UNCHANGED <<subscription, profiles, used, renewals, grants>>

Leaves(v) == visit' = [visit EXCEPT ![v] = Resting]
Saves(v, id) == visit' = [visit EXCEPT ![v].at = "put", ![v].profile = id]

\* Mutant: one profile more than the plan has.
OneTooMany(v) == mode # "cloud" \/ Cardinality(profiles) <= visit[v].limits.profiles

HasRoom(v) == mode # "cloud" \/ Cardinality(profiles) < visit[v].limits.profiles

\* createProfile counts, and stores what it has counted a place for.
CountProfiles(v) ==
  /\ visit[v].at = "createProfile"
  /\ IF HasRoom(v) THEN Saves(v, visit[v].profile) ELSE Leaves(v)
  /\ UNCHANGED <<subscription, profiles, used, visits, renewals, topPlan, grants>>

\* updateProfile reads the profile it will write.
LoadProfile(v) ==
  /\ visit[v].at = "updateProfile"
  /\ \E id \in profiles : Saves(v, id)
  /\ UNCHANGED <<subscription, profiles, used, visits, renewals, topPlan, grants>>

\* INSERT ... ON CONFLICT (id) DO UPDATE: a profile deleted since it was read is
\* there again.
PutProfile(v) ==
  /\ visit[v].at = "put"
  /\ profiles' = profiles \cup {visit[v].profile}
  /\ Leaves(v)
  /\ UNCHANGED <<subscription, used, visits, renewals, topPlan, grants>>

DeleteProfile(v) ==
  /\ visit[v].at = "deleteProfile"
  /\ \E id \in profiles : profiles' = profiles \ {id}
  /\ Leaves(v)
  /\ UNCHANGED <<subscription, used, visits, renewals, topPlan, grants>>

\* Mutant: the row is compared with the limit before it is counted up.
AllowedAtLimit(v) == used <= visit[v].limits.monthlyAI

\* The row of the month is inserted, or counted up below the limit.
Allowed(v) == used = 0 \/ used < visit[v].limits.monthlyAI

\* analyzeOpportunity, once profile and opportunity match: one statement of
\* ConsumeUsage decides and counts.  The explanation is asked for afterwards and
\* its failure gives nothing back.
ConsumeUsage(v) ==
  /\ visit[v].at = "analyzeOpportunity"
  /\ profiles # {}
  /\ mode = "cloud"
  /\ IF Allowed(v)
       THEN used' = used + 1 /\ grants' = Append(grants, visit[v].limits.monthlyAI)
       ELSE UNCHANGED <<used, grants>>
  /\ Leaves(v)
  /\ UNCHANGED <<subscription, profiles, visits, renewals, topPlan>>

Handlers == {"createProfile", "updateProfile", "deleteProfile", "analyzeOpportunity"}

PlanNext ==
  \/ Renew
  \/ NewMonth
  \/ \E v \in Visitors :
       \/ \E h \in Handlers : Admit(v, h)
       \/ CountProfiles(v)
       \/ LoadProfile(v)
       \/ PutProfile(v)
       \/ DeleteProfile(v)
       \/ ConsumeUsage(v)

PlanSpec == Deployed /\ PlanInit /\ [][PlanNext /\ UNCHANGED deployment]_<<planVars, deployment>>

-----------------------------------------------------------------------------
PlanTypeOK ==
  /\ subscription \in [plan : DOMAIN Plan, active : BOOLEAN]
  /\ profiles \subseteq 1..visits
  /\ used \in 0..visits
  /\ \A v \in Visitors :
       /\ visit[v].at \in Handlers \cup {"idle", "put"}
       /\ visit[v].profile \in 0..visits
       /\ visit[v].limits \in {Plan[p] : p \in DOMAIN Plan} \cup {Resting.limits}
  /\ visits \in 0..MaxVisits
  /\ renewals \in 0..MaxRenewals
  /\ grants \in Seq(Nat)

\* Profiles that are stored or about to be.
Claimed == profiles \cup {visit[v].profile : v \in {w \in Visitors : visit[w].at = "put"}}

\* The limit on profiles gives way to overlapping requests by at most the number
\* of the others: of two creations that counted before either stored, both store,
\* and an update stores again what was deleted since it read it; but the excess
\* does not grow from one round to the next.
ProfilesBounded ==
  mode = "cloud" => Cardinality(Claimed) <= topPlan + Cardinality(Visitors) - 1

\* The n-th explanation of a month was allowed n or more by the plan its request
\* was admitted with, also when the plan changed under way and requests overlap.
QuotaHeld == \A n \in DOMAIN grants : n <= grants[n]
=============================================================================
