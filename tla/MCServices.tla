----------------------------- MODULE MCServices -----------------------------
(***************************************************************************)
(* The parts of the backend that share no state with one another, each     *)
(* checked by itself: a behaviour runs the part it starts with.  Their     *)
(* variables are disjoint, so a state of all parts together is a tuple of  *)
(* states found here.                                                      *)
(***************************************************************************)
EXTENDS Deals, Plans, Paging, KeyCache, Limiter, Operators, Pncp, Checkout, Smtp

VARIABLE part

\* essential and pro, smaller.
MCPlan == [essential |-> [profiles |-> 1, monthlyAI |-> 1],
           pro |-> [profiles |-> 2, monthlyAI |-> 2]]

\* The initial choices of a part are made where it runs.
Init ==
  /\ part \in {"deals", "plans", "paging", "keys", "limiter", "operators", "pncp",
               "checkout", "smtp"}
  /\ Deployed
  /\ part \notin {"deals", "paging", "plans"} => mode = "demo" /\ ~memory
  /\ part \in {"deals", "paging"} => mode = "demo"
  /\ part = "plans" => mode # "demo"
  /\ DealInit
  /\ PlanInit
  /\ part # "plans" => subscription.plan = "pro"
  /\ PageInit
  /\ part # "paging" => dates = [n \in Notices |-> 0] /\ ~filtered
  /\ KeyInit
  /\ LimiterInit
  /\ OperatorInit
  /\ part # "operators" => ~apiKey
  /\ PncpInit
  /\ part # "pncp" => lists["fallback"] = <<>> /\ ~hasFallback /\ limit = 0
                      /\ lists["primary"] = SetToSeq(Publications)
  /\ CheckoutInit
  /\ SmtpInit
  /\ part # "smtp" => tlsMode = "auto" /\ host = "none" /\ ~user /\ ~pass /\ ~starttls

Services == <<dealVars, planVars, pageVars, keyVars, limiterVars, operatorVars, pncpVars,
              checkoutVars, smtpVars>>

DealStep ==
  /\ part = "deals" /\ DealNext
  /\ UNCHANGED <<part, deployment, planVars, pageVars, keyVars, limiterVars, operatorVars,
                 pncpVars, checkoutVars, smtpVars>>
PlanStep ==
  /\ part = "plans" /\ PlanNext
  /\ UNCHANGED <<part, deployment, dealVars, pageVars, keyVars, limiterVars, operatorVars,
                 pncpVars, checkoutVars, smtpVars>>
PageStep ==
  /\ part = "paging" /\ PageNext
  /\ UNCHANGED <<part, deployment, dealVars, planVars, keyVars, limiterVars, operatorVars,
                 pncpVars, checkoutVars, smtpVars>>
KeyStep ==
  /\ part = "keys" /\ KeyNext
  /\ UNCHANGED <<part, deployment, dealVars, planVars, pageVars, limiterVars, operatorVars,
                 pncpVars, checkoutVars, smtpVars>>
LimiterStep ==
  /\ part = "limiter" /\ LimiterNext
  /\ UNCHANGED <<part, deployment, dealVars, planVars, pageVars, keyVars, operatorVars,
                 pncpVars, checkoutVars, smtpVars>>
OperatorStep ==
  /\ part = "operators" /\ OperatorNext
  /\ UNCHANGED <<part, deployment, dealVars, planVars, pageVars, keyVars, limiterVars,
                 pncpVars, checkoutVars, smtpVars>>
PncpStep ==
  /\ part = "pncp" /\ PncpNext
  /\ UNCHANGED <<part, deployment, dealVars, planVars, pageVars, keyVars, limiterVars,
                 operatorVars, checkoutVars, smtpVars>>
CheckoutStep ==
  /\ part = "checkout" /\ CheckoutNext
  /\ UNCHANGED <<part, deployment, dealVars, planVars, pageVars, keyVars, limiterVars,
                 operatorVars, pncpVars, smtpVars>>
SmtpStep ==
  /\ part = "smtp" /\ SmtpNext
  /\ UNCHANGED <<part, deployment, dealVars, planVars, pageVars, keyVars, limiterVars,
                 operatorVars, pncpVars, checkoutVars>>

Next ==
  DealStep \/ PlanStep \/ PageStep \/ KeyStep \/ LimiterStep \/ OperatorStep \/ PncpStep
    \/ CheckoutStep \/ SmtpStep

Spec == Init /\ [][Next]_<<part, deployment, Services>>

\* Every variable of every part keeps its type.
TypeOK ==
  /\ DealTypeOK /\ PlanTypeOK /\ PageTypeOK /\ KeyTypeOK /\ LimiterTypeOK
  /\ OperatorTypeOK /\ PncpTypeOK /\ CheckoutTypeOK /\ SmtpTypeOK
=============================================================================
