------------------------------ MODULE Limiter -------------------------------
(***************************************************************************)
(* The limiter of the public account routes (authRateLimiter.allow) as one *)
(* address meets it on one route: a fixed window in the memory of one      *)
(* gateway process, opened by the first attempt after the last one closed. *)
(***************************************************************************)
EXTENDS Integers

CONSTANTS
  Quota,       \* attempts a window lets through (10)
  Window,      \* its length (15 minutes)
  MaxClock,    \* bound: the clock
  MaxTries,    \* bound: attempts in one unit of time
  MaxReboots   \* bound: restarts of the process

ASSUME LimiterAssumption ==
  /\ Quota \in Nat \ {0} /\ Window \in Nat \ {0}
  /\ MaxClock \in Nat /\ MaxTries \in Nat /\ MaxReboots \in Nat

VARIABLES
  clock,
  started, attempts, \* the entry of the address; started = NotYet without one
  reboots,
  passed,  \* history: passed[t]: attempts let through up to and with time t
  tries,   \* attempts at this time so far
  refusals \* history: attempts refused at this time

limiterVars == <<clock, started, attempts, reboots, passed, tries, refusals>>

NotYet == -1

LimiterInit ==
  /\ clock = 0
  /\ started = NotYet /\ attempts = 0
  /\ reboots = 0
  /\ passed = [t \in 0..MaxClock |-> 0]
  /\ tries = 0
  /\ refusals = 0

Pass == passed' = [passed EXCEPT ![clock] = @ + 1] /\ UNCHANGED refusals

Expired == started = NotYet \/ clock - started >= Window

Refuse ==
  /\ ~Expired /\ attempts >= Quota
  /\ refusals' = refusals + 1
  /\ UNCHANGED <<started, attempts, passed>>

\* Mutant: every attempt starts its window anew.
CountAndSlide ==
  /\ ~Expired /\ attempts < Quota
  /\ started' = clock - (Window - 1)
  /\ attempts' = attempts + 1
  /\ Pass

\* Mutant: the quota is not looked at.
CountOnAlways ==
  /\ ~Expired
  /\ attempts' = attempts + 1
  /\ Pass
  /\ UNCHANGED started

CountOn ==
  /\ ~Expired /\ attempts < Quota
  /\ attempts' = attempts + 1
  /\ Pass
  /\ UNCHANGED started

OpenWindow ==
  /\ Expired
  /\ started' = clock /\ attempts' = 1
  /\ Pass

\* middleware asks allow before the handler; the mutex makes it one step.
Allow ==
  /\ tries < MaxTries
  /\ tries' = tries + 1
  /\ OpenWindow \/ CountOn \/ Refuse
  /\ UNCHANGED <<clock, reboots>>

\* The table of attempts is lost with the process.
Reboot ==
  /\ reboots < MaxReboots
  /\ reboots' = reboots + 1
  /\ started' = NotYet /\ attempts' = 0
  /\ UNCHANGED <<clock, passed, tries, refusals>>

ClockTick ==
  /\ clock < MaxClock
  /\ clock' = clock + 1
  /\ tries' = 0 /\ refusals' = 0
  /\ passed' = [passed EXCEPT ![clock + 1] = passed[clock]]
  /\ UNCHANGED <<started, attempts, reboots>>

LimiterNext == Allow \/ Reboot \/ ClockTick

LimiterSpec == LimiterInit /\ [][LimiterNext]_limiterVars

-----------------------------------------------------------------------------
LimiterTypeOK ==
  /\ clock \in 0..MaxClock
  /\ started \in NotYet..clock /\ attempts \in 0..Quota
  /\ reboots \in 0..MaxReboots
  /\ passed \in [0..MaxClock -> Nat]
  /\ tries \in 0..MaxTries /\ refusals \in 0..tries

\* Attempts let through in the Window up to and with time t.
PassedWithin(t) == passed[t] - IF t < Window THEN 0 ELSE passed[t - Window]

\* No stretch of time as long as a window lets more through than two windows,
\* which meet in it, and one more for each restart; and an attempt is refused only
\* to an address that had its quota let through within the last window, however
\* many attempts were refused before.
QuotaPerWindow ==
  /\ \A t \in 0..clock : PassedWithin(t) <= (2 + reboots) * Quota
  /\ refusals > 0 => PassedWithin(clock) >= Quota
=============================================================================
