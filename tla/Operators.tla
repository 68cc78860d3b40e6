----------------------------- MODULE Operators ------------------------------
(***************************************************************************)
(* The sessions of one platform operator (httpapi/admin_platform.go over   *)
(* either store).  A session is a signed token that carries the second of  *)
(* its login; a logout writes the moment it was dated at, and ends what was*)
(* issued before.  What an operator does to a subscription is the action   *)
(* Override of Subscription.  The 24 hours of a token do not pass here.    *)
(***************************************************************************)
EXTENDS Integers, FiniteSets

CONSTANTS
  Clerks,   \* requests that may overlap
  Second,   \* units of the clock in a second
  MaxMoment \* bound: the clock

ASSUME OperatorsAssumption == Second \in Nat \ {0} /\ MaxMoment \in Nat

VARIABLES
  moment,
  apiKey,     \* ADMIN_API_KEY is set and sent by the clients
  registered, \* the row of tenancy.platform_operators
  revokedAt,  \* sessions_revoked_at
  logins,     \* history: the moments of the logins
  clerk,      \* clerk[c]: a logout under way: where, and what it is dated at
  logouts,    \* history: what the recorded logouts were dated at
  belated     \* history: a logout was recorded after one dated later

operatorVars == <<moment, apiKey, registered, revokedAt, logins, clerk, logouts, belated>>

Unset == -1
NoLogout == [at |-> "away", date |-> 0]

OperatorInit ==
  /\ moment = 0
  /\ apiKey \in BOOLEAN
  /\ registered = FALSE
  /\ revokedAt = Unset
  /\ logins = {}
  /\ clerk = [c \in Clerks |-> NoLogout]
  /\ logouts = {}
  /\ belated = FALSE

MomentPasses ==
  /\ moment < MaxMoment
  /\ moment' = moment + 1
  /\ UNCHANGED <<apiKey, registered, revokedAt, logins, clerk, logouts, belated>>

\* cmd/platform-admin.
RegisterPlatformOperator ==
  /\ ~registered
  /\ registered' = TRUE
  /\ UNCHANGED <<moment, apiKey, revokedAt, logins, clerk, logouts, belated>>

\* iat is in seconds, sessions_revoked_at in microseconds.
IssuedAt(login) == (login \div Second) * Second

\* Mutant: a token of the very moment of the logout stays.
ActiveAtLogout(login) == registered /\ (revokedAt = Unset \/ revokedAt <= IssuedAt(login))

PlatformSessionActive(login) ==
  registered /\ (revokedAt = Unset \/ revokedAt < IssuedAt(login))

\* adminAuthLogin, of the right password.
AdminAuthLogin ==
  /\ registered
  /\ logins' = logins \cup {moment}
  /\ UNCHANGED <<moment, apiKey, registered, revokedAt, clerk, logouts, belated>>

\* The middleware admits adminAuthLogout (adminAuthorized).  With the key even a
\* token that was ended names its operator.
AdminAuthorized(c) ==
  /\ clerk[c].at = "away"
  /\ \E login \in logins : apiKey \/ PlatformSessionActive(login)
  /\ clerk' = [clerk EXCEPT ![c].at = "logout"]
  /\ UNCHANGED <<moment, apiKey, registered, revokedAt, logins, logouts, belated>>

AdminAuthLogout(c) ==
  /\ clerk[c].at = "logout"
  /\ clerk' = [clerk EXCEPT ![c] = [at |-> "revoke", date |-> moment]]
  /\ UNCHANGED <<moment, apiKey, registered, revokedAt, logins, logouts, belated>>

\* The date is written over whatever is there.
RevokePlatformSessions(c) ==
  /\ clerk[c].at = "revoke"
  /\ revokedAt' = clerk[c].date
  /\ logouts' = logouts \cup {clerk[c].date}
  /\ belated' = (belated \/ clerk[c].date < revokedAt)
  /\ clerk' = [clerk EXCEPT ![c] = NoLogout]
  /\ UNCHANGED <<moment, apiKey, registered, logins>>

\* The update fails, and the cookies stay.
LogoutFails(c) ==
  /\ clerk[c].at = "revoke"
  /\ clerk' = [clerk EXCEPT ![c] = NoLogout]
  /\ UNCHANGED <<moment, apiKey, registered, revokedAt, logins, logouts, belated>>

OperatorNext ==
  \/ MomentPasses
  \/ RegisterPlatformOperator
  \/ AdminAuthLogin
  \/ \E c \in Clerks :
       \/ AdminAuthorized(c) \/ AdminAuthLogout(c)
       \/ RevokePlatformSessions(c) \/ LogoutFails(c)

OperatorSpec == OperatorInit /\ [][OperatorNext]_operatorVars

-----------------------------------------------------------------------------
OperatorTypeOK ==
  /\ moment \in 0..MaxMoment
  /\ {apiKey, registered, belated} \subseteq BOOLEAN
  /\ revokedAt \in {Unset} \cup logouts
  /\ logins \cup logouts \subseteq 0..moment
  /\ clerk \in [Clerks -> [at : {"away", "logout", "revoke"}, date : 0..moment]]

\* A logout ends every session that was there at its date, unless a logout dated
\* earlier is recorded after it; and a session that was opened a second or more
\* after the date of every logout works, although its token only tells the second.
LogoutEndsTheEarlier ==
  \A login \in logins :
    /\ ~belated /\ (\E date \in logouts : login <= date) => ~PlatformSessionActive(login)
    /\ (\A date \in logouts : login >= date + Second) => PlatformSessionActive(login)
=============================================================================
