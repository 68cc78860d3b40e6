---------------------------- MODULE Services_proofs ---------------------------
(***************************************************************************)
(* The smaller parts of the backend, each for all values of its constants. *)
(* A part has an inductive invariant of its own; the last section carries  *)
(* them over to the specification that runs the parts side by side.        *)
(***************************************************************************)
EXTENDS MCServices, Deals_proofs, FiniteSetTheorems, WellFoundedInduction

-----------------------------------------------------------------------------
(* Smtp: what the server was sent depends on the step the sending is at.   *)

\* Before "auth" nothing was sent, and past the handshake the modes that require
\* encryption have it.
Handshake ==
  /\ step \in {"check", "connect", "hello", "auth"} => authed = "nothing"
  /\ step \in {"check", "connect", "hello", "auth", "data"} => mailed = "nothing"
  /\ tlsMode = "implicit" /\ step \in {"hello", "auth", "data", "quit"} => secure
  /\ tlsMode = "starttls" /\ step \in {"auth", "data", "quit"} => secure

SmtpIInv == SmtpTypeOK /\ Handshake /\ ClearTextOnlyIfAllowed

LEMMA SmtpInitIInv == SmtpInit => SmtpIInv
BY DEF SmtpInit, SmtpIInv, SmtpTypeOK, Handshake, ClearTextOnlyIfAllowed

LEMMA SmtpKept == SmtpIInv /\ [SmtpNext]_smtpVars => SmtpIInv'
<1> SUFFICES ASSUME SmtpIInv, [SmtpNext]_smtpVars PROVE SmtpIInv'
  OBVIOUS
<1> USE DEF SmtpIInv, SmtpTypeOK, Handshake, ClearTextOnlyIfAllowed, config, At, Proceed, Wire
<1>1. CASE CheckConfig
  BY <1>1 DEF CheckConfig
<1>2. CASE Connect
  BY <1>2 DEF Connect
<1>3. CASE StartTLS
  BY <1>3 DEF StartTLS, TLSRequired
<1>4. CASE Authenticate
  BY <1>4 DEF Authenticate, MayAuthenticate
<1>5. CASE FinishMessage
  BY <1>5 DEF FinishMessage
<1>6. CASE Quit
  BY <1>6 DEF Quit
<1>7. CASE StepFails
  BY <1>7 DEF StepFails, MayAuthenticate
<1>8. CASE UNCHANGED smtpVars
  BY <1>8 DEF smtpVars
<1>9. QED
  BY <1>1, <1>2, <1>3, <1>4, <1>5, <1>6, <1>7, <1>8 DEF SmtpNext

LEMMA SmtpInvariance == SmtpSpec => []SmtpIInv
BY SmtpInitIInv, SmtpKept, PTL DEF SmtpSpec

\* Whatever step fails and whatever the server offers, the password reaches another
\* machine only encrypted, and the modes that ask for encryption send nothing without.
THEOREM NothingInTheClear == SmtpSpec => []ClearTextOnlyIfAllowed
BY SmtpInvariance, PTL DEF SmtpIInv

-----------------------------------------------------------------------------
(* Operators: the recorded date is the latest, unless a logout came late.  *)

Revoked ==
  /\ revokedAt = Unset <=> logouts = {}
  /\ ~belated => \A date \in logouts : date <= revokedAt
  /\ logins # {} => registered

OperatorIInv == OperatorTypeOK /\ Revoked

\* The second of a login lies at most a second before it.
LEMMA IssuedInTheSecond ==
  ASSUME NEW login \in Nat
  PROVE  IssuedAt(login) \in Nat /\ IssuedAt(login) <= login /\ login < IssuedAt(login) + Second
<1>1. PICK q : q = login \div Second
  OBVIOUS
<1>2. q \in Nat /\ q * Second <= login /\ login < q * Second + Second
  BY <1>1, OperatorsAssumption
<1>3. q * Second \in Nat
  BY <1>2, OperatorsAssumption
<1>4. QED
  BY <1>1, <1>2, <1>3 DEF IssuedAt

LEMMA OperatorInitIInv == OperatorInit => OperatorIInv
<1> USE OperatorsAssumption DEF OperatorIInv, OperatorTypeOK, Revoked, Unset, NoLogout
<1> SUFFICES ASSUME OperatorInit PROVE OperatorIInv
  OBVIOUS
<1>1. /\ moment = 0 /\ registered = FALSE /\ belated = FALSE /\ apiKey \in BOOLEAN
      /\ logins = {} /\ logouts = {} /\ revokedAt = -1
  BY DEF OperatorInit
<1>2. clerk \in [Clerks -> [at : {"away", "logout", "revoke"}, date : 0..moment]]
  BY <1>1 DEF OperatorInit
<1>3. OperatorTypeOK
  <2>1. {apiKey, registered, belated} \subseteq BOOLEAN
    BY <1>1
  <2>2. moment \in 0..MaxMoment
    BY <1>1
  <2>3. revokedAt \in {Unset} \cup logouts /\ logins \cup logouts \subseteq 0..moment
    BY <1>1
  <2>4. QED
    BY <1>2, <2>1, <2>2, <2>3
<1>4. Revoked
  BY <1>1
<1>5. QED
  BY <1>3, <1>4

LEMMA OperatorKept == OperatorIInv /\ [OperatorNext]_operatorVars => OperatorIInv'
<1> USE OperatorsAssumption DEF OperatorIInv, OperatorTypeOK, Revoked, Unset, NoLogout
<1> SUFFICES ASSUME OperatorIInv, [OperatorNext]_operatorVars PROVE OperatorIInv'
  OBVIOUS
<1>1. CASE MomentPasses
  BY <1>1 DEF MomentPasses
<1>2. CASE RegisterPlatformOperator
  BY <1>2 DEF RegisterPlatformOperator
<1>3. CASE AdminAuthLogin
  BY <1>3 DEF AdminAuthLogin
<1>4. ASSUME NEW c \in Clerks, AdminAuthorized(c) PROVE OperatorIInv'
  BY <1>4 DEF AdminAuthorized
<1>5. ASSUME NEW c \in Clerks, AdminAuthLogout(c) PROVE OperatorIInv'
  BY <1>5 DEF AdminAuthLogout
<1>6. ASSUME NEW c \in Clerks, RevokePlatformSessions(c) PROVE OperatorIInv'
  <2>1. PICK date : date = clerk[c].date
    OBVIOUS
  <2>2. /\ date \in 0..moment /\ revokedAt' = date /\ logouts' = logouts \cup {date}
        /\ belated' = (belated \/ date < revokedAt)
        /\ UNCHANGED <<moment, apiKey, registered, logins>>
    BY <1>6, <2>1 DEF RevokePlatformSessions
  <2>3. clerk' \in [Clerks -> [at : {"away", "logout", "revoke"}, date : 0..moment]]
    BY <1>6 DEF RevokePlatformSessions
  <2>4. OperatorTypeOK'
    BY <2>2, <2>3
  <2>5. ASSUME ~belated', NEW d \in logouts PROVE d <= date
    <3>1. ~belated /\ ~(date < revokedAt) /\ d <= revokedAt /\ revokedAt \in logouts
      BY <2>2, <2>5
    <3>2. revokedAt \in Nat /\ d \in Nat /\ date \in Nat
      BY <2>2, <3>1
    <3>3. QED
      BY <3>1, <3>2
  <2>6. Revoked'
    <3>1. revokedAt' # Unset /\ logouts' # {} /\ date <= date
      BY <2>2
    <3>2. ~belated' => \A d \in logouts' : d <= revokedAt'
      BY <2>2, <2>5, <3>1
    <3>3. QED
      BY <2>2, <3>1, <3>2
  <2>7. QED
    BY <2>4, <2>6
<1>7. ASSUME NEW c \in Clerks, LogoutFails(c) PROVE OperatorIInv'
  BY <1>7 DEF LogoutFails
<1>8. CASE UNCHANGED operatorVars
  BY <1>8 DEF operatorVars
<1>9. QED
  BY <1>1, <1>2, <1>3, <1>4, <1>5, <1>6, <1>7, <1>8 DEF OperatorNext

LEMMA OperatorInvariance == OperatorSpec => []OperatorIInv
BY OperatorInitIInv, OperatorKept, PTL DEF OperatorSpec

LEMMA RevokedObeyed == OperatorIInv => LogoutEndsTheEarlier
<1> SUFFICES ASSUME OperatorIInv, NEW login \in logins
             PROVE  /\ ~belated /\ (\E date \in logouts : login <= date)
                          => ~PlatformSessionActive(login)
                    /\ (\A date \in logouts : login >= date + Second)
                          => PlatformSessionActive(login)
  BY DEF LogoutEndsTheEarlier
<1>1. /\ login \in Nat /\ registered /\ logouts \subseteq Nat
      /\ revokedAt \in {Unset} \cup logouts
      /\ revokedAt = Unset <=> logouts = {}
      /\ ~belated => \A date \in logouts : date <= revokedAt
  BY OperatorsAssumption DEF OperatorIInv, OperatorTypeOK, Revoked
<1>2. PICK second \in Nat : second = IssuedAt(login) /\ second <= login /\ login < second + Second
  BY <1>1, IssuedInTheSecond
<1>3. ASSUME ~belated, NEW date \in logouts, login <= date
      PROVE  ~PlatformSessionActive(login)
  <2>1. revokedAt \in Nat /\ date <= revokedAt /\ date \in Nat
    BY <1>1, <1>3 DEF Unset
  <2>2. second <= revokedAt /\ revokedAt # Unset
    BY <1>1, <1>2, <1>3, <2>1 DEF Unset
  <2>3. QED
    BY <1>2, <2>1, <2>2 DEF PlatformSessionActive
<1>4. ASSUME \A date \in logouts : login >= date + Second
      PROVE  PlatformSessionActive(login)
  <2>1. CASE revokedAt = Unset
    BY <1>1, <2>1 DEF PlatformSessionActive
  <2>2. CASE revokedAt \in logouts
    <3>1. revokedAt \in Nat /\ login >= revokedAt + Second
      BY <1>1, <1>4, <2>2
    <3>2. revokedAt < second
      BY <1>1, <1>2, <3>1, OperatorsAssumption
    <3>3. QED
      BY <1>1, <1>2, <3>2 DEF PlatformSessionActive
  <2>3. QED
    BY <1>1, <2>1, <2>2
<1>5. QED
  BY <1>3, <1>4

\* However logouts overlap: one that was not recorded late ends every session there
\* was at its date, and no session opened a second after all of them is ended.
THEOREM LogoutsAreObeyed == OperatorSpec => []LogoutEndsTheEarlier
BY RevokedObeyed, OperatorInvariance, PTL

-----------------------------------------------------------------------------
(* KeyCache: what a fetched set can still be, and how long it is used.     *)

\* A set that came back is what Keycloak published at the time, and no older than a
\* fetch may take.
Answered(q) ==
  /\ q.since <= now /\ now <= q.since + FetchTime
  /\ \A k \in q.set : withdrawn[k] >= q.since
  /\ q.set \subseteq 1..newest
  /\ \A k \in first..newest : k \in q.set \/ \A j \in q.set : j < k
  /\ q.valid /\ q.key \in Published => q.key \in q.set

\* Between the store and the second look no time passes, and the key is there unless
\* an older set was put over it.
Stored(q) ==
  /\ expires = now + KeyTTL
  /\ q.valid /\ q.key \in Published => q.key \in keys \/ overwritten

\* What a request in its place may hold.
Held(q) ==
  /\ q.key <= newest
  /\ q.at = "fetched" => Answered(q)
  /\ q.at = "stored" => Stored(q)

\* The set in use expires within a set's life and a fetch of the withdrawal of any
\* of its keys.
Lifetimes ==
  /\ \A k \in first..MaxKey : withdrawn[k] = Never
  /\ expires <= now + KeyTTL
  /\ \A k \in keys : expires <= withdrawn[k] + KeyTTL + FetchTime

KeyIInv ==
  /\ KeyTypeOK
  /\ Lifetimes
  /\ \A b \in Bearers : Held(bearer[b])
  /\ WithdrawnKeysExpire
  /\ RefusedOnlyIfOverwritten

LEMMA KeyFacts ==
  ASSUME KeyTypeOK
  PROVE  /\ now \in Nat /\ now <= MaxNow /\ MaxNow \in Nat /\ MaxKey \in Nat
         /\ KeyTTL \in Nat /\ KeyTTL > 0 /\ FetchTime \in Nat
         /\ newest \in Nat /\ first \in Nat /\ 1 <= first /\ first <= newest /\ newest <= MaxKey
         /\ expires \in Nat /\ late \in Nat
         /\ \A k \in 1..MaxKey : withdrawn[k] \in Nat
         /\ \A b \in Bearers : bearer[b] \in BearerType
         /\ keys \subseteq 1..newest /\ bearer \in [Bearers -> BearerType]
<1>1. now \in Nat /\ now <= MaxNow /\ MaxNow \in Nat /\ MaxKey \in Nat
  BY KeyCacheAssumption DEF KeyTypeOK
<1>2. newest \in Nat /\ first \in Nat /\ 1 <= first /\ first <= newest /\ newest <= MaxKey
  BY KeyCacheAssumption DEF KeyTypeOK
<1>3. expires \in Nat /\ late \in Nat /\ KeyTTL \in Nat /\ KeyTTL > 0 /\ FetchTime \in Nat
  BY KeyCacheAssumption DEF KeyTypeOK
<1>4. ASSUME NEW k \in 1..MaxKey PROVE withdrawn[k] \in Nat
  <2>1. withdrawn[k] \in 0..Never /\ Never \in Nat
    BY <1>1 DEF KeyTypeOK, Never
  <2>2. QED
    BY <2>1
<1>5. QED
  BY <1>1, <1>2, <1>3, <1>4 DEF KeyTypeOK

LEMMA BearerFields ==
  ASSUME NEW q \in BearerType
  PROVE  /\ q.key \in 1..MaxKey /\ q.set \subseteq 1..MaxKey /\ q.since \in Nat
         /\ q.valid \in BOOLEAN
<1>1. /\ q.key \in 1..MaxKey /\ q.set \subseteq 1..MaxKey /\ q.since \in 0..MaxNow
      /\ q.valid \in BOOLEAN
  BY DEF BearerType
<1>2. QED
  BY <1>1, KeyCacheAssumption

LEMMA NoBearerType ==
  ASSUME KeyTypeOK
  PROVE  NoBearer \in BearerType /\ NoBearer.key = 1 /\ NoBearer.at = "away"
<1>1. 1 \in 1..MaxKey /\ 0 \in 0..MaxNow
  BY KeyFacts
<1>2. QED
  BY <1>1 DEF NoBearer, BearerType

LEMMA KeyInitIInv == KeyInit => KeyIInv
<1> SUFFICES ASSUME KeyInit PROVE KeyIInv
  OBVIOUS
<1>1. /\ now = 0 /\ first = 1 /\ newest = 1 /\ keys = {} /\ expires = 0 /\ late = 0
      /\ refused = FALSE /\ overwritten = FALSE
  BY DEF KeyInit
<1>2. 1 \in 1..MaxKey /\ 0 \in 0..MaxNow /\ 0 \in 0..(MaxNow + KeyTTL) /\ Never \in 0..Never
  BY KeyCacheAssumption DEF Never
<1>3. NoBearer \in BearerType /\ NoBearer.key = 1 /\ NoBearer.at = "away"
  BY <1>2 DEF NoBearer, BearerType
<1>4. bearer \in [Bearers -> BearerType] /\ \A b \in Bearers : bearer[b] = NoBearer
  BY <1>3 DEF KeyInit
<1>5. withdrawn \in [1..MaxKey -> 0..Never] /\ \A k \in 1..MaxKey : withdrawn[k] = Never
  BY <1>2 DEF KeyInit
<1>6. KeyTypeOK
  <2>1. now \in 0..MaxNow /\ first \in 1..newest /\ newest \in 1..MaxKey /\ late \in 0..MaxNow
    BY <1>1, <1>2
  <2>2. keys \subseteq 1..newest /\ {refused, overwritten} \subseteq BOOLEAN
    BY <1>1
  <2>3. expires \in 0..(MaxNow + KeyTTL)
    BY <1>1, <1>2
  <2>4. QED
    BY <1>4, <1>5, <2>1, <2>2, <2>3 DEF KeyTypeOK
<1>7. WithdrawnKeysExpire /\ RefusedOnlyIfOverwritten
  BY <1>1, KeyCacheAssumption DEF WithdrawnKeysExpire, RefusedOnlyIfOverwritten
<1>8. Lifetimes
  BY <1>1, <1>5, KeyCacheAssumption DEF Lifetimes
<1>9. \A b \in Bearers : Held(bearer[b])
  <2>1. Held(NoBearer)
    BY <1>1, <1>3 DEF Held
  <2>2. QED
    BY <1>4, <2>1
<1>10. QED
  BY <1>6, <1>7, <1>8, <1>9 DEF KeyIInv

\* One unit of time: no set that is on its way gets older than a fetch may take.
LEMMA KeyTickStep == KeyIInv /\ KeyTick => KeyIInv'
<1> SUFFICES ASSUME KeyIInv, KeyTick PROVE KeyIInv'
  OBVIOUS
<1>1. KeyTypeOK /\ Lifetimes /\ \A b \in Bearers : Held(bearer[b])
  BY DEF KeyIInv
<1>2. /\ now < MaxNow /\ now' = now + 1
      /\ UNCHANGED <<first, newest, withdrawn, keys, expires, bearer, late, refused, overwritten>>
  BY DEF KeyTick, keycloak, seen
<1>3. KeyTypeOK'
  <2>1. now' \in 0..MaxNow
    BY <1>1, <1>2, KeyFacts
  <2>2. QED
    BY <1>1, <1>2, <2>1 DEF KeyTypeOK
<1>4. ASSUME NEW b \in Bearers PROVE Held(bearer[b])'
  <2>1. PICK q \in BearerType : q = bearer[b]
    BY <1>1, KeyFacts
  <2>2. q.key <= newest /\ q.at # "stored" /\ (q.at = "fetched" => now < q.since + FetchTime)
    BY <1>1, <2>1 DEF Held, KeyTick
  <2>3. q.at = "fetched" => Answered(q)
    BY <1>1, <2>1 DEF Held
  <2>4. q.at = "fetched" => Answered(q)'
    BY <1>1, <1>2, <2>2, <2>3, KeyFacts, BearerFields DEF Answered, Published
  <2>5. QED
    BY <1>2, <2>1, <2>2, <2>4 DEF Held
<1>5. WithdrawnKeysExpire' /\ RefusedOnlyIfOverwritten'
  BY <1>2 DEF KeyIInv, WithdrawnKeysExpire, RefusedOnlyIfOverwritten
<1>6. Lifetimes'
  <2>1. expires <= now + KeyTTL => expires <= (now + 1) + KeyTTL
    BY <1>1, KeyFacts
  <2>2. QED
    BY <1>1, <1>2, <2>1 DEF Lifetimes
<1>7. QED
  BY <1>3, <1>4, <1>5, <1>6 DEF KeyIInv

LEMMA MakeKeyStep == KeyIInv /\ MakeKey => KeyIInv'
<1> SUFFICES ASSUME KeyIInv, MakeKey PROVE KeyIInv'
  OBVIOUS
<1>1. KeyTypeOK /\ Lifetimes /\ \A b \in Bearers : Held(bearer[b])
  BY DEF KeyIInv
<1>2. /\ newest < MaxKey /\ newest' = newest + 1
      /\ UNCHANGED <<now, first, withdrawn, keys, expires, bearer, late, refused, overwritten>>
  BY DEF MakeKey, seen
<1>3. KeyTypeOK'
  <2>1. newest' \in 1..MaxKey /\ first' \in 1..newest' /\ keys' \subseteq 1..newest'
    BY <1>1, <1>2, KeyFacts
  <2>2. QED
    BY <1>1, <1>2, <2>1 DEF KeyTypeOK
<1>4. ASSUME NEW b \in Bearers PROVE Held(bearer[b])'
  <2>1. PICK q \in BearerType : q = bearer[b]
    BY <1>1, KeyFacts
  <2>2. /\ q.key <= newest /\ q.key \in Nat /\ q.set \subseteq Nat
        /\ q.at = "fetched" => Answered(q)
        /\ q.at = "stored" => Stored(q)
    BY <1>1, <2>1, BearerFields DEF Held
  <2>3. q.key \in first'..newest' => q.key \in first..newest
    BY <1>1, <1>2, <2>2, KeyFacts
  <2>4. ASSUME Answered(q) PROVE Answered(q)'
    <3>1. q.set \subseteq 1..newest
      BY <2>4 DEF Answered
    <3>2. q.set \subseteq 1..newest' /\ \A j \in q.set : j < newest'
      BY <1>1, <1>2, <3>1, KeyFacts
    <3>3. \A k \in first'..newest' : k = newest' \/ k \in first..newest
      BY <1>1, <1>2, KeyFacts
    <3>4. QED
      BY <1>2, <2>3, <2>4, <3>2, <3>3 DEF Answered, Published
  <2>5. Stored(q) => Stored(q)'
    BY <1>2, <2>3 DEF Stored, Published
  <2>6. q.key <= newest'
    BY <1>1, <1>2, <2>2, KeyFacts
  <2>7. QED
    BY <1>2, <2>1, <2>2, <2>4, <2>5, <2>6 DEF Held
<1>5. WithdrawnKeysExpire' /\ RefusedOnlyIfOverwritten' /\ Lifetimes'
  BY <1>1, <1>2 DEF KeyIInv, WithdrawnKeysExpire, RefusedOnlyIfOverwritten, Lifetimes
<1>6. QED
  BY <1>3, <1>4, <1>5 DEF KeyIInv

LEMMA WithdrawKeyStep == KeyIInv /\ WithdrawKey => KeyIInv'
<1> SUFFICES ASSUME KeyIInv, WithdrawKey PROVE KeyIInv'
  OBVIOUS
<1>1. KeyTypeOK /\ Lifetimes /\ \A b \in Bearers : Held(bearer[b])
  BY DEF KeyIInv
<1>2. /\ first < newest /\ first' = first + 1
      /\ withdrawn' = [withdrawn EXCEPT ![first] = now]
      /\ UNCHANGED <<now, newest, keys, expires, bearer, late, refused, overwritten>>
  BY DEF WithdrawKey, seen
<1>3. /\ withdrawn' \in [1..MaxKey -> 0..Never]
      /\ \A k \in 1..MaxKey : withdrawn'[k] = IF k = first THEN now ELSE withdrawn[k]
  BY <1>1, <1>2, KeyFacts DEF KeyTypeOK, Never
<1>4. KeyTypeOK'
  BY <1>1, <1>2, <1>3, KeyFacts DEF KeyTypeOK
<1>5. ASSUME NEW b \in Bearers PROVE Held(bearer[b])'
  <2>1. PICK q \in BearerType : q = bearer[b]
    BY <1>1, KeyFacts
  <2>2. q.set \subseteq 1..MaxKey /\ q.since \in Nat
    BY BearerFields
  <2>3. q.key \in first'..newest' => q.key \in first..newest
    BY <1>1, <1>2, KeyFacts
  <2>4. Answered(q) => Answered(q)'
    <3>1. \A k \in first'..newest' : k \in first..newest
      BY <1>1, <1>2, KeyFacts
    <3>2. QED
      BY <1>1, <1>2, <1>3, <2>2, <2>3, <3>1, KeyFacts DEF Answered, Published
  <2>5. Stored(q) => Stored(q)'
    BY <1>2, <2>3 DEF Stored, Published
  <2>6. QED
    BY <1>1, <1>2, <2>1, <2>4, <2>5 DEF Held
<1>6. Lifetimes'
  <2>1. \A k \in first'..MaxKey : k \in first..MaxKey /\ k # first /\ k \in 1..MaxKey
    BY <1>1, <1>2, KeyFacts
  <2>2. \A k \in keys : k \in 1..MaxKey
    BY <1>1, KeyFacts
  <2>3. QED
    <3>1. \A k \in first'..MaxKey : withdrawn'[k] = Never
      BY <1>1, <1>3, <2>1 DEF Lifetimes
    <3>2. expires' <= now' + KeyTTL
      BY <1>1, <1>2 DEF Lifetimes
    <3>3. ASSUME NEW k \in keys PROVE expires <= withdrawn'[k] + KeyTTL + FetchTime
      <4>1. CASE k = first
        <5>1. withdrawn'[k] = now
          BY <1>3, <2>2, <4>1
        <5>2. expires <= now + KeyTTL
          BY <1>1 DEF Lifetimes
        <5>3. QED
          BY <1>1, <5>1, <5>2, KeyFacts
      <4>2. CASE k # first
        BY <1>1, <1>3, <2>2, <4>2 DEF Lifetimes
      <4>3. QED
        BY <4>1, <4>2
    <3>4. QED
      BY <1>2, <3>1, <3>2, <3>3 DEF Lifetimes
<1>7. WithdrawnKeysExpire' /\ RefusedOnlyIfOverwritten'
  BY <1>2 DEF KeyIInv, WithdrawnKeysExpire, RefusedOnlyIfOverwritten
<1>8. QED
  BY <1>4, <1>5, <1>6, <1>7 DEF KeyIInv

\* A key that verifies a token while its set is in use was withdrawn less than the
\* life of a set and a fetch ago.
LEMMA AcceptedInTime ==
  ASSUME KeyIInv, NEW k \in keys, now < expires, Accept(k)
  PROVE  late' \in 0..MaxNow /\ WithdrawnKeysExpire'
<1>1. KeyTypeOK /\ Lifetimes /\ WithdrawnKeysExpire
  BY DEF KeyIInv
<1>2. k \in 1..MaxKey
  BY <1>1, KeyFacts
<1>3. withdrawn[k] \in Nat /\ expires <= withdrawn[k] + KeyTTL + FetchTime
  BY <1>1, <1>2, KeyFacts DEF Lifetimes
<1>4. PICK w \in Nat : w = withdrawn[k]
  BY <1>3
<1>5. late' = (IF now - w > late THEN now - w ELSE late) /\ late <= MaxNow
  BY <1>1, <1>4 DEF Accept, KeyTypeOK
<1>6. now - w < KeyTTL + FetchTime /\ now - w <= MaxNow
  BY <1>1, <1>3, <1>4, KeyFacts
<1>7. QED
  BY <1>1, <1>5, <1>6, KeyFacts DEF WithdrawnKeysExpire

\* A step of request b that leaves the cache as it is.
LEMMA CacheKept ==
  ASSUME KeyIInv, NEW b \in Bearers, NEW q \in BearerType, bearer' = [bearer EXCEPT ![b] = q],
         UNCHANGED <<now, keycloak, keys, expires, overwritten>>, Held(q),
         late' \in 0..MaxNow, WithdrawnKeysExpire', refused' \in BOOLEAN, refused' => overwritten
  PROVE  KeyIInv'
<1>1. KeyTypeOK /\ Lifetimes /\ \A c \in Bearers : Held(bearer[c])
  BY DEF KeyIInv
<1>2. UNCHANGED <<now, first, newest, withdrawn, keys, expires, overwritten>>
  BY DEF keycloak
<1>3. /\ bearer' \in [Bearers -> BearerType]
      /\ \A c \in Bearers : bearer'[c] = IF c = b THEN q ELSE bearer[c]
  BY <1>1, KeyFacts
<1>4. KeyTypeOK'
  <2>1. {refused', overwritten'} \subseteq BOOLEAN
    BY <1>1, <1>2 DEF KeyTypeOK
  <2>2. BearerType' = BearerType /\ Never' = Never
    BY DEF BearerType, Never
  <2>3. QED
    BY <1>1, <1>2, <1>3, <2>1, <2>2 DEF KeyTypeOK
<1>5. \A r : Held(r)' <=> Held(r)
  BY <1>2 DEF Held, Answered, Stored, Published
<1>6. \A c \in Bearers : Held(bearer[c])'
  <2>1. \A c \in Bearers : Held(bearer'[c])
    BY <1>1, <1>3
  <2>2. QED
    BY <1>2, <2>1 DEF Held, Answered, Stored, Published
<1>7. Lifetimes' /\ RefusedOnlyIfOverwritten'
  BY <1>1, <1>2 DEF Lifetimes, RefusedOnlyIfOverwritten
<1>8. QED
  BY <1>4, <1>6, <1>7 DEF KeyIInv

LEMMA LookUpStep == ASSUME KeyIInv, NEW b \in Bearers, LookUp(b) PROVE KeyIInv'
<1>1. KeyTypeOK /\ WithdrawnKeysExpire /\ RefusedOnlyIfOverwritten /\ Held(bearer[b])
  BY DEF KeyIInv
<1>2. PICK k \in 1..newest :
        IF k \in keys /\ now < expires
          THEN Accept(k) /\ UNCHANGED bearer
          ELSE /\ bearer' = [bearer EXCEPT ![b] =
                    [NoBearer EXCEPT !.at = "fetch", !.key = k, !.valid = k \in Published]]
               /\ UNCHANGED late
  BY DEF LookUp
<1>3. UNCHANGED <<now, keycloak, keys, expires, refused, overwritten>>
  BY DEF LookUp
<1>4. refused' \in BOOLEAN /\ (refused' => overwritten) /\ late \in 0..MaxNow
  BY <1>1, <1>3 DEF KeyTypeOK, RefusedOnlyIfOverwritten
<1>5. CASE k \in keys /\ now < expires
  <2>1. bearer[b] \in BearerType /\ bearer' = [bearer EXCEPT ![b] = bearer[b]]
    BY <1>1, <1>2, <1>5, KeyFacts
  <2>2. late' \in 0..MaxNow /\ WithdrawnKeysExpire'
    BY <1>2, <1>5, AcceptedInTime
  <2>3. QED
    BY <1>1, <1>3, <1>4, <2>1, <2>2, CacheKept
<1>6. CASE ~(k \in keys /\ now < expires)
  <2>1. PICK valid : valid = (k \in Published)
    OBVIOUS
  <2>2. valid \in BOOLEAN
    BY <2>1
  <2>3. PICK q : q = [NoBearer EXCEPT !.at = "fetch", !.key = k, !.valid = valid]
    OBVIOUS
  <2>4. q \in BearerType /\ q.at = "fetch" /\ q.key = k
    <3>1. k \in 1..MaxKey
      BY <1>1, <1>2, KeyFacts
    <3>2. QED
      BY <1>1, <2>2, <2>3, <3>1, NoBearerType DEF BearerType
  <2>5. Held(q)
    BY <1>1, <2>4, KeyFacts DEF Held
  <2>6. bearer' = [bearer EXCEPT ![b] = q] /\ late' = late
    BY <1>2, <1>6, <2>1, <2>3
  <2>7. WithdrawnKeysExpire'
    BY <1>1, <2>6 DEF WithdrawnKeysExpire
  <2>8. QED
    BY <1>3, <1>4, <2>4, <2>5, <2>6, <2>7, CacheKept
<1>7. QED
  BY <1>5, <1>6

LEMMA FetchKeysStep ==
  ASSUME KeyIInv, NEW b \in Bearers, FetchKeys(b) \/ FetchKeysFails(b)
  PROVE  KeyIInv'
<1>1. KeyTypeOK /\ Lifetimes /\ WithdrawnKeysExpire /\ RefusedOnlyIfOverwritten
      /\ Held(bearer[b]) /\ bearer[b] \in BearerType
  BY KeyFacts DEF KeyIInv
<1>2. UNCHANGED <<now, keycloak, keys, expires, overwritten>> /\ late' = late /\ refused' = refused
  BY DEF FetchKeys, FetchKeysFails, seen
<1>3. refused' \in BOOLEAN /\ (refused' => overwritten) /\ late' \in 0..MaxNow /\ WithdrawnKeysExpire'
  BY <1>1, <1>2 DEF KeyTypeOK, RefusedOnlyIfOverwritten, WithdrawnKeysExpire
<1>4. CASE FetchKeys(b)
  <2>1. PICK r \in BearerType : r = bearer[b] /\ r.key <= newest
    BY <1>1 DEF Held
  <2>2. PICK q : q = [r EXCEPT !.at = "fetched", !.set = Published, !.since = now]
    OBVIOUS
  <2>3. Published \subseteq 1..MaxKey /\ now \in 0..MaxNow
    BY <1>1, KeyFacts DEF Published
  <2>4. /\ q \in BearerType /\ q.at = "fetched" /\ q.set = Published /\ q.since = now
        /\ q.key = r.key /\ q.valid = r.valid
    BY <2>2, <2>3 DEF BearerType
  <2>5. Answered(q)
    <3>1. now <= now /\ now <= now + FetchTime
      BY <1>1, KeyFacts
    <3>2. \A k \in Published : withdrawn[k] >= now
      BY <1>1, KeyFacts DEF Published, Lifetimes, Never
    <3>3. Published \subseteq 1..newest
      BY <1>1, KeyFacts DEF Published
    <3>4. QED
      BY <2>4, <3>1, <3>2, <3>3 DEF Answered, Published
  <2>6. Held(q)
    BY <2>1, <2>4, <2>5 DEF Held
  <2>7. bearer' = [bearer EXCEPT ![b] = q]
    BY <1>4, <2>1, <2>2 DEF FetchKeys
  <2>8. QED
    BY <1>2, <1>3, <2>4, <2>6, <2>7, CacheKept
<1>5. CASE FetchKeysFails(b)
  <2>1. bearer' = [bearer EXCEPT ![b] = NoBearer]
    BY <1>5 DEF FetchKeysFails
  <2>2. NoBearer \in BearerType /\ Held(NoBearer)
    BY <1>1, NoBearerType, KeyFacts DEF Held
  <2>3. QED
    BY <1>2, <1>3, <2>1, <2>2, CacheKept
<1>6. QED
  BY <1>4, <1>5

LEMMA StoreKeysStep == ASSUME KeyIInv, NEW b \in Bearers, StoreKeys(b) PROVE KeyIInv'
<1>1. KeyTypeOK /\ Lifetimes /\ \A c \in Bearers : Held(bearer[c])
  BY DEF KeyIInv
<1>2. PICK r \in BearerType : r = bearer[b]
  BY <1>1, KeyFacts
<1>3. /\ r.at = "fetched" /\ keys' = r.set /\ expires' = now + KeyTTL
      /\ overwritten' = (overwritten \/ \E k \in keys : \A j \in r.set : j < k)
      /\ UNCHANGED <<now, first, newest, withdrawn, late, refused>>
  BY <1>2 DEF StoreKeys, NewKeys, keycloak
<1>4. Answered(r) /\ r.key <= newest
  BY <1>1, <1>2, <1>3 DEF Held
<1>5. PICK q : q = [r EXCEPT !.at = "stored"]
  OBVIOUS
<1>6. /\ q \in BearerType /\ q.at = "stored" /\ q.key = r.key /\ q.valid = r.valid
  BY <1>5 DEF BearerType
<1>7. /\ bearer' \in [Bearers -> BearerType]
      /\ \A c \in Bearers : bearer'[c] = IF c = b THEN q ELSE bearer[c]
  BY <1>1, <1>2, <1>5, <1>6, KeyFacts DEF StoreKeys
<1>8. KeyTypeOK'
  <2>1. keys' \subseteq 1..newest
    BY <1>3, <1>4 DEF Answered
  <2>2. expires' \in 0..(MaxNow + KeyTTL)
    BY <1>1, <1>3, KeyFacts
  <2>3. {refused', overwritten'} \subseteq BOOLEAN
    BY <1>1, <1>3 DEF KeyTypeOK
  <2>4. QED
    BY <1>1, <1>3, <1>7, <2>1, <2>2, <2>3 DEF KeyTypeOK, BearerType, Never
<1>9. Lifetimes'
  <2>1. ASSUME NEW k \in r.set PROVE now + KeyTTL <= withdrawn[k] + KeyTTL + FetchTime
    <3>1. withdrawn[k] >= r.since /\ now <= r.since + FetchTime
      BY <1>4 DEF Answered
    <3>2. r.since \in Nat /\ k \in 1..MaxKey /\ withdrawn[k] \in Nat
      BY <1>1, KeyFacts, BearerFields
    <3>3. QED
      BY <1>1, <3>1, <3>2, KeyFacts
  <2>2. now + KeyTTL <= now + KeyTTL
    BY <1>1, KeyFacts
  <2>3. QED
    BY <1>1, <1>3, <2>1, <2>2 DEF Lifetimes
<1>10. ASSUME NEW c \in Bearers PROVE Held(bearer[c])'
  <2>1. CASE c = b
    <3>1. q.valid /\ q.key \in Published => q.key \in keys'
      BY <1>3, <1>4, <1>6 DEF Answered
    <3>2. Held(q)'
      BY <1>3, <1>4, <1>6, <3>1 DEF Held, Stored, Published
    <3>3. QED
      BY <1>7, <2>1, <3>2 DEF Held, Answered, Stored
  <2>2. CASE c # b
    <3>1. PICK p \in BearerType : p = bearer[c] /\ bearer'[c] = p
      BY <1>1, <1>7, <2>2, KeyFacts
    <3>2. p.key <= newest /\ (p.at = "fetched" => Answered(p)) /\ (p.at = "stored" => Stored(p))
      BY <1>1, <3>1 DEF Held
    <3>3. Answered(p) => Answered(p)'
      BY <1>3 DEF Answered, Published
    <3>4. Stored(p) => Stored(p)'
      <4>1. SUFFICES ASSUME Stored(p), p.valid, p.key \in Published, ~overwritten'
                     PROVE  p.key \in keys'
        BY <1>3 DEF Stored, Published
      <4>2. p.key \in keys
        BY <1>3, <4>1 DEF Stored
      <4>3. ~\A j \in r.set : j < p.key
        BY <1>3, <4>1, <4>2
      <4>4. QED
        BY <1>3, <1>4, <4>1, <4>3 DEF Answered, Published
    <3>5. QED
      BY <1>3, <3>1, <3>2, <3>3, <3>4 DEF Held
  <2>3. QED
    BY <2>1, <2>2
<1>11. WithdrawnKeysExpire' /\ RefusedOnlyIfOverwritten'
  BY <1>3 DEF KeyIInv, WithdrawnKeysExpire, RefusedOnlyIfOverwritten
<1>12. QED
  BY <1>8, <1>9, <1>10, <1>11 DEF KeyIInv

LEMMA LookAgainStep == ASSUME KeyIInv, NEW b \in Bearers, LookAgain(b) PROVE KeyIInv'
<1>1. KeyTypeOK /\ WithdrawnKeysExpire /\ RefusedOnlyIfOverwritten
  BY DEF KeyIInv
<1>2. PICK r \in BearerType : r = bearer[b] /\ Held(r)
  BY <1>1, KeyFacts DEF KeyIInv
<1>3. /\ r.at = "stored" /\ bearer' = [bearer EXCEPT ![b] = NoBearer]
      /\ UNCHANGED <<now, keycloak, keys, expires, overwritten>>
      /\ IF r.key \in keys
           THEN Accept(r.key) /\ refused' = refused
           ELSE refused' = (refused \/ (r.valid /\ r.key \in Published)) /\ late' = late
  BY <1>2 DEF LookAgain
<1>4. Stored(r)
  BY <1>2, <1>3 DEF Held
<1>5. NoBearer \in BearerType /\ Held(NoBearer)
  BY <1>1, NoBearerType, KeyFacts DEF Held
<1>6. refused' \in BOOLEAN /\ (refused' => overwritten)
  BY <1>1, <1>3, <1>4 DEF KeyTypeOK, RefusedOnlyIfOverwritten, Stored
<1>7. late' \in 0..MaxNow /\ WithdrawnKeysExpire'
  <2>1. CASE r.key \in keys
    <3>1. now < expires
      BY <1>1, <1>4, KeyFacts DEF Stored
    <3>2. QED
      BY <1>3, <2>1, <3>1, AcceptedInTime
  <2>2. CASE r.key \notin keys
    BY <1>1, <1>3, <2>2 DEF KeyTypeOK, WithdrawnKeysExpire
  <2>3. QED
    BY <2>1, <2>2
<1>8. QED
  BY <1>3, <1>5, <1>6, <1>7, CacheKept

LEMMA KeyKept == KeyIInv /\ [KeyNext]_keyVars => KeyIInv'
<1>1. KeyIInv /\ UNCHANGED keyVars => KeyIInv'
  BY DEF keyVars, KeyIInv, KeyTypeOK, BearerType, Never, Lifetimes, Held, Answered, Stored, Published,
         WithdrawnKeysExpire, RefusedOnlyIfOverwritten
<1>2. QED
  BY <1>1, KeyTickStep, MakeKeyStep, WithdrawKeyStep, LookUpStep, FetchKeysStep, StoreKeysStep,
     LookAgainStep DEF KeyNext

LEMMA KeyInvariance == KeySpec => []KeyIInv
BY KeyInitIInv, KeyKept, PTL DEF KeySpec

\* However fetches overlap and in whatever order they end, a withdrawn key verifies
\* nothing once a set's life and a fetch are over.
THEOREM WithdrawnKeysAreForgotten == KeySpec => []WithdrawnKeysExpire
BY KeyInvariance, PTL DEF KeyIInv

\* A published key is refused only when an older set was put over a newer one.
THEOREM PublishedKeysAreFound == KeySpec => []RefusedOnlyIfOverwritten
BY KeyInvariance, PTL DEF KeyIInv

-----------------------------------------------------------------------------
(* Checkout: every customer was made by a payment of an uninformed session.*)

\* The paid sessions whose request had not learnt of a customer.
Roots == PaidSessions \ informed

Session == [given : 0..MaxSessions, paidBy : 0..MaxSessions]

CheckoutIInv ==
  /\ checkouts \in Seq(Session) /\ Len(checkouts) <= MaxSessions
  /\ informed \subseteq DOMAIN checkouts
  /\ deliveries \in 0..MaxWebhooks
  /\ customer \in {NoCustomer} \cup Roots
  /\ deliveries > 0 <=> customer # NoCustomer
  /\ buyer \in [Buyers -> [at : {"away", "checkout"}, customer : {NoCustomer} \cup Roots,
                           told : BOOLEAN]]
  /\ \A b \in Buyers : buyer[b].told <=> buyer[b].customer # NoCustomer
  /\ \A i \in DOMAIN checkouts :
       /\ checkouts[i].given \in {NoCustomer} \cup Roots
       /\ i \in informed <=> checkouts[i].given # NoCustomer
       /\ checkouts[i].paidBy \in
            {NoCustomer, IF checkouts[i].given = NoCustomer THEN i ELSE checkouts[i].given}

BuyerType == [at : {"away", "checkout"}, customer : {NoCustomer} \cup Roots, told : BOOLEAN]

\* A session that was paid has the customer it made or was given; both are roots.
LEMMA CustomersAreRoots == CheckoutIInv => Customers \subseteq Roots
<1> SUFFICES ASSUME CheckoutIInv, NEW i \in PaidSessions PROVE checkouts[i].paidBy \in Roots
  BY DEF Customers
<1>1. /\ i \in DOMAIN checkouts /\ checkouts[i].paidBy # NoCustomer
      /\ checkouts[i].given \in {NoCustomer} \cup Roots
      /\ i \in informed <=> checkouts[i].given # NoCustomer
      /\ checkouts[i].paidBy = IF checkouts[i].given = NoCustomer THEN i ELSE checkouts[i].given
  BY DEF CheckoutIInv, PaidSessions
<1>2. CASE checkouts[i].given = NoCustomer
  BY <1>1, <1>2 DEF Roots
<1>3. CASE checkouts[i].given # NoCustomer
  BY <1>1, <1>3
<1>4. QED
  BY <1>2, <1>3

\* A step that opens and pays no session.
LEMMA SessionsKept ==
  ASSUME CheckoutIInv, UNCHANGED <<checkouts, informed>>,
         customer' \in {NoCustomer} \cup Roots, deliveries' \in 0..MaxWebhooks,
         deliveries' > 0 <=> customer' # NoCustomer,
         buyer' \in [Buyers -> BuyerType],
         \A b \in Buyers : buyer'[b].told <=> buyer'[b].customer # NoCustomer
  PROVE  CheckoutIInv'
<1>1. Roots' = Roots
  BY DEF Roots, PaidSessions
<1>2. QED
  BY <1>1 DEF CheckoutIInv, BuyerType

LEMMA AwayType == Away \in BuyerType /\ ~Away.told /\ Away.customer = NoCustomer
BY DEF Away, BuyerType

LEMMA CheckoutInitIInv == CheckoutInit => CheckoutIInv
<1> SUFFICES ASSUME CheckoutInit PROVE CheckoutIInv
  OBVIOUS
<1>1. checkouts = <<>> /\ informed = {} /\ deliveries = 0 /\ customer = NoCustomer
  BY DEF CheckoutInit
<1>2. Len(checkouts) = 0 /\ DOMAIN checkouts = {} /\ checkouts \in Seq(Session)
  BY <1>1
<1>3. buyer \in [Buyers -> BuyerType] /\ \A b \in Buyers : buyer[b] = Away
  BY AwayType DEF CheckoutInit
<1>4. deliveries > 0 <=> customer # NoCustomer
  BY <1>1
<1>5. QED
  BY <1>1, <1>2, <1>3, <1>4, AwayType, CheckoutAssumption DEF CheckoutIInv, BuyerType

LEMMA BuyerSteps ==
  ASSUME CheckoutIInv, NEW b \in Buyers,
         OrganizationStripeCustomer(b) \/ FailedRead(b) \/ GiveUp(b)
  PROVE  CheckoutIInv'
<1>1. /\ UNCHANGED <<customer, checkouts, deliveries, informed>>
      /\ customer \in {NoCustomer} \cup Roots /\ deliveries \in 0..MaxWebhooks
      /\ buyer \in [Buyers -> BuyerType]
      /\ \A c \in Buyers : buyer[c].told <=> buyer[c].customer # NoCustomer
  BY DEF OrganizationStripeCustomer, FailedRead, GiveUp, CheckoutIInv, BuyerType
<1>2. deliveries > 0 <=> customer # NoCustomer
  BY DEF CheckoutIInv
<1>3. PICK q \in BuyerType :
        /\ buyer' = [buyer EXCEPT ![b] = q]
        /\ q.told <=> q.customer # NoCustomer
  <2>1. CASE GiveUp(b)
    BY <2>1, AwayType DEF GiveUp
  <2>2. CASE OrganizationStripeCustomer(b)
    <3>1. PICK told : told = (deliveries > 0)
      OBVIOUS
    <3>2. PICK q : q = [at |-> "checkout", customer |-> customer, told |-> told]
      OBVIOUS
    <3>3. told \in BOOLEAN
      BY <3>1
    <3>4. q \in BuyerType /\ q.told = told /\ q.customer = customer
      BY <1>1, <3>2, <3>3 DEF BuyerType
    <3>5. buyer' = [buyer EXCEPT ![b] = q]
      BY <2>2, <3>1, <3>2 DEF OrganizationStripeCustomer
    <3>6. QED
      BY <1>2, <3>1, <3>4, <3>5
  <2>3. CASE FailedRead(b)
    <3>1. PICK q : q = [at |-> "checkout", customer |-> NoCustomer, told |-> FALSE]
      OBVIOUS
    <3>2. q \in BuyerType /\ ~q.told /\ q.customer = NoCustomer
      BY <3>1 DEF BuyerType
    <3>3. buyer' = [buyer EXCEPT ![b] = q]
      BY <2>3, <3>1 DEF FailedRead
    <3>4. QED
      BY <3>2, <3>3
  <2>4. QED
    BY <2>1, <2>2, <2>3
<1>4. /\ buyer' \in [Buyers -> BuyerType]
      /\ \A c \in Buyers : buyer'[c].told <=> buyer'[c].customer # NoCustomer
  <2>1. /\ buyer' \in [Buyers -> BuyerType]
        /\ \A c \in Buyers : buyer'[c] = IF c = b THEN q ELSE buyer[c]
    BY <1>1, <1>3
  <2>2. \A c \in Buyers : buyer'[c] = q \/ buyer'[c] = buyer[c]
    BY <2>1
  <2>3. ASSUME NEW c \in Buyers PROVE buyer'[c].told <=> buyer'[c].customer # NoCustomer
    <3>1. buyer[c].told <=> buyer[c].customer # NoCustomer
      BY <1>1
    <3>2. CASE buyer'[c] = q
      BY <1>3, <3>2
    <3>3. CASE buyer'[c] = buyer[c]
      BY <3>1, <3>3, Zenon
    <3>4. QED
      BY <2>2, <3>2, <3>3
  <2>4. QED
    BY <2>1, <2>3
<1>5. QED
  BY <1>1, <1>2, <1>4, SessionsKept

\* A session opened without a customer is not informed of one, and any other is.
LEMMA CreateSessionStep ==
  ASSUME CheckoutIInv, NEW b \in Buyers, CreateCheckoutSession(b)
  PROVE  CheckoutIInv'
<1>1. /\ checkouts \in Seq(Session) /\ Len(checkouts) \in Nat /\ Len(checkouts) < MaxSessions
      /\ DOMAIN checkouts = 1..Len(checkouts) /\ informed \subseteq DOMAIN checkouts
      /\ buyer \in [Buyers -> BuyerType]
  BY LenProperties DEF CheckoutIInv, CreateCheckoutSession, BuyerType
<1>2. PICK q \in BuyerType : q = buyer[b] /\ (q.told <=> q.customer # NoCustomer)
  BY <1>1 DEF CheckoutIInv
<1>3. PICK n \in Nat : n = Len(checkouts) + 1
  BY <1>1
<1>4. PICK new : new = [given |-> q.customer, paidBy |-> NoCustomer]
  OBVIOUS
<1>5. q.customer \in {NoCustomer} \cup Roots /\ q.told \in BOOLEAN
  BY DEF BuyerType
<1>6. Roots \subseteq 1..Len(checkouts) /\ 0 \in 0..MaxSessions
  BY <1>1, CheckoutAssumption DEF Roots, PaidSessions
<1>7. new \in Session /\ new.given = q.customer /\ new.paidBy = NoCustomer
  <2>1. q.customer \in 0..MaxSessions
    <3>1. 1..Len(checkouts) \subseteq 0..MaxSessions
      BY <1>1, CheckoutAssumption
    <3>2. QED
      BY <1>5, <1>6, <3>1 DEF NoCustomer
  <2>2. QED
    BY <1>4, <1>6, <2>1 DEF Session, NoCustomer
<1>8. checkouts' = Append(checkouts, new)
  BY <1>2, <1>4 DEF CreateCheckoutSession, SentCustomer
<1>9. /\ checkouts' \in Seq(Session) /\ Len(checkouts') = n /\ DOMAIN checkouts' = 1..n
      /\ \A i \in 1..Len(checkouts) : checkouts'[i] = checkouts[i]
      /\ checkouts'[n] = new
  BY <1>1, <1>3, <1>7, <1>8, AppendProperties, LenProperties
<1>10. /\ informed' = IF q.told THEN informed \cup {n} ELSE informed
       /\ UNCHANGED <<customer, deliveries>>
       /\ buyer' = [buyer EXCEPT ![b] = Away]
  BY <1>2, <1>9 DEF CreateCheckoutSession
<1>11. PaidSessions' = PaidSessions
  BY <1>1, <1>3, <1>7, <1>9 DEF PaidSessions
<1>12. Roots' = Roots
  BY <1>1, <1>3, <1>6, <1>10, <1>11 DEF Roots, PaidSessions
<1>13. /\ buyer' \in [Buyers -> BuyerType]
       /\ \A c \in Buyers : buyer'[c] = buyer[c] \/ buyer'[c] = Away
  BY <1>1, <1>10, AwayType
<1>14. ASSUME NEW i \in 1..n
       PROVE  /\ checkouts'[i].given \in {NoCustomer} \cup Roots
              /\ i \in informed' <=> checkouts'[i].given # NoCustomer
              /\ checkouts'[i].paidBy \in
                   {NoCustomer,
                    IF checkouts'[i].given = NoCustomer THEN i ELSE checkouts'[i].given}
  <2>1. CASE i \in 1..Len(checkouts)
    BY <1>1, <1>3, <1>9, <1>10, <2>1 DEF CheckoutIInv
  <2>2. CASE i = n
    BY <1>1, <1>2, <1>3, <1>5, <1>7, <1>9, <1>10, <2>2
  <2>3. QED
    BY <1>1, <1>3, <2>1, <2>2
<1>15. informed' \subseteq 1..n /\ n <= MaxSessions
  BY <1>1, <1>3, <1>10, CheckoutAssumption
<1>16. QED
  BY <1>9, <1>10, <1>12, <1>13, <1>14, <1>15, AwayType DEF CheckoutIInv, BuyerType

\* A payment makes a root of the session, or belongs to the customer it was given.
LEMMA PayStep == ASSUME CheckoutIInv, NEW i \in DOMAIN checkouts, Pay(i) PROVE CheckoutIInv'
<1>1. /\ checkouts \in Seq(Session) /\ Len(checkouts) \in Nat /\ Len(checkouts) <= MaxSessions
      /\ DOMAIN checkouts = 1..Len(checkouts) /\ checkouts[i] \in Session
  BY LenProperties, ElementOfSeq DEF CheckoutIInv
<1>2. PICK r \in Session : r = checkouts[i]
  BY <1>1
<1>3. PICK payer : payer = IF r.given = NoCustomer THEN i ELSE r.given
  OBVIOUS
<1>4. PICK paid : paid = [r EXCEPT !.paidBy = payer]
  OBVIOUS
<1>5. payer \in 0..MaxSessions
  BY <1>1, <1>2, <1>3, CheckoutAssumption DEF Session
<1>6. paid \in Session /\ paid.given = r.given /\ paid.paidBy = payer
  BY <1>4, <1>5 DEF Session
<1>7. checkouts' = [checkouts EXCEPT ![i] = paid] /\ UNCHANGED <<customer, buyer, deliveries, informed>>
  BY <1>2, <1>3, <1>4 DEF Pay
<1>8. /\ checkouts' \in Seq(Session) /\ Len(checkouts') = Len(checkouts)
      /\ DOMAIN checkouts' = DOMAIN checkouts
      /\ \A k \in DOMAIN checkouts : checkouts'[k] = IF k = i THEN paid ELSE checkouts[k]
  BY <1>1, <1>6, <1>7, ExceptSeq
<1>9. r.paidBy = NoCustomer
  BY <1>2 DEF Pay
<1>10. PaidSessions \subseteq PaidSessions'
  BY <1>2, <1>8, <1>9 DEF PaidSessions
<1>11. Roots \subseteq Roots'
  BY <1>7, <1>10 DEF Roots
<1>12. BuyerType \subseteq BuyerType'
  BY <1>11 DEF BuyerType
<1>13. buyer \in [Buyers -> BuyerType]
  BY DEF CheckoutIInv, BuyerType
<1>14. buyer' \in [Buyers -> BuyerType']
  BY <1>7, <1>12, <1>13
<1>15. ASSUME NEW k \in DOMAIN checkouts
       PROVE  /\ checkouts'[k].given \in {NoCustomer} \cup Roots'
              /\ k \in informed' <=> checkouts'[k].given # NoCustomer
              /\ checkouts'[k].paidBy \in
                   {NoCustomer,
                    IF checkouts'[k].given = NoCustomer THEN k ELSE checkouts'[k].given}
  <2>1. /\ checkouts'[k].given = checkouts[k].given
        /\ checkouts[k].given \in {NoCustomer} \cup Roots
        /\ k \in informed <=> checkouts[k].given # NoCustomer
    BY <1>2, <1>6, <1>8 DEF CheckoutIInv
  <2>2. CASE k = i
    BY <1>2, <1>3, <1>6, <1>7, <1>8, <1>11, <2>1, <2>2
  <2>3. CASE k # i
    BY <1>7, <1>8, <1>11, <2>1, <2>3 DEF CheckoutIInv
  <2>4. QED
    BY <2>2, <2>3
<1>16. QED
  BY <1>1, <1>7, <1>8, <1>11, <1>14, <1>15 DEF CheckoutIInv, BuyerType

LEMMA CheckoutKept == CheckoutIInv /\ [CheckoutNext]_checkoutVars => CheckoutIInv'
<1>1. ASSUME CheckoutIInv, NEW i \in DOMAIN checkouts, SetOrganizationStripeCustomer(i)
      PROVE  CheckoutIInv'
  <2>1. /\ deliveries' = deliveries + 1 /\ deliveries < MaxWebhooks /\ deliveries \in 0..MaxWebhooks
        /\ customer' = checkouts[i].paidBy /\ i \in PaidSessions
        /\ UNCHANGED <<buyer, checkouts, informed>>
    BY <1>1 DEF SetOrganizationStripeCustomer, CheckoutIInv
  <2>2. customer' \in Roots /\ customer' # NoCustomer
    BY <1>1, <2>1, CustomersAreRoots DEF PaidSessions, Customers
  <2>3. deliveries' \in 0..MaxWebhooks /\ deliveries' > 0
    BY <2>1, CheckoutAssumption
  <2>4. /\ buyer' \in [Buyers -> BuyerType]
        /\ \A b \in Buyers : buyer'[b].told <=> buyer'[b].customer # NoCustomer
    BY <1>1, <2>1 DEF CheckoutIInv, BuyerType
  <2>5. QED
    BY <1>1, <2>1, <2>2, <2>3, <2>4, SessionsKept
<1>2. ASSUME CheckoutIInv, UNCHANGED checkoutVars PROVE CheckoutIInv'
  BY <1>2 DEF checkoutVars, CheckoutIInv, Roots, PaidSessions
<1>3. QED
  BY <1>1, <1>2, BuyerSteps, CreateSessionStep, PayStep DEF CheckoutNext

LEMMA CheckoutInvariance == CheckoutSpec => []CheckoutIInv
BY CheckoutInitIInv, CheckoutKept, PTL DEF CheckoutSpec

LEMMA RootsAreCustomers == CheckoutIInv => OneCustomer
<1> SUFFICES ASSUME CheckoutIInv PROVE Cardinality(Customers) <= Cardinality(Roots)
  BY DEF OneCustomer, Roots
<1>1. IsFiniteSet(DOMAIN checkouts)
  BY LenProperties, FS_Interval DEF CheckoutIInv
<1>2. IsFiniteSet(Roots)
  BY <1>1, FS_Subset DEF Roots, PaidSessions
<1>3. QED
  BY <1>2, CustomersAreRoots, FS_Subset

\* However often and in whatever order the events of its payments arrive, and
\* whichever reads fail: an organization has no more customers than paid sessions of
\* requests that had not learnt of one.
THEOREM NoSecondCustomer == CheckoutSpec => []OneCustomer
BY RootsAreCustomers, CheckoutInvariance, PTL

-----------------------------------------------------------------------------
(* Plans: a profile is stored after it was counted, and counted one by one. *)

Limits == {Plan[p] : p \in DOMAIN Plan} \cup {Resting.limits}
Visit == [at : Handlers \cup {"idle", "put"}, limits : Limits, profile : 0..visits]
Putting == {v \in Visitors : visit[v].at = "put"}
Busy == {v \in Visitors : visit[v].at # "idle"}

\* Every explanation was a request of its own, as is every request under way.
PlanIInv ==
  /\ PlanTypeOK
  /\ visit \in [Visitors -> Visit]
  /\ used = Len(grants) /\ used + Cardinality(Busy) <= visits
  /\ topPlan \in Nat /\ topPlan >= 1
  /\ \A v \in Visitors : /\ visit[v].limits.profiles <= topPlan
                         /\ visit[v].at # "idle" => visit[v].profile \in 1..visits
  /\ ProfilesBounded
  /\ QuotaHeld

LEMMA PlanFacts ==
  ASSUME PlanTypeOK
  PROVE  /\ visits \in Nat /\ visits <= MaxVisits /\ used \in Nat /\ used <= visits
         /\ \A p \in DOMAIN Plan : /\ Plan[p] \in Limits
                                   /\ Plan[p].profiles \in Nat /\ Plan[p].profiles >= 1
                                   /\ Plan[p].monthlyAI \in Nat /\ Plan[p].monthlyAI >= 1
         /\ \A l \in Limits : l.profiles \in Nat /\ l.profiles >= 1
                              /\ l.monthlyAI \in Nat /\ l.monthlyAI >= 1
         /\ subscription.plan \in DOMAIN Plan
BY PlansAssumption DEF PlanTypeOK, Limits, Resting

\* The larger of two numbers.
LEMMA MaxOfTwo ==
  ASSUME NEW m \in Nat, NEW n \in Nat
  PROVE  Max({m, n}) \in {m, n} /\ Max({m, n}) >= m /\ Max({m, n}) >= n
<1>1. \E x \in {m, n} : \A y \in {m, n} : x >= y
  BY m >= n \/ n >= m
<1>2. QED
  BY <1>1 DEF Max

\* As many profiles are claimed as are stored, and one for each request that stores.
LEMMA ClaimedBound ==
  ASSUME NEW ids, IsFiniteSet(ids), NEW f, NEW W \in SUBSET Visitors, NEW claims,
         \A c \in claims : c \in ids \/ \E v \in W : c = f[v].profile
  PROVE  /\ IsFiniteSet(claims) /\ IsFiniteSet(W)
         /\ Cardinality(claims) <= Cardinality(ids) + Cardinality(W)
         /\ Cardinality(W) <= Cardinality(Visitors)
<1>1. IsFiniteSet(W) /\ Cardinality(W) <= Cardinality(Visitors)
  BY FS_Subset, PlansAssumption
<1>2. PICK news : news = {f[v].profile : v \in W}
  OBVIOUS
<1>3. IsFiniteSet(news) /\ Cardinality(news) <= Cardinality(W)
  <2>1. PICK g : g = [v \in W |-> f[v].profile]
    OBVIOUS
  <2>2. g \in Surjection(W, news)
    BY <1>2, <2>1 DEF Surjection
  <2>3. QED
    BY <1>1, <2>2, FS_Surjection
<1>4. claims \in SUBSET (ids \cup news)
  BY <1>2
<1>5. /\ IsFiniteSet(ids \cup news)
      /\ Cardinality(ids \cup news) = Cardinality(ids) + Cardinality(news) - Cardinality(ids \cap news)
  BY <1>3, FS_Union
<1>6. Cardinality(ids \cap news) \in Nat
  <2>1. ids \cap news \in SUBSET ids
    OBVIOUS
  <2>2. QED
    BY <2>1, FS_Subset, FS_CardinalityType
<1>7. /\ Cardinality(ids) \in Nat /\ Cardinality(news) \in Nat /\ Cardinality(W) \in Nat
      /\ Cardinality(Visitors) \in Nat
  BY <1>1, <1>3, FS_CardinalityType, PlansAssumption
<1>8. /\ IsFiniteSet(claims) /\ Cardinality(claims) <= Cardinality(ids \cup news)
      /\ Cardinality(claims) \in Nat
  BY <1>4, <1>5, FS_Subset, FS_CardinalityType
<1>9. Cardinality(ids \cup news) <= Cardinality(ids) + Cardinality(W)
  BY <1>3, <1>5, <1>6, <1>7
<1>10. Cardinality(ids \cup news) \in Nat
  BY <1>5, FS_CardinalityType
<1>11. QED
  BY <1>1, <1>7, <1>8, <1>9, <1>10

LEMMA PlanInitIInv == Deployed /\ PlanInit => PlanIInv
<1> SUFFICES ASSUME PlanInit PROVE PlanIInv
  OBVIOUS
<1>1. profiles = {} /\ used = 0 /\ visits = 0 /\ renewals = 0 /\ topPlan = 1 /\ grants = <<>>
  BY DEF PlanInit
<1>2. /\ Resting \in Visit /\ Resting.at = "idle" /\ Resting.limits.profiles = 1
      /\ Resting.profile = 0
  BY <1>1 DEF Resting, Visit, Limits
<1>3. visit \in [Visitors -> Visit] /\ \A v \in Visitors : visit[v] = Resting
  BY <1>2 DEF PlanInit
<1>4. PlanTypeOK
  <2>1. subscription \in [plan : DOMAIN Plan, active : BOOLEAN]
    BY DEF PlanInit
  <2>2. used \in 0..visits /\ visits \in 0..MaxVisits /\ renewals \in 0..MaxRenewals
    BY <1>1, PlansAssumption
  <2>3. QED
    BY <1>1, <1>2, <1>3, <2>1, <2>2 DEF PlanTypeOK, Limits
<1>5. ProfilesBounded
  <2>1. Claimed = {}
    BY <1>1, <1>2, <1>3 DEF Claimed
  <2>2. Cardinality(Claimed) = 0 /\ Cardinality(Visitors) \in Nat
    BY <2>1, FS_EmptySet, FS_CardinalityType, PlansAssumption
  <2>3. QED
    BY <1>1, <2>2 DEF ProfilesBounded
<1>6. QuotaHeld /\ used = Len(grants)
  BY <1>1 DEF QuotaHeld
<1>7. used + Cardinality(Busy) <= visits
  <2>1. Busy = {}
    BY <1>2, <1>3 DEF Busy
  <2>2. QED
    BY <1>1, <2>1, FS_EmptySet
<1>8. QED
  BY <1>1, <1>2, <1>3, <1>4, <1>5, <1>6, <1>7 DEF PlanIInv
LEMMA FiniteProfiles == PlanTypeOK => IsFiniteSet(profiles)
<1> SUFFICES ASSUME PlanTypeOK PROVE IsFiniteSet(profiles)
  OBVIOUS
<1>1. IsFiniteSet(1..visits) /\ profiles \in SUBSET (1..visits)
  BY PlanFacts, FS_Interval DEF PlanTypeOK
<1>2. QED
  BY <1>1, FS_Subset

\* A step that claims no profile.
LEMMA NothingClaimed ==
  ASSUME PlanIInv, Claimed' \subseteq Claimed, mode' = mode,
         topPlan' \in Nat, topPlan <= topPlan'
  PROVE  ProfilesBounded'
<1>1. PlanTypeOK /\ ProfilesBounded /\ topPlan \in Nat
  BY DEF PlanIInv
<1>2. IsFiniteSet(Claimed) /\ Cardinality(Visitors) \in Nat
  <2>1. /\ \A c \in Claimed : c \in profiles \/ \E v \in Putting : c = visit[v].profile
        /\ Putting \in SUBSET Visitors
    BY DEF Claimed, Putting
  <2>2. IsFiniteSet(profiles)
    BY <1>1, FiniteProfiles
  <2>3. IsFiniteSet(Claimed)
    BY <2>1, <2>2, ClaimedBound
  <2>4. QED
    BY <2>3, FS_CardinalityType, PlansAssumption
<1>3. IsFiniteSet(Claimed') /\ Cardinality(Claimed') <= Cardinality(Claimed)
  BY <1>2, FS_Subset
<1>4. Cardinality(Claimed) \in Nat /\ Cardinality(Claimed') \in Nat
  BY <1>2, <1>3, FS_CardinalityType
<1>5. QED
  BY <1>1, <1>2, <1>3, <1>4 DEF ProfilesBounded

\* The requests under way, when the one of v becomes q.
LEMMA BusyStep ==
  ASSUME PlanIInv, NEW v \in Visitors, NEW q, visit' = [visit EXCEPT ![v] = q]
  PROVE  /\ Cardinality(Busy) \in Nat /\ Cardinality(Busy') \in Nat
         /\ q.at # "idle" /\ visit[v].at = "idle" => Cardinality(Busy') = Cardinality(Busy) + 1
         /\ q.at # "idle" /\ visit[v].at # "idle" => Cardinality(Busy') = Cardinality(Busy)
         /\ q.at = "idle" /\ visit[v].at # "idle" => Cardinality(Busy') = Cardinality(Busy) - 1
<1>1. IsFiniteSet(Busy) /\ IsFiniteSet(Busy')
  BY FS_Subset, PlansAssumption DEF Busy
<1>2. Cardinality(Busy) \in Nat /\ Cardinality(Busy') \in Nat
  BY <1>1, FS_CardinalityType
<1>3. visit \in [Visitors -> Visit]
  BY DEF PlanIInv
<1>4. \A w \in Visitors : visit'[w] = IF w = v THEN q ELSE visit[w]
  BY <1>3
<1>5. /\ q.at # "idle" /\ visit[v].at = "idle" => v \notin Busy /\ Busy' = Busy \cup {v}
      /\ q.at # "idle" /\ visit[v].at # "idle" => Busy' = Busy
      /\ q.at = "idle" /\ visit[v].at # "idle" => v \in Busy /\ Busy' = Busy \ {v}
  BY <1>4 DEF Busy
<1>6. QED
  BY <1>1, <1>2, <1>5, FS_AddElement, FS_RemoveElement

\* A step of visitor v, whose request becomes q.
LEMMA VisitStep ==
  ASSUME PlanIInv, NEW v \in Visitors, NEW q \in Visit', visit' = [visit EXCEPT ![v] = q],
         UNCHANGED <<subscription, renewals>>,
         visits' \in 0..MaxVisits, visits <= visits',
         used' \in Nat, used' + Cardinality(Busy') <= visits',
         topPlan' \in Nat, topPlan <= topPlan', q.limits.profiles <= topPlan',
         q.at # "idle" => q.profile \in 1..visits',
         profiles' \subseteq 1..visits', grants' \in Seq(Nat), used' = Len(grants'),
         QuotaHeld', ProfilesBounded'
  PROVE  PlanIInv'
<1>1. /\ PlanTypeOK /\ visit \in [Visitors -> Visit] /\ topPlan \in Nat /\ topPlan >= 1
      /\ \A w \in Visitors : /\ visit[w].limits.profiles <= topPlan
                             /\ visit[w].at # "idle" => visit[w].profile \in 1..visits
  BY DEF PlanIInv
<1>2. 0..visits \subseteq 0..visits' /\ 1..visits \subseteq 1..visits' /\ visits' \in Nat
  BY <1>1, PlanFacts, PlansAssumption
<1>3. Visit \subseteq Visit'
  BY <1>2 DEF Visit, Limits
<1>4. /\ visit' \in [Visitors -> Visit']
      /\ \A w \in Visitors : visit'[w] = IF w = v THEN q ELSE visit[w]
  BY <1>1, <1>3
<1>5. ASSUME NEW w \in Visitors
      PROVE  /\ visit'[w].limits.profiles <= topPlan'
             /\ visit'[w].at # "idle" => visit'[w].profile \in 1..visits'
  <2>1. CASE w = v
    BY <1>4, <2>1
  <2>2. CASE w # v
    <3>1. PICK r \in Visit : r = visit[w] /\ visit'[w] = r
      BY <1>1, <1>4, <2>2
    <3>2. r.limits.profiles \in Nat
      BY <1>1, PlanFacts DEF Visit
    <3>3. QED
      BY <1>1, <1>2, <3>1, <3>2
  <2>3. QED
    BY <2>1, <2>2
<1>6. PlanTypeOK'
  <2>1. used' \in 0..visits'
    <3>1. Cardinality(Busy') \in Nat
      BY BusyStep
    <3>2. QED
      BY <1>2, <3>1
  <2>2. \A w \in Visitors : /\ visit'[w].at \in Handlers \cup {"idle", "put"}
                            /\ visit'[w].profile \in 0..visits'
                            /\ visit'[w].limits \in Limits
    BY <1>4 DEF Visit, Limits
  <2>3. QED
    BY <1>1, <2>1, <2>2 DEF PlanTypeOK, Limits
<1>7. QED
  BY <1>4, <1>5, <1>6 DEF PlanIInv

LEMMA RenewStep ==
  ASSUME PlanIInv, UNCHANGED deployment, Renew \/ NewMonth PROVE PlanIInv'
<1>1. /\ PlanTypeOK /\ visit \in [Visitors -> Visit] /\ used = Len(grants) /\ QuotaHeld
      /\ topPlan \in Nat /\ topPlan >= 1 /\ ProfilesBounded
      /\ \A w \in Visitors : /\ visit[w].limits.profiles <= topPlan
                             /\ visit[w].at # "idle" => visit[w].profile \in 1..visits
  BY DEF PlanIInv
<1>2. /\ UNCHANGED <<profiles, visit, visits, topPlan, mode>>
      /\ renewals' \in 0..MaxRenewals
      /\ subscription' \in [plan : DOMAIN Plan, active : BOOLEAN]
  BY <1>1, PlansAssumption DEF Renew, NewMonth, deployment, PlanTypeOK
<1>3. used' \in 0..visits /\ grants' \in Seq(Nat) /\ used' = Len(grants') /\ QuotaHeld'
  <2>1. CASE Renew
    BY <1>1, <2>1 DEF Renew, PlanTypeOK, QuotaHeld
  <2>2. CASE NewMonth
    BY <1>1, <2>2, PlanFacts DEF NewMonth, QuotaHeld
  <2>3. QED
    BY <2>1, <2>2
<1>4. PlanTypeOK'
  BY <1>1, <1>2, <1>3 DEF PlanTypeOK
<1>5. ProfilesBounded'
  BY <1>1, <1>2 DEF ProfilesBounded, Claimed
<1>6. Visit' = Visit /\ Busy' = Busy
  BY <1>2 DEF Visit, Busy
<1>7. used' + Cardinality(Busy') <= visits
  <2>1. used \in Nat /\ used + Cardinality(Busy) <= visits /\ visits \in Nat
    BY <1>1, PlanFacts DEF PlanIInv
  <2>2. Cardinality(Busy) \in Nat
    BY FS_Subset, FS_CardinalityType, PlansAssumption DEF Busy
  <2>3. used' = used \/ used' = 0
    BY DEF Renew, NewMonth
  <2>4. QED
    BY <1>6, <2>1, <2>2, <2>3
<1>8. QED
  BY <1>1, <1>2, <1>3, <1>4, <1>5, <1>6, <1>7 DEF PlanIInv

LEMMA AdmitStep ==
  ASSUME PlanIInv, UNCHANGED deployment, NEW v \in Visitors, NEW h \in Handlers, Admit(v, h)
  PROVE  PlanIInv'
<1>1. /\ PlanTypeOK /\ visit \in [Visitors -> Visit] /\ used = Len(grants) /\ QuotaHeld
      /\ topPlan \in Nat
  BY DEF PlanIInv
<1>2. PICK l \in Limits : l = Plan[subscription.plan] /\ l.profiles \in Nat
  BY <1>1, PlanFacts
<1>3. PICK n \in Nat : n = visits + 1
  BY <1>1, PlanFacts
<1>4. PICK q : q = [at |-> h, limits |-> l, profile |-> n]
  OBVIOUS
<1>5. /\ visit[v].at = "idle" /\ visits' = n /\ visits < MaxVisits
      /\ visit' = [visit EXCEPT ![v] = q] /\ topPlan' = Max({topPlan, l.profiles})
      /\ UNCHANGED <<subscription, profiles, used, renewals, grants, mode>>
  BY <1>2, <1>3, <1>4 DEF Admit, deployment
<1>6. topPlan' \in Nat /\ topPlan <= topPlan' /\ l.profiles <= topPlan'
  BY <1>1, <1>2, <1>5, MaxOfTwo
<1>7. n \in 0..MaxVisits /\ visits <= n /\ n \in 1..n /\ n \in 0..n /\ used \in 0..n
  BY <1>1, <1>3, <1>5, PlanFacts, PlansAssumption
<1>8. q \in Visit' /\ q.limits = l /\ q.profile = n /\ q.at = h
  BY <1>4, <1>5, <1>7 DEF Visit, Limits
<1>9. profiles \subseteq 1..n /\ grants \in Seq(Nat)
  BY <1>1, <1>3, PlanFacts DEF PlanTypeOK
<1>10. Claimed' \subseteq Claimed
  BY <1>1, <1>5, <1>8 DEF Claimed, Handlers
<1>11. ProfilesBounded'
  BY <1>5, <1>6, <1>10, NothingClaimed
<1>12. QuotaHeld'
  BY <1>1, <1>5 DEF QuotaHeld
<1>13. used' \in Nat /\ used' + Cardinality(Busy') <= visits'
  <2>1. used \in Nat /\ used + Cardinality(Busy) <= visits /\ visits \in Nat
    BY <1>1, PlanFacts DEF PlanIInv
  <2>2. q.at # "idle"
    BY <1>8 DEF Handlers
  <2>3. Cardinality(Busy) \in Nat /\ Cardinality(Busy') = Cardinality(Busy) + 1
    BY <1>5, <2>2, BusyStep
  <2>4. QED
    BY <1>3, <1>5, <2>1, <2>3
<1>14. QED
  BY <1>1, <1>5, <1>6, <1>7, <1>8, <1>9, <1>11, <1>12, <1>13, VisitStep

\* A request that goes on to store profile id, or leaves.
LEMMA MovedTo ==
  ASSUME PlanIInv, NEW v \in Visitors, NEW q \in Visit, visit' = [visit EXCEPT ![v] = q],
         UNCHANGED <<subscription, renewals, visits, topPlan, mode>>,
         q.limits.profiles <= topPlan, q.at # "idle" => q.profile \in 1..visits,
         profiles' \subseteq 1..visits, grants' \in Seq(Nat), visit[v].at # "idle",
         used' = used \/ (q.at = "idle" /\ used' = used + 1),
         used' = Len(grants'), QuotaHeld', ProfilesBounded'
  PROVE  PlanIInv'
<1>1. PlanTypeOK /\ topPlan \in Nat
  BY DEF PlanIInv
<1>2. visits' \in 0..MaxVisits /\ visits <= visits' /\ topPlan <= topPlan' /\ visits' = visits
  BY <1>1, PlanFacts DEF PlanTypeOK
<1>3. Visit' = Visit
  BY <1>2 DEF Visit, Limits
<1>4. used \in Nat /\ visits \in Nat /\ used + Cardinality(Busy) <= visits
  BY <1>1, PlanFacts DEF PlanIInv
<1>5. used' \in Nat /\ used' + Cardinality(Busy') <= visits'
  <2>1. CASE used' = used
    <3>1. /\ Cardinality(Busy) \in Nat /\ Cardinality(Busy') \in Nat
          /\ Cardinality(Busy') = Cardinality(Busy) \/ Cardinality(Busy') = Cardinality(Busy) - 1
      BY BusyStep
    <3>2. QED
      BY <1>2, <1>4, <2>1, <3>1
  <2>2. CASE q.at = "idle" /\ used' = used + 1
    <3>1. Cardinality(Busy) \in Nat /\ Cardinality(Busy') = Cardinality(Busy) - 1
      BY <2>2, BusyStep
    <3>2. QED
      BY <1>2, <1>4, <2>2, <3>1
  <2>3. QED
    BY <2>1, <2>2
<1>6. QED
  BY <1>1, <1>2, <1>3, <1>5, VisitStep

LEMMA RestingVisit ==
  ASSUME PlanIInv
  PROVE  /\ Resting \in Visit /\ Resting.at = "idle" /\ Resting.limits.profiles <= topPlan
         /\ UNCHANGED <<used, grants, visits>> =>
              used' = used /\ grants' \in Seq(Nat) /\ used' = Len(grants') /\ QuotaHeld'
<1>1. PlanTypeOK /\ used = Len(grants) /\ QuotaHeld /\ topPlan >= 1
  BY DEF PlanIInv
<1>2. /\ Resting \in Visit /\ Resting.at = "idle" /\ Resting.limits.profiles = 1
  BY <1>1, PlanFacts DEF Resting, Visit, Limits
<1>3. QED
  BY <1>1, <1>2 DEF PlanTypeOK, QuotaHeld

LEMMA CountStep ==
  ASSUME PlanIInv, UNCHANGED deployment, NEW v \in Visitors, CountProfiles(v) \/ LoadProfile(v)
  PROVE  PlanIInv'
<1>1. /\ PlanTypeOK /\ visit \in [Visitors -> Visit] /\ topPlan \in Nat /\ ProfilesBounded
      /\ IsFiniteSet(profiles) /\ profiles \subseteq 1..visits
  BY FiniteProfiles DEF PlanIInv, PlanTypeOK
<1>2. PICK r \in Visit : /\ r = visit[v] /\ r.limits.profiles <= topPlan
                         /\ r.at # "idle" => r.profile \in 1..visits
  BY <1>1 DEF PlanIInv
<1>3. UNCHANGED <<subscription, profiles, used, visits, renewals, topPlan, grants, mode>>
  BY DEF CountProfiles, LoadProfile, deployment
<1>4. visit[v].at # "idle"
  BY DEF CountProfiles, LoadProfile
<1>5. r.limits.profiles \in Nat
  BY <1>1, PlanFacts DEF Visit
<1>6. CASE CountProfiles(v) /\ ~HasRoom(v)
  <2>1. visit' = [visit EXCEPT ![v] = Resting]
    BY <1>6 DEF CountProfiles, Leaves
  <2>2. Claimed' \subseteq Claimed
    BY <1>1, <1>3, <2>1, RestingVisit DEF Claimed
  <2>3. ProfilesBounded'
    BY <1>1, <1>3, <2>2, NothingClaimed
  <2>4. QED
    BY <1>1, <1>3, <1>4, <2>1, <2>3, RestingVisit, MovedTo
<1>7. CASE CountProfiles(v) /\ HasRoom(v)
  <2>1. PICK q : q = [r EXCEPT !.at = "put"]
    OBVIOUS
  <2>2. q \in Visit /\ q.at = "put" /\ q.limits = r.limits /\ q.profile = r.profile
    BY <2>1 DEF Visit
  <2>3. visit' = [visit EXCEPT ![v] = q] /\ r.at # "idle"
    BY <1>1, <1>2, <1>7, <2>1 DEF CountProfiles, Saves, Visit
  <2>4. ProfilesBounded'
    <3>1. SUFFICES ASSUME mode = "cloud"
                   PROVE  Cardinality(Claimed') <= topPlan + Cardinality(Visitors) - 1
      BY <1>3 DEF ProfilesBounded
    <3>2. Cardinality(profiles) < r.limits.profiles /\ Cardinality(profiles) \in Nat
      BY <1>1, <1>2, <1>7, <3>1, FS_CardinalityType DEF HasRoom
    <3>3. /\ IsFiniteSet(Claimed') /\ IsFiniteSet(Putting')
          /\ Cardinality(Claimed') <= Cardinality(profiles) + Cardinality(Putting')
          /\ Cardinality(Putting') <= Cardinality(Visitors)
      <4>1. /\ \A c \in Claimed' : c \in profiles \/ \E w \in Putting' : c = visit'[w].profile
            /\ Putting' \in SUBSET Visitors
        BY <1>3 DEF Claimed, Putting
      <4>2. QED
        BY <1>1, <4>1, ClaimedBound
    <3>4. /\ Cardinality(Claimed') \in Nat /\ Cardinality(Putting') \in Nat
          /\ Cardinality(Visitors) \in Nat
      BY <3>3, FS_CardinalityType, PlansAssumption
    <3>5. QED
      BY <1>1, <1>2, <1>5, <3>2, <3>3, <3>4
  <2>5. QED
    BY <1>1, <1>2, <1>3, <1>4, <2>2, <2>3, <2>4, RestingVisit, MovedTo
<1>8. CASE LoadProfile(v)
  <2>1. PICK id \in profiles : visit' = [visit EXCEPT ![v].at = "put", ![v].profile = id]
    BY <1>8 DEF LoadProfile, Saves
  <2>2. id \in 1..visits /\ id \in 0..visits
    BY <1>1, <2>1, PlanFacts
  <2>3. PICK q : q = [r EXCEPT !.at = "put", !.profile = id]
    OBVIOUS
  <2>4. q \in Visit /\ q.at = "put" /\ q.limits = r.limits /\ q.profile = id
    BY <2>2, <2>3 DEF Visit
  <2>5. visit' = [visit EXCEPT ![v] = q]
    BY <1>1, <1>2, <2>1, <2>3
  <2>6. Claimed' \subseteq Claimed
    BY <1>1, <1>3, <2>1, <2>4, <2>5 DEF Claimed
  <2>7. ProfilesBounded'
    BY <1>1, <1>3, <2>6, NothingClaimed
  <2>8. QED
    BY <1>1, <1>2, <1>3, <1>4, <2>2, <2>4, <2>5, <2>7, RestingVisit, MovedTo
<1>9. QED
  BY <1>6, <1>7, <1>8

LEMMA StoreStep ==
  ASSUME PlanIInv, UNCHANGED deployment, NEW v \in Visitors, PutProfile(v) \/ DeleteProfile(v)
  PROVE  PlanIInv'
<1>1. /\ PlanTypeOK /\ visit \in [Visitors -> Visit] /\ topPlan \in Nat
      /\ profiles \subseteq 1..visits
      /\ visit[v].at # "idle" => visit[v].profile \in 1..visits
  BY DEF PlanIInv, PlanTypeOK
<1>2. /\ UNCHANGED <<subscription, used, visits, renewals, topPlan, grants, mode>>
      /\ visit' = [visit EXCEPT ![v] = Resting]
  BY DEF PutProfile, DeleteProfile, Leaves, deployment
<1>3. profiles' \subseteq Claimed /\ profiles' \subseteq 1..visits
  <2>1. CASE PutProfile(v)
    BY <1>1, <2>1 DEF PutProfile, Claimed
  <2>2. CASE DeleteProfile(v)
    BY <1>1, <2>2 DEF DeleteProfile, Claimed
  <2>3. QED
    BY <2>1, <2>2
<1>4. Claimed' \subseteq Claimed
  BY <1>1, <1>2, <1>3, RestingVisit DEF Claimed
<1>5. ProfilesBounded'
  BY <1>1, <1>2, <1>4, NothingClaimed
<1>6. visit[v].at # "idle"
  BY DEF PutProfile, DeleteProfile
<1>7. QED
  BY <1>1, <1>2, <1>3, <1>5, <1>6, RestingVisit, MovedTo

\* The n-th explanation is the one that finds n - 1, fewer than its request's limit.
LEMMA ConsumeStep ==
  ASSUME PlanIInv, UNCHANGED deployment, NEW v \in Visitors, ConsumeUsage(v)
  PROVE  PlanIInv'
<1>1. /\ PlanTypeOK /\ visit \in [Visitors -> Visit] /\ topPlan \in Nat
      /\ used = Len(grants) /\ QuotaHeld /\ grants \in Seq(Nat) /\ profiles \subseteq 1..visits
  BY DEF PlanIInv, PlanTypeOK
<1>2. /\ UNCHANGED <<subscription, profiles, visits, renewals, topPlan, mode>>
      /\ visit' = [visit EXCEPT ![v] = Resting]
  BY DEF ConsumeUsage, Leaves, deployment
<1>3. PICK limit0 : limit0 = visit[v].limits.monthlyAI
  OBVIOUS
<1>4. limit0 \in Nat /\ limit0 >= 1
  BY <1>1, <1>3, PlanFacts DEF Visit
<1>5. Claimed' \subseteq Claimed
  BY <1>1, <1>2, RestingVisit DEF Claimed
<1>6. ProfilesBounded'
  BY <1>1, <1>2, <1>5, NothingClaimed
<1>7. visit[v].at # "idle"
  BY DEF ConsumeUsage
<1>8. CASE ~Allowed(v)
  BY <1>1, <1>2, <1>6, <1>8, <1>7, RestingVisit, MovedTo DEF ConsumeUsage
<1>9. CASE Allowed(v)
  <2>1. used' = used + 1 /\ grants' = Append(grants, limit0) /\ used + 1 <= limit0
    BY <1>1, <1>3, <1>4, <1>9, PlanFacts DEF ConsumeUsage, Allowed
  <2>2. /\ grants' \in Seq(Nat) /\ Len(grants') = used + 1 /\ DOMAIN grants' = 1..(used + 1)
        /\ \A n \in 1..used : grants'[n] = grants[n]
        /\ grants'[used + 1] = limit0 /\ DOMAIN grants = 1..used
    BY <1>1, <1>4, <2>1, AppendProperties, LenProperties
  <2>3. QuotaHeld'
    BY <1>1, <2>1, <2>2, PlanFacts DEF QuotaHeld
  <2>4. QED
    BY <1>1, <1>2, <1>6, <1>7, <2>1, <2>2, <2>3, RestingVisit, MovedTo
<1>10. QED
  BY <1>8, <1>9

LEMMA PlanKept ==
  PlanIInv /\ [PlanNext /\ UNCHANGED deployment]_<<planVars, deployment>> => PlanIInv'
<1>1. ASSUME PlanIInv, UNCHANGED <<planVars, deployment>> PROVE PlanIInv'
  BY <1>1 DEF planVars, deployment, PlanIInv, PlanTypeOK, Visit, Busy, ProfilesBounded, Claimed, QuotaHeld
<1>2. QED
  BY <1>1, RenewStep, AdmitStep, CountStep, StoreStep, ConsumeStep DEF PlanNext

LEMMA PlanInvariance == PlanSpec => []PlanIInv
BY PlanInitIInv, PlanKept, PTL DEF PlanSpec

\* Types of the requests and the counters, for all plans and any number of requests.
THEOREM PlanTypes == PlanSpec => []PlanTypeOK
BY PlanInvariance, PTL DEF PlanIInv

\* Overlapping requests pass the limit on profiles by at most their number less one.
THEOREM ProfilesStayBounded == PlanSpec => []ProfilesBounded
BY PlanInvariance, PTL DEF PlanIInv

\* No explanation of a month is beyond the plan its request was admitted with.
THEOREM QuotaIsHeld == PlanSpec => []QuotaHeld
BY PlanInvariance, PTL DEF PlanIInv

-----------------------------------------------------------------------------
(* Pncp: while one source answers, what is delivered is a prefix of its    *)
(* list, and its last page ends the list.                                  *)

\* The first n pages of a list, and of what a source lists.
PagesOf(l, n) == {x \in Publications : \E i \in 1..Len(l) : i <= n * PncpPageSize /\ x = l[i]}
Pages(s, n) == PagesOf(lists[s], n)

PncpIInv ==
  /\ PncpTypeOK
  /\ pageNumber = 1 \/ \E s \in Sources : pageNumber <= Len(lists[s])
  /\ asking \in Sources =>
       \A s \in Sources : servedBy \subseteq {s} => delivered = Pages(s, pageNumber - 1)
  /\ asking = "done" =>
       /\ servedBy # {}
       /\ pageNumber # limit =>
            \A s \in Sources : servedBy = {s} => delivered = ToSet(lists[s])
  /\ ~transient => servedBy \subseteq {"primary"} /\ asking # "fallback"

LEMMA DivByPage ==
  ASSUME NEW x \in Int, NEW p \in Nat \ {0}, x \div p <= 0
  PROVE  x < p
OBVIOUS

LEMMA ListIsSeq ==
  ASSUME NEW l \in Listings
  PROVE  /\ l \in Seq(Publications) /\ Len(l) \in Nat /\ Len(l) <= Cardinality(Publications)
         /\ DOMAIN l = 1..Len(l) /\ \A i \in 1..Len(l) : l[i] \in Publications
<1>1. PICK S \in SUBSET Publications : l \in SetToSeqs(S)
  BY DEF Listings
<1>2. IsFiniteSet(S) /\ Cardinality(S) \in Nat /\ Cardinality(S) <= Cardinality(Publications)
  BY FS_Subset, FS_CardinalityType, PncpAssumption
<1>3. l \in [1..Cardinality(S) -> S]
  BY <1>1 DEF SetToSeqs
<1>4. l \in Seq(S) /\ Len(l) = Cardinality(S)
  BY <1>2, <1>3
<1>5. QED
  BY <1>2, <1>3, <1>4

\* What the n-th page holds, and when it is the last.
LEMMA PageElements ==
  ASSUME PncpTypeOK, NEW s \in Sources, NEW n \in Nat \ {0}
  PROVE  /\ Pages(s, n) = Pages(s, n - 1) \cup ToSet(PageOf(s, n))
         /\ ToSet(PageOf(s, n)) \subseteq Publications
         /\ Remaining(s, n) <= 0 \/ PageOf(s, n) = <<>> => Pages(s, n) = ToSet(lists[s])
         /\ ~(Remaining(s, n) <= 0 \/ PageOf(s, n) = <<>>) => n < Len(lists[s])
<1>1. PICK l \in Listings : l = lists[s]
  BY DEF PncpTypeOK
<1>2. PICK len \in Nat : /\ len = Len(l) /\ DOMAIN l = 1..len
                         /\ \A i \in 1..len : l[i] \in Publications
  BY ListIsSeq
<1>3. PICK size \in Nat \ {0} : size = PncpPageSize
  BY PncpAssumption
<1>4. PICK a \in Nat : a = (n - 1) * size
  OBVIOUS
<1>5. n * size = a + size /\ n * size \in Nat /\ n <= a + size
  BY <1>4
<1>6. PICK top \in Nat : top = IF a + size < len THEN a + size ELSE len
  OBVIOUS
<1>7. PICK page : page = PageOf(s, n)
  OBVIOUS
<1>8. page = SubSeq(l, a + 1, top)
  BY <1>1, <1>2, <1>3, <1>4, <1>5, <1>6, <1>7 DEF PageOf
<1>9. /\ page \in Seq(Publications)
      /\ Len(page) = IF a + 1 <= top THEN top - a ELSE 0
      /\ \A i \in 1..(top - a) : page[i] = l[a + i]
  <2>1. \A i \in (a + 1)..top : l[i] \in Publications
    BY <1>2, <1>6
  <2>2. /\ SubSeq(l, a + 1, top) \in Seq(Publications)
        /\ Len(SubSeq(l, a + 1, top)) = IF a + 1 <= top THEN top - (a + 1) + 1 ELSE 0
        /\ \A i \in 1..(top - (a + 1) + 1) : SubSeq(l, a + 1, top)[i] = l[(a + 1) + i - 1]
    BY <2>1, SubSeqProperties
  <2>3. top - (a + 1) + 1 = top - a /\ \A i \in Nat : (a + 1) + i - 1 = a + i
    OBVIOUS
  <2>4. QED
    BY <1>8, <2>2, <2>3
<1>10. DOMAIN page = 1..Len(page)
  BY <1>9
<1>11. ASSUME NEW x
       PROVE  x \in ToSet(page) <=> \E i \in 1..len : a < i /\ i <= a + size /\ x = l[i]
  <2>1. ASSUME NEW j \in DOMAIN page, x = page[j]
        PROVE  \E i \in 1..len : a < i /\ i <= a + size /\ x = l[i]
    <3>1. j \in 1..(top - a) /\ a + j \in 1..len /\ a < a + j /\ a + j <= a + size
      BY <1>6, <1>9, <1>10
    <3>2. QED
      BY <1>9, <2>1, <3>1
  <2>2. ASSUME NEW i \in 1..len, a < i, i <= a + size, x = l[i]
        PROVE  \E j \in DOMAIN page : x = page[j]
    <3>1. i - a \in 1..(top - a) /\ a + (i - a) = i /\ a + 1 <= top
      BY <1>6, <2>2
    <3>2. i - a \in DOMAIN page
      BY <1>9, <1>10, <3>1
    <3>3. QED
      BY <1>9, <2>2, <3>1, <3>2
  <2>3. QED
    BY <2>1, <2>2 DEF ToSet
<1>12. ASSUME NEW x
       PROVE  /\ x \in Pages(s, n) <=> \E i \in 1..len : i <= a + size /\ x = l[i]
              /\ x \in Pages(s, n - 1) <=> \E i \in 1..len : i <= a /\ x = l[i]
  BY <1>1, <1>2, <1>3, <1>4, <1>5 DEF Pages, PagesOf
<1>13. Pages(s, n) = Pages(s, n - 1) \cup ToSet(page)
  <2>1. ASSUME NEW x, x \in Pages(s, n)
        PROVE  x \in Pages(s, n - 1) \/ x \in ToSet(page)
    <3>1. PICK i \in 1..len : i <= a + size /\ x = l[i]
      BY <1>12, <2>1
    <3>2. CASE i <= a
      BY <1>12, <3>1, <3>2
    <3>3. CASE a < i
      BY <1>11, <3>1, <3>3
    <3>4. QED
      BY <3>2, <3>3
  <2>2. ASSUME NEW x, x \in ToSet(page) PROVE x \in Pages(s, n)
    BY <1>11, <1>12, <2>2
  <2>3. ASSUME NEW x, x \in Pages(s, n - 1) PROVE x \in Pages(s, n)
    <3>1. PICK i \in 1..len : i <= a /\ x = l[i]
      BY <1>12, <2>3
    <3>2. i <= a + size
      BY <3>1
    <3>3. QED
      BY <1>12, <3>1, <3>2
  <2>4. QED
    BY <2>1, <2>2, <2>3
<1>14. ToSet(page) \subseteq Publications
  BY <1>2, <1>11
<1>15. ASSUME Remaining(s, n) <= 0 \/ page = <<>>
       PROVE  Pages(s, n) = ToSet(l)
  <2>1. len <= a + size
    <3>1. CASE Remaining(s, n) <= 0
      <4>1. (len - (a + size) + size - 1) \div size <= 0
        BY <1>1, <1>2, <1>3, <1>5, <3>1 DEF Remaining
      <4>2. len - (a + size) + size - 1 < size
        BY <4>1, DivByPage
      <4>3. QED
        BY <4>2
    <3>2. CASE page = <<>>
      BY <1>6, <1>9, <3>2
    <3>3. QED
      BY <1>15, <3>1, <3>2
  <2>2. ASSUME NEW x PROVE x \in Pages(s, n) <=> x \in ToSet(l)
    BY <1>2, <1>12, <2>1 DEF ToSet
  <2>3. QED
    BY <2>2
<1>16. ASSUME ~(Remaining(s, n) <= 0 \/ page = <<>>) PROVE n < len
  <2>1. CASE len <= a + size
    <3>1. PICK x \in Int : x = len - (a + size) + size - 1
      OBVIOUS
    <3>2. x < size
      BY <2>1, <3>1
    <3>3. x \div size <= 0
      BY <3>2
    <3>4. Remaining(s, n) <= 0
      BY <1>1, <1>2, <1>3, <1>5, <3>1, <3>3 DEF Remaining
    <3>5. QED
      BY <1>16, <3>4
  <2>2. CASE len > a + size
    BY <1>5, <2>2
  <2>3. QED
    BY <2>1, <2>2
<1>17. QED
  BY <1>1, <1>2, <1>7, <1>13, <1>14, <1>15, <1>16

LEMMA PncpInitIInv == PncpInit => PncpIInv
<1> SUFFICES ASSUME PncpInit PROVE PncpIInv
  OBVIOUS
<1>1. PICK p \in SetToSeqs(Publications), f \in Listings :
        lists = [primary |-> p, fallback |-> f]
  BY DEF PncpInit
<1>2. p \in Listings
  BY <1>1 DEF Listings
<1>3. lists \in [Sources -> Listings]
  BY <1>1, <1>2 DEF Sources
<1>4. IsFiniteSet(Publications) /\ Cardinality(Publications) \in Nat
  BY FS_CardinalityType, PncpAssumption
<1>5. PncpTypeOK
  <2>1. pageNumber \in 1..(Cardinality(Publications) + 1) /\ attempt \in 1..MaxAttempts
    BY <1>4, PncpAssumption DEF PncpInit
  <2>2. asking \in Sources \cup {"done", "failed"} /\ delivered = {} /\ servedBy = {}
        /\ limit \in MaxPages /\ hasFallback \in BOOLEAN /\ transient \in BOOLEAN
    BY DEF PncpInit, Sources
  <2>3. QED
    BY <1>3, <2>1, <2>2 DEF PncpTypeOK
<1>6. ASSUME NEW s \in Sources PROVE Pages(s, 0) = {}
  <2>1. 0 * PncpPageSize = 0
    BY PncpAssumption
  <2>2. \A i \in 1..Len(lists[s]) : ~(i <= 0)
    BY <1>3, ListIsSeq
  <2>3. QED
    BY <2>1, <2>2 DEF Pages, PagesOf
<1>7. pageNumber - 1 = 0 /\ delivered = {} /\ pageNumber = 1
  BY DEF PncpInit
<1>8. QED
  BY <1>5, <1>6, <1>7 DEF PncpIInv, PncpInit, Sources

\* A page that is served ends what was delivered at the end of that page.
LEMMA ServeStep ==
  ASSUME PncpIInv, NEW s \in Sources, Answer(s)
  PROVE  PncpIInv'
<1>1. PICK n \in 1..(Cardinality(Publications) + 1) : n = pageNumber
  BY DEF PncpIInv, PncpTypeOK
<1>2. Cardinality(Publications) \in Nat /\ n \in Nat \ {0}
  BY FS_CardinalityType, PncpAssumption
<1>3. /\ asking = s /\ lists' = lists /\ limit' = limit /\ hasFallback' = hasFallback
      /\ transient' = transient /\ servedBy' = servedBy \cup {s}
      /\ delivered' = delivered \cup ToSet(PageOf(s, n))
  BY <1>1 DEF Answer, Serve, setting
<1>4. /\ Pages(s, n) = Pages(s, n - 1) \cup ToSet(PageOf(s, n))
      /\ ToSet(PageOf(s, n)) \subseteq Publications
      /\ LastPage(s) => Pages(s, n) = ToSet(lists[s])
      /\ ~LastPage(s) => n < Len(lists[s])
  BY <1>1, <1>2, PageElements DEF PncpIInv, LastPage
<1>5. Len(lists[s]) \in Nat /\ Len(lists[s]) <= Cardinality(Publications)
  BY ListIsSeq DEF PncpIInv, PncpTypeOK
<1>6. servedBy' \subseteq {s} => delivered' = Pages(s, n)
  BY <1>1, <1>3, <1>4 DEF PncpIInv
<1>7. \A q \in Sources : servedBy' \subseteq {q} => q = s
  BY <1>3
<1>8. ~transient' => servedBy' \subseteq {"primary"}
  BY <1>3 DEF PncpIInv, Sources
<1>9. CASE LastPage(s) \/ pageNumber = limit
  <2>1. asking' = "done" /\ pageNumber' = n /\ attempt' = attempt
    BY <1>1, <1>9 DEF Answer, Serve
  <2>2. PncpTypeOK'
    BY <1>1, <1>3, <1>4, <2>1 DEF PncpIInv, PncpTypeOK
  <2>3. pageNumber' # limit' =>
          \A q \in Sources : servedBy' = {q} => delivered' = ToSet(lists'[q])
    BY <1>1, <1>3, <1>4, <1>6, <1>7, <1>9, <2>1
  <2>4. (pageNumber = 1 \/ \E q \in Sources : pageNumber <= Len(lists[q]))'
    BY <1>1, <1>3, <2>1 DEF PncpIInv
  <2>5. QED
    BY <1>3, <1>8, <2>1, <2>2, <2>3, <2>4 DEF PncpIInv, Sources
<1>10. CASE ~(LastPage(s) \/ pageNumber = limit)
  <2>1. asking' = "primary" /\ pageNumber' = n + 1 /\ attempt' = 1
    BY <1>1, <1>10 DEF Answer, Serve
  <2>2. n + 1 <= Len(lists[s]) /\ n + 1 \in 1..(Cardinality(Publications) + 1)
        /\ 1 \in 1..MaxAttempts
    BY <1>2, <1>4, <1>5, <1>10, PncpAssumption
  <2>3. PncpTypeOK'
    BY <1>3, <1>4, <2>1, <2>2 DEF PncpIInv, PncpTypeOK, Sources
  <2>4. \A q \in Sources : servedBy' \subseteq {q} => delivered' = Pages(q, pageNumber - 1)'
    <3>1. pageNumber' - 1 = n
      BY <1>2, <2>1
    <3>2. QED
      BY <1>3, <1>6, <1>7, <3>1 DEF Pages
  <2>5. QED
    BY <1>3, <1>8, <2>1, <2>2, <2>3, <2>4 DEF PncpIInv
<1>11. QED
  BY <1>9, <1>10

LEMMA TryAgainStep ==
  ASSUME PncpIInv, asking \in Sources, TryAgain,
         transient' \in BOOLEAN, ~transient' => ~transient
  PROVE  PncpIInv'
<1>1. /\ lists' = lists /\ limit' = limit /\ hasFallback' = hasFallback
      /\ pageNumber' = pageNumber /\ delivered' = delivered /\ servedBy' = servedBy
  BY DEF TryAgain, setting
<1>2. attempt' \in 1..MaxAttempts /\ asking' \in {"primary", "failed"}
  <2>1. attempt \in 1..MaxAttempts /\ MaxAttempts \in Nat
    BY PncpAssumption DEF PncpIInv, PncpTypeOK
  <2>2. QED
    BY <2>1 DEF TryAgain
<1>3. PncpTypeOK'
  BY <1>1, <1>2 DEF PncpIInv, PncpTypeOK, Sources
<1>4. \A s \in Sources : servedBy' \subseteq {s} => delivered' = Pages(s, pageNumber - 1)'
  BY <1>1 DEF PncpIInv, Pages
<1>5. QED
  BY <1>1, <1>2, <1>3, <1>4 DEF PncpIInv

\* What a page that did not come changes.
LEMMA NoPageStep ==
  ASSUME PncpIInv, FailTransiently \/ FailForGood \/ FallbackFails \/ PageRefused
  PROVE  PncpIInv'
<1>1. CASE FailTransiently
  <2>1. asking \in Sources /\ transient' = TRUE
    BY <1>1 DEF FailTransiently, Sources
  <2>2. CASE hasFallback
    <3>1. /\ lists' = lists /\ limit' = limit /\ hasFallback' = hasFallback
          /\ pageNumber' = pageNumber /\ delivered' = delivered /\ servedBy' = servedBy
          /\ attempt' = attempt /\ asking' = "fallback"
      BY <1>1, <2>2 DEF FailTransiently, setting
    <3>2. PncpTypeOK'
      BY <2>1, <3>1 DEF PncpIInv, PncpTypeOK, Sources
    <3>3. \A s \in Sources : servedBy' \subseteq {s} => delivered' = Pages(s, pageNumber - 1)'
      BY <2>1, <3>1 DEF PncpIInv, Pages
    <3>4. QED
      BY <2>1, <3>1, <3>2, <3>3 DEF PncpIInv
  <2>3. CASE ~hasFallback
    <3>1. TryAgain
      BY <1>1, <2>3 DEF FailTransiently
    <3>2. QED
      BY <2>1, <3>1, TryAgainStep
  <2>4. QED
    BY <2>2, <2>3
<1>2. CASE FailForGood \/ FallbackFails
  <2>1. asking \in Sources /\ TryAgain /\ transient' = transient
    BY <1>2 DEF FailForGood, FallbackFails, Sources
  <2>2. transient' \in BOOLEAN
    BY <2>1 DEF PncpIInv, PncpTypeOK
  <2>3. QED
    BY <2>1, <2>2, TryAgainStep
<1>3. CASE PageRefused
  <2>1. /\ lists' = lists /\ limit' = limit /\ hasFallback' = hasFallback
        /\ pageNumber' = pageNumber /\ delivered' = delivered /\ servedBy' = servedBy
        /\ attempt' = attempt /\ transient' = transient /\ asking' = "failed"
    BY <1>3 DEF PageRefused, setting
  <2>2. PncpTypeOK'
    BY <2>1 DEF PncpIInv, PncpTypeOK
  <2>3. QED
    BY <2>1, <2>2 DEF PncpIInv, Sources
<1>4. QED
  BY <1>1, <1>2, <1>3

LEMMA PncpKept == PncpIInv /\ [PncpNext]_pncpVars => PncpIInv'
<1>1. ASSUME PncpIInv, UNCHANGED pncpVars PROVE PncpIInv'
  BY <1>1 DEF pncpVars, PncpIInv, PncpTypeOK, Pages
<1>2. QED
  BY <1>1, ServeStep, NoPageStep DEF PncpNext

LEMMA PncpInvariance == PncpSpec => []PncpIInv
BY PncpInitIInv, PncpKept, PTL DEF PncpSpec

LEMMA SourceDelivered == PncpIInv => DayAsListed
<1> SUFFICES ASSUME PncpIInv, asking = "done", pageNumber # limit
             PROVE  /\ ~transient => delivered = ToSet(lists["primary"])
                    /\ \A s \in Sources : servedBy = {s} => delivered = ToSet(lists[s])
  BY DEF DayAsListed
<1>1. \A s \in Sources : servedBy = {s} => delivered = ToSet(lists[s])
  BY DEF PncpIInv
<1>2. ~transient => servedBy = {"primary"}
  BY DEF PncpIInv
<1>3. QED
  BY <1>1, <1>2 DEF Sources

\* A backfill that ends well and was not cut short has delivered what the source
\* of its pages lists, whatever that is, for any page size.
THEOREM DayIsDelivered == PncpSpec => []DayAsListed
BY SourceDelivered, PncpInvariance, PTL

-----------------------------------------------------------------------------
(* Limiter: within one length of a window lie at most one earlier window,  *)
(* the present one, and one for each restart.                              *)

\* Attempts let through from time a on.
Since(a) == passed[clock] - IF a = 0 THEN 0 ELSE passed[a - 1]

\* What the entry in memory says of the last stretch of time: what was let through
\* after the window opened is counted in it, and before that lies one window more.
Recent ==
  \A a \in 0..clock : a > clock - Window =>
    /\ started = NotYet => Since(a) <= (1 + reboots) * Quota
    /\ started >= a => Since(a) <= (1 + reboots) * Quota + attempts
    /\ started # NotYet /\ started < a => Since(a) <= attempts

LimiterIInv ==
  /\ LimiterTypeOK
  /\ \A a, b \in 0..clock : a <= b => passed[a] <= passed[b]
  /\ Recent
  /\ started # NotYet => Since(started) >= attempts
  /\ QuotaPerWindow

LEMMA Multiples ==
  ASSUME NEW n \in Nat
  PROVE  /\ (1 + n) * Quota \in Nat
         /\ (2 + n) * Quota = (1 + n) * Quota + Quota
         /\ (1 + (n + 1)) * Quota = (1 + n) * Quota + Quota
         /\ (2 + (n + 1)) * Quota = (2 + n) * Quota + Quota
BY LimiterAssumption

LEMMA LimiterInitIInv == LimiterInit => LimiterIInv
<1> SUFFICES ASSUME LimiterInit PROVE LimiterIInv
  OBVIOUS
<1>1. LimiterTypeOK
  BY LimiterAssumption DEF LimiterInit, LimiterTypeOK, NotYet
<1>2. \A t \in 0..clock : t = 0 /\ passed[t] = 0
  BY LimiterAssumption DEF LimiterInit
<1>3. (1 + reboots) * Quota \in Nat /\ (2 + reboots) * Quota \in Nat
  BY Multiples, LimiterAssumption DEF LimiterInit
<1>4. Recent /\ QuotaPerWindow
  BY <1>2, <1>3, LimiterAssumption DEF LimiterInit, Recent, Since, NotYet, QuotaPerWindow, PassedWithin
<1>5. QED
  BY <1>1, <1>2, <1>4 DEF LimiterIInv, LimiterInit

BoundedNow == PassedWithin(clock) <= (2 + reboots) * Quota

\* The stretch that ends now is one of those Recent speaks of.
LEMMA QuotaNow == LimiterTypeOK /\ Recent => BoundedNow
<1> SUFFICES ASSUME LimiterTypeOK, Recent PROVE PassedWithin(clock) <= (2 + reboots) * Quota
  BY DEF BoundedNow
<1>1. PICK a : a = IF clock < Window THEN 0 ELSE clock - Window + 1
  OBVIOUS
<1>2. a \in 0..clock /\ a > clock - Window /\ clock \in Nat
  BY <1>1, LimiterAssumption DEF LimiterTypeOK
<1>3. PassedWithin(clock) = Since(a)
  BY <1>1, <1>2, LimiterAssumption DEF PassedWithin, Since
<1>4. passed[clock] \in Nat /\ (a # 0 => passed[a - 1] \in Nat)
  BY <1>2, LimiterAssumption DEF LimiterTypeOK
<1>5. Since(a) \in Int
  BY <1>2, <1>4 DEF Since
<1>6. /\ reboots \in Nat /\ attempts \in Nat /\ Quota \in Nat /\ attempts <= Quota
      /\ started = NotYet \/ started >= a \/ (started # NotYet /\ started < a)
  BY <1>2, LimiterAssumption DEF LimiterTypeOK, NotYet
<1>7. \/ Since(a) <= (1 + reboots) * Quota
      \/ Since(a) <= (1 + reboots) * Quota + attempts
      \/ Since(a) <= attempts
  BY <1>2, <1>6 DEF Recent
<1>8. (1 + reboots) * Quota \in Nat /\ (2 + reboots) * Quota = (1 + reboots) * Quota + Quota
  BY <1>6, Multiples
<1>9. QED
  BY <1>3, <1>5, <1>6, <1>7, <1>8

LEMMA PassKept ==
  ASSUME LimiterIInv, Allow, OpenWindow \/ CountOn
  PROVE  LimiterIInv'
<1>1. /\ tries' = tries + 1 /\ tries' \in 0..MaxTries /\ clock' = clock /\ reboots' = reboots
      /\ refusals' = refusals /\ passed' = [passed EXCEPT ![clock] = passed[clock] + 1]
      /\ LimiterTypeOK
  BY LimiterAssumption DEF LimiterIInv, LimiterTypeOK, Allow, OpenWindow, CountOn, Pass
<1>2. /\ clock \in Nat /\ clock \in 0..MaxClock /\ passed \in [0..MaxClock -> Nat]
      /\ started \in Int /\ started <= clock /\ attempts \in Nat /\ attempts <= Quota /\ Quota \in Nat /\ Quota >= 1
      /\ reboots \in Nat /\ Window \in Nat /\ Window >= 1 /\ MaxClock \in Nat /\ NotYet = -1 /\ started >= -1
      /\ (1 + reboots) * Quota \in Nat /\ refusals \in 0..tries /\ tries \in Nat
  BY <1>1, LimiterAssumption, Multiples DEF LimiterTypeOK, NotYet
<1>3. /\ passed'[clock] = passed[clock] + 1
      /\ \A t \in 0..MaxClock : t # clock => passed'[t] = passed[t]
      /\ \A t \in 0..MaxClock : passed[t] \in Nat /\ passed'[t] \in Nat
  BY <1>1, <1>2
<1>4. \A a \in 0..clock : Since(a)' = Since(a) + 1 /\ Since(a) \in Int
  BY <1>1, <1>2, <1>3 DEF Since
<1>5. LimiterTypeOK'
  <2>1. started' \in -1..clock /\ attempts' \in 0..Quota
    BY <1>2 DEF OpenWindow, CountOn
  <2>2. passed' \in [0..MaxClock -> Nat]
    BY <1>1, <1>2
  <2>3. QED
    BY <1>1, <1>2, <2>1, <2>2 DEF LimiterTypeOK, NotYet
<1>6. (\A a, b \in 0..clock : a <= b => passed[a] <= passed[b])'
  <2>1. SUFFICES ASSUME NEW a \in 0..clock, NEW b \in 0..clock, a <= b PROVE passed'[a] <= passed'[b]
    BY <1>1
  <2>2. passed[a] <= passed[b] /\ a \in 0..MaxClock /\ b \in 0..MaxClock /\ (a = clock => b = clock)
    BY <1>2, <2>1 DEF LimiterIInv
  <2>3. QED
    BY <1>3, <2>2
<1>7. Recent'
  <2>1. SUFFICES ASSUME NEW a \in 0..clock, a > clock - Window
                 PROVE  /\ started' = NotYet => Since(a)' <= (1 + reboots) * Quota
                        /\ started' >= a => Since(a)' <= (1 + reboots) * Quota + attempts'
                        /\ started' # NotYet /\ started' < a => Since(a)' <= attempts'
    BY <1>1 DEF Recent
  <2>2. /\ Since(a)' = Since(a) + 1 /\ Since(a) \in Int /\ a \in Nat
        /\ started = NotYet => Since(a) <= (1 + reboots) * Quota
        /\ started >= a => Since(a) <= (1 + reboots) * Quota + attempts
        /\ started # NotYet /\ started < a => Since(a) <= attempts
    BY <1>2, <1>4, <2>1 DEF LimiterIInv, Recent
  <2>3. CASE OpenWindow
    <3>1. started' = clock /\ attempts' = 1 /\ (started = NotYet \/ clock - started >= Window)
      BY <2>3 DEF OpenWindow, Expired
    <3>2. started = NotYet \/ (started # NotYet /\ started < a)
      BY <1>2, <2>1, <2>2, <3>1
    <3>3. Since(a) <= (1 + reboots) * Quota \/ Since(a) <= Quota
      BY <1>2, <2>2, <3>2
    <3>4. Quota <= (1 + reboots) * Quota
      BY <1>2
    <3>5. Since(a)' <= (1 + reboots) * Quota + 1
      <4>1. PICK m \in Nat : m = (1 + reboots) * Quota
        BY <1>2
      <4>2. Quota \in Nat /\ Quota <= m
        BY <1>2, <3>4, <4>1
      <4>3. PICK x \in Int : x = Since(a)
        BY <2>2
      <4>4. x <= m \/ x <= Quota
        BY <3>3, <4>1, <4>3
      <4>5. x <= m
        BY <4>2, <4>4
      <4>6. QED
        BY <2>2, <4>1, <4>3, <4>5
    <3>6. ~(started' < a) /\ started' # NotYet /\ attempts' = 1
      BY <1>2, <2>1, <3>1
    <3>7. QED
      BY <3>5, <3>6
  <2>4. CASE CountOn
    <3>1. started' = started /\ attempts' = attempts + 1 /\ started # NotYet
      BY <2>4 DEF CountOn, Expired
    <3>2. QED
      BY <1>2, <2>2, <3>1
  <2>5. QED
    BY <2>3, <2>4
<1>8. (started # NotYet => Since(started) >= attempts)'
  <2>1. CASE OpenWindow
    <3>1. started' = clock /\ attempts' = 1
      BY <2>1 DEF OpenWindow
    <3>2. (clock # 0 => passed[clock - 1] <= passed[clock] /\ passed[clock - 1] \in Nat /\ passed'[clock - 1] = passed[clock - 1])
      <4>1. clock # 0 => clock - 1 \in 0..clock /\ clock \in 0..clock /\ clock - 1 \in 0..MaxClock /\ clock - 1 # clock /\ clock - 1 <= clock
        BY <1>2
      <4>2. QED
        BY <1>3, <4>1 DEF LimiterIInv
    <3>3. QED
      BY <1>1, <1>2, <1>3, <3>1, <3>2 DEF Since
  <2>2. CASE CountOn
    <3>1. started' = started /\ attempts' = attempts + 1 /\ started # NotYet
      BY <2>2 DEF CountOn, Expired
    <3>2. started \in 0..clock /\ Since(started) >= attempts
      BY <1>2, <3>1 DEF LimiterIInv
    <3>3. PICK s : s = started
      OBVIOUS
    <3>4. Since(s)' = Since(s) + 1 /\ Since(s) \in Int
      BY <1>4, <3>2, <3>3
    <3>5. Since(started)' = Since(s)'
      BY <3>1, <3>3
    <3>6. QED
      BY <1>2, <3>1, <3>2, <3>3, <3>4, <3>5
  <2>3. QED
    BY <2>1, <2>2
<1>9. QuotaPerWindow'
  <2>1. \A t \in 0..clock : t # clock => PassedWithin(t)' = PassedWithin(t)
    <3>1. SUFFICES ASSUME NEW t \in 0..clock, t # clock PROVE PassedWithin(t)' = PassedWithin(t)
      OBVIOUS
    <3>2. t \in 0..MaxClock /\ (~(t < Window) => t - Window \in 0..MaxClock /\ t - Window # clock)
      BY <1>2, <3>1
    <3>3. QED
      BY <1>3, <3>1, <3>2 DEF PassedWithin
  <2>2. PassedWithin(clock)' = PassedWithin(clock) + 1 /\ PassedWithin(clock) \in Int
    <3>1. ~(clock < Window) => clock - Window \in 0..MaxClock /\ clock - Window # clock
      BY <1>2
    <3>2. PassedWithin(clock)' = passed'[clock] - (IF clock < Window THEN 0 ELSE passed'[clock - Window])
      BY <1>1 DEF PassedWithin
    <3>3. passed'[clock] = passed[clock] + 1 /\ passed[clock] \in Nat
      BY <1>2, <1>3
    <3>4. CASE clock < Window
      BY <3>2, <3>3, <3>4 DEF PassedWithin
    <3>5. CASE ~(clock < Window)
      <4>1. passed'[clock - Window] = passed[clock - Window] /\ passed[clock - Window] \in Nat
        BY <1>3, <3>1, <3>5
      <4>2. QED
        BY <3>2, <3>3, <3>5, <4>1 DEF PassedWithin
    <3>6. QED
      BY <3>4, <3>5
  <2>3. BoundedNow'
    BY <1>5, <1>7, QuotaNow, PTL
  <2>4. \A t \in 0..clock' : PassedWithin(t)' <= (2 + reboots') * Quota
    BY <1>1, <2>1, <2>3 DEF LimiterIInv, QuotaPerWindow, BoundedNow
  <2>5. refusals' > 0 => PassedWithin(clock)' >= Quota
    BY <1>1, <1>2, <2>2 DEF LimiterIInv, QuotaPerWindow
  <2>6. QED
    BY <2>4, <2>5 DEF QuotaPerWindow
<1>10. QED
  BY <1>5, <1>6, <1>7, <1>8, <1>9 DEF LimiterIInv

LEMMA RefuseKept ==
  ASSUME LimiterIInv, Allow, Refuse
  PROVE  LimiterIInv'
<1>1. /\ UNCHANGED <<clock, started, attempts, reboots, passed>>
      /\ refusals' = refusals + 1 /\ tries' = tries + 1 /\ tries < MaxTries
      /\ attempts >= Quota /\ started # NotYet /\ ~(clock - started >= Window)
      /\ LimiterTypeOK
  BY DEF LimiterIInv, Allow, Refuse, Expired
<1>2. LimiterTypeOK'
  BY <1>1, LimiterAssumption DEF LimiterTypeOK
<1>3. Recent' /\ (\A a, b \in 0..clock : a <= b => passed[a] <= passed[b])'
  BY <1>1 DEF LimiterIInv, Recent, Since
<1>4. (started # NotYet => Since(started) >= attempts)'
  BY <1>1 DEF LimiterIInv, Since
<1>5. QuotaPerWindow'
  <2>1. PassedWithin(clock) >= Quota
    <3>1. /\ clock \in Nat /\ started \in Nat /\ started <= clock /\ started > clock - Window
          /\ clock \in 0..MaxClock /\ passed \in [0..MaxClock -> Nat] /\ Window \in Nat
          /\ attempts \in Nat /\ Quota \in Nat /\ attempts >= Quota /\ MaxClock \in Nat
      BY <1>1, LimiterAssumption DEF LimiterTypeOK, NotYet
    <3>2. passed[clock] - (IF started = 0 THEN 0 ELSE passed[started - 1]) >= attempts
      BY <1>1 DEF LimiterIInv, Since
    <3>3. CASE clock < Window
      <4>1. started # 0 => passed[started - 1] \in Nat
        BY <3>1
      <4>2. passed[clock] \in Nat /\ PassedWithin(clock) = passed[clock]
        BY <3>1, <3>3 DEF PassedWithin
      <4>3. QED
        BY <3>1, <3>2, <4>1, <4>2
    <3>4. CASE ~(clock < Window)
      <4>1. clock - Window \in 0..clock /\ started - 1 \in 0..clock /\ clock - Window <= started - 1
            /\ started # 0 /\ clock - Window \in 0..MaxClock /\ started - 1 \in 0..MaxClock
        BY <3>1, <3>4
      <4>2. passed[clock - Window] <= passed[started - 1]
        BY <4>1 DEF LimiterIInv
      <4>3. passed[clock - Window] \in Nat /\ passed[started - 1] \in Nat /\ passed[clock] \in Nat
        BY <3>1, <4>1
      <4>4. PassedWithin(clock) = passed[clock] - passed[clock - Window]
        BY <3>4 DEF PassedWithin
      <4>5. QED
        BY <3>1, <3>2, <4>1, <4>2, <4>3, <4>4
    <3>5. QED
      BY <3>3, <3>4
  <2>2. QED
    BY <1>1, <2>1 DEF LimiterIInv, QuotaPerWindow, PassedWithin
<1>6. QED
  BY <1>2, <1>3, <1>4, <1>5 DEF LimiterIInv

LEMMA RebootKept ==
  ASSUME LimiterIInv, Reboot
  PROVE  LimiterIInv'
<1>1. /\ UNCHANGED <<clock, passed, tries, refusals>>
      /\ started' = NotYet /\ attempts' = 0 /\ reboots' = reboots + 1 /\ reboots < MaxReboots
      /\ LimiterTypeOK
  BY DEF LimiterIInv, Reboot
<1>2. /\ clock \in 0..MaxClock /\ passed \in [0..MaxClock -> Nat] /\ clock \in Nat
      /\ Quota \in Nat /\ attempts \in 0..Quota /\ reboots \in Nat /\ MaxClock \in Nat /\ started \in Int /\ NotYet = -1
  BY <1>1, LimiterAssumption DEF LimiterTypeOK, NotYet
<1>3. /\ (1 + reboots) * Quota \in Nat /\ (2 + reboots) * Quota \in Nat
      /\ (1 + reboots') * Quota = (1 + reboots) * Quota + Quota
      /\ (2 + reboots') * Quota = (2 + reboots) * Quota + Quota
  BY <1>1, <1>2, Multiples
<1>4. LimiterTypeOK'
  BY <1>1, LimiterAssumption DEF LimiterTypeOK, NotYet
<1>5. (\A a, b \in 0..clock : a <= b => passed[a] <= passed[b])'
  BY <1>1 DEF LimiterIInv
<1>6. Recent'
  <2>1. SUFFICES ASSUME NEW a \in 0..clock, a > clock - Window
                 PROVE  Since(a)' <= (1 + reboots') * Quota /\ ~(started' >= a)
    BY <1>1, <1>2 DEF Recent
  <2>2. Since(a)' = Since(a)
    BY <1>1 DEF Since
  <2>3. a \in Nat /\ Since(a) \in Int
    <3>1. a # 0 => a - 1 \in 0..MaxClock
      BY <1>2
    <3>2. QED
      BY <1>2, <3>1 DEF Since
  <2>4. \/ Since(a) <= (1 + reboots) * Quota
        \/ Since(a) <= (1 + reboots) * Quota + attempts
        \/ Since(a) <= attempts
    BY <1>2, <2>1, <2>3 DEF LimiterIInv, Recent
  <2>5. QED
    BY <1>1, <1>2, <1>3, <2>2, <2>3, <2>4
<1>7. QuotaPerWindow'
  <2>1. \A t \in 0..clock : PassedWithin(t)' = PassedWithin(t) /\ PassedWithin(t) \in Int
    <3>1. SUFFICES ASSUME NEW t \in 0..clock PROVE PassedWithin(t)' = PassedWithin(t) /\ PassedWithin(t) \in Int
      OBVIOUS
    <3>2. t \in 0..MaxClock /\ (~(t < Window) => t - Window \in 0..MaxClock)
      BY <1>2, LimiterAssumption
    <3>3. QED
      BY <1>1, <1>2, <3>2 DEF PassedWithin
  <2>2. \A t \in 0..clock : PassedWithin(t)' <= (2 + reboots') * Quota
    <3>1. SUFFICES ASSUME NEW t \in 0..clock PROVE PassedWithin(t)' <= (2 + reboots') * Quota
      OBVIOUS
    <3>2. PassedWithin(t) <= (2 + reboots) * Quota
      BY DEF LimiterIInv, QuotaPerWindow
    <3>3. QED
      BY <1>2, <1>3, <2>1, <3>2
  <2>3. refusals' > 0 => PassedWithin(clock)' >= Quota
    BY <1>1, <1>2, <2>1 DEF LimiterIInv, QuotaPerWindow
  <2>4. QED
    BY <1>1, <2>2, <2>3 DEF QuotaPerWindow
<1>8. QED
  BY <1>1, <1>4, <1>5, <1>6, <1>7 DEF LimiterIInv

LEMMA ClockTickKept ==
  ASSUME LimiterIInv, ClockTick
  PROVE  LimiterIInv'
<1>1. /\ clock' = clock + 1 /\ clock < MaxClock /\ tries' = 0 /\ refusals' = 0
      /\ passed' = [passed EXCEPT ![clock + 1] = passed[clock]]
      /\ UNCHANGED <<started, attempts, reboots>>
      /\ LimiterTypeOK
  BY DEF LimiterIInv, ClockTick
<1>2. /\ clock \in Nat /\ clock \in 0..MaxClock /\ clock' \in 0..MaxClock /\ passed \in [0..MaxClock -> Nat]
      /\ started \in Int /\ started <= clock /\ started >= -1 /\ NotYet = -1 /\ attempts \in Nat
      /\ Quota \in Nat /\ reboots \in Nat /\ Window \in Nat /\ Window >= 1 /\ MaxClock \in Nat
      /\ (1 + reboots) * Quota \in Nat
  BY <1>1, LimiterAssumption, Multiples DEF LimiterTypeOK, NotYet
<1>3. /\ passed'[clock'] = passed[clock]
      /\ \A t \in 0..clock : t # clock' /\ passed'[t] = passed[t] /\ passed[t] \in Nat
  BY <1>1, <1>2
<1>4. LimiterTypeOK'
  <2>1. passed' \in [0..MaxClock -> Nat]
    BY <1>1, <1>2
  <2>2. QED
    BY <1>1, <1>2, <2>1, LimiterAssumption DEF LimiterTypeOK, NotYet
<1>5. (\A a, b \in 0..clock : a <= b => passed[a] <= passed[b])'
  <2>1. SUFFICES ASSUME NEW a \in 0..clock', NEW b \in 0..clock', a <= b PROVE passed'[a] <= passed'[b]
    OBVIOUS
  <2>2. CASE b \in 0..clock
    BY <1>2, <1>3, <2>1, <2>2 DEF LimiterIInv
  <2>3. CASE b = clock' /\ a \in 0..clock
    <3>1. passed[a] <= passed[clock]
      BY <1>2, <2>3 DEF LimiterIInv
    <3>2. QED
      BY <1>3, <2>3, <3>1
  <2>4. CASE a = clock' /\ b = clock'
    <3>1. passed'[a] \in Nat
      BY <1>2, <1>3, <2>4
    <3>2. QED
      BY <2>4, <3>1
  <2>5. QED
    BY <1>1, <1>2, <2>1, <2>2, <2>3, <2>4
<1>6. \A a \in 0..clock : Since(a)' = Since(a)
  <2>1. SUFFICES ASSUME NEW a \in 0..clock PROVE Since(a)' = Since(a)
    OBVIOUS
  <2>2. a # 0 => a - 1 \in 0..clock
    BY <1>2
  <2>3. QED
    BY <1>3, <2>2 DEF Since
<1>7. Recent'
  <2>1. SUFFICES ASSUME NEW a \in 0..clock', a > clock' - Window
                 PROVE  /\ started = NotYet => Since(a)' <= (1 + reboots) * Quota
                        /\ started >= a => Since(a)' <= (1 + reboots) * Quota + attempts
                        /\ started # NotYet /\ started < a => Since(a)' <= attempts
    BY <1>1 DEF Recent
  <2>2. CASE a \in 0..clock
    BY <1>1, <1>2, <1>6, <2>1, <2>2 DEF LimiterIInv, Recent
  <2>3. CASE a = clock'
    <3>1. Since(a)' = 0
      <4>1. a # 0 /\ a - 1 = clock /\ passed'[clock] = passed[clock] /\ passed[clock] \in Nat
        BY <1>1, <1>2, <1>3, <2>3
      <4>2. QED
        BY <1>3, <2>3, <4>1 DEF Since
    <3>2. QED
      BY <1>1, <1>2, <2>3, <3>1
  <2>4. QED
    BY <1>1, <1>2, <2>1, <2>2, <2>3
<1>8. (started # NotYet => Since(started) >= attempts)'
  <2>1. PICK s : s = started
    OBVIOUS
  <2>2. s # NotYet => Since(s)' = Since(s) /\ Since(s) >= attempts
    BY <1>2, <1>6, <2>1 DEF LimiterIInv
  <2>3. Since(started)' = Since(s)'
    BY <1>1, <2>1
  <2>4. QED
    BY <1>1, <2>1, <2>2, <2>3
<1>9. QuotaPerWindow'
  <2>1. \A t \in 0..clock : PassedWithin(t)' = PassedWithin(t)
    <3>1. SUFFICES ASSUME NEW t \in 0..clock PROVE PassedWithin(t)' = PassedWithin(t)
      OBVIOUS
    <3>2. ~(t < Window) => t - Window \in 0..clock
      BY <1>2
    <3>3. QED
      BY <1>3, <3>2 DEF PassedWithin
  <2>2. BoundedNow'
    BY <1>4, <1>7, QuotaNow, PTL
  <2>3. \A t \in 0..clock' : PassedWithin(t)' <= (2 + reboots') * Quota
    <3>1. SUFFICES ASSUME NEW t \in 0..clock' PROVE PassedWithin(t)' <= (2 + reboots') * Quota
      OBVIOUS
    <3>2. t \in 0..clock \/ t = clock'
      BY <1>1, <1>2
    <3>3. QED
      BY <1>1, <2>1, <2>2, <3>2 DEF LimiterIInv, QuotaPerWindow, BoundedNow
  <2>4. QED
    BY <1>1, <2>3 DEF QuotaPerWindow
<1>10. QED
  BY <1>4, <1>5, <1>7, <1>8, <1>9 DEF LimiterIInv

LEMMA LimiterKept == LimiterIInv /\ [LimiterNext]_limiterVars => LimiterIInv'
<1> SUFFICES ASSUME LimiterIInv, [LimiterNext]_limiterVars PROVE LimiterIInv'
  OBVIOUS
<1>1. CASE Allow
  BY <1>1, PassKept, RefuseKept DEF Allow
<1>2. CASE Reboot
  BY <1>2, RebootKept
<1>3. CASE ClockTick
  BY <1>3, ClockTickKept
<1>4. CASE UNCHANGED limiterVars
  <2> USE <1>4 DEF limiterVars, LimiterIInv
  <2>1. LimiterTypeOK'
    BY DEF LimiterTypeOK
  <2>2. Recent' /\ (started # NotYet => Since(started) >= attempts)'
    BY DEF Recent, Since
  <2>3. QuotaPerWindow'
    BY DEF QuotaPerWindow, PassedWithin
  <2>4. QED
    BY <2>1, <2>2, <2>3
<1>5. QED
  BY <1>1, <1>2, <1>3, <1>4 DEF LimiterNext

\* However often the process is restarted, no stretch as long as a window lets
\* through more than two windows and one for each restart, and whoever is refused
\* had the whole quota within the last one.
THEOREM QuotaIsSpentFirst == LimiterSpec => []QuotaPerWindow
<1>1. LimiterSpec => []LimiterIInv
  BY LimiterInitIInv, LimiterKept, PTL DEF LimiterSpec
<1>2. LimiterIInv => QuotaPerWindow
  BY DEF LimiterIInv
<1>3. QED
  BY <1>1, <1>2, PTL

-----------------------------------------------------------------------------
(* Paging: a match that was there and was not received yet has at least as *)
(* many rows before it as were passed, unless a row has sunk.              *)

\* The rows before a notice.
Ahead(n) == {m \in StoredNotices : m # n /\ Before(m, n)}

\* Expected to be met by the rest of the walk.
Expected == {n \in before : Matches(n) /\ n \notin received}

PageIInv ==
  /\ PageTypeOK
  /\ memory \in BOOLEAN
  /\ before \subseteq StoredNotices
  /\ ~sunk /\ ~memory =>
       \A n \in Expected : listing /\ offset <= Cardinality(Ahead(n))

LEMMA LeastOf ==
  ASSUME NEW T \in SUBSET Nat, T # {}
  PROVE  Min(T) \in T /\ \A t \in T : Min(T) <= t
<1>1. PICK x \in T : \A y \in T : ~ (<<y, x>> \in OpToRel(<, Nat))
  BY WFMin, NatLessThanWellFounded
<1>2. ASSUME NEW y \in T PROVE x <= y
  <2>1. x \in Nat /\ y \in Nat /\ <<y, x>> \in Nat \X Nat
    OBVIOUS
  <2>2. y < x => <<y, x>> \in OpToRel(<, Nat)
    BY <2>1, Zenon DEF OpToRel
  <2>3. ~(y < x)
    BY <1>1, <2>2, Zenon
  <2>4. QED
    BY <2>1, <2>3
<1>3. QED
  BY <1>2 DEF Min

LEMMA PageFacts ==
  ASSUME PageTypeOK
  PROVE  /\ IsFiniteSet(StoredNotices) /\ Cardinality(StoredNotices) \in Nat
         /\ Cardinality(StoredNotices) <= Cardinality(Notices)
         /\ StoredNotices \subseteq Notices /\ Cardinality(Notices) \in Nat
         /\ \A n \in Notices : dates[n] \in Nat /\ n \in Nat
         /\ \A n \in StoredNotices : /\ Ahead(n) \subseteq StoredNotices
                                     /\ IsFiniteSet(Ahead(n)) /\ Cardinality(Ahead(n)) \in Nat
<1>1. StoredNotices \subseteq Notices
  BY DEF StoredNotices
<1>2. /\ IsFiniteSet(StoredNotices) /\ Cardinality(StoredNotices) \in Nat
      /\ Cardinality(StoredNotices) <= Cardinality(Notices) /\ Cardinality(Notices) \in Nat
  BY <1>1, PagingAssumption, FS_Subset, FS_CardinalityType
<1>3. \A n \in StoredNotices : Ahead(n) \in SUBSET StoredNotices
  BY DEF Ahead
<1>4. \A n \in StoredNotices : IsFiniteSet(Ahead(n)) /\ Cardinality(Ahead(n)) \in Nat
  BY <1>2, <1>3, FS_Subset, FS_CardinalityType
<1>5. ASSUME NEW n \in Notices PROVE dates[n] \in Nat /\ n \in Nat
  <2>1. dates[n] = 0 \/ dates[n] \in Dates
    BY DEF PageTypeOK
  <2>2. n \in Nat
    BY PagingAssumption
  <2>3. \A d \in Dates : d \in Nat
    BY PagingAssumption
  <2>4. QED
    BY <2>1, <2>2, <2>3
<1>6. QED
  BY <1>1, <1>2, <1>3, <1>4, <1>5

\* With ties broken by the id there is one order, and a row's place in it is told
\* by the rows before it.
LEMMA PlaceInOrder ==
  ASSUME PageTypeOK, ~memory, NEW order \in Orders, NEW n \in StoredNotices
  PROVE  \E i \in 1..Cardinality(StoredNotices) :
           order[i] = n /\ Cardinality(Ahead(n)) = i - 1
<1>1. PICK len \in Nat : len = Cardinality(StoredNotices)
  BY PageFacts
<1>2. /\ order \in [1..len -> StoredNotices]
      /\ \A i, j \in 1..len : i < j => order[i] # order[j] /\ Before(order[i], order[j])
  BY <1>1 DEF Orders
<1>3. \A m \in StoredNotices : m \in Nat /\ dates[m] \in Nat
  BY PageFacts
<1>4. order \in Injection(1..len, StoredNotices)
  BY <1>2 DEF Injection, IsInjective
<1>5. Cardinality(1..len) = len /\ IsFiniteSet(StoredNotices)
  BY FS_Interval, PageFacts
<1>6. order \in Surjection(1..len, StoredNotices)
  BY <1>1, <1>4, <1>5, FS_Injection
<1>7. PICK i \in 1..len : order[i] = n
  BY <1>6 DEF Surjection
<1>8. ASSUME NEW j \in 1..len, order[j] \in Ahead(n) PROVE j < i
  <2>1. CASE i < j
    <3>1. Before(n, order[j]) /\ Before(order[j], n) /\ order[j] \in StoredNotices
      BY <1>2, <1>7, <1>8, <2>1 DEF Ahead
    <3>2. QED
      BY <1>3, <3>1 DEF Before
  <2>2. CASE i = j
    BY <1>7, <1>8, <2>2 DEF Ahead
  <2>3. QED
    BY <2>1, <2>2
<1>9. \A j \in 1..(i - 1) : j \in 1..len /\ j < i /\ order[j] \in Ahead(n)
  BY <1>2, <1>7 DEF Ahead
<1>10. PICK f : f = [j \in 1..(i - 1) |-> order[j]]
  OBVIOUS
<1>11. f \in [1..(i - 1) -> Ahead(n)]
  BY <1>9, <1>10
<1>12. f \in Injection(1..(i - 1), Ahead(n))
  BY <1>2, <1>9, <1>10, <1>11 DEF Injection, IsInjective
<1>13. \A m \in Ahead(n) : \E j \in 1..(i - 1) : f[j] = m
  <2> SUFFICES ASSUME NEW m \in Ahead(n) PROVE \E j \in 1..(i - 1) : f[j] = m
    OBVIOUS
  <2>1. m \in StoredNotices
    BY DEF Ahead
  <2>2. PICK j \in 1..len : order[j] = m
    BY <1>6, <2>1 DEF Surjection
  <2>3. j < i
    BY <1>8, <2>2
  <2>4. QED
    BY <1>10, <2>2, <2>3
<1>14. f \in Bijection(1..(i - 1), Ahead(n))
  BY <1>11, <1>12, <1>13 DEF Bijection, Surjection
<1>15. IsFiniteSet(1..(i - 1)) /\ Cardinality(1..(i - 1)) = i - 1
  BY FS_Interval
<1>16. Cardinality(Ahead(n)) = i - 1
  BY <1>14, <1>15, FS_Bijection DEF ExistsBijection
<1>17. QED
  BY <1>1, <1>7, <1>16

LEMMA PageInitIInv == Deployed /\ PageInit => PageIInv
<1> SUFFICES ASSUME Deployed, PageInit PROVE PageIInv
  OBVIOUS
<1>1. /\ dates \in [Notices -> {0} \cup Dates] /\ memory \in BOOLEAN /\ before = StoredNotices
      /\ offset = 0 /\ values = 0 /\ listing = TRUE /\ received = {} /\ sunk = FALSE /\ puts = 0
      /\ filtered \in BOOLEAN
  BY DEF Deployed, PageInit
<1>2. StoredNotices \subseteq Notices
  BY DEF StoredNotices
<1>3. Cardinality(Notices) \in Nat
  BY PagingAssumption, FS_CardinalityType
<1>4. 0 \in 0..Cardinality(Notices) /\ 0 \in 0..(PageLimit - 1) /\ 0 \in 0..MaxPuts
  BY <1>3, PagingAssumption
<1>5. PageTypeOK
  BY <1>1, <1>2, <1>4 DEF PageTypeOK
<1>6. \A n \in StoredNotices : 0 <= Cardinality(Ahead(n))
  BY <1>5, PageFacts
<1>7. QED
  BY <1>1, <1>5, <1>6 DEF PageIInv, Expected

\* A row that gets a later date goes to the front, and the rows before the others
\* stay before them.
LEMMA PutStep ==
  ASSUME PageIInv, UNCHANGED deployment, NEW n \in Notices, NEW date \in Dates,
         PutOpportunity(n, date)
  PROVE  PageIInv'
<1>1. /\ puts' = puts + 1 /\ puts < MaxPuts /\ dates' = [dates EXCEPT ![n] = date]
      /\ sunk' = (sunk \/ date < dates[n]) /\ date # dates[n]
      /\ before' = IF date > dates[n] THEN before \ {n} ELSE before
      /\ filtered' = filtered /\ offset' = offset /\ values' = values
      /\ listing' = listing /\ received' = received /\ memory' = memory
  BY DEF PutOpportunity, deployment
<1>2. dates \in [Notices -> {0} \cup Dates] /\ PageTypeOK
  BY DEF PageIInv, PageTypeOK
<1>3. /\ dates' \in [Notices -> {0} \cup Dates] /\ dates'[n] = date
      /\ \A m \in Notices : m # n => dates'[m] = dates[m]
  BY <1>1, <1>2
<1>4. date \in Nat /\ date # 0 /\ dates[n] \in Nat
  BY <1>2, PagingAssumption, PageFacts
<1>5. puts' \in 0..MaxPuts
  <2>1. puts \in Nat /\ MaxPuts \in Nat
    BY PagingAssumption DEF PageIInv, PageTypeOK
  <2>2. QED
    BY <1>1, <2>1
<1>6. before' \subseteq before /\ sunk' \in BOOLEAN
  <2>1. sunk \in BOOLEAN
    BY <1>2 DEF PageTypeOK
  <2>2. QED
    BY <1>1, <2>1
<1>7. PageTypeOK'
  BY <1>1, <1>2, <1>3, <1>5, <1>6 DEF PageTypeOK
<1>8. \A m \in Notices : m \in StoredNotices' <=> m \in StoredNotices \/ m = n
  BY <1>3, <1>4 DEF StoredNotices
<1>9. before' \subseteq StoredNotices'
  BY <1>6, <1>8 DEF PageIInv, StoredNotices
<1>10. ASSUME ~sunk', ~memory', NEW m \in Expected'
       PROVE  listing' /\ offset' <= Cardinality(Ahead(m)')
  <2>1. ~sunk /\ ~memory /\ m \in Expected /\ m # n /\ m \in StoredNotices
        /\ date > dates[n]
    <3>1. ~sunk /\ ~memory /\ date > dates[n]
      <4>1. ~sunk /\ ~memory /\ ~(date < dates[n])
        BY <1>1, <1>10, Zenon
      <4>2. QED
        BY <1>1, <1>4, <4>1
    <3>2. m \in before' /\ before' = before \ {n}
      BY <1>1, <1>10, <3>1 DEF Expected
    <3>3. Matches(m) /\ m \notin received
      BY <1>1, <1>10 DEF Expected, Matches
    <3>4. QED
      BY <3>1, <3>2, <3>3 DEF Expected, PageIInv
  <2>2. listing /\ offset <= Cardinality(Ahead(m)) /\ offset \in Nat
    BY <2>1, <1>2 DEF PageIInv, PageTypeOK
  <2>3. m \in StoredNotices' /\ m \in Notices
    BY <1>8, <2>1 DEF StoredNotices
  <2>4. ASSUME NEW k \in Ahead(m) PROVE k \in Ahead(m)'
    <3>1. k \in StoredNotices' /\ k \in Notices /\ k # m /\ Before(k, m)
      BY <1>8, <2>4 DEF Ahead, StoredNotices
    <3>2. dates'[m] = dates[m] /\ dates[m] \in Nat /\ dates[k] \in Nat
      BY <1>2, <1>3, <2>1, <2>3, <3>1, PageFacts
    <3>3. dates'[k] = dates[k] \/ (dates'[k] > dates[k] /\ dates'[k] \in Nat)
      <4>1. CASE k = n
        BY <1>3, <1>4, <2>1, <4>1
      <4>2. CASE k # n
        BY <1>3, <3>1, <4>2, Zenon
      <4>3. QED
        BY <4>1, <4>2
    <3>4. Before(k, m)'
      BY <1>1, <2>1, <3>1, <3>2, <3>3 DEF Before
    <3>5. QED
      BY <3>1, <3>4 DEF Ahead
  <2>5. IsFiniteSet(Ahead(m)') /\ Cardinality(Ahead(m)') \in Nat
    <3>1. Ahead(m)' \subseteq Notices
      BY DEF Ahead, StoredNotices
    <3>2. QED
      BY <3>1, PagingAssumption, FS_Subset, FS_CardinalityType
  <2>6. Cardinality(Ahead(m)) <= Cardinality(Ahead(m)') /\ Cardinality(Ahead(m)) \in Nat
    <3>1. Ahead(m) \in SUBSET Ahead(m)'
      BY <2>4
    <3>2. QED
      BY <1>2, <2>1, <2>5, <3>1, FS_Subset, PageFacts
  <2>7. QED
    BY <1>1, <2>2, <2>5, <2>6
<1>11. memory' \in BOOLEAN
  BY <1>1 DEF PageIInv
<1>12. QED
  BY <1>7, <1>9, <1>10, <1>11 DEF PageIInv

\* The rows of a page are passed to its end, or to the match that fills the answer.
LEMMA PassedRows ==
  ASSUME PageTypeOK, NEW rows, NEW len \in Nat, Len(rows) = len, DOMAIN rows = 1..len
  PROVE  /\ Passed(rows) \in 0..len
         /\ Cardinality({i \in 1..Passed(rows) : Matches(rows[i])}) <= PageLimit - values
<1> DEFINE hits(k) == Cardinality({i \in 1..k : Matches(rows[i])})
           full == {k \in 1..len : hits(k) = PageLimit - values}
<1>1. PICK room \in Nat : room = PageLimit - values /\ room > 0
  BY PagingAssumption DEF PageTypeOK
<1>2. Passed(rows) = IF full = {} THEN len ELSE Min(full)
  BY DEF Passed
<1>3. \A k \in Nat : hits(k) \in Nat /\ IsFiniteSet({i \in 1..k : Matches(rows[i])})
  <2> SUFFICES ASSUME NEW k \in Nat
               PROVE  hits(k) \in Nat /\ IsFiniteSet({i \in 1..k : Matches(rows[i])})
    OBVIOUS
  <2>1. IsFiniteSet(1..k)
    BY FS_Interval
  <2>2. {i \in 1..k : Matches(rows[i])} \in SUBSET (1..k)
    OBVIOUS
  <2>3. IsFiniteSet({i \in 1..k : Matches(rows[i])})
    BY <2>1, <2>2, FS_Subset
  <2>4. QED
    BY <2>3, FS_CardinalityType
<1>4. hits(0) = 0
  <2>1. {i \in 1..0 : Matches(rows[i])} = {}
    OBVIOUS
  <2>2. QED
    BY <2>1, FS_EmptySet
<1>5. ASSUME NEW k \in Nat PROVE hits(k + 1) <= hits(k) + 1
  <2>1. PICK S : S = {i \in 1..k : Matches(rows[i])}
    OBVIOUS
  <2>2. IsFiniteSet(S) /\ Cardinality(S) = hits(k) /\ hits(k) \in Nat
    BY <1>3, <2>1
  <2>3. IsFiniteSet(S \cup {k + 1}) /\ Cardinality(S \cup {k + 1}) <= hits(k) + 1
    <3>1. /\ IsFiniteSet(S \cup {k + 1})
          /\ Cardinality(S \cup {k + 1}) =
               IF k + 1 \in S THEN Cardinality(S) ELSE Cardinality(S) + 1
      BY <2>2, FS_AddElement
    <3>2. PICK c \in Nat : c = Cardinality(S)
      BY <2>2
    <3> HIDE DEF hits
    <3>3. QED
      BY <2>2, <3>1, <3>2
  <2>4. {i \in 1..(k + 1) : Matches(rows[i])} \in SUBSET (S \cup {k + 1})
    BY <2>1
  <2>5. hits(k + 1) <= Cardinality(S \cup {k + 1}) /\ Cardinality(S \cup {k + 1}) \in Nat
    BY <2>3, <2>4, FS_Subset, FS_CardinalityType
  <2>6. hits(k + 1) \in Nat
    BY <1>3
  <2> HIDE DEF hits
  <2>7. QED
    BY <2>2, <2>3, <2>5, <2>6
<1> HIDE DEF hits
<1>6. CASE full = {}
  <2>1. Passed(rows) = len
    BY <1>2, <1>6
  <2>2. ASSUME ~(hits(len) <= room) PROVE FALSE
    <3>1. PICK T : T = {k \in 0..len : hits(k) > room}
      OBVIOUS
    <3>2. hits(len) \in Nat /\ len \in T /\ T \in SUBSET Nat
      <4>1. PICK h \in Nat : h = hits(len)
        BY <1>3
      <4>2. h > room /\ len \in 0..len
        BY <1>1, <2>2, <4>1
      <4>3. QED
        BY <3>1, <4>1, <4>2
    <3>3. PICK m \in T : \A t \in T : m <= t
      BY <3>2, LeastOf
    <3>4. m # 0 /\ m \in 0..len /\ hits(m) > room
      BY <1>1, <1>4, <3>1, <3>3
    <3>5. m - 1 \in 0..len /\ m - 1 \notin T /\ m - 1 \in Nat
      BY <3>3, <3>4
    <3>6. ~(hits(m - 1) > room) /\ hits(m - 1) \in Nat
      BY <1>3, <3>1, <3>5
    <3>7. hits(m - 1) # room
      BY <1>1, <1>4, <1>6, <3>5
    <3>8. hits(m) <= hits(m - 1) + 1 /\ hits(m) \in Nat
      <4>1. PICK j \in Nat : j = m - 1 /\ m = j + 1
        BY <3>4, <3>5
      <4>2. hits(j + 1) <= hits(j) + 1 /\ hits(j + 1) \in Nat
        <5>1. j + 1 \in Nat
          BY <4>1
        <5>2. QED
          BY <1>3, <1>5, <5>1
      <4>3. QED
        BY <4>1, <4>2
    <3>9. QED
      BY <1>1, <3>4, <3>6, <3>7, <3>8
  <2>3. hits(Passed(rows)) <= room
    BY <2>1, <2>2
  <2>4. QED
    BY <1>1, <2>1, <2>3 DEF hits
<1>7. CASE full # {}
  <2>1. Min(full) \in full
    <3>1. full \in SUBSET Nat
      OBVIOUS
    <3>2. QED
      BY <1>7, <3>1, LeastOf
  <2>2. Passed(rows) \in 1..len /\ hits(Passed(rows)) = room
    BY <1>1, <1>2, <1>7, <2>1
  <2>3. QED
    BY <1>1, <2>2 DEF hits
<1>8. QED
  BY <1>6, <1>7

\* What one query reads and passes: the rows from the cursor on, of which every match
\* before the new cursor is in the answer.
LEMMA PageRead ==
  ASSUME PageTypeOK, OpportunitiesPage
  PROVE  \E order \in Orders, hits \in SUBSET StoredNotices, len \in Nat, k \in Nat :
           /\ received' = received \cup hits
           /\ \A i \in 1..k : Matches(order[offset + i]) => order[offset + i] \in hits
           /\ offset' = offset + k /\ k <= len
           /\ offset + len <= Cardinality(StoredNotices) \/ len = 0
           /\ k < len \/ Cardinality(StoredNotices) > offset + PageLimit => listing'
           /\ Cardinality(StoredNotices) <= offset + PageLimit /\ offset < Cardinality(StoredNotices)
                => offset + len = Cardinality(StoredNotices)
           /\ values' \in 0..(PageLimit - 1) /\ listing' \in BOOLEAN
<1>1. PICK order \in Orders :
        LET rows == SubSeq(order, offset + 1, Min({offset + PageLimit, Len(order)}))
            more == Len(order) > offset + PageLimit
            k == Passed(rows)
            hits == {rows[i] : i \in {j \in 1..k : Matches(rows[j])}}
            answered == ~filtered \/ ~more \/ values + Cardinality(hits) = PageLimit
            hasMore == k < Len(rows) \/ more
        IN  /\ received' = received \cup hits
            /\ offset' = IF k < Len(rows) THEN NextOffset(offset, k, Len(rows))
                                          ELSE offset + k
            /\ values' = IF answered THEN 0 ELSE values + Cardinality(hits)
            /\ listing' = (hasMore \/ ~answered)
  BY DEF OpportunitiesPage
<1>2. PICK N \in Nat : N = Cardinality(StoredNotices)
  BY PageFacts
<1>3. order \in Seq(StoredNotices) /\ Len(order) = N /\ \A i \in 1..N : order[i] \in StoredNotices
  BY <1>2 DEF Orders
<1>4. offset \in Nat /\ PageLimit \in Nat \ {0} /\ values \in Nat /\ values < PageLimit
  BY PageFacts, PagingAssumption DEF PageTypeOK
<1>5. PICK top \in Nat : /\ top = Min({offset + PageLimit, Len(order)})
                         /\ top <= offset + PageLimit /\ top <= N
                         /\ top = offset + PageLimit \/ top = N
  <2>1. PICK T : T = {offset + PageLimit, Len(order)}
    OBVIOUS
  <2>2. T \in SUBSET Nat /\ T # {} /\ offset + PageLimit \in T /\ N \in T
        /\ \A t \in T : t = offset + PageLimit \/ t = N
    BY <1>3, <1>4, <2>1
  <2>3. Min(T) \in T /\ \A t \in T : Min(T) <= t
    BY <2>2, LeastOf
  <2>4. QED
    BY <2>1, <2>2, <2>3
<1>6. PICK rows : rows = SubSeq(order, offset + 1, Min({offset + PageLimit, Len(order)}))
  OBVIOUS
<1>7. PICK len \in Nat : len = IF offset + 1 <= top THEN top - offset ELSE 0
  BY <1>4, <1>5
<1>8. /\ Len(rows) = len /\ DOMAIN rows = 1..len
      /\ \A i \in 1..len : rows[i] = order[offset + i] /\ rows[i] \in StoredNotices
  <2>1. \A i \in (offset + 1)..top : order[i] \in StoredNotices
    BY <1>3, <1>4, <1>5
  <2>2. /\ SubSeq(order, offset + 1, top) \in Seq(StoredNotices)
        /\ Len(SubSeq(order, offset + 1, top))
             = IF offset + 1 <= top THEN top - (offset + 1) + 1 ELSE 0
        /\ \A i \in 1..(top - (offset + 1) + 1) :
             SubSeq(order, offset + 1, top)[i] = order[(offset + 1) + i - 1]
    <3>1. PICK a \in Int : a = offset + 1
      BY <1>4
    <3>2. \A i \in a..top : order[i] \in StoredNotices
      BY <2>1, <3>1
    <3>3. /\ SubSeq(order, a, top) \in Seq(StoredNotices)
          /\ Len(SubSeq(order, a, top)) = IF a <= top THEN top - a + 1 ELSE 0
          /\ \A i \in 1..(top - a + 1) : SubSeq(order, a, top)[i] = order[a + i - 1]
      BY <3>2, SubSeqProperties
    <3>4. QED
      BY <3>1, <3>3
  <2>3. top - (offset + 1) + 1 = top - offset /\ \A i \in Nat : (offset + 1) + i - 1 = offset + i
    BY <1>4, <1>5
  <2>4. rows \in Seq(StoredNotices) /\ Len(rows) = len
    BY <1>5, <1>6, <1>7, <2>2, <2>3
  <2>5. DOMAIN rows = 1..len /\ \A i \in 1..len : rows[i] \in StoredNotices
    BY <2>4, LenProperties, ElementOfSeq
  <2>6. \A i \in 1..len : rows[i] = order[offset + i]
    <3>1. \A i \in 1..len : i \in 1..(top - offset) /\ i \in Nat
      BY <1>4, <1>5, <1>7
    <3>2. QED
      BY <1>5, <1>6, <2>2, <2>3, <3>1
  <2>7. QED
    BY <2>4, <2>5, <2>6
<1>9. PICK k \in Nat : /\ k = Passed(rows) /\ k <= len
                       /\ Cardinality({i \in 1..k : Matches(rows[i])}) <= PageLimit - values
  <2>1. /\ Passed(rows) \in 0..len
        /\ Cardinality({i \in 1..Passed(rows) : Matches(rows[i])}) <= PageLimit - values
    BY <1>8, PassedRows
  <2>2. PICK k : k = Passed(rows)
    OBVIOUS
  <2>3. k \in Nat /\ k <= len
    BY <2>1, <2>2
  <2>4. QED
    BY <2>1, <2>2, <2>3
<1>10. PICK index : index = {j \in 1..k : Matches(rows[j])}
  OBVIOUS
<1>11. PICK hits : hits = {rows[i] : i \in index}
  OBVIOUS
<1>12. PICK answered \in BOOLEAN :
         answered = (~filtered \/ ~(Len(order) > offset + PageLimit)
                              \/ values + Cardinality(hits) = PageLimit)
  OBVIOUS
<1>13. /\ received' = received \cup hits
       /\ offset' = IF k < len THEN NextOffset(offset, k, len) ELSE offset + k
       /\ values' = IF answered THEN 0 ELSE values + Cardinality(hits)
       /\ listing' = ((k < len \/ Len(order) > offset + PageLimit) \/ ~answered)
  BY <1>1, <1>6, <1>8, <1>9, <1>10, <1>11, <1>12
<1>14. index \subseteq 1..len /\ hits \subseteq StoredNotices
  BY <1>8, <1>9, <1>10, <1>11
<1>15. Cardinality(hits) \in Nat /\ Cardinality(hits) <= PageLimit - values
  <2>1. IsFiniteSet(1..k) /\ index \in SUBSET (1..k)
    BY <1>10, FS_Interval
  <2>2. IsFiniteSet(index)
    BY <2>1, FS_Subset
  <2>3. PICK f : f = [i \in index |-> rows[i]]
    OBVIOUS
  <2>4. f \in [index -> hits] /\ \A x \in hits : \E i \in index : f[i] = x
    BY <1>11, <2>3
  <2>5. f \in Surjection(index, hits)
    BY <2>4 DEF Surjection
  <2>6. IsFiniteSet(hits) /\ Cardinality(hits) <= Cardinality(index)
    BY <2>2, <2>5, FS_Surjection
  <2>7. Cardinality(index) \in Nat /\ Cardinality(hits) \in Nat
    BY <2>2, <2>6, FS_CardinalityType
  <2>8. Cardinality(index) <= PageLimit - values
    BY <1>9, <1>10
  <2>9. QED
    BY <1>4, <2>6, <2>7, <2>8
<1>16. \A i \in 1..k : Matches(order[offset + i]) => order[offset + i] \in hits
  <2>1. \A i \in 1..k : i \in 1..len
    BY <1>9
  <2>2. QED
    BY <1>8, <1>10, <1>11, <2>1
<1>17. offset' = offset + k
  BY <1>13 DEF NextOffset
<1>18. offset + len <= N \/ len = 0
  BY <1>4, <1>5, <1>7
<1>19. k < len \/ N > offset + PageLimit => listing'
  BY <1>3, <1>13
<1>20. N <= offset + PageLimit /\ offset < N => offset + len = N
  BY <1>4, <1>5, <1>7
<1>21. values' \in 0..(PageLimit - 1) /\ listing' \in BOOLEAN
  <2>1. listing' \in BOOLEAN
    BY <1>13
  <2>2. ~answered => values + Cardinality(hits) # PageLimit
    BY <1>12
  <2>3. QED
    BY <1>4, <1>13, <1>15, <2>1, <2>2
<1>22. /\ offset + len <= Cardinality(StoredNotices) \/ len = 0
       /\ k < len \/ Cardinality(StoredNotices) > offset + PageLimit => listing'
       /\ Cardinality(StoredNotices) <= offset + PageLimit /\ offset < Cardinality(StoredNotices)
            => offset + len = Cardinality(StoredNotices)
  BY <1>2, <1>18, <1>19, <1>20
<1>23. QED
  BY <1>9, <1>13, <1>14, <1>16, <1>17, <1>21, <1>22

LEMMA PageStepKept ==
  ASSUME PageIInv, UNCHANGED deployment, OpportunitiesPage
  PROVE  PageIInv'
<1>1. PageTypeOK /\ memory \in BOOLEAN /\ before \subseteq StoredNotices
  BY DEF PageIInv
<1>2. PICK order \in Orders, hits \in SUBSET StoredNotices, len \in Nat, k \in Nat :
        /\ received' = received \cup hits
        /\ \A i \in 1..k : Matches(order[offset + i]) => order[offset + i] \in hits
        /\ offset' = offset + k /\ k <= len
        /\ offset + len <= Cardinality(StoredNotices) \/ len = 0
        /\ k < len \/ Cardinality(StoredNotices) > offset + PageLimit => listing'
        /\ Cardinality(StoredNotices) <= offset + PageLimit /\ offset < Cardinality(StoredNotices)
             => offset + len = Cardinality(StoredNotices)
        /\ values' \in 0..(PageLimit - 1) /\ listing' \in BOOLEAN
  BY <1>1, PageRead
<1>3. PICK N \in Nat : N = Cardinality(StoredNotices) /\ N <= Cardinality(Notices)
  BY <1>1, PageFacts
<1>4. /\ dates' = dates /\ filtered' = filtered /\ before' = before /\ sunk' = sunk
      /\ puts' = puts /\ memory' = memory
  BY DEF OpportunitiesPage, deployment
<1>5. offset \in Nat /\ offset <= Cardinality(Notices) /\ Cardinality(Notices) \in Nat
      /\ PageLimit \in Nat
  BY <1>1, PageFacts, PagingAssumption DEF PageTypeOK
<1>6. offset' \in 0..Cardinality(Notices)
  BY <1>2, <1>3, <1>5
<1>7. PageTypeOK'
  <2>1. StoredNotices \subseteq Notices
    BY <1>1, PageFacts
  <2>2. (received \cup before)' \subseteq Notices
    BY <1>1, <1>2, <1>4, <2>1 DEF PageTypeOK
  <2>3. QED
    BY <1>1, <1>2, <1>4, <1>6, <2>2 DEF PageTypeOK
<1>8. before' \subseteq StoredNotices'
  BY <1>1, <1>4 DEF StoredNotices
<1>9. ASSUME ~sunk', ~memory', NEW n \in Expected'
      PROVE  listing' /\ offset' <= Cardinality(Ahead(n)')
  <2>1. n \in Expected /\ n \notin hits /\ n \in StoredNotices /\ Matches(n)
    BY <1>1, <1>2, <1>4, <1>9 DEF Expected, Matches
  <2>2. offset <= Cardinality(Ahead(n)) /\ ~memory
    BY <1>4, <1>9, <2>1 DEF PageIInv
  <2>3. PICK i \in 1..N : order[i] = n /\ Cardinality(Ahead(n)) = i - 1
    BY <1>1, <1>3, <2>1, <2>2, PlaceInOrder
  <2>4. ~(i <= offset + k)
    <3> SUFFICES ASSUME i <= offset + k PROVE FALSE
      OBVIOUS
    <3>1. PICK j \in 1..k : offset + j = i
      BY <1>2, <1>5, <2>2, <2>3
    <3>2. QED
      BY <1>2, <2>1, <2>3, <3>1
  <2>5. Ahead(n)' = Ahead(n)
    BY <1>4 DEF Ahead, StoredNotices, Before
  <2>6. offset' <= Cardinality(Ahead(n)')
    BY <1>2, <1>5, <2>3, <2>4, <2>5
  <2>7. listing'
    <3> SUFFICES ASSUME ~listing' PROVE FALSE
      OBVIOUS
    <3>1. ~(k < len) /\ ~(N > offset + PageLimit) /\ k <= len
      BY <1>2, <1>3
    <3>2. offset < N /\ N <= offset + PageLimit /\ k = len
      BY <1>2, <1>5, <2>2, <2>3, <3>1
    <3>3. offset + len = N
      BY <1>2, <1>3, <3>2
    <3>4. QED
      BY <2>3, <2>4, <3>2, <3>3
  <2>8. QED
    BY <2>6, <2>7
<1>10. QED
  BY <1>1, <1>4, <1>7, <1>8, <1>9 DEF PageIInv

LEMMA PageKept ==
  PageIInv /\ [PageNext /\ UNCHANGED deployment]_<<pageVars, deployment>> => PageIInv'
<1>1. ASSUME PageIInv, UNCHANGED <<pageVars, deployment>> PROVE PageIInv'
  BY <1>1 DEF pageVars, deployment, PageIInv, PageTypeOK, StoredNotices, Expected, Matches, Ahead,
              Before
<1>2. QED
  BY <1>1, PutStep, PageStepKept DEF PageNext

LEMMA ExpectedMet == PageIInv => WalkComplete
BY DEF PageIInv, WalkComplete, Expected

\* A walk through the list that comes to its end has met every matching opportunity
\* that was there all along, however many are stored meanwhile, unless one got an
\* earlier date or the memory store ordered equals anew.
THEOREM WalkIsComplete == PageSpec => []WalkComplete
BY ExpectedMet, PageInitIInv, PageKept, PTL DEF PageSpec

-----------------------------------------------------------------------------
(* All parts side by side.  A step of one part leaves the variables of the *)
(* others alone, and with them their invariants.                           *)

AllIInv ==
  /\ IInv /\ PlanIInv /\ PageIInv /\ KeyIInv /\ LimiterIInv /\ OperatorIInv
  /\ PncpIInv /\ CheckoutIInv /\ SmtpIInv

LEMMA AllInit == Init => AllIInv
<1> SUFFICES ASSUME Init PROVE AllIInv
  OBVIOUS
<1>1. /\ Deployed /\ DealInit /\ PlanInit /\ PageInit /\ KeyInit /\ LimiterInit
      /\ OperatorInit /\ PncpInit /\ CheckoutInit /\ SmtpInit
  BY DEF Init
<1>2. QED
  BY <1>1, InitIInv, PlanInitIInv, PageInitIInv, KeyInitIInv, LimiterInitIInv,
     OperatorInitIInv, PncpInitIInv, CheckoutInitIInv, SmtpInitIInv DEF AllIInv

LEMMA AllKept == AllIInv /\ [Next]_<<part, deployment, Services>> => AllIInv'
<1> SUFFICES ASSUME AllIInv, [Next]_<<part, deployment, Services>> PROVE AllIInv'
  OBVIOUS
<1>1. [DealNext /\ UNCHANGED deployment]_<<dealVars, deployment>>
  BY DEF Next, Services, DealStep, PlanStep, PageStep, KeyStep, LimiterStep, OperatorStep,
         PncpStep, CheckoutStep, SmtpStep
<1>2. [PlanNext /\ UNCHANGED deployment]_<<planVars, deployment>>
  BY DEF Next, Services, DealStep, PlanStep, PageStep, KeyStep, LimiterStep, OperatorStep,
         PncpStep, CheckoutStep, SmtpStep
<1>3. [PageNext /\ UNCHANGED deployment]_<<pageVars, deployment>>
  BY DEF Next, Services, DealStep, PlanStep, PageStep, KeyStep, LimiterStep, OperatorStep,
         PncpStep, CheckoutStep, SmtpStep
<1>4. [KeyNext]_keyVars
  BY DEF Next, Services, DealStep, PlanStep, PageStep, KeyStep, LimiterStep, OperatorStep,
         PncpStep, CheckoutStep, SmtpStep
<1>5. [LimiterNext]_limiterVars
  BY DEF Next, Services, DealStep, PlanStep, PageStep, KeyStep, LimiterStep, OperatorStep,
         PncpStep, CheckoutStep, SmtpStep
<1>6. [OperatorNext]_operatorVars
  BY DEF Next, Services, DealStep, PlanStep, PageStep, KeyStep, LimiterStep, OperatorStep,
         PncpStep, CheckoutStep, SmtpStep
<1>7. [PncpNext]_pncpVars
  BY DEF Next, Services, DealStep, PlanStep, PageStep, KeyStep, LimiterStep, OperatorStep,
         PncpStep, CheckoutStep, SmtpStep
<1>8. [CheckoutNext]_checkoutVars
  BY DEF Next, Services, DealStep, PlanStep, PageStep, KeyStep, LimiterStep, OperatorStep,
         PncpStep, CheckoutStep, SmtpStep
<1>9. [SmtpNext]_smtpVars
  BY DEF Next, Services, DealStep, PlanStep, PageStep, KeyStep, LimiterStep, OperatorStep,
         PncpStep, CheckoutStep, SmtpStep
<1>10. QED
  BY <1>1, <1>2, <1>3, <1>4, <1>5, <1>6, <1>7, <1>8, <1>9, NextIInv, PlanKept, PageKept,
     KeyKept, LimiterKept, OperatorKept, PncpKept, CheckoutKept, SmtpKept DEF AllIInv

LEMMA AllInvariance == Spec => []AllIInv
BY AllInit, AllKept, PTL DEF Spec

LEMMA CheckoutTypes == CheckoutIInv => CheckoutTypeOK
<1> SUFFICES ASSUME CheckoutIInv PROVE CheckoutTypeOK
  OBVIOUS
<1>1. Roots \subseteq Customers
  <2> SUFFICES ASSUME NEW i \in Roots PROVE i \in Customers
    OBVIOUS
  <2>1. i \in PaidSessions /\ checkouts[i].paidBy = i
    BY DEF CheckoutIInv, Roots, PaidSessions
  <2>2. QED
    BY <2>1 DEF Customers
<1>2. /\ customer \in {NoCustomer} \cup Customers
      /\ buyer \in [Buyers -> [at : {"away", "checkout"},
                               customer : {NoCustomer} \cup Customers, told : BOOLEAN]]
  BY <1>1 DEF CheckoutIInv
<1>3. QED
  BY <1>2 DEF CheckoutIInv, CheckoutTypeOK, Session

\* Every variable of every part keeps its type, whichever part runs.
THEOREM AllTypes == Spec => []TypeOK
<1>1. AllIInv => TypeOK
  BY CheckoutTypes DEF AllIInv, IInv, PlanIInv, PageIInv, KeyIInv, LimiterIInv, OperatorIInv,
                       PncpIInv, SmtpIInv, TypeOK
<1>2. QED
  BY <1>1, AllInvariance, PTL

\* What the parts promise one by one holds of the backend that runs them: cards are
\* single and keep their changes, plans and quotas hold, keys and sessions end, a walk
\* and a backfill are complete, no request that learnt of a customer makes another,
\* nothing travels in the clear.
THEOREM AllPromisesHold ==
  Spec => [](/\ OneCard /\ ChangesKept
             /\ ProfilesBounded /\ QuotaHeld /\ QuotaPerWindow
             /\ WithdrawnKeysExpire /\ RefusedOnlyIfOverwritten
             /\ WalkComplete /\ DayAsListed
             /\ LogoutEndsTheEarlier /\ OneCustomer /\ ClearTextOnlyIfAllowed)
<1>1. AllIInv => /\ OneCard /\ ChangesKept
                 /\ ProfilesBounded /\ QuotaHeld /\ QuotaPerWindow
                 /\ WithdrawnKeysExpire /\ RefusedOnlyIfOverwritten
                 /\ WalkComplete /\ DayAsListed
                 /\ LogoutEndsTheEarlier /\ OneCustomer /\ ClearTextOnlyIfAllowed
  BY RevokedObeyed, RootsAreCustomers, SourceDelivered, ExpectedMet
     DEF AllIInv, IInv, PlanIInv, KeyIInv, LimiterIInv, SmtpIInv
<1>2. QED
  BY <1>1, AllInvariance, PTL
===============================================================================
