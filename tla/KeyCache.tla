------------------------------ MODULE KeyCache ------------------------------
(***************************************************************************)
(* The signing keys of Keycloak as a gateway keeps them (auth/keycloak.go).*)
(* Requests look a key up under a read lock, fetch the set outside of any  *)
(* lock when it is missing or old, store what they got under the write     *)
(* lock, and look again: several fetches may be under way and end in any   *)
(* order.  Keycloak numbers its keys and publishes the ones from first to  *)
(* newest; it is outside src/.                                             *)
(***************************************************************************)
EXTENDS Integers, FiniteSets

CONSTANTS
  Bearers,  \* requests that carry a token
  MaxKey,   \* bound: keys Keycloak makes
  MaxNow,   \* bound: the clock
  KeyTTL,   \* how long a stored set is used (15 minutes)
  FetchTime \* the client's timeout (10 seconds)

ASSUME KeyCacheAssumption ==
  MaxKey \in Nat \ {0} /\ MaxNow \in Nat /\ KeyTTL \in Nat \ {0} /\ FetchTime \in Nat

VARIABLES
  now,
  first, newest, \* Keycloak's published keys are first..newest
  keys, expires, \* the cache
  bearer,        \* bearer[b]: the request: where, its key, the set it fetched, when
  withdrawn,     \* history: withdrawn[k]: when key k was withdrawn
  late,          \* history: the longest a key verified a token after its withdrawal
  refused,       \* history: a token of a published key was refused for its key
  overwritten    \* history: a fetched set replaced a newer one

keyVars == <<now, first, newest, keys, expires, bearer, withdrawn, late, refused, overwritten>>
keycloak == <<first, newest, withdrawn>>
seen == <<late, refused, overwritten>>

Never == MaxNow + 1
NoBearer == [at |-> "away", key |-> 1, set |-> {}, since |-> 0, valid |-> FALSE]
Published == first..newest

KeyInit ==
  /\ now = 0
  /\ first = 1 /\ newest = 1
  /\ keys = {} /\ expires = 0
  /\ bearer = [b \in Bearers |-> NoBearer]
  /\ withdrawn = [k \in 1..MaxKey |-> Never]
  /\ late = 0
  /\ refused = FALSE
  /\ overwritten = FALSE

\* A fetch ends within the client's timeout, and nobody waits between storing and
\* looking again.
KeyTick ==
  /\ now < MaxNow
  /\ \A b \in Bearers :
       /\ bearer[b].at # "stored"
       /\ bearer[b].at = "fetched" => now < bearer[b].since + FetchTime
  /\ now' = now + 1
  /\ UNCHANGED <<keycloak, keys, expires, bearer, seen>>

MakeKey ==
  /\ newest < MaxKey
  /\ newest' = newest + 1
  /\ UNCHANGED <<now, first, withdrawn, keys, expires, bearer, seen>>

WithdrawKey ==
  /\ first < newest
  /\ first' = first + 1
  /\ withdrawn' = [withdrawn EXCEPT ![first] = now]
  /\ UNCHANGED <<now, newest, keys, expires, bearer, seen>>

Accept(k) == late' = IF now - withdrawn[k] > late THEN now - withdrawn[k] ELSE late

\* key: an entry of a set that is not old answers at once.
LookUp(b) ==
  /\ bearer[b].at = "away"
  /\ \E k \in 1..newest :
       IF k \in keys /\ now < expires
         THEN Accept(k) /\ UNCHANGED bearer
         ELSE /\ bearer' = [bearer EXCEPT ![b] =
                   [NoBearer EXCEPT !.at = "fetch", !.key = k, !.valid = k \in Published]]
              /\ UNCHANGED late
  /\ UNCHANGED <<now, keycloak, keys, expires, refused, overwritten>>

\* Keycloak answers with what it publishes at that moment.
FetchKeys(b) ==
  /\ bearer[b].at = "fetch"
  /\ bearer' = [bearer EXCEPT ![b].at = "fetched", ![b].set = Published, ![b].since = now]
  /\ UNCHANGED <<now, keycloak, keys, expires, seen>>

\* A failed refresh leaves the cache and refuses the token.
FetchKeysFails(b) ==
  /\ bearer[b].at \in {"fetch", "fetched"}
  /\ bearer' = [bearer EXCEPT ![b] = NoBearer]
  /\ UNCHANGED <<now, keycloak, keys, expires, seen>>

\* Mutant: a set that came back is added to the one that is there.
AddKeys(b) == keys \cup bearer[b].set

\* Mutant: the first set is kept.
KeepKeys(b) == IF keys = {} THEN bearer[b].set ELSE keys

NewKeys(b) == bearer[b].set

\* The end of refresh, whatever another request has stored meanwhile.
StoreKeys(b) ==
  /\ bearer[b].at = "fetched"
  /\ keys' = NewKeys(b)
  /\ expires' = now + KeyTTL
  /\ bearer' = [bearer EXCEPT ![b].at = "stored"]
  /\ overwritten' = (overwritten \/ \E k \in keys : \A j \in bearer[b].set : j < k)
  /\ UNCHANGED <<now, keycloak, late, refused>>

\* The second look under the read lock.
LookAgain(b) ==
  /\ bearer[b].at = "stored"
  /\ IF bearer[b].key \in keys
       THEN Accept(bearer[b].key) /\ UNCHANGED refused
       ELSE /\ refused' = (refused \/ (bearer[b].valid /\ bearer[b].key \in Published))
            /\ UNCHANGED late
  /\ bearer' = [bearer EXCEPT ![b] = NoBearer]
  /\ UNCHANGED <<now, keycloak, keys, expires, overwritten>>

KeyNext ==
  \/ KeyTick
  \/ MakeKey
  \/ WithdrawKey
  \/ \E b \in Bearers :
       LookUp(b) \/ FetchKeys(b) \/ FetchKeysFails(b) \/ StoreKeys(b) \/ LookAgain(b)

KeySpec == KeyInit /\ [][KeyNext]_keyVars

-----------------------------------------------------------------------------
BearerType == [at : {"away", "fetch", "fetched", "stored"}, key : 1..MaxKey,
               set : SUBSET (1..MaxKey), since : 0..MaxNow, valid : BOOLEAN]

KeyTypeOK ==
  /\ now \in 0..MaxNow
  /\ first \in 1..newest /\ newest \in 1..MaxKey
  /\ keys \subseteq 1..newest
  /\ expires \in 0..(MaxNow + KeyTTL)
  /\ bearer \in [Bearers -> BearerType]
  /\ withdrawn \in [1..MaxKey -> 0..Never]
  /\ late \in 0..MaxNow
  /\ {refused, overwritten} \subseteq BOOLEAN

\* A withdrawn key verifies no token once the life of a set and the time of one
\* fetch are over, although a slow fetch may bring it back after newer sets were
\* stored and start the life of the set anew.
WithdrawnKeysExpire == late < KeyTTL + FetchTime

\* A token whose key Keycloak publishes from the request's first look to its last
\* is refused for its key only when a slower fetch put an older set back; between
\* the store and the second look there is no lock.
RefusedOnlyIfOverwritten == refused => overwritten
=============================================================================
