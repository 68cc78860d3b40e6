------------------------------ MODULE Accounts ------------------------------
(***************************************************************************)
(* The account behind one e-mail address: registration, confirmation,      *)
(* login, logout, password reset and deletion, run by the handlers of      *)
(* internal/httpapi/account_handlers.go over the tables tenancy.accounts   *)
(* and tenancy.account_tokens.  A handler is a request with a place pc and *)
(* local variables; between two of its statements other requests run.      *)
(*                                                                         *)
(* A clock unit is half a second: sessions are dated in whole seconds,     *)
(* revocations are not.  The expiry of a session after 24 hours is left    *)
(* out (it only ends sessions); a token may expire at any time.            *)
(***************************************************************************)
EXTENDS Integers, Sequences, FiniteSets

CONSTANTS
  Requests,     \* handlers at work at the same time
  Passwords,    \* passwords people choose
  MaxTime,      \* bound: half seconds of a behaviour
  MaxSubjects,  \* bound: registrations of the address
  MaxTokens,    \* bound: tokens created
  MaxFaults     \* bound: handlers that end in the middle

ASSUME AccountsAssumption ==
  /\ IsFiniteSet(Requests)
  /\ MaxTime \in Nat /\ MaxSubjects \in Nat \ {0} /\ MaxTokens \in Nat /\ MaxFaults \in Nat
  /\ Passwords # {} /\ "none" \notin Passwords

VARIABLES
  now,
  cloud,     \* the mode of the deployment: is confirmation required
  account,   \* the row of the address
  subjects,  \* registrations so far; subject_id of the last one
  tokens,    \* tenancy.account_tokens in the order of their insertion
  sessions,  \* the JWTs issued
  req,       \* the requests
  faults,
  ended,     \* history: the sessions some logout, reset or deletion has ended
  late       \* history: has a logout written an older date over a newer one

rows == <<account, subjects, tokens>>
history == <<ended, late>>
vars == <<now, cloud, account, subjects, tokens, sessions, req, faults, ended, late>>

Purposes == {"verify_email", "password_reset"}
Never == -1
Second(t) == 2 * (t \div 2)

NoAccount == [subject |-> 0, password |-> "none", legacy |-> FALSE, verified |-> FALSE,
              revokedAt |-> Never]
Registered(subject) == account.subject = subject

\* A request between two requests of its client.
Idle == [pc |-> "idle", subject |-> 0, password |-> "none", owner |-> 0,
         purpose |-> "verify_email", sees |-> {}, length |-> 0, at |-> 0]
At(r, place) == req[r].pc = place
Goto(r, next) == req' = [req EXCEPT ![r] = next]
Move(r, place) == Goto(r, [req[r] EXCEPT !.pc = place])

\* No row yet, or one older than the migrations: a bcrypt hash and no confirmation.
Unregistered == account = NoAccount /\ subjects = 0
Migrated ==
  /\ subjects = 1
  /\ \E p \in Passwords :
       account = [NoAccount EXCEPT !.subject = 1, !.password = p, !.legacy = TRUE]

Init ==
  /\ now = 0
  /\ cloud \in BOOLEAN
  /\ Unregistered \/ Migrated
  /\ tokens = <<>>
  /\ sessions = {}
  /\ req = [r \in Requests |-> Idle]
  /\ faults = 0
  /\ ended = {} /\ late = FALSE

Tick ==
  /\ now < MaxTime
  /\ now' = now + 1
  /\ UNCHANGED <<cloud, rows, sessions, req, faults, history>>

-----------------------------------------------------------------------------
(* Sessions.                                                               *)

\* Mutant: a session of the second of the revocation is let in.
SessionActiveSameSecond(s) ==
  /\ Registered(s.subject)
  /\ account.revokedAt = Never \/ account.revokedAt <= s.iat

SessionActive(s) ==
  /\ Registered(s.subject)
  /\ account.revokedAt = Never \/ account.revokedAt < s.iat

\* What the middleware asks of a session before a handler runs.
Accepted(s) == SessionActive(s) /\ (cloud => account.verified)

SessionsOf(subject) == {s \in sessions : s.subject = subject}

\* The last step of signup and login.
Issue(r) ==
  /\ At(r, "issue")
  /\ sessions' = sessions \cup {[subject |-> req[r].subject, iat |-> Second(now)]}
  /\ Goto(r, Idle)
  /\ UNCHANGED <<now, cloud, rows, faults, history>>

\* Mutant: the row is found by its e-mail address.
UpdatePasswordByEmail(subject, p) ==
  IF account.subject # 0
  THEN /\ account' = [account EXCEPT !.password = p, !.legacy = FALSE, !.revokedAt = now]
       /\ ended' = ended \cup SessionsOf(subject)
  ELSE UNCHANGED <<account, ended>>

\* A new password ends the sessions.
UpdatePassword(subject, p) ==
  IF Registered(subject)
  THEN /\ account' = [account EXCEPT !.password = p, !.legacy = FALSE, !.revokedAt = now]
       /\ ended' = ended \cup SessionsOf(subject)
  ELSE UNCHANGED <<account, ended>>

-----------------------------------------------------------------------------
(* Tokens of confirmation and recovery.                                    *)

\* The statement of CreateAccountToken: what it sees of the tables.
BeginToken(r, purpose) ==
  /\ account.subject # 0
  /\ Len(tokens) + Cardinality({q \in Requests : At(q, "token")}) < MaxTokens
  /\ Goto(r, [req[r] EXCEPT
       !.pc = "token", !.purpose = purpose, !.owner = account.subject, !.length = Len(tokens),
       !.sees = {i \in DOMAIN tokens : /\ tokens[i].live /\ tokens[i].purpose = purpose
                                       /\ tokens[i].subject = account.subject}])
  /\ UNCHANGED <<now, cloud, rows, sessions, faults, history>>

\* authVerificationRequest, authPasswordRecovery.
RequestToken(r, purpose) == At(r, "idle") /\ BeginToken(r, purpose)

\* A signup goes on whatever became of its token; in the cloud it gives no session.
AfterToken(r) ==
  IF req[r].subject = 0 \/ cloud
  THEN Idle
  ELSE [Idle EXCEPT !.pc = "issue", !.subject = req[r].subject]

\* Mutant: the tokens before it stay.
CreateAccountTokenBeside(r) ==
  /\ At(r, "token")
  /\ Registered(req[r].owner)
  /\ tokens' = Append(tokens, [subject |-> req[r].owner, purpose |-> req[r].purpose,
                               live |-> TRUE, uses |-> 0, sawUpTo |-> req[r].length])
  /\ Goto(r, AfterToken(r))
  /\ UNCHANGED <<now, cloud, account, subjects, sessions, faults, history>>

\* What the statement writes: the tokens it saw are consumed, one is inserted.
CreateAccountToken(r) ==
  /\ At(r, "token")
  /\ Registered(req[r].owner)
  /\ LET before == [i \in DOMAIN tokens |->
                      [tokens[i] EXCEPT !.live = @ /\ i \notin req[r].sees]]
     IN  tokens' = Append(before, [subject |-> req[r].owner, purpose |-> req[r].purpose,
                                   live |-> TRUE, uses |-> 0, sawUpTo |-> req[r].length])
  /\ Goto(r, AfterToken(r))
  /\ UNCHANGED <<now, cloud, account, subjects, sessions, faults, history>>

\* The statement fails, for one when the account was deleted meanwhile.
TokenFails(r) ==
  /\ req[r].pc \in {"registered", "token"}
  /\ Goto(r, AfterToken(r))
  /\ UNCHANGED <<now, cloud, rows, sessions, faults, history>>

Expire(i) ==
  /\ tokens[i].live
  /\ tokens' = [tokens EXCEPT ![i].live = FALSE]
  /\ UNCHANGED <<now, cloud, account, subjects, sessions, req, faults, history>>

\* Mutant: a consumed token is accepted.
ConsumeAgain(i, purpose) ==
  /\ tokens[i].purpose = purpose
  /\ Registered(tokens[i].subject)
  /\ tokens[i].uses < 2
  /\ tokens' = [tokens EXCEPT ![i] = [tokens[i] EXCEPT !.live = FALSE, !.uses = @ + 1]]

ConsumeAccountToken(i, purpose) ==
  /\ tokens[i].purpose = purpose
  /\ tokens[i].live
  /\ tokens' = [tokens EXCEPT ![i] = [tokens[i] EXCEPT !.live = FALSE, !.uses = @ + 1]]

VerifyEmail(r, i) ==
  /\ At(r, "idle")
  /\ ConsumeAccountToken(i, "verify_email")
  /\ Goto(r, [Idle EXCEPT !.pc = "verify", !.subject = tokens[i].subject])
  /\ UNCHANGED <<now, cloud, account, subjects, sessions, faults, history>>

\* Mutant: the row is found by its e-mail address.
MarkByEmail(r) ==
  /\ At(r, "verify")
  /\ account' = [account EXCEPT !.verified = @ \/ account.subject # 0]
  /\ Goto(r, Idle)
  /\ UNCHANGED <<now, cloud, subjects, tokens, sessions, faults, history>>

MarkEmailVerified(r) ==
  /\ At(r, "verify")
  /\ account' = [account EXCEPT !.verified = @ \/ Registered(req[r].subject)]
  /\ Goto(r, Idle)
  /\ UNCHANGED <<now, cloud, subjects, tokens, sessions, faults, history>>

PasswordReset(r, i, p) ==
  /\ At(r, "idle")
  /\ ConsumeAccountToken(i, "password_reset")
  /\ Goto(r, [Idle EXCEPT !.pc = "reset", !.subject = tokens[i].subject, !.password = p])
  /\ UNCHANGED <<now, cloud, account, subjects, sessions, faults, history>>

ResetPassword(r) ==
  /\ At(r, "reset")
  /\ UpdatePassword(req[r].subject, req[r].password)
  /\ Goto(r, Idle)
  /\ UNCHANGED <<now, cloud, subjects, tokens, sessions, faults, late>>

-----------------------------------------------------------------------------
(* Registration and login.                                                 *)

\* RegisterAccount is one transaction; the address is unique.
Signup(r, p) ==
  /\ At(r, "idle")
  /\ account = NoAccount
  /\ subjects < MaxSubjects
  /\ subjects' = subjects + 1
  /\ account' = [NoAccount EXCEPT !.subject = subjects', !.password = p]
  /\ Goto(r, [Idle EXCEPT !.pc = "registered", !.subject = subjects'])
  /\ UNCHANGED <<now, cloud, tokens, sessions, faults, history>>

\* The token is for the address, whoever has it by now.
SignupToken(r) == At(r, "registered") /\ BeginToken(r, "verify_email")

\* AccountByEmail and CheckPassword.
Login(r, p) ==
  /\ At(r, "idle")
  /\ account.subject # 0 /\ account.password = p
  /\ Goto(r, [Idle EXCEPT !.pc = IF account.legacy THEN "rehash" ELSE "admit",
                          !.subject = account.subject, !.password = p])
  /\ UNCHANGED <<now, cloud, rows, sessions, faults, history>>

\* A legacy hash is replaced; a failure is only logged.
Rehash(r) ==
  /\ At(r, "rehash")
  /\ \/ UpdatePassword(req[r].subject, req[r].password)
     \/ UNCHANGED <<account, ended>>
  /\ Move(r, "admit")
  /\ UNCHANGED <<now, cloud, subjects, tokens, sessions, faults, late>>

\* EmailVerified in the cloud, then the organization and its subscription.  One
\* step: a confirmation is never withdrawn and the account must still be there.
Admit(r) ==
  /\ At(r, "admit")
  /\ IF Registered(req[r].subject) /\ (cloud => account.verified)
     THEN Move(r, "issue")
     ELSE Goto(r, Idle)
  /\ UNCHANGED <<now, cloud, rows, sessions, faults, history>>

-----------------------------------------------------------------------------
(* Logout and deletion: the middleware lets a session in, the handler acts *)
(* on its subject.                                                         *)

Enter(r, s, place) ==
  /\ At(r, "idle")
  /\ Accepted(s)
  /\ Goto(r, [Idle EXCEPT !.pc = place, !.subject = s.subject])
  /\ UNCHANGED <<now, cloud, rows, sessions, faults, history>>

\* time.Now() of authLogout, taken before the statement is sent.
DateLogout(r) ==
  /\ At(r, "logout")
  /\ Goto(r, [req[r] EXCEPT !.pc = "revoke", !.at = now])
  /\ UNCHANGED <<now, cloud, rows, sessions, faults, history>>

RevokeSessions(r) ==
  /\ At(r, "revoke")
  /\ IF Registered(req[r].subject)
     THEN /\ account' = [account EXCEPT !.revokedAt = req[r].at]
          /\ ended' = ended \cup {s \in SessionsOf(req[r].subject) : s.iat <= req[r].at}
          /\ late' = (late \/ req[r].at < account.revokedAt)
     ELSE UNCHANGED <<account, history>>
  /\ Goto(r, Idle)
  /\ UNCHANGED <<now, cloud, subjects, tokens, sessions, faults>>

\* Mutant: the tokens stay.
DeleteRowOnly(r) ==
  /\ At(r, "delete")
  /\ Registered(req[r].subject)
  /\ account' = NoAccount
  /\ ended' = ended \cup SessionsOf(req[r].subject)
  /\ Goto(r, Idle)
  /\ UNCHANGED <<now, cloud, subjects, tokens, sessions, faults, late>>

\* One transaction; the tokens go with the row.
DeleteAccount(r) ==
  /\ At(r, "delete")
  /\ Registered(req[r].subject)
  /\ account' = NoAccount
  /\ tokens' = [i \in DOMAIN tokens |->
                  [tokens[i] EXCEPT !.live = @ /\ tokens[i].subject # req[r].subject]]
  /\ ended' = ended \cup SessionsOf(req[r].subject)
  /\ Goto(r, Idle)
  /\ UNCHANGED <<now, cloud, subjects, sessions, faults, late>>

\* ErrNotFound: another request has deleted the account.
DeleteFails(r) ==
  /\ At(r, "delete")
  /\ ~Registered(req[r].subject)
  /\ Goto(r, Idle)
  /\ UNCHANGED <<now, cloud, rows, sessions, faults, history>>

\* The gateway ends, or a statement fails where the handler returns.
Abandon(r) ==
  /\ ~At(r, "idle")
  /\ faults < MaxFaults
  /\ faults' = faults + 1
  /\ Goto(r, Idle)
  /\ UNCHANGED <<now, cloud, rows, sessions, history>>

-----------------------------------------------------------------------------
Next ==
  \/ Tick
  \/ \E i \in DOMAIN tokens : Expire(i)
  \/ \E r \in Requests :
       \/ Issue(r) \/ SignupToken(r) \/ CreateAccountToken(r) \/ TokenFails(r)
       \/ MarkEmailVerified(r) \/ ResetPassword(r) \/ Rehash(r) \/ Admit(r)
       \/ DateLogout(r) \/ RevokeSessions(r) \/ DeleteAccount(r) \/ DeleteFails(r)
       \/ Abandon(r)
       \/ \E purpose \in Purposes : RequestToken(r, purpose)
       \/ \E i \in DOMAIN tokens : VerifyEmail(r, i)
       \/ \E i \in DOMAIN tokens, p \in Passwords : PasswordReset(r, i, p)
       \/ \E p \in Passwords : Signup(r, p) \/ Login(r, p)
       \/ \E s \in sessions, place \in {"logout", "delete"} : Enter(r, s, place)

Spec == Init /\ [][Next]_vars

-----------------------------------------------------------------------------
(* Properties.                                                             *)

Subjects == 0..subjects
Places == {"idle", "registered", "token", "issue", "verify", "reset", "rehash", "admit",
           "logout", "revoke", "delete"}
Request == [pc : Places, subject : Subjects, password : Passwords \cup {"none"}, owner : Subjects,
            purpose : Purposes, sees : SUBSET (1..Len(tokens)), length : 0..Len(tokens),
            at : 0..now]

\* Types, and the foreign key: a living token belongs to the account of today.
TypeOK ==
  /\ now \in 0..MaxTime /\ cloud \in BOOLEAN /\ late \in BOOLEAN /\ faults \in 0..MaxFaults
  /\ subjects \in 0..MaxSubjects
  /\ account \in [subject : {0, subjects}, password : Passwords \cup {"none"},
                  legacy : BOOLEAN, verified : BOOLEAN, revokedAt : {Never} \cup 0..now]
  /\ tokens \in Seq([subject : 1..subjects, purpose : Purposes, live : BOOLEAN,
                     uses : Nat, sawUpTo : 0..MaxTokens])
  /\ Len(tokens) <= MaxTokens
  /\ \A i \in DOMAIN tokens : tokens[i].live => Registered(tokens[i].subject)
  /\ sessions \subseteq [subject : 1..subjects, iat : 0..now]
  /\ ended \subseteq sessions
  /\ req \in [Requests -> Request]

\* "an old session token cannot be reused": a session that a logout, a reset or a
\* deletion has ended is never let in again, whatever logs in, registers or resets
\* afterwards, unless a delayed logout has moved sessions_revoked_at back.
EndedSessionsStayDead == ~late => \A s \in ended : ~Accepted(s)

\* However many requests bring the same token, one of them acts on it.
TokenSpentOnce == \A i \in DOMAIN tokens : tokens[i].uses <= 1

\* A token replaces those of its purpose that were inserted before its statement
\* began; only statements that overlap leave two living tokens.
OneLivingToken ==
  \A i, j \in DOMAIN tokens :
    /\ i < j
    /\ tokens[i].live /\ tokens[j].live
    /\ tokens[i].purpose = tokens[j].purpose
    => i > tokens[j].sawUpTo

\* In the cloud a session exists only of a subject whose own token was spent: not of
\* a new registration of an address that was confirmed for an earlier account.
SessionsAreConfirmed ==
  cloud => \A s \in sessions : \E i \in DOMAIN tokens :
    tokens[i].subject = s.subject /\ tokens[i].purpose = "verify_email" /\ tokens[i].uses > 0

\* The password of an account changes only when a reset of this account ends, or when
\* a login that read a legacy hash writes it back over the password of a reset.
PasswordChanges ==
  LET by == {r \in Requests : req[r].subject = account.subject /\ req'[r] # req[r]}
  IN  \E r \in by : \/ At(r, "reset")
                    \/ At(r, "rehash") /\ ~account.legacy
PasswordsAreChosen ==
  [][(account'.subject = account.subject /\ account'.password # account.password)
       => PasswordChanges]_vars
=============================================================================
