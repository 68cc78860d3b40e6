---------------------------- MODULE Accounts_proofs ----------------------------
(***************************************************************************)
(* For any number of handlers, passwords, registrations and tokens: ended  *)
(* sessions stay dead, a token acts once and replaces the ones before it,  *)
(* and in the cloud a session is of a confirmed registration.              *)
(***************************************************************************)
EXTENDS Accounts, FiniteSetTheorems, SequenceTheorems, TLAPS

TokenOf(n) == [subject : 1..n, purpose : Purposes, live : BOOLEAN, uses : Nat,
               sawUpTo : 0..MaxTokens]
RowOf(n, t) == [subject : {0, n}, password : Passwords \cup {"none"}, legacy : BOOLEAN,
               verified : BOOLEAN, revokedAt : {Never} \cup 0..t]
SessionOf(n, t) == [subject : 1..n, iat : 0..t]

\* The rows and what is outside them.
Tables ==
  /\ now \in 0..MaxTime /\ cloud \in BOOLEAN /\ late \in BOOLEAN /\ faults \in 0..MaxFaults
  /\ subjects \in 0..MaxSubjects
  /\ account \in RowOf(subjects, now)
  /\ tokens \in Seq(TokenOf(subjects))
  /\ sessions \subseteq SessionOf(subjects, now)
  /\ ended \subseteq sessions

\* A token that lives was never spent and belongs to the account of today.
Spending ==
  \A i \in 1..Len(tokens) :
    /\ tokens[i].uses <= 1
    /\ tokens[i].live => tokens[i].uses = 0 /\ Registered(tokens[i].subject)

\* Who may be called confirmed: a registration whose own token was spent.
Spent(subject) ==
  \E i \in 1..Len(tokens) :
    tokens[i].subject = subject /\ tokens[i].purpose = "verify_email" /\ tokens[i].uses > 0
Confirmed ==
  cloud => /\ account.verified => Spent(account.subject)
           /\ \A s \in sessions : Spent(s.subject)

\* The sessions that were ended lie before the revocation of their account.
Ended ==
  ~late => \A s \in ended : Registered(s.subject) => account.revokedAt >= s.iat

\* What a handler has read and not used yet is still good enough.
Fit(q) ==
  /\ q \in Request
  /\ q.pc \notin {"idle", "token"} => q.subject > 0
  /\ q.pc = "token" =>
       /\ q.owner > 0
       /\ \A i \in 1..q.length :
            tokens[i].live /\ tokens[i].purpose = q.purpose => i \in q.sees
  /\ (q.pc = "rehash" /\ Registered(q.subject) /\ account.legacy)
       => q.password = account.password
  /\ cloud /\ q.pc \in {"verify", "issue"} => Spent(q.subject)
Working ==
  /\ req \in [Requests -> Request]
  /\ \A r \in Requests : Fit(req[r])

\* The statements at work have room for their tokens.
AtToken == {r \in Requests : At(r, "token")}
Room == Len(tokens) + Cardinality(AtToken) <= MaxTokens

\* The inductive invariant.  OneLivingToken needs what a statement saw (Fit), and
\* that what lives is the account's (Spending); SessionsAreConfirmed needs to know
\* what a handler between two statements knows (Fit); EndedSessionsStayDead needs
\* the dates of the revocations (Ended).
IInv ==
  Tables /\ Spending /\ OneLivingToken /\ Confirmed /\ Ended /\ Working /\ Room

-----------------------------------------------------------------------------
(* Sequences, and what no step takes back.                                 *)

LEMMA SecondOf ==
  ASSUME NEW t \in Nat
  PROVE  Second(t) \in 0..t
BY DEF Second

LEMMA FunctionSeq ==
  ASSUME NEW S, NEW n \in Nat, NEW f \in [1..n -> S]
  PROVE  f \in Seq(S) /\ Len(f) = n
<1>1. f \in Seq(S)
  BY SeqDef
<1>2. QED
  BY <1>1, LenProperties

LEMMA Wider ==
  ASSUME NEW m \in Nat, NEW n \in Nat, m <= n, NEW t \in Nat, NEW u \in Nat, t <= u
  PROVE  /\ Seq(TokenOf(m)) \subseteq Seq(TokenOf(n))
         /\ SessionOf(m, t) \subseteq SessionOf(n, u)
<1>1. 0..t \subseteq 0..u /\ 1..m \subseteq 1..n
  OBVIOUS
<1>2. TokenOf(m) \subseteq TokenOf(n)
  BY <1>1 DEF TokenOf
<1>3. QED
  BY <1>1, <1>2, SeqDef DEF SessionOf

\* Tokens are only inserted, used and ended; time and registrations only grow; an
\* account gets back neither its subject nor its legacy hash.
Grows ==
  /\ now' \in Nat /\ now <= now' /\ subjects' \in Nat /\ subjects <= subjects'
  /\ cloud' = cloud
  /\ Len(tokens') \in Nat /\ Len(tokens) <= Len(tokens')
  /\ \A i \in 1..Len(tokens) :
       /\ tokens'[i].subject = tokens[i].subject /\ tokens'[i].purpose = tokens[i].purpose
       /\ tokens'[i].uses \in Nat /\ tokens[i].uses <= tokens'[i].uses
       /\ tokens'[i].live => tokens[i].live
  /\ account'.subject \in 1..subjects => account'.subject = account.subject
  /\ (account'.subject = account.subject /\ account'.legacy)
       => account.legacy /\ account'.password = account.password

LEMMA SpentStays ==
  ASSUME Tables, Grows, NEW subject, Spent(subject)
  PROVE  Spent(subject)'
<1>1. PICK i \in 1..Len(tokens) :
        tokens[i].subject = subject /\ tokens[i].purpose = "verify_email" /\ tokens[i].uses > 0
  BY DEF Spent
<1>2. tokens[i] \in TokenOf(subjects) /\ Len(tokens) \in Nat
  BY <1>1, ElementOfSeq DEF Tables
<1>3. i \in 1..Len(tokens') /\ tokens'[i].uses > 0
  BY <1>1, <1>2 DEF Grows, TokenOf
<1>4. QED
  BY <1>1, <1>3 DEF Grows, Spent

\* What a handler has read is not made useless by the steps of the others.
LEMMA StaysFit ==
  ASSUME Tables, Grows, NEW q, Fit(q)
  PROVE  Fit(q)'
<1>1. Len(tokens) \in Nat /\ now \in Nat /\ subjects \in Nat
  BY AccountsAssumption DEF Tables
<1>2. q \in Request'
  <2>1. q \in Request
    BY DEF Fit
  <2>2. 0..subjects \subseteq 0..subjects' /\ 0..now \subseteq 0..now'
        /\ 1..Len(tokens) \subseteq 1..Len(tokens') /\ 0..Len(tokens) \subseteq 0..Len(tokens')
    BY <1>1 DEF Grows
  <2>3. QED
    BY <2>1, <2>2 DEF Request, Subjects
<1>3. (q.pc = "token")
        => /\ q.owner > 0
           /\ \A i \in 1..q.length :
                tokens'[i].live /\ tokens'[i].purpose = q.purpose => i \in q.sees
  <2>1. q.length \in 0..Len(tokens)
    BY DEF Fit, Request
  <2>2. QED
    BY <1>1, <2>1 DEF Fit, Grows
<1>4. (q.pc = "rehash" /\ Registered(q.subject)' /\ account'.legacy)
        => q.password = account'.password
  <2>1. SUFFICES ASSUME q.pc = "rehash", account'.subject = q.subject, account'.legacy
                 PROVE  q.password = account'.password
    BY DEF Registered
  <2>2. q.subject \in 1..subjects
    BY <1>1, <2>1 DEF Fit, Request, Subjects
  <2>3. QED
    BY <2>1, <2>2 DEF Fit, Grows, Registered
<1>5. cloud' /\ q.pc \in {"verify", "issue"} => Spent(q.subject)'
  BY SpentStays DEF Fit, Grows
<1>6. q.pc \notin {"idle", "token"} => q.subject > 0
  BY DEF Fit
<1>7. QED
  BY <1>2, <1>3, <1>4, <1>5, <1>6 DEF Fit

LEMMA WorkingStays ==
  ASSUME Tables, Working, Grows, NEW r \in Requests, NEW q, Fit(q)',
         req' = [req EXCEPT ![r] = q]
  PROVE  Working'
<1>1. \A s \in Requests : Fit(req[s])'
  <2> SUFFICES ASSUME NEW s \in Requests PROVE Fit(req[s])'
    OBVIOUS
  <2>1. PICK p : p = req[s]
    OBVIOUS
  <2>2. Fit(p)'
    BY <2>1, StaysFit DEF Working
  <2>3. req'[s] = IF s = r THEN q ELSE p
    BY <2>1 DEF Working
  <2>4. QED
    BY <2>2, <2>3 DEF Fit
<1>2. \A s \in Requests : req'[s] \in Request'
  BY <1>1 DEF Fit
<1>3. QED
  BY <1>1, <1>2 DEF Working

-----------------------------------------------------------------------------
(* Room for the tokens: a statement takes its place when it begins.        *)

LEMMA AtTokenFinite == IsFiniteSet(AtToken) /\ Cardinality(AtToken) \in Nat
BY AccountsAssumption, FS_Subset, FS_CardinalityType DEF AtToken

LEMMA RoomStays ==
  ASSUME Working, Room, Len(tokens') = Len(tokens), Len(tokens) \in Nat,
         NEW r \in Requests, NEW q, q.pc # "token", req' = [req EXCEPT ![r] = q]
  PROVE  Room'
<1>1. AtToken' \subseteq AtToken
  BY DEF Working, AtToken, At
<1>2. Cardinality(AtToken') <= Cardinality(AtToken) /\ Cardinality(AtToken') \in Nat
  BY <1>1, AtTokenFinite, FS_Subset, FS_CardinalityType
<1>3. QED
  BY <1>2, AtTokenFinite, AccountsAssumption DEF Room

\* The kept part of the invariant, for the steps that leave the rows alone.
LEMMA RowsStay ==
  ASSUME Tables, UNCHANGED <<now, cloud, rows>>
  PROVE  Grows /\ Len(tokens) \in Nat /\ (Spending => Spending')
         /\ (OneLivingToken => OneLivingToken') /\ (\A subject : Spent(subject)' <=> Spent(subject))
<1>1. Len(tokens) \in Nat /\ \A i \in 1..Len(tokens) : tokens[i] \in TokenOf(subjects)
  BY ElementOfSeq DEF Tables
<1>2. now \in Nat /\ subjects \in Nat
  BY AccountsAssumption DEF Tables
<1>3. \A i \in 1..Len(tokens) : tokens[i].uses \in Nat
  BY <1>1 DEF TokenOf
<1>4. Grows
  BY <1>1, <1>2, <1>3 DEF Grows, rows
<1>5. QED
  BY <1>1, <1>4 DEF rows, Spending, OneLivingToken, Spent, Registered

\* A step that changes one request and nothing else.
LEMMA QuietStep ==
  ASSUME IInv, UNCHANGED <<now, cloud, rows, sessions, history>>, faults' \in 0..MaxFaults,
         NEW r \in Requests, NEW q, Fit(q), q.pc # "token", req' = [req EXCEPT ![r] = q]
  PROVE  IInv'
<1> USE DEF IInv
<1>1. Grows /\ Len(tokens) \in Nat /\ Spending' /\ OneLivingToken'
      /\ \A subject : Spent(subject)' <=> Spent(subject)
  BY RowsStay
<1>2. Tables'
  BY DEF Tables, rows, history
<1>3. Confirmed' /\ Ended'
  BY <1>1 DEF Confirmed, Ended, rows, history, Registered
<1>4. Working'
  BY <1>1, StaysFit, WorkingStays
<1>5. Room'
  BY <1>1, RoomStays DEF rows
<1>6. QED
  BY <1>1, <1>2, <1>3, <1>4, <1>5

LEMMA Rows ==
  ASSUME Tables
  PROVE  /\ now \in Nat /\ now <= MaxTime /\ subjects \in Nat /\ Len(tokens) \in Nat
         /\ DOMAIN tokens = 1..Len(tokens)
         /\ \A i \in 1..Len(tokens) :
              /\ tokens[i] \in TokenOf(subjects) /\ tokens[i].uses \in Nat
              /\ tokens[i].subject \in 1..subjects
         /\ account.subject \in {0, subjects}
         /\ \A s \in sessions : s.subject \in 1..subjects /\ s.iat \in 0..now
<1>1. \A i \in 1..Len(tokens) : tokens[i] \in TokenOf(subjects)
  BY ElementOfSeq DEF Tables
<1>2. account.subject \in {0, subjects}
  BY DEF Tables, RowOf
<1>3. \A s \in sessions : s.subject \in 1..subjects /\ s.iat \in 0..now
  BY DEF Tables, SessionOf
<1>4. QED
  BY <1>1, <1>2, <1>3, AccountsAssumption DEF Tables, TokenOf

LEMMA IdleFits ==
  ASSUME Tables
  PROVE  Fit(Idle) /\ Idle.pc # "token" /\ Idle \in Request
<1>1. Len(tokens) \in Nat /\ now \in Nat /\ subjects \in Nat
  BY AccountsAssumption DEF Tables
<1>2. Idle \in Request /\ Idle.pc = "idle"
  BY <1>1 DEF Request, Subjects, Purposes, Idle, Places
<1>3. QED
  BY <1>2 DEF Fit

-----------------------------------------------------------------------------
(* Init and the steps of the handlers.                                     *)

LEMMA InitIInv == Init => IInv
<1> SUFFICES ASSUME Init PROVE IInv
  OBVIOUS
<1> USE AccountsAssumption
<1>1. tokens = <<>> /\ Len(tokens) = 0 /\ DOMAIN tokens = {} /\ sessions = {} /\ ended = {}
  BY DEF Init
<1>2. account.verified = FALSE /\ account \in RowOf(subjects, now) /\ subjects \in 0..MaxSubjects
  <2>1. /\ NoAccount.verified = FALSE /\ 0 \in Nat /\ now = 0
        /\ \A n \in Nat : NoAccount \in RowOf(n, now)
    BY DEF NoAccount, RowOf, Init
  <2>2. CASE Unregistered
    BY <2>1, <2>2 DEF Unregistered
  <2>3. CASE Migrated
    <3>1. PICK p \in Passwords :
            account = [NoAccount EXCEPT !.subject = 1, !.password = p, !.legacy = TRUE]
      BY <2>3 DEF Migrated
    <3>2. subjects = 1 /\ NoAccount \in RowOf(1, now)
      BY <2>1, <2>3 DEF Migrated
    <3>3. account.verified = FALSE
      BY <3>1 DEF NoAccount
    <3>4. account \in RowOf(1, now)
      BY <2>1, <3>1, <3>2 DEF RowOf
    <3>5. QED
      BY <3>2, <3>3, <3>4, AccountsAssumption
  <2>4. QED
    BY <2>2, <2>3 DEF Init
<1>3. Tables
  <2>1. now \in 0..MaxTime /\ faults \in 0..MaxFaults
    BY DEF Init
  <2>2. cloud \in BOOLEAN /\ late \in BOOLEAN
    BY DEF Init
  <2>3. QED
    BY <1>1, <1>2, <2>1, <2>2 DEF Tables
<1>4. Spending /\ OneLivingToken
  BY <1>1 DEF Spending, OneLivingToken
<1>5. Confirmed /\ Ended
  BY <1>1, <1>2 DEF Confirmed, Ended
<1>6. Working
  BY <1>3, IdleFits DEF Init, Working, Fit
<1>7. Room
  <2>1. AtToken = {}
    BY DEF Init, AtToken, At, Idle
  <2>2. QED
    BY <1>1, <2>1, FS_EmptySet DEF Room
<1>8. QED
  BY <1>3, <1>4, <1>5, <1>6, <1>7 DEF IInv

\* What a signup does after its token.
LEMMA AfterTokenFits ==
  ASSUME IInv, NEW r \in Requests, NEW q, q = AfterToken(r)
  PROVE  Fit(q) /\ q.pc # "token"
<1>1. Fit(Idle) /\ Idle.pc # "token" /\ Idle \in Request /\ req[r] \in Request
  BY IdleFits DEF IInv, Working
<1>2. CASE q = Idle
  BY <1>1, <1>2
<1>3. CASE q = [Idle EXCEPT !.pc = "issue", !.subject = req[r].subject]
           /\ req[r].subject # 0 /\ ~cloud
  <2>1. req[r].subject \in Subjects /\ req[r].subject > 0 /\ "issue" \in Places
    BY <1>1, <1>3, Rows DEF Request, Subjects, Places, IInv
  <2>2. q \in Request /\ q.pc = "issue" /\ q.subject = req[r].subject
    BY <1>1, <1>3, <2>1 DEF Request
  <2>3. QED
    BY <1>3, <2>1, <2>2 DEF Fit
<1>4. QED
  BY <1>2, <1>3 DEF AfterToken

\* The places of a request whose next step is its own affair.
LEMMA QuietSteps ==
  ASSUME IInv, NEW r \in Requests,
         \/ TokenFails(r) \/ Admit(r) \/ DateLogout(r) \/ DeleteFails(r) \/ Abandon(r)
         \/ \E p \in Passwords : Login(r, p)
         \/ \E s \in sessions, place \in {"logout", "delete"} : Enter(r, s, place)
  PROVE  IInv'
<1> USE AccountsAssumption DEF Goto
<1>1. /\ Fit(Idle) /\ Idle.pc # "token" /\ Idle \in Request
      /\ Fit(req[r]) /\ req[r] \in Request
  BY IdleFits DEF IInv, Working, Fit
<1>2. now \in Nat /\ subjects \in Nat /\ faults \in 0..MaxFaults /\ account.subject \in 0..subjects
  BY DEF IInv, Tables, RowOf
<1>3. CASE TokenFails(r)
  <2>1. PICK q : q = AfterToken(r)
    OBVIOUS
  <2>2. Fit(q) /\ q.pc # "token"
    BY <2>1, AfterTokenFits
  <2>3. QED
    BY <1>2, <1>3, <2>1, <2>2, QuietStep DEF TokenFails
<1>4. CASE Admit(r)
  <2>1. PICK q : q = [req[r] EXCEPT !.pc = "issue"]
    OBVIOUS
  <2>2. ASSUME Registered(req[r].subject), cloud => account.verified
        PROVE  Fit(q) /\ q.pc # "token"
    <3>1. cloud => Spent(req[r].subject)
      BY <2>2 DEF IInv, Confirmed, Registered
    <3>2. q \in Request /\ q.pc = "issue" /\ q.subject = req[r].subject
      BY <1>1, <2>1 DEF Request, Places
    <3>3. q.subject > 0
      BY <1>1, <1>4, <3>2 DEF Fit, Admit, At
    <3>4. QED
      BY <3>1, <3>2, <3>3 DEF Fit
  <2>3. QED
    BY <1>1, <1>2, <1>4, <2>1, <2>2, QuietStep DEF Admit, Move
<1>5. CASE DateLogout(r)
  <2>1. PICK q : q = [req[r] EXCEPT !.pc = "revoke", !.at = now]
    OBVIOUS
  <2>2. Fit(q) /\ q.pc # "token"
    <3>1. q \in Request /\ q.pc = "revoke" /\ q.subject = req[r].subject
      <4>1. "revoke" \in Places /\ now \in 0..now
        BY <1>2 DEF Places
      <4>2. QED
        BY <1>1, <2>1, <4>1 DEF Request
    <3>2. req[r].subject > 0
      BY <1>1, <1>5 DEF Fit, DateLogout, At
    <3>3. QED
      BY <3>1, <3>2 DEF Fit
  <2>3. QED
    BY <1>2, <1>5, <2>1, <2>2, QuietStep DEF DateLogout
<1>6. CASE DeleteFails(r)
  BY <1>1, <1>2, <1>6, QuietStep DEF DeleteFails
<1>7. CASE Abandon(r)
  <2>1. faults' \in 0..MaxFaults
    BY <1>2, <1>7 DEF Abandon
  <2>2. QED
    BY <1>1, <1>7, <2>1, QuietStep DEF Abandon
<1>8. ASSUME NEW p \in Passwords, Login(r, p) PROVE IInv'
  <2>1. PICK q : q = [Idle EXCEPT !.pc = IF account.legacy THEN "rehash" ELSE "admit",
                                  !.subject = account.subject, !.password = p]
    OBVIOUS
  <2>2. Fit(q) /\ q.pc # "token"
    <3>1. account.subject # 0 /\ account.password = p /\ account.subject \in Subjects
      BY <1>2, <1>8 DEF Login, Subjects
    <3>2. PICK place \in {"rehash", "admit"} :
            q = [Idle EXCEPT !.pc = place, !.subject = account.subject, !.password = p]
      BY <2>1
    <3>3. /\ q \in Request /\ q.pc = place
          /\ q.subject = account.subject /\ q.password = p
      <4>1. place \in Places /\ p \in Passwords \cup {"none"}
        BY DEF Places
      <4>2. QED
        BY <1>1, <3>1, <3>2, <4>1 DEF Request
    <3>4. QED
      BY <1>2, <3>1, <3>3 DEF Fit
  <2>3. QED
    BY <1>2, <1>8, <2>1, <2>2, QuietStep DEF Login
<1>9. ASSUME NEW s \in sessions, NEW place \in {"logout", "delete"}, Enter(r, s, place)
      PROVE  IInv'
  <2>1. PICK q : q = [Idle EXCEPT !.pc = place, !.subject = s.subject]
    OBVIOUS
  <2>2. s.subject \in 1..subjects
    BY DEF IInv, Tables, SessionOf
  <2>3. Fit(q) /\ q.pc # "token"
    <3>1. s.subject \in Subjects /\ s.subject > 0 /\ place \in Places
      BY <1>2, <2>2 DEF Subjects, Places
    <3>2. q \in Request /\ q.pc = place /\ q.subject = s.subject
      BY <1>1, <2>1, <3>1 DEF Request
    <3>3. QED
      BY <3>1, <3>2 DEF Fit
  <2>4. QED
    BY <1>2, <1>9, <2>1, <2>3, QuietStep DEF Enter
<1>10. QED
  BY <1>3, <1>4, <1>5, <1>6, <1>7, <1>8, <1>9

\* A statement begins: it sees all the living tokens of its purpose.
LEMMA BeginTokenStep ==
  ASSUME IInv, NEW r \in Requests, NEW purpose \in Purposes, BeginToken(r, purpose),
         ~At(r, "token")
  PROVE  IInv'
<1> USE AccountsAssumption DEF IInv
<1>1. PICK q : q = [req[r] EXCEPT
        !.pc = "token", !.purpose = purpose, !.owner = account.subject, !.length = Len(tokens),
        !.sees = {i \in DOMAIN tokens : /\ tokens[i].live /\ tokens[i].purpose = purpose
                                        /\ tokens[i].subject = account.subject}]
  OBVIOUS
<1>2. req' = [req EXCEPT ![r] = q]
  BY <1>1 DEF BeginToken, Goto
<1>3. UNCHANGED <<now, cloud, rows, sessions, faults, history>>
  BY DEF BeginToken
<1>4. Grows /\ Len(tokens) \in Nat /\ Spending' /\ OneLivingToken'
      /\ \A subject : Spent(subject)' <=> Spent(subject)
  BY <1>3, RowsStay
<1>5. Fit(q)
  <2>1. req[r] \in Request
    BY DEF Working
  <2>2. account.subject \in 0..subjects /\ account.subject # 0 /\ subjects \in Nat
    BY DEF Tables, RowOf, BeginToken
  <2>3. DOMAIN tokens = 1..Len(tokens)
    BY DEF Tables
  <2>4. q \in Request
    <3>1. PICK seen : seen = {i \in DOMAIN tokens :
                                /\ tokens[i].live /\ tokens[i].purpose = purpose
                                /\ tokens[i].subject = account.subject}
      OBVIOUS
    <3>2. seen \in SUBSET (1..Len(tokens)) /\ Len(tokens) \in 0..Len(tokens)
      BY <1>4, <2>3, <3>1
    <3>3. account.subject \in Subjects /\ "token" \in Places
      BY <2>2 DEF Subjects, Places
    <3>4. q = [req[r] EXCEPT !.pc = "token", !.purpose = purpose, !.owner = account.subject,
                             !.length = Len(tokens), !.sees = seen]
      BY <1>1, <3>1
    <3>5. QED
      BY <2>1, <3>2, <3>3, <3>4 DEF Request
  <2>5. q.pc = "token" /\ q.owner > 0 /\ q.length = Len(tokens) /\ q.purpose = purpose
    BY <1>1, <2>1, <2>2 DEF Request
  <2>6. \A i \in 1..Len(tokens) : tokens[i].live /\ tokens[i].purpose = purpose => i \in q.sees
    BY <1>1, <2>1, <2>3 DEF Request, Spending, Registered
  <2>7. QED
    BY <2>4, <2>5, <2>6 DEF Fit
<1>6. Working'
  BY <1>2, <1>4, <1>5, StaysFit, WorkingStays
<1>7. Room'
  <2>1. AtToken' = AtToken \cup {r} /\ r \notin AtToken
    BY <1>1, <1>2 DEF AtToken, At, Working, Request
  <2>2. Cardinality(AtToken') = Cardinality(AtToken) + 1
    BY <2>1, AtTokenFinite, FS_AddElement
  <2>3. Len(tokens) + Cardinality(AtToken) < MaxTokens
    BY DEF BeginToken, AtToken
  <2>4. QED
    BY <1>3, <1>4, <2>2, <2>3, AtTokenFinite DEF Room, rows
<1>8. Tables' /\ Confirmed' /\ Ended'
  BY <1>3, <1>4 DEF Tables, Confirmed, Ended, rows, history, Registered
<1>9. QED
  BY <1>4, <1>6, <1>7, <1>8

-----------------------------------------------------------------------------
(* Time and sessions.                                                      *)

LEMMA NobodyMoves ==
  ASSUME Tables, Working, Grows, req' = req
  PROVE  Working' /\ (Room /\ Len(tokens') = Len(tokens) => Room')
<1>1. ASSUME NEW s \in Requests PROVE Fit(req[s])'
  <2>1. PICK p : p = req[s]
    OBVIOUS
  <2>2. Fit(p)'
    BY <2>1, StaysFit DEF Working
  <2>3. QED
    BY <2>1, <2>2 DEF Fit
<1>2. \A s \in Requests : req'[s] \in Request'
  BY <1>1 DEF Fit
<1>3. QED
  BY <1>1, <1>2 DEF Working, Room, AtToken, At

LEMMA TickStep == ASSUME IInv, Tick PROVE IInv'
<1> USE DEF IInv
<1>1. now' = now + 1 /\ now' <= MaxTime
      /\ UNCHANGED <<cloud, rows, sessions, req, faults, history>>
  BY Rows, AccountsAssumption DEF Tick
<1>2. Grows
  BY <1>1, Rows DEF Grows, rows
<1>3. Tables'
  <2>1. now' \in 0..MaxTime /\ 0..now \subseteq 0..now'
    BY <1>1, Rows, AccountsAssumption
  <2>2. RowOf(subjects, now) \subseteq RowOf(subjects, now')
    BY <2>1 DEF RowOf
  <2>3. SessionOf(subjects, now) \subseteq SessionOf(subjects, now')
    BY <2>1 DEF SessionOf
  <2>4. QED
    BY <1>1, <2>1, <2>2, <2>3 DEF Tables, rows, history
<1>4. Spending' /\ OneLivingToken' /\ Confirmed' /\ Ended'
  BY <1>1 DEF Spending, OneLivingToken, Confirmed, Spent, Ended, Registered, rows, history
<1>5. Working' /\ Room'
  BY <1>1, <1>2, NobodyMoves DEF rows
<1>6. QED
  BY <1>3, <1>4, <1>5

LEMMA IssueStep == ASSUME IInv, NEW r \in Requests, Issue(r) PROVE IInv'
<1> USE DEF IInv
<1>1. UNCHANGED <<now, cloud, rows, faults, history>> /\ req' = [req EXCEPT ![r] = Idle]
  BY DEF Issue, Goto
<1>2. Grows /\ Spending' /\ OneLivingToken' /\ (\A subject : Spent(subject)' <=> Spent(subject))
  BY <1>1, RowsStay
<1>3. PICK s : s = [subject |-> req[r].subject, iat |-> Second(now)]
  OBVIOUS
<1>4. sessions' = sessions \cup {s}
  BY <1>3 DEF Issue
<1>5. Fit(req[r]) /\ req[r].pc = "issue"
  BY DEF Working, Issue, At
<1>6. s \in SessionOf(subjects, now)
  <2>1. req[r].subject \in 0..subjects /\ req[r].subject > 0
    BY <1>5 DEF Fit, Request, Subjects
  <2>2. PICK n \in Nat, t \in Nat : n = subjects /\ t = now
    BY Rows
  <2>3. PICK second \in 0..t : second = Second(now)
    BY <2>2, SecondOf
  <2>4. req[r].subject \in 1..n
    BY <2>1, <2>2
  <2>5. s \in [subject : 1..n, iat : 0..t]
    BY <1>3, <2>3, <2>4
  <2>6. QED
    BY <2>2, <2>5 DEF SessionOf
<1>7. Tables'
  BY <1>1, <1>4, <1>6 DEF Tables, rows, history
<1>8. Confirmed'
  BY <1>1, <1>2, <1>3, <1>4, <1>5 DEF Confirmed, Fit, rows
<1>9. Ended'
  BY <1>1 DEF Ended, Registered, rows, history
<1>10. Working' /\ Room'
  BY <1>1, <1>2, IdleFits, StaysFit, WorkingStays, RoomStays, Rows DEF rows
<1>11. QED
  BY <1>2, <1>7, <1>8, <1>9, <1>10

-----------------------------------------------------------------------------
(* A token ends: it expires or is consumed.                                *)

LEMMA TokenEnds ==
  ASSUME IInv, UNCHANGED <<now, cloud, account, subjects, sessions, history>>,
         faults' = faults,
         NEW i \in 1..Len(tokens), NEW t, t \in TokenOf(subjects),
         t.subject = tokens[i].subject, t.purpose = tokens[i].purpose,
         t.live = FALSE, t.uses \in {0, 1}, tokens[i].uses <= t.uses,
         tokens' = [tokens EXCEPT ![i] = t]
  PROVE  /\ Grows /\ Len(tokens') = Len(tokens) /\ tokens'[i] = t
         /\ Tables' /\ Spending' /\ OneLivingToken' /\ Confirmed' /\ Ended'
<1> USE DEF IInv
<1>1. /\ tokens' \in Seq(TokenOf(subjects)) /\ Len(tokens') = Len(tokens)
      /\ DOMAIN tokens = 1..Len(tokens) /\ DOMAIN tokens' = 1..Len(tokens)
      /\ \A k \in 1..Len(tokens) : tokens'[k] = IF k = i THEN t ELSE tokens[k]
  BY ExceptSeq, Rows DEF Tables
<1>2. t.uses \in Nat
  BY DEF TokenOf
<1>3. Grows
  BY <1>1, <1>2, Rows DEF Grows
<1>4. Tables'
  BY <1>1 DEF Tables, history
<1>5. Spending'
  BY <1>1 DEF Spending, Registered
<1>6. OneLivingToken'
  <2>1. SUFFICES ASSUME NEW j \in 1..Len(tokens), NEW k \in 1..Len(tokens), j < k,
                        tokens'[j].live, tokens'[k].live,
                        tokens'[j].purpose = tokens'[k].purpose
                 PROVE  j > tokens'[k].sawUpTo
    BY <1>1 DEF OneLivingToken
  <2>2. j # i /\ k # i
    BY <1>1, <2>1
  <2>3. QED
    BY <1>1, <2>1, <2>2 DEF OneLivingToken
<1>7. Confirmed'
  BY <1>3, SpentStays DEF Confirmed
<1>8. Ended'
  BY DEF Ended, Registered, history
<1>9. QED
  BY <1>1, <1>3, <1>4, <1>5, <1>6, <1>7, <1>8

LEMMA ExpireStep == ASSUME IInv, NEW i \in DOMAIN tokens, Expire(i) PROVE IInv'
<1> USE DEF IInv
<1>1. i \in 1..Len(tokens) /\ tokens[i] \in TokenOf(subjects) /\ tokens[i].uses <= 1
      /\ tokens[i].uses \in Nat
  BY Rows DEF Spending
<1>2. PICK t : t = [tokens[i] EXCEPT !.live = FALSE]
  OBVIOUS
<1>3. /\ t \in TokenOf(subjects) /\ t.subject = tokens[i].subject
      /\ t.purpose = tokens[i].purpose /\ t.live = FALSE /\ t.uses = tokens[i].uses
  BY <1>1, <1>2 DEF TokenOf
<1>4. tokens' = [tokens EXCEPT ![i] = t]
  BY <1>2 DEF Expire
<1>5. UNCHANGED <<now, cloud, account, subjects, sessions, req, faults, history>>
  BY DEF Expire
<1>6. /\ Grows /\ Len(tokens') = Len(tokens)
      /\ Tables' /\ Spending' /\ OneLivingToken' /\ Confirmed' /\ Ended'
  <2>1. t.uses \in {0, 1} /\ tokens[i].uses <= t.uses
    BY <1>1, <1>3
  <2>2. QED
    BY <1>1, <1>3, <1>4, <1>5, <2>1, TokenEnds
<1>7. QED
  BY <1>5, <1>6, NobodyMoves

\* A spent token leaves its subject confirmed, or its password to be reset.
LEMMA ConsumeStep ==
  ASSUME IInv, NEW r \in Requests, NEW i \in DOMAIN tokens,
         \/ VerifyEmail(r, i)
         \/ \E p \in Passwords : PasswordReset(r, i, p)
  PROVE  IInv'
<1> USE DEF IInv
<1>1. /\ i \in 1..Len(tokens) /\ tokens[i] \in TokenOf(subjects)
      /\ tokens[i].subject \in 1..subjects /\ subjects \in Nat
  BY Rows
<1>2. \E purpose \in Purposes : ConsumeAccountToken(i, purpose)
  BY DEF VerifyEmail, PasswordReset, Purposes
<1>3. tokens[i].live /\ tokens[i].uses = 0
  BY <1>1, <1>2 DEF ConsumeAccountToken, Spending
<1>4. PICK t : t = [tokens[i] EXCEPT !.live = FALSE, !.uses = 1]
  OBVIOUS
<1>5. /\ t \in TokenOf(subjects) /\ t.subject = tokens[i].subject
      /\ t.purpose = tokens[i].purpose /\ t.live = FALSE /\ t.uses = 1
  BY <1>1, <1>4 DEF TokenOf
<1>6. tokens' = [tokens EXCEPT ![i] = t]
  <2>1. tokens' = [tokens EXCEPT ![i] = [tokens[i] EXCEPT !.live = FALSE,
                                                        !.uses = tokens[i].uses + 1]]
    BY <1>2 DEF ConsumeAccountToken
  <2>2. tokens[i].uses + 1 = 1
    BY <1>3
  <2>3. QED
    BY <1>4, <2>1, <2>2, Zenon
<1>7. UNCHANGED <<now, cloud, account, subjects, sessions, faults, history>>
  BY DEF VerifyEmail, PasswordReset
<1>8. /\ Grows /\ Len(tokens') = Len(tokens) /\ tokens'[i] = t
      /\ Tables' /\ Spending' /\ OneLivingToken' /\ Confirmed' /\ Ended'
  <2>1. t.uses \in {0, 1} /\ tokens[i].uses <= t.uses
    BY <1>3, <1>5
  <2>2. QED
    BY <1>1, <1>5, <1>6, <1>7, <2>1, TokenEnds
<1>9. \E q : req' = [req EXCEPT ![r] = q] /\ q.pc # "token" /\ Fit(q)'
  <2>1. Idle \in Request /\ tokens[i].subject \in Subjects /\ {"verify", "reset"} \subseteq Places
    BY <1>1, IdleFits DEF Subjects, Places
  <2>2. Request \subseteq Request'
    <3>1. 0..now \subseteq 0..now' /\ 0..subjects \subseteq 0..subjects'
      BY <1>7
    <3>2. QED
      BY <1>7, <1>8, <3>1 DEF Request, Subjects
  <2>3. CASE VerifyEmail(r, i)
    <3>1. PICK q : q = [Idle EXCEPT !.pc = "verify", !.subject = tokens[i].subject]
      OBVIOUS
    <3>2. q \in Request /\ q.pc = "verify" /\ q.subject = tokens[i].subject
      BY <2>1, <3>1 DEF Request
    <3>3. Spent(q.subject)'
      <4>1. tokens[i].purpose = "verify_email"
        BY <2>3 DEF VerifyEmail, ConsumeAccountToken
      <4>2. i \in 1..Len(tokens') /\ tokens'[i] = t /\ t.uses > 0
        BY <1>1, <1>5, <1>8
      <4>3. QED
        BY <1>5, <3>2, <4>1, <4>2 DEF Spent
    <3>4. Fit(q)'
      BY <1>1, <2>2, <3>2, <3>3 DEF Fit
    <3>5. QED
      BY <2>3, <3>1, <3>2, <3>4 DEF VerifyEmail, Goto
  <2>4. ASSUME NEW p \in Passwords, PasswordReset(r, i, p)
        PROVE  \E q : req' = [req EXCEPT ![r] = q] /\ q.pc # "token" /\ Fit(q)'
    <3>1. PICK q : q = [Idle EXCEPT !.pc = "reset", !.subject = tokens[i].subject,
                                    !.password = p]
      OBVIOUS
    <3>2. q \in Request /\ q.pc = "reset" /\ q.subject = tokens[i].subject
      BY <2>1, <3>1 DEF Request
    <3>3. Fit(q)'
      BY <1>1, <2>2, <3>2 DEF Fit
    <3>4. QED
      BY <2>4, <3>1, <3>2, <3>3 DEF PasswordReset, Goto
  <2>5. QED
    BY <2>3, <2>4
<1>10. Working' /\ Room'
  BY <1>8, <1>9, WorkingStays, RoomStays, Rows
<1>11. QED
  BY <1>8, <1>10

-----------------------------------------------------------------------------
(* The row of the account changes.                                         *)

LEMMA RowChanges ==
  ASSUME Tables, UNCHANGED <<now, cloud, subjects, tokens>>,
         account'.subject = account.subject,
         account'.legacy => account.legacy /\ account'.password = account.password
  PROVE  Grows /\ (Spending => Spending') /\ (OneLivingToken => OneLivingToken')
         /\ (\A subject : Spent(subject)' <=> Spent(subject))
<1>1. Grows
  BY Rows DEF Grows
<1>2. QED
  BY <1>1 DEF Spending, OneLivingToken, Spent, Registered

\* The handler of r is done and idle again.
LEMMA DoneWith ==
  ASSUME IInv, Grows, Len(tokens') = Len(tokens), Tables', NEW r \in Requests,
         req' = [req EXCEPT ![r] = Idle]
  PROVE  Working' /\ Room'
<1>1. Fit(Idle) /\ Idle.pc # "token"
  BY IdleFits DEF IInv
<1>2. Fit(Idle)'
  BY <1>1, StaysFit DEF IInv
<1>3. QED
  BY <1>1, <1>2, WorkingStays, RoomStays, Rows DEF IInv

LEMMA MarkEmailVerifiedStep ==
  ASSUME IInv, NEW r \in Requests, MarkEmailVerified(r)
  PROVE  IInv'
<1> USE DEF IInv
<1>1. /\ UNCHANGED <<now, cloud, subjects, tokens, sessions, faults, history>>
      /\ req' = [req EXCEPT ![r] = Idle]
  BY DEF MarkEmailVerified, Goto
<1>2. account' = [account EXCEPT !.verified = account.verified \/ Registered(req[r].subject)]
  BY DEF MarkEmailVerified
<1>3. account' \in RowOf(subjects, now) /\ account \in RowOf(subjects, now)
  BY <1>2 DEF Tables, RowOf
<1>4. /\ account'.subject = account.subject /\ account'.legacy = account.legacy
      /\ account'.password = account.password /\ account'.revokedAt = account.revokedAt
      /\ account'.verified <=> account.verified \/ Registered(req[r].subject)
  BY <1>2, <1>3 DEF RowOf
<1>5. Grows /\ Spending' /\ OneLivingToken' /\ \A subject : Spent(subject)' <=> Spent(subject)
  BY <1>1, <1>4, RowChanges
<1>6. Tables'
  BY <1>1, <1>3 DEF Tables, history
<1>7. Confirmed'
  <2>1. cloud => Spent(req[r].subject)
    BY DEF Working, Fit, MarkEmailVerified, At
  <2>2. QED
    BY <1>1, <1>4, <1>5, <2>1 DEF Confirmed, Registered
<1>8. Ended'
  BY <1>1, <1>4 DEF Ended, Registered, history
<1>9. QED
  BY <1>1, <1>5, <1>6, <1>7, <1>8, DoneWith

\* A new password ends the sessions at the present moment.
LEMMA UpdatePasswordStep ==
  ASSUME IInv, NEW subject, NEW p \in Passwords \cup {"none"}, UpdatePassword(subject, p),
         UNCHANGED <<now, cloud, subjects, tokens, sessions, faults, late>>
  PROVE  Grows /\ Tables' /\ Spending' /\ OneLivingToken' /\ Confirmed' /\ Ended'
<1> USE DEF IInv
<1>1. CASE Registered(subject)
  <2>1. /\ account' = [account EXCEPT !.password = p, !.legacy = FALSE, !.revokedAt = now]
        /\ ended' = ended \cup SessionsOf(subject)
    BY <1>1 DEF UpdatePassword
  <2>2. account \in RowOf(subjects, now) /\ now \in 0..now
    BY Rows DEF Tables
  <2>3. account' \in RowOf(subjects, now)
    BY <2>1, <2>2 DEF RowOf
  <2>4. /\ account'.subject = account.subject /\ account'.legacy = FALSE
        /\ account'.verified = account.verified /\ account'.revokedAt = now
    BY <2>1, <2>2 DEF RowOf
  <2>5. Grows /\ Spending' /\ OneLivingToken' /\ \A s : Spent(s)' <=> Spent(s)
    BY <2>4, RowChanges
  <2>6. ended' \subseteq sessions
    BY <2>1 DEF SessionsOf, Tables
  <2>7. Tables'
    BY <2>3, <2>6 DEF Tables
  <2>8. Confirmed'
    BY <2>4, <2>5 DEF Confirmed
  <2>9. Ended'
    <3>1. \A s \in sessions : now >= s.iat
      BY Rows
    <3>2. QED
      BY <2>4, <2>6, <3>1 DEF Ended
  <2>10. QED
    BY <2>5, <2>7, <2>8, <2>9
<1>2. CASE ~Registered(subject)
  <2>1. UNCHANGED <<account, ended>>
    BY <1>2 DEF UpdatePassword
  <2>2. Grows /\ Spending' /\ OneLivingToken' /\ \A s : Spent(s)' <=> Spent(s)
    BY <2>1, RowChanges
  <2>3. QED
    BY <2>1, <2>2 DEF Tables, Confirmed, Ended, Registered
<1>3. QED
  BY <1>1, <1>2

LEMMA ResetPasswordStep == ASSUME IInv, NEW r \in Requests, ResetPassword(r) PROVE IInv'
<1>1. req[r] \in Request /\ req[r].password \in Passwords \cup {"none"}
  BY DEF IInv, Working, Request
<1>2. UNCHANGED <<now, cloud, subjects, tokens, sessions, faults, late>>
      /\ UpdatePassword(req[r].subject, req[r].password)
      /\ req' = [req EXCEPT ![r] = Idle]
  BY DEF ResetPassword, Goto
<1>3. Grows /\ Tables' /\ Spending' /\ OneLivingToken' /\ Confirmed' /\ Ended'
  BY <1>1, <1>2, UpdatePasswordStep
<1>4. QED
  BY <1>2, <1>3, DoneWith DEF IInv

LEMMA RehashStep == ASSUME IInv, NEW r \in Requests, Rehash(r) PROVE IInv'
<1> USE DEF IInv
<1>1. req[r] \in Request /\ req[r].password \in Passwords \cup {"none"}
  BY DEF Working, Request
<1>2. UNCHANGED <<now, cloud, subjects, tokens, sessions, faults, late>>
  BY DEF Rehash
<1>3. Grows /\ Tables' /\ Spending' /\ OneLivingToken' /\ Confirmed' /\ Ended'
  <2>1. CASE UpdatePassword(req[r].subject, req[r].password)
    BY <1>1, <1>2, <2>1, UpdatePasswordStep
  <2>2. CASE UNCHANGED <<account, ended>>
    <3>1. Grows /\ Spending' /\ OneLivingToken' /\ \A s : Spent(s)' <=> Spent(s)
      BY <1>2, <2>2, RowChanges
    <3>2. QED
      BY <1>2, <2>2, <3>1 DEF Tables, Confirmed, Ended, Registered
  <2>3. QED
    BY <2>1, <2>2 DEF Rehash
<1>4. PICK q : q = [req[r] EXCEPT !.pc = "admit"]
  OBVIOUS
<1>5. req' = [req EXCEPT ![r] = q]
  BY <1>4 DEF Rehash, Move, Goto
<1>6. Fit(q) /\ q.pc # "token"
  <2>1. "admit" \in Places
    BY DEF Places
  <2>2. q \in Request /\ q.pc = "admit" /\ q.subject = req[r].subject
    BY <1>1, <1>4, <2>1 DEF Request
  <2>3. req[r].subject > 0
    BY DEF Working, Fit, Rehash, At
  <2>4. QED
    BY <2>2, <2>3 DEF Fit
<1>7. Working' /\ Room'
  BY <1>2, <1>3, <1>5, <1>6, StaysFit, WorkingStays, RoomStays, Rows
<1>8. QED
  BY <1>3, <1>7

\* A registration of the free address: no token lives, no session is of it.
LEMMA SignupStep ==
  ASSUME IInv, NEW r \in Requests, NEW p \in Passwords, Signup(r, p)
  PROVE  IInv'
<1> USE DEF IInv
<1>1. /\ UNCHANGED <<now, cloud, tokens, sessions, faults, history>>
      /\ account = NoAccount /\ subjects' = subjects + 1 /\ subjects < MaxSubjects
  BY DEF Signup
<1>2. NoAccount.subject = 0 /\ NoAccount.verified = FALSE /\ NoAccount \in RowOf(subjects', now)
  BY DEF NoAccount, RowOf
<1>3. account' = [NoAccount EXCEPT !.subject = subjects', !.password = p]
  BY DEF Signup
<1>4. account' \in RowOf(subjects', now) /\ account'.subject = subjects'
      /\ account'.verified = FALSE
  BY <1>2, <1>3 DEF RowOf
<1>5. \A i \in 1..Len(tokens) : tokens[i].subject \in 1..subjects /\ ~tokens[i].live
  BY <1>1, <1>2, Rows DEF Spending, Registered
<1>6. Grows
  BY <1>1, <1>4, Rows DEF Grows
<1>7. Tables'
  <2>1. Seq(TokenOf(subjects)) \subseteq Seq(TokenOf(subjects'))
        /\ SessionOf(subjects, now) \subseteq SessionOf(subjects', now')
    BY <1>1, Wider, Rows
  <2>2. subjects' \in 0..MaxSubjects
    BY <1>1, AccountsAssumption, Rows
  <2>3. QED
    BY <1>1, <1>4, <2>1, <2>2 DEF Tables, history
<1>8. Spending' /\ OneLivingToken'
  BY <1>1, <1>5 DEF Spending, OneLivingToken
<1>9. Confirmed'
  BY <1>1, <1>4, <1>6, SpentStays DEF Confirmed
<1>10. Ended'
  <2>1. \A s \in ended : s.subject \in 1..subjects
    BY Rows DEF Tables
  <2>2. QED
    BY <1>1, <1>4, <2>1, Rows DEF Ended, Registered, history
<1>11. PICK q : q = [Idle EXCEPT !.pc = "registered", !.subject = subjects']
  OBVIOUS
<1>12. Fit(q)' /\ q.pc # "token"
  <2>1. Fit(Idle)'
    BY <1>6, IdleFits, StaysFit
  <2>2. Idle \in Request' /\ subjects' \in Subjects' /\ "registered" \in Places
    BY <1>1, <2>1, Rows DEF Fit, Subjects, Places
  <2>3. q \in Request' /\ q.pc = "registered" /\ q.subject = subjects'
    BY <1>11, <2>2 DEF Request
  <2>4. subjects' > 0
    BY <1>1, Rows
  <2>5. QED
    BY <2>3, <2>4 DEF Fit
<1>13. req' = [req EXCEPT ![r] = q]
  BY <1>11 DEF Signup, Goto
<1>14. Working' /\ Room'
  BY <1>1, <1>6, <1>12, <1>13, WorkingStays, RoomStays, Rows
<1>15. QED
  BY <1>7, <1>8, <1>9, <1>10, <1>14

\* A logout ends the sessions up to its date; unless it is late, no earlier one
\* comes back.
LEMMA RevokeSessionsStep ==
  ASSUME IInv, NEW r \in Requests, RevokeSessions(r)
  PROVE  IInv'
<1> USE DEF IInv
<1>1. /\ UNCHANGED <<now, cloud, subjects, tokens, sessions, faults>>
      /\ req' = [req EXCEPT ![r] = Idle]
  BY DEF RevokeSessions, Goto
<1>2. req[r].at \in 0..now
  BY DEF Working, Request
<1>3. CASE Registered(req[r].subject)
  <2>1. /\ account' = [account EXCEPT !.revokedAt = req[r].at]
        /\ ended' = ended \cup {s \in SessionsOf(req[r].subject) : s.iat <= req[r].at}
        /\ late' = (late \/ req[r].at < account.revokedAt)
    BY <1>3 DEF RevokeSessions
  <2>2. account \in RowOf(subjects, now)
    BY DEF Tables
  <2>3. /\ account' \in RowOf(subjects, now)
        /\ account'.subject = account.subject /\ account'.legacy = account.legacy
        /\ account'.password = account.password /\ account'.verified = account.verified
        /\ account'.revokedAt = req[r].at
    BY <1>2, <2>1, <2>2 DEF RowOf
  <2>4. Grows /\ Spending' /\ OneLivingToken' /\ \A s : Spent(s)' <=> Spent(s)
    BY <1>1, <2>3, RowChanges
  <2>5. ended' \subseteq sessions
    BY <2>1 DEF SessionsOf, Tables
  <2>6. late' \in BOOLEAN
    BY <2>1
  <2>7. Tables'
    BY <1>1, <2>3, <2>5, <2>6 DEF Tables
  <2>8. Confirmed'
    BY <1>1, <2>3, <2>4 DEF Confirmed
  <2>9. Ended'
    <3>1. SUFFICES ASSUME ~late', NEW s \in ended', Registered(s.subject)
                   PROVE  req[r].at >= s.iat
      BY <2>3 DEF Ended, Registered
    <3>2. ~late /\ ~(req[r].at < account.revokedAt)
      BY <2>1, <3>1
    <3>3. account.revokedAt \in Int /\ s.iat \in Int /\ req[r].at \in Int
      <4>1. account.revokedAt \in {Never} \cup 0..now
        BY <2>2 DEF RowOf
      <4>2. QED
        BY <1>2, <2>5, <4>1, Rows DEF Never
    <3>4. CASE s \in ended
      BY <3>1, <3>2, <3>3, <3>4 DEF Ended
    <3>5. CASE s \notin ended
      BY <2>1, <3>3, <3>5
    <3>6. QED
      BY <3>4, <3>5
  <2>10. QED
    BY <1>1, <2>4, <2>7, <2>8, <2>9, DoneWith
<1>4. CASE ~Registered(req[r].subject)
  <2>1. UNCHANGED <<account, history>>
    BY <1>4 DEF RevokeSessions
  <2>2. Grows /\ Spending' /\ OneLivingToken' /\ \A s : Spent(s)' <=> Spent(s)
    BY <1>1, <2>1, RowChanges
  <2>3. Tables' /\ Confirmed' /\ Ended'
    BY <1>1, <2>1, <2>2 DEF Tables, Confirmed, Ended, Registered, history
  <2>4. QED
    BY <1>1, <2>2, <2>3, DoneWith
<1>5. QED
  BY <1>3, <1>4

\* Deletion and creation end tokens: each row of t is a row of tokens that may
\* have stopped living.
EndsSome(t) ==
  /\ t \in Seq(TokenOf(subjects)) /\ Len(t) = Len(tokens)
  /\ \A i \in 1..Len(tokens) :
       /\ t[i].subject = tokens[i].subject /\ t[i].purpose = tokens[i].purpose
       /\ t[i].uses = tokens[i].uses /\ t[i].sawUpTo = tokens[i].sawUpTo
       /\ t[i].live => tokens[i].live

LEMMA SomeEnd ==
  ASSUME Tables, NEW keep, NEW t, t = [i \in DOMAIN tokens |-> t[i]],
         \A i \in DOMAIN tokens : t[i] = [tokens[i] EXCEPT !.live = @ /\ i \in keep]
  PROVE  EndsSome(t) /\ \A i \in 1..Len(tokens) : t[i].live <=> tokens[i].live /\ i \in keep
<1>1. DOMAIN tokens = 1..Len(tokens) /\ Len(tokens) \in Nat
      /\ \A i \in 1..Len(tokens) : tokens[i] \in TokenOf(subjects)
  BY Rows
<1>2. ASSUME NEW i \in 1..Len(tokens)
      PROVE  /\ t[i] \in TokenOf(subjects)
             /\ t[i].subject = tokens[i].subject /\ t[i].purpose = tokens[i].purpose
             /\ t[i].uses = tokens[i].uses /\ t[i].sawUpTo = tokens[i].sawUpTo
             /\ t[i].live <=> tokens[i].live /\ i \in keep
  <2>1. t[i] = [tokens[i] EXCEPT !.live = tokens[i].live /\ i \in keep]
    BY <1>1
  <2>2. QED
    BY <1>1, <2>1 DEF TokenOf
<1>3. t \in [1..Len(tokens) -> TokenOf(subjects)]
  BY <1>1, <1>2
<1>4. t \in Seq(TokenOf(subjects)) /\ Len(t) = Len(tokens)
  BY <1>1, <1>3, FunctionSeq
<1>5. QED
  BY <1>2, <1>4 DEF EndsSome

\* The tokens go with the row of their account.
LEMMA DeleteAccountStep ==
  ASSUME IInv, NEW r \in Requests, DeleteAccount(r)
  PROVE  IInv'
<1> USE DEF IInv
<1>1. /\ UNCHANGED <<now, cloud, subjects, sessions, faults, late>>
      /\ req' = [req EXCEPT ![r] = Idle]
      /\ account' = NoAccount /\ Registered(req[r].subject)
      /\ ended' = ended \cup SessionsOf(req[r].subject)
      /\ tokens' = [i \in DOMAIN tokens |->
                      [tokens[i] EXCEPT !.live = @ /\ tokens[i].subject # req[r].subject]]
  BY DEF DeleteAccount, Goto
<1>2. PICK keep : keep = {i \in DOMAIN tokens : tokens[i].subject # req[r].subject}
  OBVIOUS
<1>3. PICK t : t = tokens'
  OBVIOUS
<1>4. /\ t = [i \in DOMAIN tokens |-> t[i]]
      /\ \A i \in DOMAIN tokens : t[i] = [tokens[i] EXCEPT !.live = @ /\ i \in keep]
  BY <1>1, <1>2, <1>3
<1>5. EndsSome(t) /\ \A i \in 1..Len(tokens) : t[i].live <=> tokens[i].live /\ i \in keep
  BY <1>4, SomeEnd
<1>6. \A i \in 1..Len(tokens) : ~t[i].live
  BY <1>1, <1>2, <1>5, Rows DEF Spending, Registered
<1>7. /\ NoAccount.subject = 0 /\ NoAccount.verified = FALSE /\ NoAccount.legacy = FALSE
      /\ NoAccount \in RowOf(subjects, now)
  BY DEF NoAccount, RowOf
<1>8. Grows
  BY <1>1, <1>3, <1>5, <1>7, Rows DEF Grows, EndsSome
<1>9. Tables'
  <2>1. ended' \subseteq sessions
    BY <1>1 DEF SessionsOf, Tables
  <2>2. QED
    BY <1>1, <1>3, <1>5, <1>7, <2>1 DEF Tables, EndsSome
<1>10. Spending'
  BY <1>3, <1>5, <1>6 DEF Spending, EndsSome
<1>11. OneLivingToken'
  <2>1. DOMAIN tokens' = 1..Len(tokens)
    BY <1>1, Rows
  <2>2. QED
    BY <1>3, <1>6, <2>1 DEF OneLivingToken
<1>12. Confirmed'
  BY <1>1, <1>7, <1>8, SpentStays DEF Confirmed
<1>13. Ended'
  <2>1. \A s \in ended' : s.subject # 0
    BY <1>9, <1>1, Rows DEF Tables
  <2>2. QED
    BY <1>1, <1>7, <2>1 DEF Ended, Registered
<1>14. QED
  BY <1>1, <1>3, <1>5, <1>8, <1>9, <1>10, <1>11, <1>12, <1>13, DoneWith DEF EndsSome

\* A statement ends: what it saw is consumed, and what it did not see was inserted
\* after it began.
LEMMA CreateAccountTokenStep ==
  ASSUME IInv, NEW r \in Requests, CreateAccountToken(r)
  PROVE  IInv'
<1> USE DEF IInv
<1>1. PICK t : t = [i \in DOMAIN tokens |->
                     [tokens[i] EXCEPT !.live = @ /\ i \notin req[r].sees]]
  OBVIOUS
<1>2. PICK new : new = [subject |-> req[r].owner, purpose |-> req[r].purpose,
                        live |-> TRUE, uses |-> 0, sawUpTo |-> req[r].length]
  OBVIOUS
<1>3. /\ UNCHANGED <<now, cloud, account, subjects, sessions, faults, history>>
      /\ tokens' = Append(t, new) /\ Registered(req[r].owner) /\ req[r].pc = "token"
      /\ req' = [req EXCEPT ![r] = AfterToken(r)]
  BY <1>1, <1>2 DEF CreateAccountToken, Goto, At
<1>4. EndsSome(t) /\ \A i \in 1..Len(tokens) : t[i].live <=> tokens[i].live /\ i \notin req[r].sees
  <2>1. PICK keep : keep = {i \in DOMAIN tokens : i \notin req[r].sees}
    OBVIOUS
  <2>2. /\ t = [i \in DOMAIN tokens |-> t[i]]
        /\ \A i \in DOMAIN tokens : t[i] = [tokens[i] EXCEPT !.live = @ /\ i \in keep]
    BY <1>1, <2>1
  <2>3. EndsSome(t) /\ \A i \in 1..Len(tokens) : t[i].live <=> tokens[i].live /\ i \in keep
    BY <2>2, SomeEnd
  <2>4. QED
    BY <2>1, <2>3, Rows
<1>5. Fit(req[r]) /\ req[r] \in Request
  BY DEF Working
<1>6. Cardinality(AtToken) >= 1 /\ r \in AtToken
  <2>1. r \in AtToken
    BY <1>3 DEF AtToken, At
  <2>2. QED
    BY <2>1, AtTokenFinite, FS_EmptySet
<1>7. Len(tokens) \in Nat /\ Len(tokens) + 1 <= MaxTokens
  BY <1>6, AtTokenFinite, Rows, AccountsAssumption DEF Room
<1>8. new \in TokenOf(subjects)
  <2>1. req[r].owner \in 1..subjects /\ req[r].purpose \in Purposes
    BY <1>3, <1>5, Rows DEF Fit, Request, Subjects
  <2>2. req[r].length \in 0..MaxTokens
    BY <1>5, <1>7, AccountsAssumption DEF Request
  <2>3. QED
    BY <1>2, <2>1, <2>2 DEF TokenOf
<1>9. /\ tokens' \in Seq(TokenOf(subjects)) /\ Len(tokens') = Len(tokens) + 1
      /\ DOMAIN tokens' = 1..(Len(tokens) + 1)
      /\ \A i \in 1..Len(tokens) : tokens'[i] = t[i]
      /\ tokens'[Len(tokens) + 1] = new
  <2>1. t \in Seq(TokenOf(subjects)) /\ Len(t) = Len(tokens)
    BY <1>4 DEF EndsSome
  <2>2. QED
    BY <1>3, <1>8, <2>1, AppendProperties, LenProperties
<1>10. \A i \in 1..Len(tokens) :
         /\ tokens'[i].subject = tokens[i].subject /\ tokens'[i].purpose = tokens[i].purpose
         /\ tokens'[i].uses = tokens[i].uses /\ tokens'[i].sawUpTo = tokens[i].sawUpTo
         /\ tokens'[i].live => tokens[i].live /\ i \notin req[r].sees
  BY <1>4, <1>9 DEF EndsSome
<1>11. Grows
  <2>1. \A i \in 1..Len(tokens) : tokens'[i].uses \in Nat /\ tokens[i].uses <= tokens'[i].uses
    BY <1>10, Rows
  <2>2. Len(tokens') \in Nat /\ Len(tokens) <= Len(tokens')
    BY <1>7, <1>9
  <2>3. QED
    BY <1>3, <1>10, <2>1, <2>2, Rows DEF Grows
<1>12. Tables'
  BY <1>3, <1>9 DEF Tables, history
<1>13. Spending'
  <2>1. ASSUME NEW i \in 1..Len(tokens')
        PROVE  /\ tokens'[i].uses <= 1
               /\ tokens'[i].live => tokens'[i].uses = 0 /\ account'.subject = tokens'[i].subject
    <3>1. CASE i \in 1..Len(tokens)
      BY <1>3, <1>10, <3>1 DEF Spending, Registered
    <3>2. CASE i = Len(tokens) + 1
      BY <1>2, <1>3, <1>9, <3>2 DEF Registered
    <3>3. QED
      BY <1>7, <1>9, <3>1, <3>2
  <2>2. QED
    BY <2>1 DEF Spending, Registered
<1>14. OneLivingToken'
  <2>1. SUFFICES ASSUME NEW j \in 1..(Len(tokens) + 1), NEW k \in 1..(Len(tokens) + 1), j < k,
                        tokens'[j].live, tokens'[k].live,
                        tokens'[j].purpose = tokens'[k].purpose
                 PROVE  j > tokens'[k].sawUpTo
    BY <1>9 DEF OneLivingToken
  <2>2. j \in 1..Len(tokens)
    BY <1>7, <2>1
  <2>3. tokens[j].live /\ tokens[j].purpose = tokens'[j].purpose /\ j \notin req[r].sees
    BY <1>10, <2>1, <2>2
  <2>4. CASE k \in 1..Len(tokens)
    BY <1>10, <2>1, <2>2, <2>3, <2>4, Rows DEF OneLivingToken
  <2>5. CASE k = Len(tokens) + 1
    <3>1. tokens[j].purpose = req[r].purpose /\ tokens'[k].sawUpTo = req[r].length
      BY <1>2, <1>9, <2>1, <2>3, <2>5
    <3>2. j \notin 1..req[r].length
      BY <1>3, <1>5, <2>3, <3>1 DEF Fit
    <3>3. QED
      BY <1>5, <1>7, <2>2, <3>1, <3>2 DEF Request
  <2>6. QED
    BY <1>7, <2>1, <2>4, <2>5
<1>15. Confirmed'
  BY <1>3, <1>11, SpentStays DEF Confirmed
<1>16. Ended'
  BY <1>3 DEF Ended, Registered, history
<1>17. PICK q : q = AfterToken(r)
  OBVIOUS
<1>18. Fit(q) /\ q.pc # "token" /\ req' = [req EXCEPT ![r] = q]
  BY <1>3, <1>17, AfterTokenFits
<1>19. Working'
  BY <1>11, <1>18, StaysFit, WorkingStays
<1>20. Room'
  <2>1. AtToken' = AtToken \ {r}
    BY <1>18 DEF AtToken, At, Working
  <2>2. Cardinality(AtToken') = Cardinality(AtToken) - 1
    BY <1>6, <2>1, AtTokenFinite, FS_RemoveElement
  <2>3. QED
    BY <1>7, <1>9, <2>2, AtTokenFinite, AccountsAssumption DEF Room
<1>21. QED
  BY <1>12, <1>13, <1>14, <1>15, <1>16, <1>19, <1>20

-----------------------------------------------------------------------------
(* The theorems.                                                           *)

LEMMA NextIInv == IInv /\ [Next]_vars => IInv'
<1> SUFFICES ASSUME IInv, [Next]_vars PROVE IInv'
  OBVIOUS
<1>1. CASE Tick
  BY <1>1, TickStep
<1>2. ASSUME NEW i \in DOMAIN tokens, Expire(i) PROVE IInv'
  BY <1>2, ExpireStep
<1>3. ASSUME NEW r \in Requests,
             \/ Issue(r) \/ SignupToken(r) \/ CreateAccountToken(r)
             \/ MarkEmailVerified(r) \/ ResetPassword(r) \/ Rehash(r)
             \/ RevokeSessions(r) \/ DeleteAccount(r)
             \/ \E purpose \in Purposes : RequestToken(r, purpose)
      PROVE  IInv'
  <2>1. CASE Issue(r)
    BY <2>1, IssueStep
  <2>2. CASE SignupToken(r) \/ \E purpose \in Purposes : RequestToken(r, purpose)
    BY <2>2, BeginTokenStep DEF SignupToken, RequestToken, At, Purposes
  <2>3. CASE CreateAccountToken(r)
    BY <2>3, CreateAccountTokenStep
  <2>4. CASE MarkEmailVerified(r)
    BY <2>4, MarkEmailVerifiedStep
  <2>5. CASE ResetPassword(r) \/ Rehash(r)
    BY <2>5, ResetPasswordStep, RehashStep
  <2>6. CASE RevokeSessions(r)
    BY <2>6, RevokeSessionsStep
  <2>7. CASE DeleteAccount(r)
    BY <2>7, DeleteAccountStep
  <2>8. QED
    BY <1>3, <2>1, <2>2, <2>3, <2>4, <2>5, <2>6, <2>7
<1>4. ASSUME NEW r \in Requests, NEW i \in DOMAIN tokens,
             VerifyEmail(r, i) \/ \E p \in Passwords : PasswordReset(r, i, p)
      PROVE  IInv'
  BY <1>4, ConsumeStep
<1>5. ASSUME NEW r \in Requests, NEW p \in Passwords, Signup(r, p) PROVE IInv'
  BY <1>5, SignupStep
<1>6. ASSUME NEW r \in Requests,
             \/ TokenFails(r) \/ Admit(r) \/ DateLogout(r) \/ DeleteFails(r) \/ Abandon(r)
             \/ \E p \in Passwords : Login(r, p)
             \/ \E s \in sessions, place \in {"logout", "delete"} : Enter(r, s, place)
      PROVE  IInv'
  BY <1>6, QuietSteps
<1>7. CASE UNCHANGED vars
  <2>1. UNCHANGED <<now, cloud, account, subjects, tokens, sessions, req, faults, ended, late>>
    BY <1>7 DEF vars
  <2>2. Grows /\ Spending' /\ OneLivingToken' /\ \A s : Spent(s)' <=> Spent(s)
    BY <2>1, RowsStay DEF IInv, rows
  <2>3. Tables' /\ Confirmed' /\ Ended'
    BY <2>1, <2>2 DEF IInv, Tables, Confirmed, Ended, Registered
  <2>4. QED
    BY <2>1, <2>2, <2>3, NobodyMoves DEF IInv
<1>8. QED
  BY <1>1, <1>2, <1>3, <1>4, <1>5, <1>6, <1>7 DEF Next

\* The inductive invariant holds in every reachable state.
THEOREM Invariance == Spec => []IInv
BY InitIInv, NextIInv, PTL DEF Spec

\* Types; a token that lives belongs to the account of today, which a deletion takes
\* with it and no statement of another registration brings back.
THEOREM TypeCorrect == Spec => []TypeOK
<1>1. IInv => TypeOK
  <2> SUFFICES ASSUME IInv PROVE TypeOK
    OBVIOUS
  <2>1. \A i \in DOMAIN tokens : tokens[i].live => Registered(tokens[i].subject)
    BY Rows DEF IInv, Spending
  <2>2. Len(tokens) <= MaxTokens
    BY Rows, AtTokenFinite, AccountsAssumption DEF IInv, Room
  <2>3. tokens \in Seq([subject : 1..subjects, purpose : Purposes, live : BOOLEAN,
                        uses : Nat, sawUpTo : 0..MaxTokens])
    BY DEF IInv, Tables, TokenOf
  <2>4. sessions \subseteq [subject : 1..subjects, iat : 0..now]
    BY DEF IInv, Tables, SessionOf
  <2>5. QED
    BY <2>1, <2>2, <2>3, <2>4 DEF IInv, Tables, Working, RowOf, TypeOK
<1>2. QED
  BY <1>1, Invariance, PTL

\* Of all the requests that bring the same token one acts on it: the statement of
\* ConsumeAccountToken finds it alive and ends it.
THEOREM TokensActOnce == Spec => []TokenSpentOnce
<1>1. IInv => TokenSpentOnce
  BY Rows DEF IInv, Spending, TokenSpentOnce
<1>2. QED
  BY <1>1, Invariance, PTL

\* A token ends the ones of its purpose that were there when its statement began;
\* two live together only if their statements overlapped.
THEOREM NewTokenReplacesOlder == Spec => []OneLivingToken
<1>1. IInv => OneLivingToken
  BY DEF IInv
<1>2. QED
  BY <1>1, Invariance, PTL

\* In the cloud every session is of a registration whose own token was spent,
\* whichever handlers were between two statements when the address changed hands.
THEOREM OnlyConfirmedGetSessions == Spec => []SessionsAreConfirmed
<1>1. IInv => SessionsAreConfirmed
  <2> SUFFICES ASSUME IInv PROVE SessionsAreConfirmed
    OBVIOUS
  <2>1. DOMAIN tokens = 1..Len(tokens)
    BY Rows DEF IInv
  <2>2. QED
    BY <2>1 DEF IInv, Confirmed, Spent, SessionsAreConfirmed
<1>2. QED
  BY <1>1, Invariance, PTL

\* A session that a logout, a reset or a deletion has ended is let in never again,
\* unless a delayed logout wrote an older date over a newer one.
THEOREM EndedStaysEnded == Spec => []EndedSessionsStayDead
<1>1. IInv => EndedSessionsStayDead
  <2> SUFFICES ASSUME IInv, ~late, NEW s \in ended, Registered(s.subject)
               PROVE  account.revokedAt # Never /\ ~(account.revokedAt < s.iat)
    BY DEF EndedSessionsStayDead, Accepted, SessionActive
  <2>1. account.revokedAt >= s.iat
    BY DEF IInv, Ended
  <2>2. s.iat \in Nat /\ account.revokedAt \in Int
    <3>1. account.revokedAt \in {Never} \cup 0..now
      BY DEF IInv, Tables, RowOf
    <3>2. QED
      BY <3>1, Rows DEF IInv, Tables, Never
  <2>3. QED
    BY <2>1, <2>2 DEF Never
<1>2. QED
  BY <1>1, Invariance, PTL

\* The password of an account changes only when a reset of this account ends, or
\* when a login that read a legacy hash writes it back over the password of a reset.
THEOREM PasswordsHaveAnAuthor == Spec => PasswordsAreChosen
<1> DEFINE Chosen == (account'.subject = account.subject /\ account'.password # account.password)
                       => PasswordChanges
<1>1. ASSUME IInv, [Next]_vars PROVE Chosen
  <2> SUFFICES ASSUME account'.subject = account.subject,
                      account'.password # account.password
               PROVE  PasswordChanges
    OBVIOUS
  <2> USE <1>1
  <2>1. /\ account # account' /\ account \in RowOf(subjects, now) /\ now \in Nat
        /\ req \in [Requests -> Request]
    BY Rows DEF IInv, Tables, Working
  <2>2. PICK r \in Requests :
          \/ MarkEmailVerified(r) \/ ResetPassword(r) \/ Rehash(r) \/ RevokeSessions(r)
          \/ DeleteAccount(r) \/ \E p \in Passwords : Signup(r, p)
    BY <2>1 DEF Next, vars, rows, Tick, Expire, Issue, SignupToken, BeginToken, RequestToken,
         CreateAccountToken, TokenFails, Admit, DateLogout, DeleteFails, Abandon, VerifyEmail,
         PasswordReset, Login, Enter
  <2>3. CASE MarkEmailVerified(r)
    BY <2>1, <2>3 DEF MarkEmailVerified, RowOf
  <2>4. CASE RevokeSessions(r)
    BY <2>1, <2>4 DEF RevokeSessions, RowOf
  <2>5. CASE DeleteAccount(r)
    <3>1. req[r].subject > 0 /\ account.subject = req[r].subject
      BY <2>5 DEF IInv, Working, Fit, DeleteAccount, At, Registered
    <3>2. account'.subject = 0
      BY <2>5 DEF DeleteAccount, NoAccount
    <3>3. QED
      BY <3>1, <3>2
  <2>6. CASE \E p \in Passwords : Signup(r, p)
    <3>1. account.subject = 0 /\ account'.subject = subjects + 1
      <4>1. PICK p \in Passwords : Signup(r, p)
        BY <2>6
      <4>2. account = NoAccount /\ NoAccount.subject = 0 /\ subjects' = subjects + 1
            /\ account' = [NoAccount EXCEPT !.subject = subjects', !.password = p]
        BY <4>1 DEF Signup, NoAccount
      <4>3. QED
        BY <2>1, <4>2 DEF RowOf
    <3>2. QED
      BY <3>1, Rows DEF IInv
  <2>7. CASE ResetPassword(r)
    <3>1. account.subject = req[r].subject
      BY <2>1, <2>7 DEF ResetPassword, UpdatePassword, Registered
    <3>2. At(r, "reset") /\ req'[r].pc = "idle"
      BY <2>1, <2>7 DEF ResetPassword, Goto, Idle
    <3>3. QED
      BY <3>1, <3>2 DEF PasswordChanges, At
  <2>8. CASE Rehash(r)
    <3>1. Registered(req[r].subject) /\ At(r, "rehash")
          /\ account' = [account EXCEPT !.password = req[r].password, !.legacy = FALSE,
                                        !.revokedAt = now]
      BY <2>1, <2>8 DEF Rehash, UpdatePassword
    <3>2. account'.password = req[r].password
      BY <2>1, <3>1 DEF RowOf
    <3>3. ~account.legacy
      BY <3>1, <3>2 DEF IInv, Working, Fit, At
    <3>4. req'[r].pc = "admit"
      <4>1. req' = [req EXCEPT ![r] = [req[r] EXCEPT !.pc = "admit"]] /\ req[r] \in Request
        BY <2>1, <2>8 DEF Rehash, Move, Goto
      <4>2. QED
        BY <2>1, <4>1 DEF Request
    <3>5. QED
      BY <3>1, <3>3, <3>4 DEF PasswordChanges, At, Registered
  <2>9. QED
    BY <2>2, <2>3, <2>4, <2>5, <2>6, <2>7, <2>8
<1>2. QED
  BY <1>1, Invariance, PTL DEF Spec, PasswordsAreChosen
================================================================================
