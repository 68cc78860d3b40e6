-------------------------------- MODULE Smtp --------------------------------
(***************************************************************************)
(* One e-mail over one connection (SendSMTPText): each step may fail and   *)
(* ends the sending with an error, what the server did before stays done.  *)
(* The server is outside src/.  Addresses and headers are taken as valid.  *)
(***************************************************************************)
VARIABLES
  tlsMode,  \* SMTP_TLS_MODE: "auto", "starttls", "implicit", "disabled" or another
  user,     \* SMTP_USER is set
  pass,     \* SMTP_PASSWORD is set
  host,     \* "loopback", "remote", or "none" without SMTP_HOST
  starttls, \* the server advertises STARTTLS
  step,     \* the step SendSMTPText takes next, or how it ended
  secure,   \* the connection is encrypted
  authed,   \* history: the password was sent over: "nothing", "plain" or "tls"
  mailed    \* history: the server accepted the message over the same

smtpVars == <<tlsMode, user, pass, host, starttls, step, secure, authed, mailed>>
config == <<tlsMode, user, pass, host, starttls>>

SmtpInit ==
  /\ tlsMode \in {"auto", "starttls", "implicit", "disabled", "other"}
  /\ user \in BOOLEAN /\ pass \in BOOLEAN
  /\ host \in {"loopback", "remote", "none"}
  /\ starttls \in BOOLEAN
  /\ step = "check"
  /\ secure = FALSE
  /\ authed = "nothing" /\ mailed = "nothing"

Wire == IF secure THEN "tls" ELSE "plain"

At(place) == step = place
Proceed(place) == step' = place

\* What is refused before a connection is made.
CheckConfig ==
  /\ At("check")
  /\ Proceed(IF host = "none" \/ user # pass \/ tlsMode = "other" THEN "error" ELSE "connect")
  /\ UNCHANGED <<config, secure, authed, mailed>>

Connect ==
  /\ At("connect")
  /\ secure' = (tlsMode = "implicit")
  /\ Proceed("hello")
  /\ UNCHANGED <<config, authed, mailed>>

\* Mutant: without STARTTLS every mode goes on in the clear.
Opportunistic == FALSE

TLSRequired == tlsMode = "starttls"

\* NewClient, and STARTTLS when the mode and the server want it.
StartTLS ==
  /\ At("hello")
  /\ IF tlsMode \in {"auto", "starttls"} /\ starttls
       THEN secure' = TRUE /\ Proceed("auth")
       ELSE /\ Proceed(IF TLSRequired /\ ~secure THEN "error" ELSE "auth")
            /\ UNCHANGED secure
  /\ UNCHANGED <<config, authed, mailed>>

MayAuthenticate == secure \/ host = "loopback"

Authenticate ==
  /\ At("auth")
  /\ IF ~user THEN Proceed("data") /\ UNCHANGED authed
     ELSE IF ~MayAuthenticate THEN Proceed("error") /\ UNCHANGED authed
     ELSE authed' = Wire /\ Proceed("data")
  /\ UNCHANGED <<config, secure, mailed>>

\* MAIL, RCPT, DATA and its end, which the server answers.
FinishMessage ==
  /\ At("data")
  /\ mailed' = Wire
  /\ Proceed("quit")
  /\ UNCHANGED <<config, secure, authed>>

Quit ==
  /\ At("quit")
  /\ Proceed("sent")
  /\ UNCHANGED <<config, secure, authed, mailed>>

\* A step is refused, or its connection or its deadline ends; the server may have
\* done it.
StepFails ==
  /\ step \in {"connect", "hello", "auth", "data", "quit"}
  /\ Proceed("error")
  /\ mailed' \in IF At("data") THEN {mailed, Wire} ELSE {mailed}
  /\ authed' \in IF At("auth") /\ user /\ MayAuthenticate THEN {authed, Wire} ELSE {authed}
  /\ UNCHANGED <<config, secure>>

SmtpNext ==
  CheckConfig \/ Connect \/ StartTLS \/ Authenticate \/ FinishMessage \/ Quit \/ StepFails

SmtpSpec == SmtpInit /\ [][SmtpNext]_smtpVars

-----------------------------------------------------------------------------
SmtpTypeOK ==
  /\ step \in {"check", "connect", "hello", "auth", "data", "quit", "sent", "error"}
  /\ secure \in BOOLEAN
  /\ {authed, mailed} \subseteq {"nothing", "plain", "tls"}

\* The password is never sent in the clear to another machine, whatever the mode
\* and the server; and under "starttls" and "implicit" nothing is.
ClearTextOnlyIfAllowed ==
  /\ authed = "plain" => host = "loopback"
  /\ tlsMode \in {"starttls", "implicit"} => authed # "plain" /\ mailed # "plain"
=============================================================================
