----------------------------- MODULE StatusLogin -----------------------------
(***************************************************************************)
(* The one-time login code of status_server.py.  Four web threads serve     *)
(* /login/send and /login/verify; they share _otp_challenge and             *)
(* _otp_last_sent_at under _otp_lock.  send_login_code takes the lock       *)
(* twice: to reserve the resend slot, and, after the mail was delivered     *)
(* without the lock, to install or clear the challenge.                     *)
(*                                                                          *)
(* A code is identified with the request that drew it; two requests that    *)
(* draw the same six digits are not modelled.  What is typed into the form  *)
(* is the code of the challenge or not.  The mail goes out by a call of     *)
(* sendEmail that has no timeout: outside debug mode it only fills a queue, *)
(* in debug mode it is the SMTP dialogue itself.                            *)
(***************************************************************************)
EXTENDS Integers, Sequences

CONSTANTS
  Requests,      \* requests of /login/send that pass the CSRF check
  NoRequest,     \* no challenge
  Ttl,           \* OTP_TTL_SECONDS, in ticks
  ResendWait,    \* OTP_RESEND_SECONDS, in ticks
  MaxAttempts,   \* OTP_MAX_ATTEMPTS
  DeliveryTime,  \* the longest a call of the mail server takes, in ticks
  MaxTime,       \* bound: the clock stops here
  MaxRestarts    \* bound: restarts of the process

ASSUME RequestAssumption == NoRequest \notin Requests
ASSUME OtpAssumption ==
  /\ Ttl \in Nat \ {0} /\ ResendWait \in Nat \ {0} /\ MaxAttempts \in Nat \ {0}
ASSUME LimitAssumption ==
  DeliveryTime \in Nat /\ MaxTime \in Nat /\ MaxRestarts \in Nat

VARIABLES
  now,          \* time.monotonic(), which is positive
  challenge,    \* _otp_challenge, as the request that drew it
  expiresAt,    \* expires_at of each request's challenge
  attempts,     \* attempts_remaining of each request's challenge
  lastSentAt,   \* _otp_last_sent_at; 0 before the first send
  phase,        \* how far each request of /login/send is
  drawnAt,      \* history: when each code was drawn
  wrong,        \* history: wrong guesses at each request's challenge
  admissions,   \* history: the sessions opened, by code and time
  restarts

vars == <<now, challenge, expiresAt, attempts, lastSentAt, phase, drawnAt, wrong,
          admissions, restarts>>

Phase == {"new", "sending", "installed", "failed", "gone"}

TypeOK ==
  /\ now \in Nat \ {0}
  /\ challenge \in Requests \union {NoRequest}
  /\ expiresAt \in [Requests -> Nat]
  /\ attempts \in [Requests -> Nat]
  /\ lastSentAt \in Nat
  /\ phase \in [Requests -> Phase]
  /\ drawnAt \in [Requests -> Nat]
  /\ wrong \in [Requests -> Nat]
  /\ admissions \in Seq([code : Requests, at : Nat])
  /\ restarts \in Nat

Init ==
  /\ now = 1
  /\ challenge = NoRequest
  /\ expiresAt = [r \in Requests |-> 0]
  /\ attempts = [r \in Requests |-> 0]
  /\ lastSentAt = 0
  /\ phase = [r \in Requests |-> "new"]
  /\ drawnAt = [r \in Requests |-> 0]
  /\ wrong = [r \in Requests |-> 0]
  /\ admissions = << >>
  /\ restarts = 0

(***************************************************************************)
(* send_login_code.                                                         *)
(***************************************************************************)

MayResend == lastSentAt > 0 => now - lastSentAt >= ResendWait

\* Variant: the time of the last send is not noted until it succeeded.
DrawCodeUnreserved(r) ==
  /\ phase[r] = "new" /\ MayResend
  /\ phase' = [phase EXCEPT ![r] = "sending"]
  /\ drawnAt' = [drawnAt EXCEPT ![r] = now]
  /\ expiresAt' = [expiresAt EXCEPT ![r] = now + Ttl]
  /\ attempts' = [attempts EXCEPT ![r] = MaxAttempts]
  /\ UNCHANGED <<now, challenge, lastSentAt, wrong, admissions, restarts>>

\* The first critical section.  A request that comes too early changes nothing.
DrawCode(r) ==
  /\ phase[r] = "new" /\ MayResend
  /\ phase' = [phase EXCEPT ![r] = "sending"]
  /\ drawnAt' = [drawnAt EXCEPT ![r] = now]
  /\ expiresAt' = [expiresAt EXCEPT ![r] = now + Ttl]
  /\ attempts' = [attempts EXCEPT ![r] = MaxAttempts]
  /\ lastSentAt' = now
  /\ UNCHANGED <<now, challenge, wrong, admissions, restarts>>

\* Variant: the ten minutes count from the delivery.
InstallRenewed(r) ==
  /\ phase[r] = "sending"
  /\ phase' = [phase EXCEPT ![r] = "installed"]
  /\ challenge' = r
  /\ expiresAt' = [expiresAt EXCEPT ![r] = now + Ttl]
  /\ UNCHANGED <<now, attempts, lastSentAt, drawnAt, wrong, admissions, restarts>>

\* The mail server took the mail: the second critical section.
Install(r) ==
  /\ phase[r] = "sending"
  /\ phase' = [phase EXCEPT ![r] = "installed"]
  /\ challenge' = r
  /\ UNCHANGED <<now, expiresAt, attempts, lastSentAt, drawnAt, wrong, admissions, restarts>>

\* The mail server refused it: whatever challenge there is is dropped.
GiveUp(r) ==
  /\ phase[r] = "sending"
  /\ phase' = [phase EXCEPT ![r] = "failed"]
  /\ challenge' = NoRequest
  /\ UNCHANGED <<now, expiresAt, attempts, lastSentAt, drawnAt, wrong, admissions, restarts>>

(***************************************************************************)
(* verify_login_code: one critical section.                                 *)
(***************************************************************************)

\* Variant: "now > challenge.expires_at", a moment too late.
LiveAtTheEnd(r) == challenge = r /\ now <= expiresAt[r]

Live(r) == challenge = r /\ now < expiresAt[r]

VerifyExpired ==
  /\ \E r \in Requests : challenge = r /\ ~ Live(r)
  /\ challenge' = NoRequest
  /\ UNCHANGED <<now, expiresAt, attempts, lastSentAt, phase, drawnAt, wrong,
                 admissions, restarts>>

\* Variant: the challenge is not cleared by the login.
VerifyRightKeeping(r) ==
  /\ Live(r)
  /\ admissions' = Append(admissions, [code |-> r, at |-> now])
  /\ UNCHANGED <<now, challenge, expiresAt, attempts, lastSentAt, phase, drawnAt, wrong,
                 restarts>>

VerifyRight(r) ==
  /\ Live(r)
  /\ challenge' = NoRequest
  /\ admissions' = Append(admissions, [code |-> r, at |-> now])
  /\ UNCHANGED <<now, expiresAt, attempts, lastSentAt, phase, drawnAt, wrong, restarts>>

\* Variant: "attempts_remaining < 0", one attempt too many.
VerifyWrongLate(r) ==
  /\ Live(r)
  /\ attempts' = [attempts EXCEPT ![r] = @ - 1]
  /\ wrong' = [wrong EXCEPT ![r] = @ + 1]
  /\ challenge' = IF attempts'[r] < 0 THEN NoRequest ELSE challenge
  /\ UNCHANGED <<now, expiresAt, lastSentAt, phase, drawnAt, admissions, restarts>>

\* A wrong code, which may be the code of an earlier request.
VerifyWrong(r) ==
  /\ Live(r)
  /\ attempts' = [attempts EXCEPT ![r] = @ - 1]
  /\ wrong' = [wrong EXCEPT ![r] = @ + 1]
  /\ challenge' = IF attempts'[r] <= 0 THEN NoRequest ELSE challenge
  /\ UNCHANGED <<now, expiresAt, lastSentAt, phase, drawnAt, admissions, restarts>>

(***************************************************************************)
(* The process and the clock.                                               *)
(***************************************************************************)

\* The challenge and the requests in flight are in memory only.  The clock is
\* the host's.
Restart ==
  /\ restarts < MaxRestarts
  /\ restarts' = restarts + 1
  /\ challenge' = NoRequest
  /\ lastSentAt' = 0
  /\ phase' = [r \in Requests |-> IF phase[r] = "new" THEN "new" ELSE "gone"]
  /\ UNCHANGED <<now, expiresAt, attempts, drawnAt, wrong, admissions>>

Tick ==
  /\ now < MaxTime
  /\ \A r \in Requests : phase[r] = "sending" => now < drawnAt[r] + DeliveryTime
  /\ now' = now + 1
  /\ UNCHANGED <<challenge, expiresAt, attempts, lastSentAt, phase, drawnAt, wrong,
                 admissions, restarts>>

Next ==
  \/ \E r \in Requests :
       \/ DrawCode(r) \/ Install(r) \/ GiveUp(r)
       \/ VerifyRight(r) \/ VerifyWrong(r)
  \/ VerifyExpired \/ Restart \/ Tick

Spec == Init /\ [][Next]_vars

(***************************************************************************)
(* Properties.                                                              *)
(***************************************************************************)

\* A code opens at most one session, whichever requests overlap.
CodeUsedOnce ==
  \A i, j \in DOMAIN admissions : admissions[i].code = admissions[j].code => i = j

\* A session is only opened by a code that was drawn less than the time to live
\* ago, however long its mail took to be delivered.
CodeFresh ==
  \A i \in DOMAIN admissions :
    LET session == admissions[i]
    IN  session.at < drawnAt[session.code] + Ttl

\* No code is guessed at more than MaxAttempts times.
AttemptsHonoured == \A r \in Requests : wrong[r] <= MaxAttempts

Admitted(r) == \E i \in DOMAIN admissions : admissions[i].code = r

\* The page told the user that the code of r was sent and no request after r
\* has ended: neither a success, which replaces it, nor a failure.
Promised(r) ==
  /\ phase[r] = "installed"
  /\ \A s \in Requests : phase[s] \in {"installed", "failed"} => drawnAt[s] <= drawnAt[r]

\* A code that the page promised works until it expires, is used or is guessed
\* at too often: a slower request before it does not displace it.
PromisedCodeWorks ==
  \A r \in Requests :
    Promised(r) /\ ~ Admitted(r) /\ wrong[r] < MaxAttempts /\ now < drawnAt[r] + Ttl
      => Live(r)

\* How far each code of OneTimeCode is.
Life(r) ==
  CASE phase[r] = "new"     -> "undrawn"
    [] phase[r] = "sending" -> "drawn"
    [] challenge = r        -> "offered"
    [] OTHER                -> "over"

Code == INSTANCE OneTimeCode WITH
  Codes    <- Requests,
  life     <- [r \in Requests |-> Life(r)],
  sessions <- admissions

\* However the threads of the web server overlap, what they do to the shared
\* challenge is what one-time codes go through: a code that was used, guessed at too
\* often, displaced or withdrawn never comes back on offer.
ImplementsCode == Code!Spec

=============================================================================
