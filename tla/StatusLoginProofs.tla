-------------------------- MODULE StatusLoginProofs --------------------------
(***************************************************************************)
(* The one-time login code, for every number of requests and every choice   *)
(* of times: a code opens at most one session, in time, after a bounded     *)
(* number of guesses; and, provided that a call of the mail server is       *)
(* shorter than the resend interval, a promised code works.                 *)
(***************************************************************************)
EXTENDS StatusLogin, TLAPS

(***************************************************************************)
(* The inductive invariant: what the challenge, its counters and the        *)
(* histories say of each other.                                             *)
(***************************************************************************)

ChallengeInv ==
  \A r \in Requests : challenge = r =>
    phase[r] = "installed" /\ attempts[r] > 0 /\ ~ Admitted(r)

UntouchedInv ==
  \A r \in Requests : phase[r] \in {"new", "sending"} => wrong[r] = 0 /\ ~ Admitted(r)

CountersInv ==
  \A r \in Requests : phase[r] # "new" =>
    attempts[r] + wrong[r] = MaxAttempts /\ expiresAt[r] = drawnAt[r] + Ttl

BooksInv ==
  TypeOK /\ ChallengeInv /\ UntouchedInv /\ CountersInv /\ CodeUsedOnce /\ CodeFresh

\* The members of a sequence over a set are members of the set.
LEMMA MembersOfSequence ==
  ASSUME NEW S, NEW q \in Seq(S)
  PROVE  \A i \in DOMAIN q : q[i] \in S
OBVIOUS

LEMMA DrawKeepsBooks ==
  ASSUME BooksInv, NEW r \in Requests, DrawCode(r)
  PROVE  BooksInv'
<1> USE DEF BooksInv
<1>1. TypeOK'
  <2>1. now + Ttl \in Nat /\ MaxAttempts \in Nat /\ "sending" \in Phase
    BY OtpAssumption DEF TypeOK, Phase
  <2>2. QED
    BY <2>1 DEF TypeOK, DrawCode
<1>2. ~ Admitted(r) /\ wrong[r] = 0 /\ challenge # r
  BY DEF DrawCode, UntouchedInv, ChallengeInv
<1>3. \A s \in Requests : s # r =>
        /\ phase'[s] = phase[s] /\ attempts'[s] = attempts[s]
        /\ expiresAt'[s] = expiresAt[s] /\ drawnAt'[s] = drawnAt[s]
  BY DEF DrawCode, TypeOK
<1>4. /\ phase'[r] = "sending" /\ attempts'[r] = MaxAttempts
      /\ expiresAt'[r] = now + Ttl /\ drawnAt'[r] = now
      /\ UNCHANGED <<wrong, admissions, challenge>>
  BY DEF DrawCode, TypeOK
<1>5. ChallengeInv'
  BY <1>2, <1>3, <1>4 DEF ChallengeInv, Admitted
<1>6. UntouchedInv'
  BY <1>2, <1>3, <1>4 DEF UntouchedInv, Admitted
<1>7. CountersInv'
  BY <1>2, <1>3, <1>4, OtpAssumption DEF CountersInv
<1>8. CodeUsedOnce'
  BY <1>4 DEF CodeUsedOnce
<1>9. CodeFresh'
  <2>1. \A i \in DOMAIN admissions : admissions[i].code \in Requests /\ admissions[i].code # r
    <3>1. \A i \in DOMAIN admissions : admissions[i] \in [code : Requests, at : Nat]
      BY MembersOfSequence DEF TypeOK
    <3>2. ASSUME NEW i \in DOMAIN admissions
          PROVE  admissions[i].code \in Requests
      <4>1. admissions[i] \in [code : Requests, at : Nat]
        BY <3>1
      <4>2. QED
        BY <4>1
    <3>3. \A i \in DOMAIN admissions : admissions[i].code # r
      BY <1>2 DEF Admitted
    <3>4. QED
      BY <3>2, <3>3
  <2>2. \A i \in DOMAIN admissions : drawnAt'[admissions[i].code] = drawnAt[admissions[i].code]
    BY <1>3, <2>1
  <2>3. QED
    BY <1>4, <2>2 DEF CodeFresh
<1>10. QED
  BY <1>1, <1>5, <1>6, <1>7, <1>8, <1>9

LEMMA MailKeepsBooks ==
  ASSUME BooksInv, NEW r \in Requests, Install(r) \/ GiveUp(r)
  PROVE  BooksInv'
<1> USE DEF BooksInv
<1>1. TypeOK'
  BY DEF TypeOK, Install, GiveUp, Phase
<1>2. /\ phase[r] = "sending" /\ phase'[r] \in {"installed", "failed"}
      /\ challenge' \in {NoRequest, r} /\ (challenge' = r => phase'[r] = "installed")
      /\ \A s \in Requests : s # r => phase'[s] = phase[s]
      /\ UNCHANGED <<now, expiresAt, attempts, drawnAt, wrong, admissions>>
  BY RequestAssumption DEF TypeOK, Install, GiveUp
<1>3. ~ Admitted(r) /\ wrong[r] = 0 /\ attempts[r] > 0
  <2>1. ~ Admitted(r) /\ wrong[r] = 0
    BY <1>2 DEF UntouchedInv
  <2>2. attempts[r] + wrong[r] = MaxAttempts
    BY <1>2 DEF CountersInv
  <2>3. attempts[r] \in Nat
    BY DEF TypeOK
  <2>4. QED
    BY <2>1, <2>2, <2>3, OtpAssumption
<1>4. ChallengeInv'
  BY <1>2, <1>3, RequestAssumption DEF ChallengeInv, Admitted
<1>5. UntouchedInv'
  BY <1>2, <1>3 DEF UntouchedInv, Admitted
<1>6. CountersInv'
  BY <1>2 DEF CountersInv
<1>7. CodeUsedOnce' /\ CodeFresh'
  BY <1>2 DEF CodeUsedOnce, CodeFresh
<1>8. QED
  BY <1>1, <1>4, <1>5, <1>6, <1>7

LEMMA RightKeepsBooks ==
  ASSUME BooksInv, NEW r \in Requests, VerifyRight(r)
  PROVE  BooksInv'
<1> USE DEF BooksInv
<1> DEFINE session == [code |-> r, at |-> now]
<1>1. now \in Nat /\ admissions \in Seq([code : Requests, at : Nat])
  BY DEF TypeOK
<1>2. session \in [code : Requests, at : Nat]
  BY <1>1
<1>3. /\ admissions' = Append(admissions, session) /\ challenge' = NoRequest
      /\ challenge = r /\ now < expiresAt[r]
      /\ UNCHANGED <<now, expiresAt, attempts, lastSentAt, phase, drawnAt, wrong, restarts>>
  BY DEF VerifyRight, Live
<1>4. TypeOK'
  BY <1>1, <1>2, <1>3 DEF TypeOK
<1>5. /\ DOMAIN admissions' = 1 .. Len(admissions) + 1
      /\ \A i \in 1 .. Len(admissions) : admissions'[i] = admissions[i]
      /\ admissions'[Len(admissions) + 1] = session
      /\ DOMAIN admissions = 1 .. Len(admissions) /\ Len(admissions) \in Nat
  BY <1>1, <1>2, <1>3
<1>6. phase[r] = "installed" /\ ~ Admitted(r) /\ expiresAt[r] = drawnAt[r] + Ttl
  BY <1>3 DEF ChallengeInv, CountersInv
<1>7. ChallengeInv'
  BY <1>3, RequestAssumption DEF ChallengeInv
<1>8. UntouchedInv'
  <2>1. \A s \in Requests : s # r => (Admitted(s)' => Admitted(s))
    BY <1>5 DEF Admitted
  <2>2. QED
    BY <1>3, <1>6, <2>1 DEF UntouchedInv
<1>9. CountersInv'
  BY <1>3 DEF CountersInv
<1>10. CodeUsedOnce'
  <2>1. \A i \in 1 .. Len(admissions) : admissions[i].code # r
    BY <1>5, <1>6 DEF Admitted
  <2>2. session.code = r
    OBVIOUS
  <2>3. QED
    BY <1>5, <2>1, <2>2 DEF CodeUsedOnce
<1>11. CodeFresh'
  <2>1. session.code = r /\ session.at < drawnAt[r] + Ttl
    BY <1>3, <1>6
  <2>2. QED
    BY <1>3, <1>5, <2>1 DEF CodeFresh
<1>12. QED
  BY <1>4, <1>7, <1>8, <1>9, <1>10, <1>11

LEMMA WrongKeepsBooks ==
  ASSUME BooksInv, NEW r \in Requests, VerifyWrong(r)
  PROVE  BooksInv'
<1> USE DEF BooksInv
<1>1. /\ challenge = r /\ phase[r] = "installed" /\ attempts[r] > 0 /\ ~ Admitted(r)
      /\ attempts[r] \in Nat /\ wrong[r] \in Nat
  BY DEF VerifyWrong, Live, ChallengeInv, TypeOK
<1>2. /\ attempts' = [attempts EXCEPT ![r] = attempts[r] - 1]
      /\ wrong' = [wrong EXCEPT ![r] = wrong[r] + 1]
      /\ challenge' \in {challenge, NoRequest} /\ (challenge' = r => ~ (attempts'[r] <= 0))
      /\ UNCHANGED <<now, expiresAt, lastSentAt, phase, drawnAt, admissions, restarts>>
  BY <1>1, RequestAssumption DEF VerifyWrong
<1>3. attempts[r] - 1 \in Nat /\ wrong[r] + 1 \in Nat
  BY <1>1
<1>4. TypeOK'
  BY <1>2, <1>3 DEF TypeOK
<1>5. /\ attempts'[r] = attempts[r] - 1 /\ wrong'[r] = wrong[r] + 1
      /\ \A s \in Requests : s # r => attempts'[s] = attempts[s] /\ wrong'[s] = wrong[s]
  BY <1>2 DEF TypeOK
<1>6. ChallengeInv'
  BY <1>1, <1>2, <1>3, <1>5, RequestAssumption DEF ChallengeInv, Admitted
<1>7. UntouchedInv'
  BY <1>1, <1>2, <1>5 DEF UntouchedInv, Admitted
<1>8. CountersInv'
  BY <1>1, <1>2, <1>5 DEF CountersInv
<1>9. CodeUsedOnce' /\ CodeFresh'
  BY <1>2 DEF CodeUsedOnce, CodeFresh
<1>10. QED
  BY <1>4, <1>6, <1>7, <1>8, <1>9

LEMMA RestKeepsBooks ==
  ASSUME BooksInv, VerifyExpired \/ Restart \/ Tick \/ UNCHANGED vars
  PROVE  BooksInv'
<1> USE DEF BooksInv
<1>1. /\ challenge' \in {challenge, NoRequest} /\ now' \in {now, now + 1}
      /\ UNCHANGED <<expiresAt, attempts, drawnAt, wrong, admissions>>
      /\ \A r \in Requests : phase'[r] \in {phase[r], "gone"}
      /\ \A r \in Requests : phase[r] = "new" => phase'[r] = "new"
      /\ challenge' # NoRequest => phase' = phase
  BY DEF VerifyExpired, Restart, Tick, vars, TypeOK
<1>2. TypeOK'
  BY DEF VerifyExpired, Restart, Tick, vars, TypeOK, Phase
<1>3. ChallengeInv'
  BY <1>1, RequestAssumption DEF ChallengeInv, Admitted
<1>4. UntouchedInv'
  BY <1>1 DEF UntouchedInv, Admitted
<1>5. CountersInv'
  BY <1>1 DEF CountersInv
<1>6. CodeUsedOnce' /\ CodeFresh'
  BY <1>1 DEF CodeUsedOnce, CodeFresh
<1>7. QED
  BY <1>2, <1>3, <1>4, <1>5, <1>6

LEMMA BooksInvariant == Spec => []BooksInv
<1>1. Init => BooksInv
  BY RequestAssumption
  DEF Init, BooksInv, TypeOK, Phase, ChallengeInv, UntouchedInv, CountersInv,
      CodeUsedOnce, CodeFresh, Admitted
<1>2. BooksInv /\ [Next]_vars => BooksInv'
  BY DrawKeepsBooks, MailKeepsBooks, RightKeepsBooks, WrongKeepsBooks, RestKeepsBooks
  DEF Next
<1>3. QED
  BY <1>1, <1>2, PTL DEF Spec

(***************************************************************************)
(* What it is for.                                                          *)
(***************************************************************************)

\* Every state of the login has its type; attempts_remaining, decremented
\* under the lock, never goes below zero.
THEOREM TypeCorrect == Spec => []TypeOK
BY BooksInvariant, PTL DEF BooksInv

\* Whichever sends and guesses overlap, a code opens at most one session.
THEOREM UsedAtMostOnce == Spec => []CodeUsedOnce
BY BooksInvariant, PTL DEF BooksInv

\* However long its mail took, a code opens no session once its time is up.
THEOREM NeverUsedLate == Spec => []CodeFresh
BY BooksInvariant, PTL DEF BooksInv

\* OTP_MAX_ATTEMPTS bounds the wrong guesses at each code.
THEOREM GuessesBounded == Spec => []AttemptsHonoured
<1>1. BooksInv => AttemptsHonoured
  <2> SUFFICES ASSUME BooksInv, NEW r \in Requests
               PROVE  wrong[r] <= MaxAttempts
    BY DEF AttemptsHonoured
  <2>1. wrong[r] \in Nat /\ attempts[r] \in Nat /\ MaxAttempts \in Nat
    BY OtpAssumption DEF BooksInv, TypeOK
  <2>2. CASE phase[r] = "new"
    BY <2>1, <2>2 DEF BooksInv, UntouchedInv
  <2>3. CASE phase[r] # "new"
    BY <2>1, <2>3 DEF BooksInv, CountersInv
  <2>4. QED
    BY <2>2, <2>3
<1>2. QED
  BY <1>1, BooksInvariant, PTL

(***************************************************************************)
(* A promised code works.  MailerIsQuick is the condition: then at most one *)
(* request is in flight, because its slot is reserved before it is sent.    *)
(***************************************************************************)

MailerIsQuick == DeliveryTime < ResendWait

Ended == {"installed", "failed"}

\* A request in flight has reserved the last slot and drew the newest code.
InFlightInv ==
  \A r \in Requests : phase[r] = "sending" =>
    /\ lastSentAt = drawnAt[r] /\ now <= drawnAt[r] + DeliveryTime
    /\ \A s \in Requests \ {r} :
         phase[s] # "sending" /\ (phase[s] \in Ended => drawnAt[s] < drawnAt[r])

\* No code of this process is newer than the slot that was reserved last.
SlotInv ==
  \A r \in Requests : phase[r] \in Ended \union {"sending"} =>
    0 < drawnAt[r] /\ drawnAt[r] <= lastSentAt

TimingInv == InFlightInv /\ SlotInv /\ lastSentAt <= now

LEMMA DrawKeepsTiming ==
  ASSUME MailerIsQuick, BooksInv, TimingInv, NEW r \in Requests, DrawCode(r)
  PROVE  TimingInv'
<1>1. /\ now \in Nat /\ now > 0 /\ lastSentAt \in Nat /\ drawnAt \in [Requests -> Nat]
      /\ DeliveryTime \in Nat /\ ResendWait \in Nat /\ ResendWait > 0
  BY OtpAssumption, LimitAssumption DEF BooksInv, TypeOK
<1>2. /\ phase[r] = "new" /\ (lastSentAt > 0 => now - lastSentAt >= ResendWait)
      /\ lastSentAt' = now /\ now' = now
      /\ phase'[r] = "sending" /\ drawnAt'[r] = now
      /\ \A s \in Requests \ {r} : phase'[s] = phase[s] /\ drawnAt'[s] = drawnAt[s]
  BY DEF DrawCode, MayResend, BooksInv, TypeOK
<1>3. \A s \in Requests \ {r} : phase[s] # "sending"
  <2> SUFFICES ASSUME NEW s \in Requests \ {r}, phase[s] = "sending"
               PROVE  FALSE
    OBVIOUS
  <2>1. lastSentAt = drawnAt[s] /\ now <= drawnAt[s] + DeliveryTime
    BY DEF TimingInv, InFlightInv
  <2>2. 0 < drawnAt[s]
    BY DEF TimingInv, SlotInv
  <2>3. now - lastSentAt >= ResendWait
    BY <1>2, <2>1, <2>2
  <2>4. QED
    BY <1>1, <2>1, <2>3 DEF MailerIsQuick
<1>4. \A s \in Requests \ {r} : phase[s] \in Ended => 0 < drawnAt[s] /\ drawnAt[s] < now
  <2> SUFFICES ASSUME NEW s \in Requests \ {r}, phase[s] \in Ended
               PROVE  0 < drawnAt[s] /\ drawnAt[s] < now
    OBVIOUS
  <2>1. 0 < drawnAt[s] /\ drawnAt[s] <= lastSentAt /\ drawnAt[s] \in Nat
    BY <1>1 DEF TimingInv, SlotInv
  <2>2. QED
    BY <1>1, <1>2, <2>1
<1>5. InFlightInv'
  <2>1. now <= now + DeliveryTime
    BY <1>1
  <2>2. QED
    BY <1>2, <1>3, <1>4, <2>1 DEF InFlightInv
<1>6. SlotInv'
  <2>1. \A s \in Requests \ {r} : phase[s] \in Ended => drawnAt[s] <= now
    BY <1>1, <1>4
  <2>2. 0 < now /\ now <= now
    BY <1>1
  <2>3. QED
    BY <1>2, <1>3, <1>4, <2>1, <2>2 DEF SlotInv
<1>7. lastSentAt' <= now'
  BY <1>1, <1>2
<1>8. QED
  BY <1>5, <1>6, <1>7 DEF TimingInv

LEMMA MailKeepsTiming ==
  ASSUME BooksInv, TimingInv, NEW r \in Requests, Install(r) \/ GiveUp(r)
  PROVE  TimingInv'
<1>1. /\ phase[r] = "sending" /\ phase'[r] \in Ended
      /\ \A s \in Requests \ {r} : phase'[s] = phase[s]
      /\ UNCHANGED <<now, drawnAt, lastSentAt>>
  BY DEF Install, GiveUp, Ended, BooksInv, TypeOK
<1>2. \A s \in Requests \ {r} : phase[s] # "sending"
  BY <1>1 DEF TimingInv, InFlightInv
<1>3. InFlightInv'
  BY <1>1, <1>2 DEF InFlightInv, Ended
<1>4. SlotInv'
  BY <1>1 DEF TimingInv, SlotInv
<1>5. QED
  BY <1>1, <1>3, <1>4 DEF TimingInv

LEMMA RestKeepsTiming ==
  ASSUME BooksInv, TimingInv,
         \/ \E r \in Requests : VerifyRight(r) \/ VerifyWrong(r)
         \/ VerifyExpired \/ Restart \/ Tick \/ UNCHANGED vars
  PROVE  TimingInv'
<1>1. CASE UNCHANGED <<now, drawnAt, lastSentAt, phase>>
  BY <1>1 DEF TimingInv, InFlightInv, SlotInv
<1>2. CASE Restart
  <2>1. /\ \A r \in Requests : phase'[r] \in {"new", "gone"}
        /\ lastSentAt' = 0 /\ now' = now
    BY <1>2 DEF Restart, BooksInv, TypeOK
  <2>2. 0 <= now
    BY DEF BooksInv, TypeOK
  <2>3. QED
    BY <2>1, <2>2 DEF TimingInv, InFlightInv, SlotInv, Ended
<1>3. CASE Tick
  <2>1. /\ now \in Nat /\ lastSentAt \in Nat /\ drawnAt \in [Requests -> Nat] /\ DeliveryTime \in Nat
        /\ now' = now + 1 /\ UNCHANGED <<drawnAt, lastSentAt, phase>>
        /\ \A r \in Requests : phase[r] = "sending" => now < drawnAt[r] + DeliveryTime
    BY <1>3, LimitAssumption DEF Tick, BooksInv, TypeOK
  <2>2. \A r \in Requests : phase[r] = "sending" => now' <= drawnAt[r] + DeliveryTime
    BY <2>1
  <2>3. lastSentAt' <= now'
    BY <2>1 DEF TimingInv
  <2>4. QED
    BY <2>1, <2>2, <2>3 DEF TimingInv, InFlightInv, SlotInv
<1>4. QED
  BY <1>1, <1>2, <1>3 DEF VerifyRight, VerifyWrong, VerifyExpired, vars

(***************************************************************************)
(* PromisedCodeWorks is inductive on top of the two invariants.             *)
(***************************************************************************)

LEMMA DrawKeepsPromise ==
  ASSUME BooksInv, PromisedCodeWorks, NEW r \in Requests, DrawCode(r)
  PROVE  PromisedCodeWorks'
<1> SUFFICES ASSUME NEW s \in Requests, Promised(s)', ~ Admitted(s)', wrong'[s] < MaxAttempts,
                    now' < drawnAt'[s] + Ttl
             PROVE  Live(s)'
  BY DEF PromisedCodeWorks
<1>1. /\ phase[r] = "new" /\ phase'[r] = "sending"
      /\ UNCHANGED <<now, challenge, wrong, admissions>>
      /\ \A t \in Requests : t # r =>
           phase'[t] = phase[t] /\ drawnAt'[t] = drawnAt[t] /\ expiresAt'[t] = expiresAt[t]
  BY DEF DrawCode, BooksInv, TypeOK
<1>2. s # r
  BY <1>1 DEF Promised
<1>3. Promised(s)
  BY <1>1, <1>2 DEF Promised
<1>4. ~ Admitted(s) /\ wrong[s] < MaxAttempts /\ now < drawnAt[s] + Ttl
  BY <1>1, <1>2 DEF Admitted
<1>5. Live(s)
  BY <1>3, <1>4 DEF PromisedCodeWorks
<1>6. QED
  BY <1>1, <1>2, <1>5 DEF Live

LEMMA MailKeepsPromise ==
  ASSUME BooksInv, TimingInv, NEW r \in Requests, Install(r) \/ GiveUp(r)
  PROVE  PromisedCodeWorks'
<1> SUFFICES ASSUME NEW s \in Requests, Promised(s)', now' < drawnAt'[s] + Ttl
             PROVE  Live(s)'
  BY DEF PromisedCodeWorks
<1>1. /\ phase[r] = "sending" /\ phase'[r] \in Ended
      /\ \A t \in Requests \ {r} : phase'[t] = phase[t]
      /\ UNCHANGED <<now, drawnAt, expiresAt>>
  BY DEF Install, GiveUp, Ended, BooksInv, TypeOK
<1>2. drawnAt[r] <= drawnAt[s]
  BY <1>1 DEF Promised, Ended
<1>3. s = r
  <2>1. ASSUME s # r
        PROVE  FALSE
    <3>1. phase[s] \in Ended
      BY <1>1, <2>1 DEF Promised, Ended
    <3>2. drawnAt[s] < drawnAt[r]
      BY <1>1, <2>1, <3>1 DEF TimingInv, InFlightInv
    <3>3. drawnAt[s] \in Nat /\ drawnAt[r] \in Nat
      BY DEF BooksInv, TypeOK
    <3>4. QED
      BY <1>2, <3>2, <3>3
  <2>2. QED
    BY <2>1
<1>4. challenge' = r
  BY <1>3 DEF Promised, Install, GiveUp, BooksInv, TypeOK
<1>5. expiresAt[r] = drawnAt[r] + Ttl
  BY <1>1 DEF BooksInv, CountersInv
<1>6. QED
  BY <1>1, <1>3, <1>4, <1>5 DEF Live

LEMMA VerifyKeepsPromise ==
  ASSUME BooksInv, PromisedCodeWorks,
         \/ \E r \in Requests : VerifyRight(r) \/ VerifyWrong(r)
         \/ VerifyExpired
  PROVE  PromisedCodeWorks'
<1> SUFFICES ASSUME NEW s \in Requests, Promised(s)', ~ Admitted(s)', wrong'[s] < MaxAttempts,
                    now' < drawnAt'[s] + Ttl
             PROVE  Live(s)'
  BY DEF PromisedCodeWorks
<1>1. UNCHANGED <<now, phase, drawnAt, expiresAt>>
  BY DEF VerifyRight, VerifyWrong, VerifyExpired
<1>2. Promised(s)
  BY <1>1 DEF Promised
<1>3. ASSUME NEW r \in Requests, VerifyRight(r)
      PROVE  FALSE
  <2> DEFINE session == [code |-> r, at |-> now]
  <2>1. now \in Nat /\ admissions \in Seq([code : Requests, at : Nat])
    BY DEF BooksInv, TypeOK
  <2>2. session \in [code : Requests, at : Nat] /\ session.code = r
    BY <2>1
  <2>3. admissions' = Append(admissions, session) /\ challenge = r /\ wrong' = wrong
    BY <1>3 DEF VerifyRight, Live
  <2> HIDE DEF session
  <2>4. /\ \A i \in DOMAIN admissions : i \in DOMAIN admissions' /\ admissions'[i] = admissions[i]
        /\ \E i \in DOMAIN admissions' : admissions'[i] = session
    <3>1. /\ DOMAIN admissions = 1 .. Len(admissions) /\ Len(admissions) \in Nat
          /\ DOMAIN admissions' = 1 .. Len(admissions) + 1
          /\ admissions'[Len(admissions) + 1] = session
          /\ \A i \in 1 .. Len(admissions) : admissions'[i] = admissions[i]
      BY <2>1, <2>2, <2>3
    <3>2. QED
      BY <3>1
  <2>5. ~ Admitted(s) /\ s # r
    BY <2>2, <2>4 DEF Admitted
  <2>6. Live(s)
    BY <1>1, <1>2, <2>3, <2>5 DEF PromisedCodeWorks
  <2>7. QED
    BY <2>3, <2>5, <2>6 DEF Live
<1>4. ASSUME NEW r \in Requests, VerifyWrong(r)
      PROVE  Live(s)'
  <2>1. /\ challenge = r /\ attempts[r] \in Nat /\ wrong[r] \in Nat
        /\ attempts' = [attempts EXCEPT ![r] = attempts[r] - 1]
        /\ wrong' = [wrong EXCEPT ![r] = wrong[r] + 1]
        /\ challenge' = (IF attempts'[r] <= 0 THEN NoRequest ELSE challenge)
        /\ admissions' = admissions
    BY <1>4 DEF VerifyWrong, Live, BooksInv, TypeOK
  <2>2. /\ attempts'[r] = attempts[r] - 1 /\ wrong'[r] = wrong[r] + 1
        /\ s # r => wrong'[s] = wrong[s]
    BY <2>1 DEF BooksInv, TypeOK
  <2>3. wrong[s] < MaxAttempts
    BY <2>1, <2>2, OtpAssumption
  <2>4. Live(s)
    BY <1>1, <1>2, <2>1, <2>3 DEF PromisedCodeWorks, Admitted
  <2>5. s = r
    BY <2>1, <2>4 DEF Live
  <2>6. attempts[r] + wrong[r] = MaxAttempts
    BY <1>1, <1>2, <2>5 DEF BooksInv, CountersInv, Promised
  <2>7. attempts'[r] > 0
    BY <2>1, <2>2, <2>5, <2>6, OtpAssumption
  <2>8. challenge' = s
    BY <2>1, <2>5, <2>7, <2>2
  <2>9. QED
    BY <1>1, <2>4, <2>8 DEF Live
<1>5. ASSUME VerifyExpired
      PROVE  FALSE
  <2>1. UNCHANGED <<wrong, admissions>>
    BY <1>5 DEF VerifyExpired
  <2>2. Live(s)
    BY <1>1, <1>2, <2>1 DEF PromisedCodeWorks, Admitted
  <2>3. QED
    BY <1>5, <2>2 DEF VerifyExpired, Live
<1>6. QED
  BY <1>3, <1>4, <1>5

LEMMA RestKeepsPromise ==
  ASSUME BooksInv, PromisedCodeWorks, Restart \/ Tick \/ UNCHANGED vars
  PROVE  PromisedCodeWorks'
<1>1. CASE Restart
  <2>1. \A r \in Requests : phase'[r] \in {"new", "gone"}
    BY <1>1 DEF Restart
  <2>2. QED
    BY <2>1 DEF PromisedCodeWorks, Promised
<1>2. CASE Tick \/ UNCHANGED vars
  <2> SUFFICES ASSUME NEW s \in Requests, Promised(s)', ~ Admitted(s)', wrong'[s] < MaxAttempts,
                      now' < drawnAt'[s] + Ttl
               PROVE  Live(s)'
    BY DEF PromisedCodeWorks
  <2>1. /\ now \in Nat /\ now' \in {now, now + 1}
        /\ UNCHANGED <<challenge, expiresAt, phase, drawnAt, wrong, admissions>>
    BY <1>2 DEF Tick, vars, BooksInv, TypeOK
  <2>2. drawnAt[s] \in Nat /\ Ttl \in Nat
    BY OtpAssumption DEF BooksInv, TypeOK
  <2>3. now < drawnAt[s] + Ttl
    BY <2>1, <2>2
  <2>4. Live(s)
    BY <2>1, <2>3 DEF PromisedCodeWorks, Promised, Admitted
  <2>5. expiresAt[s] = drawnAt[s] + Ttl
    BY <2>1 DEF BooksInv, CountersInv, Promised
  <2>6. QED
    BY <2>1, <2>4, <2>5 DEF Live
<1>3. QED
  BY <1>1, <1>2

\* If no call of the mail server outlasts the resend interval, a code that the
\* page promised works until it expires, is used or is guessed at too often.
THEOREM PromisesKept ==
  ASSUME MailerIsQuick
  PROVE  Spec => []PromisedCodeWorks
<1>1. Init => TimingInv /\ PromisedCodeWorks
  BY DEF Init, TimingInv, InFlightInv, SlotInv, Ended, PromisedCodeWorks, Promised
<1>2. BooksInv /\ TimingInv /\ PromisedCodeWorks /\ [Next]_vars
        => TimingInv' /\ PromisedCodeWorks'
  <2> SUFFICES ASSUME BooksInv, TimingInv, PromisedCodeWorks, [Next]_vars
               PROVE  TimingInv' /\ PromisedCodeWorks'
    OBVIOUS
  <2>1. ASSUME NEW r \in Requests, DrawCode(r)
        PROVE  TimingInv' /\ PromisedCodeWorks'
    BY <2>1, DrawKeepsTiming, DrawKeepsPromise, MailerIsQuick
  <2>2. ASSUME NEW r \in Requests, Install(r) \/ GiveUp(r)
        PROVE  TimingInv' /\ PromisedCodeWorks'
    BY <2>2, MailKeepsTiming, MailKeepsPromise
  <2>3. CASE (\E r \in Requests : VerifyRight(r) \/ VerifyWrong(r)) \/ VerifyExpired
    BY <2>3, RestKeepsTiming, VerifyKeepsPromise
  <2>4. CASE Restart \/ Tick \/ UNCHANGED vars
    BY <2>4, RestKeepsTiming, RestKeepsPromise
  <2>5. QED
    BY <2>1, <2>2, <2>3, <2>4 DEF Next
<1>3. QED
  BY <1>1, <1>2, BooksInvariant, PTL DEF Spec

(***************************************************************************)
(* The threads keep to the life of a one-time code.                         *)
(***************************************************************************)

Lives == [r \in Requests |-> Life(r)]

\* The life of a code by its phase, which tells a code on offer from the others.
LEMMA LifeCases ==
  ASSUME BooksInv, NEW r \in Requests
  PROVE  /\ phase[r] = "new" <=> Life(r) = "undrawn"
         /\ phase[r] = "sending" <=> Life(r) = "drawn"
         /\ challenge = r <=> Life(r) = "offered"
         /\ phase[r] \notin {"new", "sending"} /\ challenge # r <=> Life(r) = "over"
BY DEF Life, BooksInv, ChallengeInv

\* A draw moves one code on.
LEMMA DrawRefines ==
  ASSUME BooksInv, NEW r \in Requests, DrawCode(r)
  PROVE  Code!Draw(r)
<1>1. /\ phase[r] = "new" /\ phase' = [phase EXCEPT ![r] = "sending"]
      /\ drawnAt' = [drawnAt EXCEPT ![r] = now]
      /\ UNCHANGED <<now, challenge, wrong, admissions>>
  BY DEF DrawCode
<1>2. Lives' = [Lives EXCEPT ![r] = "drawn"]
  <2>1. ASSUME NEW d \in Requests
        PROVE  Lives'[d] = IF d = r THEN "drawn" ELSE Lives[d]
    <3>1. /\ phase'[d] = IF d = r THEN "sending" ELSE phase[d]
          /\ challenge' = challenge
      BY <1>1 DEF BooksInv, TypeOK
    <3>2. CASE d = r
      <4>1. challenge' # r
        BY <1>1 DEF BooksInv, ChallengeInv
      <4>2. Life(r)' = "drawn"
        BY <3>1, <3>2, <4>1 DEF Life
      <4> QED
        BY <3>2, <4>2 DEF Lives
    <3>3. CASE d # r
      <4>1. phase'[d] = phase[d]
        BY <3>1, <3>3
      <4>2. Life(d)' = Life(d)
        BY <3>1, <4>1 DEF Life
      <4> QED
        BY <3>3, <4>2 DEF Lives
    <3> QED
      BY <3>2, <3>3
  <2> QED
    BY <2>1 DEF Lives
<1> QED
  BY <1>1, <1>2, LifeCases DEF Code!Draw, Lives

\* A delivered code displaces the one on offer, an undelivered one withdraws it.
LEMMA MailRefines ==
  ASSUME BooksInv, NEW r \in Requests, Install(r) \/ GiveUp(r)
  PROVE  Code!Offer(r) \/ \E C \in SUBSET Requests : Code!Withdraw(C)
<1>1. /\ phase[r] = "sending" /\ phase \in [Requests -> Phase]
      /\ UNCHANGED <<now, drawnAt, wrong, admissions>>
  BY DEF Install, GiveUp, BooksInv, TypeOK
<1>2. CASE Install(r)
  <2>1. challenge' = r /\ phase' = [phase EXCEPT ![r] = "installed"]
    BY <1>2 DEF Install
  <2>2. ASSUME NEW d \in Requests
        PROVE  Lives'[d] = IF d = r THEN "offered"
                           ELSE IF Lives[d] = "offered" THEN "over" ELSE Lives[d]
    <3>1. CASE d = r
      <4>1. Life(r)' = "offered"
        BY <1>1, <2>1 DEF Life
      <4> QED
        BY <3>1, <4>1 DEF Lives
    <3>2. CASE d # r
      BY <1>1, <2>1, <3>2, LifeCases DEF Lives, Life
    <3> QED
      BY <3>1, <3>2
  <2>3. Code!Offer(r)
    BY <1>1, <2>2, LifeCases DEF Code!Offer, Lives
  <2> QED
    BY <2>3
<1>3. CASE GiveUp(r)
  <2> DEFINE C == {r} \union {d \in Requests : challenge = d}
  <2>1. challenge' = NoRequest /\ phase' = [phase EXCEPT ![r] = "failed"]
    BY <1>3 DEF GiveUp
  <2>2. Lives' = [d \in Requests |-> IF d \in C THEN "over" ELSE Lives[d]]
    <3>1. ASSUME NEW d \in Requests
          PROVE  Lives'[d] = IF d \in C THEN "over" ELSE Lives[d]
      BY <1>1, <2>1, RequestAssumption, LifeCases DEF Lives, Life
    <3> QED
      BY <3>1 DEF Lives
  <2>3. Code!Withdraw(C)
    BY <1>1, <2>2, LifeCases DEF Code!Withdraw, Lives
  <2> QED
    BY <2>3
<1> QED
  BY <1>2, <1>3

\* The right code opens a session and is over.
LEMMA RightRefines ==
  ASSUME BooksInv, NEW r \in Requests, VerifyRight(r)
  PROVE  Code!Use(r)
<1>1. /\ challenge = r /\ challenge' = NoRequest /\ now < expiresAt[r]
      /\ admissions' = Append(admissions, [code |-> r, at |-> now])
      /\ UNCHANGED <<now, phase, drawnAt, wrong>>
  BY DEF VerifyRight, Live
<1>2. phase[r] = "installed" /\ expiresAt[r] = drawnAt[r] + Ttl
  BY <1>1 DEF BooksInv, ChallengeInv, CountersInv
<1>3. Lives' = [Lives EXCEPT ![r] = "over"]
  BY <1>1, <1>2, RequestAssumption DEF Lives, Life
<1> QED
  BY <1>1, <1>2, <1>3, LifeCases DEF Code!Use, Code!Good, Lives

\* A wrong guess counts, and the last one that is allowed ends the offer.
LEMMA WrongRefines ==
  ASSUME BooksInv, NEW r \in Requests, VerifyWrong(r)
  PROVE  Code!Guess(r)
<1>1. /\ challenge = r /\ now < expiresAt[r]
      /\ attempts' = [attempts EXCEPT ![r] = @ - 1]
      /\ wrong' = [wrong EXCEPT ![r] = @ + 1]
      /\ challenge' = IF attempts'[r] <= 0 THEN NoRequest ELSE challenge
      /\ UNCHANGED <<now, phase, drawnAt, admissions>>
  BY DEF VerifyWrong, Live
<1>2. /\ phase[r] = "installed" /\ expiresAt[r] = drawnAt[r] + Ttl
      /\ attempts[r] > 0 /\ attempts[r] + wrong[r] = MaxAttempts
      /\ attempts[r] \in Nat /\ wrong[r] \in Nat
      /\ attempts \in [Requests -> Nat] /\ wrong \in [Requests -> Nat]
  BY <1>1 DEF BooksInv, TypeOK, ChallengeInv, CountersInv
<1>3. attempts'[r] <= 0 <=> wrong'[r] = MaxAttempts
  BY <1>1, <1>2, OtpAssumption
<1>4. Lives' = IF wrong'[r] = MaxAttempts THEN [Lives EXCEPT ![r] = "over"] ELSE Lives
  BY <1>1, <1>2, <1>3, RequestAssumption DEF Lives, Life
<1>5. wrong[r] < MaxAttempts
  BY <1>2, OtpAssumption
<1> QED
  BY <1>1, <1>2, <1>4, <1>5, LifeCases DEF Code!Guess, Code!Good, Lives

\* Expiry and a restart withdraw; the clock ticks.
LEMMA RestRefines ==
  ASSUME BooksInv, VerifyExpired \/ Restart \/ Tick \/ UNCHANGED vars
  PROVE  [Code!Next]_Code!vars
<1>1. CASE VerifyExpired \/ Restart
  <2> DEFINE C == {d \in Requests : Lives[d] # Lives'[d]}
  <2>1. /\ challenge' = NoRequest
        /\ UNCHANGED <<now, drawnAt, wrong, admissions>>
        /\ \/ phase' = phase
           \/ phase' = [r \in Requests |-> IF phase[r] = "new" THEN "new" ELSE "gone"]
    BY <1>1 DEF VerifyExpired, Restart
  <2>2. ASSUME NEW d \in Requests
        PROVE  \/ Lives'[d] = Lives[d]
               \/ Lives[d] \in {"drawn", "offered"} /\ Lives'[d] = "over"
    BY <2>1, RequestAssumption, LifeCases DEF Lives, Life
  <2>3. Code!Withdraw(C)
    <3>1. Lives' = [d \in Requests |-> IF d \in C THEN "over" ELSE Lives[d]]
      BY <2>2 DEF Lives
    <3> QED
      BY <2>1, <2>2, <3>1 DEF Code!Withdraw, Lives
  <2> QED
    BY <2>3 DEF Code!Next
<1>2. CASE Tick
  BY <1>2 DEF Tick, Code!Tick, Code!Next, Life
<1>3. CASE UNCHANGED vars
  BY <1>3 DEF vars, Code!vars, Life
<1> QED
  BY <1>1, <1>2, <1>3

\* The login implements the one-time code, for any requests, times and limits: no
\* overlap of sends, guesses, withdrawals and restarts brings a code back on offer,
\* puts two of them on offer or opens a session with any other.
THEOREM KeepsCode == Spec => ImplementsCode
<1>1. Init => Code!Init
  <2> SUFFICES ASSUME Init
               PROVE  Code!Init
    OBVIOUS
  <2>1. \A r \in Requests : Life(r) = "undrawn"
    BY RequestAssumption DEF Init, Life
  <2>2. [r \in Requests |-> Life(r)] = [r \in Requests |-> "undrawn"]
    BY <2>1
  <2> QED
    BY <2>2 DEF Init, Code!Init
<1>2. BooksInv /\ [Next]_vars => [Code!Next]_Code!vars
  <2> SUFFICES ASSUME BooksInv, [Next]_vars
               PROVE  [Code!Next]_Code!vars
    OBVIOUS
  <2>1. ASSUME NEW r \in Requests,
               DrawCode(r) \/ Install(r) \/ GiveUp(r) \/ VerifyRight(r) \/ VerifyWrong(r)
        PROVE  Code!Next
    BY <2>1, DrawRefines, MailRefines, RightRefines, WrongRefines DEF Code!Next
  <2> QED
    BY <2>1, RestRefines DEF Next
<1> QED
  BY <1>1, <1>2, BooksInvariant, PTL DEF Spec, ImplementsCode, Code!Spec

=============================================================================
