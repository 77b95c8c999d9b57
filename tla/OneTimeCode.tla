----------------------------- MODULE OneTimeCode -----------------------------
(***************************************************************************)
(* What the login page promises about its codes.  A code is drawn once, is   *)
(* offered once, to displace whatever was on offer, and is over for good     *)
(* when it has opened a session, has been guessed at too often or has been   *)
(* withdrawn; sessions are only opened by the code on offer, in the time      *)
(* that counts from its drawing.  How two critical sections around a mail    *)
(* of any length see to that is in StatusLogin.                              *)
(***************************************************************************)
EXTENDS Integers, Sequences

CONSTANTS Codes, Ttl, MaxAttempts

VARIABLES
  now,
  life,      \* of each code: "undrawn", "drawn", "offered" or "over"
  drawnAt,   \* when each code was drawn
  wrong,     \* the wrong guesses at each code
  sessions   \* those opened, by code and time

vars == <<now, life, drawnAt, wrong, sessions>>

Init ==
  /\ now = 1
  /\ life = [c \in Codes |-> "undrawn"]
  /\ drawnAt = [c \in Codes |-> 0]
  /\ wrong = [c \in Codes |-> 0]
  /\ sessions = << >>

Draw(c) ==
  /\ life[c] = "undrawn"
  /\ life' = [life EXCEPT ![c] = "drawn"]
  /\ drawnAt' = [drawnAt EXCEPT ![c] = now]
  /\ UNCHANGED <<now, wrong, sessions>>

Offer(c) ==
  /\ life[c] = "drawn"
  /\ LET displaced == [d \in Codes |-> IF life[d] = "offered" THEN "over" ELSE life[d]]
     IN  life' = [displaced EXCEPT ![c] = "offered"]
  /\ UNCHANGED <<now, drawnAt, wrong, sessions>>

\* Codes are withdrawn on or before their offer.
Withdraw(C) ==
  /\ \A c \in C : life[c] \in {"drawn", "offered"}
  /\ life' = [c \in Codes |-> IF c \in C THEN "over" ELSE life[c]]
  /\ UNCHANGED <<now, drawnAt, wrong, sessions>>

Good(c) == life[c] = "offered" /\ now < drawnAt[c] + Ttl

Use(c) ==
  /\ Good(c)
  /\ life' = [life EXCEPT ![c] = "over"]
  /\ sessions' = Append(sessions, [code |-> c, at |-> now])
  /\ UNCHANGED <<now, drawnAt, wrong>>

\* The last guess that is allowed is the code's last.
Guess(c) ==
  /\ Good(c) /\ wrong[c] < MaxAttempts
  /\ wrong' = [wrong EXCEPT ![c] = @ + 1]
  /\ life' = IF wrong'[c] = MaxAttempts THEN [life EXCEPT ![c] = "over"] ELSE life
  /\ UNCHANGED <<now, drawnAt, sessions>>

Tick ==
  /\ now' = now + 1
  /\ UNCHANGED <<life, drawnAt, wrong, sessions>>

Next ==
  \/ \E c \in Codes : Draw(c) \/ Offer(c) \/ Use(c) \/ Guess(c)
  \/ \E C \in SUBSET Codes : Withdraw(C)
  \/ Tick

Spec == Init /\ [][Next]_vars

=============================================================================
