------------------------ MODULE VerificationCodeProofs ------------------------
(***************************************************************************)
(* Theorems about VerificationCode, for any set of codes and any bound on   *)
(* the mailbox.                                                             *)
(***************************************************************************)
EXTENDS VerificationCode, SequenceTheorems, TLAPS

Numbers == Codes \union {Decoy}

(***************************************************************************)
(* The mailbox.                                                             *)
(***************************************************************************)

\* Taking the newest message leaves the others where they were.
LEMMA NewestTaken ==
  ASSUME inbox \in Seq(Numbers), inbox # << >>,
         NEW rest, rest = SubSeq(inbox, 1, Len(inbox) - 1)
  PROVE  /\ rest \in Seq(Numbers)
         /\ Len(rest) = Len(inbox) - 1
         /\ \A i \in DOMAIN rest : i \in DOMAIN inbox /\ i # Len(inbox) /\ rest[i] = inbox[i]
         /\ Len(inbox) \in DOMAIN inbox
         /\ inbox[Len(inbox)] \in Numbers
<1>1. Len(inbox) \in Nat /\ Len(inbox) > 0 /\ DOMAIN inbox = 1 .. Len(inbox)
  OBVIOUS
<1>2. \A i \in 1 .. Len(inbox) - 1 : inbox[i] \in Numbers
  BY <1>1
<1>3. /\ rest \in Seq(Numbers)
      /\ Len(rest) = Len(inbox) - 1
      /\ \A i \in 1 .. Len(inbox) - 1 : rest[i] = inbox[i]
  <2> DEFINE n == Len(inbox) - 1
  <2>1. n \in Int /\ 1 \in Int /\ \A i \in 1 .. n : inbox[i] \in Numbers
    BY <1>1, <1>2
  <2>2. /\ SubSeq(inbox, 1, n) \in Seq(Numbers)
        /\ Len(SubSeq(inbox, 1, n)) = IF 1 <= n THEN n - 1 + 1 ELSE 0
        /\ \A i \in 1 .. n - 1 + 1 : SubSeq(inbox, 1, n)[i] = inbox[1 + i - 1]
    BY ONLY <2>1, SubSeqProperties
  <2>3. n - 1 + 1 = n /\ (~ 1 <= n => n = 0) /\ \A i \in 1 .. n : 1 + i - 1 = i
    BY <1>1
  <2> QED  BY <2>2, <2>3
<1>4. DOMAIN rest = 1 .. Len(inbox) - 1
  BY <1>3
<1>5. Len(inbox) \in DOMAIN inbox /\ inbox[Len(inbox)] \in Numbers
  BY <1>1
<1>6. \A i \in DOMAIN rest : i \in DOMAIN inbox /\ i # Len(inbox) /\ rest[i] = inbox[i]
  BY <1>1, <1>3, <1>4
<1> QED  BY <1>3, <1>5, <1>6

\* A message that comes becomes the newest.
LEMMA NewestAdded ==
  ASSUME inbox \in Seq(Numbers), NEW c \in Numbers,
         NEW more, more = Append(inbox, c)
  PROVE  /\ more \in Seq(Numbers)
         /\ Len(more) = Len(inbox) + 1
         /\ more # << >>
         /\ more[Len(more)] = c
         /\ \A i \in DOMAIN more : i = Len(more) \/ (i \in DOMAIN inbox /\ more[i] = inbox[i])
OBVIOUS

\* What may become of a mailbox in a step that brings no mail.
Shrinks ==
  \/ UNCHANGED inbox
  \/ inbox # << >> /\ inbox' = SubSeq(inbox, 1, Len(inbox) - 1)

LEMMA ShrinksTyped ==
  ASSUME inbox \in Seq(Numbers), Len(inbox) <= MaxUnread, Shrinks
  PROVE  inbox' \in Seq(Numbers) /\ Len(inbox') <= MaxUnread
<1>1. CASE UNCHANGED inbox
  BY <1>1
<1>2. CASE inbox # << >> /\ inbox' = SubSeq(inbox, 1, Len(inbox) - 1)
  BY <1>2, NewestTaken, CodeAssumption
<1> QED  BY <1>1, <1>2 DEF Shrinks

(***************************************************************************)
(* Types.                                                                   *)
(***************************************************************************)

LEMMA TypeInit == Init => TypeOK
<1> SUFFICES ASSUME Init  PROVE TypeOK
  OBVIOUS
<1>1. inbox \in Seq(Codes \union {Decoy}) /\ Len(inbox) <= MaxUnread
  BY CodeAssumption DEF Init
<1>2. since \in Since
  BY DEF Init, Since
<1> QED  BY <1>1, <1>2 DEF Init, TypeOK, LoginPhase

LEMMA TypeStep == TypeOK /\ [Next]_vars => TypeOK'
<1> SUFFICES ASSUME TypeOK, [Next]_vars
             PROVE  TypeOK'
  OBVIOUS
<1> USE DEF LoginPhase
<1>a. inbox \in Seq(Numbers) /\ Len(inbox) <= MaxUnread
  BY DEF TypeOK, Numbers
<1>1. CASE PassUnchallenged
  BY <1>1 DEF TypeOK, PassUnchallenged
<1>2. ASSUME NEW c \in Codes, Challenge(c)  PROVE TypeOK'
  <2>1. since' \in Since
    BY <1>2 DEF Challenge, Since
  <2> QED  BY <1>2, <2>1 DEF TypeOK, Challenge
<1>3. CASE Search
  <2>1. code' \in Codes \union {Decoy, NoCode}
    BY <1>3, <1>a, NewestTaken DEF TypeOK, Search, Numbers
  <2>2. inbox' \in Seq(Numbers) /\ Len(inbox') <= MaxUnread
    <3>1. Shrinks
      BY <1>3 DEF Search, Shrinks
    <3> QED  BY ONLY <3>1, <1>a, ShrinksTyped
  <2> QED  BY <1>3, <2>1, <2>2 DEF TypeOK, Search, Numbers
<1>4. CASE CheckDeadline
  BY <1>4 DEF TypeOK, CheckDeadline
<1>5. CASE LoginRaises
  <2>1. Shrinks
    BY <1>5 DEF LoginRaises, Shrinks
  <2>2. inbox' \in Seq(Numbers) /\ Len(inbox') <= MaxUnread
    BY ONLY <2>1, <1>a, ShrinksTyped
  <2> QED  BY <1>5, <2>2 DEF TypeOK, LoginRaises, Numbers
<1>6. CASE Submit
  BY <1>6 DEF TypeOK, Submit
<1>15. CASE Stalls
  <2>1. Shrinks
    BY <1>15 DEF Stalls, Shrinks
  <2>2. inbox' \in Seq(Numbers) /\ Len(inbox') <= MaxUnread
    BY ONLY <2>1, <1>a, ShrinksTyped
  <2> QED  BY <1>15, <2>2 DEF TypeOK, Stalls, Numbers
<1>7. CASE LogOut
  BY <1>7 DEF TypeOK, LogOut
<1>8. CASE Killed
  BY <1>8 DEF TypeOK, Killed
<1>9. CASE Expire
  BY <1>9 DEF TypeOK, Expire
<1>10. ASSUME NEW c \in Codes, Arrive(c)  PROVE TypeOK'
  <2>1. inbox' \in Seq(Numbers) /\ Len(inbox') <= MaxUnread
    BY <1>10, <1>a, NewestAdded, CodeAssumption DEF Arrive, Numbers
  <2>2. since' \in Since
    BY <1>10 DEF TypeOK, Arrive, Since
  <2> QED  BY <1>10, <2>1, <2>2 DEF TypeOK, Arrive, Numbers
<1>11. ASSUME NEW c \in Codes, Lose(c)  PROVE TypeOK'
  BY <1>11 DEF TypeOK, Lose
<1>12. CASE DecoyArrives
  <2>1. inbox' \in Seq(Numbers) /\ Len(inbox') <= MaxUnread
    BY <1>12, <1>a, NewestAdded, CodeAssumption DEF DecoyArrives, Numbers
  <2>2. since' \in Since
    BY <1>12 DEF TypeOK, DecoyArrives, Since
  <2> QED  BY <1>12, <2>1, <2>2 DEF TypeOK, DecoyArrives, Numbers
<1>13. CASE OwnerReads
  <2>1. Shrinks
    BY <1>13 DEF OwnerReads, Shrinks
  <2>2. inbox' \in Seq(Numbers) /\ Len(inbox') <= MaxUnread
    BY ONLY <2>1, <1>a, ShrinksTyped
  <2>3. since' \in Since
    BY <1>13 DEF TypeOK, OwnerReads, Since
  <2> QED  BY <1>13, <2>2, <2>3 DEF TypeOK, OwnerReads, Numbers
<1>14. CASE UNCHANGED vars
  BY <1>14 DEF TypeOK, vars
<1> QED
  BY <1>1, <1>2, <1>3, <1>4, <1>5, <1>6, <1>7, <1>8, <1>9, <1>10, <1>11,
     <1>12, <1>13, <1>14, <1>15 DEF Next, LoginStep

\* The login, the mailbox and the challenge keep their types, and the mailbox
\* its bound.
THEOREM TypeCorrect == Spec => []TypeOK
<1> QED  BY TypeInit, TypeStep, PTL DEF Spec

(***************************************************************************)
(* A code is used up by the run that takes it.                              *)
(***************************************************************************)

\* A code is in one place only, and no code that was submitted is anywhere.
MailInv ==
  /\ \A i, j \in DOMAIN inbox : inbox[i] = inbox[j] /\ inbox[i] \in Codes => i = j
  /\ \A i \in DOMAIN inbox : inbox[i] \notin transit \union tried
  /\ transit \cap tried = {}
  /\ login = "submit" =>
       /\ code \notin transit \union tried
       /\ \A i \in DOMAIN inbox : inbox[i] = code => code = Decoy

LEMMA MailShrinks ==
  ASSUME TypeOK, MailInv, Shrinks, UNCHANGED <<transit, tried>>,
         login' # "submit" \/ UNCHANGED <<login, code>>
  PROVE  MailInv'
<1>1. CASE UNCHANGED inbox
  BY <1>1 DEF MailInv
<1>2. CASE inbox # << >> /\ inbox' = SubSeq(inbox, 1, Len(inbox) - 1)
  <2>1. \A i \in DOMAIN inbox' : i \in DOMAIN inbox /\ inbox'[i] = inbox[i]
    BY <1>2, NewestTaken DEF TypeOK, Numbers
  <2> QED  BY <2>1 DEF MailInv
<1> QED  BY <1>1, <1>2 DEF Shrinks

LEMMA MailStep == TypeOK /\ MailInv /\ [Next]_vars => MailInv'
<1> SUFFICES ASSUME TypeOK, MailInv, [Next]_vars
             PROVE  MailInv'
  OBVIOUS
<1>a. inbox \in Seq(Numbers)
  BY DEF TypeOK, Numbers
<1>1. CASE PassUnchallenged
  BY <1>1 DEF MailInv, PassUnchallenged
<1>2. ASSUME NEW c \in Codes, Challenge(c)  PROVE MailInv'
  BY <1>2 DEF MailInv, Challenge, Unread
<1>3. CASE Search
  <2>1. CASE inbox = << >>
    BY <1>3, <2>1 DEF MailInv, Search
  <2>2. CASE inbox # << >>
    <3>1. /\ inbox' = SubSeq(inbox, 1, Len(inbox) - 1) /\ code' = inbox[Len(inbox)]
          /\ UNCHANGED <<transit, tried>>
      BY <1>3, <2>2 DEF Search
    <3>2. /\ \A i \in DOMAIN inbox' :
               i \in DOMAIN inbox /\ i # Len(inbox) /\ inbox'[i] = inbox[i]
          /\ Len(inbox) \in DOMAIN inbox
          /\ inbox[Len(inbox)] \in Numbers
      BY <3>1, <2>2, <1>a, NewestTaken
    <3>3. \A i \in DOMAIN inbox' : inbox'[i] = code' => code' = Decoy
      BY <3>1, <3>2 DEF MailInv, Numbers
    <3>4. code' \notin transit' \union tried'
      BY <3>1, <3>2 DEF MailInv
    <3> QED  BY <3>1, <3>2, <3>3, <3>4 DEF MailInv
  <2> QED  BY <2>1, <2>2
<1>4. CASE CheckDeadline
  BY <1>4 DEF MailInv, CheckDeadline
<1>5. CASE LoginRaises
  <2>1. Shrinks /\ UNCHANGED <<transit, tried>> /\ login' # "submit"
    BY <1>5 DEF LoginRaises, Shrinks
  <2> QED  BY ONLY <2>1, TypeOK, MailInv, MailShrinks
<1>15. CASE Stalls
  <2>1. Shrinks /\ UNCHANGED <<transit, tried>> /\ login' # "submit"
    BY <1>15 DEF Stalls, Shrinks
  <2> QED  BY ONLY <2>1, TypeOK, MailInv, MailShrinks
<1>6. CASE Submit
  <2>1. \A i \in DOMAIN inbox : inbox[i] \notin Codes \cap {code}
    BY <1>6, CodeAssumption DEF MailInv, Submit
  <2> QED  BY <1>6, <2>1 DEF MailInv, Submit
<1>7. CASE LogOut
  BY <1>7 DEF MailInv, LogOut
<1>8. CASE Killed
  BY <1>8 DEF MailInv, Killed
<1>9. CASE Expire
  BY <1>9 DEF MailInv, Expire
<1>10. ASSUME NEW c \in Codes, Arrive(c)  PROVE MailInv'
  <2>1. /\ c \in transit /\ transit' = transit \ {c} /\ inbox' = Append(inbox, c)
        /\ UNCHANGED <<login, code, tried>>
    BY <1>10 DEF Arrive
  <2>2. \A i \in DOMAIN inbox' :
          \/ i = Len(inbox') /\ inbox'[i] = c
          \/ i \in DOMAIN inbox /\ inbox'[i] = inbox[i]
    BY <2>1, <1>a, NewestAdded DEF Numbers
  <2>3. \A i \in DOMAIN inbox : inbox[i] # c
    BY <2>1 DEF MailInv
  <2>4. \A i, j \in DOMAIN inbox' : inbox'[i] = inbox'[j] /\ inbox'[i] \in Codes => i = j
    BY <2>2, <2>3 DEF MailInv
  <2>5. \A i \in DOMAIN inbox' : inbox'[i] \notin transit' \union tried'
    BY <2>1, <2>2 DEF MailInv
  <2>6. login' = "submit" => \A i \in DOMAIN inbox' : inbox'[i] = code' => code' = Decoy
    BY <2>1, <2>2 DEF MailInv
  <2> QED  BY <2>1, <2>4, <2>5, <2>6 DEF MailInv
<1>11. ASSUME NEW c \in Codes, Lose(c)  PROVE MailInv'
  BY <1>11 DEF MailInv, Lose
<1>12. CASE DecoyArrives
  <2>1. inbox' = Append(inbox, Decoy) /\ UNCHANGED <<login, code, transit, tried>>
    BY <1>12 DEF DecoyArrives
  <2>2. \A i \in DOMAIN inbox' :
          \/ i = Len(inbox') /\ inbox'[i] = Decoy
          \/ i \in DOMAIN inbox /\ inbox'[i] = inbox[i]
    BY <2>1, <1>a, NewestAdded DEF Numbers
  <2>3. Decoy \notin Codes /\ Decoy \notin transit \union tried
    BY CodeAssumption DEF TypeOK
  <2> QED  BY <2>1, <2>2, <2>3 DEF MailInv
<1>13. CASE OwnerReads
  <2>1. Shrinks /\ UNCHANGED <<transit, tried, login, code>>
    BY <1>13 DEF OwnerReads, Shrinks
  <2> QED  BY ONLY <2>1, TypeOK, MailInv, MailShrinks
<1>14. CASE UNCHANGED vars
  BY <1>14 DEF MailInv, vars
<1> QED
  BY <1>1, <1>2, <1>3, <1>4, <1>5, <1>6, <1>7, <1>8, <1>9, <1>10, <1>11,
     <1>12, <1>13, <1>14, <1>15 DEF Next, LoginStep

\* No code is submitted twice, although runs die or raise between the fetch of a
\* message and the submission, and mail comes in any order.
THEOREM CodesReadOnce == Spec => []CodeReadOnce
<1>1. Init => MailInv
  BY DEF Init, MailInv
<1>2. MailInv => CodeReadOnce
  BY DEF MailInv, CodeReadOnce
<1> QED  BY <1>1, <1>2, MailStep, TypeCorrect, PTL DEF Spec

(***************************************************************************)
(* Old mail does no harm to a challenge whose own mail comes.               *)
(***************************************************************************)

Waiting == login \in {"search", "check"}

\* Once its own mail has come it is the newest; before that, a mailbox that was
\* empty is still empty.
OwnInv ==
  Challenged /\ ~ since.other =>
    /\ Waiting /\ ~ since.own /\ ~ since.stale => inbox = << >>
    /\ Waiting /\ since.own => inbox # << >> /\ inbox[Len(inbox)] = current
    /\ login = "submit" /\ (since.own \/ ~ since.stale) => code = current

LEMMA OwnStep == TypeOK /\ OwnInv /\ [Next]_vars => OwnInv'
<1> SUFFICES ASSUME TypeOK, OwnInv, [Next]_vars
             PROVE  OwnInv'
  OBVIOUS
<1> USE DEF Challenged, Waiting
<1>a. inbox \in Seq(Numbers)
  BY DEF TypeOK, Numbers
<1>1. CASE PassUnchallenged
  BY <1>1 DEF OwnInv, PassUnchallenged
<1>2. ASSUME NEW c \in Codes, Challenge(c)  PROVE OwnInv'
  BY <1>2 DEF OwnInv, Challenge
<1>3. CASE Search
  BY <1>3 DEF OwnInv, Search
<1>4. CASE CheckDeadline
  BY <1>4 DEF OwnInv, CheckDeadline
<1>5. CASE LoginRaises
  BY <1>5 DEF OwnInv, LoginRaises
<1>6. CASE Submit
  BY <1>6 DEF OwnInv, Submit
<1>15. CASE Stalls
  BY <1>15 DEF OwnInv, Stalls
<1>7. CASE LogOut
  BY <1>7 DEF OwnInv, LogOut
<1>8. CASE Killed
  BY <1>8 DEF OwnInv, Killed
<1>9. CASE Expire
  BY <1>9 DEF OwnInv, Expire
<1>10. ASSUME NEW c \in Codes, Arrive(c)  PROVE OwnInv'
  <2>1. since \in Since /\ UNCHANGED <<login, current, code>>
    BY <1>10 DEF Arrive, TypeOK
  <2>2. CASE c = current /\ Waiting
    <3>1. since' = [since EXCEPT !.own = TRUE] /\ inbox' = Append(inbox, c)
      BY <1>10, <2>2 DEF Arrive
    <3>2. since'.own /\ inbox' # << >> /\ inbox'[Len(inbox')] = current'
      BY <3>1, <2>1, <2>2, <1>a, NewestAdded DEF Numbers, Since
    <3> QED  BY <3>2, <2>1, <2>2 DEF OwnInv
  <2>3. CASE ~ (c = current /\ Waiting)
    <3>1. since' = [since EXCEPT !.other = TRUE]
      BY <1>10, <2>3 DEF Arrive
    <3> QED  BY <3>1, <2>1 DEF OwnInv, Since
  <2> QED  BY <2>2, <2>3
<1>11. ASSUME NEW c \in Codes, Lose(c)  PROVE OwnInv'
  BY <1>11 DEF OwnInv, Lose
<1>12. CASE DecoyArrives
  <2>1. since \in Since /\ since' = [since EXCEPT !.other = TRUE]
    BY <1>12 DEF DecoyArrives, TypeOK
  <2> QED  BY <2>1 DEF OwnInv, Since
<1>13. CASE OwnerReads
  <2>1. since \in Since /\ since' = [since EXCEPT !.other = TRUE]
    BY <1>13 DEF OwnerReads, TypeOK
  <2> QED  BY <2>1 DEF OwnInv, Since
<1>14. CASE UNCHANGED vars
  BY <1>14 DEF OwnInv, vars
<1> QED
  BY <1>1, <1>2, <1>3, <1>4, <1>5, <1>6, <1>7, <1>8, <1>9, <1>10, <1>11,
     <1>12, <1>13, <1>14, <1>15 DEF Next, LoginStep

\* Old mail does not displace a challenge's own, and slow mail to a mailbox that
\* was empty is waited for.
THEOREM OwnMailPrevails == Spec => []OwnMailWins
<1>1. Init => OwnInv
  BY DEF Init, OwnInv, Challenged
<1>2. OwnInv => OwnMailWins
  BY DEF OwnInv, OwnMailWins, Challenged
<1> QED  BY <1>1, <1>2, OwnStep, TypeCorrect, PTL DEF Spec

(***************************************************************************)
(* The deadline ends a wait whose mail server answers: what LoginEnds is    *)
(* true by.                                                                 *)
(***************************************************************************)

\* The steps of the login that are left once the 120 seconds have passed: one more
\* search and one look at the clock, or the typing of what the search has found.  A
\* stalled search has none, and is not over.
MovesLeft ==
  CASE login = "search"               -> 2
    [] login \in {"check", "submit"}  -> 1
    [] OTHER                          -> 0

\* Every step of the login uses one of them, and the mail, the mailbox's owner and
\* the clock neither give one back nor take the deadline away.
DeadlineHolds ==
  [][expired /\ Challenged =>
       /\ LoginStep => MovesLeft' < MovesLeft
       /\ Challenged' => expired' /\ MovesLeft' <= MovesLeft]_vars

\* Two steps after its deadline a wait for a code is over, or stuck in a search that the
\* mail server does not answer, whatever mail comes, goes or is without a code.
THEOREM WaitsAreLimited == Spec => DeadlineHolds
<1>1. TypeOK /\ [Next]_vars =>
        [expired /\ Challenged =>
           /\ LoginStep => MovesLeft' < MovesLeft
           /\ Challenged' => expired' /\ MovesLeft' <= MovesLeft]_vars
  <2> SUFFICES ASSUME TypeOK, Next, expired, Challenged
               PROVE  /\ LoginStep => MovesLeft' < MovesLeft
                      /\ Challenged' => expired' /\ MovesLeft' <= MovesLeft
    OBVIOUS
  <2> USE DEF MovesLeft, Challenged
  <2>1. LoginStep => MovesLeft' < MovesLeft /\ expired' = expired
    <3>1. CASE Search
      BY <3>1 DEF Search
    <3>2. CASE CheckDeadline
      <4>1. login = "check" /\ login' = "failed" /\ expired' = expired
        BY <3>2 DEF CheckDeadline
      <4> QED
        BY <4>1
    <3>3. CASE LoginRaises
      BY <3>3 DEF LoginRaises
    <3>4. CASE Submit
      BY <3>4 DEF Submit
    <3> QED
      BY <3>1, <3>2, <3>3, <3>4 DEF LoginStep
  <2>2. MovesLeft \in Nat /\ MovesLeft' \in Nat
    OBVIOUS
  <2>3. CASE LoginStep
    BY <2>1, <2>2, <2>3
  <2>4. CASE Killed \/ LogOut
    BY <2>1, <2>4 DEF Killed, LogOut
  <2>7. CASE Stalls
    <3>1. login = "search" /\ login' = "stalled" /\ expired' = expired
      BY <2>7 DEF Stalls
    <3>2. MovesLeft = 2 /\ MovesLeft' = 0
      BY <3>1
    <3> QED
      BY <2>1, <3>1, <3>2
  <2>5. CASE PassUnchallenged \/ \E c \in Codes : Challenge(c)
    BY <2>5 DEF PassUnchallenged, Challenge
  <2>6. CASE Expire \/ DecoyArrives \/ OwnerReads \/ \E c \in Codes : Arrive(c) \/ Lose(c)
    <3>1. login' = login /\ expired'
      BY <2>6 DEF Expire, DecoyArrives, OwnerReads, Arrive, Lose
    <3> QED
      BY <2>1, <2>2, <3>1
  <2> QED
    BY <2>3, <2>4, <2>5, <2>6, <2>7 DEF Next
<1> QED
  BY <1>1, TypeCorrect, PTL DEF Spec, DeadlineHolds

=============================================================================
