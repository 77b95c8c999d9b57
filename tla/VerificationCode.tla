--------------------------- MODULE VerificationCode ---------------------------
(***************************************************************************)
(* The login challenge of No-IP and the mailbox that answers it:            *)
(* _handle_verification_code_if_present of noip_renew.py and                *)
(* emailServer/verificationCodeReader.py.                                   *)
(*                                                                          *)
(* No-IP draws a code, mails it, and accepts the code of its newest         *)
(* challenge only.  The reader polls the unread mail from noip.com, newest  *)
(* first, and takes the first number of four to eight digits as the code.   *)
(* The mail may be late, lost, overtaken, read by the owner first; and      *)
(* other mail of the same sender has numbers in it too ("decoys").          *)
(*                                                                          *)
(* A code is drawn again once its mail is out of the way, so the model runs *)
(* for ever with few of them.                                               *)
(***************************************************************************)
EXTENDS Integers, Sequences, FiniteSets

CONSTANTS
  Codes,       \* what No-IP may draw
  Decoy,       \* a number in another mail from noip.com
  NoCode,      \* Python's None
  MaxUnread    \* bound: unread mails from noip.com

ASSUME CodeAssumption ==
  NoCode \notin Codes /\ Decoy \notin Codes /\ NoCode # Decoy /\ MaxUnread \in Nat

VARIABLES
  login,       \* where the robot's login is
  current,     \* the code that No-IP will accept
  transit,     \* codes whose mail has not arrived
  inbox,       \* the numbers in the unread mails, oldest first
  code,        \* what wait_for_code has returned
  expired,     \* time.time() >= deadline
  tried,       \* history: the codes submitted, in any run
  since        \* history: what happened since the challenge, see Since

vars == <<login, current, transit, inbox, code, expired, tried, since>>

Since ==
  [stale : BOOLEAN,    \* unread mail lay in the mailbox when it was made
   own   : BOOLEAN,    \* its mail came while the robot waited
   other : BOOLEAN]    \* another mail came, or somebody read one

Unread == {inbox[i] : i \in DOMAIN inbox}

LoginPhase == {"out", "search", "stalled", "check", "submit", "in", "failed"}

\* In the middle of _handle_verification_code_if_present.
Challenged == login \in {"search", "stalled", "check", "submit"}

TypeOK ==
  /\ login \in LoginPhase
  /\ current \in Codes \union {NoCode}
  /\ transit \subseteq Codes
  /\ inbox \in Seq(Codes \union {Decoy}) /\ Len(inbox) <= MaxUnread
  /\ code \in Codes \union {Decoy, NoCode}
  /\ expired \in BOOLEAN
  /\ tried \subseteq Codes
  /\ since \in Since

Init ==
  /\ login = "out"
  /\ current = NoCode
  /\ transit = {}
  /\ inbox = << >>
  /\ code = NoCode
  /\ expired = FALSE
  /\ tried = {}
  /\ since = [stale |-> FALSE, own |-> FALSE, other |-> FALSE]

(***************************************************************************)
(* The robot and No-IP.                                                     *)
(***************************************************************************)

\* Robot.login: password accepted, no #otp-input within five seconds.
PassUnchallenged ==
  /\ login = "out"
  /\ login' = "in"
  /\ UNCHANGED <<current, transit, inbox, code, expired, tried, since>>

\* No-IP shows the six boxes and mails code c; the robot begins to wait.
Challenge(c) ==
  /\ login = "out"
  /\ c \notin transit \union Unread
  /\ login' = "search"
  /\ current' = c
  /\ transit' = transit \union {c}
  /\ code' = NoCode
  /\ expired' = FALSE
  /\ tried' = tried \ {c}
  /\ since' = [stale |-> inbox # << >>, own |-> FALSE, other |-> FALSE]
  /\ UNCHANGED inbox

\* Variant: the oldest unread message wins.
SearchOldest ==
  /\ login = "search"
  /\ \/ /\ inbox # << >>
        /\ code' = Head(inbox) /\ inbox' = Tail(inbox)
        /\ login' = "submit"
     \/ /\ inbox = << >>
        /\ login' = "check"
        /\ UNCHANGED <<code, inbox>>
  /\ UNCHANGED <<current, transit, expired, tried, since>>

\* Variant: a message that was taken stays unread.
SearchUnmarked ==
  /\ login = "search"
  /\ \/ /\ inbox # << >>
        /\ code' = inbox[Len(inbox)] /\ UNCHANGED inbox
        /\ login' = "submit"
     \/ /\ inbox = << >>
        /\ login' = "check"
        /\ UNCHANGED <<code, inbox>>
  /\ UNCHANGED <<current, transit, expired, tried, since>>

\* _search_latest: the newest unread message is fetched, marked and taken.
Search ==
  /\ login = "search"
  /\ \/ /\ inbox # << >>
        /\ code' = inbox[Len(inbox)]
        /\ inbox' = SubSeq(inbox, 1, Len(inbox) - 1)
        /\ login' = "submit"
     \/ /\ inbox = << >>
        /\ login' = "check"
        /\ UNCHANGED <<code, inbox>>
  /\ UNCHANGED <<current, transit, expired, tried, since>>

\* Variant: the deadline is computed anew in every round.
CheckDeadlineEndless ==
  /\ login = "check"
  /\ login' = "search"
  /\ UNCHANGED <<current, transit, inbox, code, expired, tried, since>>

\* The deadline is looked at after a search, so there is always one search, and
\* one more after the last sleep.
CheckDeadline ==
  /\ login = "check"
  /\ login' = IF expired THEN "failed" ELSE "search"
  /\ UNCHANGED <<current, transit, inbox, code, expired, tried, since>>

\* The IMAP connection raises, before or after the message was marked; or the
\* page has not six boxes; or there is no code_reader.
LoginRaises ==
  /\ login \in {"search", "submit"}
  /\ login' = "failed"
  /\ \/ UNCHANGED inbox
     \/ /\ login = "search" /\ inbox # << >>
        /\ inbox' = SubSeq(inbox, 1, Len(inbox) - 1)
  /\ UNCHANGED <<current, transit, code, expired, tried, since>>

\* The mail server stops answering in the middle of a search: at the connection,
\* before or after the message was marked, or at the logout.  The sockets have no
\* timeout, so the search waits for ever.
Stalls ==
  /\ login = "search"
  /\ login' = "stalled"
  /\ \/ UNCHANGED inbox
     \/ /\ inbox # << >>
        /\ inbox' = SubSeq(inbox, 1, Len(inbox) - 1)
  /\ UNCHANGED <<current, transit, code, expired, tried, since>>

\* The digits are typed.  With a wrong code the hosts page does not come up.
Submit ==
  /\ login = "submit"
  /\ tried' = tried \union (Codes \cap {code})
  /\ login' = IF code = current THEN "in" ELSE "failed"
  /\ UNCHANGED <<current, transit, inbox, code, expired, since>>

\* The run is over, whatever came of it.
LogOut ==
  /\ login \in {"in", "failed"}
  /\ login' = "out"
  /\ code' = NoCode
  /\ expired' = FALSE
  /\ UNCHANGED <<current, transit, inbox, tried, since>>

\* The process is killed during the login.
Killed ==
  /\ Challenged
  /\ login' = "out"
  /\ code' = NoCode
  /\ expired' = FALSE
  /\ UNCHANGED <<current, transit, inbox, tried, since>>

(***************************************************************************)
(* Time and the mail.                                                       *)
(***************************************************************************)

Expire ==
  /\ Challenged /\ ~ expired
  /\ expired' = TRUE
  /\ UNCHANGED <<login, current, transit, inbox, code, tried, since>>

Arrive(c) ==
  /\ c \in transit
  /\ Len(inbox) < MaxUnread
  /\ transit' = transit \ {c}
  /\ inbox' = Append(inbox, c)
  /\ since' = IF c = current /\ login \in {"search", "check"}
              THEN [since EXCEPT !.own = TRUE] ELSE [since EXCEPT !.other = TRUE]
  /\ UNCHANGED <<login, current, code, expired, tried>>

Lose(c) ==
  /\ c \in transit
  /\ transit' = transit \ {c}
  /\ UNCHANGED <<login, current, inbox, code, expired, tried, since>>

DecoyArrives ==
  /\ Len(inbox) < MaxUnread
  /\ inbox' = Append(inbox, Decoy)
  /\ since' = [since EXCEPT !.other = TRUE]
  /\ UNCHANGED <<login, current, transit, code, expired, tried>>

\* Somebody opens the newest message in a mail program.
OwnerReads ==
  /\ inbox # << >>
  /\ inbox' = SubSeq(inbox, 1, Len(inbox) - 1)
  /\ since' = [since EXCEPT !.other = TRUE]
  /\ UNCHANGED <<login, current, transit, code, expired, tried>>

(***************************************************************************)
(* The specification.                                                       *)
(***************************************************************************)

\* The steps of a login whose mail server answers.
LoginStep == Search \/ CheckDeadline \/ LoginRaises \/ Submit

Next ==
  \/ PassUnchallenged \/ \E c \in Codes : Challenge(c)
  \/ LoginStep \/ Stalls \/ LogOut \/ Killed
  \/ Expire
  \/ \E c \in Codes : Arrive(c) \/ Lose(c)
  \/ DecoyArrives \/ OwnerReads

Spec == Init /\ [][Next]_vars

\* The thread of the run is scheduled, and the 120 seconds pass.  A mail server
\* may stop answering (Stalls), and nobody need kill a run that waits for it.
FairSpec == Spec /\ WF_vars(LoginStep) /\ WF_vars(Expire)

(***************************************************************************)
(* Properties.                                                              *)
(***************************************************************************)

\* A message is used up by the run that takes it: no code is submitted twice,
\* although runs die or raise between the fetch and the submission.
CodeReadOnce == login = "submit" => code \notin tried

\* Old mail in the mailbox does no harm to a challenge whose own mail came in
\* time and was the only one to come; nor does slow mail to one that found the
\* mailbox empty.
OwnMailWins ==
  login = "submit" /\ ~ since.other /\ (since.own \/ ~ since.stale) => code = current

\* Whatever the mailbox holds and whatever comes, as long as the mail server answers a
\* run does not wait for a code for ever: the challenge ends with a session or with
\* an error.
LoginEnds == Challenged ~> ~ Challenged \/ login = "stalled"

\* wait_for_code: "Poll until a matching code email arrives, or `timeout` seconds
\* elapse."  Once they have elapsed, the wait is over or about to be.
WaitIsTimed == Challenged /\ expired ~> ~ Challenged

(***************************************************************************)
(* A long run of good days.  The mail of one challenge came when its run    *)
(* had given up.  From then on every login is challenged, every mail comes   *)
(* within moments, long before the next run, nobody else touches the        *)
(* mailbox, and nothing raises.                                             *)
(***************************************************************************)

LateInit ==
  /\ \E c \in Codes :
       /\ inbox = <<c>>
       /\ current = c
  /\ login = "out" /\ transit = {} /\ code = NoCode /\ expired = FALSE
  /\ tried = {}
  /\ since = [stale |-> FALSE, own |-> FALSE, other |-> TRUE]

NextRun == transit = {} /\ \E c \in Codes : Challenge(c)

GoodDayStep == Search \/ CheckDeadline \/ Submit \/ LogOut

\* There is a next run, its thread is scheduled, and mail arrives.
LateSpec ==
  /\ LateInit /\ [][NextRun \/ GoodDayStep \/ \E c \in Codes : Arrive(c)]_vars
  /\ WF_vars(NextRun)
  /\ WF_vars(GoodDayStep)
  /\ \A c \in Codes : WF_vars(Arrive(c))

\* The codes that No-IP mails are handled: once their mails come in time again,
\* a login succeeds again.
LoginRecovers == <>(login = "in")

=============================================================================
