---------------------------- MODULE Notifications ----------------------------
(***************************************************************************)
(* send_email of application.py over notifications.py: mails about runs,    *)
(* sent by several threads, with the notification block of the document and *)
(* what health_status.py says of it.                                        *)
(*                                                                          *)
(* Each call starts a daemon thread that calls server.sendEmail and puts    *)
(* what came of it into a queue of one place; the caller waits for it with  *)
(* a timeout, records the outcome, and returns.  sendEmail may never        *)
(* return.  A thread that was given up goes on; the caller has forgotten it.*)
(*                                                                          *)
(* sendEmail answers whether the mail was handed over: to the SMTP server   *)
(* in debug mode, otherwise to the queue of GMailWorker.                    *)
(***************************************************************************)
EXTENDS Integers

CONSTANTS
  Callers,        \* threads that send mail
  Unconfigured,   \* those of a process without GMAIL_TOKEN: gmail_server is None
  Workers,        \* bound: notification-delivery threads alive at a time
  NoWorker,       \* no thread
  ProcessOf,      \* the process of each caller and each thread
  MaxFaults,      \* bound: failing accesses of the state file
  MaxCrashes      \* bound: deaths of a process

ASSUME CallerAssumption ==
  /\ Unconfigured \subseteq Callers /\ NoWorker \notin Workers
  /\ MaxFaults \in Nat /\ MaxCrashes \in Nat

VARIABLES
  call,      \* where each caller is in send_email
  stored,    \* notification_state is not None
  worker,    \* the thread each caller has started
  thread,    \* where each worker is
  answer,    \* what sendEmail returned to each worker
  queue,     \* the result_queue of each worker's call
  block,     \* the notification block of the document
  lastSent,  \* history: the outcome recorded last
  faults, crashes

vars == <<call, stored, worker, thread, answer, queue, block, lastSent,
          faults, crashes>>

Outcome == {"confirmed", "refused", "raised"}
Empty == "empty"

CallPhase == {"idle", "waiting", "succeeded", "failed", "timedOut", "disabled"}
ThreadPhase == {"free", "sending", "putting", "ended"}

TypeOK ==
  /\ call \in [Callers -> CallPhase]
  /\ stored \in [Callers -> BOOLEAN]
  /\ worker \in [Callers -> Workers \union {NoWorker}]
  /\ thread \in [Workers -> ThreadPhase]
  /\ answer \in [Workers -> Outcome \union {Empty}]
  /\ queue \in [Workers -> Outcome \union {Empty}]
  /\ block \in [enabled : BOOLEAN, lastError : BOOLEAN]
  /\ lastSent \in {"nothing", "success", "failure", "disabled"}
  /\ faults \in Nat /\ crashes \in Nat

Init ==
  /\ call = [c \in Callers |-> "idle"]
  /\ stored = [c \in Callers |-> FALSE]
  /\ worker = [c \in Callers |-> NoWorker]
  /\ thread = [w \in Workers |-> "free"]
  /\ answer = [w \in Workers |-> Empty]
  /\ queue = [w \in Workers |-> Empty]
  /\ block = [enabled |-> FALSE, lastError |-> FALSE]
  /\ lastSent = "nothing"
  /\ faults = 0 /\ crashes = 0

(***************************************************************************)
(* The caller.                                                              *)
(***************************************************************************)

\* StateStore() in send_email: without it the mail is sent all the same.
LoadsState(c) ==
  \/ /\ stored' = [stored EXCEPT ![c] = TRUE]
     /\ UNCHANGED faults
  \/ /\ faults < MaxFaults
     /\ faults' = faults + 1
     /\ stored' = [stored EXCEPT ![c] = FALSE]

\* send_email up to the start of the thread, in _deliver_with_timeout.
Send(c) ==
  /\ call[c] = "idle"
  /\ LoadsState(c)
  /\ \/ /\ c \in Unconfigured
        /\ call' = [call EXCEPT ![c] = "disabled"]
        /\ UNCHANGED <<worker, thread, answer, queue>>
     \/ /\ c \notin Unconfigured
        /\ \E w \in Workers :
             /\ thread[w] = "free" /\ ProcessOf[w] = ProcessOf[c]
             /\ worker' = [worker EXCEPT ![c] = w]
             /\ thread' = [thread EXCEPT ![w] = "sending"]
             /\ answer' = [answer EXCEPT ![w] = Empty]
             /\ queue' = [queue EXCEPT ![w] = Empty]
        /\ call' = [call EXCEPT ![c] = "waiting"]
  /\ UNCHANGED <<block, lastSent, crashes>>

Settle(c, result) ==
  call' = [call EXCEPT ![c] = IF result = "confirmed" THEN "succeeded" ELSE "failed"]

\* Variant: one queue for all calls.
TakeAny(c) ==
  /\ call[c] = "waiting"
  /\ \E w \in Workers :
       /\ queue[w] # Empty
       /\ Settle(c, queue[w])
       /\ queue' = [queue EXCEPT ![w] = Empty]
  /\ UNCHANGED <<stored, worker, thread, answer, block, lastSent, faults, crashes>>

\* Variant: what the provider raised leaves send_notification.
TakeRaising(c) ==
  /\ call[c] = "waiting"
  /\ queue[worker[c]] # Empty
  /\ call' = [call EXCEPT ![c] = IF queue[worker[c]] = "confirmed" THEN "succeeded"
                                 ELSE queue[worker[c]]]
  /\ queue' = [queue EXCEPT ![worker[c]] = Empty]
  /\ UNCHANGED <<stored, worker, thread, answer, block, lastSent, faults, crashes>>

\* result_queue.get returns in time.
Take(c) ==
  /\ call[c] = "waiting"
  /\ queue[worker[c]] # Empty
  /\ Settle(c, queue[worker[c]])
  /\ queue' = [queue EXCEPT ![worker[c]] = Empty]
  /\ UNCHANGED <<stored, worker, thread, answer, block, lastSent, faults, crashes>>

\* Variant: get() without a timeout.
TimeOutNever(c) == FALSE /\ UNCHANGED vars

\* queue.Empty: the thread is left to itself.
TimeOut(c) ==
  /\ call[c] = "waiting"
  /\ queue[worker[c]] = Empty
  /\ call' = [call EXCEPT ![c] = "timedOut"]
  /\ UNCHANGED <<stored, worker, thread, answer, queue, block, lastSent, faults, crashes>>

\* Variant: an error is left standing by the next success.
RecordNotificationSuccessSticky(b) == [b EXCEPT !.enabled = TRUE]

RecordNotificationSuccess(b) == [b EXCEPT !.enabled = TRUE, !.lastError = FALSE]

RecordNotificationFailure(b) == [b EXCEPT !.enabled = TRUE, !.lastError = TRUE]

SetNotificationsDisabled(b)  == [b EXCEPT !.enabled = FALSE]

\* _record_safely: one update of the document, or an exception that is logged.
RecordSafely(c, document, outcome) ==
  \/ /\ stored[c]
     /\ block' = document /\ lastSent' = outcome
     /\ UNCHANGED faults
  \/ /\ stored[c]
     /\ faults < MaxFaults
     /\ faults' = faults + 1
     /\ UNCHANGED <<block, lastSent>>
  \/ /\ ~ stored[c]
     /\ UNCHANGED <<block, lastSent, faults>>

\* The end of send_notification, which returns True or False.
Record(c) ==
  /\ \/ /\ call[c] = "succeeded"
        /\ RecordSafely(c, RecordNotificationSuccess(block), "success")
     \/ /\ call[c] \in {"failed", "timedOut"}
        /\ RecordSafely(c, RecordNotificationFailure(block), "failure")
     \/ /\ call[c] = "disabled"
        /\ RecordSafely(c, SetNotificationsDisabled(block), "disabled")
  /\ call' = [call EXCEPT ![c] = "idle"]
  /\ worker' = [worker EXCEPT ![c] = NoWorker]
  /\ stored' = [stored EXCEPT ![c] = FALSE]
  /\ UNCHANGED <<thread, answer, queue, crashes>>

(***************************************************************************)
(* The thread "notification-delivery".                                      *)
(***************************************************************************)

\* server.sendEmail returns or raises.
ServerAnswers(w) ==
  /\ thread[w] = "sending"
  /\ \E r \in Outcome : answer' = [answer EXCEPT ![w] = r]
  /\ thread' = [thread EXCEPT ![w] = "putting"]
  /\ UNCHANGED <<call, stored, worker, queue, block, lastSent, faults, crashes>>

\* Variant: one queue of one place for all calls; put waits for the place.
PutWaiting(w) ==
  /\ thread[w] = "putting"
  /\ \A v \in Workers : queue[v] = Empty
  /\ queue' = [queue EXCEPT ![w] = answer[w]]
  /\ thread' = [thread EXCEPT ![w] = "ended"]
  /\ UNCHANGED <<call, stored, worker, answer, block, lastSent, faults, crashes>>

\* result_queue.put, which waits if the place is taken.
Put(w) ==
  /\ thread[w] = "putting"
  /\ queue[w] = Empty
  /\ queue' = [queue EXCEPT ![w] = answer[w]]
  /\ thread' = [thread EXCEPT ![w] = "ended"]
  /\ UNCHANGED <<call, stored, worker, answer, block, lastSent, faults, crashes>>

\* A thread that has ended and whose caller has returned is forgotten.
Collect(w) ==
  /\ thread[w] = "ended"
  /\ \A c \in Callers : worker[c] # w
  /\ thread' = [thread EXCEPT ![w] = "free"]
  /\ answer' = [answer EXCEPT ![w] = Empty]
  /\ queue' = [queue EXCEPT ![w] = Empty]
  /\ UNCHANGED <<call, stored, worker, block, lastSent, faults, crashes>>

\* The process of a caller dies, and the threads it started with it.
Crash(c) ==
  /\ call[c] # "idle"
  /\ crashes < MaxCrashes
  /\ crashes' = crashes + 1
  /\ LET dies(x) == ProcessOf[x] = ProcessOf[c]
     IN  /\ call' = [d \in Callers |-> IF dies(d) THEN "idle" ELSE call[d]]
         /\ worker' = [d \in Callers |-> IF dies(d) THEN NoWorker ELSE worker[d]]
         /\ stored' = [d \in Callers |-> stored[d] /\ ~ dies(d)]
         /\ thread' = [w \in Workers |-> IF dies(w) THEN "free" ELSE thread[w]]
         /\ answer' = [w \in Workers |-> IF dies(w) THEN Empty ELSE answer[w]]
         /\ queue' = [w \in Workers |-> IF dies(w) THEN Empty ELSE queue[w]]
  /\ UNCHANGED <<block, lastSent, faults>>

(***************************************************************************)
(* evaluate_health: the notification_status of /status.json.                *)
(***************************************************************************)

NotificationStatus ==
  IF ~ block.enabled THEN "disabled"
  ELSE IF block.lastError THEN "degraded" ELSE "healthy"

(***************************************************************************)
(* The specification.                                                       *)
(***************************************************************************)

CallStep(c) == Take(c) \/ TimeOut(c) \/ Record(c)

Next ==
  \/ \E c \in Callers : Send(c) \/ CallStep(c) \/ Crash(c)
  \/ \E w \in Workers : ServerAnswers(w) \/ Put(w) \/ Collect(w)

Spec == Init /\ [][Next]_vars

\* The callers are scheduled and their timeouts pass; a thread whose sendEmail
\* has returned goes on.  Nothing is assumed of sendEmail.
Fairness ==
  /\ \A c \in Callers : WF_vars(CallStep(c))
  /\ \A w \in Workers : WF_vars(Put(w))

FairSpec == Spec /\ Fairness

(***************************************************************************)
(* Properties.                                                              *)
(***************************************************************************)

\* The outcome a call works with is the one its own mail had, whatever the
\* threads of earlier calls that were given up answer in the meantime.
OutcomeIsOwn ==
  \A c \in Callers :
    /\ call[c] = "succeeded" => answer[worker[c]] = "confirmed"
    /\ call[c] = "failed" => answer[worker[c]] \in {"refused", "raised"}

\* /status.json shows how the last mail that could be recorded went, in
\* whatever order the calls of several threads and processes end, and although
\* threads that were given up deliver later.
StatusTellsLast ==
  NotificationStatus = CASE lastSent = "success" -> "healthy"
                         [] lastSent = "failure" -> "degraded"
                         [] OTHER -> "disabled"

\* send_email returns to every caller, although sendEmail may not.
SendsEnd == \A c \in Callers : call[c] # "idle" ~> call[c] = "idle"

\* A delivery thread whose sendEmail has returned ends, although its caller may
\* have stopped listening.
WorkersEnd == \A w \in Workers : thread[w] = "putting" ~> thread[w] # "putting"

=============================================================================
