------------------------- MODULE NotificationsProofs -------------------------
(***************************************************************************)
(* Theorems about Notifications, for any number of callers, delivery        *)
(* threads and processes, failing accesses and deaths.                      *)
(***************************************************************************)
EXTENDS Notifications, TLAPS

Answers == Outcome \union {Empty}

LEMMA EmptyIsNoOutcome == Empty \notin Outcome
BY DEF Empty, Outcome

(***************************************************************************)
(* Types.                                                                   *)
(***************************************************************************)

\* The variables of the calls and of the document, and those of the threads.
CallsOK ==
  /\ call \in [Callers -> CallPhase]
  /\ stored \in [Callers -> BOOLEAN]
  /\ worker \in [Callers -> Workers \union {NoWorker}]

ThreadsOK ==
  /\ thread \in [Workers -> ThreadPhase]
  /\ answer \in [Workers -> Answers]
  /\ queue \in [Workers -> Answers]

BlockOK ==
  /\ block \in [enabled : BOOLEAN, lastError : BOOLEAN]
  /\ lastSent \in {"nothing", "success", "failure", "disabled"}
  /\ faults \in Nat

LEMMA TypeParts == TypeOK <=> CallsOK /\ ThreadsOK /\ BlockOK /\ crashes \in Nat
BY DEF TypeOK, CallsOK, ThreadsOK, BlockOK, Answers

LEMMA TypeInit == Init => TypeOK
BY DEF Init, TypeOK, CallPhase, ThreadPhase, Outcome

LEMMA SendTyped ==
  ASSUME TypeOK, NEW c \in Callers, Send(c)
  PROVE  TypeOK'
<1> USE DEF CallPhase, ThreadPhase
<1>1. stored' \in [Callers -> BOOLEAN] /\ faults' \in Nat
  <2>1. \A b \in BOOLEAN : [stored EXCEPT ![c] = b] \in [Callers -> BOOLEAN]
    BY DEF TypeOK
  <2>2. faults \in Nat /\ LoadsState(c)
    BY DEF TypeOK, Send
  <2>3. \E b \in BOOLEAN : stored' = [stored EXCEPT ![c] = b]
    BY <2>2 DEF LoadsState
  <2>4. faults' = faults \/ faults' = faults + 1
    BY <2>2 DEF LoadsState
  <2> QED  BY <2>1, <2>2, <2>3, <2>4
<1>2. CASE c \in Unconfigured
  BY <1>1, <1>2 DEF TypeOK, Send
<1>3. CASE c \notin Unconfigured
  <2>1. PICK w \in Workers :
          /\ worker' = [worker EXCEPT ![c] = w]
          /\ thread' = [thread EXCEPT ![w] = "sending"]
          /\ answer' = [answer EXCEPT ![w] = Empty]
          /\ queue' = [queue EXCEPT ![w] = Empty]
    BY <1>3 DEF Send
  <2>2. call' = [call EXCEPT ![c] = "waiting"] /\ UNCHANGED <<block, lastSent, crashes>>
    BY <1>3 DEF Send
  <2> QED  BY <1>1, <2>1, <2>2 DEF TypeOK
<1> QED  BY <1>2, <1>3

LEMMA RecordTyped ==
  ASSUME TypeOK, NEW c \in Callers, Record(c)
  PROVE  TypeOK'
<1>1. \A b \in [enabled : BOOLEAN, lastError : BOOLEAN] :
        /\ RecordNotificationSuccess(b) \in [enabled : BOOLEAN, lastError : BOOLEAN]
        /\ RecordNotificationFailure(b) \in [enabled : BOOLEAN, lastError : BOOLEAN]
        /\ SetNotificationsDisabled(b) \in [enabled : BOOLEAN, lastError : BOOLEAN]
  BY DEF RecordNotificationSuccess, RecordNotificationFailure, SetNotificationsDisabled
<1>2. BlockOK'
  <2>1. BlockOK
    BY TypeParts
  <2>2. \A document \in [enabled : BOOLEAN, lastError : BOOLEAN],
           outcome \in {"nothing", "success", "failure", "disabled"} :
          RecordSafely(c, document, outcome) => BlockOK'
    BY <2>1 DEF BlockOK, RecordSafely
  <2>3. block \in [enabled : BOOLEAN, lastError : BOOLEAN]
    BY <2>1 DEF BlockOK
  <2> QED  BY <1>1, <2>2, <2>3 DEF Record
<1>3. CallsOK'
  BY DEF TypeOK, CallsOK, CallPhase, Record
<1>4. ThreadsOK' /\ crashes' \in Nat
  BY DEF TypeOK, ThreadsOK, Answers, Record
<1> QED  BY <1>2, <1>3, <1>4, TypeParts DEF TypeOK, CallsOK, ThreadsOK, BlockOK, Answers

LEMMA CrashTyped ==
  ASSUME TypeOK, NEW c \in Callers, Crash(c)
  PROVE  TypeOK'
<1>1. CallsOK'
  BY DEF TypeOK, CallsOK, CallPhase, Crash
<1>2. ThreadsOK'
  BY DEF TypeOK, ThreadsOK, Answers, ThreadPhase, Crash
<1>3. BlockOK' /\ crashes' \in Nat
  BY DEF TypeOK, BlockOK, Crash
<1> QED  BY <1>1, <1>2, <1>3 DEF TypeOK, CallsOK, ThreadsOK, BlockOK, Answers

LEMMA TypeStep == TypeOK /\ [Next]_vars => TypeOK'
<1> SUFFICES ASSUME TypeOK, [Next]_vars
             PROVE  TypeOK'
  OBVIOUS
<1>1. ASSUME NEW c \in Callers, Send(c)  PROVE TypeOK'
  BY <1>1, SendTyped
<1>2. ASSUME NEW c \in Callers, Take(c)  PROVE TypeOK'
  BY <1>2 DEF TypeOK, Take, Settle, CallPhase
<1>3. ASSUME NEW c \in Callers, TimeOut(c)  PROVE TypeOK'
  BY <1>3 DEF TypeOK, TimeOut, CallPhase
<1>4. ASSUME NEW c \in Callers, Record(c)  PROVE TypeOK'
  BY <1>4, RecordTyped
<1>5. ASSUME NEW c \in Callers, Crash(c)  PROVE TypeOK'
  BY <1>5, CrashTyped
<1>6. ASSUME NEW w \in Workers, ServerAnswers(w)  PROVE TypeOK'
  BY <1>6 DEF TypeOK, ServerAnswers, ThreadPhase
<1>7. ASSUME NEW w \in Workers, Put(w)  PROVE TypeOK'
  BY <1>7 DEF TypeOK, Put, ThreadPhase
<1>8. ASSUME NEW w \in Workers, Collect(w)  PROVE TypeOK'
  BY <1>8 DEF TypeOK, Collect, ThreadPhase
<1>9. CASE UNCHANGED vars
  BY <1>9 DEF TypeOK, vars
<1> QED
  BY <1>1, <1>2, <1>3, <1>4, <1>5, <1>6, <1>7, <1>8, <1>9 DEF Next, CallStep

\* Calls, threads, queues and the notification block keep their types.
THEOREM TypeCorrect == Spec => []TypeOK
<1> QED  BY TypeInit, TypeStep, PTL DEF Spec

(***************************************************************************)
(* What is on record.                                                       *)
(***************************************************************************)

\* /status.json shows how the last mail that could be recorded went, for any
\* number of threads and processes that record in any order.
THEOREM StatusIsCurrent == Spec => []StatusTellsLast
<1> DEFINE Told ==
      /\ block.enabled <=> lastSent \in {"success", "failure"}
      /\ lastSent = "success" => ~ block.lastError
      /\ lastSent = "failure" => block.lastError
<1>1. Init => Told
  BY DEF Init
<1>2. TypeOK /\ Told /\ [Next]_vars => Told'
  <2> SUFFICES ASSUME TypeOK, Told, [Next]_vars
               PROVE  Told'
    OBVIOUS
  <2>1. ASSUME NEW c \in Callers, Record(c)  PROVE Told'
    <3>0. block \in [enabled : BOOLEAN, lastError : BOOLEAN]
      BY DEF TypeOK
    <3>1. CASE RecordSafely(c, RecordNotificationSuccess(block), "success")
      BY <3>0, <3>1 DEF RecordSafely, RecordNotificationSuccess
    <3>2. CASE RecordSafely(c, RecordNotificationFailure(block), "failure")
      BY <3>0, <3>2 DEF RecordSafely, RecordNotificationFailure
    <3>3. CASE RecordSafely(c, SetNotificationsDisabled(block), "disabled")
      BY <3>0, <3>3 DEF RecordSafely, SetNotificationsDisabled
    <3> QED  BY <2>1, <3>1, <3>2, <3>3 DEF Record
  <2>2. CASE UNCHANGED <<block, lastSent>>
    BY <2>2
  <2> QED
    BY <2>1, <2>2 DEF Next, CallStep, Send, Take, TimeOut, Crash, ServerAnswers,
       Put, Collect, vars
<1>3. TypeOK /\ Told => StatusTellsLast
  BY DEF TypeOK, StatusTellsLast, NotificationStatus
<1> QED  BY <1>1, <1>2, <1>3, TypeCorrect, PTL DEF Spec

(***************************************************************************)
(* A call works with the outcome of its own mail.                           *)
(***************************************************************************)

Served == {"waiting", "succeeded", "failed", "timedOut"}

\* A call under way has a thread of its own process that no other call has.
OwnWorker ==
  \A c \in Callers :
    /\ call[c] \in Served => worker[c] \in Workers
    /\ worker[c] \in Workers =>
         /\ thread[worker[c]] # "free"
         /\ ProcessOf[worker[c]] = ProcessOf[c]
         /\ \A d \in Callers : worker[d] = worker[c] => d = c

\* What is in a queue is what its thread was answered.
OwnAnswer ==
  \A w \in Workers : queue[w] # Empty => queue[w] = answer[w] /\ thread[w] = "ended"

\* A call that has taken an outcome has it from a thread that has ended.
Taken ==
  \A c \in Callers : call[c] \in {"succeeded", "failed"} =>
    /\ thread[worker[c]] = "ended"
    /\ call[c] = "succeeded" => answer[worker[c]] = "confirmed"
    /\ call[c] = "failed" => answer[worker[c]] \in {"refused", "raised"}

DeliveryInv == OwnWorker /\ OwnAnswer /\ Taken

LEMMA SendDelivery ==
  ASSUME TypeOK, DeliveryInv, NEW c \in Callers, Send(c)
  PROVE  DeliveryInv'
<1> USE CallerAssumption
<1>1. CASE c \in Unconfigured
  <2>1. call' = [call EXCEPT ![c] = "disabled"] /\ call[c] = "idle"
        /\ UNCHANGED <<worker, thread, answer, queue>>
    BY <1>1 DEF Send
  <2> QED  BY <2>1 DEF DeliveryInv, OwnWorker, OwnAnswer, Taken, Served, TypeOK
<1>2. CASE c \notin Unconfigured
  <2>1. PICK w \in Workers :
          /\ thread[w] = "free" /\ ProcessOf[w] = ProcessOf[c]
          /\ worker' = [worker EXCEPT ![c] = w]
          /\ thread' = [thread EXCEPT ![w] = "sending"]
          /\ answer' = [answer EXCEPT ![w] = Empty]
          /\ queue' = [queue EXCEPT ![w] = Empty]
    BY <1>2 DEF Send
  <2>2. call' = [call EXCEPT ![c] = "waiting"]
    BY <1>2 DEF Send
  <2>3. \A d \in Callers : worker[d] # w
    BY <2>1 DEF DeliveryInv, OwnWorker
  <2>4. OwnWorker'
    <3>1. \A d \in Callers \ {c} : worker'[d] = worker[d] /\ call'[d] = call[d]
      BY <2>1, <2>2 DEF TypeOK
    <3>2. worker'[c] = w /\ thread'[w] = "sending"
      BY <2>1 DEF TypeOK
    <3>3. \A v \in Workers \ {w} : thread'[v] = thread[v]
      BY <2>1 DEF TypeOK
    <3> QED  BY <2>1, <2>3, <3>1, <3>2, <3>3 DEF DeliveryInv, OwnWorker
  <2>5. OwnAnswer'
    BY <2>1 DEF TypeOK, DeliveryInv, OwnAnswer
  <2>6. Taken'
    <3>1. \A d \in Callers : call'[d] \in {"succeeded", "failed"} =>
            /\ d # c /\ worker'[d] = worker[d] /\ call'[d] = call[d]
            /\ worker[d] \in Workers \ {w}
      BY <2>1, <2>2, <2>3 DEF TypeOK, DeliveryInv, OwnWorker, Served
    <3>2. \A v \in Workers \ {w} : thread'[v] = thread[v] /\ answer'[v] = answer[v]
      BY <2>1 DEF TypeOK
    <3> QED  BY <3>1, <3>2 DEF DeliveryInv, Taken
  <2> QED  BY <2>4, <2>5, <2>6 DEF DeliveryInv
<1> QED  BY <1>1, <1>2

LEMMA TakeDelivery ==
  ASSUME TypeOK, DeliveryInv, NEW c \in Callers, Take(c)
  PROVE  DeliveryInv'
<1> DEFINE w == worker[c]
<1>1. /\ call[c] = "waiting" /\ queue[w] # Empty
      /\ call' = [call EXCEPT ![c] = IF queue[w] = "confirmed" THEN "succeeded" ELSE "failed"]
      /\ queue' = [queue EXCEPT ![w] = Empty]
      /\ UNCHANGED <<worker, thread, answer>>
  BY DEF Take, Settle
<1>2. w \in Workers
  BY <1>1 DEF DeliveryInv, OwnWorker, Served
<1>3. queue[w] = answer[w] /\ thread[w] = "ended" /\ queue[w] \in Outcome
  BY <1>1, <1>2 DEF DeliveryInv, OwnAnswer, TypeOK
<1>4. OwnWorker'
  BY <1>1 DEF TypeOK, DeliveryInv, OwnWorker, Served
<1>5. OwnAnswer'
  BY <1>1 DEF TypeOK, DeliveryInv, OwnAnswer
<1>6. Taken'
  <2>1. \A d \in Callers \ {c} : call'[d] = call[d]
    BY <1>1 DEF TypeOK
  <2>2. call'[c] = IF queue[w] = "confirmed" THEN "succeeded" ELSE "failed"
    BY <1>1 DEF TypeOK
  <2> QED  BY <1>1, <1>3, <2>1, <2>2 DEF DeliveryInv, Taken, Outcome
<1> QED  BY <1>4, <1>5, <1>6 DEF DeliveryInv

LEMMA RecordDelivery ==
  ASSUME TypeOK, DeliveryInv, NEW c \in Callers, Record(c)
  PROVE  DeliveryInv'
<1>1. /\ call' = [call EXCEPT ![c] = "idle"]
      /\ worker' = [worker EXCEPT ![c] = NoWorker]
      /\ UNCHANGED <<thread, answer, queue>>
  BY DEF Record
<1>2. /\ \A d \in Callers \ {c} : call'[d] = call[d] /\ worker'[d] = worker[d]
      /\ call'[c] = "idle" /\ worker'[c] = NoWorker
  BY <1>1 DEF TypeOK
<1>3. OwnWorker'
  BY <1>1, <1>2, CallerAssumption DEF DeliveryInv, OwnWorker, Served
<1>4. OwnAnswer' /\ Taken'
  BY <1>1, <1>2 DEF DeliveryInv, OwnAnswer, Taken
<1> QED  BY <1>3, <1>4 DEF DeliveryInv

LEMMA CrashDelivery ==
  ASSUME TypeOK, DeliveryInv, NEW c \in Callers, Crash(c)
  PROVE  DeliveryInv'
<1> DEFINE dies(x) == ProcessOf[x] = ProcessOf[c]
<1>1. /\ call' = [d \in Callers |-> IF dies(d) THEN "idle" ELSE call[d]]
      /\ worker' = [d \in Callers |-> IF dies(d) THEN NoWorker ELSE worker[d]]
      /\ thread' = [w \in Workers |-> IF dies(w) THEN "free" ELSE thread[w]]
      /\ answer' = [w \in Workers |-> IF dies(w) THEN Empty ELSE answer[w]]
      /\ queue' = [w \in Workers |-> IF dies(w) THEN Empty ELSE queue[w]]
  BY DEF Crash
<1>2. \A d \in Callers : IF dies(d) THEN call'[d] = "idle" /\ worker'[d] = NoWorker
                                    ELSE call'[d] = call[d] /\ worker'[d] = worker[d]
  BY <1>1
<1>3. \A w \in Workers :
        /\ dies(w) => queue'[w] = Empty
        /\ ~ dies(w) => /\ thread'[w] = thread[w] /\ answer'[w] = answer[w]
                        /\ queue'[w] = queue[w]
  BY <1>1
<1>4. \A d \in Callers : worker'[d] \in Workers =>
        /\ ~ dies(d) /\ ~ dies(worker[d])
        /\ worker'[d] = worker[d] /\ call'[d] = call[d]
  BY <1>2, CallerAssumption DEF DeliveryInv, OwnWorker
<1>5. OwnWorker'
  BY <1>2, <1>3, <1>4 DEF DeliveryInv, OwnWorker, Served
<1>6. OwnAnswer'
  BY <1>3 DEF DeliveryInv, OwnAnswer
<1>7. Taken'
  <2>1. \A d \in Callers : call'[d] \in {"succeeded", "failed"} => worker'[d] \in Workers
    BY <1>2 DEF DeliveryInv, OwnWorker, Served
  <2> QED  BY <2>1, <1>3, <1>4 DEF DeliveryInv, Taken
<1> QED  BY <1>5, <1>6, <1>7 DEF DeliveryInv

LEMMA ThreadDelivery ==
  ASSUME TypeOK, DeliveryInv, NEW w \in Workers,
         ServerAnswers(w) \/ Put(w) \/ Collect(w)
  PROVE  DeliveryInv'
<1>1. UNCHANGED <<call, worker>>
  BY DEF ServerAnswers, Put, Collect
<1>2. \A v \in Workers \ {w} :
        thread'[v] = thread[v] /\ answer'[v] = answer[v] /\ queue'[v] = queue[v]
  BY DEF TypeOK, ServerAnswers, Put, Collect
<1>3. CASE ServerAnswers(w)
  <2>1. thread[w] = "sending" /\ thread'[w] = "putting" /\ queue'[w] = queue[w]
    BY <1>3 DEF TypeOK, ServerAnswers
  <2> QED  BY <1>1, <1>2, <2>1 DEF DeliveryInv, OwnWorker, OwnAnswer, Taken, Served
<1>4. CASE Put(w)
  <2>1. /\ thread[w] = "putting" /\ thread'[w] = "ended"
        /\ queue'[w] = answer[w] /\ answer'[w] = answer[w]
    BY <1>4 DEF TypeOK, Put
  <2> QED  BY <1>1, <1>2, <2>1 DEF DeliveryInv, OwnWorker, OwnAnswer, Taken, Served
<1>5. CASE Collect(w)
  <2>1. (\A c \in Callers : worker[c] # w) /\ queue'[w] = Empty
    BY <1>5 DEF TypeOK, Collect
  <2>2. \A c \in Callers : call[c] \in {"succeeded", "failed"} => worker[c] \in Workers \ {w}
    BY <2>1 DEF DeliveryInv, OwnWorker, Served
  <2> QED  BY <1>1, <1>2, <2>1, <2>2 DEF DeliveryInv, OwnWorker, OwnAnswer, Taken
<1> QED  BY <1>3, <1>4, <1>5

LEMMA DeliveryStep == TypeOK /\ DeliveryInv /\ [Next]_vars => DeliveryInv'
<1> SUFFICES ASSUME TypeOK, DeliveryInv, [Next]_vars
             PROVE  DeliveryInv'
  OBVIOUS
<1>1. ASSUME NEW c \in Callers, TimeOut(c)  PROVE DeliveryInv'
  BY <1>1 DEF TypeOK, TimeOut, DeliveryInv, OwnWorker, OwnAnswer, Taken, Served
<1>2. CASE UNCHANGED vars
  BY <1>2 DEF vars, DeliveryInv, OwnWorker, OwnAnswer, Taken
<1> QED
  BY <1>1, <1>2, SendDelivery, TakeDelivery, RecordDelivery, CrashDelivery,
     ThreadDelivery DEF Next, CallStep

LEMMA DeliverySafe == Spec => [](TypeOK /\ DeliveryInv)
<1>1. Init => DeliveryInv
  BY CallerAssumption DEF Init, DeliveryInv, OwnWorker, OwnAnswer, Taken, Served
<1> QED  BY <1>1, DeliveryStep, TypeCorrect, PTL DEF Spec

\* The outcome a call reports is the one its own mail had, whatever threads that
\* were given up answer in the meantime and whichever processes die.
THEOREM OutcomesAreOwn == Spec => []OutcomeIsOwn
<1>1. DeliveryInv => OutcomeIsOwn
  BY DEF DeliveryInv, Taken, OutcomeIsOwn
<1> QED  BY <1>1, DeliverySafe, PTL

(***************************************************************************)
(* Nobody waits for ever: what SendsEnd and WorkersEnd are true by.         *)
(***************************************************************************)

\* The queue of a thread that is about to put its answer has room, although its
\* caller may have stopped listening; a caller that waits has a thread to wait for,
\* so that either its queue or its timeout lets it go on.
NobodyBlocks ==
  /\ \A w \in Workers : thread[w] = "putting" => queue[w] = Empty
  /\ \A c \in Callers : call[c] = "waiting" => worker[c] \in Workers

\* What send_email has yet to do once the thread is started: to take the outcome or
\* give it up, and to record it.
CallLeft(c) == IF call[c] = "idle" THEN 0 ELSE IF call[c] = "waiting" THEN 2 ELSE 1

\* Only a new mail gives a caller more to do.
CallIsSpent ==
  [][\A c \in Callers :
       /\ CallStep(c) => CallLeft(c)' < CallLeft(c)
       /\ CallLeft(c)' > CallLeft(c) => Send(c)]_vars

LEMMA SpentStep ==
  ASSUME TypeOK, Next, NEW c \in Callers
  PROVE  /\ CallStep(c) => CallLeft(c)' < CallLeft(c)
         /\ CallLeft(c)' > CallLeft(c) => Send(c)
<1> USE DEF CallLeft
<1>1. CallStep(c) => CallLeft(c)' < CallLeft(c)
  BY DEF TypeOK, CallStep, Take, Settle, TimeOut, Record
<1>2. ASSUME NEW d \in Callers, d # c, Send(d) \/ CallStep(d)
      PROVE  call'[c] = call[c]
  BY <1>2 DEF TypeOK, Send, CallStep, Take, Settle, TimeOut, Record
<1>3. ASSUME NEW d \in Callers, Crash(d)
      PROVE  call'[c] \in {call[c], "idle"}
  BY <1>3 DEF TypeOK, Crash
<1>4. ASSUME NEW w \in Workers, ServerAnswers(w) \/ Put(w) \/ Collect(w)
      PROVE  call'[c] = call[c]
  BY <1>4 DEF ServerAnswers, Put, Collect
<1> QED
  BY <1>1, <1>2, <1>3, <1>4 DEF Next

\* A mail holds nobody up: whatever threads were given up, answer late or die, a
\* delivery thread never waits for room in its queue, and a caller is two steps from
\* the end of its call, which nothing but its next mail makes longer.
THEOREM NobodyIsHeldUp == Spec => []NobodyBlocks /\ CallIsSpent
<1>1. TypeOK /\ DeliveryInv => NobodyBlocks
  BY DEF DeliveryInv, OwnAnswer, OwnWorker, Served, NobodyBlocks
<1>2. TypeOK /\ [Next]_vars =>
        [\A c \in Callers :
           /\ CallStep(c) => CallLeft(c)' < CallLeft(c)
           /\ CallLeft(c)' > CallLeft(c) => Send(c)]_vars
  BY SpentStep
<1> QED  BY <1>1, <1>2, DeliverySafe, PTL DEF Spec, CallIsSpent

=============================================================================
