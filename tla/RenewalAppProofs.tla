-------------------------- MODULE RenewalAppProofs --------------------------
(***************************************************************************)
(* Safety of RenewalApp for any number of processes and every value of the  *)
(* constants: type correctness, the run lock, and the failure mails.        *)
(***************************************************************************)
EXTENDS RenewalApp, SchedulingProofs

Actions(p) ==
  \/ Step(p) \/ Start(p) \/ Fire(p) \/ Misfire(p) \/ Crash(p) \/ Interrupt(p)

(***************************************************************************)
(* Type correctness.                                                        *)
(***************************************************************************)

LEMMA FreshCallType ==
  ASSUME NEW caller \in {"main", "job"}
  PROVE  FreshCall(caller) \in Locals
BY DEF FreshCall, Locals, OptTime

\* Every mutation that state_store.py applies keeps the document well formed.
LEMMA DocumentType ==
  ASSUME NEW d \in Document, NEW date \in OptTime
  PROVE  /\ RecordRunStarted(d) \in Document
         /\ RecordFailure(d) \in Document
         /\ RecordSuccess(d, date) \in Document
         /\ RecordNextCheck(d, date) \in Document
         /\ RecordRetryFailure(d) \in Document
         /\ RecordRetryScheduled(d, date) \in Document
<1>1. RecordRunStarted(d) \in Document
  BY DEF Document, RecordRunStarted
<1>2. RecordFailure(d) \in Document
  BY DEF Document, RecordFailure
<1>3. RecordSuccess(d, date) \in Document
  BY DEF Document, RecordSuccess, DefaultState, OptTime
<1>4. RecordNextCheck(d, date) \in Document
  BY DEF Document, RecordNextCheck
<1>5. RecordRetryFailure(d) \in Document
  <2>1. d.failures + 1 \in Nat
    BY DEF Document
  <2>2. RecordRetryFailure(d) =
          [d EXCEPT !.failures = d.failures + 1, !.nextRetry = None, !.lastError = TRUE]
    BY DEF RecordRetryFailure
  <2>3. QED
    BY <2>1, <2>2 DEF Document, OptTime
<1>6. RecordRetryScheduled(d, date) \in Document
  BY DEF Document, RecordRetryScheduled
<1>7. QED
  BY <1>1, <1>2, <1>3, <1>4, <1>5, <1>6

LEMMA InitTypeOK == Init => TypeOK
<1>1. DefaultState \in Document
  BY DEF DefaultState, Document, OptTime
<1>2. FreshCall("main") \in Locals
  BY FreshCallType
<1>3. QED
  BY <1>1, <1>2 DEF Init, TypeOK, Phase, OptTime, Time

\* The parts of a step that leave a call, keep or lose a job, or fail to use
\* the state file.
LEMMA LeaveType ==
  ASSUME TypeOK, NEW p \in Procs, NEW raised \in BOOLEAN, Leave(p, raised)
  PROVE  pc' \in [Procs -> Phase] /\ run' \in [Procs -> Locals]
BY FreshCallType DEF TypeOK, Leave, Become, Phase

LEMMA KeepsType ==
  ASSUME TypeOK, NEW p \in Procs, NEW raised \in BOOLEAN, NEW date \in OptTime,
         Keeps(p, raised, date)
  PROVE  job' \in [Procs -> OptTime]
BY DEF TypeOK, Keeps, OptTime

LEMMA StoreFailsType ==
  ASSUME TypeOK, StoreFails
  PROVE  disk' \in Document /\ faults' \in Nat
BY DEF TypeOK, StoreFails

LEMMA WritesType ==
  ASSUME TypeOK, NEW d \in Document, Writes(d)
  PROVE  disk' \in Document /\ faults' \in Nat
BY DEF TypeOK, Writes

LEMMA EscapeType ==
  ASSUME TypeOK, NEW p \in Procs, NEW date \in OptTime, Escape(p, date)
  PROVE  /\ disk' \in Document /\ faults' \in Nat
         /\ pc' \in [Procs -> Phase] /\ run' \in [Procs -> Locals]
         /\ job' \in [Procs -> OptTime]
         /\ runLock' \in Procs \union {NoProc} /\ lastCheck' \in Time
BY LeaveType, KeepsType, StoreFailsType DEF Escape, Releases, TypeOK

LEMMA DiesType ==
  ASSUME TypeOK, NEW p \in Procs, Dies(p)
  PROVE  /\ pc' \in [Procs -> Phase] /\ run' \in [Procs -> Locals]
         /\ job' \in [Procs -> OptTime]
         /\ runLock' \in Procs \union {NoProc} /\ lastCheck' \in Time
BY FreshCallType DEF Dies, Become, Forgets, Releases, TypeOK, Phase, OptTime

LEMMA BootTypeOK ==
  ASSUME TypeOK, NEW p \in Procs, BootLoad(p) \/ BootSave(p)
  PROVE  TypeOK'
<1>1. CASE BootLoad(p)
  <2> DEFINE restored == FutureCheck(disk.nextCheck, now)
             capped   == CapFutureCheck(restored, now)
  <2>1. disk.nextCheck \in OptTime /\ now \in Nat
    BY DEF TypeOK, Document, Time
  <2>2. restored \in OptTime /\ capped \in OptTime
    BY <2>1, RestoredCheckRange
  <2>3. CASE capped # restored /\ Become(p, "bootSave")
             /\ run' = [run EXCEPT ![p].restored = capped]
             /\ UNCHANGED <<job, disk, faults>>
    BY <1>1, <2>2, <2>3 DEF BootLoad, TypeOK, Become, Phase, Locals
  <2>4. CASE Dispatch(p, restored) /\ UNCHANGED <<run, disk, faults>>
    BY <1>1, <2>2, <2>4 DEF BootLoad, TypeOK, Dispatch, Become, Phase
  <2>5. CASE StoreFails /\ Become(p, "down") /\ UNCHANGED <<job, run>>
    BY <1>1, <2>5, StoreFailsType DEF BootLoad, TypeOK, Become, Phase
  <2>6. QED
    BY <1>1, <2>3, <2>4, <2>5 DEF BootLoad
<1>2. CASE BootSave(p)
  <2>1. run[p].restored \in OptTime
    BY DEF TypeOK, Locals
  <2>2. RecordNextCheck(disk, run[p].restored) \in Document
    BY <2>1, DocumentType DEF TypeOK
  <2>3. CASE /\ Writes(RecordNextCheck(disk, run[p].restored))
             /\ Dispatch(p, run[p].restored)
             /\ run' = [run EXCEPT ![p].restored = None]
    <3>1. disk' \in Document /\ faults' \in Nat
      BY <2>2, <2>3, WritesType
    <3>2. run' \in [Procs -> Locals]
      BY <2>3 DEF TypeOK, Locals, OptTime
    <3>3. pc' \in [Procs -> Phase] /\ job' \in [Procs -> OptTime]
      BY <2>1, <2>3 DEF TypeOK, Dispatch, Become, Phase
    <3>4. QED
      BY <1>2, <3>1, <3>2, <3>3 DEF BootSave, TypeOK
  <2>4. CASE /\ StoreFails /\ Become(p, "down") /\ UNCHANGED job
             /\ run' = [run EXCEPT ![p] = FreshCall("main")]
    BY <1>2, <2>4, StoreFailsType, FreshCallType DEF BootSave, TypeOK, Become, Phase
  <2>5. QED
    BY <1>2, <2>3, <2>4 DEF BootSave
<1>3. QED
  BY <1>1, <1>2

LEMMA CallTypeOK ==
  ASSUME TypeOK, NEW p \in Procs, Load(p) \/ Acquire(p) \/ Launch(p)
  PROVE  TypeOK'
<1>1. CASE Load(p)
  <2>1. disk.failures \in Nat /\ job[p] \in OptTime
    BY DEF TypeOK, Document
  <2>2. CASE Become(p, "acquire") /\ run' = [run EXCEPT ![p].seen = disk.failures]
             /\ UNCHANGED <<job, disk, faults>>
    BY <1>1, <2>1, <2>2 DEF Load, TypeOK, Become, Phase, LockedPhase, Locals
  <2>3. CASE StoreFails /\ Leave(p, TRUE) /\ Keeps(p, TRUE, job[p])
    BY <1>1, <2>1, <2>3, StoreFailsType, LeaveType, KeepsType DEF Load, TypeOK
  <2>4. QED
    BY <1>1, <2>2, <2>3 DEF Load
<1>2. CASE Acquire(p)
  <2>1. job[p] \in OptTime
    BY DEF TypeOK
  <2>2. CASE runLock' = p /\ Become(p, "launch") /\ UNCHANGED <<job, run>>
    BY <1>2, <2>2 DEF Acquire, TypeOK, Become, Phase, LockedPhase
  <2>3. CASE Leave(p, TRUE) /\ Keeps(p, TRUE, job[p]) /\ UNCHANGED runLock
    BY <1>2, <2>1, <2>3, LeaveType, KeepsType DEF Acquire, TypeOK
  <2>4. QED
    BY <1>2, <2>2, <2>3 DEF Acquire
<1>3. CASE Launch(p)
  <2>1. disk' \in Document /\ faults' \in Nat
    <3>1. RecordRunStarted(disk) \in Document /\ RecordFailure(disk) \in Document
      BY DocumentType DEF TypeOK, OptTime
    <3>2. QED
      BY <1>3, <3>1, WritesType, StoreFailsType DEF Launch
  <2>2. pc' \in [Procs -> Phase]
    BY <1>3 DEF Launch, TypeOK, Become, Phase, LockedPhase
  <2>3. QED
    BY <1>3, <2>1, <2>2 DEF Launch, TypeOK
<1>4. QED
  BY <1>1, <1>2, <1>3

LEMMA RobotTypeOK ==
  ASSUME TypeOK, NEW p \in Procs,
         RunFails(p) \/ \E days \in RenewalDays : RunSucceeds(p, days)
  PROVE  TypeOK'
<1>1. CASE RunFails(p)
  <2>1. RecordFailure(disk) \in Document
    BY DocumentType DEF TypeOK, OptTime
  <2>2. disk' \in Document /\ faults' \in Nat
    BY <1>1, <2>1, WritesType, StoreFailsType DEF RunFails
  <2>3. QED
    BY <1>1, <2>2 DEF RunFails, TypeOK, Become, Phase, LockedPhase
<1>2. ASSUME NEW days \in RenewalDays, RunSucceeds(p, days)
      PROVE  TypeOK'
  <2> DEFINE date == IF days # 0 THEN now + days * DayTicks ELSE None
  <2>1. days \in Nat /\ now \in Nat /\ DayTicks \in Nat
    BY RobotAssumption, DayAssumption DEF TypeOK, Time
  <2>2. days * DayTicks \in Nat
    BY <2>1
  <2>3. date \in OptTime
    BY <2>1, <2>2 DEF OptTime
  <2>4. disk' \in Document /\ faults' \in Nat
    <3>1. RecordSuccess(disk, date) \in Document
      BY <2>3, DocumentType DEF TypeOK
    <3>2. QED
      BY <1>2, <3>1, WritesType DEF RunSucceeds
  <2>5. run' \in [Procs -> Locals]
    <3>1. disk.failures \in Nat
      BY DEF TypeOK, Document
    <3>2. [run[p] EXCEPT !.renewal = days, !.erased = disk.failures] \in Locals
      BY <2>1, <3>1 DEF TypeOK, Locals
    <3>3. QED
      BY <1>2, <3>2 DEF RunSucceeds, TypeOK
  <2>6. pc' \in [Procs -> Phase]
    BY <1>2 DEF RunSucceeds, TypeOK, Become, Phase, LockedPhase
  <2>7. alerted' \in SUBSET Nat
    BY <1>2 DEF RunSucceeds
  <2>8. QED
    BY <1>2, <2>4, <2>5, <2>6, <2>7 DEF RunSucceeds, TypeOK
<1>3. QED
  BY <1>1, <1>2

LEMMA FailureTypeOK ==
  ASSUME TypeOK, NEW p \in Procs,
         CountFailure(p) \/ ScheduleRetry(p) \/ FinishFailed(p)
  PROVE  TypeOK'
<1> USE DEF LockedPhase, Phase
<1>1. CASE CountFailure(p)
  <2>1. job[p] \in OptTime /\ disk \in Document
    BY DEF TypeOK
  <2>2. CASE Escape(p, job[p])
    BY <1>1, <2>1, <2>2, EscapeType DEF CountFailure, TypeOK
  <2>3. CASE /\ Writes(RecordRetryFailure(disk))
             /\ run' = [run EXCEPT ![p].count = disk.failures + 1]
             /\ Become(p, "retry")
             /\ UNCHANGED <<job, runLock, lastCheck>>
    <3>1. RecordRetryFailure(disk) \in Document
      BY <2>1, DocumentType DEF OptTime
    <3>2. disk' \in Document /\ faults' \in Nat
      BY <2>3, <3>1, WritesType
    <3>3. disk.failures + 1 \in Nat
      BY <2>1 DEF Document
    <3>4. run' \in [Procs -> Locals]
      BY <2>3, <3>3 DEF TypeOK, Locals
    <3>5. QED
      BY <1>1, <2>3, <3>2, <3>4 DEF CountFailure, TypeOK, Become
  <2>4. QED
    BY <1>1, <2>2, <2>3 DEF CountFailure
<1>2. CASE ScheduleRetry(p)
  <2>1. PICK jitter \in Jitters :
          LET retryDate == now + RetryDelay(run[p].count, jitter)
          IN  \/ /\ Writes(RecordRetryScheduled(disk, retryDate))
                 /\ job' = [job EXCEPT ![p] = retryDate]
                 /\ Become(p, "alert")
                 /\ UNCHANGED <<run, runLock, lastCheck>>
              \/ Escape(p, retryDate)
    BY <1>2 DEF ScheduleRetry
  <2> DEFINE retryDate == now + RetryDelay(run[p].count, jitter)
  <2>2. retryDate \in OptTime
    <3>1. run[p].count \in Int /\ jitter \in Int /\ now \in Nat
      BY RetryAssumption DEF TypeOK, Locals, Time
    <3>2. RetryDelay(run[p].count, jitter) \in Nat
      BY <3>1, RetryDelayFloor
    <3>3. QED
      BY <3>1, <3>2 DEF OptTime
  <2>3. RecordRetryScheduled(disk, retryDate) \in Document
    BY <2>2, DocumentType DEF TypeOK
  <2> HIDE DEF retryDate
  <2>4. CASE Escape(p, retryDate)
    BY <1>2, <2>2, <2>4, EscapeType DEF ScheduleRetry, TypeOK
  <2>5. CASE /\ Writes(RecordRetryScheduled(disk, retryDate))
             /\ job' = [job EXCEPT ![p] = retryDate]
             /\ Become(p, "alert")
             /\ UNCHANGED <<run, runLock, lastCheck>>
    <3>1. disk' \in Document /\ faults' \in Nat
      BY <2>3, <2>5, WritesType
    <3>2. QED
      BY <1>2, <2>2, <2>5, <3>1 DEF ScheduleRetry, TypeOK, Become
  <2>6. QED
    BY <2>1, <2>4, <2>5 DEF retryDate
<1>3. CASE FinishFailed(p)
  <2>1. alerted' \in SUBSET Nat
    BY <1>3 DEF FinishFailed, TypeOK, Locals
  <2>2. /\ pc' \in [Procs -> Phase] /\ run' \in [Procs -> Locals]
        /\ job' \in [Procs -> OptTime]
    <3>1. job[p] \in OptTime
      BY DEF TypeOK
    <3>2. Leave(p, TRUE) /\ Keeps(p, TRUE, job[p])
      BY <1>3 DEF FinishFailed
    <3>3. QED
      BY <3>1, <3>2, LeaveType, KeepsType
  <2>3. QED
    BY <1>3, <2>1, <2>2 DEF FinishFailed, Releases, TypeOK
<1>4. QED
  BY <1>1, <1>2, <1>3

LEMMA SuccessTypeOK ==
  ASSUME TypeOK, NEW p \in Procs, ScheduleNextCheck(p) \/ FinishSucceeded(p)
  PROVE  TypeOK'
<1> USE DEF LockedPhase, Phase
<1>1. CASE ScheduleNextCheck(p)
  <2>1. PICK fallback \in Fallbacks, slot \in CheckSlots :
          LET delay     == DaysUntilCheck(run[p].renewal, fallback)
              nextCheck == NextCheckAt(now, delay, slot)
          IN  \/ /\ Writes(RecordNextCheck(disk, nextCheck))
                 /\ job' = [job EXCEPT ![p] = nextCheck]
                 /\ Become(p, "announce")
                 /\ UNCHANGED <<run, runLock, lastCheck>>
              \/ Escape(p, nextCheck)
    BY <1>1 DEF ScheduleNextCheck
  <2> DEFINE nextCheck == NextCheckAt(now, DaysUntilCheck(run[p].renewal, fallback), slot)
  <2>2. nextCheck \in OptTime
    <3>1. run[p].renewal \in Int /\ fallback \in Int /\ now \in Nat
      BY RobotAssumption DEF TypeOK, Locals, Time
    <3>2. DaysUntilCheck(run[p].renewal, fallback) \in 1 .. MaxDays
      BY <3>1, DaysUntilCheckRange
    <3>3. QED
      BY <3>1, <3>2, NextCheckRange DEF OptTime
  <2>3. RecordNextCheck(disk, nextCheck) \in Document
    BY <2>2, DocumentType DEF TypeOK
  <2> HIDE DEF nextCheck
  <2>4. CASE Escape(p, nextCheck)
    BY <1>1, <2>2, <2>4, EscapeType DEF ScheduleNextCheck, TypeOK
  <2>5. CASE /\ Writes(RecordNextCheck(disk, nextCheck))
             /\ job' = [job EXCEPT ![p] = nextCheck]
             /\ Become(p, "announce")
             /\ UNCHANGED <<run, runLock, lastCheck>>
    <3>1. disk' \in Document /\ faults' \in Nat
      BY <2>3, <2>5, WritesType
    <3>2. QED
      BY <1>1, <2>2, <2>5, <3>1 DEF ScheduleNextCheck, TypeOK, Become
  <2>6. QED
    BY <2>1, <2>4, <2>5 DEF nextCheck
<1>2. CASE FinishSucceeded(p)
  <2>1. job[p] \in OptTime
    BY DEF TypeOK
  <2>2. Leave(p, FALSE) /\ Keeps(p, FALSE, job[p])
    BY <1>2 DEF FinishSucceeded
  <2>3. QED
    BY <1>2, <2>1, <2>2, LeaveType, KeepsType DEF FinishSucceeded, Releases, TypeOK
<1>3. QED
  BY <1>1, <1>2

LEMMA ProcessTypeOK ==
  ASSUME TypeOK, NEW p \in Procs,
         Start(p) \/ Fire(p) \/ Misfire(p) \/ Crash(p) \/ Interrupt(p)
  PROVE  TypeOK'
<1> USE DEF Phase
<1>1. CASE Start(p)
  BY <1>1, FreshCallType DEF Start, TypeOK, Become
<1>2. CASE Fire(p)
  BY <1>2, FreshCallType DEF Fire, TypeOK, Become, Forgets, OptTime
<1>3. CASE Misfire(p)
  BY <1>3 DEF Misfire, TypeOK, Forgets, OptTime
<1>4. CASE Crash(p)
  BY <1>4, DiesType DEF Crash, TypeOK
<1>5. CASE Interrupt(p)
  <2>1. CASE Dies(p)
    BY <1>5, <2>1, DiesType DEF Interrupt, TypeOK
  <2>2. CASE /\ run' = [run EXCEPT ![p].stopping = TRUE]
             /\ UNCHANGED <<pc, job, runLock, lastCheck>>
    BY <1>5, <2>2 DEF Interrupt, TypeOK, Locals
  <2>3. QED
    BY <1>5, <2>1, <2>2 DEF Interrupt
<1>6. QED
  BY <1>1, <1>2, <1>3, <1>4, <1>5

LEMMA NextTypeOK ==
  ASSUME TypeOK, [Next]_vars
  PROVE  TypeOK'
<1>1. ASSUME NEW p \in Procs, Actions(p)
      PROVE  TypeOK'
  BY <1>1, BootTypeOK, CallTypeOK, RobotTypeOK, FailureTypeOK, SuccessTypeOK,
     ProcessTypeOK DEF Actions, Step
<1>2. CASE Tick
  BY <1>2 DEF Tick, TypeOK, Time
<1>3. CASE Suspend
  BY <1>3 DEF Suspend, TypeOK, Time
<1>4. CASE UNCHANGED vars
  BY <1>4 DEF vars, TypeOK
<1>5. QED
  BY <1>1, <1>2, <1>3, <1>4 DEF Next, Actions

\* Whatever processes share the volume and whatever fails, the state file
\* holds a well-formed document and every date and count has its type.
THEOREM TypeCorrect == Spec => []TypeOK
BY InitTypeOK, NextTypeOK, PTL DEF Spec

(***************************************************************************)
(* The run lock.                                                            *)
(***************************************************************************)

LEMMA MoveInside ==
  ASSUME TypeOK, LockInv, NEW p \in Procs, NEW phase,
         Become(p, phase), runLock' = runLock,
         pc[p] \in LockedPhase <=> phase \in LockedPhase
  PROVE  LockInv'
BY DEF TypeOK, LockInv, Become

LEMMA LetGo ==
  ASSUME TypeOK, LockInv, NEW p \in Procs, NEW raised, Leave(p, raised),
         Releases, pc[p] \in LockedPhase
  PROVE  LockInv'
BY ProcAssumption DEF TypeOK, LockInv, Leave, Become, Releases, LockedPhase

LEMMA LeaveOutside ==
  ASSUME TypeOK, LockInv, NEW p \in Procs, NEW raised, Leave(p, raised),
         runLock' = runLock, pc[p] \notin LockedPhase
  PROVE  LockInv'
BY DEF TypeOK, LockInv, Leave, Become, LockedPhase

LEMMA DiesUnlocks ==
  ASSUME TypeOK, LockInv, NEW p \in Procs, Dies(p)
  PROVE  LockInv'
BY ProcAssumption DEF TypeOK, LockInv, Dies, Become, Releases, LockedPhase

LEMMA LockStep ==
  ASSUME TypeOK, LockInv, NEW p \in Procs, Actions(p)
  PROVE  LockInv'
<1> USE DEF LockedPhase, At
<1>1. CASE Start(p)
  BY <1>1, MoveInside DEF Start
<1>2. CASE BootLoad(p)
  BY <1>2, MoveInside DEF BootLoad, Dispatch
<1>3. CASE BootSave(p)
  BY <1>3, MoveInside DEF BootSave, Dispatch
<1>4. CASE Load(p)
  BY <1>4, MoveInside, LeaveOutside DEF Load
<1>5. CASE Acquire(p)
  <2>1. CASE runLock = NoProc /\ runLock' = p /\ Become(p, "launch")
    BY <1>5, <2>1, ProcAssumption DEF Acquire, TypeOK, LockInv, Become
  <2>2. CASE Leave(p, TRUE) /\ UNCHANGED runLock
    BY <1>5, <2>2, LeaveOutside DEF Acquire
  <2>3. QED
    BY <1>5, <2>1, <2>2 DEF Acquire
<1>6. CASE Launch(p)
  BY <1>6, MoveInside DEF Launch
<1>7. ASSUME NEW days \in RenewalDays, RunSucceeds(p, days)
      PROVE  LockInv'
  BY <1>7, MoveInside DEF RunSucceeds
<1>8. CASE RunFails(p)
  BY <1>8, MoveInside DEF RunFails
<1>9. CASE CountFailure(p)
  BY <1>9, MoveInside, LetGo DEF CountFailure, Escape
<1>10. CASE ScheduleRetry(p)
  BY <1>10, MoveInside, LetGo DEF ScheduleRetry, Escape
<1>11. CASE FinishFailed(p)
  BY <1>11, LetGo DEF FinishFailed
<1>12. CASE ScheduleNextCheck(p)
  BY <1>12, MoveInside, LetGo DEF ScheduleNextCheck, Escape
<1>13. CASE FinishSucceeded(p)
  BY <1>13, LetGo DEF FinishSucceeded
<1>14. CASE Fire(p)
  BY <1>14, MoveInside DEF Fire
<1>15. CASE Misfire(p)
  BY <1>15 DEF Misfire, LockInv
<1>16. CASE Crash(p)
  BY <1>16, DiesUnlocks DEF Crash
<1>17. CASE Interrupt(p)
  <2>1. CASE Dies(p)
    BY <2>1, DiesUnlocks
  <2>2. CASE UNCHANGED <<pc, job, runLock, lastCheck>>
    BY <2>2 DEF LockInv
  <2>3. QED
    BY <1>17, <2>1, <2>2 DEF Interrupt
<1>18. QED
  BY <1>1, <1>2, <1>3, <1>4, <1>5, <1>6, <1>7, <1>8, <1>9, <1>10, <1>11, <1>12,
     <1>13, <1>14, <1>15, <1>16, <1>17 DEF Actions, Step

LEMMA NextLockInv ==
  ASSUME TypeOK, LockInv, [Next]_vars
  PROVE  LockInv'
<1>1. CASE UNCHANGED <<pc, runLock>>
  BY <1>1 DEF LockInv
<1>2. QED
  BY <1>1, LockStep DEF Next, Actions, Tick, Suspend, vars

\* A process is between "lock acquired" and the finally of update_hosts if and
\* only if it holds the run lock: on every way out, and after a crash, the lock
\* is free again.
THEOREM RunLockSafe == Spec => []LockInv
<1>1. Init => LockInv
  BY ProcAssumption DEF Init, LockInv, LockedPhase
<1>2. QED
  BY <1>1, TypeCorrect, NextLockInv, PTL DEF Spec

\* Hence two runs of the robot never overlap.
COROLLARY RunsAlone ==
  Spec => [](\A p, q \in Procs : pc[p] \in LockedPhase /\ pc[q] \in LockedPhase => p = q)
<1>1. LockInv =>
        \A p, q \in Procs : pc[p] \in LockedPhase /\ pc[q] \in LockedPhase => p = q
  BY DEF LockInv
<1>2. QED
  BY <1>1, RunLockSafe, PTL

(***************************************************************************)
(* The failure count and the failure mails.  Seen from here every step of a *)
(* process is of one of four kinds, and leaves the other processes alone.   *)
(***************************************************************************)

Reporting == {"retry", "alert"}

Others(p) == \A q \in Procs \ {p} : pc'[q] = pc[q] /\ run'[q].count = run[q].count

\* Neither the count of failures nor the mails change, and p does not begin to
\* report a failure.
Quiet(p) ==
  /\ disk'.failures = disk.failures
  /\ alerted' = alerted
  /\ pc'[p] \in Reporting => pc[p] \in Reporting /\ run'[p].count = run[p].count

Counts(p) ==
  /\ At(p, "failed")
  /\ disk'.failures = disk.failures + 1
  /\ run'[p].count = disk.failures + 1
  /\ alerted' = alerted

Succeeds(p) ==
  /\ At(p, "work")
  /\ alerted' = {} /\ disk'.failures \in Nat
  /\ pc'[p] \notin Reporting

Mails(p) ==
  /\ At(p, "alert")
  /\ disk'.failures = disk.failures
  /\ alerted' \subseteq alerted \union {run[p].count}
  /\ pc'[p] \notin Reporting

Kinds(p) == Others(p) /\ (Quiet(p) \/ Counts(p) \/ Succeeds(p) \/ Mails(p))

\* What the writes of the document do to the failure count.
LEMMA FailuresKept ==
  ASSUME NEW d \in Document, NEW date \in OptTime
  PROVE  /\ RecordRunStarted(d).failures = d.failures
         /\ RecordFailure(d).failures = d.failures
         /\ RecordNextCheck(d, date).failures = d.failures
         /\ RecordRetryScheduled(d, date).failures = d.failures
         /\ RecordRetryFailure(d).failures = d.failures + 1
         /\ RecordSuccess(d, date).failures = 0
<1>1. RecordRunStarted(d).failures = d.failures
  BY DEF Document, RecordRunStarted
<1>2. RecordFailure(d).failures = d.failures
  BY DEF Document, RecordFailure
<1>3. RecordNextCheck(d, date).failures = d.failures
  BY DEF Document, RecordNextCheck
<1>4. RecordRetryScheduled(d, date).failures = d.failures
  BY DEF Document, RecordRetryScheduled
<1>5. RecordRetryFailure(d).failures = d.failures + 1
  BY DEF Document, RecordRetryFailure
<1>6. RecordSuccess(d, date).failures = 0
  BY DEF Document, RecordSuccess, DefaultState
<1>7. QED
  BY <1>1, <1>2, <1>3, <1>4, <1>5, <1>6

LEMMA LeaveQuiet ==
  ASSUME TypeOK, NEW p \in Procs, NEW raised, Leave(p, raised)
  PROVE  Others(p) /\ pc'[p] \notin Reporting
BY DEF TypeOK, Leave, Become, Others, Reporting

LEMMA DiesQuiet ==
  ASSUME TypeOK, NEW p \in Procs, Dies(p)
  PROVE  Others(p) /\ pc'[p] \notin Reporting
BY DEF TypeOK, Dies, Become, Others, Reporting

LEMMA MoveQuiet ==
  ASSUME TypeOK, NEW p \in Procs, NEW phase, Become(p, phase),
         phase \notin Reporting,
         \A q \in Procs \ {p} : run'[q] = run[q]
  PROVE  Others(p) /\ pc'[p] \notin Reporting
BY DEF TypeOK, Become, Others

LEMMA EscapeQuiet ==
  ASSUME TypeOK, NEW p \in Procs, NEW date, Escape(p, date), alerted' = alerted
  PROVE  Others(p) /\ Quiet(p)
BY LeaveQuiet DEF Escape, StoreFails, Quiet

LEMMA StepKinds ==
  ASSUME TypeOK, NEW p \in Procs, Actions(p)
  PROVE  Kinds(p)
<1> USE DEF At
<1>a. disk \in Document /\ now \in Nat /\ \A q \in Procs : run[q] \in Locals
  BY DEF TypeOK, Time
<1>b. ASSUME NEW date \in OptTime, alerted' = alerted, pc'[p] \notin Reporting,
             \/ disk' = disk
             \/ Writes(RecordRunStarted(disk))
             \/ Writes(RecordFailure(disk))
             \/ Writes(RecordNextCheck(disk, date))
      PROVE  Quiet(p)
  BY <1>a, <1>b, FailuresKept DEF Quiet, Writes
<1>c. None \in OptTime
  BY DEF OptTime
<1>1. CASE Start(p)
  BY <1>1, <1>b, <1>c, MoveQuiet DEF Start, TypeOK, Kinds, Reporting
<1>2. CASE BootLoad(p)
  <2>1. \A q \in Procs \ {p} : run'[q] = run[q]
    BY <1>2 DEF BootLoad, TypeOK
  <2>2. \E phase \in {"bootSave", "serve", "load", "down"} : Become(p, phase)
    BY <1>2 DEF BootLoad, Dispatch
  <2>3. Others(p) /\ pc'[p] \notin Reporting
    BY <2>1, <2>2, MoveQuiet DEF Reporting
  <2>4. disk' = disk /\ alerted' = alerted
    BY <1>2 DEF BootLoad, StoreFails
  <2>5. QED
    BY <1>b, <1>c, <2>3, <2>4 DEF Kinds
<1>3. CASE BootSave(p)
  <2>1. \A q \in Procs \ {p} : run'[q] = run[q]
    BY <1>3 DEF BootSave, TypeOK
  <2>2. \E phase \in {"serve", "load", "down"} : Become(p, phase)
    BY <1>3 DEF BootSave, Dispatch
  <2>3. Others(p) /\ pc'[p] \notin Reporting
    BY <2>1, <2>2, MoveQuiet DEF Reporting
  <2>4. run[p].restored \in OptTime
    BY <1>a DEF Locals
  <2>5. /\ alerted' = alerted
        /\ disk' = disk \/ Writes(RecordNextCheck(disk, run[p].restored))
    BY <1>3 DEF BootSave, StoreFails
  <2>6. QED
    BY <1>b, <2>3, <2>4, <2>5 DEF Kinds
<1>4. CASE Load(p)
  <2>1. CASE Become(p, "acquire") /\ run' = [run EXCEPT ![p].seen = disk.failures]
             /\ UNCHANGED disk
    <3>1. \A q \in Procs \ {p} : run'[q] = run[q]
      BY <2>1 DEF TypeOK
    <3>2. QED
      BY <1>4, <1>b, <1>c, <2>1, <3>1, MoveQuiet DEF Load, Kinds, Reporting
  <2>2. CASE StoreFails /\ Leave(p, TRUE)
    BY <1>4, <1>b, <1>c, <2>2, LeaveQuiet DEF Load, StoreFails, Kinds
  <2>3. QED
    BY <1>4, <2>1, <2>2 DEF Load
<1>5. CASE Acquire(p)
  BY <1>5, <1>b, <1>c, LeaveQuiet, MoveQuiet DEF Acquire, Kinds, Reporting
<1>6. CASE Launch(p)
  <2>1. \E phase \in {"work", "failed"} : Become(p, phase)
    BY <1>6 DEF Launch
  <2>2. Others(p) /\ pc'[p] \notin Reporting
    BY <1>6, <2>1, MoveQuiet DEF Launch, Reporting
  <2>3. QED
    BY <1>6, <1>b, <1>c, <2>2 DEF Launch, StoreFails, Kinds
<1>7. ASSUME NEW days \in RenewalDays, RunSucceeds(p, days)
      PROVE  Kinds(p)
  <2> DEFINE date == IF days # 0 THEN now + days * DayTicks ELSE None
  <2>1. date \in OptTime
    <3>1. days \in Nat /\ DayTicks \in Nat
      BY RobotAssumption, DayAssumption
    <3>2. days * DayTicks \in Nat
      BY <3>1
    <3>3. QED
      BY <1>a, <3>2 DEF OptTime
  <2>2. disk'.failures = 0
    BY <1>7, <1>a, <2>1, FailuresKept DEF RunSucceeds, Writes
  <2>3. \A q \in Procs \ {p} : run'[q] = run[q]
    BY <1>7 DEF RunSucceeds, TypeOK
  <2>4. Others(p) /\ pc'[p] \notin Reporting
    BY <1>7, <2>3, MoveQuiet DEF RunSucceeds, Reporting
  <2>5. QED
    BY <1>7, <2>2, <2>4 DEF RunSucceeds, Succeeds, Kinds
<1>8. CASE RunFails(p)
  <2>1. Others(p) /\ pc'[p] \notin Reporting
    BY <1>8, MoveQuiet DEF RunFails, Reporting
  <2>2. QED
    BY <1>8, <1>b, <1>c, <2>1 DEF RunFails, StoreFails, Kinds
<1>9. CASE CountFailure(p)
  <2>1. CASE Escape(p, job[p])
    BY <1>9, <2>1, EscapeQuiet DEF CountFailure, Kinds
  <2>2. CASE /\ Writes(RecordRetryFailure(disk))
             /\ run' = [run EXCEPT ![p].count = disk.failures + 1]
             /\ Become(p, "retry")
    <3>1. disk'.failures = disk.failures + 1
      BY <1>a, <1>c, <2>2, FailuresKept DEF Writes
    <3>2. run'[p].count = disk.failures + 1
      BY <1>a, <2>2 DEF TypeOK, Locals
    <3>3. Others(p)
      BY <2>2 DEF Others, TypeOK, Become
    <3>4. QED
      BY <1>9, <3>1, <3>2, <3>3 DEF CountFailure, Counts, Kinds
  <2>3. QED
    BY <1>9, <2>1, <2>2 DEF CountFailure
<1>10. CASE ScheduleRetry(p)
  <2>1. PICK jitter \in Jitters :
          LET retryDate == now + RetryDelay(run[p].count, jitter)
          IN  \/ /\ Writes(RecordRetryScheduled(disk, retryDate))
                 /\ Become(p, "alert")
                 /\ UNCHANGED run
              \/ Escape(p, retryDate)
    BY <1>10 DEF ScheduleRetry
  <2> DEFINE retryDate == now + RetryDelay(run[p].count, jitter)
  <2>2. retryDate \in OptTime
    <3>1. run[p].count \in Int /\ jitter \in Int
      BY <1>a, RetryAssumption DEF Locals
    <3>2. RetryDelay(run[p].count, jitter) \in Nat
      BY <3>1, RetryDelayFloor
    <3>3. QED
      BY <1>a, <3>2 DEF OptTime
  <2> HIDE DEF retryDate
  <2>3. CASE Escape(p, retryDate)
    BY <1>10, <2>3, EscapeQuiet DEF ScheduleRetry, Kinds
  <2>4. CASE /\ Writes(RecordRetryScheduled(disk, retryDate))
             /\ Become(p, "alert")
             /\ UNCHANGED run
    <3>1. disk'.failures = disk.failures
      BY <1>a, <2>2, <2>4, FailuresKept DEF Writes
    <3>2. Quiet(p) /\ Others(p)
      BY <1>10, <2>4, <3>1
         DEF ScheduleRetry, Quiet, Others, TypeOK, Become, Reporting
    <3>3. QED
      BY <3>2 DEF Kinds
  <2>5. QED
    BY <2>1, <2>3, <2>4 DEF retryDate
<1>11. CASE FinishFailed(p)
  BY <1>11, LeaveQuiet DEF FinishFailed, Mails, Kinds
<1>12. CASE ScheduleNextCheck(p)
  <2>1. PICK fallback \in Fallbacks, slot \in CheckSlots :
          LET delay     == DaysUntilCheck(run[p].renewal, fallback)
              nextCheck == NextCheckAt(now, delay, slot)
          IN  \/ /\ Writes(RecordNextCheck(disk, nextCheck))
                 /\ Become(p, "announce")
                 /\ UNCHANGED run
              \/ Escape(p, nextCheck)
    BY <1>12 DEF ScheduleNextCheck
  <2> DEFINE nextCheck == NextCheckAt(now, DaysUntilCheck(run[p].renewal, fallback), slot)
  <2>2. nextCheck \in OptTime
    <3>1. run[p].renewal \in Int /\ fallback \in Int
      BY <1>a, RobotAssumption DEF Locals
    <3>2. DaysUntilCheck(run[p].renewal, fallback) \in 1 .. MaxDays
      BY <3>1, DaysUntilCheckRange
    <3>3. QED
      BY <1>a, <3>2, NextCheckRange DEF OptTime
  <2> HIDE DEF nextCheck
  <2>3. CASE Escape(p, nextCheck)
    BY <1>12, <2>3, EscapeQuiet DEF ScheduleNextCheck, Kinds
  <2>4. CASE /\ Writes(RecordNextCheck(disk, nextCheck))
             /\ Become(p, "announce")
             /\ UNCHANGED run
    <3>1. Others(p) /\ pc'[p] \notin Reporting
      BY <2>4, MoveQuiet DEF Reporting
    <3>2. QED
      BY <1>12, <1>b, <2>2, <2>4, <3>1 DEF ScheduleNextCheck, Kinds
  <2>5. QED
    BY <2>1, <2>3, <2>4 DEF nextCheck
<1>13. CASE FinishSucceeded(p)
  BY <1>13, <1>b, <1>c, LeaveQuiet DEF FinishSucceeded, Kinds
<1>14. CASE Fire(p)
  BY <1>14, <1>b, <1>c, MoveQuiet DEF Fire, TypeOK, Kinds, Reporting
<1>15. CASE Misfire(p)
  BY <1>15 DEF Misfire, Quiet, Others, Kinds
<1>16. CASE Crash(p)
  BY <1>16, <1>b, <1>c, DiesQuiet DEF Crash, Kinds
<1>17. CASE Interrupt(p)
  <2>1. CASE Dies(p)
    BY <1>17, <1>b, <1>c, <2>1, DiesQuiet DEF Interrupt, Kinds
  <2>2. CASE /\ run' = [run EXCEPT ![p].stopping = TRUE]
             /\ UNCHANGED <<pc, job, runLock, lastCheck>>
    <3>1. \A q \in Procs : run'[q].count = run[q].count
      BY <1>a, <2>2 DEF TypeOK, Locals
    <3>2. QED
      BY <1>17, <2>2, <3>1 DEF Interrupt, Quiet, Others, Kinds
  <2>3. QED
    BY <1>17, <2>1, <2>2 DEF Interrupt
<1>18. QED
  BY <1>1, <1>2, <1>3, <1>4, <1>5, <1>6, <1>7, <1>8, <1>9, <1>10, <1>11, <1>12,
     <1>13, <1>14, <1>15, <1>16, <1>17 DEF Actions, Step

AlertInv == CountIsCurrent /\ AlertOnce

LEMMA AlertStep ==
  ASSUME TypeOK, LockInv, AlertInv, NEW p \in Procs, Actions(p)
  PROVE  AlertInv'
<1> USE DEF At
<1>1. Kinds(p)
  BY StepKinds
<1>2. /\ disk.failures \in Nat /\ \A q \in Procs : run[q].count \in Nat
      /\ alerted \subseteq Nat
  BY DEF TypeOK, Document, Locals
<1>3. \* Only the holder of the lock reports, counts or succeeds.
      \A q \in Procs \ {p} :
        pc[p] \in LockedPhase => pc[q] \notin {"retry", "alert"}
  BY DEF LockInv, LockedPhase
<1>4. \A q \in Procs \ {p} : pc'[q] = pc[q] /\ run'[q].count = run[q].count
  BY <1>1 DEF Kinds, Others
<1>5. CASE Quiet(p)
  BY <1>4, <1>5 DEF Quiet, AlertInv, CountIsCurrent, AlertOnce, Reporting
<1>6. CASE Counts(p)
  <2>1. \A q \in Procs \ {p} : pc'[q] \notin {"retry", "alert"}
    BY <1>3, <1>4, <1>6 DEF Counts, LockedPhase
  <2>2. \A n \in alerted : n <= disk.failures
    BY DEF AlertInv, AlertOnce
  <2>3. CountIsCurrent'
    BY <1>6, <2>1 DEF Counts, CountIsCurrent
  <2>4. AlertOnce'
    <3>1. \A n \in alerted' : n <= disk'.failures /\ n # disk.failures + 1
      BY <1>2, <1>6, <2>2 DEF Counts
    <3>2. \A q \in Procs : pc'[q] \in {"retry", "alert"} =>
            run'[q].count = disk.failures + 1
      BY <1>6, <2>1 DEF Counts
    <3>3. QED
      BY <3>1, <3>2 DEF AlertOnce
  <2>5. QED
    BY <2>3, <2>4 DEF AlertInv
<1>7. CASE Succeeds(p)
  BY <1>3, <1>4, <1>7
     DEF Succeeds, AlertInv, CountIsCurrent, AlertOnce, LockedPhase, Reporting
<1>8. CASE Mails(p)
  <2>1. \A q \in Procs : pc'[q] \notin {"retry", "alert"}
    BY <1>3, <1>4, <1>8 DEF Mails, LockedPhase, Reporting
  <2>2. run[p].count = disk.failures /\ \A n \in alerted : n <= disk.failures
    BY <1>8 DEF Mails, AlertInv, CountIsCurrent, AlertOnce
  <2>3. \A n \in alerted' : n <= disk'.failures
    BY <1>2, <1>8, <2>2 DEF Mails
  <2>4. QED
    BY <2>1, <2>3 DEF AlertInv, CountIsCurrent, AlertOnce
<1>9. QED
  BY <1>1, <1>5, <1>6, <1>7, <1>8 DEF Kinds

LEMMA NextAlertInv ==
  ASSUME TypeOK, LockInv, AlertInv, [Next]_vars
  PROVE  AlertInv'
<1>1. CASE UNCHANGED <<disk, alerted, pc, run>>
  BY <1>1 DEF AlertInv, CountIsCurrent, AlertOnce
<1>2. QED
  BY <1>1, AlertStep DEF Next, Actions, Tick, Suspend, vars

LEMMA AlertInvariant == Spec => []AlertInv
<1>1. Init => AlertInv
  BY DEF Init, AlertInv, CountIsCurrent, AlertOnce
<1>2. QED
  BY <1>1, TypeCorrect, RunLockSafe, NextAlertInv, PTL DEF Spec

\* The count that a failure report works with is the one in the document, with
\* any number of processes loading, restoring and contending in between.
THEOREM ReportedCountIsCurrent == Spec => []CountIsCurrent
BY AlertInvariant, PTL DEF AlertInv

\* No failure of an outage is mailed twice, by any number of processes, across
\* any number of crashes, restarts and errors of the state file.
THEOREM AlertedOnce == Spec => []AlertOnce
BY AlertInvariant, PTL DEF AlertInv

(***************************************************************************)
(* The cap on pending jobs.                                                 *)
(***************************************************************************)

Within(date) ==
  date # None => \E slot \in CheckSlots : date <= now + MaxDays * DayTicks + slot

\* The date that run() has read, capped, and is about to write back, is within
\* the cap as well.
CapInv ==
  \A p \in Procs :
    /\ Within(job[p])
    /\ pc[p] = "bootSave" => Within(run[p].restored)

LEMMA CapArithmetic == MaxDays * DayTicks \in Nat
BY CheckAssumption, DayAssumption

LEMMA Postpones ==
  ASSUME NEW date \in OptTime, now \in Nat, now' \in Nat, now <= now', Within(date)
  PROVE  Within(date)'
<1> SUFFICES ASSUME date # None
             PROVE  \E slot \in CheckSlots : date <= now' + MaxDays * DayTicks + slot
  BY DEF Within
<1>1. PICK slot \in CheckSlots : date <= now + MaxDays * DayTicks + slot
  BY DEF Within
<1>2. date \in Nat /\ slot \in Nat
  BY CheckAssumption, NoneAssumption DEF OptTime, Time
<1>3. date <= now' + MaxDays * DayTicks + slot
  BY <1>1, <1>2, CapArithmetic
<1>4. QED
  BY <1>3

\* A step that leaves p with its job, with none, or with one within the cap.
LEMMA CapKept ==
  ASSUME CapInv, now' = now, NEW p \in Procs,
         \A q \in Procs \ {p} : job'[q] = job[q] /\ pc'[q] = pc[q] /\ run'[q] = run[q],
         job'[p] = job[p] \/ job'[p] = None \/ Within(job'[p]),
         pc'[p] # "bootSave"
  PROVE  CapInv'
BY DEF CapInv, Within

\* The same for a step in which p moves on, with its locals changed or not.
LEMMA CapMoves ==
  ASSUME TypeOK, CapInv, now' = now, NEW p \in Procs, NEW phase, NEW locals,
         Become(p, phase), phase # "bootSave",
         job' = job \/ Forgets(p),
         run' = run \/ run' = [run EXCEPT ![p] = locals]
  PROVE  CapInv'
<1>1. \A q \in Procs \ {p} : job'[q] = job[q] /\ pc'[q] = pc[q] /\ run'[q] = run[q]
  BY DEF TypeOK, Become, Forgets
<1>2. job'[p] = job[p] \/ job'[p] = None
  BY DEF TypeOK, Forgets
<1>3. pc'[p] # "bootSave"
  BY DEF TypeOK, Become
<1>4. QED
  BY <1>1, <1>2, <1>3, CapKept

LEMMA CapLeaves ==
  ASSUME TypeOK, CapInv, now' = now, NEW p \in Procs, NEW raised, NEW date,
         Leave(p, raised), Keeps(p, raised, date), date = job[p] \/ Within(date)
  PROVE  CapInv'
<1>1. \A q \in Procs \ {p} : job'[q] = job[q] /\ pc'[q] = pc[q] /\ run'[q] = run[q]
  BY DEF TypeOK, Leave, Become, Keeps
<1>2. job'[p] = None \/ job'[p] = date
  BY DEF TypeOK, Keeps
<1>3. pc'[p] # "bootSave"
  BY DEF TypeOK, Leave, Become
<1>4. QED
  BY <1>1, <1>2, <1>3, CapKept

LEMMA CapEscapes ==
  ASSUME TypeOK, CapInv, now' = now, NEW p \in Procs, NEW date,
         Escape(p, date), date = job[p] \/ Within(date)
  PROVE  CapInv'
BY CapLeaves DEF Escape

LEMMA CapSchedules ==
  ASSUME TypeOK, CapInv, now' = now, NEW p \in Procs, NEW date, NEW phase,
         Become(p, phase), phase # "bootSave", UNCHANGED run,
         job' = [job EXCEPT ![p] = date], Within(date)
  PROVE  CapInv'
<1>1. \A q \in Procs \ {p} : job'[q] = job[q] /\ pc'[q] = pc[q] /\ run'[q] = run[q]
  BY DEF TypeOK, Become
<1>2. job'[p] = date /\ pc'[p] # "bootSave"
  BY DEF TypeOK, Become
<1>3. QED
  BY <1>1, <1>2, CapKept

LEMMA CapDies ==
  ASSUME TypeOK, CapInv, now' = now, NEW p \in Procs, Dies(p)
  PROVE  CapInv'
BY CapMoves DEF Dies

LEMMA CapDispatches ==
  ASSUME TypeOK, CapInv, now' = now, NEW p \in Procs, NEW restored, NEW locals,
         Dispatch(p, restored), Within(restored),
         run' = run \/ run' = [run EXCEPT ![p] = locals]
  PROVE  CapInv'
<1>1. \A q \in Procs \ {p} : job'[q] = job[q] /\ pc'[q] = pc[q] /\ run'[q] = run[q]
  BY DEF TypeOK, Dispatch, Become
<1>2. job'[p] = job[p] \/ Within(job'[p])
  BY DEF TypeOK, Dispatch
<1>3. pc'[p] # "bootSave"
  BY DEF TypeOK, Dispatch, Become
<1>4. QED
  BY <1>1, <1>2, <1>3, CapKept

LEMMA CapBoots ==
  ASSUME TypeOK, CapInv, NEW p \in Procs, BootLoad(p) \/ BootSave(p)
  PROVE  CapInv'
<1> USE DEF At
<1>0. now' = now /\ now \in Nat /\ disk.nextCheck \in OptTime
  BY DEF BootLoad, BootSave, TypeOK, Time, Document
<1>1. CASE BootLoad(p)
  <2> DEFINE restored == FutureCheck(disk.nextCheck, now)
             capped   == CapFutureCheck(restored, now)
  <2>1. /\ capped # None => capped <= now + MaxDays * DayTicks
        /\ capped \in OptTime
    BY <1>0, RestoredCheckRange
  <2>2. Within(capped)
    <3>1. PICK slot \in CheckSlots : TRUE
      BY CheckAssumption
    <3>2. slot \in Nat
      BY CheckAssumption
    <3>3. capped # None => capped \in Nat
      BY <2>1 DEF OptTime, Time
    <3>4. capped # None => capped <= now + MaxDays * DayTicks + slot
      BY <1>0, <2>1, <3>2, <3>3, CapArithmetic
    <3>5. QED
      BY <3>4 DEF Within
  <2> HIDE DEF capped, restored
  <2>3. CASE Become(p, "bootSave") /\ run' = [run EXCEPT ![p].restored = capped]
             /\ UNCHANGED job
    <3>1. /\ \A q \in Procs \ {p} : pc'[q] = pc[q] /\ run'[q] = run[q]
          /\ run'[p].restored = capped
      BY <2>3 DEF TypeOK, Become, Locals
    <3>2. QED
      BY <1>0, <2>2, <2>3, <3>1 DEF CapInv, Within
  <2>4. CASE capped = restored /\ Dispatch(p, restored) /\ UNCHANGED run
    BY <1>0, <2>2, <2>4, CapDispatches
  <2>5. CASE Become(p, "down") /\ UNCHANGED <<job, run>>
    BY <1>0, <2>5, CapMoves
  <2>6. QED
    BY <1>1, <2>3, <2>4, <2>5 DEF BootLoad, capped, restored
<1>2. CASE BootSave(p)
  <2>1. Within(run[p].restored)
    BY <1>2 DEF BootSave, CapInv
  <2>2. CASE Dispatch(p, run[p].restored) /\ run' = [run EXCEPT ![p].restored = None]
    BY <1>0, <2>1, <2>2, CapDispatches
  <2>3. CASE Become(p, "down") /\ UNCHANGED job
             /\ run' = [run EXCEPT ![p] = FreshCall("main")]
    BY <1>0, <2>3, CapMoves
  <2>4. QED
    BY <1>2, <2>2, <2>3 DEF BootSave
<1>3. QED
  BY <1>1, <1>2

LEMMA CapStep ==
  ASSUME TypeOK, CapInv, NEW p \in Procs, Actions(p)
  PROVE  CapInv'
<1> USE DEF At
<1>a. now \in Nat /\ run[p] \in Locals
  BY DEF TypeOK, Time
<1>1. CASE BootLoad(p) \/ BootSave(p)
  BY <1>1, CapBoots
<1>2. CASE Load(p)
  <2>1. CASE Become(p, "acquire") /\ run' = [run EXCEPT ![p].seen = disk.failures]
             /\ UNCHANGED job
    BY <1>2, <2>1, CapMoves DEF Load
  <2>2. CASE Leave(p, TRUE) /\ Keeps(p, TRUE, job[p])
    BY <1>2, <2>2, CapLeaves DEF Load
  <2>3. QED
    BY <1>2, <2>1, <2>2 DEF Load
<1>3. CASE Acquire(p)
  BY <1>3, CapMoves, CapLeaves DEF Acquire
<1>4. CASE Launch(p)
  BY <1>4, CapMoves DEF Launch
<1>5. ASSUME NEW days \in RenewalDays, RunSucceeds(p, days)
      PROVE  CapInv'
  BY <1>5, CapMoves DEF RunSucceeds
<1>6. CASE RunFails(p)
  BY <1>6, CapMoves DEF RunFails
<1>7. CASE CountFailure(p)
  BY <1>7, CapMoves, CapEscapes DEF CountFailure
<1>8. CASE ScheduleRetry(p)
  <2>1. PICK jitter \in Jitters :
          LET retryDate == now + RetryDelay(run[p].count, jitter)
          IN  \/ /\ job' = [job EXCEPT ![p] = retryDate]
                 /\ Become(p, "alert")
                 /\ UNCHANGED run
              \/ Escape(p, retryDate)
    BY <1>8 DEF ScheduleRetry
  <2> DEFINE delay == RetryDelay(run[p].count, jitter)
  <2>2. run[p].count \in Int /\ jitter \in Int
    BY <1>a, RetryAssumption DEF Locals
  <2>3. PICK slot \in CheckSlots : delay <= MaxDays * DayTicks + slot
    BY <2>2, RetryDelayCeiling
  <2>4. delay \in Nat /\ slot \in Nat
    <3>1. delay \in Nat
      BY <2>2, RetryDelayFloor
    <3>2. slot \in Nat
      BY CheckAssumption, DayAssumption
    <3>3. QED
      BY <3>1, <3>2
  <2> HIDE DEF delay
  <2>5. now + delay <= now + MaxDays * DayTicks + slot
    BY <1>a, <2>3, <2>4, CapArithmetic
  <2>6. Within(now + delay)
    BY <2>5 DEF Within
  <2>7. QED
    BY <1>8, <2>1, <2>6, CapSchedules, CapEscapes DEF ScheduleRetry, delay
<1>9. CASE FinishFailed(p)
  BY <1>9, CapLeaves DEF FinishFailed
<1>10. CASE ScheduleNextCheck(p)
  <2>1. PICK fallback \in Fallbacks, slot \in CheckSlots :
          LET delay     == DaysUntilCheck(run[p].renewal, fallback)
              nextCheck == NextCheckAt(now, delay, slot)
          IN  \/ /\ job' = [job EXCEPT ![p] = nextCheck]
                 /\ Become(p, "announce")
                 /\ UNCHANGED run
              \/ Escape(p, nextCheck)
    BY <1>10 DEF ScheduleNextCheck
  <2> DEFINE nextCheck == NextCheckAt(now, DaysUntilCheck(run[p].renewal, fallback), slot)
  <2>2. DaysUntilCheck(run[p].renewal, fallback) \in 1 .. MaxDays
    <3>1. run[p].renewal \in Int
      BY <1>a DEF Locals
    <3>2. fallback \in Int
      BY RobotAssumption
    <3>3. QED
      BY <3>1, <3>2, DaysUntilCheckRange
  <2>3. Within(nextCheck)
    BY <1>a, <2>2, NextCheckRange DEF Within
  <2> HIDE DEF nextCheck
  <2>4. QED
    BY <1>10, <2>1, <2>3, CapSchedules, CapEscapes DEF ScheduleNextCheck, nextCheck
<1>11. CASE FinishSucceeded(p)
  BY <1>11, CapLeaves DEF FinishSucceeded
<1>12. CASE Start(p) \/ Fire(p)
  BY <1>12, CapMoves DEF Start, Fire
<1>13. CASE Misfire(p)
  <2>1. \A q \in Procs : job'[q] = job[q] \/ job'[q] = None
    BY <1>13 DEF Misfire, Forgets, TypeOK
  <2>2. QED
    BY <1>13, <2>1 DEF Misfire, CapInv, Within
<1>14. CASE Crash(p)
  BY <1>14, CapDies DEF Crash
<1>15. CASE Interrupt(p)
  <2>1. CASE Dies(p)
    BY <1>15, <2>1, CapDies DEF Interrupt
  <2>2. CASE /\ run' = [run EXCEPT ![p].stopping = TRUE]
             /\ UNCHANGED <<pc, job, runLock, lastCheck>>
    <3>1. \A q \in Procs : run'[q].restored = run[q].restored
      BY <2>2 DEF TypeOK, Locals
    <3>2. QED
      BY <1>15, <2>2, <3>1 DEF Interrupt, CapInv, Within
  <2>3. QED
    BY <1>15, <2>1, <2>2 DEF Interrupt
<1>16. QED
  BY <1>1, <1>2, <1>3, <1>4, <1>5, <1>6, <1>7, <1>8, <1>9, <1>10, <1>11, <1>12,
     <1>13, <1>14, <1>15 DEF Actions, Step

LEMMA NextCapInv ==
  ASSUME TypeOK, CapInv, [Next]_vars
  PROVE  CapInv'
<1>1. CASE Tick \/ Suspend
  <2>1. now \in Nat /\ now' = now + 1 /\ UNCHANGED <<pc, job, run>>
    BY <1>1 DEF Tick, Suspend, TypeOK, Time
  <2>2. \A p \in Procs : job[p] \in OptTime /\ run[p].restored \in OptTime
    BY DEF TypeOK, Locals
  <2>3. \A date \in OptTime : Within(date) => Within(date)'
    BY <2>1, Postpones
  <2>4. QED
    BY <2>1, <2>2, <2>3 DEF CapInv, Within
<1>2. CASE UNCHANGED vars
  BY <1>2 DEF vars, CapInv, Within
<1>3. QED
  BY <1>1, <1>2, CapStep DEF Next, Actions

\* No pending job is ever farther away than the cap and the morning slot,
\* whatever dates a crash leaves in the document and however jobs are restored.
THEOREM PendingJobsCapped == Spec => []JobWithinCap
<1>1. Init => CapInv
  BY DEF Init, CapInv, Within
<1>2. CapInv => JobWithinCap
  BY DEF CapInv, Within, JobWithinCap
<1>3. QED
  BY <1>1, <1>2, TypeCorrect, NextCapInv, PTL DEF Spec

(***************************************************************************)
(* What each step does to the process that takes it: its phase, its job,    *)
(* its locals, and the document.                                            *)
(***************************************************************************)

\* The other processes are left alone.
Apart(p) ==
  \A q \in Procs \ {p} : pc'[q] = pc[q] /\ job'[q] = job[q] /\ run'[q] = run[q]

\* The call is over; a process that goes on has the job with this date.
Left(p, date) ==
  /\ pc'[p] \in {"down", "serve"}
  /\ job'[p] \in {date, None}
  /\ pc'[p] = "serve" => job'[p] = date

Dispatched(p, restored) ==
  \/ p \in SkipInitial /\ pc'[p] = "serve" /\ job'[p] = job[p]
  \/ /\ p \notin SkipInitial /\ restored # None /\ p \notin DryRun
     /\ pc'[p] = "serve" /\ job'[p] = restored
  \/ /\ p \notin SkipInitial /\ (restored = None \/ p \in DryRun)
     /\ pc'[p] = "load" /\ job'[p] = job[p]

\* The process stays in its call, with its locals.
Onward(p, phase) ==
  pc'[p] = phase /\ job'[p] = job[p] /\ run'[p] = run[p]

LEMMA LeaveShape ==
  ASSUME TypeOK, NEW p \in Procs, NEW raised \in BOOLEAN, NEW date,
         Leave(p, raised), Keeps(p, raised, date)
  PROVE  Left(p, date) /\ Apart(p)
<1>1. pc'[p] \in {"down", "serve"} /\ job'[p] \in {date, None}
  BY DEF TypeOK, Leave, Become, Keeps
<1>2. pc'[p] = "serve" => job'[p] = date
  BY DEF TypeOK, Leave, Become, Keeps
<1>3. Apart(p)
  BY DEF TypeOK, Leave, Become, Keeps, Apart
<1>4. QED
  BY <1>1, <1>2, <1>3 DEF Left

LEMMA EscapeShape ==
  ASSUME TypeOK, NEW p \in Procs, NEW date, Escape(p, date)
  PROVE  Left(p, date) /\ Apart(p) /\ StoreFails /\ disk' = disk
BY LeaveShape DEF Escape, StoreFails

LEMMA DiesShape ==
  ASSUME TypeOK, NEW p \in Procs, Dies(p)
  PROVE  pc'[p] = "down" /\ job'[p] = None /\ Apart(p)
BY DEF TypeOK, Dies, Become, Forgets, Apart

LEMMA DispatchShape ==
  ASSUME TypeOK, NEW p \in Procs, NEW restored, Dispatch(p, restored)
  PROVE  /\ Dispatched(p, restored)
         /\ \A q \in Procs \ {p} : pc'[q] = pc[q] /\ job'[q] = job[q]
BY DEF TypeOK, Dispatch, Dispatched, Become

LEMMA OnwardShape ==
  ASSUME TypeOK, NEW p \in Procs, NEW phase, Become(p, phase), UNCHANGED <<job, run>>
  PROVE  Onward(p, phase) /\ Apart(p)
BY DEF TypeOK, Become, Onward, Apart

LEMMA StartShape ==
  ASSUME TypeOK, NEW p \in Procs, Start(p)
  PROVE  /\ pc[p] = "down" /\ pc'[p] = "boot" /\ job'[p] = job[p] /\ Apart(p)
         /\ UNCHANGED <<now, disk, runLock, alerted, lastCheck, crashes, faults>>
BY DEF TypeOK, Start, At, Become, Apart

LEMMA BootLoadShape ==
  ASSUME TypeOK, NEW p \in Procs, BootLoad(p)
  PROVE  /\ pc[p] = "boot" /\ Apart(p)
         /\ UNCHANGED <<now, disk, runLock, alerted, lastCheck, crashes>>
         /\ LET restored == FutureCheck(disk.nextCheck, now)
                capped   == CapFutureCheck(restored, now)
            IN  \/ /\ capped # restored
                   /\ pc'[p] = "bootSave" /\ job'[p] = job[p] /\ run'[p].restored = capped
                \/ /\ capped = restored /\ Dispatched(p, restored)
                \/ StoreFails /\ Onward(p, "down")
<1> DEFINE restored == FutureCheck(disk.nextCheck, now)
           capped   == CapFutureCheck(restored, now)
<1>1. pc[p] = "boot" /\ UNCHANGED <<now, disk, runLock, alerted, lastCheck, crashes>>
  BY DEF BootLoad, At, StoreFails
<1> HIDE DEF capped, restored
<1>2. CASE capped # restored /\ Become(p, "bootSave")
           /\ run' = [run EXCEPT ![p].restored = capped] /\ UNCHANGED job
  <2>1. Apart(p) /\ pc'[p] = "bootSave" /\ job'[p] = job[p] /\ run'[p].restored = capped
    BY <1>2 DEF TypeOK, Become, Apart, Locals
  <2>2. QED
    BY <1>1, <1>2, <2>1 DEF capped, restored
<1>3. CASE capped = restored /\ Dispatch(p, restored) /\ UNCHANGED run
  <2>1. Dispatched(p, restored) /\ Apart(p)
    BY <1>3, DispatchShape DEF Apart
  <2>2. QED
    BY <1>1, <1>3, <2>1 DEF capped, restored
<1>4. CASE StoreFails /\ Become(p, "down") /\ UNCHANGED <<job, run>>
  BY <1>1, <1>4, OnwardShape
<1>5. QED
  BY <1>2, <1>3, <1>4 DEF BootLoad, capped, restored

LEMMA BootSaveShape ==
  ASSUME TypeOK, NEW p \in Procs, BootSave(p)
  PROVE  /\ pc[p] = "bootSave" /\ Apart(p)
         /\ UNCHANGED <<now, runLock, alerted, lastCheck, crashes>>
         /\ \/ /\ disk' = RecordNextCheck(disk, run[p].restored)
               /\ Dispatched(p, run[p].restored)
            \/ /\ StoreFails /\ disk' = disk
               /\ pc'[p] = "down" /\ job'[p] = job[p]
<1>1. pc[p] = "bootSave" /\ UNCHANGED <<now, runLock, alerted, lastCheck, crashes>>
  BY DEF BootSave, At
<1>2. CASE /\ Writes(RecordNextCheck(disk, run[p].restored))
           /\ Dispatch(p, run[p].restored)
           /\ run' = [run EXCEPT ![p].restored = None]
  <2>1. Dispatched(p, run[p].restored) /\ Apart(p)
    BY <1>2, DispatchShape DEF Apart, TypeOK
  <2>2. QED
    BY <1>1, <1>2, <2>1 DEF Writes
<1>3. CASE /\ StoreFails /\ Become(p, "down") /\ UNCHANGED job
           /\ run' = [run EXCEPT ![p] = FreshCall("main")]
  BY <1>1, <1>3 DEF StoreFails, Become, TypeOK, Apart
<1>4. QED
  BY <1>2, <1>3 DEF BootSave

LEMMA LoadShape ==
  ASSUME TypeOK, NEW p \in Procs, Load(p)
  PROVE  /\ pc[p] = "load" /\ Apart(p)
         /\ UNCHANGED <<now, disk, runLock, alerted, lastCheck, crashes>>
         /\ \/ pc'[p] = "acquire" /\ job'[p] = job[p] /\ run'[p].seen = disk.failures
            \/ StoreFails /\ Left(p, job[p])
<1>1. pc[p] = "load" /\ UNCHANGED <<now, disk, runLock, alerted, lastCheck, crashes>>
  BY DEF Load, At, StoreFails
<1>2. CASE Become(p, "acquire") /\ run' = [run EXCEPT ![p].seen = disk.failures]
           /\ UNCHANGED job
  BY <1>1, <1>2 DEF Become, TypeOK, Apart, Locals
<1>3. CASE StoreFails /\ Leave(p, TRUE) /\ Keeps(p, TRUE, job[p])
  BY <1>1, <1>3, LeaveShape
<1>4. QED
  BY <1>2, <1>3 DEF Load

LEMMA AcquireShape ==
  ASSUME TypeOK, NEW p \in Procs, Acquire(p)
  PROVE  /\ pc[p] = "acquire" /\ Apart(p)
         /\ UNCHANGED <<now, disk, alerted, lastCheck, crashes, faults>>
         /\ \/ Onward(p, "launch")
            \/ runLock # NoProc /\ Left(p, job[p])
<1>1. pc[p] = "acquire" /\ UNCHANGED <<now, disk, alerted, lastCheck, crashes, faults>>
  BY DEF Acquire, At
<1>2. CASE Become(p, "launch") /\ UNCHANGED <<job, run>>
  BY <1>1, <1>2, OnwardShape
<1>3. CASE runLock # NoProc /\ Leave(p, TRUE) /\ Keeps(p, TRUE, job[p])
  BY <1>1, <1>3, LeaveShape
<1>4. QED
  BY <1>2, <1>3 DEF Acquire

LEMMA LaunchShape ==
  ASSUME TypeOK, NEW p \in Procs, Launch(p)
  PROVE  /\ pc[p] = "launch" /\ Apart(p)
         /\ UNCHANGED <<now, runLock, alerted, lastCheck, crashes>>
         /\ \/ Onward(p, "work") /\ disk' = RecordRunStarted(disk)
            \/ Onward(p, "failed") /\ disk' = RecordFailure(disk)
            \/ Onward(p, "failed") /\ disk' = disk /\ StoreFails
<1>1. /\ pc[p] = "launch" /\ UNCHANGED <<now, runLock, alerted, lastCheck, crashes, job, run>>
      /\ \A phase : Become(p, phase) => Onward(p, phase) /\ Apart(p)
  BY OnwardShape DEF Launch, At
<1>2. QED
  BY <1>1 DEF Launch, Writes, StoreFails

LEMMA SucceedsShape ==
  ASSUME TypeOK, NEW p \in Procs, NEW days, RunSucceeds(p, days)
  PROVE  /\ pc[p] = "work" /\ Apart(p) /\ pc'[p] \in {"reschedule", "failed"}
         /\ UNCHANGED <<now, runLock, lastCheck, crashes>>
         /\ job'[p] = job[p]
         /\ run'[p].seen = run[p].seen /\ run'[p].erased = disk.failures
         /\ alerted' = {} /\ disk' = RecordSuccess(disk, IF days # 0 THEN now + days * DayTicks ELSE None)
<1>1. pc'[p] \in {"reschedule", "failed"}
  BY DEF RunSucceeds, Become, TypeOK
<1>2. /\ run'[p].seen = run[p].seen /\ run'[p].erased = disk.failures
      /\ \A q \in Procs \ {p} : run'[q] = run[q]
  BY DEF RunSucceeds, TypeOK, Locals
<1>3. Apart(p)
  BY <1>2 DEF RunSucceeds, Become, TypeOK, Apart
<1>4. QED
  BY <1>1, <1>2, <1>3 DEF RunSucceeds, At, Writes

LEMMA FailsShape ==
  ASSUME TypeOK, NEW p \in Procs, RunFails(p)
  PROVE  /\ pc[p] = "work" /\ Apart(p) /\ Onward(p, "failed")
         /\ UNCHANGED <<now, runLock, alerted, lastCheck, crashes>>
         /\ disk' = RecordFailure(disk) \/ (StoreFails /\ disk' = disk)
BY OnwardShape DEF RunFails, At, Writes, StoreFails

LEMMA CountShape ==
  ASSUME TypeOK, NEW p \in Procs, CountFailure(p)
  PROVE  /\ pc[p] = "failed" /\ Apart(p)
         /\ UNCHANGED <<now, alerted, crashes>>
         /\ \/ /\ disk' = RecordRetryFailure(disk)
               /\ pc'[p] = "retry" /\ job'[p] = job[p] /\ UNCHANGED lastCheck
            \/ StoreFails /\ disk' = disk /\ Left(p, job[p])
<1>1. pc[p] = "failed" /\ UNCHANGED <<now, alerted, crashes>>
  BY DEF CountFailure, At
<1>2. CASE /\ Writes(RecordRetryFailure(disk))
           /\ run' = [run EXCEPT ![p].count = disk.failures + 1]
           /\ Become(p, "retry")
           /\ UNCHANGED <<job, runLock, lastCheck>>
  BY <1>1, <1>2 DEF Become, TypeOK, Apart, Writes
<1>3. CASE Escape(p, job[p])
  BY <1>1, <1>3, EscapeShape
<1>4. QED
  BY <1>2, <1>3 DEF CountFailure

LEMMA RetryShape ==
  ASSUME TypeOK, NEW p \in Procs, ScheduleRetry(p)
  PROVE  /\ pc[p] = "retry" /\ Apart(p)
         /\ UNCHANGED <<now, alerted, crashes>>
         /\ \E jitter \in Jitters :
              LET date == now + RetryDelay(run[p].count, jitter)
              IN  \/ /\ disk' = RecordRetryScheduled(disk, date)
                     /\ pc'[p] = "alert" /\ job'[p] = date /\ UNCHANGED lastCheck
                  \/ StoreFails /\ disk' = disk /\ Left(p, date)
<1>1. pc[p] = "retry" /\ UNCHANGED <<now, alerted, crashes>>
  BY DEF ScheduleRetry, At
<1>2. PICK jitter \in Jitters :
        LET date == now + RetryDelay(run[p].count, jitter)
        IN  \/ /\ Writes(RecordRetryScheduled(disk, date))
               /\ job' = [job EXCEPT ![p] = date]
               /\ Become(p, "alert")
               /\ UNCHANGED <<run, runLock, lastCheck>>
            \/ Escape(p, date)
  BY DEF ScheduleRetry
<1> DEFINE date == now + RetryDelay(run[p].count, jitter)
<1> HIDE DEF date
<1>3. CASE /\ Writes(RecordRetryScheduled(disk, date))
           /\ job' = [job EXCEPT ![p] = date]
           /\ Become(p, "alert")
           /\ UNCHANGED <<run, runLock, lastCheck>>
  <2>1. /\ Apart(p) /\ pc'[p] = "alert" /\ job'[p] = date
        /\ disk' = RecordRetryScheduled(disk, date) /\ UNCHANGED lastCheck
    BY <1>3 DEF Become, TypeOK, Apart, Writes
  <2>2. QED
    BY <1>1, <2>1 DEF date
<1>4. CASE Escape(p, date)
  <2>1. Left(p, date) /\ Apart(p) /\ StoreFails /\ disk' = disk
    BY <1>4, EscapeShape
  <2>2. QED
    BY <1>1, <2>1 DEF date
<1>5. QED
  BY <1>2, <1>3, <1>4 DEF date

LEMMA FinishShape ==
  ASSUME TypeOK, NEW p \in Procs, FinishFailed(p) \/ FinishSucceeded(p)
  PROVE  /\ Apart(p) /\ Left(p, job[p]) /\ lastCheck' = now
         /\ UNCHANGED <<now, disk, crashes, faults>>
         /\ \/ FinishFailed(p) /\ pc[p] = "alert"
            \/ FinishSucceeded(p) /\ pc[p] = "announce" /\ alerted' = alerted
BY LeaveShape DEF FinishFailed, FinishSucceeded, At, Releases

LEMMA CheckShape ==
  ASSUME TypeOK, NEW p \in Procs, ScheduleNextCheck(p)
  PROVE  /\ pc[p] = "reschedule" /\ Apart(p)
         /\ UNCHANGED <<now, alerted, crashes>>
         /\ \E fallback \in Fallbacks, slot \in CheckSlots :
              LET date == NextCheckAt(now, DaysUntilCheck(run[p].renewal, fallback), slot)
              IN  \/ /\ disk' = RecordNextCheck(disk, date)
                     /\ pc'[p] = "announce" /\ job'[p] = date /\ run'[p] = run[p]
                     /\ UNCHANGED lastCheck
                  \/ StoreFails /\ disk' = disk /\ Left(p, date)
<1>1. pc[p] = "reschedule" /\ UNCHANGED <<now, alerted, crashes>>
  BY DEF ScheduleNextCheck, At
<1>2. PICK fallback \in Fallbacks, slot \in CheckSlots :
        LET date == NextCheckAt(now, DaysUntilCheck(run[p].renewal, fallback), slot)
        IN  \/ /\ Writes(RecordNextCheck(disk, date))
               /\ job' = [job EXCEPT ![p] = date]
               /\ Become(p, "announce")
               /\ UNCHANGED <<run, runLock, lastCheck>>
            \/ Escape(p, date)
  BY DEF ScheduleNextCheck
<1> DEFINE date == NextCheckAt(now, DaysUntilCheck(run[p].renewal, fallback), slot)
<1> HIDE DEF date
<1>3. CASE /\ Writes(RecordNextCheck(disk, date))
           /\ job' = [job EXCEPT ![p] = date]
           /\ Become(p, "announce")
           /\ UNCHANGED <<run, runLock, lastCheck>>
  <2>1. /\ Apart(p) /\ pc'[p] = "announce" /\ job'[p] = date /\ run'[p] = run[p]
        /\ disk' = RecordNextCheck(disk, date) /\ UNCHANGED lastCheck
    BY <1>3 DEF Become, TypeOK, Apart, Writes
  <2>2. QED
    BY <1>1, <2>1 DEF date
<1>4. CASE Escape(p, date)
  <2>1. Left(p, date) /\ Apart(p) /\ StoreFails /\ disk' = disk
    BY <1>4, EscapeShape
  <2>2. QED
    BY <1>1, <2>1 DEF date
<1>5. QED
  BY <1>2, <1>3, <1>4 DEF date

LEMMA FireShape ==
  ASSUME TypeOK, NEW p \in Procs, Fire(p) \/ Misfire(p)
  PROVE  /\ pc[p] = "serve" /\ Apart(p) /\ job'[p] = None
         /\ UNCHANGED <<now, disk, runLock, alerted, lastCheck, crashes, faults>>
         /\ \/ job[p] = now /\ pc'[p] = "load"
            \/ job[p] # None /\ job[p] < now /\ pc'[p] = "serve" /\ run'[p] = run[p]
<1>1. CASE Fire(p)
  BY <1>1 DEF Fire, At, Become, Forgets, TypeOK, Apart
<1>2. CASE Misfire(p)
  BY <1>2 DEF Misfire, At, Forgets, TypeOK, Apart
<1>3. QED
  BY <1>1, <1>2

LEMMA CrashShape ==
  ASSUME TypeOK, NEW p \in Procs, Crash(p)
  PROVE  /\ pc'[p] = "down" /\ job'[p] = None /\ Apart(p)
         /\ UNCHANGED <<now, disk, alerted, faults>> /\ crashes' = crashes + 1
BY DiesShape DEF Crash

LEMMA InterruptShape ==
  ASSUME TypeOK, NEW p \in Procs, Interrupt(p)
  PROVE  /\ Apart(p) /\ UNCHANGED <<now, disk, alerted, crashes, faults>>
         /\ \/ pc[p] = "serve" /\ pc'[p] = "down" /\ job'[p] = None
            \/ /\ pc'[p] = pc[p] /\ job'[p] = job[p] /\ UNCHANGED lastCheck
               /\ run'[p].restored = run[p].restored /\ run'[p].seen = run[p].seen
               /\ run'[p].count = run[p].count /\ run'[p].erased = run[p].erased
<1>1. UNCHANGED <<now, disk, alerted, crashes, faults>>
  BY DEF Interrupt
<1>2. CASE pc[p] = "serve" /\ Dies(p)
  BY <1>1, <1>2, DiesShape
<1>3. CASE run' = [run EXCEPT ![p].stopping = TRUE] /\ UNCHANGED <<pc, job, lastCheck>>
  BY <1>1, <1>3 DEF TypeOK, Locals, Apart
<1>4. QED
  BY <1>2, <1>3 DEF Interrupt, At

\* Crashes and failed accesses are only counted up.
LEMMA TroublesStay ==
  ASSUME TypeOK, [Next]_vars
  PROVE  crashes <= crashes' /\ faults <= faults'
<1> SUFFICES crashes' \in {crashes, crashes + 1} /\ faults' \in {faults, faults + 1}
  BY DEF TypeOK
<1>1. \A d : StoreFails \/ Writes(d) => faults' \in {faults, faults + 1}
  BY DEF StoreFails, Writes
<1>2. \A p \in Procs : \A date : Escape(p, date) => StoreFails
  BY DEF Escape
<1> HIDE DEF StoreFails, Writes, Escape
<1>3. ASSUME NEW p \in Procs, Step(p)
      PROVE  crashes' = crashes /\ faults' \in {faults, faults + 1}
  <2>1. CASE BootLoad(p)
    BY <1>1, <1>2, <2>1 DEF BootLoad
  <2>2. CASE BootSave(p)
    BY <1>1, <1>2, <2>2 DEF BootSave
  <2>3. CASE Load(p)
    BY <1>1, <1>2, <2>3 DEF Load
  <2>4. CASE Acquire(p)
    BY <1>1, <1>2, <2>4 DEF Acquire
  <2>5. CASE Launch(p)
    BY <1>1, <1>2, <2>5 DEF Launch
  <2>6. CASE RunFails(p)
    BY <1>1, <1>2, <2>6 DEF RunFails
  <2>7. CASE CountFailure(p)
    BY <1>1, <1>2, <2>7 DEF CountFailure
  <2>8. CASE ScheduleRetry(p)
    BY <1>1, <1>2, <2>8 DEF ScheduleRetry
  <2>9. CASE FinishFailed(p)
    BY <1>1, <1>2, <2>9 DEF FinishFailed
  <2>10. CASE ScheduleNextCheck(p)
    BY <1>1, <1>2, <2>10 DEF ScheduleNextCheck
  <2>11. CASE FinishSucceeded(p)
    BY <1>1, <1>2, <2>11 DEF FinishSucceeded
  <2>12. ASSUME NEW days \in RenewalDays, RunSucceeds(p, days)
         PROVE  crashes' = crashes /\ faults' \in {faults, faults + 1}
    BY <1>1, <2>12 DEF RunSucceeds
  <2>13. QED
    BY <1>3, <2>1, <2>2, <2>3, <2>4, <2>5, <2>6, <2>7, <2>8, <2>9, <2>10, <2>11, <2>12
       DEF Step
<1>4. ASSUME NEW p \in Procs, Start(p) \/ Fire(p) \/ Misfire(p) \/ Crash(p) \/ Interrupt(p)
      PROVE  crashes' \in {crashes, crashes + 1} /\ faults' = faults
  BY <1>4 DEF Start, Fire, Misfire, Crash, Interrupt
<1>5. CASE Tick \/ Suspend \/ UNCHANGED vars
  BY <1>5 DEF Tick, Suspend, vars
<1>6. QED
  BY <1>3, <1>4, <1>5 DEF Next

\* The fields of the document, one by one.
LEMMA WrittenFields ==
  ASSUME NEW d \in Document, NEW date \in OptTime
  PROVE  /\ LET e == RecordRunStarted(d)
            IN  e.nextCheck = d.nextCheck /\ e.nextRetry = d.nextRetry
         /\ LET e == RecordFailure(d)
            IN  e.nextCheck = d.nextCheck /\ e.nextRetry = d.nextRetry /\ e.lastError
         /\ RecordSuccess(d, date).nextRetry = None
         /\ LET e == RecordNextCheck(d, date)
            IN  e.nextCheck = date /\ e.nextRetry = d.nextRetry /\ e.lastError = d.lastError
         /\ LET e == RecordRetryFailure(d)
            IN  e.nextRetry = None /\ e.lastError
         /\ LET e == RecordRetryScheduled(d, date)
            IN  e.nextCheck = date /\ e.nextRetry = date /\ e.lastError = d.lastError
<1>1. LET e == RecordRunStarted(d)
      IN  e.nextCheck = d.nextCheck /\ e.nextRetry = d.nextRetry
  BY DEF Document, RecordRunStarted
<1>2. LET e == RecordFailure(d)
      IN  e.nextCheck = d.nextCheck /\ e.nextRetry = d.nextRetry /\ e.lastError
  BY DEF Document, RecordFailure
<1>3. RecordSuccess(d, date).nextRetry = None
  BY DEF Document, RecordSuccess, DefaultState
<1>4. LET e == RecordNextCheck(d, date)
      IN  e.nextCheck = date /\ e.nextRetry = d.nextRetry /\ e.lastError = d.lastError
  BY DEF Document, RecordNextCheck
<1>5. LET e == RecordRetryFailure(d)
      IN  e.nextRetry = None /\ e.lastError
  BY DEF Document, RecordRetryFailure
<1>6. LET e == RecordRetryScheduled(d, date)
      IN  e.nextCheck = date /\ e.nextRetry = date /\ e.lastError = d.lastError
  BY DEF Document, RecordRetryScheduled
<1>7. QED
  BY <1>1, <1>2, <1>3, <1>4, <1>5, <1>6

\* The dates of the jobs are in the future, and within the cap and the slot.
LEMMA RetryDates ==
  ASSUME TypeOK, NEW p \in Procs, NEW jitter \in Jitters
  PROVE  LET date == now + RetryDelay(run[p].count, jitter)
         IN  date \in Nat /\ date > now /\ Within(date)
<1> DEFINE delay == RetryDelay(run[p].count, jitter)
<1>1. run[p].count \in Int /\ jitter \in Int /\ now \in Nat
  BY RetryAssumption DEF TypeOK, Locals, Time
<1>2. delay \in Nat /\ delay > 0
  <2>1. MinRetryDelay \in Nat /\ MinRetryDelay > 0
    BY RetryAssumption
  <2>2. delay \in Nat /\ delay >= MinRetryDelay
    BY <1>1, RetryDelayFloor
  <2>3. QED
    BY <2>1, <2>2
<1>3. PICK slot \in CheckSlots : delay <= MaxDays * DayTicks + slot
  BY <1>1, RetryDelayCeiling
<1>4. slot \in Nat
  BY CheckAssumption
<1> HIDE DEF delay
<1>5. now + delay \in Nat /\ now + delay > now
  BY <1>1, <1>2
<1>6. now + delay <= now + MaxDays * DayTicks + slot
  BY <1>1, <1>2, <1>3, <1>4, CapArithmetic
<1>7. QED
  BY <1>5, <1>6 DEF Within, delay

LEMMA CheckDates ==
  ASSUME TypeOK, NEW p \in Procs, NEW fallback \in Fallbacks, NEW slot \in CheckSlots
  PROVE  LET date == NextCheckAt(now, DaysUntilCheck(run[p].renewal, fallback), slot)
         IN  date \in Nat /\ date > now /\ Within(date)
<1>1. run[p].renewal \in Int /\ fallback \in Int /\ now \in Nat
  BY RobotAssumption DEF TypeOK, Locals, Time
<1>2. DaysUntilCheck(run[p].renewal, fallback) \in 1 .. MaxDays
  BY <1>1, DaysUntilCheckRange
<1>3. QED
  BY <1>1, <1>2, NextCheckRange DEF Within

(***************************************************************************)
(* Recovery mails.                                                          *)
(***************************************************************************)

\* A process that skips its initial run has no job and never runs.
SkipInv ==
  \A q \in SkipInitial : job[q] = None /\ pc[q] \in {"down", "boot", "bootSave", "serve"}

\* p is the only process that renews.
Sole(p) == p \in Procs /\ Procs \ SkipInitial = {p}

\* The failures that p has read are those of the document until it succeeds,
\* and those its success erased afterwards.
RecoveryInv(p) ==
  /\ pc[p] \in {"acquire", "launch", "work"} => run[p].seen = disk.failures
  /\ pc[p] \in {"reschedule", "announce"} => run[p].seen = run[p].erased

LEMMA SkipStep ==
  ASSUME TypeOK, SkipInv, NEW p \in Procs, Actions(p)
  PROVE  SkipInv'
<1> USE DEF SkipInv
<1>1. CASE p \notin SkipInitial
  <2>1. Apart(p)
    BY StartShape, BootLoadShape, BootSaveShape, LoadShape, AcquireShape, LaunchShape,
       SucceedsShape, FailsShape, CountShape, RetryShape, FinishShape, CheckShape,
       FireShape, CrashShape, InterruptShape DEF Actions, Step
  <2>2. QED
    BY <1>1, <2>1, ProcAssumption DEF Apart
<1>2. CASE p \in SkipInitial
  <2>1. job[p] = None /\ pc[p] \in {"down", "boot", "bootSave", "serve"}
    BY <1>2
  <2>2. /\ Apart(p)
        /\ job'[p] = None /\ pc'[p] \in {"down", "boot", "bootSave", "serve"}
    <3>1. CASE Start(p)
      BY <2>1, <3>1, StartShape
    <3>2. CASE BootLoad(p)
      BY <1>2, <2>1, <3>2, BootLoadShape DEF Dispatched, Onward
    <3>3. CASE BootSave(p)
      BY <1>2, <2>1, <3>3, BootSaveShape DEF Dispatched
    <3>4. CASE Fire(p) \/ Misfire(p)
      <4>1. now # None
        BY NoneAssumption DEF TypeOK, Time
      <4>2. QED
        BY <2>1, <3>4, <4>1, FireShape
    <3>5. CASE Crash(p)
      BY <3>5, CrashShape
    <3>6. CASE Interrupt(p)
      BY <2>1, <3>6, InterruptShape
    <3>7. CASE Step(p) /\ ~ BootLoad(p) /\ ~ BootSave(p)
      BY <2>1, <3>7, LoadShape, AcquireShape, LaunchShape, SucceedsShape, FailsShape,
         CountShape, RetryShape, FinishShape, CheckShape DEF Step
    <3>8. QED
      BY <3>1, <3>2, <3>3, <3>4, <3>5, <3>6, <3>7 DEF Actions
  <2>3. QED
    BY <2>2, ProcAssumption DEF Apart
<1>3. QED
  BY <1>1, <1>2

LEMMA SkippersSkip == Spec => []SkipInv
<1>1. Init => SkipInv
  BY ProcAssumption DEF Init, SkipInv
<1>2. TypeOK /\ SkipInv /\ [Next]_vars => SkipInv'
  <2>1. ASSUME Tick \/ Suspend \/ UNCHANGED vars, SkipInv
        PROVE  SkipInv'
    BY <2>1 DEF Tick, Suspend, vars, SkipInv
  <2>2. QED
    BY <2>1, SkipStep DEF Next, Actions
<1>3. QED
  BY <1>1, <1>2, TypeCorrect, PTL DEF Spec

\* A step of another process that renews nothing.
LEMMA RecoveryApart ==
  ASSUME TypeOK, SkipInv, NEW p, Sole(p), RecoveryInv(p),
         NEW q \in Procs \ {p}, Actions(q)
  PROVE  RecoveryInv(p)'
<1>1. q \in SkipInitial
  BY DEF Sole
<1>2. pc[q] \in {"down", "boot", "bootSave", "serve"} /\ job[q] = None
  BY <1>1 DEF SkipInv
<1>3. disk \in Document /\ run[q].restored \in OptTime /\ now \in Nat
  BY DEF TypeOK, Locals, Time
<1>4. Apart(q) /\ disk'.failures = disk.failures
  <2>1. CASE Start(q) \/ BootLoad(q) \/ Fire(q) \/ Misfire(q) \/ Crash(q) \/ Interrupt(q)
    BY <2>1, StartShape, BootLoadShape, FireShape, CrashShape, InterruptShape
  <2>2. CASE BootSave(q)
    BY <1>3, <2>2, BootSaveShape, FailuresKept
  <2>3. CASE Step(q) /\ ~ BootLoad(q) /\ ~ BootSave(q)
    BY <1>2, <2>3, LoadShape, AcquireShape, LaunchShape, SucceedsShape, FailsShape,
       CountShape, RetryShape, FinishShape, CheckShape DEF Step
  <2>4. QED
    BY <2>1, <2>2, <2>3 DEF Actions, Step
<1>5. QED
  BY <1>4 DEF Sole, Apart, RecoveryInv

LEMMA RecoveryStep ==
  ASSUME TypeOK, NEW p \in Procs, RecoveryInv(p), Actions(p)
  PROVE  RecoveryInv(p)'
<1>1. disk \in Document
  BY DEF TypeOK
<1>2. CASE Start(p)
  BY <1>2, StartShape DEF RecoveryInv
<1>3. CASE BootLoad(p)
  BY <1>3, BootLoadShape DEF RecoveryInv, Dispatched, Onward
<1>4. CASE BootSave(p)
  BY <1>4, BootSaveShape DEF RecoveryInv, Dispatched
<1>5. CASE Load(p)
  BY <1>5, LoadShape DEF RecoveryInv, Left
<1>6. CASE Acquire(p)
  BY <1>6, AcquireShape DEF RecoveryInv, Left, Onward
<1>7. CASE Launch(p)
  <2>1. disk'.failures = disk.failures \/ pc'[p] = "failed"
    BY <1>1, <1>7, LaunchShape, FailuresKept DEF Onward, OptTime
  <2>2. QED
    BY <1>7, <2>1, LaunchShape DEF RecoveryInv, Onward
<1>8. ASSUME NEW days \in RenewalDays, RunSucceeds(p, days)
      PROVE  RecoveryInv(p)'
  BY <1>8, SucceedsShape DEF RecoveryInv
<1>9. CASE RunFails(p)
  BY <1>9, FailsShape DEF RecoveryInv, Onward
<1>10. CASE CountFailure(p)
  BY <1>10, CountShape DEF RecoveryInv, Left
<1>11. CASE ScheduleRetry(p)
  BY <1>11, RetryShape DEF RecoveryInv, Left
<1>12. CASE FinishFailed(p) \/ FinishSucceeded(p)
  BY <1>12, FinishShape DEF RecoveryInv, Left
<1>13. CASE ScheduleNextCheck(p)
  <2>1. /\ pc[p] = "reschedule"
        /\ \/ pc'[p] \in {"down", "serve"}
           \/ pc'[p] = "announce" /\ run'[p] = run[p]
    BY <1>13, CheckShape DEF Left
  <2>2. QED
    BY <2>1 DEF RecoveryInv
<1>14. CASE Fire(p) \/ Misfire(p)
  BY <1>14, FireShape DEF RecoveryInv
<1>15. CASE Crash(p)
  BY <1>15, CrashShape DEF RecoveryInv
<1>16. CASE Interrupt(p)
  BY <1>16, InterruptShape DEF RecoveryInv
<1>17. QED
  BY <1>2, <1>3, <1>4, <1>5, <1>6, <1>7, <1>8, <1>9, <1>10, <1>11, <1>12, <1>13, <1>14,
     <1>15, <1>16 DEF Actions, Step

\* Where a call may be that has erased failures.
Ended == {"reschedule", "announce", "failed", "retry", "alert"}

EndedInv == \A p \in Procs : run[p].erased > 0 => pc[p] \in Ended

LEMMA LeaveErases ==
  ASSUME TypeOK, NEW p \in Procs, NEW raised \in BOOLEAN, Leave(p, raised)
  PROVE  run'[p].erased = 0
BY DEF TypeOK, Leave, FreshCall

\* Failures are erased by a success and forgotten with the call.
LEMMA ErasedStep ==
  ASSUME TypeOK, NEW p \in Procs, Actions(p), run[p].erased > 0 => pc[p] \in Ended
  PROVE  /\ run'[p].erased > 0 => pc'[p] \in Ended
         /\ run[p].erased > 0 /\ run'[p].erased = 0 =>
              \/ pc[p] \in {"announce", "alert"}
              \/ crashes' > crashes \/ faults' > faults
<1> DEFINE Told == /\ run'[p].erased > 0 => pc'[p] \in Ended
                   /\ run[p].erased > 0 /\ run'[p].erased = 0 =>
                        \/ pc[p] \in {"announce", "alert"}
                        \/ crashes' > crashes \/ faults' > faults
<1>1. run[p] \in Locals /\ run[p].erased \in Nat /\ crashes \in Nat /\ faults \in Nat
  BY DEF TypeOK, Locals
<1>2. ASSUME StoreFails, Leave(p, TRUE)
      PROVE  Told
  <2>1. run'[p].erased = 0
    BY <1>2, LeaveErases
  <2>2. faults' > faults
    BY <1>1, <1>2 DEF StoreFails
  <2> QED
    BY <2>1, <2>2
<1>3. ASSUME pc[p] \notin Ended, run'[p].erased \in {0, run[p].erased}
      PROVE  Told
  BY <1>1, <1>3
<1>4. ASSUME pc'[p] \in Ended, run'[p].erased = run[p].erased
      PROVE  Told
  BY <1>1, <1>4
<1>5. CASE Start(p) \/ Fire(p) \/ Misfire(p)
  BY <1>1, <1>3, <1>5 DEF Start, Fire, Misfire, At, Ended, FreshCall, TypeOK
<1>6. CASE BootLoad(p) \/ BootSave(p)
  BY <1>1, <1>3, <1>6 DEF BootLoad, BootSave, At, Ended, FreshCall, TypeOK, Locals
<1>7. CASE Load(p)
  <2>1. pc[p] \notin Ended
    BY <1>7 DEF Load, At, Ended
  <2>2. run'[p].erased \in {0, run[p].erased}
    <3>1. CASE Leave(p, TRUE)
      BY <3>1, LeaveErases
    <3>2. CASE run' = [run EXCEPT ![p].seen = disk.failures]
      BY <3>2 DEF TypeOK, Locals
    <3> QED
      BY <1>7, <3>1, <3>2 DEF Load
  <2> QED
    BY <1>3, <2>1, <2>2
<1>8. CASE Acquire(p)
  <2>1. pc[p] \notin Ended /\ run'[p].erased \in {0, run[p].erased}
    BY <1>1, <1>8, LeaveErases DEF Acquire, At, Ended
  <2> QED
    BY <1>3, <2>1
<1>9. CASE Launch(p) \/ RunFails(p)
  BY <1>1, <1>3, <1>9 DEF Launch, RunFails, At, Ended
<1>10. ASSUME NEW days \in RenewalDays, RunSucceeds(p, days)
       PROVE  Told
  BY <1>1, <1>10, SucceedsShape DEF Ended
<1>11. CASE CountFailure(p)
  <2>1. CASE Escape(p, job[p])
    BY <1>2, <2>1 DEF Escape
  <2>2. CASE ~ Escape(p, job[p])
    BY <1>1, <1>4, <1>11, <2>2 DEF CountFailure, Become, Ended, TypeOK, Locals
  <2> QED
    BY <2>1, <2>2
<1>12. CASE ScheduleRetry(p) \/ ScheduleNextCheck(p)
  <2>1. CASE \E date : Escape(p, date)
    BY <1>2, <2>1 DEF Escape
  <2>2. CASE ~ \E date : Escape(p, date)
    <3>1. run' = run /\ (Become(p, "alert") \/ Become(p, "announce"))
      BY <1>12, <2>2 DEF ScheduleRetry, ScheduleNextCheck
    <3> QED
      BY <1>4, <3>1 DEF Become, Ended, TypeOK
  <2> QED
    BY <2>1, <2>2
<1>13. CASE FinishFailed(p) \/ FinishSucceeded(p)
  <2>1. pc[p] \in {"announce", "alert"} /\ run'[p].erased = 0
    BY <1>13, LeaveErases DEF FinishFailed, FinishSucceeded, At
  <2> QED
    BY <2>1
<1>14. CASE Crash(p)
  BY <1>1, <1>14 DEF Crash, Dies, FreshCall, TypeOK
<1>15. CASE Interrupt(p)
  <2>1. CASE At(p, "serve") /\ Dies(p)
    BY <1>1, <1>3, <2>1 DEF Dies, FreshCall, TypeOK, At, Ended
  <2>2. CASE run' = [run EXCEPT ![p].stopping = TRUE] /\ UNCHANGED pc
    BY <1>1, <2>2 DEF TypeOK, Locals
  <2> QED
    BY <1>15, <2>1, <2>2 DEF Interrupt
<1> QED
  BY <1>5, <1>6, <1>7, <1>8, <1>9, <1>10, <1>11, <1>12, <1>13, <1>14, <1>15
     DEF Actions, Step

\* The process that takes an action leaves the locals of the others alone.
LEMMA ActionsApart ==
  ASSUME TypeOK, NEW p \in Procs, Actions(p)
  PROVE  Apart(p)
BY StartShape, BootLoadShape, BootSaveShape, LoadShape, AcquireShape, LaunchShape,
   SucceedsShape, FailsShape, CountShape, RetryShape, FinishShape, CheckShape,
   FireShape, CrashShape, InterruptShape DEF Actions, Step

LEMMA EndedStep ==
  ASSUME TypeOK, EndedInv, [Next]_vars
  PROVE  /\ EndedInv'
         /\ \A p \in Procs :
              run[p].erased > 0 /\ run'[p].erased = 0 =>
                \/ pc[p] \in {"announce", "alert"}
                \/ crashes' > crashes \/ faults' > faults
<1>1. ASSUME NEW p \in Procs, Actions(p), NEW q \in Procs
      PROVE  /\ run'[q].erased > 0 => pc'[q] \in Ended
             /\ run[q].erased > 0 /\ run'[q].erased = 0 =>
                  \/ pc[q] \in {"announce", "alert"}
                  \/ crashes' > crashes \/ faults' > faults
  <2>1. CASE q = p
    BY <1>1, <2>1, ErasedStep DEF EndedInv
  <2>2. CASE q # p
    BY <1>1, <2>2, ActionsApart DEF Apart, EndedInv
  <2> QED
    BY <2>1, <2>2
<1>2. CASE Tick \/ Suspend \/ UNCHANGED vars
  BY <1>2 DEF Tick, Suspend, vars, EndedInv
<1> QED
  BY <1>1, <1>2 DEF Next, Actions, EndedInv

\* The only process that renews tells of the outage that its success has ended, with
\* the failures it has counted, unless it dies or the state file fails first, whatever
\* else starts, fails, dies and restarts.
THEOREM RecoveriesTold ==
  ASSUME NEW lone, Sole(lone)
  PROVE  Spec => RecoveryTold
<1>1. Init => RecoveryInv(lone) /\ EndedInv
  BY DEF Init, RecoveryInv, EndedInv, Sole, FreshCall
<1>2. TypeOK /\ SkipInv /\ RecoveryInv(lone) /\ [Next]_vars => RecoveryInv(lone)'
  <2>1. ASSUME Tick \/ Suspend \/ UNCHANGED vars, RecoveryInv(lone)
        PROVE  RecoveryInv(lone)'
    BY <2>1 DEF Tick, Suspend, vars, RecoveryInv
  <2>2. lone \in Procs
    BY DEF Sole
  <2>3. QED
    BY <2>1, <2>2, RecoveryStep, RecoveryApart DEF Next, Actions
<1>3. TypeOK /\ EndedInv /\ [Next]_vars => EndedInv'
  BY EndedStep
<1>4. TypeOK /\ SkipInv /\ RecoveryInv(lone) /\ EndedInv /\ [Next]_vars =>
        [\A p \in Procs :
           run[p].erased > 0 /\ run'[p].erased = 0 =>
             \/ At(p, "announce") /\ run[p].seen = run[p].erased
             \/ At(p, "alert")
             \/ crashes' > crashes \/ faults' > faults]_vars
  <2> SUFFICES ASSUME TypeOK, SkipInv, RecoveryInv(lone), EndedInv, [Next]_vars
               PROVE  \A p \in Procs : pc[p] = "announce" => run[p].seen = run[p].erased
    BY EndedStep DEF At
  <2> QED
    BY DEF SkipInv, RecoveryInv, Sole
<1>5. QED
  BY <1>1, <1>2, <1>3, <1>4, TypeCorrect, SkippersSkip, PTL DEF Spec, RecoveryTold

(***************************************************************************)
(* The job of a process that has the volume to itself, whose state file can *)
(* be used and whose host does not sleep through a date.                    *)
(***************************************************************************)

Undisturbed(p) ==
  Procs = {p} /\ p \notin SkipInitial /\ MaxFaults = 0 /\ MaxSuspends = 0

\* A date that is no farther from a moment than the cap and the morning slot.
Soon(date, from) ==
  date # None => \E slot \in CheckSlots : date <= from + MaxDays * DayTicks + slot

\* The job is there and not overdue from the moment that a run has added it, or
\* a restart will, and the document names it.
AlarmInv(p) ==
  /\ pc[p] \in {"serve", "alert", "announce"} =>
       job[p] # None /\ now <= job[p] /\ disk.nextCheck = job[p]
  /\ pc[p] = "bootSave" => run[p].restored # None /\ now <= run[p].restored

\* Between two runs that nobody kills the date is counted from the end of the
\* first.
IntervalInv(p) ==
  crashes = 0 =>
    /\ pc[p] \notin LockedPhase => Soon(disk.nextCheck, lastCheck)
    /\ pc[p] = "bootSave" => Soon(run[p].restored, lastCheck)
    /\ pc[p] \in {"alert", "announce"} => Soon(disk.nextCheck, now)

LEMMA NothingFails ==
  ASSUME TypeOK, MaxFaults = 0
  PROVE  ~ StoreFails
BY DEF TypeOK, StoreFails

\* What a restart makes of the date in the document.
LEMMA Restored ==
  ASSUME TypeOK
  PROVE  LET restored == FutureCheck(disk.nextCheck, now)
             capped   == CapFutureCheck(restored, now)
         IN  /\ restored # None => restored = disk.nextCheck /\ restored > now
             /\ capped # None => restored # None /\ capped > now /\ capped <= restored
             /\ capped = None => restored = None
             /\ restored \in OptTime /\ capped \in OptTime
<1>1. disk.nextCheck \in OptTime /\ now \in Nat
  BY DEF TypeOK, Document, Time
<1>2. MaxDays * DayTicks \in Nat /\ MaxDays * DayTicks > 0
  BY CheckAssumption, DayAssumption
<1>3. QED
  BY <1>1, <1>2, NoneAssumption DEF FutureCheck, CapFutureCheck, OptTime, Time, Least

LEMMA SoonEarlier ==
  ASSUME NEW from \in Nat, NEW date \in OptTime, NEW earlier \in Nat,
         date # None, Soon(date, from), earlier <= date
  PROVE  Soon(earlier, from)
<1>1. PICK slot \in CheckSlots : date <= from + MaxDays * DayTicks + slot
  BY DEF Soon
<1>2. date \in Nat /\ slot \in Nat
  BY CheckAssumption DEF OptTime, Time
<1>3. earlier <= from + MaxDays * DayTicks + slot
  BY <1>1, <1>2, CapArithmetic
<1>4. QED
  BY <1>3 DEF Soon

LEMMA AlarmStep ==
  ASSUME TypeOK, LockInv, NEW p, Undisturbed(p), AlarmInv(p), IntervalInv(p), Actions(p)
  PROVE  AlarmInv(p)' /\ IntervalInv(p)'
<1>1. /\ p \in Procs /\ p \notin SkipInitial /\ ~ StoreFails
      /\ disk \in Document /\ now \in Nat /\ lastCheck \in Nat
      /\ job[p] \in OptTime /\ disk.nextCheck \in OptTime /\ run[p].restored \in OptTime
  BY NothingFails DEF Undisturbed, TypeOK, Document, Locals, Time
<1>2. pc[p] \notin LockedPhase => runLock = NoProc
  BY DEF LockInv, Undisturbed, TypeOK
<1>3. CASE Start(p)
  BY <1>1, <1>3, StartShape DEF AlarmInv, IntervalInv, LockedPhase
<1>4. CASE BootLoad(p)
  <2> DEFINE restored == FutureCheck(disk.nextCheck, now)
             capped   == CapFutureCheck(restored, now)
  <2>1. /\ restored # None => restored = disk.nextCheck /\ restored > now
        /\ capped # None => restored # None /\ capped > now /\ capped <= restored
        /\ capped = None => restored = None
        /\ capped \in OptTime
    BY Restored
  <2>2. /\ pc[p] = "boot" /\ UNCHANGED <<now, disk, lastCheck, crashes>>
        /\ \/ /\ capped # restored
              /\ pc'[p] = "bootSave" /\ run'[p].restored = capped
           \/ capped = restored /\ Dispatched(p, restored)
    BY <1>1, <1>4, BootLoadShape
  <2> HIDE DEF capped, restored
  <2>3. crashes = 0 => Soon(disk.nextCheck, lastCheck)
    BY <2>2 DEF IntervalInv, LockedPhase
  <2>4. CASE capped # restored /\ pc'[p] = "bootSave" /\ run'[p].restored = capped
    <3>1. capped # None /\ capped \in Nat /\ capped > now /\ disk.nextCheck # None
          /\ capped <= disk.nextCheck
      BY <2>1, <2>4 DEF OptTime, Time
    <3>2. crashes = 0 => Soon(capped, lastCheck)
      BY <1>1, <2>3, <3>1, SoonEarlier
    <3>3. AlarmInv(p)'
      BY <1>1, <2>2, <2>4, <3>1 DEF AlarmInv
    <3>4. IntervalInv(p)'
      BY <2>2, <2>3, <2>4, <3>2 DEF IntervalInv, Soon
    <3>5. QED
      BY <3>3, <3>4
  <2>5. CASE capped = restored /\ Dispatched(p, restored)
    <3>1. \/ pc'[p] = "load"
          \/ pc'[p] = "serve" /\ restored # None /\ job'[p] = restored
      BY <1>1, <2>5 DEF Dispatched
    <3>2. AlarmInv(p)'
      <4>1. restored # None => restored \in Nat /\ restored > now
        BY <2>1, <2>5 DEF OptTime, Time
      <4>2. QED
        BY <1>1, <2>1, <2>2, <3>1, <4>1 DEF AlarmInv
    <3>3. IntervalInv(p)'
      BY <2>2, <2>3, <3>1 DEF IntervalInv, Soon, LockedPhase
    <3>4. QED
      BY <3>2, <3>3
  <2>6. QED
    BY <2>2, <2>4, <2>5
<1>5. CASE BootSave(p)
  <2>1. /\ pc[p] = "bootSave" /\ UNCHANGED <<now, lastCheck, crashes>>
        /\ disk' = RecordNextCheck(disk, run[p].restored)
        /\ Dispatched(p, run[p].restored)
    BY <1>1, <1>5, BootSaveShape
  <2>2. disk'.nextCheck = run[p].restored
    BY <1>1, <2>1, WrittenFields
  <2>3. /\ pc'[p] \in {"load", "serve"}
        /\ pc'[p] = "serve" => job'[p] = run[p].restored
    BY <1>1, <2>1 DEF Dispatched
  <2>4. QED
    BY <2>1, <2>2, <2>3 DEF AlarmInv, IntervalInv, Soon, LockedPhase
<1>6. CASE Load(p)
  BY <1>1, <1>6, LoadShape DEF AlarmInv, IntervalInv, Soon, LockedPhase
<1>7. CASE Acquire(p)
  BY <1>1, <1>2, <1>7, AcquireShape DEF AlarmInv, IntervalInv, Soon, LockedPhase, Onward
<1>8. CASE Launch(p)
  BY <1>1, <1>8, LaunchShape DEF AlarmInv, IntervalInv, LockedPhase, Onward
<1>9. ASSUME NEW days \in RenewalDays, RunSucceeds(p, days)
      PROVE  AlarmInv(p)' /\ IntervalInv(p)'
  BY <1>1, <1>9, SucceedsShape DEF AlarmInv, IntervalInv, LockedPhase
<1>10. CASE RunFails(p)
  BY <1>1, <1>10, FailsShape DEF AlarmInv, IntervalInv, LockedPhase, Onward
<1>11. CASE CountFailure(p)
  BY <1>1, <1>11, CountShape DEF AlarmInv, IntervalInv, LockedPhase
<1>12. CASE ScheduleRetry(p)
  <2>1. PICK jitter \in Jitters :
          LET date == now + RetryDelay(run[p].count, jitter)
          IN  /\ disk' = RecordRetryScheduled(disk, date)
              /\ pc'[p] = "alert" /\ job'[p] = date
    BY <1>1, <1>12, RetryShape
  <2> DEFINE date == now + RetryDelay(run[p].count, jitter)
  <2>2. date \in Nat /\ date > now /\ Within(date)
    BY <1>1, RetryDates
  <2> HIDE DEF date
  <2>3. disk'.nextCheck = date /\ now' = now /\ pc'[p] = "alert" /\ job'[p] = date
    BY <1>1, <1>12, <2>1, <2>2, RetryShape, WrittenFields DEF OptTime, Time, date
  <2>4. QED
    BY <1>1, <2>2, <2>3, NoneAssumption DEF AlarmInv, IntervalInv, Soon, Within, LockedPhase
<1>13. CASE ScheduleNextCheck(p)
  <2>1. PICK fallback \in Fallbacks, slot \in CheckSlots :
          LET date == NextCheckAt(now, DaysUntilCheck(run[p].renewal, fallback), slot)
          IN  /\ disk' = RecordNextCheck(disk, date)
              /\ pc'[p] = "announce" /\ job'[p] = date
    BY <1>1, <1>13, CheckShape
  <2> DEFINE date == NextCheckAt(now, DaysUntilCheck(run[p].renewal, fallback), slot)
  <2>2. date \in Nat /\ date > now /\ Within(date)
    BY <1>1, CheckDates
  <2> HIDE DEF date
  <2>3. disk'.nextCheck = date /\ now' = now /\ pc'[p] = "announce" /\ job'[p] = date
    BY <1>1, <1>13, <2>1, <2>2, CheckShape, WrittenFields DEF OptTime, Time, date
  <2>4. QED
    BY <1>1, <2>2, <2>3, NoneAssumption DEF AlarmInv, IntervalInv, Soon, Within, LockedPhase
<1>14. CASE FinishFailed(p) \/ FinishSucceeded(p)
  <2>1. /\ pc[p] \in {"alert", "announce"} /\ Left(p, job[p])
        /\ lastCheck' = now /\ UNCHANGED <<now, disk, crashes>>
    BY <1>1, <1>14, FinishShape
  <2>2. QED
    BY <2>1 DEF AlarmInv, IntervalInv, Soon, Left, LockedPhase
<1>15. CASE Fire(p) \/ Misfire(p)
  <2>1. pc[p] = "serve" /\ job[p] # None /\ now <= job[p] /\ job[p] \in Nat
    BY <1>1, <1>15, FireShape DEF AlarmInv, OptTime, Time
  <2>2. pc'[p] = "load" /\ UNCHANGED <<now, disk, lastCheck, crashes>>
    BY <1>1, <1>15, <2>1, FireShape
  <2>3. QED
    BY <2>1, <2>2 DEF AlarmInv, IntervalInv, Soon, LockedPhase
<1>16. CASE Crash(p)
  <2>1. crashes' # 0
    BY <1>1, <1>16, CrashShape DEF TypeOK
  <2>2. QED
    BY <1>1, <1>16, <2>1, CrashShape DEF AlarmInv, IntervalInv
<1>17. CASE Interrupt(p)
  <2>1. CASE pc[p] = "serve" /\ pc'[p] = "down"
    <3>1. runLock # p
      BY <1>1, <1>2, <2>1, ProcAssumption DEF LockedPhase
    <3>2. UNCHANGED <<lastCheck, now, disk, crashes>>
      BY <1>17, <3>1 DEF Interrupt, Dies
    <3>3. QED
      BY <2>1, <3>2 DEF AlarmInv, IntervalInv, Soon, LockedPhase
  <2>2. CASE /\ pc'[p] = pc[p] /\ job'[p] = job[p] /\ UNCHANGED lastCheck
             /\ run'[p].restored = run[p].restored
    BY <1>1, <1>17, <2>2, InterruptShape DEF AlarmInv, IntervalInv, Soon
  <2>3. QED
    BY <1>1, <1>17, <2>1, <2>2, InterruptShape
<1>18. QED
  BY <1>3, <1>4, <1>5, <1>6, <1>7, <1>8, <1>9, <1>10, <1>11, <1>12, <1>13, <1>14,
     <1>15, <1>16, <1>17 DEF Actions, Step

LEMMA NextAlarm ==
  ASSUME TypeOK, LockInv, NEW p, Undisturbed(p), AlarmInv(p), IntervalInv(p), [Next]_vars
  PROVE  AlarmInv(p)' /\ IntervalInv(p)'
<1>1. CASE Tick
  <2>1. /\ now' = now + 1 /\ UNCHANGED <<disk, pc, job, run, lastCheck, crashes>>
        /\ pc[p] \in {"down", "serve", "work"} /\ ~ Due(p)
    BY <1>1 DEF Tick, Undisturbed
  <2>2. now \in Nat /\ job[p] \in OptTime
    BY DEF Undisturbed, TypeOK, Time
  <2>3. pc[p] = "serve" => job[p] # None /\ now' <= job[p]
    BY <2>1, <2>2 DEF Due, At, AlarmInv, OptTime, Time
  <2>4. AlarmInv(p)'
    BY <2>1, <2>3 DEF AlarmInv
  <2>5. IntervalInv(p)'
    BY <2>1 DEF IntervalInv, Soon
  <2>6. QED
    BY <2>4, <2>5
<1>2. CASE Suspend
  BY <1>2 DEF Suspend, Undisturbed, TypeOK
<1>3. CASE UNCHANGED vars
  BY <1>3 DEF vars, AlarmInv, IntervalInv, Soon
<1>4. QED
  BY <1>1, <1>2, <1>3, AlarmStep DEF Next, Actions, Undisturbed

LEMMA AlarmInvariant ==
  ASSUME NEW p, Undisturbed(p)
  PROVE  Spec => [](AlarmInv(p) /\ IntervalInv(p))
<1>1. Init => AlarmInv(p) /\ IntervalInv(p)
  BY DEF Init, Undisturbed, AlarmInv, IntervalInv, Soon, DefaultState
<1>2. QED
  BY <1>1, TypeCorrect, RunLockSafe, NextAlarm, PTL DEF Spec

\* A process that serves has a job, however its runs fail and wherever it dies.
THEOREM AlwaysScheduled ==
  ASSUME NEW p, Undisturbed(p)
  PROVE  Spec => []NeverOrphaned
<1>1. AlarmInv(p) => NeverOrphaned
  BY DEF AlarmInv, NeverOrphaned, Undisturbed, At
<1>2. QED
  BY <1>1, AlarmInvariant, PTL

\* The document names the date that the scheduler holds in memory.
THEOREM ScheduleKept ==
  ASSUME NEW p, Undisturbed(p)
  PROVE  Spec => []ScheduleDurable
<1>1. AlarmInv(p) => ScheduleDurable
  BY DEF AlarmInv, ScheduleDurable, Undisturbed, At
<1>2. QED
  BY <1>1, AlarmInvariant, PTL

\* Checks follow each other within the cap and the morning slot.
THEOREM ChecksCome ==
  ASSUME NEW p, Undisturbed(p)
  PROVE  Spec => []ChecksKeepComing
<1>1. TypeOK /\ AlarmInv(p) /\ IntervalInv(p) => ChecksKeepComing
  <2> SUFFICES ASSUME TypeOK, AlarmInv(p), IntervalInv(p), Idle, crashes = 0
               PROVE  \E slot \in CheckSlots :
                        At(p, "serve") => now - lastCheck <= MaxDays * DayTicks + slot
    BY DEF ChecksKeepComing, Undisturbed
  <2>1. CASE ~ At(p, "serve")
    BY <2>1, CheckAssumption
  <2>2. CASE At(p, "serve")
    <3>1. /\ job[p] # None /\ now <= job[p] /\ disk.nextCheck = job[p]
          /\ Soon(disk.nextCheck, lastCheck)
      BY <2>2 DEF At, AlarmInv, IntervalInv, LockedPhase
    <3>2. PICK slot \in CheckSlots : job[p] <= lastCheck + MaxDays * DayTicks + slot
      BY <3>1 DEF Soon
    <3>3. job[p] \in Nat /\ now \in Nat /\ lastCheck \in Nat /\ slot \in Nat
      BY <3>1, CheckAssumption DEF TypeOK, Undisturbed, OptTime, Time
    <3>4. now - lastCheck <= MaxDays * DayTicks + slot
      BY <3>1, <3>2, <3>3, CapArithmetic
    <3>5. QED
      BY <3>4
  <2>3. QED
    BY <2>1, <2>2
<1>2. QED
  BY <1>1, AlarmInvariant, TypeCorrect, PTL

(***************************************************************************)
(* Failure mails and health, while nothing crashes and no access fails.     *)
(***************************************************************************)

\* If no access of the state file has failed after a step, none failed in it.
LEMMA NoFault ==
  ASSUME TypeOK, faults' = 0
  PROVE  ~ StoreFails
BY DEF TypeOK, StoreFails

\* The failures that have to be mailed among the first n.
Told(n) == {k \in 1 .. n : ShouldNotifyFailure(k)}

\* While a failure is reported, it alone may be missing.
TellInv ==
  crashes = 0 /\ faults = 0 =>
    /\ (\A p \in Procs : pc[p] \notin Reporting) => alerted = Told(disk.failures)
    /\ \A p \in Procs : pc[p] \in Reporting =>
         disk.failures >= 1 /\ alerted = Told(disk.failures - 1)

\* An outage shows in the document, or a run is trying to end it.
OutageInv ==
  crashes = 0 /\ faults = 0 /\ disk.failures > 0 =>
    disk.lastError \/ \E p \in Procs : pc[p] = "work"

\* The steps between the writes that TellInv and OutageInv are about.
LEMMA ReportsGoOn ==
  ASSUME TypeOK, NEW p \in Procs, Actions(p), ~ StoreFails, crashes' = crashes,
         ~ CountFailure(p), ~ FinishFailed(p),
         \A days \in RenewalDays : ~ RunSucceeds(p, days)
  PROVE  /\ Apart(p) /\ disk'.failures = disk.failures /\ alerted' = alerted
         /\ pc'[p] \in Reporting <=> pc[p] \in Reporting
         /\ pc[p] = "work" => pc'[p] = "work" \/ disk'.lastError
         /\ disk.lastError => disk'.lastError \/ pc'[p] = "work"
<1>1. disk \in Document /\ run[p].restored \in OptTime /\ None \in OptTime
  BY DEF TypeOK, Locals, OptTime
<1>2. CASE Start(p)
  BY <1>2, StartShape DEF Reporting
<1>3. CASE BootLoad(p)
  <2>1. /\ pc[p] = "boot" /\ pc'[p] \in {"bootSave", "serve", "load"} /\ Apart(p)
        /\ UNCHANGED <<disk, alerted>>
    BY <1>3, BootLoadShape DEF Dispatched
  <2>2. QED
    BY <2>1 DEF Reporting
<1>4. CASE BootSave(p)
  <2>1. /\ pc[p] = "bootSave" /\ pc'[p] \in {"serve", "load"} /\ Apart(p)
        /\ disk' = RecordNextCheck(disk, run[p].restored) /\ UNCHANGED alerted
    BY <1>4, BootSaveShape DEF Dispatched
  <2>2. disk'.failures = disk.failures /\ disk'.lastError = disk.lastError
    BY <1>1, <2>1, FailuresKept, WrittenFields
  <2>3. QED
    BY <2>1, <2>2 DEF Reporting
<1>5. CASE Load(p)
  BY <1>5, LoadShape DEF Reporting
<1>6. CASE Acquire(p)
  BY <1>6, AcquireShape DEF Reporting, Left, Onward
<1>7. CASE Launch(p)
  <2>1. /\ pc[p] = "launch" /\ Apart(p) /\ UNCHANGED alerted
        /\ \/ pc'[p] = "work" /\ disk' = RecordRunStarted(disk)
           \/ pc'[p] = "failed" /\ disk' = RecordFailure(disk)
    BY <1>7, LaunchShape DEF Onward
  <2>2. disk'.failures = disk.failures
    BY <1>1, <2>1, FailuresKept
  <2>3. pc'[p] = "work" \/ disk'.lastError
    BY <1>1, <2>1, WrittenFields
  <2>4. QED
    BY <2>1, <2>2, <2>3 DEF Reporting
<1>8. CASE RunFails(p)
  <2>1. /\ pc[p] = "work" /\ pc'[p] = "failed" /\ Apart(p) /\ UNCHANGED alerted
        /\ disk' = RecordFailure(disk)
    BY <1>8, FailsShape DEF Onward
  <2>2. disk'.failures = disk.failures /\ disk'.lastError
    BY <1>1, <2>1, FailuresKept, WrittenFields
  <2>3. QED
    BY <2>1, <2>2 DEF Reporting
<1>9. CASE ScheduleRetry(p)
  <2>1. PICK jitter \in Jitters :
          /\ disk' = RecordRetryScheduled(disk, now + RetryDelay(run[p].count, jitter))
          /\ pc'[p] = "alert"
    BY <1>9, RetryShape
  <2> DEFINE date == now + RetryDelay(run[p].count, jitter)
  <2>2. date \in OptTime
    BY RetryDates DEF OptTime
  <2> HIDE DEF date
  <2>3. disk'.failures = disk.failures /\ disk'.lastError = disk.lastError
    BY <1>1, <2>1, <2>2, FailuresKept, WrittenFields DEF date
  <2>4. pc[p] = "retry" /\ Apart(p) /\ alerted' = alerted
    BY <1>9, RetryShape
  <2>5. QED
    BY <2>1, <2>3, <2>4 DEF Reporting
<1>10. CASE ScheduleNextCheck(p)
  <2>1. PICK fallback \in Fallbacks, slot \in CheckSlots :
          LET date == NextCheckAt(now, DaysUntilCheck(run[p].renewal, fallback), slot)
          IN  disk' = RecordNextCheck(disk, date) /\ pc'[p] = "announce"
    BY <1>10, CheckShape
  <2> DEFINE date == NextCheckAt(now, DaysUntilCheck(run[p].renewal, fallback), slot)
  <2>2. date \in OptTime
    BY CheckDates DEF OptTime
  <2> HIDE DEF date
  <2>3. disk'.failures = disk.failures /\ disk'.lastError = disk.lastError
    BY <1>1, <2>1, <2>2, FailuresKept, WrittenFields DEF date
  <2>4. pc[p] = "reschedule" /\ Apart(p) /\ alerted' = alerted
    BY <1>10, CheckShape
  <2>5. QED
    BY <2>1, <2>3, <2>4 DEF Reporting
<1>11. CASE FinishSucceeded(p)
  <2>1. At(p, "announce") /\ UNCHANGED <<disk, alerted>>
    BY <1>11 DEF FinishSucceeded
  <2>2. Apart(p) /\ pc'[p] \in {"down", "serve"}
    BY <1>11, FinishShape DEF Left
  <2>3. QED
    BY <2>1, <2>2 DEF Reporting, At
<1>12. CASE Fire(p) \/ Misfire(p)
  BY <1>12, FireShape DEF Reporting
<1>13. CASE Crash(p)
  BY <1>13, CrashShape DEF TypeOK
<1>14. CASE Interrupt(p)
  BY <1>14, InterruptShape DEF Reporting
<1>15. QED
  BY <1>2, <1>3, <1>4, <1>5, <1>6, <1>7, <1>8, <1>9, <1>10, <1>11, <1>12, <1>13,
     <1>14 DEF Actions, Step

LEMMA ToldNext ==
  ASSUME NEW n \in Nat, n >= 1
  PROVE  Told(n) = IF ShouldNotifyFailure(n) THEN Told(n - 1) \union {n} ELSE Told(n - 1)
<1>1. 1 .. n = (1 .. n - 1) \union {n}
  OBVIOUS
<1>2. QED
  BY <1>1 DEF Told

LEMMA TellStep ==
  ASSUME TypeOK, LockInv, CountIsCurrent, TellInv, OutageInv, NEW p \in Procs, Actions(p)
  PROVE  TellInv' /\ OutageInv'
<1> SUFFICES ASSUME crashes' = 0, faults' = 0
             PROVE  TellInv' /\ OutageInv'
  BY DEF TellInv, OutageInv
<1>1. crashes = 0 /\ faults = 0
  <2>1. Next
    BY DEF Actions, Next
  <2>2. QED
    BY <2>1, TroublesStay DEF TypeOK
<1>2. ~ StoreFails
  BY NoFault
<1>3. disk \in Document /\ disk.failures \in Nat /\ None \in OptTime
  BY DEF TypeOK, Document, OptTime
<1>4. \A q \in Procs \ {p} : pc[p] \in LockedPhase => pc[q] \notin LockedPhase
  BY DEF LockInv
<1>5. CASE CountFailure(p)
  <2>1. /\ pc[p] = "failed" /\ Apart(p) /\ alerted' = alerted
        /\ disk' = RecordRetryFailure(disk) /\ pc'[p] = "retry"
    BY <1>2, <1>5, CountShape
  <2>2. disk'.failures = disk.failures + 1 /\ disk'.lastError
    BY <1>3, <2>1, FailuresKept, WrittenFields
  <2>3. \A q \in Procs : pc[q] \notin Reporting
    BY <1>4, <2>1 DEF LockedPhase, Reporting
  <2>4. alerted = Told(disk.failures)
    BY <1>1, <2>3 DEF TellInv
  <2>5. \A q \in Procs \ {p} : pc'[q] \notin Reporting
    BY <2>1, <2>3 DEF Apart
  <2>6. disk'.failures - 1 = disk.failures /\ disk'.failures >= 1
    BY <1>3, <2>2
  <2>7. TellInv'
    BY <2>1, <2>4, <2>5, <2>6 DEF TellInv, Told, Reporting
  <2>8. QED
    BY <2>2, <2>7 DEF OutageInv
<1>6. CASE FinishFailed(p)
  <2>1. /\ pc[p] = "alert" /\ pc'[p] \in {"down", "serve"} /\ Apart(p) /\ disk' = disk
    BY <1>6, FinishShape DEF FinishFailed, At, Left
  <2>2. run[p].count = disk.failures /\ disk.failures >= 1 /\ alerted = Told(disk.failures - 1)
    BY <1>1, <2>1 DEF TellInv, CountIsCurrent, Reporting
  <2>3. alerted' = IF ShouldNotifyFailure(disk.failures)
                   THEN alerted \union {disk.failures} ELSE alerted
    BY <1>6, <2>2 DEF FinishFailed
  <2>4. alerted' = Told(disk.failures)
    BY <1>3, <2>2, <2>3, ToldNext
  <2>5. \A q \in Procs : pc'[q] \notin Reporting
    BY <1>4, <2>1 DEF LockedPhase, Reporting, Apart
  <2>6. TellInv'
    BY <2>1, <2>4, <2>5 DEF TellInv, Told
  <2>7. \A q \in Procs : pc[q] # "work"
    BY <1>4, <2>1 DEF LockedPhase
  <2>8. QED
    BY <1>1, <2>1, <2>6, <2>7 DEF OutageInv
<1>7. ASSUME NEW days \in RenewalDays, RunSucceeds(p, days)
      PROVE  TellInv' /\ OutageInv'
  <2> DEFINE date == IF days # 0 THEN now + days * DayTicks ELSE None
  <2>1. date \in OptTime
    <3>1. days \in Nat /\ DayTicks \in Nat /\ now \in Nat
      BY RobotAssumption, DayAssumption DEF TypeOK, Time
    <3>2. days * DayTicks \in Nat
      BY <3>1
    <3>3. QED
      BY <3>1, <3>2 DEF OptTime, Time
  <2>2. /\ pc[p] = "work" /\ Apart(p) /\ pc'[p] \in {"reschedule", "failed"}
        /\ alerted' = {} /\ disk' = RecordSuccess(disk, date)
    BY <1>7, SucceedsShape
  <2> HIDE DEF date
  <2>3. disk'.failures = 0
    BY <1>3, <2>1, <2>2, FailuresKept
  <2>4. \A q \in Procs : pc'[q] \notin Reporting
    BY <1>4, <2>2 DEF LockedPhase, Reporting, Apart
  <2>5. alerted' = Told(0)
    BY <2>2 DEF Told
  <2>6. QED
    BY <2>3, <2>4, <2>5 DEF TellInv, OutageInv, Told
<1>8. CASE /\ ~ CountFailure(p) /\ ~ FinishFailed(p)
           /\ \A days \in RenewalDays : ~ RunSucceeds(p, days)
  <2>1. /\ Apart(p) /\ disk'.failures = disk.failures /\ alerted' = alerted
        /\ pc'[p] \in Reporting <=> pc[p] \in Reporting
        /\ pc[p] = "work" => pc'[p] = "work" \/ disk'.lastError
        /\ disk.lastError => disk'.lastError \/ pc'[p] = "work"
    BY <1>1, <1>2, <1>8, ReportsGoOn
  <2>2. \A q \in Procs : pc'[q] \in Reporting <=> pc[q] \in Reporting
    BY <2>1 DEF Apart
  <2>3. TellInv'
    BY <1>1, <2>1, <2>2 DEF TellInv, Told
  <2>4. OutageInv'
    BY <1>1, <2>1 DEF OutageInv, Apart
  <2>5. QED
    BY <2>3, <2>4
<1>9. QED
  BY <1>5, <1>6, <1>7, <1>8

LEMMA TellInvariant == Spec => [](TellInv /\ OutageInv)
<1>1. Init => TellInv /\ OutageInv
  BY DEF Init, TellInv, OutageInv, Told, Reporting, DefaultState
<1>2. TypeOK /\ LockInv /\ CountIsCurrent /\ TellInv /\ OutageInv /\ [Next]_vars
        => TellInv' /\ OutageInv'
  <2>1. ASSUME Tick \/ Suspend \/ UNCHANGED vars, TellInv, OutageInv
        PROVE  TellInv' /\ OutageInv'
    BY <2>1 DEF Tick, Suspend, vars, TellInv, OutageInv, Told
  <2>2. QED
    BY <2>1, TellStep DEF Next, Actions
<1>3. QED
  BY <1>1, <1>2, TypeCorrect, RunLockSafe, ReportedCountIsCurrent, PTL DEF Spec

\* The failures mailed are those that the policy selects, for any number of
\* processes that take turns, as long as none dies and the file can be used.
THEOREM AlertsComplete == Spec => []AlertsExact
<1>1. TellInv => AlertsExact
  BY DEF TellInv, AlertsExact, Idle, LockedPhase, Reporting, Told
<1>2. QED
  BY <1>1, TellInvariant, PTL

\* In the same circumstances health never hides an outage.
THEOREM OutageShows == Spec => []HealthTellsOutage
<1>1. OutageInv => HealthTellsOutage
  BY DEF OutageInv, HealthTellsOutage, Idle, LockedPhase, EvaluateHealth
<1>2. QED
  BY <1>1, TellInvariant, PTL

(***************************************************************************)
(* The back-off after a failure.                                            *)
(***************************************************************************)

\* A process that has the volume to itself, is not in dry-run mode and whose
\* retries fit the cap, which a restart applies to the date it restores.
Retries(p) ==
  /\ Procs = {p} /\ p \notin DryRun
  /\ \A failures \in Nat, jitter \in Jitters :
       RetryDelay(failures, jitter) <= MaxDays * DayTicks

\* As long as a retry is pending, everything that may start a run waits for it.
BackoffInv(p) ==
  disk.nextRetry # None =>
    /\ disk.nextRetry <= now + MaxDays * DayTicks
    /\ disk.nextCheck # None /\ disk.nextRetry <= disk.nextCheck
    /\ job[p] # None => disk.nextRetry <= job[p]
    /\ pc[p] \in {"load", "acquire", "launch"} => disk.nextRetry <= now
    /\ pc[p] = "bootSave" => run[p].restored # None /\ disk.nextRetry <= run[p].restored
    /\ pc[p] \notin {"retry", "reschedule", "announce"}

LEMMA BackoffStep ==
  ASSUME TypeOK, NEW p, Retries(p), BackoffInv(p), Actions(p)
  PROVE  BackoffInv(p)'
<1>1. /\ p \in Procs /\ p \notin DryRun /\ disk \in Document /\ now \in Nat
      /\ job[p] \in OptTime /\ disk.nextCheck \in OptTime /\ disk.nextRetry \in OptTime
      /\ run[p].restored \in OptTime /\ None \in OptTime
  BY DEF Retries, TypeOK, Document, Locals, Time, OptTime
<1>2. CASE Start(p)
  BY <1>1, <1>2, StartShape DEF BackoffInv
<1>3. CASE BootLoad(p)
  <2> DEFINE restored == FutureCheck(disk.nextCheck, now)
             capped   == CapFutureCheck(restored, now)
  <2>1. /\ pc[p] = "boot" /\ UNCHANGED <<now, disk>>
        /\ \/ /\ capped # restored
              /\ pc'[p] = "bootSave" /\ job'[p] = job[p] /\ run'[p].restored = capped
           \/ capped = restored /\ Dispatched(p, restored)
           \/ pc'[p] = "down" /\ job'[p] = job[p]
    BY <1>1, <1>3, BootLoadShape DEF Onward
  <2>2. ASSUME disk.nextRetry # None
        PROVE  /\ capped # None => disk.nextRetry <= capped
               /\ capped = None => restored = None
               /\ restored = None => disk.nextRetry <= now /\ capped = None
    <3>1. /\ disk.nextRetry <= now + MaxDays * DayTicks
          /\ disk.nextCheck # None /\ disk.nextRetry <= disk.nextCheck
      BY <2>2 DEF BackoffInv
    <3>2. disk.nextRetry \in Nat /\ disk.nextCheck \in Nat
      BY <1>1, <2>2, <3>1 DEF OptTime, Time
    <3>3. CASE disk.nextCheck > now
      <4>1. restored = disk.nextCheck
        BY <3>1, <3>3 DEF FutureCheck
      <4>2. capped = Least(disk.nextCheck, now + MaxDays * DayTicks)
        BY <3>1, <4>1 DEF CapFutureCheck
      <4>3. capped \in Nat /\ disk.nextRetry <= capped
        BY <1>1, <3>1, <3>2, <4>2, CapArithmetic DEF Least
      <4>4. QED
        BY <3>1, <4>1, <4>3, NoneAssumption
    <3>4. CASE ~ (disk.nextCheck > now)
      <4>1. restored = None /\ capped = None
        BY <3>4 DEF FutureCheck, CapFutureCheck
      <4>2. disk.nextRetry <= now
        BY <1>1, <3>1, <3>2, <3>4
      <4>3. QED
        BY <4>1, <4>2
    <3>5. QED
      BY <3>3, <3>4
  <2> HIDE DEF capped, restored
  <2>3. CASE /\ capped # restored
             /\ pc'[p] = "bootSave" /\ job'[p] = job[p] /\ run'[p].restored = capped
    BY <2>1, <2>2, <2>3 DEF BackoffInv
  <2>4. CASE capped = restored /\ Dispatched(p, restored)
    <3>1. \/ pc'[p] = "serve" /\ job'[p] \in {job[p], capped}
          \/ pc'[p] = "load" /\ job'[p] = job[p] /\ capped = None
      BY <1>1, <2>4 DEF Dispatched
    <3>2. QED
      BY <2>1, <2>2, <2>4, <3>1 DEF BackoffInv
  <2>5. CASE pc'[p] = "down" /\ job'[p] = job[p]
    BY <2>1, <2>5 DEF BackoffInv
  <2>6. QED
    BY <2>1, <2>3, <2>4, <2>5
<1>4. CASE BootSave(p)
  <2>1. /\ pc[p] = "bootSave" /\ now' = now
        /\ \/ /\ disk' = RecordNextCheck(disk, run[p].restored)
              /\ Dispatched(p, run[p].restored)
           \/ disk' = disk /\ pc'[p] = "down" /\ job'[p] = job[p]
    BY <1>1, <1>4, BootSaveShape
  <2>2. CASE disk' = RecordNextCheck(disk, run[p].restored) /\ Dispatched(p, run[p].restored)
    <3>1. disk'.nextCheck = run[p].restored /\ disk'.nextRetry = disk.nextRetry
      BY <1>1, <2>2, WrittenFields
    <3>2. \/ pc'[p] = "serve" /\ job'[p] \in {job[p], run[p].restored}
          \/ pc'[p] = "load" /\ run[p].restored = None
      BY <1>1, <2>2 DEF Dispatched
    <3>3. QED
      BY <2>1, <3>1, <3>2 DEF BackoffInv
  <2>3. QED
    BY <2>1, <2>2 DEF BackoffInv
<1>5. CASE Load(p)
  <2>1. /\ pc[p] = "load" /\ UNCHANGED <<now, disk>>
        /\ pc'[p] \in {"acquire", "down", "serve"} /\ job'[p] \in {job[p], None}
    BY <1>1, <1>5, LoadShape DEF Left
  <2>2. QED
    BY <2>1 DEF BackoffInv
<1>6. CASE Acquire(p)
  <2>1. /\ pc[p] = "acquire" /\ UNCHANGED <<now, disk>>
        /\ pc'[p] \in {"launch", "down", "serve"} /\ job'[p] \in {job[p], None}
    BY <1>1, <1>6, AcquireShape DEF Left, Onward
  <2>2. QED
    BY <2>1 DEF BackoffInv
<1>7. CASE Launch(p)
  <2>1. /\ pc[p] = "launch" /\ now' = now /\ pc'[p] \in {"work", "failed"} /\ job'[p] = job[p]
        /\ disk' \in {RecordRunStarted(disk), RecordFailure(disk), disk}
    BY <1>1, <1>7, LaunchShape DEF Onward
  <2>2. disk'.nextCheck = disk.nextCheck /\ disk'.nextRetry = disk.nextRetry
    BY <1>1, <2>1, WrittenFields
  <2>3. QED
    BY <2>1, <2>2 DEF BackoffInv
<1>8. ASSUME NEW days \in RenewalDays, RunSucceeds(p, days)
      PROVE  BackoffInv(p)'
  BY <1>1, <1>8, SucceedsShape DEF BackoffInv, RecordSuccess, DefaultState, Document
<1>9. CASE RunFails(p)
  <2>1. /\ now' = now /\ pc'[p] = "failed" /\ job'[p] = job[p]
        /\ disk' \in {RecordFailure(disk), disk}
    BY <1>1, <1>9, FailsShape DEF Onward
  <2>2. disk'.nextCheck = disk.nextCheck /\ disk'.nextRetry = disk.nextRetry
    BY <1>1, <2>1, WrittenFields
  <2>3. QED
    BY <2>1, <2>2 DEF BackoffInv
<1>10. CASE CountFailure(p)
  <2>1. /\ now' = now
        /\ \/ disk' = RecordRetryFailure(disk)
           \/ disk' = disk /\ pc'[p] \in {"down", "serve"} /\ job'[p] \in {job[p], None}
    BY <1>1, <1>10, CountShape DEF Left
  <2>2. RecordRetryFailure(disk).nextRetry = None
    BY <1>1, WrittenFields
  <2>3. QED
    BY <2>1, <2>2 DEF BackoffInv
<1>11. CASE ScheduleRetry(p)
  <2>1. pc[p] = "retry" /\ disk.nextRetry = None /\ now' = now
    BY <1>1, <1>11, RetryShape DEF BackoffInv
  <2>2. PICK jitter \in Jitters :
          LET date == now + RetryDelay(run[p].count, jitter)
          IN  \/ disk' = RecordRetryScheduled(disk, date) /\ pc'[p] = "alert" /\ job'[p] = date
              \/ disk' = disk
    BY <1>1, <1>11, RetryShape
  <2> DEFINE delay == RetryDelay(run[p].count, jitter)
             date == now + delay
  <2>3. date \in Nat
    BY <1>1, RetryDates
  <2>4. delay <= MaxDays * DayTicks
    BY <1>1 DEF Retries, TypeOK, Locals
  <2>5. delay \in Nat
    <3>1. run[p].count \in Int /\ jitter \in Int
      BY <1>1, RetryAssumption DEF TypeOK, Locals
    <3>2. QED
      BY <3>1, RetryDelayFloor
  <2> HIDE DEF delay
  <2>6. date <= now + MaxDays * DayTicks
    BY <1>1, <2>4, <2>5, CapArithmetic
  <2> HIDE DEF date
  <2>7. CASE disk' = RecordRetryScheduled(disk, date) /\ pc'[p] = "alert" /\ job'[p] = date
    <3>1. disk'.nextCheck = date /\ disk'.nextRetry = date
      BY <1>1, <2>3, <2>7, WrittenFields DEF OptTime, Time
    <3>2. QED
      BY <2>1, <2>3, <2>6, <2>7, <3>1, NoneAssumption DEF BackoffInv
  <2>8. CASE disk' = disk
    BY <2>1, <2>8 DEF BackoffInv
  <2>9. QED
    BY <2>2, <2>7, <2>8 DEF date, delay
<1>12. CASE FinishFailed(p) \/ FinishSucceeded(p)
  <2>1. /\ pc'[p] \in {"down", "serve"} /\ job'[p] \in {job[p], None}
        /\ UNCHANGED <<now, disk>>
    BY <1>1, <1>12, FinishShape DEF Left
  <2>2. QED
    BY <2>1 DEF BackoffInv
<1>13. CASE ScheduleNextCheck(p)
  <2>1. pc[p] = "reschedule" /\ disk.nextRetry = None
    BY <1>1, <1>13, CheckShape DEF BackoffInv
  <2>2. PICK fallback \in Fallbacks, slot \in CheckSlots :
          disk' \in {RecordNextCheck(disk,
                       NextCheckAt(now, DaysUntilCheck(run[p].renewal, fallback), slot)), disk}
    BY <1>1, <1>13, CheckShape
  <2> DEFINE date == NextCheckAt(now, DaysUntilCheck(run[p].renewal, fallback), slot)
  <2>3. date \in OptTime
    BY <1>1, CheckDates DEF OptTime
  <2> HIDE DEF date
  <2>4. disk'.nextRetry = None
    BY <1>1, <2>1, <2>2, <2>3, WrittenFields DEF date
  <2>5. QED
    BY <2>4 DEF BackoffInv
<1>14. CASE Fire(p) \/ Misfire(p)
  <2>1. /\ UNCHANGED <<now, disk>> /\ job'[p] = None
        /\ \/ job[p] = now /\ pc'[p] = "load"
           \/ pc'[p] = "serve"
    BY <1>1, <1>14, FireShape
  <2>2. QED
    BY <1>1, <2>1, NoneAssumption DEF BackoffInv
<1>15. CASE Crash(p)
  BY <1>1, <1>15, CrashShape DEF BackoffInv
<1>16. CASE Interrupt(p)
  BY <1>1, <1>16, InterruptShape DEF BackoffInv
<1>17. QED
  BY <1>2, <1>3, <1>4, <1>5, <1>6, <1>7, <1>8, <1>9, <1>10, <1>11, <1>12, <1>13, <1>14,
     <1>15, <1>16 DEF Actions, Step

\* No browser is started before the retry date that a failure has persisted,
\* wherever the process dies, sleeps or fails to write.
THEOREM RetriesWait ==
  ASSUME NEW p, Retries(p)
  PROVE  Spec => []BackoffRespected
<1>1. Init => BackoffInv(p)
  BY DEF Init, BackoffInv, DefaultState
<1>2. TypeOK /\ BackoffInv(p) /\ [Next]_vars => BackoffInv(p)'
  <2>1. ASSUME TypeOK, Tick \/ Suspend, BackoffInv(p)
        PROVE  BackoffInv(p)'
    <3>1. now' = now + 1 /\ now \in Nat /\ UNCHANGED <<disk, pc, job, run>>
      BY <2>1 DEF Tick, Suspend, TypeOK, Time
    <3>2. disk.nextRetry # None => disk.nextRetry \in Nat
      BY <2>1 DEF TypeOK, Document, OptTime, Time
    <3>3. QED
      BY <2>1, <3>1, <3>2, CapArithmetic DEF BackoffInv
  <2>2. ASSUME UNCHANGED vars, BackoffInv(p)
        PROVE  BackoffInv(p)'
    BY <2>2 DEF vars, BackoffInv
  <2>3. QED
    BY <2>1, <2>2, BackoffStep DEF Next, Actions, Retries
<1>3. BackoffInv(p) => BackoffRespected
  BY DEF BackoffInv, BackoffRespected, Retries, At
<1>4. QED
  BY <1>1, <1>2, <1>3, TypeCorrect, PTL DEF Spec

(***************************************************************************)
(* Calls go one way, and leave a job behind: what CallsEnd, LockComesFree   *)
(* and WorkRearms are true by, as far as the robot comes back.              *)
(***************************************************************************)

\* The most steps that the call of a process, from the start or the due job on, has
\* yet to take.
StepsLeft(p) ==
  CASE pc[p] = "boot"       -> 9
    [] pc[p] = "bootSave"   -> 8
    [] pc[p] = "load"       -> 7
    [] pc[p] = "acquire"    -> 6
    [] pc[p] = "launch"     -> 5
    [] pc[p] = "work"       -> 4
    [] pc[p] = "failed"     -> 3
    [] pc[p] \in {"retry", "reschedule"} -> 2
    [] pc[p] \in {"alert", "announce"}   -> 1
    [] pc[p] \in {"down", "serve"}       -> 0

\* Its own steps use them up; nothing that another process does, and no failure,
\* interrupt or passing of time, adds to them.
CallIsSpent ==
  [][\A p \in Procs :
       /\ Step(p) => StepsLeft(p)' < StepsLeft(p)
       /\ StepsLeft(p)' > StepsLeft(p) => Start(p) \/ Fire(p)]_vars

\* The cases of StepsLeft are disjoint, and there is no other.
Ranked ==
  \A p \in Procs :
    /\ pc[p] = "boot" => StepsLeft(p) = 9
    /\ pc[p] = "bootSave" => StepsLeft(p) = 8
    /\ pc[p] = "load" => StepsLeft(p) = 7
    /\ pc[p] = "acquire" => StepsLeft(p) = 6
    /\ pc[p] = "launch" => StepsLeft(p) = 5
    /\ pc[p] = "work" => StepsLeft(p) = 4
    /\ pc[p] = "failed" => StepsLeft(p) = 3
    /\ pc[p] \in {"retry", "reschedule"} => StepsLeft(p) = 2
    /\ pc[p] \in {"alert", "announce"} => StepsLeft(p) = 1
    /\ pc[p] \in {"down", "serve"} => StepsLeft(p) = 0
    /\ StepsLeft(p) \in 0 .. 9

LEMMA StepsLeftValue == TypeOK => Ranked
<1> SUFFICES ASSUME TypeOK, NEW p \in Procs
             PROVE  /\ pc[p] = "boot" => StepsLeft(p) = 9
                    /\ pc[p] = "bootSave" => StepsLeft(p) = 8
                    /\ pc[p] = "load" => StepsLeft(p) = 7
                    /\ pc[p] = "acquire" => StepsLeft(p) = 6
                    /\ pc[p] = "launch" => StepsLeft(p) = 5
                    /\ pc[p] = "work" => StepsLeft(p) = 4
                    /\ pc[p] = "failed" => StepsLeft(p) = 3
                    /\ pc[p] \in {"retry", "reschedule"} => StepsLeft(p) = 2
                    /\ pc[p] \in {"alert", "announce"} => StepsLeft(p) = 1
                    /\ pc[p] \in {"down", "serve"} => StepsLeft(p) = 0
                    /\ StepsLeft(p) \in 0 .. 9
  BY DEF Ranked
<1>1. CASE pc[p] = "boot"
  BY <1>1 DEF StepsLeft
<1>2. CASE pc[p] = "bootSave"
  BY <1>2 DEF StepsLeft
<1>3. CASE pc[p] = "load"
  BY <1>3 DEF StepsLeft
<1>4. CASE pc[p] = "acquire"
  BY <1>4 DEF StepsLeft
<1>5. CASE pc[p] = "launch"
  BY <1>5 DEF StepsLeft
<1>6. CASE pc[p] = "work"
  BY <1>6 DEF StepsLeft
<1>7. CASE pc[p] = "failed"
  BY <1>7 DEF StepsLeft
<1>8. CASE pc[p] \in {"retry", "reschedule"}
  BY <1>8 DEF StepsLeft
<1>9. CASE pc[p] \in {"alert", "announce"}
  BY <1>9 DEF StepsLeft
<1>10. CASE pc[p] \in {"down", "serve"}
  BY <1>10 DEF StepsLeft
<1> QED
  BY <1>1, <1>2, <1>3, <1>4, <1>5, <1>6, <1>7, <1>8, <1>9, <1>10 DEF TypeOK, Phase, LockedPhase

\* A step leads down the way from the start of a call to its end.
LEMMA StepDescends ==
  ASSUME TypeOK, NEW p \in Procs, Step(p)
  PROVE  /\ Apart(p)
         /\ \/ pc[p] = "boot" /\ pc'[p] \in {"bootSave", "load", "serve", "down"}
            \/ pc[p] = "bootSave" /\ pc'[p] \in {"load", "serve", "down"}
            \/ pc[p] = "load" /\ pc'[p] \in {"acquire", "serve", "down"}
            \/ pc[p] = "acquire" /\ pc'[p] \in {"launch", "serve", "down"}
            \/ pc[p] = "launch" /\ pc'[p] \in {"work", "failed"}
            \/ pc[p] = "work" /\ pc'[p] \in {"reschedule", "failed"}
            \/ pc[p] = "failed" /\ pc'[p] \in {"retry", "serve", "down"}
            \/ pc[p] = "retry" /\ pc'[p] \in {"alert", "serve", "down"}
            \/ pc[p] = "reschedule" /\ pc'[p] \in {"announce", "serve", "down"}
            \/ pc[p] \in {"alert", "announce"} /\ pc'[p] \in {"serve", "down"}
<1> USE DEF Left, Onward, Dispatched
<1>1. CASE BootLoad(p)
  BY <1>1, BootLoadShape
<1>2. CASE BootSave(p)
  BY <1>2, BootSaveShape
<1>3. CASE Load(p) \/ Acquire(p)
  BY <1>3, LoadShape, AcquireShape
<1>4. CASE Launch(p)
  BY <1>4, LaunchShape
<1>5. CASE \E days \in RenewalDays : RunSucceeds(p, days)
  BY <1>5, SucceedsShape
<1>6. CASE RunFails(p)
  BY <1>6, FailsShape
<1>7. CASE CountFailure(p)
  BY <1>7, CountShape
<1>8. CASE ScheduleRetry(p)
  BY <1>8, RetryShape
<1>9. CASE ScheduleNextCheck(p)
  BY <1>9, CheckShape
<1>10. CASE FinishFailed(p) \/ FinishSucceeded(p)
  BY <1>10, FinishShape
<1> QED
  BY <1>1, <1>2, <1>3, <1>4, <1>5, <1>6, <1>7, <1>8, <1>9, <1>10 DEF Step

LEMMA SpentStep ==
  ASSUME TypeOK, TypeOK', Next, NEW p \in Procs
  PROVE  /\ Step(p) => StepsLeft(p)' < StepsLeft(p)
         /\ StepsLeft(p)' > StepsLeft(p) => Start(p) \/ Fire(p)
<1>1. Ranked /\ Ranked'
  <2>1. TypeOK' => Ranked'
    BY StepsLeftValue, PTL
  <2> QED
    BY <2>1, StepsLeftValue
<1>2. Step(p) => StepsLeft(p)' < StepsLeft(p)
  BY <1>1, StepDescends DEF Ranked
<1>3. pc'[p] = pc[p] => StepsLeft(p)' = StepsLeft(p)
  BY DEF StepsLeft
<1>4. pc'[p] = "down" => StepsLeft(p)' <= StepsLeft(p)
  BY <1>1 DEF Ranked
<1>5. ASSUME NEW q \in Procs,
             Step(q) \/ Start(q) \/ Fire(q) \/ Misfire(q) \/ Crash(q) \/ Interrupt(q)
      PROVE  Apart(q)
  BY <1>5, StepDescends, StartShape, FireShape, CrashShape, InterruptShape
<1>6. CASE \E q \in Procs \ {p} :
             Step(q) \/ Start(q) \/ Fire(q) \/ Misfire(q) \/ Crash(q) \/ Interrupt(q)
  <2>1. pc'[p] = pc[p]
    BY <1>5, <1>6 DEF Apart
  <2> QED
    BY <1>1, <1>2, <1>3, <2>1 DEF Ranked
<1>7. CASE Step(p)
  BY <1>1, <1>2, <1>7 DEF Ranked
<1>8. CASE Start(p) \/ Fire(p)
  BY <1>2, <1>8
<1>9. CASE Misfire(p) \/ Crash(p) \/ Interrupt(p)
  <2>1. pc'[p] = pc[p] \/ pc'[p] = "down"
    BY <1>9, CrashShape, InterruptShape DEF Misfire
  <2> QED
    BY <1>1, <1>2, <1>3, <1>4, <2>1 DEF Ranked
<1>10. CASE Tick \/ Suspend
  BY <1>1, <1>2, <1>3, <1>10 DEF Tick, Suspend, Ranked
<1> QED
  BY <1>6, <1>7, <1>8, <1>9, <1>10 DEF Next

\* No call goes round in a circle: from its start or its due job a process takes at
\* most nine steps of its own to the end of the call, the run lock included, whatever
\* fails and whatever the other processes do.
THEOREM CallsAreShort == Spec => CallIsSpent
<1>1. TypeOK /\ TypeOK' /\ [Next]_vars =>
        [\A p \in Procs :
           /\ Step(p) => StepsLeft(p)' < StepsLeft(p)
           /\ StepsLeft(p)' > StepsLeft(p) => Start(p) \/ Fire(p)]_vars
  BY SpentStep
<1> QED
  BY <1>1, TypeCorrect, PTL DEF Spec, CallIsSpent

\* A process that is about to return from a run has been given the next job.
ArmedInv == \A p \in Procs : pc[p] \in {"alert", "announce"} => job[p] # None

LEMMA RearmStep ==
  ASSUME TypeOK, ArmedInv, NEW p \in Procs, Step(p)
  PROVE  /\ ArmedInv'
         /\ pc[p] \in LockedPhase \ {"failed"} /\ pc'[p] = "serve" => job'[p] # None
<1>1. /\ \A q \in Procs \ {p} : pc'[q] = pc[q] /\ job'[q] = job[q]
      /\ pc[p] \in {"boot", "bootSave", "load", "acquire", "launch", "work", "failed"} =>
           pc'[p] \notin {"alert", "announce"}
      /\ pc[p] \in {"alert", "announce"} => pc'[p] \in {"serve", "down"}
      /\ pc[p] \in {"launch", "work"} => pc'[p] # "serve"
  BY StepDescends DEF Apart
<1>2. CASE \/ BootLoad(p) \/ BootSave(p) \/ Load(p) \/ Acquire(p) \/ Launch(p)
           \/ (\E days \in RenewalDays : RunSucceeds(p, days)) \/ RunFails(p) \/ CountFailure(p)
  <2>1. pc[p] \in {"boot", "bootSave", "load", "acquire", "launch", "work", "failed"}
    BY <1>2 DEF BootLoad, BootSave, Load, Acquire, Launch, RunSucceeds, RunFails, CountFailure, At
  <2> QED
    BY <1>1, <2>1 DEF ArmedInv, LockedPhase
<1>3. CASE ScheduleRetry(p)
  <2>1. \A jitter \in Jitters : now + RetryDelay(run[p].count, jitter) # None
    BY RetryDates, NoneAssumption
  <2>2. pc'[p] \in {"alert", "serve"} => job'[p] # None
    BY <1>3, <2>1, RetryShape DEF Left
  <2> QED
    BY <1>1, <2>2, StepDescends, RetryShape, <1>3 DEF ArmedInv
<1>4. CASE ScheduleNextCheck(p)
  <2>1. \A fallback \in Fallbacks, slot \in CheckSlots :
          NextCheckAt(now, DaysUntilCheck(run[p].renewal, fallback), slot) # None
    BY CheckDates, NoneAssumption
  <2>2. pc'[p] \in {"announce", "serve"} => job'[p] # None
    BY <1>4, <2>1, CheckShape DEF Left
  <2> QED
    BY <1>1, <2>2, StepDescends, CheckShape, <1>4 DEF ArmedInv
<1>5. CASE FinishFailed(p) \/ FinishSucceeded(p)
  <2>1. pc[p] \in {"alert", "announce"} /\ Left(p, job[p])
    BY <1>5, FinishShape
  <2>2. job[p] # None
    BY <2>1 DEF ArmedInv
  <2> QED
    BY <1>1, <2>1, <2>2 DEF ArmedInv, Left
<1> QED
  BY <1>2, <1>3, <1>4, <1>5 DEF Step

\* Who comes back from a run to serve has a job.
RunsRearmed ==
  [][\A p \in Procs :
       pc[p] \in LockedPhase \ {"failed"} /\ pc'[p] = "serve" => job'[p] # None]_vars

\* Whatever crashes, sleeps, fails and runs beside it, a call that held the run lock
\* returns to serving with a job, unless the count of its failure could not be
\* written: every date is given to the scheduler before it is written.
THEOREM RunsRearm == Spec => RunsRearmed
<1>1. Init => ArmedInv
  BY DEF Init, ArmedInv
<1>2. ASSUME TypeOK, ArmedInv, NEW p \in Procs,
             Start(p) \/ Fire(p) \/ Misfire(p) \/ Crash(p) \/ Interrupt(p)
      PROVE  /\ ArmedInv' /\ Apart(p)
             /\ pc'[p] = "serve" => pc[p] = "serve"
  <2> DEFINE Goes == /\ Apart(p)
                     /\ pc'[p] = "serve" => pc[p] = "serve"
                     /\ \/ pc'[p] \in {"boot", "load", "serve", "down"}
                        \/ pc'[p] = pc[p] /\ job'[p] = job[p]
  <2>1. Goes
    <3>1. CASE Start(p)
      BY <1>2, <3>1, StartShape
    <3>2. CASE Fire(p) \/ Misfire(p)
      BY <1>2, <3>2, FireShape
    <3>3. CASE Crash(p)
      BY <1>2, <3>3, CrashShape
    <3>4. CASE Interrupt(p)
      BY <1>2, <3>4, InterruptShape
    <3> QED
      BY <1>2, <3>1, <3>2, <3>3, <3>4
  <2> HIDE DEF Goes
  <2>2. ASSUME NEW q \in Procs, pc'[q] \in {"alert", "announce"}
        PROVE  job'[q] # None
    <3>1. pc'[q] = pc[q] /\ job'[q] = job[q]
      BY <2>1, <2>2 DEF Goes, Apart
    <3> QED
      BY <1>2, <2>2, <3>1 DEF ArmedInv
  <2> QED
    BY <2>1, <2>2 DEF ArmedInv, Goes
<1>3. ASSUME TypeOK, ArmedInv, [Next]_vars
      PROVE  /\ ArmedInv'
             /\ \A p \in Procs :
                  pc[p] \in LockedPhase \ {"failed"} /\ pc'[p] = "serve" => job'[p] # None
  <2>1. CASE \E p \in Procs : Step(p)
    <3>1. PICK p \in Procs : Step(p)
      BY <2>1
    <3>2. \A q \in Procs \ {p} : pc'[q] = pc[q]
      BY <1>3, <3>1, StepDescends DEF Apart
    <3> QED
      BY <1>3, <3>1, <3>2, RearmStep DEF LockedPhase
  <2>2. CASE \E p \in Procs :
               Start(p) \/ Fire(p) \/ Misfire(p) \/ Crash(p) \/ Interrupt(p)
    <3>1. PICK p \in Procs : Start(p) \/ Fire(p) \/ Misfire(p) \/ Crash(p) \/ Interrupt(p)
      BY <2>2
    <3>2. \A q \in Procs \ {p} : pc'[q] = pc[q]
      BY <1>2, <1>3, <3>1 DEF Apart
    <3> QED
      BY <1>2, <1>3, <3>1, <3>2 DEF LockedPhase
  <2>3. CASE Tick \/ Suspend \/ UNCHANGED vars
    BY <1>3, <2>3 DEF Tick, Suspend, vars, ArmedInv, LockedPhase
  <2> QED
    BY <1>3, <2>1, <2>2, <2>3 DEF Next
<1> QED
  BY <1>1, <1>3, TypeCorrect, PTL DEF Spec, RunsRearmed

=============================================================================
