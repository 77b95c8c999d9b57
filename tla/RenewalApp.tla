----------------------------- MODULE RenewalApp -----------------------------
(***************************************************************************)
(* The renewal service: application.py under the entry point noip_bot.py,   *)
(* with run_lock.py and the decisions of scheduling.py, for any number of   *)
(* processes that share one data volume.                                    *)
(*                                                                          *)
(* Each process has a main thread (run(), then serving the status page) and *)
(* a scheduler thread that executes update_hosts when the process's only    *)
(* job, "Update Hosts", is due.  A run of update_hosts goes through         *)
(*                                                                          *)
(*   load -> acquire -> launch -> work -> reschedule -> announce   success  *)
(*                         \        \                                       *)
(*                          +--------+-> failed -> retry -> alert  failure  *)
(*                                                                          *)
(* and its steps are separated exactly where another process, a crash or an *)
(* error of the state file can come between: at each write of the shared    *)
(* document and at each operation on the run lock.                          *)
(*                                                                          *)
(* The robot (Selenium) is a step that succeeds or fails; all that matters  *)
(* of it here is next_renewal, the days until the next host expires.        *)
(***************************************************************************)
EXTENDS StateDocument

CONSTANTS
  Procs,         \* processes that share the data volume
  NoProc,        \* no process
  DryRun,        \* the processes configured with DRY_RUN
  SkipInitial,   \* the processes configured with SKIP_INITIAL_RUN
  RenewalDays,   \* the values Robot.next_renewal may take
  Fallbacks,     \* the values of 1 + randrange(5)
  Grace,         \* HEALTH_OVERDUE_GRACE_SECONDS, in ticks
  MaxTime,       \* bound: the clock stops here
  MaxFailures,   \* bound: consecutive failures
  MaxCrashes,    \* bound: crashes
  MaxFaults,     \* bound: failed accesses of the state file
  MaxSuspends    \* bound: ticks a suspended host sleeps through a due job

ASSUME ProcAssumption ==
  /\ NoProc \notin Procs
  /\ DryRun \subseteq Procs /\ SkipInitial \subseteq Procs
ASSUME RobotAssumption == RenewalDays \subseteq Nat /\ Fallbacks \subseteq Nat
ASSUME BoundAssumption ==
  /\ Grace \in Nat /\ MaxTime \in Nat /\ MaxFailures \in Nat
  /\ MaxCrashes \in Nat /\ MaxFaults \in Nat /\ MaxSuspends \in Nat

VARIABLES
  now,          \* the clock
  disk,         \* the document in state.json
  runLock,      \* the process holding the flock of renewal.run.lock
  pc,           \* where each process is
  job,          \* the date of each process's "Update Hosts" job, in memory
  run,          \* the locals of the call that each process is executing
  alerted,      \* history: failure counts mailed since the last success
  lastCheck,    \* history: when the last run let go of the lock
  crashes, faults, suspends

vars == <<now, disk, runLock, pc, job, run, alerted, lastCheck,
          crashes, faults, suspends>>

LockedPhase == {"launch", "work", "failed", "retry", "alert",
                "reschedule", "announce"}
Phase == {"down", "boot", "bootSave", "serve", "load", "acquire"} \union LockedPhase

\* The locals of run() and update_hosts().  A job interrupted while it runs
\* keeps running (scheduler.shutdown waits for it), which "stopping" records.
Locals ==
  [caller   : {"main", "job"},   \* the thread that called update_hosts
   stopping : BOOLEAN,           \* SIGINT arrived during a scheduled run
   restored : OptTime,           \* restored_check
   seen     : Nat,               \* previous_failures
   count    : Nat,               \* failure_count
   renewal  : Nat,               \* noip.next_renewal
   erased   : Nat]               \* history: failures record_success erased

FreshCall(caller) ==
  [caller |-> caller, stopping |-> FALSE, restored |-> None,
   seen |-> 0, count |-> 0, renewal |-> 0, erased |-> 0]

TypeOK ==
  /\ now \in Time
  /\ disk \in Document
  /\ runLock \in Procs \union {NoProc}
  /\ pc \in [Procs -> Phase]
  /\ job \in [Procs -> OptTime]
  /\ run \in [Procs -> Locals]
  /\ alerted \in SUBSET Nat
  /\ lastCheck \in Time
  /\ crashes \in Nat /\ faults \in Nat /\ suspends \in Nat

Init ==
  /\ now = 0
  /\ disk = DefaultState
  /\ runLock = NoProc
  /\ pc = [p \in Procs |-> "down"]
  /\ job = [p \in Procs |-> None]
  /\ run = [p \in Procs |-> FreshCall("main")]
  /\ alerted = {}
  /\ lastCheck = 0
  /\ crashes = 0 /\ faults = 0 /\ suspends = 0

At(p, phase) == pc[p] = phase
Become(p, phase) == pc' = [pc EXCEPT ![p] = phase]

\* An access of state.json raised (unreadable file, full disk).
StoreFails ==
  /\ faults < MaxFaults
  /\ faults' = faults + 1
  /\ UNCHANGED disk

Writes(document) == disk' = document /\ UNCHANGED faults

\* update_hosts returns or raises.  A raise leaves run() and ends the process
\* when the main thread made the call; in the scheduler thread APScheduler
\* only logs it.
Leave(p, raised) ==
  LET ends == run[p].stopping \/ (raised /\ run[p].caller = "main")
  IN  /\ Become(p, IF ends THEN "down" ELSE "serve")
      /\ run' = [run EXCEPT ![p] = FreshCall("main")]

Forgets(p) == job' = [job EXCEPT ![p] = None]

\* What is left of the job when the run ends: nothing if the process does.
Keeps(p, raised, date) ==
  LET ends == run[p].stopping \/ (raised /\ run[p].caller = "main")
  IN  job' = [job EXCEPT ![p] = IF ends THEN None ELSE date]

\* finally: run_lock.release()
Releases == runLock' = NoProc /\ lastCheck' = now

(***************************************************************************)
(* main() and run(): start a process and restore its schedule.              *)
(***************************************************************************)

Start(p) ==
  /\ At(p, "down")
  /\ Become(p, "boot")
  /\ run' = [run EXCEPT ![p] = FreshCall("main")]
  /\ UNCHANGED <<now, disk, runLock, job, alerted, lastCheck, crashes, faults,
                 suspends>>

\* Where run() goes once the restored date is known.
Dispatch(p, restored) ==
  \/ /\ p \in SkipInitial
     /\ Become(p, "serve") /\ UNCHANGED job
  \/ /\ p \notin SkipInitial
     /\ restored # None /\ p \notin DryRun
     /\ Become(p, "serve") /\ job' = [job EXCEPT ![p] = restored]
  \/ /\ p \notin SkipInitial
     /\ restored = None \/ p \in DryRun
     /\ Become(p, "load") /\ UNCHANGED job

BootLoad(p) ==
  /\ At(p, "boot")
  /\ LET restored == FutureCheck(disk.nextCheck, now)
         capped   == CapFutureCheck(restored, now)
     IN  \/ /\ capped # restored
            /\ Become(p, "bootSave")
            /\ run' = [run EXCEPT ![p].restored = capped]
            /\ UNCHANGED <<job, disk, faults>>
         \/ /\ capped = restored
            /\ Dispatch(p, restored)
            /\ UNCHANGED <<run, disk, faults>>
         \/ /\ StoreFails
            /\ Become(p, "down") /\ UNCHANGED <<job, run>>
  /\ UNCHANGED <<now, runLock, alerted, lastCheck, crashes, suspends>>

BootSave(p) ==
  /\ At(p, "bootSave")
  /\ \/ /\ Writes(RecordNextCheck(disk, run[p].restored))
        /\ Dispatch(p, run[p].restored)
        /\ run' = [run EXCEPT ![p].restored = None]
     \/ /\ StoreFails
        /\ Become(p, "down") /\ UNCHANGED job
        /\ run' = [run EXCEPT ![p] = FreshCall("main")]
  /\ UNCHANGED <<now, runLock, alerted, lastCheck, crashes, suspends>>

(***************************************************************************)
(* update_hosts(): the document is read first, the lock is tried second.    *)
(***************************************************************************)

\* Variant: the number of failures is not read when the run begins.
LoadForgetful(p) ==
  /\ At(p, "load")
  /\ Become(p, "acquire")
  /\ UNCHANGED <<now, disk, runLock, job, run, alerted, lastCheck, crashes,
                 faults, suspends>>

Load(p) ==
  /\ At(p, "load")
  /\ \/ /\ Become(p, "acquire")
        /\ run' = [run EXCEPT ![p].seen = disk.failures]
        /\ UNCHANGED <<job, disk, faults>>
     \/ /\ StoreFails
        /\ Leave(p, TRUE) /\ Keeps(p, TRUE, job[p])
  /\ UNCHANGED <<now, runLock, alerted, lastCheck, crashes, suspends>>

\* Variant: flock without LOCK_EX excludes nobody.
AcquireShared(p) ==
  /\ At(p, "acquire")
  /\ runLock' = p
  /\ Become(p, "launch")
  /\ UNCHANGED <<now, disk, job, run, alerted, lastCheck, crashes, faults, suspends>>

\* Variant: flock without LOCK_NB waits.
AcquireBlocking(p) ==
  /\ At(p, "acquire")
  /\ runLock = NoProc
  /\ runLock' = p
  /\ Become(p, "launch")
  /\ UNCHANGED <<now, disk, job, run, alerted, lastCheck, crashes, faults, suspends>>

Acquire(p) ==
  /\ At(p, "acquire")
  /\ \/ /\ runLock = NoProc
        /\ runLock' = p
        /\ Become(p, "launch")
        /\ UNCHANGED <<job, run>>
     \/ /\ runLock # NoProc             \* RenewalRunLockedError
        /\ Leave(p, TRUE) /\ Keeps(p, TRUE, job[p])
        /\ UNCHANGED runLock
  /\ UNCHANGED <<now, disk, alerted, lastCheck, crashes, faults, suspends>>

(***************************************************************************)
(* The robot: Robot.__init__ and Robot.run.                                 *)
(***************************************************************************)

MayFail == disk.failures < MaxFailures

Launch(p) ==
  /\ At(p, "launch")
  /\ \/ /\ Writes(RecordRunStarted(disk))
        /\ Become(p, "work")
     \/ /\ MayFail                      \* init_browser raised
        /\ Writes(RecordFailure(disk))
        /\ Become(p, "failed")
     \/ /\ MayFail                      \* record_run_started raised
        /\ StoreFails
        /\ Become(p, "failed")
  /\ UNCHANGED <<now, runLock, job, run, alerted, lastCheck, crashes, suspends>>

RunSucceeds(p, days) ==
  /\ At(p, "work")
  /\ Writes(RecordSuccess(disk, IF days # 0 THEN now + days * DayTicks ELSE None))
  /\ \/ Become(p, "reschedule")
     \/ Become(p, "failed")             \* browser.quit raised in the finally
  /\ run' = [run EXCEPT ![p] = [@ EXCEPT !.renewal = days, !.erased = disk.failures]]
  /\ alerted' = {}
  /\ UNCHANGED <<now, runLock, job, lastCheck, crashes, suspends>>

RunFails(p) ==
  /\ At(p, "work")
  /\ MayFail
  /\ Writes(RecordFailure(disk)) \/ StoreFails
  /\ Become(p, "failed")
  /\ UNCHANGED <<now, runLock, job, run, alerted, lastCheck, crashes, suspends>>

(***************************************************************************)
(* _update_hosts_locked(), the except branch.                               *)
(***************************************************************************)

\* An error of the state file while the exception is being handled escapes:
\* the lock is released, and whatever job was added so far stays.
Escape(p, date) ==
  /\ StoreFails
  /\ Leave(p, TRUE) /\ Keeps(p, TRUE, date) /\ Releases

CountFailure(p) ==
  /\ At(p, "failed")
  /\ \/ /\ Writes(RecordRetryFailure(disk))
        /\ run' = [run EXCEPT ![p].count = disk.failures + 1]
        /\ Become(p, "retry")
        /\ UNCHANGED <<job, runLock, lastCheck>>
     \/ Escape(p, job[p])
  /\ UNCHANGED <<now, alerted, crashes, suspends>>

\* Variant: the retry is persisted but never given to the scheduler.
ScheduleRetryOnPaper(p) ==
  /\ At(p, "retry")
  /\ Writes(RecordRetryScheduled(disk, now + RetryDelay(run[p].count, 0)))
  /\ Become(p, "alert")
  /\ UNCHANGED <<now, runLock, job, run, alerted, lastCheck, crashes, suspends>>

ScheduleRetry(p) ==
  /\ At(p, "retry")
  /\ \E jitter \in Jitters :
       LET retryDate == now + RetryDelay(run[p].count, jitter)
       IN  \/ /\ Writes(RecordRetryScheduled(disk, retryDate))
              /\ job' = [job EXCEPT ![p] = retryDate]
              /\ Become(p, "alert")
              /\ UNCHANGED <<run, runLock, lastCheck>>
           \/ Escape(p, retryDate)
  /\ UNCHANGED <<now, alerted, crashes, suspends>>

\* Variant: the run lock is released by the end of the process only.
FinishFailedLocked(p) ==
  /\ At(p, "alert")
  /\ Leave(p, TRUE) /\ Keeps(p, TRUE, job[p])
  /\ IF pc'[p] = "down" THEN Releases ELSE UNCHANGED <<runLock, lastCheck>>
  /\ UNCHANGED <<now, disk, alerted, crashes, faults, suspends>>

\* Variant: the count before this failure decides about the mail.
FinishFailedOffByOne(p) ==
  /\ At(p, "alert")
  /\ alerted' = IF ShouldNotifyFailure(run[p].seen)
                THEN alerted \union {run[p].count} ELSE alerted
  /\ Leave(p, TRUE) /\ Keeps(p, TRUE, job[p]) /\ Releases
  /\ UNCHANGED <<now, disk, crashes, faults, suspends>>

\* Mail the failure if its count asks for it, then raise RenewalUpdateError.
FinishFailed(p) ==
  /\ At(p, "alert")
  /\ alerted' = IF ShouldNotifyFailure(run[p].count)
                THEN alerted \union {run[p].count} ELSE alerted
  /\ Leave(p, TRUE) /\ Keeps(p, TRUE, job[p]) /\ Releases
  /\ UNCHANGED <<now, disk, crashes, faults, suspends>>

(***************************************************************************)
(* _update_hosts_locked(), the successful branch.                           *)
(***************************************************************************)

\* Variant: the date is given to the scheduler but not persisted.
ScheduleNextCheckInMemory(p) ==
  /\ At(p, "reschedule")
  /\ \E fallback \in Fallbacks, slot \in CheckSlots :
       job' = [job EXCEPT ![p] =
                 NextCheckAt(now, DaysUntilCheck(run[p].renewal, fallback), slot)]
  /\ Become(p, "announce")
  /\ UNCHANGED <<now, disk, runLock, run, alerted, lastCheck, crashes, faults, suspends>>

\* Variant: the date is persisted but not given to the scheduler.
ScheduleNextCheckOnPaper(p) ==
  /\ At(p, "reschedule")
  /\ \E fallback \in Fallbacks, slot \in CheckSlots :
       Writes(RecordNextCheck(disk,
                NextCheckAt(now, DaysUntilCheck(run[p].renewal, fallback), slot)))
  /\ Become(p, "announce")
  /\ UNCHANGED <<now, runLock, job, run, alerted, lastCheck, crashes, suspends>>

ScheduleNextCheck(p) ==
  /\ At(p, "reschedule")
  /\ \E fallback \in Fallbacks, slot \in CheckSlots :
       LET delay     == DaysUntilCheck(run[p].renewal, fallback)
           nextCheck == NextCheckAt(now, delay, slot)
       IN  \/ /\ Writes(RecordNextCheck(disk, nextCheck))
              /\ job' = [job EXCEPT ![p] = nextCheck]
              /\ Become(p, "announce")
              /\ UNCHANGED <<run, runLock, lastCheck>>
           \/ Escape(p, nextCheck)
  /\ UNCHANGED <<now, alerted, crashes, suspends>>

\* Mail the recovery if previous_failures is not 0, publish the page, return.
FinishSucceeded(p) ==
  /\ At(p, "announce")
  /\ Leave(p, FALSE) /\ Keeps(p, FALSE, job[p]) /\ Releases
  /\ UNCHANGED <<now, disk, alerted, crashes, faults, suspends>>

(***************************************************************************)
(* The scheduler thread.  A "date" job is removed when it comes due.  One   *)
(* that is later than misfire_grace_time, which is shorter than a tick, is  *)
(* removed without being run.                                               *)
(***************************************************************************)

Fire(p) ==
  /\ At(p, "serve")
  /\ job[p] = now
  /\ Become(p, "load")
  /\ run' = [run EXCEPT ![p] = FreshCall("job")]
  /\ Forgets(p)
  /\ UNCHANGED <<now, disk, runLock, alerted, lastCheck, crashes, faults, suspends>>

Misfire(p) ==
  /\ At(p, "serve")
  /\ job[p] # None /\ job[p] < now
  /\ Forgets(p)
  /\ UNCHANGED <<now, disk, runLock, pc, run, alerted, lastCheck,
                 crashes, faults, suspends>>

(***************************************************************************)
(* The end of a process, and the clock.                                     *)
(***************************************************************************)

Dies(p) ==
  /\ Become(p, "down")
  /\ Forgets(p)
  /\ run' = [run EXCEPT ![p] = FreshCall("main")]
  /\ IF runLock = p THEN Releases ELSE UNCHANGED <<runLock, lastCheck>>

\* The process disappears at any point: killed, out of memory, power lost.
\* A KeyboardInterrupt in the main thread during its initial run has the same
\* effect: no handler of Exception sees it, only the finally clauses run.
Crash(p) ==
  /\ ~ At(p, "down")
  /\ crashes < MaxCrashes
  /\ crashes' = crashes + 1
  /\ Dies(p)
  /\ UNCHANGED <<now, disk, alerted, faults, suspends>>

\* SIGINT while the main thread serves: the scheduler is shut down, which
\* waits for a run that is in progress.
Interrupt(p) ==
  /\ \/ /\ At(p, "serve")
        /\ Dies(p)
     \/ /\ run[p].caller = "job" /\ ~ run[p].stopping
        /\ run' = [run EXCEPT ![p].stopping = TRUE]
        /\ UNCHANGED <<pc, job, runLock, lastCheck>>
  /\ UNCHANGED <<now, disk, alerted, crashes, faults, suspends>>

Due(p) == At(p, "serve") /\ job[p] # None /\ job[p] <= now

\* Only the robot takes ticks.  The other steps are bounded by the 30 seconds
\* of a notification, and the shortest retry delay is a tick.
Tick ==
  /\ now < MaxTime
  /\ \A p \in Procs : pc[p] \in {"down", "serve", "work"} /\ ~ Due(p)
  /\ now' = now + 1
  /\ UNCHANGED <<disk, runLock, pc, job, run, alerted, lastCheck,
                 crashes, faults, suspends>>

\* The host sleeps through the moment a job is due.
Suspend ==
  /\ now < MaxTime /\ suspends < MaxSuspends
  /\ \E p \in Procs : Due(p)
  /\ now' = now + 1
  /\ suspends' = suspends + 1
  /\ UNCHANGED <<disk, runLock, pc, job, run, alerted, lastCheck, crashes, faults>>

(***************************************************************************)
(* The specification.                                                       *)
(***************************************************************************)

\* The steps a thread takes by itself once it has begun.
Step(p) ==
  \/ BootLoad(p) \/ BootSave(p)
  \/ Load(p) \/ Acquire(p) \/ Launch(p)
  \/ \E days \in RenewalDays : RunSucceeds(p, days)
  \/ RunFails(p)
  \/ CountFailure(p) \/ ScheduleRetry(p) \/ FinishFailed(p)
  \/ ScheduleNextCheck(p) \/ FinishSucceeded(p)

Next ==
  \/ \E p \in Procs : \/ Step(p)
                      \/ Start(p) \/ Fire(p) \/ Misfire(p)
                      \/ Crash(p) \/ Interrupt(p)
  \/ Tick \/ Suspend

Spec == Init /\ [][Next]_vars

\* Python threads are scheduled, mails have a timeout, and the locks of the state
\* file a holder that lets go: a call that has begun goes on.  But the run of the
\* robot need not end, for its wait for a login code opens IMAP connections
\* without a timeout.  Nothing is assumed of starts, crashes or the clock either.
Fairness == \A p \in Procs : WF_vars(Step(p) /\ ~ At(p, "work"))

FairSpec == Spec /\ Fairness

(***************************************************************************)
(* Properties of every configuration: any number of processes, crashes,     *)
(* errors of the state file and suspends.                                   *)
(***************************************************************************)

\* A process is in the locked part of update_hosts if and only if it holds
\* the lock: the finally of update_hosts releases it on every way out, and
\* neither a crash nor an escaping error leaves it behind.
LockInv == \A p \in Procs : pc[p] \in LockedPhase <=> runLock = p

\* While the failure branch waits, schedules and mails, the number of failures
\* it works with is the one in the document, although processes that load and
\* restore the same document run in between.
CountIsCurrent ==
  \A p \in Procs : pc[p] \in {"retry", "alert"} => run[p].count = disk.failures

\* No failure is mailed twice in an outage, whichever processes take turns.
AlertOnce ==
  /\ \A n \in alerted : n <= disk.failures
  /\ \A p \in Procs : pc[p] \in {"retry", "alert"} => run[p].count \notin alerted

Idle == \A p \in Procs : pc[p] \notin LockedPhase

\* As long as no process dies in the middle of a run, exactly the failures
\* that should_notify_failure selects have been mailed whenever no run is in
\* progress.
AlertsExact ==
  Idle /\ crashes = 0 /\ faults = 0 =>
    alerted = {n \in 1 .. disk.failures : ShouldNotifyFailure(n)}

\* In the same circumstances /health never hides an outage: it is unhealthy
\* from a failed run to the start of the next one.
HealthTellsOutage ==
  Idle /\ crashes = 0 /\ faults = 0 /\ disk.failures > 0 =>
    ~ EvaluateHealth(disk, now, Grace)

\* A job is never farther away than the cap and the morning slot, although
\* record_success has put an expiration date weeks away into the document and
\* a crash may leave it there to be restored.
JobWithinCap ==
  \A p \in Procs : job[p] # None =>
    \E slot \in CheckSlots : job[p] <= now + MaxDays * DayTicks + slot

\* The robot of a process never comes back.
Hangs(p) == <>[]At(p, "work")

\* A call of update_hosts or run that has begun comes to an end, unless its own robot
\* hangs.  The robot of another process, hanging with the run lock, keeps nobody
\* waiting.
CallsEnd ==
  \A p \in Procs : Hangs(p) \/ (pc[p] # "down" ~> pc[p] \in {"serve", "down"})

\* Nobody keeps the run lock for ever, but a robot that hangs.
LockComesFree == []<>(runLock = NoProc) \/ \E p \in Procs : Hangs(p)

(***************************************************************************)
(* Properties of a process that has the data volume to itself, whose state  *)
(* file can be written and whose host does not sleep through a job.  Each   *)
(* fails in a configuration without one of these conditions; the runs named *)
(* orphan_misfire and dry_run_loop show how.                                *)
(***************************************************************************)

\* A serving process always has a job: it will renew again.
NeverOrphaned ==
  \A p \in Procs \ SkipInitial : At(p, "serve") => job[p] # None

\* Whatever run ended last, the document tells a restarted process the date
\* that the scheduler holds in memory.
ScheduleDurable ==
  \A p \in Procs \ SkipInitial : At(p, "serve") => disk.nextCheck = job[p]

\* No browser is started before the retry date that a failure has persisted,
\* whatever restarts come in between.
BackoffRespected ==
  \A p \in Procs : At(p, "launch") => disk.nextRetry = None \/ disk.nextRetry <= now

\* A call that has erased the failures of an outage ends with the recovery mail and
\* the number of just these failures in it.  Three things may come between:
\* the process dies, the state file fails, or the browser could not be closed and the
\* success has become a failure.  After the first two nobody will ever tell, since
\* the next run finds no failures in the document.
RecoveryTold ==
  [][\A p \in Procs :
       run[p].erased > 0 /\ run'[p].erased = 0 =>
         \/ At(p, "announce") /\ run[p].seen = run[p].erased
         \/ At(p, "alert")
         \/ crashes' > crashes \/ faults' > faults]_vars

\* As long as no process dies in the middle of a run, a serving process never
\* leaves more between two checks than the cap and the morning slot, restarts
\* included.
ChecksKeepComing ==
  Idle /\ crashes = 0 =>
    \E slot \in CheckSlots : \A p \in Procs \ SkipInitial :
      At(p, "serve") => now - lastCheck <= MaxDays * DayTicks + slot

\* A run that has begun leads to a process that serves with a job, or ends, unless
\* the robot hangs.
WorkRearms ==
  \A p \in Procs :
    Hangs(p) \/ (At(p, "work") ~> At(p, "down") \/ (At(p, "serve") /\ job[p] # None))

=============================================================================
