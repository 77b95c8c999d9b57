---------------------------- MODULE StateDocument ----------------------------
(***************************************************************************)
(* The part of state.json that decides when the next renewal run happens    *)
(* and what /health answers: the document of state_store.py without its     *)
(* host inventory and notification block.  Each Record... operator is the   *)
(* mutation one StateStore method applies under the store's lock; module    *)
(* StateStore shows that the lock makes these mutations atomic.             *)
(*                                                                          *)
(* Timestamps of the past are reduced to what evaluate_health asks of them: *)
(* whether any run ever succeeded, and whether an error was written after   *)
(* the last success.  record_success clears last_error, so with a clock     *)
(* that does not go backwards an error that is present is always newer.     *)
(***************************************************************************)
EXTENDS Scheduling

Document ==
  [nextCheck : OptTime,        \* next_check
   nextRetry : OptTime,        \* retry.next_retry
   failures  : Nat,            \* retry.consecutive_failures
   succeeded : BOOLEAN,        \* last_success is not None
   lastError : BOOLEAN]        \* last_error is not None

DefaultState ==
  [nextCheck |-> None, nextRetry |-> None, failures |-> 0,
   succeeded |-> FALSE, lastError |-> FALSE]

\* Variant: a new run starts a new outage.
RecordRunStartedAfresh(d) == [d EXCEPT !.lastError = FALSE, !.failures = 0]

RecordRunStarted(d) == [d EXCEPT !.lastError = FALSE]

RecordFailure(d) == [d EXCEPT !.lastError = TRUE]

\* Variant: the retry block is cleared instead of copied from the default.
RecordSuccessCleared(d, nextCheck) ==
  [d EXCEPT !.succeeded = TRUE, !.lastError = FALSE, !.nextCheck = nextCheck,
            !.failures = None, !.nextRetry = None]

RecordSuccess(d, nextCheck) ==
  [d EXCEPT !.succeeded = TRUE, !.lastError = FALSE, !.nextCheck = nextCheck,
            !.failures = DefaultState.failures, !.nextRetry = DefaultState.nextRetry]

RecordNextCheck(d, nextCheck) == [d EXCEPT !.nextCheck = nextCheck]

\* Variant: the error is left to the robot's own record_failure.
RecordRetryFailureSilent(d) ==
  [d EXCEPT !.failures = @ + 1, !.nextRetry = None]

RecordRetryFailure(d) ==
  [d EXCEPT !.failures = @ + 1, !.nextRetry = None, !.lastError = TRUE]

\* Variant: the retry date is not the next check.
RecordRetryScheduledApart(d, nextRetry) == [d EXCEPT !.nextRetry = nextRetry]

RecordRetryScheduled(d, nextRetry) ==
  [d EXCEPT !.nextCheck = nextRetry, !.nextRetry = nextRetry]

\* evaluate_health, for a grace period in ticks.
EvaluateHealth(d, now, grace) ==
  /\ d.succeeded
  /\ d.nextCheck # None
  /\ ~ d.lastError
  /\ now <= d.nextCheck + grace

=============================================================================
