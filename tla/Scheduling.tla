----------------------------- MODULE Scheduling -----------------------------
(***************************************************************************)
(* The pure arithmetic of scheduling.py: how long to wait after a failed    *)
(* run, when a failure is worth an email, how many days to wait after a     *)
(* successful run, and what is left of a persisted date after a restart.    *)
(*                                                                          *)
(* Time is a number of ticks; the instances choose the tick, a fraction of  *)
(* a day.                                                                   *)
(*                                                                          *)
(* In every module, an operator introduced as a "Variant" is a wrong version *)
(* of the definition after it.  No specification uses it: it records which  *)
(* mistake in the code a property is there to catch.                        *)
(***************************************************************************)
EXTENDS Integers, Sequences, FiniteSets

CONSTANTS
  None,            \* Python's None in an optional date
  DayTicks,        \* ticks in a day
  RetryDelays,     \* RETRY_DELAYS_SECONDS, a non-empty sequence of ticks
  MinRetryDelay,   \* the floor of retry_delay_seconds (60 seconds)
  Jitters,         \* the percentages uniform(-0.1, 0.1) may draw
  WindowDays,      \* RENEWAL_WINDOW_DAYS
  MaxDays,         \* max_check_interval_days
  CheckSlots       \* ticks of the day at which a check may be put

ASSUME NoneAssumption == None \notin Int
ASSUME DayAssumption == DayTicks \in Nat \ {0}
ASSUME RetryAssumption ==
  /\ RetryDelays \in Seq(Nat) /\ RetryDelays # << >>
  /\ MinRetryDelay \in Nat \ {0}
  /\ Jitters \subseteq Int
ASSUME CheckAssumption ==
  /\ WindowDays \in Nat
  /\ MaxDays \in Nat \ {0}                  \* enforced by AppConfig
  /\ CheckSlots \subseteq 0 .. DayTicks - 1 /\ CheckSlots # {}

Time == Nat
OptTime == Nat \union {None}

Least(a, b) == IF a <= b THEN a ELSE b
Greatest(a, b) == IF a >= b THEN a ELSE b

(***************************************************************************)
(* Failed runs.                                                             *)
(***************************************************************************)

\* The longest retry delay, a day and 10%, fits under the smallest cap and the
\* morning slot.
ASSUME RetryFitsCap ==
  \A i \in DOMAIN RetryDelays : \E slot \in CheckSlots :
    Greatest(MinRetryDelay, (RetryDelays[i] * 110) \div 100) <= MaxDays * DayTicks + slot

BaseDelay(failures) ==
  RetryDelays[Least(Greatest(1, failures), Len(RetryDelays))]

\* retry_delay_seconds.  The jitter is a whole percentage here; the program's
\* base delays are multiples of 100 seconds, so its round() never rounds.
RetryDelay(failures, jitter) ==
  LET bounded == Least(10, Greatest(-10, jitter))
  IN  Greatest(MinRetryDelay, (BaseDelay(failures) * (100 + bounded)) \div 100)

ShouldNotifyFailure(failures) ==
  LET attempt == Greatest(1, failures)
  IN  \/ attempt \in {1, 4}
      \/ attempt > 4 /\ (attempt - 4) % 7 = 0

(***************************************************************************)
(* Successful runs.  A count of 0 days is Python-false: the code treats     *)
(* it exactly as "no expiration is known" and draws a fallback.             *)
(***************************************************************************)

\* Variant: the cap is left out.
DaysUntilCheckUncapped(nextRenewalDays, fallbackDays) ==
  IF nextRenewalDays # 0 THEN Greatest(1, nextRenewalDays - WindowDays)
                         ELSE Greatest(1, fallbackDays)

\* Variant: the check waits for the day of the expiration.
DaysUntilCheckWindowless(nextRenewalDays, fallbackDays) ==
  LET calculated == IF nextRenewalDays # 0 THEN nextRenewalDays ELSE fallbackDays
  IN  Least(MaxDays, Greatest(1, calculated))

DaysUntilCheck(nextRenewalDays, fallbackDays) ==
  LET calculated == IF nextRenewalDays # 0
                    THEN Greatest(1, nextRenewalDays - WindowDays)
                    ELSE Greatest(1, fallbackDays)
  IN  Least(MaxDays, calculated)

\* date.today() + delay days, at the slot drawn by renewal_check_time.
NextCheckAt(now, delayDays, slot) ==
  ((now \div DayTicks) + delayDays) * DayTicks + slot

(***************************************************************************)
(* Restarts.                                                                *)
(***************************************************************************)

FutureCheck(value, now) ==
  IF value # None /\ value > now THEN value ELSE None

\* Variant: a restored date is taken as it is.
CapFutureCheckTrusting(scheduled, now) == scheduled

CapFutureCheck(scheduled, now) ==
  IF scheduled = None THEN None
  ELSE Least(scheduled, now + MaxDays * DayTicks)

=============================================================================
