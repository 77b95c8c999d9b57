-------------------------- MODULE SchedulingProofs --------------------------
(***************************************************************************)
(* Facts about the arithmetic of scheduling.py, for every value of its      *)
(* constants.  RenewalAppProofs cites them by name.                         *)
(***************************************************************************)
EXTENDS Scheduling, TLAPS

\* RETRY_DELAYS_SECONDS is only indexed inside its bounds, whatever the
\* failure count read from the document.
LEMMA BaseDelayType ==
  ASSUME NEW failures \in Int
  PROVE  BaseDelay(failures) \in Nat
<1>1. Len(RetryDelays) \in Nat /\ Len(RetryDelays) # 0
  BY RetryAssumption
<1>2. Least(Greatest(1, failures), Len(RetryDelays)) \in 1 .. Len(RetryDelays)
  BY <1>1 DEF Least, Greatest
<1>3. QED
  BY <1>2, RetryAssumption DEF BaseDelay

\* A retry is always in the future, by at least the floor of
\* retry_delay_seconds, whatever the jitter.
LEMMA RetryDelayFloor ==
  ASSUME NEW failures \in Int, NEW jitter \in Int
  PROVE  RetryDelay(failures, jitter) \in Nat /\ RetryDelay(failures, jitter) >= MinRetryDelay
<1> DEFINE bounded == Least(10, Greatest(-10, jitter))
           product == BaseDelay(failures) * (100 + bounded)
<1>1. bounded \in Int
  BY DEF Least, Greatest
<1>2. product \in Int
  BY <1>1, BaseDelayType
<1>3. product \div 100 \in Int
  BY <1>2
<1>4. RetryDelay(failures, jitter) = Greatest(MinRetryDelay, product \div 100)
  BY DEF RetryDelay
<1>5. MinRetryDelay \in Nat
  BY RetryAssumption
<1>6. QED
  BY <1>3, <1>4, <1>5 DEF Greatest

\* No retry is put off beyond the cap and the morning slot.
LEMMA RetryDelayCeiling ==
  ASSUME NEW failures \in Int, NEW jitter \in Int
  PROVE  \E slot \in CheckSlots : RetryDelay(failures, jitter) <= MaxDays * DayTicks + slot
<1> DEFINE bounded == Least(10, Greatest(-10, jitter))
           index == Least(Greatest(1, failures), Len(RetryDelays))
           base == RetryDelays[index]
<1>1. Len(RetryDelays) \in Nat /\ Len(RetryDelays) # 0 /\ DOMAIN RetryDelays = 1 .. Len(RetryDelays)
  BY RetryAssumption
<1>2. index \in DOMAIN RetryDelays
  BY <1>1 DEF Least, Greatest
<1>3. base \in Nat /\ 100 + bounded \in Int /\ 100 + bounded <= 110
  BY <1>2, RetryAssumption DEF Least, Greatest
<1>4. PICK slot \in CheckSlots :
        Greatest(MinRetryDelay, (base * 110) \div 100) <= MaxDays * DayTicks + slot
  BY <1>2, RetryFitsCap
<1>5. RetryDelay(failures, jitter) = Greatest(MinRetryDelay, (base * (100 + bounded)) \div 100)
  BY DEF RetryDelay, BaseDelay
<1> HIDE DEF base, bounded
<1>6. /\ base * (100 + bounded) \in Int /\ base * 110 \in Int
      /\ base * (100 + bounded) <= base * 110
  <2>1. \A a \in Nat, b, c \in Int : b <= c => a * b <= a * c
    OBVIOUS
  <2>2. QED
    BY <1>3, <2>1
<1>7. (base * (100 + bounded)) \div 100 <= (base * 110) \div 100
  <2>1. \A a, b \in Int : a <= b => a \div 100 <= b \div 100
    OBVIOUS
  <2>2. QED
    BY <1>6, <2>1
<1>8. /\ MinRetryDelay \in Int /\ MaxDays * DayTicks + slot \in Int
      /\ (base * (100 + bounded)) \div 100 \in Int /\ (base * 110) \div 100 \in Int
  BY <1>6, RetryAssumption, CheckAssumption, DayAssumption
<1>9. RetryDelay(failures, jitter) <= MaxDays * DayTicks + slot
  BY <1>4, <1>5, <1>7, <1>8 DEF Greatest
<1>10. QED
  BY <1>9

\* The delay after a successful run is at least a day and never more than the
\* cap, whatever expiration No-IP displays and whatever fallback is drawn.
LEMMA DaysUntilCheckRange ==
  ASSUME NEW renewal \in Int, NEW fallback \in Int
  PROVE  DaysUntilCheck(renewal, fallback) \in 1 .. MaxDays
BY CheckAssumption DEF DaysUntilCheck, Least, Greatest

\* Multiplication by the length of a day is monotonic.
LEMMA DayMonotone ==
  ASSUME NEW a \in Int, NEW b \in Int, a <= b
  PROVE  a * DayTicks <= b * DayTicks
BY DayAssumption

\* The next check is later than now, and no later than the cap in days after
\* now, plus the slot in the morning.
LEMMA NextCheckRange ==
  ASSUME NEW now \in Nat, NEW delay \in 1 .. MaxDays, NEW slot \in CheckSlots
  PROVE  /\ NextCheckAt(now, delay, slot) \in Nat
         /\ NextCheckAt(now, delay, slot) > now
         /\ NextCheckAt(now, delay, slot) <= now + MaxDays * DayTicks + slot
<1> DEFINE today == now \div DayTicks
<1>1. today \in Int /\ today * DayTicks <= now /\ now < (today + 1) * DayTicks
  BY DayAssumption
<1>2. slot \in Nat /\ delay \in Int /\ DayTicks \in Int /\ MaxDays \in Int
  BY CheckAssumption, DayAssumption
<1>3. (today + 1) * DayTicks <= (today + delay) * DayTicks
  BY <1>1, <1>2, DayMonotone
<1>4. (today + delay) * DayTicks <= (today + MaxDays) * DayTicks
  BY <1>1, <1>2, DayMonotone
<1>5. (today + MaxDays) * DayTicks = today * DayTicks + MaxDays * DayTicks
  BY <1>1, <1>2
<1>6. /\ (today + delay) * DayTicks \in Int
      /\ today * DayTicks \in Int
      /\ (today + 1) * DayTicks \in Int
      /\ MaxDays * DayTicks \in Int
  BY <1>1, <1>2
<1>7. NextCheckAt(now, delay, slot) = (today + delay) * DayTicks + slot
  BY DEF NextCheckAt
<1> HIDE DEF today
<1>8. QED
  BY <1>1, <1>2, <1>3, <1>4, <1>5, <1>6, <1>7

\* A restored date is in the future, and capping it keeps it there.
LEMMA RestoredCheckRange ==
  ASSUME NEW value \in OptTime, NEW now \in Nat
  PROVE  LET restored == FutureCheck(value, now)
             capped   == CapFutureCheck(restored, now)
         IN  /\ restored \in OptTime /\ capped \in OptTime
             /\ capped = None <=> restored = None
             /\ capped # None => capped > now /\ capped <= now + MaxDays * DayTicks
<1>1. MaxDays * DayTicks \in Nat /\ MaxDays * DayTicks > 0
  BY CheckAssumption, DayAssumption
<1>2. QED
  BY <1>1, NoneAssumption DEF FutureCheck, CapFutureCheck, OptTime, Time, Least

=============================================================================
