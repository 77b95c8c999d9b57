------------------------ MODULE RenewalCalendarProofs ------------------------
(***************************************************************************)
(* RenewalCalendar for every value of the constants: it implements          *)
(* RenewalApp, so that all of RenewalAppProofs holds of it, and a process    *)
(* that has the volume to itself checks every host while it has room.        *)
(***************************************************************************)
EXTENDS RenewalCalendar, RenewalAppProofs

CalendarTypeOK == TypeOK /\ expiry \in [Hosts -> Nat]

LEMMA CalendarArithmetic ==
  /\ DayTicks \in Nat /\ DayTicks > 0
  /\ Window \in Nat /\ Cycle \in Nat /\ Window < Cycle
  /\ MaxDays * DayTicks \in Nat /\ DayTicks <= MaxDays * DayTicks
<1>1. DayTicks \in Nat /\ DayTicks > 0 /\ MaxDays \in Nat /\ MaxDays >= 1
  BY DayAssumption, CheckAssumption
<1>2. WindowDays \in Nat /\ CycleDays \in Nat /\ WindowDays + 1 <= CycleDays
  BY CheckAssumption, HostAssumption
<1>3. (WindowDays + 1) * DayTicks <= CycleDays * DayTicks
  BY <1>2, DayMonotone
<1>4. (WindowDays + 1) * DayTicks = WindowDays * DayTicks + DayTicks
  BY <1>1, <1>2
<1>5. 1 * DayTicks <= MaxDays * DayTicks
  BY <1>1, DayMonotone
<1>6. /\ WindowDays * DayTicks \in Nat /\ CycleDays * DayTicks \in Nat
      /\ MaxDays * DayTicks \in Nat /\ 1 * DayTicks = DayTicks
  BY <1>1, <1>2
<1>7. QED
  BY <1>1, <1>3, <1>4, <1>5, <1>6 DEF Window, Cycle

\* The days a table shows are never negative, unless they are not known.
LEMMA ScheduleDaysType ==
  ASSUME now \in Nat, NEW h, NEW date \in Nat, NEW error \in Int
  PROVE  ScheduleDays(h, date, error) \in Nat \union {Unknown}
<1>0. DayTicks \in Nat /\ DayTicks > 0
  BY DayAssumption
<1>1. CASE InWindow(date)
  <2>1. date - now \in Nat
    BY <1>1 DEF InWindow
  <2>2. (date - now) \div DayTicks \in Nat
    BY <1>0, <2>1
  <2>3. QED
    BY <1>1, <2>2 DEF ScheduleDays
<1>2. CASE ~ InWindow(date) /\ h \in Unreadable
  BY <1>2 DEF ScheduleDays
<1>3. CASE ~ InWindow(date) /\ h \notin Unreadable
  <2>1. (date + error - now + DayTicks - 1) \div DayTicks \in Int
    BY <1>0
  <2>2. DaysUp(date + error - now) \in Nat
    BY <2>1 DEF DaysUp, Greatest
  <2>3. QED
    BY <1>3, <2>2 DEF ScheduleDays
<1>4. QED
  BY <1>1, <1>2, <1>3

LEMMA NextRenewalType ==
  ASSUME now \in Nat, NEW dates \in [Hosts -> Nat],
         NEW known \in KnownDays(dates), NEW days \in NextRenewal(known)
  PROVE  days \in Nat
<1>1. PICK errors \in [Hosts -> ZoneErrors] :
        known = {ScheduleDays(h, dates[h], errors[h]) : h \in Hosts} \ {Unknown}
  BY DEF KnownDays
<1>2. \A h \in Hosts : errors[h] \in Int
  BY HostAssumption
<1>3. \A h \in Hosts : ScheduleDays(h, dates[h], errors[h]) \in Nat \union {Unknown}
  BY <1>2, ScheduleDaysType
<1>4. known \subseteq Nat
  BY <1>1, <1>3
<1>5. QED
  BY <1>4 DEF NextRenewal

LEMMA RenewedType ==
  ASSUME CalendarTypeOK, NEW hs
  PROVE  Renewed(hs) \in [Hosts -> Nat]
<1>1. now + Cycle \in Nat
  BY CalendarArithmetic DEF CalendarTypeOK, TypeOK, Time
<1>2. QED
  BY <1>1 DEF CalendarTypeOK, Renewed

(***************************************************************************)
(* RenewalCalendar implements RenewalApp.                                   *)
(***************************************************************************)

LEMMA CalendarStepImplements ==
  ASSUME CalendarTypeOK, RenewalDays = Nat, [CalendarNext]_calendarVars
  PROVE  [Next]_vars /\ expiry' \in [Hosts -> Nat]
<1>0. now \in Nat /\ expiry \in [Hosts -> Nat]
  BY DEF CalendarTypeOK, TypeOK, Time
<1>1. ASSUME NEW p \in Procs, RenewAll(p)
      PROVE  Next /\ expiry' \in [Hosts -> Nat]
  <2> DEFINE dates == IF p \in DryRun THEN expiry ELSE Renewed(DueNow)
  <2>1. dates \in [Hosts -> Nat]
    BY <1>0, RenewedType
  <2> HIDE DEF dates
  <2>2. PICK days \in UNION {NextRenewal(known) : known \in KnownDays(dates)} :
          RunSucceeds(p, days)
    BY <1>1 DEF RenewAll, dates
  <2>3. days \in Nat
    BY <1>0, <2>1, <2>2, NextRenewalType
  <2>4. expiry' = dates
    BY <1>1 DEF RenewAll, dates
  <2>5. Step(p)
    BY <2>2, <2>3 DEF Step
  <2>6. QED
    BY <2>1, <2>4, <2>5 DEF Next
<1>2. ASSUME NEW p \in Procs, RenewSome(p)
      PROVE  Next /\ expiry' \in [Hosts -> Nat]
  BY <1>2, RenewedType DEF RenewSome, Next, Step
<1>3. ASSUME NEW p \in Procs, OtherStep(p)
      PROVE  Next /\ expiry' \in [Hosts -> Nat]
  BY <1>0, <1>3 DEF OtherStep, Next, Step
<1>4. CASE Surroundings
  BY <1>0, <1>4 DEF Surroundings, Next
<1>5. CASE UNCHANGED calendarVars
  BY <1>0, <1>5 DEF calendarVars
<1>6. QED
  BY <1>1, <1>2, <1>3, <1>4, <1>5 DEF CalendarNext, CalendarStep

LEMMA CalendarTypeCorrect ==
  ASSUME RenewalDays = Nat
  PROVE  CalendarSpec => []CalendarTypeOK
<1>1. CalendarInit => CalendarTypeOK
  BY InitTypeOK, HostAssumption DEF CalendarInit, CalendarTypeOK
<1>2. CalendarTypeOK /\ [CalendarNext]_calendarVars => CalendarTypeOK'
  BY CalendarStepImplements, NextTypeOK DEF CalendarTypeOK
<1>3. QED
  BY <1>1, <1>2, PTL DEF CalendarSpec

\* The application with the hosts it renews is the application: with the days
\* that the table shows in place of any number, every behaviour is one of
\* RenewalApp, and what is proved of that module holds here.
THEOREM ImplementsApp ==
  ASSUME RenewalDays = Nat
  PROVE  CalendarSpec => Spec
<1>1. CalendarInit => Init
  BY DEF CalendarInit
<1>2. CalendarTypeOK /\ [CalendarNext]_calendarVars => [Next]_vars
  BY CalendarStepImplements
<1>3. QED
  BY <1>1, <1>2, CalendarTypeCorrect, PTL DEF CalendarSpec, Spec

(***************************************************************************)
(* The room that a check leaves.                                            *)
(***************************************************************************)

\* Every living host keeps its room until the date, but for one slot and one
\* error of an estimate.
Roomy(date) ==
  date # None =>
    \E slot \in CheckSlots, error \in ZoneErrors :
      \A h \in Hosts : Alive(h) => date + Room(h) < expiry[h] + slot + error

\* Whatever fallback and slot are drawn, the next check will leave room.
Planned(days) ==
  \A fallback \in Fallbacks, slot \in CheckSlots :
    Roomy(NextCheckAt(now, DaysUntilCheck(days, fallback), slot))

\* In the configuration of CheckLeavesRoom every date that can become a job
\* leaves room: the job itself, the date in the document that a restart reads,
\* the one it is about to write back, and the ones that a successful run may
\* draw.  While a failure is under way the dates are those of the retries.
Rooms(p) ==
  /\ pc[p] \notin {"reschedule", "failed"} /\ disk.failures = 0 =>
       Roomy(job[p]) /\ Roomy(disk.nextCheck)
  /\ pc[p] = "bootSave" /\ disk.failures = 0 => Roomy(run[p].restored)
  /\ pc[p] = "retry" => disk.failures # 0
  /\ pc[p] = "reschedule" => Planned(run[p].renewal)

Calm == crashes = 0 /\ faults = 0

RoomInv(p) == Calm => Rooms(p)

LEMMA RoomType ==
  ASSUME NEW h \in Hosts
  PROVE  /\ Room(h) \in Int
         /\ Room(h) <= Window - DayTicks
         /\ Window - MaxDays * DayTicks <= Room(h)
BY CalendarArithmetic DEF Room

\* An earlier date leaves no less room.
LEMMA EarlierIsRoomy ==
  ASSUME CalendarTypeOK, NEW date \in OptTime, NEW earlier \in OptTime, Roomy(date),
         earlier # None => date # None /\ earlier <= date
  PROVE  Roomy(earlier)
<1> SUFFICES ASSUME earlier # None
             PROVE  \E slot \in CheckSlots, error \in ZoneErrors :
                      \A h \in Hosts : Alive(h) => earlier + Room(h) < expiry[h] + slot + error
  BY DEF Roomy
<1>1. PICK slot \in CheckSlots, error \in ZoneErrors :
        \A h \in Hosts : Alive(h) => date + Room(h) < expiry[h] + slot + error
  BY DEF Roomy
<1>2. date \in Nat /\ earlier \in Nat /\ slot \in Int /\ error \in Int
  BY CheckAssumption, HostAssumption DEF OptTime, Time
<1>3. ASSUME NEW h \in Hosts, Alive(h)
      PROVE  earlier + Room(h) < expiry[h] + slot + error
  <2>1. date + Room(h) < expiry[h] + slot + error
    BY <1>1, <1>3
  <2>2. Room(h) \in Int /\ expiry[h] \in Int
    BY RoomType DEF CalendarTypeOK
  <2>3. QED
    BY <1>2, <2>1, <2>2
<1>4. QED
  BY <1>3

\* The clock takes no room away: hosts that expire are out of it, and then the
\* others are promised less.
LEMMA ClockKeepsRoomy ==
  ASSUME CalendarTypeOK, NEW date \in OptTime, Roomy(date),
         now' = now + 1, UNCHANGED expiry
  PROVE  Roomy(date)'
<1> SUFFICES ASSUME date # None
             PROVE  \E slot \in CheckSlots, error \in ZoneErrors :
                      \A h \in Hosts : Alive(h)' => date + Room(h)' < expiry[h] + slot + error
  BY DEF Roomy
<1>1. PICK slot \in CheckSlots, error \in ZoneErrors :
        \A h \in Hosts : Alive(h) => date + Room(h) < expiry[h] + slot + error
  BY DEF Roomy
<1>2. date \in Nat /\ slot \in Int /\ error \in Int /\ now \in Nat
  BY CheckAssumption, HostAssumption DEF CalendarTypeOK, TypeOK, OptTime, Time
<1>3. \A h \in Hosts : Alive(h)' => Alive(h)
  BY <1>2 DEF Alive, CalendarTypeOK
<1>4. ASSUME NEW h \in Hosts, Alive(h)'
      PROVE  date + Room(h)' < expiry[h] + slot + error
  <2>1. date + Room(h) < expiry[h] + slot + error
    BY <1>1, <1>3, <1>4
  <2>2. Room(h)' = Room(h) \/ Room(h)' = Window - MaxDays * DayTicks
    BY <1>3 DEF Room
  <2>3. /\ Room(h) \in Int /\ Window - MaxDays * DayTicks <= Room(h)
        /\ Window - MaxDays * DayTicks \in Int
    BY RoomType, CalendarArithmetic
  <2>4. expiry[h] \in Int
    BY DEF CalendarTypeOK
  <2> HIDE DEF Room, Window
  <2>5. QED
    BY <1>2, <2>1, <2>2, <2>3, <2>4
<1>5. QED
  BY <1>4

\* What the proof asks of the errors of the estimates: none exceeds top, and
\* none makes up for a whole window.
ErrorsWithin(top) ==
  /\ top \in ZoneErrors /\ top >= 0
  /\ \A error \in ZoneErrors : -Window <= error /\ error <= top

LEMMA CheckWithinDelay ==
  ASSUME now \in Nat, NEW delay \in 1 .. MaxDays, NEW slot \in CheckSlots
  PROVE  /\ NextCheckAt(now, delay, slot) \in Nat
         /\ NextCheckAt(now, delay, slot) <= now + delay * DayTicks + slot
<1> DEFINE today == now \div DayTicks
<1>1. today \in Int /\ today * DayTicks <= now
  BY DayAssumption
<1>2. slot \in Nat /\ delay \in Int /\ DayTicks \in Int
  BY CheckAssumption, DayAssumption
<1>3. (today + delay) * DayTicks = today * DayTicks + delay * DayTicks
  BY <1>1, <1>2
<1>4. today * DayTicks \in Int /\ delay * DayTicks \in Int
  BY <1>1, <1>2
<1>5. NextCheckAt(now, delay, slot) = (today + delay) * DayTicks + slot
  BY DEF NextCheckAt
<1>6. NextCheckAt(now, delay, slot) \in Nat
  BY NextCheckRange
<1> HIDE DEF today
<1>7. QED
  BY <1>1, <1>2, <1>3, <1>4, <1>5, <1>6

\* The estimate for a host that is not due yet: at least a day, and no more
\* than what is left, rounded up.
LEMMA EstimateBounds ==
  ASSUME now \in Nat, NEW h \in Hosts \ Unreadable, NEW date \in Nat, NEW error \in Int,
         date - now > Window, -Window <= error
  PROVE  /\ ScheduleDays(h, date, error) \in Nat
         /\ ScheduleDays(h, date, error) >= 1
         /\ ScheduleDays(h, date, error) * DayTicks <= date + error - now + DayTicks - 1
<1>1. DayTicks \in Nat /\ DayTicks > 0 /\ Window \in Nat
  BY CalendarArithmetic
<1> DEFINE left == date + error - now
           up   == (left + DayTicks - 1) \div DayTicks
<1>2. left \in Int /\ left >= 1
  BY <1>1
<1> HIDE DEF left
<1>3. left + DayTicks - 1 \in Nat /\ left + DayTicks - 1 >= DayTicks
  BY <1>1, <1>2
<1>4. up \in Int /\ up >= 1 /\ up * DayTicks <= left + DayTicks - 1
  BY <1>1, <1>3
<1>5. DaysUp(left) = up
  BY <1>4 DEF DaysUp, Greatest
<1>6. ~ InWindow(date)
  BY <1>1 DEF InWindow
<1>7. ScheduleDays(h, date, error) = up
  BY <1>5, <1>6 DEF ScheduleDays, left
<1> HIDE DEF up
<1>8. QED
  BY <1>4, <1>7 DEF left

\* So is next_renewal, for each of them, as long as no host has lapsed.
LEMMA NextRenewalBounds ==
  ASSUME now \in Nat, NEW dates \in [Hosts -> Nat], NEW top, ErrorsWithin(top),
         \A h \in Hosts : dates[h] - now > Window,
         NEW known \in KnownDays(dates), NEW days \in NextRenewal(known),
         NEW h \in Hosts \ Unreadable
  PROVE  /\ days \in Nat /\ days >= 1
         /\ days * DayTicks <= dates[h] + top - now + DayTicks - 1
<1>1. PICK errors \in [Hosts -> ZoneErrors] :
        known = {ScheduleDays(g, dates[g], errors[g]) : g \in Hosts} \ {Unknown}
  BY DEF KnownDays
<1>2. \A g \in Hosts : errors[g] \in Int /\ -Window <= errors[g] /\ errors[g] <= top
  BY HostAssumption DEF ErrorsWithin
<1>3. \A g \in Hosts \ Unreadable :
        LET shown == ScheduleDays(g, dates[g], errors[g])
        IN  /\ shown \in Nat /\ shown >= 1
            /\ shown * DayTicks <= dates[g] + errors[g] - now + DayTicks - 1
  BY <1>2, EstimateBounds
<1>4. \A g \in Unreadable \cap Hosts : ScheduleDays(g, dates[g], errors[g]) = Unknown
  <2>1. \A g \in Hosts : ~ InWindow(dates[g])
    BY CalendarArithmetic DEF InWindow
  <2>2. QED
    BY <2>1 DEF ScheduleDays
<1>5. known \subseteq Nat /\ \A d \in known : d >= 1
  BY <1>1, <1>3, <1>4
<1>6. ScheduleDays(h, dates[h], errors[h]) \in known
  BY <1>1, <1>3 DEF Unknown
<1>7. days \in known /\ days <= ScheduleDays(h, dates[h], errors[h])
  BY <1>6 DEF NextRenewal
<1>8. /\ ScheduleDays(h, dates[h], errors[h]) * DayTicks
           <= dates[h] + errors[h] - now + DayTicks - 1
      /\ ScheduleDays(h, dates[h], errors[h]) \in Int /\ days \in Int
  BY <1>3, <1>5, <1>7
<1>9. days * DayTicks <= ScheduleDays(h, dates[h], errors[h]) * DayTicks
  BY <1>7, <1>8, DayMonotone
<1>10. /\ dates[h] \in Int /\ errors[h] \in Int /\ top \in Int /\ DayTicks \in Int
       /\ errors[h] <= top
  BY <1>2, HostAssumption, DayAssumption DEF ErrorsWithin
<1>11. /\ days * DayTicks \in Int
       /\ ScheduleDays(h, dates[h], errors[h]) * DayTicks \in Int
  BY <1>8, <1>10
<1>12. days * DayTicks <= dates[h] + top - now + DayTicks - 1
  BY <1>8, <1>9, <1>10, <1>11
<1>13. QED
  BY <1>5, <1>7, <1>12

\* A delay of more than a day ends a window before the next renewal.
LEMMA DelayEndsBeforeWindow ==
  ASSUME NEW days \in Nat, days >= 1, NEW fallback \in Nat
  PROVE  \/ DaysUntilCheck(days, fallback) = 1
         \/ DaysUntilCheck(days, fallback) <= days - WindowDays
BY CheckAssumption DEF DaysUntilCheck, Least, Greatest

\* After a run that has confirmed every host that was due, whatever the table
\* shows, the next check leaves room.
LEMMA RunPlans ==
  ASSUME CalendarTypeOK, NEW top, ErrorsWithin(top),
         NEW dates \in [Hosts -> Nat], expiry' = dates, now' = now,
         \A h \in Hosts : now < dates[h] => dates[h] - now > Window,
         NEW known \in KnownDays(dates), NEW days \in NextRenewal(known)
  PROVE  Planned(days)'
<1>1. SUFFICES ASSUME NEW fallback \in Fallbacks, NEW slot \in CheckSlots
               PROVE  Roomy(NextCheckAt(now, DaysUntilCheck(days, fallback), slot))'
  BY DEF Planned
<1> DEFINE delay == DaysUntilCheck(days, fallback)
           date  == NextCheckAt(now, delay, slot)
<1>2. now \in Nat /\ days \in Nat /\ fallback \in Nat
  BY NextRenewalType, RobotAssumption DEF CalendarTypeOK, TypeOK, Time
<1>3. delay \in 1 .. MaxDays
  BY <1>2, DaysUntilCheckRange
<1> HIDE DEF delay
<1>4. date \in Nat /\ date <= now + delay * DayTicks + slot
  BY <1>2, <1>3, CheckWithinDelay
<1> HIDE DEF date
<1>5. /\ delay * DayTicks <= MaxDays * DayTicks /\ delay * DayTicks \in Int
      /\ MaxDays * DayTicks \in Int /\ slot \in Int /\ DayTicks \in Nat
      /\ Window \in Int /\ top \in Nat /\ DayTicks <= MaxDays * DayTicks
  <2>1. delay \in Int /\ MaxDays \in Int /\ delay <= MaxDays
    BY <1>3, CheckAssumption
  <2>2. top \in Nat
    BY HostAssumption DEF ErrorsWithin
  <2>3. QED
    BY <2>1, <2>2, DayMonotone, CalendarArithmetic, CheckAssumption
<1>6. ASSUME NEW h \in Hosts, Alive(h)'
      PROVE  date + Room(h)' < dates[h] + slot + top
  <2>1. dates[h] \in Nat /\ dates[h] - now > Window
    BY <1>6 DEF Alive
  <2>2. CASE Room(h)' = Window - MaxDays * DayTicks
    BY <1>2, <1>4, <1>5, <2>1, <2>2
  <2>3. CASE Room(h)' # Window - MaxDays * DayTicks
    <3>1. /\ h \notin Unreadable /\ \A g \in Hosts : Alive(g)'
          /\ Room(h)' = Window - DayTicks
      BY <2>3 DEF Room
    <3>2. \A g \in Hosts : dates[g] - now > Window
      BY <3>1 DEF Alive
    <3>3. /\ days >= 1
          /\ days * DayTicks <= dates[h] + top - now + DayTicks - 1
      BY <1>2, <3>1, <3>2, NextRenewalBounds
    <3>4. CASE delay = 1
      <4>1. delay * DayTicks = DayTicks
        BY <1>5, <3>4
      <4>2. QED
        BY <1>2, <1>4, <1>5, <2>1, <3>1, <4>1
    <3>5. CASE delay <= days - WindowDays
      <4>1. delay + WindowDays <= days /\ delay \in Int /\ WindowDays \in Int
        BY <1>2, <1>3, <3>5, CheckAssumption
      <4>2. (delay + WindowDays) * DayTicks <= days * DayTicks
        BY <1>2, <4>1, DayMonotone
      <4>3. (delay + WindowDays) * DayTicks = delay * DayTicks + Window
        BY <1>5, <4>1 DEF Window
      <4>4. days * DayTicks \in Int
        BY <1>2, <1>5
      <4>5. QED
        BY <1>2, <1>4, <1>5, <2>1, <3>1, <3>3, <4>2, <4>3, <4>4
    <3>6. QED
      BY <1>2, <3>3, <3>4, <3>5, DelayEndsBeforeWindow DEF delay
  <2>4. QED
    BY <2>2, <2>3
<1>7. Roomy(date)'
  <2>1. \A h \in Hosts : Alive(h)' => date + Room(h)' < expiry'[h] + slot + top
    BY <1>6
  <2>2. top \in ZoneErrors /\ slot \in CheckSlots
    BY DEF ErrorsWithin
  <2>3. \E s \in CheckSlots, error \in ZoneErrors :
          \A h \in Hosts : Alive(h)' => date + Room(h)' < expiry'[h] + s + error
    BY ONLY <2>1, <2>2
  <2>4. date = date'
    BY DEF date
  <2>5. QED
    BY <2>3, <2>4 DEF Roomy
<1>8. QED
  BY <1>7 DEF date, delay

(***************************************************************************)
(* RoomInv is inductive.                                                    *)
(***************************************************************************)

LEMMA SameRoom ==
  ASSUME now' = now, UNCHANGED expiry, NEW date
  PROVE  Roomy(date)' <=> Roomy(date)
BY DEF Roomy, Alive, Room

LEMMA NoRoomNeeded == Roomy(None)
BY DEF Roomy

\* A step that changes nothing that RoomInv is about, but for the phase.
LEMMA RoomKept ==
  ASSUME NEW p \in Procs, Rooms(p), now' = now, UNCHANGED expiry,
         pc[p] \notin {"reschedule", "failed"},
         pc'[p] \notin {"bootSave", "retry", "reschedule"},
         disk'.failures = disk.failures, disk'.nextCheck = disk.nextCheck,
         job'[p] = job[p] \/ job'[p] = None
  PROVE  Rooms(p)'
BY SameRoom, NoRoomNeeded DEF Rooms

LEMMA RoomFails ==
  ASSUME NEW p \in Procs, pc'[p] = "failed"
  PROVE  Rooms(p)'
BY DEF Rooms

\* A restart takes a date that left room, or a nearer one.
LEMMA RoomBoots ==
  ASSUME CalendarTypeOK, NEW p \in Procs, Rooms(p), UNCHANGED expiry, faults' = 0,
         BootLoad(p) \/ BootSave(p)
  PROVE  Rooms(p)'
<1> USE DEF At
<1>0. /\ TypeOK /\ now' = now /\ now \in Nat /\ disk.nextCheck \in OptTime
      /\ ~ StoreFails /\ job[p] \in OptTime /\ p \in DOMAIN pc
  BY NoFault DEF BootLoad, BootSave, CalendarTypeOK, TypeOK, Time, Document
<1>1. CASE BootLoad(p)
  <2> DEFINE restored == FutureCheck(disk.nextCheck, now)
             capped   == CapFutureCheck(restored, now)
  <2>1. /\ capped \in OptTime
        /\ capped # None => disk.nextCheck # None /\ capped <= disk.nextCheck
    <3>1. MaxDays * DayTicks \in Nat
      BY CalendarArithmetic
    <3>2. QED
      BY <1>0, <3>1, NoneAssumption DEF FutureCheck, CapFutureCheck, OptTime, Time, Least
  <2> HIDE DEF capped
  <2>2. disk.failures = 0 => Roomy(job[p]) /\ Roomy(disk.nextCheck)
    BY <1>1 DEF BootLoad, Rooms
  <2>3. disk.failures = 0 => Roomy(capped)
    BY <1>0, <2>1, <2>2, EarlierIsRoomy
  <2>4. disk' = disk
    BY <1>0, <1>1 DEF BootLoad
  <2>5. CASE Become(p, "bootSave") /\ run' = [run EXCEPT ![p].restored = capped]
             /\ UNCHANGED job
    <3>1. pc'[p] = "bootSave" /\ run'[p].restored = capped /\ job' = job
      BY <2>5 DEF CalendarTypeOK, TypeOK, Become, Locals
    <3>2. QED
      BY <1>0, <2>2, <2>3, <2>4, <3>1, SameRoom DEF Rooms
  <2>6. CASE capped = restored /\ Dispatch(p, restored)
    <3>1. pc'[p] \in {"serve", "load"} /\ job'[p] \in {job[p], capped}
      BY <1>0, <2>6, DispatchShape DEF Dispatched
    <3>2. QED
      BY <1>0, <2>2, <2>3, <2>4, <3>1, SameRoom DEF Rooms
  <2>7. QED
    BY <1>0, <1>1, <2>5, <2>6 DEF BootLoad, capped
<1>2. CASE BootSave(p)
  <2>1. disk.failures = 0 => Roomy(job[p]) /\ Roomy(run[p].restored)
    BY <1>2 DEF BootSave, Rooms
  <2>2. Writes(RecordNextCheck(disk, run[p].restored)) /\ Dispatch(p, run[p].restored)
    BY <1>0, <1>2 DEF BootSave
  <2>3. disk'.nextCheck = run[p].restored /\ disk'.failures = disk.failures
    BY <1>0, <2>2 DEF Writes, RecordNextCheck, TypeOK, Document
  <2>4. pc'[p] \in {"serve", "load"} /\ job'[p] \in {job[p], run[p].restored}
    BY <1>0, <2>2, DispatchShape DEF Dispatched
  <2>5. QED
    BY <1>0, <2>1, <2>3, <2>4, SameRoom DEF Rooms
<1>3. QED
  BY <1>1, <1>2

LEMMA RoomStep ==
  ASSUME CalendarTypeOK, NEW p \in Procs, Rooms(p), UNCHANGED expiry, faults' = 0,
         OtherStep(p)
  PROVE  Rooms(p)'
<1> USE DEF At
<1>0. TypeOK /\ ~ StoreFails /\ disk \in Document /\ p \in DOMAIN pc /\ p \in DOMAIN job
  BY NoFault DEF CalendarTypeOK, TypeOK
<1>1. CASE BootLoad(p) \/ BootSave(p)
  BY <1>1, RoomBoots
<1>2. CASE Load(p)
  <2>1. pc[p] = "load" /\ pc'[p] = "acquire" /\ UNCHANGED <<now, disk, job>>
    BY <1>0, <1>2 DEF Load, Become
  <2>2. QED
    BY <2>1, RoomKept
<1>3. CASE Acquire(p)
  <2>1. pc[p] = "acquire" /\ UNCHANGED <<now, disk>>
    BY <1>3 DEF Acquire
  <2>2. pc'[p] \in {"launch", "serve", "down"} /\ job'[p] \in {job[p], None}
    <3>1. CASE Become(p, "launch") /\ UNCHANGED job
      BY <1>0, <3>1 DEF Become
    <3>2. CASE Leave(p, TRUE) /\ Keeps(p, TRUE, job[p])
      BY <1>0, <3>2, LeaveShape DEF Left
    <3>3. QED
      BY <1>3, <3>1, <3>2 DEF Acquire
  <2>3. QED
    BY <2>1, <2>2, RoomKept
<1>4. CASE Launch(p)
  <2>1. pc[p] = "launch" /\ UNCHANGED <<now, job>>
    BY <1>4 DEF Launch
  <2>2. CASE Writes(RecordRunStarted(disk)) /\ Become(p, "work")
    <3>1. /\ pc'[p] = "work"
          /\ disk'.failures = disk.failures /\ disk'.nextCheck = disk.nextCheck
      BY <1>0, <2>2 DEF Become, Writes, RecordRunStarted, Document
    <3>2. QED
      BY <2>1, <3>1, RoomKept
  <2>3. CASE Become(p, "failed")
    BY <1>0, <2>3, RoomFails DEF Become
  <2>4. QED
    BY <1>4, <2>2, <2>3 DEF Launch
<1>5. CASE CountFailure(p)
  <2>1. disk' = RecordRetryFailure(disk) /\ Become(p, "retry")
    BY <1>0, <1>5 DEF CountFailure, Escape, Writes
  <2>2. disk'.failures = disk.failures + 1 /\ disk.failures \in Nat
    BY <1>0, <2>1 DEF RecordRetryFailure, Document
  <2>3. pc'[p] = "retry" /\ disk'.failures # 0
    BY <1>0, <2>1, <2>2 DEF Become
  <2>4. QED
    BY <2>3 DEF Rooms
<1>6. CASE ScheduleRetry(p)
  <2>1. PICK date : Writes(RecordRetryScheduled(disk, date)) /\ Become(p, "alert")
    BY <1>0, <1>6 DEF ScheduleRetry, Escape
  <2>2. disk.failures # 0
    BY <1>6 DEF ScheduleRetry, Rooms
  <2>3. pc'[p] = "alert" /\ disk'.failures # 0
    BY <1>0, <2>1, <2>2 DEF Become, Writes, RecordRetryScheduled, Document
  <2>4. QED
    BY <2>3 DEF Rooms
<1>7. CASE FinishFailed(p)
  <2>1. pc[p] = "alert" /\ UNCHANGED <<now, disk>>
    BY <1>7 DEF FinishFailed
  <2>2. pc'[p] \in {"serve", "down"} /\ job'[p] \in {job[p], None}
    BY <1>0, <1>7, LeaveShape DEF FinishFailed, Left
  <2>3. QED
    BY <2>1, <2>2, RoomKept
<1>8. CASE ScheduleNextCheck(p)
  <2>1. PICK fallback \in Fallbacks, slot \in CheckSlots :
          LET nextCheck == NextCheckAt(now, DaysUntilCheck(run[p].renewal, fallback), slot)
          IN  /\ Writes(RecordNextCheck(disk, nextCheck))
              /\ job' = [job EXCEPT ![p] = nextCheck]
              /\ Become(p, "announce")
    BY <1>0, <1>8 DEF ScheduleNextCheck, Escape
  <2> DEFINE date == NextCheckAt(now, DaysUntilCheck(run[p].renewal, fallback), slot)
  <2>2. Roomy(date)
    BY <1>8 DEF ScheduleNextCheck, Rooms, Planned
  <2> HIDE DEF date
  <2>3. /\ pc'[p] = "announce" /\ job'[p] = date /\ disk'.nextCheck = date
        /\ now' = now
    BY <1>0, <1>8, <2>1 DEF ScheduleNextCheck, Become, Writes, RecordNextCheck, Document, date
  <2>4. QED
    BY <2>2, <2>3, SameRoom DEF Rooms
<1>9. CASE FinishSucceeded(p)
  <2>1. pc[p] = "announce" /\ UNCHANGED <<now, disk>>
    BY <1>9 DEF FinishSucceeded
  <2>2. pc'[p] \in {"serve", "down"} /\ job'[p] \in {job[p], None}
    BY <1>0, <1>9, LeaveShape DEF FinishSucceeded, Left
  <2>3. QED
    BY <2>1, <2>2, RoomKept
<1>10. QED
  BY <1>1, <1>2, <1>3, <1>4, <1>5, <1>6, <1>7, <1>8, <1>9 DEF OtherStep

LEMMA RoomSurroundings ==
  ASSUME CalendarTypeOK, NEW p \in Procs, Rooms(p), UNCHANGED expiry, crashes' = 0,
         Start(p) \/ Fire(p) \/ Misfire(p) \/ Crash(p) \/ Interrupt(p)
  PROVE  Rooms(p)'
<1> USE DEF At
<1>0. TypeOK /\ p \in DOMAIN pc /\ p \in DOMAIN job /\ p \in DOMAIN run /\ run[p] \in Locals
  BY DEF CalendarTypeOK, TypeOK
<1>1. CASE Start(p)
  <2>1. pc[p] = "down" /\ pc'[p] = "boot" /\ UNCHANGED <<now, disk, job>>
    BY <1>0, <1>1 DEF Start, Become
  <2>2. QED
    BY <2>1, RoomKept
<1>2. CASE Fire(p)
  <2>1. pc[p] = "serve" /\ pc'[p] = "load" /\ job'[p] = None /\ UNCHANGED <<now, disk>>
    BY <1>0, <1>2 DEF Fire, Become, Forgets
  <2>2. QED
    BY <2>1, RoomKept
<1>3. CASE Misfire(p)
  <2>1. pc[p] = "serve" /\ pc' = pc /\ job'[p] = None /\ UNCHANGED <<now, disk>>
    BY <1>0, <1>3 DEF Misfire, Forgets
  <2>2. QED
    BY <2>1, RoomKept
<1>4. CASE Crash(p)
  BY <1>0, <1>4 DEF Crash, TypeOK
<1>5. CASE Interrupt(p)
  <2>1. CASE pc[p] = "serve" /\ Dies(p)
    <3>1. pc'[p] = "down" /\ job'[p] = None /\ UNCHANGED <<now, disk>>
      BY <1>0, <1>5, <2>1, DiesShape DEF Interrupt
    <3>2. QED
      BY <2>1, <3>1, RoomKept
  <2>2. CASE run' = [run EXCEPT ![p].stopping = TRUE] /\ UNCHANGED <<pc, job>>
    <3>1. /\ run'[p].restored = run[p].restored /\ run'[p].renewal = run[p].renewal
          /\ UNCHANGED <<now, disk, pc, job>>
      BY <1>0, <1>5, <2>2 DEF Interrupt, Locals
    <3>2. Planned(run[p].renewal) => Planned(run[p].renewal)'
      BY <3>1, SameRoom DEF Planned
    <3>3. QED
      BY <3>1, <3>2, SameRoom DEF Rooms
  <2>3. QED
    BY <1>5, <2>1, <2>2 DEF Interrupt
<1>6. QED
  BY <1>1, <1>2, <1>3, <1>4, <1>5

LEMMA RunLeavesRoom ==
  ASSUME CalendarTypeOK, NEW top, ErrorsWithin(top),
         NEW p \in Procs \ DryRun, RenewAll(p)
  PROVE  Rooms(p)'
<1>0. now \in Nat /\ expiry \in [Hosts -> Nat] /\ now' = now
  BY DEF CalendarTypeOK, TypeOK, Time, RenewAll, RunSucceeds
<1>1. Renewed(DueNow) \in [Hosts -> Nat] /\ expiry' = Renewed(DueNow)
  BY RenewedType DEF RenewAll
<1>2. \A h \in Hosts : now < Renewed(DueNow)[h] => Renewed(DueNow)[h] - now > Window
  BY <1>0, CalendarArithmetic DEF Renewed, DueNow, InWindow
<1>3. PICK known \in KnownDays(Renewed(DueNow)) :
        \E days \in NextRenewal(known) : RunSucceeds(p, days)
  BY DEF RenewAll
<1> PICK days \in NextRenewal(known) : RunSucceeds(p, days)
  BY <1>3
<1>4. Planned(days)'
  BY <1>0, <1>1, <1>2, RunPlans
<1>5. CASE Become(p, "failed")
  BY <1>5, RoomFails DEF Become, CalendarTypeOK, TypeOK
<1>6. CASE Become(p, "reschedule")
  <2>1. pc'[p] = "reschedule"
    BY <1>6 DEF Become, CalendarTypeOK, TypeOK
  <2>2. run'[p].renewal = days
    BY DEF RunSucceeds, CalendarTypeOK, TypeOK, Locals
  <2>3. QED
    BY <1>4, <2>1, <2>2 DEF Rooms
<1>7. QED
  BY <1>5, <1>6 DEF RunSucceeds

LEMMA ClockLeavesRoom ==
  ASSUME CalendarTypeOK, NEW p \in Procs, Procs = {p}, Rooms(p), UNCHANGED expiry,
         Tick \/ Suspend
  PROVE  Rooms(p)'
<1>1. now' = now + 1 /\ UNCHANGED <<disk, pc, job, run>>
  BY DEF Tick, Suspend
<1>2. pc[p] \in {"down", "serve", "work"}
  BY DEF Tick, Suspend, Due, At
<1>3. job[p] \in OptTime /\ disk.nextCheck \in OptTime
  BY DEF CalendarTypeOK, TypeOK, Document
<1>4. disk.failures = 0 => Roomy(job[p])' /\ Roomy(disk.nextCheck)'
  <2>1. disk.failures = 0 => Roomy(job[p]) /\ Roomy(disk.nextCheck)
    BY <1>2 DEF Rooms
  <2>2. \A date \in OptTime : Roomy(date) => Roomy(date)'
    BY <1>1, ClockKeepsRoomy
  <2>3. QED
    BY <1>1, <1>3, <2>1, <2>2
<1>5. QED
  BY <1>1, <1>2, <1>4 DEF Rooms

LEMMA NextRoomInv ==
  ASSUME CalendarTypeOK, RenewalDays = Nat, NEW top, ErrorsWithin(top),
         NEW p \in Procs, Procs = {p}, p \notin DryRun,
         RoomInv(p), [CalendarNext]_calendarVars
  PROVE  RoomInv(p)'
<1> SUFFICES ASSUME Calm'
             PROVE  Rooms(p)'
  BY DEF RoomInv
<1>0. Calm /\ Rooms(p)
  <2>1. crashes \in Nat /\ faults \in Nat
    BY DEF CalendarTypeOK, TypeOK
  <2>2. TypeOK /\ [Next]_vars
    BY CalendarStepImplements DEF CalendarTypeOK
  <2>3. crashes <= crashes' /\ faults <= faults'
    BY <2>2, TroublesStay
  <2>4. QED
    BY <2>1, <2>3 DEF Calm, RoomInv
<1>1. CASE RenewAll(p)
  BY <1>1, RunLeavesRoom
<1>2. CASE RenewSome(p)
  BY <1>2, RoomFails DEF RenewSome, RunFails, Become, CalendarTypeOK, TypeOK
<1>3. CASE OtherStep(p)
  BY <1>0, <1>3, RoomStep DEF OtherStep, Calm
<1>4. CASE Surroundings
  BY <1>0, <1>4, RoomSurroundings, ClockLeavesRoom DEF Surroundings, Calm
<1>5. CASE UNCHANGED calendarVars
  <2>1. UNCHANGED <<now, expiry, pc, disk, job, run>>
    BY <1>5 DEF calendarVars, vars
  <2>2. Planned(run[p].renewal) => Planned(run[p].renewal)'
    BY <2>1, SameRoom DEF Planned
  <2>3. QED
    BY <1>0, <2>1, <2>2, SameRoom DEF Rooms
<1>6. QED
  BY <1>1, <1>2, <1>3, <1>4, <1>5 DEF CalendarNext, CalendarStep

LEMMA RoomSuffices ==
  ASSUME NEW p, Procs = {p}, RoomInv(p)
  PROVE  CheckLeavesRoom
<1>1. SUFFICES ASSUME Calm, disk.failures = 0
               PROVE  \E slot \in CheckSlots, error \in ZoneErrors : \A h \in Hosts :
                        At(p, "serve") /\ job[p] # None /\ Alive(h) =>
                          job[p] + Room(h) < expiry[h] + slot + error
  BY DEF CheckLeavesRoom, Calm
<1>2. CASE pc[p] = "serve" /\ job[p] # None
  <2>1. Roomy(job[p])
    BY <1>1, <1>2 DEF RoomInv, Rooms
  <2>2. QED
    BY <1>2, <2>1 DEF Roomy
<1>3. CASE ~ (pc[p] = "serve" /\ job[p] # None)
  BY <1>3, CheckAssumption, HostAssumption DEF At
<1>4. QED
  BY <1>2, <1>3

\* A service that has the volume to itself, and that nobody kills, checks every
\* host while it still has its room, for any number of hosts, any expirations
\* and any times of day; the estimates may be off by as much as a window.
THEOREM ChecksLeaveRoom ==
  ASSUME RenewalDays = Nat, NEW top, ErrorsWithin(top), NEW p, Procs = {p}
  PROVE  CalendarSpec => []CheckLeavesRoom
<1>1. CASE p \in DryRun
  <2>1. CheckLeavesRoom
    BY <1>1, CheckAssumption, HostAssumption DEF CheckLeavesRoom
  <2>2. QED
    BY <2>1, PTL
<1>2. CASE p \notin DryRun
  <2>1. CalendarInit => RoomInv(p)
    BY NoRoomNeeded DEF CalendarInit, Init, RoomInv, Rooms, DefaultState
  <2>2. CalendarTypeOK /\ RoomInv(p) /\ [CalendarNext]_calendarVars => RoomInv(p)'
    BY <1>2, NextRoomInv
  <2>3. CalendarTypeOK /\ RoomInv(p) => CheckLeavesRoom
    BY RoomSuffices
  <2>4. QED
    BY <2>1, <2>2, <2>3, CalendarTypeCorrect, PTL DEF CalendarSpec
<1>3. QED
  BY <1>1, <1>2

=============================================================================
