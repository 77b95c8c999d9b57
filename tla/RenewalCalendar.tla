--------------------------- MODULE RenewalCalendar ---------------------------
(***************************************************************************)
(* RenewalApp with the hosts it is there for: what No-IP shows of their     *)
(* expiration, what the robot makes of it (get_host_inventory, host_timing, *)
(* next_renewal), and what a run, successful or not, does to them.          *)
(*                                                                          *)
(* A host is due in the last WindowDays before it expires: only then has    *)
(* its row a confirm button and an "Expires in N days".  Before that the    *)
(* robot estimates the days from data-update, the time of the last renewal, *)
(* if it can read it.                                                       *)
(***************************************************************************)
EXTENDS RenewalApp

CONSTANTS
  Hosts,         \* the hostnames of the account
  CycleDays,     \* a renewal is good for so many days (30)
  FirstExpiry,   \* when each host expires if nothing is done
  Unreadable,    \* hosts whose data-update has a format parse_data_update lacks
  ZoneErrors     \* ticks by which a data-update without a zone may be misread

ASSUME HostAssumption ==
  /\ Hosts # {} /\ Unreadable \subseteq Hosts
  /\ CycleDays \in Nat /\ WindowDays < CycleDays
  /\ FirstExpiry \in [Hosts -> Nat]
  /\ ZoneErrors \subseteq Int /\ ZoneErrors # {}

VARIABLE expiry   \* when each host expires

calendarVars == <<vars, expiry>>

Cycle == CycleDays * DayTicks
Window == WindowDays * DayTicks

Alive(h) == now < expiry[h]
InWindow(date) == now < date /\ date - now <= Window

\* math.ceil(seconds / 86400), never negative.
DaysUp(ticks) == Greatest(0, (ticks + DayTicks - 1) \div DayTicks)

Unknown == -1

\* The days a host has left if it expires at a date: "Expires in N days" of its
\* row, or else the estimate of derive_cycle_timing, which has the date from the
\* last renewal and CycleDays.
ScheduleDays(h, date, zoneError) ==
  IF InWindow(date) THEN (date - now) \div DayTicks
  ELSE IF h \in Unreadable THEN Unknown
  ELSE DaysUp(date + zoneError - now)

\* What the table may show of all hosts, as the sets of days that are known.
KnownDays(dates) ==
  {{ScheduleDays(h, dates[h], errors[h]) : h \in Hosts} \ {Unknown} :
     errors \in [Hosts -> ZoneErrors]}

\* Robot.next_renewal: the least of host_schedule_days, or 0.
NextRenewal(known) ==
  IF known = {} THEN {0} ELSE {days \in known : \A other \in known : days <= other}

Renewed(hs) == [h \in Hosts |-> IF h \in hs THEN now + Cycle ELSE expiry[h]]

\* The hosts whose row offers a confirm button.
DueNow == {h \in Hosts : InWindow(expiry[h])}

CalendarInit ==
  /\ Init
  /\ expiry = FirstExpiry

\* Robot.run of a plain service confirms every host that is due; a dry run
\* only looks.
RenewAll(p) ==
  LET dates == IF p \in DryRun THEN expiry ELSE Renewed(DueNow)
  IN  /\ \E days \in UNION {NextRenewal(known) : known \in KnownDays(dates)} :
           RunSucceeds(p, days)
      /\ expiry' = dates

\* A run that fails may have confirmed some of them.
RenewSome(p) ==
  /\ RunFails(p)
  /\ \E hs \in SUBSET DueNow :
       /\ p \in DryRun => hs = {}
       /\ expiry' = Renewed(hs)

OtherStep(p) ==
  /\ \/ BootLoad(p) \/ BootSave(p)
     \/ Load(p) \/ Acquire(p) \/ Launch(p)
     \/ CountFailure(p) \/ ScheduleRetry(p) \/ FinishFailed(p)
     \/ ScheduleNextCheck(p) \/ FinishSucceeded(p)
  /\ UNCHANGED expiry

CalendarStep(p) == RenewAll(p) \/ RenewSome(p) \/ OtherStep(p)

Surroundings ==
  /\ \/ \E p \in Procs : Start(p) \/ Fire(p) \/ Misfire(p) \/ Crash(p) \/ Interrupt(p)
     \/ Tick \/ Suspend
  /\ UNCHANGED expiry

CalendarNext == (\E p \in Procs : CalendarStep(p)) \/ Surroundings

CalendarSpec == CalendarInit /\ [][CalendarNext]_calendarVars

\* As in RenewalApp: the robot, RenewAll or RenewSome, may never come back.
CalendarFairSpec == CalendarSpec /\ \A p \in Procs : WF_calendarVars(OtherStep(p))

(***************************************************************************)
(* Properties.                                                              *)
(***************************************************************************)

\* The time a host has left when it is checked again, but for the hour of the
\* check and the error of the estimate: a window but for the day that rounding
\* may cost, if its date is known; what the cap leaves of the window, if the
\* date cannot be read or a lapsed host, with its 0 days, hides all the others.
Room(h) ==
  IF h \notin Unreadable /\ \A other \in Hosts : Alive(other)
  THEN Window - DayTicks
  ELSE Window - MaxDays * DayTicks

\* After a successful run of a plain service that nobody kills, the next check
\* comes while every living host still has this room: in the program's numbers
\* at least a day and a half, into which the first four retries of an outage
\* fit.  The run, next_renewal, days_until_check and a restart each contribute
\* to it, and none of them looks at a host's date again.
CheckLeavesRoom ==
  crashes = 0 /\ faults = 0 /\ disk.failures = 0 =>
    \E slot \in CheckSlots, error \in ZoneErrors :
      \A p \in Procs \ DryRun, h \in Hosts :
        At(p, "serve") /\ job[p] # None /\ Alive(h) =>
          job[p] + Room(h) < expiry[h] + slot + error

=============================================================================
