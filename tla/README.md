# Verification of noip-bot

noip-bot keeps free No-IP hostnames alive: it logs in with a browser, confirms
the hostnames that are about to expire, decides when to look again, and serves
a status page. This directory holds TLA+ models of the program, the TLC
configurations that check them on small instances, and theorems about them
that TLAPS proves for every value of the constants. `PROJECT.json` maps each
definition to the lines of source it models.

## 1. Inventory of the system

| component | source | state it keeps | operations | module |
|---|---|---|---|---|
| entry point | `noip_bot.py` | the scheduler, one per process | `main`: start the scheduler, `run`, turn exceptions into mails, shut down | `RenewalApp` |
| renewal application | `application.py` | the process's only job, "Update Hosts"; locals of a run | `run`, `update_hosts`, `_update_hosts_locked`, `send_email` | `RenewalApp`, `RenewalCalendar`, `Notifications` |
| scheduling arithmetic | `scheduling.py` | none | `days_until_check`, `future_check`, `cap_future_check`, `retry_delay_seconds`, `should_notify_failure` | `Scheduling` |
| run lock | `run_lock.py` | a flock on `state.json.run.lock` | `acquire` (never waits), `release` | `RenewalApp` |
| state document | `state_store.py` | `state.json`: schedule, retry block, last error, hosts, notifications | twelve mutations | `StateDocument`, `Robot` (hosts), `Notifications` (its block) |
| state file protocol | `state_store.py` | a process-wide RLock, a flock, the file, temporary files | construction, `_update` | `StateStore`, `AtomicDocument` |
| health | `health_status.py` | none | `evaluate_health` | `StateDocument`, `Notifications` (mail status) |
| robot | `noip_renew/noip_renew.py` | a browser, per-run lists | `login`, `update_hosts`, `update_host`, `run` | `Robot`, `RenewalLedger`; its outcome in `RenewalApp`, what it learns of expirations in `RenewalCalendar`, its login challenge in `VerificationCode` |
| cycle timing | `host_timing.py` | none | `parse_data_update`, `derive_cycle_timing` | `RenewalCalendar` |
| page contracts | `noip_renew/page_contract.py` | none | parsers that raise | left out |
| status server | `status_server.py` | one-time-code challenge, its lock, sessions | login, verify, logout, `/health`, `/status.json`, `/` | `StatusLogin` (the code), `OneTimeCode` |
| notifications | `notifications.py` | a delivery thread and a queue per mail | `send_notification` | `Notifications` |
| verification code reader | `emailServer/verificationCodeReader.py` | an IMAP connection; which messages are unread | `wait_for_code`, `_search_latest` | `VerificationCode` |
| e-mail services | the rest of `emailServer/` | an SMTP connection, the queue of `GMailWorker` | `sendEmail` | its outcomes, in `Notifications` |
| utilities, scripts, templates, containers | | none | | not modelled |

How they interact. `main` starts an APScheduler thread and calls `run`, which
mails, reads the document, and either restores the persisted date as a job,
calls `update_hosts` in the main thread, or (SKIP_INITIAL_RUN) does neither;
then it serves the status page. `update_hosts` runs in the scheduler thread from
then on. Each call builds a `StateStore` (a copy of the document), tries the run
lock, and hands the store to the robot. The document is shared by all threads
and by all processes on the data volume; so is the run lock. The job is in
memory only: the document is what survives a restart. Mails leave through a
delivery thread that is given up after a timeout. The robot reads the mailbox in the
middle of its login, and the mailbox keeps what one run has left for the next.

What is hard. Two processes on one volume (`README.md:203-211` of the
repository promises they coordinate); a crash at any point and the restart
policy of the compose files; a failing disk; a suspended host; a run that
fails, retries, and recovers over days; mails that must be sent once. The full
list, line by line, is under `hazards` in `PROJECT.json`.

What makes each component right:

- *application*: a process that serves has a job, the document names its date,
  checks keep coming at the promised rate, retries wait as long as they say,
  the failure count is right, every outage is mailed at its 1st and 4th
  failure and at every seventh after that, no failure twice, a recovery is mailed with
  the right count, and each check comes while the hosts have room for retries.
- *run lock*: held exactly during a run, free again on every way out.
- *document and its file*: updates of all threads and processes take effect one
  at a time, an update that raises or dies leaves the document as it was or as
  it would have been, a reader never sees half a file, no lock is lost.
- *health*: unhealthy as long as an outage lasts.
- *status login*: a code opens at most one session, within ten minutes and five
  attempts, and what the page says of a code is true.
- *robot*: a hostname is recorded as renewed only if it was, in any order of
  replies and failures; records only advance; a dry run touches nothing; a run
  that succeeded has dealt with all it listed; a run whose login is answered ends.
- *notifications*: a mail never interrupts or holds up a run for long, the outcome a
  call works with is that of its own mail, the status page tells the last outcome on
  record, and no thread waits for ever for a caller that has gone.
- *verification codes*: no code is submitted twice, a challenge gets the code that
  belongs to it, and waiting for one ends when its time is over.
- *expirations*: what the table shows of each host, the estimate for the others, the
  least of them, the cap and the restart together leave every host its room.

## 2. Modules

| module | what it is |
|---|---|
| `Scheduling` | the functions of `scheduling.py` and the date arithmetic of `application.py`, over integers |
| `StateDocument` | the schedule, retry and error fields of the document, the mutations on them, `evaluate_health` |
| `RenewalApp` | any number of processes: start, run, crash, interrupt, misfire; composes the two above |
| `MCRenewalApp` | instances of it |
| `RenewalCalendar` | `RenewalApp` together with the hosts and their expirations |
| `MCRenewalCalendar` | an instance of it |
| `Notifications` | mails about runs: caller, delivery thread, queue, record |
| `MCNotifications` | an instance of it |
| `VerificationCode` | the login challenge of No-IP and the mailbox |
| `MCVerificationCode` | instances of it |
| `AtomicDocument` | what the store promises: a document that updates change one by one |
| `StateStore` | how `state_store.py` does it: locks, load, temporary file, replace |
| `MCStateStore` | an instance of it |
| `OneTimeCode` | what the login page promises: the life of a code, from its drawing to its end |
| `StatusLogin` | the one-time login code of the status page: two critical sections around a mail |
| `MCStatusLogin` | an instance of it |
| `RenewalLedger` | what the runs promise: entries for renewals that they have caused, once each |
| `Robot` | a renewal run host by host, with No-IP and the browser's page as its environment |
| `MCRobot` | instances of it |
| `SchedulingProofs`, `RenewalAppProofs`, `RenewalCalendarProofs`, `StateStoreProofs`, `StatusLoginProofs`, `RobotProofs`, `NotificationsProofs`, `VerificationCodeProofs` | the theorems |

### Scheduling

Time is counted in ticks, `DayTicks` of them to a day, from a midnight. A date
of the program is a tick or `None`. Random choices (`uniform(-0.1, 0.1)`,
`1 + randrange(5)`, the minutes of the morning window) are members of the sets
`Jitters` (whole percentages), `Fallbacks` and `CheckSlots`; a definition that
depends on one takes it as a parameter. `NextCheckAt` is the statement sequence
`date.today() + timedelta(days=...)` followed by the morning hour.

### StateDocument

One operator per `record_...` method. A past timestamp is reduced to what
`evaluate_health` asks: `last_success` is there or not, `last_error` is there or
not (a success clears it, so an error that is there is newer). The hosts are in `Robot`,
the notification block is in `Notifications`: no mutation touches both it and these fields.

### RenewalApp

Variables: the clock, the document, the holder of the run lock, and for every
process its phase, the date of its job and the locals of its call. Histories
(`alerted`, `lastCheck`, the field `erased`) are only read by properties.

Each action is the code between two points where something else can happen: a
write of the document, an operation on the run lock, a call of the robot.

| action | code |
|---|---|
| `Start`, `BootLoad`, `BootSave` | `main`, `run` up to the decision between restored date, initial run and neither; `BootSave` is the write of a capped date, which takes no run lock |
| `Load`, `Acquire` | `update_hosts`: the store is built (and the failures read from it) before the lock is tried; a held lock raises |
| `Launch` | `Robot.__init__` and `record_run_started` |
| `RunSucceeds`, `RunFails` | `Robot.run`; a success that is followed by a failing `browser.quit` is counted as a failure by the caller |
| `CountFailure`, `ScheduleRetry`, `FinishFailed` | the `except` branch: `record_retry_failure`; `add_job` and `record_retry_scheduled`; the mail and the raise |
| `ScheduleNextCheck`, `FinishSucceeded` | `add_job` and `record_next_check`; recovery mail, page, return |
| `Escape` | an exception of the state file in either branch: the lock is released by the `finally`, a job that was added stays |
| `Fire`, `Misfire` | APScheduler: a job is removed when due, then run or, if late, dropped |
| `Crash`, `Interrupt` | a killed process; SIGINT while serving, which waits for a job in progress |
| `Tick`, `Suspend` | time; a host that sleeps through a due job |

`Leave` and `Keeps` say who sees an exception: in the main thread it ends the
process (`main` re-raises), in the scheduler thread it is logged.

### RenewalCalendar

Extends `RenewalApp` by one variable, when each host expires, and by the step that was
left open there: which number of days `next_renewal` is. `InWindow` is what No-IP shows
(an "Expires in N days" and a confirm button in the last `WindowDays`), `ScheduleDays`
the days of one host (`get_host_inventory`: the text of the row, or the estimate of
`derive_cycle_timing`, or nothing if `data-update` has an unknown format), `NextRenewal`
the least of those known (`update_hosts`). A `data-update` without a zone is read as
if it were of the process's zone; `ZoneErrors` are the ticks by which that may be wrong.

| action | code |
|---|---|
| `RenewAll` | `Robot.run` that succeeds: a plain run confirms all that are due, a dry run none; the days are those of the table afterwards |
| `RenewSome` | `Robot.run` that fails after it has confirmed some |
| `OtherStep`, `Surroundings` | every other action of `RenewalApp`, which leaves the hosts alone |

`RenewAll` is one step although the robot takes many: the run lock keeps other runs out
(`RunsAlone`), other processes do not look at the hosts, and `Robot` has the detail.
`RenewalCalendar` implements `RenewalApp` (theorem `ImplementsApp`), so `app_single`,
which runs it, checks the properties of `RenewalApp` on days that hosts really have.

### StateStore and AtomicDocument

A thread constructs a store (a read without any lock) and may update once:
`Enter` (RLock), `Lock` (flock), `Load`, `MakeTemp`, `Write`, `Replace`,
`Unlock`, `Exit`. Every call that touches the disk may raise, within
`MaxFaults`; `Crash` kills all threads of a process and leaves their temporary
files. The document is the sequence of updates applied to it, which is all that
atomicity needs to tell apart; what each update does is in `StateDocument`.
`AtomicDocument` has an atomic commit between call and return, and says what a
failed or killed call may have done: nothing, or all of it. `StateStore`
implements it with `doc <- Contents`: the commit is the `os.replace`.

### StatusLogin

Web threads share the challenge and the time of the last send under one lock.
`send_login_code` is two critical sections with the mail between them:
`DrawCode` reserves the resend slot and draws the code; `Install` or `GiveUp`
follows when the mail server has answered. `verify_login_code` is one section,
split by outcome into `VerifyRight`, `VerifyWrong` and `VerifyExpired`. A request
that comes too early, and a guess when there is no challenge, change nothing.
`Restart` loses challenge, slot and requests in flight. `drawnAt`, `wrong` and
`admissions` are histories. A code is identified with its request: that two
requests draw the same six digits is left out. `DeliveryTime` bounds a call of the
mail server. It is a parameter and not a fact: `_send_status_login_email` calls
`sendEmail` directly, without the timeout of `notifications.py`; outside debug mode
that only fills the queue of a worker, in debug mode it is the SMTP dialogue. `now` is
read before the lock is taken in both functions; the lock is held for a few statements
only, so a wait for it is shorter than a tick.

`OneTimeCode` has no requests, locks or mails. It has the life of each code: undrawn,
drawn, on offer, over; one code is on offer at a time, one that is over stays so, and
sessions are opened by the code on offer and in time. `StatusLogin` implements it
(`ImplementsCode`) with the life of a code read off the phase of its request and the
challenge: an installed code that is no longer the challenge is over. That a displaced
code is over holds at every speed of the mailer; which of two codes displaces the other does
not (section 4; a `DeliveryTime` of 3 in `status_login.cfg` shows it).

### Robot

The run lock admits one run at a time (`RunsAlone`), so there is one robot; its runs
follow each other. The environment is what the code expects of it, no more: the
site has each host's `data-update` (a stamp, counted up) and whether a renewal is
due; the page is a copy of that, taken when the hosts page is opened, and only the
reply to a click refreshes it, control and row in either order, the row perhaps
missing in between (`NoSuchElementException` is handled at `noip_renew.py:329`). A
click may be lost, may be served when its run is over, and may raise after it was
sent. Replies for one host are displayed in their order. The owner may renew by hand.

| action | code |
|---|---|
| `Begin` | `Robot.__init__`, `record_run_started`, in either mode |
| `OpenHostsPage` | `login` with the verification challenge, `open_hosts_page` |
| `ListHosts` | the first inventory, `record_inventory`, `get_hosts` |
| `NameHosts` | the loop of a dry run |
| `ReadBefore`, `Click`, `ClickRaises` | `update_host` up to the click: the stamp, whose row must be there or the run has failed; click, one more attempt |
| `Verify`, `GiveUp` | the poll of `renewal_completed`, and its time limit |
| `Confirm`, `Mismatch` | the refreshed inventory must still hold the stamp, then `record_host` |
| `RefreshInventory`, `RecordWouldRenew`, `Succeed` | the last three writes and `quit` |
| `Abort` | any other exception, of the browser, the mailbox or the store, or a death |

Each write of the document is an action of its own, so that a run can die between
any two. `HostName` and `DataUpdate` go through `RowFound`, the row that the XPath of
`_get_host_row` finds for an id; `Inventory` does not, as in the code. A run's number
stands for its time in `last_verified_renewal`. `record_failure` and `record_success`
change nothing that this module holds; they are in `StateDocument`. `touches` is a history.

`RenewalLedger` is what a reader of `state.json` may rely on, told with a full view of
No-IP and without page, clicks or retries: `Begin` a run, `Look` at the account (which may
bring stamps up to date, never beyond what No-IP has, and makes the list, once), `Enter` a host
of the list, once in a run, for a renewal that this run has caused, `NamePreview` in a dry run, and
`Succeed` only with nothing left out. `Robot` implements it (`ImplementsLedger`) if every id finds its own row:
`Serve` is the ledger's `Renew`, `Confirm` its `Enter`, the inventories are looks, and all that
happens on the page is a stutter.

### Notifications

`Callers` are the threads that mail: the scheduler thread, the main thread during its
initial run, or another process. `Unconfigured` are those of a process without mail
settings (`gmail_server is None`). `Workers` bounds the delivery threads alive at a time.

| action | code |
|---|---|
| `Send` | `send_email`: `StateStore()` or, if that raises, no store; `send_notification` up to the start of the thread |
| `ServerAnswers` | `server.sendEmail` returns True or False or raises, if ever |
| `Put` | `result_queue.put` in the thread, which waits while the one place is taken |
| `Take`, `TimeOut` | `result_queue.get(timeout=...)` returns, or raises `Empty` |
| `Record` | `_record_safely` with success, failure or disabled; one update of the document, which may raise; the return |
| `Collect`, `Crash` | a thread that has ended; the death of a process with its daemon threads |

`sendEmail` of `GMailWorker` answers when the mail is in its queue, so outside debug mode
"success" in the document is a hand-over and not a delivery; the code's own name for it is
`record_notification_success`, and the status page says "healthy". The module makes no
statement about arrival.

### VerificationCode

No-IP is modelled as the robot expects it: a challenge draws a code, mails it, and accepts
the code of the newest challenge only. The mailbox is the sequence of unread messages from
noip.com, reduced to the number that `_search_latest` finds in each; any number of four to eight
digits in mail of that sender is taken for a code, hence `Decoy`. Fetching with `(RFC822)`
marks a message as seen, so the fetch takes it out of the sequence, and also if the
connection fails afterwards.

| action | code |
|---|---|
| `PassUnchallenged`, `Challenge` | `login` without and with `#otp-input` |
| `Search` | `_search_latest`: newest unread first |
| `CheckDeadline` | the loop of `wait_for_code`: deadline after the search, then sleep |
| `LoginRaises` | an IMAP error, a page without six boxes, no reader configured |
| `Stalls` | a search whose server stops answering, before or after a message was marked: the sockets have no timeout (`verificationCodeReader.py:25`), so it waits for ever |
| `Submit` | the digits are typed; `hosts` comes up or the run fails |
| `LogOut`, `Killed` | the end of the run or of the process |
| `Arrive`, `Lose`, `DecoyArrives`, `OwnerReads`, `Expire` | mail and time |

`tried` and `since` are histories. A code is drawn again once its mail is out of the way,
so that the model runs for ever; that No-IP draws the same digits twice in a row is left out.

## 3. Runs

| run | instance | question |
|---|---|---|
| `app_single` | `RenewalCalendar`: one service, two hosts, one crash | does it always have a job, does the document name it, do checks keep coming, do they leave room, does a run that does not hang lead to a job? |
| `app_pair` | a dry-run service and a plain one, one crash | lock, counts, alerts and health under contention; does every call end and the lock come free, if no robot hangs? |
| `app_hostile` | a service and a SKIP_INITIAL_RUN process, a crash, a failing disk access, a suspend | types, backoff, cap on jobs; what can lose a recovery mail? |
| `state_store` | two threads and one, two processes, one fault, one crash | atomicity (refinement), torn files, temporary files, termination |
| `status_login` | three requests, a restart, a mailer quicker than the resend interval | does a code open one session, in time, after few guesses, work as promised, and never come back (refinement)? |
| `robot` | two hosts, two runs, a second cycle of one host | is what is recorded real, does it stay, is a success complete, does a dry run touch nothing, do the runs keep the ledger (refinement), does a run end that gets past its login? |
| `notifications` | two threads of a service and a process without mail, two delivery threads, one crash, one fault | is an outcome one's own, does the status tell the last one, do calls and threads end? |
| `mailbox` | three codes, two unread messages at most | is a code used once, does the right mail win, does waiting end while the server answers? |
| `orphan_misfire` | one service, one suspend | violation: checks stop |
| `dry_run_loop` | one dry-run service | violation: restarts ignore the retry date |
| `late_code` | as `mailbox`, good days after one late mail | violation: every later login fails |
| `stalled_search` | as `mailbox` | violation: a search that is not answered outlasts the 120 seconds |

Properties are stated and commented in `RenewalApp`, `RenewalCalendar`, `StateStore`,
`StatusLogin`, `Robot`, `Notifications` and `VerificationCode`.

**Which conditions the properties need.** `NeverOrphaned`, `ScheduleDurable`,
`ChecksKeepComing` and `WorkRearms` are about a process that has the volume to
itself, whose file can be written and whose host stays awake; they are false
otherwise, for reasons that are listed as hazards: a job that meets a held lock
raises and is not added again (`application.py:115-124`); an exception while a
failure is recorded leaves the retry in memory only or nowhere. The README of the
repository promises none of these in those circumstances (of a held lock it says that
no retry is scheduled, `README.md:203-211`), so no run reports them as violations.
`RecoveryTold` is about a process that is the only one to renew, and names what may
come between the erased failures and their mail; with two such processes it is false,
because the count for the mail is read before the lock.
`AlertsExact` and `HealthTellsOutage` exclude a crash and a fault in their own
hypothesis: a run that dies has cleared `last_error` and may have counted a
failure that was never mailed; `AlertOnce` holds regardless. `CheckLeavesRoom` excludes
them too: `record_success` persists the expiration date, uncapped, and a process that dies before
`record_next_check` and stays down caps it from the moment it is started again, by when the
room may be gone. What room there is depends on what the table shows. With all
dates known it is the window less a day of rounding. With a host whose `data-update`
cannot be read, or one that has lapsed (its 0 days are the least, and 0 is taken for
"nothing known", `scheduling.py:19`), it is the window less the cap: in the program's
numbers 7 days less 5, less a slot of at most 8.5 hours, which is 1.6 days, and the first
four retries of an outage take 31.25 hours.

**Bounds.** A tick is a third (in `app_pair` half) of a day, the cap is two
days, the retries are 1, 1, 2 and 3 ticks: all tiers that differ in a model of this
grain, and a clock (`MaxTime`) that lets a run fail through all of them, or
succeed and be checked again past the cap. `MaxFailures` of 4 or 5 covers the
alerts at 1 and 4 and the silence at 2, 3 and 5. In the runs of `MCRenewalApp` `RenewalDays`
holds 0 (nothing known) and 9 (beyond window and cap): the first takes the fallback,
the second the cap. In `app_single` the days come from the hosts: a cycle of 5 days, a window
of 3 and a cap of 2, nine ticks of time; one host is due at the first run and is due again
before the clock stops, the other, whose `data-update` cannot be read, comes due in
between; an estimate may be off by a tick. One crash, fault and suspend each are placed at every
point of a run; a second one would need a run in between, which starts from
states the first already produces. In `state_store` three threads are the least
that have both a sibling in the same process and a rival in another.
In `notifications` two delivery threads are the least with which one that was given up
answers while the next mail is under way; callers send again and again, so nothing else is
bounded. In `mailbox` a third code is drawn while the mails of two are about.
In `status_login` a tick is half a minute: the resend interval of two ticks is
longer than a delivery (`DeliveryTime` 1), two requests fit
into the life of a code, and three are the least in which a code has both a
predecessor and a successor. The requests are symmetric; the run has
invariants and one safety property, the refinement, which does not tell requests apart. In `robot` the first host starts with stamp 1 and may be renewed, expire and be
renewed again (`Cycles`), the second is renewed once: the first gives a record that a
later run may spoil, the second the loop its other iteration. Two runs are enough
for a late click of one to meet the page of the next. The rules of APScheduler (a date job is removed when due; a late one is
dropped) and of flock (free when the process dies) are assumptions about code
outside the repository, marked external in the map.

**Fairness.** `RenewalApp` and `StateStore` assume weak fairness of the steps
a thread takes by itself once it has begun a call: threads are scheduled, and the
waits of mail (30 s) and of flock end. The run of the robot is excepted, for it may hang: the
IMAP connection of its login has no timeout (`verificationCodeReader.py:25`). So `CallsEnd`,
`LockComesFree` and `WorkRearms` say what happens unless a robot hangs (`Hangs`: it stays in
its run for ever), and in particular that nothing else can hold up a call or keep the lock.
Nothing is assumed of starts, crashes, interrupts or the clock, so no liveness property says
that a check takes place, only that what has begun ends and leaves a job behind; that checks keep
coming is the safety property `ChecksKeepComing`, in terms of the clock, in which a run
that hangs is a run that is still under way.

`Robot` assumes weak fairness of the run's own steps but for the login: `GiveUp` and `ClickRaises`
are among them, for each wait for the page has a limit (`WebDriverWait`, page loads of 90 s);
`Abort` and the site are not. So `RunEnds` holds for runs that get past their login, because
retries are counted and waits limited, not because runs crash.

`Notifications` assumes that callers are scheduled and their timeouts pass, and that a
thread whose `sendEmail` has returned goes on; nothing is assumed of `sendEmail`, so a thread
that hangs in it may do so for ever (`SendsEnd` is about the callers only).
`VerificationCode` assumes that the thread of the run goes on and that the 120 seconds pass; nothing of
the mail. A search may stall for ever, and `LoginEnds` says that this is the only way in which a
wait does not end; `LoginRaises` alone can not be what ends one, because a run that
never raises must still end. `LateSpec`, the specification of `late_code`, assumes on top what one
would wish for: there is a next run, every mail arrives before it, nothing raises or stalls.

**Deadlock** is checked in the runs of `RenewalApp`, where a process can always
be restarted. `state_store` says CHECK_DEADLOCK FALSE because its threads
update once and stop; that none is stuck is `UpdatesEnd`. `status_login` says so because a server that gets no more
requests is idle, `robot` because the runs are bounded (`MaxRuns`). `notifications` and `mailbox` check it: there is
always a next mail and a next run.

**Mutants.** Next to the definitions are variants, marked "Variant:", each with
one plausible mistake; for every property `PROJECT.json` names one that
breaks it in that property's run.

## 4. Findings

1. *A misfire ends the renewals* (`orphan_misfire`). The job store is in memory,
   holds one date job, and has a grace of 60 seconds (`noip_bot.py:124`). A
   process whose host sleeps through the date serves its page for ever after
   without a job, although `README.md:123` calls the interval a hard cap.
2. *Dry-run ignores its own backoff* (`dry_run_loop`). "Bypasses a restored
   future schedule once" (`README.md:163`) is once per start, and a failed
   initial run ends the process: under a restart policy it retries at once.
3. *One late code spoils all later logins* (`late_code`). `_search_latest` takes any unread
   message from noip.com (`verificationCodeReader.py:57`), whenever it came, and the first search
   follows the challenge at once. A code that came after its run had given up is taken by the
   next run before that run's own mail is there. It is wrong, the run fails within seconds,
   and its own mail lies unread for the run after it, and so on; a mail opened by hand
   or a slow search ends it. `README.md:20` promises support of these codes, and
   `verificationCodeReader.py:38` that the reader polls "until a matching code email arrives".
4. *A stalled mail server stops the renewals* (`stalled_search`). `wait_for_code` polls "until a
   matching code email arrives, or `timeout` seconds elapse" (`verificationCodeReader.py:38`), but
   the deadline is only looked at between two searches (line 47), and the connection of a search
   has no timeout (line 25), nor have sockets a default one. A server that accepts the connection
   and then stops answering holds the run for ever, and with it the run lock and, because the
   next job is added at the end of a run, all checks to come, as long as the process lives.

Observations that no run reports, because no text of the repository is plainly against
them or because they need circumstances that are rare:

- *A recovery mail can be lost.* `record_success` erases the failures before the mail that tells of
  their end. A process that dies in between, or whose `record_next_check` (`application.py:228`)
  raises, never sends it, and the next run finds nothing to recover from; `README.md:190-191`
  promises the mail without exceptions. `RecoveryTold` names these ways and shows that for a process that
  alone renews there are no others. With two that renew, the count for the mail is read before the
  run lock (`application.py:113`) and may be the one before the other's run.
- *A slow mail displaces a newer login code.* The page says that the code it sent lives
  for ten minutes (`templates/status_login.html:18`). `status_server.py:309` installs the challenge
  of whichever request ends last: one that waits for a mail server longer than the 60 seconds of the
  resend interval (possible in debug mode only, where `sendEmail` is the SMTP dialogue) replaces the
  announced code by its older one. `PromisedCodeWorks` is proved for a quicker mailer; with
  `DeliveryTime = 3` TLC finds it violated.
- *The cap is on the calendar.* The delay of at most `MAX_CHECK_INTERVAL_DAYS` days counts
  from midnight and the check follows in the morning, up to 8.5 hours after what
  `README.md:181-182` says. `JobWithinCap` and `ChecksKeepComing` state the limit that holds.
- *Ids that begin alike.* `_get_host_row` searches with `contains` (`noip_renew.py:284`), so
  the id 1234 also finds the row of 12345 if that is first. A dry run then names the wrong host;
  a plain run waits for the wrong row and fails after it has renewed the host. Nothing false is
  recorded (`RecordsAreReal` holds for any `RowFound`).
- *Two clocks.* `date.today()` (`application.py:196`) is the date of the process's zone, the
  hour of the check is in the configured one. The image and the compose files set TZ, which
  both use; without it the defaults differ (`noip_bot.py:23`), and with a delay of one
  day the check may lie in the past. The models have one clock.
- *A lapsed host hides the others.* Its 0 days are the least and stand for "nothing
  known"; the next check is then drawn from 1 to 5 days, whatever the others have left.

## 5. Theorems

For any set of processes, delays, cap, slots and bounds, from the named
assumptions of `Scheduling` and `RenewalApp`, and of the module in question (`Robot`: the
hosts are finitely many and `NoHost` is none of them):

| theorem | says |
|---|---|
| `TypeCorrect` | `[]TypeOK` |
| `RunLockSafe` | `[]LockInv`, and from it `RunsAlone`: never two runs at once |
| `ReportedCountIsCurrent` | `[]CountIsCurrent` |
| `AlertedOnce` | `[]AlertOnce` |
| `PendingJobsCapped` | `[]JobWithinCap` |
| `NeverSeenTorn`, `TempsAlwaysCleaned` | `[]NeverTorn`, `[]TempsCleaned` of `StateStore` |
| `Refinement` | `Spec => ImplementsAtomicDocument` |
| `TypeCorrect`, `UsedAtMostOnce`, `NeverUsedLate`, `GuessesBounded` of `StatusLoginProofs` | `[]TypeOK`, `[]CodeUsedOnce`, `[]CodeFresh`, `[]AttemptsHonoured` |
| `PromisesKept` | `[]PromisedCodeWorks`, if `DeliveryTime < ResendWait` |
| `KeepsCode` | `Spec => ImplementsCode`: `StatusLogin` implements `OneTimeCode` |
| `TypeCorrect`, `RecordsAreReal`, `RecordsOnlyAdvance`, `DryRunsTouchNothing` of `RobotProofs` | `[]TypeOK`, `[]RecordedIsReal`, `RecordsAdvance`, `[]PreviewIsCurrent` |
| `SuccessIsComplete` | `[]SuccessAccounts`, if `RowFound` is the identity |
| `KeepsLedger` | `Spec => ImplementsLedger`: `Robot` implements `RenewalLedger`, if `RowFound` is the identity |
| `SuccessRenews` | `[]SuccessIsReal`, on the same condition: a plain run that succeeds has caused a renewal of each host of its list |
| `RunsAreShort` | `[]BudgetIsBounded` and `BudgetIsSpent`: a run takes at most five steps for each host and five more |
| `AlertsComplete`, `OutageShows` | `[]AlertsExact`, `[]HealthTellsOutage`, for any number of processes |
| `RecoveriesTold` | `RecoveryTold`, if all processes but one skip their initial run (`Sole`) |
| `AlwaysScheduled`, `ScheduleKept`, `ChecksCome` | `[]NeverOrphaned`, `[]ScheduleDurable`, `[]ChecksKeepComing`, for a process that is `Undisturbed` |
| `RetriesWait` | `[]BackoffRespected`, for a process alone, not in dry-run mode, whose retries fit the cap (`Retries`) |
| `ImplementsApp` | `CalendarSpec => Spec`, if `RenewalDays` is `Nat` |
| `ChecksLeaveRoom` | `[]CheckLeavesRoom`, for a process alone and estimates that are off by no more than a window (`ErrorsWithin`) |
| `TypeCorrect`, `OutcomesAreOwn`, `StatusIsCurrent` of `NotificationsProofs` | `[]TypeOK`, `[]OutcomeIsOwn`, `[]StatusTellsLast` |
| `TypeCorrect`, `CodesReadOnce`, `OwnMailPrevails` of `VerificationCodeProofs` | `[]TypeOK`, `[]CodeReadOnce`, `[]OwnMailWins` |
| `TypeCorrect` of `StateStoreProofs` | `[]TypeOK` of `StateStore` |
| `EveryUpdateCounts` | `[]AnswersCount`: an update that returned is in the document once, at the place its answer names; one that raised is not |
| `LocksAreReturned` | `[](LocksReturned /\ SomeoneGoesOn)`: no lock is left behind, and the two never wait for each other |
| `UpdatesAreShort` | `UpdateIsSpent`: seven steps at most from the first lock on |
| `CallsAreShort` | `CallIsSpent` of `RenewalApp`: nine steps at most from a start or a due job to the end of the call |
| `RunsRearm` | `RunsRearmed`: who comes back from a run to serve has a job, unless the failure could not be counted |
| `NobodyIsHeldUp` | `[]NobodyBlocks` and `CallIsSpent` of `Notifications` |
| `WaitsAreLimited` | `DeadlineHolds`: two steps at most once the 120 seconds are over, or a search that is not answered |

*The argument.* `TypeOK` is inductive, given the ranges of the arithmetic
(`SchedulingProofs`): `RetryDelayFloor` (a retry is in the future),
`DaysUntilCheckRange`, `NextCheckRange`, `RestoredCheckRange`. `LockInv` is inductive
by itself: every action that enters or leaves the locked phases moves the
lock. `CountIsCurrent` rests on it: only a process in a locked phase changes
`failures`, so the count in a failing run's hands cannot grow stale.
`AlertOnce` rests on both: the count mailed is the document's, and the document
has just been counted past everything mailed before. `JobWithinCap` is not
inductive, for a restored date becomes a job one step after it was capped;
`CapInv` adds that the date held between these steps is within the cap too.
It also needs `RetryFitsCap`, an assumption about constants: the longest retry,
jitter included, fits into the cap and the slot. The program's longest retry is
24 hours and 10 percent of jitter, 26.4 hours; with a cap of two days or more it
fits, with `MAX_CHECK_INTERVAL_DAYS=1` only because the check slot adds at
least five and a half hours to the day.
For `StateStore` the inductive invariant `Inv` says who holds which lock in which phase,
that only the holder of the flock has a loaded state and that it then equals
the contents followed by its own update, and what each temporary file holds;
the refinement then maps `Replace` to the commit, `Exit` and the failures to the
returns, and everything else to a stutter.
For `StatusLogin` the first four rest on `BooksInv`: the challenge is installed,
unused and has attempts left; a request that is not installed has neither
guesses nor sessions; attempts and guesses add up; the expiry is the drawing plus
the time to live. `PromisesKept` adds `TimingInv`: a request in flight holds the
last resend slot and the newest code, so that with a quick mailer there is one at
a time; with it `PromisedCodeWorks` is inductive.
For `Robot` the invariant `RecordInv` has three parts besides the property. `DatesInv`:
no click, touch or record is later than the run, none is newer than the site.
`PageInv`: a row is never behind the document, a reply brings a touch of this run that
is news to both. `WorkInv`: while a host is in hand, its row is missing, or still the
stamp read before the click, or a touch of this run; so a changed row is a real
renewal. The same three give that no record is taken back. `PreviewInv` needs
`DatesInv` for the clicks of earlier runs that are still on their way; `ProgressInv`
says which part of the list is done at each point of the loop.

*The refinements.* A step of the detailed module is shown to be a step of the abstract one or
a stutter, action by action, under the inductive invariants above. For `KeepsCode` these are
`TypeOK` and `BooksInv`; the one delicate step is `Install`, whose code goes on offer while the one
before it goes, and `Restart`, which withdraws the code on offer and those in the mail at once.
For `KeepsLedger` they are those of the other theorems and two more: that the list is empty until it is
made and a host in hand is not visited again (`ListInv`), and that neither it nor a host still to be
visited has an entry of this run (`OnceInv`), so that `Confirm` enters it once.
`Confirm` is also where the page meets the ledger: the stamp that the page shows is that of a
touch of this run, by `WorkInv`, and not older than the entry, by `PageInv`. With `RowFound`
not the identity the ledger is not kept: the preview of a dry run may be another list.
`SuccessRenews` follows from `SuccessIsComplete` and `RecordsAreReal`; it is what `RenewAll` of
`RenewalCalendar` takes a success for, so that module's one step is justified by this one's many.
`EveryUpdateCounts` says of the document itself what the answers of `AtomicDocument` stand for:
its updates are different, and the answer of each is its place (`PlacesInv`).

*What ends.* The prover has no liveness under fairness, but what the liveness properties
rest on is safety, and proved. Each of `RunsAreShort`, `CallsAreShort`, `UpdatesAreShort`,
`NobodyIsHeldUp` and `WaitsAreLimited` names a number of steps that are left, shows that each step
of the thread in question lowers it, and that nobody else's step raises it: not a lost click or a late
reply, not another process, crash, interrupt or error, not the mail that keeps coming.
`LocksAreReturned` and `NobodyBlocks` add that waiting is never in a circle: whoever waits for a lock or a
queue waits for somebody who can go on. The run of the robot counts as one step of a call, the login
as one of a run, and a search as one of a wait for a code: these may last for ever.
What is left to TLC is that a thread that can go
on does (fairness), and that its guards then let it (ENABLED).
`RunsRearm` is the part of `WorkRearms` that holds in every configuration. Its invariant is
that the job is there when a call is about to return (`ArmedInv`): both branches give the
date to the scheduler before they write it, so that an error of the file at that point
leaves the job; only an error before it, while the failure is counted, does not.

For the properties of `RenewalApp` that hold in particular configurations, the proofs
first state what each action does to the process that takes it (`StartShape`,
`BootLoadShape` and so on: phase, job, locals, document, and that the others are left alone), and
the invariants then follow case by case. `AlertsComplete` and `OutageShows` rest on `TellInv`
and `OutageInv`: the mails are those of the policy up to the count, but for the one that the holder of
the lock is about to send; an outage is in `last_error` unless a run is at work.
`RecoveriesTold` needs that a process with SKIP_INITIAL_RUN never has a job (`SkipInv`), so
that the one left is the only one to count failures between the load and the success: what it has
read is what it erases (`RecoveryInv`). That the erased count is still there in every phase up to the mail
or the alert, and is given up early only with the process or by an error of the file, is `EndedInv`.
`AlarmInv` is the reason why a lone process always has a job: from the moment a run has
added it, or a restart is going to, the date is in the document, in memory if the process
serves, and not overdue; `IntervalInv` adds that it is within the cap and the slot of
the last run's end. `Undisturbed` is what they need: no failing access of the file, no sleeping
host, nobody else on the volume; crashes are allowed but in `ChecksKeepComing`. `BackoffInv`
says that while a retry is pending everything that could start a run (the job, the document's next
check, the date a restart is about to restore, a run that is past its start) waits for it; the cap applied
at a restart must not undercut it, hence the condition on the delays.

`ImplementsApp` maps each step of the calendar to the step of `RenewalApp` it contains; with
any number of days allowed there, it only has to be shown that `next_renewal` is a natural
number. `ChecksLeaveRoom` is by `RoomInv`: as long as nothing crashed or failed, every
date that can become a job leaves each living host its room: the job, the document's date, the
one about to be restored, and, after a run (`Planned`), whatever fallback and slot may be
drawn. `RunPlans` is the arithmetic: after a run no host is in its window, so the least of
the days is at most what any known host has left, rounded up (`NextRenewalBounds`), and a delay
of more than a day ends a window before it (`DelayEndsBeforeWindow`).

For `Notifications` the invariant behind `OutcomesAreOwn` is that a worker belongs to one caller
at a time and that a queue holds nothing but its worker's answer. For `VerificationCode` it
is that a code submitted before is neither in transit nor unread, and that the codes in transit,
in the mailbox and in hand are distinct (`MailInv`); for `OwnMailPrevails`, that the mailbox is empty while
a challenge waits and nothing has come, and ends with the challenge's own code once that has (`OwnInv`).

*Only model-checked*: liveness (`CallsEnd`, `LockComesFree`, `WorkRearms`, `UpdatesEnd`,
`RunEnds`, `SendsEnd`, `WorkersEnd`, `LoginEnds`), which the prover does not handle under
fairness or with ENABLED; the safety halves named above are proved. Every invariant and every action property of a passing run is
the subject of a theorem. No recursion over data is proved; the modules with theorems have no
RECURSIVE operator.

## 6. Not modelled

Wording and layout of mails and pages; the HTML contracts (a parser whose only
effect is to make a run fail); version, logging, markdown and address helpers;
release scripts, templates and container files. The status server but for its code:
session cookies, CSRF tokens, the bearer token, the pages. The SMTP and IMAP dialogues, the queue
of `GMailWorker`, and whether a mail that was handed over arrives. The formats that
`parse_data_update` knows (a set of hosts stands for those it does not). In `Robot`: a host
that is deleted at No-IP, screenshots, and the browser process (`quit` is in a `finally`; that a raise of `record_run_started`, outside the
`try`, leaves it running is listed as a hazard). Power loss between the fsync
of the file and that of its directory. A clock that is set back. Exceptions of
the run lock's file itself (an unwritable directory).

## 7. Plan

Done: `Scheduling`, `StateDocument`, `RenewalApp`, `StateStore`, `StatusLogin`, `Robot`,
`Notifications`, `RenewalCalendar`, `VerificationCode`, their runs, a theorem for
every safety property they check, three refinements of an abstract specification
(`AtomicDocument`, `OneTimeCode`, `RenewalLedger`), and the safety half of every liveness property.

Left: an abstract mailbox that `VerificationCode` implements while mail comes in time;
that the mutations of `StateDocument`, applied through `StateStore`, are the writes of
`RenewalApp` (so far the writes are atomic there because `Refinement` says they may be); the sessions of the
status server.
