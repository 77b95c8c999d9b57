-------------------------------- MODULE Robot --------------------------------
(***************************************************************************)
(* A renewal run of noip_renew/noip_renew.py, host by host: what the robot  *)
(* reads off the hosts page, what it clicks, and what it writes to          *)
(* state.json, over any number of runs.  The run lock admits one run at a   *)
(* time (module RenewalApp), so there is one robot.                         *)
(*                                                                          *)
(* No-IP and the browser are the environment.  The site knows each host's   *)
(* data-update stamp and whether a renewal is due; the page is a copy that  *)
(* is only refreshed, control and row separately, by the reply to a click.  *)
(* A click may be lost, may be served after its run has ended, and may      *)
(* raise after it was sent.  A stamp is the number of the host's renewal.   *)
(***************************************************************************)
EXTENDS Integers, FiniteSets

CONSTANTS
  Hosts,      \* the hostnames of the account, which also stand for their ids
  NoHost,     \* no host is being renewed
  RowFound,   \* the host whose row _get_host_row finds for the id of another
  MaxStamp,   \* bound: the site starts no further cycle of a host from this one
  MaxRuns     \* bound: number of runs

ASSUME HostAssumption == NoHost \notin Hosts /\ IsFiniteSet(Hosts)
ASSUME RowAssumption == RowFound \in [Hosts -> Hosts]
ASSUME LimitAssumption == MaxStamp \in [Hosts -> Nat] /\ MaxRuns \in Nat

NoStamp == 0    \* a row that is missing, a field that was never written

VARIABLES
  \* No-IP
  site,         \* data-update and due renewals, as the site knows them
  pending,      \* clicks on their way to the site, by run and attempt
  touches,      \* history: the renewals that clicks of the robot have caused
  \* the browser
  page,         \* rows and confirm controls on display, replies on their way
  \* the robot
  run,          \* number of the last run, which also stands for its time
  phase,        \* the step of the run, or how the last one ended
  hosts,        \* self.hosts: the hosts with a confirm control
  todo,         \* those of them the loop has yet to visit
  current,      \* host_id
  attempt,      \* attempt
  before,       \* before_update
  after,        \* after_update
  wouldUpdate,  \* self.wouldUpdateHosts
  \* state.json
  dry,          \* dry_run, equal to the robot's own flag during a run
  would,        \* would_renew
  stored        \* hosts

siteVars == <<site, pending, touches>>
loopVars == <<hosts, todo, current, attempt, before, after, wouldUpdate>>
docVars  == <<dry, would, stored>>
vars == <<site, pending, touches, page, run, phase, loopVars, docVars>>

Resting == {"idle", "failed", "succeeded"}
Phase == Resting \union
  {"login", "listing", "hosts", "clicking", "verifying", "refreshing", "naming", "closing"}

Stored == [dataUpdate : Nat, previousDataUpdate : Nat, lastVerifiedRenewal : Nat]

TypeOK ==
  /\ site \in [Hosts -> [stamp : Nat \ {0}, due : BOOLEAN]]
  /\ pending \in [Hosts -> SUBSET (Nat \X {1, 2})]
  /\ touches \subseteq [host : Hosts, run : Nat, stamp : Nat]
  /\ page \in [Hosts -> [row : Nat, button : BOOLEAN, reply : SUBSET Nat]]
  /\ run \in Nat
  /\ phase \in Phase
  /\ hosts \subseteq Hosts /\ todo \subseteq hosts
  /\ current \in Hosts \union {NoHost}
  /\ phase \in {"clicking", "verifying", "refreshing"} => current \in hosts
  /\ attempt \in {1, 2}
  /\ before \in Nat /\ after \in Nat
  /\ wouldUpdate \subseteq Hosts
  /\ dry \in BOOLEAN
  /\ would \subseteq Hosts
  /\ stored \in [Hosts -> Stored]

NoPage == [h \in Hosts |-> [row |-> NoStamp, button |-> FALSE, reply |-> {}]]

Init ==
  /\ site \in [Hosts -> [stamp : {1}, due : BOOLEAN]]
  /\ pending = [h \in Hosts |-> {}]
  /\ touches = {}
  /\ page = NoPage
  /\ run = 0 /\ phase = "idle"
  /\ hosts = {} /\ todo = {} /\ current = NoHost /\ attempt = 1
  /\ before = NoStamp /\ after = NoStamp
  /\ wouldUpdate = {}
  /\ dry = FALSE /\ would = {}
  /\ stored = [h \in Hosts |->
       [dataUpdate |-> NoStamp, previousDataUpdate |-> NoStamp, lastVerifiedRenewal |-> 0]]

(***************************************************************************)
(* What the robot reads off the page.                                       *)
(***************************************************************************)

\* get_hosts: the hosts whose confirm control is on display.
ConfirmButtons == {h \in Hosts : page[h].button}

\* get_host_name: the name on the row that is found for the id.
HostName(h) == RowFound[h]

\* _get_data_update: the stamp on the row that is found for the id.
DataUpdate(h) == page[RowFound[h]].row

\* get_host_inventory: the rows on display, by the name that each one bears.
Inventory == {h \in Hosts : page[h].row # NoStamp}

(***************************************************************************)
(* state.json.                                                              *)
(***************************************************************************)

\* Variant: the hosts of the document are replaced by the inventory.
RecordInventoryAfresh ==
  stored' = [h \in Hosts |->
    [dataUpdate |-> page[h].row, previousDataUpdate |-> NoStamp, lastVerifiedRenewal |-> 0]]

RecordInventory ==
  stored' = [h \in Hosts |->
    IF h \in Inventory THEN [stored[h] EXCEPT !.dataUpdate = page[h].row] ELSE stored[h]]

RecordHost(h) ==
  stored' = [stored EXCEPT ![h] =
    [dataUpdate |-> after, previousDataUpdate |-> before, lastVerifiedRenewal |-> run]]

(***************************************************************************)
(* The run.                                                                 *)
(***************************************************************************)

\* The robot and its browser are gone; hosts is kept for the caller's mail.
EndRun(outcome) ==
  /\ phase' = outcome
  /\ page' = NoPage
  /\ todo' = {} /\ current' = NoHost /\ attempt' = 1
  /\ before' = NoStamp /\ after' = NoStamp
  /\ wouldUpdate' = {}
  /\ UNCHANGED hosts

\* Variant: the preview of the last dry run stays until there is a new one.
BeginKeepingPreview(dryRun) ==
  /\ phase \in Resting /\ run < MaxRuns
  /\ run' = run + 1 /\ phase' = "login"
  /\ dry' = dryRun
  /\ hosts' = {} /\ todo' = {}
  /\ UNCHANGED <<siteVars, page, current, attempt, before, after, wouldUpdate, would, stored>>

\* Robot.__init__ and record_run_started.
Begin(dryRun) ==
  /\ phase \in Resting /\ run < MaxRuns
  /\ run' = run + 1 /\ phase' = "login"
  /\ dry' = dryRun /\ would' = {}
  /\ hosts' = {} /\ todo' = {}
  /\ UNCHANGED <<siteVars, page, current, attempt, before, after, wouldUpdate, stored>>

\* login and open_hosts_page; every way they fail is an Abort.
OpenHostsPage ==
  /\ phase = "login"
  /\ phase' = "listing"
  /\ page' = [h \in Hosts |->
       [row |-> site[h].stamp, button |-> site[h].due, reply |-> {}]]
  /\ UNCHANGED <<siteVars, run, loopVars, docVars>>

ListHosts ==
  /\ phase = "listing"
  /\ phase' = "hosts"
  /\ RecordInventory
  /\ hosts' = ConfirmButtons
  /\ todo' = hosts'
  /\ UNCHANGED <<siteVars, page, run, current, attempt, before, after, wouldUpdate, dry, would>>

\* A dry run goes through the list without leaving the loop's first branch.
NameHosts ==
  /\ phase = "hosts" /\ dry /\ todo # {}
  /\ wouldUpdate' = wouldUpdate \union {HostName(h) : h \in todo}
  /\ todo' = {}
  /\ UNCHANGED <<siteVars, page, run, phase, hosts, current, attempt, before, after, docVars>>

\* update_host: the stamp is read before the click; that its row is missing ends
\* the run.  The order of the buttons on the page is not known.
ReadBefore(h) ==
  /\ phase = "hosts" /\ ~ dry /\ h \in todo
  /\ IF DataUpdate(h) = NoStamp THEN EndRun("failed")
     ELSE /\ phase' = "clicking"
          /\ todo' = todo \ {h}
          /\ current' = h /\ attempt' = 1
          /\ before' = DataUpdate(h)
          /\ UNCHANGED <<page, hosts, after, wouldUpdate>>
  /\ UNCHANGED <<siteVars, run, docVars>>

Send == pending' = [pending EXCEPT ![current] = @ \union {<<run, attempt>>}]

Click ==
  /\ phase = "clicking" /\ page[current].button
  /\ phase' = "verifying"
  /\ Send
  /\ UNCHANGED <<site, touches, page, run, loopVars, docVars>>

\* Variant: the attempts are not counted.
ClickRaisesForEver ==
  /\ phase = "clicking"
  /\ \/ UNCHANGED pending
     \/ page[current].button /\ Send
  /\ UNCHANGED <<site, touches, page, run, phase, loopVars, docVars>>

\* The control is missing, stale or not clickable, or the driver's answer times
\* out when the click has been sent: one more attempt.
ClickRaises ==
  /\ phase = "clicking"
  /\ \/ UNCHANGED pending
     \/ page[current].button /\ Send
  /\ IF attempt = 1
       THEN attempt' = 2
            /\ UNCHANGED <<page, phase, hosts, todo, current, before, after, wouldUpdate>>
       ELSE EndRun("failed")
  /\ UNCHANGED <<site, touches, run, docVars>>

\* Variant: that the control is gone is taken for a renewal.
RenewalIsVerifiedByControl(button, old, new) == ~ button /\ new # NoStamp

RenewalIsVerified(button, old, new) == ~ button /\ new # NoStamp /\ new # old

Verify ==
  /\ phase = "verifying"
  /\ after' = DataUpdate(current)
  /\ RenewalIsVerified(page[current].button, before, after')
  /\ phase' = "refreshing"
  /\ UNCHANGED <<siteVars, page, run, hosts, todo, current, attempt, before, wouldUpdate, docVars>>

\* Variant: the failure is logged and the next host tried.
GiveUpOnHost ==
  /\ phase = "verifying"
  /\ phase' = "hosts"
  /\ UNCHANGED <<siteVars, page, run, loopVars, docVars>>

\* The 20 seconds of the verification are over.
GiveUp ==
  /\ phase = "verifying"
  /\ EndRun("failed")
  /\ UNCHANGED <<siteVars, run, docVars>>

\* The refreshed inventory must still hold the verified stamp.
Confirm ==
  /\ phase = "refreshing"
  /\ page[HostName(current)].row = after
  /\ phase' = "hosts"
  /\ RecordHost(HostName(current))
  /\ UNCHANGED <<siteVars, page, run, loopVars, dry, would>>

Mismatch ==
  /\ phase = "refreshing"
  /\ page[HostName(current)].row # after
  /\ EndRun("failed")
  /\ UNCHANGED <<siteVars, run, docVars>>

RefreshInventory ==
  /\ phase = "hosts" /\ todo = {}
  /\ phase' = "naming"
  /\ RecordInventory
  /\ UNCHANGED <<siteVars, page, run, loopVars, dry, would>>

RecordWouldRenew ==
  /\ phase = "naming"
  /\ phase' = "closing"
  /\ would' = wouldUpdate
  /\ UNCHANGED <<siteVars, page, run, loopVars, dry, stored>>

\* record_success and the browser's end.
Succeed ==
  /\ phase = "closing"
  /\ EndRun("succeeded")
  /\ UNCHANGED <<siteVars, run, docVars>>

\* Any call of the browser, the mailbox or the store raises, or the process dies.
Abort ==
  /\ phase \notin Resting
  /\ EndRun("failed")
  /\ UNCHANGED <<siteVars, run, docVars>>

Step ==
  \/ OpenHostsPage \/ ListHosts \/ NameHosts
  \/ \E h \in Hosts : ReadBefore(h)
  \/ Click \/ ClickRaises \/ Verify \/ GiveUp \/ Confirm \/ Mismatch
  \/ RefreshInventory \/ RecordWouldRenew \/ Succeed

(***************************************************************************)
(* No-IP and the browser.                                                   *)
(***************************************************************************)

\* The site renews the host.  Only the page that sent the click gets a reply.
Serve(h, click) ==
  /\ click \in pending[h]
  /\ pending' = [pending EXCEPT ![h] = @ \ {click}]
  /\ site' = [site EXCEPT ![h] = [stamp |-> @.stamp + 1, due |-> FALSE]]
  /\ touches' = touches \union {[host |-> h, run |-> click[1], stamp |-> site[h].stamp + 1]}
  /\ page' = IF click[1] = run /\ phase \notin Resting
             THEN [page EXCEPT ![h].reply = @ \union {site[h].stamp + 1}]
             ELSE page
  /\ UNCHANGED <<run, phase, loopVars, docVars>>

Lose(h, click) ==
  /\ click \in pending[h]
  /\ pending' = [pending EXCEPT ![h] = @ \ {click}]
  /\ UNCHANGED <<site, touches, page, run, phase, loopVars, docVars>>

Displays(newPage) ==
  /\ page' = newPage
  /\ UNCHANGED <<siteVars, run, phase, loopVars, docVars>>

\* A click that was served takes the control away, before or after its reply
\* replaces the row; the row may be missing in between.  Replies are displayed
\* in their order.
ControlGoes(h) ==
  /\ page[h].button /\ \E t \in touches : t.host = h /\ t.run = run
  /\ Displays([page EXCEPT ![h].button = FALSE])

RowGoes(h) ==
  /\ page[h].row # NoStamp /\ page[h].reply # {}
  /\ Displays([page EXCEPT ![h].row = NoStamp])

RowComes(h, stamp) ==
  /\ stamp \in page[h].reply /\ \A s \in page[h].reply : stamp <= s
  /\ Displays([page EXCEPT ![h].row = stamp, ![h].reply = @ \ {stamp}])

OwnerRenews(h) ==
  /\ site[h].due /\ site[h].stamp < MaxStamp[h]
  /\ site' = [site EXCEPT ![h] = [stamp |-> @.stamp + 1, due |-> FALSE]]
  /\ UNCHANGED <<pending, touches, page, run, phase, loopVars, docVars>>

\* Another month has passed.
Expire(h) ==
  /\ ~ site[h].due /\ site[h].stamp < MaxStamp[h]
  /\ site' = [site EXCEPT ![h].due = TRUE]
  /\ UNCHANGED <<pending, touches, page, run, phase, loopVars, docVars>>

Environment ==
  \E h \in Hosts :
    \/ \E click \in pending[h] : Serve(h, click) \/ Lose(h, click)
    \/ ControlGoes(h) \/ RowGoes(h) \/ OwnerRenews(h) \/ Expire(h)
    \/ \E stamp \in page[h].reply : RowComes(h, stamp)

Next == (\E dryRun \in BOOLEAN : Begin(dryRun)) \/ Step \/ Abort \/ Environment

\* Every wait of a run that has logged in has a limit of its own: 5, 10, 15 and 20
\* seconds for the page, 90 for a page load.  A login need not end, for in the middle
\* of it the mailbox is read over IMAP connections that have no timeout.
Fairness == WF_vars(Step /\ phase # "login")

Spec == Init /\ [][Next]_vars /\ Fairness

(***************************************************************************)
(* Properties.                                                              *)
(***************************************************************************)

\* README: "A hostname is only recorded as renewed after its confirmation control
\* disappears and its data-update attribute changes."  What is recorded of a run
\* is a renewal that a click of that run has caused, whichever replies and owners
\* came between, and lies between the two stamps on record.
RecordedIsReal ==
  \A h \in Hosts :
    LET record == stored[h] IN
    record.lastVerifiedRenewal > 0 =>
      \E t \in touches :
        /\ t.host = h /\ t.run = record.lastVerifiedRenewal
        /\ record.previousDataUpdate < t.stamp /\ t.stamp <= record.dataUpdate

\* A later inventory, a failed run or a run that renews other hosts never takes
\* the record of a host back.
RecordsAdvance ==
  [][\A h \in Hosts :
       /\ stored'[h].dataUpdate >= stored[h].dataUpdate
       /\ stored'[h].lastVerifiedRenewal >= stored[h].lastVerifiedRenewal]_vars

\* A run that succeeded has dealt with every host that had a confirm control: it
\* is on record as renewed in this run or, in a dry run, named in would_renew.
SuccessAccounts ==
  phase = "succeeded" =>
    IF dry THEN would = hosts
           ELSE \A h \in hosts : stored[h].lastVerifiedRenewal = run

\* README: "a true dry-run mode that never clicks a renewal control".  The preview
\* on the status page belongs to the last run, and that run was a dry one and has
\* no click, served or on its way.
PreviewIsCurrent ==
  /\ would # {} => dry
  /\ dry => /\ \A t \in touches : t.run # run
            /\ \A h \in Hosts : \A click \in pending[h] : click[1] # run

\* The state of RenewalLedger that a state of this module stands for.
Ledger == INSTANCE RenewalLedger WITH
  stamp   <- [h \in Hosts |-> site[h].stamp],
  caused  <- touches,
  state   <- IF phase \in Resting THEN phase ELSE "open",
  listed  <- hosts,
  entry   <- stored,
  preview <- would

\* The runs keep the ledger: whatever the page shows, when and in which order, what
\* they write is what a robot with a full view of No-IP could have written.
ImplementsLedger == Ledger!Spec

\* Every run ends that does not hang in its login: no retry and no other wait is
\* without limit, whatever clicks are lost, late or refused.
RunEnds == <>[](phase = "login") \/ (phase \notin Resting ~> phase \in Resting)

=============================================================================
