----------------------------- MODULE RobotProofs -----------------------------
(***************************************************************************)
(* Theorems about Robot: what is recorded as renewed was renewed, records   *)
(* only advance, a dry run touches nothing, and a run that succeeded has    *)
(* dealt with all it listed; for any hosts, bounds and number of runs.      *)
(***************************************************************************)
EXTENDS Robot, FiniteSetTheorems, TLAPS

Working == {"clicking", "verifying", "refreshing"}

\* Nothing is dated later than the run in progress, which sends no click before
\* it has logged in, and no renewal is newer than the site.
DatesInv ==
  /\ phase = "login" => \A h \in Hosts : \A click \in pending[h] : click[1] # run
  /\ \A h \in Hosts : \A click \in pending[h] : click[1] <= run
  /\ \A t \in touches : t.run <= run /\ t.stamp <= site[t.host].stamp
  /\ \A h \in Hosts : stored[h].lastVerifiedRenewal <= run
  /\ \A h \in Hosts : stored[h].dataUpdate <= site[h].stamp

\* The page is never behind the document, and a reply brings a renewal of this
\* run that is news to both.
PageInv ==
  /\ phase \in Resting \union {"login"} => page = NoPage
  /\ \A h \in Hosts :
       /\ page[h].row <= site[h].stamp
       /\ page[h].row # NoStamp => stored[h].dataUpdate <= page[h].row
       /\ \A s \in page[h].reply :
            /\ [host |-> h, run |-> run, stamp |-> s] \in touches
            /\ page[h].row < s /\ stored[h].dataUpdate < s

\* While a host is being renewed its row shows the stamp that was read before the
\* click or one that a click of this run has caused.
WorkInv ==
  phase \in Working =>
    LET name == RowFound[current] IN
    /\ before <= site[name].stamp
    /\ \A s \in page[name].reply : before < s
    /\ page[name].row \notin {NoStamp, before} =>
         /\ before < page[name].row
         /\ [host |-> name, run |-> run, stamp |-> page[name].row] \in touches
    /\ phase = "refreshing" =>
         /\ before < after
         /\ [host |-> name, run |-> run, stamp |-> after] \in touches

RecordInv == DatesInv /\ PageInv /\ WorkInv /\ RecordedIsReal

\* A dry run never gets as far as a click, and only a dry run makes a preview.
PreviewInv ==
  /\ phase \in Working => ~ dry
  /\ wouldUpdate # {} => dry
  /\ phase \in Resting \union {"login", "listing"} => wouldUpdate = {}
  /\ PreviewIsCurrent

\* The hosts of the list that the run has dealt with: in a plain run they are on
\* record, the one in hand excepted; in a dry run they are on the robot's list.
ProgressInv ==
  /\ phase \in {"hosts"} \union Working =>
       IF dry THEN wouldUpdate = hosts \ todo
       ELSE \A h \in hosts \ todo :
              \/ stored[h].lastVerifiedRenewal = run
              \/ phase \in Working /\ h = current
  /\ phase \in {"naming", "closing"} =>
       IF dry THEN wouldUpdate = hosts
       ELSE \A h \in hosts : stored[h].lastVerifiedRenewal = run
  /\ phase = "closing" /\ dry => would = hosts
  /\ SuccessAccounts

(***************************************************************************)
(* How a step moves the run on.                                             *)
(***************************************************************************)

\* The run ends without success.
Fails == phase \notin Resting /\ EndRun("failed") /\ UNCHANGED <<siteVars, run, docVars>>

\* update_host finds the row of the host.
Reads(h) ==
  /\ phase = "hosts" /\ ~ dry /\ h \in todo
  /\ DataUpdate(h) # NoStamp
  /\ phase' = "clicking"
  /\ todo' = todo \ {h} /\ current' = h /\ attempt' = 1
  /\ before' = DataUpdate(h)
  /\ UNCHANGED <<siteVars, page, run, hosts, after, wouldUpdate, docVars>>

LEMMA FailShape == GiveUp \/ Mismatch \/ Abort => Fails
BY DEF GiveUp, Mismatch, Abort, Fails, Resting

LEMMA ReadShape ==
  ASSUME NEW h \in Hosts, ReadBefore(h)
  PROVE  Fails \/ Reads(h)
BY DEF ReadBefore, Fails, Reads, Resting

\* What the actions of Next amount to.
LEMMA NextShape ==
  ASSUME [Next]_vars
  PROVE  \/ \E dryRun \in BOOLEAN : Begin(dryRun)
         \/ OpenHostsPage \/ ListHosts \/ NameHosts
         \/ \E h \in Hosts : Reads(h)
         \/ Click \/ ClickRaises \/ Verify \/ Confirm
         \/ RefreshInventory \/ RecordWouldRenew \/ Succeed \/ Fails
         \/ Environment \/ UNCHANGED vars
BY FailShape, ReadShape DEF Next, Step

(***************************************************************************)
(* Types.                                                                   *)
(***************************************************************************)

Pages == [Hosts -> [row : Nat, button : BOOLEAN, reply : SUBSET Nat]]
Sites == [Hosts -> [stamp : Nat \ {0}, due : BOOLEAN]]

\* The page of a browser that is gone is a page.
LEMMA NoPageType == NoPage \in Pages
<1>1. [row |-> 0, button |-> FALSE, reply |-> {}]
        \in [row : Nat, button : BOOLEAN, reply : SUBSET Nat]
  OBVIOUS
<1> QED
  BY <1>1 DEF NoPage, Pages, NoStamp

\* A renewal of one host leaves a site.
LEMMA SiteType ==
  ASSUME site \in Sites, NEW h \in Hosts, NEW due \in BOOLEAN, NEW s \in Nat \ {0}
  PROVE  /\ [site EXCEPT ![h] = [stamp |-> s, due |-> due]] \in Sites
         /\ [site EXCEPT ![h].due = due] \in Sites
BY DEF Sites

\* What the browser changes on display leaves a page.
LEMMA PageType ==
  ASSUME page \in Pages, NEW h \in Hosts, NEW b \in BOOLEAN, NEW row \in Nat,
         NEW reply \in SUBSET Nat
  PROVE  /\ [page EXCEPT ![h].button = b] \in Pages
         /\ [page EXCEPT ![h].row = row] \in Pages
         /\ [page EXCEPT ![h].reply = reply] \in Pages
BY DEF Pages

\* A run that ends, well or not, leaves everything typed.
LEMMA EndRunType ==
  ASSUME TypeOK, NEW outcome \in Resting, EndRun(outcome),
         UNCHANGED <<siteVars, run, docVars>>
  PROVE  TypeOK'
<1>1. page' \in Pages
  BY NoPageType DEF EndRun
<1>2. outcome \in Phase /\ outcome \notin {"clicking", "verifying", "refreshing"}
  BY DEF Phase, Resting
<1> QED
  BY <1>1, <1>2 DEF TypeOK, EndRun, NoStamp, siteVars, docVars, Pages

\* Every step keeps the types of all variables.
LEMMA TypeStep == TypeOK /\ [Next]_vars => TypeOK'
<1> SUFFICES ASSUME TypeOK, [Next]_vars
             PROVE  TypeOK'
  OBVIOUS
<1> USE DEF TypeOK, Stored, Phase, Resting, NoStamp, siteVars, loopVars, docVars
<1>1. ASSUME NEW dryRun \in BOOLEAN, Begin(dryRun)
      PROVE  TypeOK'
  BY <1>1 DEF Begin
<1>2. CASE OpenHostsPage
  BY <1>2 DEF OpenHostsPage
<1>3. CASE ListHosts
  BY <1>3 DEF ListHosts, ConfirmButtons, RecordInventory, Inventory
<1>4. CASE NameHosts
  BY <1>4, RowAssumption DEF NameHosts, HostName
<1>5. ASSUME NEW h \in Hosts, Reads(h)
      PROVE  TypeOK'
  BY <1>5, RowAssumption DEF Reads, DataUpdate
<1>6. CASE Click
  BY <1>6 DEF Click, Send
<1>7. CASE ClickRaises
  <2>1. pending' \in [Hosts -> SUBSET (Nat \X {1, 2})]
    BY <1>7 DEF ClickRaises, Send
  <2>2. CASE attempt = 1
    BY <1>7, <2>1, <2>2 DEF ClickRaises
  <2>3. CASE attempt = 2
    <3>1. EndRun("failed") /\ UNCHANGED <<site, touches, run, docVars>>
      BY <1>7, <2>3 DEF ClickRaises
    <3>2. page' \in Pages
      BY <3>1, NoPageType DEF EndRun
    <3> QED
      BY <2>1, <3>1, <3>2 DEF EndRun, Pages
  <2> QED
    BY <2>2, <2>3
<1>8. CASE Verify
  BY <1>8, RowAssumption DEF Verify, DataUpdate
<1>9. CASE Fails \/ Succeed
  <2>1. UNCHANGED <<siteVars, run, docVars>> /\ \E outcome \in Resting : EndRun(outcome)
    BY <1>9 DEF Fails, Succeed
  <2> QED
    BY <2>1, EndRunType
<1>10. CASE Confirm
  BY <1>10, RowAssumption DEF Confirm, HostName, RecordHost
<1>11. CASE RefreshInventory
  BY <1>11 DEF RefreshInventory, RecordInventory, Inventory
<1>12. CASE RecordWouldRenew
  BY <1>12 DEF RecordWouldRenew
<1>13. ASSUME NEW h \in Hosts, NEW click \in pending[h], Serve(h, click)
       PROVE  TypeOK'
  <2>1. site' \in Sites
    BY <1>13, SiteType DEF Serve, Sites
  <2>2. pending' \in [Hosts -> SUBSET (Nat \X {1, 2})] /\ click[1] \in Nat
    BY <1>13 DEF Serve
  <2>3. site[h].stamp + 1 \in Nat
    OBVIOUS
  <2>4. touches' \subseteq [host : Hosts, run : Nat, stamp : Nat]
    BY <1>13, <2>2, <2>3 DEF Serve
  <2>5. page' \in Pages
    <3>1. page \in Pages /\ page[h].reply \union {site[h].stamp + 1} \in SUBSET Nat
      BY <2>3 DEF Pages
    <3>2. page' \in {page, [page EXCEPT ![h].reply = page[h].reply \union {site[h].stamp + 1}]}
      BY <1>13 DEF Serve
    <3> HIDE DEF TypeOK
    <3> QED
      BY <3>1, <3>2, PageType
  <2> QED
    BY <1>13, <2>1, <2>2, <2>4, <2>5 DEF Serve, Sites, Pages
<1>14. ASSUME NEW h \in Hosts, NEW click \in pending[h], Lose(h, click)
       PROVE  TypeOK'
  BY <1>14 DEF Lose
<1>15. ASSUME NEW h \in Hosts, ControlGoes(h) \/ RowGoes(h)
       PROVE  TypeOK'
  <2>1. page' \in Pages
    <3>1. page \in Pages
      BY DEF Pages
    <3>2. page' = [page EXCEPT ![h].button = FALSE] \/ page' = [page EXCEPT ![h].row = 0]
      BY <1>15 DEF ControlGoes, RowGoes, Displays
    <3>3. 0 \in Nat /\ {} \in SUBSET Nat /\ FALSE \in BOOLEAN
      OBVIOUS
    <3>4. /\ [page EXCEPT ![h].button = FALSE] \in Pages
          /\ [page EXCEPT ![h].row = 0] \in Pages
      BY <3>1, <3>3 DEF Pages
    <3> QED
      BY <3>2, <3>4
  <2> QED
    BY <1>15, <2>1 DEF ControlGoes, RowGoes, Displays, Pages
<1>16. ASSUME NEW h \in Hosts, NEW stamp \in page[h].reply, RowComes(h, stamp)
       PROVE  TypeOK'
  BY <1>16 DEF RowComes, Displays
<1>17. ASSUME NEW h \in Hosts, OwnerRenews(h) \/ Expire(h)
       PROVE  TypeOK'
  <2>1. site \in Sites /\ site[h].stamp \in Nat \ {0}
    BY DEF Sites
  <2>2. CASE OwnerRenews(h)
    <3>1. site' \in Sites
      BY <2>2, SiteType DEF OwnerRenews, Sites
    <3> QED
      BY <2>2, <3>1 DEF OwnerRenews, Sites
  <2>3. CASE Expire(h)
    <3>1. site' = [site EXCEPT ![h].due = TRUE]
      BY <2>3 DEF Expire
    <3>2. TRUE \in BOOLEAN /\ 1 \in Nat \ {0}
      OBVIOUS
    <3>3. [site EXCEPT ![h].due = TRUE] \in Sites
      BY ONLY <2>1, <3>2, SiteType, h \in Hosts
    <3> QED
      BY <2>3, <3>1, <3>3 DEF Expire, Sites
  <2> QED
    BY <1>17, <2>2, <2>3
<1>18. CASE UNCHANGED vars
  BY <1>18 DEF vars
<1> QED
  BY <1>1, <1>2, <1>3, <1>4, <1>5, <1>6, <1>7, <1>8, <1>9, <1>10, <1>11, <1>12,
     <1>13, <1>14, <1>15, <1>16, <1>17, <1>18, NextShape DEF Environment

\* The robot, the page and the document keep their types, for any hosts, rows and
\* number of runs.
THEOREM TypeCorrect == Spec => []TypeOK
<1>1. Init => TypeOK
  <2> SUFFICES ASSUME Init
               PROVE  TypeOK
    OBVIOUS
  <2>1. site \in Sites
    BY DEF Init, Sites
  <2>2. page \in Pages
    BY NoPageType DEF Init
  <2>3. stored \in [Hosts -> Stored]
    BY DEF Init, Stored, NoStamp
  <2> QED
    BY <2>1, <2>2, <2>3 DEF Init, TypeOK, Sites, Pages, Phase, Resting, NoStamp
<1> QED
  BY <1>1, TypeStep, PTL DEF Spec

(***************************************************************************)
(* What is recorded.                                                        *)
(***************************************************************************)

\* The steps that end a run touch neither the site nor the document.
LEMMA EndRunShape ==
  ASSUME Fails \/ Succeed
  PROVE  /\ UNCHANGED <<siteVars, run, docVars>>
         /\ phase \notin Resting /\ phase' \in Resting /\ page' = NoPage /\ wouldUpdate' = {}
BY DEF Fails, Succeed, EndRun, Resting

\* A click is sent by the run in progress; it changes nothing but pending, unless
\* it ends the run.
LEMMA ClickShape ==
  ASSUME TypeOK, Click \/ ClickRaises
  PROVE  /\ phase = "clicking"
         /\ UNCHANGED <<site, touches, run, docVars>>
         /\ pending' = pending \/ Send
         /\ \/ /\ phase' \in {"clicking", "verifying"}
               /\ UNCHANGED <<page, hosts, todo, current, before, after, wouldUpdate>>
            \/ phase' \in Resting /\ page' = NoPage /\ wouldUpdate' = {}
BY DEF Click, ClickRaises, EndRun, Resting, loopVars, TypeOK

\* What record_inventory makes of each host.
LEMMA InventoryShape ==
  ASSUME TypeOK, RecordInventory, NEW h \in Hosts
  PROVE  /\ stored'[h].dataUpdate =
              IF page[h].row = NoStamp THEN stored[h].dataUpdate ELSE page[h].row
         /\ stored'[h].previousDataUpdate = stored[h].previousDataUpdate
         /\ stored'[h].lastVerifiedRenewal = stored[h].lastVerifiedRenewal
BY DEF TypeOK, Stored, RecordInventory, Inventory

\* Whoever renews a host, its stamp only grows.
LEMMA SiteShape ==
  ASSUME TypeOK, NEW h \in Hosts, OwnerRenews(h) \/ Expire(h)
  PROVE  /\ UNCHANGED <<pending, touches, page, run, phase, loopVars, docVars>>
         /\ \A x \in Hosts : site'[x].stamp >= site[x].stamp /\ site'[x].stamp \in Nat
<1>1. CASE OwnerRenews(h)
  BY <1>1 DEF OwnerRenews, TypeOK
<1>2. CASE Expire(h)
  <2>1. site' = [site EXCEPT ![h].due = TRUE]
    BY <1>2 DEF Expire
  <2>2. \A x \in Hosts : site'[x].stamp = site[x].stamp
    BY <2>1 DEF TypeOK
  <2> QED
    BY <1>2, <2>2 DEF Expire, TypeOK
<1> QED
  BY <1>1, <1>2

\* A reply that is displayed is the oldest one outstanding.
LEMMA RowShape ==
  ASSUME TypeOK, NEW h \in Hosts, NEW stamp \in page[h].reply, RowComes(h, stamp)
  PROVE  /\ UNCHANGED <<siteVars, run, phase, loopVars, docVars>>
         /\ page'[h].row = stamp /\ stamp \in Nat
         /\ \A s \in page'[h].reply : s \in page[h].reply /\ s > stamp
         /\ \A x \in Hosts \ {h} : page'[x] = page[x]
<1>1. /\ UNCHANGED <<siteVars, run, phase, loopVars, docVars>>
      /\ page' = [page EXCEPT ![h].row = stamp, ![h].reply = @ \ {stamp}]
      /\ \A s \in page[h].reply : stamp <= s
  BY DEF RowComes, Displays
<1>2. page[h].reply \subseteq Nat
  BY DEF TypeOK
<1>3. page'[h].reply = page[h].reply \ {stamp} /\ page'[h].row = stamp
  BY <1>1 DEF TypeOK
<1>4. \A x \in Hosts \ {h} : page'[x] = page[x]
  BY <1>1 DEF TypeOK
<1>5. ASSUME NEW s \in page'[h].reply
      PROVE  s \in page[h].reply /\ s > stamp
  <2>1. s \in page[h].reply /\ s # stamp
    BY <1>3
  <2> QED
    BY <1>1, <1>2, <2>1
<1> QED
  BY <1>1, <1>2, <1>3, <1>4, <1>5

\* DatesInv is kept: a row on display is no newer than the site.
LEMMA DatesStep == TypeOK /\ RecordInv /\ [Next]_vars => DatesInv'
<1> SUFFICES ASSUME TypeOK, RecordInv, [Next]_vars
             PROVE  DatesInv'
  OBVIOUS
<1> USE DEF RecordInv, DatesInv, siteVars, loopVars, docVars
<1>1. ASSUME NEW dryRun \in BOOLEAN, Begin(dryRun)
      PROVE  DatesInv'
  BY <1>1 DEF Begin, TypeOK, Stored
<1>2. CASE OpenHostsPage \/ NameHosts \/ Verify \/ RecordWouldRenew
  BY <1>2 DEF OpenHostsPage, NameHosts, Verify, RecordWouldRenew
<1>3. CASE ListHosts \/ RefreshInventory
  <2>1. RecordInventory /\ UNCHANGED <<siteVars, run>> /\ phase' # "login"
    BY <1>3 DEF ListHosts, ConfirmButtons, RefreshInventory
  <2>2. \A h \in Hosts : page[h].row <= site[h].stamp
    BY DEF PageInv
  <2> QED
    BY <2>1, <2>2, InventoryShape
<1>4. ASSUME NEW h \in Hosts, Reads(h)
      PROVE  DatesInv'
  BY <1>4 DEF Reads, DataUpdate
<1>5. CASE Click \/ ClickRaises
  BY <1>5, ClickShape DEF Send, TypeOK, Resting
<1>6. CASE Fails \/ Succeed
  BY <1>6, EndRunShape DEF Resting
<1>7. CASE Confirm
  <2> DEFINE name == RowFound[current]
  <2>1. name \in Hosts /\ page[name].row = after /\ after \in Nat /\ run \in Nat
    BY <1>7, RowAssumption DEF Confirm, HostName, TypeOK
  <2>2. stored' = [stored EXCEPT ![name] =
          [dataUpdate |-> after, previousDataUpdate |-> before, lastVerifiedRenewal |-> run]]
    BY <1>7 DEF Confirm, HostName, RecordHost
  <2>3. UNCHANGED <<siteVars, run>> /\ phase' = "hosts"
    BY <1>7 DEF Confirm, HostName
  <2> QED
    BY <2>1, <2>2, <2>3 DEF PageInv, TypeOK
<1>8. ASSUME NEW h \in Hosts, NEW click \in pending[h], Serve(h, click)
      PROVE  DatesInv'
  BY <1>8 DEF Serve, TypeOK, Stored
<1>9. ASSUME NEW h \in Hosts, NEW click \in pending[h], Lose(h, click)
      PROVE  DatesInv'
  BY <1>9 DEF Lose, TypeOK
<1>10. ASSUME NEW h \in Hosts,
              \/ ControlGoes(h) \/ RowGoes(h)
              \/ \E stamp \in page[h].reply : RowComes(h, stamp)
       PROVE  DatesInv'
  BY <1>10 DEF ControlGoes, RowGoes, RowComes, Displays
<1>11. ASSUME NEW h \in Hosts, OwnerRenews(h) \/ Expire(h)
       PROVE  DatesInv'
  BY <1>11, SiteShape DEF TypeOK, Stored
<1>12. CASE UNCHANGED vars
  BY <1>12 DEF vars
<1> QED
  BY <1>1, <1>2, <1>3, <1>4, <1>5, <1>6, <1>7, <1>8, <1>9, <1>10, <1>11, <1>12, NextShape
     DEF Environment

\* PageInv is kept: replies bring renewals in their order.
LEMMA PageStep == TypeOK /\ RecordInv /\ [Next]_vars => PageInv'
<1> SUFFICES ASSUME TypeOK, RecordInv, [Next]_vars
             PROVE  PageInv'
  OBVIOUS
<1> USE DEF RecordInv, PageInv, siteVars, loopVars, docVars, NoStamp
<1>0. ASSUME page' = NoPage, UNCHANGED <<site, stored>>
      PROVE  PageInv'
  BY <1>0 DEF NoPage, TypeOK
<1>1. ASSUME NEW dryRun \in BOOLEAN, Begin(dryRun)
      PROVE  PageInv'
  BY <1>0, <1>1 DEF Begin
<1>2. CASE OpenHostsPage
  BY <1>2 DEF OpenHostsPage, DatesInv, TypeOK, Resting
<1>3. CASE NameHosts \/ Verify \/ RecordWouldRenew
  BY <1>3 DEF NameHosts, Verify, RecordWouldRenew, Resting
<1>4. CASE ListHosts \/ RefreshInventory
  <2>1. RecordInventory /\ UNCHANGED <<siteVars, page, run>> /\ phase' \in {"hosts", "naming"}
    BY <1>4 DEF ListHosts, ConfirmButtons, RefreshInventory
  <2>2. ASSUME NEW h \in Hosts
        PROVE  /\ page[h].row # NoStamp => stored'[h].dataUpdate <= page[h].row
               /\ \A s \in page[h].reply : stored'[h].dataUpdate < s
    <3>1. page[h].row \in Nat
      BY DEF TypeOK
    <3>2. stored'[h].dataUpdate =
            IF page[h].row = NoStamp THEN stored[h].dataUpdate ELSE page[h].row
      BY <2>1, InventoryShape
    <3>3. CASE page[h].row = NoStamp
      BY <3>2, <3>3
    <3>4. CASE page[h].row # NoStamp
      <4>1. \A s \in page[h].reply : page[h].row < s
        OBVIOUS
      <4>2. stored'[h].dataUpdate = page[h].row
        BY <3>2, <3>4
      <4>3. stored'[h].dataUpdate <= page[h].row
        BY ONLY <3>1, <4>2
      <4> QED
        BY <4>1, <4>2, <4>3
    <3> QED
      BY <3>3, <3>4
  <2> QED
    BY <2>1, <2>2 DEF Resting
<1>5. ASSUME NEW h \in Hosts, Reads(h)
      PROVE  PageInv'
  BY <1>5 DEF Reads, DataUpdate, Resting
<1>6. CASE Click \/ ClickRaises
  <2>1. CASE page' = NoPage
    BY <1>0, <1>6, <2>1, ClickShape
  <2>2. CASE page' = page /\ phase' \in {"clicking", "verifying"}
    BY <1>6, <2>2, ClickShape DEF Resting
  <2> QED
    BY <1>6, <2>1, <2>2, ClickShape
<1>7. CASE Fails \/ Succeed
  BY <1>0, <1>7, EndRunShape
<1>8. CASE Confirm
  <2> DEFINE name == RowFound[current]
  <2>1. name \in Hosts /\ page[name].row = after /\ after \in Nat
    BY <1>8, RowAssumption DEF Confirm, HostName, TypeOK
  <2>2. stored' = [stored EXCEPT ![name] =
          [dataUpdate |-> after, previousDataUpdate |-> before, lastVerifiedRenewal |-> run]]
    BY <1>8 DEF Confirm, HostName, RecordHost
  <2>3. UNCHANGED <<siteVars, page, run>> /\ phase' = "hosts"
    BY <1>8 DEF Confirm, HostName
  <2> QED
    BY <2>1, <2>2, <2>3 DEF TypeOK, Resting
<1>9. ASSUME NEW h \in Hosts, NEW click \in pending[h], Serve(h, click)
      PROVE  PageInv'
  <2> DEFINE new == site[h].stamp + 1
  <2>1. /\ UNCHANGED <<run, phase, stored>>
        /\ site' = [site EXCEPT ![h] = [stamp |-> new, due |-> FALSE]]
        /\ touches' = touches \union {[host |-> h, run |-> click[1], stamp |-> new]}
    BY <1>9 DEF Serve
  <2>2. CASE click[1] = run /\ phase \notin Resting
    <3>1. page' = [page EXCEPT ![h].reply = @ \union {new}]
      BY <1>9, <2>2 DEF Serve
    <3>2. phase # "login"
      BY <2>2 DEF DatesInv, TypeOK
    <3> QED
      BY <2>1, <2>2, <3>1, <3>2 DEF DatesInv, TypeOK, Stored
  <2>3. CASE ~ (click[1] = run /\ phase \notin Resting)
    <3>1. page' = page
      BY <1>9, <2>3 DEF Serve
    <3> QED
      BY <2>1, <3>1 DEF TypeOK
  <2> QED
    BY <2>2, <2>3
<1>10. ASSUME NEW h \in Hosts, NEW click \in pending[h], Lose(h, click)
       PROVE  PageInv'
  BY <1>10 DEF Lose
<1>11. ASSUME NEW h \in Hosts, ControlGoes(h)
       PROVE  PageInv'
  BY <1>11 DEF ControlGoes, Displays, NoPage, TypeOK
<1>12. ASSUME NEW h \in Hosts, RowGoes(h)
       PROVE  PageInv'
  BY <1>12 DEF RowGoes, Displays, NoPage, TypeOK
<1>13. ASSUME NEW h \in Hosts, NEW stamp \in page[h].reply, RowComes(h, stamp)
       PROVE  PageInv'
  <2>1. stamp <= site[h].stamp /\ stored[h].dataUpdate < stamp
    BY DEF DatesInv
  <2>2. phase \notin Resting \union {"login"}
    BY DEF NoPage
  <2>3. ASSUME NEW s \in page'[h].reply
        PROVE  /\ [host |-> h, run |-> run, stamp |-> s] \in touches
               /\ page'[h].row < s /\ stored[h].dataUpdate < s
    BY <1>13, <2>3, RowShape
  <2>4. /\ UNCHANGED <<siteVars, run, phase, stored>> /\ page'[h].row = stamp
        /\ \A x \in Hosts \ {h} : page'[x] = page[x]
    BY <1>13, RowShape
  <2>5. stored[h].dataUpdate \in Nat /\ stamp \in Nat
    BY DEF TypeOK, Stored
  <2> QED
    BY <2>1, <2>2, <2>3, <2>4, <2>5
<1>14. ASSUME NEW h \in Hosts, OwnerRenews(h) \/ Expire(h)
       PROVE  PageInv'
  BY <1>14, SiteShape DEF TypeOK
<1>15. CASE UNCHANGED vars
  BY <1>15 DEF vars
<1> QED
  BY <1>1, <1>2, <1>3, <1>4, <1>5, <1>6, <1>7, <1>8, <1>9, <1>10, <1>11, <1>12,
     <1>13, <1>14, <1>15, NextShape DEF Environment

\* WorkInv is kept: the row of the host in hand changes by a reply only.
LEMMA WorkStep == TypeOK /\ RecordInv /\ [Next]_vars => WorkInv'
<1> SUFFICES ASSUME TypeOK, RecordInv, [Next]_vars
             PROVE  WorkInv'
  OBVIOUS
<1> USE DEF RecordInv, WorkInv, Working, siteVars, loopVars, docVars
<1>1. ASSUME NEW dryRun \in BOOLEAN, Begin(dryRun)
      PROVE  WorkInv'
  BY <1>1 DEF Begin
<1>2. CASE \/ OpenHostsPage \/ ListHosts \/ NameHosts \/ Confirm
           \/ RefreshInventory \/ RecordWouldRenew
  BY <1>2 DEF OpenHostsPage, ListHosts, NameHosts, Confirm, RefreshInventory, RecordWouldRenew
<1>3. CASE Fails \/ Succeed
  BY <1>3, EndRunShape DEF Resting
<1>4. ASSUME NEW h \in Hosts, Reads(h)
      PROVE  WorkInv'
  <2>1. RowFound[h] \in Hosts
    BY RowAssumption
  <2>2. /\ UNCHANGED <<siteVars, page, run>> /\ phase' = "clicking" /\ current' = h
        /\ before' = page[RowFound[h]].row
    BY <1>4 DEF Reads, DataUpdate
  <2> QED
    BY <2>1, <2>2 DEF PageInv
<1>5. CASE Click \/ ClickRaises
  BY <1>5, ClickShape DEF Resting
<1>6. CASE Verify
  <2>1. RowFound[current] \in Hosts
    BY <1>6, RowAssumption DEF Verify, DataUpdate, TypeOK
  <2>2. /\ UNCHANGED <<siteVars, page, run, current, before>>
        /\ phase = "verifying" /\ phase' = "refreshing"
        /\ after' = page[RowFound[current]].row
        /\ after' \notin {NoStamp, before}
    BY <1>6 DEF Verify, DataUpdate, RenewalIsVerified
  <2> QED
    BY <2>1, <2>2
<1>7. ASSUME NEW h \in Hosts, NEW click \in pending[h], Serve(h, click)
      PROVE  WorkInv'
  <2> DEFINE new == site[h].stamp + 1
             name == RowFound[current]
  <2> SUFFICES ASSUME phase \in Working
               PROVE  WorkInv'
    BY <1>7 DEF Serve
  <2>1. name \in Hosts /\ new \in Nat /\ before \in Nat
    BY RowAssumption DEF TypeOK
  <2>2. /\ UNCHANGED <<run, phase, current, before, after>>
        /\ touches \subseteq touches'
    BY <1>7 DEF Serve
  <2>3. \A x \in Hosts : site'[x].stamp = IF x = h THEN new ELSE site[x].stamp
    BY <1>7 DEF Serve, TypeOK
  <2>4. /\ page'[name].row = page[name].row
        /\ \A s \in page'[name].reply : s \in page[name].reply \/ (name = h /\ s = new)
    <3>1. page' = page \/ page' = [page EXCEPT ![h].reply = @ \union {new}]
      BY <1>7 DEF Serve
    <3> QED
      BY <2>1, <3>1 DEF TypeOK
  <2>5. before <= site'[name].stamp /\ (name = h => before < new)
    BY <2>1, <2>3 DEF TypeOK
  <2> QED
    BY <2>2, <2>4, <2>5
<1>8. ASSUME NEW h \in Hosts, NEW click \in pending[h], Lose(h, click)
      PROVE  WorkInv'
  BY <1>8 DEF Lose
<1>9. ASSUME NEW h \in Hosts, ControlGoes(h) \/ RowGoes(h)
      PROVE  WorkInv'
  <2> SUFFICES ASSUME phase \in Working
               PROVE  WorkInv'
    BY <1>9 DEF ControlGoes, RowGoes, Displays
  <2>1. RowFound[current] \in Hosts
    BY RowAssumption DEF TypeOK
  <2>2. \A x \in Hosts : page'[x].reply = page[x].reply /\ page'[x].row \in {page[x].row, NoStamp}
    <3>1. \/ page' = [page EXCEPT ![h].button = FALSE]
          \/ page' = [page EXCEPT ![h].row = NoStamp]
      BY <1>9 DEF ControlGoes, RowGoes, Displays
    <3>2. CASE page' = [page EXCEPT ![h].button = FALSE]
      BY <3>2 DEF TypeOK
    <3>3. CASE page' = [page EXCEPT ![h].row = NoStamp]
      BY <3>3 DEF TypeOK, NoStamp
    <3> QED
      BY <3>1, <3>2, <3>3
  <2>3. UNCHANGED <<siteVars, run, phase, current, before, after>>
    BY <1>9 DEF ControlGoes, RowGoes, Displays
  <2> QED
    BY <2>1, <2>2, <2>3
<1>10. ASSUME NEW h \in Hosts, NEW stamp \in page[h].reply, RowComes(h, stamp)
       PROVE  WorkInv'
  <2> DEFINE name == RowFound[current]
  <2> SUFFICES ASSUME phase \in Working
               PROVE  WorkInv'
    BY <1>10, RowShape
  <2>1. name \in Hosts
    BY RowAssumption DEF TypeOK
  <2>2. UNCHANGED <<siteVars, run, phase, current, before, after>>
    BY <1>10, RowShape
  <2>3. CASE name # h
    <3>1. page'[name] = page[name]
      BY <1>10, <2>1, <2>3, RowShape
    <3> QED
      BY <2>2, <3>1
  <2>4. CASE name = h
    <3>1. /\ page'[name].row = stamp
          /\ \A s \in page'[name].reply : s \in page[name].reply
      BY <1>10, <2>4, RowShape
    <3>2. [host |-> name, run |-> run, stamp |-> stamp] \in touches /\ before < stamp
      BY <2>4 DEF PageInv
    <3> QED
      BY <2>2, <3>1, <3>2
  <2> QED
    BY <2>3, <2>4
<1>11. ASSUME NEW h \in Hosts, OwnerRenews(h) \/ Expire(h)
       PROVE  WorkInv'
  <2> SUFFICES ASSUME phase \in Working
               PROVE  WorkInv'
    BY <1>11, SiteShape
  <2>1. RowFound[current] \in Hosts
    BY RowAssumption DEF TypeOK
  <2>2. before <= site'[RowFound[current]].stamp
    BY <1>11, <2>1, SiteShape DEF TypeOK
  <2>3. UNCHANGED <<touches, page, run, phase, current, before, after>>
    BY <1>11, SiteShape DEF OwnerRenews, Expire
  <2> QED
    BY <2>1, <2>2, <2>3
<1>12. CASE UNCHANGED vars
  BY <1>12 DEF vars
<1> QED
  BY <1>1, <1>2, <1>3, <1>4, <1>5, <1>6, <1>7, <1>8, <1>9, <1>10, <1>11, <1>12, NextShape
     DEF Environment

\* The document's hosts change by an inventory or by a verified renewal, and what
\* the robot has caused on the site stays on its books.
LEMMA StoredShape ==
  ASSUME TypeOK, [Next]_vars
  PROVE  /\ stored' = stored \/ RecordInventory \/ Confirm
         /\ touches \subseteq touches'
<1>1. CASE ListHosts \/ RefreshInventory
  BY <1>1 DEF ListHosts, ConfirmButtons, RefreshInventory, siteVars
<1>2. CASE Confirm
  BY <1>2 DEF Confirm, HostName, siteVars
<1>3. CASE \/ OpenHostsPage \/ NameHosts \/ Verify \/ RecordWouldRenew
           \/ Click \/ ClickRaises \/ Succeed \/ Fails
  BY <1>3, EndRunShape, ClickShape
     DEF OpenHostsPage, NameHosts, Verify, RecordWouldRenew, siteVars, docVars
<1>4. ASSUME \/ \E dryRun \in BOOLEAN : Begin(dryRun)
             \/ \E h \in Hosts : Reads(h)
      PROVE  UNCHANGED <<stored, touches>>
  BY <1>4 DEF Begin, Reads, siteVars, docVars
<1>5. CASE Environment
  BY <1>5 DEF Environment, Serve, Lose, ControlGoes, RowGoes, RowComes, OwnerRenews, Expire,
              Displays, siteVars, docVars
<1>6. CASE UNCHANGED vars
  BY <1>6 DEF vars, docVars
<1> QED
  BY <1>1, <1>2, <1>3, <1>4, <1>5, <1>6, NextShape

\* The verified renewal of a host is a touch of this run, newer than the record.
LEMMA ConfirmShape ==
  ASSUME TypeOK, RecordInv, Confirm
  PROVE  LET name == RowFound[current] IN
         /\ name \in Hosts
         /\ stored' = [stored EXCEPT ![name] = [dataUpdate |-> after,
              previousDataUpdate |-> before, lastVerifiedRenewal |-> run]]
         /\ stored[name].dataUpdate <= after /\ before < after
         /\ [host |-> name, run |-> run, stamp |-> after] \in touches
<1>1. RowFound[current] \in Hosts
  BY RowAssumption DEF Confirm, HostName, TypeOK
<1>2. /\ before < after
      /\ [host |-> RowFound[current], run |-> run, stamp |-> after] \in touches
  BY DEF Confirm, HostName, RecordInv, WorkInv, Working
<1>3. stored[RowFound[current]].dataUpdate <= after
  BY <1>1, <1>2 DEF Confirm, HostName, RecordInv, PageInv, NoStamp, TypeOK
<1> QED
  BY <1>1, <1>2, <1>3 DEF Confirm, HostName, RecordHost

\* No step takes a record back.
LEMMA AdvanceStep ==
  ASSUME TypeOK, RecordInv, [Next]_vars, NEW h \in Hosts
  PROVE  /\ stored'[h].dataUpdate >= stored[h].dataUpdate
         /\ stored'[h].lastVerifiedRenewal >= stored[h].lastVerifiedRenewal
<1>1. stored[h].dataUpdate \in Nat /\ stored[h].lastVerifiedRenewal \in Nat
  BY DEF TypeOK, Stored
<1>2. CASE stored' = stored
  BY <1>1, <1>2
<1>3. CASE RecordInventory
  <2>1. page[h].row # NoStamp => stored[h].dataUpdate <= page[h].row /\ page[h].row \in Nat
    BY DEF RecordInv, PageInv, TypeOK
  <2> QED
    BY <1>1, <1>3, <2>1, InventoryShape
<1>4. CASE Confirm
  <2>1. stored[h].lastVerifiedRenewal <= run /\ run \in Nat /\ after \in Nat
    BY DEF RecordInv, DatesInv, TypeOK
  <2> QED
    BY <1>1, <1>4, <2>1, ConfirmShape DEF TypeOK
<1> QED
  BY <1>2, <1>3, <1>4, StoredShape

\* RecordedIsReal is kept.
LEMMA RealStep == TypeOK /\ RecordInv /\ [Next]_vars => RecordedIsReal'
<1> SUFFICES ASSUME TypeOK, RecordInv, [Next]_vars, NEW h \in Hosts,
                    stored'[h].lastVerifiedRenewal > 0
             PROVE  \E t \in touches' :
                      /\ t.host = h /\ t.run = stored'[h].lastVerifiedRenewal
                      /\ stored'[h].previousDataUpdate < t.stamp
                      /\ t.stamp <= stored'[h].dataUpdate
  BY DEF RecordedIsReal
<1>1. touches \subseteq touches' /\ after \in Nat
  BY StoredShape DEF TypeOK
<1>2. CASE \/ stored' = stored \/ RecordInventory
           \/ Confirm /\ h # RowFound[current]
  <2>1. /\ stored'[h].lastVerifiedRenewal = stored[h].lastVerifiedRenewal
        /\ stored'[h].previousDataUpdate = stored[h].previousDataUpdate
    BY <1>2, InventoryShape, ConfirmShape DEF TypeOK
  <2>2. PICK t \in touches :
          /\ t.host = h /\ t.run = stored[h].lastVerifiedRenewal
          /\ stored[h].previousDataUpdate < t.stamp
          /\ t.stamp <= stored[h].dataUpdate
    BY <2>1 DEF RecordInv, RecordedIsReal
  <2>3. /\ t.stamp \in Nat /\ stored[h].dataUpdate \in Nat
        /\ stored'[h].dataUpdate \in Nat
    BY TypeStep DEF TypeOK, Stored
  <2>4. t.stamp <= stored'[h].dataUpdate
    BY <2>2, <2>3, AdvanceStep
  <2> QED
    BY <1>1, <2>1, <2>2, <2>4
<1>3. CASE Confirm /\ h = RowFound[current]
  <2> DEFINE t == [host |-> h, run |-> run, stamp |-> after]
  <2>1. t \in touches' /\ before < after
    BY <1>1, <1>3, ConfirmShape
  <2>2. stored'[h] = [dataUpdate |-> after, previousDataUpdate |-> before,
                      lastVerifiedRenewal |-> run]
    BY <1>3, ConfirmShape DEF TypeOK
  <2> QED
    BY <1>1, <2>1, <2>2
<1> QED
  BY <1>2, <1>3, StoredShape

\* RecordInv holds throughout.
LEMMA RecordSafe == Spec => [](TypeOK /\ RecordInv)
<1>1. Init => RecordInv
  BY DEF Init, RecordInv, DatesInv, PageInv, WorkInv, RecordedIsReal, NoPage, NoStamp, Working,
         Resting
<1>2. TypeOK /\ RecordInv /\ [Next]_vars => RecordInv'
  BY DatesStep, PageStep, WorkStep, RealStep DEF RecordInv
<1> QED
  BY <1>1, <1>2, TypeCorrect, PTL DEF Spec

\* What is recorded as renewed was renewed by a click of the run on record, for any
\* hosts, even when ids are confused, and any replies, owners and failures.
THEOREM RecordsAreReal == Spec => []RecordedIsReal
<1>1. RecordInv => RecordedIsReal
  BY DEF RecordInv
<1> QED
  BY <1>1, RecordSafe, PTL

\* No inventory, failure or later run takes the record of a host back.
THEOREM RecordsOnlyAdvance == Spec => RecordsAdvance
<1>1. TypeOK /\ RecordInv /\ [Next]_vars =>
        [\A h \in Hosts :
           /\ stored'[h].dataUpdate >= stored[h].dataUpdate
           /\ stored'[h].lastVerifiedRenewal >= stored[h].lastVerifiedRenewal]_vars
  BY AdvanceStep
<1> QED
  BY <1>1, RecordSafe, PTL DEF Spec, RecordsAdvance

(***************************************************************************)
(* What a run promises.                                                     *)
(***************************************************************************)

\* PreviewInv is kept.
LEMMA PreviewStep == TypeOK /\ DatesInv /\ PreviewInv /\ [Next]_vars => PreviewInv'
<1> SUFFICES ASSUME TypeOK, DatesInv, PreviewInv, [Next]_vars
             PROVE  PreviewInv'
  OBVIOUS
<1> USE DEF PreviewInv, PreviewIsCurrent, Working, Resting, siteVars, loopVars, docVars
<1>1. ASSUME NEW dryRun \in BOOLEAN, Begin(dryRun)
      PROVE  PreviewInv'
  <2>1. /\ \A t \in touches : t.run # run'
        /\ \A h \in Hosts : \A click \in pending[h] : click[1] # run'
    BY <1>1 DEF Begin, DatesInv, TypeOK
  <2> QED
    BY <1>1, <2>1 DEF Begin
<1>2. CASE \/ OpenHostsPage \/ ListHosts \/ NameHosts \/ Verify \/ Confirm
           \/ RefreshInventory \/ RecordWouldRenew
  BY <1>2 DEF OpenHostsPage, ListHosts, NameHosts, Verify, Confirm, RefreshInventory,
              RecordWouldRenew
<1>3. ASSUME NEW h \in Hosts, Reads(h)
      PROVE  PreviewInv'
  BY <1>3 DEF Reads, DataUpdate
<1>4. CASE Click \/ ClickRaises
  <2>1. phase = "clicking" /\ ~ dry /\ would = {}
    BY <1>4, ClickShape
  <2> QED
    BY <1>4, <2>1, ClickShape
<1>5. CASE Fails \/ Succeed
  BY <1>5, EndRunShape
<1>6. ASSUME NEW h \in Hosts, NEW click \in pending[h], Serve(h, click)
      PROVE  PreviewInv'
  <2>1. UNCHANGED <<run, phase, wouldUpdate, dry, would>>
    BY <1>6 DEF Serve
  <2>2. /\ \A x \in Hosts : pending'[x] \subseteq pending[x]
        /\ \A t \in touches' : t \in touches \/ t.run = click[1]
    BY <1>6 DEF Serve, TypeOK
  <2> QED
    BY <2>1, <2>2
<1>7. ASSUME NEW h \in Hosts, NEW click \in pending[h], Lose(h, click)
      PROVE  PreviewInv'
  <2>1. \A x \in Hosts : pending'[x] \subseteq pending[x]
    BY <1>7 DEF Lose, TypeOK
  <2> QED
    BY <1>7, <2>1 DEF Lose
<1>8. ASSUME NEW h \in Hosts,
             \/ ControlGoes(h) \/ RowGoes(h) \/ OwnerRenews(h) \/ Expire(h)
             \/ \E stamp \in page[h].reply : RowComes(h, stamp)
      PROVE  PreviewInv'
  <2>1. UNCHANGED <<pending, touches, run, phase, wouldUpdate, dry, would>>
    BY <1>8 DEF ControlGoes, RowGoes, RowComes, Displays, OwnerRenews, Expire
  <2> QED
    BY <2>1
<1>9. CASE UNCHANGED vars
  BY <1>9 DEF vars
<1> QED
  BY <1>1, <1>2, <1>3, <1>4, <1>5, <1>6, <1>7, <1>8, <1>9, NextShape DEF Environment

\* PreviewInv holds throughout.
LEMMA PreviewSafe == Spec => []PreviewInv
<1>1. Init => PreviewInv
  BY DEF Init, PreviewInv, PreviewIsCurrent, Working, Resting
<1>2. TypeOK /\ RecordInv /\ PreviewInv /\ [Next]_vars => PreviewInv'
  BY PreviewStep DEF RecordInv
<1> QED
  BY <1>1, <1>2, RecordSafe, PTL DEF Spec

\* A dry run causes no click, and a preview is never older than the last run.
THEOREM DryRunsTouchNothing == Spec => []PreviewIsCurrent
<1>1. PreviewInv => PreviewIsCurrent
  BY DEF PreviewInv
<1> QED
  BY <1>1, PreviewSafe, PTL

ExactRows == \A h \in Hosts : RowFound[h] = h

\* ProgressInv is kept if every id finds its own row.
LEMMA ProgressStep ==
  ExactRows /\ TypeOK /\ PreviewInv /\ ProgressInv /\ [Next]_vars => ProgressInv'
<1> SUFFICES ASSUME ExactRows, TypeOK, PreviewInv, ProgressInv, [Next]_vars
             PROVE  ProgressInv'
  OBVIOUS
<1> USE DEF ProgressInv, SuccessAccounts, Working, Resting, siteVars, loopVars, docVars
<1>1. ASSUME NEW dryRun \in BOOLEAN, Begin(dryRun)
      PROVE  ProgressInv'
  BY <1>1 DEF Begin
<1>2. CASE OpenHostsPage
  BY <1>2 DEF OpenHostsPage
<1>3. CASE ListHosts
  BY <1>3 DEF ListHosts, ConfirmButtons, PreviewInv
<1>4. CASE NameHosts
  <2>1. {RowFound[h] : h \in todo} = todo
    BY DEF ExactRows, TypeOK
  <2>2. wouldUpdate = hosts \ todo /\ dry /\ phase = "hosts"
    BY <1>4 DEF NameHosts, HostName
  <2> QED
    BY <1>4, <2>1, <2>2 DEF NameHosts, HostName, TypeOK
<1>5. ASSUME NEW h \in Hosts, Reads(h)
      PROVE  ProgressInv'
  BY <1>5 DEF Reads, DataUpdate
<1>6. CASE Click \/ ClickRaises
  <2>1. phase = "clicking" /\ UNCHANGED <<run, docVars>>
    BY <1>6, ClickShape
  <2>2. CASE phase' \in {"clicking", "verifying"} /\ UNCHANGED <<hosts, todo, current, wouldUpdate>>
    BY <2>1, <2>2
  <2>3. CASE phase' = "failed"
    BY <2>3
  <2> QED
    BY <1>6, <2>2, <2>3 DEF Click, ClickRaises, EndRun
<1>7. CASE Verify
  BY <1>7 DEF Verify, DataUpdate
<1>8. CASE Fails
  BY <1>8 DEF Fails, EndRun
<1>9. CASE Confirm
  <2>1. /\ UNCHANGED <<run, hosts, todo, dry>> /\ ~ dry
        /\ phase = "refreshing" /\ phase' = "hosts"
    BY <1>9 DEF Confirm, HostName, PreviewInv
  <2>2. current \in Hosts /\ RowFound[current] = current
    BY <2>1 DEF TypeOK, ExactRows
  <2>3. \A h \in Hosts : stored'[h].lastVerifiedRenewal =
                         IF h = current THEN run ELSE stored[h].lastVerifiedRenewal
    BY <1>9, <2>2 DEF Confirm, HostName, RecordHost, TypeOK
  <2> QED
    BY <2>1, <2>3 DEF TypeOK
<1>10. CASE RefreshInventory
  <2>1. /\ UNCHANGED <<run, hosts, wouldUpdate, dry>> /\ todo = {}
        /\ phase = "hosts" /\ phase' = "naming"
    BY <1>10 DEF RefreshInventory
  <2>2. \A h \in Hosts : stored'[h].lastVerifiedRenewal = stored[h].lastVerifiedRenewal
    BY <1>10, InventoryShape DEF RefreshInventory
  <2> QED
    BY <2>1, <2>2 DEF TypeOK
<1>11. CASE RecordWouldRenew
  BY <1>11 DEF RecordWouldRenew
<1>12. CASE Succeed
  BY <1>12 DEF Succeed, EndRun
<1>13. CASE Environment
  <2>1. UNCHANGED <<run, phase, loopVars, docVars>>
    BY <1>13 DEF Environment, Serve, Lose, ControlGoes, RowGoes, RowComes, Displays,
                 OwnerRenews, Expire
  <2> QED
    BY <2>1
<1>14. CASE UNCHANGED vars
  BY <1>14 DEF vars
<1> QED
  BY <1>1, <1>2, <1>3, <1>4, <1>5, <1>6, <1>7, <1>8, <1>9, <1>10, <1>11, <1>12,
     <1>13, <1>14, NextShape

LEMMA ProgressSafe == ExactRows => (Spec => []ProgressInv)
<1> SUFFICES ASSUME ExactRows
             PROVE  Spec => []ProgressInv
  OBVIOUS
<1>1. Init => ProgressInv
  BY DEF Init, ProgressInv, SuccessAccounts, Working
<1>2. TypeOK /\ PreviewInv /\ ProgressInv /\ [Next]_vars => ProgressInv'
  BY ProgressStep
<1> QED
  BY <1>1, <1>2, TypeCorrect, PreviewSafe, PTL DEF Spec

\* If every id finds its own row, a run that succeeded has put every host with a
\* confirm control on record or, in a dry run, into the preview.
THEOREM SuccessIsComplete == ExactRows => (Spec => []SuccessAccounts)
<1>1. ProgressInv => SuccessAccounts
  BY DEF ProgressInv
<1> QED
  BY <1>1, ProgressSafe, PTL

(***************************************************************************)
(* Every run is short.  That a run ends also takes that its login does not  *)
(* hang and that it is let go on after that (Fairness), and is checked by    *)
(* TLC; what can be proved is that its own steps use up a budget, which      *)
(* nothing but a new run replenishes.                                        *)
(***************************************************************************)

\* The steps of its own that a run has left, at most: five for each host to come
\* (read, click, click again, verify, confirm) and five around them.
Budget ==
  LET rest == 5 * Cardinality(todo) IN
  CASE phase \in Resting     -> 0
    [] phase = "closing"     -> 1
    [] phase = "naming"      -> 2
    [] phase = "hosts"       -> 3 + rest
    [] phase = "refreshing"  -> 4 + rest
    [] phase = "verifying"   -> 5 + rest
    [] phase = "clicking"    -> (IF attempt = 1 THEN 7 ELSE 6) + rest
    [] phase = "listing"     -> 4 + 5 * Cardinality(Hosts)
    [] phase = "login"       -> 5 + 5 * Cardinality(Hosts)

\* A step of the run, whichever it is, spends from the budget, and a step of No-IP,
\* of the page or of the owner leaves it alone.
BudgetIsSpent ==
  [][/\ Step => Budget' < Budget
     /\ Environment => Budget' = Budget
     /\ Budget' > Budget => \E dryRun \in BOOLEAN : Begin(dryRun)]_vars

\* The budget of a run, which is the most steps it takes; 0 means that it is over.
BudgetIsBounded ==
  /\ Budget \in 0 .. 5 + 5 * Cardinality(Hosts)
  /\ Budget = 0 <=> phase \in Resting

\* The list and what is left of it are finite.
LEMMA TodoSize ==
  ASSUME TypeOK
  PROVE  /\ IsFiniteSet(todo) /\ Cardinality(todo) \in Nat
         /\ Cardinality(Hosts) \in Nat /\ Cardinality(todo) <= Cardinality(Hosts)
         /\ \A h \in todo : Cardinality(todo \ {h}) = Cardinality(todo) - 1
         /\ todo # {} => Cardinality(todo) > 0
         /\ Cardinality({}) = 0
<1>1. todo \subseteq Hosts /\ IsFiniteSet(Hosts)
  BY HostAssumption DEF TypeOK
<1>2. IsFiniteSet(todo) /\ Cardinality(todo) <= Cardinality(Hosts)
  BY <1>1, FS_Subset
<1>3. Cardinality(todo) \in Nat /\ Cardinality(Hosts) \in Nat
  BY <1>1, <1>2, FS_CardinalityType
<1>4. \A h \in todo : Cardinality(todo \ {h}) = Cardinality(todo) - 1
  BY <1>2, FS_RemoveElement
<1>5. todo # {} => Cardinality(todo) > 0
  BY <1>2, <1>3, FS_EmptySet
<1> QED
  BY <1>1, <1>2, <1>3, <1>4, <1>5, FS_EmptySet

\* Where a run is in its list: it has none before the page was read, and the host
\* in hand is off what is left of it.
ListInv ==
  /\ phase \in {"login", "listing"} => hosts = {}
  /\ phase \in Working => current \notin todo

LEMMA ListStep == TypeOK /\ ListInv /\ [Next]_vars => ListInv'
<1> USE DEF ListInv, Working, Resting
<1> SUFFICES ASSUME TypeOK, ListInv, [Next]_vars
             PROVE  ListInv'
  OBVIOUS
<1> USE DEF siteVars, loopVars, docVars
<1>1. CASE Click \/ ClickRaises
  <2>1. CASE phase' \in Resting
    BY <2>1
  <2>2. CASE phase' \notin Resting
    <3>1. phase = "clicking" /\ UNCHANGED <<hosts, todo, current>>
      BY <1>1, <2>2, ClickShape
    <3> QED
      BY <1>1, <2>2, <3>1, ClickShape
  <2> QED
    BY <2>1, <2>2
<1>2. CASE \/ \E dryRun \in BOOLEAN : Begin(dryRun)
           \/ OpenHostsPage \/ ListHosts \/ NameHosts \/ Confirm \/ Verify
           \/ \E h \in Hosts : Reads(h)
           \/ RefreshInventory \/ RecordWouldRenew
  BY <1>2 DEF Begin, OpenHostsPage, ListHosts, NameHosts, Confirm, HostName, Verify, Reads,
              RefreshInventory, RecordWouldRenew
<1>3. CASE Fails \/ Succeed
  BY <1>3, EndRunShape
<1>4. CASE Environment
  BY <1>4 DEF Environment, Serve, Lose, ControlGoes, RowGoes, RowComes, Displays,
              OwnerRenews, Expire
<1>5. CASE UNCHANGED vars
  BY <1>5 DEF vars
<1> QED
  BY <1>1, <1>2, <1>3, <1>4, <1>5, NextShape

LEMMA ListSafe == Spec => [](TypeOK /\ ListInv)
<1>1. Init => ListInv
  BY DEF Init, ListInv, Working, Resting
<1> QED
  BY <1>1, ListStep, TypeCorrect, PTL DEF Spec

LEMMA BudgetRange == TypeOK /\ ListInv => BudgetIsBounded
<1> SUFFICES ASSUME TypeOK, ListInv
             PROVE  BudgetIsBounded
  OBVIOUS
<1> DEFINE n == Cardinality(todo)
           m == Cardinality(Hosts)
<1>1. n \in Nat /\ m \in Nat /\ n <= m
  BY TodoSize
<1>2. phase \in Working => n + 1 <= m
  <2> SUFFICES ASSUME phase \in Working
               PROVE  n + 1 <= m
    OBVIOUS
  <2>1. todo \subseteq Hosts \ {current} /\ current \in Hosts /\ IsFiniteSet(Hosts)
    BY HostAssumption DEF TypeOK, ListInv, Working
  <2>2. IsFiniteSet(Hosts \ {current}) /\ Cardinality(Hosts \ {current}) = m - 1
    BY <2>1, FS_RemoveElement
  <2>3. n <= m - 1
    BY <2>1, <2>2, FS_Subset
  <2> QED
    BY <1>1, <2>3
<1>3. /\ phase \in Resting    => Budget = 0
      /\ phase = "closing"    => Budget = 1
      /\ phase = "naming"     => Budget = 2
      /\ phase = "hosts"      => Budget = 3 + 5 * n
      /\ phase = "refreshing" => Budget = 4 + 5 * n
      /\ phase = "verifying"  => Budget = 5 + 5 * n
      /\ phase = "clicking"   => Budget \in {6 + 5 * n, 7 + 5 * n}
      /\ phase = "listing"    => Budget = 4 + 5 * m
      /\ phase = "login"      => Budget = 5 + 5 * m
  BY DEF Budget, Resting
<1> HIDE DEF n, m
<1>4. /\ phase \in {"hosts"} \union Working => Budget \in Nat /\ 0 < Budget /\ Budget <= 5 + 5 * m
      /\ phase \notin {"hosts"} \union Working \union Resting =>
           Budget \in Nat /\ 0 < Budget /\ Budget <= 5 + 5 * m
  BY <1>1, <1>2, <1>3 DEF Working, Resting, TypeOK, Phase
<1>5. Budget \in Nat /\ Budget <= 5 + 5 * m /\ (Budget = 0 <=> phase \in Resting)
  BY <1>1, <1>3, <1>4 DEF Working, Resting
<1> QED
  BY <1>1, <1>5 DEF BudgetIsBounded, m

\* A step of the run spends.
LEMMA StepSpends == TypeOK /\ ListInv /\ Step => Budget' < Budget
<1> SUFFICES ASSUME TypeOK, ListInv, Step
             PROVE  Budget' < Budget
  OBVIOUS
<1> DEFINE n == Cardinality(todo)
           m == Cardinality(Hosts)
<1>1. n \in Nat /\ m \in Nat
  BY TodoSize
<1>2. CASE phase' \in Resting
  <2>1. phase \notin Resting
    BY DEF Step, OpenHostsPage, ListHosts, NameHosts, ReadBefore, Click, ClickRaises, Verify,
           GiveUp, Confirm, Mismatch, RefreshInventory, RecordWouldRenew, Succeed, Resting
  <2>2. Budget > 0
    BY <1>1, <2>1, BudgetRange DEF BudgetIsBounded
  <2>3. Budget' = 0
    BY <1>2 DEF Budget, Resting
  <2> QED
    BY <2>2, <2>3
<1> USE DEF Budget, Resting
<1>3. CASE OpenHostsPage
  BY <1>1, <1>3 DEF OpenHostsPage
<1>4. CASE ListHosts
  <2>1. todo' \subseteq Hosts /\ phase = "listing" /\ phase' = "hosts"
    BY <1>4 DEF ListHosts, ConfirmButtons
  <2>2. Cardinality(todo') <= m /\ Cardinality(todo') \in Nat
    BY <2>1, HostAssumption, FS_Subset, FS_CardinalityType
  <2> QED
    BY <1>1, <2>1, <2>2
<1>5. CASE NameHosts
  <2>1. n > 0 /\ Cardinality({}) = 0 /\ phase = "hosts" /\ phase' = "hosts" /\ todo' = {}
    BY <1>5, TodoSize DEF NameHosts
  <2> QED
    BY <1>1, <2>1
<1>6. ASSUME NEW h \in Hosts, Reads(h)
      PROVE  Budget' < Budget
  <2>1. /\ phase = "hosts" /\ phase' = "clicking" /\ attempt' = 1
        /\ Cardinality(todo') = n - 1
    BY <1>6, TodoSize DEF Reads
  <2> QED
    BY <1>1, <2>1
<1>7. CASE Click
  BY <1>1, <1>7 DEF Click, loopVars
<1>8. CASE ClickRaises /\ phase' \notin Resting
  <2>1. phase = "clicking" /\ phase' = "clicking" /\ attempt = 1 /\ attempt' = 2 /\ todo' = todo
    BY <1>8 DEF ClickRaises, EndRun
  <2> QED
    BY <1>1, <2>1
<1>9. CASE Verify \/ Confirm \/ RefreshInventory \/ RecordWouldRenew
  BY <1>1, <1>9 DEF Verify, Confirm, RefreshInventory, RecordWouldRenew, loopVars
<1> QED
  BY <1>2, <1>3, <1>4, <1>5, <1>6, <1>7, <1>8, <1>9, FailShape, ReadShape, EndRunShape DEF Step

\* Every run has a budget of its own steps, at most five for each host of the
\* account and five more; whatever the page and No-IP do in between, retries and
\* waits included, each step spends from it, and it is used up only by the end.
THEOREM RunsAreShort == Spec => []BudgetIsBounded /\ BudgetIsSpent
<1> USE DEF BudgetIsSpent
<1>1. TypeOK /\ ListInv => BudgetIsBounded
  BY BudgetRange
<1>2. TypeOK /\ ListInv /\ [Next]_vars =>
        [/\ Step => Budget' < Budget
         /\ Environment => Budget' = Budget
         /\ Budget' > Budget => \E dryRun \in BOOLEAN : Begin(dryRun)]_vars
  <2> SUFFICES ASSUME TypeOK, ListInv, Next
               PROVE  /\ Step => Budget' < Budget
                      /\ Environment => Budget' = Budget
                      /\ Budget' > Budget => \E dryRun \in BOOLEAN : Begin(dryRun)
    OBVIOUS
  <2>1. Budget \in Nat /\ Budget' \in Nat
    <3>1. Cardinality(Hosts) \in Nat
      BY HostAssumption, FS_CardinalityType
    <3>2. TypeOK' /\ ListInv'
      BY TypeStep, ListStep
    <3>3. TypeOK' /\ ListInv' => BudgetIsBounded'
      BY BudgetRange, PTL
    <3> QED
      BY <3>1, <3>2, <3>3, BudgetRange DEF BudgetIsBounded
  <2>2. Step => Budget' < Budget
    BY StepSpends
  <2>3. Environment => Budget' = Budget
    <3>1. Environment => UNCHANGED <<phase, todo, attempt>>
      BY DEF Environment, Serve, Lose, ControlGoes, RowGoes, RowComes, Displays,
             OwnerRenews, Expire, loopVars
    <3> QED
      BY <3>1 DEF Budget
  <2>4. Abort => Budget' = 0
    BY FailShape, EndRunShape DEF Budget, Resting
  <2> QED
    BY <2>1, <2>2, <2>3, <2>4 DEF Next
<1> QED
  BY <1>1, <1>2, ListSafe, PTL DEF Spec

(***************************************************************************)
(* The runs keep the ledger.                                                *)
(***************************************************************************)

\* A host is entered at most once in a run: neither what is left of the list nor
\* the host in hand, whose row was there, is on record yet.  Clicks belong to a run.
OnceInv ==
  /\ phase # "idle" => run > 0
  /\ \A h \in Hosts : \A click \in pending[h] : click[1] > 0
  /\ phase \in {"login", "listing"} => \A h \in Hosts : stored[h].lastVerifiedRenewal < run
  /\ phase \in {"hosts"} \union Working => \A h \in todo : stored[h].lastVerifiedRenewal < run
  /\ phase \in Working => stored[current].lastVerifiedRenewal < run /\ before > 0

\* OnceInv is kept.
LEMMA OnceStep ==
  ExactRows /\ TypeOK /\ RecordInv /\ ListInv /\ OnceInv /\ [Next]_vars => OnceInv'
<1> SUFFICES ASSUME ExactRows, TypeOK, RecordInv, ListInv, OnceInv, [Next]_vars
             PROVE  OnceInv'
  OBVIOUS
<1> USE DEF OnceInv, Working, Resting, siteVars, loopVars, docVars
<1>1. ASSUME NEW dryRun \in BOOLEAN, Begin(dryRun)
      PROVE  OnceInv'
  BY <1>1 DEF Begin, RecordInv, DatesInv, TypeOK, Stored
<1>2. CASE OpenHostsPage \/ NameHosts \/ Verify \/ RecordWouldRenew
  BY <1>2 DEF OpenHostsPage, NameHosts, Verify, RecordWouldRenew
<1>3. CASE ListHosts \/ RefreshInventory
  <2>1. /\ RecordInventory /\ UNCHANGED <<siteVars, run, dry>> /\ phase' \in {"hosts", "naming"}
        /\ phase' = "hosts" => phase = "listing" /\ todo' \subseteq Hosts
        /\ phase \notin Resting
    BY <1>3 DEF ListHosts, ConfirmButtons, RefreshInventory
  <2>2. \A h \in Hosts : stored'[h].lastVerifiedRenewal = stored[h].lastVerifiedRenewal
    BY <2>1, InventoryShape
  <2> QED
    BY <2>1, <2>2
<1>4. ASSUME NEW h \in Hosts, Reads(h)
      PROVE  OnceInv'
  BY <1>4, RowAssumption DEF Reads, DataUpdate, NoStamp, TypeOK
<1>5. CASE Click \/ ClickRaises
  <2>1. phase = "clicking" /\ run \in Nat /\ run > 0 /\ current \in Hosts
    BY <1>5, ClickShape DEF TypeOK
  <2>2. \A h \in Hosts : \A click \in pending'[h] : click \in pending[h] \/ click[1] = run
    BY <1>5, <2>1, ClickShape DEF Send, TypeOK
  <2>3. \A h \in Hosts : \A click \in pending'[h] : click[1] > 0
    BY <2>1, <2>2
  <2>4. CASE phase' \in Resting
    BY <1>5, <2>1, <2>3, <2>4, ClickShape
  <2>5. CASE phase' \notin Resting
    <3>1. /\ phase' \in {"clicking", "verifying"}
          /\ UNCHANGED <<todo, current, before, run, stored>>
      BY <1>5, <2>5, ClickShape
    <3> QED
      BY <2>1, <2>3, <3>1
  <2> QED
    BY <2>4, <2>5
<1>6. CASE Fails \/ Succeed
  BY <1>6, EndRunShape
<1>7. CASE Confirm
  <2>1. /\ UNCHANGED <<siteVars, run, todo>> /\ phase = "refreshing" /\ phase' = "hosts"
        /\ current \notin todo /\ todo \subseteq Hosts
    BY <1>7 DEF Confirm, HostName, ListInv, TypeOK
  <2>2. RowFound[current] = current /\ current \in Hosts
    BY <2>1 DEF ExactRows, TypeOK
  <2>3. \A h \in todo : stored'[h] = stored[h]
    BY <1>7, <2>1, <2>2, ConfirmShape DEF TypeOK
  <2> QED
    BY <2>1, <2>3
<1>8. ASSUME NEW h \in Hosts, NEW click \in pending[h], Serve(h, click) \/ Lose(h, click)
      PROVE  OnceInv'
  <2>1. UNCHANGED <<run, phase, loopVars, docVars>>
    BY <1>8 DEF Serve, Lose
  <2>2. \A x \in Hosts : pending'[x] \subseteq pending[x]
    BY <1>8 DEF Serve, Lose, TypeOK
  <2> QED
    BY <2>1, <2>2
<1>9. ASSUME NEW h \in Hosts,
             \/ ControlGoes(h) \/ RowGoes(h) \/ OwnerRenews(h) \/ Expire(h)
             \/ \E stamp \in page[h].reply : RowComes(h, stamp)
      PROVE  OnceInv'
  BY <1>9 DEF ControlGoes, RowGoes, RowComes, Displays, OwnerRenews, Expire
<1>10. CASE UNCHANGED vars
  BY <1>10 DEF vars
<1> QED
  BY <1>1, <1>2, <1>3, <1>4, <1>5, <1>6, <1>7, <1>8, <1>9, <1>10, NextShape DEF Environment

LedgerInv == TypeOK /\ RecordInv /\ PreviewInv /\ ProgressInv /\ ListInv /\ OnceInv

LEMMA LedgerSafe == ExactRows => (Spec => []LedgerInv)
<1> SUFFICES ASSUME ExactRows
             PROVE  Spec => []LedgerInv
  OBVIOUS
<1>1. Init => OnceInv
  BY DEF Init, OnceInv, Working, Resting
<1>2. TypeOK /\ RecordInv /\ ListInv /\ OnceInv /\ [Next]_vars => OnceInv'
  BY OnceStep
<1> QED
  BY <1>1, <1>2, RecordSafe, PreviewSafe, ProgressSafe, ListSafe, PTL DEF Spec, LedgerInv

\* A step that changes no line of the ledger.
Unseen ==
  /\ UNCHANGED <<touches, run, hosts, docVars>>
  /\ \/ phase' = phase
     \/ phase \notin Resting /\ phase' \notin Resting
  /\ \A h \in Hosts : site'[h].stamp = site[h].stamp

LEMMA UnseenStutters == Unseen => UNCHANGED Ledger!vars
BY DEF Unseen, Ledger!vars, docVars

\* The first look at the page makes the list, later ones only bring stamps.
LEMMA LookRefines ==
  ASSUME LedgerInv, ListHosts \/ RefreshInventory
  PROVE  Ledger!Look
<1>1. /\ RecordInventory /\ phase \notin Resting /\ phase' \notin Resting
      /\ UNCHANGED <<site, touches, run, dry, would>>
      /\ hosts' # hosts => hosts = {} /\ hosts' \subseteq Hosts
  BY DEF ListHosts, RefreshInventory, ConfirmButtons, Resting, siteVars, loopVars, LedgerInv, ListInv
<1>2. ASSUME NEW h \in Hosts
      PROVE  /\ stored[h].dataUpdate <= stored'[h].dataUpdate
             /\ stored'[h].dataUpdate <= site[h].stamp
             /\ stored'[h] = [stored[h] EXCEPT !.dataUpdate = stored'[h].dataUpdate]
  <2>1. /\ stored[h] \in Stored /\ page[h].row \in Nat /\ site[h].stamp \in Nat
        /\ stored[h].dataUpdate <= site[h].stamp /\ page[h].row <= site[h].stamp
        /\ page[h].row # NoStamp => stored[h].dataUpdate <= page[h].row
    BY DEF LedgerInv, TypeOK, RecordInv, DatesInv, PageInv
  <2>2. stored'[h] = IF page[h].row # NoStamp
                       THEN [stored[h] EXCEPT !.dataUpdate = page[h].row] ELSE stored[h]
    BY <1>1 DEF RecordInventory, Inventory
  <2> QED
    BY <2>1, <2>2 DEF Stored
<1> QED
  BY <1>1, <1>2 DEF Ledger!Look, Ledger!SeenIn

\* A verified renewal is entered once, for a click of this run.
LEMMA ConfirmRefines ==
  ASSUME ExactRows, LedgerInv, Confirm
  PROVE  \E h \in Hosts : Ledger!Enter(h)
<1> USE DEF LedgerInv
<1>1. /\ phase = "refreshing" /\ phase' = "hosts" /\ ~ dry
      /\ current \in hosts /\ current \in Hosts /\ RowFound[current] = current
      /\ stored[current].lastVerifiedRenewal < run
      /\ UNCHANGED <<site, touches, run, hosts, dry, would>>
  BY DEF Confirm, HostName, TypeOK, ExactRows, PreviewInv, OnceInv, Working, siteVars, loopVars
<1> DEFINE t == [host |-> current, run |-> run, stamp |-> after]
<1>2. /\ t \in touches /\ before < after /\ stored[current].dataUpdate <= after
      /\ stored' = [stored EXCEPT ![current] = [dataUpdate |-> after,
           previousDataUpdate |-> before, lastVerifiedRenewal |-> run]]
  BY <1>1, ConfirmShape
<1>3. before \in 1 .. site[current].stamp
  BY <1>1 DEF OnceInv, RecordInv, WorkInv, Working, TypeOK
<1>4. Ledger!Enter(current)
  BY <1>1, <1>2, <1>3 DEF Ledger!Enter, Resting
<1> QED
  BY <1>1, <1>4

\* A click that is served is a renewal by its run, which is not a dry one.
LEMMA ServeRefines ==
  ASSUME LedgerInv, NEW h \in Hosts, NEW click \in pending[h], Serve(h, click)
  PROVE  click[1] \in 1 .. run /\ Ledger!Renew(h, click[1])
<1>1. click[1] \in 1 .. run /\ (click[1] = run => ~ dry)
  <2>1. click[1] \in Nat /\ run \in Nat /\ click[1] <= run /\ click[1] > 0
    BY DEF LedgerInv, TypeOK, RecordInv, DatesInv, OnceInv
  <2> QED
    BY <2>1 DEF LedgerInv, PreviewInv, PreviewIsCurrent
<1>2. /\ site' = [site EXCEPT ![h] = [stamp |-> site[h].stamp + 1, due |-> FALSE]]
      /\ touches' = touches \union {[host |-> h, run |-> click[1], stamp |-> site[h].stamp + 1]}
      /\ UNCHANGED <<run, phase, hosts, docVars>>
  BY DEF Serve, loopVars
<1>3. [x \in Hosts |-> site'[x].stamp]
        = [[x \in Hosts |-> site[x].stamp] EXCEPT ![h] = site[h].stamp + 1]
  BY <1>2 DEF LedgerInv, TypeOK
<1> QED
  BY <1>1, <1>2, <1>3 DEF Ledger!Renew, docVars

\* A run that fails is closed, whatever its last click changed.
LEMMA FailRefines ==
  ASSUME phase \notin Resting, phase' = "failed", UNCHANGED <<site, touches, run, hosts, docVars>>
  PROVE  Ledger!Fail
BY DEF Ledger!Fail, Resting, docVars

\* The steps that the ledger shows for a run itself, its clicks excepted.
LEMMA RunRefines ==
  ASSUME ExactRows, LedgerInv,
         \/ \E dryRun \in BOOLEAN : Begin(dryRun)
         \/ ListHosts \/ Confirm \/ RefreshInventory \/ RecordWouldRenew \/ Succeed \/ Fails
  PROVE  [Ledger!Next]_Ledger!vars
<1> USE DEF LedgerInv
<1>1. ASSUME NEW dryRun \in BOOLEAN, Begin(dryRun)
      PROVE  Ledger!Begin(dryRun)
  BY <1>1 DEF Begin, Ledger!Begin, Resting, siteVars
<1>2. CASE ListHosts \/ RefreshInventory
  BY <1>2, LookRefines DEF Ledger!Next
<1>3. CASE Confirm
  BY <1>3, ConfirmRefines DEF Ledger!Next
<1>4. CASE RecordWouldRenew
  <2>1. /\ phase = "naming" /\ phase' = "closing" /\ would' = wouldUpdate
        /\ UNCHANGED <<site, touches, run, hosts, dry, stored>>
    BY <1>4 DEF RecordWouldRenew, siteVars, loopVars
  <2>2. CASE dry
    <3>1. Ledger!NamePreview
      BY <2>1, <2>2 DEF Ledger!NamePreview, ProgressInv, Resting
    <3> QED
      BY <3>1 DEF Ledger!Next
  <2>3. CASE ~ dry
    <3>1. would = {} /\ wouldUpdate = {}
      BY <2>3 DEF PreviewInv, PreviewIsCurrent
    <3>2. Unseen
      BY <2>1, <3>1 DEF Unseen, Resting, docVars
    <3> QED
      BY <3>2, UnseenStutters
  <2> QED
    BY <2>2, <2>3
<1>5. CASE Succeed
  <2>1. Ledger!Succeed
    BY <1>5 DEF Succeed, EndRun, Ledger!Succeed, ProgressInv, Resting, siteVars, docVars
  <2> QED
    BY <2>1 DEF Ledger!Next
<1>6. CASE Fails
  BY <1>6, FailRefines DEF Fails, EndRun, siteVars, Ledger!Next
<1> QED
  BY <1>1, <1>2, <1>3, <1>4, <1>5, <1>6 DEF Ledger!Next

\* The steps of a run between two entries do not show, but for a click that fails it.
LEMMA ClicksRefine ==
  ASSUME LedgerInv,
         \/ OpenHostsPage \/ NameHosts \/ Click \/ ClickRaises \/ Verify
         \/ \E h \in Hosts : Reads(h)
  PROVE  [Ledger!Next]_Ledger!vars
<1>1. CASE OpenHostsPage \/ NameHosts \/ Click \/ Verify \/ \E h \in Hosts : Reads(h)
  <2>1. Unseen
    BY <1>1 DEF OpenHostsPage, NameHosts, Click, Verify, Reads, Unseen, Resting,
                siteVars, loopVars, docVars
  <2> QED
    BY <2>1, UnseenStutters
<1>2. CASE ClickRaises
  <2>1. phase = "clicking" /\ UNCHANGED <<site, touches, run, hosts, docVars>>
    BY <1>2 DEF ClickRaises, EndRun
  <2>2. CASE phase' = phase
    BY <2>1, <2>2, UnseenStutters DEF Unseen
  <2>3. CASE phase' = "failed"
    BY <2>1, <2>3, FailRefines DEF Resting, Ledger!Next
  <2> QED
    BY <1>2, <2>2, <2>3 DEF ClickRaises, EndRun
<1> QED
  BY <1>1, <1>2

\* What happens at No-IP shows as a renewal or not at all, and what the page makes of
\* it never does.
LEMMA SiteRefines ==
  ASSUME LedgerInv, Environment
  PROVE  [Ledger!Next]_Ledger!vars
<1>1. ASSUME NEW h \in Hosts, NEW click \in pending[h], Serve(h, click)
      PROVE  Ledger!Next
  BY <1>1, ServeRefines DEF Ledger!Next
<1>2. ASSUME NEW h \in Hosts, NEW click \in pending[h], Lose(h, click)
      PROVE  UNCHANGED Ledger!vars
  BY <1>2, UnseenStutters DEF Unseen, Lose, loopVars
<1>3. ASSUME NEW h \in Hosts, OwnerRenews(h)
      PROVE  Ledger!OwnerRenews(h)
  <2>1. site' = [site EXCEPT ![h] = [stamp |-> site[h].stamp + 1, due |-> FALSE]]
    BY <1>3 DEF OwnerRenews
  <2>2. [x \in Hosts |-> site'[x].stamp]
          = [[x \in Hosts |-> site[x].stamp] EXCEPT ![h] = site[h].stamp + 1]
    BY <2>1 DEF LedgerInv, TypeOK
  <2> QED
    BY <1>3, <2>2 DEF OwnerRenews, Ledger!OwnerRenews, loopVars, docVars
<1>4. ASSUME NEW h \in Hosts,
             \/ ControlGoes(h) \/ RowGoes(h) \/ \E stamp \in page[h].reply : RowComes(h, stamp)
      PROVE  UNCHANGED Ledger!vars
  BY <1>4, UnseenStutters
     DEF Unseen, ControlGoes, RowGoes, RowComes, Displays, siteVars, loopVars
<1>5. ASSUME NEW h \in Hosts, Expire(h)
      PROVE  UNCHANGED Ledger!vars
  <2>1. site' = [site EXCEPT ![h].due = TRUE]
    BY <1>5 DEF Expire
  <2>2. \A x \in Hosts : site'[x].stamp = site[x].stamp
    BY <2>1 DEF LedgerInv, TypeOK
  <2>3. Unseen
    BY <1>5, <2>2 DEF Unseen, Expire, loopVars
  <2> QED
    BY <2>3, UnseenStutters
<1> QED
  BY <1>1, <1>2, <1>3, <1>4, <1>5 DEF Environment, Ledger!Next

\* If every id finds its own row, the runs keep the ledger, for any hosts: every entry
\* is for a renewal that its run has caused, after listing the host and once; nothing
\* else but stamps that were seen is ever entered, and nothing while no run is open.
THEOREM KeepsLedger == ExactRows => (Spec => ImplementsLedger)
<1> SUFFICES ASSUME ExactRows
             PROVE  Spec => ImplementsLedger
  OBVIOUS
<1>1. Init => Ledger!Init
  BY DEF Init, Ledger!Init, NoStamp, Resting
<1>2. LedgerInv /\ [Next]_vars => [Ledger!Next]_Ledger!vars
  <2> SUFFICES ASSUME LedgerInv, [Next]_vars
               PROVE  [Ledger!Next]_Ledger!vars
    OBVIOUS
  <2>1. CASE UNCHANGED vars
    BY <2>1, UnseenStutters DEF Unseen, vars, siteVars, loopVars
  <2> QED
    BY <2>1, RunRefines, ClicksRefine, SiteRefines, NextShape
<1> QED
  BY <1>1, <1>2, LedgerSafe, PTL DEF Spec, ImplementsLedger, Ledger!Spec

\* A run that succeeded has renewed every host that had a confirm control: a click of
\* this very run has caused a renewal of it at No-IP.
SuccessIsReal ==
  phase = "succeeded" /\ ~ dry =>
    \A h \in hosts : \E t \in touches : t.host = h /\ t.run = run

\* If every id finds its own row, success means that No-IP has renewed every host of
\* the list: what the calendar of the renewals (RenewalCalendar) takes a success for.
THEOREM SuccessRenews == ExactRows => (Spec => []SuccessIsReal)
<1> SUFFICES ASSUME ExactRows
             PROVE  Spec => []SuccessIsReal
  OBVIOUS
<1>1. LedgerInv => SuccessIsReal
  <2> SUFFICES ASSUME LedgerInv, phase = "succeeded", ~ dry, NEW h \in hosts
               PROVE  \E t \in touches : t.host = h /\ t.run = run
    BY DEF SuccessIsReal
  <2>1. h \in Hosts /\ stored[h].lastVerifiedRenewal = run /\ run > 0
    BY DEF LedgerInv, TypeOK, ProgressInv, SuccessAccounts, OnceInv
  <2> QED
    BY <2>1 DEF LedgerInv, RecordInv, RecordedIsReal
<1> QED
  BY <1>1, LedgerSafe, PTL

=============================================================================
