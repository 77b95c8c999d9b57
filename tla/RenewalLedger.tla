----------------------------- MODULE RenewalLedger -----------------------------
(***************************************************************************)
(* What the renewal runs promise to whoever reads state.json: a ledger in   *)
(* which a host is entered as renewed by a run only for a renewal that this  *)
(* run has caused, once, and after the run has listed it; in which nothing   *)
(* is taken back, and nothing changes while no run is open; and in which a   *)
(* run that is closed as a success has left no host of its list out.  How    *)
(* the robot finds out, from a page that lags behind No-IP, is in Robot.     *)
(***************************************************************************)
EXTENDS Integers

CONSTANTS Hosts

VARIABLES
  stamp,    \* the number of each host's last renewal, at No-IP
  caused,   \* the renewals that runs have caused
  run,      \* the number of runs begun
  state,    \* "open" while one is in progress, else how the last one ended
  dry,      \* the last one is a dry run
  listed,   \* the hosts it has found due
  entry,    \* the ledger
  preview   \* what a dry run would have renewed

vars == <<stamp, caused, run, state, dry, listed, entry, preview>>

Init ==
  /\ stamp = [h \in Hosts |-> 1]
  /\ caused = {}
  /\ run = 0 /\ state = "idle" /\ dry = FALSE
  /\ listed = {} /\ preview = {}
  /\ entry = [h \in Hosts |->
       [dataUpdate |-> 0, previousDataUpdate |-> 0, lastVerifiedRenewal |-> 0]]

Begin(dryRun) ==
  /\ state # "open"
  /\ run' = run + 1 /\ state' = "open"
  /\ dry' = dryRun
  /\ listed' = {} /\ preview' = {}
  /\ UNCHANGED <<stamp, caused, entry>>

\* A host is seen with a stamp that is not older than the one on the ledger.
SeenIn(newEntry) ==
  \A h \in Hosts :
    /\ entry[h].dataUpdate <= newEntry[h].dataUpdate
    /\ newEntry[h].dataUpdate <= stamp[h]
    /\ newEntry[h] = [entry[h] EXCEPT !.dataUpdate = newEntry[h].dataUpdate]

\* A look at the account; the first one of a run makes the list.
Look ==
  /\ state = "open"
  /\ SeenIn(entry')
  /\ listed' # listed => listed = {} /\ listed' \subseteq Hosts
  /\ UNCHANGED <<stamp, caused, run, state, dry, preview>>

\* No-IP renews a host, by a click of a run, the last one or an earlier one, or
\* by its owner.  A dry run causes nothing.
Renew(h, by) ==
  /\ by \in 1 .. run /\ (by = run => ~ dry)
  /\ stamp' = [stamp EXCEPT ![h] = @ + 1]
  /\ caused' = caused \union {[host |-> h, run |-> by, stamp |-> stamp'[h]]}
  /\ UNCHANGED <<run, state, dry, listed, entry, preview>>

OwnerRenews(h) ==
  /\ stamp' = [stamp EXCEPT ![h] = @ + 1]
  /\ UNCHANGED <<caused, run, state, dry, listed, entry, preview>>

\* The renewal of a host by this run is entered, for a cause between the stamps.
Enter(h) ==
  /\ state = "open" /\ ~ dry
  /\ h \in listed /\ entry[h].lastVerifiedRenewal < run
  /\ \E old \in 1 .. stamp[h], t \in caused :
       /\ t.host = h /\ t.run = run
       /\ old < t.stamp /\ entry[h].dataUpdate <= t.stamp
       /\ entry' = [entry EXCEPT ![h] =
            [dataUpdate |-> t.stamp, previousDataUpdate |-> old, lastVerifiedRenewal |-> run]]
  /\ UNCHANGED <<stamp, caused, run, state, dry, listed, preview>>

NamePreview ==
  /\ state = "open" /\ dry
  /\ preview' = listed
  /\ UNCHANGED <<stamp, caused, run, state, dry, listed, entry>>

Succeed ==
  /\ state = "open"
  /\ IF dry THEN preview = listed ELSE \A h \in listed : entry[h].lastVerifiedRenewal = run
  /\ state' = "succeeded"
  /\ UNCHANGED <<stamp, caused, run, dry, listed, entry, preview>>

Fail ==
  /\ state = "open"
  /\ state' = "failed"
  /\ UNCHANGED <<stamp, caused, run, dry, listed, entry, preview>>

Next ==
  \/ \E dryRun \in BOOLEAN : Begin(dryRun)
  \/ Look \/ NamePreview \/ Succeed \/ Fail
  \/ \E h \in Hosts : Enter(h) \/ OwnerRenews(h) \/ \E by \in 1 .. run : Renew(h, by)

Spec == Init /\ [][Next]_vars

=============================================================================
