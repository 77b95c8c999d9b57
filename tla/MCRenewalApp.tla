---------------------------- MODULE MCRenewalApp ----------------------------
(***************************************************************************)
(* Instances of RenewalApp.  A tick is a third of a day: the retry delays   *)
(* of 15 minutes, 1 hour and 6 hours become 1, 1 and 2 ticks (a tick is the *)
(* least that separates two runs), the daily one 3; the morning slot is the *)
(* second tick of a day.  The cap is 2 days, RENEWAL_WINDOW_DAYS 7.         *)
(***************************************************************************)
EXTENDS RenewalApp

TheRetryDelays == <<1, 1, 2, 3>>

=============================================================================
