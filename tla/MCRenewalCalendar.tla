-------------------------- MODULE MCRenewalCalendar --------------------------
(***************************************************************************)
(* An instance of RenewalCalendar: ticks and retry delays as in              *)
(* MCRenewalApp, a window of 3 days and a cap of 2.  One host is due at       *)
(* once; the other, whose data-update cannot be read, becomes due later.      *)
(***************************************************************************)
EXTENDS RenewalCalendar, TLC

CONSTANTS alpha, beta

TheRetryDelays == <<1, 1, 2, 3>>

TheFirstExpiry == alpha :> 4 @@ beta :> 13

=============================================================================
