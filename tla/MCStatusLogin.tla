---------------------------- MODULE MCStatusLogin ----------------------------
(***************************************************************************)
(* Instances of StatusLogin: a tick is half a minute, so that a mail may    *)
(* take less or more than the resend interval; the ten minutes are cut down *)
(* to a few ticks, enough for a second request within them.                 *)
(***************************************************************************)
EXTENDS StatusLogin, TLC

Symmetry == Permutations(Requests)

=============================================================================
