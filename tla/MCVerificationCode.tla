-------------------------- MODULE MCVerificationCode --------------------------
(***************************************************************************)
(* Instances of VerificationCode: three codes, so that two mails can be     *)
(* about while a third is drawn.                                            *)
(***************************************************************************)
EXTENDS VerificationCode

CONSTANTS c1, c2, c3

=============================================================================
