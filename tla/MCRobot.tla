------------------------------- MODULE MCRobot -------------------------------
(***************************************************************************)
(* An instance of Robot: two hosts, whose rows are found by their own ids.  *)
(***************************************************************************)
EXTENDS Robot

CONSTANTS alpha, beta

MCHosts == {alpha, beta}
ExactRows == [h \in MCHosts |-> h]
Cycles == [h \in MCHosts |-> IF h = alpha THEN 3 ELSE 1]

=============================================================================
