---------------------------- MODULE MCStateStore ----------------------------
(***************************************************************************)
(* Two threads of one process (the scheduler and a web or notification      *)
(* thread) and one of another.                                              *)
(***************************************************************************)
EXTENDS StateStore

CONSTANTS t1, t2, t3, q1, q2

TheProcessOf == [t \in Threads |-> IF t = t3 THEN q2 ELSE q1]

=============================================================================
