---------------------------- MODULE MCNotifications ----------------------------
(***************************************************************************)
(* The scheduler thread and the main thread of a service, and a process     *)
(* without mail on the same document.                                       *)
(***************************************************************************)
EXTENDS Notifications

CONSTANTS service, maintenance, other

TheProcessOf ==
  [x \in Callers \union Workers |-> IF x = other THEN maintenance ELSE service]

=============================================================================
