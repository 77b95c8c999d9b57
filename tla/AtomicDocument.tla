--------------------------- MODULE AtomicDocument ---------------------------
(***************************************************************************)
(* What StateStore promises the scheduler, web and notification threads     *)
(* that share state.json: each update takes effect as a whole or not at     *)
(* all, on top of every update that took effect before it; and whoever      *)
(* opens the store sees a document that all the updates up to some moment   *)
(* have produced.                                                           *)
(*                                                                          *)
(* A document is the sequence of the updates in it, so that an update that  *)
(* is lost, repeated or applied to stale contents shows.                    *)
(***************************************************************************)
EXTENDS Integers, Sequences

CONSTANTS Threads, Unseen

VARIABLES
  doc,      \* the updates that have taken effect, in their order
  call,     \* what each thread's call of _update has come to
  view,     \* the document each thread found when it opened the store
  answer    \* what a committed record_retry_failure returns

vars == <<doc, call, view, answer>>

Init ==
  /\ doc = << >>
  /\ call = [t \in Threads |-> "none"]
  /\ view = [t \in Threads |-> Unseen]
  /\ answer = [t \in Threads |-> 0]

\* A thread looks at the document, without a lock.
Look(t) ==
  /\ call[t] = "none" /\ view[t] = Unseen
  /\ view' = [view EXCEPT ![t] = doc]
  /\ UNCHANGED <<doc, call, answer>>

Commit(t) ==
  /\ call[t] = "none"
  /\ doc' = Append(doc, t)
  /\ call' = [call EXCEPT ![t] = "committed"]
  /\ answer' = [answer EXCEPT ![t] = Len(doc')]
  /\ UNCHANGED view

Return(t) ==
  /\ call[t] = "committed"
  /\ call' = [call EXCEPT ![t] = "returned"]
  /\ UNCHANGED <<doc, view, answer>>

\* The call raises: nothing of it took effect.
Raise(t) ==
  /\ call[t] = "none"
  /\ call' = [call EXCEPT ![t] = "raised"]
  /\ UNCHANGED <<doc, view, answer>>

\* Threads die with their process, before or after their update took effect.
Die(T) ==
  /\ \A t \in T : call[t] \in {"none", "committed"}
  /\ call' = [t \in Threads |-> IF t \in T THEN "dead" ELSE call[t]]
  /\ UNCHANGED <<doc, view, answer>>

Next ==
  \/ \E t \in Threads : Look(t) \/ Commit(t) \/ Return(t) \/ Raise(t)
  \/ \E T \in SUBSET Threads : Die(T)

Spec == Init /\ [][Next]_vars

=============================================================================
