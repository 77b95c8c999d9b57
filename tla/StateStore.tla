----------------------------- MODULE StateStore -----------------------------
(***************************************************************************)
(* state_store.py at the level of its system calls: the threads of several  *)
(* processes that open the store (StateStore(), a read without any lock)    *)
(* and update it (_update: the process-wide RLock, flock on state.json.lock,*)
(* reload, mutate, write a temporary file, os.replace, unlock).             *)
(*                                                                          *)
(* Any call that touches the file system may raise, and a process may be    *)
(* killed at any point.  The module implements AtomicDocument.              *)
(***************************************************************************)
EXTENDS Integers, Sequences

CONSTANTS
  Threads,      \* each opens the store once and may update it once
  Processes,
  ProcessOf,    \* the process of each thread
  NoThread,     \* nobody holds a lock
  NoFile,       \* the path does not exist
  Partial,      \* a file whose contents are incomplete
  Unseen,       \* a store that is not constructed yet
  MaxFaults,    \* bound: system calls that raise
  MaxCrashes    \* bound: processes killed

Documents == Seq(Threads)

ASSUME ThreadAssumption ==
  /\ NoThread \notin Threads
  /\ ProcessOf \in [Threads -> Processes]
ASSUME FileAssumption ==
  /\ NoFile \notin Documents /\ Partial \notin Documents /\ Unseen \notin Documents
  /\ NoFile # Partial
ASSUME BoundAssumption == MaxFaults \in Nat /\ MaxCrashes \in Nat

VARIABLES
  path,         \* state.json
  temp,         \* the temporary file of each thread
  rlock,        \* the holder of _PROCESS_LOCK, per process
  flock,        \* the holder of the flock on state.json.lock
  pc,           \* where each thread is
  state,        \* self.state of each thread's store
  view,         \* history: the document found at construction
  result,       \* failure_count as record_retry_failure computes it
  raised,       \* an exception is on its way out of _update
  faults, crashes

vars == <<path, temp, rlock, flock, pc, state, view, result, raised, faults, crashes>>

Files == Documents \union {NoFile, Partial}

\* The thread is inside "with self._PROCESS_LOCK", inside the flock, and has
\* not returned yet.
Guarded == {"locked", "loaded", "writing", "written", "leaving"}
Inside == {"entered", "unlocked"} \union Guarded
Finished == {"done", "failed", "dead"}
Phase == {"new", "open"} \union Inside \union Finished

TypeOK ==
  /\ path \in Files
  /\ temp \in [Threads -> Files]
  /\ rlock \in [Processes -> Threads \union {NoThread}]
  /\ flock \in Threads \union {NoThread}
  /\ pc \in [Threads -> Phase]
  /\ state \in [Threads -> Documents]
  /\ view \in [Threads -> Documents \union {Unseen}]
  /\ result \in [Threads -> Nat]
  /\ raised \in [Threads -> BOOLEAN]
  /\ faults \in Nat /\ crashes \in Nat

Init ==
  /\ path \in {NoFile, << >>}          \* the first start, or a later one
  /\ temp = [t \in Threads |-> NoFile]
  /\ rlock = [q \in Processes |-> NoThread]
  /\ flock = NoThread
  /\ pc = [t \in Threads |-> "new"]
  /\ state = [t \in Threads |-> << >>]
  /\ view = [t \in Threads |-> Unseen]
  /\ result = [t \in Threads |-> 0]
  /\ raised = [t \in Threads |-> FALSE]
  /\ faults = 0 /\ crashes = 0

At(t, phase) == pc[t] = phase
Become(t, phase) == pc' = [pc EXCEPT ![t] = phase]

Faults == faults < MaxFaults /\ faults' = faults + 1
Raises(t) == raised' = [raised EXCEPT ![t] = TRUE]

\* _load: an absent file is DEFAULT_STATE, a damaged one cannot be parsed.  An
\* open file keeps its contents when os.replace gives the path to another.
Readable == path # Partial

\* Variant: FileNotFoundError is not handled.
ContentsOfFile == path

Contents == IF path = NoFile THEN << >> ELSE path

\* StateStore(): self.state = self._load(), without a lock.
Construct(t) ==
  /\ At(t, "new")
  /\ \/ /\ Readable
        /\ Become(t, "open")
        /\ state' = [state EXCEPT ![t] = Contents]
        /\ view' = [view EXCEPT ![t] = Contents]
        /\ UNCHANGED <<raised, faults>>
     \/ /\ ~ Readable \/ faults < MaxFaults
        /\ Become(t, "failed")
        /\ Raises(t)
        /\ faults' = IF Readable THEN faults + 1 ELSE faults
        /\ UNCHANGED <<state, view>>
  /\ UNCHANGED <<path, temp, rlock, flock, result, crashes>>

\* with self._PROCESS_LOCK
Enter(t) ==
  /\ At(t, "open")
  /\ rlock[ProcessOf[t]] = NoThread
  /\ rlock' = [rlock EXCEPT ![ProcessOf[t]] = t]
  /\ Become(t, "entered")
  /\ UNCHANGED <<path, temp, flock, state, view, result, raised, faults, crashes>>

\* open(lock file), flock(LOCK_EX), which waits.
Lock(t) ==
  /\ At(t, "entered")
  /\ \/ /\ flock = NoThread
        /\ flock' = t
        /\ Become(t, "locked")
        /\ UNCHANGED <<raised, faults>>
     \/ /\ Faults /\ Raises(t)
        /\ Become(t, "unlocked")
        /\ UNCHANGED flock
  /\ UNCHANGED <<path, temp, rlock, state, view, result, crashes>>

\* Variant: the mutation is applied to what the store held before the lock.
LoadStale(t) ==
  /\ At(t, "locked")
  /\ Become(t, "loaded")
  /\ state' = [state EXCEPT ![t] = Append(state[t], t)]
  /\ result' = [result EXCEPT ![t] = Len(state[t]) + 1]
  /\ UNCHANGED <<path, temp, rlock, flock, view, raised, faults, crashes>>

\* self.state = self._load(); mutation(self.state)
Load(t) ==
  /\ At(t, "locked")
  /\ \/ /\ Readable
        /\ Become(t, "loaded")
        /\ state' = [state EXCEPT ![t] = Append(Contents, t)]
        /\ result' = [result EXCEPT ![t] = Len(Contents) + 1]
        /\ UNCHANGED <<raised, faults>>
     \/ /\ ~ Readable \/ faults < MaxFaults
        /\ Become(t, "leaving")
        /\ Raises(t)
        /\ faults' = IF Readable THEN faults + 1 ELSE faults
        /\ UNCHANGED <<state, result>>
  /\ UNCHANGED <<path, temp, rlock, flock, view, crashes>>

\* tempfile.mkstemp
MakeTemp(t) ==
  /\ At(t, "loaded")
  /\ \/ /\ temp' = [temp EXCEPT ![t] = Partial]
        /\ Become(t, "writing")
        /\ UNCHANGED <<raised, faults>>
     \/ /\ Faults /\ Raises(t)
        /\ Become(t, "leaving")
        /\ UNCHANGED temp
  /\ UNCHANGED <<path, rlock, flock, state, view, result, crashes>>

\* The exception handler of _save_unlocked: unlink the temporary file, raise.
Discard(t) ==
  /\ Faults /\ Raises(t)
  /\ temp' = [temp EXCEPT ![t] = NoFile]
  /\ Become(t, "leaving")

\* Variant: state.json is opened for writing itself.
WriteInPlace(t) ==
  /\ At(t, "writing")
  /\ path' = Partial
  /\ temp' = [temp EXCEPT ![t] = state[t]]
  /\ Become(t, "written")
  /\ UNCHANGED <<rlock, flock, state, view, result, raised, faults, crashes>>

\* Variant: no exception handler around the writing.
WriteLeaky(t) ==
  /\ At(t, "writing")
  /\ \/ /\ temp' = [temp EXCEPT ![t] = state[t]]
        /\ Become(t, "written")
        /\ UNCHANGED <<raised, faults>>
     \/ /\ Faults /\ Raises(t)
        /\ Become(t, "leaving")
        /\ UNCHANGED temp
  /\ UNCHANGED <<path, rlock, flock, state, view, result, crashes>>

\* json.dump, flush, fsync, close
Write(t) ==
  /\ At(t, "writing")
  /\ \/ /\ temp' = [temp EXCEPT ![t] = state[t]]
        /\ Become(t, "written")
        /\ UNCHANGED <<raised, faults>>
     \/ Discard(t)
  /\ UNCHANGED <<path, rlock, flock, state, view, result, crashes>>

\* os.replace(temporary_path, self.path)
Replace(t) ==
  /\ At(t, "written")
  /\ \/ /\ path' = temp[t]
        /\ temp' = [temp EXCEPT ![t] = NoFile]
        /\ Become(t, "leaving")
        /\ UNCHANGED <<raised, faults>>
     \/ Discard(t) /\ UNCHANGED path
  /\ UNCHANGED <<rlock, flock, state, view, result, crashes>>

\* Variant: the flock is only released when nothing was raised.
UnlockAfterSuccess(t) ==
  /\ At(t, "leaving")
  /\ flock' = IF raised[t] THEN flock ELSE NoThread
  /\ Become(t, "unlocked")
  /\ UNCHANGED <<path, temp, rlock, state, view, result, raised, faults, crashes>>

\* finally: flock(LOCK_UN), close
Unlock(t) ==
  /\ At(t, "leaving")
  /\ flock' = NoThread
  /\ Become(t, "unlocked")
  /\ UNCHANGED <<path, temp, rlock, state, view, result, raised, faults, crashes>>

\* The end of "with self._PROCESS_LOCK": _update returns or raises.
Exit(t) ==
  /\ At(t, "unlocked")
  /\ rlock' = [rlock EXCEPT ![ProcessOf[t]] = NoThread]
  /\ Become(t, IF raised[t] THEN "failed" ELSE "done")
  /\ UNCHANGED <<path, temp, flock, state, view, result, raised, faults, crashes>>

\* A process is killed: its locks are free, its temporary files stay.
Crash(q) ==
  LET victims == {t \in Threads : ProcessOf[t] = q /\ pc[t] \notin Finished}
  IN  /\ victims # {}
      /\ crashes < MaxCrashes
      /\ crashes' = crashes + 1
      /\ pc' = [t \in Threads |-> IF t \in victims THEN "dead" ELSE pc[t]]
      /\ rlock' = [rlock EXCEPT ![q] = NoThread]
      /\ flock' = IF flock \in victims THEN NoThread ELSE flock
      /\ UNCHANGED <<path, temp, state, view, result, raised, faults>>

\* An update that has begun.  Whether a thread opens the store, and whether it
\* updates it, is up to its caller.
Update(t) ==
  \/ Lock(t) \/ Load(t) \/ MakeTemp(t) \/ Write(t) \/ Replace(t)
  \/ Unlock(t) \/ Exit(t)

Next ==
  \/ \E t \in Threads : Construct(t) \/ Enter(t) \/ Update(t)
  \/ \E q \in Processes : Crash(q)

Spec == Init /\ [][Next]_vars

\* Every lock holder is a thread that is scheduled and waits for nothing but
\* the disk, and each thread updates once: waiting for a lock ends.
Fairness == \A t \in Threads : WF_vars(Update(t))

FairSpec == Spec /\ Fairness

(***************************************************************************)
(* Properties.                                                              *)
(***************************************************************************)

\* The update of the thread is in the document.
Committed(t) == \E i \in DOMAIN Contents : Contents[i] = t

\* The state of AtomicDocument that a state of this module stands for.
CallOf(t) ==
  CASE pc[t] = "dead"   -> "dead"
    [] pc[t] = "done"   -> "returned"
    [] pc[t] = "failed" -> "raised"
    [] pc[t] \notin Finished -> IF Committed(t) THEN "committed" ELSE "none"

Promise == INSTANCE AtomicDocument WITH
  doc    <- Contents,
  call   <- [t \in Threads |-> CallOf(t)],
  view   <- view,
  answer <- [t \in Threads |-> IF Committed(t) THEN result[t] ELSE 0]

\* The store implements an atomic document: the updates of all threads of all
\* processes take effect one by one at their os.replace.
ImplementsAtomicDocument == Promise!Spec

\* state.json is a whole document at every moment, whoever is killed while
\* writing it: a reader without a lock never fails to parse it.
NeverTorn == path # Partial

\* Updates that failed or finished leave no temporary file behind; only a
\* killed process does.
TempsCleaned == \A t \in Threads : pc[t] \in {"done", "failed"} => temp[t] = NoFile

\* An update that has begun comes to an end, although other processes wait for
\* the same lock and may raise or die while they hold it.
UpdatesEnd == \A t \in Threads : pc[t] \in Inside ~> pc[t] \in Finished

=============================================================================
