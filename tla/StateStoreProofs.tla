-------------------------- MODULE StateStoreProofs --------------------------
(***************************************************************************)
(* StateStore implements AtomicDocument, for any number of threads and      *)
(* processes, whatever raises and whoever is killed.                        *)
(*                                                                          *)
(* The argument: between flock and its release a thread is alone (Alone),   *)
(* so the document it loaded is still the one at the path when it replaces  *)
(* it (Fresh), and the replacement is complete (Ready).                     *)
(***************************************************************************)
EXTENDS StateStore, TLAPS

Alone == \A t \in Threads : pc[t] \in Guarded => flock = t

Fresh ==
  \A t \in Threads : pc[t] \in {"loaded", "writing", "written"} =>
    state[t] = Append(Contents, t) /\ result[t] = Len(Contents) + 1

Ready == \A t \in Threads : pc[t] = "written" => temp[t] = state[t]

\* Where an update stands tells whether it is in the document.
Standing ==
  \A t \in Threads :
    /\ pc[t] \in {"new", "open", "entered", "locked", "loaded", "writing", "written"}
         => ~ Committed(t) /\ ~ raised[t]
    /\ pc[t] \in {"leaving", "unlocked"} => (Committed(t) <=> ~ raised[t])
    /\ pc[t] = "failed" => ~ Committed(t)
    /\ pc[t] = "done" => Committed(t)
    /\ pc[t] = "new" => view[t] = Unseen

Inv == TypeOK /\ NeverTorn /\ Alone /\ Fresh /\ Ready /\ Standing

(***************************************************************************)
(* Facts about the document.                                                *)
(***************************************************************************)

LEMMA ContentsType ==
  ASSUME TypeOK, NeverTorn
  PROVE  Contents \in Seq(Threads)
BY DEF TypeOK, NeverTorn, Files, Documents, Contents

\* Appending an update puts that update, and no other, into the document.
LEMMA AppendAdds ==
  ASSUME NEW S, NEW s \in Seq(S), NEW t \in S, NEW u \in S
  PROVE  /\ Append(s, t) \in Seq(S)
         /\ Len(Append(s, t)) = Len(s) + 1
         /\ (\E i \in DOMAIN Append(s, t) : Append(s, t)[i] = u)
              <=> u = t \/ \E i \in DOMAIN s : s[i] = u
<1>1. /\ Append(s, t) \in Seq(S) /\ Len(Append(s, t)) = Len(s) + 1
      /\ Len(s) \in Nat
  OBVIOUS
<1>2. DOMAIN s = 1 .. Len(s) /\ DOMAIN Append(s, t) = 1 .. Len(s) + 1
  BY <1>1
<1>3. \A i \in 1 .. Len(s) : Append(s, t)[i] = s[i]
  OBVIOUS
<1>4. Append(s, t)[Len(s) + 1] = t
  OBVIOUS
<1>5. Len(s) + 1 \in 1 .. Len(s) + 1 /\ \A i \in 1 .. Len(s) + 1 : i \in 1 .. Len(s) \/ i = Len(s) + 1
  BY <1>1
<1>6. \A i \in 1 .. Len(s) : i \in 1 .. Len(s) + 1
  BY <1>1
<1>7. QED
  BY <1>1, <1>2, <1>3, <1>4, <1>5, <1>6

\* A step that leaves the path alone leaves the document alone.
LEMMA SameDocument ==
  ASSUME path' = path
  PROVE  Contents' = Contents /\ (NeverTorn => NeverTorn')
         /\ \A t \in Threads : Committed(t)' = Committed(t)
BY DEF Contents, NeverTorn, Committed

(***************************************************************************)
(* The invariant.                                                           *)
(***************************************************************************)

LEMMA InitInv == Init => Inv
<1> SUFFICES ASSUME Init PROVE Inv
  OBVIOUS
<1>1. << >> \in Documents
  BY DEF Documents
<1>2. NoFile \in Files /\ path \in Files /\ path # Partial /\ Contents = << >>
  BY <1>1, FileAssumption DEF Init, Files, Contents
<1>3. \A t \in Threads : ~ Committed(t)
  BY <1>2 DEF Committed
<1>4. TypeOK
  BY <1>1, <1>2 DEF Init, TypeOK, Phase
<1>5. QED
  BY <1>2, <1>3, <1>4
     DEF Init, Inv, NeverTorn, Alone, Fresh, Ready, Standing, Guarded

LEMMA AppendType ==
  ASSUME NEW s \in Documents, NEW t \in Threads
  PROVE  Append(s, t) \in Documents /\ Len(s) + 1 \in Nat
BY DEF Documents

LEMMA RaisedType ==
  ASSUME TypeOK, NEW t \in Threads, raised' = raised \/ Raises(t)
  PROVE  raised' \in [Threads -> BOOLEAN]
<1>1. CASE raised' = raised
  BY <1>1 DEF TypeOK
<1>2. CASE Raises(t)
  BY <1>2 DEF TypeOK, Raises
<1>3. QED
  BY <1>1, <1>2

LEMMA ConstructInv ==
  ASSUME Inv, NEW t \in Threads, Construct(t)
  PROVE  Inv'
<1> USE DEF Inv, At, Become
<1>1. path' = path
  BY DEF Construct
<1>2. /\ Contents' = Contents /\ NeverTorn'
      /\ \A u \in Threads : Committed(u)' = Committed(u)
  BY <1>1, SameDocument
<1>3. TypeOK'
  <2>1. raised' \in [Threads -> BOOLEAN]
    BY RaisedType DEF Construct
  <2>2. pc' \in [Threads -> Phase]
    BY DEF Construct, TypeOK, Phase, Inside, Guarded, Finished
  <2>3. faults' \in Nat
    BY DEF Construct, Faults, TypeOK
  <2>4. Contents \in Documents
    BY ContentsType DEF Documents
  <2>5. state' \in [Threads -> Documents] /\ view' \in [Threads -> Documents \union {Unseen}]
    BY <2>4 DEF Construct, TypeOK
  <2>6. QED
    BY <2>1, <2>2, <2>3, <2>5 DEF Construct, TypeOK
<1>4. Alone'
  BY DEF Construct, TypeOK, Alone, Guarded
<1>5. Fresh'
  BY <1>2, <1>4 DEF Construct, TypeOK, Fresh, Guarded
<1>6. Ready'
  BY DEF Construct, TypeOK, Ready
<1>7. Standing'
  BY <1>2 DEF Construct, Raises, TypeOK, Standing
<1>8. QED
  BY <1>2, <1>3, <1>4, <1>5, <1>6, <1>7

LEMMA EnterInv ==
  ASSUME Inv, NEW t \in Threads, Enter(t)
  PROVE  Inv'
<1> USE DEF Inv, At, Become
<1>1. path' = path
  BY DEF Enter
<1>2. /\ Contents' = Contents /\ NeverTorn'
      /\ \A u \in Threads : Committed(u)' = Committed(u)
  BY <1>1, SameDocument
<1>3. TypeOK'
  BY ThreadAssumption DEF Enter, TypeOK, Phase, Inside, Guarded, Finished
<1>4. Alone'
  BY DEF Enter, TypeOK, Alone, Guarded
<1>5. Fresh'
  BY <1>2, <1>4 DEF Enter, TypeOK, Fresh, Guarded
<1>6. Ready'
  BY DEF Enter, TypeOK, Ready
<1>7. Standing'
  BY <1>2 DEF Enter, TypeOK, Standing
<1>8. QED
  BY <1>2, <1>3, <1>4, <1>5, <1>6, <1>7

LEMMA LockInv ==
  ASSUME Inv, NEW t \in Threads, Lock(t)
  PROVE  Inv'
<1> USE DEF Inv, At, Become
<1>1. path' = path
  BY DEF Lock
<1>2. /\ Contents' = Contents /\ NeverTorn'
      /\ \A u \in Threads : Committed(u)' = Committed(u)
  BY <1>1, SameDocument
<1>3. TypeOK'
  <2>1. raised' \in [Threads -> BOOLEAN]
    BY RaisedType DEF Lock
  <2>2. pc' \in [Threads -> Phase]
    BY DEF Lock, TypeOK, Phase, Inside, Guarded, Finished
  <2>3. faults' \in Nat
    BY DEF Lock, Faults, TypeOK
  <2>4. Contents \in Documents
    BY ContentsType DEF Documents
  <2>5. flock' \in Threads \union {NoThread}
    BY DEF Lock, TypeOK
  <2>6. QED
    BY <2>1, <2>2, <2>3, <2>5 DEF Lock, TypeOK
<1>4. Alone'
  BY ThreadAssumption DEF Lock, TypeOK, Alone, Guarded
<1>5. Fresh'
  BY <1>2, <1>4 DEF Lock, TypeOK, Fresh, Guarded
<1>6. Ready'
  BY DEF Lock, TypeOK, Ready
<1>7. Standing'
  BY <1>2 DEF Lock, Raises, TypeOK, Standing
<1>8. QED
  BY <1>2, <1>3, <1>4, <1>5, <1>6, <1>7

LEMMA LoadInv ==
  ASSUME Inv, NEW t \in Threads, Load(t)
  PROVE  Inv'
<1> USE DEF Inv, At, Become
<1>1. path' = path
  BY DEF Load
<1>2. /\ Contents' = Contents /\ NeverTorn'
      /\ \A u \in Threads : Committed(u)' = Committed(u)
  BY <1>1, SameDocument
<1>3. TypeOK'
  <2>1. raised' \in [Threads -> BOOLEAN]
    BY RaisedType DEF Load
  <2>2. pc' \in [Threads -> Phase]
    BY DEF Load, TypeOK, Phase, Inside, Guarded, Finished
  <2>3. faults' \in Nat
    BY DEF Load, Faults, TypeOK
  <2>4. Contents \in Documents
    BY ContentsType DEF Documents
  <2>5. state' \in [Threads -> Documents] /\ result' \in [Threads -> Nat]
    <3>1. Append(Contents, t) \in Documents /\ Len(Contents) + 1 \in Nat
      BY <2>4, AppendType
    <3>2. \/ UNCHANGED <<state, result>>
          \/ /\ state' = [state EXCEPT ![t] = Append(Contents, t)]
             /\ result' = [result EXCEPT ![t] = Len(Contents) + 1]
      BY DEF Load
    <3>3. CASE UNCHANGED <<state, result>>
      BY <3>3 DEF TypeOK
    <3>4. CASE /\ state' = [state EXCEPT ![t] = Append(Contents, t)]
               /\ result' = [result EXCEPT ![t] = Len(Contents) + 1]
      BY <3>1, <3>4 DEF TypeOK
    <3>5. QED
      BY <3>2, <3>3, <3>4
  <2>6. QED
    BY <2>1, <2>2, <2>3, <2>5 DEF Load, TypeOK
<1>4. Alone'
  BY DEF Load, TypeOK, Alone, Guarded
<1>5. Fresh'
  BY <1>2, <1>4 DEF Load, TypeOK, Fresh, Guarded
<1>6. Ready'
  BY DEF Load, TypeOK, Ready
<1>7. Standing'
  BY <1>2 DEF Load, Raises, TypeOK, Standing
<1>8. QED
  BY <1>2, <1>3, <1>4, <1>5, <1>6, <1>7

LEMMA MakeTempInv ==
  ASSUME Inv, NEW t \in Threads, MakeTemp(t)
  PROVE  Inv'
<1> USE DEF Inv, At, Become
<1>1. path' = path
  BY DEF MakeTemp
<1>2. /\ Contents' = Contents /\ NeverTorn'
      /\ \A u \in Threads : Committed(u)' = Committed(u)
  BY <1>1, SameDocument
<1>3. TypeOK'
  <2>1. raised' \in [Threads -> BOOLEAN]
    BY RaisedType DEF MakeTemp
  <2>2. pc' \in [Threads -> Phase]
    BY DEF MakeTemp, TypeOK, Phase, Inside, Guarded, Finished
  <2>3. faults' \in Nat
    BY DEF MakeTemp, Faults, TypeOK
  <2>4. Contents \in Documents
    BY ContentsType DEF Documents
  <2>5. temp' \in [Threads -> Files]
    BY DEF MakeTemp, TypeOK, Files
  <2>6. QED
    BY <2>1, <2>2, <2>3, <2>5 DEF MakeTemp, TypeOK
<1>4. Alone'
  BY DEF MakeTemp, TypeOK, Alone, Guarded
<1>5. Fresh'
  BY <1>2, <1>4 DEF MakeTemp, TypeOK, Fresh, Guarded
<1>6. Ready'
  BY DEF MakeTemp, TypeOK, Ready
<1>7. Standing'
  BY <1>2 DEF MakeTemp, Raises, TypeOK, Standing
<1>8. QED
  BY <1>2, <1>3, <1>4, <1>5, <1>6, <1>7

LEMMA WriteInv ==
  ASSUME Inv, NEW t \in Threads, Write(t)
  PROVE  Inv'
<1> USE DEF Inv, At, Become
<1>1. path' = path
  BY DEF Write, Discard
<1>2. /\ Contents' = Contents /\ NeverTorn'
      /\ \A u \in Threads : Committed(u)' = Committed(u)
  BY <1>1, SameDocument
<1>3. TypeOK'
  <2>1. raised' \in [Threads -> BOOLEAN]
    BY RaisedType DEF Write, Discard
  <2>2. pc' \in [Threads -> Phase]
    BY DEF Write, Discard, TypeOK, Phase, Inside, Guarded, Finished
  <2>3. faults' \in Nat
    BY DEF Write, Faults, Discard, TypeOK
  <2>4. Contents \in Documents
    BY ContentsType DEF Documents
  <2>5. temp' \in [Threads -> Files]
    BY DEF Write, Discard, TypeOK, Files
  <2>6. QED
    BY <2>1, <2>2, <2>3, <2>5 DEF Write, Discard, TypeOK
<1>4. Alone'
  BY DEF Write, Discard, TypeOK, Alone, Guarded
<1>5. Fresh'
  BY <1>2, <1>4 DEF Write, Discard, TypeOK, Fresh, Guarded
<1>6. Ready'
  BY DEF Write, Discard, TypeOK, Ready
<1>7. Standing'
  BY <1>2 DEF Write, Discard, Raises, TypeOK, Standing
<1>8. QED
  BY <1>2, <1>3, <1>4, <1>5, <1>6, <1>7

LEMMA UnlockInv ==
  ASSUME Inv, NEW t \in Threads, Unlock(t)
  PROVE  Inv'
<1> USE DEF Inv, At, Become
<1>1. path' = path
  BY DEF Unlock
<1>2. /\ Contents' = Contents /\ NeverTorn'
      /\ \A u \in Threads : Committed(u)' = Committed(u)
  BY <1>1, SameDocument
<1>3. TypeOK'
  BY ThreadAssumption DEF Unlock, TypeOK, Phase, Inside, Guarded, Finished
<1>4. Alone'
  BY DEF Unlock, TypeOK, Alone, Guarded
<1>5. Fresh'
  BY <1>2, <1>4 DEF Unlock, TypeOK, Fresh, Guarded
<1>6. Ready'
  BY DEF Unlock, TypeOK, Ready
<1>7. Standing'
  BY <1>2 DEF Unlock, TypeOK, Standing
<1>8. QED
  BY <1>2, <1>3, <1>4, <1>5, <1>6, <1>7

LEMMA ExitInv ==
  ASSUME Inv, NEW t \in Threads, Exit(t)
  PROVE  Inv'
<1> USE DEF Inv, At, Become
<1>1. path' = path
  BY DEF Exit
<1>2. /\ Contents' = Contents /\ NeverTorn'
      /\ \A u \in Threads : Committed(u)' = Committed(u)
  BY <1>1, SameDocument
<1>3. TypeOK'
  BY ThreadAssumption DEF Exit, TypeOK, Phase, Inside, Guarded, Finished
<1>4. Alone'
  BY DEF Exit, TypeOK, Alone, Guarded
<1>5. Fresh'
  BY <1>2, <1>4 DEF Exit, TypeOK, Fresh, Guarded
<1>6. Ready'
  BY DEF Exit, TypeOK, Ready
<1>7. Standing'
  BY <1>2 DEF Exit, TypeOK, Standing
<1>8. QED
  BY <1>2, <1>3, <1>4, <1>5, <1>6, <1>7

\* os.replace is the step at which an update takes effect, on top of the
\* document that was at the path since the thread loaded it.
LEMMA ReplaceCommits ==
  ASSUME Inv, NEW t \in Threads, At(t, "written"), path' = temp[t]
  PROVE  /\ Contents' = Append(Contents, t)
         /\ \A u \in Threads : Committed(u)' <=> u = t \/ Committed(u)
<1> USE DEF Inv, At
<1>1. path' = temp[t] /\ temp[t] = state[t] /\ state[t] = Append(Contents, t)
  BY DEF Ready, Fresh
<1>2. Contents \in Seq(Threads)
  BY ContentsType
<1>3. Append(Contents, t) # NoFile
  BY <1>2, AppendAdds, FileAssumption DEF Documents
<1>4. Contents' = Append(Contents, t)
  BY <1>1, <1>3 DEF Contents
<1>5. QED
  BY <1>2, <1>4, AppendAdds DEF Committed

LEMMA ReplaceInv ==
  ASSUME Inv, NEW t \in Threads, Replace(t)
  PROVE  Inv'
<1> USE DEF Inv, At, Become
<1>1. \A u \in Threads \ {t} : pc[u] \notin Guarded /\ pc'[u] = pc[u]
  BY DEF Replace, Discard, TypeOK, Alone, Guarded
<1>2. pc'[t] = "leaving" /\ pc' \in [Threads -> Phase]
  BY DEF Replace, Discard, TypeOK, Phase, Inside, Guarded
<1>3. Alone'
  BY <1>1, <1>2 DEF Replace, Alone, Guarded
<1>4. Fresh' /\ Ready'
  BY <1>1, <1>2 DEF Fresh, Ready, Guarded
<1>5. temp' \in [Threads -> Files] /\ faults' \in Nat
  BY DEF Replace, Discard, Faults, TypeOK, Files
<1>6. raised' \in [Threads -> BOOLEAN]
  BY RaisedType DEF Replace, Discard
<1>7. CASE Discard(t) /\ UNCHANGED path
  <2>1. /\ Contents' = Contents /\ NeverTorn'
        /\ \A u \in Threads : Committed(u)' = Committed(u)
    BY <1>7, SameDocument
  <2>2. TypeOK'
    BY <1>2, <1>5, <1>6, <1>7 DEF Replace, TypeOK
  <2>3. Standing'
    BY <1>1, <1>2, <1>7, <2>1 DEF Replace, Discard, Raises, TypeOK, Standing, Guarded
  <2>4. QED
    BY <1>3, <1>4, <2>1, <2>2, <2>3
<1>8. CASE path' = temp[t] /\ UNCHANGED <<raised, faults>>
  <2>1. /\ Contents' = Append(Contents, t)
        /\ \A u \in Threads : Committed(u)' <=> u = t \/ Committed(u)
    BY <1>8, ReplaceCommits DEF Replace
  <2>2. path' = state[t] /\ raised' = raised
    BY <1>8 DEF Replace, Ready
  <2>3. path' \in Documents
    BY <2>2 DEF TypeOK
  <2>4. NeverTorn' /\ path' \in Files
    BY <2>3, FileAssumption DEF NeverTorn, Files
  <2>5. TypeOK'
    BY <1>2, <1>5, <1>6, <2>4 DEF Replace, TypeOK
  <2>6. Standing'
    BY <1>1, <1>2, <2>1, <2>2 DEF Replace, TypeOK, Standing, Guarded
  <2>7. QED
    BY <1>3, <1>4, <2>4, <2>5, <2>6
<1>9. QED
  BY <1>7, <1>8 DEF Replace

LEMMA CrashInv ==
  ASSUME Inv, NEW q \in Processes, Crash(q)
  PROVE  Inv'
<1> USE DEF Inv
<1>1. /\ Contents' = Contents /\ NeverTorn'
      /\ \A u \in Threads : Committed(u)' = Committed(u)
  BY SameDocument DEF Crash
<1>2. \A t \in Threads : \/ pc'[t] = pc[t]
                         \/ pc'[t] = "dead" /\ ProcessOf[t] = q /\ pc[t] \notin Finished
  BY DEF Crash
<1>3. \A t \in Threads : ProcessOf[t] = q => pc'[t] \in Finished
  BY DEF Crash, Finished
<1>4. TypeOK'
  <2>1. pc' \in [Threads -> Phase]
    BY DEF Crash, TypeOK, Phase, Finished
  <2>2. rlock' \in [Processes -> Threads \union {NoThread}]
    BY DEF Crash, TypeOK
  <2>3. flock' \in Threads \union {NoThread} /\ crashes' \in Nat
    BY DEF Crash, TypeOK
  <2>4. QED
    BY <2>1, <2>2, <2>3 DEF Crash, TypeOK
<1>5. Alone'
  <2>1. SUFFICES ASSUME NEW t \in Threads, pc'[t] \in Guarded
                 PROVE  flock' = t
    BY DEF Alone
  <2>2. pc'[t] = pc[t] /\ ProcessOf[t] # q
    BY <1>2, <1>3, <2>1 DEF Guarded, Finished
  <2>3. flock = t
    BY <2>1, <2>2 DEF Alone
  <2>4. QED
    BY <2>2, <2>3 DEF Crash
<1>6. Fresh' /\ Ready'
  BY <1>1, <1>2 DEF Crash, Fresh, Ready
<1>7. Standing'
  BY <1>1, <1>2 DEF Crash, Standing
<1>8. QED
  BY <1>1, <1>4, <1>5, <1>6, <1>7

LEMMA NextInv ==
  ASSUME Inv, [Next]_vars
  PROVE  Inv'
<1>1. CASE UNCHANGED vars
  <2>1. /\ Contents' = Contents /\ NeverTorn'
        /\ \A u \in Threads : Committed(u)' = Committed(u)
    BY <1>1, SameDocument DEF vars, Inv
  <2>2. TypeOK'
    BY <1>1 DEF vars, Inv, TypeOK
  <2>3. QED
    BY <1>1, <2>1, <2>2 DEF vars, Inv, Alone, Fresh, Ready, Standing
<1>2. ASSUME NEW t \in Threads, Construct(t) \/ Enter(t) \/ Update(t)
      PROVE  Inv'
  BY <1>2, ConstructInv, EnterInv, LockInv, LoadInv, MakeTempInv, WriteInv,
     ReplaceInv, UnlockInv, ExitInv DEF Update
<1>3. QED
  BY <1>1, <1>2, CrashInv DEF Next

THEOREM Invariance == Spec => []Inv
BY InitInv, NextInv, PTL DEF Spec

\* Type correctness of the store, for any number of threads and processes.
THEOREM TypeCorrect == Spec => []TypeOK
BY Invariance, PTL DEF Inv

\* state.json is a complete document at every moment: the thread that writes
\* works on a file of its own until os.replace.
THEOREM NeverSeenTorn == Spec => []NeverTorn
BY Invariance, PTL DEF Inv

(***************************************************************************)
(* Temporary files.                                                         *)
(***************************************************************************)

\* A temporary file exists only while its thread writes it, or after the
\* thread was killed.
OwnTemps ==
  \A t \in Threads : pc[t] \notin {"writing", "written", "dead"} => temp[t] = NoFile

LEMMA TempKept ==
  ASSUME Inv, OwnTemps, NEW t \in Threads, NEW phase, Become(t, phase),
         pc[t] \notin {"writing", "written", "dead"}, temp' = temp
  PROVE  OwnTemps'
BY DEF Inv, TypeOK, Become, OwnTemps

LEMMA TempDropped ==
  ASSUME Inv, OwnTemps, NEW t \in Threads, NEW phase, Become(t, phase),
         temp' = [temp EXCEPT ![t] = NoFile]
  PROVE  OwnTemps'
BY DEF Inv, TypeOK, Become, OwnTemps

LEMMA TempFilled ==
  ASSUME Inv, OwnTemps, NEW t \in Threads, NEW phase \in {"writing", "written"},
         NEW file, Become(t, phase), temp' = [temp EXCEPT ![t] = file]
  PROVE  OwnTemps'
BY DEF Inv, TypeOK, Become, OwnTemps

LEMMA NextOwnTemps ==
  ASSUME Inv, OwnTemps, [Next]_vars
  PROVE  OwnTemps'
<1> USE DEF At
<1>1. ASSUME NEW t \in Threads,
             \/ Construct(t) \/ Enter(t) \/ Lock(t) \/ Load(t) \/ Unlock(t) \/ Exit(t)
      PROVE  OwnTemps'
  BY <1>1, TempKept DEF Construct, Enter, Lock, Load, Unlock, Exit
<1>2. ASSUME NEW t \in Threads, MakeTemp(t)
      PROVE  OwnTemps'
  BY <1>2, TempKept, TempFilled DEF MakeTemp
<1>3. ASSUME NEW t \in Threads, Write(t) \/ Replace(t)
      PROVE  OwnTemps'
  BY <1>3, TempFilled, TempDropped DEF Write, Replace, Discard
<1>4. ASSUME NEW q \in Processes, Crash(q)
      PROVE  OwnTemps'
  BY <1>4 DEF Crash, OwnTemps
<1>5. CASE UNCHANGED vars
  BY <1>5 DEF vars, OwnTemps
<1>6. QED
  BY <1>1, <1>2, <1>3, <1>4, <1>5 DEF Next, Update

\* An update that raises, at whichever call, removes its temporary file.
THEOREM TempsAlwaysCleaned == Spec => []TempsCleaned
<1>1. Init => OwnTemps
  BY DEF Init, OwnTemps
<1>2. OwnTemps => TempsCleaned
  BY DEF OwnTemps, TempsCleaned
<1>3. QED
  BY <1>1, <1>2, NextOwnTemps, Invariance, PTL DEF Spec

(***************************************************************************)
(* The refinement.                                                          *)
(***************************************************************************)

AnswerOf(t) == IF Committed(t) THEN result[t] ELSE 0

\* A step that neither replaces the file nor ends a call is invisible.
LEMMA Stutters ==
  ASSUME Contents' = Contents, view' = view,
         \A t \in Threads : CallOf(t)' = CallOf(t) /\ AnswerOf(t)' = AnswerOf(t)
  PROVE  UNCHANGED Promise!vars
<1>1. [t \in Threads |-> CallOf(t)]' = [t \in Threads |-> CallOf(t)]
  OBVIOUS
<1>2. [t \in Threads |-> IF Committed(t) THEN result[t] ELSE 0]'
        = [t \in Threads |-> IF Committed(t) THEN result[t] ELSE 0]
  BY DEF AnswerOf
<1>3. QED
  BY <1>1, <1>2 DEF Promise!vars

\* An answer is fixed once the update is in the document.
LEMMA AnswerKept ==
  ASSUME Inv, [Next]_vars, path' = path
  PROVE  \A t \in Threads : AnswerOf(t)' = AnswerOf(t)
<1>1. \A t \in Threads : Committed(t)' = Committed(t)
  BY SameDocument
<1>2. \A t \in Threads : Committed(t) => result'[t] = result[t]
  <2>1. ASSUME NEW u \in Threads, Load(u)
        PROVE  \A t \in Threads : Committed(t) => result'[t] = result[t]
    <3>1. ~ Committed(u)
      BY <2>1 DEF Inv, Standing, Load, At
    <3>2. \A t \in Threads \ {u} : result'[t] = result[t]
      BY <2>1 DEF Load, Inv, TypeOK
    <3>3. QED
      BY <3>1, <3>2
  <2>2. CASE UNCHANGED result
    BY <2>2
  <2>3. QED
    BY <2>1, <2>2 DEF Next, Update, vars, Construct, Enter, Lock, MakeTemp, Write,
          Replace, Unlock, Exit, Crash
<1>3. QED
  BY <1>1, <1>2 DEF AnswerOf

LEMMA InitRefines == Init => Promise!Init
<1> SUFFICES ASSUME Init PROVE Promise!Init
  OBVIOUS
<1>1. Contents = << >>
  BY FileAssumption DEF Init, Contents
<1>2. \A t \in Threads : ~ Committed(t)
  BY <1>1 DEF Committed
<1>3. \A t \in Threads : CallOf(t) = "none"
  BY <1>2 DEF Init, CallOf, Finished
<1>4. QED
  BY <1>1, <1>2, <1>3 DEF Init, Promise!Init

\* A thread that moves on inside its call does not change what the call has
\* come to.
LEMMA MovesOn ==
  ASSUME Inv, [Next]_vars, NEW t \in Threads, NEW phase,
         Become(t, phase), phase \notin Finished, pc[t] \notin Finished,
         path' = path, view' = view
  PROVE  UNCHANGED Promise!vars
<1>1. \A u \in Threads : AnswerOf(u)' = AnswerOf(u)
  BY AnswerKept
<1>2. Contents' = Contents /\ \A u \in Threads : Committed(u)' = Committed(u)
  BY SameDocument
<1>3. \A u \in Threads : CallOf(u)' = CallOf(u)
  <2>1. pc'[t] = phase /\ \A u \in Threads \ {t} : pc'[u] = pc[u]
    BY DEF Become, Inv, TypeOK
  <2>2. ASSUME NEW u \in Threads
        PROVE  CallOf(u)' = CallOf(u)
    <3>1. CASE u = t
      BY <1>2, <2>1, <3>1 DEF CallOf, Finished
    <3>2. CASE u # t
      BY <1>2, <2>1, <3>2 DEF CallOf
    <3>3. QED
      BY <3>1, <3>2
  <2>3. QED
    BY <2>2
<1>4. QED
  BY <1>1, <1>2, <1>3, Stutters

\* A call that ends changes its own standing only.
LEMMA Ends ==
  ASSUME Inv, [Next]_vars, NEW t \in Threads, NEW phase \in Finished,
         Become(t, phase), path' = path
  PROVE  /\ Contents' = Contents
         /\ [u \in Threads |-> CallOf(u)]'
              = [[u \in Threads |-> CallOf(u)] EXCEPT ![t] = CallOf(t)']
         /\ [u \in Threads |-> IF Committed(u) THEN result[u] ELSE 0]'
              = [u \in Threads |-> IF Committed(u) THEN result[u] ELSE 0]
<1>1. \A u \in Threads : AnswerOf(u)' = AnswerOf(u)
  BY AnswerKept
<1>2. Contents' = Contents /\ \A u \in Threads : Committed(u)' = Committed(u)
  BY SameDocument
<1>3. \A u \in Threads \ {t} : CallOf(u)' = CallOf(u)
  BY <1>2 DEF Become, Inv, TypeOK, CallOf
<1>4. QED
  BY <1>1, <1>2, <1>3 DEF AnswerOf

LEMMA ConstructRefines ==
  ASSUME Inv, [Next]_vars, NEW t \in Threads, Construct(t)
  PROVE  [Promise!Next]_Promise!vars
<1> USE DEF At
<1>1. pc[t] = "new" /\ view[t] = Unseen /\ CallOf(t) = "none" /\ path' = path
  BY DEF Construct, Inv, Standing, CallOf, Finished
<1>2. Contents' = Contents /\ \A u \in Threads : Committed(u)' = Committed(u)
  BY <1>1, SameDocument
<1>3. CASE Become(t, "open") /\ view' = [view EXCEPT ![t] = Contents]
  <2>1. \A u \in Threads : AnswerOf(u)' = AnswerOf(u)
    BY <1>1, AnswerKept
  <2>2. pc'[t] = "open" /\ \A u \in Threads \ {t} : pc'[u] = pc[u]
    BY <1>3 DEF Become, Inv, TypeOK
  <2>3. CallOf(t)' = "none"
    BY <1>1, <1>2, <2>2 DEF CallOf, Inv, Standing, Finished
  <2>4. \A u \in Threads \ {t} : CallOf(u)' = CallOf(u)
    BY <1>2, <2>2 DEF CallOf
  <2>5. \A u \in Threads : CallOf(u)' = CallOf(u)
    BY <1>1, <2>3, <2>4
  <2>6. Promise!Look(t)
    BY <1>1, <1>2, <1>3, <2>1, <2>5 DEF Promise!Look, AnswerOf
  <2>7. QED
    BY <2>6 DEF Promise!Next
<1>4. CASE Become(t, "failed") /\ UNCHANGED view
  <2>1. CallOf(t)' = "raised"
    <3>1. pc'[t] = "failed"
      BY <1>4 DEF Become, Inv, TypeOK
    <3>2. QED
      BY <3>1 DEF CallOf, Finished
  <2>2. Promise!Raise(t)
    BY <1>1, <1>4, <2>1, Ends DEF Promise!Raise, Finished
  <2>3. QED
    BY <2>2 DEF Promise!Next
<1>5. QED
  BY <1>3, <1>4 DEF Construct

LEMMA ReplaceRefines ==
  ASSUME Inv, [Next]_vars, NEW t \in Threads, Replace(t)
  PROVE  [Promise!Next]_Promise!vars
<1> USE DEF At
<1>1. CASE Discard(t) /\ UNCHANGED path
  BY <1>1, MovesOn DEF Replace, Discard, Finished
<1>2. CASE /\ path' = temp[t]
           /\ Become(t, "leaving")
  <2>1. /\ Contents' = Append(Contents, t)
        /\ \A u \in Threads : Committed(u)' <=> u = t \/ Committed(u)
    BY <1>2, ReplaceCommits DEF Replace
  <2>2. /\ pc[t] = "written" /\ ~ Committed(t) /\ result' = result
        /\ result[t] = Len(Contents) + 1
    BY DEF Replace, Inv, Standing, Fresh
  <2>3. pc'[t] = "leaving" /\ \A u \in Threads \ {t} : pc'[u] = pc[u]
    BY <1>2 DEF Become, Inv, TypeOK
  <2>4. CallOf(t) = "none" /\ CallOf(t)' = "committed"
    BY <2>1, <2>2, <2>3 DEF CallOf, Finished
  <2>5. \A u \in Threads \ {t} : CallOf(u)' = CallOf(u)
    BY <2>1, <2>3 DEF CallOf
  <2>6. [u \in Threads |-> CallOf(u)]'
          = [[u \in Threads |-> CallOf(u)] EXCEPT ![t] = "committed"]
    BY <2>4, <2>5
  <2>7. Len(Contents') = Len(Contents) + 1
    BY <2>1, ContentsType DEF Inv
  <2>8. [u \in Threads |-> IF Committed(u) THEN result[u] ELSE 0]'
          = [[u \in Threads |-> IF Committed(u) THEN result[u] ELSE 0]
               EXCEPT ![t] = Len(Contents')]
    BY <2>1, <2>2, <2>7
  <2>9. Promise!Commit(t)
    BY <2>1, <2>4, <2>6, <2>8 DEF Promise!Commit, Replace
  <2>10. QED
    BY <2>9 DEF Promise!Next
<1>3. QED
  BY <1>1, <1>2 DEF Replace

LEMMA ExitRefines ==
  ASSUME Inv, [Next]_vars, NEW t \in Threads, Exit(t)
  PROVE  [Promise!Next]_Promise!vars
<1> USE DEF At
<1>1. pc[t] = "unlocked" /\ path' = path /\ view' = view
  BY DEF Exit
<1>2. CASE raised[t]
  <2>1. CallOf(t) = "none" /\ CallOf(t)' = "raised"
    BY <1>1, <1>2 DEF Exit, Become, Inv, TypeOK, Standing, CallOf, Finished
  <2>2. Become(t, "failed")
    BY <1>2 DEF Exit
  <2>3. Promise!Raise(t)
    BY <1>1, <2>1, <2>2, Ends DEF Promise!Raise, Finished
  <2>4. QED
    BY <2>3 DEF Promise!Next
<1>3. CASE ~ raised[t]
  <2>1. CallOf(t) = "committed" /\ CallOf(t)' = "returned"
    BY <1>1, <1>3 DEF Exit, Become, Inv, TypeOK, Standing, CallOf, Finished
  <2>2. Become(t, "done")
    BY <1>3 DEF Exit
  <2>3. Promise!Return(t)
    BY <1>1, <2>1, <2>2, Ends DEF Promise!Return, Finished
  <2>4. QED
    BY <2>3 DEF Promise!Next
<1>4. QED
  BY <1>2, <1>3

LEMMA CrashRefines ==
  ASSUME Inv, [Next]_vars, NEW q \in Processes, Crash(q)
  PROVE  [Promise!Next]_Promise!vars
<1> DEFINE victims == {t \in Threads : ProcessOf[t] = q /\ pc[t] \notin Finished}
<1>1. /\ path' = path /\ view' = view
      /\ pc' = [t \in Threads |-> IF t \in victims THEN "dead" ELSE pc[t]]
  BY DEF Crash
<1>2. /\ Contents' = Contents
      /\ \A u \in Threads : Committed(u)' = Committed(u)
      /\ \A u \in Threads : AnswerOf(u)' = AnswerOf(u)
  BY <1>1, SameDocument, AnswerKept
<1>3. \A t \in victims : CallOf(t) \in {"none", "committed"}
  BY DEF CallOf, Finished
<1>4. ASSUME NEW t \in victims
      PROVE  CallOf(t)' = "dead"
  <2>1. pc'[t] = "dead"
    BY <1>1
  <2>2. QED
    BY <2>1 DEF CallOf, Finished
<1>5. \A t \in Threads \ victims : CallOf(t)' = CallOf(t)
  BY <1>1, <1>2 DEF CallOf
<1> HIDE DEF victims
<1>6. Promise!Die(victims)
  <2>1. [t \in Threads |-> CallOf(t)]'
          = [t \in Threads |-> IF t \in victims THEN "dead"
                                ELSE [u \in Threads |-> CallOf(u)][t]]
    BY <1>4, <1>5
  <2>2. victims \subseteq Threads
    BY DEF victims
  <2>3. \A t \in victims : [u \in Threads |-> CallOf(u)][t] \in {"none", "committed"}
    BY <1>3, <2>2
  <2>4. QED
    BY <1>1, <1>2, <2>1, <2>3 DEF Promise!Die, AnswerOf
<1>7. victims \in SUBSET Threads
  BY DEF victims
<1>8. QED
  BY <1>6, <1>7 DEF Promise!Next

LEMMA NextRefines ==
  ASSUME Inv, [Next]_vars
  PROVE  [Promise!Next]_Promise!vars
<1> USE DEF At
<1>1. CASE UNCHANGED vars
  <2>1. path' = path /\ pc' = pc /\ view' = view
    BY <1>1 DEF vars
  <2>2. /\ Contents' = Contents
        /\ \A u \in Threads : Committed(u)' = Committed(u)
        /\ \A u \in Threads : AnswerOf(u)' = AnswerOf(u)
    BY <2>1, SameDocument, AnswerKept
  <2>3. \A u \in Threads : CallOf(u)' = CallOf(u)
    BY <2>1, <2>2 DEF CallOf
  <2>4. QED
    BY <2>1, <2>2, <2>3, Stutters
<1>2. ASSUME NEW t \in Threads,
             Enter(t) \/ Lock(t) \/ Load(t) \/ MakeTemp(t) \/ Write(t) \/ Unlock(t)
      PROVE  UNCHANGED Promise!vars
  <2>1. path' = path /\ view' = view /\ pc[t] \notin Finished
    BY <1>2 DEF Enter, Lock, Load, MakeTemp, Write, Discard, Unlock, Finished
  <2>2. PICK phase \in {"entered", "locked", "loaded", "writing", "written",
                        "leaving", "unlocked"} : Become(t, phase)
    BY <1>2 DEF Enter, Lock, Load, MakeTemp, Write, Discard, Unlock
  <2>3. QED
    BY <2>1, <2>2, MovesOn DEF Finished
<1>3. ASSUME NEW t \in Threads, Construct(t) \/ Replace(t) \/ Exit(t)
      PROVE  [Promise!Next]_Promise!vars
  BY <1>3, ConstructRefines, ReplaceRefines, ExitRefines
<1>4. ASSUME NEW q \in Processes, Crash(q)
      PROVE  [Promise!Next]_Promise!vars
  BY <1>4, CrashRefines
<1>5. QED
  BY <1>1, <1>2, <1>3, <1>4 DEF Next, Update

\* The store implements an atomic document for any number of threads and
\* processes: no update is lost, repeated, mixed with another or applied to a
\* document that is not the latest.
THEOREM Refinement == Spec => ImplementsAtomicDocument
<1>1. Spec => Promise!Spec
  BY InitRefines, NextRefines, Invariance, PTL DEF Spec, Promise!Spec
<1>2. QED
  BY <1>1 DEF ImplementsAtomicDocument

(***************************************************************************)
(* The answers.                                                             *)
(***************************************************************************)

\* What record_retry_failure returns, on which the retry limit depends, is the number
\* of updates up to its own: each update is in the document once, at the place of its
\* answer, if and only if its call did not raise.
AnswersCount ==
  /\ \A i, j \in DOMAIN Contents : Contents[i] = Contents[j] => i = j
  /\ \A t \in Threads :
       /\ pc[t] = "done" => result[t] \in DOMAIN Contents /\ Contents[result[t]] = t
       /\ pc[t] = "failed" => ~ Committed(t)

\* The updates in the document, finished or not, are at the places of their answers.
PlacesInv ==
  \A i \in DOMAIN Contents : result[Contents[i]] = i

\* An answer says the place.
LEMMA PlacesGiveAnswers == Inv /\ PlacesInv => AnswersCount
<1> SUFFICES ASSUME Inv, PlacesInv
             PROVE  AnswersCount
  OBVIOUS
<1>1. \A i, j \in DOMAIN Contents : Contents[i] = Contents[j] => i = j
  BY DEF PlacesInv
<1>2. ASSUME NEW t \in Threads, pc[t] = "done"
      PROVE  result[t] \in DOMAIN Contents /\ Contents[result[t]] = t
  <2>1. PICK i \in DOMAIN Contents : Contents[i] = t
    BY <1>2 DEF Inv, Standing, Committed
  <2> QED
    BY <2>1 DEF PlacesInv
<1> QED
  BY <1>1, <1>2 DEF AnswersCount, Inv, Standing

\* PlacesInv is kept: a thread computes its answer before its update takes effect.
LEMMA PlacesStep ==
  ASSUME Inv, PlacesInv, [Next]_vars
  PROVE  PlacesInv'
<1>1. Contents \in Seq(Threads)
  BY ContentsType DEF Inv
<1>2. CASE path' = path
  <2>1. Contents' = Contents
    BY <1>2, SameDocument
  <2>2. \A t \in Threads : Committed(t) => result'[t] = result[t]
    BY <1>2, AnswerKept, SameDocument DEF AnswerOf
  <2>3. \A i \in DOMAIN Contents : Contents[i] \in Threads /\ Committed(Contents[i])
    BY <1>1 DEF Committed
  <2> QED
    BY <2>1, <2>2, <2>3 DEF PlacesInv
<1>3. ASSUME NEW t \in Threads, Replace(t), path' = temp[t]
      PROVE  PlacesInv'
  <2>1. Contents' = Append(Contents, t) /\ result' = result
    BY <1>3, ReplaceCommits DEF Replace
  <2>2. result[t] = Len(Contents) + 1
    BY <1>3 DEF Replace, At, Inv, Fresh
  <2>3. \A i \in DOMAIN Contents' :
          \/ i \in DOMAIN Contents /\ Contents'[i] = Contents[i]
          \/ i = Len(Contents) + 1 /\ Contents'[i] = t
    BY <1>1, <2>1
  <2> QED
    BY <2>1, <2>2, <2>3 DEF PlacesInv
<1>4. path' = path \/ \E t \in Threads : Replace(t) /\ path' = temp[t]
  BY DEF Next, Update, Construct, Enter, Lock, Load, MakeTemp, Write, Discard, Replace,
         Unlock, Exit, Crash, vars
<1> QED
  BY <1>2, <1>3, <1>4

\* Concurrent updates of any threads and processes are all counted, each once, and each
\* caller is told its own count; one that raised has left nothing in the document.
THEOREM EveryUpdateCounts == Spec => []AnswersCount
<1>1. Init => PlacesInv
  <2> SUFFICES ASSUME Init
               PROVE  PlacesInv
    OBVIOUS
  <2>1. Contents = << >>
    BY FileAssumption DEF Init, Contents
  <2> QED
    BY <2>1 DEF PlacesInv
<1> QED
  BY <1>1, PlacesStep, PlacesGiveAnswers, Invariance, PTL DEF Spec

(***************************************************************************)
(* The locks.                                                               *)
(***************************************************************************)

\* Both locks are held only by a thread that is where they are needed: whichever call
\* raised, and whoever was killed, they have been given back.
LocksReturned ==
  /\ flock # NoThread => pc[flock] \in Guarded
  /\ \A t \in Threads : pc[t] \in Inside => rlock[ProcessOf[t]] = t
  /\ \A q \in Processes :
       rlock[q] # NoThread => ProcessOf[rlock[q]] = q /\ pc[rlock[q]] \in Inside

\* The thread is in an update and waits for no lock.
GoesOn(t) ==
  \/ pc[t] \in Guarded \union {"unlocked"}
  \/ pc[t] = "entered" /\ flock = NoThread

\* While anyone is in an update, or waits to begin one, someone goes on.
SomeoneGoesOn ==
  /\ (\E t \in Threads : pc[t] \in Inside) => \E t \in Threads : GoesOn(t)
  /\ \A t \in Threads :
       At(t, "open") => rlock[ProcessOf[t]] = NoThread \/ \E u \in Threads : GoesOn(u)

LEMMA ReturnedMeansGoing == TypeOK /\ LocksReturned => SomeoneGoesOn
<1> SUFFICES ASSUME TypeOK, LocksReturned
             PROVE  SomeoneGoesOn
  OBVIOUS
<1>1. ASSUME NEW t \in Threads, pc[t] \in Inside
      PROVE  \E u \in Threads : GoesOn(u)
  <2>1. CASE GoesOn(t)
    BY <2>1
  <2>2. CASE ~ GoesOn(t)
    <3>1. flock \in Threads /\ pc[flock] \in Guarded
      BY <1>1, <2>2 DEF GoesOn, Inside, LocksReturned, TypeOK
    <3> QED
      BY <3>1 DEF GoesOn
  <2> QED
    BY <2>1, <2>2
<1>2. ASSUME NEW t \in Threads, rlock[ProcessOf[t]] # NoThread
      PROVE  \E u \in Threads : GoesOn(u)
  <2>1. /\ rlock[ProcessOf[t]] \in Threads
        /\ pc[rlock[ProcessOf[t]]] \in Inside
    BY <1>2, ThreadAssumption DEF LocksReturned, TypeOK
  <2> QED
    BY <1>1, <2>1
<1> QED
  BY <1>1, <1>2 DEF SomeoneGoesOn

\* LocksReturned is kept.
LEMMA LocksStep ==
  ASSUME Inv, LocksReturned, [Next]_vars
  PROVE  LocksReturned'
<1> USE ThreadAssumption DEF At, Become, Inv, TypeOK, Inside, Guarded
<1>1. ASSUME NEW t \in Threads, NEW phase, Become(t, phase), UNCHANGED <<flock, rlock>>,
             \/ pc[t] \in Guarded /\ phase \in Guarded
             \/ pc[t] = "entered" /\ phase = "unlocked"
             \/ pc[t] = "new" /\ phase \notin Inside
      PROVE  LocksReturned'
  BY <1>1 DEF LocksReturned
<1>2. ASSUME NEW t \in Threads,
             Construct(t) \/ Load(t) \/ MakeTemp(t) \/ Write(t) \/ Replace(t)
      PROVE  LocksReturned'
  <2>1. UNCHANGED <<flock, rlock>>
    BY <1>2 DEF Construct, Load, MakeTemp, Write, Replace
  <2>2. \E phase :
          /\ Become(t, phase)
          /\ (pc[t] \in Guarded /\ phase \in Guarded) \/ (pc[t] = "new" /\ phase \notin Inside)
    BY <1>2 DEF Construct, Load, MakeTemp, Write, Replace, Discard
  <2> QED
    BY <1>1, <2>1, <2>2
<1>3. ASSUME NEW t \in Threads, Lock(t)
      PROVE  LocksReturned'
  BY <1>3 DEF Lock, LocksReturned
<1>4. ASSUME NEW t \in Threads, Enter(t)
      PROVE  LocksReturned'
  BY <1>4 DEF Enter, LocksReturned
<1>5. ASSUME NEW t \in Threads, Unlock(t)
      PROVE  LocksReturned'
  BY <1>5 DEF Unlock, LocksReturned
<1>6. ASSUME NEW t \in Threads, Exit(t)
      PROVE  LocksReturned'
  BY <1>6 DEF Exit, LocksReturned, Alone
<1>7. ASSUME NEW q \in Processes, Crash(q)
      PROVE  LocksReturned'
  BY <1>7 DEF Crash, LocksReturned, Finished
<1>8. CASE UNCHANGED vars
  BY <1>8 DEF vars, LocksReturned
<1> QED
  BY <1>2, <1>3, <1>4, <1>5, <1>6, <1>7, <1>8 DEF Next, Update

\* No update waits for a lock that nobody gives back: if a thread cannot go on, the
\* lock it waits for is held by one that can, or by one that waits for one that can.
THEOREM LocksAreReturned == Spec => [](LocksReturned /\ SomeoneGoesOn)
<1>1. Init => LocksReturned
  BY DEF Init, LocksReturned, Inside, Guarded
<1>2. Inv => TypeOK
  BY DEF Inv
<1> QED
  BY <1>1, <1>2, LocksStep, ReturnedMeansGoing, Invariance, PTL DEF Spec

(***************************************************************************)
(* The length of an update.                                                 *)
(***************************************************************************)

\* The most steps that the update of a thread has yet to take.
StepsLeft(t) ==
  CASE pc[t] = "entered" -> 7
    [] pc[t] = "locked"  -> 6
    [] pc[t] = "loaded"  -> 5
    [] pc[t] = "writing" -> 4
    [] pc[t] = "written" -> 3
    [] pc[t] = "leaving" -> 2
    [] pc[t] = "unlocked"-> 1
    [] pc[t] \notin Inside -> 0

\* Its own steps use them up, waits for a lock included; nothing that other threads
\* do, raise or die of adds to them.
UpdateIsSpent ==
  [][\A t \in Threads :
       /\ Update(t) => StepsLeft(t)' < StepsLeft(t)
       /\ StepsLeft(t)' > StepsLeft(t) => Enter(t)]_vars

\* The cases of StepsLeft are disjoint, and there is no other.
Ranked ==
  \A t \in Threads :
    /\ pc[t] = "entered" => StepsLeft(t) = 7
    /\ pc[t] = "locked" => StepsLeft(t) = 6
    /\ pc[t] = "loaded" => StepsLeft(t) = 5
    /\ pc[t] = "writing" => StepsLeft(t) = 4
    /\ pc[t] = "written" => StepsLeft(t) = 3
    /\ pc[t] = "leaving" => StepsLeft(t) = 2
    /\ pc[t] = "unlocked" => StepsLeft(t) = 1
    /\ pc[t] \notin Inside => StepsLeft(t) = 0
    /\ StepsLeft(t) \in 0 .. 7

LEMMA StepsLeftValue == Ranked
<1> SUFFICES ASSUME NEW t \in Threads
             PROVE  /\ pc[t] = "entered" => StepsLeft(t) = 7
                    /\ pc[t] = "locked" => StepsLeft(t) = 6
                    /\ pc[t] = "loaded" => StepsLeft(t) = 5
                    /\ pc[t] = "writing" => StepsLeft(t) = 4
                    /\ pc[t] = "written" => StepsLeft(t) = 3
                    /\ pc[t] = "leaving" => StepsLeft(t) = 2
                    /\ pc[t] = "unlocked" => StepsLeft(t) = 1
                    /\ pc[t] \notin Inside => StepsLeft(t) = 0
                    /\ StepsLeft(t) \in 0 .. 7
  BY DEF Ranked
<1> USE DEF StepsLeft, Inside, Guarded
<1>1. CASE pc[t] = "entered"
  BY <1>1
<1>2. CASE pc[t] = "locked"
  BY <1>2
<1>3. CASE pc[t] = "loaded"
  BY <1>3
<1>4. CASE pc[t] = "writing"
  BY <1>4
<1>5. CASE pc[t] = "written"
  BY <1>5
<1>6. CASE pc[t] = "leaving"
  BY <1>6
<1>7. CASE pc[t] = "unlocked"
  BY <1>7
<1>8. CASE pc[t] \notin Inside
  BY <1>8
<1> QED
  BY <1>1, <1>2, <1>3, <1>4, <1>5, <1>6, <1>7, <1>8

\* A step leads down the way from the first lock to the end.
LEMMA UpdateDescends ==
  ASSUME TypeOK, NEW t \in Threads, Update(t)
  PROVE  /\ \A u \in Threads \ {t} : pc'[u] = pc[u]
         /\ \/ pc[t] = "entered" /\ pc'[t] \in {"locked", "unlocked"}
            \/ pc[t] = "locked" /\ pc'[t] \in {"loaded", "leaving"}
            \/ pc[t] = "loaded" /\ pc'[t] \in {"writing", "leaving"}
            \/ pc[t] = "writing" /\ pc'[t] \in {"written", "leaving"}
            \/ pc[t] = "written" /\ pc'[t] = "leaving"
            \/ pc[t] = "leaving" /\ pc'[t] = "unlocked"
            \/ pc[t] = "unlocked" /\ pc'[t] \in {"failed", "done"}
<1> USE DEF TypeOK, At, Become
<1>1. CASE Lock(t)
  BY <1>1 DEF Lock
<1>2. CASE Load(t)
  BY <1>2 DEF Load
<1>3. CASE MakeTemp(t)
  BY <1>3 DEF MakeTemp
<1>4. CASE Write(t)
  BY <1>4 DEF Write, Discard
<1>5. CASE Replace(t)
  BY <1>5 DEF Replace, Discard
<1>6. CASE Unlock(t) \/ Exit(t)
  BY <1>6 DEF Unlock, Exit
<1> QED
  BY <1>1, <1>2, <1>3, <1>4, <1>5, <1>6 DEF Update

LEMMA SpentStep ==
  ASSUME TypeOK, Next, NEW t \in Threads
  PROVE  /\ Update(t) => StepsLeft(t)' < StepsLeft(t)
         /\ StepsLeft(t)' > StepsLeft(t) => Enter(t)
<1>1. Ranked /\ Ranked'
  <2>1. Ranked'
    BY StepsLeftValue, PTL
  <2> QED
    BY <2>1, StepsLeftValue
<1>2. Update(t) => StepsLeft(t)' < StepsLeft(t)
  <2>1. pc'[t] \in {"failed", "done"} => pc'[t] \notin Inside
    BY DEF Inside, Guarded
  <2> QED
    BY <1>1, <2>1, UpdateDescends DEF Ranked
<1>3. pc'[t] = pc[t] => StepsLeft(t)' = StepsLeft(t)
  BY DEF StepsLeft, Inside, Guarded
<1>4. pc'[t] \notin Inside => StepsLeft(t)' <= StepsLeft(t)
  BY <1>1 DEF Ranked
<1>5. CASE Update(t)
  BY <1>1, <1>2, <1>5 DEF Ranked
<1>6. ASSUME pc'[t] = pc[t] \/ pc'[t] \notin Inside \/ Enter(t), ~ Update(t)
      PROVE  StepsLeft(t)' > StepsLeft(t) => Enter(t)
  BY <1>1, <1>3, <1>4, <1>6 DEF Ranked
<1>7. ASSUME NEW u \in Threads, u # t, Construct(u) \/ Enter(u) \/ Update(u)
      PROVE  pc'[t] = pc[t]
  <2>1. CASE Update(u)
    BY <1>7, <2>1, UpdateDescends
  <2>2. CASE Construct(u) \/ Enter(u)
    BY <1>7, <2>2 DEF Construct, Enter, Become, TypeOK
  <2> QED
    BY <1>7, <2>1, <2>2
<1>8. CASE Construct(t)
  <2>1. pc'[t] \notin Inside
    BY <1>8 DEF Construct, Become, TypeOK, Inside, Guarded
  <2> QED
    BY <1>1, <1>2, <1>4, <2>1 DEF Ranked
<1>9. ASSUME NEW q \in Processes, Crash(q)
      PROVE  pc'[t] = pc[t] \/ pc'[t] \notin Inside
  BY <1>9 DEF Crash, Inside, Guarded
<1> QED
  BY <1>2, <1>5, <1>6, <1>7, <1>8, <1>9 DEF Next

\* An update takes at most seven steps of its own from the first lock on; with
\* LocksAreReturned, which says that somebody can always take one, this is why no
\* updates of any number of threads and processes hold each other up for ever.
THEOREM UpdatesAreShort == Spec => UpdateIsSpent
<1>1. TypeOK /\ [Next]_vars =>
        [\A t \in Threads :
           /\ Update(t) => StepsLeft(t)' < StepsLeft(t)
           /\ StepsLeft(t)' > StepsLeft(t) => Enter(t)]_vars
  BY SpentStep
<1> QED
  BY <1>1, TypeCorrect, PTL DEF Spec, UpdateIsSpent

=============================================================================
