--------------------------- MODULE DriveCustodyProofs ---------------------------
(***************************************************************************)
(* Machine-checked proofs about DriveCustody, for any packages, members,   *)
(* writers, hosts and bounds.                                              *)
(***************************************************************************)
EXTENDS DriveCustody, FiniteSetTheorems, TLAPS

USE DriveAssumption

(* A directory the store could hold is not the absence of one.             *)
LEMMA DirectoryExists == \A d \in Directories : d # NoDir
  BY DEF Directories

(* A freshly made staging directory is a directory.                        *)
LEMMA EmptyDirType == EmptyDir \in Directories
  BY DEF EmptyDir, Directories

(* Writing one member keeps a directory a directory.                       *)
LEMMA PutMember ==
  ASSUME NEW d \in Directories, NEW m \in Members, NEW b \in Bytes \cup {Missing}
  PROVE  [d EXCEPT ![m] = b] \in Directories
  BY DEF Directories

(* The step names the actions go to.                                       *)
LEMMA StepNames ==
  /\ "idle" \in Steps /\ "bind" \in Steps /\ "hash" \in Steps /\ "lock" \in Steps
  /\ "rejected" \in Steps /\ "parent" \in Steps /\ "list" \in Steps
  /\ "replay" \in Steps /\ "mkstage" \in Steps /\ "vfinal" \in Steps
  /\ "unlock" \in Steps /\ "copy" \in Steps /\ "recheck" \in Steps
  /\ "move" \in Steps /\ "purge" \in Steps
  BY DEF Steps, Unlocked, Locked, Staging

(* Initially nothing is stored, staged or running.                         *)
LEMMA InitTypeOK == Init => TypeOK
  BY EmptyDirType, StepNames DEF Init, TypeOK

(* Every step of a writer, an editor or the store keeps every variable in  *)
(* its type.                                                               *)
LEMMA NextTypeOK == IndInv /\ [Next]_vars => TypeOK'
<1> SUFFICES ASSUME IndInv, [Next]_vars PROVE TypeOK'
  OBVIOUS
<1> TypeOK /\ CallState /\ StagingPrivate /\ StagedVerified
  BY DEF IndInv
<1> USE EmptyDirType, StepNames
<1> USE DEF TypeOK, locals, remote, history,
            Goto, Continue, Raise, NoFault, Fault
<1>1. ASSUME NEW w \in Writers, Begin(w) PROVE TypeOK'
  BY <1>1 DEF Begin, Directories
<1>2. ASSUME NEW w \in Writers, BindJson(w) PROVE TypeOK'
  <2>1. UNCHANGED <<source, pkg, want, stageOf, stages, used, final, damaged, late,
                  acked, calls, lock, crashes, edits, faults, clean>>
    BY <1>2 DEF BindJson
  <2>2. pc' \in [Writers -> Steps]
    BY <1>2 DEF BindJson
  <2>3. outcome' \in [Writers -> {"none", "created", "replayed", "failed"}]
    BY <1>2 DEF BindJson
  <2> QED  BY <2>1, <2>2, <2>3
<1>3. ASSUME NEW w \in Writers, NEW m \in Members, HashMember(w, m) PROVE TypeOK'
  <2>1. UNCHANGED <<source, pkg, stageOf, stages, used, final, damaged, late,
                  acked, calls, lock, crashes, edits, faults, clean>>
    BY <1>3 DEF HashMember, Directories
  <2>2. pc' \in [Writers -> Steps]
    BY <1>3 DEF HashMember, Directories
  <2>3. outcome' \in [Writers -> {"none", "created", "replayed", "failed"}]
    BY <1>3 DEF HashMember, Directories
  <2>4. want' \in [Writers -> Directories]
    <3>1. source[w][m] \in Bytes \cup {Missing}
      BY DEF Directories
    <3>2. [want[w] EXCEPT ![m] = source[w][m]] \in Directories
      BY <3>1, PutMember
    <3> QED  BY <1>3, <3>2 DEF HashMember
  <2> QED  BY <2>1, <2>2, <2>3, <2>4
<1>4. ASSUME NEW w \in Writers, ValidateInputs(w) PROVE TypeOK'
  <2>1. UNCHANGED <<source, pkg, want, stageOf, stages, used, final, damaged, late,
                  acked, calls, lock, crashes, edits, faults, clean>>
    BY <1>4 DEF ValidateInputs
  <2>2. pc' \in [Writers -> Steps]
    BY <1>4 DEF ValidateInputs
  <2>3. outcome' \in [Writers -> {"none", "created", "replayed", "failed"}]
    BY <1>4 DEF ValidateInputs
  <2> QED  BY <2>1, <2>2, <2>3
<1>5. ASSUME NEW w \in Writers, AcquireLock(w) PROVE TypeOK'
  <2>1. UNCHANGED <<source, pkg, want, stageOf, stages, used, final, damaged, late,
                  acked, calls, crashes, edits>>
    BY <1>5 DEF AcquireLock
  <2>2. pc' \in [Writers -> Steps]
    BY <1>5 DEF AcquireLock
  <2>3. outcome' \in [Writers -> {"none", "created", "replayed", "failed"}]
    BY <1>5 DEF AcquireLock
  <2>4. lock' \in [Locks -> Writers \cup {None}]
    BY <1>5 DEF AcquireLock
  <2>5. faults' \in Nat
    BY <1>5 DEF AcquireLock
  <2>6. clean' \in [Writers -> BOOLEAN]
    BY <1>5 DEF AcquireLock
  <2> QED  BY <2>1, <2>2, <2>3, <2>4, <2>5, <2>6
<1>6. ASSUME NEW w \in Writers, MkdirFinalParent(w) PROVE TypeOK'
  <2>1. UNCHANGED <<source, pkg, want, stageOf, stages, used, final, damaged, late,
                  acked, calls, lock, crashes, edits>>
    BY <1>6 DEF MkdirFinalParent
  <2>2. pc' \in [Writers -> Steps]
    BY <1>6 DEF MkdirFinalParent
  <2>3. outcome' \in [Writers -> {"none", "created", "replayed", "failed"}]
    BY <1>6 DEF MkdirFinalParent
  <2>4. faults' \in Nat
    BY <1>6 DEF MkdirFinalParent
  <2>5. clean' \in [Writers -> BOOLEAN]
    BY <1>6 DEF MkdirFinalParent
  <2> QED  BY <2>1, <2>2, <2>3, <2>4, <2>5
<1>7. ASSUME NEW w \in Writers, ListFinal(w) PROVE TypeOK'
  <2>1. UNCHANGED <<source, pkg, want, stageOf, stages, used, final, damaged, late,
                  acked, calls, lock, crashes, edits>>
    BY <1>7 DEF ListFinal
  <2>2. pc' \in [Writers -> Steps]
    BY <1>7 DEF ListFinal
  <2>3. outcome' \in [Writers -> {"none", "created", "replayed", "failed"}]
    BY <1>7 DEF ListFinal
  <2>4. faults' \in Nat
    BY <1>7 DEF ListFinal
  <2>5. clean' \in [Writers -> BOOLEAN]
    BY <1>7 DEF ListFinal
  <2> QED  BY <2>1, <2>2, <2>3, <2>4, <2>5
<1>8. ASSUME NEW w \in Writers, VerifyReplay(w) PROVE TypeOK'
  <2>1. UNCHANGED <<source, pkg, want, stageOf, stages, used, final, damaged, late,
                  calls, lock, crashes, edits>>
    BY <1>8 DEF VerifyReplay, VerifyFinal, Acknowledge
  <2>2. pc' \in [Writers -> Steps]
    BY <1>8 DEF VerifyReplay, VerifyFinal, Acknowledge
  <2>3. outcome' \in [Writers -> {"none", "created", "replayed", "failed"}]
    BY <1>8 DEF VerifyReplay, VerifyFinal, Acknowledge
  <2>4. faults' \in Nat
    BY <1>8 DEF VerifyReplay, VerifyFinal, Acknowledge
  <2>5. clean' \in [Writers -> BOOLEAN]
    BY <1>8 DEF VerifyReplay, VerifyFinal, Acknowledge
  <2>6. acked' \in [Packages -> SUBSET Directories]
    BY <1>8 DEF VerifyReplay, VerifyFinal, Acknowledge
  <2> QED  BY <2>1, <2>2, <2>3, <2>4, <2>5, <2>6
<1>9. ASSUME NEW w \in Writers, VerifyPromoted(w) PROVE TypeOK'
  <2>1. UNCHANGED <<source, pkg, want, stageOf, stages, used, final, damaged, late,
                  calls, lock, crashes, edits>>
    BY <1>9 DEF VerifyPromoted, VerifyFinal, Acknowledge
  <2>2. pc' \in [Writers -> Steps]
    BY <1>9 DEF VerifyPromoted, VerifyFinal, Acknowledge
  <2>3. outcome' \in [Writers -> {"none", "created", "replayed", "failed"}]
    BY <1>9 DEF VerifyPromoted, VerifyFinal, Acknowledge
  <2>4. faults' \in Nat
    BY <1>9 DEF VerifyPromoted, VerifyFinal, Acknowledge
  <2>5. clean' \in [Writers -> BOOLEAN]
    BY <1>9 DEF VerifyPromoted, VerifyFinal, Acknowledge
  <2>6. acked' \in [Packages -> SUBSET Directories]
    BY <1>9 DEF VerifyPromoted, VerifyFinal, Acknowledge
  <2> QED  BY <2>1, <2>2, <2>3, <2>4, <2>5, <2>6
<1>10. ASSUME NEW w \in Writers, MkdirStaging(w) PROVE TypeOK'
  <2>1. UNCHANGED <<source, pkg, want, final, damaged, late,
                  acked, calls, lock, crashes, edits>>
    BY <1>10 DEF MkdirStaging, SetStage
  <2>2. pc' \in [Writers -> Steps]
    BY <1>10 DEF MkdirStaging, SetStage
  <2>3. outcome' \in [Writers -> {"none", "created", "replayed", "failed"}]
    BY <1>10 DEF MkdirStaging, SetStage
  <2>4. faults' \in Nat
    BY <1>10 DEF MkdirStaging, SetStage
  <2>5. clean' \in [Writers -> BOOLEAN]
    BY <1>10 DEF MkdirStaging, SetStage
  <2>6. stages' \in [StageIds -> Directories \cup {NoDir}]
    BY <1>10 DEF MkdirStaging, SetStage
  <2>7. used' \subseteq StageIds
    BY <1>10 DEF MkdirStaging, SetStage
  <2>8. stageOf' \in [Writers -> StageIds \cup {None}]
    BY <1>10 DEF MkdirStaging, SetStage
  <2> QED  BY <2>1, <2>2, <2>3, <2>4, <2>5, <2>6, <2>7, <2>8
<1>11. ASSUME NEW w \in Writers, NEW m \in Members, CopyMember(w, m) PROVE TypeOK'
  <2>1. UNCHANGED <<source, pkg, want, stageOf, used, final, damaged, late,
                  acked, calls, lock, crashes, edits>>
    BY <1>11 DEF CopyMember, SetStage, Directories
  <2>2. pc' \in [Writers -> Steps]
    BY <1>11 DEF CopyMember, SetStage, Directories
  <2>3. outcome' \in [Writers -> {"none", "created", "replayed", "failed"}]
    BY <1>11 DEF CopyMember, SetStage, Directories
  <2>4. faults' \in Nat
    BY <1>11 DEF CopyMember, SetStage, Directories
  <2>5. clean' \in [Writers -> BOOLEAN]
    BY <1>11 DEF CopyMember, SetStage, Directories
  <2>6. stages' \in [StageIds -> Directories \cup {NoDir}]
    <3>1. stages[stageOf[w]] \in Directories
      BY <1>11 DEF CopyMember, StagedVerified
    <3>2. \A b \in Bytes \cup {Missing} : [stages[stageOf[w]] EXCEPT ![m] = b] \in Directories
      BY <3>1, PutMember
    <3>3. source[w][m] \in Bytes \cup {Missing}
      BY DEF Directories
    <3> QED  BY <1>11, <3>2, <3>3 DEF CopyMember, SetStage
  <2> QED  BY <2>1, <2>2, <2>3, <2>4, <2>5, <2>6
<1>12. ASSUME NEW w \in Writers, VerifyStaging(w) PROVE TypeOK'
  <2>1. UNCHANGED <<source, pkg, want, stageOf, stages, used, final, damaged, late,
                  acked, calls, lock, crashes, edits>>
    BY <1>12 DEF VerifyStaging
  <2>2. pc' \in [Writers -> Steps]
    BY <1>12 DEF VerifyStaging
  <2>3. outcome' \in [Writers -> {"none", "created", "replayed", "failed"}]
    BY <1>12 DEF VerifyStaging
  <2>4. faults' \in Nat
    BY <1>12 DEF VerifyStaging
  <2>5. clean' \in [Writers -> BOOLEAN]
    BY <1>12 DEF VerifyStaging
  <2> QED  BY <2>1, <2>2, <2>3, <2>4, <2>5
<1>13. ASSUME NEW w \in Writers, RecheckAbsent(w) PROVE TypeOK'
  <2>1. UNCHANGED <<source, pkg, want, stageOf, stages, used, final, damaged, late,
                  acked, calls, lock, crashes, edits>>
    BY <1>13 DEF RecheckAbsent
  <2>2. pc' \in [Writers -> Steps]
    BY <1>13 DEF RecheckAbsent
  <2>3. outcome' \in [Writers -> {"none", "created", "replayed", "failed"}]
    BY <1>13 DEF RecheckAbsent
  <2>4. faults' \in Nat
    BY <1>13 DEF RecheckAbsent
  <2>5. clean' \in [Writers -> BOOLEAN]
    BY <1>13 DEF RecheckAbsent
  <2> QED  BY <2>1, <2>2, <2>3, <2>4, <2>5
<1>14. ASSUME NEW w \in Writers, MoveToFinal(w) PROVE TypeOK'
  <2>1. UNCHANGED <<source, pkg, want, stageOf, used, damaged,
                  acked, calls, lock, crashes, edits>>
    BY <1>14 DEF MoveToFinal, RemoteMove, SetStage, Directories
  <2>8. late' \subseteq StageIds \X Packages
    <3>1. <<stageOf[w], pkg[w]>> \in StageIds \X Packages
      BY <1>14 DEF MoveToFinal, StagingPrivate, Staging, CallState
    <3> QED  BY <1>14, <3>1 DEF MoveToFinal, AbandonMove
  <2>2. pc' \in [Writers -> Steps]
    BY <1>14 DEF MoveToFinal, RemoteMove, SetStage, Directories
  <2>3. outcome' \in [Writers -> {"none", "created", "replayed", "failed"}]
    BY <1>14 DEF MoveToFinal, RemoteMove, SetStage, Directories
  <2>4. faults' \in Nat
    BY <1>14 DEF MoveToFinal, RemoteMove, SetStage, Directories
  <2>5. clean' \in [Writers -> BOOLEAN]
    BY <1>14 DEF MoveToFinal, RemoteMove, SetStage, Directories
  <2>6. stages' \in [StageIds -> Directories \cup {NoDir}]
    BY <1>14 DEF MoveToFinal, RemoteMove, SetStage, Directories
  <2>7. final' \in [Packages -> Directories \cup {NoDir}]
    <3>1. stages[stageOf[w]] \in Directories
      BY <1>14 DEF MoveToFinal, StagedVerified
    <3> DEFINE merged(d) == [m \in Members |-> IF stages[stageOf[w]][m] = Missing
                                              THEN d[m] ELSE stages[stageOf[w]][m]]
               moved(d) == IF d = NoDir THEN stages[stageOf[w]] ELSE merged(d)
    <3>2. \A d \in Directories : merged(d) \in Directories
      BY <3>1 DEF Directories
    <3>3. \A d \in Directories \cup {NoDir} : moved(d) \in Directories \cup {NoDir}
      BY <3>1, <3>2
    <3>4. \/ final' = [final EXCEPT ![pkg[w]] = moved(final[pkg[w]])]
          \/ final' = final
      BY <1>14 DEF MoveToFinal, RemoteMove
    <3> HIDE DEF moved
    <3> QED  BY <3>3, <3>4
  <2> QED  BY <2>1, <2>2, <2>3, <2>4, <2>5, <2>6, <2>7, <2>8
<1>15. ASSUME NEW w \in Writers, PurgeStaging(w) PROVE TypeOK'
  <2>1. UNCHANGED <<source, pkg, want, stageOf, used, final, damaged, late,
                  acked, calls, lock, crashes, edits>>
    BY <1>15 DEF PurgeStaging, SetStage
  <2>2. pc' \in [Writers -> Steps]
    BY <1>15 DEF PurgeStaging, SetStage
  <2>3. outcome' \in [Writers -> {"none", "created", "replayed", "failed"}]
    BY <1>15 DEF PurgeStaging, SetStage
  <2>4. faults' \in Nat
    BY <1>15 DEF PurgeStaging, SetStage
  <2>5. clean' \in [Writers -> BOOLEAN]
    BY <1>15 DEF PurgeStaging, SetStage
  <2>6. stages' \in [StageIds -> Directories \cup {NoDir}]
    BY <1>15 DEF PurgeStaging, SetStage
  <2> QED  BY <2>1, <2>2, <2>3, <2>4, <2>5, <2>6
<1>16. ASSUME NEW w \in Writers, Return(w) PROVE TypeOK'
  BY <1>16 DEF Return, EndCall
<1>17. ASSUME NEW w \in Writers, Crash(w) PROVE TypeOK'
  <2>1. late' \subseteq StageIds \X Packages
    <3>1. pc[w] = "move" => <<stageOf[w], pkg[w]>> \in StageIds \X Packages
      BY DEF StagingPrivate, Staging, CallState
    <3> QED  BY <1>17, <3>1 DEF Crash, AbandonMove
  <2> QED  BY <1>17, <2>1 DEF Crash, EndCall
<1>18. ASSUME NEW w \in Writers, EditSource(w) PROVE TypeOK'
  BY <1>18 DEF EditSource, Directories
<1>19. ASSUME NEW p \in Packages, DamageFinal(p) PROVE TypeOK'
  BY <1>19 DEF DamageFinal, Directories
<1>20. ASSUME NEW p \in Packages, NEW s \in StageIds, LateMove(s, p) PROVE TypeOK'
  <2>1. UNCHANGED <<source, pkg, want, pc, stageOf, outcome, lock, used, damaged,
                    acked, calls, clean, faults, crashes, edits>> /\ late' \subseteq late
    BY <1>20 DEF LateMove
  <2>2. stages' \in [StageIds -> Directories \cup {NoDir}]
    BY <1>20 DEF LateMove, RemoteMove, SetStage
  <2>3. final' \in [Packages -> Directories \cup {NoDir}]
    <3> DEFINE merged(d) == [m \in Members |-> IF stages[s][m] = Missing
                                              THEN d[m] ELSE stages[s][m]]
               moved(d) == IF d = NoDir THEN stages[s] ELSE merged(d)
    <3>1. CASE stages[s] = NoDir
      BY <1>20, <3>1 DEF LateMove
    <3>2. CASE stages[s] \in Directories
      <4>1. \A d \in Directories : merged(d) \in Directories
        BY <3>2 DEF Directories
      <4>2. \A d \in Directories \cup {NoDir} : moved(d) \in Directories \cup {NoDir}
        BY <3>2, <4>1
      <4>3. final' = [final EXCEPT ![p] = moved(final[p])] \/ final' = final
        BY <1>20 DEF LateMove, RemoteMove
      <4> HIDE DEF moved
      <4> QED  BY <4>2, <4>3
    <3> QED  BY <3>1, <3>2
  <2> QED  BY <2>1, <2>2, <2>3
<1>21. CASE UNCHANGED vars
  BY <1>21 DEF vars
<1> QED
  BY <1>1, <1>2, <1>3, <1>4, <1>5, <1>6, <1>7, <1>8, <1>9, <1>10, <1>11, <1>12,
     <1>13, <1>14, <1>15, <1>16, <1>17, <1>18, <1>19, <1>20, <1>21 DEF Next, Step

---------------------------------------------------------------------------------
(* The writer lock.                                                        *)

(* Which steps of store_package are inside _writer_lock.                   *)
LEMMA SectionNames ==
  /\ "idle" \notin Locked /\ "bind" \notin Locked /\ "hash" \notin Locked
  /\ "lock" \notin Locked /\ "rejected" \notin Locked
  /\ "parent" \in Locked /\ "list" \in Locked /\ "replay" \in Locked
  /\ "mkstage" \in Locked /\ "vfinal" \in Locked /\ "unlock" \in Locked
  /\ "copy" \in Locked /\ "recheck" \in Locked /\ "move" \in Locked /\ "purge" \in Locked
  BY DEF Locked, Staging

(* A step that stays on its side of the lock leaves the lock state right.  *)
LEMMA SameSide ==
  ASSUME TypeOK, LockHeld, NEW w \in Writers, UNCHANGED lock,
         NEW s \in Steps, Goto(w, s), pc[w] \in Locked <=> s \in Locked
  PROVE  LockHeld'
  BY DEF TypeOK, LockHeld, Goto

(* The end of a call, by return or by kill, frees exactly the lock it held. *)
LEMMA EndCallFrees ==
  ASSUME TypeOK, LockHeld, NEW w \in Writers, EndCall(w)
  PROVE  LockHeld'
<1> SUFFICES ASSUME NEW v \in Writers PROVE pc'[v] \in Locked <=> lock'[LockOf[v]] = v
  BY DEF LockHeld
<1>1. LockOf[v] \in Locks
  OBVIOUS
<1>2. lock'[LockOf[v]] = IF lock[LockOf[v]] = w THEN None ELSE lock[LockOf[v]]
  BY <1>1 DEF EndCall
<1>3. pc'[v] = IF v = w THEN "idle" ELSE pc[v]
  BY DEF EndCall, Goto, TypeOK
<1> QED  BY <1>2, <1>3, SectionNames DEF LockHeld

(* LockHeld is preserved by every step.                                    *)
LEMMA NextLockHeld == IndInv /\ [Next]_vars => LockHeld'
<1> SUFFICES ASSUME IndInv, [Next]_vars PROVE LockHeld'
  OBVIOUS
<1> TypeOK /\ LockHeld
  BY DEF IndInv
<1> DEFINE stays(w) == \E s \in Steps : Goto(w, s) /\ (pc[w] \in Locked <=> s \in Locked)
<1>1. ASSUME NEW w \in Writers, stays(w), UNCHANGED lock PROVE LockHeld'
  BY <1>1, SameSide
<1>2. ASSUME NEW w \in Writers, Begin(w) PROVE LockHeld'
  <2>1. stays(w) /\ UNCHANGED lock
    BY <1>2, StepNames, SectionNames DEF Begin, Continue
  <2> QED  BY <2>1, <1>1
<1>3. ASSUME NEW w \in Writers, BindJson(w) PROVE LockHeld'
  <2>1. stays(w) /\ UNCHANGED lock
    BY <1>3, StepNames, SectionNames DEF BindJson, Continue, Raise
  <2> QED  BY <2>1, <1>1
<1>4. ASSUME NEW w \in Writers, NEW m \in Members, HashMember(w, m) PROVE LockHeld'
  <2>1. stays(w) /\ UNCHANGED lock
    BY <1>4, StepNames, SectionNames DEF HashMember, Continue, Raise
  <2> QED  BY <2>1, <1>1
<1>5. ASSUME NEW w \in Writers, ValidateInputs(w) PROVE LockHeld'
  <2>1. stays(w) /\ UNCHANGED lock
    BY <1>5, StepNames, SectionNames DEF ValidateInputs, Continue, Raise
  <2> QED  BY <2>1, <1>1
<1>6. ASSUME NEW w \in Writers, MkdirFinalParent(w) PROVE LockHeld'
  <2>1. stays(w) /\ UNCHANGED lock
    BY <1>6, StepNames, SectionNames DEF MkdirFinalParent, Continue, Raise
  <2> QED  BY <2>1, <1>1
<1>7. ASSUME NEW w \in Writers, ListFinal(w) PROVE LockHeld'
  <2>1. stays(w) /\ UNCHANGED lock
    BY <1>7, StepNames, SectionNames DEF ListFinal, Continue, Raise
  <2> QED  BY <2>1, <1>1
<1>8. ASSUME NEW w \in Writers, VerifyReplay(w) PROVE LockHeld'
  <2>1. stays(w) /\ UNCHANGED lock
    BY <1>8, StepNames, SectionNames DEF VerifyReplay, VerifyFinal, Continue, Raise
  <2> QED  BY <2>1, <1>1
<1>9. ASSUME NEW w \in Writers, VerifyPromoted(w) PROVE LockHeld'
  <2>1. stays(w) /\ UNCHANGED lock
    BY <1>9, StepNames, SectionNames DEF VerifyPromoted, VerifyFinal, Continue, Raise
  <2> QED  BY <2>1, <1>1
<1>10. ASSUME NEW w \in Writers, MkdirStaging(w) PROVE LockHeld'
  <2>1. stays(w) /\ UNCHANGED lock
    BY <1>10, StepNames, SectionNames DEF MkdirStaging, Continue, Raise
  <2> QED  BY <2>1, <1>1
<1>11. ASSUME NEW w \in Writers, NEW m \in Members, CopyMember(w, m) PROVE LockHeld'
  <2>1. stays(w) /\ UNCHANGED lock
    BY <1>11, StepNames, SectionNames DEF CopyMember, Continue, Raise
  <2> QED  BY <2>1, <1>1
<1>12. ASSUME NEW w \in Writers, VerifyStaging(w) PROVE LockHeld'
  <2>1. stays(w) /\ UNCHANGED lock
    BY <1>12, StepNames, SectionNames DEF VerifyStaging, Continue, Raise
  <2> QED  BY <2>1, <1>1
<1>13. ASSUME NEW w \in Writers, RecheckAbsent(w) PROVE LockHeld'
  <2>1. stays(w) /\ UNCHANGED lock
    BY <1>13, StepNames, SectionNames DEF RecheckAbsent, Continue, Raise
  <2> QED  BY <2>1, <1>1
<1>14. ASSUME NEW w \in Writers, MoveToFinal(w) PROVE LockHeld'
  <2>1. stays(w) /\ UNCHANGED lock
    BY <1>14, StepNames, SectionNames DEF MoveToFinal, Continue, Raise
  <2> QED  BY <2>1, <1>1
<1>15. ASSUME NEW w \in Writers, PurgeStaging(w) PROVE LockHeld'
  <2>1. stays(w) /\ UNCHANGED lock
    BY <1>15, StepNames, SectionNames DEF PurgeStaging, Continue, Raise
  <2> QED  BY <2>1, <1>1
<1>16. ASSUME NEW w \in Writers, AcquireLock(w) PROVE LockHeld'
  <2>1. CASE Continue(w, "parent")
    BY <1>16, <2>1, SectionNames DEF AcquireLock, Continue, Raise, Goto, TypeOK, LockHeld
  <2>2. CASE UNCHANGED lock /\ Raise(w, "rejected")
    <3>1. stays(w)
      BY <1>16, <2>2, StepNames, SectionNames DEF AcquireLock, Raise
    <3> QED  BY <2>2, <3>1, <1>1
  <2> QED  BY <1>16, <2>1, <2>2 DEF AcquireLock
<1>17. ASSUME NEW w \in Writers, Return(w) PROVE LockHeld'
  BY <1>17, EndCallFrees DEF Return
<1>18. ASSUME NEW w \in Writers, Crash(w) PROVE LockHeld'
  BY <1>18, EndCallFrees DEF Crash
<1>19. ASSUME NEW w \in Writers, EditSource(w) PROVE LockHeld'
  BY <1>19 DEF EditSource, LockHeld
<1>20. ASSUME NEW p \in Packages, DamageFinal(p) PROVE LockHeld'
  BY <1>20 DEF DamageFinal, LockHeld
<1>21. ASSUME NEW p \in Packages, NEW s \in StageIds, LateMove(s, p) PROVE LockHeld'
  BY <1>21 DEF LateMove, LockHeld
<1>22. CASE UNCHANGED vars
  BY <1>22 DEF vars, LockHeld
<1> QED
  BY <1>2, <1>3, <1>4, <1>5, <1>6, <1>7, <1>8, <1>9, <1>10, <1>11, <1>12, <1>13,
     <1>14, <1>15, <1>16, <1>17, <1>18, <1>19, <1>20, <1>21, <1>22 DEF Next, Step

---------------------------------------------------------------------------------
(* Calls, staging and final directories.                                   *)

(* The part of the inductive invariant about calls and directories.        *)
CustodyInv == CallState /\ StagingPrivate /\ StagedVerified /\ FinalFaithful

(* A step of w that moves on without touching its package, its hashes or   *)
(* any directory.                                                          *)
Passes(w) ==
  /\ UNCHANGED <<pkg, want, stageOf, stages, used, final, damaged>>
  /\ \E s \in Steps :
       /\ Goto(w, s)
       /\ pc[w] # "idle" /\ s # "idle"
       /\ s \in {"lock"} \cup Locked => pc[w] \in {"lock"} \cup Locked
       /\ s \in Staging => pc[w] \in Staging
       /\ s # "copy"
       /\ s # "recheck"
       /\ s = "move" => pc[w] = "recheck"

(* Such a step (listing, verifying, returning to the lock's exit) keeps    *)
(* what is known of calls and directories.                                 *)
LEMMA PassesKeeps ==
  ASSUME IndInv, NEW w \in Writers, Passes(w)
  PROVE  CustodyInv'
<1> PICK s \in Steps :
       /\ Goto(w, s)
       /\ pc[w] # "idle" /\ s # "idle"
       /\ s \in {"lock"} \cup Locked => pc[w] \in {"lock"} \cup Locked
       /\ s \in Staging => pc[w] \in Staging
       /\ s # "copy"
       /\ s # "recheck"
       /\ s = "move" => pc[w] = "recheck"
  BY DEF Passes
<1> UNCHANGED <<pkg, want, stageOf, stages, used, final, damaged>>
  BY DEF Passes
<1>1. \A v \in Writers : pc'[v] = IF v = w THEN s ELSE pc[v]
  BY DEF IndInv, TypeOK, Goto
<1>2. CallState'
  BY <1>1 DEF IndInv, CallState, Complete
<1>3. StagingPrivate'
  BY <1>1 DEF IndInv, StagingPrivate
<1>4. StagedVerified'
  BY <1>1 DEF IndInv, StagedVerified
<1>5. FinalFaithful'
  BY DEF IndInv, FinalFaithful
<1> QED  BY <1>2, <1>3, <1>4, <1>5 DEF CustodyInv

(* A call that ends leaves every directory as it is.                       *)
LEMMA EndCallKeeps ==
  ASSUME IndInv, NEW w \in Writers, EndCall(w), UNCHANGED <<stages, used, final, damaged>>
  PROVE  CustodyInv'
<1>1. \A v \in Writers :
        /\ pc'[v] = IF v = w THEN "idle" ELSE pc[v]
        /\ want'[v] = IF v = w THEN EmptyDir ELSE want[v]
        /\ pkg'[v] = IF v = w THEN None ELSE pkg[v]
        /\ stageOf'[v] = IF v = w THEN None ELSE stageOf[v]
  BY DEF IndInv, TypeOK, EndCall, Goto
<1>2. CallState'
  BY <1>1, SectionNames DEF IndInv, CallState, Complete, EmptyDir
<1>3. StagingPrivate'
  BY <1>1, SectionNames DEF IndInv, StagingPrivate, Locked
<1>4. StagedVerified'
  BY <1>1 DEF IndInv, StagedVerified
<1>5. FinalFaithful'
  BY DEF IndInv, FinalFaithful
<1> QED  BY <1>2, <1>3, <1>4, <1>5 DEF CustodyInv

(* A call starts with nothing hashed and nothing staged.                   *)
LEMMA BeginKeeps ==
  ASSUME IndInv, NEW w \in Writers, Begin(w)
  PROVE  CustodyInv'
<1> UNCHANGED <<want, stageOf, stages, used, final, damaged>>
  BY DEF Begin, remote
<1> PICK p \in Packages : pkg' = [pkg EXCEPT ![w] = p]
  BY DEF Begin
<1>1. \A v \in Writers :
        /\ pc'[v] = IF v = w THEN "bind" ELSE pc[v]
        /\ pkg'[v] = IF v = w THEN p ELSE pkg[v]
  BY DEF IndInv, TypeOK, Begin, Continue, Goto
<1>2. want[w] = EmptyDir
  BY DEF IndInv, CallState, Begin
<1>3. CallState'
  BY <1>1, <1>2, SectionNames DEF IndInv, CallState, Complete, EmptyDir
<1>4. StagingPrivate'
  BY <1>1, SectionNames DEF IndInv, StagingPrivate, Locked
<1>5. StagedVerified'
  BY <1>1 DEF IndInv, StagedVerified
<1>6. FinalFaithful'
  BY DEF IndInv, FinalFaithful
<1> QED  BY <1>3, <1>4, <1>5, <1>6 DEF CustodyInv

(* A fingerprint-bound member enters want only with bytes of the package.  *)
LEMMA HashMemberKeeps ==
  ASSUME IndInv, NEW w \in Writers, NEW m \in Members, HashMember(w, m)
  PROVE  CustodyInv'
<1> UNCHANGED <<pkg, stageOf, stages, used, final, damaged>>
  BY DEF HashMember, remote
<1>1. \A v \in Writers : v # w => pc'[v] = pc[v] /\ want'[v] = want[v]
  BY DEF IndInv, TypeOK, HashMember, Continue, Raise, Goto
<1>2. pc[w] = "hash" /\ pc'[w] \in {"hash", "rejected"}
  BY DEF IndInv, TypeOK, HashMember, Continue, Raise, Goto
<1>3. \A n \in Members \ {Json} :
        want'[w][n] # Missing => want'[w][n] \in Bound[pkg[w]][n]
  <2>1. want[w] \in Directories
    BY DEF IndInv, TypeOK
  <2>2. \/ want' = want
        \/ /\ want'[w] = [want[w] EXCEPT ![m] = source[w][m]]
           /\ m # Json => source[w][m] \in Bound[pkg[w]][m]
    BY DEF IndInv, TypeOK, HashMember
  <2> QED  BY <2>1, <2>2 DEF IndInv, CallState, Directories
<1>4. CallState'
  BY <1>1, <1>2, <1>3, SectionNames DEF IndInv, CallState, Complete
<1>5. StagingPrivate'
  BY <1>1, <1>2, SectionNames DEF IndInv, StagingPrivate, Locked
<1>6. StagedVerified'
  BY <1>1, <1>2 DEF IndInv, StagedVerified
<1>7. FinalFaithful'
  BY DEF IndInv, FinalFaithful
<1> QED  BY <1>4, <1>5, <1>6, <1>7 DEF CustodyInv

(* A call reaches the lock only with every member hashed.                  *)
LEMMA ValidateInputsKeeps ==
  ASSUME IndInv, NEW w \in Writers, ValidateInputs(w)
  PROVE  CustodyInv'
<1> UNCHANGED <<pkg, want, stageOf, stages, used, final, damaged>>
  BY DEF ValidateInputs, remote, locals
<1>1. \A v \in Writers : v # w => pc'[v] = pc[v]
  BY DEF IndInv, TypeOK, ValidateInputs, Continue, Raise, Goto
<1>2. pc[w] = "hash" /\ pc'[w] \in {"lock", "rejected"} /\ Complete(want[w])
  BY DEF IndInv, TypeOK, ValidateInputs, Continue, Raise, Goto
<1>3. CallState'
  BY <1>1, <1>2, SectionNames DEF IndInv, CallState, Complete
<1>4. StagingPrivate'
  BY <1>1, <1>2, SectionNames DEF IndInv, StagingPrivate, Locked
<1>5. StagedVerified'
  BY <1>1, <1>2 DEF IndInv, StagedVerified
<1>6. FinalFaithful'
  BY DEF IndInv, FinalFaithful
<1> QED  BY <1>3, <1>4, <1>5, <1>6 DEF CustodyInv

(* A fresh UUID: no call stages there yet.                                 *)
LEMMA MkdirStagingKeeps ==
  ASSUME IndInv, NEW w \in Writers, MkdirStaging(w)
  PROVE  CustodyInv'
<1> UNCHANGED <<pkg, want, final, damaged>>
  BY DEF MkdirStaging
<1> PICK s \in StageIds \ used :
      /\ used' = used \cup {s}
      /\ stageOf' = [stageOf EXCEPT ![w] = s]
      /\ \/ stages' = [stages EXCEPT ![s] = EmptyDir] /\ Goto(w, "copy")
         \/ stages' = [stages EXCEPT ![s] = EmptyDir] /\ Goto(w, "unlock")
         \/ stages' = stages /\ Goto(w, "unlock")
  BY DEF MkdirStaging, SetStage, Continue, Raise
<1>1. \A v \in Writers : v # w => pc'[v] = pc[v] /\ stageOf'[v] = stageOf[v]
  BY DEF IndInv, TypeOK, Goto
<1>2. /\ pc[w] = "mkstage" /\ pc'[w] \in {"copy", "unlock"} /\ stageOf'[w] = s
      /\ pc'[w] = "copy" => stages'[s] = EmptyDir
  BY DEF IndInv, TypeOK, MkdirStaging, Goto
<1>3. CallState'
  BY <1>1, <1>2, SectionNames DEF IndInv, CallState, Complete
<1>4. \A v \in Writers : v # w /\ pc[v] \in Staging => stageOf[v] # s
  BY DEF IndInv, StagingPrivate
<1>5. StagingPrivate'
  BY <1>1, <1>2, <1>4 DEF IndInv, StagingPrivate, Staging
<1>6. \A v \in Writers : v # w /\ pc[v] \in Staging => stages'[stageOf[v]] = stages[stageOf[v]]
  BY <1>4 DEF IndInv, TypeOK, StagingPrivate
<1>7. StagedVerified'
  BY <1>1, <1>2, <1>6, EmptyDirType DEF IndInv, StagedVerified, Staging
<1>8. FinalFaithful'
  BY DEF IndInv, FinalFaithful
<1> QED  BY <1>3, <1>5, <1>7, <1>8 DEF CustodyInv

(* A step of w that writes only w's own staging directory.                 *)
LEMMA OwnStagingOnly ==
  ASSUME IndInv, NEW w \in Writers, pc[w] \in Staging,
         NEW d, stages' = [stages EXCEPT ![stageOf[w]] = d],
         NEW v \in Writers, v # w, pc[v] \in Staging
  PROVE  stages'[stageOf[v]] = stages[stageOf[v]]
  BY DEF IndInv, TypeOK, StagingPrivate

(* An upload, damaged on the way or not, touches only w's own staging.     *)
LEMMA CopyMemberKeeps ==
  ASSUME IndInv, NEW w \in Writers, NEW m \in Members, CopyMember(w, m)
  PROVE  CustodyInv'
<1> UNCHANGED <<pkg, want, stageOf, used, final, damaged>>
  BY DEF CopyMember, locals
<1>1. \A v \in Writers : v # w => pc'[v] = pc[v]
  BY DEF IndInv, TypeOK, CopyMember, Continue, Raise, Goto
<1>2. pc[w] = "copy" /\ pc'[w] \in {"copy", "purge"}
  BY DEF IndInv, TypeOK, CopyMember, Continue, Raise, Goto
<1>3. CallState'
  BY <1>1, <1>2, SectionNames DEF IndInv, CallState, Complete
<1>4. StagingPrivate'
  BY <1>1, <1>2 DEF IndInv, StagingPrivate, Staging
<1>5. \E d \in Directories : stages' = [stages EXCEPT ![stageOf[w]] = d]
  <2>1. stages[stageOf[w]] \in Directories
    BY <1>2 DEF IndInv, StagedVerified
  <2>2. \A b \in Bytes \cup {Missing} : [stages[stageOf[w]] EXCEPT ![m] = b] \in Directories
    BY <2>1, PutMember
  <2>3. source[w][m] \in Bytes \cup {Missing}
    BY DEF IndInv, TypeOK, Directories
  <2>4. stages = [stages EXCEPT ![stageOf[w]] = stages[stageOf[w]]]
    BY DEF IndInv, TypeOK
  <2> QED  BY <2>1, <2>2, <2>3, <2>4 DEF CopyMember, SetStage
<1>6. \A v \in Writers : v # w /\ pc[v] \in Staging => stages'[stageOf[v]] = stages[stageOf[v]]
  BY <1>2, <1>5, OwnStagingOnly DEF Staging
<1>7. stages'[stageOf[w]] \in Directories
  BY <1>2, <1>5 DEF IndInv, TypeOK, StagingPrivate, Staging
<1>8. StagedVerified'
  BY <1>1, <1>2, <1>6, <1>7 DEF IndInv, StagedVerified, Staging
<1>9. FinalFaithful'
  BY DEF IndInv, FinalFaithful
<1> QED  BY <1>3, <1>4, <1>8, <1>9 DEF CustodyInv

(* Only a staging directory equal to want goes on to be promoted.          *)
LEMMA VerifyStagingKeeps ==
  ASSUME IndInv, NEW w \in Writers, VerifyStaging(w)
  PROVE  CustodyInv'
<1> UNCHANGED <<pkg, want, stageOf, stages, used, final, damaged>>
  BY DEF VerifyStaging, remote, locals
<1>1. \A v \in Writers : v # w => pc'[v] = pc[v]
  BY DEF IndInv, TypeOK, VerifyStaging, Continue, Raise, Goto
<1>2. /\ pc[w] = "copy" /\ pc'[w] \in {"recheck", "purge"}
      /\ pc'[w] = "recheck" => stages[stageOf[w]] = want[w]
  BY DEF IndInv, TypeOK, VerifyStaging, Verified, Continue, Raise, Goto
<1>3. CallState'
  BY <1>1, <1>2, SectionNames DEF IndInv, CallState, Complete
<1>4. StagingPrivate'
  BY <1>1, <1>2 DEF IndInv, StagingPrivate, Staging
<1>5. StagedVerified'
  BY <1>1, <1>2 DEF IndInv, StagedVerified
<1>6. FinalFaithful'
  BY DEF IndInv, FinalFaithful
<1> QED  BY <1>3, <1>4, <1>5, <1>6 DEF CustodyInv

(* What a writer about to move has staged: exactly its package.            *)
LEMMA StagedFaithful ==
  ASSUME IndInv, NEW w \in Writers, pc[w] = "move"
  PROVE  /\ pkg[w] \in Packages
         /\ stages[stageOf[w]] = want[w]
         /\ Complete(want[w])
         /\ Faithful(pkg[w], want[w])
<1>1. pkg[w] \in Packages /\ stages[stageOf[w]] = want[w] /\ Complete(want[w])
  BY SectionNames DEF IndInv, CallState, StagedVerified
<1>2. want[w] \in [Members -> Bytes]
  BY <1>1 DEF IndInv, TypeOK, Complete, Directories
<1>3. \A m \in Members \ {Json} : want[w][m] \in Bound[pkg[w]][m]
  BY <1>1 DEF IndInv, CallState, Complete
<1> QED  BY <1>1, <1>2, <1>3 DEF Faithful

(* Merging a complete staging directory leaves nothing of what was there.  *)
LEMMA MovePromotes ==
  ASSUME IndInv, NEW w \in Writers, MoveToFinal(w)
  PROVE  \/ /\ final' = [final EXCEPT ![pkg[w]] = want[w]]
            /\ stages' = [stages EXCEPT ![stageOf[w]] = NoDir]
         \/ UNCHANGED <<final, stages>>
<1>1. pc[w] = "move"
  BY DEF MoveToFinal
<1>2. /\ stages[stageOf[w]] = want[w] /\ Complete(want[w])
      /\ want[w] \in [Members -> Bytes]
  BY <1>1, StagedFaithful DEF Faithful
<1> DEFINE merged == [m \in Members |-> IF want[w][m] = Missing
                                        THEN final[pkg[w]][m] ELSE want[w][m]]
<1>3. merged = want[w]
  BY <1>2 DEF Complete
<1>4. CASE RemoteMove(stageOf[w], pkg[w])
  <2>1. final' = [final EXCEPT ![pkg[w]] = IF final[pkg[w]] = NoDir THEN want[w] ELSE merged]
    BY <1>2, <1>4 DEF RemoteMove
  <2>2. final' = [final EXCEPT ![pkg[w]] = want[w]]
    BY <2>1, <1>3
  <2> QED  BY <1>4, <2>2 DEF RemoteMove, SetStage
<1> QED  BY <1>4 DEF MoveToFinal

(* The moveto, applied or not, leaves the final directory faithful: even a *)
(* merge into an existing one replaces every member with a hashed one.     *)
LEMMA MoveToFinalKeeps ==
  ASSUME IndInv, NEW w \in Writers, MoveToFinal(w)
  PROVE  CustodyInv'
<1> UNCHANGED <<pkg, want, stageOf, used, damaged>>
  BY DEF MoveToFinal, locals
<1>1. \A v \in Writers : v # w => pc'[v] = pc[v]
  BY DEF IndInv, TypeOK, MoveToFinal, Continue, Raise, Goto
<1>2. pc[w] = "move" /\ pc'[w] \in {"vfinal", "purge"}
  BY DEF IndInv, TypeOK, MoveToFinal, Continue, Raise, Goto
<1>3. CallState'
  BY <1>1, <1>2, SectionNames DEF IndInv, CallState, Complete
<1>4. StagingPrivate'
  BY <1>1, <1>2 DEF IndInv, StagingPrivate, Staging
<1>5. \A v \in Writers : v # w /\ pc[v] \in Staging => stages'[stageOf[v]] = stages[stageOf[v]]
  BY <1>2, MovePromotes, OwnStagingOnly DEF Staging
<1>6. StagedVerified'
  BY <1>1, <1>2, <1>5 DEF IndInv, StagedVerified, Staging
<1>7. FinalFaithful'
  <2>1. pkg[w] \in Packages /\ Faithful(pkg[w], want[w])
    BY <1>2, StagedFaithful
  <2>2. \A q \in Packages : final'[q] = final[q] \/ (q = pkg[w] /\ final'[q] = want[w])
    BY MovePromotes DEF IndInv, TypeOK
  <2> QED  BY <2>1, <2>2 DEF IndInv, FinalFaithful, Faithful
<1> QED  BY <1>3, <1>4, <1>6, <1>7 DEF CustodyInv

(* A purge removes this call's staging directory and no other.             *)
LEMMA PurgeStagingKeeps ==
  ASSUME IndInv, NEW w \in Writers, PurgeStaging(w)
  PROVE  CustodyInv'
<1> UNCHANGED <<pkg, want, stageOf, used, final, damaged>>
  BY DEF PurgeStaging, locals
<1>1. \A v \in Writers : v # w => pc'[v] = pc[v]
  BY DEF IndInv, TypeOK, PurgeStaging, Continue, Goto
<1>2. pc[w] = "purge" /\ pc'[w] = "unlock"
  BY DEF IndInv, TypeOK, PurgeStaging, Continue, Goto
<1>3. CallState'
  BY <1>1, <1>2, SectionNames DEF IndInv, CallState, Complete
<1>4. StagingPrivate'
  BY <1>1, <1>2 DEF IndInv, StagingPrivate, Staging
<1>5. \A v \in Writers : v # w /\ pc[v] \in Staging => stages'[stageOf[v]] = stages[stageOf[v]]
  BY <1>2, OwnStagingOnly DEF PurgeStaging, SetStage, Staging
<1>6. StagedVerified'
  BY <1>1, <1>2, <1>5 DEF IndInv, StagedVerified, Staging
<1>7. FinalFaithful'
  BY DEF IndInv, FinalFaithful
<1> QED  BY <1>3, <1>4, <1>6, <1>7 DEF CustodyInv

(* Damage is recorded, so it breaks no promise.                            *)
LEMMA DamageFinalKeeps ==
  ASSUME IndInv, NEW p \in Packages, DamageFinal(p)
  PROVE  CustodyInv'
<1> UNCHANGED <<pc, pkg, want, stageOf, stages, used>> /\ damaged' = damaged \cup {p}
  BY DEF DamageFinal, locals
<1>1. \A q \in Packages : q # p => final'[q] = final[q]
  BY DEF IndInv, TypeOK, DamageFinal
<1>2. CallState'
  BY DEF IndInv, CallState, Complete
<1>3. StagingPrivate'
  BY DEF IndInv, StagingPrivate
<1>4. StagedVerified'
  BY DEF IndInv, StagedVerified
<1>5. FinalFaithful'
  BY <1>1 DEF IndInv, FinalFaithful
<1> QED  BY <1>2, <1>3, <1>4, <1>5 DEF CustodyInv

(* A step that leaves calls and directories alone.                         *)
LEMMA IdleKeeps ==
  ASSUME IndInv, UNCHANGED <<pc, pkg, want, stageOf, stages, used, final, damaged>>
  PROVE  CustodyInv'
<1>1. CallState'
  BY DEF IndInv, CallState, Complete
<1>2. StagingPrivate'
  BY DEF IndInv, StagingPrivate
<1>3. StagedVerified'
  BY DEF IndInv, StagedVerified
<1>4. FinalFaithful'
  BY DEF IndInv, FinalFaithful
<1> QED  BY <1>1, <1>2, <1>3, <1>4 DEF CustodyInv

(* A late move carries a verified directory to its place, and takes no     *)
(* staging directory away from a running call.                             *)
LEMMA LateMoveKeeps ==
  ASSUME IndInv, NEW s \in StageIds, NEW p \in Packages, LateMove(s, p)
  PROVE  CustodyInv'
<1> UNCHANGED <<pc, pkg, want, stageOf, used, damaged>>
  BY DEF LateMove, locals
<1>1. CASE stages[s] = NoDir
  BY <1>1, IdleKeeps DEF LateMove
<1>2. CASE stages[s] # NoDir
  <2>1. Faithful(p, stages[s]) /\ \A w \in Writers : pc[w] \in Staging \ {"purge"} => stageOf[w] # s
    BY <1>2 DEF LateMove, IndInv, LateStaged
  <2>2. final' = [final EXCEPT ![p] = stages[s]] /\ stages' = [stages EXCEPT ![s] = NoDir]
    <3> DEFINE merged == [m \in Members |-> IF stages[s][m] = Missing
                                            THEN final[p][m] ELSE stages[s][m]]
    <3>1. merged = stages[s]
      BY <2>1 DEF Faithful
    <3>2. final' = [final EXCEPT ![p] = IF final[p] = NoDir THEN stages[s] ELSE merged]
      BY <1>2 DEF LateMove, RemoteMove
    <3> QED  BY <1>2, <3>1, <3>2 DEF LateMove, RemoteMove, SetStage
  <2>3. CallState'
    BY DEF IndInv, CallState, Complete
  <2>4. StagingPrivate'
    BY DEF IndInv, StagingPrivate
  <2>5. StagedVerified'
    BY <2>1, <2>2 DEF IndInv, TypeOK, StagedVerified, Staging, StagingPrivate
  <2>6. \A q \in Packages : final'[q] = final[q] \/ (q = p /\ final'[q] = stages[s])
    BY <2>2 DEF IndInv, TypeOK
  <2>7. FinalFaithful'
    BY <2>1, <2>6 DEF IndInv, FinalFaithful, Faithful
  <2> QED  BY <2>3, <2>4, <2>5, <2>7 DEF CustodyInv
<1> QED  BY <1>1, <1>2

(* Every step keeps the part of the invariant about calls and directories. *)
LEMMA NextCustodyInv == IndInv /\ [Next]_vars => CustodyInv'
<1> SUFFICES ASSUME IndInv, [Next]_vars PROVE CustodyInv'
  OBVIOUS
<1> USE DEF locals, remote, Continue, Raise
<1>1. ASSUME NEW w \in Writers, Begin(w) PROVE CustodyInv'
  BY <1>1, BeginKeeps
<1>2. ASSUME NEW w \in Writers, BindJson(w) PROVE CustodyInv'
  <2>1. Passes(w)
    BY <1>2, StepNames, SectionNames DEF BindJson, Passes, Staging
  <2> QED  BY <2>1, PassesKeeps
<1>3. ASSUME NEW w \in Writers, NEW m \in Members, HashMember(w, m) PROVE CustodyInv'
  BY <1>3, HashMemberKeeps
<1>4. ASSUME NEW w \in Writers, ValidateInputs(w) PROVE CustodyInv'
  BY <1>4, ValidateInputsKeeps
<1>5. ASSUME NEW w \in Writers, AcquireLock(w) PROVE CustodyInv'
  <2>1. Passes(w)
    BY <1>5, StepNames, SectionNames DEF AcquireLock, Passes, Staging
  <2> QED  BY <2>1, PassesKeeps
<1>6. ASSUME NEW w \in Writers, MkdirFinalParent(w) PROVE CustodyInv'
  <2>1. Passes(w)
    BY <1>6, StepNames, SectionNames DEF MkdirFinalParent, Passes, Staging
  <2> QED  BY <2>1, PassesKeeps
<1>7. ASSUME NEW w \in Writers, ListFinal(w) PROVE CustodyInv'
  <2>1. Passes(w)
    BY <1>7, StepNames, SectionNames DEF ListFinal, Passes, Staging
  <2> QED  BY <2>1, PassesKeeps
<1>8. ASSUME NEW w \in Writers, VerifyReplay(w) PROVE CustodyInv'
  <2>1. Passes(w)
    BY <1>8, StepNames, SectionNames DEF VerifyReplay, VerifyFinal, Passes, Staging
  <2> QED  BY <2>1, PassesKeeps
<1>9. ASSUME NEW w \in Writers, VerifyPromoted(w) PROVE CustodyInv'
  <2>1. Passes(w)
    BY <1>9, StepNames, SectionNames DEF VerifyPromoted, VerifyFinal, Passes, Staging
  <2> QED  BY <2>1, PassesKeeps
<1>10. ASSUME NEW w \in Writers, MkdirStaging(w) PROVE CustodyInv'
  BY <1>10, MkdirStagingKeeps
<1>11. ASSUME NEW w \in Writers, NEW m \in Members, CopyMember(w, m) PROVE CustodyInv'
  BY <1>11, CopyMemberKeeps
<1>12. ASSUME NEW w \in Writers, VerifyStaging(w) PROVE CustodyInv'
  BY <1>12, VerifyStagingKeeps
<1>13. ASSUME NEW w \in Writers, RecheckAbsent(w) PROVE CustodyInv'
  <2>1. Passes(w)
    BY <1>13, StepNames, SectionNames DEF RecheckAbsent, Passes, Staging
  <2> QED  BY <2>1, PassesKeeps
<1>14. ASSUME NEW w \in Writers, MoveToFinal(w) PROVE CustodyInv'
  BY <1>14, MoveToFinalKeeps
<1>15. ASSUME NEW w \in Writers, PurgeStaging(w) PROVE CustodyInv'
  BY <1>15, PurgeStagingKeeps
<1>16. ASSUME NEW w \in Writers, Return(w) PROVE CustodyInv'
  BY <1>16, EndCallKeeps DEF Return
<1>17. ASSUME NEW w \in Writers, Crash(w) PROVE CustodyInv'
  BY <1>17, EndCallKeeps DEF Crash
<1>18. ASSUME NEW w \in Writers, EditSource(w) PROVE CustodyInv'
  BY <1>18, IdleKeeps DEF EditSource
<1>19. ASSUME NEW p \in Packages, DamageFinal(p) PROVE CustodyInv'
  BY <1>19, DamageFinalKeeps
<1>20. ASSUME NEW p \in Packages, NEW s \in StageIds, LateMove(s, p) PROVE CustodyInv'
  BY <1>20, LateMoveKeeps
<1>21. CASE UNCHANGED vars
  BY <1>21, IdleKeeps DEF vars
<1> QED
  BY <1>1, <1>2, <1>3, <1>4, <1>5, <1>6, <1>7, <1>8, <1>9, <1>10, <1>11, <1>12,
     <1>13, <1>14, <1>15, <1>16, <1>17, <1>18, <1>19, <1>20, <1>21 DEF Next, Step

---------------------------------------------------------------------------------
(* Moves that outlive their rclone.                                        *)

Active == Staging \ {"purge"}

(* A step that starts no staging and writes to none.                       *)
LEMMA NoStagingStarts ==
  ASSUME IndInv, UNCHANGED <<late, stages, used>>,
         \A v \in Writers : pc'[v] \in Active => pc[v] \in Active /\ stageOf'[v] = stageOf[v]
  PROVE  LateStaged'
  BY DEF IndInv, LateStaged, Faithful, Active

(* Such a step, when only the control state of w changes.                  *)
LEMMA GoesOn ==
  ASSUME IndInv, UNCHANGED <<late, stages, used, stageOf>>, NEW w \in Writers,
         NEW s \in Steps, Goto(w, s), s \in Active => pc[w] \in Active
  PROVE  LateStaged'
  BY NoStagingStarts DEF IndInv, TypeOK, Goto

(* Writing to, or removing, the staging directory of one's own call.       *)
LEMMA OwnStagingWritten ==
  ASSUME IndInv, NEW w \in Writers, pc[w] \in Active, UNCHANGED <<late, used, stageOf>>,
         NEW d, stages' = [stages EXCEPT ![stageOf[w]] = d],
         \A v \in Writers : pc'[v] \in Active => pc[v] \in Active
  PROVE  LateStaged'
  BY DEF IndInv, TypeOK, LateStaged, Faithful, Active

(* Giving up on a move leaves a verified directory under way.              *)
LEMMA MoveAbandoned ==
  ASSUME IndInv, NEW w \in Writers, pc[w] = "move", pc'[w] \notin Active,
         UNCHANGED <<stages, used>>, AbandonMove(w),
         \A v \in Writers : v # w => pc'[v] = pc[v] /\ stageOf'[v] = stageOf[v]
  PROVE  LateStaged'
<1>1. stageOf[w] \in used /\ Faithful(pkg[w], stages[stageOf[w]])
  BY StagedFaithful DEF IndInv, StagingPrivate, Staging
<1>2. \A v \in Writers : v # w /\ pc[v] \in Active => stageOf[v] # stageOf[w]
  BY DEF IndInv, StagingPrivate, Staging, Active
<1>3. \A l \in late' : l \in late \/ l = <<stageOf[w], pkg[w]>>
  BY DEF AbandonMove
<1> QED  BY <1>1, <1>2, <1>3 DEF IndInv, LateStaged, Faithful, Active, Staging

(* LateStaged is preserved by every step.                                  *)
LEMMA NextLateStaged == IndInv /\ [Next]_vars => LateStaged'
<1> SUFFICES ASSUME IndInv, [Next]_vars PROVE LateStaged'
  OBVIOUS
<1> TypeOK
  BY DEF IndInv
<1> USE StepNames DEF Active, Staging, Continue, Raise, locals, remote
<1>1. ASSUME NEW w \in Writers, Begin(w) PROVE LateStaged'
  BY <1>1, GoesOn DEF Begin
<1>2. ASSUME NEW w \in Writers, BindJson(w) PROVE LateStaged'
  BY <1>2, GoesOn DEF BindJson
<1>3. ASSUME NEW w \in Writers, NEW m \in Members, HashMember(w, m) PROVE LateStaged'
  BY <1>3, GoesOn DEF HashMember
<1>4. ASSUME NEW w \in Writers, ValidateInputs(w) PROVE LateStaged'
  BY <1>4, GoesOn DEF ValidateInputs
<1>5. ASSUME NEW w \in Writers, AcquireLock(w) PROVE LateStaged'
  BY <1>5, GoesOn DEF AcquireLock
<1>6. ASSUME NEW w \in Writers, MkdirFinalParent(w) PROVE LateStaged'
  BY <1>6, GoesOn DEF MkdirFinalParent
<1>7. ASSUME NEW w \in Writers, ListFinal(w) PROVE LateStaged'
  BY <1>7, GoesOn DEF ListFinal
<1>8. ASSUME NEW w \in Writers, VerifyReplay(w) PROVE LateStaged'
  BY <1>8, GoesOn DEF VerifyReplay, VerifyFinal
<1>9. ASSUME NEW w \in Writers, VerifyPromoted(w) PROVE LateStaged'
  BY <1>9, GoesOn DEF VerifyPromoted, VerifyFinal
<1>10. ASSUME NEW w \in Writers, MkdirStaging(w) PROVE LateStaged'
  <2> PICK s \in StageIds \ used :
        /\ used' = used \cup {s}
        /\ stageOf' = [stageOf EXCEPT ![w] = s]
        /\ stages' = [stages EXCEPT ![s] = EmptyDir] \/ stages' = stages
    BY <1>10 DEF MkdirStaging, SetStage
  <2>1. UNCHANGED late
    BY <1>10 DEF MkdirStaging
  <2>2. \A v \in Writers : v # w => pc'[v] = pc[v] /\ stageOf'[v] = stageOf[v]
    BY <1>10 DEF MkdirStaging, TypeOK, Goto
  <2>3. stageOf'[w] = s
    BY DEF TypeOK
  <2> QED  BY <2>1, <2>2, <2>3 DEF IndInv, TypeOK, LateStaged, Faithful
<1>11. ASSUME NEW w \in Writers, NEW m \in Members, CopyMember(w, m) PROVE LateStaged'
  <2>1. UNCHANGED <<late, used, stageOf>> /\ pc[w] = "copy"
    BY <1>11 DEF CopyMember
  <2>2. \E d : stages' = [stages EXCEPT ![stageOf[w]] = d]
    <3>1. stages = [stages EXCEPT ![stageOf[w]] = stages[stageOf[w]]]
      BY DEF TypeOK
    <3> QED  BY <1>11, <3>1 DEF CopyMember, SetStage
  <2>3. \A v \in Writers : v # w => pc'[v] = pc[v]
    BY <1>11 DEF CopyMember, TypeOK, Goto
  <2> QED  BY <2>1, <2>2, <2>3, OwnStagingWritten
<1>12. ASSUME NEW w \in Writers, VerifyStaging(w) PROVE LateStaged'
  BY <1>12, GoesOn DEF VerifyStaging
<1>13. ASSUME NEW w \in Writers, RecheckAbsent(w) PROVE LateStaged'
  BY <1>13, GoesOn DEF RecheckAbsent
<1>14. ASSUME NEW w \in Writers, MoveToFinal(w) PROVE LateStaged'
  <2>1. UNCHANGED <<used, stageOf, pkg>> /\ pc[w] = "move"
    BY <1>14 DEF MoveToFinal
  <2>2. \A v \in Writers : v # w => pc'[v] = pc[v]
    BY <1>14 DEF MoveToFinal, TypeOK, Goto
  <2>3. pc'[w] \notin Active
    BY <1>14 DEF MoveToFinal, TypeOK, Goto
  <2>4. CASE UNCHANGED late /\ stages' = [stages EXCEPT ![stageOf[w]] = NoDir]
    BY <2>1, <2>2, <2>4, OwnStagingWritten
  <2>5. CASE UNCHANGED <<stages, final>> /\ AbandonMove(w)
    BY <2>1, <2>2, <2>3, <2>5, MoveAbandoned
  <2> QED  BY <1>14, <2>4, <2>5 DEF MoveToFinal, RemoteMove, SetStage
<1>15. ASSUME NEW w \in Writers, PurgeStaging(w) PROVE LateStaged'
  <2>1. UNCHANGED <<late, used, stageOf>>
    BY <1>15 DEF PurgeStaging
  <2>2. \A v \in Writers : pc'[v] \in Active => pc[v] \in Active
    BY <1>15 DEF PurgeStaging, TypeOK, Goto
  <2>3. \A s \in StageIds : stages'[s] = stages[s] \/ stages'[s] = NoDir
    BY <1>15 DEF PurgeStaging, SetStage, TypeOK
  <2> QED  BY <2>1, <2>2, <2>3 DEF IndInv, TypeOK, LateStaged, Faithful
<1>16. ASSUME NEW w \in Writers, Return(w) PROVE LateStaged'
  BY <1>16, NoStagingStarts DEF Return, EndCall, Goto, TypeOK
<1>17. ASSUME NEW w \in Writers, Crash(w) PROVE LateStaged'
  <2>1. /\ UNCHANGED <<stages, used>> /\ pc'[w] \notin Active
        /\ \A v \in Writers : v # w => pc'[v] = pc[v] /\ stageOf'[v] = stageOf[v]
    BY <1>17 DEF Crash, EndCall, Goto, TypeOK
  <2>2. CASE UNCHANGED late
    BY <2>1, <2>2, NoStagingStarts
  <2>3. CASE pc[w] = "move" /\ AbandonMove(w)
    BY <2>1, <2>3, MoveAbandoned
  <2> QED  BY <1>17, <2>2, <2>3 DEF Crash
<1>18. ASSUME NEW w \in Writers, EditSource(w) PROVE LateStaged'
  BY <1>18, NoStagingStarts DEF EditSource
<1>19. ASSUME NEW p \in Packages, DamageFinal(p) PROVE LateStaged'
  BY <1>19, NoStagingStarts DEF DamageFinal
<1>20. ASSUME NEW p \in Packages, NEW s \in StageIds, LateMove(s, p) PROVE LateStaged'
  <2>1. UNCHANGED <<pc, used, stageOf>> /\ late' \subseteq late
    BY <1>20 DEF LateMove
  <2>2. \A t \in StageIds : stages'[t] = stages[t] \/ stages'[t] = NoDir
    BY <1>20 DEF LateMove, RemoteMove, SetStage, TypeOK
  <2> QED  BY <2>1, <2>2 DEF IndInv, TypeOK, LateStaged, Faithful
<1>21. CASE UNCHANGED vars
  BY <1>21, NoStagingStarts DEF vars
<1> QED
  BY <1>1, <1>2, <1>3, <1>4, <1>5, <1>6, <1>7, <1>8, <1>9, <1>10, <1>11, <1>12,
     <1>13, <1>14, <1>15, <1>16, <1>17, <1>18, <1>19, <1>20, <1>21 DEF Next, Step

---------------------------------------------------------------------------------
(* What is owed for staging.                                               *)

(* A step that leaves nothing more behind, and takes no failure back.      *)
LEMMA StaysPaid ==
  ASSUME IndInv, TypeOK', Owed' \subseteq Owed, faults <= faults', crashes <= crashes'
  PROVE  OwedPaid'
<1>1. IsFiniteSet(Owed') /\ Cardinality(Owed') <= Cardinality(Owed)
  BY FS_Subset DEF IndInv, OwedPaid
<1>2. Cardinality(Owed) \in Nat /\ Cardinality(Owed') \in Nat
  BY <1>1, FS_CardinalityType DEF IndInv, OwedPaid
<1> QED  BY <1>1, <1>2 DEF IndInv, OwedPaid, TypeOK

(* A step that leaves one directory behind and is itself a failure.        *)
LEMMA LeavesOne ==
  ASSUME IndInv, TypeOK', NEW t, Owed' \subseteq Owed \cup {t},
         faults' + crashes' = faults + crashes + 1
  PROVE  OwedPaid'
<1>1. /\ IsFiniteSet(Owed \cup {t})
      /\ Cardinality(Owed \cup {t}) = IF t \in Owed THEN Cardinality(Owed)
                                                   ELSE Cardinality(Owed) + 1
  BY FS_AddElement DEF IndInv, OwedPaid
<1>2. IsFiniteSet(Owed') /\ Cardinality(Owed') <= Cardinality(Owed \cup {t})
  BY <1>1, FS_Subset
<1>3. Cardinality(Owed) \in Nat /\ Cardinality(Owed') \in Nat
  BY <1>2, FS_CardinalityType DEF IndInv, OwedPaid
<1>4. Cardinality(Owed') <= faults' + crashes'
  <2>1. Cardinality(Owed) <= faults + crashes /\ {faults, crashes, faults', crashes'} \subseteq Nat
    BY DEF IndInv, OwedPaid, TypeOK
  <2>2. Cardinality(Owed') <= Cardinality(Owed) + 1
    BY <1>1, <1>2, <1>3
  <2> QED  BY <1>3, <2>1, <2>2
<1> QED  BY <1>2, <1>4 DEF OwedPaid

(* A call that keeps its staging while it may still clean it up.           *)
LEMMA KeepsOwn ==
  ASSUME NEW w \in Writers,
         \A v \in Writers : v # w => pc'[v] = pc[v] /\ stageOf'[v] = stageOf[v],
         pc[w] \in Staging => pc'[w] \in Staging /\ stageOf'[w] = stageOf[w],
         \A s \in StageIds : stages'[s] # NoDir =>
            stages[s] # NoDir \/ (pc'[w] \in Staging /\ stageOf'[w] = s)
  PROVE  Owed' \subseteq Owed
  BY DEF Owed

(* A call that lets go of its staging directory, or of one it just drew.   *)
LEMMA LetsGo ==
  ASSUME NEW w \in Writers, NEW t,
         \A v \in Writers : v # w => pc'[v] = pc[v] /\ stageOf'[v] = stageOf[v],
         pc[w] \in Staging => stageOf[w] = t,
         \A s \in StageIds : stages'[s] # NoDir => stages[s] # NoDir \/ s = t
  PROVE  Owed' \subseteq Owed \cup {t}
  BY DEF Owed

(* A step of a call that leaves every staging directory as it is, and goes *)
(* on from staging only to staging.                                        *)
LEMMA WalksOn ==
  ASSUME IndInv, TypeOK', NEW w \in Writers, NEW s \in Steps, Goto(w, s),
         pc[w] \in Staging => s \in Staging,
         UNCHANGED <<stages, stageOf, crashes>>, NoFault \/ Fault(w)
  PROVE  OwedPaid'
<1>1. Owed' \subseteq Owed
  BY KeepsOwn DEF IndInv, TypeOK, Goto
<1>2. faults <= faults' /\ crashes <= crashes'
  BY DEF IndInv, TypeOK, NoFault, Fault
<1> QED  BY <1>1, <1>2, StaysPaid

(* Drawing a UUID: only a mkdir that took effect and failed is left behind. *)
LEMMA MkdirIsPaid ==
  ASSUME IndInv, TypeOK', NEW w \in Writers, MkdirStaging(w)
  PROVE  OwedPaid'
<1> PICK t \in StageIds \ used :
      /\ stageOf' = [stageOf EXCEPT ![w] = t]
      /\ \/ SetStage(t, EmptyDir) /\ Continue(w, "copy") /\ NoFault
         \/ SetStage(t, EmptyDir) /\ Raise(w, "unlock") /\ Fault(w)
         \/ UNCHANGED stages /\ Raise(w, "unlock") /\ Fault(w)
  BY DEF MkdirStaging
<1>1. pc[w] = "mkstage" /\ crashes' = crashes
  BY DEF MkdirStaging
<1>2. \A v \in Writers : v # w => pc'[v] = pc[v] /\ stageOf'[v] = stageOf[v]
  BY DEF IndInv, TypeOK, Continue, Raise, Goto
<1>3. stageOf'[w] = t
  BY DEF IndInv, TypeOK
<1>4. \A s \in StageIds : stages'[s] # NoDir => stages[s] # NoDir \/ s = t
  BY DEF IndInv, TypeOK, SetStage
<1>5. CASE Continue(w, "copy") /\ NoFault
  <2>1. pc'[w] \in Staging
    BY <1>5 DEF IndInv, TypeOK, Continue, Goto, Staging
  <2>2. Owed' \subseteq Owed
    BY <1>1, <1>2, <1>3, <1>4, <2>1, KeepsOwn DEF Staging
  <2> QED  BY <1>1, <1>5, <2>2, StaysPaid DEF NoFault, IndInv, TypeOK
<1>6. CASE Fault(w)
  <2>1. Owed' \subseteq Owed \cup {t}
    BY <1>1, <1>2, <1>4, LetsGo DEF Staging
  <2>2. faults' + crashes' = faults + crashes + 1
    BY <1>1, <1>6 DEF Fault, IndInv, TypeOK
  <2> QED  BY <2>1, <2>2, LeavesOne
<1> QED  BY <1>5, <1>6

(* Uploading writes to the call's own directory, which it still owns.      *)
LEMMA CopyIsPaid ==
  ASSUME IndInv, TypeOK', NEW w \in Writers, NEW m \in Members, CopyMember(w, m)
  PROVE  OwedPaid'
<1>1. pc[w] = "copy" /\ UNCHANGED <<stageOf, crashes>>
  BY DEF CopyMember, locals
<1>2. pc'[w] \in Staging /\ \A v \in Writers : v # w => pc'[v] = pc[v]
  BY DEF CopyMember, IndInv, TypeOK, Continue, Raise, Goto, Staging
<1>3. \A s \in StageIds : s # stageOf[w] => stages'[s] = stages[s]
  BY DEF CopyMember, SetStage, IndInv, TypeOK
<1>4. Owed' \subseteq Owed
  BY <1>1, <1>2, <1>3, KeepsOwn
<1>5. faults <= faults'
  BY DEF CopyMember, NoFault, Fault, IndInv, TypeOK
<1> QED  BY <1>1, <1>4, <1>5, StaysPaid DEF IndInv, TypeOK

(* A move, done or not, keeps the directory in the call's hands or takes   *)
(* it away.                                                                *)
LEMMA MoveIsPaid ==
  ASSUME IndInv, TypeOK', NEW w \in Writers, MoveToFinal(w)
  PROVE  OwedPaid'
<1>1. pc[w] = "move" /\ UNCHANGED <<stageOf, crashes>>
  BY DEF MoveToFinal, locals
<1>2. \A v \in Writers : v # w => pc'[v] = pc[v]
  BY DEF MoveToFinal, IndInv, TypeOK, Continue, Raise, Goto
<1>3. \A s \in StageIds : stages'[s] = stages[s] \/ stages'[s] = NoDir
  BY DEF MoveToFinal, RemoteMove, SetStage, IndInv, TypeOK
<1>4. \/ pc'[w] \in Staging
      \/ stages'[stageOf[w]] = NoDir
  <2>1. stageOf[w] \in StageIds
    BY <1>1 DEF IndInv, TypeOK, StagingPrivate, Staging
  <2> QED  BY <2>1 DEF MoveToFinal, RemoteMove, SetStage, IndInv, TypeOK, Raise, Goto, Staging
<1>5. Owed' \subseteq Owed
  BY <1>1, <1>2, <1>3, <1>4 DEF Owed
<1>6. faults <= faults'
  BY DEF MoveToFinal, NoFault, Fault, IndInv, TypeOK
<1> QED  BY <1>1, <1>5, <1>6, StaysPaid DEF IndInv, TypeOK

(* A purge that fails without effect pays for what it leaves.              *)
LEMMA PurgeIsPaid ==
  ASSUME IndInv, TypeOK', NEW w \in Writers, PurgeStaging(w)
  PROVE  OwedPaid'
<1>1. pc[w] = "purge" /\ UNCHANGED <<stageOf, crashes>>
  BY DEF PurgeStaging, locals
<1>2. \A v \in Writers : v # w => pc'[v] = pc[v]
  BY DEF PurgeStaging, IndInv, TypeOK, Continue, Goto
<1>3. stageOf[w] \in StageIds
  BY <1>1 DEF IndInv, TypeOK, StagingPrivate, Staging
<1>4. CASE SetStage(stageOf[w], NoDir)
  <2>1. Owed' \subseteq Owed
    BY <1>1, <1>2, <1>3, <1>4 DEF Owed, SetStage, IndInv, TypeOK
  <2>2. faults <= faults'
    BY DEF PurgeStaging, NoFault, Fault, IndInv, TypeOK
  <2> QED  BY <1>1, <2>1, <2>2, StaysPaid DEF IndInv, TypeOK
<1>5. CASE UNCHANGED stages /\ Fault(w)
  <2>1. Owed' \subseteq Owed \cup {stageOf[w]}
    BY <1>1, <1>2, <1>5, LetsGo
  <2>2. faults' + crashes' = faults + crashes + 1
    BY <1>1, <1>5 DEF Fault, IndInv, TypeOK
  <2> QED  BY <2>1, <2>2, LeavesOne
<1> QED  BY <1>4, <1>5 DEF PurgeStaging

(* A killed process leaves at most its own staging directory.              *)
LEMMA CrashIsPaid ==
  ASSUME IndInv, TypeOK', NEW w \in Writers, Crash(w)
  PROVE  OwedPaid'
<1>1. /\ UNCHANGED <<stages, faults>> /\ crashes' = crashes + 1
      /\ \A v \in Writers : v # w => pc'[v] = pc[v] /\ stageOf'[v] = stageOf[v]
  BY DEF Crash, EndCall, Goto, IndInv, TypeOK
<1>2. Owed' \subseteq Owed \cup {stageOf[w]}
  BY <1>1, LetsGo
<1>3. faults' + crashes' = faults + crashes + 1
  BY <1>1 DEF IndInv, TypeOK
<1> QED  BY <1>2, <1>3, LeavesOne

(* Nobody lets go of staging, and none appears.                            *)
LEMMA NobodyLetsGo ==
  ASSUME IndInv, TypeOK', faults <= faults', crashes <= crashes',
         \A v \in Writers : pc[v] \in Staging => pc'[v] \in Staging /\ stageOf'[v] = stageOf[v],
         \A s \in StageIds : stages'[s] = stages[s] \/ stages'[s] = NoDir
  PROVE  OwedPaid'
<1>1. Owed' \subseteq Owed
  BY DEF Owed
<1> QED  BY <1>1, StaysPaid

(* OwedPaid is preserved by every step.                                    *)
LEMMA NextOwedPaid == IndInv /\ TypeOK' /\ [Next]_vars => OwedPaid'
<1> SUFFICES ASSUME IndInv, TypeOK', [Next]_vars PROVE OwedPaid'
  OBVIOUS
<1> TypeOK
  BY DEF IndInv
<1> USE StepNames DEF Staging, Continue, Raise, locals, remote
<1>1. ASSUME NEW w \in Writers, Begin(w) PROVE OwedPaid'
  BY <1>1, WalksOn DEF Begin
<1>2. ASSUME NEW w \in Writers, BindJson(w) PROVE OwedPaid'
  BY <1>2, WalksOn DEF BindJson
<1>3. ASSUME NEW w \in Writers, NEW m \in Members, HashMember(w, m) PROVE OwedPaid'
  BY <1>3, WalksOn DEF HashMember
<1>4. ASSUME NEW w \in Writers, ValidateInputs(w) PROVE OwedPaid'
  BY <1>4, WalksOn DEF ValidateInputs
<1>5. ASSUME NEW w \in Writers, AcquireLock(w) PROVE OwedPaid'
  BY <1>5, WalksOn DEF AcquireLock
<1>6. ASSUME NEW w \in Writers, MkdirFinalParent(w) PROVE OwedPaid'
  BY <1>6, WalksOn DEF MkdirFinalParent
<1>7. ASSUME NEW w \in Writers, ListFinal(w) PROVE OwedPaid'
  BY <1>7, WalksOn DEF ListFinal
<1>8. ASSUME NEW w \in Writers, VerifyReplay(w) PROVE OwedPaid'
  BY <1>8, WalksOn DEF VerifyReplay, VerifyFinal
<1>9. ASSUME NEW w \in Writers, VerifyPromoted(w) PROVE OwedPaid'
  BY <1>9, WalksOn DEF VerifyPromoted, VerifyFinal
<1>10. ASSUME NEW w \in Writers, MkdirStaging(w) PROVE OwedPaid'
  BY <1>10, MkdirIsPaid
<1>11. ASSUME NEW w \in Writers, NEW m \in Members, CopyMember(w, m) PROVE OwedPaid'
  BY <1>11, CopyIsPaid
<1>12. ASSUME NEW w \in Writers, VerifyStaging(w) PROVE OwedPaid'
  BY <1>12, WalksOn DEF VerifyStaging
<1>13. ASSUME NEW w \in Writers, RecheckAbsent(w) PROVE OwedPaid'
  BY <1>13, WalksOn DEF RecheckAbsent
<1>14. ASSUME NEW w \in Writers, MoveToFinal(w) PROVE OwedPaid'
  BY <1>14, MoveIsPaid
<1>15. ASSUME NEW w \in Writers, PurgeStaging(w) PROVE OwedPaid'
  BY <1>15, PurgeIsPaid
<1>16. ASSUME NEW w \in Writers, Return(w) PROVE OwedPaid'
  BY <1>16, NobodyLetsGo DEF Return, EndCall, Goto, TypeOK
<1>17. ASSUME NEW w \in Writers, Crash(w) PROVE OwedPaid'
  BY <1>17, CrashIsPaid
<1>18. ASSUME NEW w \in Writers, EditSource(w) PROVE OwedPaid'
  BY <1>18, NobodyLetsGo DEF EditSource, TypeOK
<1>19. ASSUME NEW p \in Packages, DamageFinal(p) PROVE OwedPaid'
  BY <1>19, NobodyLetsGo DEF DamageFinal, TypeOK
<1>20. ASSUME NEW p \in Packages, NEW s \in StageIds, LateMove(s, p) PROVE OwedPaid'
  <2>1. \A t \in StageIds : stages'[t] = stages[t] \/ stages'[t] = NoDir
    BY <1>20 DEF LateMove, RemoteMove, SetStage, TypeOK
  <2> QED  BY <1>20, <2>1, NobodyLetsGo DEF LateMove, TypeOK
<1>21. CASE UNCHANGED vars
  BY <1>21, NobodyLetsGo DEF vars, TypeOK
<1> QED
  BY <1>1, <1>2, <1>3, <1>4, <1>5, <1>6, <1>7, <1>8, <1>9, <1>10, <1>11, <1>12,
     <1>13, <1>14, <1>15, <1>16, <1>17, <1>18, <1>19, <1>20, <1>21 DEF Next, Step

---------------------------------------------------------------------------------
(* The inductive invariant holds of an empty Drive root and idle writers.  *)
LEMMA InitIndInv == Init => IndInv
<1> SUFFICES ASSUME Init PROVE IndInv
  OBVIOUS
<1>1. TypeOK
  BY InitTypeOK
<1>2. CallState
  BY SectionNames DEF Init, CallState, EmptyDir
<1>3. LockHeld
  BY SectionNames DEF Init, LockHeld
<1>4. StagingPrivate
  BY DEF Init, StagingPrivate, Staging
<1>5. StagedVerified
  BY DEF Init, StagedVerified
<1>6. LateStaged
  BY DEF Init, LateStaged
<1>7. FinalFaithful
  BY DEF Init, FinalFaithful
<1>8. OwedPaid
  <2>1. Owed = {} /\ faults + crashes = 0
    BY DEF Init, Owed
  <2> QED  BY <2>1, FS_EmptySet DEF OwedPaid
<1> QED  BY <1>1, <1>2, <1>3, <1>4, <1>5, <1>6, <1>7, <1>8 DEF IndInv

(* The inductive invariant, on any number of hosts.                        *)
THEOREM Inductive == Spec => []IndInv
<1>1. IndInv /\ [Next]_vars => IndInv'
  BY NextTypeOK, NextLockHeld, NextCustodyInv, NextLateStaged, NextOwedPaid
  DEF IndInv, CustodyInv
<1> QED  BY InitIndInv, <1>1, PTL DEF Spec

(* Every variable keeps its type through failures, kills and edits.        *)
THEOREM TypeCorrect == Spec => []TypeOK
<1>1. IndInv => TypeOK
  BY DEF IndInv
<1> QED  BY Inductive, <1>1, PTL

(* flock excludes the writers of one host, crashes included.               *)
THEOREM MutualExclusion == Spec => []LockExcludes
<1>1. IndInv => LockExcludes
  BY DEF IndInv, LockHeld, LockExcludes
<1> QED  BY Inductive, <1>1, PTL

(* Every staging directory that no running call owns is paid for by its    *)
(* own failed command or killed process.                                   *)
THEOREM StagingIsAccounted == Spec => []StagingAccounted
<1>1. ASSUME IndInv PROVE StagingAccounted
  <2>1. Orphans \in SUBSET Owed
    BY DEF Orphans, Owed
  <2>2. Cardinality(Orphans) <= Cardinality(Owed) /\ IsFiniteSet(Orphans) /\ IsFiniteSet(Owed)
    BY <1>1, <2>1, FS_Subset DEF IndInv, OwedPaid
  <2>3. Cardinality(Orphans) \in Nat /\ Cardinality(Owed) \in Nat
    BY <2>2, FS_CardinalityType
  <2> QED  BY <1>1, <2>2, <2>3 DEF IndInv, OwedPaid, TypeOK, StagingAccounted
<1> QED  BY Inductive, <1>1, PTL

(* An undamaged final directory holds the media its fingerprint binds,     *)
(* whatever the number of hosts and whatever failed.                       *)
THEOREM ContentAddressed == Spec => []FinalFaithful
<1>1. IndInv => FinalFaithful
  BY DEF IndInv
<1> QED  BY Inductive, <1>1, PTL

---------------------------------------------------------------------------------
(* Writers that share one lock, on a remote that does nothing late.        *)

(* Nothing happens to a final directory, no success is reported, and no    *)
(* call becomes ready to move.                                             *)
Quiet ==
  /\ UNCHANGED <<final, acked, damaged>>
  /\ \A v \in Writers : pc'[v] = "move" => pc[v] = "move" /\ pkg'[v] = pkg[v]

(* The steps that matter to custody, and all the others.                   *)
LEMMA StepKinds ==
  ASSUME IndInv, [Next]_vars
  PROVE  \/ Quiet
         \/ \E w \in Writers : RecheckAbsent(w)
         \/ \E w \in Writers : VerifyReplay(w) \/ VerifyPromoted(w)
         \/ \E w \in Writers : MoveToFinal(w)
         \/ \E p \in Packages : DamageFinal(p)
         \/ late # {}
<1> TypeOK
  BY DEF IndInv
<1> USE DEF locals, remote, history, Continue, Raise, Goto, TypeOK, Quiet
<1>1. ASSUME NEW w \in Writers, Begin(w) PROVE Quiet
  BY <1>1 DEF Begin
<1>2. ASSUME NEW w \in Writers, BindJson(w) PROVE Quiet
  BY <1>2 DEF BindJson
<1>3. ASSUME NEW w \in Writers, NEW m \in Members, HashMember(w, m) PROVE Quiet
  BY <1>3 DEF HashMember
<1>4. ASSUME NEW w \in Writers, ValidateInputs(w) PROVE Quiet
  BY <1>4 DEF ValidateInputs
<1>5. ASSUME NEW w \in Writers, AcquireLock(w) PROVE Quiet
  BY <1>5 DEF AcquireLock
<1>6. ASSUME NEW w \in Writers, MkdirFinalParent(w) PROVE Quiet
  BY <1>6 DEF MkdirFinalParent
<1>7. ASSUME NEW w \in Writers, ListFinal(w) PROVE Quiet
  BY <1>7 DEF ListFinal
<1>8. ASSUME NEW w \in Writers, MkdirStaging(w) PROVE Quiet
  BY <1>8 DEF MkdirStaging, SetStage
<1>9. ASSUME NEW w \in Writers, NEW m \in Members, CopyMember(w, m) PROVE Quiet
  BY <1>9 DEF CopyMember, SetStage
<1>10. ASSUME NEW w \in Writers, VerifyStaging(w) PROVE Quiet
  BY <1>10 DEF VerifyStaging
<1>11. ASSUME NEW w \in Writers, PurgeStaging(w) PROVE Quiet
  BY <1>11 DEF PurgeStaging, SetStage
<1>12. ASSUME NEW w \in Writers, Return(w) PROVE Quiet
  BY <1>12 DEF Return, EndCall
<1>13. ASSUME NEW w \in Writers, Crash(w) PROVE Quiet
  BY <1>13 DEF Crash, EndCall
<1>14. ASSUME NEW w \in Writers, EditSource(w) PROVE Quiet
  BY <1>14 DEF EditSource
<1>15. CASE UNCHANGED vars
  BY <1>15 DEF vars
<1>16. ASSUME NEW p \in Packages, NEW s \in StageIds, LateMove(s, p) PROVE late # {}
  BY <1>16 DEF LateMove
<1> HIDE DEF Quiet
<1> QED
  BY <1>1, <1>2, <1>3, <1>4, <1>5, <1>6, <1>7, <1>8, <1>9, <1>10, <1>11, <1>12,
     <1>13, <1>14, <1>15, <1>16 DEF Next, Step

(* Two calls about to move are one call.                                   *)
LEMMA OneMover ==
  ASSUME OneLock, IndInv, NEW v \in Writers, NEW w \in Writers,
         pc[v] = "move", pc[w] = "move"
  PROVE  v = w
  BY SectionNames DEF OneLock, IndInv, LockHeld

(* Only a weak remote leaves a move under way.                             *)
LEMMA NoneLate ==
  ASSUME ~WeakRemote, late = {}, [Next]_vars
  PROVE  late' = {}
<1> USE DEF locals, remote
<1>1. ASSUME NEW w \in Writers, Begin(w) \/ Crash(w) \/ EditSource(w) PROVE late' = {}
  BY <1>1 DEF Begin, Crash, EditSource, AbandonMove
<1>2. ASSUME NEW w \in Writers, NEW m \in Members, HashMember(w, m) \/ CopyMember(w, m)
      PROVE  late' = {}
  BY <1>2 DEF HashMember, CopyMember
<1>3. ASSUME NEW w \in Writers, BindJson(w) \/ ValidateInputs(w) \/ AcquireLock(w)
      PROVE  late' = {}
  BY <1>3 DEF BindJson, ValidateInputs, AcquireLock
<1>4. ASSUME NEW w \in Writers, MkdirFinalParent(w) \/ ListFinal(w) \/ MkdirStaging(w)
      PROVE  late' = {}
  BY <1>4 DEF MkdirFinalParent, ListFinal, MkdirStaging
<1>5. ASSUME NEW w \in Writers, VerifyReplay(w) \/ VerifyPromoted(w) \/ VerifyStaging(w)
      PROVE  late' = {}
  BY <1>5 DEF VerifyReplay, VerifyPromoted, VerifyFinal, VerifyStaging
<1>6. ASSUME NEW w \in Writers,
             RecheckAbsent(w) \/ MoveToFinal(w) \/ PurgeStaging(w) \/ Return(w)
      PROVE  late' = {}
  BY <1>6 DEF RecheckAbsent, MoveToFinal, AbandonMove, PurgeStaging, Return
<1>7. ASSUME NEW p \in Packages, NEW s \in StageIds, DamageFinal(p) \/ LateMove(s, p)
      PROVE  late' = {}
  BY <1>7 DEF DamageFinal, LateMove
<1>8. ASSUME NEW p \in Packages, DamageFinal(p) PROVE late' = {}
  BY <1>8 DEF DamageFinal
<1>9. CASE UNCHANGED vars
  BY <1>9 DEF vars
<1> QED
  BY <1>1, <1>2, <1>3, <1>4, <1>5, <1>6, <1>7, <1>8, <1>9 DEF Next, Step

(* With one lock, a promotion finds the place empty and acknowledgements   *)
(* stay true.                                                              *)
LEMMA NextOneLock ==
  ASSUME Cooperating, OneLockInv, [Next]_vars
  PROVE  PromotesToAbsent' /\ AckedAreThere'
<1> IndInv /\ PromotesToAbsent /\ AckedAreThere /\ TypeOK /\ late = {} /\ ~WeakRemote /\ OneLock
  BY DEF OneLockInv, IndInv, Cooperating
<1>1. CASE Quiet
  BY <1>1 DEF Quiet, PromotesToAbsent, AckedAreThere
<1>2. ASSUME NEW w \in Writers, RecheckAbsent(w)
      PROVE  PromotesToAbsent' /\ AckedAreThere'
  <2> UNCHANGED <<pkg, final, damaged, acked>>
    BY <1>2 DEF RecheckAbsent, locals, remote, history
  <2>1. \A v \in Writers : pc'[v] = "move" => pc[v] = "move" \/ final[pkg[v]] = NoDir
    BY <1>2 DEF RecheckAbsent, Continue, Raise, Goto, TypeOK
  <2> QED  BY <2>1 DEF PromotesToAbsent, AckedAreThere
<1>3. ASSUME NEW w \in Writers, VerifyReplay(w) \/ VerifyPromoted(w)
      PROVE  PromotesToAbsent' /\ AckedAreThere'
  <2>1. VerifyFinal(w, "replayed") \/ VerifyFinal(w, "created")
    BY <1>3 DEF VerifyReplay, VerifyPromoted
  <2> UNCHANGED <<pkg, want, final, damaged>>
    BY <2>1 DEF VerifyFinal, locals, remote
  <2>2. \A v \in Writers : pc'[v] = "move" => pc[v] = "move"
    BY <2>1 DEF VerifyFinal, Raise, Goto, TypeOK
  <2>3. acked' = acked \/ (final[pkg[w]] = want[w] /\ Acknowledge(w))
    BY <2>1 DEF VerifyFinal, Verified
  <2>4. \A p \in Packages : acked'[p] = acked[p]
                            \/ (p = pkg[w] /\ acked'[p] = acked[p] \cup {final[p]})
    BY <2>3 DEF Acknowledge, TypeOK
  <2> QED  BY <2>2, <2>4 DEF PromotesToAbsent, AckedAreThere
<1>4. ASSUME NEW w \in Writers, MoveToFinal(w)
      PROVE  PromotesToAbsent' /\ AckedAreThere'
  <2> UNCHANGED <<pkg, want, damaged, acked>>
    BY <1>4 DEF MoveToFinal, locals, history
  <2>1. pc[w] = "move" /\ pc'[w] # "move" /\ \A v \in Writers : v # w => pc'[v] = pc[v]
    BY <1>4 DEF MoveToFinal, Continue, Raise, Goto, TypeOK
  <2>2. \A v \in Writers : pc'[v] # "move"
    BY <2>1, OneMover
  <2>3. \A p \in Packages : final'[p] = final[p] \/ final[p] = NoDir
    BY <1>4, <2>1, MovePromotes DEF PromotesToAbsent, TypeOK
  <2>4. \A p \in Packages : \A d \in acked[p] : d # NoDir
    BY DirectoryExists DEF TypeOK
  <2> QED  BY <2>2, <2>3, <2>4 DEF PromotesToAbsent, AckedAreThere
<1>5. ASSUME NEW p \in Packages, DamageFinal(p)
      PROVE  PromotesToAbsent' /\ AckedAreThere'
  <2> UNCHANGED <<pc, pkg, want, acked>> /\ damaged' = damaged \cup {p} /\ final[p] # NoDir
    BY <1>5 DEF DamageFinal, locals, history
  <2>1. \A q \in Packages : q # p => final'[q] = final[q]
    BY <1>5 DEF DamageFinal, TypeOK
  <2>2. \A v \in Writers : pc[v] = "move" => pkg[v] \in Packages /\ pkg[v] # p
    BY StagedFaithful DEF PromotesToAbsent
  <2> QED  BY <2>1, <2>2 DEF PromotesToAbsent, AckedAreThere
<1> QED  BY <1>1, <1>2, <1>3, <1>4, <1>5, StepKinds

(* What another process does to an undisturbed call v: nothing.            *)
Untouched(v) ==
  /\ pc'[v] = pc[v] /\ pkg'[v] = pkg[v] /\ want'[v] = want[v] /\ source'[v] = source[v]
  /\ stageOf'[v] = stageOf[v] /\ outcome'[v] = outcome[v]
  /\ clean'[v] => clean[v]
  /\ damaged \subseteq damaged'
  /\ pc[v] = "copy" => stages'[stageOf[v]] = stages[stageOf[v]]
  /\ pc[v] \in Locked /\ pkg[v] \notin damaged' => final'[pkg[v]] = final[pkg[v]]

(* A call to which nothing is done stays as it was.                        *)
LEMMA UntouchedStays ==
  ASSUME NEW v \in Writers, CleanCall(v), Untouched(v)
  PROVE  CleanCall(v)'
<1> USE DEF CleanCall, Untouched, Undisturbed
<1>1. CASE ~Undisturbed(v)'
  BY <1>1
<1>2. CASE Undisturbed(v)'
  <2>1. Undisturbed(v)
    BY <1>2
  <2>2. outcome[v] = "failed" => pc[v] \in Locked
    BY <2>1 DEF Locked
  <2>3. pc[v] \in {"mkstage", "copy", "recheck", "replay", "vfinal"} => pc[v] \in Locked
    BY DEF Locked, Staging
  <2> QED  BY <1>2, <2>1, <2>2, <2>3
<1> QED  BY <1>1, <1>2

(* Only the step of w itself is about w's call: with one lock, the moves of *)
(* others wait, and their staging is their own.                            *)
LEMMA OthersUntouched ==
  ASSUME Cooperating, OneLockInv, NEW w \in Writers, NEW v \in Writers, v # w,
         Begin(w) \/ Step(w) \/ Crash(w) \/ EditSource(w)
  PROVE  Untouched(v)
<1> IndInv /\ TypeOK /\ OneLock
  BY DEF OneLockInv, IndInv, Cooperating
<1> USE DEF locals, remote, history, Continue, Raise, Goto, Fault, NoFault, TypeOK, Untouched
<1>1. CASE Begin(w) \/ EditSource(w)
  BY <1>1 DEF Begin, EditSource
<1>2. CASE BindJson(w) \/ ValidateInputs(w) \/ AcquireLock(w) \/ MkdirFinalParent(w)
  BY <1>2 DEF BindJson, ValidateInputs, AcquireLock, MkdirFinalParent
<1>3. CASE ListFinal(w) \/ VerifyStaging(w) \/ RecheckAbsent(w)
  BY <1>3 DEF ListFinal, VerifyStaging, RecheckAbsent
<1>4. CASE VerifyReplay(w) \/ VerifyPromoted(w)
  BY <1>4 DEF VerifyReplay, VerifyPromoted, VerifyFinal
<1>5. CASE Return(w) \/ Crash(w)
  BY <1>5 DEF Return, Crash, EndCall
<1>6. ASSUME NEW m \in Members, HashMember(w, m) PROVE Untouched(v)
  BY <1>6 DEF HashMember
<1>7. CASE MkdirStaging(w)
  <2>1. PICK s \in StageIds \ used :
          /\ stageOf' = [stageOf EXCEPT ![w] = s]
          /\ stages' = [stages EXCEPT ![s] = EmptyDir] \/ stages' = stages
    BY <1>7 DEF MkdirStaging, SetStage
  <2>2. pc[v] = "copy" => stageOf[v] \in used
    BY DEF IndInv, StagingPrivate, Staging
  <2> QED  BY <1>7, <2>1, <2>2 DEF MkdirStaging
<1>8. ASSUME pc[w] \in Staging, pc[v] = "copy"
      PROVE  stageOf[v] # stageOf[w] /\ stageOf[v] \in StageIds
  BY <1>8 DEF IndInv, StagingPrivate, Staging
<1>9. ASSUME NEW m \in Members, CopyMember(w, m) PROVE Untouched(v)
  <2>1. pc[w] \in Staging
    BY <1>9 DEF CopyMember, Staging
  <2>2. \A s \in StageIds : s # stageOf[w] => stages'[s] = stages[s]
    BY <1>9 DEF CopyMember, SetStage
  <2> QED  BY <1>8, <1>9, <2>1, <2>2 DEF CopyMember
<1>10. CASE PurgeStaging(w)
  <2>1. pc[w] \in Staging
    BY <1>10 DEF PurgeStaging, Staging
  <2>2. \A s \in StageIds : s # stageOf[w] => stages'[s] = stages[s]
    BY <1>10 DEF PurgeStaging, SetStage
  <2> QED  BY <1>8, <1>10, <2>1, <2>2 DEF PurgeStaging
<1>11. CASE MoveToFinal(w)
  <2>1. pc[v] \notin Locked
    BY <1>11, SectionNames DEF MoveToFinal, OneLock, IndInv, LockHeld
  <2>2. pc[v] # "copy"
    BY <2>1 DEF Locked, Staging
  <2> QED  BY <1>11, <2>1, <2>2 DEF MoveToFinal
<1> QED
  BY <1>1, <1>2, <1>3, <1>4, <1>5, <1>6, <1>7, <1>9, <1>10, <1>11 DEF Step

(* The call's own step, when it moves on without touching what it staged   *)
(* or hashed: bind, lock, mkdir of the parent, list.                       *)
LEMMA BeforeStaging ==
  ASSUME Cooperating, OneLockInv, NEW w \in Writers,
         BindJson(w) \/ ValidateInputs(w) \/ AcquireLock(w) \/ MkdirFinalParent(w) \/ ListFinal(w)
  PROVE  CleanCall(w)'
<1> IndInv /\ TypeOK /\ CleanCall(w) /\ ~WeakRemote
  BY DEF OneLockInv, IndInv, CleanCalls, Cooperating
<1> UNCHANGED <<source, pkg, want, stageOf, stages, final, damaged>>
  BY DEF BindJson, ValidateInputs, AcquireLock, MkdirFinalParent, ListFinal, locals, remote
<1> USE DEF CleanCall, Undisturbed, Continue, Raise, Goto, Fault, NoFault, TypeOK
<1>1. CASE BindJson(w)
  <2>1. Undisturbed(w) => source[w][Json] \in Bound[pkg[w]][Json]
    OBVIOUS
  <2> QED  BY <1>1, <2>1 DEF BindJson
<1>2. CASE ValidateInputs(w)
  <2>1. Undisturbed(w) => source[w] = want[w]
    BY <1>2 DEF ValidateInputs, Complete, Directories
  <2> QED  BY <1>2, <2>1 DEF ValidateInputs
<1>3. CASE AcquireLock(w)
  BY <1>3 DEF AcquireLock
<1>4. CASE MkdirFinalParent(w)
  BY <1>4 DEF MkdirFinalParent
<1>5. CASE ListFinal(w)
  BY <1>5 DEF ListFinal
<1> QED  BY <1>1, <1>2, <1>3, <1>4, <1>5

(* Hashing an undisturbed source records its bound bytes.                  *)
LEMMA HashKeepsClean ==
  ASSUME OneLockInv, NEW w \in Writers, NEW m \in Members, HashMember(w, m)
  PROVE  CleanCall(w)'
<1> IndInv /\ TypeOK /\ CleanCall(w)
  BY DEF OneLockInv, IndInv, CleanCalls
<1> UNCHANGED <<source, pkg, stageOf, stages, final, damaged, clean>> /\ pc[w] = "hash"
  BY DEF HashMember, remote, NoFault
<1>1. Undisturbed(w) => source[w][m] \in Bound[pkg[w]][m] /\ source[w][m] # Missing
  <2>1. pkg[w] \in Packages
    BY DEF IndInv, CallState
  <2> QED  BY <2>1 DEF CleanCall
<1>2. Undisturbed(w) => pc'[w] = "hash" /\ UNCHANGED outcome
                        /\ want' = [want EXCEPT ![w][m] = source[w][m]]
  BY <1>1 DEF HashMember, Continue, Goto, TypeOK
<1>3. Undisturbed(w)' => Undisturbed(w)
  BY DEF Undisturbed
<1>4. ASSUME Undisturbed(w), NEW n \in Members PROVE want'[w][n] \in {Missing, source[w][n]}
  <2>1. want'[w][n] = IF n = m THEN source[w][m] ELSE want[w][n]
    BY <1>2, <1>4 DEF TypeOK, Directories
  <2> QED  BY <1>4, <2>1 DEF CleanCall
<1>5. pc'[w] # "idle"
  BY DEF HashMember, Continue, Raise, Goto, TypeOK
<1> QED  BY <1>2, <1>3, <1>4, <1>5 DEF CleanCall

(* The verifications of an undisturbed call see what it wrote, or what was *)
(* there before.                                                           *)
LEMMA VerifyKeepsClean ==
  ASSUME OneLockInv, NEW w \in Writers, VerifyReplay(w) \/ VerifyPromoted(w)
  PROVE  CleanCall(w)'
<1> TypeOK /\ CleanCall(w)
  BY DEF OneLockInv, IndInv, CleanCalls
<1>1. VerifyFinal(w, "replayed") \/ VerifyFinal(w, "created")
  BY DEF VerifyReplay, VerifyPromoted
<1>2. UNCHANGED <<source, pkg, want, stageOf, stages, final, damaged>>
      /\ pc'[w] = "unlock" /\ pc[w] \in {"replay", "vfinal"}
  BY <1>1 DEF VerifyReplay, VerifyPromoted, VerifyFinal, locals, remote, Raise, Goto, TypeOK
<1>3. clean'[w] => clean[w]
  BY <1>1 DEF VerifyFinal, Fault, NoFault, TypeOK
<1>4. clean'[w] /\ outcome'[w] = "failed" => final[pkg[w]] # want[w]
  BY <1>1 DEF VerifyFinal, Fault, NoFault, Raise, Verified, TypeOK
<1> QED  BY <1>2, <1>3, <1>4 DEF CleanCall, Undisturbed

(* Drawing a UUID makes an empty staging directory, if nothing fails.      *)
LEMMA MkdirKeepsClean ==
  ASSUME OneLockInv, NEW w \in Writers, MkdirStaging(w)
  PROVE  CleanCall(w)'
<1> TypeOK /\ CleanCall(w)
  BY DEF OneLockInv, IndInv, CleanCalls
<1> PICK t \in StageIds \ used :
      /\ stageOf' = [stageOf EXCEPT ![w] = t]
      /\ \/ SetStage(t, EmptyDir) /\ Continue(w, "copy") /\ NoFault
         \/ SetStage(t, EmptyDir) /\ Raise(w, "unlock") /\ Fault(w)
         \/ UNCHANGED stages /\ Raise(w, "unlock") /\ Fault(w)
  BY DEF MkdirStaging
<1>1. UNCHANGED <<source, pkg, want, final, damaged>> /\ pc[w] = "mkstage"
  BY DEF MkdirStaging
<1>2. pc'[w] # "idle"
  BY DEF Continue, Raise, Goto, TypeOK
<1>3. CASE Fault(w)
  BY <1>2, <1>3 DEF CleanCall, Undisturbed, Fault, TypeOK
<1>4. CASE SetStage(t, EmptyDir) /\ Continue(w, "copy") /\ NoFault
  <2>1. UNCHANGED <<outcome, clean>> /\ pc'[w] = "copy" /\ stages'[stageOf'[w]] = EmptyDir
    BY <1>4 DEF Continue, Goto, NoFault, SetStage, TypeOK
  <2> QED  BY <1>1, <2>1 DEF CleanCall, Undisturbed, EmptyDir
<1> QED  BY <1>3, <1>4

(* Copying an undisturbed source stages exactly its bytes.                 *)
LEMMA CopyKeepsClean ==
  ASSUME OneLockInv, NEW w \in Writers, NEW m \in Members, CopyMember(w, m)
  PROVE  CleanCall(w)'
<1> IndInv /\ TypeOK /\ CleanCall(w)
  BY DEF OneLockInv, IndInv, CleanCalls
<1>1. UNCHANGED <<source, pkg, want, stageOf, final, damaged>> /\ pc[w] = "copy"
  BY DEF CopyMember, locals
<1>2. pc'[w] # "idle"
  BY DEF CopyMember, Continue, Raise, Goto, TypeOK
<1>3. ASSUME Undisturbed(w)'
      PROVE  /\ Undisturbed(w) /\ NoFault
             /\ stages' = [stages EXCEPT ![stageOf[w]] =
                             [stages[stageOf[w]] EXCEPT ![m] = source[w][m]]]
             /\ pc'[w] = "copy" /\ UNCHANGED outcome
  <2>1. ~Fault(w)
    BY <1>3 DEF Undisturbed, Fault, TypeOK
  <2>2. NoFault
    BY <2>1 DEF CopyMember
  <2>3. Undisturbed(w)
    BY <1>1, <1>3, <2>2 DEF Undisturbed, NoFault
  <2>4. source[w][m] # Missing
    BY <1>1, <2>3 DEF CleanCall, IndInv, CallState
  <2> QED  BY <2>1, <2>2, <2>3, <2>4 DEF CopyMember, SetStage, Continue, Goto, TypeOK
<1>4. stageOf[w] \in StageIds /\ stages[stageOf[w]] \in Directories
  BY <1>1 DEF IndInv, StagingPrivate, StagedVerified, Staging, TypeOK
<1>5. Undisturbed(w)' =>
        \A n \in Members : stages'[stageOf[w]][n] \in {Missing, source[w][n]}
  <2> SUFFICES ASSUME Undisturbed(w)', NEW n \in Members
               PROVE  stages'[stageOf[w]][n] \in {Missing, source[w][n]}
    OBVIOUS
  <2>1. stages'[stageOf[w]] = [stages[stageOf[w]] EXCEPT ![m] = source[w][m]]
    BY <1>3, <1>4 DEF TypeOK
  <2>2. stages[stageOf[w]][n] \in {Missing, source[w][n]}
    BY <1>1, <1>3 DEF CleanCall
  <2> QED  BY <1>4, <2>1, <2>2 DEF Directories
<1> QED  BY <1>1, <1>2, <1>3, <1>5 DEF CleanCall

(* What an undisturbed call staged verifies, the place is still empty, and *)
(* the move leaves there what was hashed.                                  *)
LEMMA PromotionKeepsClean ==
  ASSUME Cooperating, OneLockInv, NEW w \in Writers,
         VerifyStaging(w) \/ RecheckAbsent(w) \/ MoveToFinal(w)
  PROVE  CleanCall(w)'
<1> IndInv /\ TypeOK /\ CleanCall(w) /\ ~WeakRemote /\ PromotesToAbsent
  BY DEF OneLockInv, IndInv, CleanCalls, Cooperating
<1> USE DEF Continue, Raise, Goto, TypeOK
<1>1. /\ UNCHANGED <<source, pkg, want, stageOf, damaged>>
      /\ pc[w] \in {"copy", "recheck", "move"}
  BY DEF VerifyStaging, RecheckAbsent, MoveToFinal, locals, remote
<1>2. pc'[w] # "idle"
  BY DEF VerifyStaging, RecheckAbsent, MoveToFinal
<1>3. ASSUME Undisturbed(w)' PROVE Undisturbed(w) /\ ~Fault(w)
  BY <1>1, <1>3 DEF VerifyStaging, RecheckAbsent, MoveToFinal, Undisturbed, Fault, NoFault
<1>4. CASE VerifyStaging(w)
  <2>1. stages[stageOf[w]] \in Directories /\ Complete(want[w])
    BY <1>4, SectionNames DEF VerifyStaging, IndInv, StagedVerified, CallState
  <2>2. Undisturbed(w) => stages[stageOf[w]] = want[w]
    BY <1>4, <2>1 DEF VerifyStaging, CleanCall, Complete, Directories
  <2>3. Undisturbed(w)' => pc'[w] = "recheck" /\ UNCHANGED outcome
    BY <1>3, <1>4, <2>2 DEF VerifyStaging, Verified
  <2>4. UNCHANGED final /\ pc[w] = "copy"
    BY <1>4 DEF VerifyStaging, remote
  <2> QED  BY <1>1, <1>2, <1>3, <2>3, <2>4 DEF CleanCall
<1>5. CASE RecheckAbsent(w)
  <2>1. UNCHANGED final /\ pc[w] = "recheck"
    BY <1>5 DEF RecheckAbsent, remote
  <2>2. Undisturbed(w)' => pc'[w] = "move" /\ UNCHANGED outcome
    BY <1>3, <1>5, <2>1 DEF RecheckAbsent, CleanCall
  <2> QED  BY <1>1, <1>2, <1>3, <2>1, <2>2 DEF CleanCall
<1>6. CASE MoveToFinal(w)
  <2>1. /\ pc[w] = "move" /\ final[pkg[w]] = NoDir
        /\ stages[stageOf[w]] = want[w] /\ pkg[w] \in Packages
    BY <1>6, StagedFaithful DEF MoveToFinal, PromotesToAbsent
  <2>2. Undisturbed(w)' => /\ RemoteMove(stageOf[w], pkg[w])
                           /\ pc'[w] = "vfinal" /\ UNCHANGED outcome
    BY <1>3, <1>6 DEF MoveToFinal
  <2>3. RemoteMove(stageOf[w], pkg[w]) => final'[pkg[w]] = want[w]
    BY <2>1 DEF RemoteMove
  <2> QED  BY <1>1, <1>2, <1>3, <2>1, <2>2, <2>3 DEF CleanCall
<1> QED  BY <1>4, <1>5, <1>6

(* A new call is undisturbed; a killed, edited or finished one promises     *)
(* nothing more.                                                            *)
LEMMA EdgesKeepClean ==
  ASSUME OneLockInv, NEW w \in Writers,
         Begin(w) \/ Return(w) \/ Crash(w) \/ EditSource(w) \/ PurgeStaging(w)
  PROVE  CleanCall(w)'
<1> IndInv /\ TypeOK /\ CleanCall(w)
  BY DEF OneLockInv, IndInv, CleanCalls
<1> USE DEF Continue, Goto, TypeOK, CleanCall, Undisturbed
<1>1. CASE Begin(w)
  <2>1. /\ pc[w] = "idle" /\ pc'[w] = "bind" /\ outcome'[w] = "none"
        /\ want'[w] = EmptyDir
    BY <1>1 DEF Begin, IndInv, CallState
  <2>2. \A m \in Members : source'[w][m] \in Bound[pkg'[w]][m]
    BY <1>1 DEF Begin
  <2> QED  BY <2>1, <2>2 DEF EmptyDir
<1>2. CASE Return(w) \/ Crash(w)
  BY <1>2 DEF Return, Crash, EndCall
<1>3. CASE EditSource(w)
  <2>1. clean'[w] = FALSE /\ UNCHANGED <<pc, outcome>>
    BY <1>3 DEF EditSource
  <2> QED  BY <2>1
<1>4. CASE PurgeStaging(w)
  <2>1. pc[w] = "purge" /\ pc'[w] = "unlock" /\ UNCHANGED <<pkg, damaged>>
    BY <1>4 DEF PurgeStaging, locals
  <2>2. clean'[w] => clean[w]
    BY <1>4 DEF PurgeStaging, NoFault, Fault
  <2> QED  BY <2>1, <2>2
<1> QED  BY <1>1, <1>2, <1>3, <1>4

(* Damage to a directory ends the promise to its callers, and to no others. *)
LEMMA DamageUntouched ==
  ASSUME OneLockInv, NEW p \in Packages, DamageFinal(p), NEW v \in Writers
  PROVE  Untouched(v)
<1> TypeOK
  BY DEF OneLockInv, IndInv
<1>1. damaged' = damaged \cup {p} /\ \A q \in Packages : q # p => final'[q] = final[q]
  BY DEF DamageFinal, TypeOK
<1>2. pc[v] \in Locked => pkg[v] \in Packages
  BY SectionNames DEF OneLockInv, IndInv, CallState
<1> QED  BY <1>1, <1>2 DEF DamageFinal, Untouched, locals

(* An undisturbed call stays on its way to success.                        *)
LEMMA NextCleanCalls ==
  ASSUME Cooperating, OneLockInv, [Next]_vars
  PROVE  CleanCalls'
<1> CleanCalls /\ late = {}
  BY DEF OneLockInv
<1>1. ASSUME NEW w \in Writers, Begin(w) \/ Step(w) \/ Crash(w) \/ EditSource(w)
      PROVE  CleanCalls'
  <2>1. CleanCall(w)'
    <3>1. ASSUME NEW m \in Members, HashMember(w, m) \/ CopyMember(w, m) PROVE CleanCall(w)'
      BY <3>1, HashKeepsClean, CopyKeepsClean
    <3> QED  BY <1>1, <3>1, BeforeStaging, VerifyKeepsClean, MkdirKeepsClean,
                PromotionKeepsClean, EdgesKeepClean DEF Step
  <2>2. ASSUME NEW v \in Writers, v # w PROVE CleanCall(v)'
    <3>1. Untouched(v)
      BY <1>1, <2>2, OthersUntouched
    <3> QED  BY <3>1, UntouchedStays DEF CleanCalls
  <2> QED  BY <2>1, <2>2 DEF CleanCalls
<1>2. ASSUME NEW p \in Packages, DamageFinal(p) PROVE CleanCalls'
  BY <1>2, DamageUntouched, UntouchedStays DEF CleanCalls
<1>3. CASE UNCHANGED vars
  BY <1>3 DEF vars, CleanCalls, CleanCall, Undisturbed
<1>4. ASSUME NEW p \in Packages, NEW s \in StageIds, LateMove(s, p) PROVE FALSE
  BY <1>4 DEF LateMove
<1> QED  BY <1>1, <1>2, <1>3, <1>4 DEF Next

(* With one lock file, a recheck of absence still holds at the move, and   *)
(* every directory a caller was told of is still in place; what an         *)
(* undisturbed call has seen stays so.                                     *)
THEOREM OneLockInductive == Cooperating => (Spec => []OneLockInv)
<1> SUFFICES ASSUME Cooperating PROVE Spec => []OneLockInv
  OBVIOUS
<1>1. Init => OneLockInv
  BY InitIndInv DEF Init, OneLockInv, PromotesToAbsent, AckedAreThere,
                    CleanCalls, CleanCall, Undisturbed
<1>2. IndInv /\ [Next]_vars => IndInv'
  BY NextTypeOK, NextLockHeld, NextCustodyInv, NextLateStaged, NextOwedPaid
  DEF IndInv, CustodyInv
<1>3. OneLockInv /\ [Next]_vars => OneLockInv'
  BY <1>2, NextOneLock, NextCleanCalls, NoneLate DEF OneLockInv, Cooperating
<1> QED  BY <1>1, <1>3, PTL DEF Spec

(* With one lock, whoever was told "stored and verified" stays right until *)
(* the store itself damages the directory.                                 *)
THEOREM AckedStayTrue == Cooperating => (Spec => []AckedAreThere)
<1> SUFFICES ASSUME Cooperating PROVE Spec => []AckedAreThere
  OBVIOUS
<1>1. OneLockInv => AckedAreThere
  BY DEF OneLockInv
<1> QED  BY OneLockInductive, <1>1, PTL

(* A call that meets no fault, edit or damage of its own fails only if     *)
(* other bytes are in custody already, whatever earlier calls left behind. *)
THEOREM CleanCallsSucceed == Cooperating => (Spec => []CleanCallSucceeds)
<1> SUFFICES ASSUME Cooperating PROVE Spec => []CleanCallSucceeds
  OBVIOUS
<1>1. OneLockInv => CleanCallSucceeds
  BY DEF OneLockInv, CleanCalls, CleanCall, Undisturbed, CleanCallSucceeds
<1> QED  BY OneLockInductive, <1>1, PTL

(* Of the steps of a writer, only the move touches a final directory.      *)
LEMMA OnlyMoveWrites ==
  ASSUME NEW w \in Writers, Step(w)
  PROVE  UNCHANGED final \/ MoveToFinal(w)
<1> USE DEF remote
<1>1. ASSUME NEW m \in Members, HashMember(w, m) \/ CopyMember(w, m) PROVE UNCHANGED final
  BY <1>1 DEF HashMember, CopyMember
<1>2. CASE BindJson(w) \/ ValidateInputs(w) \/ AcquireLock(w) \/ MkdirFinalParent(w)
  BY <1>2 DEF BindJson, ValidateInputs, AcquireLock, MkdirFinalParent
<1>3. CASE ListFinal(w) \/ VerifyReplay(w) \/ VerifyPromoted(w)
  BY <1>3 DEF ListFinal, VerifyReplay, VerifyPromoted, VerifyFinal
<1>4. CASE MkdirStaging(w) \/ VerifyStaging(w) \/ RecheckAbsent(w)
  BY <1>4 DEF MkdirStaging, VerifyStaging, RecheckAbsent
<1>5. CASE PurgeStaging(w) \/ Return(w)
  BY <1>5 DEF PurgeStaging, Return
<1> QED  BY <1>1, <1>2, <1>3, <1>4, <1>5 DEF Step

(* Cooperating writers never merge, repair, overwrite or remove a final.   *)
THEOREM FinalsImmutable == Cooperating => (Spec => FinalUntouched)
<1> SUFFICES ASSUME Cooperating PROVE Spec => FinalUntouched
  OBVIOUS
<1>1. ASSUME OneLockInv, [Next]_vars
      PROVE  [(\E w \in Writers : Step(w)) =>
                \A p \in Packages : final[p] # NoDir => final'[p] = final[p]]_vars
  <2> SUFFICES ASSUME NEW w \in Writers, Step(w),
                      NEW p \in Packages, final[p] # NoDir
               PROVE  final'[p] = final[p]
    OBVIOUS
  <2>1. CASE UNCHANGED final
    BY <2>1
  <2>2. CASE MoveToFinal(w)
    <3>1. final[pkg[w]] = NoDir
      BY <1>1, <2>2 DEF OneLockInv, PromotesToAbsent, MoveToFinal
    <3> QED  BY <1>1, <2>2, <3>1, MovePromotes DEF OneLockInv, IndInv, TypeOK
  <2> QED  BY <2>1, <2>2, OnlyMoveWrites
<1> QED  BY OneLockInductive, <1>1, PTL DEF Spec, FinalUntouched

(* The publisher implements the custody it promises: the move is the one   *)
(* step that publishes, a verified final directory is acknowledged, and    *)
(* everything else is invisible.                                           *)
THEOREM Refinement == Cooperating => (Spec => ImplementsCustody)
<1> SUFFICES ASSUME Cooperating PROVE Spec => ImplementsCustody
  OBVIOUS
<1>1. Init => Custody!Init
  BY DEF Init, Custody!Init
<1>2. ASSUME OneLockInv, [Next]_vars PROVE [Custody!Next]_(Custody!vars)
  <2> IndInv /\ PromotesToAbsent /\ TypeOK /\ late = {}
    BY <1>2 DEF OneLockInv, IndInv
  <2>1. CASE Quiet
    BY <2>1 DEF Quiet, Custody!vars
  <2>2. ASSUME NEW w \in Writers, RecheckAbsent(w) PROVE UNCHANGED Custody!vars
    BY <2>2 DEF RecheckAbsent, remote, history, Custody!vars
  <2>3. ASSUME NEW w \in Writers, VerifyReplay(w) \/ VerifyPromoted(w)
        PROVE  [Custody!Next]_(Custody!vars)
    <3>1. pkg[w] \in Packages /\ UNCHANGED <<final, damaged>>
      BY <2>3 DEF IndInv, CallState, VerifyReplay, VerifyPromoted, VerifyFinal, remote
    <3>2. acked' = acked \/ (final[pkg[w]] = want[w] /\ Acknowledge(w))
      BY <2>3 DEF VerifyReplay, VerifyPromoted, VerifyFinal, Verified
    <3>3. final[pkg[w]] = want[w] => final[pkg[w]] # NoDir
      BY DirectoryExists DEF TypeOK
    <3>4. CASE acked' = acked
      BY <3>1, <3>4 DEF Custody!vars
    <3>5. CASE final[pkg[w]] = want[w] /\ Acknowledge(w)
      <4>1. Custody!Acknowledge(pkg[w])
        BY <3>1, <3>3, <3>5 DEF Acknowledge, Custody!Acknowledge
      <4> QED  BY <3>1, <4>1 DEF Custody!Next
    <3> QED  BY <3>2, <3>4, <3>5
  <2>4. ASSUME NEW w \in Writers, MoveToFinal(w)
        PROVE  [Custody!Next]_(Custody!vars)
    <3>1. /\ pkg[w] \in Packages /\ Faithful(pkg[w], want[w])
          /\ final[pkg[w]] = NoDir /\ want[w] \in Custody!Directories
      BY <2>4, StagedFaithful DEF PromotesToAbsent, MoveToFinal, TypeOK,
         Directories, Custody!Directories
    <3>2. UNCHANGED <<acked, damaged>>
      BY <2>4 DEF MoveToFinal, history
    <3>3. CASE UNCHANGED final
      BY <3>2, <3>3 DEF Custody!vars
    <3>4. CASE final' = [final EXCEPT ![pkg[w]] = want[w]]
      <4>1. Custody!Publish(pkg[w], want[w])
        BY <3>1, <3>2, <3>4 DEF Faithful, Custody!Publish, Custody!Faithful
      <4> QED  BY <3>1, <4>1 DEF Custody!Next
    <3> QED  BY <2>4, <3>3, <3>4, MovePromotes
  <2>5. ASSUME NEW p \in Packages, DamageFinal(p) PROVE Custody!Next
    <3>1. \E m \in Members, b \in Bytes \cup {Missing} : final' = [final EXCEPT ![p][m] = b]
      BY <2>5 DEF DamageFinal
    <3>2. final[p] \in Directories
      BY <2>5 DEF DamageFinal, TypeOK
    <3>3. PICK d \in Directories : final' = [final EXCEPT ![p] = d]
      BY <3>1, <3>2, PutMember
    <3>4. Custody!Damage(p)
      BY <2>5, <3>3 DEF DamageFinal, Custody!Damage, history, Directories, Custody!Directories
    <3> QED  BY <3>4 DEF Custody!Next
  <2> QED  BY <1>2, <2>1, <2>2, <2>3, <2>4, <2>5, StepKinds
<1> QED  BY OneLockInductive, <1>1, <1>2, PTL DEF Spec, ImplementsCustody, Custody!Spec
=================================================================================
