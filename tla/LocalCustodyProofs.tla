--------------------------- MODULE LocalCustodyProofs ---------------------------
(***************************************************************************)
(* Machine-checked proofs about LocalCustody, for any packages, members,   *)
(* contents, writers and bounds: the backend implements the custody it     *)
(* promises, loses track of no staging directory, and replay recovers.     *)
(***************************************************************************)
EXTENDS LocalCustody, TLAPS

USE LocalAssumption

Media == Members \ {Json}

(* The flock of the root belongs to the writer in its critical section.    *)
LockHeld == \A w \in Writers : pc[w] \in Locked => root = w

(* Before its staging directory exists a call has none; what it renames is *)
(* verified, and its final directory is as it was found.                   *)
CallState ==
  \A w \in Writers :
    /\ pc[w] # "idle" => pkg[w] \in Packages
    /\ pc[w] \notin {"copy", "rename", "rmtree", "unlock"} => stage[w] = NoDir
    /\ pc[w] = "rename" => Verified(w, stage[w])
    /\ pc[w] \in {"mkstage", "copy", "rename"} => final[pkg[w]] = NoDir
    /\ pc[w] = "replay" => final[pkg[w]] # NoDir

(* An undamaged final directory is whole and holds its package's media.    *)
FinalsFaithful ==
  \A p \in Packages :
    (final[p] # NoDir /\ p \notin damaged) =>
      /\ final[p] \in [Members -> Bytes]
      /\ \A m \in Media : final[p][m] \in Bound[p][m]

CustodyInv == TypeOK /\ LockHeld /\ CallState /\ FinalsFaithful

(* Every staging directory left behind, or about to be, is paid for by a   *)
(* fault or a kill of its own.                                             *)
Leaving == \E w \in Writers : pc[w] = "unlock" /\ stage[w] # NoDir
Owed == IF Leaving THEN abandoned + 1 ELSE abandoned
LeaksPaid == Owed <= faults + crashes

(* What an undisturbed call w is sure of.                                  *)
Undisturbed(w) ==
  /\ pc[w] \in {"hash", "lock", "look", "replay", "mkstage", "copy"} =>
       /\ source[w] \in [Members -> Bytes]
       /\ \A m \in Members : source[w][m] \in Bound[pkg[w]][m]
  /\ pc[w] \in {"lock", "look", "replay", "mkstage", "copy"} => json[w] = source[w][Json]
  /\ pc[w] = "copy" => \A m \in Members : stage[w][m] \in {Missing, source[w][m]}
  /\ pc[w] # "rmtree"
  /\ failed[w] => /\ pc[w] = "unlock"
                  /\ pkg[w] \in damaged \/ /\ final[pkg[w]] # NoDir
                                           /\ final[pkg[w]][Json] # source[w][Json]

CleanState == \A w \in Writers : clean[w] => Undisturbed(w)

---------------------------------------------------------------------------------
(* A directory the store could hold is not the absence of one.             *)
LEMMA DirectoryExists == \A d \in Directories : d # NoDir
  BY DEF Directories

(* A freshly made staging directory is a directory.                        *)
LEMMA EmptyDirType == EmptyDir \in Directories
  BY DEF EmptyDir, Directories

(* The step names the actions go to.                                       *)
LEMMA StepNames ==
  /\ "idle" \in Steps /\ "hash" \in Steps /\ "lock" \in Steps /\ "rejected" \in Steps
  /\ "look" \in Locked /\ "replay" \in Locked /\ "mkstage" \in Locked
  /\ "copy" \in Locked /\ "rename" \in Locked /\ "rmtree" \in Locked
  /\ "unlock" \in Locked /\ Locked \subseteq Steps
  /\ "idle" \notin Locked /\ "hash" \notin Locked /\ "lock" \notin Locked
  /\ "rejected" \notin Locked
  BY DEF Steps, Locked

(* Types, in parts that different steps disturb.                           *)
CallTypes ==
  /\ source \in [Writers -> Directories]
  /\ pkg \in [Writers -> Packages \cup {None}]
  /\ json \in [Writers -> Bytes \cup {Missing}]
  /\ pc \in [Writers -> Steps]
  /\ stage \in [Writers -> Directories \cup {NoDir}]
  /\ \A w \in Writers :
       /\ pc[w] \in {"lock"} \cup Locked => json[w] # Missing
       /\ pc[w] \in {"copy", "rename"} => stage[w] # NoDir

StoreTypes ==
  /\ root \in Writers \cup {None}
  /\ final \in [Packages -> Directories \cup {NoDir}]
  /\ damaged \subseteq Packages
  /\ acked \in [Packages -> SUBSET Directories]

CountTypes ==
  /\ abandoned \in Nat /\ calls \in [Writers -> Nat]
  /\ faults \in Nat /\ crashes \in Nat /\ edits \in Nat

FlagTypes == failed \in [Writers -> BOOLEAN] /\ clean \in [Writers -> BOOLEAN]

(* The type invariant is the conjunction of these.                         *)
LEMMA TypeParts ==
  TypeOK <=> CallTypes /\ StoreTypes /\ CountTypes /\ FlagTypes
  BY DEF TypeOK, CallTypes, StoreTypes, CountTypes, FlagTypes

(* Every step keeps the calls' own variables in their types.               *)
LEMMA NextCallTypes == TypeOK /\ [Next]_vars => CallTypes'
<1> SUFFICES ASSUME TypeOK, [Next]_vars PROVE CallTypes'
  OBVIOUS
<1>0. CallTypes
  BY TypeParts
<1> USE <1>0, StepNames, EmptyDirType, DirectoryExists
<1> USE DEF CallTypes, Goto, Continue, Raise, EndCall
<1>1. ASSUME NEW w \in Writers, Begin(w) PROVE CallTypes'
  BY <1>1 DEF Begin, Directories
<1>2. ASSUME NEW w \in Writers, HashJson(w) PROVE CallTypes'
  <2>1. source[w][Json] \in Bytes \cup {Missing}
    BY DEF Directories
  <2> QED  BY <1>2, <2>1 DEF HashJson
<1>3. ASSUME NEW w \in Writers, AcquireRoot(w) PROVE CallTypes'
  BY <1>3 DEF AcquireRoot
<1>4. ASSUME NEW w \in Writers, LookFinal(w) PROVE CallTypes'
  BY <1>4 DEF LookFinal
<1>5. ASSUME NEW w \in Writers, VerifyReplay(w) PROVE CallTypes'
  BY <1>5 DEF VerifyReplay
<1>6. ASSUME NEW w \in Writers, MkdirStage(w) PROVE CallTypes'
  BY <1>6 DEF MkdirStage
<1>7. ASSUME NEW w \in Writers, NEW m \in Members, CopyMember(w, m) PROVE CallTypes'
  <2>1. /\ stage[w] \in Directories /\ source[w][m] \in Bytes \cup {Missing}
    BY <1>7 DEF CopyMember, Directories
  <2>2. [stage[w] EXCEPT ![m] = source[w][m]] \in Directories
    BY <2>1 DEF Directories
  <2> QED  BY <1>7, <2>2 DEF CopyMember
<1>8. ASSUME NEW w \in Writers, VerifyStage(w) PROVE CallTypes'
  BY <1>8 DEF VerifyStage
<1>9. ASSUME NEW w \in Writers, Rename(w) PROVE CallTypes'
  BY <1>9 DEF Rename
<1>10. ASSUME NEW w \in Writers, RemoveStage(w) PROVE CallTypes'
  BY <1>10 DEF RemoveStage
<1>11. ASSUME NEW w \in Writers, Return(w) \/ Crash(w) PROVE CallTypes'
  BY <1>11 DEF Return, Crash
<1>12. ASSUME NEW w \in Writers, EditSource(w) PROVE CallTypes'
  <2>1. PICK m \in Members, b \in Bytes \cup {Missing} : source' = [source EXCEPT ![w][m] = b]
    BY <1>12 DEF EditSource
  <2>2. [source[w] EXCEPT ![m] = b] \in Directories
    BY DEF Directories
  <2> QED  BY <1>12, <2>1, <2>2 DEF EditSource
<1>13. ASSUME (\E p \in Packages : DamageFinal(p)) \/ UNCHANGED vars PROVE CallTypes'
  BY <1>13 DEF DamageFinal, vars
<1> HIDE DEF CallTypes
<1> QED
  BY <1>1, <1>2, <1>3, <1>4, <1>5, <1>6, <1>7, <1>8, <1>9, <1>10, <1>11, <1>12, <1>13
  DEF Next, Step

(* Counters stay natural numbers.                                          *)
LEMMA NextCountTypes == TypeOK /\ [Next]_vars => CountTypes'
<1> SUFFICES ASSUME TypeOK, [Next]_vars PROVE CountTypes'
  OBVIOUS
<1>0. CountTypes
  BY TypeParts
<1> USE <1>0 DEF CountTypes, disk, bounds, NoFault, Fault, EndCall
<1>1. ASSUME NEW w \in Writers, Begin(w) \/ HashJson(w) \/ AcquireRoot(w) PROVE CountTypes'
  BY <1>1 DEF Begin, HashJson, AcquireRoot
<1>2. ASSUME NEW w \in Writers, LookFinal(w) \/ VerifyReplay(w) \/ MkdirStage(w) PROVE CountTypes'
  BY <1>2 DEF LookFinal, VerifyReplay, MkdirStage
<1>3. ASSUME NEW w \in Writers, NEW m \in Members, CopyMember(w, m) PROVE CountTypes'
  BY <1>3 DEF CopyMember
<1>4. ASSUME NEW w \in Writers, VerifyStage(w) \/ Rename(w) \/ RemoveStage(w) PROVE CountTypes'
  BY <1>4 DEF VerifyStage, Rename, RemoveStage
<1>5. ASSUME NEW w \in Writers, Return(w) \/ Crash(w) \/ EditSource(w) PROVE CountTypes'
  BY <1>5 DEF Return, Crash, EditSource
<1>6. ASSUME (\E p \in Packages : DamageFinal(p)) \/ UNCHANGED vars PROVE CountTypes'
  BY <1>6 DEF DamageFinal, vars
<1> HIDE DEF CountTypes
<1> QED  BY <1>1, <1>2, <1>3, <1>4, <1>5, <1>6 DEF Next, Step

(* Flags stay Boolean.                                                     *)
LEMMA NextFlagTypes == TypeOK /\ [Next]_vars => FlagTypes'
<1> SUFFICES ASSUME TypeOK, [Next]_vars PROVE FlagTypes'
  OBVIOUS
<1>0. FlagTypes
  BY TypeParts
<1> USE <1>0 DEF FlagTypes, Continue, Raise, NoFault, Fault, EndCall
<1>1. ASSUME NEW w \in Writers, Begin(w) \/ HashJson(w) \/ AcquireRoot(w) PROVE FlagTypes'
  BY <1>1 DEF Begin, HashJson, AcquireRoot
<1>2. ASSUME NEW w \in Writers, LookFinal(w) \/ VerifyReplay(w) \/ MkdirStage(w) PROVE FlagTypes'
  BY <1>2 DEF LookFinal, VerifyReplay, MkdirStage
<1>3. ASSUME NEW w \in Writers, NEW m \in Members, CopyMember(w, m) PROVE FlagTypes'
  BY <1>3 DEF CopyMember
<1>4. ASSUME NEW w \in Writers, VerifyStage(w) \/ Rename(w) \/ RemoveStage(w) PROVE FlagTypes'
  BY <1>4 DEF VerifyStage, Rename, RemoveStage
<1>5. ASSUME NEW w \in Writers, Return(w) \/ Crash(w) \/ EditSource(w) PROVE FlagTypes'
  BY <1>5 DEF Return, Crash, EditSource
<1>6. ASSUME (\E p \in Packages : DamageFinal(p)) \/ UNCHANGED vars PROVE FlagTypes'
  BY <1>6 DEF DamageFinal, vars
<1> HIDE DEF FlagTypes
<1> QED  BY <1>1, <1>2, <1>3, <1>4, <1>5, <1>6 DEF Next, Step

(* Acquiring takes a free root, and only the holder's end releases it.     *)
LEMMA NextLockHeld == CustodyInv /\ [Next]_vars => LockHeld'
<1> SUFFICES ASSUME CustodyInv, [Next]_vars PROVE LockHeld'
  OBVIOUS
<1>0. TypeOK /\ LockHeld
  BY DEF CustodyInv
<1> USE <1>0, StepNames DEF TypeOK, LockHeld, Goto, Continue, Raise, EndCall
<1>1. ASSUME NEW w \in Writers, Begin(w) \/ HashJson(w) PROVE LockHeld'
  BY <1>1 DEF Begin, HashJson
<1>2. ASSUME NEW w \in Writers, AcquireRoot(w) PROVE LockHeld'
  BY <1>2 DEF AcquireRoot
<1>3. ASSUME NEW w \in Writers, LookFinal(w) \/ VerifyReplay(w) \/ MkdirStage(w) PROVE LockHeld'
  BY <1>3 DEF LookFinal, VerifyReplay, MkdirStage
<1>4. ASSUME NEW w \in Writers, NEW m \in Members, CopyMember(w, m) PROVE LockHeld'
  BY <1>4 DEF CopyMember
<1>5. ASSUME NEW w \in Writers, VerifyStage(w) \/ Rename(w) \/ RemoveStage(w) PROVE LockHeld'
  BY <1>5 DEF VerifyStage, Rename, RemoveStage
<1>6. ASSUME NEW w \in Writers, Return(w) \/ Crash(w) PROVE LockHeld'
  BY <1>6 DEF Return, Crash
<1>7. ASSUME NEW w \in Writers, EditSource(w) PROVE LockHeld'
  BY <1>7 DEF EditSource
<1>8. ASSUME (\E p \in Packages : DamageFinal(p)) \/ UNCHANGED vars PROVE LockHeld'
  BY <1>8 DEF DamageFinal, vars
<1> HIDE DEF LockHeld
<1> QED  BY <1>1, <1>2, <1>3, <1>4, <1>5, <1>6, <1>7, <1>8 DEF Next, Step

---------------------------------------------------------------------------------
(* What steps do to the store.                                             *)

(* The rename of w promotes, and may be acknowledged.                      *)
Promotes(w) ==
  /\ pkg[w] \in Packages /\ stage[w] \in [Members -> Bytes]
  /\ \A m \in Media : stage[w][m] \in Bound[pkg[w]][m]
  /\ final[pkg[w]] = NoDir
  /\ final' = [final EXCEPT ![pkg[w]] = stage[w]]
  /\ acked' \in {acked, [acked EXCEPT ![pkg[w]] = @ \cup {stage[w]}]}

(* A rename promotes a verified directory where there is none, or fails    *)
(* and leaves the store alone.                                             *)
LEMMA RenameKinds ==
  ASSUME CustodyInv, NEW w \in Writers, Rename(w)
  PROVE  /\ UNCHANGED damaged
         /\ Promotes(w) \/ (UNCHANGED <<final, acked>> /\ pc'[w] = "rmtree")
<1>1. /\ pc[w] = "rename" /\ pkg[w] \in Packages /\ final[pkg[w]] = NoDir
      /\ Verified(w, stage[w]) /\ UNCHANGED damaged
  BY DEF CustodyInv, CallState, Rename
<1> QED  BY <1>1 DEF CustodyInv, TypeOK, Rename, Promotes, Verified, Media, Goto, Raise

(* A replay acknowledges the verified directory it found, or nothing.      *)
LEMMA ReplayKinds ==
  ASSUME CustodyInv, NEW w \in Writers, VerifyReplay(w)
  PROVE  /\ pkg[w] \in Packages /\ UNCHANGED <<final, damaged>>
         /\ \/ UNCHANGED acked
            \/ /\ final[pkg[w]] \in [Members -> Bytes]
               /\ acked' = [acked EXCEPT ![pkg[w]] = @ \cup {final[pkg[w]]}]
  BY DEF CustodyInv, CallState, VerifyReplay, Verified, disk

(* Damage replaces a directory by another one.                             *)
LEMMA DamageKinds ==
  ASSUME TypeOK, NEW p \in Packages, DamageFinal(p)
  PROVE  /\ final[p] # NoDir /\ damaged' = damaged \cup {p}
         /\ \E d \in Directories : final' = [final EXCEPT ![p] = d]
         /\ UNCHANGED <<source, pkg, json, pc, stage, root, acked, failed, clean>>
<1>1. final[p] \in Directories /\ final[p] # NoDir
  BY DEF TypeOK, DamageFinal
<1>2. PICK m \in Members, b \in Bytes \cup {Missing} : final' = [final EXCEPT ![p][m] = b]
  BY DEF DamageFinal
<1>3. [final[p] EXCEPT ![m] = b] \in Directories
  BY <1>1 DEF Directories
<1> QED  BY <1>1, <1>2, <1>3 DEF DamageFinal

(* Nothing else touches the store.                                         *)
LEMMA StoreSteady ==
  ASSUME [Next]_vars,
         ~ \E w \in Writers : Rename(w) \/ VerifyReplay(w),
         ~ \E p \in Packages : DamageFinal(p)
  PROVE  UNCHANGED <<final, damaged, acked>>
<1> DEFINE Quiet == UNCHANGED <<final, damaged, acked>>
<1> USE DEF disk
<1>1. ASSUME NEW w \in Writers, Begin(w) \/ HashJson(w) \/ AcquireRoot(w) PROVE Quiet
  BY <1>1 DEF Begin, HashJson, AcquireRoot
<1>2. ASSUME NEW w \in Writers, LookFinal(w) \/ MkdirStage(w) \/ VerifyStage(w) PROVE Quiet
  BY <1>2 DEF LookFinal, MkdirStage, VerifyStage
<1>3. ASSUME NEW w \in Writers, NEW m \in Members, CopyMember(w, m) PROVE Quiet
  BY <1>3 DEF CopyMember
<1>4. ASSUME NEW w \in Writers, RemoveStage(w) \/ Return(w) \/ Crash(w) \/ EditSource(w)
      PROVE  Quiet
  BY <1>4 DEF RemoveStage, Return, Crash, EditSource
<1>5. ASSUME UNCHANGED vars PROVE Quiet
  BY <1>5 DEF vars
<1> HIDE DEF Quiet
<1>6. Quiet
  BY <1>1, <1>2, <1>3, <1>4, <1>5 DEF Next, Step
<1> QED  BY <1>6 DEF Quiet

(* The root has at most one holder, and the store keeps its types.         *)
LEMMA NextStoreTypes == CustodyInv /\ [Next]_vars => StoreTypes'
<1> SUFFICES ASSUME CustodyInv, [Next]_vars PROVE StoreTypes'
  OBVIOUS
<1>0. TypeOK /\ StoreTypes
  BY TypeParts DEF CustodyInv
<1>1. root' \in Writers \cup {None}
  <2> DEFINE Held == root' \in Writers \cup {None}
  <2> USE <1>0 DEF StoreTypes, EndCall
  <2>1. ASSUME NEW w \in Writers, AcquireRoot(w) \/ Return(w) \/ Crash(w) PROVE Held
    BY <2>1 DEF AcquireRoot, Return, Crash
  <2>2. ASSUME NEW w \in Writers, Begin(w) \/ HashJson(w) \/ LookFinal(w) \/ VerifyReplay(w)
        PROVE  UNCHANGED root
    BY <2>2 DEF Begin, HashJson, LookFinal, VerifyReplay
  <2>3. ASSUME NEW w \in Writers,
               \/ MkdirStage(w) \/ VerifyStage(w) \/ Rename(w) \/ RemoveStage(w)
               \/ EditSource(w) \/ \E m \in Members : CopyMember(w, m)
        PROVE  UNCHANGED root
    BY <2>3 DEF MkdirStage, VerifyStage, Rename, RemoveStage, EditSource, CopyMember
  <2>4. ASSUME (\E p \in Packages : DamageFinal(p)) \/ UNCHANGED vars PROVE UNCHANGED root
    BY <2>4 DEF DamageFinal, vars
  <2> QED  BY <2>1, <2>2, <2>3, <2>4 DEF Next, Step
<1>2. /\ final' \in [Packages -> Directories \cup {NoDir}]
      /\ damaged' \subseteq Packages /\ acked' \in [Packages -> SUBSET Directories]
  <2> DEFINE Kept == /\ final' \in [Packages -> Directories \cup {NoDir}]
                     /\ damaged' \subseteq Packages /\ acked' \in [Packages -> SUBSET Directories]
  <2> USE <1>0 DEF StoreTypes
  <2>1. ASSUME UNCHANGED <<final, damaged, acked>> PROVE Kept
    BY <2>1
  <2>2. ASSUME NEW w \in Writers, Rename(w) PROVE Kept
    <3>1. CASE Promotes(w)
      <4>1. stage[w] \in Directories
        BY <3>1 DEF Promotes, Directories
      <4>2. acked' \in {acked, [acked EXCEPT ![pkg[w]] = @ \cup {stage[w]}]}
        BY <3>1 DEF Promotes
      <4>3. acked' \in [Packages -> SUBSET Directories]
        BY <3>1, <4>1, <4>2 DEF Promotes
      <4> QED  BY <2>2, <3>1, <4>1, <4>3, RenameKinds DEF Promotes
    <3> QED  BY <2>1, <2>2, <3>1, RenameKinds
  <2>3. ASSUME NEW w \in Writers, VerifyReplay(w) PROVE Kept
    <3>1. \A d : d \in [Members -> Bytes] => d \in Directories
      BY DEF Directories
    <3> QED  BY <2>3, <3>1, ReplayKinds
  <2>4. ASSUME NEW p \in Packages, DamageFinal(p) PROVE Kept
    BY <2>4, DamageKinds
  <2> HIDE DEF Kept
  <2>5. Kept
    BY <2>1, <2>2, <2>3, <2>4, StoreSteady
  <2> QED  BY <2>5 DEF Kept
<1> QED  BY <1>1, <1>2 DEF StoreTypes

(* Final directories are whole and faithful until the store damages them.  *)
LEMMA NextFinalsFaithful == CustodyInv /\ [Next]_vars => FinalsFaithful'
<1> SUFFICES ASSUME CustodyInv, [Next]_vars PROVE FinalsFaithful'
  OBVIOUS
<1>0. TypeOK /\ FinalsFaithful
  BY DEF CustodyInv
<1>1. ASSUME UNCHANGED <<final, damaged>> PROVE FinalsFaithful'
  BY <1>0, <1>1 DEF FinalsFaithful
<1>2. ASSUME NEW w \in Writers, Rename(w) PROVE FinalsFaithful'
  <2>1. CASE Promotes(w)
    BY <1>0, <1>2, <2>1, RenameKinds DEF FinalsFaithful, Promotes, TypeOK
  <2> QED  BY <1>1, <1>2, <2>1, RenameKinds
<1>3. ASSUME NEW p \in Packages, DamageFinal(p) PROVE FinalsFaithful'
  BY <1>0, <1>3, DamageKinds DEF FinalsFaithful, TypeOK
<1>4. ASSUME NEW w \in Writers, VerifyReplay(w) PROVE FinalsFaithful'
  BY <1>1, <1>4, ReplayKinds
<1> QED  BY <1>1, <1>2, <1>3, <1>4, StoreSteady

(* Inside its critical section a call can rely on what it saw: whoever     *)
(* publishes holds the root.                                               *)
LEMMA NextCallState == CustodyInv /\ [Next]_vars => CallState'
<1> SUFFICES ASSUME CustodyInv, [Next]_vars PROVE CallState'
  OBVIOUS
<1>0. TypeOK /\ LockHeld /\ CallState
  BY DEF CustodyInv
<1> USE <1>0, StepNames DEF TypeOK, CallState, disk, Goto, Continue, Raise, EndCall
<1>1. ASSUME NEW w \in Writers, Begin(w) PROVE CallState'
  BY <1>1 DEF Begin, Verified
<1>2. ASSUME NEW w \in Writers, HashJson(w) PROVE CallState'
  BY <1>2 DEF HashJson, Verified
<1>3. ASSUME NEW w \in Writers, AcquireRoot(w) PROVE CallState'
  BY <1>3 DEF AcquireRoot, Verified
<1>4. ASSUME NEW w \in Writers, LookFinal(w) PROVE CallState'
  BY <1>4 DEF LookFinal, Verified
<1>5. ASSUME NEW w \in Writers, VerifyReplay(w) PROVE CallState'
  BY <1>5 DEF VerifyReplay, Verified
<1>6. ASSUME NEW w \in Writers, MkdirStage(w) PROVE CallState'
  BY <1>6 DEF MkdirStage, Verified
<1>7. ASSUME NEW w \in Writers, NEW m \in Members, CopyMember(w, m) PROVE CallState'
  BY <1>7 DEF CopyMember, Verified
<1>8. ASSUME NEW w \in Writers, VerifyStage(w) PROVE CallState'
  BY <1>8 DEF VerifyStage, Verified
<1>9. ASSUME NEW w \in Writers, Rename(w) PROVE CallState'
  <2>1. root = w /\ pc[w] = "rename"
    BY <1>9 DEF Rename, LockHeld
  <2>2. \A v \in Writers \ {w} : pc[v] \notin Locked
    BY <2>1 DEF LockHeld
  <2>3. \A v \in Writers \ {w} :
          UNCHANGED <<pc[v], pkg[v], stage[v], json[v]>>
    BY <1>9 DEF Rename
  <2>4. pc'[w] \in {"unlock", "rmtree"} /\ UNCHANGED pkg
    BY <1>9 DEF Rename
  <2>5. ASSUME NEW v \in Writers, v # w
        PROVE  /\ pc'[v] # "idle" => pkg'[v] \in Packages
               /\ pc'[v] \notin {"copy", "rename", "rmtree", "unlock"} => stage'[v] = NoDir
               /\ pc'[v] \notin {"rename", "mkstage", "copy", "replay"}
    BY <2>2, <2>3, <2>5
  <2>6. pkg[w] \in Packages
    BY <2>1
  <2> QED  BY <2>4, <2>5, <2>6
<1>10. ASSUME NEW w \in Writers, RemoveStage(w) PROVE CallState'
  BY <1>10 DEF RemoveStage, Verified
<1>11. ASSUME NEW w \in Writers, Return(w) \/ Crash(w) PROVE CallState'
  BY <1>11 DEF Return, Crash, Verified
<1>12. ASSUME NEW w \in Writers, EditSource(w) PROVE CallState'
  BY <1>12 DEF EditSource, Verified
<1>13. ASSUME NEW p \in Packages, DamageFinal(p) PROVE CallState'
  <2>1. \A q \in Packages : (final'[q] = NoDir) <=> (final[q] = NoDir)
    BY <1>13, DamageKinds, DirectoryExists
  <2>2. UNCHANGED <<pc, pkg, json, stage>>
    BY <1>13, DamageKinds
  <2> QED  BY <2>1, <2>2 DEF Verified
<1>14. ASSUME UNCHANGED vars PROVE CallState'
  BY <1>14 DEF vars, Verified
<1> HIDE DEF CallState, TypeOK
<1> QED
  BY <1>1, <1>2, <1>3, <1>4, <1>5, <1>6, <1>7, <1>8, <1>9, <1>10, <1>11, <1>12, <1>13,
     <1>14 DEF Next, Step

(* Initially nothing is stored, staged or running.                         *)
LEMMA InitCustodyInv == Init => CustodyInv
<1> SUFFICES ASSUME Init PROVE CustodyInv
  OBVIOUS
<1>1. CallTypes
  BY EmptyDirType, StepNames DEF Init, CallTypes
<1>2. StoreTypes /\ CountTypes /\ FlagTypes
  BY DEF Init, StoreTypes, CountTypes, FlagTypes
<1>3. LockHeld /\ CallState /\ FinalsFaithful
  BY StepNames DEF Init, LockHeld, CallState, FinalsFaithful
<1> QED  BY <1>1, <1>2, <1>3, TypeParts DEF CustodyInv

(* The custody invariant holds throughout.                                 *)
THEOREM CustodyInductive == Spec => []CustodyInv
<1>1. CustodyInv /\ [Next]_vars => CustodyInv'
  <2> SUFFICES ASSUME CustodyInv, [Next]_vars PROVE CustodyInv'
    OBVIOUS
  <2>1. CallTypes' /\ StoreTypes' /\ CountTypes' /\ FlagTypes'
    BY NextCallTypes, NextStoreTypes, NextCountTypes, NextFlagTypes DEF CustodyInv
  <2>2. TypeOK'
    BY <2>1 DEF TypeOK, CallTypes, StoreTypes, CountTypes, FlagTypes
  <2> QED  BY <2>2, NextLockHeld, NextCallState, NextFinalsFaithful DEF CustodyInv
<1> QED  BY InitCustodyInv, <1>1, PTL DEF Spec

(* The local backend implements the custody it promises: the rename is the *)
(* one step that publishes, and only what is there is acknowledged.        *)
THEOREM Refinement == Spec => ImplementsCustody
<1>1. Init => Custody!Init
  BY DEF Init, Custody!Init
<1>2. ASSUME CustodyInv, [Next]_vars PROVE [Custody!Next]_(Custody!vars)
  <2>0. TypeOK
    BY <1>2 DEF CustodyInv
  <2>1. ASSUME NEW w \in Writers, Rename(w) PROVE [Custody!Next]_(Custody!vars)
    <3>1. CASE Promotes(w)
      <4>1. /\ pkg[w] \in Packages /\ stage[w] \in Custody!Directories
            /\ Custody!Faithful(pkg[w], stage[w])
        BY <3>1 DEF Promotes, Media, Custody!Directories, Custody!Faithful
      <4>2. UNCHANGED damaged
        BY <1>2, <2>1, RenameKinds
      <4>3. Custody!Publish(pkg[w], stage[w])
        BY <3>1, <4>1, <4>2 DEF Promotes, Custody!Publish
      <4> QED  BY <4>1, <4>3 DEF Custody!Next
    <3> QED  BY <1>2, <2>1, <3>1, RenameKinds DEF Custody!vars
  <2>2. ASSUME NEW w \in Writers, VerifyReplay(w) PROVE [Custody!Next]_(Custody!vars)
    <3>1. pkg[w] \in Packages /\ UNCHANGED <<final, damaged>>
      BY <1>2, <2>2, ReplayKinds
    <3>2. CASE UNCHANGED acked
      BY <3>1, <3>2 DEF Custody!vars
    <3>3. CASE /\ final[pkg[w]] \in [Members -> Bytes]
               /\ acked' = [acked EXCEPT ![pkg[w]] = @ \cup {final[pkg[w]]}]
      <4>1. final[pkg[w]] # NoDir
        BY <3>3
      <4>2. Custody!Acknowledge(pkg[w])
        BY <3>1, <3>3, <4>1 DEF Custody!Acknowledge
      <4> QED  BY <3>1, <4>2 DEF Custody!Next
    <3> QED  BY <1>2, <2>2, <3>2, <3>3, ReplayKinds
  <2>3. ASSUME NEW p \in Packages, DamageFinal(p) PROVE Custody!Next
    <3>1. Custody!Damage(p)
      BY <2>0, <2>3, DamageKinds DEF Directories, Custody!Directories, Custody!Damage
    <3> QED  BY <3>1 DEF Custody!Next
  <2>4. ASSUME UNCHANGED <<final, damaged, acked>> PROVE UNCHANGED Custody!vars
    BY <2>4 DEF Custody!vars
  <2> QED  BY <1>2, <2>1, <2>2, <2>3, <2>4, StoreSteady
<1> QED  BY CustodyInductive, <1>1, <1>2, PTL DEF Spec, ImplementsCustody, Custody!Spec

---------------------------------------------------------------------------------
(* Staging directories.                                                    *)

(* Except for cleanup and the end of a call, no step leaves a staging      *)
(* directory behind or brings a call that has one to its end.              *)
LEMMA StepsKeepStaging ==
  ASSUME CustodyInv, [Next]_vars,
         ~ \E w \in Writers : RemoveStage(w) \/ Return(w) \/ Crash(w)
  PROVE  /\ abandoned' = abandoned /\ faults <= faults' /\ crashes' = crashes
         /\ Leaving' => Leaving
<1> DEFINE Kept == /\ abandoned' = abandoned /\ faults <= faults' /\ crashes' = crashes
                   /\ Leaving' => Leaving
<1>0. TypeOK /\ CallState
  BY DEF CustodyInv
<1> USE <1>0 DEF TypeOK, CallState, Leaving, disk, bounds, Goto, Continue, Raise, NoFault, Fault
<1>1. ASSUME NEW w \in Writers, Begin(w) \/ HashJson(w) \/ AcquireRoot(w) PROVE Kept
  BY <1>1 DEF Begin, HashJson, AcquireRoot
<1>2. ASSUME NEW w \in Writers, LookFinal(w) PROVE Kept
  BY <1>2 DEF LookFinal
<1>3. ASSUME NEW w \in Writers, VerifyReplay(w) PROVE Kept
  BY <1>3 DEF VerifyReplay
<1>4. ASSUME NEW w \in Writers, MkdirStage(w) PROVE Kept
  BY <1>4 DEF MkdirStage
<1>5. ASSUME NEW w \in Writers, NEW m \in Members, CopyMember(w, m) PROVE Kept
  BY <1>5 DEF CopyMember
<1>6. ASSUME NEW w \in Writers, VerifyStage(w) PROVE Kept
  BY <1>6 DEF VerifyStage
<1>7. ASSUME NEW w \in Writers, Rename(w) PROVE Kept
  BY <1>7 DEF Rename
<1>8. ASSUME NEW w \in Writers, EditSource(w) PROVE Kept
  BY <1>8 DEF EditSource
<1>9. ASSUME (\E p \in Packages : DamageFinal(p)) \/ UNCHANGED vars PROVE Kept
  BY <1>9 DEF DamageFinal, vars
<1> HIDE DEF Kept, TypeOK, CallState, Leaving
<1>10. Kept
  BY <1>1, <1>2, <1>3, <1>4, <1>5, <1>6, <1>7, <1>8, <1>9 DEF Next, Step
<1> QED  BY <1>10 DEF Kept

(* What is owed stays paid if faults and kills grow as much as it does.    *)
LEMMA Pays ==
  /\ \A a, b, f, c, g, d \in Nat : a <= f + c /\ b <= a /\ f <= g /\ c <= d => b <= g + d
  /\ \A a, b, f, c \in Nat :
       a <= f + c /\ b <= a + 1 => b <= (f + 1) + c /\ b <= f + (c + 1)
  OBVIOUS

(* Both accounts are natural numbers, next to each other.                  *)
LEMMA OwedBounds ==
  ASSUME abandoned \in Nat
  PROVE  Owed \in Nat /\ abandoned <= Owed /\ Owed <= abandoned + 1
  BY DEF Owed

(* Cleanup that fails is paid for by its fault; a kill by itself; and what *)
(* a returning call leaves was counted when its cleanup failed.            *)
LEMMA NextLeaksPaid ==
  ASSUME CustodyInv, LeaksPaid, [Next]_vars
  PROVE  LeaksPaid'
<1>0. TypeOK /\ LockHeld /\ CallState /\ Owed <= faults + crashes
  BY DEF CustodyInv, LeaksPaid
<1>1. ASSUME NEW w \in Writers, pc[w] \in Locked
      PROVE  \A v \in Writers \ {w} : pc[v] # "unlock"
  BY <1>0, <1>1, StepNames DEF LockHeld
<1>2. /\ abandoned \in Nat /\ faults \in Nat /\ crashes \in Nat
      /\ abandoned' \in Nat /\ faults' \in Nat /\ crashes' \in Nat
      /\ Owed \in Nat /\ Owed' \in Nat
  BY <1>0, NextCountTypes DEF TypeOK, CountTypes, Owed
<1>3. ASSUME Owed' <= Owed, faults <= faults', crashes <= crashes'
      PROVE  LeaksPaid'
  BY <1>0, <1>2, <1>3, Pays DEF LeaksPaid
<1>4. ASSUME NEW w \in Writers, RemoveStage(w) PROVE LeaksPaid'
  <2>1. /\ pc[w] = "rmtree" /\ abandoned' = abandoned /\ crashes' = crashes
        /\ \A v \in Writers \ {w} : pc'[v] = pc[v]
        /\ \/ stage'[w] = NoDir /\ faults' = faults
           \/ faults' = faults + 1
    BY <1>0, <1>4 DEF RemoveStage, TypeOK, disk, NoFault, Fault, Goto, Continue
  <2>2. /\ ~Leaving
        /\ \A v \in Writers \ {w} : pc'[v] # "unlock"
    BY <1>1, <2>1, StepNames DEF Leaving
  <2>3. CASE stage'[w] = NoDir /\ faults' = faults
    <3>1. ~Leaving'
      BY <2>2, <2>3 DEF Leaving
    <3> QED  BY <1>0, <2>1, <2>2, <2>3, <3>1 DEF LeaksPaid, Owed
  <2>4. CASE faults' = faults + 1
    <3>1. Owed' <= Owed + 1
      BY <1>2, <2>1, <2>2 DEF Owed
    <3>2. Owed' <= (faults + 1) + crashes
      BY <1>0, <1>2, <3>1, Pays, Zenon
    <3> QED  BY <2>1, <2>4, <3>2 DEF LeaksPaid
  <2> QED  BY <2>1, <2>3, <2>4
<1>5. ASSUME NEW w \in Writers, Return(w) \/ Crash(w) PROVE LeaksPaid'
  <2>1. /\ abandoned' = IF stage[w] = NoDir THEN abandoned ELSE abandoned + 1
        /\ faults' = faults /\ pc' = [pc EXCEPT ![w] = "idle"]
        /\ stage' = [stage EXCEPT ![w] = NoDir]
    BY <1>5 DEF Return, Crash, EndCall, Goto, bounds
  <2>2. Leaving' => Leaving
    BY <1>0, <2>1 DEF Leaving, TypeOK
  <2>3. CASE Crash(w)
    <3>1. crashes' = crashes + 1
      BY <2>3 DEF Crash
    <3>2. Owed' <= Owed + 1
      BY <1>2, <2>1, <2>2 DEF Owed
    <3>3. Owed' <= faults + (crashes + 1)
      BY <1>0, <1>2, <3>2, Pays, Zenon
    <3> QED  BY <2>1, <3>1, <3>3 DEF LeaksPaid
  <2>4. CASE Return(w)
    <3>1. crashes' = crashes
      BY <2>4 DEF Return, bounds
    <3>2. CASE stage[w] = NoDir
      BY <1>2, <1>3, <2>1, <2>2, <3>1, <3>2 DEF Owed
    <3>3. CASE stage[w] # NoDir
      <4>1. pc[w] = "unlock" /\ Leaving
        BY <1>0, <2>4, <3>3 DEF Return, CallState, Leaving
      <4>2. \A v \in Writers \ {w} : pc'[v] # "unlock"
        BY <1>0, <1>1, <2>1, <4>1, StepNames DEF TypeOK
      <4>3. ~Leaving'
        BY <1>0, <2>1, <4>2 DEF Leaving, TypeOK
      <4> QED  BY <1>2, <1>3, <2>1, <3>1, <3>3, <4>1, <4>3 DEF Owed
    <3> QED  BY <3>2, <3>3
  <2> QED  BY <1>5, <2>3, <2>4
<1>6. CASE ~ \E w \in Writers : RemoveStage(w) \/ Return(w) \/ Crash(w)
  <2>1. /\ abandoned' = abandoned /\ faults <= faults' /\ crashes' = crashes
        /\ Leaving' => Leaving
    BY <1>6, StepsKeepStaging
  <2> QED  BY <1>2, <1>3, <2>1 DEF Owed
<1> QED  BY <1>4, <1>5, <1>6

(* A staging directory outlives its call only if the process was killed or *)
(* its removal failed, each accounting for one directory.                  *)
THEOREM StagingIsAccounted == Spec => []StagingAccounted
<1>1. Init => LeaksPaid
  BY DEF Init, LeaksPaid, Owed, Leaving
<1>2. CustodyInv /\ LeaksPaid => StagingAccounted
  <2> SUFFICES ASSUME CustodyInv, LeaksPaid PROVE StagingAccounted
    OBVIOUS
  <2>1. /\ TypeOK /\ abandoned \in Nat /\ faults \in Nat /\ crashes \in Nat
        /\ Owed <= faults + crashes
    BY DEF CustodyInv, TypeOK, LeaksPaid
  <2>2. Owed \in Nat /\ abandoned <= Owed
    BY <2>1, OwedBounds
  <2>3. faults <= faults /\ crashes <= crashes
    BY <2>1
  <2>4. abandoned <= faults + crashes
    BY <2>1, <2>2, <2>3, Pays, Zenon
  <2> QED  BY <2>1, <2>4 DEF StagingAccounted
<1> QED  BY CustodyInductive, NextLeaksPaid, <1>1, <1>2, PTL DEF Spec

---------------------------------------------------------------------------------
(* Replay recovers.                                                        *)

(* What a call is sure of depends on its own variables, and at its end on  *)
(* the final directory of its package.                                     *)
LEMMA OthersUndisturbed ==
  ASSUME NEW w \in Writers, clean[w] => Undisturbed(w),
         UNCHANGED <<source[w], pkg[w], json[w], pc[w], stage[w], failed[w], clean[w]>>,
         pc[w] = "unlock" => UNCHANGED <<final, damaged>>
  PROVE  clean'[w] => Undisturbed(w)'
  BY DEF Undisturbed

(* A verified stage, or one that equals an undisturbed source, is whole.   *)
LEMMA CleanVerified ==
  ASSUME TypeOK, CallState, NEW w \in Writers, Undisturbed(w), pc[w] = "copy",
         \A m \in Members : stage[w][m] # Missing
  PROVE  Verified(w, stage[w])
<1>1. stage[w] \in Directories
  BY DEF TypeOK
<1>2. \A m \in Members : stage[w][m] = source[w][m]
  BY DEF Undisturbed
<1> QED  BY <1>1, <1>2 DEF Undisturbed, Verified, Directories

(* A replay of an undisturbed call is refused only for another rendering.  *)
LEMMA CleanReplay ==
  ASSUME CustodyInv, NEW w \in Writers, Undisturbed(w), pc[w] = "replay",
         ~Verified(w, final[pkg[w]])
  PROVE  pkg[w] \in damaged \/ /\ final[pkg[w]] # NoDir
                               /\ final[pkg[w]][Json] # source[w][Json]
<1>1. pkg[w] \in Packages /\ final[pkg[w]] # NoDir
  BY DEF CustodyInv, CallState
<1>2. json[w] = source[w][Json]
  BY DEF Undisturbed
<1>3. pkg[w] \notin damaged => /\ final[pkg[w]] \in [Members -> Bytes]
                              /\ \A m \in Media : final[pkg[w]][m] \in Bound[pkg[w]][m]
  BY <1>1 DEF CustodyInv, FinalsFaithful
<1> QED  BY <1>1, <1>2, <1>3 DEF Verified, Media

(* What a step of w itself leaves w sure of.                               *)
LEMMA OwnStep ==
  ASSUME CustodyInv, CleanState, NEW w \in Writers,
         Begin(w) \/ Step(w) \/ Crash(w) \/ EditSource(w)
  PROVE  clean'[w] => Undisturbed(w)'
<1>0. TypeOK /\ CallState /\ (clean[w] => Undisturbed(w))
  BY DEF CustodyInv, CleanState
<1> USE <1>0 DEF TypeOK, disk, Goto, Continue, Raise, NoFault, Fault
<1>1. CASE Begin(w)
  BY <1>1 DEF Begin, Undisturbed
<1>2. CASE HashJson(w)
  BY <1>2 DEF HashJson, Undisturbed
<1>3. CASE AcquireRoot(w)
  BY <1>3 DEF AcquireRoot, Undisturbed
<1>4. CASE LookFinal(w)
  BY <1>4 DEF LookFinal, Undisturbed
<1>5. CASE VerifyReplay(w)
  BY <1>5, CleanReplay DEF VerifyReplay, Undisturbed
<1>6. CASE MkdirStage(w)
  BY <1>6 DEF MkdirStage, Undisturbed, EmptyDir
<1>7. ASSUME NEW m \in Members, CopyMember(w, m) PROVE clean'[w] => Undisturbed(w)'
  BY <1>7 DEF CopyMember, Undisturbed, Directories
<1>8. CASE VerifyStage(w)
  BY <1>8, CleanVerified DEF VerifyStage, Undisturbed
<1>9. CASE Rename(w)
  <2>1. final[pkg[w]] = NoDir
    BY <1>9 DEF Rename, CallState
  <2> QED  BY <1>9, <2>1 DEF Rename, Undisturbed
<1>10. CASE RemoveStage(w)
  BY <1>10 DEF RemoveStage, Undisturbed
<1>11. CASE Return(w) \/ Crash(w)
  BY <1>11 DEF Return, Crash, EndCall, Undisturbed
<1>12. CASE EditSource(w)
  BY <1>12 DEF EditSource
<1> HIDE DEF TypeOK
<1> QED
  BY <1>1, <1>2, <1>3, <1>4, <1>5, <1>6, <1>7, <1>8, <1>9, <1>10, <1>11, <1>12 DEF Step

(* A step of v leaves the calls of the other writers as they are.          *)
LEMMA StepIsLocal ==
  ASSUME TypeOK, NEW v \in Writers, Begin(v) \/ Step(v) \/ Crash(v) \/ EditSource(v),
         NEW w \in Writers, w # v
  PROVE  UNCHANGED <<source[w], pkg[w], json[w], pc[w], stage[w], failed[w], clean[w]>>
<1> DEFINE Kept ==
      UNCHANGED <<source[w], pkg[w], json[w], pc[w], stage[w], failed[w], clean[w]>>
<1> USE DEF TypeOK, Goto, Continue, Raise, NoFault, Fault, EndCall
<1>1. ASSUME Begin(v) \/ HashJson(v) \/ AcquireRoot(v) PROVE Kept
  BY <1>1 DEF Begin, HashJson, AcquireRoot
<1>2. ASSUME LookFinal(v) \/ VerifyReplay(v) \/ MkdirStage(v) PROVE Kept
  BY <1>2 DEF LookFinal, VerifyReplay, MkdirStage
<1>3. ASSUME NEW m \in Members, CopyMember(v, m) PROVE Kept
  BY <1>3 DEF CopyMember
<1>4. ASSUME VerifyStage(v) \/ Rename(v) \/ RemoveStage(v) PROVE Kept
  BY <1>4 DEF VerifyStage, Rename, RemoveStage
<1>5. ASSUME Return(v) \/ Crash(v) \/ EditSource(v) PROVE Kept
  BY <1>5 DEF Return, Crash, EditSource
<1> HIDE DEF Kept, TypeOK
<1>6. Kept
  BY <1>1, <1>2, <1>3, <1>4, <1>5 DEF Step
<1> QED  BY <1>6 DEF Kept

(* Only the holder of the root publishes, so a call that is about to       *)
(* return still sees what it saw, unless the store damages it.             *)
LEMMA NextCleanState ==
  ASSUME CustodyInv, CleanState, [Next]_vars
  PROVE  CleanState'
<1>0. TypeOK /\ LockHeld /\ CallState
  BY DEF CustodyInv
<1> SUFFICES ASSUME NEW w \in Writers PROVE clean'[w] => Undisturbed(w)'
  BY DEF CleanState
<1>1. clean[w] => Undisturbed(w)
  BY DEF CleanState
<1>2. ASSUME NEW v \in Writers, Begin(v) \/ Step(v) \/ Crash(v) \/ EditSource(v)
      PROVE  clean'[w] => Undisturbed(w)'
  <2>1. CASE v = w
    BY <1>2, <2>1, OwnStep
  <2>2. CASE v # w
    <3>1. UNCHANGED <<source[w], pkg[w], json[w], pc[w], stage[w], failed[w], clean[w]>>
      BY <1>0, <1>2, <2>2, StepIsLocal
    <3>2. ASSUME pc[w] = "unlock" PROVE UNCHANGED <<final, damaged>>
      <4>1. pc[v] \notin Locked
        BY <1>0, <2>2, <3>2, StepNames DEF LockHeld
      <4>2. ~Rename(v) /\ ~VerifyReplay(v)
        BY <4>1, StepNames DEF Rename, VerifyReplay
      <4>3. UNCHANGED <<final, damaged>>
        <5> USE <1>2, <4>2 DEF disk
        <5>1. ASSUME NEW m \in Members, CopyMember(v, m) PROVE UNCHANGED <<final, damaged>>
          BY <5>1 DEF CopyMember
        <5>2. CASE \/ Begin(v) \/ HashJson(v) \/ AcquireRoot(v) \/ LookFinal(v)
                   \/ MkdirStage(v) \/ VerifyStage(v)
          BY <5>2 DEF Begin, HashJson, AcquireRoot, LookFinal, MkdirStage, VerifyStage
        <5>3. CASE RemoveStage(v) \/ Return(v) \/ Crash(v) \/ EditSource(v)
          BY <5>3 DEF RemoveStage, Return, Crash, EditSource
        <5> QED  BY <5>1, <5>2, <5>3 DEF Step
      <4> QED  BY <4>3
    <3> QED  BY <1>1, <3>1, <3>2, OthersUndisturbed
  <2> QED  BY <2>1, <2>2
<1>3. ASSUME NEW p \in Packages, DamageFinal(p) PROVE clean'[w] => Undisturbed(w)'
  <2>1. /\ damaged' = damaged \cup {p}
        /\ UNCHANGED <<source, pkg, json, pc, stage, failed, clean>>
        /\ \A q \in Packages \ {p} : final'[q] = final[q]
    BY <1>0, <1>3, DamageKinds DEF TypeOK
  <2>2. pc[w] = "unlock" => pkg[w] \in Packages
    BY <1>0 DEF CallState
  <2> QED  BY <1>1, <2>1, <2>2 DEF Undisturbed
<1>4. CASE UNCHANGED vars
  BY <1>1, <1>4 DEF vars, Undisturbed
<1> QED  BY <1>2, <1>3, <1>4 DEF Next

(* A call that meets no fault, edit or damage of its own raises only when  *)
(* another rendering of the JSON is in custody.                            *)
THEOREM CleanCallsSucceed == Spec => []CleanCallSucceeds
<1>1. Init => CleanState
  BY DEF Init, CleanState, Undisturbed
<1>2. CleanState => CleanCallSucceeds
  BY DEF CleanState, Undisturbed, CleanCallSucceeds
<1> QED  BY CustodyInductive, NextCleanState, <1>1, <1>2, PTL DEF Spec
=================================================================================
