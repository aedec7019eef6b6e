-------------------------- MODULE PackageIngestProofs --------------------------
(***************************************************************************)
(* Machine-checked proofs about PackageIngest, for any documents, members, *)
(* contents, ingesters and bounds: what the catalog offers is in custody,  *)
(* and a call that nothing disturbs ends well.                             *)
(***************************************************************************)
EXTENDS PackageIngest, TLAPS

USE IngestAssumption

(* Every directory in custody is whole, with the media of its document.    *)
FinalsFaithful ==
  \A p \in Packages : final[p] # NoDir =>
    /\ final[p] \in [Members -> Bytes]
    /\ \A m \in Media : final[p][m] \in Bound[p][m]

(* A call reaches the catalog only after its document is in custody, and   *)
(* so does what the catalog holds.                                         *)
StoredFirst ==
  /\ \A i \in Ingesters : pc[i] = "catalog" => final[doc[i]] # NoDir
  /\ catalog # None => final[catalog] # NoDir

CustodyInv == TypeOK /\ FinalsFaithful /\ StoredFirst

--------------------------------------------------------------------------------
(* The step names the actions go to.                                       *)
LEMMA StepNames ==
  /\ "idle" \in Steps /\ "snapshot" \in Steps /\ "compare" \in Steps
  /\ "reread" \in Steps /\ "hash" \in Steps /\ "store" \in Steps
  /\ "catalog" \in Steps /\ "verify" \in Steps /\ "return" \in Steps
  BY DEF Steps

(* What a step does to the call of i alone: where it goes and how it ends. *)
CallTypes ==
  /\ pc \in [Ingesters -> Steps]
  /\ text \in [Ingesters -> Bytes \cup {Missing}]
  /\ doc \in [Ingesters -> Packages \cup {None}]
  /\ first \in [Ingesters -> Snapshots]
  /\ \A i \in Ingesters :
       pc[i] \notin {"idle", "return"} => doc[i] # None /\ text[i] \in Bytes
  /\ result \in [Ingesters -> {None, "NOT_READY", "CATALOGED", "raised"}]
  /\ \A i \in Ingesters : pc[i] = "return" <=> result[i] # None

HashTypes ==
  /\ hashed \in [Ingesters -> SUBSET Media]
  /\ errors \in [Ingesters -> BOOLEAN]

StoreTypes ==
  /\ final \in [Packages -> Directories \cup {NoDir}]
  /\ catalog \in Packages \cup {None}

SourceTypes == dir \in Directories /\ stamp \in [Members -> Nat]

CleanType == clean \in [Ingesters -> BOOLEAN]

(* The type invariant is the conjunction of these.                         *)
LEMMA TypeParts ==
  TypeOK <=> CallTypes /\ HashTypes /\ StoreTypes /\ SourceTypes /\ CleanType
  BY DEF TypeOK, CallTypes, HashTypes, StoreTypes, SourceTypes, CleanType

(* A call that goes on or ends, and reads nothing, keeps its types.        *)
LEMMA CallMoves ==
  ASSUME CallTypes, NEW i \in Ingesters, UNCHANGED <<text, doc, first>>,
         pc[i] \notin {"idle", "return"},
         \/ \E step \in Steps \ {"idle", "return"} : Continue(i, step)
         \/ \E r \in {"NOT_READY", "CATALOGED", "raised"} : Finish(i, r)
  PROVE  CallTypes'
<1> USE StepNames DEF CallTypes, Continue, Finish, Goto
<1>1. /\ pc' \in [Ingesters -> Steps]
      /\ result' \in [Ingesters -> {None, "NOT_READY", "CATALOGED", "raised"}]
  <2>1. ASSUME NEW step \in Steps, Continue(i, step) PROVE <1>1!1 /\ <1>1!2
    BY <2>1
  <2>2. ASSUME NEW r \in {"NOT_READY", "CATALOGED", "raised"}, Finish(i, r)
        PROVE  <1>1!1 /\ <1>1!2
    BY <2>2
  <2> QED  BY <2>1, <2>2
<1>2. ASSUME NEW j \in Ingesters
      PROVE  pc'[j] = "return" <=> result'[j] # None
  <2>1. CASE j = i
    BY <2>1
  <2>2. CASE j # i
    BY <2>2
  <2> QED  BY <2>1, <2>2
<1>3. \A j \in Ingesters :
        pc'[j] \notin {"idle", "return"} => pc[j] \notin {"idle", "return"}
  OBVIOUS
<1> QED  BY <1>1, <1>2, <1>3

(* Every step keeps what a call has read, and how it ends, in its type.    *)
LEMMA NextCallTypes == TypeOK /\ [Next]_vars => CallTypes'
<1> SUFFICES ASSUME TypeOK, [Next]_vars PROVE CallTypes'
  OBVIOUS
<1>0. CallTypes /\ SourceTypes
  BY TypeParts
<1> USE <1>0, StepNames DEF call
<1> USE DEF CallTypes, Goto, Continue, Finish, EndCall
<1>1. ASSUME NEW i \in Ingesters, ReadJson(i) PROVE CallTypes'
  <2>1. CASE Finish(i, "NOT_READY") \/ Finish(i, "raised")
    <3>1. UNCHANGED <<text, doc, first>>
      BY <1>1, <2>1 DEF ReadJson
    <3>2. /\ pc' \in [Ingesters -> Steps]
          /\ result' \in [Ingesters -> {None, "NOT_READY", "CATALOGED", "raised"}]
      BY <2>1
    <3> QED  BY <2>1, <3>1, <3>2
  <2>2. CASE Continue(i, "snapshot")
    <3>1. PICK p \in Packages : /\ dir[Json] \in Bound[p][Json]
                               /\ text' = [text EXCEPT ![i] = dir[Json]]
                               /\ doc' = [doc EXCEPT ![i] = p]
      BY <1>1, <2>2 DEF ReadJson
    <3>2. UNCHANGED <<first, result>> /\ dir[Json] \in Bytes /\ pc[i] = "idle"
      BY <1>1, <2>2, <3>1 DEF ReadJson
    <3> QED  BY <2>2, <3>1, <3>2
  <2> QED  BY <1>1, <2>1, <2>2 DEF ReadJson
<1>2. ASSUME NEW i \in Ingesters, FirstSnapshot(i) PROVE CallTypes'
  <2>1. Snapshot \in Snapshots
    BY DEF Snapshot, Snapshots, SourceTypes
  <2> QED  BY <1>2, <2>1 DEF FirstSnapshot
<1> HIDE DEF CallTypes, Goto, Continue, Finish
<1>3. ASSUME NEW i \in Ingesters, SecondSnapshot(i) PROVE CallTypes'
  BY <1>3, CallMoves DEF SecondSnapshot
<1>4. ASSUME NEW i \in Ingesters, RereadJson(i) PROVE CallTypes'
  BY <1>4, CallMoves DEF RereadJson
<1>5. ASSUME NEW i \in Ingesters, NEW m \in Media, HashMember(i, m) PROVE CallTypes'
  BY <1>5, CallMoves DEF HashMember
<1>6. ASSUME NEW i \in Ingesters, ReportHashes(i) PROVE CallTypes'
  BY <1>6, CallMoves DEF ReportHashes
<1>7. ASSUME NEW i \in Ingesters, Store(i) PROVE CallTypes'
  BY <1>7, CallMoves DEF Store
<1>8. ASSUME NEW i \in Ingesters, CatalogPackage(i) PROVE CallTypes'
  BY <1>8, CallMoves DEF CatalogPackage
<1>9. ASSUME NEW i \in Ingesters, VerifyCatalog(i) PROVE CallTypes'
  BY <1>9, CallMoves DEF VerifyCatalog
<1>10. ASSUME NEW i \in Ingesters, Return(i) \/ Crash(i) PROVE CallTypes'
  <2>1. EndCall(i)
    BY <1>10 DEF Return, Crash
  <2>2. None \in Snapshots
    BY DEF Snapshots
  <2> QED  BY <2>1, <2>2 DEF CallTypes, Goto
<1>11. ASSUME EditSource \/ UNCHANGED vars PROVE CallTypes'
  <2>1. UNCHANGED <<pc, text, doc, first, result>>
    BY <1>11 DEF EditSource, vars
  <2> QED  BY <2>1 DEF CallTypes
<1> QED
  BY <1>1, <1>2, <1>3, <1>4, <1>5, <1>6, <1>7, <1>8, <1>9, <1>10, <1>11 DEF Next, Step

(* Every step keeps the source directory and the comparison of the media   *)
(* in their types.                                                         *)
LEMMA NextSourceTypes == TypeOK /\ [Next]_vars => HashTypes' /\ SourceTypes'
<1> SUFFICES ASSUME TypeOK, [Next]_vars PROVE HashTypes' /\ SourceTypes'
  OBVIOUS
<1>0. HashTypes /\ SourceTypes
  BY TypeParts
<1> DEFINE Goal == HashTypes' /\ SourceTypes'
<1> USE <1>0 DEF HashTypes, SourceTypes, call, source
<1>1. ASSUME NEW i \in Ingesters, NEW m \in Media, HashMember(i, m) PROVE Goal
  BY <1>1 DEF HashMember
<1>2. ASSUME NEW i \in Ingesters, Return(i) \/ Crash(i) PROVE Goal
  BY <1>2 DEF Return, Crash, EndCall
<1>3. ASSUME EditSource PROVE Goal
  <2>1. \A p \in Packages : Whole(p) \subseteq Directories
    BY DEF Whole, Directories
  <2>2. dir' \in Directories
    BY <1>3, <2>1 DEF EditSource, Directories
  <2>3. stamp' \in [Members -> Nat]
    BY <1>3 DEF EditSource
  <2> QED  BY <1>3, <2>2, <2>3 DEF EditSource
<1>4. ASSUME NEW i \in Ingesters,
             \/ ReadJson(i) \/ FirstSnapshot(i) \/ SecondSnapshot(i) \/ RereadJson(i)
             \/ ReportHashes(i) \/ Store(i) \/ CatalogPackage(i) \/ VerifyCatalog(i)
      PROVE  UNCHANGED <<hashed, errors, dir, stamp>>
  BY <1>4 DEF ReadJson, FirstSnapshot, SecondSnapshot, RereadJson, ReportHashes,
              Store, CatalogPackage, VerifyCatalog
<1>5. ASSUME UNCHANGED <<hashed, errors, dir, stamp>> PROVE Goal
  BY <1>5
<1>6. ASSUME UNCHANGED vars PROVE Goal
  BY <1>6 DEF vars
<1> HIDE DEF Goal, HashTypes, SourceTypes
<1>7. Goal
  BY <1>1, <1>2, <1>3, <1>4, <1>5, <1>6 DEF Next, Step
<1> QED  BY <1>7 DEF Goal

(* Every step keeps the history of undisturbed calls Boolean.              *)
LEMMA NextCleanType == TypeOK /\ [Next]_vars => CleanType'
<1> SUFFICES ASSUME TypeOK, [Next]_vars PROVE CleanType'
  OBVIOUS
<1>0. CleanType
  BY TypeParts
<1> USE <1>0 DEF CleanType, NoFault, Fault, EndCall
<1>1. ASSUME NEW i \in Ingesters, ReadJson(i) PROVE CleanType'
  BY <1>1, Zenon DEF ReadJson
<1>2. ASSUME EditSource PROVE CleanType'
  BY <1>2, Zenon DEF EditSource
<1>3. ASSUME NEW i \in Ingesters, Store(i) \/ CatalogPackage(i) \/ VerifyCatalog(i)
      PROVE  CleanType'
  BY <1>3 DEF Store, CatalogPackage, VerifyCatalog
<1>4. ASSUME NEW i \in Ingesters, Return(i) \/ Crash(i) PROVE CleanType'
  BY <1>4 DEF Return, Crash
<1>5. ASSUME NEW i \in Ingesters,
             \/ FirstSnapshot(i) \/ SecondSnapshot(i) \/ RereadJson(i) \/ ReportHashes(i)
             \/ \E m \in Media : HashMember(i, m)
      PROVE  CleanType'
  BY <1>5 DEF FirstSnapshot, SecondSnapshot, RereadJson, ReportHashes, HashMember
<1>6. ASSUME UNCHANGED vars PROVE CleanType'
  BY <1>6 DEF vars
<1> HIDE DEF CleanType
<1> QED  BY <1>1, <1>2, <1>3, <1>4, <1>5, <1>6 DEF Next, Step

(* The call of i publishes the directory it finds, or acknowledges it.     *)
Publishes(i) ==
  /\ Storable(i) /\ final[doc[i]] = NoDir
  /\ final' = [final EXCEPT ![doc[i]] = dir]

Confirms(i) ==
  /\ Storable(i) /\ final[doc[i]] = dir
  /\ UNCHANGED final

(* A storing call publishes where there was nothing, confirms what equals  *)
(* its source, or leaves the store alone and goes no further.              *)
LEMMA StoreKinds ==
  ASSUME TypeOK, NEW i \in Ingesters, Store(i)
  PROVE  /\ doc[i] \in Packages
         /\ UNCHANGED <<catalog, doc>>
         /\ \A j \in Ingesters \ {i} : pc'[j] = pc[j]
         /\ \/ Publishes(i) \/ Confirms(i)
            \/ UNCHANGED final /\ pc' = [pc EXCEPT ![i] = "return"]
<1>1. doc[i] \in Packages /\ UNCHANGED <<catalog, doc>>
  BY DEF TypeOK, Store, call
<1>2. \A j \in Ingesters \ {i} : pc'[j] = pc[j]
  BY DEF TypeOK, Store, Goto, Continue, Finish
<1>3. \/ Publishes(i) \/ Confirms(i)
      \/ UNCHANGED final /\ pc' = [pc EXCEPT ![i] = "return"]
  BY DEF Store, Publishes, Confirms, Goto, Finish
<1> QED  BY <1>1, <1>2, <1>3

(* What a backend accepts is a whole directory with the document's media.  *)
LEMMA StorableFaithful ==
  ASSUME TypeOK, NEW i \in Ingesters, Storable(i)
  PROVE  /\ dir \in [Members -> Bytes] /\ dir \in Directories /\ dir # NoDir
         /\ \A m \in Media : dir[m] \in Bound[doc[i]][m]
<1>1. dir \in [Members -> Bytes \cup {Missing}]
  BY DEF TypeOK, Directories
<1>2. dir \in [Members -> Bytes]
  BY <1>1 DEF Storable
<1> QED  BY <1>1, <1>2 DEF Storable, Directories

(* Everything but storing and cataloging leaves store and catalog alone,   *)
(* and brings no call to the catalog.                                      *)
LEMMA QuietSteps ==
  ASSUME TypeOK, [Next]_vars,
         ~ \E i \in Ingesters : Store(i) \/ CatalogPackage(i)
  PROVE  /\ UNCHANGED <<final, catalog>>
         /\ \A j \in Ingesters : pc'[j] = "catalog" =>
              pc[j] = "catalog" /\ doc'[j] = doc[j]
<1> DEFINE Quiet == /\ UNCHANGED <<final, catalog>>
                    /\ \A j \in Ingesters : pc'[j] = "catalog" =>
                         pc[j] = "catalog" /\ doc'[j] = doc[j]
<1> USE DEF TypeOK, call, stores, Goto, Continue, Finish, EndCall
<1>1. ASSUME NEW i \in Ingesters, ReadJson(i) PROVE Quiet
  BY <1>1 DEF ReadJson
<1>2. ASSUME NEW i \in Ingesters, FirstSnapshot(i) \/ SecondSnapshot(i) PROVE Quiet
  BY <1>2 DEF FirstSnapshot, SecondSnapshot
<1>3. ASSUME NEW i \in Ingesters, RereadJson(i) \/ ReportHashes(i) PROVE Quiet
  BY <1>3 DEF RereadJson, ReportHashes
<1>4. ASSUME NEW i \in Ingesters, NEW m \in Media, HashMember(i, m) PROVE Quiet
  BY <1>4 DEF HashMember
<1>5. ASSUME NEW i \in Ingesters, VerifyCatalog(i) PROVE Quiet
  BY <1>5 DEF VerifyCatalog
<1>6. ASSUME NEW i \in Ingesters, Return(i) \/ Crash(i) PROVE Quiet
  BY <1>6 DEF Return, Crash
<1>7. ASSUME EditSource \/ UNCHANGED vars PROVE Quiet
  BY <1>7 DEF EditSource, vars
<1> HIDE DEF Quiet, TypeOK
<1>8. Quiet
  BY <1>1, <1>2, <1>3, <1>4, <1>5, <1>6, <1>7 DEF Next, Step
<1> QED  BY <1>8 DEF Quiet

(* Store and catalog keep their types, finals stay faithful, and nothing   *)
(* reaches the catalog before it is in custody.                            *)
LEMMA NextCustody ==
  CustodyInv /\ [Next]_vars => StoreTypes' /\ FinalsFaithful' /\ StoredFirst'
<1> SUFFICES ASSUME CustodyInv, [Next]_vars
             PROVE  StoreTypes' /\ FinalsFaithful' /\ StoredFirst'
  OBVIOUS
<1>0. TypeOK /\ StoreTypes /\ FinalsFaithful /\ StoredFirst
  BY TypeParts DEF CustodyInv
<1>1. ASSUME NEW i \in Ingesters, Store(i)
      PROVE  StoreTypes' /\ FinalsFaithful' /\ StoredFirst'
  <2>1. /\ doc[i] \in Packages /\ UNCHANGED <<catalog, doc>>
        /\ \A j \in Ingesters \ {i} : pc'[j] = pc[j]
    BY <1>0, <1>1, StoreKinds
  <2>2. CASE UNCHANGED final /\ pc' = [pc EXCEPT ![i] = "return"]
    BY <1>0, <2>1, <2>2 DEF StoreTypes, FinalsFaithful, StoredFirst, TypeOK
  <2>3. CASE Publishes(i) \/ Confirms(i)
    <3>1. /\ dir \in [Members -> Bytes] /\ dir \in Directories /\ dir # NoDir
          /\ \A m \in Media : dir[m] \in Bound[doc[i]][m]
      BY <1>0, <2>3, StorableFaithful DEF Publishes, Confirms
    <3>2. final'[doc[i]] = dir /\ \A p \in Packages \ {doc[i]} : final'[p] = final[p]
      BY <1>0, <2>1, <2>3 DEF Publishes, Confirms, StoreTypes
    <3>3. StoreTypes'
      <4>1. final' \in [Packages -> Directories \cup {NoDir}]
        BY <1>0, <2>1, <2>3, <3>1 DEF Publishes, Confirms, StoreTypes
      <4> QED  BY <1>0, <2>1, <4>1 DEF StoreTypes
    <3>4. FinalsFaithful'
      BY <1>0, <3>1, <3>2 DEF FinalsFaithful
    <3>5. \A p \in Packages : final[p] # NoDir => final'[p] # NoDir
      BY <3>1, <3>2
    <3>6. \A j \in Ingesters : pc'[j] = "catalog" => final'[doc[j]] # NoDir
      <4> SUFFICES ASSUME NEW j \in Ingesters, pc'[j] = "catalog"
                   PROVE  final'[doc[j]] # NoDir
        OBVIOUS
      <4>1. CASE j = i
        BY <3>1, <3>2, <4>1
      <4>2. CASE j # i
        BY <1>0, <2>1, <3>5, <4>2 DEF StoredFirst, TypeOK
      <4> QED  BY <4>1, <4>2
    <3>7. StoredFirst'
      BY <1>0, <2>1, <3>5, <3>6 DEF StoredFirst, StoreTypes
    <3> QED  BY <3>3, <3>4, <3>7
  <2> QED  BY <1>0, <1>1, <2>2, <2>3, StoreKinds
<1>2. ASSUME NEW i \in Ingesters, CatalogPackage(i)
      PROVE  StoreTypes' /\ FinalsFaithful' /\ StoredFirst'
  <2>1. /\ UNCHANGED <<final, doc>>
        /\ catalog' = catalog \/ catalog' = doc[i]
        /\ doc[i] \in Packages /\ final[doc[i]] # NoDir
    BY <1>0, <1>2 DEF CatalogPackage, call, TypeOK, StoredFirst
  <2>2. \A j \in Ingesters : pc'[j] = "catalog" => pc[j] = "catalog"
    BY <1>0, <1>2 DEF CatalogPackage, TypeOK, Goto, Continue, Finish
  <2> QED  BY <1>0, <2>1, <2>2 DEF StoreTypes, FinalsFaithful, StoredFirst
<1>3. CASE ~ \E i \in Ingesters : Store(i) \/ CatalogPackage(i)
  BY <1>0, <1>3, QuietSteps DEF StoreTypes, FinalsFaithful, StoredFirst
<1> QED  BY <1>1, <1>2, <1>3

(* Initially nothing is stored, cataloged or running.                      *)
LEMMA InitCustodyInv == Init => CustodyInv
<1> SUFFICES ASSUME Init PROVE CustodyInv
  OBVIOUS
<1>1. CallTypes /\ HashTypes
  BY StepNames DEF Init, CallTypes, HashTypes, Snapshots
<1>2. StoreTypes /\ SourceTypes /\ CleanType
  BY DEF Init, StoreTypes, SourceTypes, CleanType, Whole, Directories
<1>3. FinalsFaithful /\ StoredFirst
  BY DEF Init, FinalsFaithful, StoredFirst
<1> QED  BY <1>1, <1>2, <1>3, TypeParts DEF CustodyInv

(* The custody invariant holds throughout.                                 *)
THEOREM CustodyInductive == Spec => []CustodyInv
<1>1. CustodyInv /\ [Next]_vars => TypeOK'
  <2> SUFFICES ASSUME CustodyInv, [Next]_vars PROVE TypeOK'
    OBVIOUS
  <2>1. /\ CallTypes' /\ HashTypes' /\ StoreTypes' /\ SourceTypes' /\ CleanType'
    BY NextCallTypes, NextSourceTypes, NextCleanType, NextCustody DEF CustodyInv
  <2> QED  BY <2>1 DEF TypeOK, CallTypes, HashTypes, StoreTypes, SourceTypes, CleanType
<1>2. CustodyInv /\ [Next]_vars => CustodyInv'
  BY <1>1, NextCustody DEF CustodyInv
<1> QED  BY InitCustodyInv, <1>2, PTL DEF Spec

(* Whatever the producer rewrites, and whatever is killed or fails, what   *)
(* the catalog offers is in custody with the media its document names.     *)
THEOREM CatalogCustodied == Spec => []CatalogIsCustodied
<1>1. CustodyInv => CatalogIsCustodied
  BY DEF CustodyInv, CatalogIsCustodied, FinalsFaithful, StoredFirst, TypeOK
<1> QED  BY CustodyInductive, <1>1, PTL

--------------------------------------------------------------------------------
(* Undisturbed calls.                                                      *)

(* Before the media are hashed, no mismatch is on record.                  *)
NoErrorsYet ==
  \A i \in Ingesters : pc[i] \in {"idle", "snapshot", "compare", "reread"} => ~errors[i]

(* An undisturbed call over the package p has read what is still there,    *)
(* and ends well unless custody holds another rendering of p.              *)
Undisturbed(i, p) ==
  /\ pc[i] \notin {"idle", "return"} => doc[i] = p /\ text[i] = dir[Json]
  /\ pc[i] = "compare" => first[i] = stamp
  /\ pc[i] = "hash" => ~errors[i]
  /\ pc[i] = "verify" => catalog = p
  /\ pc[i] = "return" => \/ result[i] = "CATALOGED" /\ catalog = p
                         \/ final[p] \notin {NoDir, dir}

CleanInv ==
  \A i \in Ingesters :
    (clean[i] /\ pc[i] # "idle") =>
      /\ \A j \in Ingesters \ {i} : pc[j] = "idle"
      /\ \A p \in Packages : dir \in Whole(p) => Undisturbed(i, p)

(* A whole package lacks no member, and its JSON tells which document.     *)
LEMMA WholeDir ==
  ASSUME NEW p \in Packages, dir \in Whole(p)
  PROVE  /\ \A m \in Members : dir[m] # Missing /\ dir[m] \in Bound[p][m]
         /\ Snapshot = stamp
         /\ \A q \in Packages : dir[Json] \in Bound[q][Json] => q = p
<1>1. \A m \in Members : dir[m] # Missing /\ dir[m] \in Bound[p][m]
  BY DEF Whole
<1>2. Snapshot = stamp
  BY <1>1 DEF Snapshot
<1>3. \A q \in Packages : dir[Json] \in Bound[q][Json] => q = p
  BY <1>1
<1> QED  BY <1>1, <1>2, <1>3

(* The actions of one call, without the producer.                          *)
Acts(i) == ReadJson(i) \/ Step(i) \/ Crash(i)

(* Only the producer changes the package directory.                        *)
LEMMA SourceSteady ==
  ASSUME NEW i \in Ingesters, Acts(i)
  PROVE  UNCHANGED <<dir, stamp>>
  BY DEF Acts, ReadJson, Step, FirstSnapshot, SecondSnapshot, RereadJson, HashMember,
         ReportHashes, Store, CatalogPackage, VerifyCatalog, Return, Crash, EndCall, source

(* A step of an undisturbed call over a whole package gets it further.     *)
LEMMA OwnStep ==
  ASSUME CustodyInv, NoErrorsYet, CleanInv, NEW i \in Ingesters, Acts(i),
         clean'[i], pc'[i] # "idle", NEW p \in Packages, dir \in Whole(p)
  PROVE  Undisturbed(i, p)'
<1>0. /\ TypeOK /\ UNCHANGED <<dir, stamp>>
      /\ (clean[i] /\ pc[i] # "idle") => Undisturbed(i, p)
  BY SourceSteady DEF CustodyInv, CleanInv
<1>1. /\ \A m \in Members : dir[m] # Missing /\ dir[m] \in Bound[p][m]
      /\ Snapshot = stamp
      /\ \A q \in Packages : dir[Json] \in Bound[q][Json] => q = p
  BY WholeDir
<1> USE <1>0, <1>1 DEF TypeOK, call, Goto, Continue, Finish, NoFault, Fault
<1>2. CASE ReadJson(i)
  BY <1>2 DEF ReadJson, Undisturbed
<1>3. CASE FirstSnapshot(i)
  BY <1>3 DEF FirstSnapshot, Undisturbed
<1>4. CASE SecondSnapshot(i)
  <2>1. first[i] = Snapshot /\ first[i] # None
    <3>1. stamp # None
      OBVIOUS
    <3> QED  BY <1>4, <3>1 DEF SecondSnapshot, Undisturbed
  <2> QED  BY <1>4, <2>1 DEF SecondSnapshot, Undisturbed
<1>5. CASE RereadJson(i)
  BY <1>5 DEF RereadJson, Undisturbed, NoErrorsYet
<1>6. ASSUME NEW m \in Media, HashMember(i, m) PROVE Undisturbed(i, p)'
  BY <1>6 DEF HashMember, Undisturbed, Media
<1>7. CASE ReportHashes(i)
  BY <1>7 DEF ReportHashes, Undisturbed
<1>8. CASE Store(i)
  <2>1. pc[i] = "store" /\ doc[i] \in Packages /\ (clean[i] => doc[i] = p)
    BY <1>8 DEF Store, Undisturbed
  <2>2. clean[i] => Storable(i)
    BY <2>1 DEF Storable, Media
  <2>3. clean[i]
    BY <1>8 DEF Store
  <2> QED  BY <1>8, <2>1, <2>2, <2>3 DEF Store, Undisturbed
<1>9. CASE CatalogPackage(i)
  BY <1>9 DEF CatalogPackage, Undisturbed
<1>10. CASE VerifyCatalog(i)
  BY <1>10 DEF VerifyCatalog, Undisturbed, stores
<1>11. CASE Return(i) \/ Crash(i)
  BY <1>11 DEF Return, Crash, EndCall
<1> QED
  BY <1>2, <1>3, <1>4, <1>5, <1>6, <1>7, <1>8, <1>9, <1>10, <1>11 DEF Acts, Step

(* Mismatches are recorded only while the media are hashed.                *)
LEMMA NextNoErrorsYet ==
  ASSUME CustodyInv, NoErrorsYet, [Next]_vars
  PROVE  NoErrorsYet'
<1>0. TypeOK
  BY DEF CustodyInv
<1> USE <1>0 DEF TypeOK, NoErrorsYet, call, Goto, Continue, Finish, EndCall
<1>1. ASSUME NEW i \in Ingesters, ReadJson(i) \/ FirstSnapshot(i) PROVE NoErrorsYet'
  BY <1>1 DEF ReadJson, FirstSnapshot
<1>2. ASSUME NEW i \in Ingesters, SecondSnapshot(i) \/ RereadJson(i) PROVE NoErrorsYet'
  BY <1>2 DEF SecondSnapshot, RereadJson
<1>3. ASSUME NEW i \in Ingesters, NEW m \in Media, HashMember(i, m) PROVE NoErrorsYet'
  BY <1>3 DEF HashMember
<1>4. ASSUME NEW i \in Ingesters, ReportHashes(i) \/ Store(i) PROVE NoErrorsYet'
  BY <1>4 DEF ReportHashes, Store
<1>5. ASSUME NEW i \in Ingesters, CatalogPackage(i) \/ VerifyCatalog(i) PROVE NoErrorsYet'
  BY <1>5 DEF CatalogPackage, VerifyCatalog
<1>6. ASSUME NEW i \in Ingesters, Return(i) \/ Crash(i) PROVE NoErrorsYet'
  BY <1>6 DEF Return, Crash
<1>7. ASSUME EditSource \/ UNCHANGED vars PROVE NoErrorsYet'
  BY <1>7 DEF EditSource, vars
<1> HIDE DEF NoErrorsYet, TypeOK
<1> QED  BY <1>1, <1>2, <1>3, <1>4, <1>5, <1>6, <1>7 DEF Next, Step

(* A step concerns its own call; one that begins disturbs all others.      *)
LEMMA CleanAlone ==
  ASSUME CustodyInv, CleanInv, NEW i \in Ingesters, Acts(i),
         NEW j \in Ingesters, clean'[j], pc'[j] # "idle"
  PROVE  j = i /\ \A k \in Ingesters \ {j} : pc'[k] = "idle"
<1>0. TypeOK /\ CleanInv
  BY DEF CustodyInv
<1>1. CASE ReadJson(i)
  <2>1. \A k \in Ingesters \ {i} : pc'[k] = pc[k]
    BY <1>0, <1>1 DEF ReadJson, TypeOK, Goto, Continue, Finish
  <2>2. /\ \A k \in Ingesters \ {i} : pc[k] = "idle"
        /\ j = i \/ pc[j] = "idle"
    BY <1>1, Zenon DEF ReadJson
  <2>3. j = i
    BY <2>1, <2>2
  <2> QED  BY <2>1, <2>2, <2>3
<1>2. CASE Step(i) \/ Crash(i)
  <2> USE DEF Step, FirstSnapshot, SecondSnapshot, RereadJson, HashMember, ReportHashes,
              Store, CatalogPackage, VerifyCatalog, Return, Crash, EndCall
  <2>1. /\ pc[i] # "idle"
        /\ \A k \in Ingesters \ {i} : pc'[k] = pc[k]
    BY <1>0, <1>2 DEF TypeOK, Goto, Continue, Finish
  <2>2. /\ \A k \in Ingesters \ {i} : clean'[k] = clean[k]
        /\ pc'[i] # "idle" /\ clean'[i] => clean[i]
    BY <1>0, <1>2 DEF TypeOK, NoFault, Fault, Goto
  <2>3. CASE j = i
    BY <1>0, <2>1, <2>2, <2>3 DEF CleanInv
  <2>4. CASE j # i
    BY <1>0, <2>1, <2>2, <2>4 DEF CleanInv
  <2> QED  BY <2>3, <2>4
<1> QED  BY <1>1, <1>2 DEF Acts

(* Nothing but faults, edits and other calls keeps a whole package out of  *)
(* the catalog.                                                            *)
LEMMA NextCleanInv ==
  ASSUME CustodyInv, NoErrorsYet, CleanInv, [Next]_vars
  PROVE  CleanInv'
<1>1. ASSUME NEW i \in Ingesters, Acts(i) PROVE CleanInv'
  <2> SUFFICES ASSUME NEW j \in Ingesters, clean'[j], pc'[j] # "idle"
               PROVE  /\ \A k \in Ingesters \ {j} : pc'[k] = "idle"
                      /\ \A p \in Packages : dir' \in Whole(p) => Undisturbed(j, p)'
    BY DEF CleanInv
  <2>1. j = i /\ \A k \in Ingesters \ {j} : pc'[k] = "idle"
    BY <1>1, CleanAlone
  <2>2. dir' = dir
    BY <1>1, SourceSteady
  <2> QED  BY <1>1, <2>1, <2>2, OwnStep
<1>2. ASSUME EditSource PROVE CleanInv'
  <2>1. \A i \in Ingesters : clean'[i] => pc'[i] = "idle"
    BY <1>2 DEF EditSource
  <2> QED  BY <2>1 DEF CleanInv
<1>3. ASSUME UNCHANGED vars PROVE CleanInv'
  BY <1>3 DEF vars, CleanInv, Undisturbed
<1> QED  BY <1>1, <1>2, <1>3 DEF Next, Acts

(* Replay is the recovery: an undisturbed call over a whole package ends   *)
(* CATALOGED, unless custody holds another rendering of its JSON.          *)
THEOREM CleanReplaysCatalog == Spec => []CleanReplayCatalogs
<1>1. Init => NoErrorsYet /\ CleanInv
  BY DEF Init, NoErrorsYet, CleanInv
<1>2. CleanInv => CleanReplayCatalogs
  BY DEF CleanInv, Undisturbed, CleanReplayCatalogs
<1> QED
  BY CustodyInductive, NextNoErrorsYet, NextCleanInv, <1>1, <1>2, PTL DEF Spec
================================================================================
