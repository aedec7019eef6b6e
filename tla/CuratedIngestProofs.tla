-------------------------- MODULE CuratedIngestProofs --------------------------
(***************************************************************************)
(* Machine-checked proofs about CuratedIngest, for any contents, sizes,    *)
(* technical facts, ingesters and bounds: what the catalog offers is in    *)
(* custody, its facts describe the bytes in custody, and custody itself is *)
(* immutable.                                                              *)
(***************************************************************************)
EXTENDS CuratedIngest, TLAPS

USE CuratedAssumption

(* The steps during which the first snapshot still has to be confirmed.    *)
Reading == {"open", "hash", "probe", "stat"}

(* What a call has collected by each of its steps.                         *)
Collected ==
  \A i \in Ingesters :
    /\ pc[i] \in Reading \cup {"store", "catalog"} => text[i] \in Texts
    /\ pc[i] = "hash" => opened[i] \in Bytes
    /\ pc[i] \in {"probe", "stat", "store", "catalog"} => sha[i] \in Bytes \cup {Torn}
    /\ pc[i] \in {"stat", "store", "catalog"} => facts[i] \in Facts
    /\ pc[i] \in {"store", "catalog"} => facts[i] \notin Mismatched

(* A directory in custody is the whole package of its document.            *)
FinalsWhole == \A d \in Documents : final[d] \in {NoDir, Package(d.bytes)}

(* A call reaches the catalog only after its document is in custody.       *)
StoredFirst ==
  \A i \in Ingesters :
    pc[i] = "catalog" => /\ sha[i] \in Bytes
                         /\ final[Document(i)] = Package(sha[i])

CustodyInv == TypeOK /\ edits \in Nat /\ Collected /\ FinalsWhole
              /\ StoredFirst /\ CatalogIsCustodied

(* The path has shown what it shows now and what running calls saw first.  *)
ShownBefore ==
  /\ file # Missing => Snapshot \in shown
  /\ \A i \in Ingesters : pc[i] \in Reading => before[i] \in shown

(* While no pair came back, a path that looks as it did at the first       *)
(* snapshot holds what the call has read since.                            *)
SameFile ==
  \A i \in Ingesters :
    (~reused /\ file # Missing /\ before[i] = Snapshot) =>
      /\ pc[i] = "hash" => opened[i] = file
      /\ pc[i] \in {"probe", "stat"} => sha[i] = file
      /\ pc[i] = "stat" => facts[i] = FactsOf[file]

(* Past the second snapshot, the facts are those of the hashed content.    *)
FactsConfirmed ==
  \A i \in Ingesters :
    (~reused /\ pc[i] \in {"store", "catalog"}) => facts[i] = FactsOf[sha[i]]

FactsInv == ShownBefore /\ SameFile /\ FactsConfirmed /\ FactsAreOfBytes

----------------------------------------------------------------------------------
(* The package of a content is a complete directory.                       *)
LEMMA PackageType == \A b \in Bytes : Package(b) \in Directories
  BY DEF Package, Directories, Contents, Members

(* The step names the actions go to.                                       *)
LEMMA StepNames ==
  /\ "idle" \in Steps /\ "open" \in Steps /\ "hash" \in Steps /\ "probe" \in Steps
  /\ "stat" \in Steps /\ "store" \in Steps /\ "catalog" \in Steps
  /\ "verify" \in Steps /\ "return" \in Steps
  BY DEF Steps

(* What a call stores or catalogs is a document.                           *)
LEMMA DocumentType ==
  ASSUME CustodyInv, NEW i \in Ingesters, pc[i] \in {"store", "catalog"}, sha[i] \in Bytes
  PROVE  Document(i) \in Documents /\ Document(i).bytes = sha[i]
  BY DEF CustodyInv, Collected, Document, Documents

(* A source that still hashes to the same is a whole version of the file.  *)
LEMMA RebindWhole ==
  ASSUME CustodyInv, NEW i \in Ingesters, pc[i] = "store", Rebind(i)
  PROVE  file \in Bytes /\ sha[i] \in Bytes
  BY DEF CustodyInv, Collected, TypeOK, Rebind

(* The end of a call, by return or by kill, forgets what it collected.     *)
LEMMA EndCallTypeOK ==
  ASSUME TypeOK, NEW i \in Ingesters, EndCall(i)
  PROVE  TypeOK'
  BY StepNames DEF TypeOK, EndCall, Goto, source, stores

(* Every step keeps every variable in its type.                            *)
LEMMA NextTypeOK == CustodyInv /\ [Next]_vars => TypeOK' /\ (edits \in Nat)'
<1> SUFFICES ASSUME CustodyInv, [Next]_vars PROVE TypeOK' /\ edits' \in Nat
  OBVIOUS
<1>0. TypeOK /\ edits \in Nat /\ Collected
  BY DEF CustodyInv
<1> USE <1>0, StepNames
<1> USE DEF TypeOK, call, source, stores, bounds, Goto, Continue, Finish, NoFault, Fault
<1>1. ASSUME NEW i \in Ingesters, FirstSnapshot(i) PROVE TypeOK' /\ edits' \in Nat
  <2>1. clean' \in [Ingesters -> BOOLEAN]
    BY <1>1, Zenon DEF FirstSnapshot
  <2>2. before' \in [Ingesters -> (Nat \X (0..MaxEdits)) \cup {None}]
    <3>1. file # Missing => Snapshot \in Nat \X (0..MaxEdits)
      BY DEF Snapshot
    <3> QED  BY <1>1, <3>1 DEF FirstSnapshot
  <2>3. /\ pc' \in [Ingesters -> Steps] /\ text' \in [Ingesters -> Texts \cup {None}]
        /\ result' \in [Ingesters -> {None, "NOT_READY", "CATALOGED", "raised"}]
        /\ UNCHANGED <<file, mtime, opened, sha, facts, final, catalog, edits>>
    BY <1>1 DEF FirstSnapshot
  <2> QED  BY <2>1, <2>2, <2>3
<1>2. ASSUME NEW i \in Ingesters, OpenSource(i) PROVE TypeOK' /\ edits' \in Nat
  BY <1>2 DEF OpenSource
<1>3. ASSUME NEW i \in Ingesters, HashSource(i) PROVE TypeOK' /\ edits' \in Nat
  <2>1. sha' \in [Ingesters -> Bytes \cup {Torn, None}]
    BY <1>3 DEF HashSource, Collected
  <2> QED  BY <1>3, <2>1 DEF HashSource
<1>4. ASSUME NEW i \in Ingesters, ProbeVideo(i) PROVE TypeOK' /\ edits' \in Nat
  <2>1. facts' \in [Ingesters -> Facts \cup {None}]
    BY <1>4 DEF ProbeVideo, Facts
  <2>2. clean' \in [Ingesters -> BOOLEAN]
    BY <1>4 DEF ProbeVideo
  <2>3. /\ pc' \in [Ingesters -> Steps]
        /\ result' \in [Ingesters -> {None, "NOT_READY", "CATALOGED", "raised"}]
        /\ UNCHANGED <<file, mtime, text, before, opened, sha, final, catalog, edits>>
    BY <1>4 DEF ProbeVideo
  <2> QED  BY <2>1, <2>2, <2>3
<1>5. ASSUME NEW i \in Ingesters, SecondSnapshot(i) PROVE TypeOK' /\ edits' \in Nat
  BY <1>5 DEF SecondSnapshot
<1>6. ASSUME NEW i \in Ingesters, Store(i) PROVE TypeOK' /\ edits' \in Nat
  <2>1. final' \in [Documents -> Directories \cup {NoDir}]
    <3>1. Rebind(i) => Package(file) \in Directories
      BY <1>6, RebindWhole, PackageType DEF Store
    <3> QED  BY <1>6, <3>1 DEF Store
  <2>2. /\ pc' \in [Ingesters -> Steps]
        /\ result' \in [Ingesters -> {None, "NOT_READY", "CATALOGED", "raised"}]
    BY <1>6 DEF Store
  <2>3. clean' \in [Ingesters -> BOOLEAN]
    BY <1>6 DEF Store
  <2>4. UNCHANGED <<file, mtime, text, before, opened, sha, facts, catalog, edits>>
    BY <1>6 DEF Store
  <2> QED  BY <2>1, <2>2, <2>3, <2>4
<1>7. ASSUME NEW i \in Ingesters, CatalogAsset(i) PROVE TypeOK' /\ edits' \in Nat
  <2>1. Document(i) \in Documents
    BY <1>7, DocumentType DEF CatalogAsset, CustodyInv, StoredFirst
  <2>2. catalog' \in Documents \cup {None}
    BY <1>7, <2>1 DEF CatalogAsset
  <2>3. clean' \in [Ingesters -> BOOLEAN]
    BY <1>7 DEF CatalogAsset
  <2>4. /\ pc' \in [Ingesters -> Steps]
        /\ result' \in [Ingesters -> {None, "NOT_READY", "CATALOGED", "raised"}]
        /\ UNCHANGED <<file, mtime, text, before, opened, sha, facts, final, edits>>
    BY <1>7 DEF CatalogAsset
  <2> QED  BY <2>2, <2>3, <2>4
<1>8. ASSUME NEW i \in Ingesters, VerifyCatalog(i) PROVE TypeOK' /\ edits' \in Nat
  <2>1. clean' \in [Ingesters -> BOOLEAN]
    BY <1>8 DEF VerifyCatalog
  <2>2. /\ pc' \in [Ingesters -> Steps]
        /\ result' \in [Ingesters -> {None, "NOT_READY", "CATALOGED", "raised"}]
        /\ UNCHANGED <<file, mtime, text, before, opened, sha, facts, final, catalog, edits>>
    BY <1>8 DEF VerifyCatalog
  <2> QED  BY <2>1, <2>2
<1>9. ASSUME NEW i \in Ingesters, Return(i) \/ Crash(i) PROVE TypeOK' /\ edits' \in Nat
  BY <1>9, EndCallTypeOK DEF Return, Crash
<1>10. CASE EditSource
  <2>1. file' \in Bytes \cup {Missing} /\ mtime' \in 0..MaxEdits /\ edits' \in Nat
    BY <1>10 DEF EditSource
  <2>2. clean' \in [Ingesters -> BOOLEAN]
    BY <1>10, Zenon DEF EditSource
  <2> QED  BY <1>10, <2>1, <2>2 DEF EditSource
<1>11. CASE UNCHANGED vars
  BY <1>11 DEF vars
<1> HIDE DEF TypeOK
<1> QED
  BY <1>1, <1>2, <1>3, <1>4, <1>5, <1>6, <1>7, <1>8, <1>9, <1>10, <1>11 DEF Next, Step

(* Only its own steps change a call's step and what it has collected.      *)
LEMMA NextCollected == CustodyInv /\ [Next]_vars => Collected'
<1> SUFFICES ASSUME CustodyInv, [Next]_vars PROVE Collected'
  OBVIOUS
<1> TypeOK /\ Collected
  BY DEF CustodyInv
<1> USE DEF TypeOK, Collected, Reading, call, source, Goto, Continue, Finish
<1>1. ASSUME NEW i \in Ingesters, FirstSnapshot(i) PROVE Collected'
  BY <1>1 DEF FirstSnapshot
<1>2. ASSUME NEW i \in Ingesters, OpenSource(i) PROVE Collected'
  BY <1>2 DEF OpenSource
<1>3. ASSUME NEW i \in Ingesters, HashSource(i) PROVE Collected'
  BY <1>3 DEF HashSource
<1>4. ASSUME NEW i \in Ingesters, ProbeVideo(i) PROVE Collected'
  BY <1>4 DEF ProbeVideo, Facts
<1>5. ASSUME NEW i \in Ingesters, SecondSnapshot(i) PROVE Collected'
  BY <1>5 DEF SecondSnapshot
<1>6. ASSUME NEW i \in Ingesters, Store(i) PROVE Collected'
  BY <1>6 DEF Store
<1>7. ASSUME NEW i \in Ingesters, CatalogAsset(i) \/ VerifyCatalog(i) PROVE Collected'
  BY <1>7 DEF CatalogAsset, VerifyCatalog
<1>8. ASSUME NEW i \in Ingesters, Return(i) \/ Crash(i) PROVE Collected'
  BY <1>8 DEF Return, Crash, EndCall
<1>9. CASE EditSource \/ UNCHANGED vars
  BY <1>9 DEF EditSource, vars
<1> HIDE DEF Collected, TypeOK
<1> QED  BY <1>1, <1>2, <1>3, <1>4, <1>5, <1>6, <1>7, <1>8, <1>9 DEF Next, Step

(* The call of i publishes its package, or acknowledges it.                *)
Publishes(i) ==
  /\ Document(i) \in Documents /\ sha[i] \in Bytes
  /\ final[Document(i)] = NoDir
  /\ final' = [final EXCEPT ![Document(i)] = Package(sha[i])]
  /\ acked' \in {acked, [acked EXCEPT ![Document(i)] = @ \cup {Package(sha[i])}]}

Confirms(i) ==
  /\ Document(i) \in Documents /\ sha[i] \in Bytes
  /\ final[Document(i)] # NoDir /\ final[Document(i)] = Package(sha[i])
  /\ UNCHANGED final
  /\ acked' = [acked EXCEPT ![Document(i)] = @ \cup {Package(sha[i])}]

(* A storing call publishes a package where there was none, confirms one   *)
(* that is right, or leaves the store alone and goes no further.           *)
LEMMA StoreKinds ==
  ASSUME CustodyInv, NEW i \in Ingesters, Store(i)
  PROVE  \/ Publishes(i) \/ Confirms(i)
         \/ UNCHANGED <<final, acked>> /\ pc' = [pc EXCEPT ![i] = "return"]
<1> USE DEF Store, Publishes, Confirms, Goto, Continue, Finish
<1>1. CASE ~Rebind(i)
  BY <1>1
<1>2. CASE Rebind(i)
  <2>1. sha[i] = file /\ sha[i] \in Bytes /\ Document(i) \in Documents
    BY <1>2, RebindWhole, DocumentType DEF Rebind
  <2>2. CASE final[Document(i)] = NoDir
    BY <1>2, <2>1, <2>2
  <2>3. CASE final[Document(i)] # NoDir
    BY <1>2, <2>1, <2>3
  <2> QED  BY <2>2, <2>3
<1> QED  BY <1>1, <1>2

(* Everything but storing and cataloging leaves store and catalog alone,   *)
(* and brings no call to the catalog.                                      *)
LEMMA QuietSteps ==
  ASSUME CustodyInv, [Next]_vars,
         ~ \E i \in Ingesters : Store(i) \/ CatalogAsset(i)
  PROVE  /\ UNCHANGED stores
         /\ \A j \in Ingesters : pc'[j] = "catalog" =>
              pc[j] = "catalog" /\ UNCHANGED <<sha[j], facts[j], text[j]>>
<1> DEFINE Quiet == /\ UNCHANGED stores
                    /\ \A j \in Ingesters : pc'[j] = "catalog" =>
                         pc[j] = "catalog" /\ UNCHANGED <<sha[j], facts[j], text[j]>>
<1>0. TypeOK
  BY DEF CustodyInv
<1> USE <1>0 DEF TypeOK, call, stores, Goto, Continue, Finish, EndCall
<1>1. ASSUME NEW i \in Ingesters, FirstSnapshot(i) PROVE Quiet
  BY <1>1 DEF FirstSnapshot
<1>2. ASSUME NEW i \in Ingesters, OpenSource(i) PROVE Quiet
  BY <1>2 DEF OpenSource
<1>3. ASSUME NEW i \in Ingesters, HashSource(i) PROVE Quiet
  BY <1>3 DEF HashSource
<1>4. ASSUME NEW i \in Ingesters, ProbeVideo(i) PROVE Quiet
  BY <1>4 DEF ProbeVideo
<1>5. ASSUME NEW i \in Ingesters, SecondSnapshot(i) PROVE Quiet
  BY <1>5 DEF SecondSnapshot
<1>6. ASSUME NEW i \in Ingesters, VerifyCatalog(i) PROVE Quiet
  BY <1>6 DEF VerifyCatalog
<1>7. ASSUME NEW i \in Ingesters, Return(i) \/ Crash(i) PROVE Quiet
  BY <1>7 DEF Return, Crash
<1>8. ASSUME EditSource PROVE Quiet
  BY <1>8 DEF EditSource
<1>9. ASSUME UNCHANGED vars PROVE Quiet
  BY <1>9 DEF vars
<1> HIDE DEF Quiet, TypeOK
<1>10. Quiet
  BY <1>1, <1>2, <1>3, <1>4, <1>5, <1>6, <1>7, <1>8, <1>9 DEF Next, Step
<1> QED  BY <1>10 DEF Quiet

(* Custody and catalog stay right.                                         *)
LEMMA NextCustody ==
  CustodyInv /\ [Next]_vars => FinalsWhole' /\ StoredFirst' /\ CatalogIsCustodied'
<1> SUFFICES ASSUME CustodyInv, [Next]_vars
             PROVE  FinalsWhole' /\ StoredFirst' /\ CatalogIsCustodied'
  OBVIOUS
<1>0. /\ TypeOK /\ Collected /\ FinalsWhole /\ StoredFirst /\ CatalogIsCustodied
      /\ TypeOK'
  BY NextTypeOK DEF CustodyInv
<1>1. ASSUME NEW i \in Ingesters, Store(i)
      PROVE  FinalsWhole' /\ StoredFirst' /\ CatalogIsCustodied'
  <2>1. /\ UNCHANGED <<catalog, sha, facts, text>>
        /\ \A j \in Ingesters : Document(j)' = Document(j)
        /\ \A j \in Ingesters \ {i} : pc'[j] = pc[j]
    BY <1>0, <1>1 DEF Store, call, Goto, Continue, Finish, TypeOK, Document
  <2>2. CASE UNCHANGED <<final, acked>> /\ pc' = [pc EXCEPT ![i] = "return"]
    BY <1>0, <2>1, <2>2 DEF FinalsWhole, StoredFirst, CatalogIsCustodied, TypeOK
  <2>3. CASE Publishes(i) \/ Confirms(i)
    <3>1. /\ Document(i) \in Documents /\ sha[i] \in Bytes /\ Document(i).bytes = sha[i]
          /\ final'[Document(i)] = Package(sha[i])
      BY <1>0, <2>3 DEF Publishes, Confirms, TypeOK, Document
    <3>2. \A d \in Documents : d # Document(i) => final'[d] = final[d]
      BY <1>0, <2>3 DEF Publishes, Confirms, TypeOK
    <3>3. FinalsWhole'
      BY <1>0, <3>1, <3>2 DEF FinalsWhole
    <3>4. StoredFirst'
      <4> SUFFICES ASSUME NEW j \in Ingesters, pc'[j] = "catalog"
                   PROVE  sha[j] \in Bytes /\ final'[Document(j)] = Package(sha[j])
        BY <2>1 DEF StoredFirst
      <4>1. CASE j = i
        BY <3>1, <4>1
      <4>2. CASE j # i
        <5>1. /\ sha[j] \in Bytes /\ final[Document(j)] = Package(sha[j])
              /\ Document(j) \in Documents /\ Document(j).bytes = sha[j]
          BY <1>0, <2>1, <4>2, DocumentType DEF StoredFirst
        <5> QED  BY <3>1, <3>2, <5>1
      <4> QED  BY <4>1, <4>2
    <3>5. CatalogIsCustodied'
      <4> SUFFICES ASSUME catalog # None PROVE final'[catalog] = Package(catalog.bytes)
        BY <1>0, <2>1 DEF CatalogIsCustodied
      <4>1. catalog \in Documents /\ final[catalog] = Package(catalog.bytes)
        BY <1>0 DEF CatalogIsCustodied, TypeOK
      <4> QED  BY <3>1, <3>2, <4>1
    <3> QED  BY <3>3, <3>4, <3>5
  <2> QED  BY <1>1, <2>2, <2>3, StoreKinds
<1>2. ASSUME NEW i \in Ingesters, CatalogAsset(i)
      PROVE  FinalsWhole' /\ StoredFirst' /\ CatalogIsCustodied'
  <2>1. /\ UNCHANGED <<final, sha, facts, text>>
        /\ \A j \in Ingesters : Document(j)' = Document(j)
        /\ \A j \in Ingesters : pc'[j] = "catalog" => pc[j] = "catalog"
        /\ catalog' = catalog \/ catalog' = Document(i)
    BY <1>0, <1>2 DEF CatalogAsset, call, Goto, Continue, Finish, TypeOK, Document
  <2>2. sha[i] \in Bytes /\ final[Document(i)] = Package(Document(i).bytes)
    BY <1>0, <1>2, DocumentType DEF CatalogAsset, StoredFirst
  <2> QED  BY <1>0, <2>1, <2>2 DEF FinalsWhole, StoredFirst, CatalogIsCustodied
<1>3. CASE ~ \E i \in Ingesters : Store(i) \/ CatalogAsset(i)
  <2>1. /\ UNCHANGED <<final, catalog>>
        /\ \A j \in Ingesters : pc'[j] = "catalog" =>
             pc[j] = "catalog" /\ UNCHANGED <<sha[j], facts[j], text[j]>>
    BY <1>3, QuietSteps DEF stores
  <2> QED  BY <1>0, <2>1 DEF FinalsWhole, StoredFirst, CatalogIsCustodied, Document
<1> QED  BY <1>1, <1>2, <1>3

(* Initially nothing is stored, cataloged or running.                      *)
LEMMA InitCustodyInv == Init => CustodyInv
<1> SUFFICES ASSUME Init PROVE CustodyInv
  OBVIOUS
<1>1. TypeOK
  BY StepNames DEF Init, TypeOK
<1>2. Collected /\ StoredFirst
  BY DEF Init, Collected, StoredFirst, Reading
<1>3. FinalsWhole /\ CatalogIsCustodied
  BY <1>1 DEF Init, FinalsWhole, CatalogIsCustodied
<1> QED  BY <1>1, <1>2, <1>3 DEF CustodyInv, Init

(* The custody invariant holds throughout.                                 *)
THEOREM CustodyInductive == Spec => []CustodyInv
<1>1. CustodyInv /\ [Next]_vars => CustodyInv'
  BY NextTypeOK, NextCollected, NextCustody DEF CustodyInv
<1> QED  BY InitCustodyInv, <1>1, PTL DEF Spec

(* What the catalog offers is in custody, byte for byte as its document    *)
(* says, whatever is edited, killed or fails.                              *)
THEOREM CatalogCustodied == Spec => []CatalogIsCustodied
<1>1. CustodyInv => CatalogIsCustodied
  BY DEF CustodyInv
<1> QED  BY CustodyInductive, <1>1, PTL

(* Curated assets are in immutable custody: storing is the one step that   *)
(* publishes or acknowledges, and nothing else touches the store.          *)
THEOREM Refinement == Spec => ImplementsCustody
<1>1. Init => Custody!Init
  BY DEF Init, Custody!Init
<1>2. ASSUME CustodyInv, [Next]_vars PROVE [Custody!Next]_(Custody!vars)
  <2>1. ASSUME NEW i \in Ingesters, Store(i) PROVE [Custody!Next]_(Custody!vars)
    <3>1. UNCHANGED damaged
      BY <2>1 DEF Store
    <3>2. CASE Publishes(i)
      <4>1. /\ Package(sha[i]) \in [Members -> Contents]
            /\ Package(sha[i]) \in Custody!Directories
            /\ Document(i) \in Documents /\ Document(i).bytes = sha[i]
        BY <3>2 DEF Publishes, Package, Contents, Custody!Directories, Document
      <4>2. Custody!Faithful(Document(i), Package(sha[i]))
        BY <4>1 DEF Custody!Faithful, Bound
      <4>3. Custody!Publish(Document(i), Package(sha[i]))
        BY <3>1, <3>2, <4>2 DEF Publishes, Custody!Publish
      <4> QED  BY <4>1, <4>3 DEF Custody!Next
    <3>3. CASE Confirms(i)
      <4>1. Document(i) \in Documents /\ Custody!Acknowledge(Document(i))
        BY <3>1, <3>3 DEF Confirms, Custody!Acknowledge
      <4> QED  BY <4>1 DEF Custody!Next
    <3>4. CASE UNCHANGED <<final, acked>>
      BY <3>1, <3>4 DEF Custody!vars
    <3> QED  BY <1>2, <2>1, <3>2, <3>3, <3>4, StoreKinds
  <2>2. ASSUME NEW i \in Ingesters, CatalogAsset(i) PROVE UNCHANGED Custody!vars
    BY <2>2 DEF CatalogAsset, Custody!vars
  <2>3. CASE ~ \E i \in Ingesters : Store(i) \/ CatalogAsset(i)
    BY <1>2, <2>3, QuietSteps DEF stores, Custody!vars
  <2> QED  BY <2>1, <2>2, <2>3
<1> QED  BY CustodyInductive, <1>1, <1>2, PTL DEF Spec, ImplementsCustody, Custody!Spec

----------------------------------------------------------------------------------
(* Facts and bytes.                                                        *)

(* Only an edit changes what the path holds or shows.                      *)
LEMMA SourceSteady ==
  ASSUME NEW i \in Ingesters, FirstSnapshot(i) \/ Step(i) \/ Crash(i)
  PROVE  UNCHANGED source
  BY DEF FirstSnapshot, Step, OpenSource, HashSource, ProbeVideo, SecondSnapshot, Store,
         CatalogAsset, VerifyCatalog, Return, Crash, EndCall

(* While the path holds the same file, each step of a call reads that      *)
(* file; and a call that goes on to store has seen the same pair twice.    *)
LEMMA StepFacts ==
  ASSUME CustodyInv, FactsInv, NEW i \in Ingesters,
         FirstSnapshot(i) \/ Step(i) \/ Crash(i)
  PROVE  ShownBefore' /\ SameFile' /\ FactsConfirmed'
<1>0. /\ TypeOK /\ Collected /\ ShownBefore /\ SameFile /\ FactsConfirmed
      /\ UNCHANGED <<file, mtime, shown, reused>>
  BY SourceSteady DEF CustodyInv, FactsInv, source
<1>1. UNCHANGED Snapshot
  BY <1>0 DEF Snapshot
<1> DEFINE Goal == ShownBefore' /\ SameFile' /\ FactsConfirmed'
<1> USE <1>0, <1>1 DEF TypeOK, ShownBefore, SameFile, FactsConfirmed, Reading,
                       call, Goto, Continue, Finish, EndCall
<1> HIDE DEF Snapshot
<1>2. CASE FirstSnapshot(i)
  <2>1. \A j \in Ingesters \ {i} : pc'[j] = pc[j] /\ before'[j] = before[j]
    BY <1>2 DEF FirstSnapshot
  <2>2. UNCHANGED <<opened, sha, facts>> /\ pc'[i] \in {"return", "open"}
    BY <1>2 DEF FirstSnapshot
  <2>3. pc'[i] = "open" => before'[i] = Snapshot /\ file # Missing
    BY <1>2 DEF FirstSnapshot
  <2> QED  BY <2>1, <2>2, <2>3
<1>3. CASE OpenSource(i)
  BY <1>3 DEF OpenSource
<1>4. CASE HashSource(i)
  BY <1>4 DEF HashSource
<1>5. CASE ProbeVideo(i)
  BY <1>5 DEF ProbeVideo
<1>6. CASE SecondSnapshot(i)
  BY <1>6 DEF SecondSnapshot, Unchanged
<1>7. CASE Store(i)
  BY <1>7 DEF Store
<1>8. CASE CatalogAsset(i) \/ VerifyCatalog(i)
  BY <1>8 DEF CatalogAsset, VerifyCatalog
<1>9. CASE Return(i) \/ Crash(i)
  BY <1>9 DEF Return, Crash
<1> HIDE DEF ShownBefore, SameFile, FactsConfirmed
<1> QED  BY <1>2, <1>3, <1>4, <1>5, <1>6, <1>7, <1>8, <1>9 DEF Step

(* A replacement that shows a new pair contradicts no earlier reading, and *)
(* one that shows an old pair is what the invariant excuses.               *)
LEMMA EditFacts ==
  ASSUME CustodyInv, FactsInv, EditSource
  PROVE  ShownBefore' /\ SameFile' /\ FactsConfirmed'
<1>0. /\ TypeOK /\ ShownBefore /\ SameFile /\ FactsConfirmed
      /\ UNCHANGED <<pc, before, opened, sha, facts>>
  BY DEF CustodyInv, FactsInv, EditSource, call
<1>1. CASE file' = Missing
  <2>1. UNCHANGED <<mtime, shown, reused>>
    BY <1>1 DEF EditSource
  <2> QED  BY <1>0, <1>1, <2>1 DEF ShownBefore, SameFile, FactsConfirmed
<1>2. CASE file' # Missing
  <2>1. /\ shown' = shown \cup {Snapshot'}
        /\ ~reused' => ~reused /\ Snapshot' \notin shown
    BY <1>2 DEF EditSource, Snapshot
  <2>2. ShownBefore'
    BY <1>0, <2>1 DEF ShownBefore
  <2>3. ASSUME ~reused', NEW i \in Ingesters, pc[i] \in Reading
        PROVE  before[i] # Snapshot'
    BY <1>0, <2>1, <2>3 DEF ShownBefore
  <2>4. SameFile'
    BY <1>0, <2>3 DEF SameFile, Reading
  <2>5. FactsConfirmed'
    BY <1>0, <2>1 DEF FactsConfirmed
  <2> QED  BY <2>2, <2>4, <2>5
<1> QED  BY <1>1, <1>2

(* What the catalog learns are facts that a call has confirmed.            *)
LEMMA NextFactsAreOfBytes ==
  ASSUME CustodyInv, FactsInv, [Next]_vars
  PROVE  FactsAreOfBytes'
<1>0. FactsConfirmed /\ FactsAreOfBytes /\ (reused => reused')
  <2>1. reused => reused'
    BY SourceSteady DEF Next, EditSource, source, vars
  <2> QED  BY <2>1 DEF FactsInv
<1>1. ASSUME NEW i \in Ingesters, CatalogAsset(i) PROVE FactsAreOfBytes'
  <2>1. catalog' = catalog \/ catalog' = Document(i)
    BY <1>1 DEF CatalogAsset
  <2>2. ~reused => Document(i).facts = FactsOf[Document(i).bytes]
    BY <1>0, <1>1 DEF FactsConfirmed, CatalogAsset, Document
  <2> QED  BY <1>0, <2>1, <2>2 DEF FactsAreOfBytes
<1>2. ASSUME NEW i \in Ingesters, Store(i) PROVE UNCHANGED catalog
  BY <1>2 DEF Store
<1>3. CASE ~ \E i \in Ingesters : CatalogAsset(i)
  <2>1. UNCHANGED catalog
    BY <1>2, <1>3, QuietSteps DEF stores
  <2> QED  BY <1>0, <2>1 DEF FactsAreOfBytes
<1> QED  BY <1>1, <1>3

(* Although hash and probe read the path one after the other, the facts in *)
(* the catalog are those of the bytes in custody, as long as no version    *)
(* comes with a size and modification time that the path showed before.    *)
THEOREM FactsDescribeBytes == Spec => []FactsAreOfBytes
<1>1. Init => FactsInv
  BY DEF Init, FactsInv, ShownBefore, SameFile, FactsConfirmed, FactsAreOfBytes,
         Snapshot, Reading
<1>2. ASSUME CustodyInv, FactsInv, [Next]_vars PROVE FactsInv'
  <2>1. CASE EditSource
    BY <1>2, <2>1, EditFacts, NextFactsAreOfBytes DEF FactsInv
  <2>2. ASSUME NEW i \in Ingesters, FirstSnapshot(i) \/ Step(i) \/ Crash(i) PROVE FactsInv'
    BY <1>2, <2>2, StepFacts, NextFactsAreOfBytes DEF FactsInv
  <2>3. CASE UNCHANGED vars
    BY <1>2, <2>3 DEF vars, FactsInv, ShownBefore, SameFile, FactsConfirmed,
                      FactsAreOfBytes, Snapshot
  <2> QED  BY <1>2, <2>1, <2>2, <2>3 DEF Next
<1>3. FactsInv => FactsAreOfBytes
  BY DEF FactsInv
<1> QED  BY CustodyInductive, <1>1, <1>2, <1>3, PTL DEF Spec

----------------------------------------------------------------------------------
(* Undisturbed calls.                                                      *)

(* The file is a video of the right orientation.                           *)
Importable ==
  file # Missing /\ ~Empty /\ FactsOf[file] \notin Mismatched \cup {NoVideo}

(* An undisturbed call has read what the file still holds.                 *)
Undisturbed(i) ==
  /\ pc[i] \in Reading => before[i] = Snapshot
  /\ pc[i] = "hash" => opened[i] = file
  /\ pc[i] \in {"probe", "stat", "store", "catalog", "verify"} => sha[i] = file
  /\ pc[i] \in {"stat", "store", "catalog", "verify"} => facts[i] = FactsOf[file]
  /\ pc[i] = "verify" => catalog = Document(i)
  /\ pc[i] = "return" =>
       /\ result[i] = "CATALOGED"
       /\ catalog = [bytes |-> file, facts |-> FactsOf[file], text |-> text[i]]

CleanInv ==
  \A i \in Ingesters :
    (clean[i] /\ pc[i] # "idle") =>
      /\ \A j \in Ingesters \ {i} : pc[j] = "idle"
      /\ Importable => Undisturbed(i)

(* A step of an undisturbed call reads the file, or stores it.             *)
LEMMA OwnStep ==
  ASSUME CustodyInv, CleanInv, NEW i \in Ingesters,
         FirstSnapshot(i) \/ Step(i) \/ Crash(i),
         clean'[i], pc'[i] # "idle", Importable
  PROVE  Undisturbed(i)'
<1>0. /\ TypeOK /\ Collected /\ FinalsWhole
      /\ UNCHANGED <<file, mtime>> /\ UNCHANGED Snapshot
      /\ (clean[i] /\ pc[i] # "idle") => Undisturbed(i)
  BY SourceSteady DEF CustodyInv, CleanInv, source, Snapshot
<1>1. file \in Bytes /\ FactsOf[file] \notin Mismatched /\ FactsOf[file] # NoVideo /\ ~Empty
  BY <1>0 DEF Importable, TypeOK
<1> USE <1>0, <1>1 DEF TypeOK, call, Goto, Continue, Finish, NoFault, Fault, Reading
<1> HIDE DEF Snapshot, Empty
<1>2. CASE FirstSnapshot(i)
  BY <1>2 DEF FirstSnapshot, Undisturbed
<1>3. CASE OpenSource(i)
  BY <1>3 DEF OpenSource, Undisturbed
<1>4. CASE HashSource(i)
  BY <1>4 DEF HashSource, Undisturbed
<1>5. CASE ProbeVideo(i)
  BY <1>5 DEF ProbeVideo, Undisturbed
<1>6. CASE SecondSnapshot(i)
  <2>1. Undisturbed(i) /\ pc[i] = "stat"
    BY <1>6 DEF SecondSnapshot
  <2>2. Unchanged(i)
    BY <2>1 DEF Undisturbed, Unchanged, Snapshot
  <2> QED  BY <1>6, <2>1, <2>2 DEF SecondSnapshot, Undisturbed
<1>7. CASE Store(i)
  <2>1. pc[i] = "store" /\ (clean[i] => Undisturbed(i)) /\ (clean[i] => Rebind(i))
    BY <1>7 DEF Store, Undisturbed, Rebind
  <2>2. clean[i] /\ pc'[i] = "catalog"
    <3>1. Rebind(i) => final[Document(i)] \in {NoDir, Package(file)}
      BY <1>7, <2>1, RebindWhole, DocumentType DEF FinalsWhole, Rebind
    <3>2. UNCHANGED clean
      BY <1>7 DEF Store
    <3> QED  BY <1>7, <2>1, <3>1, <3>2 DEF Store
  <2> QED  BY <1>7, <2>1, <2>2 DEF Store, Undisturbed
<1>8. CASE CatalogAsset(i)
  BY <1>8 DEF CatalogAsset, Undisturbed, Document
<1>9. CASE VerifyCatalog(i)
  BY <1>9 DEF VerifyCatalog, Undisturbed, Document, stores
<1>10. CASE Return(i) \/ Crash(i)
  BY <1>10 DEF Return, Crash, EndCall
<1> QED  BY <1>2, <1>3, <1>4, <1>5, <1>6, <1>7, <1>8, <1>9, <1>10 DEF Step

(* A call that begins disturbs all that are running, and any that runs     *)
(* disturbs it; other steps concern only their own call.                   *)
LEMMA CleanAlone ==
  ASSUME CustodyInv, CleanInv, NEW i \in Ingesters,
         FirstSnapshot(i) \/ Step(i) \/ Crash(i),
         NEW j \in Ingesters, clean'[j], pc'[j] # "idle"
  PROVE  /\ \A k \in Ingesters \ {j} : pc'[k] = "idle"
         /\ j = i
<1>0. TypeOK /\ CleanInv
  BY DEF CustodyInv
<1>1. CASE FirstSnapshot(i)
  <2>1. \A k \in Ingesters \ {i} : pc'[k] = pc[k]
    BY <1>0, <1>1 DEF FirstSnapshot, TypeOK, Goto, Continue, Finish
  <2>2. /\ \A k \in Ingesters \ {i} : pc[k] = "idle"
        /\ j = i \/ pc[j] = "idle"
    BY <1>1, Zenon DEF FirstSnapshot
  <2>3. j = i
    BY <2>1, <2>2
  <2> QED  BY <2>1, <2>2, <2>3
<1>2. CASE Step(i) \/ Crash(i)
  <2>1. \A k \in Ingesters \ {i} : pc'[k] = pc[k] /\ clean'[k] = clean[k]
    BY <1>0, <1>2 DEF Step, OpenSource, HashSource, ProbeVideo, SecondSnapshot, Store,
       CatalogAsset, VerifyCatalog, Return, Crash, EndCall, TypeOK, Goto, Continue,
       Finish, NoFault, Fault
  <2>2. pc[i] # "idle"
    BY <1>2 DEF Step, OpenSource, HashSource, ProbeVideo, SecondSnapshot, Store,
       CatalogAsset, VerifyCatalog, Return, Crash
  <2>3. CASE j = i
    <3>1. clean[i]
      BY <1>0, <1>2, <2>3 DEF Step, OpenSource, HashSource, ProbeVideo, SecondSnapshot,
         Store, CatalogAsset, VerifyCatalog, Return, Crash, EndCall, TypeOK, Goto,
         NoFault, Fault
    <3> QED  BY <1>0, <2>1, <2>2, <2>3, <3>1 DEF CleanInv
  <2>4. CASE j # i
    BY <1>0, <2>1, <2>2, <2>4 DEF CleanInv
  <2> QED  BY <2>3, <2>4
<1> QED  BY <1>1, <1>2

(* Nothing but faults, edits and other calls makes an import fail.         *)
LEMMA NextCleanInv ==
  ASSUME CustodyInv, CleanInv, [Next]_vars
  PROVE  CleanInv'
<1>1. ASSUME NEW i \in Ingesters, FirstSnapshot(i) \/ Step(i) \/ Crash(i) PROVE CleanInv'
  <2> SUFFICES ASSUME NEW j \in Ingesters, clean'[j], pc'[j] # "idle"
               PROVE  /\ \A k \in Ingesters \ {j} : pc'[k] = "idle"
                      /\ Importable' => Undisturbed(j)'
    BY DEF CleanInv
  <2>1. /\ \A k \in Ingesters \ {j} : pc'[k] = "idle"
        /\ j = i
    BY <1>1, CleanAlone
  <2>2. Importable' => Importable
    BY <1>1, SourceSteady DEF Importable, Empty, source
  <2> QED  BY <1>1, <2>1, <2>2, OwnStep
<1>2. ASSUME EditSource PROVE CleanInv'
  <2>1. \A i \in Ingesters : clean'[i] => pc'[i] = "idle"
    BY <1>2 DEF EditSource
  <2> QED  BY <2>1 DEF CleanInv
<1>3. ASSUME UNCHANGED vars PROVE CleanInv'
  BY <1>3 DEF vars, CleanInv, Importable, Empty, Undisturbed, Snapshot, Document
<1> QED  BY <1>1, <1>2, <1>3 DEF Next

(* A call that nothing disturbs catalogs the file, whatever was left half  *)
(* done before.                                                            *)
THEOREM CleanImportsCatalog == Spec => []CleanImportCatalogs
<1>1. Init => CleanInv
  BY DEF Init, CleanInv
<1>2. CleanInv => CleanImportCatalogs
  BY DEF CleanInv, Importable, Undisturbed, CleanImportCatalogs
<1> QED  BY CustodyInductive, NextCleanInv, <1>1, <1>2, PTL DEF Spec
================================================================================
