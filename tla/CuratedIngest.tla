------------------------------ MODULE CuratedIngest ------------------------------
(***************************************************************************)
(* The ingest of one pre-cut local video, ingest_curated_file, end to end: *)
(* stat the file, hash it, let ffprobe look at it, stat it again, publish  *)
(* it with a manifest through RcloneDriveCuratedStorageBackend, catalog,   *)
(* verify.                                                                 *)
(*                                                                         *)
(* Hash and technical facts come from two readings of the path.  Whoever   *)
(* owns the source may replace the file between any two steps, processes   *)
(* may be killed, and ffprobe, storage and database may fail.  Custody and *)
(* catalog are as in PackageIngest.                                        *)
(***************************************************************************)
EXTENDS Naturals, FiniteSets

CONSTANTS
  Bytes,      \* contents of the source file
  Torn,       \* what a read of a file that is rewritten meanwhile returns
  Canonical,  \* the manifest of the directory's document
  Size,       \* Size[b]: bytes of content b
  FactsOf,    \* FactsOf[b]: what ffprobe reports of content b
  NoVideo,    \* facts of a content in which ffprobe finds no video
  Mismatched, \* facts of another orientation than the rendition's
  Texts,      \* editorial metadata a caller may supply
  NoDir, Missing, None,
  Ingesters,  \* processes that import the file
  MaxEdits,   \* bound: replacements of the file; also of modification times
  MaxFaults,  \* bound: probes, storage calls and transactions that fail
  MaxCrashes, \* bound: processes killed
  MaxCalls    \* bound: calls of all processes

ASSUME CuratedAssumption ==
  /\ Torn \notin Bytes /\ Canonical \notin Bytes
  /\ Missing \notin Bytes \cup {Torn, Canonical}
  /\ Size \in [Bytes \cup {Torn} -> Nat]
  /\ DOMAIN FactsOf = Bytes
  /\ {MaxEdits, MaxFaults, MaxCrashes, MaxCalls} \subseteq Nat

Facts == {FactsOf[b] : b \in Bytes} \ {NoVideo}

(* CuratedAssetV1: the fingerprint covers all of it, technical facts too.  *)
Documents == [bytes : Bytes, facts : Facts \ Mismatched, text : Texts]

(* A directory belongs to one document, and canonical_curated_manifest is  *)
(* a function of it: there is one right manifest for each directory.       *)
Members == {"video", "manifest"}
Contents == Bytes \cup {Canonical}
Directories == [Members -> Contents \cup {Missing}]

Package(b) == [m \in Members |-> IF m = "video" THEN b ELSE Canonical]

VARIABLES
  file,     \* what the source path holds
  mtime,    \* its modification time
  shown,    \* history: the (size, mtime) pairs the path has shown
  reused,   \* history: another content came with a pair shown before
  pc,       \* pc[i]: the next step of i's call
  text,     \* text[i]: the caller's metadata
  before,   \* before[i]: the first snapshot, <<size, mtime>>
  opened,   \* opened[i]: what the file held when it was opened for hashing
  sha,      \* sha[i]: the content that was hashed
  facts,    \* facts[i]: what ffprobe reported
  result,   \* result[i]: how i's call ends
  final, acked, damaged,  \* the custody, as in ImmutableCustody
  catalog,  \* the document the catalog holds for the asset
  clean,    \* history: no edit, fault or other call met i's call so far
  edits, faults, crashes, calls  \* what is spent of the bounds

call   == <<text, before, opened, sha, facts>>
source == <<file, mtime, shown, reused>>
stores == <<final, acked, damaged, catalog>>
bounds == <<edits, faults, crashes, calls>>
vars == <<file, mtime, shown, reused, pc, text, before, opened, sha, facts, result,
          final, acked, damaged, catalog, clean, edits, faults, crashes, calls>>

Steps == {"idle", "open", "hash", "probe", "stat", "store", "catalog", "verify", "return"}

TypeOK ==
  /\ file \in Bytes \cup {Missing} /\ mtime \in 0..MaxEdits
  /\ pc \in [Ingesters -> Steps]
  /\ text \in [Ingesters -> Texts \cup {None}]
  /\ before \in [Ingesters -> (Nat \X (0..MaxEdits)) \cup {None}]
  /\ opened \in [Ingesters -> Bytes \cup {None}]
  /\ sha \in [Ingesters -> Bytes \cup {Torn, None}]
  /\ facts \in [Ingesters -> Facts \cup {None}]
  /\ result \in [Ingesters -> {None, "NOT_READY", "CATALOGED", "raised"}]
  /\ final \in [Documents -> Directories \cup {NoDir}]
  /\ catalog \in Documents \cup {None}
  /\ clean \in [Ingesters -> BOOLEAN]

Init ==
  /\ file \in Bytes /\ mtime = 0
  /\ shown = {<<Size[file], 0>>} /\ reused = FALSE
  /\ pc = [i \in Ingesters |-> "idle"]
  /\ text = [i \in Ingesters |-> None] /\ before = [i \in Ingesters |-> None]
  /\ opened = [i \in Ingesters |-> None] /\ sha = [i \in Ingesters |-> None]
  /\ facts = [i \in Ingesters |-> None] /\ result = [i \in Ingesters |-> None]
  /\ final = [d \in Documents |-> NoDir]
  /\ acked = [d \in Documents |-> {}] /\ damaged = {}
  /\ catalog = None
  /\ clean = [i \in Ingesters |-> TRUE]
  /\ edits = 0 /\ faults = 0 /\ crashes = 0 /\ calls = 0

----------------------------------------------------------------------------------
Goto(i, step) == pc' = [pc EXCEPT ![i] = step]
Continue(i, step) == Goto(i, step) /\ UNCHANGED result
Finish(i, r) == Goto(i, "return") /\ result' = [result EXCEPT ![i] = r]

NoFault == UNCHANGED <<faults, clean>>
Fault(i) ==
  /\ faults < MaxFaults
  /\ faults' = faults + 1
  /\ clean' = [clean EXCEPT ![i] = FALSE]

(* curated_source_snapshot of a file that is there, and is not empty.      *)
Snapshot == <<Size[file], mtime>>
Empty == IF file = Missing THEN FALSE ELSE Size[file] = 0

(* The document that i's call has collected.                               *)
Document(i) == [bytes |-> sha[i], facts |-> facts[i], text |-> text[i]]

(* The first snapshot: a missing file is not ready, an empty one an error. *)
FirstSnapshot(i) ==
  /\ pc[i] = "idle"
  /\ calls < MaxCalls
  /\ calls' = calls + 1
  /\ clean' = [j \in Ingesters |-> /\ \A k \in Ingesters \ {i} : pc[k] = "idle"
                                   /\ j = i \/ (clean[j] /\ pc[j] = "idle")]
  /\ \E t \in Texts : text' = [text EXCEPT ![i] = t]
  /\ \/ file = Missing /\ Finish(i, "NOT_READY") /\ UNCHANGED before
     \/ Empty /\ Finish(i, "raised") /\ UNCHANGED before
     \/ /\ file # Missing /\ ~Empty
        /\ before' = [before EXCEPT ![i] = Snapshot]
        /\ Continue(i, "open")
  /\ UNCHANGED <<opened, sha, facts, edits, faults, crashes>>
  /\ UNCHANGED source /\ UNCHANGED stores

OpenSource(i) ==
  /\ pc[i] = "open"
  /\ IF file = Missing THEN Finish(i, "raised") /\ UNCHANGED opened
     ELSE Continue(i, "hash") /\ opened' = [opened EXCEPT ![i] = file]
  /\ UNCHANGED <<text, before, sha, facts, clean>>
  /\ UNCHANGED source /\ UNCHANGED stores /\ UNCHANGED bounds

(* A file replaced while it is read: the old bytes (rename), the new ones  *)
(* or some of each (rewritten in place).                                   *)
HashSource(i) ==
  /\ pc[i] = "hash"
  /\ \E b \in IF file = opened[i] THEN {file} ELSE {opened[i], file, Torn} \ {Missing} :
       sha' = [sha EXCEPT ![i] = b]
  /\ Continue(i, "probe")
  /\ UNCHANGED <<text, before, opened, facts, clean>>
  /\ UNCHANGED source /\ UNCHANGED stores /\ UNCHANGED bounds

(* ffprobe opens the path again; it may fail or exceed its time.           *)
ProbeVideo(i) ==
  /\ pc[i] = "probe"
  /\ \/ /\ file \in Bytes /\ FactsOf[file] # NoVideo
        /\ facts' = [facts EXCEPT ![i] = FactsOf[file]]
        /\ Continue(i, "stat") /\ NoFault
     \/ /\ file = Missing \/ (file \in Bytes /\ FactsOf[file] = NoVideo)
        /\ Finish(i, "raised") /\ UNCHANGED facts /\ NoFault
     \/ Finish(i, "raised") /\ UNCHANGED facts /\ Fault(i)
  /\ UNCHANGED <<text, before, opened, sha, edits, crashes, calls>>
  /\ UNCHANGED source /\ UNCHANGED stores

(* Mutant: only the size is compared.                                      *)
SameSize(i) == file # Missing /\ Size[file] = before[i][1] /\ Size[sha[i]] = before[i][1]

(* The file looks as it did before it was hashed and probed.               *)
Unchanged(i) == file # Missing /\ Snapshot = before[i] /\ Size[sha[i]] = before[i][1]

SecondSnapshot(i) ==
  /\ pc[i] = "stat"
  /\ \/ Empty /\ Finish(i, "raised")
     \/ ~Empty /\ ~Unchanged(i) /\ Finish(i, "NOT_READY")
     \/ Unchanged(i) /\ facts[i] \in Mismatched /\ Finish(i, "raised")
     \/ Unchanged(i) /\ facts[i] \notin Mismatched /\ Continue(i, "store")
  /\ UNCHANGED <<clean>>
  /\ UNCHANGED call /\ UNCHANGED source /\ UNCHANGED stores /\ UNCHANGED bounds

(* Mutants: the source is copied without being hashed again; a version     *)
(* that is there already is an error; a failing storage is not noticed.    *)
RebindByName(i) == file # Missing

(* store_curated_asset hashes the source again; what it then uploads is    *)
(* verified against that hash.                                             *)
Rebind(i) == file = sha[i]

StoreOnce(i) ==
  /\ pc[i] = "store"
  /\ LET d == Document(i)
     IN  IF IF Rebind(i) THEN final[d] = NoDir ELSE FALSE
           THEN /\ final' = [final EXCEPT ![d] = Package(file)]
                /\ acked' = [acked EXCEPT ![d] = @ \cup {Package(file)}]
                /\ Continue(i, "catalog")
           ELSE Finish(i, "raised") /\ UNCHANGED <<final, acked>>
  /\ NoFault
  /\ UNCHANGED <<damaged, catalog, edits, crashes, calls>> /\ UNCHANGED call /\ UNCHANGED source

StoreUnnoticed(i) ==
  /\ pc[i] = "store" /\ sha[i] # Torn
  /\ \/ UNCHANGED final
     \/ Rebind(i) /\ final' = [final EXCEPT ![Document(i)] = Package(file)]
  /\ Continue(i, "catalog") /\ NoFault
  /\ UNCHANGED <<acked, damaged, catalog, edits, crashes, calls>> /\ UNCHANGED call /\ UNCHANGED source

(* Promote, replay, refuse, or fail with or without having promoted.       *)
Store(i) ==
  /\ pc[i] = "store"
  /\ \/ ~Rebind(i) /\ Finish(i, "raised") /\ UNCHANGED <<final, acked>> /\ NoFault
     \/ /\ Rebind(i) /\ final[Document(i)] = NoDir
        /\ final' = [final EXCEPT ![Document(i)] = Package(file)]
        /\ \/ /\ acked' = [acked EXCEPT ![Document(i)] = @ \cup {Package(file)}]
              /\ Continue(i, "catalog") /\ NoFault
           \/ UNCHANGED acked /\ Finish(i, "raised") /\ Fault(i)
     \/ /\ Rebind(i) /\ final[Document(i)] # NoDir
        /\ UNCHANGED final
        /\ IF final[Document(i)] = Package(file)
             THEN /\ acked' = [acked EXCEPT ![Document(i)] = @ \cup {Package(file)}]
                  /\ Continue(i, "catalog")
             ELSE UNCHANGED acked /\ Finish(i, "raised")
        /\ NoFault
     \/ Finish(i, "raised") /\ UNCHANGED <<final, acked>> /\ Fault(i)
  /\ UNCHANGED <<damaged, catalog, edits, crashes, calls>> /\ UNCHANGED call /\ UNCHANGED source

(* The transaction, under general placement; its reply may be lost.        *)
CatalogAsset(i) ==
  /\ pc[i] = "catalog"
  /\ \/ catalog' = Document(i) /\ Continue(i, "verify") /\ NoFault
     \/ catalog' = Document(i) /\ Finish(i, "raised") /\ Fault(i)
     \/ UNCHANGED catalog /\ Finish(i, "raised") /\ Fault(i)
  /\ UNCHANGED <<final, acked, damaged, edits, crashes, calls>>
  /\ UNCHANGED call /\ UNCHANGED source

VerifyCatalog(i) ==
  /\ pc[i] = "verify"
  /\ \/ Finish(i, IF catalog = Document(i) THEN "CATALOGED" ELSE "raised") /\ NoFault
     \/ Finish(i, "raised") /\ Fault(i)
  /\ UNCHANGED <<edits, crashes, calls>>
  /\ UNCHANGED call /\ UNCHANGED source /\ UNCHANGED stores

EndCall(i) ==
  /\ Goto(i, "idle")
  /\ text' = [text EXCEPT ![i] = None] /\ before' = [before EXCEPT ![i] = None]
  /\ opened' = [opened EXCEPT ![i] = None] /\ sha' = [sha EXCEPT ![i] = None]
  /\ facts' = [facts EXCEPT ![i] = None] /\ result' = [result EXCEPT ![i] = None]
  /\ clean' = [clean EXCEPT ![i] = TRUE]
  /\ UNCHANGED source /\ UNCHANGED stores

Return(i) == pc[i] = "return" /\ EndCall(i) /\ UNCHANGED bounds

Crash(i) ==
  /\ pc[i] # "idle"
  /\ crashes < MaxCrashes
  /\ crashes' = crashes + 1
  /\ EndCall(i)
  /\ UNCHANGED <<edits, faults, calls>>

(* The file is replaced or removed; a rename or a copy that keeps times    *)
(* may bring an old modification time back.                                *)
EditSource ==
  /\ edits < MaxEdits
  /\ edits' = edits + 1
  /\ \E b \in (Bytes \cup {Missing}) \ {file} :
       /\ file' = b
       /\ IF b = Missing THEN UNCHANGED <<mtime, shown, reused>>
          ELSE /\ mtime' \in 0..(edits + 1)
               /\ shown' = shown \cup {<<Size[b], mtime'>>}
               /\ reused' = (reused \/ <<Size[b], mtime'>> \in shown)
  /\ clean' = [i \in Ingesters |-> clean[i] /\ pc[i] = "idle"]
  /\ UNCHANGED <<pc, result, faults, crashes, calls>>
  /\ UNCHANGED call /\ UNCHANGED stores

Step(i) ==
  \/ OpenSource(i) \/ HashSource(i) \/ ProbeVideo(i) \/ SecondSnapshot(i)
  \/ Store(i) \/ CatalogAsset(i) \/ VerifyCatalog(i) \/ Return(i)

Next == EditSource \/ \E i \in Ingesters : FirstSnapshot(i) \/ Step(i) \/ Crash(i)

Spec == Init /\ [][Next]_vars

----------------------------------------------------------------------------------
(* Properties.                                                             *)

(* What the catalog offers is in custody, byte for byte as its document    *)
(* says: one whole version of the file.  Every variable keeps its type.    *)
CatalogIsCustodied ==
  /\ TypeOK
  /\ catalog # None => final[catalog] = Package(catalog.bytes)

(* The technical facts in the catalog are those of the bytes in custody,   *)
(* although hash and probe read the path one after the other: as long as   *)
(* no version comes with a size and time that the path has shown before,   *)
(* the two snapshots notice that different files were read.                *)
FactsAreOfBytes ==
  catalog # None /\ ~reused => catalog.facts = FactsOf[catalog.bytes]

(* A call that nothing disturbs catalogs a video of the right orientation, *)
(* whatever earlier calls left half done.  Unlike a producer package, the  *)
(* whole directory is a function of its fingerprint, so no earlier version *)
(* can stand in the way.                                                   *)
CleanImportCatalogs ==
  \A i \in Ingesters :
    (/\ pc[i] = "return" /\ clean[i]
     /\ file # Missing /\ ~Empty /\ FactsOf[file] \notin Mismatched \cup {NoVideo}) =>
      /\ result[i] = "CATALOGED"
      /\ catalog = [bytes |-> file, facts |-> FactsOf[file], text |-> text[i]]

Bound == [d \in Documents |-> [m \in Members |-> {Package(d.bytes)[m]}]]

Custody == INSTANCE ImmutableCustody WITH
  Packages <- Documents, Members <- Members, Json <- "manifest", Bytes <- Contents,
  Bound <- Bound, NoDir <- NoDir, Missing <- Missing,
  final <- final, acked <- acked, damaged <- damaged

(* Curated assets are in the same immutable custody as producer packages.  *)
ImplementsCustody == Custody!Spec
==================================================================================
