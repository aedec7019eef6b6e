----------------------------- MODULE PackageIngest -----------------------------
(***************************************************************************)
(* The ingest of one producer package, ingest_package, end to end: read    *)
(* and parse the JSON, wait for two equal snapshots of the five members,   *)
(* read the JSON again, hash the media, store, catalog, verify.            *)
(*                                                                         *)
(* The producer may rewrite the package directory between any two steps,   *)
(* processes may be killed, and storage and database may fail before or    *)
(* after their effect.  Custody and catalog are at the level of            *)
(* ImmutableCustody and of one committed row set: DriveCustody,            *)
(* LocalCustody and Catalog have their detail.                             *)
(***************************************************************************)
EXTENDS Naturals, FiniteSets

CONSTANTS
  Packages,   \* documents of one asset; each has one package fingerprint
  Members, Json, Bytes, Bound, NoDir, Missing,
  Ingesters,  \* processes that ingest the package directory
  None,       \* "no document", "no snapshot", "nothing cataloged"
  MaxEdits,   \* bound: changes of the package directory
  MaxFaults,  \* bound: storage calls and transactions that report failure
  MaxCrashes, \* bound: processes killed
  MaxCalls    \* bound: calls of all processes

ASSUME IngestAssumption ==
  /\ Json \in Members
  /\ Bound \in [Packages -> [Members -> SUBSET Bytes]]
  /\ \A p, q \in Packages : p # q => Bound[p][Json] \cap Bound[q][Json] = {}
  /\ Missing \notin Bytes
  /\ NoDir \notin [Members -> Bytes \cup {Missing}]
  /\ None \notin Packages \cup {"NOT_READY", "CATALOGED", "raised"}
  /\ None \notin [Members -> Nat]
  /\ {MaxEdits, MaxFaults, MaxCrashes, MaxCalls} \subseteq Nat

Media == Members \ {Json}
Directories == [Members -> Bytes \cup {Missing}]

VARIABLES
  dir,      \* the package directory
  stamp,    \* stamp[m]: size and modification time of member m
  pc,       \* pc[i]: the next step of i's call
  text,     \* text[i]: source_bytes
  doc,      \* doc[i]: the document parsed from them
  first,    \* first[i]: the first snapshot
  hashed,   \* hashed[i]: media whose hash i has compared
  errors,   \* errors[i]: some media did not match
  result,   \* result[i]: how i's call ends
  final,    \* final[p]: what custody holds of p, as in ImmutableCustody
  catalog,  \* the document the catalog holds for the asset
  clean,    \* history: no edit, fault or other call met i's call so far
  edits, faults, crashes, calls  \* what is spent of the bounds

call   == <<text, doc, first, hashed, errors>>
source == <<dir, stamp>>
stores == <<final, catalog>>
bounds == <<edits, faults, crashes, calls>>
vars == <<dir, stamp, pc, text, doc, first, hashed, errors, result, final, catalog,
          clean, edits, faults, crashes, calls>>

Steps == {"idle", "snapshot", "compare", "reread", "hash", "store", "catalog",
          "verify", "return"}
Snapshots == [Members -> Nat] \cup {None}

TypeOK ==
  /\ dir \in Directories /\ stamp \in [Members -> Nat]
  /\ pc \in [Ingesters -> Steps]
  /\ text \in [Ingesters -> Bytes \cup {Missing}]
  /\ doc \in [Ingesters -> Packages \cup {None}]
  /\ first \in [Ingesters -> Snapshots]
  /\ \A i \in Ingesters :
       pc[i] \notin {"idle", "return"} => doc[i] # None /\ text[i] \in Bytes
  /\ hashed \in [Ingesters -> SUBSET Media] /\ errors \in [Ingesters -> BOOLEAN]
  /\ result \in [Ingesters -> {None, "NOT_READY", "CATALOGED", "raised"}]
  /\ \A i \in Ingesters : pc[i] = "return" <=> result[i] # None
  /\ final \in [Packages -> Directories \cup {NoDir}]
  /\ catalog \in Packages \cup {None}
  /\ clean \in [Ingesters -> BOOLEAN]

Whole(p) == {d \in [Members -> Bytes] : \A m \in Members : d[m] \in Bound[p][m]}

Init ==
  /\ \E p \in Packages : dir \in Whole(p)
  /\ stamp = [m \in Members |-> 0]
  /\ pc = [i \in Ingesters |-> "idle"]
  /\ text = [i \in Ingesters |-> Missing] /\ doc = [i \in Ingesters |-> None]
  /\ first = [i \in Ingesters |-> None]
  /\ hashed = [i \in Ingesters |-> {}] /\ errors = [i \in Ingesters |-> FALSE]
  /\ result = [i \in Ingesters |-> None]
  /\ final = [p \in Packages |-> NoDir]
  /\ catalog = None
  /\ clean = [i \in Ingesters |-> TRUE]
  /\ edits = 0 /\ faults = 0 /\ crashes = 0 /\ calls = 0

--------------------------------------------------------------------------------
Goto(i, step) == pc' = [pc EXCEPT ![i] = step]
Continue(i, step) == Goto(i, step) /\ UNCHANGED result

Finish(i, r) == Goto(i, "return") /\ result' = [result EXCEPT ![i] = r]

NoFault == UNCHANGED <<faults, clean>>
Fault(i) ==
  /\ faults < MaxFaults
  /\ faults' = faults + 1
  /\ clean' = [clean EXCEPT ![i] = FALSE]

(* capture_snapshot: names, sizes and times of five present members.       *)
Snapshot == IF \E m \in Members : dir[m] = Missing THEN None ELSE stamp

(* A call starts by reading and parsing the JSON.                          *)
ReadJson(i) ==
  /\ pc[i] = "idle"
  /\ calls < MaxCalls
  /\ calls' = calls + 1
  /\ clean' = [j \in Ingesters |-> /\ \A k \in Ingesters \ {i} : pc[k] = "idle"
                                   /\ j = i \/ (clean[j] /\ pc[j] = "idle")]
  /\ \/ dir[Json] = Missing /\ Finish(i, "NOT_READY") /\ UNCHANGED <<text, doc>>
     \/ /\ dir[Json] # Missing
        /\ \A p \in Packages : dir[Json] \notin Bound[p][Json]
        /\ Finish(i, "raised") /\ UNCHANGED <<text, doc>>
     \/ \E p \in Packages :
          /\ dir[Json] \in Bound[p][Json]
          /\ text' = [text EXCEPT ![i] = dir[Json]]
          /\ doc' = [doc EXCEPT ![i] = p]
          /\ Continue(i, "snapshot")
  /\ UNCHANGED <<first, hashed, errors, edits, faults, crashes>>
  /\ UNCHANGED source /\ UNCHANGED stores

FirstSnapshot(i) ==
  /\ pc[i] = "snapshot"
  /\ first' = [first EXCEPT ![i] = Snapshot]
  /\ Continue(i, "compare")
  /\ UNCHANGED <<text, doc, hashed, errors, clean>>
  /\ UNCHANGED source /\ UNCHANGED stores /\ UNCHANGED bounds

(* readiness_from_snapshots, after the stability interval.                 *)
SecondSnapshot(i) ==
  /\ pc[i] = "compare"
  /\ IF first[i] # None /\ Snapshot = first[i]
       THEN Continue(i, "reread") ELSE Finish(i, "NOT_READY")
  /\ UNCHANGED <<clean>>
  /\ UNCHANGED call /\ UNCHANGED source /\ UNCHANGED stores /\ UNCHANGED bounds

RereadJson(i) ==
  /\ pc[i] = "reread"
  /\ IF dir[Json] = text[i] THEN Continue(i, "hash") ELSE Finish(i, "NOT_READY")
  /\ UNCHANGED <<clean>>
  /\ UNCHANGED call /\ UNCHANGED source /\ UNCHANGED stores /\ UNCHANGED bounds

(* validate_referenced_bytes compares every media file before it reports.  *)
HashMember(i, m) ==
  /\ pc[i] = "hash" /\ m \in Media \ hashed[i]
  /\ hashed' = [hashed EXCEPT ![i] = @ \cup {m}]
  /\ errors' = [errors EXCEPT ![i] = @ \/ dir[m] \notin Bound[doc[i]][m]]
  /\ Continue(i, "hash")
  /\ UNCHANGED <<text, doc, first, clean>>
  /\ UNCHANGED source /\ UNCHANGED stores /\ UNCHANGED bounds

ReportHashes(i) ==
  /\ pc[i] = "hash" /\ hashed[i] = Media
  /\ IF errors[i] THEN Finish(i, "raised") ELSE Continue(i, "store")
  /\ UNCHANGED <<clean>>
  /\ UNCHANGED call /\ UNCHANGED source /\ UNCHANGED stores /\ UNCHANGED bounds

(* Mutant: the backend does not look at the media.                         *)
StorableByName(i) == \A m \in Members : dir[m] # Missing

(* What a backend accepts: the directory as it is now.  Neither backend    *)
(* ties the JSON that it copies to the document (see FinalJsonBound).      *)
Storable(i) ==
  /\ \A m \in Members : dir[m] # Missing
  /\ \A m \in Media : dir[m] \in Bound[doc[i]][m]

(* Mutant: an existing version is an error instead of a replay.            *)
StoreOnce(i) ==
  /\ pc[i] = "store"
  /\ LET p == doc[i]
         promote == /\ Storable(i) /\ final[p] = NoDir
                    /\ final' = [final EXCEPT ![p] = dir]
     IN  \/ promote /\ Continue(i, "catalog") /\ NoFault
         \/ final[p] # NoDir /\ UNCHANGED final /\ Finish(i, "raised") /\ NoFault
         \/ promote /\ Finish(i, "raised") /\ Fault(i)
  /\ UNCHANGED <<catalog, edits, crashes, calls>> /\ UNCHANGED call /\ UNCHANGED source

(* Promote, replay, refuse, or fail with or without having promoted.       *)
Store(i) ==
  /\ pc[i] = "store"
  /\ LET p == doc[i]
         promote == /\ Storable(i) /\ final[p] = NoDir
                    /\ final' = [final EXCEPT ![p] = dir]
     IN  \/ promote /\ Continue(i, "catalog") /\ NoFault
         \/ /\ Storable(i) /\ final[p] = dir
            /\ Continue(i, "catalog") /\ NoFault /\ UNCHANGED final
         \/ /\ ~Storable(i) \/ final[p] \notin {NoDir, dir}
            /\ Finish(i, "raised") /\ NoFault /\ UNCHANGED final
         \/ promote /\ Finish(i, "raised") /\ Fault(i)
         \/ Finish(i, "raised") /\ UNCHANGED final /\ Fault(i)
  /\ UNCHANGED <<catalog, edits, crashes, calls>> /\ UNCHANGED call /\ UNCHANGED source

(* The transaction: all or nothing; its reply may be lost after commit.    *)
CatalogPackage(i) ==
  /\ pc[i] = "catalog"
  /\ \/ catalog' = doc[i] /\ Continue(i, "verify") /\ NoFault
     \/ catalog' = doc[i] /\ Finish(i, "raised") /\ Fault(i)
     \/ UNCHANGED catalog /\ Finish(i, "raised") /\ Fault(i)
  /\ UNCHANGED <<final, edits, crashes, calls>>
  /\ UNCHANGED call /\ UNCHANGED source

(* verify_cataloged_asset in a new session.                                *)
VerifyCatalog(i) ==
  /\ pc[i] = "verify"
  /\ \/ Finish(i, IF catalog = doc[i] THEN "CATALOGED" ELSE "raised") /\ NoFault
     \/ Finish(i, "raised") /\ Fault(i)
  /\ UNCHANGED <<edits, crashes, calls>>
  /\ UNCHANGED call /\ UNCHANGED source /\ UNCHANGED stores

EndCall(i) ==
  /\ Goto(i, "idle")
  /\ text' = [text EXCEPT ![i] = Missing] /\ doc' = [doc EXCEPT ![i] = None]
  /\ first' = [first EXCEPT ![i] = None]
  /\ hashed' = [hashed EXCEPT ![i] = {}] /\ errors' = [errors EXCEPT ![i] = FALSE]
  /\ result' = [result EXCEPT ![i] = None]
  /\ clean' = [clean EXCEPT ![i] = TRUE]
  /\ UNCHANGED source /\ UNCHANGED stores

Return(i) == pc[i] = "return" /\ EndCall(i) /\ UNCHANGED bounds

Crash(i) ==
  /\ pc[i] # "idle"
  /\ crashes < MaxCrashes
  /\ crashes' = crashes + 1
  /\ EndCall(i)
  /\ UNCHANGED <<edits, faults, calls>>

(* The producer installs a new version, or writes or removes one member.   *)
(* A write may leave size and time as they were.                           *)
EditSource ==
  /\ edits < MaxEdits
  /\ edits' = edits + 1
  /\ \/ \E p \in Packages : dir' \in Whole(p) /\ stamp' = [m \in Members |-> stamp[m] + 1]
     \/ \E m \in Members, b \in Bytes \cup {Missing} :
          /\ dir' = [dir EXCEPT ![m] = b]
          /\ stamp' \in {stamp, [stamp EXCEPT ![m] = @ + 1]}
  /\ clean' = [i \in Ingesters |-> clean[i] /\ pc[i] = "idle"]
  /\ UNCHANGED <<pc, result, faults, crashes, calls>>
  /\ UNCHANGED call /\ UNCHANGED stores

Step(i) ==
  \/ FirstSnapshot(i) \/ SecondSnapshot(i) \/ RereadJson(i) \/ ReportHashes(i)
  \/ Store(i) \/ CatalogPackage(i) \/ VerifyCatalog(i) \/ Return(i)
  \/ \E m \in Media : HashMember(i, m)

Next == EditSource \/ \E i \in Ingesters : ReadJson(i) \/ Step(i) \/ Crash(i)

Spec == Init /\ [][Next]_vars

--------------------------------------------------------------------------------
(* Properties.                                                             *)

(* What the catalog offers for delivery is in custody, byte for byte, from *)
(* the commit on: nothing is cataloged before it is stored, and nothing    *)
(* that is cataloged ever leaves custody.  Every variable keeps its type.  *)
CatalogIsCustodied ==
  /\ TypeOK
  /\ catalog # None =>
       /\ final[catalog] \in [Members -> Bytes]
       /\ \A m \in Media : final[catalog][m] \in Bound[catalog][m]

(* Replay is the recovery: a call over a whole, untouched package ends     *)
(* CATALOGED whatever earlier calls left half done, unless custody holds   *)
(* the same fingerprint with another JSON rendering.                       *)
CleanReplayCatalogs ==
  \A i \in Ingesters :
    (pc[i] = "return" /\ clean[i] /\ \E p \in Packages : dir \in Whole(p)) =>
      \/ result[i] = "CATALOGED" /\ dir \in Whole(catalog)
      \/ \E p \in Packages : dir \in Whole(p) /\ final[p] \notin {NoDir, dir}
================================================================================
