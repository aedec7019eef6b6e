--------------------------------- MODULE Catalog ---------------------------------
(***************************************************************************)
(* Cataloguing of one natural key (producer, source_key, asset id) by      *)
(* concurrent ingest processes: catalog_validated_asset inside one         *)
(* transaction, then verify_cataloged_asset in a new session.              *)
(*                                                                         *)
(* The database is PostgreSQL at READ COMMITTED, seen through SQLAlchemy:  *)
(* every SELECT reads what is committed when it runs; pending changes are  *)
(* flushed before the next SELECT; an UPDATE waits for the row's lock and  *)
(* then sets only the columns that the new revision changes in the row as  *)
(* this transaction had loaded it; an INSERT waits for a concurrent insert *)
(* of the same key and fails if that one commits.  Nothing in the code     *)
(* takes a lock for the whole upsert.                                      *)
(***************************************************************************)
EXTENDS Naturals, FiniteSets

CONSTANTS
  Ingesters,   \* ingest processes
  Requests,    \* CatalogIngestRequests for the natural key
  Kinds,       \* rendition kinds
  Content,     \* Content[q][row]: the columns request q wants in the row, or NoRow
  Checked,     \* Checked[row]: the columns verify_cataloged_asset compares
  Fingerprint, \* Fingerprint[q]: observed_package_fingerprint
  NoRow,       \* "there is no such row"
  None,        \* "no process", "no request"
  MaxCalls,    \* bound: calls of all processes
  MaxCrashes,  \* bound: processes killed
  MaxReleases  \* bound: handoffs finished by the cleanup stage

(* Rows of one natural key: LogicalAsset, AssetSemantics, an AssetRendition *)
(* per kind, and IngestRecord, whose columns depend on the handoff state.  *)
ContentRows == {"logical", "semantics"} \cup Kinds
Rows == ContentRows \cup {"ingest"}

(* What may stand in a row: the columns of the requests, mixed or not.     *)
Columns(row) ==
  UNION {{Content[r][row][c] : c \in DOMAIN Content[r][row]} :
           r \in {s \in Requests : Content[s][row] # NoRow}}

RowValues == [row \in Rows |->
  IF row = "ingest"
    THEN [fingerprint : {Fingerprint[q] : q \in Requests},
          state : {"cataloged", "cleanup_pending", "complete"}]
    ELSE UNION {[DOMAIN Content[q][row] -> Columns(row)] :
                  q \in {s \in Requests : Content[s][row] # NoRow}}]

ASSUME CatalogAssumption ==
  /\ Kinds \cap {"logical", "semantics", "ingest"} = {}
  /\ \A q \in Requests : /\ Content[q]["logical"] # NoRow /\ Content[q]["semantics"] # NoRow
                         /\ "placement" \in DOMAIN Content[q]["logical"]
  /\ \A row \in ContentRows, q, r \in Requests :
       NoRow \notin {Content[q][row], Content[r][row]} =>
         DOMAIN Content[q][row] = DOMAIN Content[r][row]
  /\ \A row \in ContentRows, q \in Requests : Content[q][row] \in RowValues[row] \cup {NoRow}
  /\ \A row \in Rows : NoRow \notin RowValues[row]
  /\ None \notin Ingesters /\ None \notin Requests
  /\ {MaxCalls, MaxCrashes, MaxReleases} \subseteq Nat

VARIABLES
  db,       \* db[row]: committed columns of the row, or NoRow
  locks,    \* locks[row]: the process whose open transaction has written the row
  pc,       \* pc[i]: the next statement of process i
  req,      \* req[i]: the request process i is cataloguing
  loaded,   \* loaded[i][row]: the row as i's session loaded it
  stale,    \* stale[i]: rows i has loaded whose database row is deleted since
  flushed,  \* flushed[i]: rows whose change i has sent to the database
  released, \* history: the fingerprint whose source the cleanup stage released
  overlap,  \* history: two transactions were open at the same time
  alarm,    \* history: a call failed or was killed
  calls, crashes, releases

vars == <<db, locks, pc, req, loaded, stale, flushed, released, overlap, alarm,
          calls, crashes, releases>>
bounds == <<calls, crashes, releases>>

InTransaction == {"read_ingest", "flush_logical", "flush_renditions", "flush_rest"}
Verifying == {"check_logical", "check_renditions", "check_semantics", "check_ingest"}

TypeOK ==
  /\ \A row \in Rows : db[row] \in RowValues[row] \cup {NoRow}
  /\ locks \in [Rows -> Ingesters \cup {None}]
  /\ pc \in [Ingesters -> {"idle"} \cup InTransaction \cup Verifying]
  /\ req \in [Ingesters -> Requests \cup {None}]
  /\ \A i \in Ingesters, row \in Rows : loaded[i][row] \in RowValues[row] \cup {NoRow}
  /\ stale \in [Ingesters -> SUBSET Rows] /\ flushed \in [Ingesters -> SUBSET Rows]
  /\ overlap \in BOOLEAN /\ alarm \in BOOLEAN

NothingLoaded == [row \in Rows |-> NoRow]

Init ==
  /\ db = NothingLoaded
  /\ locks = [row \in Rows |-> None]
  /\ pc = [i \in Ingesters |-> "idle"]
  /\ req = [i \in Ingesters |-> None]
  /\ loaded = [i \in Ingesters |-> NothingLoaded]
  /\ stale = [i \in Ingesters |-> {}] /\ flushed = [i \in Ingesters |-> {}]
  /\ released = None
  /\ overlap = FALSE /\ alarm = FALSE
  /\ calls = 0 /\ crashes = 0 /\ releases = 0

----------------------------------------------------------------------------------
(* What a transaction wants in each row, from the rows it loaded.          *)

PackageChanged(i) ==
  \/ loaded[i]["ingest"] = NoRow
  \/ loaded[i]["ingest"].fingerprint # Fingerprint[req[i]]

(* Mutant: a changed package keeps the state of the old one.                *)
NextStateKept(i) ==
  IF loaded[i]["ingest"] = NoRow THEN "cataloged" ELSE loaded[i]["ingest"].state

(* ingest_transition: a changed package restarts the handoff, a replay     *)
(* leaves it where it is.  No code writes the other states of the column.  *)
NextState(i) == IF PackageChanged(i) THEN "cataloged" ELSE loaded[i]["ingest"].state

Wanted(i, row) ==
  IF row = "ingest"
    THEN [fingerprint |-> Fingerprint[req[i]], state |-> NextState(i)]
    ELSE Content[req[i]][row]

(* Mutant: a rendition kind the new revision lacks is left in place.       *)
DeletesNever(i, row) == FALSE

Inserts(i, row) == loaded[i][row] = NoRow /\ Wanted(i, row) # NoRow
Deletes(i, row) == loaded[i][row] # NoRow /\ Wanted(i, row) = NoRow
Updates(i, row) ==
  loaded[i][row] # NoRow /\ Wanted(i, row) # NoRow /\ loaded[i][row] # Wanted(i, row)
Writes(i, row) == Inserts(i, row) \/ Updates(i, row) \/ Deletes(i, row)

(* The row after i's statement, given the row it finds.                    *)
Written(i, row) ==
  IF Updates(i, row)
    THEN [c \in DOMAIN Wanted(i, row) |->
            IF Wanted(i, row)[c] # loaded[i][row][c] THEN Wanted(i, row)[c] ELSE db[row][c]]
    ELSE Wanted(i, row)

----------------------------------------------------------------------------------
Goto(i, step) == pc' = [pc EXCEPT ![i] = step]

(* Mutant: the transaction is left open and keeps its locks.               *)
CloseKeepsLocks(i, step, deleted) ==
  /\ Goto(i, step)
  /\ loaded' = [loaded EXCEPT ![i] = NothingLoaded]
  /\ stale' = [j \in Ingesters |-> IF j = i THEN {} ELSE
                  stale[j] \cup {row \in deleted : loaded[j][row] # NoRow}]
  /\ flushed' = [flushed EXCEPT ![i] = {}]
  /\ UNCHANGED locks

(* The transaction or session is gone, with its locks and loaded rows; the *)
(* rows it deleted are gone for the sessions that still have them.         *)
Close(i, step, deleted) ==
  /\ Goto(i, step)
  /\ locks' = [row \in Rows |-> IF locks[row] = i THEN None ELSE locks[row]]
  /\ loaded' = [loaded EXCEPT ![i] = NothingLoaded]
  /\ stale' = [j \in Ingesters |-> IF j = i THEN {} ELSE
                  stale[j] \cup {row \in deleted : loaded[j][row] # NoRow}]
  /\ flushed' = [flushed EXCEPT ![i] = {}]

EndCall(i) ==
  /\ Close(i, "idle", {})
  /\ req' = [req EXCEPT ![i] = None]

(* An exception: rollback, and the caller hears of it.                     *)
Fail(i) == EndCall(i) /\ alarm' = TRUE

(* A SELECT; a row that is already in the session stays as it was loaded.  *)
Load(i, rows) ==
  loaded' = [loaded EXCEPT ![i] =
    [row \in Rows |-> IF row \in rows /\ @[row] = NoRow THEN db[row] ELSE @[row]]]

(* The first statement opens the transaction; the session reads the row.   *)
ReadLogical(i) ==
  /\ pc[i] = "idle"
  /\ calls < MaxCalls
  /\ calls' = calls + 1
  /\ \E q \in Requests : req' = [req EXCEPT ![i] = q]
  /\ overlap' = (overlap \/ \E j \in Ingesters : pc[j] \in InTransaction)
  /\ Load(i, {"logical"})
  /\ Goto(i, "read_ingest")
  /\ UNCHANGED <<db, locks, stale, flushed, released, alarm, crashes, releases>>

(* Mutant: the placement of an existing row is not compared.               *)
AnyPlacement(i) == TRUE

(* CatalogPlacementConflict: a natural key never moves to another scope.   *)
SamePlacement(i) ==
  \/ loaded[i]["logical"] = NoRow
  \/ loaded[i]["logical"].placement = Content[req[i]]["logical"].placement

ReadIngest(i) ==
  /\ pc[i] = "read_ingest"
  /\ IF SamePlacement(i)
       THEN Load(i, {"ingest"}) /\ Goto(i, "flush_logical")
            /\ UNCHANGED <<locks, req, stale, flushed, alarm>>
       ELSE Fail(i)
  /\ UNCHANGED <<db, released, overlap>> /\ UNCHANGED bounds

(* Flush one row: nothing to send, or wait for the row's lock and send.    *)
(* An INSERT of an existing key violates the unique constraint, an UPDATE  *)
(* of a deleted row is StaleDataError, a DELETE of one only a warning.     *)
FlushRow(i, row) ==
  /\ row \notin flushed[i]
  /\ \/ /\ ~Writes(i, row) \/ (Deletes(i, row) /\ row \in stale[i])
        /\ flushed' = [flushed EXCEPT ![i] = @ \cup {row}]
        /\ UNCHANGED <<locks, pc, req, loaded, stale, alarm>>
     \/ /\ Writes(i, row) /\ row \notin stale[i]
        /\ locks[row] = None
        /\ Inserts(i, row) => db[row] = NoRow
        /\ locks' = [locks EXCEPT ![row] = i]
        /\ flushed' = [flushed EXCEPT ![i] = @ \cup {row}]
        /\ UNCHANGED <<pc, req, loaded, stale, alarm>>
     \/ /\ \/ Inserts(i, row) /\ locks[row] = None /\ db[row] # NoRow
           \/ Updates(i, row) /\ row \in stale[i]
        /\ Fail(i)
  /\ UNCHANGED <<db, released, overlap>> /\ UNCHANGED bounds

FlushLogical(i) == pc[i] = "flush_logical" /\ FlushRow(i, "logical")

(* A flush inserts, then updates, then deletes.                            *)
Turn(i, k) ==
  \A other \in Kinds \ flushed[i] :
    /\ Inserts(i, other) => Inserts(i, k)
    /\ Deletes(i, k) => Deletes(i, other)

FlushRendition(i, k) == pc[i] = "flush_renditions" /\ Turn(i, k) /\ FlushRow(i, k)

(* The last flush sends the semantics and the ingest record.               *)
FlushSemantics(i) == pc[i] = "flush_rest" /\ FlushRow(i, "semantics")

FlushIngest(i) == pc[i] = "flush_rest" /\ FlushRow(i, "ingest")

(* A SELECT, after the autoflush of what the session changed before it.    *)
Select(i, rows, step) ==
  /\ Load(i, rows)
  /\ Goto(i, step)
  /\ UNCHANGED <<db, locks, req, stale, flushed, released, overlap, alarm>> /\ UNCHANGED bounds

(* Mutant: the semantics are loaded together with the renditions.          *)
ReadRenditionsJoined(i) ==
  /\ pc[i] = "flush_logical" /\ "logical" \in flushed[i]
  /\ Select(i, Kinds \cup {"semantics"}, "flush_renditions")

ReadRenditions(i) ==
  /\ pc[i] = "flush_logical" /\ "logical" \in flushed[i]
  /\ Select(i, Kinds, "flush_renditions")

ReadSemantics(i) ==
  /\ pc[i] = "flush_renditions" /\ Kinds \subseteq flushed[i]
  /\ Select(i, {"semantics"}, "flush_rest")

(* session_factory.begin() exits: everything written becomes visible.      *)
Commit(i) ==
  /\ pc[i] = "flush_rest" /\ {"semantics", "ingest"} \subseteq flushed[i]
  /\ db' = [row \in Rows |-> IF locks[row] = i THEN Written(i, row) ELSE db[row]]
  /\ Close(i, "check_logical", {row \in Rows : locks[row] = i /\ Deletes(i, row)})
  /\ UNCHANGED <<req, released, overlap, alarm>> /\ UNCHANGED bounds

----------------------------------------------------------------------------------
(* verify_cataloged_asset: four SELECTs in a new session.                  *)

(* Mutant: only the location of a rendition is compared.                   *)
AgreesByLocation(q, row) ==
  CASE row = "ingest" -> db[row] # NoRow /\ db[row].fingerprint = Fingerprint[q]
    [] row \in Kinds  -> db[row] = NoRow <=> Content[q][row] = NoRow
    [] OTHER -> db[row] # NoRow /\ \A c \in Checked[row] : db[row][c] = Content[q][row][c]

(* The row is there exactly when q has it, and its checked columns agree.  *)
Agrees(q, row) ==
  IF row = "ingest" THEN db[row] # NoRow /\ db[row].fingerprint = Fingerprint[q]
  ELSE /\ (db[row] = NoRow) <=> (Content[q][row] = NoRow)
       /\ db[row] # NoRow => \A c \in Checked[row] : db[row][c] = Content[q][row][c]

Check(i, step, rows, next) ==
  /\ pc[i] = step
  /\ IF \E row \in rows : ~Agrees(req[i], row) THEN Fail(i)
     ELSE IF next = "idle" THEN EndCall(i) /\ UNCHANGED alarm
     ELSE Goto(i, next) /\ UNCHANGED <<locks, req, loaded, stale, flushed, alarm>>
  /\ UNCHANGED <<db, released, overlap>> /\ UNCHANGED bounds

Verify(i) ==
  \/ Check(i, "check_logical", {"logical"}, "check_renditions")
  \/ Check(i, "check_renditions", Kinds, "check_semantics")
  \/ Check(i, "check_semantics", {"semantics"}, "check_ingest")
  \/ Check(i, "check_ingest", {"ingest"}, "idle")

----------------------------------------------------------------------------------
(* The environment.                                                        *)

(* A killed process: the server rolls its transaction back.                *)
Crash(i) ==
  /\ pc[i] # "idle"
  /\ crashes < MaxCrashes
  /\ crashes' = crashes + 1
  /\ Fail(i)
  /\ UNCHANGED <<db, released, overlap, calls, releases>>

(* The rows that i may send next.                                          *)
Pending(i) ==
  CASE pc[i] = "flush_logical"    -> {"logical"} \ flushed[i]
    [] pc[i] = "flush_renditions" -> {k \in Kinds \ flushed[i] : Turn(i, k)}
    [] pc[i] = "flush_rest"       -> {"semantics", "ingest"} \ flushed[i]
    [] OTHER                      -> {}

(* i is one of a set of transactions that wait for locks of each other.    *)
Deadlocked(i) ==
  \E waiting \in SUBSET Ingesters :
    /\ i \in waiting
    /\ \A j \in waiting : \E row \in Pending(j) :
         Writes(j, row) /\ row \notin stale[j] /\ locks[row] \in waiting \ {j}

(* PostgreSQL aborts one of them.                                          *)
DeadlockAbort(i) ==
  /\ Deadlocked(i)
  /\ Fail(i)
  /\ UNCHANGED <<db, released, overlap>> /\ UNCHANGED bounds

(* The separate source-cleanup stage moves a handoff on and, at the end,   *)
(* has released the source of the fingerprint it found.                    *)
AdvanceHandoff ==
  /\ releases < MaxReleases
  /\ locks["ingest"] = None
  /\ db["ingest"] # NoRow
  /\ db["ingest"].state \in {"cataloged", "cleanup_pending"}
  /\ releases' = releases + 1
  /\ IF db["ingest"].state = "cataloged"
       THEN db' = [db EXCEPT !["ingest"].state = "cleanup_pending"] /\ UNCHANGED released
       ELSE /\ db' = [db EXCEPT !["ingest"].state = "complete"]
            /\ released' = db["ingest"].fingerprint
  /\ overlap' = (overlap \/ \E i \in Ingesters : pc[i] \in InTransaction)
  /\ UNCHANGED <<locks, pc, req, loaded, stale, flushed, alarm, calls, crashes>>

Step(i) ==
  \/ ReadIngest(i) \/ FlushLogical(i) \/ ReadRenditions(i) \/ ReadSemantics(i)
  \/ FlushSemantics(i) \/ FlushIngest(i) \/ Commit(i) \/ Verify(i) \/ DeadlockAbort(i)
  \/ \E k \in Kinds : FlushRendition(i, k)

Next ==
  \/ \E i \in Ingesters : ReadLogical(i) \/ Step(i) \/ Crash(i)
  \/ AdvanceHandoff

Spec == Init /\ [][Next]_vars

----------------------------------------------------------------------------------
(* Properties.                                                             *)

Quiescent == \A i \in Ingesters : pc[i] = "idle"

(* A request the catalog agrees with, in every column or in the checked.   *)
Whole(q) ==
  /\ db["ingest"] # NoRow /\ db["ingest"].fingerprint = Fingerprint[q]
  /\ \A row \in ContentRows : db[row] = Content[q][row]

CheckedWhole(q) ==
  /\ db["ingest"] # NoRow /\ db["ingest"].fingerprint = Fingerprint[q]
  /\ \A row \in ContentRows :
       IF Content[q][row] = NoRow THEN db[row] = NoRow
       ELSE db[row] # NoRow /\ \A c \in Checked[row] : db[row][c] = Content[q][row][c]

(* Calls that do not overlap leave the catalog holding exactly one         *)
(* request, whatever was killed before: replay is the recovery.            *)
SerialIsWhole ==
  ~overlap /\ (\A i \in Ingesters : pc[i] \notin InTransaction) =>
    db = NothingLoaded \/ \E q \in Requests : Whole(q)

(* Concurrent transactions may mix two revisions in the columns that       *)
(* verification compares, but then some caller is told: its call fails.    *)
TornIsReported ==
  Quiescent /\ ~alarm => db = NothingLoaded \/ \E q \in Requests : CheckedWhole(q)

(* Every revision stores a rendition of some kind k in a directory that    *)
(* carries its fingerprint: no two requests have its URI, a checked column.*)
MovesBy(k, c) ==
  /\ k \in Kinds /\ c \in Checked[k]
  /\ \A q \in Requests : Content[q][k] # NoRow /\ c \in DOMAIN Content[q][k]
  /\ \A q, r \in Requests : q # r => Content[q][k][c] # Content[r][k][c]

Moves == \E k \in Kinds : \E c \in Checked[k] : MovesBy(k, c)

(* At most two calls are under way.  With a third, the renditions that a   *)
(* delayed verification should have missed may be its own again by the     *)
(* time it compares them, and a mixture goes unnoticed.                    *)
TwoAtATime ==
  \A i, j, f \in Ingesters :
    "idle" \notin {pc[i], pc[j], pc[f]} => i = j \/ j = f \/ i = f

(* Verification compares some columns of the semantics only, and yet, when *)
(* every call was told success, all of them are of the revision that the   *)
(* ingest record names: every revision moves its renditions, and the       *)
(* rendition rows are locked before the semantics are read.  The theorem   *)
(* presumes Moves and TwoAtATime; without TwoAtATime it is false.          *)
SemanticsVerified ==
  Quiescent /\ ~alarm /\ db["ingest"] # NoRow =>
    \E q \in Requests : /\ db["ingest"].fingerprint = Fingerprint[q]
                        /\ db["semantics"] = Content[q]["semantics"]

(* Once placed, a natural key never changes placement or disappears, even  *)
(* when its first inserts race.                                            *)
PlacementFixed ==
  [][db["logical"] # NoRow =>
       db'["logical"] # NoRow /\ db'["logical"].placement = db["logical"].placement]_vars

(* Without overlap, a handoff is complete only for the revision whose      *)
(* source was released: a changed package starts over.  Every variable     *)
(* keeps its type.                                                         *)
CompleteIsReleased ==
  /\ TypeOK
  /\ ~overlap /\ db["ingest"] # NoRow /\ db["ingest"].state = "complete" =>
       released = db["ingest"].fingerprint

(* The guard of Step(i): a statement that does not write, a flush that is  *)
(* done, a row that need not be waited for, or a deadlock.                 *)
CanStep(i) ==
  \/ pc[i] \in {"read_ingest"} \cup Verifying
  \/ pc[i] = "flush_logical" /\ "logical" \in flushed[i]
  \/ pc[i] = "flush_renditions" /\ Kinds \subseteq flushed[i]
  \/ pc[i] = "flush_rest" /\ {"semantics", "ingest"} \subseteq flushed[i]
  \/ \E row \in Pending(i) : ~Writes(i, row) \/ row \in stale[i] \/ locks[row] = None
  \/ Deadlocked(i)

Guarded == \A i \in Ingesters : CanStep(i) <=> ENABLED Step(i)

(* No set of calls waits for ever: whatever locks are held, some call can   *)
(* take its next step, because no lock outlives its transaction and a      *)
(* cycle of waiting transactions is broken.  A call takes finitely many    *)
(* steps, so every call ends.                                              *)
NobodyStuck == Guarded /\ (Quiescent \/ \E i \in Ingesters : CanStep(i))
==================================================================================
