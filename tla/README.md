# Verification of Kurukin Atlas

Atlas takes finished media packages from producers, puts them into immutable
custody (on Google Drive through rclone, or in a local directory), records them in a
PostgreSQL catalog, and serves searches, thumbnails and byte ranges over HTTP.
This directory holds TLA+ models of that code, TLC configurations that check
them on small instances, and theorems that TLAPS proves for every instance.
`PROJECT.json` is the index: components, runs, mutants, the lines each
definition models, findings, hazards, theorems. All source paths below are
relative to `src/app/`.

To check one run, `tlc -config MCDriveCustody.cfg MCDriveCustody.tla`; to check the
proofs, `tlapm X.tla` for each of the modules `DriveCustodyProofs`, `LocalCustodyProofs`,
`CatalogProofs`, `PackageIngestProofs`, `CuratedIngestProofs`, `EpisodePublishProofs`,
`MbeBatchProofs` and `ReadSideProofs`.

## 1. The system

A **package** is a producer directory of five files: an `asset_metadata_v1` JSON
and four media (the horizontal and the vertical rendition, and a thumbnail of each). The JSON lists
the SHA-256 of each medium; the **package fingerprint** is computed from the
metadata, so it binds the media but not the rendering of the JSON itself. A
package version (asset identity, fingerprint) has one directory in custody,
`final`. The catalog has one row set per natural key (producer, source_key,
producer_asset_id).

    producer dir -> discovery -> ingest_package: readiness -> hashes -> custody -> catalog -> verification
                      ^   ^                                   (drive | local)  (PostgreSQL)
                 batch-mbe  ingest movie-broll (CLI)                   |              |
                                                                    v              v
                                                     delivery readers  <-  HTTP API  -> search

Several processes may run any of this at once (operators start CLI commands; the API
serves requests in threads). They share the producer directory, the store, a lock file
per host, and the database, and nothing else.

| component (code) | state it keeps | operations | what is hard | what makes it correct |
|---|---|---|---|---|
| Drive custody publisher (`storage/rclone_drive.py`) | remote `final` and `_staging/<uuid>` directories, a flock | `store_package`: bind JSON, hash, lock, mkdir, list, replay or stage-verify-recheck-move-verify, purge | every rclone command can fail with or without its effect; a move that outlives its caller; stale listings; kills; source edits; hosts with their own lock files | finals are immutable and faithful, acknowledgements stay true, replay recovers, staging is not leaked |
| Local custody (`storage/local.py`) | `final`, `.staging` on disk, a flock of the root | validate, lock, replay or copy-hash-rename-return | exceptions and interrupts after the rename, kills, edits while waiting for the lock | the same promise as the Drive backend |
| Contracts, backend factory (`storage/contracts.py`, `backend.py`) | none | the switch between the two | none | both backends offer one promise |
| rclone runner (`storage/rclone.py`) | a child process with a deadline | run a command; stream bytes | timeouts after effects, failure after the last byte, cleanup | children are reaped, failures reach the caller |
| Readiness and bytes (`ingest/package.py`) | none | snapshot, compare, hash | the directory changes between steps | what is hashed is what the document says |
| Producer contract, trust, normalization, fingerprint (`contracts/asset_metadata_v1.py`, `ingest/trust.py`, `normalize.py`, `fingerprint.py`) | none | pure functions of one document | none over time | deterministic |
| Ingest orchestrator (`ingest/orchestrator.py`) | none of its own | `ingest_package` | order of steps, edits and crashes between them | nothing is cataloged before it is in custody; replay recovers |
| Catalog writer and verification (`ingest/catalog.py`, `verification.py`, `models/`, `db/`) | rows of a natural key | `catalog_validated_asset` in a transaction, `verify_cataloged_asset` in a new session | READ COMMITTED with no lock over the upsert; column-wise UPDATEs; row deadlocks; the cleanup stage | one revision, or somebody is told |
| Discovery and batch (`ingest/discovery.py`, `batch.py`, `batch_mbe.py`) | the summary | discover, select, ingest each | one failing package of many; limits; stop on error | the summary is true, nobody is skipped |
| Episode publication (`ingest/movie_broll.py`, `cli.py`) | the report | preflight, gate, publish each, verdict | files and catalog change after preflight; two operators | the gate holds, PASS means cataloged |
| Curated ingest (`ingest/curated.py`) | none of its own | snapshot, hash, ffprobe, snapshot, custody, catalog | hash and probe read the path one after the other | facts, hash and stored bytes are of one version of the file |
| Search (`search/`) | none | three SELECTs, match, rank and select one pool | ingests commit in between; negative evidence, overrides, preferences and limits meet | right about every asset left alone; says why it has nothing |
| Title verification (`cli.py` 133-270) | none | SELECTs, five searches, rows, sampled objects, staging | ingests commit in between; limits of the search | PASS and FAILED say what is there |
| Delivery readers (`delivery/`) and HTTP routes (`api/main.py`) | an open stream per request | resolve, open, preflight chunk, headers, body, close | failing, hanging children; clients that leave; range arithmetic | the body is the range, headers are proven, nothing leaks |
| Settings, wiring, migrations | none / run once | | | |

The hazards this raises, each at its line with the properties that answer for it, are
the `hazards` of PROJECT.json.

## 2. Modules

`A -> B` means that A is shown to implement B, or takes B's vocabulary.

    ImmutableCustody                       the promise of a custody backend (abstract)
      ^        ^        ^
    Drive-   Local-   Curated-             the two backends; a pipeline with an adapter of its own
    Custody  Custody  Ingest
    PackageIngest                          the pipeline above either backend
    Catalog                                transactions on one natural key
    Outbox <- MbeBatch, EpisodePublish     what callers see of packages; the two operator commands
    Search <- TitleCheck                   matching and ranking; a search or a verification of a
                                           title against a catalog that changes
    Delivery                               one HTTP exchange over a local file or an rclone child

    <Module>Proofs                         theorems about <Module>
    ReadSideProofs                         theorems about TitleCheck, with Search, and Delivery

The `MC*` modules give TLC the values that a `.cfg` cannot express and the symmetry sets.
Operators introduced by a comment that begins with "Mutant" are wrong on purpose:
each is a plausible bug of the definition that follows it and shows that a property can fail. No
specification uses them.

### ImmutableCustody
`final[p]` appears in one step, complete, with media that the fingerprint binds; after
that it never changes, unless the store damages it; `acked[p]` collects the directories
callers were told about. It is what `VerifiedStoredPackage` promises.

### DriveCustody (`rclone_drive.py` 75-163, 214-445)
A writer is one process that makes one `store_package` call after another. Each action is
one rclone command or one file read: `BindJson`, `HashMember`, `ValidateInputs`,
`AcquireLock`, `MkdirFinalParent`, `ListFinal`, `VerifyReplay`, `MkdirStaging`,
`CopyMember`, `VerifyStaging`, `RecheckAbsent`, `MoveToFinal`, `VerifyPromoted`,
`PurgeStaging`, `Return`. Files hold model values that are equal exactly when their
SHA-256 are. A failing command may or may not have had its effect (timeouts). `Crash` kills a
process: the kernel drops the flock and staging stays. `EditSource` rewrites a source file of
a running call, `DamageFinal` is the store losing data.
`WeakRemote` adds a remote that is late: a moveto that timed out, or whose caller was killed, may
still be carried out at any later time (`AbandonMove`, `LateMove`), also in the middle of another
writer's call; and `ListFinal` and `RecheckAbsent` may be shown a directory as absent that is there.
`Cooperating` (one lock file and no weak remote) is what the stronger properties assume.
`Return` stands for the exit from the `with` block, hence `unlock`.

### LocalCustody (`local.py` 47-166)
The same state over a file system, with one flock of the storage root. `Rename` includes
the interrupt between `os.rename` and the end of the `try` block, which enters the cleanup handler after the
package was promoted. This backend acknowledges after its rename
without reading the final directory again, and it never calls fsync: a loss
of power is `DamageFinal`.

### Catalog (`catalog.py`, `verification.py`)
One natural key, one action per SQL statement. The module's head states the external rules it
assumes of PostgreSQL at READ COMMITTED and of SQLAlchemy's unit of work: loaded rows
are compared attribute by attribute, only changed columns are sent, the autoflush precedes the next
SELECT, inserts precede updates precede deletes. Row locks are held to the end of the transaction;
a cycle of waiters is broken by aborting one. `AdvanceHandoff` is the
separate source-cleanup stage (external; only the column's state names are in this repository).

### PackageIngest (`orchestrator.py` 61-143, `package.py`)
`ingest_package` from the first read of the JSON to `verify_cataloged_asset`, over a
directory that the producer rewrites between any two steps. `stamp` is what a
snapshot sees (size, mtime): a rewrite may leave it unchanged. Custody and catalog are coarse here: `Store` is
one step that publishes a package or verifies the one that is there, as ImmutableCustody promises of both backends;
the catalog is the document of the last commit.

### CuratedIngest (`ingest/curated.py` 94-315, `storage/rclone_drive.py` 472-512)
`ingest_curated_file`: a first snapshot (size, mtime), the SHA-256, ffprobe, a second snapshot, the
orientation, custody with a manifest, catalog, verification. `EditSource` replaces or removes the
file between any two steps and may bring an old modification time back; a read that meets a rewrite
returns the old bytes, the new ones or some of each (`Torn`). `shown` and `reused` are history
variables: which (size, mtime) pairs the path has shown, and whether one came back with other bytes.

### Outbox, MbeBatch, EpisodePublish
In `Outbox` a package is what its five files are together: a kind, and the text of its JSON. Texts of one fingerprint
(`PrintOf`) are renderings of one document: other white space or key order, the same contents. `Discovered` is the answer of
discovery; `Stored`, `Unready` and `Raises` are those of `ingest_package`, from all that the package was while it ran
(`seen`) and from what custody holds of the asset (`Shelves`: one rendering under each fingerprint). A fingerprint
that is in custody with another rendering is an error there (`Accepts`), as `_verify_directory` and `_verify` compare
the JSON file byte for byte. `MbeBatch`
is `ingest_mbe_batch`: list, look at all packages, resolve placement, ingest the selected ones,
stop or go on. `EpisodePublish` is `ingest movie-broll` with `--dry-run` or `--publish`: discovery, two SELECTs of natural-key state per
package, the gate, publication of each, the counts and the verdict. In both an ingest that fails may leave nothing, the
package in custody, or that and its catalog entry, and the next command meets it.

### Search, TitleCheck (`search/service.py`, `search/repository.py`, `cli.py` 133-270)
`Search` is the algorithm of `search_assets` over one pool, as operators: hard matching per key,
renditions in order of preference, confidence, the weighted overlap, the choice of a rendition,
ranking and limit, and the reason when nothing is found. `TitleCheck` puts it into a call
that reads the catalog in several SELECTs, for a client's request or for `verify title`, while
ingests commit revisions, an operator deactivates assets, objects are damaged and staging changes.
Its properties are not stated with the algorithm: `Eligible`, `Confident` and `Offers` say what a
request means of an asset's rows, `Healthy` what a title should be.

### Delivery (`api/main.py` 34-271, `delivery/reader.py`, `rclone.py` 51-114)
Its state machine is named `ExchangeInit`, `ExchangeNext`, `ExchangeSpec`, so that one module of proofs can extend
it and TitleCheck. One exchange: the range header against the catalog's size, the opened stream, the first
chunk that is read before headers go out, the body, and `close`. The child may exit
with success or failure after any byte, or hang; the deadline is looked at between
reads. The client takes bytes or leaves.

## 3. Runs

Every passing run finishes with no error and fires every action of its specification. Deadlock is
not checked where a run may stop because calls are over or bounds are spent:
`CHECK_DEADLOCK FALSE` everywhere, and the "every call ends" properties are what
excludes a call that hangs.

| run | instance | shows |
|---|---|---|
| `drive_one_host` | 1 package, 1 medium + JSON, contents v (the medium), j and k (two renderings of the JSON), 2 writers x 2 calls, one lock file, 1 fault, 1 kill, 1 edit | `OneLockInv` (the inductive invariant, with `TypeOK`, `LockHeld`, `FinalFaithful` and `AckedAreThere` as conjuncts), `CleanCallSucceeds`, `FinalUntouched`, and refinement of ImmutableCustody |
| `drive_late` | 2 writers x 1 call, one lock file, a weak remote, 2 faults, 1 kill, 1 edit, fair | with late moves and stale listings `IndInv` and `FinalFaithful` still hold, staging is accounted for (`StagingAccounted`), and `CallsEnd` |
| `drive_json_binding` | 1 writer, 1 call | violation, finding 1 |
| `local_custody` | 2 writers x 2 calls, 2 faults, 1 kill, 1 edit, fair | refinement, `CleanCallSucceeds`, `StagingAccounted`, `CallsEnd` |
| `catalog` | 2 processes, 3 calls, five revisions: a base one, one with other bytes and metadata, one with other metadata, one that asks for another placement, one without the horizontal rendition; 1 kill; cleanup moves twice | `SerialIsWhole` with inserts, updates and deletes; `TornIsReported` and `SemanticsVerified` when transactions overlap; `CompleteIsReleased`, `PlacementFixed`; `NobodyStuck`, deadlocks included |
| `package_ingest` | 2 documents of one asset (one with two JSON renderings), 2 processes, 2 calls, 2 edits, 1 fault, 1 kill | `CatalogIsCustodied`, `CleanReplayCatalogs` |
| `curated_ingest` | contents v and w (same size, other facts), one of the wrong orientation, one that is no video; 2 processes, 2 calls, 2 edits, 1 fault, 1 kill | `CatalogIsCustodied`, `FactsAreOfBytes`, `CleanImportCatalogs`, refinement |
| `mbe_batch` | 3 packages of any kind, the second not placeable, limits 1 to 3, all modes, 2 batches, 1 edit (also to another rendering, or to a revision), 1 fault | `SummaryIsTrue`, `SelectionIsFirstReady`, `CatalogIsReported`, `CleanBatchCatalogsAll` |
| `episode_publish` | 2 operators, 2 packages, 3 commands, 1 edit (also to another rendering, or to a revision), 1 fault | `GateHolds`, `CleanPublishCatalogs`, `PreflightPredicts` |
| `episode_pass` | 1 operator, 1 package | violation, finding 2 |
| `title` | eleven kinds of requests, one with a wordless term, over two assets of a title, one of a brand and one of another title, each absent or of one of five revisions; titles of 4 to 6 assets; verification of titles of 0 to 6 assets, one of them odd; search limit 4, pool limit 5; 1 or 2 events during the call | `AnswerIsExact`, `ScarcityIsHonest`, `CleanVerdictIsExact`, `VerdictSurvivesRevisions` |
| `delivery` | every object of at most 3 bytes, chunks of 2, every range, objects of another size or missing, catalog sizes of 0 to 3, absent or negative | `BodyIsWhatWasAsked`, `HeadersAreProven`, `NothingHeld`, `ExchangeEnds` |

**Why the bounds are enough.** A custody step touches one package and its own call, so one package
suffices; packages interact only through the lock, which the proofs treat for any number. Two
members separate the JSON from the media and give staging an incomplete state. Two
writers with two calls reach every hand-over: replay of another's package, recovery of one's own,
a lock taken after a kill. One fault, kill and edit each occur at every step of every call, and
in combination. Two transactions are what a lost update, a torn row set and a deadlock need; three or four requests
give a mixture that equals none. Three texts, two of them of one fingerprint, with one fault, one edit and two batches are what it takes for a
package to be stored but not cataloged, to be written out anew and to be met again. Objects of 3 bytes in chunks of 2 give an empty, a partial,
an exact and a short chunk. Search judges each asset alone and then ranks, so two assets of the scope, and two that
are out of it, meet every case of a request; a title below, at and beyond each of the two limits is verified. The
curated file needs two edits to come back with an old time, and two contents of one size to go unnoticed.
Hosts with lock files of their own have no run: the theorems about `IndInv` and `FinalFaithful` hold for every `LockOf`.
Bounds of the models: `MaxFaults`, `MaxCrashes`, `MaxEdits`, `MaxCalls`, `MaxReleases`,
`MaxBatches`, `MaxCommands`, `MaxSize`, `events`, `StageIds` (no more UUIDs are drawn than calls are made).

**Fairness.** `DriveCustody`, `LocalCustody`: `WF_vars(Step(w))` for each process. A
process whose call has begun runs on unless it is killed; every rclone command has a timeout
(`rclone.py` 35-49) so it ends, in success or failure; a flock that is free is granted. Weak fairness
suffices because the lock's other users are finitely many calls. No
action that starts a call, and no fault, kill, edit or late move, is fair. `Catalog` states no fairness: `NobodyStuck`
is the safety property behind termination, as a call takes finitely many steps. `Delivery`: the server starts a request it accepted, takes its
next route step, reads a local file and hands on or drops a chunk; `Deadline` is fair
(`rclone.py` looks at the clock between reads with a bounded `select`). The child is not fair: it may hang for ever.

## 4. Proofs

Every theorem holds for all values of the constants that satisfy the module's one `ASSUME` (typed
bounds, sentinels that differ from data, for the catalog that all requests have the same columns), hence for any
number of packages, members, contents, processes, calls, faults, kills and edits.

| module | theorem | statement |
|---|---|---|
| `DriveCustodyProofs` | `Inductive` | `Spec => []IndInv` |
| | `TypeCorrect`, `MutualExclusion`, `ContentAddressed` | `[]TypeOK`, `[]LockExcludes`, `[]FinalFaithful`: on any hosts, with a weak remote or not |
| | `OneLockInductive`, `AckedStayTrue` | if `Cooperating`, `[]OneLockInv` and `[]AckedAreThere` |
| | `FinalsImmutable` | if `Cooperating`, `FinalUntouched` |
| | `Refinement` | if `Cooperating`, `Spec => Custody!Spec` |
| | `StagingIsAccounted` | `[]StagingAccounted`: on any hosts, with a weak remote or not |
| | `CleanCallsSucceed` | if `Cooperating`, `[]CleanCallSucceeds` |
| `LocalCustodyProofs` | `CustodyInductive`, `Refinement` | `[]CustodyInv`, `Spec => Custody!Spec` |
| | `StagingIsAccounted`, `CleanCallsSucceed` | `[]StagingAccounted`, `[]CleanCallSucceeds` |
| `CatalogProofs` | `CatalogInductive` | `[](CatalogInv /\ SerialInv)` |
| | `SerialsAreWhole`, `CompleteReleased` | `[]SerialIsWhole`, `[]CompleteIsReleased` |
| | `PlacementStays` | `PlacementFixed` |
| | `TornReported` | `[]TornIsReported`, for any number of overlapping calls |
| | `SemanticsAreVerified` | if `Moves`, `Spec /\ []TwoAtATime => []SemanticsVerified` |
| | `NobodyIsStuck` | `[](Guarded => NobodyStuck)`: some call can step, for any number of calls and kinds |
| `PackageIngestProofs` | `CustodyInductive`, `CatalogCustodied` | `[]CustodyInv`, `[]CatalogIsCustodied` |
| | `CleanReplaysCatalog` | `[]CleanReplayCatalogs` |
| `CuratedIngestProofs` | `CustodyInductive`, `CatalogCustodied`, `Refinement` | `[]CustodyInv`, `[]CatalogIsCustodied`, `Spec => Custody!Spec` |
| | `FactsDescribeBytes`, `CleanImportsCatalog` | `[]FactsAreOfBytes`, `[]CleanImportCatalogs` |
| `ReadSideProofs` | `TitleInductive` | `[]TitleInv` |
| | `SearchIsExact`, `ScarcityHonest` | `[]AnswerIsExact`, `[]ScarcityIsHonest`: for any catalog, request and limits |
| | `VerdictExact`, `VerdictSurvives` | `[]CleanVerdictIsExact`, `[]VerdictSurvivesRevisions`: for titles of any size |
| | `ExchangeInductive` | `[]ExchangeInv` |
| | `ReaderIsReleased`, `HeadersFollowBytes`, `BodiesAreRanges` | `[]NothingHeld`, `[]HeadersAreProven`, `[]BodyIsWhatWasAsked` |
| `EpisodePublishProofs` | `PublishInductive`, `GateIsKept` | `[]PublishInv`, `[]GateHolds` |
| | `AloneInductive`, `CleanPublishes`, `PreflightForetells` | `[](PublishInv /\ AloneInv)`, `[]CleanPublishCatalogs`, `[]PreflightPredicts` |
| `MbeBatchProofs` | `BatchInductive` | `[]BatchInv` |
| | `SummaryTells`, `CatalogReported`, `FirstReadySelected`, `CleanBatchCatalogs` | the four invariants of `mbe_batch` |

Each step lemma has one case per action of `Next`, and under it one per conjunct that the action can
disturb. Why the properties are not inductive as they stand, and what is added:

*DriveCustody.* `MoveToFinal` promotes whatever staging holds, so one must know
that staging equals the verified hashes at that moment (`StagedVerified`), that nobody else has touched it since
(`StagingPrivate`: a UUID is drawn once), that the hashes are those the fingerprint binds
(`CallState`), and who is inside (`LockHeld`). A late move needs `LateStaged`: what is still to be moved is faithful, and no
call stages into it any more. `IndInv` is the conjunction. For cooperating writers
`PromotesToAbsent` adds that what `RecheckAbsent` saw still holds at `MoveToFinal`, since no
other writer is inside; hence a move is always to an absent directory, finals never
change, and `AckedAreThere` and the refinement follow. `RcloneDrivePublisher` opens one lock file on
its host, so `OneLock` is the single-host deployment; it is a hypothesis of five theorems and of no other.
`StagingAccounted` compares numbers. Its inductive form is `OwedPaid`: the staging directories that no call in a staging step
works in (`Owed`) are finitely many and no more than the faults and kills spent; each step that adds one spends one. `CleanCall` says, step by
step, what a call that no fault, kill or edit has disturbed (`Undisturbed`) is sure of: its hashes and its staging are those of what it read,
the final directory is absent until it moves and there when it replays, and it fails only over a final directory that differs.

*LocalCustody.* One flock of the root replaces the recheck: `CallState` keeps what a call saw of its final directory
until it renames. `StagingAccounted` counts; `Owed <= faults + crashes` is the inductive form, where `Owed`
already counts the directory of a call that is about to leave one behind. `CleanState` says what an undisturbed call is sure
of: its source is the package, and it fails only over a directory with another JSON or a damaged one.

*Catalog.* `Session` says which rows a transaction has read and sent by its next statement, `Locked` that a lock
stands for a change that was sent and that an inserted row is still absent, `Present` that a loaded row is there unless the
session is known to be stale, `Placed` that the placement a session loaded is the one in the database. With them an UPDATE
of the logical row meets the row and leaves its placement, and no row is ever inserted over another. For transactions
that do not overlap, `Serial` says that a session equals the database (`Fresh`), so that the commit makes it the request, in every row.
The lemma `StepKinds` sorts every step into eight forms, over which the invariants of overlapping calls are carried:
- `Vouched`, for `TornIsReported`: unless a call failed, the catalog is one request, or some verification agrees with it in all it has
  compared so far. The call that commits last is that one, as nobody changes a compared column after it.
- `Together` and `Rest`, for `SemanticsVerified`, follow one kind and column by which every revision moves: its URI, which
  carries the fingerprint (`Moves`; the vertical rendition is always expected). `Together`: rendition and semantics are of one request, or the
  verification of some call will find a rendition that is not its own (`Doubts`). `Rest` keeps that for a transaction that has read the
  semantics: its commit leaves its own semantics (`Covers`), or it does not write the rendition and will doubt it (`Misses`), or
  another call already doubts it. The step that needs care is a commit of the other transaction: either the rendition's row lock, held
  since before the semantics were read, kept the other from writing it, so that it is a replay that changes nothing, or the rendition moves under the reader.
  With two calls there is no third whose doubt the commit could settle; with three there is, and the invariant is false (section 6).
- `NobodyStuck` needs no cycle detection: if no call under way could step, each would wait for a row that another locks, so the
  set of all of them is what the deadlock detector looks for. The argument needs `Locked` (a lock's owner is in a transaction) and
  `SomeTurn` (of the rows a flush has left, one is next). That `CanStep` is the guard of `Step` (`Guarded`) is checked by TLC.

*PackageIngest, CuratedIngest.* `StoredFirst`: a call reaches the catalog only when its document is in custody, which never
changes. `CuratedIngest` also needs `SameFile`: as long as no (size, mtime) pair came back, a path that looks as it did at the
first snapshot holds what was opened, hashed and probed since; `FactsConfirmed` carries that past the second snapshot. Clean calls: `Undisturbed`.

*Search, TitleCheck.* The first part of `ReadSideProofs` is about the algorithm alone. `AnswersAreRight` says of every pool and request what
`Answer` is, in terms that know no algorithm (`Eligible`, `Confident`, `Offers`): which reason it gives, and that what it finds names each asset
once, offers it where it may, and leaves one out only when the answer is full. It rests on lemmas about each stage: `MismatchContradicts` and
`UnknownIsUnestablished` for the three states of a requirement, `OverlapMeets` for confidence, `BestIs` (the order among the renditions of an
asset is total, so there is one best), `RankedIs` (`Rank` numbers the candidates from 1 without gaps, so that a prefix of the
ranking is a function onto as many of them as fit). The properties read the catalog as it is when the call ends, and the call works with rows it read
before: `Holds` says that the rows a session has of an asset left alone are those stored, `FreshPool` the same of the pool. For a
verification `Course` says where it is and what it has loaded, `SoundSoFar` what is true of the title as long as there is nothing to report
(from the first search on, that it is active and no larger than an answer; from the sampling on, that it is whole and undamaged
where it was looked at; from the third search on, that nothing in it is of a shape the response refuses), and `CalmInv` the
converse: among whole revisions, nothing is ever reported of a healthy title. The constants are assumed to be what the request contract lets through
(`Requestable`), and a title that fits into an answer to fit into a pool (100 and 400 in the code).

*Delivery.* `Decided` remembers that the window is the one the requested range denotes, `Proven` that bytes precede headers
and how the handle follows the exchange, `Inside` that no read leaves the window, `Exhausted` that a reader which ended in success without a length to end at has given all
of the object. `BodiesAreRanges` then computes, for each of the shapes of a
range, that offset and number of the bytes sent are those of the range.

*EpisodePublish.* `PublishInv` keeps the lengths of listing, items and counts in step, and the gate for whoever is past it. For a command that
is alone, `RunSeen` (the run is as discovered and judged), `Others` (an ingest under way works from the run as it is), `Predicted` (what is
not counted yet has the state the preflight saw) and `Verdict`. `Held` keeps every cataloged fingerprint in custody; since custody is never
overwritten, what clashed when its turn came still clashes when the command is done.

*MbeBatch.* `Calls` relates the packages handed over to the places of the report, `Reports` the report to discovery and catalog, `Chosen`
the selection: a READY package is left out only when the limit is reached or the batch halted, and that stays so. `Quiet` is what a batch over an
unchanging outbox is sure of.

*Only model-checked:* the liveness properties `CallsEnd` and `ExchangeEnds`, and `Guarded`, as fairness and ENABLED are out of this
prover's reach. Every safety property of a passing run is a theorem, under the hypotheses that the table names.

## 5. Findings

1. `drive_json_binding`. `_bind_producer_json` reads and compares the JSON; `_mbe_members` then
   opens it again and takes what it finds. A JSON replaced in between is stored and verified against its own
   hash, although the docstring requires it to be the asset's source. The media are not
   affected. LocalCustody has the same exposure, without a document that promises otherwise.
2. `episode_pass`. The publish loop ignores `result.status`: an ingest that answers NOT_READY is
   counted as unchanged and the verdict is PASS with exit status 0, although nothing was stored.

## 6. What the models say about design limits

- Two overlapping revisions may mix in columns that verification does not compare
  (`editorial_decision`, `duration_seconds`, `width`, ...) with every call reporting success. `TornIsReported` is
  stated for compared columns; the semantics are shown whole for two calls at a time, because renditions are locked first.
- Three overlapping calls can mix the semantics of two revisions in columns that verification does not compare, with every call reporting success:
  a replay that read its renditions long before commits over newer ones, and by the time its verification compares renditions another call
  has put the same ones back. It takes eight calls in a particular order (five to prepare the rows, three that overlap).
- Between an older and a newer document the last commit wins; nothing orders two calls.
- On several hosts without a common lock, after a late moveto, or behind a stale listing, a moveto may replace the JSON
  rendering of a final directory. Only the media stay bound. The model's moveto into an existing directory is atomic; rclone goes file by
  file there, which for bound media ends in the same contents.
- A curated file that is swapped away and back between the snapshots, or whose replacement keeps size and modification time,
  can be cataloged with the technical facts of other bytes; custody still holds the bytes of the hash. `FactsAreOfBytes` excludes exactly that.
- A requested term without any word (a dash) counts as a MATCH and lets an answer count as confident (`search/service.py` 113-114: "not requested"),
  where `docs/search-core-v1.md` 14-17 has a requested dimension MATCH only on positive evidence and UNKNOWN otherwise. `AnswerIsExact` and the
  part of `ScarcityIsHonest` about evidence claim nothing of such a request (`Worded`); the run asks one.
- A package that was stored and not cataloged, and whose JSON is then written out anew with the same contents, has the fingerprint and the final
  directory of before and other bytes: custody refuses it (`rclone_drive.py` 349-371, `local.py` 144-147), and every later ingest with it, until the
  old bytes come back. `CleanReplayCatalogs`, `CleanBatchCatalogsAll` and `CleanPublishCatalogs` make this one exception and say what
  is then reported.
- Verification of a title samples the first, the middle and the last asset; what `VerdictSurvivesRevisions` says about damage is said of those.
- One asset whose stored override has a type the response cannot hold makes every search of its scope fail as a whole, and
  `verify title` with it (`search/service.py` 242).
- A sound title of more than 100 assets fails its verification, as the searches return at most 100, and one of more than 400 ends in an error.
  The last three of the five searches are printed and never judged.
- An asset that is added while its title is verified either makes a sound title fail or is not covered by a PASS.
- An asset revised between the three SELECTs of a search may be judged on semantics and overrides of two revisions.
- A re-run ingest sets an asset's status back to active, whatever an operator had set.
- The comment at `cli.py` 226 calls an empty title a successful inspection; code and tests report FAILED.
- Staging directories left by a kill or by a failed purge stay: `StagingAccounted` counts them, nothing removes them.
- Preflight reads natural-key state in two SELECTs at READ COMMITTED and reports a half-present pair that never
  existed ("reconcile") when another operator commits in between. The item is neither blocked nor counted as new,
  so the verdict does not depend on it; `PreflightPredicts` is stated for an operator who is alone.
- A limited batch that is run again selects the same first packages, as READY packages stay in the outbox.
- A client that neither takes bytes nor leaves holds its rclone child: the deadline is looked at
  only when the consumer asks for the next chunk.

## 7. Abstractions, and what is not modelled

- Path, symlink and locator checks that refuse a call before it changes anything are left out or are one guard.
- A stale listing hides a directory that is there; it never shows one that is not. Only a moveto outlives its caller: a late copy or
  purge works in a staging directory that no other call uses.
- Search: a text is its set of tokens, scores are integers that order the assets of one request as the code's quotients do, and
  the editorial signal depends on tokens. The trace and the wording of an answer are left out. Natural keys are unique by the database.
- `verify title`: the objects of a sampled asset are intact or not; the checks of one asset's rows are one predicate, `sound`.
- In Outbox, MbeBatch and EpisodePublish the custody of an asset holds one rendering under each fingerprint, and nothing is damaged there. Of a package
  that changes during its ingest any text may be the JSON that is copied, as it is read once more.
- Discovery is one step in EpisodePublish and two looks per package in MbeBatch; duplicate asset ids count
  as a refusal; printed JSON and wording are left out.
- `close()` on a generator that runs in another thread raises and is swallowed (`api/main.py:107`); the model drops a
  stream only between two reads.
- Producer contract, trust, normalization, fingerprint: pure functions of one document, taken as the constants
  `Bound`, `Content`, `Fingerprint`. Settings, wiring and migrations hold no behaviour over time.
- Delivery models ranges, streams and statuses; the grammar of locators and the mapping of a locator to a backend are one guard. The
  HTTP routes that only read one row and format it are left out.

## 8. Plan

Done, in this order: ImmutableCustody and DriveCustody with proofs; Catalog; LocalCustody; PackageIngest;
Outbox with MbeBatch and EpisodePublish; Delivery; a weak remote in DriveCustody; CuratedIngest; Search and TitleCheck;
proofs of LocalCustody, PackageIngest, CuratedIngest, Delivery, EpisodePublish, MbeBatch and Catalog; staging and clean calls of
DriveCustody, overlapping calls of Catalog; Search and TitleCheck, for which the algorithm was restated without filters and sorts over sequences.

Left, in order of worth:
1. Catalog: which condition on the revisions excludes the mixed semantics of three overlapping calls (section 6).
2. Delivery: the locator grammar.
