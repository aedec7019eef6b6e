--------------------------------- MODULE MbeBatch ---------------------------------
(***************************************************************************)
(* ingest_mbe_batch: discover the packages of an outbox in the order of    *)
(* their file names, then hand the selected READY ones to ingest_package   *)
(* one after another.  The producer keeps changing the outbox, an ingest   *)
(* may fail before or after its commit, and the process may be killed and  *)
(* the batch run again.                                                    *)
(***************************************************************************)
EXTENDS Integers, Sequences, FiniteSets, Outbox

CONSTANTS
  N,           \* packages are 1..N, in the lexical order of their names
  Unplaceable, \* packages for which the placement resolver raises
  Limits,      \* the limits an operator may give; N and more select all
  MaxEdits,    \* bound: changes of the outbox
  MaxFaults,   \* bound: ingest calls that fail for another reason
  MaxBatches   \* bound: batches started

ASSUME BatchAssumption ==
  /\ N \in Nat /\ Unplaceable \subseteq 1..N /\ Limits \subseteq Nat
  /\ {MaxEdits, MaxFaults, MaxBatches} \subseteq Nat
  /\ \A c \in First \cup Outputs : c.kind # "refused"

VARIABLES
  outbox,   \* outbox[p]: what package p is now
  pc,       \* the step of the batch
  options,  \* limit, dry_run and stop_on_error of the batch
  listed,   \* the JSON files found, in order
  found,    \* their discovery statuses, as far as discovery got
  before,   \* the kind of the package at hand when its JSON was read
  seen,     \* what the package at hand has been since its ingest began
  results,  \* results[k]: the outcome reported for listed[k]
  selected, halted,
  custody,  \* custody[p]: the renderings of p that are stored
  catalog,  \* catalog[p]: the fingerprint cataloged
  called,   \* history: packages handed to ingest_package by this batch
  known,    \* history: the catalog when this batch began
  clean,    \* history: no edit and no fault since this batch began
  edits, faults, batches  \* what is spent of the bounds

discovery == <<listed, found>>
progress == <<selected, halted, called>>
stores == <<custody, catalog>>
bounds == <<edits, faults, batches>>
vars == <<outbox, pc, options, listed, found, before, seen, results, selected, halted,
          custody, catalog, called, known, clean, edits, faults, batches>>

Packages == 1..N
Attempts == {"CATALOGED", "INGEST_NOT_READY", "FAILED"}
Selected == Attempts \cup {"PLACEMENT_FAILED", "DRY_RUN"}
Statuses == Selected \cup {"READY", "NOT_READY", "INVALID"}
Options == [limit : Limits, dry_run : BOOLEAN, stop_on_error : BOOLEAN]

Ordered(s) == \A i, j \in DOMAIN s : i < j => s[i] < s[j]

TypeOK ==
  /\ outbox \in [Packages -> Contents] /\ options \in Options
  /\ pc \in {"start", "read", "inspect", "select", "ingest", "done"}
  /\ listed \in Seq(Packages) /\ Ordered(listed)
  /\ found \in Seq({"READY", "NOT_READY", "INVALID"}) /\ Len(found) <= Len(listed)
  /\ pc \in {"select", "ingest", "done"} => Len(found) = Len(listed)
  /\ pc = "ingest" => Len(results) < Len(listed)
  /\ before \in Kinds /\ seen \subseteq Contents /\ results \in Seq(Statuses) /\ Len(results) <= Len(found)
  /\ selected \in Nat /\ halted \in BOOLEAN
  /\ custody \in [Packages -> Shelves] /\ catalog \in [Packages -> Prints \cup {None}]
  /\ called \in Seq(Packages) /\ known \in [Packages -> Prints \cup {None}] /\ clean \in BOOLEAN

Init ==
  /\ outbox \in [Packages -> First]
  /\ pc = "start" /\ options \in Options
  /\ listed = <<>> /\ found = <<>> /\ before = "absent" /\ seen = {}
  /\ results = <<>> /\ selected = 0 /\ halted = FALSE /\ called = <<>>
  /\ custody = [p \in Packages |-> [f \in Prints |-> None]]
  /\ catalog = [p \in Packages |-> None] /\ known = catalog /\ clean = TRUE
  /\ edits = 0 /\ faults = 0 /\ batches = 0

--------------------------------------------------------------------------------
(* The *.json entries of the directory, sorted by name.                    *)
Listings == InOrder({p \in Packages : outbox[p].kind # "absent"})

StartBatch ==
  /\ pc = "start"
  /\ batches < MaxBatches
  /\ batches' = batches + 1
  /\ options' \in Options
  /\ listed' \in Listings
  /\ found' = <<>> /\ results' = <<>> /\ called' = <<>>
  /\ selected' = 0 /\ halted' = FALSE
  /\ known' = catalog /\ clean' = TRUE
  /\ pc' = "read"
  /\ UNCHANGED <<outbox, before, seen, stores, edits, faults>>

ReadJson ==
  /\ pc = "read"
  /\ IF Len(found) = Len(listed)
       THEN pc' = "select" /\ UNCHANGED before
       ELSE pc' = "inspect" /\ before' = outbox[listed[Len(found) + 1]].kind
  /\ UNCHANGED <<outbox, options, seen, results, stores, known, clean>>
  /\ UNCHANGED discovery /\ UNCHANGED progress /\ UNCHANGED bounds

InspectMembers ==
  /\ pc = "inspect"
  /\ found' = Append(found, Discovered(before, outbox[listed[Len(found) + 1]].kind))
  /\ pc' = "read"
  /\ UNCHANGED <<outbox, options, listed, before, seen, results, stores, known, clean>>
  /\ UNCHANGED progress /\ UNCHANGED bounds

At == Len(results) + 1
Report(status) == results' = Append(results, status)
(* Mutant: every failed package ends the batch.                            *)
HaltAlways(status) == halted' = (halted \/ status = "FAILED")
Halt(status) ==
  halted' = (halted \/ (options.stop_on_error /\ status \in {"FAILED", "PLACEMENT_FAILED"}))

InSelection ==
  pc = "select" /\ At <= Len(listed) /\ found[At] = "READY"

Open == ~halted /\ selected < options.limit

(* Packages that are not READY, or that the limit or a halt leaves out.    *)
PassOver ==
  /\ pc = "select" /\ At <= Len(listed)
  /\ \/ found[At] # "READY" /\ Report(found[At])
     \/ found[At] = "READY" /\ ~Open /\ Report("READY")
  /\ UNCHANGED <<outbox, pc, options, before, seen, stores, known, clean>>
  /\ UNCHANGED discovery /\ UNCHANGED progress /\ UNCHANGED bounds

(* Mutant: a package that cannot be placed takes no slot of the limit.     *)
ResolveFailsForFree ==
  /\ InSelection /\ Open /\ listed[At] \in Unplaceable
  /\ Report("PLACEMENT_FAILED") /\ Halt("PLACEMENT_FAILED")
  /\ UNCHANGED <<outbox, pc, options, before, seen, selected, stores, called, known, clean>>
  /\ UNCHANGED discovery /\ UNCHANGED bounds

ResolveFails ==
  /\ InSelection /\ Open /\ listed[At] \in Unplaceable
  /\ selected' = selected + 1
  /\ Report("PLACEMENT_FAILED") /\ Halt("PLACEMENT_FAILED")
  /\ UNCHANGED <<outbox, pc, options, before, seen, stores, called, known, clean>>
  /\ UNCHANGED discovery /\ UNCHANGED bounds

DryRun ==
  /\ InSelection /\ Open /\ listed[At] \notin Unplaceable /\ options.dry_run
  /\ selected' = selected + 1
  /\ Report("DRY_RUN")
  /\ UNCHANGED <<outbox, pc, options, before, seen, halted, stores, called, known, clean>>
  /\ UNCHANGED discovery /\ UNCHANGED bounds

CallIngest ==
  /\ InSelection /\ Open /\ listed[At] \notin Unplaceable /\ ~options.dry_run
  /\ selected' = selected + 1
  /\ called' = Append(called, listed[At])
  /\ seen' = {outbox[listed[At]]}
  /\ pc' = "ingest"
  /\ UNCHANGED <<outbox, options, before, results, halted, stores, known, clean>>
  /\ UNCHANGED discovery /\ UNCHANGED bounds

(* Mutants: a READY package that turned NOT_READY counts as unattempted,   *)
(* or as success, for it raised nothing.                                   *)
StatusOptimistic(outcome) == IF outcome = "raised" THEN "FAILED" ELSE "CATALOGED"
StatusSilent(outcome) ==
  CASE outcome = "CATALOGED" -> "CATALOGED" [] outcome = "NOT_READY" -> "READY" [] OTHER -> "FAILED"
Status(outcome) ==
  CASE outcome = "CATALOGED" -> "CATALOGED"
    [] outcome = "NOT_READY" -> "INGEST_NOT_READY"
    [] OTHER -> "FAILED"

Shelve(v) == custody' = [custody EXCEPT ![listed[At]][v.print] = v.text]
Enter(v)  == catalog' = [catalog EXCEPT ![listed[At]] = v.print]
Versions  == Stored(seen, custody[listed[At]])

Ends(outcome) ==
  \/ outcome = "CATALOGED" /\ \E v \in Versions : Shelve(v) /\ Enter(v)
  \/ outcome = "NOT_READY" /\ Unready(seen) /\ UNCHANGED stores
  \/ outcome = "raised" /\ Raises(seen, custody[listed[At]]) /\ UNCHANGED stores

IngestReturns ==
  /\ pc = "ingest"
  /\ \E outcome \in {"CATALOGED", "NOT_READY", "raised"} :
       Ends(outcome) /\ Report(Status(outcome)) /\ Halt(Status(outcome))
  /\ pc' = "select" /\ seen' = {}
  /\ UNCHANGED <<outbox, options, before, selected, called, known, clean>>
  /\ UNCHANGED discovery /\ UNCHANGED bounds

(* Storage or database fail the call: before anything is stored, when the  *)
(* package is in custody, or when it is cataloged as well.                 *)
IngestFails ==
  /\ pc = "ingest"
  /\ faults < MaxFaults
  /\ faults' = faults + 1
  /\ clean' = FALSE
  /\ Report("FAILED") /\ Halt("FAILED")
  /\ \/ UNCHANGED stores
     \/ \E v \in Versions : Shelve(v) /\ (Enter(v) \/ UNCHANGED catalog)
  /\ pc' = "select" /\ seen' = {}
  /\ UNCHANGED <<outbox, options, before, selected, called, known, edits, batches>>
  /\ UNCHANGED discovery

Finish ==
  /\ pc = "select" /\ At > Len(listed)
  /\ pc' = "done"
  /\ UNCHANGED <<outbox, options, before, seen, results, stores, known, clean>>
  /\ UNCHANGED discovery /\ UNCHANGED progress /\ UNCHANGED bounds

(* The process ends, or is killed in the middle; the batch may run again.  *)
Exit ==
  /\ pc # "start"
  /\ pc' = "start" /\ seen' = {}
  /\ UNCHANGED <<outbox, options, before, results, stores, known, clean>>
  /\ UNCHANGED discovery /\ UNCHANGED progress /\ UNCHANGED bounds

EditOutbox ==
  /\ edits < MaxEdits
  /\ edits' = edits + 1
  /\ \E p \in Packages, c \in Outputs :
       /\ outbox' = [outbox EXCEPT ![p] = c]
       /\ seen' = IF pc = "ingest" /\ listed[At] = p THEN seen \cup {c} ELSE seen
  /\ clean' = FALSE
  /\ UNCHANGED <<pc, options, before, results, stores, known, faults, batches>>
  /\ UNCHANGED discovery /\ UNCHANGED progress

Step ==
  \/ ReadJson \/ InspectMembers \/ PassOver \/ ResolveFails \/ DryRun
  \/ CallIngest \/ IngestReturns \/ IngestFails \/ Finish

Next == StartBatch \/ Step \/ Exit \/ EditOutbox

Spec == Init /\ [][Next]_vars

--------------------------------------------------------------------------------
(* Properties.                                                             *)

Places(statuses) == {k \in DOMAIN results : results[k] \in statuses}

(* The summary of a finished batch tells what was done: every listed JSON  *)
(* once and in order, an attempt for exactly the packages that were handed *)
(* to ingest_package, each once, and none in a dry run.  Every variable    *)
(* keeps its type.                                                         *)
SummaryIsTrue ==
  /\ TypeOK
  /\ pc = "done" =>
       /\ Len(results) = Len(listed) /\ Ordered(called)
       /\ {called[c] : c \in DOMAIN called} = {listed[k] : k \in Places(Attempts)}
       /\ options.dry_run => called = <<>>

(* A limit selects the first READY packages in order, placement failures   *)
(* included, and all of them unless a failure under stop_on_error ended    *)
(* the batch; after that failure nothing is attempted.                     *)
SelectionIsFirstReady ==
  pc = "done" =>
    LET failures == Places({"FAILED", "PLACEMENT_FAILED"})
        ready == {k \in DOMAIN found : found[k] = "READY"}
    IN  /\ \A k \in Places(Selected), j \in ready : j < k => results[j] \in Selected
        /\ IF options.stop_on_error /\ failures # {}
             THEN \A k \in failures, j \in ready : (j > k) => results[j] = "READY"
             ELSE Cardinality(Places(Selected)) =
                    IF Cardinality(ready) < options.limit THEN Cardinality(ready)
                                                          ELSE options.limit

(* Nothing is cataloged behind the operator's back: what this batch put    *)
(* into the catalog is reported CATALOGED, or FAILED when only the reply   *)
(* was lost, and what is reported CATALOGED is in the catalog.             *)
CatalogIsReported ==
  pc = "done" =>
    /\ \A k \in Places({"CATALOGED"}) : catalog[listed[k]] # None
    /\ {p \in Packages : catalog[p] # known[p]}
         \subseteq {listed[k] : k \in Places({"CATALOGED", "FAILED"})}

(* A batch without limit and stop over an outbox that nobody changes       *)
(* catalogs every complete package that can be placed, in the version that *)
(* is there, whatever is wrong with the others and whatever earlier        *)
(* batches left; only one whose fingerprint is in custody with another     *)
(* rendering of its JSON it reports FAILED.                                *)
CleanBatchCatalogsAll ==
  (pc = "done" /\ clean /\ ~options.dry_run /\ ~options.stop_on_error
      /\ options.limit >= N) =>
    \A p \in Packages \ Unplaceable : outbox[p].kind = "complete" =>
      \E k \in DOMAIN listed :
        /\ listed[k] = p
        /\ IF Clashes(outbox[p], custody[p])
             THEN results[k] = "FAILED"
             ELSE results[k] = "CATALOGED" /\ catalog[p] = PrintOf[outbox[p].text]
================================================================================
