------------------------------ MODULE EpisodePublish ------------------------------
(***************************************************************************)
(* The operator command "ingest movie-broll": preflight_movie_broll looks  *)
(* at every package of a run and blocks the whole publication if one is    *)
(* not in order; then each package is handed to ingest_package, and the    *)
(* first failure ends the command.  Operators publish the same episode at  *)
(* the same time, the producer edits the run, processes are killed.        *)
(* Discovery (MbeBatch) and the ingest (PackageIngest) are coarse here.    *)
(***************************************************************************)
EXTENDS Naturals, Sequences, FiniteSets, Outbox

CONSTANTS
  Operators,
  N,           \* packages are 1..N, in the lexical order of their names
  MaxEdits,    \* bound: changes of the run's packages
  MaxFaults,   \* bound: ingest calls that fail for another reason
  MaxCommands  \* bound: commands started

ASSUME PublishAssumption ==
  N \in Nat /\ {MaxEdits, MaxFaults, MaxCommands} \subseteq Nat

VARIABLES
  run,      \* run[p]: what package p is now
  custody,  \* custody[p]: the renderings of p that are stored
  catalog,  \* catalog[p]: the fingerprint cataloged; one transaction writes
            \* the logical row and the ingest row
  pc,
  dry,      \* dry[o]: o's command is a dry run
  listed,   \* listed[o]: the packages discovered
  found,    \* found[o]: what they were then
  items,    \* items[o]: preflight's verdicts on listed[o], in order
  logical,  \* logical[o]: the first SELECT found a logical row
  seen,     \* seen[o]: what the package at hand has been since its ingest began
  counts,   \* counts[o]: how the report counts the packages handed over
  verdict,
  verified, \* history: packages whose ingest returned CATALOGED to o
  alone,    \* history: no edit, fault or other command met o's command
  edits, faults, commands

stores == <<custody, catalog>>
bounds == <<edits, faults, commands>>
vars == <<run, custody, catalog, pc, dry, listed, found, items, logical, seen, counts,
          verdict, verified, alone, edits, faults, commands>>

Packages == 1..N
Items == {"blocked", "new", "existing", "reconcile"}
Counts == {"created", "reconciled", "unchanged"}

TypeOK ==
  /\ run \in [Packages -> Contents] /\ custody \in [Packages -> Shelves]
  /\ catalog \in [Packages -> Prints \cup {None}]
  /\ pc \in [Operators -> {"idle", "check", "select ingest", "publish", "ingest", "done"}]
  /\ dry \in [Operators -> BOOLEAN] /\ logical \in [Operators -> BOOLEAN]
  /\ listed \in [Operators -> Seq(Packages)] /\ found \in [Operators -> Seq(Contents)]
  /\ items \in [Operators -> Seq(Items)] /\ counts \in [Operators -> Seq(Counts)]
  /\ seen \in [Operators -> SUBSET Contents]
  /\ verdict \in [Operators -> {"none", "PASS", "BLOCKED", "FAILED"}]
  /\ verified \in [Operators -> SUBSET Packages] /\ alone \in [Operators -> BOOLEAN]
  /\ edits \in Nat /\ faults \in Nat /\ commands \in Nat

Init ==
  /\ run \in [Packages -> First]
  /\ custody = [p \in Packages |-> [f \in Prints |-> None]]
  /\ catalog = [p \in Packages |-> None]
  /\ pc = [o \in Operators |-> "idle"] /\ dry = [o \in Operators |-> FALSE]
  /\ listed = [o \in Operators |-> <<>>] /\ found = [o \in Operators |-> <<>>]
  /\ items = [o \in Operators |-> <<>>] /\ logical = [o \in Operators |-> FALSE]
  /\ seen = [o \in Operators |-> {}] /\ counts = [o \in Operators |-> <<>>]
  /\ verdict = [o \in Operators |-> "none"]
  /\ verified = [o \in Operators |-> {}] /\ alone = [o \in Operators |-> FALSE]
  /\ edits = 0 /\ faults = 0 /\ commands = 0

--------------------------------------------------------------------------------
Goto(o, step) == pc' = [pc EXCEPT ![o] = step]
Stay(o, step) == Goto(o, step) /\ UNCHANGED verdict
Done(o, v) == Goto(o, "done") /\ verdict' = [verdict EXCEPT ![o] = v]

(* preflight_movie_broll begins with discover_mbe_packages.                *)
Discover(o) ==
  /\ pc[o] = "idle"
  /\ commands < MaxCommands
  /\ commands' = commands + 1
  /\ \E d \in BOOLEAN : dry' = [dry EXCEPT ![o] = d]
  /\ \E all \in InOrder({p \in Packages : run[p].kind # "absent"}) :
       /\ listed' = [listed EXCEPT ![o] = all]
       /\ found' = [found EXCEPT ![o] = [k \in DOMAIN all |-> run[all[k]]]]
  /\ alone' = [j \in Operators |-> IF j = o THEN \A k \in Operators : pc[k] \in {"idle", "done"}
                                   ELSE alone[j] /\ pc[j] \in {"idle", "done"}]
  /\ Stay(o, "check")
  /\ UNCHANGED <<run, stores, items, logical, seen, counts, verified, edits, faults>>

Checked(o) == listed[o][Len(items[o]) + 1]
Item(o, item) == items' = [items EXCEPT ![o] = Append(@, item)]

(* The metadata is the one discovery parsed; readiness, hashes and probe   *)
(* look at the files of now, which may still fit it or not.                *)
Passes(o) ==
  LET then == found[o][Len(items[o]) + 1]
      now  == run[Checked(o)]
  IN  IF now = then THEN {then.kind = "complete"}
      ELSE {FALSE} \cup {/\ Discovered(then.kind, then.kind) = "READY"
                         /\ now.kind \notin {"absent", "incomplete"}}

CheckItem(o) ==
  /\ pc[o] = "check" /\ Len(items[o]) < Len(listed[o])
  /\ \/ /\ FALSE \in Passes(o)
        /\ Item(o, "blocked")
        /\ Stay(o, "check") /\ UNCHANGED logical
     \/ /\ TRUE \in Passes(o)
        /\ logical' = [logical EXCEPT ![o] = catalog[Checked(o)] # None]
        /\ Stay(o, "select ingest") /\ UNCHANGED items
  /\ UNCHANGED <<run, stores, dry, listed, found, seen, counts, verified, alone>>
  /\ UNCHANGED bounds

(* _existing_state: the second SELECT of the same session, READ COMMITTED. *)
SelectIngest(o) ==
  /\ pc[o] = "select ingest"
  /\ LET ingest == catalog[Checked(o)] # None
     IN  Item(o, IF logical[o] /\ ingest THEN "existing"
                 ELSE IF logical[o] \/ ingest THEN "reconcile" ELSE "new")
  /\ Stay(o, "check")
  /\ UNCHANGED <<run, stores, dry, listed, found, logical, seen, counts, verified, alone>>
  /\ UNCHANGED bounds

Blocked(o) == {k \in DOMAIN items[o] : items[o][k] = "blocked"}

(* Mutant: a run is published if anything in it is eligible.               *)
GateOnAny(o) ==
  /\ pc[o] = "check" /\ Len(items[o]) = Len(listed[o])
  /\ IF Blocked(o) = DOMAIN items[o] THEN Done(o, "BLOCKED")
     ELSE IF dry[o] THEN Done(o, "PASS") ELSE Stay(o, "publish")
  /\ UNCHANGED <<run, stores, dry, listed, found, items, logical, seen, counts, verified, alone>>
  /\ UNCHANGED bounds

Gate(o) ==
  /\ pc[o] = "check" /\ Len(items[o]) = Len(listed[o])
  /\ IF Blocked(o) # {} THEN Done(o, "BLOCKED")
     ELSE IF dry[o] THEN Done(o, "PASS") ELSE Stay(o, "publish")
  /\ UNCHANGED <<run, stores, dry, listed, found, items, logical, seen, counts, verified, alone>>
  /\ UNCHANGED bounds

Published(o) == listed[o][Len(counts[o]) + 1]
Count(o, c) == counts' = [counts EXCEPT ![o] = Append(@, c)]

CallIngest(o) ==
  /\ pc[o] = "publish"
  /\ IF Len(counts[o]) < Len(listed[o])
       THEN seen' = [seen EXCEPT ![o] = {run[Published(o)]}] /\ Stay(o, "ingest")
       ELSE Done(o, "PASS") /\ UNCHANGED seen
  /\ UNCHANGED <<run, stores, dry, listed, found, items, logical, counts, verified, alone>>
  /\ UNCHANGED bounds

Shelf(o) == custody[Published(o)]
Versions(o) == Stored(seen[o], Shelf(o))
Shelve(o, v) == custody' = [custody EXCEPT ![Published(o)][v.print] = v.text]
Enter(o, v)  == catalog' = [catalog EXCEPT ![Published(o)] = v.print]

(* What a failing ingest leaves: nothing, the package in custody, or that  *)
(* and its catalog entry.                                                  *)
Leaves(o) ==
  \/ UNCHANGED stores
  \/ \E v \in Versions(o) : Shelve(o, v) /\ (Enter(o, v) \/ UNCHANGED catalog)

(* Mutant: package_changed is not consulted.                               *)
CountAsNew(old, new) == IF old = new THEN "unchanged" ELSE "created"
CountOf(old, new) ==
  IF old = None THEN "created" ELSE IF old # new THEN "reconciled" ELSE "unchanged"

(* NOT_READY is not looked at: nothing was created or changed.  When the  *)
(* package changed, verification may find what another operator committed. *)
IngestReturns(o) ==
  /\ pc[o] = "ingest"
  /\ \/ \E v \in Versions(o) :
          /\ Shelve(o, v) /\ Enter(o, v)
          /\ Count(o, CountOf(catalog[Published(o)], v.print))
          /\ verified' = [verified EXCEPT ![o] = @ \cup {Published(o)}]
          /\ Stay(o, "publish")
     \/ /\ Unready(seen[o])
        /\ Count(o, "unchanged") /\ Stay(o, "publish")
        /\ UNCHANGED stores /\ UNCHANGED verified
     \/ /\ Raises(seen[o], Shelf(o))
        /\ UNCHANGED stores \/ (Changed(seen[o]) /\ Leaves(o))
        /\ Done(o, "FAILED") /\ UNCHANGED <<counts, verified>>
  /\ seen' = [seen EXCEPT ![o] = {}]
  /\ UNCHANGED <<run, dry, listed, found, items, logical, alone>>
  /\ UNCHANGED bounds

(* Storage or database fail the call at any step.                          *)
IngestFails(o) ==
  /\ pc[o] = "ingest"
  /\ faults < MaxFaults
  /\ faults' = faults + 1
  /\ alone' = [alone EXCEPT ![o] = FALSE]
  /\ Leaves(o)
  /\ Done(o, "FAILED")
  /\ seen' = [seen EXCEPT ![o] = {}]
  /\ UNCHANGED <<run, dry, listed, found, items, logical, counts, verified,
                 edits, commands>>

(* The command ends, or is killed in the middle.                           *)
Exit(o) ==
  /\ pc[o] # "idle"
  /\ Goto(o, "idle") /\ verdict' = [verdict EXCEPT ![o] = "none"]
  /\ listed' = [listed EXCEPT ![o] = <<>>] /\ found' = [found EXCEPT ![o] = <<>>]
  /\ items' = [items EXCEPT ![o] = <<>>] /\ counts' = [counts EXCEPT ![o] = <<>>]
  /\ verified' = [verified EXCEPT ![o] = {}] /\ seen' = [seen EXCEPT ![o] = {}]
  /\ UNCHANGED <<run, stores, dry, logical, alone>>
  /\ UNCHANGED bounds

EditRun ==
  /\ edits < MaxEdits
  /\ edits' = edits + 1
  /\ \E p \in Packages, c \in Outputs :
       /\ run' = [run EXCEPT ![p] = c]
       /\ seen' = [o \in Operators |->
                    IF pc[o] = "ingest" /\ Published(o) = p THEN seen[o] \cup {c} ELSE seen[o]]
  /\ alone' = [o \in Operators |-> FALSE]
  /\ UNCHANGED <<stores, pc, dry, listed, found, items, logical, counts,
                 verdict, verified, faults, commands>>

Step(o) ==
  \/ CheckItem(o) \/ SelectIngest(o) \/ Gate(o) \/ CallIngest(o)
  \/ IngestReturns(o) \/ IngestFails(o)

Next == EditRun \/ \E o \in Operators : Discover(o) \/ Step(o) \/ Exit(o)

Spec == Init /\ [][Next]_vars

--------------------------------------------------------------------------------
(* Properties.                                                             *)

(* Nothing of a run is published unless preflight has been through all of  *)
(* it and blocked none of it, and the catalog names no fingerprint that    *)
(* custody does not hold.  Every variable keeps its type.                  *)
GateHolds ==
  /\ TypeOK
  /\ \A p \in Packages : catalog[p] # None => custody[p][catalog[p]] # None
  /\ \A o \in Operators :
       (pc[o] \in {"publish", "ingest"} \/ counts[o] # <<>>) =>
         /\ Len(items[o]) = Len(listed[o]) /\ Blocked(o) = {} /\ ~dry[o]

(* A publication that nothing disturbs is blocked exactly when some        *)
(* package is not in order.  It catalogs the packages in turn, whatever    *)
(* earlier commands left half done, and passes, unless it comes to one     *)
(* whose fingerprint is in custody with another rendering of its JSON:     *)
(* then and only then it fails.                                            *)
CleanPublishCatalogs ==
  \A o \in Operators :
    (pc[o] = "done" /\ alone[o] /\ ~dry[o]) =>
      LET content(k) == run[listed[o][k]]
          clashing == {k \in DOMAIN listed[o] : Clashes(content(k), custody[listed[o][k]])}
      IN  IF \E k \in DOMAIN listed[o] : content(k).kind # "complete"
            THEN verdict[o] = "BLOCKED"
            ELSE /\ verdict[o] = IF clashing = {} THEN "PASS" ELSE "FAILED"
                 /\ \A k \in DOMAIN listed[o] :
                      (\A j \in clashing : k < j) =>
                        catalog[listed[o][k]] = PrintOf[content(k).text]

(* What preflight announced as new, and nothing else, is then reported as  *)
(* created.                                                                *)
PreflightPredicts ==
  \A o \in Operators :
    (verdict[o] = "PASS" /\ alone[o] /\ ~dry[o]) =>
      \A k \in DOMAIN counts[o] :
        /\ items[o][k] # "reconcile"
        /\ counts[o][k] = "created" <=> items[o][k] = "new"

(* The comment in ingest_movie_broll_command: every item has been through  *)
(* the established source, storage, catalog and fresh verification         *)
(* sequence when the verdict is PASS.                                      *)
PassIsVerified ==
  \A o \in Operators :
    (verdict[o] = "PASS" /\ ~dry[o]) =>
      {listed[o][k] : k \in DOMAIN listed[o]} = verified[o]
================================================================================
