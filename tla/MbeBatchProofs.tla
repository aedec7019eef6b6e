----------------------------- MODULE MbeBatchProofs -----------------------------
(***************************************************************************)
(* Machine-checked proofs about MbeBatch, for an outbox of any size, any   *)
(* limits and any bounds: the summary is true, the selection is the first  *)
(* READY packages, and a clean batch catalogs all that can be cataloged,   *)
(* which is all but what clashes with a rendering in custody.              *)
(***************************************************************************)
EXTENDS MbeBatch, FiniteSetTheorems, SequenceTheorems, TLAPS

USE BatchAssumption, OutboxAssumption

Failures == {"FAILED", "PLACEMENT_FAILED"}
Reported == 1..Len(results)

(* One package is being ingested, and is not reported yet.                 *)
Pending == IF pc = "ingest" THEN {At} ELSE {}

Shape ==
  /\ Len(listed) <= N
  /\ pc \in {"read", "inspect"} =>
       results = <<>> /\ called = <<>> /\ selected = 0 /\ halted = FALSE
  /\ pc = "inspect" => Len(found) < Len(listed)
  /\ pc = "done" => Len(results) = Len(listed)
  /\ pc = "ingest" => /\ ~halted /\ found[At] = "READY"
                      /\ ~options.dry_run /\ listed[At] \notin Unplaceable

(* Who was handed over, in order.                                          *)
Calls ==
  /\ {called[c] : c \in DOMAIN called} = {listed[k] : k \in Places(Attempts) \cup Pending}
  /\ Ordered(called)
  /\ options.dry_run => called = <<>>

(* What is reported of a package follows from what discovery found, and    *)
(* from what became of it.                                                 *)
Reports ==
  /\ \A k \in Reported : found[k] = "READY" => results[k] \in Selected \cup {"READY"}
  /\ \A k \in Reported : found[k] # "READY" => results[k] \in {"NOT_READY", "INVALID"}
  /\ \A k \in Places({"CATALOGED"}) : catalog[listed[k]] # None
  /\ {p \in Packages : catalog[p] # known[p]}
       \subseteq {listed[k] : k \in Places({"CATALOGED", "FAILED"})}

(* The selection so far: a READY package is left out only when the limit   *)
(* is reached or a failure has ended the batch, and then for good.         *)
LeftOut == \E j \in Reported : found[j] = "READY" /\ results[j] = "READY"

Chosen ==
  /\ halted <=> (options.stop_on_error /\ Places(Failures) # {})
  /\ options.stop_on_error =>
       \A k \in Places(Failures), j \in Reported : (j > k) => results[j] \notin Selected
  /\ \A k \in Places(Selected), j \in Reported :
       (j < k /\ found[j] = "READY") => results[j] \in Selected
  /\ LeftOut => ~Open /\ pc # "ingest"
  /\ selected = Cardinality(Places(Selected) \cup Pending) /\ selected <= options.limit

(* What a batch over an outbox that nobody changes is sure of.             *)
AsItShould(k) ==
  LET p == listed[k]
  IN  IF Clashes(outbox[p], custody[p])
        THEN results[k] = "FAILED"
        ELSE results[k] = "CATALOGED" /\ catalog[p] = PrintOf[outbox[p].text]

Due(k) == outbox[listed[k]].kind = "complete" /\ listed[k] \notin Unplaceable

Quiet ==
  /\ \A p \in Packages : outbox[p].kind # "absent" => \E k \in 1..Len(listed) : listed[k] = p
  /\ \A k \in 1..Len(found) : outbox[listed[k]].kind = "complete" => found[k] = "READY"
  /\ pc = "inspect" => before = outbox[listed[Len(found) + 1]].kind
  /\ pc = "ingest" => seen = {outbox[listed[At]]}
  /\ (~options.dry_run /\ ~options.stop_on_error /\ options.limit >= N) =>
       \A k \in Reported : Due(k) => AsItShould(k)

BatchInv == TypeOK /\ (pc # "start" => Shape /\ Calls /\ Reports /\ Chosen /\ (clean => Quiet))

---------------------------------------------------------------------------------
(* The one listing of a directory: rising, complete, no longer than it.    *)
LEMMA ListingIs ==
  ASSUME NEW S \in SUBSET Packages, NEW all \in InOrder(S)
  PROVE  /\ all \in Seq(Packages) /\ Ordered(all) /\ Len(all) <= N
         /\ \A p \in S : \E k \in 1..Len(all) : all[k] = p
         /\ \A k \in 1..Len(all) : all[k] \in S
<1>1. IsFiniteSet(Packages) /\ Cardinality(Packages) <= N
  <2>1. 1 \in Int /\ N \in Int
    OBVIOUS
  <2>2. IsFiniteSet(1..N)
    BY <2>1, FS_Interval, Zenon
  <2>3. Cardinality(1..N) = IF 1 > N THEN 0 ELSE N - 1 + 1
    BY <2>1, FS_Interval, Zenon
  <2>4. (IF 1 > N THEN 0 ELSE N - 1 + 1) <= N
    OBVIOUS
  <2> QED  BY <2>2, <2>3, <2>4 DEF Packages
<1>2. IsFiniteSet(S) /\ Cardinality(S) \in Nat /\ Cardinality(S) <= Cardinality(Packages)
  BY <1>1, FS_Subset, FS_CardinalityType
<1>3. /\ all \in [1..Cardinality(S) -> S] /\ Ordered(all)
  BY DEF InOrder, Ordered
<1>4. all \in Seq(Packages) /\ Len(all) = Cardinality(S)
  BY <1>2, <1>3
<1>5. Len(all) <= N
  <2>1. Cardinality(Packages) \in Nat
    BY <1>1, FS_CardinalityType
  <2> QED  BY <1>1, <1>2, <1>4, <2>1
<1>6. all \in Injection(1..Cardinality(S), S)
  <2>1. ASSUME NEW a \in 1..Cardinality(S), NEW b \in 1..Cardinality(S), a < b
        PROVE  all[a] # all[b]
    <3>1. all[a] < all[b]
      BY <1>3, <2>1 DEF Ordered
    <3>2. all[a] \in S /\ all[b] \in S
      BY <1>3
    <3>3. \A p \in S : p \in Nat
      BY DEF Packages
    <3>4. all[a] \in Nat /\ all[b] \in Nat
      BY <3>2, <3>3
    <3> QED  BY <3>1, <3>4
  <2>2. \A a, b \in 1..Cardinality(S) : a # b => a < b \/ b < a
    BY <1>2
  <2>3. \A a, b \in 1..Cardinality(S) : all[a] = all[b] => a = b
    BY <2>1, <2>2
  <2> QED  BY <1>3, <2>3 DEF Injection, IsInjective
<1>7. all \in Surjection(1..Cardinality(S), S)
  <2>1. Cardinality(1..Cardinality(S)) = Cardinality(S)
    BY <1>2, FS_Interval
  <2> QED  BY <1>2, <1>6, <2>1, FS_Injection
<1>8. \A p \in S : \E k \in 1..Len(all) : all[k] = p
  BY <1>4, <1>7 DEF Surjection
<1> QED  BY <1>3, <1>4, <1>5, <1>8

(* What the sequences of a batch are.                                      *)
LEMMA Seqs ==
  ASSUME TypeOK
  PROVE  /\ Len(listed) \in Nat /\ Len(found) \in Nat /\ Len(results) \in Nat
         /\ Len(called) \in Nat
         /\ DOMAIN listed = 1..Len(listed) /\ DOMAIN results = 1..Len(results)
         /\ DOMAIN called = 1..Len(called) /\ DOMAIN found = 1..Len(found)
         /\ \A k \in 1..Len(listed) : listed[k] \in Packages
         /\ \A k \in 1..Len(found) : found[k] \in {"READY", "NOT_READY", "INVALID"}
         /\ \A k \in 1..Len(results) : results[k] \in Statuses
         /\ \A k \in 1..Len(called) : called[k] \in Packages
  BY LenProperties, ElementOfSeq DEF TypeOK

(* The initial states.                                                     *)
LEMMA InitInv == Init => BatchInv
<1> SUFFICES ASSUME Init PROVE BatchInv
  OBVIOUS
<1> USE DEF Init
<1>1. /\ listed \in Seq(Packages) /\ called \in Seq(Packages) /\ results \in Seq(Statuses)
      /\ found \in Seq({"READY", "NOT_READY", "INVALID"})
  BY EmptySeq
<1>2. Len(listed) = 0 /\ Len(found) = 0 /\ Len(results) = 0
  BY EmptySeq
<1>3. Ordered(listed)
  <2>1. DOMAIN listed = {}
    BY EmptySeq
  <2> QED  BY <2>1 DEF Ordered
<1>4. outbox \in [Packages -> Contents] /\ before \in Kinds /\ seen \subseteq Contents
  BY DEF Kinds
<1>5. /\ selected \in Nat /\ halted \in BOOLEAN /\ clean \in BOOLEAN /\ options \in Options
      /\ custody \in [Packages -> Shelves] /\ catalog \in [Packages -> Prints \cup {None}]
      /\ known \in [Packages -> Prints \cup {None}] /\ pc = "start"
  BY DEF Shelves
<1>6. TypeOK
  BY <1>1, <1>2, <1>3, <1>4, <1>5 DEF TypeOK
<1> QED  BY <1>5, <1>6 DEF BatchInv

(* The package at hand.                                                    *)
LEMMA AtIs ==
  ASSUME TypeOK
  PROVE  /\ At \in Nat /\ At = Len(results) + 1 /\ At \notin Reported
         /\ \A k \in Reported : k \in Nat /\ k < At
         /\ At <= Len(listed) => At \in 1..Len(listed) /\ listed[At] \in Packages
         /\ pc \in {"select", "ingest"} /\ At <= Len(listed) => At \in 1..Len(found)
         /\ pc = "ingest" => At <= Len(listed)
<1>1. At \in Nat /\ At = Len(results) + 1 /\ At \notin Reported
      /\ \A k \in Reported : k \in Nat /\ k < At
  BY Seqs DEF At, Reported
<1>2. At <= Len(listed) => At \in 1..Len(listed)
  BY Seqs DEF At
<1>3. pc \in {"select", "ingest"} => Len(found) = Len(listed)
  BY DEF TypeOK
<1>4. pc = "ingest" => At <= Len(listed)
  <2>1. pc = "ingest" => Len(results) < Len(listed)
    BY DEF TypeOK
  <2> QED  BY <2>1, Seqs DEF At
<1> QED  BY <1>1, <1>2, <1>3, <1>4, Seqs

(* What a report does to the results.                                      *)
LEMMA ReportIs ==
  ASSUME TypeOK, NEW status \in Statuses, Report(status)
  PROVE  /\ results' \in Seq(Statuses) /\ Len(results') = At
         /\ Reported' = Reported \cup {At} /\ results'[At] = status
         /\ \A k \in Reported : results'[k] = results[k]
         /\ \A T : Places(T)' = Places(T) \cup (IF status \in T THEN {At} ELSE {})
<1>0. results \in Seq(Statuses) /\ results' = Append(results, status)
  BY DEF TypeOK, Report
<1>1. /\ results' \in Seq(Statuses) /\ Len(results') = At
      /\ \A k \in Reported : results'[k] = results[k] /\ results'[At] = status
      /\ results'[At] = status
  BY <1>0, AppendProperties DEF At, Reported
<1>2. Reported' = Reported \cup {At}
  BY <1>1, Seqs DEF Reported, At
<1>3. DOMAIN results = Reported /\ DOMAIN results' = Reported'
  BY <1>1, Seqs, LenProperties DEF Reported
<1>4. At \notin Reported
  BY AtIs
<1>5. ASSUME NEW T PROVE Places(T)' = Places(T) \cup (IF status \in T THEN {At} ELSE {})
  BY <1>1, <1>2, <1>3, <1>4, Zenon DEF Places
<1> QED  BY <1>1, <1>2, <1>5

(* The steps that report a package, and what each of them does.            *)
Reporting == PassOver \/ ResolveFails \/ DryRun \/ IngestReturns \/ IngestFails

NotReady(status) ==
  /\ pc = "select" /\ found[At] # "READY" /\ status = found[At]
  /\ UNCHANGED <<stores, selected, halted>>
LeaveOut(status) ==
  /\ pc = "select" /\ found[At] = "READY" /\ ~Open /\ status = "READY"
  /\ UNCHANGED <<stores, selected, halted>>
Choose(status) ==
  /\ pc = "select" /\ found[At] = "READY" /\ Open
  /\ selected' = selected + 1 /\ UNCHANGED stores
  /\ \/ status = "PLACEMENT_FAILED" /\ listed[At] \in Unplaceable /\ Halt(status)
     \/ status = "DRY_RUN" /\ options.dry_run /\ UNCHANGED halted
Puts(v, status) ==
  Shelve(v) /\ (Enter(v) \/ UNCHANGED catalog) /\ (status = "CATALOGED" => Enter(v))
Attempt(status) ==
  /\ pc = "ingest" /\ status \in Attempts /\ UNCHANGED selected /\ Halt(status)
  /\ \/ UNCHANGED stores /\ status # "CATALOGED"
     \/ status # "INGEST_NOT_READY" /\ \E v \in Versions : Puts(v, status)
  /\ clean' => \/ status = "CATALOGED"
               \/ status = "INGEST_NOT_READY" /\ Unready(seen)
               \/ status = "FAILED" /\ Raises(seen, custody[listed[At]]) /\ UNCHANGED stores

Told(status) ==
  /\ Report(status) /\ pc' = "select" /\ pc \in {"select", "ingest"} /\ At <= Len(listed)
  /\ UNCHANGED <<outbox, options, listed, found, before, known, called>>
  /\ seen' \in {seen, {}}
  /\ clean' \in BOOLEAN /\ (clean' => clean)
  /\ NotReady(status) \/ LeaveOut(status) \/ Choose(status) \/ Attempt(status)

(* A version that is taken into custody is one of the package, and fits.   *)
LEMMA VersionIs ==
  ASSUME NEW c \in SUBSET Contents, NEW shelf, NEW v \in Stored(c, shelf)
  PROVE  v.print \in Prints /\ v.text \in Texts /\ Accepts(shelf, v)
<1> DEFINE S == {b \in c : Sound(b)}
<1>1. /\ v \in [print : {PrintOf[b.text] : b \in S}, text : Copied(c)]
      /\ Accepts(shelf, v)
  BY DEF Stored
<1>2. \A b \in S : b.text \in Texts
  BY DEF Sound, Contents, Kinds
<1>3. v.print \in Prints
  BY <1>1, <1>2 DEF Prints
<1>4. v.text \in Texts
  <2>1. CASE Changed(c)
    BY <1>1, <2>1 DEF Copied
  <2>2. CASE ~Changed(c)
    <3>1. PICK b \in S : v.print = PrintOf[b.text]
      BY <1>1
    <3>2. PICK d \in c : v.text = d.text
      BY <1>1, <2>2 DEF Copied
    <3>3. d = b
      BY <2>2, <3>1, <3>2 DEF Changed
    <3> QED  BY <1>2, <3>1, <3>2, <3>3
  <2> QED  BY <2>1, <2>2
<1> QED  BY <1>1, <1>3, <1>4

(* What the ingest of a sound package does that nobody changes.            *)
LEMMA UnchangedIs ==
  ASSUME NEW c \in Contents, NEW shelf, c.kind = "complete"
  PROVE  /\ ~Unready({c})
         /\ Raises({c}, shelf) <=> Clashes(c, shelf)
         /\ \A v \in Stored({c}, shelf) :
              v.print = PrintOf[c.text] /\ v.text = c.text /\ ~Clashes(c, shelf)
<1>1. ~Changed({c})
  BY DEF Changed
<1>2. Raises({c}, shelf) <=> Clashes(c, shelf)
  BY <1>1 DEF Raises, Accepts, Clashes, Sound
<1>3. ~Unready({c})
  BY <1>1 DEF Unready
<1>4. ASSUME NEW v \in Stored({c}, shelf)
      PROVE  v.print = PrintOf[c.text] /\ v.text = c.text /\ ~Clashes(c, shelf)
  <2>1. v \in [print : {PrintOf[b.text] : b \in {d \in {c} : Sound(d)}}, text : Copied({c})]
        /\ Accepts(shelf, v)
    BY DEF Stored
  <2>2. v.print = PrintOf[c.text]
    BY <2>1
  <2>3. v.text = c.text
    BY <1>1, <2>1 DEF Copied
  <2> QED  BY <2>1, <2>2, <2>3 DEF Accepts, Clashes
<1> QED  BY <1>2, <1>3, <1>4

(* What a report does to custody and catalog, which hold other packages    *)
(* than the one at hand as before.                                         *)
LEMMA StoresAre ==
  ASSUME TypeOK, NEW status \in Statuses, Told(status)
  PROVE  /\ custody' \in [Packages -> Shelves] /\ catalog' \in [Packages -> Prints \cup {None}]
         /\ \A p \in Packages \ {listed[At]} : custody'[p] = custody[p] /\ catalog'[p] = catalog[p]
<1>1. CASE UNCHANGED stores
  BY <1>1 DEF stores, TypeOK
<1>2. ASSUME NEW v \in Versions, Shelve(v), Enter(v) \/ UNCHANGED catalog
      PROVE  /\ custody' \in [Packages -> Shelves] /\ catalog' \in [Packages -> Prints \cup {None}]
             /\ \A p \in Packages \ {listed[At]} :
                  custody'[p] = custody[p] /\ catalog'[p] = catalog[p]
  <2>1. v.print \in Prints /\ v.text \in Texts /\ listed[At] \in Packages
    BY VersionIs, AtIs DEF Versions, Told, TypeOK
  <2>2. custody \in [Packages -> Shelves] /\ catalog \in [Packages -> Prints \cup {None}]
    BY DEF TypeOK
  <2>3. [custody[listed[At]] EXCEPT ![v.print] = v.text] \in Shelves
    BY <2>1, <2>2 DEF Shelves
  <2>4. custody' = [custody EXCEPT ![listed[At]] =
                      [custody[listed[At]] EXCEPT ![v.print] = v.text]]
    BY <1>2 DEF Shelve
  <2> QED  BY <1>2, <2>1, <2>2, <2>3, <2>4 DEF Enter
<1>3. ASSUME Attempt(status)
      PROVE  UNCHANGED stores \/ \E v \in Versions : Shelve(v) /\ (Enter(v) \/ UNCHANGED catalog)
  <2>1. UNCHANGED stores \/ \E v \in Versions : Puts(v, status)
    BY <1>3 DEF Attempt
  <2> QED  BY <2>1 DEF Puts
<1>4. NotReady(status) \/ LeaveOut(status) \/ Choose(status) => UNCHANGED stores
  BY DEF NotReady, LeaveOut, Choose
<1> QED  BY <1>1, <1>2, <1>3, <1>4 DEF Told

(* Each of them is one report.                                             *)
LEMMA ReportStep ==
  ASSUME BatchInv, Reporting
  PROVE  \E status \in Statuses : Told(status)
<1>0. TypeOK
  BY DEF BatchInv
<1>b. clean \in BOOLEAN
  BY <1>0 DEF TypeOK
<1> USE <1>b DEF discovery, progress, bounds, Told
<1>1. CASE PassOver
  <2>1. At \in 1..Len(found) /\ At <= Len(listed)
    BY <1>0, <1>1, AtIs DEF PassOver
  <2>2. found[At] \in Statuses /\ "READY" \in Statuses
    BY <1>0, <2>1, Seqs DEF Statuses
  <2>3. found[At] # "READY" /\ Report(found[At]) => Told(found[At])
    BY <1>1, <2>1, <2>2 DEF PassOver, NotReady
  <2>4. found[At] = "READY" /\ ~Open /\ Report("READY") => Told("READY")
    BY <1>1, <2>1 DEF PassOver, LeaveOut
  <2> QED  BY <1>1, <2>2, <2>3, <2>4 DEF PassOver
<1>2. CASE ResolveFails
  <2>1. "PLACEMENT_FAILED" \in Statuses
    BY DEF Statuses, Selected
  <2> QED  BY <1>2, <2>1 DEF ResolveFails, InSelection, Choose
<1>3. CASE DryRun
  <2>1. "DRY_RUN" \in Statuses
    BY DEF Statuses, Selected
  <2> QED  BY <1>3, <2>1 DEF DryRun, InSelection, Choose
<1>4. CASE IngestReturns
  <2>1. PICK outcome \in {"CATALOGED", "NOT_READY", "raised"} :
          Ends(outcome) /\ Report(Status(outcome)) /\ Halt(Status(outcome))
    BY <1>4 DEF IngestReturns
  <2>2. Status(outcome) \in Attempts /\ Status(outcome) \in Statuses
    BY DEF Status, Attempts, Statuses, Selected
  <2>3. At <= Len(listed)
    BY <1>0, <1>4, AtIs DEF IngestReturns
  <2>4. Attempt(Status(outcome))
    <3>1. CASE outcome = "CATALOGED"
      BY <1>4, <2>1, <2>2, <3>1 DEF IngestReturns, Attempt, Puts, Ends, Status
    <3>2. CASE outcome = "NOT_READY"
      BY <1>4, <2>1, <2>2, <3>2 DEF IngestReturns, Attempt, Puts, Ends, Status
    <3>3. CASE outcome = "raised"
      BY <1>4, <2>1, <2>2, <3>3 DEF IngestReturns, Attempt, Puts, Ends, Status
    <3> QED  BY <3>1, <3>2, <3>3
  <2> QED  BY <1>4, <2>1, <2>2, <2>3, <2>4 DEF IngestReturns
<1>5. CASE IngestFails
  <2>1. "FAILED" \in Statuses /\ "FAILED" \in Attempts
    BY DEF Statuses, Selected, Attempts
  <2>2. At <= Len(listed)
    BY <1>0, <1>5, AtIs DEF IngestFails
  <2>3. Attempt("FAILED") /\ ~clean'
    BY <1>5, <2>1 DEF IngestFails, Attempt, Puts
  <2> QED  BY <1>5, <2>1, <2>2, <2>3 DEF IngestFails
<1> QED  BY <1>1, <1>2, <1>3, <1>4, <1>5 DEF Reporting

(* The statuses of a report, by the step that makes it.                    *)
LEMMA StatusIs ==
  ASSUME TypeOK, NEW status \in Statuses, Told(status)
  PROVE  /\ NotReady(status) => status \in {"NOT_READY", "INVALID"}
         /\ LeaveOut(status) => status = "READY"
         /\ Choose(status) => status \in {"PLACEMENT_FAILED", "DRY_RUN"}
         /\ Attempt(status) => status \in Attempts
<1>1. At \in 1..Len(found)
  BY AtIs DEF Told
<1>2. found[At] \in {"READY", "NOT_READY", "INVALID"}
  BY <1>1, Seqs
<1> QED  BY <1>2 DEF NotReady, LeaveOut, Choose, Attempt

(* A report keeps the types.                                               *)
LEMMA ReportTypes ==
  ASSUME TypeOK, NEW status \in Statuses, Told(status)
  PROVE  TypeOK'
<1>1. results' \in Seq(Statuses) /\ Len(results') = At
  BY ReportIs DEF Told
<1>2. Len(results') <= Len(found')
  <2>1. Len(found) = Len(listed)
    BY DEF TypeOK, Told
  <2> QED  BY <1>1, <2>1 DEF Told
<1>3. custody' \in [Packages -> Shelves] /\ catalog' \in [Packages -> Prints \cup {None}]
  BY StoresAre
<1>4. selected' \in Nat
  BY DEF TypeOK, Told, NotReady, LeaveOut, Choose, Attempt
<1>5. halted' \in BOOLEAN
  BY DEF TypeOK, Told, NotReady, LeaveOut, Choose, Attempt, Halt
<1>6. /\ Len(found') = Len(listed') /\ Len(found') <= Len(listed') /\ Ordered(listed')
      /\ outbox' \in [Packages -> Contents] /\ options' \in Options /\ before' \in Kinds
      /\ seen' \subseteq Contents
      /\ listed' \in Seq(Packages) /\ found' \in Seq({"READY", "NOT_READY", "INVALID"})
      /\ called' \in Seq(Packages) /\ known' \in [Packages -> Prints \cup {None}]
  BY DEF TypeOK, Told, Ordered
<1>7. pc' = "select" /\ clean' \in BOOLEAN
  BY DEF Told
<1> QED  BY <1>1, <1>2, <1>3, <1>4, <1>5, <1>6, <1>7 DEF TypeOK, Ordered

(* A report moves the pending package to the attempts.                     *)
LEMMA ReportCalls ==
  ASSUME TypeOK, Calls, NEW status \in Statuses, Told(status)
  PROVE  Calls'
<1>1. Places(Attempts)' = Places(Attempts) \cup (IF status \in Attempts THEN {At} ELSE {})
  BY ReportIs DEF Told
<1>2. Pending' = {}
  BY DEF Pending, Told
<1>3. status \in Attempts <=> pc = "ingest"
  BY StatusIs DEF Told, NotReady, LeaveOut, Choose, Attempt, Attempts
<1>4. Places(Attempts)' \cup Pending' = Places(Attempts) \cup Pending
  BY <1>1, <1>2, <1>3 DEF Pending
<1>5. called' = called /\ listed' = listed /\ options' = options
  BY DEF Told
<1> QED  BY <1>4, <1>5 DEF Calls, Ordered

(* What is reported is so.                                                 *)
LEMMA ReportReports ==
  ASSUME TypeOK, Shape, Reports, NEW status \in Statuses, Told(status)
  PROVE  Reports'
<1>0. /\ Reported' = Reported \cup {At} /\ results'[At] = status
      /\ \A k \in Reported : results'[k] = results[k]
      /\ \A T : Places(T)' = Places(T) \cup (IF status \in T THEN {At} ELSE {})
  BY ReportIs DEF Told
<1>1. found' = found /\ listed' = listed /\ known' = known
  BY DEF Told
<1>2. /\ found[At] = "READY" => status \in Selected \cup {"READY"}
      /\ found[At] # "READY" => status \in {"NOT_READY", "INVALID"}
  BY StatusIs DEF Told, NotReady, LeaveOut, Choose, Attempt, Shape, Selected
<1>3. /\ \A k \in Reported' : found'[k] = "READY" => results'[k] \in Selected \cup {"READY"}
      /\ \A k \in Reported' : found'[k] # "READY" => results'[k] \in {"NOT_READY", "INVALID"}
  BY <1>0, <1>1, <1>2 DEF Reports
<1>4. catalog' # catalog \/ status = "CATALOGED" =>
        /\ status \in {"CATALOGED", "FAILED"}
        /\ \E v \in Versions : Enter(v) \/ (UNCHANGED catalog /\ status # "CATALOGED")
  <2>1. NotReady(status) \/ LeaveOut(status) \/ Choose(status) =>
          catalog' = catalog /\ status # "CATALOGED"
    BY StatusIs DEF NotReady, LeaveOut, Choose, stores
  <2>2. Attempt(status) => status \in {"CATALOGED", "INGEST_NOT_READY", "FAILED"}
    BY DEF Attempt, Attempts
  <2>3. ASSUME Attempt(status)
        PROVE  \/ catalog' = catalog /\ status # "CATALOGED"
               \/ /\ status # "INGEST_NOT_READY"
                  /\ \E v \in Versions : Enter(v) \/ (UNCHANGED catalog /\ status # "CATALOGED")
    <3>1. \/ UNCHANGED stores /\ status # "CATALOGED"
          \/ status # "INGEST_NOT_READY" /\ \E v \in Versions : Puts(v, status)
      BY <2>3 DEF Attempt
    <3>2. \A v \in Versions : Puts(v, status) =>
            Enter(v) \/ (UNCHANGED catalog /\ status # "CATALOGED")
      BY DEF Puts
    <3> QED  BY <3>1, <3>2 DEF stores
  <2> QED  BY <2>1, <2>2, <2>3 DEF Told
<1>5. listed[At] \in Packages /\ catalog \in [Packages -> Prints \cup {None}]
  BY AtIs DEF TypeOK, Told
<1>6. catalog' # catalog \/ status = "CATALOGED" =>
        status \in {"CATALOGED", "FAILED"} /\ (catalog' = catalog \/ catalog'[listed[At]] # None)
  <2>1. \A v \in Versions : Enter(v) => catalog'[listed[At]] # None
    BY <1>5, VersionIs DEF Versions, Enter, TypeOK
  <2> QED  BY <1>4, <2>1
<1>7. status = "CATALOGED" => catalog'[listed[At]] # None
  <2>1. \A v \in Versions : Enter(v) => catalog'[listed[At]] # None
    BY <1>5, VersionIs DEF Versions, Enter, TypeOK
  <2> QED  BY <1>4, <2>1
<1>8. \A p \in Packages : catalog[p] # None => catalog'[p] # None
  BY <1>6, StoresAre
<1>9. \A k \in Places({"CATALOGED"}) : listed[k] \in Packages
  BY Seqs DEF Places, TypeOK
<1>10. \A k \in Places({"CATALOGED"})' : catalog'[listed'[k]] # None
  BY <1>0, <1>1, <1>7, <1>8, <1>9 DEF Reports
<1>11. {p \in Packages : catalog'[p] # known'[p]}
         \subseteq {listed'[k] : k \in Places({"CATALOGED", "FAILED"})'}
  <2>1. ASSUME NEW p \in Packages, catalog'[p] # known'[p]
        PROVE  p \in {listed'[k] : k \in Places({"CATALOGED", "FAILED"})'}
    <3>1. CASE catalog'[p] = catalog[p]
      BY <1>0, <1>1, <2>1, <3>1 DEF Reports
    <3>2. CASE catalog'[p] # catalog[p]
      BY <1>0, <1>1, <1>6, <3>2, StoresAre
    <3> QED  BY <3>1, <3>2
  <2> QED  BY <2>1
<1> QED  BY <1>3, <1>10, <1>11 DEF Reports

(* The selected places are finitely many.                                  *)
LEMMA SelectedFinite ==
  ASSUME TypeOK
  PROVE  /\ IsFiniteSet(Places(Selected)) /\ Cardinality(Places(Selected)) \in Nat
         /\ Cardinality(Places(Selected)) <= Len(results)
<1>1. Places(Selected) \subseteq 1..Len(results)
  BY Seqs DEF Places
<1>2. Len(results) \in Nat
  BY Seqs
<1>3. IsFiniteSet(1..Len(results))
  BY <1>2, FS_Interval
<1>4. Cardinality(1..Len(results)) = Len(results)
  <2>1. 1 \in Int /\ Len(results) \in Int
    BY <1>2
  <2>2. Cardinality(1..Len(results)) = IF 1 > Len(results) THEN 0 ELSE Len(results) - 1 + 1
    BY <2>1, FS_Interval, Zenon
  <2>3. (IF 1 > Len(results) THEN 0 ELSE Len(results) - 1 + 1) = Len(results)
    BY <1>2
  <2> QED  BY <2>2, <2>3
<1> QED  BY <1>1, <1>3, <1>4, FS_Subset, FS_CardinalityType

(* A report keeps the selection the first READY packages.                  *)
LEMMA ReportChosen ==
  ASSUME TypeOK, Shape, Reports, Chosen, NEW status \in Statuses, Told(status)
  PROVE  Chosen'
<1>0. /\ Reported' = Reported \cup {At} /\ results'[At] = status
      /\ \A k \in Reported : results'[k] = results[k]
      /\ \A T : Places(T)' = Places(T) \cup (IF status \in T THEN {At} ELSE {})
  BY ReportIs DEF Told
<1>1. found' = found /\ listed' = listed /\ options' = options
  BY DEF Told
<1>2. \A k \in Reported : k \in Nat /\ k < At /\ ~(At < k)
  <2>1. At \in Nat /\ \A k \in Reported : k \in Nat /\ k < At
    BY AtIs
  <2> QED  BY <2>1
<1>3. ~(At < At)
  BY AtIs
<1>4. \A T : Places(T) \subseteq Reported
  BY Seqs DEF Places, Reported
<1>5. halted' <=> (options'.stop_on_error /\ Places(Failures)' # {})
  <2>1. Places(Failures)' = Places(Failures) \cup (IF status \in Failures THEN {At} ELSE {})
    BY <1>0
  <2>2. NotReady(status) \/ LeaveOut(status) => status \notin Failures /\ halted' = halted
    BY StatusIs DEF NotReady, LeaveOut, Failures
  <2>3. Choose(status) \/ Attempt(status) =>
          halted' = (halted \/ (options.stop_on_error /\ status \in Failures))
    <3>1. Attempt(status) => Halt(status)
      BY DEF Attempt
    <3>2. Choose(status) => Halt(status) \/ (halted' = halted /\ status \notin Failures)
      BY DEF Choose, Failures
    <3>3. Halt(status) => halted' = (halted \/ (options.stop_on_error /\ status \in Failures))
      BY DEF Halt, Failures
    <3>4. halted \in BOOLEAN
      BY DEF TypeOK
    <3> QED  BY <3>1, <3>2, <3>3, <3>4
  <2>4. halted' = (halted \/ (options.stop_on_error /\ status \in Failures))
    <3>1. halted \in BOOLEAN
      BY DEF TypeOK
    <3> QED  BY <2>2, <2>3, <3>1 DEF Told
  <2>5. halted <=> (options.stop_on_error /\ Places(Failures) # {})
    BY DEF Chosen
  <2> QED  BY <1>1, <2>1, <2>4, <2>5
<1>6. halted => status \notin Selected
  BY StatusIs DEF Told, NotReady, LeaveOut, Choose, Attempt, Shape, Open, Selected, Attempts
<1>7. ASSUME options'.stop_on_error, NEW k \in Places(Failures)', NEW j \in Reported', j > k
      PROVE  results'[j] \notin Selected
  <2>1. k \in Places(Failures)
    BY <1>0, <1>2, <1>3, <1>7
  <2>2. CASE j = At
    BY <1>0, <1>1, <1>6, <1>7, <2>1, <2>2 DEF Chosen
  <2>3. CASE j \in Reported
    BY <1>0, <1>1, <1>7, <2>1, <2>3 DEF Chosen
  <2> QED  BY <1>0, <2>2, <2>3
<1>8. status \in Selected => ~LeftOut
  BY StatusIs DEF Told, NotReady, LeaveOut, Choose, Attempt, Chosen, Selected, Attempts
<1>9. ASSUME NEW k \in Places(Selected)', NEW j \in Reported', j < k, found'[j] = "READY"
      PROVE  results'[j] \in Selected
  <2>1. j \in Reported
    BY <1>0, <1>2, <1>3, <1>4, <1>9
  <2>2. CASE k \in Places(Selected)
    BY <1>0, <1>1, <1>9, <2>1, <2>2 DEF Chosen
  <2>3. CASE k = At /\ status \in Selected
    <3>1. results[j] # "READY"
      BY <1>1, <1>8, <1>9, <2>1, <2>3 DEF LeftOut
    <3> QED  BY <1>0, <1>1, <1>9, <2>1, <3>1 DEF Reports
  <2> QED  BY <1>0, <1>9, <2>2, <2>3
<1>10. LeftOut' => ~Open' /\ pc' # "ingest"
  <2>1. LeftOut' => LeftOut \/ (found[At] = "READY" /\ status = "READY")
    BY <1>0, <1>1 DEF LeftOut
  <2>2. LeftOut \/ (found[At] = "READY" /\ status = "READY") =>
          NotReady(status) \/ LeaveOut(status)
    BY StatusIs DEF Told, Choose, Attempt, Chosen, Attempts
  <2>3. LeftOut \/ (found[At] = "READY" /\ status = "READY") => ~Open
    BY <2>2 DEF Chosen, NotReady, LeaveOut
  <2>4. NotReady(status) \/ LeaveOut(status) => (Open' <=> Open)
    BY <1>1 DEF NotReady, LeaveOut, Open
  <2> QED  BY <2>1, <2>2, <2>3, <2>4 DEF Told
<1>11. selected' = Cardinality(Places(Selected)' \cup Pending') /\ selected' <= options'.limit
  <2>1. Pending' = {}
    BY DEF Pending, Told
  <2>2. Places(Selected)' = Places(Selected) \cup (IF status \in Selected THEN {At} ELSE {})
    BY <1>0
  <2>3. selected = Cardinality(Places(Selected) \cup Pending) /\ selected <= options.limit
    BY DEF Chosen
  <2>4. CASE NotReady(status) \/ LeaveOut(status)
    <3>1. status \notin Selected /\ Pending = {} /\ selected' = selected
      BY <2>4, StatusIs DEF NotReady, LeaveOut, Pending, Selected, Attempts
    <3> QED  BY <1>1, <2>1, <2>2, <2>3, <3>1
  <2>5. CASE Attempt(status)
    <3>1. status \in Selected /\ Pending = {At} /\ selected' = selected
      BY <2>5 DEF Attempt, Pending, Selected
    <3> QED  BY <1>1, <2>1, <2>2, <2>3, <3>1
  <2>6. CASE Choose(status)
    <3>1. status \in Selected /\ Pending = {} /\ selected' = selected + 1 /\ Open
      BY <2>6, StatusIs DEF Choose, Pending, Selected
    <3>2. IsFiniteSet(Places(Selected)) /\ At \notin Places(Selected)
      BY <1>4, SelectedFinite, AtIs
    <3>3. Cardinality(Places(Selected) \cup {At}) = Cardinality(Places(Selected)) + 1
      BY <3>2, FS_AddElement
    <3>4. selected + 1 <= options.limit
      <4>1. selected \in Nat /\ options.limit \in Nat /\ selected < options.limit
        BY <3>1 DEF TypeOK, Options, Open
      <4> QED  BY <4>1
    <3> QED  BY <1>1, <2>1, <2>2, <2>3, <3>1, <3>3, <3>4
  <2> QED  BY <2>4, <2>5, <2>6 DEF Told
<1> QED  BY <1>5, <1>7, <1>9, <1>10, <1>11 DEF Chosen

(* A report of a batch nobody disturbs.                                    *)
LEMMA ReportQuiet ==
  ASSUME TypeOK, Shape, Chosen, Quiet, NEW status \in Statuses, Told(status), clean'
  PROVE  Quiet'
<1>0. /\ Reported' = Reported \cup {At} /\ results'[At] = status
      /\ \A k \in Reported : results'[k] = results[k]
  BY ReportIs DEF Told
<1>1. /\ found' = found /\ listed' = listed /\ options' = options /\ outbox' = outbox
      /\ pc' = "select"
  BY DEF Told
<1>2. ASSUME ~options.dry_run, ~options.stop_on_error, options.limit >= N,
             NEW k, k = At, Due(k)
      PROVE  AsItShould(k)'
  <2> DEFINE p == listed[At]
             c == outbox[p]
  <2>1. At \in 1..Len(found) /\ At \in 1..Len(listed)
    BY AtIs DEF Told
  <2>2. found[At] = "READY"
    BY <1>2, <2>1 DEF Quiet, Due
  <2>3. ~LeaveOut(status)
    <3>1. SUFFICES ASSUME LeaveOut(status) PROVE FALSE
      OBVIOUS
    <3>2. ~halted
      BY <1>2 DEF Chosen
    <3>3. Pending = {} /\ ~Open
      BY <3>1 DEF Pending, LeaveOut
    <3>4. selected <= Len(results) /\ selected \in Nat
      BY <3>3, SelectedFinite DEF Chosen, TypeOK
    <3>5. options.limit \in Nat /\ ~(selected < options.limit)
      BY <3>2, <3>3 DEF TypeOK, Options, Open
    <3>6. Len(results) < Len(listed) /\ Len(listed) <= N
      <4>1. At = Len(results) + 1 /\ At <= Len(listed)
        BY AtIs DEF Told
      <4>2. Len(results) \in Nat /\ Len(listed) \in Nat
        BY Seqs
      <4>3. Len(listed) <= N
        BY DEF Shape
      <4> QED  BY <4>1, <4>2, <4>3
    <3> QED  BY <1>2, <3>4, <3>5, <3>6, Seqs
  <2>4. Attempt(status)
    BY <1>2, <2>2, <2>3 DEF Told, NotReady, Choose, Due
  <2>5. seen = {c} /\ c \in Contents /\ c.kind = "complete" /\ p \in Packages
    BY <1>2, <2>1, <2>4, Seqs DEF Attempt, Quiet, Due, TypeOK
  <2>6. c.text \in Texts
    BY <2>5 DEF Contents, Kinds
  <2>7. CASE status = "FAILED" /\ Raises(seen, custody[p]) /\ UNCHANGED stores
    <3>1. Clashes(c, custody[p])
      BY <2>5, <2>7, UnchangedIs
    <3>2. results'[k] = "FAILED" /\ listed'[k] = p /\ outbox'[p] = c /\ custody'[p] = custody[p]
      BY <1>0, <1>1, <1>2, <2>7 DEF stores
    <3> QED  BY <3>1, <3>2 DEF AsItShould, Clashes
  <2>8. CASE status = "CATALOGED"
    <3>1. PICK v \in Versions : Shelve(v) /\ Enter(v)
      <4>1. \E v \in Versions : Puts(v, status)
        BY <2>4, <2>8 DEF Attempt
      <4> QED  BY <2>8, <4>1 DEF Puts
    <3>2. v.print = PrintOf[c.text] /\ v.text = c.text
      BY <2>5, UnchangedIs DEF Versions
    <3>3. PrintOf[c.text] \in Prints
      BY <2>6 DEF Prints
    <3>4. custody \in [Packages -> Shelves] /\ catalog \in [Packages -> Prints \cup {None}]
          /\ custody[p] \in [Prints -> Texts \cup {None}]
      BY <2>5 DEF TypeOK, Shelves
    <3>5. custody'[p] = [custody[p] EXCEPT ![PrintOf[c.text]] = c.text]
      BY <2>5, <3>1, <3>2, <3>4 DEF Shelve
    <3>6. custody'[p][PrintOf[c.text]] = c.text
      BY <3>3, <3>4, <3>5
    <3>7. catalog'[p] = PrintOf[c.text]
      BY <2>5, <3>1, <3>2, <3>4 DEF Enter
    <3>8. results'[k] = "CATALOGED" /\ listed'[k] = p /\ outbox'[p] = c
      BY <1>0, <1>1, <1>2, <2>8
    <3> QED  BY <3>6, <3>7, <3>8 DEF AsItShould, Clashes
  <2> QED  BY <2>4, <2>5, <2>7, <2>8, UnchangedIs DEF Attempt
<1>3. ASSUME NEW k \in Reported, AsItShould(k)
      PROVE  AsItShould(k)'
  <2>1. /\ k \in DOMAIN listed /\ At \in DOMAIN listed /\ k < At
        /\ listed[k] \in Packages /\ listed[At] \in Nat /\ listed[k] \in Nat
    <3>1. At \in 1..Len(listed) /\ k < At /\ k \in Nat /\ k >= 1
      BY AtIs, Seqs DEF Told, Reported
    <3>2. k \in 1..Len(listed)
      BY <3>1, Seqs
    <3> QED  BY <3>1, <3>2, Seqs DEF Packages
  <2>2. listed[k] < listed[At]
    BY <2>1 DEF TypeOK, Ordered
  <2>3. listed[k] # listed[At]
    BY <2>1, <2>2
  <2>4. custody'[listed[k]] = custody[listed[k]] /\ catalog'[listed[k]] = catalog[listed[k]]
    BY <2>1, <2>3, StoresAre
  <2> QED  BY <1>0, <1>1, <1>3, <2>4 DEF AsItShould
<1>4. \A k : Due(k)' <=> Due(k)
  BY <1>1 DEF Due
<1>5. (~options'.dry_run /\ ~options'.stop_on_error /\ options'.limit >= N) =>
        \A k \in Reported' : Due(k)' => AsItShould(k)'
  BY <1>0, <1>1, <1>2, <1>3, <1>4 DEF Quiet
<1> QED  BY <1>1, <1>5 DEF Quiet

(* The reporting steps keep the invariant.                                 *)
LEMMA ReportingKeeps ==
  ASSUME BatchInv, Reporting
  PROVE  BatchInv'
<1>1. PICK status \in Statuses : Told(status)
  BY ReportStep
<1>2. TypeOK /\ Shape /\ Calls /\ Reports /\ Chosen /\ (clean => Quiet)
  <2>1. pc # "start"
    BY <1>1 DEF Told
  <2> QED  BY <2>1 DEF BatchInv
<1>3. Shape'
  BY <1>1, <1>2 DEF Told, Shape
<1>4. clean' => Quiet'
  <2>1. SUFFICES ASSUME clean' PROVE Quiet'
    OBVIOUS
  <2>2. Quiet
    BY <1>1, <1>2, <2>1 DEF Told
  <2> QED  BY <1>1, <1>2, <2>1, <2>2, ReportQuiet
<1> QED  BY <1>1, <1>2, <1>3, <1>4, ReportTypes, ReportCalls, ReportReports, ReportChosen DEF BatchInv

(* What a step keeps that reports nothing and hands nothing over.          *)
LEMMA StandStill ==
  ASSUME TypeOK, Calls, Reports, Chosen,
         options' = options, listed' = listed, results' = results, UNCHANGED stores,
         known' = known, UNCHANGED progress, (pc' = "ingest") <=> (pc = "ingest"),
         found' = found \/ Len(results) = 0
  PROVE  Calls' /\ Reports' /\ Chosen'
<1>1. Reported' = Reported /\ (found' = found \/ Reported = {})
  BY Seqs DEF Reported
<1>2. \A T : Places(T)' = Places(T)
  BY DEF Places
<1>3. At' = At /\ Pending' = Pending
  BY DEF At, Pending
<1>4. called' = called /\ selected' = selected /\ halted' = halted
  BY DEF progress
<1>5. Calls'
  BY <1>2, <1>3, <1>4 DEF Calls, Ordered
<1>6. Reports'
  BY <1>1, <1>2 DEF Reports, stores
<1>7. LeftOut' <=> LeftOut
  BY <1>1 DEF LeftOut
<1>8. Open' <=> Open
  BY <1>4 DEF Open
<1>9. Chosen'
  <2>1. \A k \in Places(Selected)', j \in Reported' :
          (j < k /\ found'[j] = "READY") => results'[j] \in Selected
    BY <1>1, <1>2 DEF Chosen
  <2>2. options'.stop_on_error =>
          \A k \in Places(Failures)', j \in Reported' : (j > k) => results'[j] \notin Selected
    BY <1>1, <1>2 DEF Chosen
  <2>3. halted' <=> (options'.stop_on_error /\ Places(Failures)' # {})
    BY <1>2, <1>4 DEF Chosen
  <2>4. LeftOut' => ~Open' /\ pc' # "ingest"
    BY <1>7, <1>8 DEF Chosen
  <2>5. selected' = Cardinality(Places(Selected)' \cup Pending') /\ selected' <= options'.limit
    BY <1>2, <1>3, <1>4 DEF Chosen
  <2> QED  BY <2>1, <2>2, <2>3, <2>4, <2>5 DEF Chosen
<1> QED  BY <1>5, <1>6, <1>9

(* A batch begins with nothing reported and all of the directory listed.   *)
LEMMA StartKeeps ==
  ASSUME BatchInv, StartBatch
  PROVE  BatchInv'
<1> DEFINE S == {p \in Packages : outbox[p].kind # "absent"}
<1> USE DEF StartBatch
<1>0. TypeOK
  BY DEF BatchInv
<1>1. S \in SUBSET Packages /\ listed' \in InOrder(S)
  BY DEF Listings
<1>2. /\ listed' \in Seq(Packages) /\ Ordered(listed') /\ Len(listed') <= N
      /\ \A p \in S : \E k \in 1..Len(listed') : listed'[k] = p
  BY <1>1, ListingIs
<1>3. /\ Len(found') = 0 /\ Len(results') = 0 /\ Len(called') = 0
      /\ DOMAIN results' = {} /\ DOMAIN called' = {}
  BY EmptySeq
<1>4. Len(listed') \in Nat
  BY <1>2, LenProperties
<1>5. TypeOK'
  <2>1. /\ found' \in Seq({"READY", "NOT_READY", "INVALID"}) /\ results' \in Seq(Statuses)
        /\ called' \in Seq(Packages)
    BY EmptySeq
  <2>2. Len(found') <= Len(listed') /\ Len(results') <= Len(found')
    BY <1>3, <1>4
  <2>3. pc' = "read" /\ options' \in Options /\ selected' \in Nat /\ halted' \in BOOLEAN
        /\ clean' \in BOOLEAN
    OBVIOUS
  <2>4. /\ outbox' \in [Packages -> Contents] /\ before' \in Kinds /\ seen' \subseteq Contents
        /\ custody' \in [Packages -> Shelves] /\ catalog' \in [Packages -> Prints \cup {None}]
        /\ known' \in [Packages -> Prints \cup {None}]
    BY <1>0 DEF TypeOK, stores
  <2> QED  BY <1>2, <2>1, <2>2, <2>3, <2>4 DEF TypeOK, Ordered
<1>6. Shape'
  BY <1>2 DEF Shape
<1>7. Reported' = {} /\ (\A T : Places(T)' = {}) /\ Pending' = {}
  BY <1>3 DEF Reported, Places, Pending
<1>8. Calls'
  BY <1>3, <1>7 DEF Calls, Ordered
<1>9. Reports'
  BY <1>7 DEF Reports, stores
<1>10. Chosen'
  <2>1. 0 <= options'.limit
    <3>1. options'.limit \in Limits
      BY DEF Options
    <3>2. options'.limit \in Nat
      BY <3>1
    <3> QED  BY <3>2
  <2>2. Cardinality({}) = 0
    BY FS_EmptySet
  <2> QED  BY <1>7, <2>1, <2>2 DEF Chosen, LeftOut
<1>11. Quiet'
  <2>1. \A p \in Packages : outbox'[p].kind # "absent" => \E k \in 1..Len(listed') : listed'[k] = p
    BY <1>2
  <2>2. 1..Len(found') = {}
    BY <1>3
  <2> QED  BY <1>7, <2>1, <2>2 DEF Quiet
<1> QED  BY <1>5, <1>6, <1>8, <1>9, <1>10, <1>11 DEF BatchInv

(* Discovery reads a JSON, or is done.                                     *)
LEMMA ReadKeeps ==
  ASSUME BatchInv, ReadJson
  PROVE  BatchInv'
<1> USE DEF ReadJson, discovery, bounds, stores
<1>0. TypeOK /\ Shape /\ Calls /\ Reports /\ Chosen /\ (clean => Quiet)
  BY DEF BatchInv
<1>1. Calls' /\ Reports' /\ Chosen'
  BY <1>0, StandStill
<1>2. pc' = "select" => Len(found') = Len(listed')
  OBVIOUS
<1>3. pc' = "inspect" => /\ Len(found) < Len(listed)
                         /\ Len(found) + 1 \in 1..Len(listed)
  <2>1. Len(found) \in Nat /\ Len(listed) \in Nat /\ Len(found) <= Len(listed)
    BY <1>0, Seqs DEF TypeOK
  <2> QED  BY <2>1
<1>4. pc' = "inspect" => before' = outbox[listed[Len(found) + 1]].kind /\ before' \in Kinds
  BY <1>0, <1>3, Seqs DEF TypeOK, Contents, Kinds
<1>5. TypeOK'
  <2>1. pc' \in {"select", "inspect"} /\ before' \in Kinds
    BY <1>0, <1>4 DEF TypeOK
  <2> QED  BY <1>0, <1>2, <2>1 DEF TypeOK, Ordered, progress
<1>6. Shape'
  BY <1>0, <1>3 DEF Shape, progress
<1>7. clean' => Quiet'
  BY <1>0, <1>4 DEF Quiet, Due, AsItShould, Reported
<1> QED  BY <1>1, <1>5, <1>6, <1>7 DEF BatchInv

(* Discovery looks at the members of the JSON it read.                     *)
LEMMA InspectKeeps ==
  ASSUME BatchInv, InspectMembers
  PROVE  BatchInv'
<1> DEFINE next == Len(found) + 1
           status == Discovered(before, outbox[listed[next]].kind)
<1> USE DEF InspectMembers, bounds, stores
<1>0. TypeOK /\ Shape /\ Calls /\ Reports /\ Chosen /\ (clean => Quiet)
  BY DEF BatchInv
<1>1. /\ results = <<>> /\ called = <<>> /\ selected = 0 /\ halted = FALSE
      /\ Len(found) < Len(listed)
  BY <1>0 DEF Shape
<1>2. status \in {"READY", "NOT_READY", "INVALID"}
  BY DEF Discovered
<1>3. found \in Seq({"READY", "NOT_READY", "INVALID"}) /\ found' = Append(found, status)
  BY <1>0 DEF TypeOK
<1> HIDE DEF status
<1>4. /\ found' \in Seq({"READY", "NOT_READY", "INVALID"}) /\ Len(found') = next
      /\ \A k \in 1..Len(found) : found'[k] = found[k]
      /\ found'[next] = status
  BY <1>2, <1>3, AppendProperties
<1>5. Len(found') <= Len(listed) /\ 1..Len(found') = (1..Len(found)) \cup {next}
  BY <1>0, <1>1, <1>4, Seqs
<1>6. Len(results) = 0
  BY <1>1, EmptySeq
<1>7. Calls' /\ Reports' /\ Chosen'
  BY <1>0, <1>6, StandStill
<1>8. TypeOK'
  <2>1. Len(results') <= Len(found')
    BY <1>0, <1>4, <1>6, Seqs
  <2> QED  BY <1>0, <1>4, <1>5, <2>1 DEF TypeOK, Ordered, progress
<1>9. Shape'
  BY <1>0, <1>1 DEF Shape, progress
<1>10. clean' => Quiet'
  <2>1. SUFFICES ASSUME clean' PROVE Quiet'
    OBVIOUS
  <2>2. Quiet /\ before = outbox[listed[next]].kind
    BY <1>0, <2>1 DEF Quiet
  <2>3. outbox[listed[next]].kind = "complete" => status = "READY"
    BY <2>2 DEF status, Discovered
  <2>4. \A k \in 1..Len(found') : outbox'[listed'[k]].kind = "complete" => found'[k] = "READY"
    BY <1>4, <1>5, <2>2, <2>3 DEF Quiet
  <2> QED  BY <2>2, <2>4 DEF Quiet, Due, AsItShould, Reported
<1> QED  BY <1>7, <1>8, <1>9, <1>10 DEF BatchInv

(* A selected package is handed to ingest_package.                         *)
LEMMA CallKeeps ==
  ASSUME BatchInv, CallIngest
  PROVE  BatchInv'
<1> USE DEF CallIngest, discovery, bounds, stores
<1>0. TypeOK /\ Shape /\ Calls /\ Reports /\ Chosen /\ (clean => Quiet)
  BY DEF BatchInv, InSelection
<1>1. /\ At \in 1..Len(listed) /\ listed[At] \in Packages /\ found[At] = "READY"
      /\ Open /\ listed[At] \notin Unplaceable /\ ~options.dry_run /\ pc = "select"
  BY <1>0, AtIs DEF InSelection
<1>2. At' = At /\ Reported' = Reported /\ (\A T : Places(T)' = Places(T))
  BY DEF At, Reported, Places
<1>3. Pending = {} /\ Pending' = {At}
  BY <1>1, <1>2 DEF Pending
<1>4. called \in Seq(Packages)
  BY <1>0 DEF TypeOK
<1>5. /\ called' \in Seq(Packages) /\ Len(called') = Len(called) + 1
      /\ \A c \in 1..Len(called) : called'[c] = called[c]
      /\ called'[Len(called) + 1] = listed[At]
  BY <1>1, <1>4, AppendProperties
<1>6. /\ DOMAIN called = 1..Len(called) /\ DOMAIN called' = 1..(Len(called) + 1)
      /\ Len(called) \in Nat
  BY <1>4, <1>5, LenProperties
<1>7. DOMAIN called' = DOMAIN called \cup {Len(called) + 1}
  BY <1>6
<1>8. seen' \subseteq Contents
  BY <1>0, <1>1 DEF TypeOK
<1>9. selected \in Nat /\ selected < options.limit /\ options.limit \in Nat /\ ~halted
  BY <1>0, <1>1 DEF TypeOK, Open, Options
<1>10. Len(results) < Len(listed) /\ Len(found) = Len(listed)
  <2>1. At = Len(results) + 1 /\ At <= Len(listed) /\ Len(found) = Len(listed)
    BY <1>0, <1>1, AtIs, Seqs DEF TypeOK, InSelection
  <2> QED  BY <1>0, <2>1, Seqs
<1>11. TypeOK'
  <2>1. selected' \in Nat
    BY <1>9
  <2> QED  BY <1>0, <1>5, <1>8, <1>10, <2>1 DEF TypeOK, Ordered
<1>12. Shape'
  BY <1>0, <1>1, <1>2, <1>9 DEF Shape
<1>13. Calls'
  <2>1. {called'[c] : c \in DOMAIN called'} =
          {called[c] : c \in DOMAIN called} \cup {listed[At]}
    BY <1>5, <1>6, <1>7
  <2>2. \A c \in DOMAIN called : called[c] < listed[At]
    <3>1. ASSUME NEW c \in DOMAIN called PROVE called[c] < listed[At]
      <4>1. PICK k \in Places(Attempts) : called[c] = listed[k]
        BY <1>0, <1>3 DEF Calls
      <4>2. k \in Reported /\ k < At
        BY <1>0, <4>1, AtIs, Seqs DEF Places, Reported
      <4>3. k \in DOMAIN listed /\ At \in DOMAIN listed
        BY <1>0, <1>1, <1>10, <4>2, Seqs DEF Reported
      <4> QED  BY <1>0, <4>1, <4>2, <4>3 DEF TypeOK, Ordered
    <3> QED  BY <3>1
  <2>3. Ordered(called')
    <3>1. ASSUME NEW a \in DOMAIN called', NEW b \in DOMAIN called', a < b
          PROVE  called'[a] < called'[b]
      <4>1. a \in DOMAIN called
        BY <1>6, <3>1
      <4>2. CASE b \in DOMAIN called
        BY <1>0, <1>5, <1>6, <3>1, <4>1, <4>2 DEF Calls, Ordered
      <4>3. CASE b = Len(called) + 1
        BY <1>5, <1>6, <2>2, <4>1, <4>3
      <4> QED  BY <1>7, <4>2, <4>3
    <3> QED  BY <3>1 DEF Ordered
  <2>4. {listed'[k] : k \in Places(Attempts)' \cup Pending'} =
          {listed[k] : k \in Places(Attempts) \cup Pending} \cup {listed[At]}
    BY <1>2, <1>3
  <2>5. {called'[c] : c \in DOMAIN called'} = {listed'[k] : k \in Places(Attempts)' \cup Pending'}
    BY <1>0, <2>1, <2>4 DEF Calls
  <2> QED  BY <1>1, <2>3, <2>5 DEF Calls, Ordered
<1>14. Reports'
  BY <1>0, <1>2 DEF Reports
<1>15. Chosen'
  <2>1. LeftOut' <=> LeftOut
    BY <1>2 DEF LeftOut
  <2>2. ~LeftOut
    BY <1>0, <1>1 DEF Chosen
  <2>3. selected' = Cardinality(Places(Selected)' \cup Pending')
    <3>1. IsFiniteSet(Places(Selected)) /\ At \notin Places(Selected)
      BY <1>0, SelectedFinite, AtIs, Seqs DEF Places, Reported
    <3>2. Cardinality(Places(Selected) \cup {At}) = Cardinality(Places(Selected)) + 1
      BY <3>1, FS_AddElement
    <3>3. selected = Cardinality(Places(Selected))
      BY <1>0, <1>3 DEF Chosen
    <3> QED  BY <1>2, <1>3, <3>2, <3>3
  <2>4. selected' <= options'.limit
    BY <1>9
  <2>5. halted' <=> (options'.stop_on_error /\ Places(Failures)' # {})
    BY <1>0, <1>2 DEF Chosen
  <2>6. options'.stop_on_error =>
          \A k \in Places(Failures)', j \in Reported' : (j > k) => results'[j] \notin Selected
    BY <1>0, <1>2 DEF Chosen
  <2>7. \A k \in Places(Selected)', j \in Reported' :
          (j < k /\ found'[j] = "READY") => results'[j] \in Selected
    BY <1>0, <1>2 DEF Chosen
  <2> QED  BY <2>1, <2>2, <2>3, <2>4, <2>5, <2>6, <2>7 DEF Chosen
<1>16. clean' => Quiet'
  BY <1>0, <1>2 DEF Quiet, Due, AsItShould
<1> QED  BY <1>11, <1>12, <1>13, <1>14, <1>15, <1>16 DEF BatchInv

(* The batch is finished, ends, or the producer works on.                  *)
LEMMA OthersKeep ==
  ASSUME BatchInv, Finish \/ Exit \/ EditOutbox \/ UNCHANGED vars
  PROVE  BatchInv'
<1> USE DEF discovery, progress, bounds, stores
<1>0. TypeOK
  BY DEF BatchInv
<1>1. CASE Finish
  <2>1. Shape /\ Calls /\ Reports /\ Chosen /\ (clean => Quiet)
    BY <1>1 DEF BatchInv, Finish
  <2>2. Calls' /\ Reports' /\ Chosen'
    BY <1>0, <1>1, <2>1, StandStill DEF Finish
  <2>3. TypeOK'
    BY <1>0, <1>1 DEF Finish, TypeOK, Ordered
  <2>4. Len(results) = Len(listed)
    <3>1. /\ Len(results) \in Nat /\ Len(listed) \in Nat /\ At = Len(results) + 1
          /\ At > Len(listed)
      BY <1>0, <1>1, Seqs, AtIs DEF Finish
    <3>2. Len(results) <= Len(found) /\ Len(found) = Len(listed)
      BY <1>0, <1>1 DEF TypeOK, Finish
    <3> QED  BY <3>1, <3>2
  <2>5. Shape'
    BY <1>1, <2>1, <2>4 DEF Shape, Finish
  <2>6. clean' => Quiet'
    BY <1>1, <2>1 DEF Quiet, Due, AsItShould, Finish, Reported
  <2> QED  BY <2>2, <2>3, <2>5, <2>6 DEF BatchInv
<1>2. CASE Exit
  BY <1>0, <1>2 DEF Exit, TypeOK, Ordered, BatchInv
<1>3. CASE EditOutbox
  <2>1. TypeOK'
    BY <1>0, <1>3 DEF EditOutbox, TypeOK, Ordered
  <2>2. ASSUME pc' # "start" PROVE Shape' /\ Calls' /\ Reports' /\ Chosen'
    <3>1. Shape /\ Calls /\ Reports /\ Chosen
      BY <1>3, <2>2 DEF BatchInv, EditOutbox
    <3>2. Calls' /\ Reports' /\ Chosen'
      BY <1>0, <1>3, <3>1, StandStill DEF EditOutbox
    <3>3. Shape'
      BY <1>3, <3>1 DEF Shape, EditOutbox, At
    <3> QED  BY <3>2, <3>3
  <2> QED  BY <1>3, <2>1, <2>2 DEF BatchInv, EditOutbox
<1>4. CASE UNCHANGED vars
  <2>1. TypeOK'
    BY <1>0, <1>4 DEF vars, TypeOK, Ordered
  <2>2. ASSUME pc' # "start"
        PROVE  Shape' /\ Calls' /\ Reports' /\ Chosen' /\ (clean' => Quiet')
    <3>1. Shape /\ Calls /\ Reports /\ Chosen /\ (clean => Quiet)
      BY <1>4, <2>2 DEF BatchInv, vars
    <3>2. Calls' /\ Reports' /\ Chosen'
      BY <1>0, <1>4, <3>1, StandStill DEF vars
    <3>3. Shape'
      BY <1>4, <3>1 DEF Shape, vars, At
    <3>4. clean' => Quiet'
      BY <1>4, <3>1 DEF Quiet, Due, AsItShould, vars, Reported, At
    <3> QED  BY <3>2, <3>3, <3>4
  <2> QED  BY <2>1, <2>2 DEF BatchInv
<1> QED  BY <1>1, <1>2, <1>3, <1>4

---------------------------------------------------------------------------------
(* Theorems.                                                               *)

(* The invariant holds in every state, whatever the producer does to the   *)
(* outbox and wherever the batch fails or is killed.                       *)
THEOREM BatchInductive == Spec => []BatchInv
<1>1. ASSUME BatchInv, [Next]_vars PROVE BatchInv'
  <2>1. CASE StartBatch
    BY <1>1, <2>1, StartKeeps
  <2>2. CASE ReadJson
    BY <1>1, <2>2, ReadKeeps
  <2>3. CASE InspectMembers
    BY <1>1, <2>3, InspectKeeps
  <2>4. CASE Reporting
    BY <1>1, <2>4, ReportingKeeps
  <2>5. CASE CallIngest
    BY <1>1, <2>5, CallKeeps
  <2>6. CASE Finish \/ Exit \/ EditOutbox \/ UNCHANGED vars
    BY <1>1, <2>6, OthersKeep
  <2> QED  BY <1>1, <2>1, <2>2, <2>3, <2>4, <2>5, <2>6 DEF Next, Step, Reporting
<1> QED  BY <1>1, InitInv, PTL DEF Spec

(* What the invariant says of a finished batch.                            *)
LEMMA DoneIs ==
  ASSUME BatchInv, pc = "done"
  PROVE  /\ TypeOK /\ Calls /\ Reports /\ Chosen /\ (clean => Quiet)
         /\ Len(results) = Len(listed) /\ Len(found) = Len(listed)
         /\ Pending = {} /\ Reported = DOMAIN found
<1>1. TypeOK /\ Shape /\ Calls /\ Reports /\ Chosen /\ (clean => Quiet)
  BY DEF BatchInv
<1>2. Len(results) = Len(listed) /\ Len(found) = Len(listed)
  BY <1>1 DEF Shape, TypeOK
<1>3. Pending = {} /\ Reported = DOMAIN found
  BY <1>1, <1>2, Seqs DEF Pending, Reported
<1> QED  BY <1>1, <1>2, <1>3

(* The summary of a finished batch names every listed package once and in  *)
(* order, and claims an attempt exactly for what was handed over.          *)
THEOREM SummaryTells == Spec => []SummaryIsTrue
<1>1. ASSUME BatchInv PROVE SummaryIsTrue
  <2>1. TypeOK
    BY <1>1 DEF BatchInv
  <2>2. CASE pc = "done"
    <3>1. Calls /\ Len(results) = Len(listed) /\ Pending = {}
      BY <1>1, <2>2, DoneIs
    <3> QED  BY <2>1, <3>1 DEF SummaryIsTrue, Calls
  <2> QED  BY <2>1, <2>2 DEF SummaryIsTrue
<1> QED  BY <1>1, BatchInductive, PTL

(* Nothing enters the catalog that the summary does not own up to, even    *)
(* when only the reply of a committed ingest was lost.                     *)
THEOREM CatalogReported == Spec => []CatalogIsReported
<1>1. ASSUME BatchInv PROVE CatalogIsReported
  BY <1>1, DoneIs DEF CatalogIsReported, Reports
<1> QED  BY <1>1, BatchInductive, PTL

(* The limit takes the first READY packages, as many as it allows, unless  *)
(* a failure under stop_on_error has ended the batch.                      *)
THEOREM FirstReadySelected == Spec => []SelectionIsFirstReady
<1>1. ASSUME BatchInv, pc = "done" PROVE SelectionIsFirstReady
  <2> DEFINE failures == Places({"FAILED", "PLACEMENT_FAILED"})
             ready == {k \in DOMAIN found : found[k] = "READY"}
             chosen == Places(Selected)
  <2>0. /\ TypeOK /\ Reports /\ Chosen /\ Reported = DOMAIN found /\ Pending = {}
        /\ failures = Places(Failures)
    BY <1>1, DoneIs DEF Failures
  <2>1. \A k \in chosen, j \in ready : j < k => results[j] \in Selected
    BY <2>0 DEF Chosen
  <2>2. chosen \subseteq ready
    <3>1. chosen \subseteq Reported
      BY <2>0, Seqs DEF Places, Reported
    <3>2. \A k \in chosen : results[k] \notin {"NOT_READY", "INVALID"}
      BY DEF Places, Selected, Attempts
    <3> QED  BY <2>0, <3>1, <3>2 DEF Reports
  <2>3. ASSUME options.stop_on_error, NEW k \in failures, NEW j \in ready, j > k
        PROVE  results[j] = "READY"
    BY <2>0, <2>3 DEF Chosen, Reports
  <2>4. ASSUME ~(options.stop_on_error /\ failures # {})
        PROVE  Cardinality(chosen) = IF Cardinality(ready) < options.limit
                                       THEN Cardinality(ready) ELSE options.limit
    <3>1. ~halted
      BY <2>0, <2>4 DEF Chosen
    <3>2. IsFiniteSet(ready)
      <4>1. ready \subseteq 1..Len(found) /\ Len(found) \in Nat
        BY <2>0, Seqs
      <4>2. IsFiniteSet(1..Len(found))
        BY <4>1, FS_Interval
      <4> QED  BY <4>1, <4>2, FS_Subset
    <3>3. /\ Cardinality(chosen) \in Nat /\ Cardinality(ready) \in Nat
          /\ Cardinality(chosen) <= Cardinality(ready)
      BY <2>2, <3>2, FS_Subset, FS_CardinalityType
    <3>4. selected = Cardinality(chosen) /\ selected <= options.limit
      BY <2>0 DEF Chosen
    <3>5. options.limit \in Nat
      BY <2>0 DEF TypeOK, Options
    <3>6. CASE LeftOut
      <4>1. ~(selected < options.limit)
        BY <2>0, <3>1, <3>6 DEF Chosen, Open
      <4> HIDE DEF chosen, ready
      <4> QED  BY <3>3, <3>4, <3>5, <4>1
    <3>7. CASE ~LeftOut
      <4>1. ready \subseteq chosen
        BY <2>0, <3>7, Seqs DEF LeftOut, Reports, Places, Reported
      <4>2. ready = chosen
        BY <2>2, <4>1
      <4> HIDE DEF chosen, ready
      <4> QED  BY <3>3, <3>4, <3>5, <4>2
    <3> QED  BY <3>6, <3>7
  <2> QED  BY <2>1, <2>3, <2>4 DEF SelectionIsFirstReady
<1>2. ASSUME BatchInv PROVE SelectionIsFirstReady
  BY <1>1, <1>2 DEF SelectionIsFirstReady
<1> QED  BY <1>2, BatchInductive, PTL

(* A batch without limit and stop over an outbox that nobody changes       *)
(* catalogs all there is to catalog, whatever is wrong with the rest, but  *)
(* for what clashes with a rendering in custody.                           *)
THEOREM CleanBatchCatalogs == Spec => []CleanBatchCatalogsAll
<1>1. ASSUME BatchInv PROVE CleanBatchCatalogsAll
  <2>1. SUFFICES ASSUME pc = "done", clean, ~options.dry_run, ~options.stop_on_error,
                        options.limit >= N,
                        NEW p \in Packages \ Unplaceable, outbox[p].kind = "complete"
                 PROVE  \E k \in DOMAIN listed :
                          /\ listed[k] = p
                          /\ IF Clashes(outbox[p], custody[p])
                               THEN results[k] = "FAILED"
                               ELSE results[k] = "CATALOGED" /\ catalog[p] = PrintOf[outbox[p].text]
    BY DEF CleanBatchCatalogsAll
  <2>2. Quiet /\ Len(results) = Len(listed) /\ DOMAIN listed = 1..Len(listed)
    BY <1>1, <2>1, DoneIs, Seqs
  <2>3. PICK k \in 1..Len(listed) : listed[k] = p
    BY <2>1, <2>2 DEF Quiet
  <2>4. AsItShould(k)
    BY <2>1, <2>2, <2>3 DEF Quiet, Reported, Due
  <2> QED  BY <2>2, <2>3, <2>4 DEF AsItShould
<1> QED  BY <1>1, BatchInductive, PTL
=================================================================================
