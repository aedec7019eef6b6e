-------------------------- MODULE EpisodePublishProofs --------------------------
(***************************************************************************)
(* Machine-checked proofs about EpisodePublish, for runs of any length,    *)
(* any operators and bounds: the gate holds, a publication that nothing    *)
(* disturbs catalogs its run up to what clashes with custody, and preflight *)
(* predicts the report.                                                    *)
(***************************************************************************)
EXTENDS EpisodePublish, FiniteSetTheorems, SequenceTheorems, TLAPS

USE PublishAssumption, OutboxAssumption

(* How far a command is, from its sequences.                               *)
ShapeOf(o) ==
  /\ pc[o] = "done" <=> verdict[o] # "none"
  /\ Len(found[o]) = Len(listed[o])
  /\ \A i, j \in 1..Len(listed[o]) : i < j => listed[o][i] < listed[o][j]
  /\ Len(items[o]) <= Len(listed[o]) /\ Len(counts[o]) <= Len(items[o])
  /\ pc[o] = "idle" => items[o] = <<>> /\ listed[o] = <<>>
  /\ pc[o] = "select ingest" => Len(items[o]) < Len(listed[o])
  /\ pc[o] \in {"check", "select ingest"} => counts[o] = <<>>
  /\ pc[o] = "ingest" => Len(counts[o]) < Len(listed[o])

(* The gate, as far as one command has passed it.                          *)
GateOf(o) ==
  (pc[o] \in {"publish", "ingest"} \/ counts[o] # <<>>) =>
    /\ Len(items[o]) = Len(listed[o])
    /\ \A k \in 1..Len(items[o]) : items[o][k] # "blocked"
    /\ ~dry[o]

(* What the catalog names is in custody.                                   *)
Held == \A p \in Packages : catalog[p] # None => custody[p][catalog[p]] # None

PublishInv == TypeOK /\ Held /\ \A o \in Operators : ShapeOf(o) /\ GateOf(o)

(* What a command that nothing has disturbed is sure of: discovery saw the *)
(* run as it is, preflight judged it as it is, what was counted is in the  *)
(* catalog, and whoever ingests works from the run as it is.               *)
Running(o) == pc[o] \notin {"idle", "done"}
Kind(o, k) == run[listed[o][k]].kind

(* Package p is published as it is; custody refuses p as it is.            *)
Entered(p) ==
  LET c == run[p]
  IN  catalog[p] = PrintOf[c.text] /\ custody[p][PrintOf[c.text]] = c.text
Refused(p) == Clashes(run[p], custody[p])

RunSeen(o) ==
  /\ \A k \in 1..Len(listed[o]) : found[o][k] = run[listed[o][k]]
  /\ \A k \in 1..Len(items[o]) : items[o][k] = "blocked" <=> Kind(o, k) # "complete"
  /\ pc[o] = "select ingest" => Kind(o, Len(items[o]) + 1) = "complete"
  /\ \A k \in 1..Len(counts[o]) : Entered(listed[o][k])

Others(o) ==
  /\ \A j \in Operators : pc[j] = "ingest" => seen[j] = {run[Published(j)]}
  /\ \A j \in Operators : Running(o) /\ Running(j) => j = o

Verdict(o) ==
  /\ verdict[o] = "FAILED" =>
       /\ Len(items[o]) = Len(listed[o]) /\ Len(counts[o]) < Len(listed[o])
       /\ \A k \in 1..Len(items[o]) : items[o][k] # "blocked"
       /\ Refused(listed[o][Len(counts[o]) + 1])
  /\ verdict[o] = "BLOCKED" => \E k \in 1..Len(items[o]) : items[o][k] = "blocked"
  /\ (verdict[o] = "PASS" /\ ~dry[o]) =>
       /\ Len(items[o]) = Len(listed[o]) /\ Len(counts[o]) = Len(listed[o])
       /\ \A k \in 1..Len(items[o]) : items[o][k] # "blocked"

Predicted(o) ==
  /\ Running(o) =>
       \A k \in 1..Len(items[o]) : k > Len(counts[o]) =>
         items[o][k] \in {"blocked", IF catalog[listed[o][k]] = None THEN "new" ELSE "existing"}
  /\ pc[o] = "select ingest" => (logical[o] <=> catalog[Checked(o)] # None)
  /\ \A k \in 1..Len(counts[o]) :
       items[o][k] # "reconcile" /\ (counts[o][k] = "created" <=> items[o][k] = "new")

AloneInv ==
  \A o \in Operators :
    (alone[o] /\ pc[o] # "idle") => RunSeen(o) /\ Others(o) /\ Verdict(o) /\ Predicted(o)

---------------------------------------------------------------------------------
(* A listing is a sequence of packages in strictly rising order.           *)
LEMMA ListingIs ==
  ASSUME NEW S \in SUBSET Packages, NEW all \in InOrder(S)
  PROVE  /\ all \in Seq(Packages)
         /\ \A i, j \in 1..Len(all) : i < j => all[i] < all[j]
<1>1. IsFiniteSet(Packages)
  BY FS_Interval DEF Packages
<1>2. Cardinality(S) \in Nat
  BY <1>1, FS_Subset, FS_CardinalityType
<1>3. all \in [1..Cardinality(S) -> Packages]
  BY DEF InOrder
<1>4. all \in Seq(Packages)
  BY <1>2, <1>3
<1>5. DOMAIN all = 1..Len(all)
  BY <1>4
<1> QED  BY <1>4, <1>5 DEF InOrder

(* What appending does.                                                    *)
LEMMA AppendIs ==
  ASSUME NEW S, NEW s \in Seq(S), NEW e \in S
  PROVE  /\ Append(s, e) \in Seq(S) /\ Append(s, e) # <<>>
         /\ Len(s) \in Nat /\ Len(Append(s, e)) = Len(s) + 1
         /\ \A k \in 1..(Len(s) + 1) : Append(s, e)[k] = IF k <= Len(s) THEN s[k] ELSE e
  BY AppendProperties, LenProperties

(* What the sequences of a command are.                                    *)
LEMMA Sequences ==
  ASSUME TypeOK, NEW o \in Operators
  PROVE  /\ listed[o] \in Seq(Packages) /\ Len(listed[o]) \in Nat
         /\ found[o] \in Seq(Contents) /\ Len(found[o]) \in Nat
         /\ items[o] \in Seq(Items) /\ Len(items[o]) \in Nat
         /\ counts[o] \in Seq(Counts) /\ Len(counts[o]) \in Nat
         /\ \A k \in 1..Len(listed[o]) : listed[o][k] \in Packages
         /\ \A k \in 1..Len(found[o]) : found[o][k] \in Contents
  BY LenProperties, ElementOfSeq DEF TypeOK

(* The package at hand in preflight, and in publication.                   *)
LEMMA AtHand ==
  ASSUME TypeOK, NEW o \in Operators
  PROVE  /\ Len(items[o]) < Len(listed[o]) =>
              /\ Len(items[o]) + 1 \in 1..Len(listed[o])
              /\ Checked(o) \in Packages /\ Checked(o) = listed[o][Len(items[o]) + 1]
         /\ Len(counts[o]) < Len(listed[o]) =>
              /\ Len(counts[o]) + 1 \in 1..Len(listed[o])
              /\ Published(o) \in Packages /\ Published(o) = listed[o][Len(counts[o]) + 1]
<1>1. \A n \in Nat : n < Len(listed[o]) => n + 1 \in 1..Len(listed[o])
  BY Sequences
<1> QED  BY <1>1, Sequences DEF Checked, Published

(* The initial states.                                                     *)
LEMMA InitInv == Init => PublishInv /\ AloneInv
<1> SUFFICES ASSUME Init PROVE PublishInv /\ AloneInv
  OBVIOUS
<1>1. TypeOK
  BY EmptySeq DEF Init, TypeOK, Shelves
<1>2. Held
  BY DEF Init, Held
<1>3. ASSUME NEW o \in Operators PROVE ShapeOf(o) /\ GateOf(o)
  BY EmptySeq DEF Init, ShapeOf, GateOf
<1>4. AloneInv
  BY DEF Init, AloneInv
<1> QED  BY <1>1, <1>2, <1>3, <1>4 DEF PublishInv

(* A version that is taken into custody is of what the package was, and    *)
(* fits what is there.                                                     *)
LEMMA StoredIs ==
  ASSUME NEW C \in SUBSET Contents, NEW shelf, NEW v \in Stored(C, shelf)
  PROVE  v.print \in Prints /\ v.text \in Texts /\ Accepts(shelf, v)
<1> DEFINE S == {c \in C : Sound(c)}
<1>1. /\ v \in [print : {PrintOf[c.text] : c \in S}, text : Copied(C)]
      /\ Accepts(shelf, v)
  BY DEF Stored
<1>2. \A c \in S : c.text \in Texts
  BY DEF Sound, Contents, Kinds
<1>3. PICK c \in S : v.print = PrintOf[c.text]
  BY <1>1
<1>4. v.text \in Texts
  <2>1. CASE Changed(C)
    BY <1>1, <2>1 DEF Copied
  <2>2. CASE ~Changed(C)
    <3>1. PICK d \in C : v.text = d.text
      BY <1>1, <2>2 DEF Copied
    <3> QED  BY <1>2, <2>2, <3>1 DEF Changed
  <2> QED  BY <2>1, <2>2
<1> QED  BY <1>1, <1>2, <1>3, <1>4 DEF Prints

(* What becomes of a package that is one content c all the while.          *)
LEMMA SteadyIs ==
  ASSUME NEW c \in Contents, NEW shelf
  PROVE  /\ ~Changed({c})
         /\ \A v \in Stored({c}, shelf) :
              v.print = PrintOf[c.text] /\ v.text = c.text
         /\ c.kind = "complete" =>
              ~Unready({c}) /\ (Raises({c}, shelf) => Clashes(c, shelf))
<1>1. ~Changed({c})
  BY DEF Changed
<1>2. ASSUME NEW v \in Stored({c}, shelf)
      PROVE  v.print = PrintOf[c.text] /\ v.text = c.text
  <2>1. v \in [print : {PrintOf[b.text] : b \in {d \in {c} : Sound(d)}}, text : Copied({c})]
    BY DEF Stored
  <2>2. v.print = PrintOf[c.text]
    BY <2>1
  <2>3. v.text = c.text
    BY <1>1, <2>1 DEF Copied
  <2> QED  BY <2>2, <2>3
<1>3. ASSUME c.kind = "complete" PROVE ~Unready({c}) /\ (Raises({c}, shelf) => Clashes(c, shelf))
  BY <1>1, <1>3 DEF Unready, Raises, Accepts, Clashes, Sound
<1> QED  BY <1>1, <1>2, <1>3

(* One version goes into custody, and perhaps into the catalog.            *)
Puts(o, v) == Shelve(o, v) /\ (Enter(o, v) \/ UNCHANGED catalog)

(* That touches one package only, replaces nothing in custody, and leaves  *)
(* the catalog behind custody.                                             *)
LEMMA PutsIs ==
  ASSUME PublishInv, NEW o \in Operators, pc[o] = "ingest", NEW v \in Versions(o), Puts(o, v)
  PROVE  /\ custody' \in [Packages -> Shelves] /\ catalog' \in [Packages -> Prints \cup {None}]
         /\ \A q \in Packages, f \in Prints :
              custody[q][f] # None => custody'[q][f] = custody[q][f]
         /\ v.print \in Prints /\ Published(o) \in Packages
         /\ custody'[Published(o)][v.print] = v.text
         /\ \A q \in Packages :
              catalog'[q] = catalog[q] \/ (q = Published(o) /\ catalog'[q] = v.print)
         /\ Held'
<1> DEFINE p == Published(o)
<1>0. TypeOK /\ Held
  BY DEF PublishInv
<1>1. p \in Packages
  BY <1>0, AtHand DEF PublishInv, ShapeOf
<1>2. /\ custody \in [Packages -> Shelves] /\ catalog \in [Packages -> Prints \cup {None}]
      /\ seen[o] \in SUBSET Contents
  BY <1>0 DEF TypeOK
<1>3. v.print \in Prints /\ v.text \in Texts /\ Accepts(custody[p], v)
  BY <1>2, StoredIs DEF Versions, Shelf
<1>4. custody' = [custody EXCEPT ![p] = [custody[p] EXCEPT ![v.print] = v.text]]
  BY DEF Puts, Shelve
<1>5. catalog' = catalog \/ catalog' = [catalog EXCEPT ![p] = v.print]
  BY DEF Puts, Enter
<1> HIDE DEF p
<1>6. custody[p] \in Shelves /\ [custody[p] EXCEPT ![v.print] = v.text] \in Shelves
  BY <1>1, <1>2, <1>3 DEF Shelves
<1>7. custody' \in [Packages -> Shelves]
  BY <1>1, <1>2, <1>4, <1>6
<1>8. /\ catalog' \in [Packages -> Prints \cup {None}]
      /\ \A q \in Packages : catalog'[q] = catalog[q] \/ (q = p /\ catalog'[q] = v.print)
  BY <1>1, <1>2, <1>3, <1>5
<1>9. custody'[p][v.print] = v.text
  BY <1>1, <1>2, <1>3, <1>4, <1>6 DEF Shelves
<1>10. ASSUME NEW q \in Packages, NEW f \in Prints, custody[q][f] # None
       PROVE  custody'[q][f] = custody[q][f]
  <2>1. CASE q = p /\ f = v.print
    BY <1>3, <1>9, <1>10, <2>1 DEF Accepts
  <2>2. CASE ~(q = p /\ f = v.print)
    BY <1>1, <1>2, <1>4, <1>6, <2>2 DEF Shelves
  <2> QED  BY <2>1, <2>2
<1>11. Held'
  <2>1. ASSUME NEW q \in Packages, catalog'[q] # None PROVE custody'[q][catalog'[q]] # None
    <3>1. CASE catalog'[q] = catalog[q]
      <4>1. custody[q][catalog[q]] # None
        BY <1>0, <2>1, <3>1 DEF Held
      <4>2. catalog[q] \in Prints
        BY <1>2, <2>1, <3>1
      <4> QED  BY <1>10, <3>1, <4>1, <4>2
    <3>2. CASE q = p /\ catalog'[q] = v.print
      BY <1>3, <1>9, <3>2
    <3> QED  BY <1>8, <3>1, <3>2
  <2> QED  BY <2>1 DEF Held
<1> QED  BY <1>1, <1>3, <1>7, <1>8, <1>9, <1>10, <1>11 DEF p

(* What an ingest does to custody and catalog.                             *)
Writes(o) == UNCHANGED stores \/ (pc[o] = "ingest" /\ \E v \in Versions(o) : Puts(o, v))

(* Their types, and Held, survive it.                                      *)
LEMMA WritesAre ==
  ASSUME PublishInv, NEW o \in Operators, Writes(o)
  PROVE  /\ custody' \in [Packages -> Shelves] /\ catalog' \in [Packages -> Prints \cup {None}]
         /\ Held'
<1>1. CASE UNCHANGED stores
  BY <1>1 DEF stores, PublishInv, TypeOK, Held
<1>2. CASE pc[o] = "ingest" /\ \E v \in Versions(o) : Puts(o, v)
  BY <1>2, PutsIs
<1> QED  BY <1>1, <1>2 DEF Writes

(* The two ends of an ingest write like that.                              *)
LEMMA IngestWrites ==
  ASSUME NEW o \in Operators, IngestReturns(o) \/ IngestFails(o)
  PROVE  Writes(o)
<1>1. Leaves(o) => UNCHANGED stores \/ \E v \in Versions(o) : Puts(o, v)
  BY DEF Leaves, Puts
<1>2. pc[o] = "ingest"
  BY DEF IngestReturns, IngestFails
<1>3. ASSUME NEW v \in Versions(o), Shelve(o, v), Enter(o, v) PROVE Puts(o, v)
  BY <1>3 DEF Puts
<1>4. CASE IngestFails(o)
  BY <1>1, <1>2, <1>4 DEF IngestFails, Writes
<1>5. CASE IngestReturns(o)
  BY <1>1, <1>2, <1>3, <1>5 DEF IngestReturns, Writes
<1> QED  BY <1>4, <1>5

(* Every step keeps the types.                                             *)
LEMMA NextTypes == PublishInv /\ [Next]_vars => TypeOK'
<1> SUFFICES ASSUME PublishInv, [Next]_vars PROVE TypeOK'
  OBVIOUS
<1>0. TypeOK
  BY DEF PublishInv
<1> USE <1>0 DEF bounds, stores, Goto, Stay, Done
<1>1. ASSUME EditRun PROVE TypeOK'
  <2>1. PICK p \in Packages, c \in Outputs :
          /\ run' = [run EXCEPT ![p] = c]
          /\ seen' = [o \in Operators |->
                        IF pc[o] = "ingest" /\ Published(o) = p THEN seen[o] \cup {c} ELSE seen[o]]
    BY <1>1 DEF EditRun
  <2>2. c \in Contents /\ run' \in [Packages -> Contents]
    BY <2>1 DEF TypeOK
  <2>3. seen' \in [Operators -> SUBSET Contents]
    <3>1. \A o \in Operators : seen[o] \cup {c} \in SUBSET Contents
      BY <2>2 DEF TypeOK
    <3>2. seen \in [Operators -> SUBSET Contents]
      BY DEF TypeOK
    <3> QED  BY <2>1, <3>1, <3>2
  <2>4. edits' \in Nat /\ alone' \in [Operators -> BOOLEAN]
    <3>1. edits \in Nat /\ edits' = edits + 1
      BY <1>1 DEF EditRun, TypeOK
    <3>2. alone' = [j \in Operators |-> FALSE]
      BY <1>1 DEF EditRun
    <3> QED  BY <3>1, <3>2
  <2>5. UNCHANGED <<custody, catalog, pc, dry, listed, found, items, logical, counts,
                    verdict, verified, faults, commands>>
    BY <1>1 DEF EditRun, stores
  <2> QED  BY <2>2, <2>3, <2>4, <2>5 DEF TypeOK
<1>2. ASSUME NEW o \in Operators, Discover(o) PROVE TypeOK'
  <2>1. PICK all \in InOrder({p \in Packages : run[p].kind # "absent"}) :
          /\ listed' = [listed EXCEPT ![o] = all]
          /\ found' = [found EXCEPT ![o] = [k \in DOMAIN all |-> run[all[k]]]]
    BY <1>2 DEF Discover
  <2>2. all \in Seq(Packages)
    BY ListingIs
  <2>3. [k \in DOMAIN all |-> run[all[k]]] \in Seq(Contents)
    <3>1. DOMAIN all = 1..Len(all) /\ Len(all) \in Nat
      BY <2>2
    <3>2. \A k \in 1..Len(all) : all[k] \in Packages
      BY <2>2, ElementOfSeq
    <3>3. \A k \in 1..Len(all) : run[all[k]] \in Contents
      BY <3>2 DEF TypeOK
    <3> QED  BY <3>1, <3>3
  <2>4. listed' \in [Operators -> Seq(Packages)] /\ found' \in [Operators -> Seq(Contents)]
    BY <2>1, <2>2, <2>3 DEF TypeOK
  <2>5. alone' \in [Operators -> BOOLEAN]
    BY <1>2 DEF Discover, TypeOK
  <2>6. dry' \in [Operators -> BOOLEAN]
    BY <1>2 DEF Discover, TypeOK
  <2>7. /\ pc' = [pc EXCEPT ![o] = "check"] /\ commands' = commands + 1
        /\ UNCHANGED <<run, custody, catalog, items, logical, seen, counts, verified, verdict,
                       edits, faults>>
    BY <1>2 DEF Discover, stores
  <2>8. /\ pc' \in [Operators -> {"idle", "check", "select ingest", "publish", "ingest", "done"}]
        /\ commands' \in Nat
    <3>1. commands \in Nat
      BY DEF TypeOK
    <3>2. pc \in [Operators -> {"idle", "check", "select ingest", "publish", "ingest", "done"}]
      BY DEF TypeOK
    <3>3. commands' \in Nat
      <4>1. commands' = commands + 1
        BY <2>7
      <4> QED  BY <3>1, <4>1
    <3>4. pc' \in [Operators -> {"idle", "check", "select ingest", "publish", "ingest", "done"}]
      <4>1. pc' = [pc EXCEPT ![o] = "check"]
        BY <2>7
      <4> QED  BY <3>2, <4>1
    <3> QED  BY <3>3, <3>4
  <2> QED  BY <2>4, <2>5, <2>6, <2>7, <2>8 DEF TypeOK
<1>3. ASSUME NEW o \in Operators, CheckItem(o) PROVE TypeOK'
  <2>1. Append(items[o], "blocked") \in Seq(Items)
    BY AppendIs, Sequences DEF Items
  <2> QED  BY <1>3, <2>1 DEF CheckItem, Item, TypeOK
<1>4. ASSUME NEW o \in Operators, SelectIngest(o) PROVE TypeOK'
  <2>1. \A item \in Items : Append(items[o], item) \in Seq(Items)
    BY AppendIs, Sequences
  <2>2. \E item \in Items : Item(o, item)
    BY <1>4 DEF SelectIngest, Items
  <2> QED  BY <1>4, <2>1, <2>2 DEF SelectIngest, Item, TypeOK
<1>5. ASSUME NEW o \in Operators, Gate(o) PROVE TypeOK'
  BY <1>5 DEF Gate, TypeOK
<1>6. ASSUME NEW o \in Operators, CallIngest(o) PROVE TypeOK'
  <2>1. seen' \in [Operators -> SUBSET Contents]
    <3>1. CASE Len(counts[o]) < Len(listed[o])
      <4>0. Published(o) \in Packages /\ run \in [Packages -> Contents]
        BY <3>1, AtHand DEF TypeOK
      <4>1. {run[Published(o)]} \in SUBSET Contents
        BY <4>0
      <4>2. seen' = [seen EXCEPT ![o] = {run[Published(o)]}]
        BY <1>6, <3>1 DEF CallIngest
      <4> QED  BY <4>1, <4>2 DEF TypeOK
    <3>2. CASE ~ Len(counts[o]) < Len(listed[o])
      BY <1>6, <3>2 DEF CallIngest, TypeOK
    <3> QED  BY <3>1, <3>2
  <2> QED  BY <1>6, <2>1 DEF CallIngest, TypeOK
<1>7. ASSUME NEW o \in Operators, IngestReturns(o) PROVE TypeOK'
  <2>1. Published(o) \in Packages /\ pc[o] = "ingest"
    BY <1>7, AtHand DEF IngestReturns, PublishInv, ShapeOf
  <2>2. custody' \in [Packages -> Shelves] /\ catalog' \in [Packages -> Prints \cup {None}]
    BY <1>7, IngestWrites, WritesAre
  <2>3. \A c \in Counts : Append(counts[o], c) \in Seq(Counts)
    BY AppendIs, Sequences
  <2>4. UNCHANGED counts \/ \E c \in Counts : Count(o, c)
    BY <1>7 DEF IngestReturns, CountOf, Counts
  <2>5. counts' \in [Operators -> Seq(Counts)]
    BY <2>3, <2>4 DEF Count, TypeOK
  <2>6. verified' \in [Operators -> SUBSET Packages]
    <3>1. [verified EXCEPT ![o] = @ \cup {Published(o)}] \in [Operators -> SUBSET Packages]
      BY <2>1 DEF TypeOK
    <3>2. verified \in [Operators -> SUBSET Packages]
      BY DEF TypeOK
    <3> QED  BY <1>7, <3>1, <3>2 DEF IngestReturns
  <2>7. /\ pc' \in [Operators -> {"idle", "check", "select ingest", "publish", "ingest", "done"}]
        /\ verdict' \in [Operators -> {"none", "PASS", "BLOCKED", "FAILED"}]
    BY <1>7 DEF IngestReturns, TypeOK
  <2>8. seen' \in [Operators -> SUBSET Contents]
    BY <1>7 DEF IngestReturns, TypeOK
  <2>9. UNCHANGED <<run, dry, listed, found, items, logical, alone, edits, faults, commands>>
    BY <1>7 DEF IngestReturns
  <2> QED  BY <2>2, <2>5, <2>6, <2>7, <2>8, <2>9 DEF TypeOK
<1>8. ASSUME NEW o \in Operators, IngestFails(o) PROVE TypeOK'
  <2>1. custody' \in [Packages -> Shelves] /\ catalog' \in [Packages -> Prints \cup {None}]
    BY <1>8, IngestWrites, WritesAre
  <2>2. alone' \in [Operators -> BOOLEAN] /\ faults' \in Nat
    <3>1. alone' = [alone EXCEPT ![o] = FALSE] /\ faults' = faults + 1
      BY <1>8 DEF IngestFails
    <3>2. alone \in [Operators -> BOOLEAN] /\ faults \in Nat
      BY DEF TypeOK
    <3> QED  BY <3>1, <3>2
  <2>3. /\ pc' \in [Operators -> {"idle", "check", "select ingest", "publish", "ingest", "done"}]
        /\ verdict' \in [Operators -> {"none", "PASS", "BLOCKED", "FAILED"}]
    BY <1>8 DEF IngestFails, TypeOK
  <2>4. /\ UNCHANGED <<run, dry, listed, found, items, logical, counts, verified,
                       edits, commands>>
        /\ seen' \in [Operators -> SUBSET Contents]
    BY <1>8 DEF IngestFails, TypeOK
  <2> QED  BY <2>1, <2>2, <2>3, <2>4 DEF TypeOK
<1>9. ASSUME NEW o \in Operators, Exit(o) PROVE TypeOK'
  BY <1>9, EmptySeq DEF Exit, TypeOK
<1>10. CASE UNCHANGED vars
  BY <1>10 DEF vars, TypeOK
<1> QED
  BY <1>1, <1>2, <1>3, <1>4, <1>5, <1>6, <1>7, <1>8, <1>9, <1>10 DEF Next, Step

(* A step of one command leaves the others where they are.                 *)
Command(o) == Discover(o) \/ Step(o) \/ Exit(o)

(* A command leaves the other commands where they are.                       *)
LEMMA OthersStand ==
  ASSUME TypeOK, NEW o \in Operators, Command(o), NEW j \in Operators, j # o
  PROVE  /\ pc'[j] = pc[j] /\ verdict'[j] = verdict[j] /\ listed'[j] = listed[j]
         /\ found'[j] = found[j] /\ items'[j] = items[j] /\ counts'[j] = counts[j]
         /\ dry'[j] = dry[j] /\ seen'[j] = seen[j] /\ logical'[j] = logical[j]
         /\ alone'[j] => alone[j]
<1> USE DEF TypeOK, bounds, Goto, Stay, Done, Item, Count
<1>1. CASE Discover(o)
  BY <1>1 DEF Discover
<1>2. CASE CheckItem(o)
  BY <1>2 DEF CheckItem
<1>3. CASE SelectIngest(o)
  BY <1>3 DEF SelectIngest
<1>4. CASE Gate(o)
  BY <1>4 DEF Gate
<1>5. CASE CallIngest(o)
  BY <1>5 DEF CallIngest
<1>6. CASE IngestReturns(o)
  BY <1>6 DEF IngestReturns
<1>7. CASE IngestFails(o)
  BY <1>7 DEF IngestFails
<1>8. CASE Exit(o)
  BY <1>8 DEF Exit
<1> QED  BY <1>1, <1>2, <1>3, <1>4, <1>5, <1>6, <1>7, <1>8 DEF Command, Step

(* No command changes the run, or more than that of custody and catalog.   *)
LEMMA CommandsCommit ==
  ASSUME TypeOK, NEW o \in Operators, Command(o)
  PROVE  run' = run /\ Writes(o)
<1> USE DEF bounds, Writes
<1>1. CASE Discover(o)
  BY <1>1 DEF Discover
<1>2. CASE CheckItem(o)
  BY <1>2 DEF CheckItem
<1>3. CASE SelectIngest(o)
  BY <1>3 DEF SelectIngest
<1>4. CASE Gate(o)
  BY <1>4 DEF Gate
<1>5. CASE CallIngest(o)
  BY <1>5 DEF CallIngest
<1>6. CASE IngestReturns(o)
  BY <1>6, IngestWrites DEF IngestReturns
<1>7. CASE IngestFails(o)
  BY <1>7, IngestWrites DEF IngestFails
<1>8. CASE Exit(o)
  BY <1>8 DEF Exit
<1> QED  BY <1>1, <1>2, <1>3, <1>4, <1>5, <1>6, <1>7, <1>8 DEF Command, Step

(* What the step of a command does to the command itself: how its pc moves *)
(* and what it appends.                                                    *)
Moves(o, from, to) == pc[o] = from /\ pc'[o] = to
Keeps(o) == items'[o] = items[o] /\ counts'[o] = counts[o]
Stands(o) ==
  listed'[o] = listed[o] /\ found'[o] = found[o] /\ dry'[o] = dry[o]

(* What discovery moves of its own command.                                  *)
LEMMA OwnDiscover ==
  ASSUME PublishInv, NEW o \in Operators, Discover(o)
  PROVE  /\ Moves(o, "idle", "check") /\ Keeps(o) /\ verdict'[o] = "none"
         /\ items[o] = <<>> /\ counts[o] = <<>>
         /\ \A i, j \in 1..Len(listed'[o]) : i < j => listed'[o][i] < listed'[o][j]
         /\ listed'[o] \in Seq(Packages)
         /\ Len(found'[o]) = Len(listed'[o])
         /\ \A k \in 1..Len(listed'[o]) : found'[o][k] = run[listed'[o][k]]
<1>0. TypeOK /\ ShapeOf(o)
  BY DEF PublishInv
<1>1. pc[o] = "idle" /\ pc'[o] = "check" /\ verdict'[o] = verdict[o] /\ Keeps(o)
  BY <1>0 DEF Discover, Stay, Goto, TypeOK, Keeps
<1>2. PICK all \in InOrder({p \in Packages : run[p].kind # "absent"}) :
        /\ listed' = [listed EXCEPT ![o] = all]
        /\ found' = [found EXCEPT ![o] = [k \in DOMAIN all |-> run[all[k]]]]
  BY DEF Discover
<1>3. /\ all \in Seq(Packages)
      /\ \A i, j \in 1..Len(all) : i < j => all[i] < all[j]
  BY ListingIs
<1>4. listed'[o] = all /\ found'[o] = [k \in DOMAIN all |-> run[all[k]]]
  BY <1>0, <1>2 DEF TypeOK
<1>5. DOMAIN all = 1..Len(all) /\ Len(all) \in Nat
  BY <1>3
<1>6. Len(found'[o]) = Len(all) /\ \A k \in 1..Len(all) : found'[o][k] = run[all[k]]
  BY <1>4, <1>5
<1>7. items[o] = <<>> /\ counts[o] = <<>>
  <2>1. Len(items[o]) = 0 /\ Len(counts[o]) <= Len(items[o]) /\ items[o] = <<>>
    BY <1>0, <1>1 DEF ShapeOf
  <2>2. counts[o] \in Seq(Counts) /\ Len(counts[o]) \in Nat
    BY <1>0, Sequences
  <2> QED  BY <2>1, <2>2, EmptySeq
<1>8. verdict[o] = "none"
  BY <1>0, <1>1 DEF ShapeOf
<1> QED  BY <1>1, <1>3, <1>4, <1>6, <1>7, <1>8 DEF Moves

(* What the check of a package moves of its own command.                     *)
LEMMA OwnCheckItem ==
  ASSUME PublishInv, NEW o \in Operators, CheckItem(o)
  PROVE  /\ Stands(o) /\ verdict'[o] = verdict[o] /\ counts'[o] = counts[o]
         /\ Len(items[o]) < Len(listed[o]) /\ UNCHANGED stores /\ alone' = alone
         /\ \/ /\ Moves(o, "check", "check") /\ FALSE \in Passes(o)
               /\ items'[o] = Append(items[o], "blocked")
            \/ /\ Moves(o, "check", "select ingest") /\ TRUE \in Passes(o)
               /\ items'[o] = items[o] /\ (logical'[o] <=> catalog[Checked(o)] # None)
  BY DEF CheckItem, Item, Stay, Goto, PublishInv, TypeOK, Stands, Moves

(* What a selected package moves of its own command.                         *)
LEMMA OwnSelectIngest ==
  ASSUME PublishInv, NEW o \in Operators, SelectIngest(o)
  PROVE  /\ Stands(o) /\ verdict'[o] = verdict[o] /\ counts'[o] = counts[o]
         /\ UNCHANGED stores /\ alone' = alone /\ Moves(o, "select ingest", "check")
         /\ \E item \in {"existing", "reconcile", "new"} :
              /\ items'[o] = Append(items[o], item)
              /\ (logical[o] <=> catalog[Checked(o)] # None) =>
                    item = IF catalog[Checked(o)] = None THEN "new" ELSE "existing"
  BY DEF SelectIngest, Item, Stay, Goto, PublishInv, TypeOK, Stands, Moves

(* What the gate moves of its own command.                                   *)
LEMMA OwnGate ==
  ASSUME PublishInv, NEW o \in Operators, Gate(o)
  PROVE  /\ Stands(o) /\ Keeps(o) /\ UNCHANGED stores /\ alone' = alone
         /\ pc[o] = "check" /\ Len(items[o]) = Len(listed[o])
         /\ \/ /\ pc'[o] = "done" /\ verdict'[o] = "BLOCKED"
               /\ \E k \in 1..Len(items[o]) : items[o][k] = "blocked"
            \/ /\ \A k \in 1..Len(items[o]) : items[o][k] # "blocked"
               /\ \/ pc'[o] = "done" /\ verdict'[o] = "PASS" /\ dry[o]
                  \/ pc'[o] = "publish" /\ verdict'[o] = verdict[o] /\ ~dry[o]
<1>1. DOMAIN items[o] = 1..Len(items[o])
  BY Sequences DEF PublishInv
<1> QED  BY <1>1 DEF Gate, Blocked, Done, Stay, Goto, PublishInv, TypeOK, Stands, Keeps

(* What handing a package over moves of its own command.                     *)
LEMMA OwnCallIngest ==
  ASSUME PublishInv, NEW o \in Operators, CallIngest(o)
  PROVE  /\ listed'[o] = listed[o] /\ found'[o] = found[o] /\ dry'[o] = dry[o] /\ Keeps(o)
         /\ UNCHANGED stores /\ alone' = alone /\ pc[o] = "publish"
         /\ \/ /\ Len(counts[o]) < Len(listed[o]) /\ seen'[o] = {run[Published(o)]}
               /\ pc'[o] = "ingest" /\ verdict'[o] = verdict[o]
            \/ /\ ~ Len(counts[o]) < Len(listed[o])
               /\ pc'[o] = "done" /\ verdict'[o] = "PASS"
  BY DEF CallIngest, Done, Stay, Goto, PublishInv, TypeOK, Keeps

(* What a returning ingest moves of its own command.                         *)
LEMMA OwnIngestReturns ==
  ASSUME PublishInv, NEW o \in Operators, IngestReturns(o)
  PROVE  /\ Stands(o) /\ items'[o] = items[o] /\ alone' = alone /\ pc[o] = "ingest"
         /\ \/ /\ pc'[o] = "publish" /\ verdict'[o] = verdict[o]
               /\ \/ \E v \in Versions(o) :
                       /\ Puts(o, v) /\ catalog' = [catalog EXCEPT ![Published(o)] = v.print]
                       /\ counts'[o] =
                            Append(counts[o], CountOf(catalog[Published(o)], v.print))
                  \/ /\ Unready(seen[o])
                     /\ counts'[o] = Append(counts[o], "unchanged")
            \/ /\ pc'[o] = "done" /\ verdict'[o] = "FAILED" /\ counts'[o] = counts[o]
               /\ Raises(seen[o], Shelf(o)) /\ (UNCHANGED stores \/ Changed(seen[o]))
<1>0. TypeOK
  BY DEF PublishInv
<1>1. Stands(o) /\ items'[o] = items[o] /\ alone' = alone /\ pc[o] = "ingest"
  BY DEF IngestReturns, Stands
<1>2. \A step \in {"publish", "done"} : Goto(o, step) => pc'[o] = step
  BY <1>0 DEF Goto, TypeOK
<1>3. \A c \in Counts : Count(o, c) => counts'[o] = Append(counts[o], c)
  BY <1>0 DEF Count, TypeOK
<1>4. Done(o, "FAILED") => pc'[o] = "done" /\ verdict'[o] = "FAILED"
  BY <1>0, <1>2 DEF Done, TypeOK
<1>5. Stay(o, "publish") => pc'[o] = "publish" /\ verdict'[o] = verdict[o]
  BY <1>2 DEF Stay
<1>6. CASE \E v \in Versions(o) :
             /\ Shelve(o, v) /\ Enter(o, v) /\ Stay(o, "publish")
             /\ Count(o, CountOf(catalog[Published(o)], v.print))
  <2>1. PICK v \in Versions(o) :
          /\ Shelve(o, v) /\ Enter(o, v) /\ Stay(o, "publish")
          /\ Count(o, CountOf(catalog[Published(o)], v.print))
    BY <1>6
  <2>2. CountOf(catalog[Published(o)], v.print) \in Counts
    BY DEF CountOf, Counts
  <2>3. Puts(o, v) /\ catalog' = [catalog EXCEPT ![Published(o)] = v.print]
    BY <2>1 DEF Puts, Enter
  <2> QED  BY <1>1, <1>3, <1>5, <2>1, <2>2, <2>3
<1>7. CASE Unready(seen[o]) /\ Count(o, "unchanged") /\ Stay(o, "publish")
  BY <1>1, <1>3, <1>5, <1>7 DEF Counts
<1>8. CASE /\ Raises(seen[o], Shelf(o)) /\ Done(o, "FAILED") /\ UNCHANGED counts
           /\ UNCHANGED stores \/ Changed(seen[o])
  BY <1>1, <1>4, <1>8
<1> QED  BY <1>6, <1>7, <1>8 DEF IngestReturns

(* What a failing ingest moves of its own command.                           *)
LEMMA OwnIngestFails ==
  ASSUME PublishInv, NEW o \in Operators, IngestFails(o)
  PROVE  /\ Stands(o) /\ Keeps(o) /\ alone'[o] = FALSE
         /\ pc[o] = "ingest" /\ pc'[o] = "done" /\ verdict'[o] = "FAILED"
  BY DEF IngestFails, Done, Goto, PublishInv, TypeOK, Stands, Keeps

(* What the end of a command moves of it.                                    *)
LEMMA OwnExit ==
  ASSUME PublishInv, NEW o \in Operators, Exit(o)
  PROVE  /\ pc[o] # "idle" /\ pc'[o] = "idle" /\ verdict'[o] = "none"
         /\ listed'[o] = <<>> /\ found'[o] = <<>> /\ items'[o] = <<>> /\ counts'[o] = <<>>
         /\ UNCHANGED stores /\ alone' = alone
  BY DEF Exit, Goto, PublishInv, TypeOK

(* An action of a command keeps its own shape, and the gate.               *)
LEMMA CommandShape ==
  ASSUME PublishInv, NEW o \in Operators, Command(o)
  PROVE  ShapeOf(o)' /\ GateOf(o)'
<1>0. TypeOK /\ ShapeOf(o) /\ GateOf(o)
  BY DEF PublishInv
<1>1. CASE Discover(o)
  <2>1. Len(listed'[o]) \in Nat /\ Len(<<>>) = 0
    BY <1>1, OwnDiscover, LenProperties, EmptySeq
  <2>2. /\ pc'[o] = "check" /\ verdict'[o] = "none"
        /\ items'[o] = <<>> /\ counts'[o] = <<>>
    BY <1>1, OwnDiscover DEF Moves, Keeps
  <2>3. /\ \A i, j \in 1..Len(listed'[o]) : i < j => listed'[o][i] < listed'[o][j]
        /\ Len(found'[o]) = Len(listed'[o])
    BY <1>1, OwnDiscover
  <2>4. Len(items'[o]) <= Len(listed'[o]) /\ Len(counts'[o]) <= Len(items'[o])
    BY <2>1, <2>2
  <2>5. ShapeOf(o)'
    BY <2>2, <2>3, <2>4 DEF ShapeOf
  <2> QED  BY <2>2, <2>5 DEF GateOf
<1>2. CASE CheckItem(o)
  <2>1. /\ Len(Append(items[o], "blocked")) = Len(items[o]) + 1
        /\ Len(items[o]) \in Nat /\ Len(listed[o]) \in Nat /\ Len(counts[o]) \in Nat
    BY <1>0, Sequences, AppendIs DEF Items
  <2>2. /\ Stands(o) /\ verdict'[o] = verdict[o] /\ counts'[o] = counts[o]
        /\ Len(items[o]) < Len(listed[o])
        /\ pc[o] = "check" /\ pc'[o] \in {"check", "select ingest"}
        /\ \/ items'[o] = items[o]
           \/ pc'[o] = "check" /\ items'[o] = Append(items[o], "blocked")
    BY <1>2, OwnCheckItem DEF Moves
  <2>3. /\ Len(items'[o]) <= Len(listed[o]) /\ Len(counts[o]) <= Len(items'[o])
        /\ pc'[o] = "select ingest" => Len(items'[o]) < Len(listed[o])
    <3>1. Len(counts[o]) <= Len(items[o])
      BY <1>0 DEF ShapeOf
    <3>2. CASE items'[o] = items[o]
      <4>1. Len(items'[o]) = Len(items[o])
        BY <3>2
      <4>2. Len(items[o]) < Len(listed[o]) /\ Len(items[o]) <= Len(listed[o])
        <5>1. \A a, b \in Nat : a < b => a <= b
          OBVIOUS
        <5> QED  BY <2>1, <2>2, <5>1
      <4> QED  BY <3>1, <4>1, <4>2, Zenon
    <3>3. CASE pc'[o] = "check" /\ items'[o] = Append(items[o], "blocked")
      <4>1. Len(items'[o]) = Len(items[o]) + 1
        BY <2>1, <3>3
      <4>2. Len(items[o]) < Len(listed[o])
        BY <2>2
      <4> QED  BY <2>1, <3>1, <3>3, <4>1, <4>2
    <3> QED  BY <2>2, <3>2, <3>3
  <2>4. ShapeOf(o)'
    BY <1>0, <2>2, <2>3 DEF ShapeOf, Stands
  <2> QED  BY <1>0, <2>2, <2>4 DEF ShapeOf, GateOf
<1>3. CASE SelectIngest(o)
  <2>1. /\ \A item \in Items : Len(Append(items[o], item)) = Len(items[o]) + 1
        /\ Len(items[o]) \in Nat /\ Len(listed[o]) \in Nat /\ Len(counts[o]) \in Nat
    BY <1>0, Sequences, AppendIs
  <2>2. PICK item \in Items : items'[o] = Append(items[o], item)
    BY <1>3, OwnSelectIngest DEF Items
  <2>3. /\ Stands(o) /\ verdict'[o] = verdict[o] /\ counts'[o] = counts[o]
        /\ pc[o] = "select ingest" /\ pc'[o] = "check"
    BY <1>3, OwnSelectIngest DEF Moves
  <2>4. Len(items'[o]) <= Len(listed[o]) /\ Len(counts[o]) <= Len(items'[o])
    <3>1. Len(counts[o]) <= Len(items[o]) /\ Len(items[o]) < Len(listed[o])
      BY <1>0, <2>3 DEF ShapeOf
    <3>2. Len(items'[o]) = Len(items[o]) + 1
      BY <2>1, <2>2
    <3> QED  BY <2>1, <3>1, <3>2
  <2>5. ShapeOf(o)'
    BY <1>0, <2>3, <2>4 DEF ShapeOf, Stands
  <2> QED  BY <1>0, <2>3, <2>5 DEF ShapeOf, GateOf
<1>4. CASE Gate(o)
  BY <1>0, <1>4, OwnGate DEF ShapeOf, GateOf, Stands, Keeps
<1>5. CASE CallIngest(o)
  <2>1. pc'[o] = "ingest" => Len(counts[o]) < Len(listed[o])
    BY <1>5, OwnCallIngest
  <2>2. pc'[o] \in {"ingest", "done"}
    BY <1>5, OwnCallIngest
  <2>3. ShapeOf(o)'
    BY <1>0, <1>5, <2>1, <2>2, OwnCallIngest DEF ShapeOf, Keeps
  <2>4. GateOf(o)'
    BY <1>0, <1>5, OwnCallIngest DEF GateOf, Keeps
  <2> QED  BY <2>3, <2>4
<1>6. CASE IngestReturns(o)
  <2>1. /\ \A c \in Counts : Len(Append(counts[o], c)) = Len(counts[o]) + 1
        /\ Len(items[o]) \in Nat /\ Len(listed[o]) \in Nat /\ Len(counts[o]) \in Nat
    BY <1>0, Sequences, AppendIs
  <2>2. counts'[o] = counts[o] \/ \E c \in Counts : counts'[o] = Append(counts[o], c)
    BY <1>6, OwnIngestReturns DEF CountOf, Counts
  <2>3. Len(counts'[o]) <= Len(items[o])
    <3>1. Len(counts[o]) < Len(items[o])
      BY <1>0, <1>6, OwnIngestReturns DEF ShapeOf, GateOf
    <3> QED  BY <2>1, <2>2, <3>1
  <2>4. ShapeOf(o)'
    BY <1>0, <1>6, <2>3, OwnIngestReturns DEF ShapeOf, Stands
  <2>5. GateOf(o)'
    BY <1>0, <1>6, OwnIngestReturns DEF GateOf, Stands
  <2> QED  BY <2>4, <2>5
<1>7. CASE IngestFails(o)
  BY <1>0, <1>7, OwnIngestFails DEF ShapeOf, GateOf, Stands, Keeps
<1>8. CASE Exit(o)
  <2>1. Len(<<>>) = 0
    BY EmptySeq
  <2>2. /\ pc'[o] = "idle" /\ verdict'[o] = "none" /\ listed'[o] = <<>>
        /\ found'[o] = <<>> /\ items'[o] = <<>> /\ counts'[o] = <<>>
    BY <1>8, OwnExit
  <2>3. ShapeOf(o)'
    BY <2>1, <2>2 DEF ShapeOf
  <2> QED  BY <2>2, <2>3 DEF GateOf
<1> QED  BY <1>1, <1>2, <1>3, <1>4, <1>5, <1>6, <1>7, <1>8 DEF Command, Step

(* The invariant is kept by every step.                                    *)
LEMMA NextPublish == PublishInv /\ [Next]_vars => PublishInv'
<1> SUFFICES ASSUME PublishInv, [Next]_vars PROVE PublishInv'
  OBVIOUS
<1>0. TypeOK /\ Held
  BY DEF PublishInv
<1>1. ASSUME NEW o \in Operators, Command(o)
      PROVE  Held' /\ \A j \in Operators : ShapeOf(j)' /\ GateOf(j)'
  <2>1. Held'
    BY <1>0, <1>1, CommandsCommit, WritesAre
  <2>2. ASSUME NEW j \in Operators, j # o PROVE ShapeOf(j)' /\ GateOf(j)'
    <3>1. ShapeOf(j) /\ GateOf(j)
      BY DEF PublishInv
    <3> QED  BY <1>0, <1>1, <2>2, <3>1, OthersStand DEF ShapeOf, GateOf
  <2> QED  BY <1>1, <2>1, <2>2, CommandShape
<1>2. ASSUME EditRun PROVE Held' /\ \A j \in Operators : ShapeOf(j)' /\ GateOf(j)'
  <2>1. UNCHANGED <<custody, catalog, pc, dry, listed, found, items, counts, verdict>>
    BY <1>2 DEF EditRun, stores
  <2> QED  BY <1>0, <2>1 DEF PublishInv, Held, ShapeOf, GateOf
<1>3. ASSUME UNCHANGED vars PROVE Held' /\ \A j \in Operators : ShapeOf(j)' /\ GateOf(j)'
  BY <1>3 DEF vars, PublishInv, Held, ShapeOf, GateOf
<1> QED  BY <1>1, <1>2, <1>3, NextTypes DEF PublishInv, Next, Command

(* Of a command: how far it is and that it has passed the gate; and that   *)
(* the catalog is behind custody, in every reachable state.                *)
THEOREM PublishInductive == Spec => []PublishInv
<1> QED  BY InitInv, NextPublish, PTL DEF Spec

(* GateHolds, for runs of any length and any number of operators: nothing  *)
(* is published before preflight has been through everything and blocked   *)
(* nothing, and the catalog names no fingerprint that custody lacks.       *)
THEOREM GateIsKept == Spec => []GateHolds
<1>1. ASSUME PublishInv PROVE GateHolds
  <2>1. \A o \in Operators : DOMAIN items[o] = 1..Len(items[o])
    BY <1>1, Sequences DEF PublishInv
  <2> QED  BY <1>1, <2>1 DEF PublishInv, Held, GateOf, GateHolds, Blocked
<1> QED  BY PublishInductive, <1>1, PTL

---------------------------------------------------------------------------------
(* The undisturbed command.                                                *)
Sure(o) == RunSeen(o) /\ Others(o) /\ Verdict(o) /\ Predicted(o)

(* The package that a running, undisturbed command has at hand.            *)
LEMMA SureAtHand ==
  ASSUME PublishInv, NEW o \in Operators, RunSeen(o)
  PROVE  /\ pc[o] = "check" /\ Len(items[o]) < Len(listed[o]) =>
              Passes(o) = {Kind(o, Len(items[o]) + 1) = "complete"}
         /\ pc[o] = "ingest" =>
              /\ run[Published(o)].kind = "complete"
              /\ Len(counts[o]) + 1 \in 1..Len(items[o])
              /\ items[o][Len(counts[o]) + 1] # "blocked"
<1>0. TypeOK /\ ShapeOf(o) /\ GateOf(o)
  BY DEF PublishInv
<1>1. ASSUME pc[o] = "check", Len(items[o]) < Len(listed[o])
      PROVE  Passes(o) = {Kind(o, Len(items[o]) + 1) = "complete"}
  <2>1. found[o][Len(items[o]) + 1] = run[Checked(o)] /\ Checked(o) = listed[o][Len(items[o]) + 1]
    BY <1>0, <1>1, AtHand DEF RunSeen
  <2> QED  BY <2>1 DEF Passes, Kind
<1>2. ASSUME pc[o] = "ingest"
      PROVE  /\ run[Published(o)].kind = "complete"
             /\ Len(counts[o]) + 1 \in 1..Len(items[o])
             /\ items[o][Len(counts[o]) + 1] # "blocked"
  <2>1. /\ Len(counts[o]) + 1 \in 1..Len(listed[o])
        /\ Published(o) = listed[o][Len(counts[o]) + 1]
    BY <1>0, <1>2, AtHand DEF ShapeOf
  <2>2. Len(items[o]) = Len(listed[o])
    BY <1>0, <1>2 DEF GateOf
  <2>3. items[o][Len(counts[o]) + 1] # "blocked"
    BY <1>0, <1>2, <2>1, <2>2 DEF GateOf
  <2> QED  BY <2>1, <2>2, <2>3 DEF RunSeen, Kind
<1> QED  BY <1>1, <1>2

(* Discovery of an undisturbed command.                                      *)
LEMMA SureDiscover ==
  ASSUME PublishInv, NEW o \in Operators, Discover(o), alone'[o]
  PROVE  Sure(o)'
<1>0. TypeOK
  BY DEF PublishInv
<1>1. \A k \in Operators : pc[k] \in {"idle", "done"}
  BY DEF Discover
<1>2. Command(o) /\ run' = run
  BY DEF Command, Discover
<1>3. \A j \in Operators : j # o => pc'[j] \in {"idle", "done"}
  BY <1>0, <1>1, <1>2, OthersStand
<1>4. /\ pc'[o] = "check" /\ verdict'[o] = "none" /\ items'[o] = <<>> /\ counts'[o] = <<>>
      /\ \A k \in 1..Len(listed'[o]) : found'[o][k] = run[listed'[o][k]]
  BY OwnDiscover DEF Moves, Keeps
<1>5. 1..Len(<<>>) = {}
  BY EmptySeq
<1>6. RunSeen(o)'
  BY <1>2, <1>4, <1>5 DEF RunSeen
<1>7. Others(o)'
  BY <1>3, <1>4 DEF Others, Running
<1> QED  BY <1>4, <1>5, <1>6, <1>7 DEF Sure, Verdict, Predicted

(* The check of a package by an undisturbed command.                         *)
LEMMA SureCheckItem ==
  ASSUME PublishInv, NEW o \in Operators, CheckItem(o), Sure(o)
  PROVE  RunSeen(o)' /\ Verdict(o)' /\ Predicted(o)'
<1> DEFINE n == Len(items[o])
<1>0. TypeOK /\ ShapeOf(o) /\ RunSeen(o) /\ Verdict(o) /\ Predicted(o)
  BY DEF PublishInv, Sure
<1>1. /\ Stands(o) /\ verdict'[o] = verdict[o] /\ counts'[o] = counts[o]
      /\ n < Len(listed[o]) /\ custody' = custody /\ catalog' = catalog /\ run' = run /\ pc[o] = "check"
  BY OwnCheckItem DEF Moves, CheckItem, stores
<1>2. Passes(o) = {Kind(o, n + 1) = "complete"}
  BY <1>0, <1>1, SureAtHand
<1>3. n \in Nat /\ counts[o] = <<>> /\ 1..Len(<<>>) = {} /\ verdict[o] = "none"
  BY <1>0, <1>1, Sequences, EmptySeq DEF ShapeOf
<1>4. /\ Len(Append(items[o], "blocked")) = n + 1
      /\ \A k \in 1..(n + 1) :
           Append(items[o], "blocked")[k] = IF k <= n THEN items[o][k] ELSE "blocked"
  <2>1. "blocked" \in Items
    BY DEF Items
  <2> QED  BY <1>0, <2>1, Sequences, AppendIs
<1>5. \A k \in 1..(n + 1) : k \in 1..n \/ (k = n + 1 /\ ~ k <= n)
  BY <1>3
<1> HIDE DEF n
<1>6. CASE /\ pc'[o] = "check" /\ FALSE \in Passes(o)
           /\ items'[o] = Append(items[o], "blocked")
  <2>1. Kind(o, n + 1) # "complete"
    BY <1>2, <1>6
  <2>2. Len(items'[o]) = n + 1
    BY <1>4, <1>6
  <2>3. ASSUME NEW k \in 1..(n + 1)
        PROVE  \/ k \in 1..n /\ items'[o][k] = items[o][k]
               \/ k = n + 1 /\ items'[o][k] = "blocked"
    <3>1. k \in 1..n => k <= n
      BY <1>3
    <3> QED  BY <1>4, <1>5, <1>6, <3>1
  <2>4. RunSeen(o)'
    BY <1>0, <1>1, <1>3, <1>6, <2>1, <2>2, <2>3 DEF RunSeen, Stands, Kind, n
  <2>5. Verdict(o)'
    BY <1>1, <1>3 DEF Verdict
  <2>6. Predicted(o)'
    BY <1>0, <1>1, <1>3, <1>6, <2>2, <2>3 DEF Predicted, Stands, Running, n
  <2> QED  BY <2>4, <2>5, <2>6
<1>7. CASE /\ pc'[o] = "select ingest" /\ TRUE \in Passes(o) /\ items'[o] = items[o]
           /\ (logical'[o] <=> catalog[Checked(o)] # None)
  <2>1. Kind(o, n + 1) = "complete"
    BY <1>2, <1>7
  <2>2. RunSeen(o)'
    <3>1. \A k : Kind(o, k)' = Kind(o, k)
      BY <1>1 DEF Stands, Kind
    <3>2. Len(items'[o]) = n
      BY <1>7 DEF n
    <3>3. \A k \in 1..Len(items'[o]) : items'[o][k] = "blocked" <=> Kind(o, k)' # "complete"
      <4>1. \A k \in 1..Len(items[o]) : items[o][k] = "blocked" <=> Kind(o, k) # "complete"
        BY <1>0 DEF RunSeen
      <4>2. items'[o] = items[o]
        BY <1>7
      <4> QED  BY <3>1, <4>1, <4>2
    <3>4. Kind(o, Len(items[o]) + 1)' = "complete"
      BY <1>7, <2>1, <3>1 DEF n
    <3>5. 1..Len(counts'[o]) = {}
      BY <1>1, <1>3
    <3>6. \A k \in 1..Len(listed'[o]) : found'[o][k] = run'[listed'[o][k]]
      BY <1>0, <1>1 DEF RunSeen, Stands
    <3> QED  BY <3>3, <3>4, <3>5, <3>6 DEF RunSeen
  <2>3. Verdict(o)'
    BY <1>1, <1>3 DEF Verdict
  <2>4. Predicted(o)'
    BY <1>0, <1>1, <1>7 DEF Predicted, Stands, Running, Checked
  <2> QED  BY <2>2, <2>3, <2>4
<1> QED  BY <1>6, <1>7, OwnCheckItem DEF Moves

(* The choice of the next package by an undisturbed command.                 *)
LEMMA SureSelectIngest ==
  ASSUME PublishInv, NEW o \in Operators, SelectIngest(o), Sure(o)
  PROVE  RunSeen(o)' /\ Verdict(o)' /\ Predicted(o)'
<1> DEFINE n == Len(items[o])
<1>0. TypeOK /\ ShapeOf(o) /\ RunSeen(o) /\ Verdict(o) /\ Predicted(o)
  BY DEF PublishInv, Sure
<1>1. /\ Stands(o) /\ verdict'[o] = verdict[o] /\ counts'[o] = counts[o]
      /\ custody' = custody /\ catalog' = catalog /\ run' = run /\ pc[o] = "select ingest" /\ pc'[o] = "check"
  BY OwnSelectIngest DEF Moves, SelectIngest, stores
<1>2. n \in Nat /\ counts[o] = <<>> /\ 1..Len(<<>>) = {} /\ verdict[o] = "none"
      /\ Len(counts[o]) = 0 /\ n < Len(listed[o])
  <2>1. n \in Nat /\ Len(<<>>) = 0 /\ 1..Len(<<>>) = {}
    BY <1>0, Sequences, EmptySeq
  <2>2. counts[o] = <<>> /\ verdict[o] = "none" /\ n < Len(listed[o])
    BY <1>0, <1>1 DEF ShapeOf
  <2> QED  BY <2>1, <2>2
<1>3. Checked(o) = listed[o][n + 1] /\ Kind(o, n + 1) = "complete"
  BY <1>0, <1>1, <1>2, AtHand DEF RunSeen
<1>4. PICK item \in {"existing", "reconcile", "new"} :
        /\ items'[o] = Append(items[o], item)
        /\ item = IF catalog[Checked(o)] = None THEN "new" ELSE "existing"
  BY <1>0, <1>1, OwnSelectIngest DEF Predicted
<1>5. /\ Len(Append(items[o], item)) = n + 1
      /\ \A k \in 1..(n + 1) : Append(items[o], item)[k] = IF k <= n THEN items[o][k] ELSE item
  BY <1>0, <1>4, Sequences, AppendIs DEF Items
<1>6. \A k \in 1..(n + 1) : (k \in 1..n /\ k <= n) \/ (k = n + 1 /\ ~ k <= n)
  BY <1>2
<1> HIDE DEF n
<1>7. Len(items'[o]) = n + 1
  BY <1>4, <1>5
<1>8. ASSUME NEW k \in 1..(n + 1)
      PROVE  \/ k \in 1..n /\ items'[o][k] = items[o][k]
             \/ k = n + 1 /\ items'[o][k] = item
  BY <1>4, <1>5, <1>6
<1>9. item # "blocked" /\ item \in {"blocked", IF catalog[listed[o][n + 1]] = None THEN "new" ELSE "existing"}
  BY <1>3, <1>4
<1>10. RunSeen(o)'
  <2>1. \A k : Kind(o, k)' = Kind(o, k)
    BY <1>1 DEF Stands, Kind
  <2>2. \A k \in 1..n : items[o][k] = "blocked" <=> Kind(o, k) # "complete"
    BY <1>0 DEF RunSeen, n
  <2>3. \A k \in 1..Len(items'[o]) : items'[o][k] = "blocked" <=> Kind(o, k)' # "complete"
    BY <1>3, <1>7, <1>8, <1>9, <2>1, <2>2
  <2>4. 1..Len(counts'[o]) = {}
    BY <1>1, <1>2
  <2> QED  BY <1>0, <1>1, <2>3, <2>4 DEF RunSeen, Stands
<1>11. Verdict(o)'
  BY <1>1, <1>2 DEF Verdict
<1>12. Predicted(o)'
  <2>1. \A k \in 1..n :
          items[o][k] \in {"blocked", IF catalog[listed[o][k]] = None THEN "new" ELSE "existing"}
    <3>1. \A k \in 1..n : k > Len(counts[o])
      BY <1>2
    <3> QED  BY <1>0, <1>1, <3>1 DEF Predicted, Running, n
  <2>2. \A k \in 1..Len(items'[o]) :
          items'[o][k] \in {"blocked", IF catalog'[listed'[o][k]] = None THEN "new" ELSE "existing"}
    BY <1>1, <1>7, <1>8, <1>9, <2>1 DEF Stands
  <2>3. 1..Len(counts'[o]) = {}
    BY <1>1, <1>2
  <2> QED  BY <1>1, <2>2, <2>3 DEF Predicted
<1> QED  BY <1>10, <1>11, <1>12

(* The gate of an undisturbed command.                                       *)
LEMMA SureGate ==
  ASSUME PublishInv, NEW o \in Operators, Gate(o), Sure(o)
  PROVE  RunSeen(o)' /\ Verdict(o)' /\ Predicted(o)'
<1>0. TypeOK /\ ShapeOf(o) /\ RunSeen(o) /\ Verdict(o) /\ Predicted(o)
  BY DEF PublishInv, Sure
<1>1. run' = run
  BY DEF Gate
<1>2. /\ Stands(o) /\ Keeps(o) /\ custody' = custody /\ catalog' = catalog /\ pc[o] = "check"
      /\ pc'[o] \in {"done", "publish"}
  BY OwnGate DEF stores
<1>3. RunSeen(o)'
  BY <1>0, <1>1, <1>2 DEF RunSeen, Stands, Keeps, Kind, Entered
<1>4. verdict[o] = "none"
  BY <1>0, <1>2 DEF ShapeOf
<1>5. Verdict(o)'
  BY <1>4, OwnGate DEF Verdict, Stands, Keeps
<1>6. Predicted(o)'
  BY <1>0, <1>2 DEF Predicted, Stands, Keeps, Running
<1> QED  BY <1>3, <1>5, <1>6

(* The call of ingest_package by an undisturbed command.                     *)
LEMMA SureCallIngest ==
  ASSUME PublishInv, NEW o \in Operators, CallIngest(o), Sure(o)
  PROVE  RunSeen(o)' /\ Verdict(o)' /\ Predicted(o)'
<1>0. TypeOK /\ ShapeOf(o) /\ GateOf(o) /\ RunSeen(o) /\ Verdict(o) /\ Predicted(o)
  BY DEF PublishInv, Sure
<1>1. run' = run
  BY DEF CallIngest
<1>2. /\ listed'[o] = listed[o] /\ found'[o] = found[o] /\ dry'[o] = dry[o]
      /\ Keeps(o) /\ custody' = custody /\ catalog' = catalog /\ pc[o] = "publish"
      /\ pc'[o] \in {"done", "ingest"}
  BY OwnCallIngest DEF stores
<1>3. RunSeen(o)'
  BY <1>0, <1>1, <1>2 DEF RunSeen, Keeps, Kind, Entered
<1>4. verdict[o] = "none" /\ Len(items[o]) = Len(listed[o])
      /\ (\A k \in 1..Len(items[o]) : items[o][k] # "blocked")
  BY <1>0, <1>2 DEF ShapeOf, GateOf
<1>5. ~ Len(counts[o]) < Len(listed[o]) => Len(counts[o]) = Len(listed[o])
  <2>1. Len(counts[o]) \in Nat /\ Len(listed[o]) \in Nat
    BY <1>0, Sequences
  <2>2. Len(counts[o]) <= Len(listed[o])
    BY <1>0, <1>4 DEF ShapeOf
  <2> QED  BY <2>1, <2>2
<1>6. Verdict(o)'
  BY <1>2, <1>4, <1>5, OwnCallIngest DEF Verdict, Keeps
<1>7. Predicted(o)'
  BY <1>0, <1>2 DEF Predicted, Keeps, Running
<1> QED  BY <1>3, <1>6, <1>7

(* Whoever ingests what the run is now neither takes back what is entered  *)
(* of it nor what custody refuses.                                         *)
LEMMA WritesRun ==
  ASSUME PublishInv, NEW o \in Operators, Command(o),
         pc[o] = "ingest" => seen[o] = {run[Published(o)]},
         NEW q \in Packages, run[q].kind = "complete"
  PROVE  (Entered(q) => Entered(q)') /\ (Refused(q) => Refused(q)')
<1>0. TypeOK /\ run' = run /\ Writes(o)
  BY CommandsCommit DEF PublishInv
<1>1. run[q] \in Contents /\ run[q].text \in Texts
  BY <1>0 DEF TypeOK, Contents, Kinds
<1>2. PrintOf[run[q].text] \in Prints
  BY <1>1 DEF Prints
<1>3. CASE UNCHANGED stores
  BY <1>0, <1>3 DEF stores, Entered, Refused, Clashes
<1>4. ASSUME pc[o] = "ingest", NEW v \in Versions(o), Puts(o, v)
      PROVE  (Entered(q) => Entered(q)') /\ (Refused(q) => Refused(q)')
  <2>1. custody[q][PrintOf[run[q].text]] # None =>
          custody'[q][PrintOf[run[q].text]] = custody[q][PrintOf[run[q].text]]
    BY <1>2, <1>4, PutsIs
  <2>2. run[q].text # None
    BY <1>1
  <2>3. catalog'[q] = catalog[q] \/ catalog'[q] = PrintOf[run[q].text]
    <3>1. catalog'[q] = catalog[q] \/ (q = Published(o) /\ catalog'[q] = v.print)
      BY <1>4, PutsIs
    <3>2. q = Published(o) => v.print = PrintOf[run[q].text]
      <4>1. q = Published(o) => v \in Stored({run[q]}, Shelf(o))
        BY <1>4 DEF Versions
      <4> QED  BY <1>1, <4>1, SteadyIs
    <3> QED  BY <3>1, <3>2
  <2>4. Entered(q) => Entered(q)'
    BY <1>0, <2>1, <2>2, <2>3 DEF Entered
  <2>5. Refused(q) => Refused(q)'
    BY <1>0, <2>1 DEF Refused, Clashes
  <2> QED  BY <2>4, <2>5
<1> QED  BY <1>0, <1>3, <1>4 DEF Writes

(* The return of ingest_package to an undisturbed command that enters the  *)
(* package.                                                                *)
LEMMA SureEnters ==
  ASSUME PublishInv, NEW o \in Operators, IngestReturns(o), Sure(o),
         NEW v \in Versions(o), Puts(o, v),
         catalog' = [catalog EXCEPT ![Published(o)] = v.print],
         counts'[o] = Append(counts[o], CountOf(catalog[Published(o)], v.print)),
         pc'[o] = "publish", verdict'[o] = verdict[o]
  PROVE  RunSeen(o)' /\ Verdict(o)' /\ Predicted(o)'
<1> DEFINE n == Len(counts[o])
           p == Published(o)
<1>0. TypeOK /\ ShapeOf(o) /\ GateOf(o) /\ RunSeen(o) /\ Others(o) /\ Verdict(o) /\ Predicted(o)
  BY DEF PublishInv, Sure
<1>1. /\ run' = run /\ Stands(o) /\ items'[o] = items[o] /\ pc[o] = "ingest"
  BY OwnIngestReturns DEF IngestReturns
<1>2. /\ seen[o] = {run[p]} /\ run[p].kind = "complete"
      /\ n + 1 \in 1..Len(items[o]) /\ items[o][n + 1] # "blocked"
  BY <1>0, <1>1, SureAtHand DEF Others
<1>5. /\ p \in Packages /\ p = listed[o][n + 1] /\ run[p] \in Contents
      /\ n \in Nat /\ n + 1 \in 1..Len(listed[o])
  BY <1>0, <1>1, AtHand, Sequences DEF ShapeOf, TypeOK
<1>4. /\ v.print = PrintOf[run[p].text] /\ v.text = run[p].text
      /\ custody'[p][v.print] = v.text
  <2>1. v \in Stored({run[p]}, Shelf(o))
    BY <1>2 DEF Versions
  <2>2. v.print = PrintOf[run[p].text] /\ v.text = run[p].text
    BY <1>5, <2>1, SteadyIs
  <2>3. custody'[Published(o)][v.print] = v.text
    BY <1>1, PutsIs
  <2> QED  BY <2>2, <2>3
<1>12. /\ Len(items[o]) = Len(listed[o])
       /\ \A k \in 1..Len(listed[o]) : Kind(o, k) = "complete"
  BY <1>0, <1>1 DEF GateOf, RunSeen
<1>6. verdict[o] = "none"
  BY <1>0, <1>1 DEF ShapeOf
<1>7. CountOf(catalog[p], v.print) \in Counts
  BY DEF CountOf, Counts
<1>8. /\ Len(counts'[o]) = n + 1
      /\ \A k \in 1..(n + 1) :
           counts'[o][k] = IF k <= n THEN counts[o][k] ELSE CountOf(catalog[p], v.print)
  BY <1>0, <1>4, <1>7, AppendIs, Sequences
<1>9. \A k \in 1..(n + 1) : (k \in 1..n /\ k <= n) \/ (k = n + 1 /\ ~ k <= n)
  BY <1>5
<1>10. \A k \in 1..Len(listed[o]) : listed[o][k] \in Packages /\ (k > n + 1 => listed[o][k] # p)
  <2>1. ASSUME NEW k \in 1..Len(listed[o]), k > n + 1 PROVE listed[o][k] # p
    <3>1. listed[o][n + 1] < listed[o][k]
      BY <1>0, <1>5, <2>1 DEF ShapeOf
    <3>2. \A a \in Packages : ~ a < a
      BY DEF Packages
    <3> QED  BY <1>5, <3>1, <3>2
  <2> QED  BY <1>0, <2>1, Sequences
<1>11. \A q \in Packages : catalog'[q] = IF q = p THEN v.print ELSE catalog[q]
  BY <1>0, <1>4 DEF TypeOK
<1> HIDE DEF n, p
<1>13. RunSeen(o)'
  <2>1. \A k : Kind(o, k)' = Kind(o, k)
    BY <1>1 DEF Stands, Kind
  <2>2. ASSUME NEW k \in 1..(n + 1) PROVE Entered(listed[o][k])'
    <3>1. k \in 1..Len(listed[o])
      <4>1. \A a \in Nat : 1..a \subseteq 1..a /\ \A i \in 1..(n + 1) : n + 1 \in 1..a => i \in 1..a
        BY <1>5
      <4>2. Len(listed[o]) \in Nat
        BY <1>0, Sequences
      <4> QED  BY <1>5, <4>1, <4>2
    <3>2. CASE k \in 1..n
      <4>1. Entered(listed[o][k])
        BY <1>0, <3>2 DEF RunSeen, n
      <4>2. Kind(o, k) = "complete"
        BY <1>0, <1>12, <3>1 DEF RunSeen
      <4>3. PICK q \in Packages : q = listed[o][k]
        BY <1>10, <3>1
      <4>4. Entered(q) /\ run[q].kind = "complete"
        BY <4>1, <4>2, <4>3 DEF Kind
      <4>5. Entered(q)'
        <5>1. Command(o) /\ seen[o] = {run[Published(o)]}
          BY <1>2 DEF Command, Step, p
        <5> QED  BY <4>4, <5>1, WritesRun
      <4> QED  BY <1>1, <4>3, <4>5 DEF Stands, Entered
    <3>3. CASE k = n + 1
      <4>1. listed[o][k] = p /\ listed'[o][k] = p
        BY <1>1, <1>5, <3>3 DEF Stands
      <4>2. catalog'[p] = PrintOf[run'[p].text] /\ custody'[p][PrintOf[run'[p].text]] = run'[p].text
        BY <1>1, <1>4, <1>5, <1>11
      <4> QED  BY <4>1, <4>2 DEF Entered
    <3> QED  BY <1>9, <3>2, <3>3
  <2>3. \A k \in 1..Len(counts'[o]) : Entered(listed[o][k])'
    BY <1>8, <2>2
  <2>4. \A k \in 1..Len(items'[o]) : items'[o][k] = "blocked" <=> Kind(o, k)' # "complete"
    BY <1>0, <1>1, <2>1 DEF RunSeen
  <2>5. \A k \in 1..Len(listed'[o]) : found'[o][k] = run'[listed'[o][k]]
    BY <1>0, <1>1 DEF RunSeen, Stands
  <2> QED  BY <1>4, <2>3, <2>4, <2>5 DEF RunSeen
<1>14. Verdict(o)'
  BY <1>4, <1>6 DEF Verdict
<1>15. Predicted(o)'
  <2>1. ASSUME NEW k \in 1..Len(items[o])
        PROVE  k > n => items[o][k] \in {"blocked", IF catalog[listed[o][k]] = None THEN "new" ELSE "existing"}
    BY <1>0, <1>1 DEF Predicted, Running, n
  <2>2. ASSUME NEW k \in 1..Len(items'[o]), k > Len(counts'[o])
        PROVE  items'[o][k] \in {"blocked", IF catalog'[listed'[o][k]] = None THEN "new" ELSE "existing"}
    <3>1. k > n + 1 /\ k > n /\ k \in 1..Len(listed[o])
      BY <1>1, <1>5, <1>8, <1>12, <2>2
    <3>2. catalog'[listed[o][k]] = catalog[listed[o][k]]
      BY <1>10, <1>11, <3>1
    <3> QED  BY <1>1, <1>12, <2>1, <3>1, <3>2 DEF Stands
  <2>3. items[o][n + 1] = IF catalog[p] = None THEN "new" ELSE "existing"
    <3>1. n + 1 > n
      BY <1>5
    <3> QED  BY <1>2, <1>5, <2>1, <3>1
  <2>4. CountOf(catalog[p], v.print) = "created" <=> catalog[p] = None
    BY DEF CountOf
  <2>5. ASSUME NEW k \in 1..(n + 1)
        PROVE  items[o][k] # "reconcile" /\ (counts'[o][k] = "created" <=> items[o][k] = "new")
    <3>1. CASE k \in 1..n /\ k <= n
      BY <1>0, <1>8, <3>1 DEF Predicted, n
    <3>2. CASE k = n + 1 /\ ~ k <= n
      BY <1>8, <2>3, <2>4, <3>2
    <3> QED  BY <1>9, <3>1, <3>2
  <2> QED  BY <1>1, <1>4, <1>8, <2>2, <2>5 DEF Predicted
<1> QED  BY <1>13, <1>14, <1>15

(* The return of ingest_package to an undisturbed command: that, unless    *)
(* custody refuses the package.                                            *)
LEMMA SureIngestReturns ==
  ASSUME PublishInv, NEW o \in Operators, IngestReturns(o), Sure(o)
  PROVE  RunSeen(o)' /\ Verdict(o)' /\ Predicted(o)'
<1> DEFINE n == Len(counts[o])
           p == Published(o)
<1>0. TypeOK /\ ShapeOf(o) /\ GateOf(o) /\ RunSeen(o) /\ Others(o) /\ Verdict(o) /\ Predicted(o)
  BY DEF PublishInv, Sure
<1>1. /\ run' = run /\ Stands(o) /\ items'[o] = items[o] /\ pc[o] = "ingest"
  BY OwnIngestReturns DEF IngestReturns
<1>2. /\ seen[o] = {run[p]} /\ run[p].kind = "complete"
      /\ n + 1 \in 1..Len(items[o]) /\ items[o][n + 1] # "blocked"
  BY <1>0, <1>1, SureAtHand DEF Others
<1>3. /\ p \in Packages /\ p = listed[o][n + 1] /\ run[p] \in Contents
      /\ n \in Nat /\ n + 1 \in 1..Len(listed[o]) /\ n < Len(listed[o])
  BY <1>0, <1>1, AtHand, Sequences DEF ShapeOf, TypeOK
<1>4. /\ ~Changed(seen[o]) /\ ~Unready(seen[o])
      /\ Raises(seen[o], Shelf(o)) => Refused(p)
      /\ \A v \in Versions(o) : v.print = PrintOf[run[p].text] /\ v.text = run[p].text
  <2>1. Shelf(o) = custody[p]
    BY DEF Shelf
  <2>2. Versions(o) = Stored({run[p]}, Shelf(o))
    BY <1>2 DEF Versions
  <2>3. /\ ~Changed({run[p]}) /\ ~Unready({run[p]})
        /\ Raises({run[p]}, Shelf(o)) => Clashes(run[p], Shelf(o))
        /\ \A v \in Stored({run[p]}, Shelf(o)) :
             v.print = PrintOf[run[p].text] /\ v.text = run[p].text
    BY <1>2, <1>3, SteadyIs
  <2> QED  BY <1>2, <2>1, <2>2, <2>3 DEF Refused
<1>12. Len(items[o]) = Len(listed[o]) /\ \A k \in 1..Len(items[o]) : items[o][k] # "blocked"
  BY <1>0, <1>1 DEF GateOf
<1>16. CASE /\ pc'[o] = "done" /\ verdict'[o] = "FAILED" /\ counts'[o] = counts[o]
            /\ Raises(seen[o], Shelf(o)) /\ (UNCHANGED stores \/ Changed(seen[o]))
  <2>1. custody' = custody /\ catalog' = catalog /\ Refused(p)
    BY <1>4, <1>16 DEF stores
  <2>2. RunSeen(o)'
    BY <1>0, <1>1, <1>16, <2>1 DEF RunSeen, Stands, Kind, Entered
  <2>3. Refused(listed[o][Len(counts[o]) + 1])'
    BY <1>1, <1>3, <1>16, <2>1 DEF Refused, Stands
  <2>4. Verdict(o)'
    BY <1>1, <1>3, <1>12, <1>16, <2>3 DEF Verdict, Stands
  <2>5. Predicted(o)'
    BY <1>0, <1>1, <1>16, <2>1 DEF Predicted, Running
  <2> QED  BY <2>2, <2>4, <2>5
<1>17. CASE \E v \in Versions(o) :
              /\ Puts(o, v) /\ catalog' = [catalog EXCEPT ![Published(o)] = v.print]
              /\ counts'[o] = Append(counts[o], CountOf(catalog[Published(o)], v.print))
              /\ pc'[o] = "publish" /\ verdict'[o] = verdict[o]
  BY <1>17, SureEnters
<1> QED  BY <1>4, <1>16, <1>17, OwnIngestReturns

(* An undisturbed command stays sure when it takes a step.                 *)
LEMMA SureOwn ==
  ASSUME PublishInv, AloneInv, NEW o \in Operators, Command(o), alone'[o], pc'[o] # "idle"
  PROVE  RunSeen(o)' /\ Verdict(o)' /\ Predicted(o)'
<1>1. CASE Discover(o)
  BY <1>1, SureDiscover DEF Sure
<1>2. CASE Step(o)
  <2>1. alone[o] /\ pc[o] # "idle"
    <3>1. CASE IngestFails(o)
      BY <3>1, OwnIngestFails
    <3>2. CASE CheckItem(o)
      BY <3>2, OwnCheckItem DEF Moves
    <3>3. CASE SelectIngest(o)
      BY <3>3, OwnSelectIngest DEF Moves
    <3>4. CASE Gate(o)
      BY <3>4, OwnGate
    <3>5. CASE CallIngest(o)
      BY <3>5, OwnCallIngest
    <3>6. CASE IngestReturns(o)
      BY <3>6, OwnIngestReturns
    <3> QED  BY <1>2, <3>1, <3>2, <3>3, <3>4, <3>5, <3>6 DEF Step
  <2>2. Sure(o)
    BY <2>1 DEF AloneInv, Sure
  <2>3. ~ IngestFails(o)
    BY OwnIngestFails
  <2> QED
    BY <1>2, <2>2, <2>3, SureCheckItem, SureSelectIngest, SureGate, SureCallIngest,
       SureIngestReturns DEF Step
<1>3. CASE Exit(o)
  BY <1>3, OwnExit
<1> QED  BY <1>1, <1>2, <1>3 DEF Command

(* Whoever ingests after a step works from the run as it is.               *)
LEMMA OthersKept ==
  ASSUME PublishInv, NEW o \in Operators, Command(o),
         \A i \in Operators : pc[i] = "ingest" => seen[i] = {run[Published(i)]}
  PROVE  \A i \in Operators : pc'[i] = "ingest" => seen'[i] = {run'[Published(i)']}
<1>0. TypeOK /\ run' = run
  BY CommandsCommit DEF PublishInv
<1>1. ASSUME NEW i \in Operators, i # o, pc'[i] = "ingest"
      PROVE  seen'[i] = {run'[Published(i)']}
  BY <1>0, <1>1, OthersStand DEF Published
<1>2. ASSUME pc'[o] = "ingest" PROVE seen'[o] = {run'[Published(o)']}
  <2>1. CallIngest(o)
    BY <1>2, OwnDiscover, OwnCheckItem, OwnSelectIngest, OwnGate, OwnIngestReturns,
       OwnIngestFails, OwnExit DEF Command, Step, Moves
  <2> QED  BY <1>0, <1>2, <2>1, OwnCallIngest DEF Published, Keeps
<1> QED  BY <1>1, <1>2

(* A command that is undisturbed stays sure when another takes a step.     *)
LEMMA SureOther ==
  ASSUME PublishInv, AloneInv, NEW o \in Operators, Command(o), NEW j \in Operators, j # o,
         alone'[j], pc'[j] # "idle"
  PROVE  Sure(j)'
<1>0. TypeOK /\ ShapeOf(j) /\ run' = run
  BY CommandsCommit DEF PublishInv
<1>1. /\ pc'[j] = pc[j] /\ verdict'[j] = verdict[j] /\ listed'[j] = listed[j]
      /\ found'[j] = found[j] /\ items'[j] = items[j] /\ counts'[j] = counts[j]
      /\ dry'[j] = dry[j] /\ logical'[j] = logical[j] /\ alone[j]
  BY <1>0, OthersStand
<1>2. RunSeen(j) /\ Others(j) /\ Verdict(j) /\ Predicted(j)
  BY <1>1 DEF AloneInv
<1>3. ASSUME Running(j) PROVE Exit(o)
  <2>1. pc[o] \in {"idle", "done"}
    BY <1>2, <1>3 DEF Others, Running
  <2>2. ~ Discover(o)
    BY <1>1, <1>3 DEF Discover, Running
  <2> QED
    BY <2>1, <2>2, OwnCheckItem, OwnSelectIngest, OwnGate, OwnCallIngest, OwnIngestReturns,
       OwnIngestFails DEF Command, Step, Moves
<1>10. ASSUME NEW q \in Packages, run[q].kind = "complete"
       PROVE  (Entered(q) => Entered(q)') /\ (Refused(q) => Refused(q)')
  BY <1>2, <1>10, WritesRun DEF Others
<1>4. RunSeen(j)'
  <2>1. \A k \in 1..Len(counts[j]) : k \in 1..Len(items[j]) /\ k \in 1..Len(listed[j])
    <3>1. /\ Len(counts[j]) \in Nat /\ Len(items[j]) \in Nat /\ Len(listed[j]) \in Nat
          /\ Len(counts[j]) <= Len(items[j]) /\ Len(items[j]) <= Len(listed[j])
      BY <1>0, Sequences DEF ShapeOf
    <3> QED  BY <3>1
  <2>2. ASSUME NEW k \in 1..Len(counts[j])
        PROVE  listed[j][k] \in Packages /\ Entered(listed[j][k]) /\ Kind(j, k) = "complete"
    <3>1. counts[j] # <<>>
      <4>1. Len(<<>>) = 0
        BY EmptySeq
      <4> QED  BY <4>1
    <3>2. items[j][k] # "blocked"
      BY <2>1, <3>1 DEF PublishInv, GateOf
    <3> QED  BY <1>0, <1>2, <2>1, <3>2, Sequences DEF RunSeen
  <2>3. ASSUME NEW k \in 1..Len(counts[j]) PROVE Entered(listed[j][k])'
    <3>1. PICK q \in Packages : q = listed[j][k]
      BY <2>2
    <3>2. Entered(q)'
      BY <1>10, <2>2, <3>1 DEF Kind
    <3> QED  BY <1>1, <3>1, <3>2 DEF Entered
  <2>4. \A k : Kind(j, k)' = Kind(j, k)
    BY <1>0, <1>1 DEF Kind
  <2>5. \A k \in 1..Len(listed'[j]) : found'[j][k] = run'[listed'[j][k]]
    BY <1>0, <1>1, <1>2 DEF RunSeen
  <2>6. \A k \in 1..Len(items'[j]) : items'[j][k] = "blocked" <=> Kind(j, k)' # "complete"
    <3>1. \A k \in 1..Len(items[j]) : items[j][k] = "blocked" <=> Kind(j, k) # "complete"
      BY <1>2 DEF RunSeen
    <3> QED  BY <1>1, <2>4, <3>1
  <2>7. pc'[j] = "select ingest" => Kind(j, Len(items[j]) + 1)' = "complete"
    BY <1>1, <1>2, <2>4 DEF RunSeen
  <2>8. \A k \in 1..Len(counts'[j]) : Entered(listed[j][k])'
    BY <1>1, <2>3
  <2> QED  BY <2>5, <2>6, <2>7, <2>8 DEF RunSeen
<1>5. Others(j)'
  <2>1. \A i \in Operators : pc'[i] = "ingest" => seen'[i] = {run'[Published(i)']}
    BY <1>2, OthersKept DEF Others
  <2>2. ASSUME Running(j)', NEW i \in Operators, Running(i)' PROVE i = j
    <3>1. Exit(o) /\ Running(j)
      BY <1>1, <1>3, <2>2 DEF Running
    <3>2. i # o
      BY <2>2, <3>1, OwnExit DEF Running
    <3> QED  BY <1>0, <1>2, <2>2, <3>1, <3>2, OthersStand DEF Others, Running
  <2> QED  BY <2>1, <2>2 DEF Others
<1>6. Verdict(j)'
  <2>1. CASE verdict[j] # "FAILED"
    BY <1>1, <1>2, <2>1 DEF Verdict
  <2>2. CASE verdict[j] = "FAILED"
    <3>1. /\ Len(items[j]) = Len(listed[j]) /\ Len(counts[j]) < Len(listed[j])
          /\ \A k \in 1..Len(items[j]) : items[j][k] # "blocked"
          /\ Refused(listed[j][Len(counts[j]) + 1])
      BY <1>2, <2>2 DEF Verdict
    <3>2. Len(counts[j]) + 1 \in 1..Len(listed[j]) /\ listed[j][Len(counts[j]) + 1] \in Packages
      BY <1>0, <3>1, AtHand
    <3>3. Kind(j, Len(counts[j]) + 1) = "complete"
      BY <1>2, <3>1, <3>2 DEF RunSeen
    <3>4. PICK q \in Packages : q = listed[j][Len(counts[j]) + 1]
      BY <3>2
    <3>5. Refused(q)'
      BY <1>10, <3>1, <3>3, <3>4 DEF Kind
    <3>6. Refused(listed[j][Len(counts[j]) + 1])'
      BY <1>1, <3>4, <3>5 DEF Refused
    <3> QED  BY <1>1, <2>2, <3>1, <3>6 DEF Verdict
  <2> QED  BY <2>1, <2>2
<1>7. Predicted(j)'
  <2>1. Running(j) => catalog' = catalog
    BY <1>3, OwnExit DEF stores
  <2>2. Running(j)' = Running(j) /\ Checked(j)' = Checked(j)
    BY <1>1 DEF Running, Checked
  <2>3. ASSUME Running(j), NEW k \in 1..Len(items[j]), k > Len(counts[j])
        PROVE  items[j][k] \in {"blocked", IF catalog'[listed[j][k]] = None THEN "new" ELSE "existing"}
    BY <1>2, <2>1, <2>3 DEF Predicted
  <2>4. pc[j] = "select ingest" => (logical[j] <=> catalog'[Checked(j)] # None)
    BY <1>2, <2>1 DEF Predicted, Running
  <2>5. \A k \in 1..Len(counts[j]) :
          items[j][k] # "reconcile" /\ (counts[j][k] = "created" <=> items[j][k] = "new")
    BY <1>2 DEF Predicted
  <2> QED  BY <1>1, <2>2, <2>3, <2>4, <2>5 DEF Predicted
<1> QED  BY <1>4, <1>5, <1>6, <1>7 DEF Sure

(* What undisturbed commands are sure of is kept by every step.            *)
LEMMA NextAlone == PublishInv /\ AloneInv /\ [Next]_vars => AloneInv'
<1> SUFFICES ASSUME PublishInv, AloneInv, [Next]_vars PROVE AloneInv'
  OBVIOUS
<1>1. ASSUME NEW o \in Operators, Command(o) PROVE AloneInv'
  <2>0. TypeOK
    BY DEF PublishInv
  <2>1. ASSUME alone'[o], pc'[o] # "idle" PROVE Others(o)'
    <3>1. CASE Discover(o)
      BY <2>1, <3>1, SureDiscover DEF Sure
    <3>2. CASE ~ Discover(o)
      <4>1. pc[o] # "idle" /\ alone[o]
        BY <1>1, <2>1, <3>2, OwnCheckItem, OwnSelectIngest, OwnGate, OwnCallIngest,
           OwnIngestReturns, OwnIngestFails, OwnExit DEF Command, Step, Moves
      <4>2. Others(o)
        BY <4>1 DEF AloneInv
      <4>3. \A i \in Operators : pc'[i] = "ingest" => seen'[i] = {run'[Published(i)']}
        BY <1>1, <4>2, OthersKept DEF Others
      <4>4. ASSUME Running(o)', NEW i \in Operators, Running(i)', i # o PROVE FALSE
        <5>1. Running(i)
          BY <1>1, <2>0, <4>4, OthersStand DEF Running
        <5>2. Running(o)
          BY <1>1, <3>2, <4>4, OwnCheckItem, OwnSelectIngest, OwnGate, OwnCallIngest,
             OwnIngestReturns, OwnIngestFails, OwnExit DEF Command, Step, Moves, Running
        <5> QED  BY <4>2, <4>4, <5>1, <5>2 DEF Others
      <4> QED  BY <4>3, <4>4 DEF Others
    <3> QED  BY <3>1, <3>2
  <2>2. ASSUME alone'[o], pc'[o] # "idle" PROVE Sure(o)'
    BY <1>1, <2>1, <2>2, SureOwn DEF Sure
  <2>3. ASSUME NEW j \in Operators, alone'[j], pc'[j] # "idle" PROVE Sure(j)'
    BY <1>1, <2>2, <2>3, SureOther
  <2> QED  BY <2>3 DEF AloneInv, Sure
<1>2. CASE EditRun
  BY <1>2 DEF EditRun, AloneInv
<1>3. CASE UNCHANGED vars
  <2>1. ASSUME NEW o \in Operators, Sure(o) PROVE Sure(o)'
    <3> USE <2>1, <1>3 DEF vars, Sure
    <3>1. RunSeen(o)'
      BY DEF RunSeen, Kind, Entered
    <3>2. Others(o)'
      BY DEF Others, Running, Published
    <3>3. Verdict(o)'
      BY DEF Verdict, Refused
    <3>4. Predicted(o)'
      BY DEF Predicted, Running, Checked
    <3> QED  BY <3>1, <3>2, <3>3, <3>4
  <2>2. alone' = alone /\ pc' = pc
    BY <1>3 DEF vars
  <2> QED  BY <2>1, <2>2 DEF AloneInv, Sure
<1> QED  BY <1>1, <1>2, <1>3 DEF Next, Command

(* Undisturbed commands, in every reachable state.                         *)
THEOREM AloneInductive == Spec => [](PublishInv /\ AloneInv)
<1> QED  BY InitInv, NextPublish, NextAlone, PTL DEF Spec

(* CleanPublishCatalogs, for runs of any length: a publication that        *)
(* nothing disturbs is blocked exactly when some package is not in order,  *)
(* and otherwise catalogs the run up to the first package that custody     *)
(* holds in another rendering, whatever earlier commands left.             *)
THEOREM CleanPublishes == Spec => []CleanPublishCatalogs
<1>1. ASSUME PublishInv, AloneInv, NEW o \in Operators, pc[o] = "done", alone[o], ~dry[o]
      PROVE  IF \E k \in DOMAIN listed[o] : run[listed[o][k]].kind # "complete"
               THEN verdict[o] = "BLOCKED"
               ELSE LET clashing == {k \in DOMAIN listed[o] : Refused(listed[o][k])}
                    IN  /\ verdict[o] = IF clashing = {} THEN "PASS" ELSE "FAILED"
                        /\ \A k \in DOMAIN listed[o] :
                             (\A j \in clashing : k < j) =>
                               catalog[listed[o][k]] = PrintOf[run[listed[o][k]].text]
  <2> DEFINE clashing == {k \in 1..Len(listed[o]) : Refused(listed[o][k])}
  <2>1. RunSeen(o) /\ Verdict(o) /\ ShapeOf(o) /\ TypeOK
    BY <1>1 DEF AloneInv, PublishInv
  <2>2. /\ DOMAIN listed[o] = 1..Len(listed[o]) /\ DOMAIN items[o] = 1..Len(items[o])
        /\ Len(listed[o]) \in Nat /\ Len(counts[o]) \in Nat
    BY <2>1, Sequences
  <2>3. verdict[o] \in {"PASS", "BLOCKED", "FAILED"}
    BY <1>1, <2>1 DEF ShapeOf, TypeOK
  <2>4. CASE verdict[o] = "BLOCKED"
    <3>1. PICK k \in 1..Len(items[o]) : items[o][k] = "blocked"
      BY <2>1, <2>4 DEF Verdict
    <3>2. Kind(o, k) # "complete"
      BY <2>1, <3>1 DEF RunSeen
    <3>3. k \in 1..Len(listed[o])
      <4>1. Len(items[o]) \in Nat /\ Len(items[o]) <= Len(listed[o])
        BY <2>1, Sequences DEF ShapeOf
      <4> QED  BY <2>2, <4>1
    <3> QED  BY <2>2, <2>4, <3>2, <3>3 DEF Kind
  <2>5. CASE verdict[o] \in {"PASS", "FAILED"}
    <3>1. /\ Len(items[o]) = Len(listed[o])
          /\ \A k \in 1..Len(items[o]) : items[o][k] # "blocked"
      BY <1>1, <2>1, <2>5 DEF Verdict
    <3>2. \A k \in 1..Len(listed[o]) : run[listed[o][k]].kind = "complete"
      BY <2>1, <3>1 DEF RunSeen, Kind
    <3>3. \A k \in 1..Len(counts[o]) : Entered(listed[o][k])
      BY <2>1 DEF RunSeen
    <3>4. \A k \in 1..Len(counts[o]) : ~Refused(listed[o][k])
      BY <3>3 DEF Entered, Refused, Clashes
    <3>5. verdict[o] = "PASS" => clashing = {} /\ Len(counts[o]) = Len(listed[o])
      BY <1>1, <2>1, <3>4 DEF Verdict
    <3>6. verdict[o] = "FAILED" =>
            /\ Len(counts[o]) + 1 \in clashing
            /\ \A k \in 1..Len(listed[o]) : k < Len(counts[o]) + 1 => k \in 1..Len(counts[o])
      <4> SUFFICES ASSUME verdict[o] = "FAILED"
                   PROVE  /\ Len(counts[o]) + 1 \in clashing
                          /\ \A k \in 1..Len(listed[o]) :
                               k < Len(counts[o]) + 1 => k \in 1..Len(counts[o])
        OBVIOUS
      <4>1. Len(counts[o]) < Len(listed[o]) /\ Refused(listed[o][Len(counts[o]) + 1])
        BY <2>1 DEF Verdict
      <4>2. Len(counts[o]) + 1 \in 1..Len(listed[o])
        BY <2>2, <4>1
      <4>3. \A k \in 1..Len(listed[o]) : k < Len(counts[o]) + 1 => k \in 1..Len(counts[o])
        BY <2>2
      <4> QED  BY <4>1, <4>2, <4>3
    <3>7. verdict[o] = IF clashing = {} THEN "PASS" ELSE "FAILED"
      BY <2>5, <3>5, <3>6
    <3>8. ASSUME NEW k \in 1..Len(listed[o]), \A j \in clashing : k < j
          PROVE  catalog[listed[o][k]] = PrintOf[run[listed[o][k]].text]
      <4>1. k \in 1..Len(counts[o])
        BY <2>5, <3>5, <3>6, <3>8
      <4> QED  BY <3>3, <4>1 DEF Entered
    <3> QED  BY <2>2, <3>2, <3>7, <3>8
  <2> QED  BY <2>3, <2>4, <2>5
<1>2. PublishInv /\ AloneInv => CleanPublishCatalogs
  BY <1>1 DEF CleanPublishCatalogs, Refused
<1> QED  BY AloneInductive, <1>2, PTL

(* PreflightPredicts, for runs of any length: what preflight announced as  *)
(* new, and nothing else, is reported as created.                          *)
THEOREM PreflightForetells == Spec => []PreflightPredicts
<1>1. ASSUME PublishInv, AloneInv PROVE PreflightPredicts
  <2> SUFFICES ASSUME NEW o \in Operators, verdict[o] = "PASS", alone[o],
                      NEW k \in DOMAIN counts[o]
               PROVE  /\ items[o][k] # "reconcile"
                      /\ counts[o][k] = "created" <=> items[o][k] = "new"
    BY DEF PreflightPredicts
  <2>1. pc[o] = "done" /\ TypeOK
    BY <1>1 DEF PublishInv, ShapeOf
  <2>2. k \in 1..Len(counts[o])
    BY <2>1, Sequences
  <2> QED  BY <1>1, <2>1, <2>2 DEF AloneInv, Predicted
<1> QED  BY AloneInductive, <1>1, PTL

=================================================================================
