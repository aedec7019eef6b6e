----------------------------- MODULE CatalogProofs -----------------------------
(***************************************************************************)
(* Machine-checked proofs about Catalog, for any processes, requests and   *)
(* bounds: a natural key never moves, and calls that do not overlap leave  *)
(* one request in the catalog and the handoff record true.                 *)
(***************************************************************************)
EXTENDS Catalog, TLAPS

(* The rows a transaction has read, and those it may have sent, by its     *)
(* next statement.                                                         *)
Read(step) ==
  CASE step = "read_ingest"      -> {"logical"}
    [] step = "flush_logical"    -> {"logical", "ingest"}
    [] step = "flush_renditions" -> {"logical", "ingest"} \cup Kinds
    [] step = "flush_rest"       -> Rows
    [] OTHER                     -> {}

Sendable(step) ==
  CASE step = "flush_logical"    -> {"logical"}
    [] step = "flush_renditions" -> {"logical"} \cup Kinds
    [] step = "flush_rest"       -> Rows
    [] OTHER                     -> {}

Sent(step) ==
  CASE step = "flush_renditions" -> {"logical"}
    [] step = "flush_rest"       -> {"logical"} \cup Kinds
    [] OTHER                     -> {}

(* The shape of the state: its functions and its types.                    *)
Shape ==
  /\ TypeOK
  /\ db = [row \in Rows |-> db[row]]
  /\ loaded = [i \in Ingesters |-> loaded[i]]
  /\ \A i \in Ingesters : loaded[i] = [row \in Rows |-> loaded[i][row]]
  /\ \A i \in Ingesters : (pc[i] = "idle") <=> (req[i] = None)

(* What the session of i has read and sent.                                *)
Session(i) ==
  /\ \A row \in Rows : row \notin Read(pc[i]) => loaded[i][row] = NoRow
  /\ flushed[i] \subseteq Sendable(pc[i])
  /\ Sent(pc[i]) \subseteq flushed[i]
  /\ stale[i] \subseteq Read(pc[i])

(* A lock belongs to a row that i has sent a change of; what the change    *)
(* presumes of the row stays true until i commits.                         *)
Locked(i) ==
  \A row \in Rows : locks[row] = i =>
    /\ row \in flushed[i] /\ Writes(i, row) /\ row \notin stale[i]
    /\ Inserts(i, row) => db[row] = NoRow

(* A row that i has loaded and that is not known to be deleted is there.   *)
Present(i) ==
  \A row \in Rows : loaded[i][row] # NoRow /\ row \notin stale[i] => db[row] # NoRow

(* The placement a session has loaded is the placement in the database,    *)
(* and, past the comparison, the placement that is asked for.              *)
Placed(i) ==
  loaded[i]["logical"] # NoRow =>
    /\ db["logical"] # NoRow
    /\ loaded[i]["logical"].placement = db["logical"].placement
    /\ pc[i] # "read_ingest" => SamePlacement(i)

CatalogInv ==
  Shape /\ \A i \in Ingesters : Session(i) /\ Locked(i) /\ Present(i) /\ Placed(i)

---------------------------------------------------------------------------------
(* While no two transactions overlap.                                      *)

(* The session of i is the database's own state.                           *)
Fresh(i) ==
  /\ \A row \in Read(pc[i]) : loaded[i][row] = db[row]
  /\ stale[i] = {}
  /\ \A row \in flushed[i] : locks[row] = i \/ ~Writes(i, row)

Serial ==
  /\ \A i, j \in Ingesters : pc[i] \in InTransaction /\ pc[j] \in InTransaction => i = j
  /\ \A i \in Ingesters : Fresh(i)
  /\ db = NothingLoaded \/ \E q \in Requests : Whole(q)
  /\ db["ingest"] # NoRow /\ db["ingest"].state = "complete" =>
       released = db["ingest"].fingerprint

SerialInv == ~overlap => Serial

---------------------------------------------------------------------------------
(* Rows and statements.                                                    *)

(* The rows of a natural key.                                              *)
LEMMA RowsAre ==
  /\ {"logical", "semantics", "ingest"} \subseteq Rows /\ Kinds \subseteq Rows
  /\ Rows = {"logical", "semantics", "ingest"} \cup Kinds
  /\ ContentRows = Rows \ {"ingest"}
  BY CatalogAssumption DEF Rows, ContentRows

(* What is read is more than what is sent; outside a transaction, nothing. *)
LEMMA StepsAre ==
  ASSUME NEW step
  PROVE  /\ Sent(step) \subseteq Sendable(step) /\ Sendable(step) \subseteq Read(step)
         /\ Read(step) \subseteq Rows
         /\ step \notin InTransaction => Read(step) = {} /\ Sendable(step) = {} /\ Sent(step) = {}
  BY RowsAre DEF Sent, Sendable, Read, InTransaction

(* None is nobody.                                                         *)
LEMMA NoneIs == None \notin Ingesters /\ None \notin Requests
  BY CatalogAssumption

(* What a row may hold is a row.                                           *)
LEMMA ValuesAreRows == \A row \in Rows : NoRow \notin RowValues[row]
  BY CatalogAssumption

(* What may stand in a row, for the two kinds of rows.                     *)
LEMMA ValuesAre ==
  /\ \A v \in RowValues["ingest"] :
       /\ DOMAIN v = {"fingerprint", "state"} /\ v = [fingerprint |-> v.fingerprint, state |-> v.state]
       /\ v.fingerprint \in {Fingerprint[q] : q \in Requests}
       /\ v.state \in {"cataloged", "cleanup_pending", "complete"}
  /\ \A f \in {Fingerprint[q] : q \in Requests}, s \in {"cataloged", "cleanup_pending", "complete"} :
       [fingerprint |-> f, state |-> s] \in RowValues["ingest"]
  /\ \A row \in ContentRows : \A v :
       v \in RowValues[row] <=>
         \E q \in Requests : Content[q][row] # NoRow /\ v \in [DOMAIN Content[q][row] -> Columns(row)]
<1>1. RowValues["ingest"] = [fingerprint : {Fingerprint[q] : q \in Requests},
                             state : {"cataloged", "cleanup_pending", "complete"}]
  BY RowsAre DEF RowValues
<1>2. ASSUME NEW row \in ContentRows
      PROVE  RowValues[row] = UNION {[DOMAIN Content[q][row] -> Columns(row)] :
                                       q \in {s \in Requests : Content[s][row] # NoRow}}
  <2>1. row \in Rows /\ row # "ingest"
    BY RowsAre
  <2> QED  BY <2>1 DEF RowValues
<1>3. ASSUME NEW row \in ContentRows, NEW v
      PROVE  v \in RowValues[row] <=>
               \E q \in Requests : Content[q][row] # NoRow /\ v \in [DOMAIN Content[q][row] -> Columns(row)]
  <2> DEFINE some == {s \in Requests : Content[s][row] # NoRow}
             sets == {[DOMAIN Content[q][row] -> Columns(row)] : q \in some}
  <2>1. v \in RowValues[row] <=> \E T \in sets : v \in T
    BY <1>2, Zenon
  <2>2. (\E T \in sets : v \in T) <=> \E q \in some : v \in [DOMAIN Content[q][row] -> Columns(row)]
    BY Zenon
  <2>3. \A q : q \in some <=> q \in Requests /\ Content[q][row] # NoRow
    OBVIOUS
  <2> HIDE DEF some, sets
  <2> QED  BY <2>1, <2>2, <2>3
<1>4. ASSUME NEW v \in RowValues["ingest"]
      PROVE  /\ DOMAIN v = {"fingerprint", "state"}
             /\ v = [fingerprint |-> v.fingerprint, state |-> v.state]
             /\ v.fingerprint \in {Fingerprint[q] : q \in Requests}
             /\ v.state \in {"cataloged", "cleanup_pending", "complete"}
  <2>1. ASSUME NEW F, NEW S, NEW u \in [fingerprint : F, state : S]
        PROVE  /\ u.fingerprint \in F /\ u.state \in S
               /\ u = [fingerprint |-> u.fingerprint, state |-> u.state]
    OBVIOUS
  <2>2. v \in [fingerprint : {Fingerprint[q] : q \in Requests},
               state : {"cataloged", "cleanup_pending", "complete"}]
    BY <1>1, Zenon
  <2>3. /\ v.fingerprint \in {Fingerprint[q] : q \in Requests}
        /\ v.state \in {"cataloged", "cleanup_pending", "complete"}
        /\ v = [fingerprint |-> v.fingerprint, state |-> v.state]
    BY <2>1, <2>2, Zenon
  <2>4. DOMAIN v = {"fingerprint", "state"}
    BY <2>3
  <2> QED  BY <2>3, <2>4
<1>5. ASSUME NEW f \in {Fingerprint[q] : q \in Requests},
             NEW s \in {"cataloged", "cleanup_pending", "complete"}
      PROVE  [fingerprint |-> f, state |-> s] \in RowValues["ingest"]
  BY <1>1
<1> QED  BY <1>3, <1>4, <1>5, Zenon

(* What a request wants of a row is a value of the row.                    *)
LEMMA ContentIs ==
  ASSUME NEW q \in Requests
  PROVE  /\ \A row \in ContentRows : Content[q][row] \in RowValues[row] \cup {NoRow}
         /\ Content[q]["logical"] # NoRow /\ Content[q]["semantics"] # NoRow
         /\ "placement" \in DOMAIN Content[q]["logical"]
  BY CatalogAssumption

(* A process that is not idle has a request.                               *)
LEMMA ReqIs ==
  ASSUME Shape, NEW i \in Ingesters, pc[i] # "idle"
  PROVE  req[i] \in Requests
  BY NoneIs DEF Shape, TypeOK

(* What a transaction wants of a row is a value of the row.                *)
LEMMA WantedIs ==
  ASSUME Shape, NEW i \in Ingesters, pc[i] # "idle", NEW row \in Rows
  PROVE  /\ Wanted(i, row) \in RowValues[row] \cup {NoRow}
         /\ row \in {"logical", "semantics", "ingest"} => Wanted(i, row) # NoRow
<1>1. req[i] \in Requests
  BY ReqIs
<1>2. CASE row = "ingest"
  <2>1. loaded[i]["ingest"] \in RowValues["ingest"] \cup {NoRow}
    BY RowsAre DEF Shape, TypeOK
  <2>2. NextState(i) \in {"cataloged", "cleanup_pending", "complete"}
    <3>1. CASE loaded[i]["ingest"] = NoRow
      BY <3>1 DEF NextState, PackageChanged
    <3>2. CASE loaded[i]["ingest"] # NoRow
      <4>1. loaded[i]["ingest"].state \in {"cataloged", "cleanup_pending", "complete"}
        BY <2>1, <3>2, ValuesAre
      <4> QED  BY <4>1 DEF NextState
    <3> QED  BY <3>1, <3>2
  <2>3. Wanted(i, row) \in RowValues[row]
    BY <1>1, <1>2, <2>2, ValuesAre DEF Wanted
  <2> QED  BY <1>2, <2>3, ValuesAreRows
<1>3. CASE row # "ingest"
  BY <1>1, <1>3, RowsAre, ContentIs DEF Wanted
<1> QED  BY <1>2, <1>3

(* A value of a content row has the columns of every other.                *)
LEMMA ColumnsAre ==
  ASSUME NEW row \in ContentRows, NEW v \in RowValues[row], NEW w \in RowValues[row]
  PROVE  DOMAIN v = DOMAIN w /\ \A c \in DOMAIN v : v[c] \in Columns(row)
<1>1. row # "ingest"
  BY RowsAre
<1>2. PICK q \in Requests : Content[q][row] # NoRow /\ v \in [DOMAIN Content[q][row] -> Columns(row)]
  BY ValuesAre
<1>3. PICK r \in Requests : Content[r][row] # NoRow /\ w \in [DOMAIN Content[r][row] -> Columns(row)]
  BY ValuesAre
<1>4. DOMAIN Content[q][row] = DOMAIN Content[r][row]
  BY <1>2, <1>3, CatalogAssumption
<1> QED  BY <1>2, <1>3, <1>4

(* Columns of two values make a value.                                     *)
LEMMA MixedIs ==
  ASSUME NEW row \in Rows, NEW v \in RowValues[row], NEW w \in RowValues[row], NEW u
  PROVE  [c \in DOMAIN v |-> IF v[c] # u[c] THEN v[c] ELSE w[c]] \in RowValues[row]
<1> DEFINE mixed == [c \in DOMAIN v |-> IF v[c] # u[c] THEN v[c] ELSE w[c]]
<1>1. CASE row = "ingest"
  <2>1. /\ DOMAIN v = {"fingerprint", "state"}
        /\ v.fingerprint \in {Fingerprint[q] : q \in Requests}
        /\ w.fingerprint \in {Fingerprint[q] : q \in Requests}
        /\ v.state \in {"cataloged", "cleanup_pending", "complete"}
        /\ w.state \in {"cataloged", "cleanup_pending", "complete"}
    BY <1>1, ValuesAre
  <2>2. /\ DOMAIN mixed = {"fingerprint", "state"}
        /\ mixed.fingerprint \in {Fingerprint[q] : q \in Requests}
        /\ mixed.state \in {"cataloged", "cleanup_pending", "complete"}
    BY <2>1
  <2>3. mixed = [fingerprint |-> mixed.fingerprint, state |-> mixed.state]
    BY <2>2
  <2> HIDE DEF mixed
  <2>4. mixed \in RowValues[row]
    BY <1>1, <2>2, <2>3, ValuesAre
  <2> QED  BY <2>4 DEF mixed
<1>2. CASE row # "ingest"
  <2>1. row \in ContentRows
    BY <1>2, RowsAre
  <2>2. PICK q \in Requests : Content[q][row] # NoRow /\ v \in [DOMAIN Content[q][row] -> Columns(row)]
    BY <2>1, ValuesAre
  <2>3. \A c \in DOMAIN v : v[c] \in Columns(row) /\ w[c] \in Columns(row)
    BY <2>1, ColumnsAre
  <2>4. mixed \in [DOMAIN Content[q][row] -> Columns(row)]
    BY <2>2, <2>3
  <2> HIDE DEF mixed
  <2>5. mixed \in RowValues[row]
    BY <2>1, <2>2, <2>4, ValuesAre
  <2> QED  BY <2>5 DEF mixed
<1> QED  BY <1>1, <1>2

(* What is written is a value of the row, or the row is deleted.           *)
LEMMA WrittenIs ==
  ASSUME CatalogInv, NEW i \in Ingesters, pc[i] # "idle", NEW row \in Rows, locks[row] = i
  PROVE  /\ Written(i, row) \in RowValues[row] \cup {NoRow}
         /\ (Written(i, row) = NoRow) <=> Deletes(i, row)
<1>0. Shape /\ Locked(i) /\ Present(i)
  BY DEF CatalogInv
<1>1. Writes(i, row) /\ row \notin stale[i]
  BY <1>0 DEF Locked
<1>2. /\ Wanted(i, row) \in RowValues[row] \cup {NoRow}
      /\ db[row] \in RowValues[row] \cup {NoRow} /\ NoRow \notin RowValues[row]
  BY <1>0, WantedIs, ValuesAreRows DEF Shape, TypeOK
<1>3. CASE Updates(i, row)
  <2>1. db[row] \in RowValues[row] /\ Wanted(i, row) \in RowValues[row]
    BY <1>0, <1>1, <1>2, <1>3 DEF Present, Updates
  <2>2. Written(i, row) \in RowValues[row]
    BY <1>3, <2>1, MixedIs DEF Written
  <2> QED  BY <1>2, <1>3, <2>2 DEF Updates, Deletes
<1>4. CASE ~Updates(i, row)
  BY <1>1, <1>2, <1>4 DEF Writes, Written, Inserts, Deletes, Updates
<1> QED  BY <1>3, <1>4

---------------------------------------------------------------------------------
(* The steps and the invariant.                                            *)

(* The initial states.                                                     *)
LEMMA InitInv == Init => CatalogInv /\ SerialInv
<1> SUFFICES ASSUME Init PROVE CatalogInv /\ SerialInv
  OBVIOUS
<1> USE DEF Init, NothingLoaded
<1>1. TypeOK
  BY DEF TypeOK
<1>2. Shape
  BY <1>1 DEF Shape
<1>3. \A step : step = "idle" => Read(step) = {} /\ Sendable(step) = {} /\ Sent(step) = {}
  BY StepsAre DEF InTransaction
<1>4. ASSUME NEW i \in Ingesters
      PROVE  Session(i) /\ Locked(i) /\ Present(i) /\ Placed(i) /\ Fresh(i)
  BY <1>3, NoneIs, RowsAre DEF Session, Locked, Present, Placed, Fresh
<1>5. Serial
  BY <1>4, RowsAre DEF Serial, InTransaction
<1> QED  BY <1>2, <1>4, <1>5 DEF CatalogInv, SerialInv

(* A SELECT of rows that the session has not read.                         *)
Selects(i, rows, step) ==
  /\ rows \subseteq Rows /\ rows \cap Read(pc[i]) = {}
  /\ Load(i, rows) /\ Goto(i, step)
  /\ Read(step) = Read(pc[i]) \cup rows /\ step \in InTransaction
  /\ Sendable(pc[i]) \subseteq Sendable(step) /\ Sent(step) \subseteq flushed[i]
  /\ step # "read_ingest" => "logical" \notin rows /\ SamePlacement(i)
  /\ UNCHANGED <<db, locks, stale, flushed>>
  /\ req' = [req EXCEPT ![i] = req'[i]] /\ req'[i] \in Requests
  /\ pc[i] = "idle" \/ req'[i] = req[i]
  /\ overlap' \in BOOLEAN /\ alarm' \in BOOLEAN

(* What it loads; what is sent already is wanted as before.                *)
LEMMA SelectIs ==
  ASSUME CatalogInv, NEW i \in Ingesters, NEW rows, NEW step, Selects(i, rows, step)
  PROVE  /\ \A row \in Rows : loaded'[i][row] = IF row \in rows THEN db[row] ELSE loaded[i][row]
         /\ \A j \in Ingesters : j # i => /\ loaded'[j] = loaded[j] /\ pc'[j] = pc[j]
                                         /\ req'[j] = req[j]
         /\ loaded' = [j \in Ingesters |-> loaded'[j]]
         /\ loaded'[i] = [row \in Rows |-> loaded'[i][row]]
         /\ pc'[i] = step
         /\ \A row \in flushed[i] : /\ row \in Rows /\ loaded'[i][row] = loaded[i][row]
                                     /\ Wanted(i, row)' = Wanted(i, row)
         /\ \A j \in Ingesters, row \in Rows : j # i => Wanted(j, row)' = Wanted(j, row)
<1>0. Shape /\ Session(i)
  BY DEF CatalogInv
<1>1. /\ loaded = [j \in Ingesters |-> loaded[j]]
      /\ loaded' = [loaded EXCEPT ![i] =
           [row \in Rows |-> IF row \in rows /\ loaded[i][row] = NoRow THEN db[row]
                                                                     ELSE loaded[i][row]]]
  BY <1>0 DEF Shape, Selects, Load
<1>2. \A row \in rows : row \in Rows /\ loaded[i][row] = NoRow
  BY <1>0 DEF Selects, Session
<1>3. /\ \A row \in Rows : loaded'[i][row] = IF row \in rows THEN db[row] ELSE loaded[i][row]
      /\ \A j \in Ingesters : j # i => loaded'[j] = loaded[j]
      /\ loaded' = [j \in Ingesters |-> loaded'[j]]
      /\ loaded'[i] = [row \in Rows |-> loaded'[i][row]]
  BY <1>1, <1>2
<1>4. /\ pc'[i] = step
      /\ \A j \in Ingesters : j # i => pc'[j] = pc[j] /\ req'[j] = req[j]
  BY <1>0 DEF Shape, TypeOK, Selects, Goto
<1>5. \A row \in flushed[i] : row \in Rows /\ row \notin rows /\ row \in Sendable(pc[i])
  BY <1>0, StepsAre DEF Session, Selects
<1>6. \A row \in flushed[i] : loaded'[i][row] = loaded[i][row]
  BY <1>3, <1>5
<1>7. \A row \in flushed[i] : req'[i] = req[i]
  BY <1>5, StepsAre DEF Selects, InTransaction
<1>8. ASSUME NEW row \in flushed[i] PROVE Wanted(i, row)' = Wanted(i, row)
  <2>1. CASE row = "ingest"
    BY <1>6, <1>7, <2>1 DEF Wanted, NextState, PackageChanged
  <2>2. CASE row # "ingest"
    BY <1>7, <2>2 DEF Wanted
  <2> QED  BY <2>1, <2>2
<1>9. \A j \in Ingesters, row \in Rows : j # i => Wanted(j, row)' = Wanted(j, row)
  BY <1>3, <1>4 DEF Wanted, NextState, PackageChanged
<1> QED  BY <1>3, <1>4, <1>5, <1>6, <1>8, <1>9

(* A SELECT keeps the invariant.                                           *)
LEMMA SelectKeeps ==
  ASSUME CatalogInv, NEW i \in Ingesters, NEW rows, NEW step, Selects(i, rows, step)
  PROVE  CatalogInv'
<1>0. Shape /\ \A j \in Ingesters : Session(j) /\ Locked(j) /\ Present(j) /\ Placed(j)
  BY DEF CatalogInv
<1>1. db' = db /\ locks' = locks /\ stale' = stale /\ flushed' = flushed
  BY DEF Selects
<1>s. /\ \A row \in Rows : loaded'[i][row] = IF row \in rows THEN db[row] ELSE loaded[i][row]
      /\ \A j \in Ingesters : j # i => /\ loaded'[j] = loaded[j] /\ pc'[j] = pc[j]
                                      /\ req'[j] = req[j]
      /\ loaded' = [j \in Ingesters |-> loaded'[j]]
      /\ loaded'[i] = [row \in Rows |-> loaded'[i][row]]
      /\ pc'[i] = step
      /\ \A row \in flushed[i] : /\ row \in Rows /\ loaded'[i][row] = loaded[i][row]
                                  /\ Wanted(i, row)' = Wanted(i, row)
      /\ \A j \in Ingesters, row \in Rows : j # i => Wanted(j, row)' = Wanted(j, row)
  BY SelectIs
<1> USE <1>s
<1>2. TypeOK'
  <2>1. \A j \in Ingesters, row \in Rows : loaded'[j][row] \in RowValues[row] \cup {NoRow}
    BY <1>0 DEF Shape, TypeOK
  <2>2. pc' \in [Ingesters -> {"idle"} \cup InTransaction \cup Verifying]
    BY <1>0 DEF Shape, TypeOK, Selects, Goto
  <2>3. req' \in [Ingesters -> Requests \cup {None}]
    BY <1>0 DEF Shape, TypeOK, Selects
  <2> QED  BY <1>0, <1>1, <2>1, <2>2, <2>3 DEF Shape, TypeOK, Selects
<1>3. Shape'
  <2>1. \A j \in Ingesters : loaded'[j] = [row \in Rows |-> loaded'[j][row]]
    BY <1>0 DEF Shape
  <2>2. \A j \in Ingesters : (pc'[j] = "idle") <=> (req'[j] = None)
    BY <1>0, NoneIs DEF Shape, Selects, InTransaction
  <2> QED  BY <1>0, <1>1, <1>2, <2>1, <2>2 DEF Shape
<1>4. Session(i)'
  BY <1>0, <1>1 DEF Session, Selects
<1>5. Locked(i)'
  BY <1>0, <1>1 DEF Locked, Writes, Inserts, Updates, Deletes
<1>6. Present(i)'
  BY <1>0, <1>1 DEF Present
<1>7. Placed(i)'
  <2>1. CASE "logical" \in rows
    BY <1>0, <1>1, <2>1, RowsAre DEF Placed, Selects
  <2>2. CASE "logical" \notin rows
    <3>1. loaded'[i]["logical"] = loaded[i]["logical"]
      BY <2>2, RowsAre
    <3>2. pc[i] = "idle" => loaded[i]["logical"] = NoRow
      BY <1>0, StepsAre, RowsAre DEF Session, InTransaction
    <3>3. pc'[i] # "read_ingest" /\ loaded'[i]["logical"] # NoRow => SamePlacement(i)'
      BY <3>1, <3>2 DEF Selects, SamePlacement
    <3> QED  BY <1>0, <1>1, <3>1, <3>3 DEF Placed
  <2> QED  BY <2>1, <2>2
<1>8. ASSUME NEW j \in Ingesters, j # i
      PROVE  Session(j)' /\ Locked(j)' /\ Present(j)' /\ Placed(j)'
  <2>1. Session(j)' /\ Present(j)'
    BY <1>0, <1>1, <1>8 DEF Session, Present
  <2>2. Locked(j)'
    BY <1>0, <1>1, <1>8 DEF Locked, Writes, Inserts, Updates, Deletes
  <2>3. Placed(j)'
    BY <1>0, <1>1, <1>8 DEF Placed, SamePlacement
  <2> QED  BY <2>1, <2>2, <2>3
<1> QED  BY <1>3, <1>4, <1>5, <1>6, <1>7, <1>8 DEF CatalogInv

(* A SELECT while no transactions overlap.                                 *)
LEMMA SelectSerial ==
  ASSUME CatalogInv, Serial, NEW i \in Ingesters, NEW rows, NEW step, Selects(i, rows, step),
         released' = released,
         pc[i] \in InTransaction \/ \A j \in Ingesters : pc[j] \notin InTransaction
  PROVE  Serial'
<1>0. db' = db /\ locks' = locks /\ stale' = stale /\ flushed' = flushed
  BY DEF Selects
<1>s. /\ \A row \in Rows : loaded'[i][row] = IF row \in rows THEN db[row] ELSE loaded[i][row]
      /\ \A j \in Ingesters : j # i => /\ loaded'[j] = loaded[j] /\ pc'[j] = pc[j]
                                      /\ req'[j] = req[j]
      /\ loaded' = [j \in Ingesters |-> loaded'[j]]
      /\ loaded'[i] = [row \in Rows |-> loaded'[i][row]]
      /\ pc'[i] = step
      /\ \A row \in flushed[i] : /\ row \in Rows /\ loaded'[i][row] = loaded[i][row]
                                  /\ Wanted(i, row)' = Wanted(i, row)
      /\ \A j \in Ingesters, row \in Rows : j # i => Wanted(j, row)' = Wanted(j, row)
  BY SelectIs
<1> USE <1>s
<1>1. \A j \in Ingesters : pc'[j] \in InTransaction => j = i
  BY DEF Serial
<1>2. Fresh(i)'
  <2>1. \A row \in Read(step) : loaded'[i][row] = db[row]
    BY StepsAre DEF Serial, Fresh, Selects
  <2>2. \A row \in flushed[i] : Writes(i, row)' <=> Writes(i, row)
    BY DEF Writes, Inserts, Updates, Deletes
  <2> QED  BY <1>0, <2>1, <2>2 DEF Serial, Fresh
<1>3. ASSUME NEW j \in Ingesters, j # i PROVE Fresh(j)'
  <2>1. flushed[j] \subseteq Rows
    BY DEF CatalogInv, Shape, TypeOK
  <2>2. \A row \in flushed[j] : Writes(j, row)' <=> Writes(j, row)
    BY <1>3, <2>1 DEF Writes, Inserts, Updates, Deletes
  <2> QED  BY <1>0, <1>3, <2>2 DEF Serial, Fresh
<1> QED  BY <1>0, <1>1, <1>2, <1>3 DEF Serial, Whole

(* A call that ends, well or not: its session, its locks and its request   *)
(* are gone.                                                               *)
Ends(i) ==
  /\ EndCall(i) /\ db' = db /\ overlap' = overlap /\ released' = released
  /\ alarm' \in BOOLEAN

(* Closing a session leaves the others what they have.                     *)
LEMMA CloseIs ==
  ASSUME Shape, NEW i \in Ingesters, NEW step, NEW deleted, Close(i, step, deleted)
  PROVE  /\ pc'[i] = step /\ flushed'[i] = {} /\ stale'[i] = {} /\ loaded'[i] = NothingLoaded
         /\ \A row \in Rows : locks'[row] = IF locks[row] = i THEN None ELSE locks[row]
         /\ \A j \in Ingesters : j # i =>
              /\ pc'[j] = pc[j] /\ flushed'[j] = flushed[j] /\ loaded'[j] = loaded[j]
              /\ stale'[j] = stale[j] \cup {row \in deleted : loaded[j][row] # NoRow}
         /\ loaded' = [j \in Ingesters |-> loaded'[j]]
         /\ \A j \in Ingesters : loaded'[j] = [row \in Rows |-> loaded'[j][row]]
<1>1. loaded = [j \in Ingesters |-> loaded[j]]
      /\ \A j \in Ingesters : loaded[j] = [row \in Rows |-> loaded[j][row]]
  BY DEF Shape
<1>2. pc'[i] = step /\ \A j \in Ingesters : j # i => pc'[j] = pc[j]
  BY DEF Shape, TypeOK, Close, Goto
<1>3. flushed'[i] = {} /\ \A j \in Ingesters : j # i => flushed'[j] = flushed[j]
  BY DEF Shape, TypeOK, Close
<1>4. /\ loaded'[i] = NothingLoaded /\ \A j \in Ingesters : j # i => loaded'[j] = loaded[j]
      /\ loaded' = [j \in Ingesters |-> loaded'[j]]
  BY <1>1 DEF Close
<1>5. \A j \in Ingesters : loaded'[j] = [row \in Rows |-> loaded'[j][row]]
  BY <1>1, <1>4 DEF NothingLoaded
<1>6. /\ stale'[i] = {}
      /\ \A j \in Ingesters : j # i =>
           stale'[j] = stale[j] \cup {row \in deleted : loaded[j][row] # NoRow}
      /\ \A row \in Rows : locks'[row] = IF locks[row] = i THEN None ELSE locks[row]
  BY DEF Close
<1> QED  BY <1>2, <1>3, <1>4, <1>5, <1>6

(* The types after a session is closed.                                    *)
LEMMA CloseTypes ==
  ASSUME Shape, NEW i \in Ingesters, NEW step, NEW deleted \in SUBSET Rows,
         Close(i, step, deleted), step \in {"idle"} \cup Verifying
  PROVE  /\ pc' \in [Ingesters -> {"idle"} \cup InTransaction \cup Verifying]
         /\ locks' \in [Rows -> Ingesters \cup {None}]
         /\ stale' \in [Ingesters -> SUBSET Rows] /\ flushed' \in [Ingesters -> SUBSET Rows]
         /\ \A j \in Ingesters, row \in Rows : loaded'[j][row] \in RowValues[row] \cup {NoRow}
<1>1. pc' \in [Ingesters -> {"idle"} \cup InTransaction \cup Verifying]
  BY DEF Shape, TypeOK, Close, Goto
<1>2. locks' \in [Rows -> Ingesters \cup {None}]
  BY DEF Shape, TypeOK, Close
<1>3. stale' \in [Ingesters -> SUBSET Rows]
  BY DEF Shape, TypeOK, Close
<1>4. flushed' \in [Ingesters -> SUBSET Rows]
  BY DEF Shape, TypeOK, Close
<1>5. \A j \in Ingesters, row \in Rows : loaded'[j][row] \in RowValues[row] \cup {NoRow}
  BY CloseIs DEF Shape, TypeOK, NothingLoaded
<1> QED  BY <1>1, <1>2, <1>3, <1>4, <1>5

(* What is wanted by the others does not change.                           *)
LEMMA OthersWant ==
  ASSUME NEW j \in Ingesters, loaded'[j] = loaded[j], req'[j] = req[j], NEW row
  PROVE  /\ Wanted(j, row)' = Wanted(j, row)
         /\ (Inserts(j, row)' <=> Inserts(j, row)) /\ (Writes(j, row)' <=> Writes(j, row))
  BY DEF Wanted, NextState, PackageChanged, Inserts, Deletes, Updates, Writes

(* A session without a row, of which nothing can be wrong.                 *)
LEMMA EmptySession ==
  ASSUME NEW i \in Ingesters, pc'[i] \notin InTransaction, flushed'[i] = {}, stale'[i] = {},
         loaded'[i] = NothingLoaded, \A row \in Rows : locks'[row] # i
  PROVE  Session(i)' /\ Locked(i)' /\ Present(i)' /\ Placed(i)' /\ Fresh(i)'
<1>1. Read(pc'[i]) = {} /\ Sendable(pc'[i]) = {} /\ Sent(pc'[i]) = {}
  BY StepsAre
<1>2. \A row \in Rows : loaded'[i][row] = NoRow
  BY DEF NothingLoaded
<1> QED  BY <1>1, <1>2, RowsAre DEF Session, Locked, Present, Placed, Fresh

(* The end of a call keeps the invariant.                                  *)
LEMMA EndKeeps ==
  ASSUME CatalogInv, NEW i \in Ingesters, Ends(i)
  PROVE  CatalogInv' /\ (Serial => Serial')
<1>0. Shape /\ \A j \in Ingesters : Session(j) /\ Locked(j) /\ Present(j) /\ Placed(j)
  BY DEF CatalogInv
<1>a. Close(i, "idle", {}) /\ req' = [req EXCEPT ![i] = None]
  BY DEF Ends, EndCall
<1>1. /\ pc'[i] = "idle" /\ flushed'[i] = {} /\ stale'[i] = {} /\ loaded'[i] = NothingLoaded
      /\ \A row \in Rows : locks'[row] = IF locks[row] = i THEN None ELSE locks[row]
      /\ \A j \in Ingesters : j # i =>
           /\ pc'[j] = pc[j] /\ flushed'[j] = flushed[j] /\ loaded'[j] = loaded[j]
           /\ stale'[j] = stale[j]
      /\ loaded' = [j \in Ingesters |-> loaded'[j]]
      /\ \A j \in Ingesters : loaded'[j] = [row \in Rows |-> loaded'[j][row]]
  <2> DEFINE gone(j) == {row \in {} : loaded[j][row] # NoRow}
  <2>1. /\ pc'[i] = "idle" /\ flushed'[i] = {} /\ stale'[i] = {} /\ loaded'[i] = NothingLoaded
        /\ \A row \in Rows : locks'[row] = IF locks[row] = i THEN None ELSE locks[row]
        /\ \A j \in Ingesters : j # i =>
             /\ pc'[j] = pc[j] /\ flushed'[j] = flushed[j] /\ loaded'[j] = loaded[j]
             /\ stale'[j] = stale[j] \cup gone(j)
        /\ loaded' = [j \in Ingesters |-> loaded'[j]]
        /\ \A j \in Ingesters : loaded'[j] = [row \in Rows |-> loaded'[j][row]]
    BY <1>0, <1>a, CloseIs, Zenon
  <2>2. \A j : gone(j) = {}
    OBVIOUS
  <2> HIDE DEF gone
  <2> QED  BY <2>1, <2>2
<1>2. \A j \in Ingesters : j # i => req'[j] = req[j]
  BY <1>0, <1>a DEF Shape, TypeOK
<1>3. req'[i] = None /\ req' \in [Ingesters -> Requests \cup {None}]
  BY <1>0, <1>a DEF Shape, TypeOK
<1>4. db' = db /\ overlap' = overlap /\ released' = released /\ alarm' \in BOOLEAN
  BY DEF Ends
<1>5. TypeOK'
  <2>1. {} \in SUBSET Rows /\ "idle" \in {"idle"} \cup Verifying
    OBVIOUS
  <2>2. /\ pc' \in [Ingesters -> {"idle"} \cup InTransaction \cup Verifying]
        /\ locks' \in [Rows -> Ingesters \cup {None}]
        /\ stale' \in [Ingesters -> SUBSET Rows] /\ flushed' \in [Ingesters -> SUBSET Rows]
        /\ \A j \in Ingesters, row \in Rows : loaded'[j][row] \in RowValues[row] \cup {NoRow}
    BY <1>0, <1>a, <2>1, CloseTypes
  <2> QED  BY <1>0, <1>3, <1>4, <2>2 DEF Shape, TypeOK
<1>6. Shape'
  BY <1>0, <1>1, <1>2, <1>3, <1>4, <1>5 DEF Shape
<1>7. \A row \in Rows : locks'[row] # i
  BY <1>1, NoneIs
<1>8. Session(i)' /\ Locked(i)' /\ Present(i)' /\ Placed(i)' /\ Fresh(i)'
  BY <1>1, <1>7, EmptySession DEF InTransaction
<1>9. ASSUME NEW j \in Ingesters, j # i
      PROVE  /\ Session(j)' /\ Locked(j)' /\ Present(j)' /\ Placed(j)'
             /\ Fresh(j) => Fresh(j)'
  <2>1. /\ pc'[j] = pc[j] /\ flushed'[j] = flushed[j] /\ loaded'[j] = loaded[j]
        /\ stale'[j] = stale[j] /\ req'[j] = req[j]
    BY <1>1, <1>2, <1>9
  <2>2. \A row \in Rows : (locks'[row] = j) <=> (locks[row] = j)
    BY <1>1, <1>9, NoneIs
  <2>3. \A row : /\ Wanted(j, row)' = Wanted(j, row)
                 /\ (Inserts(j, row)' <=> Inserts(j, row)) /\ (Writes(j, row)' <=> Writes(j, row))
    BY <2>1, OthersWant
  <2>4. Session(j)' /\ Present(j)'
    BY <1>0, <1>4, <2>1 DEF Session, Present
  <2>5. Locked(j)'
    BY <1>0, <1>4, <2>1, <2>2, <2>3 DEF Locked
  <2>6. Placed(j)'
    BY <1>0, <1>4, <2>1 DEF Placed, SamePlacement
  <2>7. Fresh(j) => Fresh(j)'
    <3>1. flushed[j] \subseteq Rows
      BY <1>0 DEF Shape, TypeOK
    <3> QED  BY <1>4, <2>1, <2>2, <2>3, <3>1 DEF Fresh
  <2> QED  BY <2>4, <2>5, <2>6, <2>7
<1>10. CatalogInv'
  BY <1>6, <1>8, <1>9 DEF CatalogInv
<1>11. Serial => Serial'
  <2>1. ASSUME Serial PROVE Serial'
    <3>1. \A j, k \in Ingesters : pc'[j] \in InTransaction /\ pc'[k] \in InTransaction => j = k
      BY <1>1, <2>1 DEF Serial, InTransaction
    <3>2. \A j \in Ingesters : Fresh(j)'
      BY <1>8, <1>9, <2>1 DEF Serial
    <3> QED  BY <1>4, <2>1, <3>1, <3>2 DEF Serial, Whole
  <2> QED  BY <2>1
<1> QED  BY <1>10, <1>11

(* One row of a flush: nothing to send, or its lock is free and it is sent.*)
Sends(i, row) ==
  /\ row \in Sendable(pc[i]) /\ row \in Rows
  /\ flushed' = [flushed EXCEPT ![i] = @ \cup {row}]
  /\ \/ /\ ~Writes(i, row) \/ (Deletes(i, row) /\ row \in stale[i])
        /\ locks' = locks
     \/ /\ Writes(i, row) /\ row \notin stale[i] /\ locks[row] = None
        /\ Inserts(i, row) => db[row] = NoRow
        /\ locks' = [locks EXCEPT ![row] = i]
  /\ UNCHANGED <<db, pc, req, loaded, stale, alarm, overlap, released>>

(* Sending a row keeps the invariant.                                      *)
LEMMA SendKeeps ==
  ASSUME CatalogInv, NEW i \in Ingesters, NEW row, Sends(i, row)
  PROVE  CatalogInv' /\ (Serial => Serial')
<1>0. Shape /\ \A j \in Ingesters : Session(j) /\ Locked(j) /\ Present(j) /\ Placed(j)
  BY DEF CatalogInv
<1>1. /\ db' = db /\ pc' = pc /\ req' = req /\ loaded' = loaded /\ stale' = stale
      /\ alarm' = alarm /\ overlap' = overlap /\ released' = released
      /\ row \in Sendable(pc[i]) /\ row \in Rows
  BY DEF Sends
<1>2. /\ flushed' \in [Ingesters -> SUBSET Rows] /\ flushed'[i] = flushed[i] \cup {row}
      /\ \A j \in Ingesters : j # i => flushed'[j] = flushed[j]
  BY <1>0, <1>1 DEF Shape, TypeOK, Sends
<1>3. locks' \in [Rows -> Ingesters \cup {None}]
  BY <1>0, <1>1 DEF Shape, TypeOK, Sends
<1>4. \A r \in Rows : r # row => locks'[r] = locks[r]
  BY <1>0 DEF Shape, TypeOK, Sends
<1>5. \/ /\ locks' = locks /\ (~Writes(i, row) \/ (Deletes(i, row) /\ row \in stale[i]))
      \/ /\ locks[row] = None /\ locks'[row] = i /\ Writes(i, row) /\ row \notin stale[i]
         /\ Inserts(i, row) => db[row] = NoRow
  BY <1>0, <1>1 DEF Shape, TypeOK, Sends
<1>6. \A j \in Ingesters : \A r : /\ Inserts(j, r)' <=> Inserts(j, r)
                                  /\ Writes(j, r)' <=> Writes(j, r)
  BY <1>1, OthersWant
<1>7. Shape'
  BY <1>0, <1>1, <1>2, <1>3 DEF Shape, TypeOK
<1>8. ASSUME NEW j \in Ingesters PROVE Session(j)' /\ Present(j)' /\ Placed(j)'
  <2>1. Present(j)' /\ Placed(j)'
    BY <1>0, <1>1 DEF Present, Placed, SamePlacement
  <2>2. CASE j = i
    BY <1>0, <1>1, <1>2, <2>1, <2>2 DEF Session
  <2>3. CASE j # i
    BY <1>0, <1>1, <1>2, <2>1, <2>3 DEF Session
  <2> QED  BY <2>2, <2>3
<1>9. ASSUME NEW j \in Ingesters PROVE Locked(j)'
  <2>1. ASSUME NEW r \in Rows, locks'[r] = j
        PROVE  /\ r \in flushed'[j] /\ Writes(j, r) /\ r \notin stale[j]
               /\ Inserts(j, r) => db[r] = NoRow
    <3>1. CASE locks[r] = j
      BY <1>0, <1>2, <2>1, <3>1 DEF Locked
    <3>2. CASE locks[r] # j
      <4>1. r = row /\ j = i
        BY <1>4, <1>5, <2>1, <3>2
      <4> QED  BY <1>2, <1>5, <2>1, <3>2, <4>1
    <3> QED  BY <3>1, <3>2
  <2> QED  BY <1>1, <1>6, <2>1 DEF Locked
<1>10. CatalogInv'
  BY <1>7, <1>8, <1>9 DEF CatalogInv
<1>11. ASSUME Serial PROVE Serial'
  <2>1. ASSUME NEW j \in Ingesters PROVE Fresh(j)'
    <3>1. Fresh(j)
      BY <1>11 DEF Serial
    <3>2. ASSUME NEW r \in flushed'[j] PROVE locks'[r] = j \/ ~Writes(j, r)
      <4>1. r \in Rows
        BY <1>2
      <4>2. CASE r \in flushed[j]
        <5>1. locks[r] = j => locks'[r] = j
          BY <1>4, <1>5, <4>1, NoneIs
        <5> QED  BY <3>1, <4>2, <5>1 DEF Fresh
      <4>3. CASE r \notin flushed[j]
        <5>1. r = row /\ j = i
          BY <1>2, <3>2, <4>3
        <5> QED  BY <1>5, <3>1, <5>1 DEF Fresh
      <4> QED  BY <4>2, <4>3
    <3>3. Read(pc'[j]) = Read(pc[j]) /\ \A r : (Writes(j, r)' <=> Writes(j, r))
      <4>1. Read(pc'[j]) = Read(pc[j])
        BY <1>1
      <4>2. \A r : (Writes(j, r)' <=> Writes(j, r))
        BY <1>6, Zenon
      <4> QED  BY <4>1, <4>2, Zenon
    <3>4. \A r \in Read(pc'[j]) : loaded'[j][r] = db'[r]
      BY <1>1, <3>1, <3>3 DEF Fresh
    <3>5. \A r \in flushed'[j] : locks'[r] = j \/ ~Writes(j, r)'
      BY <3>2, <3>3
    <3>6. stale'[j] = {}
      BY <1>1, <3>1 DEF Fresh
    <3> QED  BY <3>4, <3>5, <3>6 DEF Fresh
  <2> QED  BY <1>1, <1>11, <2>1 DEF Serial, Whole
<1> QED  BY <1>10, <1>11

(* Verification goes on to its next SELECT.                                *)
LEMMA CheckKeeps ==
  ASSUME CatalogInv, NEW i \in Ingesters, NEW next \in Verifying, pc[i] \in Verifying,
         Goto(i, next),
         UNCHANGED <<db, locks, req, loaded, stale, flushed, alarm, overlap, released>>
  PROVE  CatalogInv' /\ (Serial => Serial')
<1>0. Shape /\ \A j \in Ingesters : Session(j) /\ Locked(j) /\ Present(j) /\ Placed(j)
  BY DEF CatalogInv
<1>1. /\ pc'[i] = next /\ \A j \in Ingesters : j # i => pc'[j] = pc[j]
      /\ pc' \in [Ingesters -> {"idle"} \cup InTransaction \cup Verifying]
  BY <1>0 DEF Shape, TypeOK, Goto
<1>2. Verifying \cap InTransaction = {} /\ "idle" \notin Verifying
  BY DEF Verifying, InTransaction
<1>3. \A j \in Ingesters : /\ Read(pc'[j]) = Read(pc[j]) /\ Sendable(pc'[j]) = Sendable(pc[j])
                           /\ Sent(pc'[j]) = Sent(pc[j])
  BY <1>1, <1>2, StepsAre
<1>4. \A j \in Ingesters : \A r : /\ Inserts(j, r)' <=> Inserts(j, r)
                                  /\ Writes(j, r)' <=> Writes(j, r)
  BY OthersWant
<1>5. Shape'
  BY <1>0, <1>1, <1>2 DEF Shape, TypeOK
<1>6. loaded[i]["logical"] = NoRow
  BY <1>0, <1>2, StepsAre, RowsAre DEF Session
<1>7. ASSUME NEW j \in Ingesters PROVE Session(j)' /\ Locked(j)' /\ Present(j)' /\ Placed(j)'
  <2>1. Session(j)' /\ Present(j)'
    BY <1>0, <1>3 DEF Session, Present
  <2>2. Locked(j)'
    BY <1>0, <1>4 DEF Locked
  <2>3. Placed(j)'
    BY <1>0, <1>1, <1>6 DEF Placed, SamePlacement
  <2> QED  BY <2>1, <2>2, <2>3
<1>8. ASSUME Serial PROVE Serial'
  <2>1. ASSUME NEW j \in Ingesters PROVE Fresh(j)'
    <3>1. Fresh(j) /\ Read(pc'[j]) = Read(pc[j]) /\ \A r : (Writes(j, r)' <=> Writes(j, r))
      <4>1. Fresh(j) /\ Read(pc'[j]) = Read(pc[j])
        BY <1>3, <1>8 DEF Serial
      <4>2. \A r : (Writes(j, r)' <=> Writes(j, r))
        BY <1>4, Zenon
      <4> QED  BY <4>1, <4>2, Zenon
    <3> QED  BY <3>1 DEF Fresh
  <2>2. \A j, k \in Ingesters : pc'[j] \in InTransaction /\ pc'[k] \in InTransaction => j = k
    BY <1>1, <1>2, <1>8 DEF Serial
  <2> QED  BY <1>8, <2>1, <2>2 DEF Serial, Whole
<1> QED  BY <1>5, <1>7, <1>8 DEF CatalogInv

(* A value of a row is the function of its columns.                        *)
LEMMA ValuesAreFunctions ==
  ASSUME NEW row \in Rows, NEW v \in RowValues[row]
  PROVE  v = [c \in DOMAIN v |-> v[c]]
<1>1. CASE row = "ingest"
  <2>1. v = [fingerprint |-> v.fingerprint, state |-> v.state]
    BY <1>1, ValuesAre
  <2> QED  BY <2>1
<1>2. CASE row # "ingest"
  <2>1. row \in ContentRows
    BY <1>2, RowsAre
  <2>2. PICK q \in Requests : v \in [DOMAIN Content[q][row] -> Columns(row)]
    BY <2>1, ValuesAre
  <2> QED  BY <2>2
<1> QED  BY <1>1, <1>2

(* What a commit does to the row of the placement.                         *)
LEMMA CommitPlaces ==
  ASSUME CatalogInv, NEW i \in Ingesters, Commit(i), db["logical"] # NoRow
  PROVE  db'["logical"] # NoRow /\ db'["logical"].placement = db["logical"].placement
<1>0. Shape /\ Session(i) /\ Locked(i) /\ Present(i) /\ Placed(i)
  BY DEF CatalogInv
<1>1. /\ pc[i] = "flush_rest" /\ "logical" \in Rows
      /\ db'["logical"] = IF locks["logical"] = i THEN Written(i, "logical") ELSE db["logical"]
  BY RowsAre DEF Commit
<1>2. CASE locks["logical"] # i
  BY <1>1, <1>2
<1>3. CASE locks["logical"] = i
  <2>1. /\ Wanted(i, "logical") # NoRow /\ req[i] \in Requests
        /\ Wanted(i, "logical") = Content[req[i]]["logical"]
    BY <1>0, <1>1, WantedIs, ReqIs DEF Wanted
  <2>2. Updates(i, "logical")
    BY <1>0, <1>1, <1>3, <2>1 DEF Locked, Writes, Inserts, Deletes, Updates
  <2>3. /\ loaded[i]["logical"].placement = db["logical"].placement
        /\ loaded[i]["logical"].placement = Wanted(i, "logical").placement
    BY <1>0, <1>1, <2>1, <2>2 DEF Placed, SamePlacement, Updates
  <2>4. "placement" \in DOMAIN Wanted(i, "logical")
    BY <2>1, ContentIs
  <2>5. Written(i, "logical").placement = db["logical"].placement
    BY <2>2, <2>3, <2>4 DEF Written
  <2>6. Written(i, "logical") # NoRow
    BY <1>1, <1>3, <2>1, WrittenIs DEF Deletes
  <2> QED  BY <1>1, <1>3, <2>5, <2>6
<1> QED  BY <1>2, <1>3

(* A commit keeps the invariant: no other transaction has a lock on what   *)
(* it writes, and the sessions that loaded a deleted row know.             *)
LEMMA CommitKeeps ==
  ASSUME CatalogInv, NEW i \in Ingesters, Commit(i)
  PROVE  CatalogInv'
<1> DEFINE deleted == {row \in Rows : locks[row] = i /\ Deletes(i, row)}
<1>0. Shape /\ \A j \in Ingesters : Session(j) /\ Locked(j) /\ Present(j) /\ Placed(j)
  BY DEF CatalogInv
<1>1. /\ pc[i] = "flush_rest" /\ Close(i, "check_logical", deleted)
      /\ db' = [row \in Rows |-> IF locks[row] = i THEN Written(i, row) ELSE db[row]]
      /\ req' = req /\ overlap' = overlap /\ alarm' = alarm
  BY DEF Commit
<1>2. /\ deleted \in SUBSET Rows /\ "check_logical" \in Verifying
      /\ \A row \in Rows : row \in deleted <=> locks[row] = i /\ Deletes(i, row)
  BY DEF Verifying
<1> HIDE DEF deleted
<1>3. /\ pc'[i] = "check_logical" /\ flushed'[i] = {} /\ stale'[i] = {} /\ loaded'[i] = NothingLoaded
      /\ \A row \in Rows : locks'[row] = IF locks[row] = i THEN None ELSE locks[row]
      /\ \A j \in Ingesters : j # i =>
           /\ pc'[j] = pc[j] /\ flushed'[j] = flushed[j] /\ loaded'[j] = loaded[j]
           /\ stale'[j] = stale[j] \cup {row \in deleted : loaded[j][row] # NoRow}
      /\ loaded' = [j \in Ingesters |-> loaded'[j]]
      /\ \A j \in Ingesters : loaded'[j] = [row \in Rows |-> loaded'[j][row]]
  BY <1>0, <1>1, CloseIs
<1>4. \A row \in Rows : db'[row] \in RowValues[row] \cup {NoRow}
  BY <1>0, <1>1, WrittenIs DEF Shape, TypeOK
<1>5. \A row \in Rows : db[row] # NoRow /\ db'[row] = NoRow => row \in deleted
  BY <1>0, <1>1, <1>2, WrittenIs
<1>6. Shape'
  <2>1. TypeOK'
    <3>1. /\ pc' \in [Ingesters -> {"idle"} \cup InTransaction \cup Verifying]
          /\ locks' \in [Rows -> Ingesters \cup {None}]
          /\ stale' \in [Ingesters -> SUBSET Rows] /\ flushed' \in [Ingesters -> SUBSET Rows]
          /\ \A j \in Ingesters, row \in Rows : loaded'[j][row] \in RowValues[row] \cup {NoRow}
      BY <1>0, <1>1, <1>2, CloseTypes
    <3> QED  BY <1>0, <1>1, <1>4, <3>1 DEF Shape, TypeOK
  <2>2. \A j \in Ingesters : (pc'[j] = "idle") <=> (req'[j] = None)
    BY <1>0, <1>1, <1>3 DEF Shape
  <2>3. db' = [row \in Rows |-> db'[row]]
    BY <1>1
  <2> QED  BY <1>3, <2>1, <2>2, <2>3 DEF Shape
<1>7. Session(i)' /\ Locked(i)' /\ Present(i)' /\ Placed(i)'
  <2>1. \A row \in Rows : locks'[row] # i
    BY <1>3, NoneIs
  <2> QED  BY <1>3, <2>1, EmptySession DEF InTransaction
<1>8. ASSUME NEW j \in Ingesters, j # i
      PROVE  Session(j)' /\ Locked(j)' /\ Present(j)' /\ Placed(j)'
  <2>1. /\ pc'[j] = pc[j] /\ flushed'[j] = flushed[j] /\ loaded'[j] = loaded[j] /\ req'[j] = req[j]
        /\ stale'[j] = stale[j] \cup {row \in deleted : loaded[j][row] # NoRow}
    BY <1>1, <1>3, <1>8
  <2>2. \A row \in Rows : locks'[row] = j => /\ locks[row] = j /\ db'[row] = db[row]
                                             /\ row \notin deleted
    BY <1>1, <1>2, <1>3, <1>8, NoneIs
  <2>3. \A row : (Inserts(j, row)' <=> Inserts(j, row)) /\ (Writes(j, row)' <=> Writes(j, row))
    BY <2>1, OthersWant
  <2>4. Session(j)'
    BY <1>0, <1>2, <2>1 DEF Session
  <2>5. Locked(j)'
    BY <1>0, <2>1, <2>2, <2>3 DEF Locked
  <2>6. Present(j)'
    BY <1>0, <1>5, <2>1 DEF Present
  <2>7. Placed(j)'
    <3>1. loaded[j]["logical"] # NoRow => /\ db'["logical"] # NoRow
                                          /\ db'["logical"].placement = db["logical"].placement
      BY <1>0, CommitPlaces DEF Placed
    <3> QED  BY <1>0, <2>1, <3>1 DEF Placed, SamePlacement
  <2> QED  BY <2>4, <2>5, <2>6, <2>7
<1> QED  BY <1>6, <1>7, <1>8 DEF CatalogInv

(* The only open transaction commits: the catalog is its request.          *)
LEMMA CommitSerial ==
  ASSUME CatalogInv, Serial, NEW i \in Ingesters, Commit(i)
  PROVE  Serial'
<1> DEFINE deleted == {row \in Rows : locks[row] = i /\ Deletes(i, row)}
<1>0. /\ Shape /\ \A j \in Ingesters : Session(j) /\ Locked(j)
      /\ \A j \in Ingesters : Fresh(j)
  BY DEF CatalogInv, Serial
<1>1. /\ pc[i] = "flush_rest" /\ Close(i, "check_logical", deleted)
      /\ db' = [row \in Rows |-> IF locks[row] = i THEN Written(i, row) ELSE db[row]]
      /\ req' = req /\ released' = released /\ {"semantics", "ingest"} \subseteq flushed[i]
  BY DEF Commit
<1> HIDE DEF deleted
<1>2. pc[i] \in InTransaction /\ "check_logical" \notin InTransaction /\ pc[i] # "idle"
  BY <1>1 DEF InTransaction
<1>3. \A row \in Rows : row \in flushed[i] /\ row \in Read(pc[i])
  BY <1>0, <1>1, RowsAre DEF Session, Sent, Read
<1>4. /\ pc'[i] = "check_logical" /\ flushed'[i] = {} /\ stale'[i] = {} /\ loaded'[i] = NothingLoaded
      /\ \A row \in Rows : locks'[row] = IF locks[row] = i THEN None ELSE locks[row]
      /\ \A j \in Ingesters : j # i =>
           /\ pc'[j] = pc[j] /\ flushed'[j] = flushed[j] /\ loaded'[j] = loaded[j]
           /\ stale'[j] = stale[j] \cup {row \in deleted : loaded[j][row] # NoRow}
  BY <1>0, <1>1, CloseIs
<1>5. ASSUME NEW row \in Rows PROVE db'[row] = Wanted(i, row)
  <2>1. loaded[i][row] = db[row] /\ (locks[row] = i \/ ~Writes(i, row))
    BY <1>0, <1>3 DEF Fresh
  <2>2. CASE locks[row] # i
    BY <1>1, <2>1, <2>2 DEF Writes, Inserts, Deletes, Updates
  <2>3. CASE locks[row] = i /\ ~Updates(i, row)
    BY <1>1, <2>3 DEF Written
  <2>4. CASE locks[row] = i /\ Updates(i, row)
    <3>1. Wanted(i, row) \in RowValues[row]
      BY <1>0, <1>2, <2>4, WantedIs DEF Updates
    <3>2. Wanted(i, row) = [c \in DOMAIN Wanted(i, row) |-> Wanted(i, row)[c]]
      BY <3>1, ValuesAreFunctions
    <3>3. Written(i, row) = [c \in DOMAIN Wanted(i, row) |-> Wanted(i, row)[c]]
      BY <2>1, <2>4 DEF Written
    <3> QED  BY <1>1, <2>4, <3>2, <3>3
  <2> QED  BY <2>2, <2>3, <2>4
<1>6. Whole(req[i])' /\ req[i] \in Requests
  <2>1. req[i] \in Requests
    BY <1>0, <1>2, ReqIs
  <2>2. db'["ingest"] = [fingerprint |-> Fingerprint[req[i]], state |-> NextState(i)]
    BY <1>5, RowsAre DEF Wanted
  <2>3. db'["ingest"] # NoRow
    BY <1>0, <1>2, <1>5, WantedIs, RowsAre
  <2>4. \A row \in ContentRows : db'[row] = Content[req[i]][row]
    BY <1>5, RowsAre DEF Wanted
  <2> QED  BY <1>1, <2>1, <2>2, <2>3, <2>4 DEF Whole
<1>7. db'["ingest"].state = "complete" => released = db'["ingest"].fingerprint
  <2>1. db'["ingest"] = [fingerprint |-> Fingerprint[req[i]], state |-> NextState(i)]
    BY <1>5, RowsAre DEF Wanted
  <2>2. loaded[i]["ingest"] = db["ingest"]
    BY <1>0, <1>3, RowsAre DEF Fresh
  <2> QED  BY <2>1, <2>2 DEF NextState, PackageChanged, Serial
<1>8. ASSUME NEW j \in Ingesters, j # i PROVE pc'[j] \notin InTransaction /\ Fresh(j)'
  <2>1. pc[j] \notin InTransaction
    BY <1>2, <1>8 DEF Serial
  <2>2. Read(pc[j]) = {} /\ flushed[j] = {} /\ \A row \in Rows : loaded[j][row] = NoRow
    BY <1>0, <2>1, StepsAre DEF Session
  <2>3. stale'[j] = {}
    <3>1. \A row \in deleted : row \in Rows
      BY DEF deleted
    <3> QED  BY <1>0, <1>4, <1>8, <2>2, <3>1 DEF Fresh
  <2> QED  BY <1>4, <1>8, <2>1, <2>2, <2>3 DEF Fresh
<1>9. Fresh(i)'
  BY <1>2, <1>4, StepsAre DEF Fresh
<1> QED  BY <1>1, <1>2, <1>4, <1>6, <1>7, <1>8, <1>9 DEF Serial

(* The cleanup stage writes the state of the ingest record only, when no   *)
(* transaction has it locked.                                              *)
LEMMA AdvanceKeeps ==
  ASSUME CatalogInv, AdvanceHandoff
  PROVE  CatalogInv' /\ (~overlap' => (Serial => Serial'))
<1>0. Shape /\ \A j \in Ingesters : Session(j) /\ Locked(j) /\ Present(j) /\ Placed(j)
  BY DEF CatalogInv
<1>1. /\ locks["ingest"] = None /\ db["ingest"] # NoRow
      /\ overlap' = (overlap \/ \E i \in Ingesters : pc[i] \in InTransaction)
      /\ UNCHANGED <<locks, pc, req, loaded, stale, flushed, alarm>>
  BY DEF AdvanceHandoff
<1>2. PICK next \in {"cleanup_pending", "complete"} :
        /\ db' = [db EXCEPT !["ingest"].state = next]
        /\ released' = IF next = "complete" THEN db["ingest"].fingerprint ELSE released
  BY DEF AdvanceHandoff
<1>3. /\ db["ingest"] = [fingerprint |-> db["ingest"].fingerprint, state |-> db["ingest"].state]
      /\ db["ingest"].fingerprint \in {Fingerprint[q] : q \in Requests}
  BY <1>0, <1>1, RowsAre, ValuesAre DEF Shape, TypeOK
<1>4. /\ db' = [row \in Rows |-> db'[row]]
      /\ \A row \in Rows : row # "ingest" => db'[row] = db[row]
      /\ db'["ingest"] = [db["ingest"] EXCEPT !.state = next]
  BY <1>0, <1>2, RowsAre DEF Shape
<1>5. db'["ingest"] = [fingerprint |-> db["ingest"].fingerprint, state |-> next]
  BY <1>3, <1>4
<1>6. db'["ingest"] \in RowValues["ingest"] /\ db'["ingest"] # NoRow
  <2>1. next \in {"cataloged", "cleanup_pending", "complete"}
    OBVIOUS
  <2>2. [fingerprint |-> db["ingest"].fingerprint, state |-> next] \in RowValues["ingest"]
    BY <1>3, <2>1, ValuesAre, Zenon
  <2>3. "ingest" \in Rows
    BY RowsAre
  <2> QED  BY <1>5, <2>2, <2>3, ValuesAreRows
<1>7. Shape'
  <2>1. \A row \in Rows : db'[row] \in RowValues[row] \cup {NoRow}
    BY <1>0, <1>4, <1>6 DEF Shape, TypeOK
  <2> QED  BY <1>0, <1>1, <1>4, <2>1 DEF Shape, TypeOK
<1>8. ASSUME NEW j \in Ingesters PROVE Session(j)' /\ Locked(j)' /\ Present(j)' /\ Placed(j)'
  <2>1. \A row : (Inserts(j, row)' <=> Inserts(j, row)) /\ (Writes(j, row)' <=> Writes(j, row))
    BY <1>1, OthersWant
  <2>2. Session(j)'
    BY <1>0, <1>1 DEF Session
  <2>3. Locked(j)'
    BY <1>0, <1>1, <1>4, <2>1, NoneIs DEF Locked
  <2>4. Present(j)'
    BY <1>0, <1>1, <1>4, <1>6 DEF Present
  <2>5. Placed(j)'
    BY <1>0, <1>1, <1>4, RowsAre DEF Placed, SamePlacement
  <2> QED  BY <2>2, <2>3, <2>4, <2>5
<1>9. ASSUME ~overlap', Serial PROVE Serial'
  <2>1. \A j \in Ingesters : pc[j] \notin InTransaction
    BY <1>1, <1>9
  <2>2. \A j \in Ingesters : Read(pc[j]) = {} /\ flushed[j] = {} /\ stale[j] = {}
    BY <1>0, <1>9, <2>1, StepsAre DEF Session, Serial, Fresh
  <2>3. \A j \in Ingesters : pc'[j] \notin InTransaction /\ Fresh(j)'
    BY <1>1, <2>1, <2>2 DEF Fresh
  <2>4. PICK q \in Requests : Whole(q)
    BY <1>1, <1>9, RowsAre DEF Serial, NothingLoaded
  <2>5. Whole(q)'
    BY <1>4, <1>5, <1>6, <2>4, RowsAre DEF Whole
  <2>6. db'["ingest"].state = "complete" => released' = db'["ingest"].fingerprint
    BY <1>2, <1>5
  <2> QED  BY <2>3, <2>5, <2>6 DEF Serial
<1> QED  BY <1>7, <1>8, <1>9 DEF CatalogInv

---------------------------------------------------------------------------------
(* Every step.                                                             *)

(* A SELECT inside a transaction, or the one that opens it.                *)
Reads(i, rows, step) ==
  /\ Selects(i, rows, step)
  /\ step = "flush_rest" => "semantics" \in rows
  /\ alarm' = alarm /\ released' = released
  /\ \/ pc[i] \in InTransaction /\ overlap' = overlap
     \/ pc[i] = "idle" /\ (~overlap' => ~overlap /\ \A j \in Ingesters : pc[j] \notin InTransaction)

(* Verification finds what it compares and goes on to its next SELECT.     *)
Compared(step) ==
  CASE step = "check_logical"    -> {"logical"}
    [] step = "check_renditions" -> Kinds
    [] step = "check_semantics"  -> {"semantics"}
    [] OTHER                     -> {"ingest"}

GoesOn(i, next) ==
  /\ \/ pc[i] = "check_logical" /\ next = "check_renditions"
     \/ pc[i] = "check_renditions" /\ next = "check_semantics"
     \/ pc[i] = "check_semantics" /\ next = "check_ingest"
  /\ \A row \in Compared(pc[i]) : Agrees(req[i], row)
  /\ Goto(i, next)
  /\ UNCHANGED <<db, locks, req, loaded, stale, flushed, alarm, overlap, released>>

(* The last comparison holds and the call succeeds.                        *)
Succeeds(i) == pc[i] = "check_ingest" /\ Agrees(req[i], "ingest") /\ alarm' = alarm

(* What a step of process i is, for the invariants.                        *)
Does(i) ==
  \/ Ends(i) /\ (alarm' = TRUE \/ Succeeds(i))
  \/ \E row \in Rows : Sends(i, row)
  \/ \E rows \in SUBSET Rows, step \in InTransaction : Reads(i, rows, step)
  \/ Commit(i)
  \/ \E next \in Verifying : GoesOn(i, next)

(* Every step is one of these.                                             *)
LEMMA StepKinds ==
  ASSUME CatalogInv, [Next]_vars
  PROVE  (\E i \in Ingesters : Does(i)) \/ AdvanceHandoff \/ UNCHANGED vars
<1>0. Shape /\ \A j \in Ingesters : Session(j) /\ Locked(j) /\ Present(j) /\ Placed(j)
  BY DEF CatalogInv
<1>e. ASSUME NEW i \in Ingesters, Ends(i), alarm' = TRUE \/ Succeeds(i) PROVE Does(i)
  BY <1>e DEF Does
<1>r. ASSUME NEW i \in Ingesters, NEW rows \in SUBSET Rows, NEW step \in InTransaction,
             Reads(i, rows, step)
      PROVE  Does(i)
  BY <1>r DEF Does
<1>f. ASSUME NEW i \in Ingesters, NEW row \in Rows, row \in Sendable(pc[i]), FlushRow(i, row)
      PROVE  Does(i)
  <2>1. Sends(i, row) \/ (Ends(i) /\ alarm' = TRUE)
    BY <1>0, <1>f DEF FlushRow, Sends, Ends, Fail
  <2> QED  BY <1>e, <2>1 DEF Does
<1>p. ASSUME NEW i \in Ingesters, pc[i] \in {"flush_logical", "flush_renditions", "flush_rest"}
      PROVE  SamePlacement(i) /\ req[i] \in Requests /\ alarm \in BOOLEAN /\ overlap \in BOOLEAN
             /\ pc[i] \in InTransaction /\ req = [req EXCEPT ![i] = req[i]]
  BY <1>0, <1>p, ReqIs DEF Placed, SamePlacement, Shape, TypeOK, InTransaction
<1>1. ASSUME NEW i \in Ingesters, ReadLogical(i) PROVE Does(i)
  <2>1. pc[i] = "idle" /\ Read("idle") = {} /\ Sendable("idle") = {}
    BY <1>1, StepsAre DEF ReadLogical, InTransaction
  <2>2. PICK q \in Requests : req' = [req EXCEPT ![i] = q]
    BY <1>1 DEF ReadLogical
  <2>3. req' = [req EXCEPT ![i] = req'[i]] /\ req'[i] \in Requests
    BY <1>0, <2>2 DEF Shape, TypeOK
  <2>4. Read("read_ingest") = {"logical"} /\ Sent("read_ingest") = {}
    BY DEF Read, Sent
  <2>5. {"logical"} \subseteq Rows /\ "read_ingest" \in InTransaction
    BY RowsAre DEF InTransaction
  <2>6. Selects(i, {"logical"}, "read_ingest")
    <3>1. overlap' \in BOOLEAN /\ alarm' \in BOOLEAN
      BY <1>0, <1>1 DEF ReadLogical, Shape, TypeOK
    <3>2. Load(i, {"logical"}) /\ Goto(i, "read_ingest") /\ UNCHANGED <<db, locks, stale, flushed>>
      BY <1>1 DEF ReadLogical
    <3> QED  BY <2>1, <2>3, <2>4, <2>5, <3>1, <3>2 DEF Selects
  <2>7. Reads(i, {"logical"}, "read_ingest")
    BY <1>1, <2>1, <2>6 DEF ReadLogical, Reads
  <2> QED  BY <1>r, <2>5, <2>7
<1>2. ASSUME NEW i \in Ingesters, ReadIngest(i) PROVE Does(i)
  <2>1. CASE ~SamePlacement(i)
    <3>1. Ends(i) /\ alarm' = TRUE
      BY <1>2, <2>1 DEF ReadIngest, Ends, Fail
    <3> QED  BY <1>e, <3>1
  <2>2. CASE SamePlacement(i)
    <3>1. /\ pc[i] = "read_ingest" /\ Load(i, {"ingest"}) /\ Goto(i, "flush_logical")
          /\ UNCHANGED <<db, locks, req, stale, flushed, alarm, overlap, released>>
      BY <1>2, <2>2 DEF ReadIngest
    <3>2. /\ Read("flush_logical") = {"logical", "ingest"} /\ Sent("flush_logical") = {}
          /\ Read("read_ingest") = {"logical"} /\ Sendable("read_ingest") = {}
      BY DEF Read, Sent, Sendable
    <3>3. /\ req[i] \in Requests /\ alarm \in BOOLEAN /\ overlap \in BOOLEAN
          /\ req = [req EXCEPT ![i] = req[i]] /\ pc[i] \in InTransaction
      BY <1>0, <3>1, ReqIs DEF Shape, TypeOK, InTransaction
    <3>4. Selects(i, {"ingest"}, "flush_logical")
      BY <2>2, <3>1, <3>2, <3>3, RowsAre DEF Selects, InTransaction
    <3>5. Reads(i, {"ingest"}, "flush_logical")
      BY <3>1, <3>3, <3>4 DEF Reads
    <3>6. {"ingest"} \in SUBSET Rows /\ "flush_logical" \in InTransaction
      BY RowsAre DEF InTransaction
    <3> QED  BY <1>r, <3>5, <3>6
  <2> QED  BY <2>1, <2>2
<1>3. ASSUME NEW i \in Ingesters, ReadRenditions(i) PROVE Does(i)
  <2>1. /\ pc[i] = "flush_logical" /\ Load(i, Kinds) /\ Goto(i, "flush_renditions")
        /\ "logical" \in flushed[i]
        /\ UNCHANGED <<db, locks, req, stale, flushed, alarm, overlap, released>>
    BY <1>3 DEF ReadRenditions, Select
  <2>2. /\ Read("flush_logical") = {"logical", "ingest"} /\ Sendable("flush_logical") = {"logical"}
        /\ Read("flush_renditions") = {"logical", "ingest"} \cup Kinds
        /\ Sent("flush_renditions") = {"logical"}
        /\ Sendable("flush_renditions") = {"logical"} \cup Kinds
    BY DEF Read, Sent, Sendable
  <2>3. Kinds \in SUBSET Rows /\ "logical" \notin Kinds /\ "ingest" \notin Kinds
        /\ "flush_renditions" \in InTransaction
    BY RowsAre, CatalogAssumption DEF InTransaction
  <2>4. Selects(i, Kinds, "flush_renditions")
    BY <1>p, <2>1, <2>2, <2>3 DEF Selects, InTransaction
  <2>5. Reads(i, Kinds, "flush_renditions")
    BY <1>p, <2>1, <2>4 DEF Reads
  <2> QED  BY <1>r, <2>3, <2>5
<1>4. ASSUME NEW i \in Ingesters, ReadSemantics(i) PROVE Does(i)
  <2>1. /\ pc[i] = "flush_renditions" /\ Load(i, {"semantics"}) /\ Goto(i, "flush_rest")
        /\ Kinds \subseteq flushed[i]
        /\ UNCHANGED <<db, locks, req, stale, flushed, alarm, overlap, released>>
    BY <1>4 DEF ReadSemantics, Select
  <2>2. /\ Read("flush_renditions") = {"logical", "ingest"} \cup Kinds /\ Read("flush_rest") = Rows
        /\ Sent("flush_renditions") = {"logical"} /\ Sent("flush_rest") = {"logical"} \cup Kinds
        /\ Sendable("flush_renditions") = {"logical"} \cup Kinds /\ Sendable("flush_rest") = Rows
    BY DEF Read, Sent, Sendable
  <2>3. "semantics" \notin Kinds /\ "logical" \in flushed[i]
    BY <1>0, <2>1, <2>2, CatalogAssumption DEF Session
  <2>4. Selects(i, {"semantics"}, "flush_rest")
    BY <1>p, <2>1, <2>2, <2>3, RowsAre DEF Selects, InTransaction
  <2>5. Reads(i, {"semantics"}, "flush_rest")
    BY <1>p, <2>1, <2>4 DEF Reads
  <2>6. {"semantics"} \in SUBSET Rows /\ "flush_rest" \in InTransaction
    BY RowsAre DEF InTransaction
  <2> QED  BY <1>r, <2>5, <2>6
<1>5. ASSUME NEW i \in Ingesters, FlushLogical(i) PROVE Does(i)
  BY <1>5, <1>f, RowsAre DEF FlushLogical, Sendable
<1>6. ASSUME NEW i \in Ingesters, NEW k \in Kinds, FlushRendition(i, k) PROVE Does(i)
  BY <1>6, <1>f, RowsAre DEF FlushRendition, Sendable
<1>7. ASSUME NEW i \in Ingesters, FlushSemantics(i) \/ FlushIngest(i) PROVE Does(i)
  <2>1. pc[i] = "flush_rest" /\ Sendable("flush_rest") = Rows
    BY <1>7 DEF FlushSemantics, FlushIngest, Sendable
  <2>2. PICK row \in {"semantics", "ingest"} : FlushRow(i, row)
    BY <1>7 DEF FlushSemantics, FlushIngest
  <2> QED  BY <1>f, <2>1, <2>2, RowsAre
<1>9. ASSUME NEW i \in Ingesters, Verify(i) PROVE Does(i)
  <2>1. ASSUME NEW rows, NEW next, Check(i, pc[i], rows, next), \E row \in rows : ~Agrees(req[i], row)
        PROVE  Does(i)
    <3>1. Ends(i) /\ alarm' = TRUE
      BY <2>1 DEF Check, Ends, Fail
    <3> QED  BY <1>e, <3>1
  <2>2. ASSUME NEW next \in Verifying, Check(i, pc[i], Compared(pc[i]), next),
               \/ pc[i] = "check_logical" /\ next = "check_renditions"
               \/ pc[i] = "check_renditions" /\ next = "check_semantics"
               \/ pc[i] = "check_semantics" /\ next = "check_ingest"
        PROVE  Does(i)
    <3>1. CASE \E row \in Compared(pc[i]) : ~Agrees(req[i], row)
      BY <2>1, <2>2, <3>1
    <3>2. CASE \A row \in Compared(pc[i]) : Agrees(req[i], row)
      <4>1. GoesOn(i, next)
        BY <2>2, <3>2 DEF Check, GoesOn
      <4> QED  BY <4>1 DEF Does
    <3> QED  BY <3>1, <3>2
  <2>3. CASE Check(i, "check_logical", {"logical"}, "check_renditions")
    BY <2>2, <2>3 DEF Check, Compared, Verifying
  <2>4. CASE Check(i, "check_renditions", Kinds, "check_semantics")
    BY <2>2, <2>4 DEF Check, Compared, Verifying
  <2>5. CASE Check(i, "check_semantics", {"semantics"}, "check_ingest")
    BY <2>2, <2>5 DEF Check, Compared, Verifying
  <2>6. CASE Check(i, "check_ingest", {"ingest"}, "idle")
    <3>1. CASE ~Agrees(req[i], "ingest")
      BY <2>1, <2>6, <3>1 DEF Check
    <3>2. CASE Agrees(req[i], "ingest")
      <4>1. Ends(i) /\ Succeeds(i)
        BY <1>0, <2>6, <3>2 DEF Check, Ends, Succeeds, Shape, TypeOK
      <4> QED  BY <1>e, <4>1
    <3> QED  BY <3>1, <3>2
  <2> QED  BY <1>9, <2>3, <2>4, <2>5, <2>6 DEF Verify
<1>10. ASSUME NEW i \in Ingesters, DeadlockAbort(i) \/ Crash(i) PROVE Does(i)
  <2>1. Ends(i) /\ alarm' = TRUE
    BY <1>10 DEF DeadlockAbort, Crash, Fail, Ends
  <2> QED  BY <1>e, <2>1
<1>11. ASSUME NEW i \in Ingesters, Commit(i) PROVE Does(i)
  BY <1>11 DEF Does
<1>12. CASE Next
  <2>1. CASE AdvanceHandoff
    BY <2>1
  <2>2. CASE \E i \in Ingesters : ReadLogical(i) \/ Step(i) \/ Crash(i)
    <3>1. PICK i \in Ingesters : ReadLogical(i) \/ Step(i) \/ Crash(i)
      BY <2>2
    <3>2. Does(i)
      BY <3>1, <1>1, <1>2, <1>3, <1>4, <1>5, <1>6, <1>7, <1>9, <1>10, <1>11 DEF Step
    <3> QED  BY <3>2
  <2> QED  BY <1>12, <2>1, <2>2 DEF Next
<1> QED  BY <1>12

(* Every step keeps the invariant, and, while no two transactions overlap, *)
(* the catalog is one request.                                             *)
LEMMA NextKeeps ==
  ASSUME CatalogInv, SerialInv, [Next]_vars
  PROVE  CatalogInv' /\ SerialInv'
<1>0. Shape /\ \A j \in Ingesters : Session(j) /\ Locked(j) /\ Present(j) /\ Placed(j)
  BY DEF CatalogInv
<1>1. ASSUME NEW i \in Ingesters, Ends(i) PROVE CatalogInv' /\ SerialInv'
  <2>1. CatalogInv' /\ (Serial => Serial')
    BY <1>1, EndKeeps
  <2> QED  BY <1>1, <2>1 DEF SerialInv, Ends
<1>2. ASSUME NEW i \in Ingesters, NEW row, Sends(i, row) PROVE CatalogInv' /\ SerialInv'
  <2>1. CatalogInv' /\ (Serial => Serial')
    BY <1>2, SendKeeps
  <2> QED  BY <1>2, <2>1 DEF SerialInv, Sends
<1>3. ASSUME NEW i \in Ingesters, NEW rows, NEW step, Reads(i, rows, step)
      PROVE  CatalogInv' /\ SerialInv'
  <2>1. CatalogInv'
    BY <1>3, SelectKeeps DEF Reads
  <2>2. ~overlap' => /\ ~overlap
                     /\ pc[i] \in InTransaction \/ \A j \in Ingesters : pc[j] \notin InTransaction
    BY <1>3 DEF Reads
  <2>3. ~overlap' => Serial'
    BY <1>3, <2>2, SelectSerial DEF SerialInv, Reads
  <2> QED  BY <2>1, <2>3 DEF SerialInv
<1>4. ASSUME NEW i \in Ingesters, Commit(i) PROVE CatalogInv' /\ SerialInv'
  <2>1. overlap' = overlap
    BY <1>4 DEF Commit
  <2> QED  BY <1>4, <2>1, CommitKeeps, CommitSerial DEF SerialInv
<1>5. ASSUME NEW i \in Ingesters, NEW next \in Verifying, GoesOn(i, next)
      PROVE  CatalogInv' /\ SerialInv'
  <2>1. /\ Goto(i, next) /\ pc[i] \in Verifying
        /\ UNCHANGED <<db, locks, req, loaded, stale, flushed, alarm, overlap, released>>
    BY <1>5 DEF GoesOn, Verifying
  <2>2. CatalogInv' /\ (Serial => Serial')
    BY <2>1, CheckKeeps
  <2> QED  BY <2>1, <2>2 DEF SerialInv
<1>6. ASSUME AdvanceHandoff PROVE CatalogInv' /\ SerialInv'
  <2>1. overlap => overlap'
    BY <1>6 DEF AdvanceHandoff
  <2> QED  BY <1>6, <2>1, AdvanceKeeps DEF SerialInv
<1>7. CASE UNCHANGED vars
  <2>1. /\ db' = db /\ locks' = locks /\ pc' = pc /\ req' = req /\ loaded' = loaded
        /\ stale' = stale /\ flushed' = flushed /\ released' = released
        /\ overlap' = overlap /\ alarm' = alarm
    BY <1>7 DEF vars
  <2>2. ASSUME NEW j \in Ingesters
        PROVE  \A r : (Inserts(j, r)' <=> Inserts(j, r)) /\ (Writes(j, r)' <=> Writes(j, r))
    BY <2>1, OthersWant
  <2>3. Shape'
    BY <1>0, <2>1 DEF Shape, TypeOK
  <2>4. ASSUME NEW j \in Ingesters PROVE Session(j)' /\ Locked(j)' /\ Present(j)' /\ Placed(j)'
    <3>1. Session(j)' /\ Present(j)' /\ Placed(j)'
      BY <1>0, <2>1 DEF Session, Present, Placed, SamePlacement
    <3>2. Locked(j)'
      BY <1>0, <2>1, <2>2 DEF Locked
    <3> QED  BY <3>1, <3>2
  <2>5. ASSUME Serial PROVE Serial'
    <3>1. ASSUME NEW j \in Ingesters PROVE Fresh(j)'
      <4>1. Fresh(j)
        BY <2>5 DEF Serial
      <4>2. \A r : (Writes(j, r)' <=> Writes(j, r))
        BY <2>2, Zenon
      <4> QED  BY <2>1, <4>1, <4>2 DEF Fresh
    <3> QED  BY <2>1, <2>5, <3>1 DEF Serial, Whole
  <2> QED  BY <2>1, <2>3, <2>4, <2>5 DEF CatalogInv, SerialInv
<1>8. ASSUME NEW i \in Ingesters, Does(i) PROVE CatalogInv' /\ SerialInv'
  BY <1>8, <1>1, <1>2, <1>3, <1>4, <1>5 DEF Does
<1> QED  BY <1>6, <1>7, <1>8, StepKinds

(* CatalogInv: the inductive invariant of the sessions and the locks, with *)
(* SerialInv, that of calls which do not overlap.                          *)
THEOREM CatalogInductive == Spec => [](CatalogInv /\ SerialInv)
<1>1. CatalogInv /\ SerialInv /\ [Next]_vars => (CatalogInv /\ SerialInv)'
  BY NextKeeps
<1> QED  BY InitInv, <1>1, PTL DEF Spec

(* Calls that do not overlap leave the catalog holding one request.        *)
THEOREM SerialsAreWhole == Spec => []SerialIsWhole
<1>1. SerialInv => SerialIsWhole
  BY DEF SerialInv, Serial, SerialIsWhole
<1> QED  BY <1>1, CatalogInductive, PTL

(* Without overlap, a complete handoff is that of the released revision.   *)
THEOREM CompleteReleased == Spec => []CompleteIsReleased
<1>1. CatalogInv /\ SerialInv => CompleteIsReleased
  BY DEF CatalogInv, Shape, SerialInv, Serial, CompleteIsReleased
<1> QED  BY <1>1, CatalogInductive, PTL

(* A natural key never changes its placement and never disappears.         *)
THEOREM PlacementStays == Spec => PlacementFixed
<1>1. ASSUME CatalogInv, [Next]_vars, db["logical"] # NoRow
      PROVE  db'["logical"] # NoRow /\ db'["logical"].placement = db["logical"].placement
  <2>1. ASSUME NEW i \in Ingesters, Commit(i)
        PROVE  db'["logical"] # NoRow /\ db'["logical"].placement = db["logical"].placement
    BY <1>1, <2>1, CommitPlaces
  <2>2. ASSUME AdvanceHandoff PROVE db'["logical"] = db["logical"]
    <3>1. db = [row \in Rows |-> db[row]] /\ "logical" \in Rows
      BY <1>1, RowsAre DEF CatalogInv, Shape
    <3>2. PICK next : db' = [db EXCEPT !["ingest"].state = next]
      BY <2>2 DEF AdvanceHandoff
    <3> QED  BY <3>1, <3>2
  <2>3. CASE UNCHANGED vars
    BY <1>1, <2>3 DEF vars
  <2> QED  BY <1>1, <2>1, <2>2, <2>3
       DEF Next, Step, ReadLogical, ReadIngest, FlushLogical, FlushRendition, FlushSemantics,
           FlushIngest, FlushRow, ReadRenditions, ReadSemantics, Select, Verify, Check,
           DeadlockAbort, Crash
<1>2. CatalogInv /\ [Next]_vars =>
        [db["logical"] # NoRow =>
           db'["logical"] # NoRow /\ db'["logical"].placement = db["logical"].placement]_vars
  BY <1>1
<1> QED  BY <1>2, CatalogInductive, PTL DEF Spec, PlacementFixed

---------------------------------------------------------------------------------
(* A torn catalog is reported: whoever committed last compares a database  *)
(* that nobody has changed since.                                          *)

(* What a verification has compared by its next SELECT.                    *)
Passed(step) ==
  CASE step = "check_renditions" -> {"logical"}
    [] step = "check_semantics"  -> {"logical"} \cup Kinds
    [] step = "check_ingest"     -> ContentRows
    [] OTHER                     -> {}

(* All that i has compared so far agrees with the database of now.         *)
Vouches(i) == pc[i] \in Verifying /\ \A row \in Passed(pc[i]) : Agrees(req[i], row)

Vouched ==
  ~alarm => \/ db = NothingLoaded
            \/ \E q \in Requests : CheckedWhole(q)
            \/ \E i \in Ingesters : Vouches(i)

(* What verification looks at does not depend on the state of the handoff. *)
LEMMA SameAgrees ==
  ASSUME \A row \in ContentRows : db'[row] = db[row],
         (db'["ingest"] = NoRow) <=> (db["ingest"] = NoRow),
         db["ingest"] # NoRow => db'["ingest"].fingerprint = db["ingest"].fingerprint,
         NEW q
  PROVE  /\ \A row \in Rows : Agrees(q, row)' <=> Agrees(q, row)
         /\ CheckedWhole(q)' <=> CheckedWhole(q)
<1>1. CheckedWhole(q)' <=> CheckedWhole(q)
  BY DEF CheckedWhole
<1>2. ASSUME NEW row \in Rows PROVE Agrees(q, row)' <=> Agrees(q, row)
  BY <1>2, RowsAre DEF Agrees
<1> QED  BY <1>1, <1>2

(* Passed rows are rows.                                                   *)
LEMMA PassedAre ==
  /\ \A step : Passed(step) \subseteq Rows
  /\ Passed("check_logical") = {}
  /\ Passed("check_renditions") = Passed("check_logical") \cup Compared("check_logical")
  /\ Passed("check_semantics") = Passed("check_renditions") \cup Compared("check_renditions")
  /\ Passed("check_ingest") = Passed("check_semantics") \cup Compared("check_semantics")
  /\ Passed("check_ingest") = ContentRows
<1>1. \A step : Passed(step) \subseteq Rows
  BY RowsAre DEF Passed
<1>2. /\ Passed("check_logical") = {} /\ Passed("check_renditions") = {"logical"}
      /\ Passed("check_semantics") = {"logical"} \cup Kinds /\ Passed("check_ingest") = ContentRows
  BY DEF Passed
<1>3. /\ Compared("check_logical") = {"logical"} /\ Compared("check_renditions") = Kinds
      /\ Compared("check_semantics") = {"semantics"}
  BY DEF Compared
<1>4. ContentRows = {"logical", "semantics"} \cup Kinds
  BY DEF ContentRows
<1> QED  BY <1>1, <1>2, <1>3, <1>4

(* A step that leaves the database alone, and the requests and statements  *)
(* of all verifications but i's, leaves them vouching for it.              *)
LEMMA OthersVouch ==
  ASSUME Vouched, NEW i \in Ingesters, ~alarm, db' = db,
         \A j \in Ingesters \ {i} : pc'[j] = pc[j] /\ req'[j] = req[j],
         Vouches(i) => Vouches(i)' \/ \E q \in Requests : CheckedWhole(q)
  PROVE  Vouched'
<1>1. CASE db = NothingLoaded
  BY <1>1 DEF Vouched, NothingLoaded
<1>2. ASSUME NEW q \in Requests, CheckedWhole(q) PROVE Vouched'
  BY <1>2 DEF Vouched, CheckedWhole
<1>3. ASSUME NEW j \in Ingesters, Vouches(j) PROVE Vouched'
  <2>1. CASE j = i
    BY <1>2, <1>3, <2>1 DEF Vouched
  <2>2. CASE j # i
    <3>1. pc'[j] = pc[j] /\ req'[j] = req[j]
      BY <2>2
    <3>2. Vouches(j)'
      BY <1>3, <3>1 DEF Vouches, Agrees
    <3> QED  BY <3>2 DEF Vouched
  <2> QED  BY <2>1, <2>2
<1> QED  BY <1>1, <1>2, <1>3 DEF Vouched

(* Every step keeps somebody vouching.                                     *)
LEMMA VouchedKept ==
  ASSUME CatalogInv, Vouched, [Next]_vars
  PROVE  Vouched'
<1>0. Shape
  BY DEF CatalogInv
<1> SUFFICES ASSUME ~alarm' PROVE Vouched'
  BY DEF Vouched
<1>1. ASSUME NEW i \in Ingesters, Ends(i), alarm' = TRUE \/ Succeeds(i) PROVE Vouched'
  <2>1. Close(i, "idle", {}) /\ req' = [req EXCEPT ![i] = None] /\ db' = db
    BY <1>1 DEF Ends, EndCall
  <2>2. \A j \in Ingesters \ {i} : pc'[j] = pc[j] /\ req'[j] = req[j]
    BY <1>0, <2>1 DEF Shape, TypeOK, Close, Goto
  <2>3. pc[i] = "check_ingest" /\ Agrees(req[i], "ingest") /\ ~alarm /\ req[i] \in Requests
    BY <1>0, <1>1, ReqIs DEF Succeeds
  <2>4. Vouches(i) => CheckedWhole(req[i])
    <3>1. Passed(pc[i]) = ContentRows /\ "ingest" \notin ContentRows
      BY <2>3, PassedAre, RowsAre
    <3> QED  BY <2>3, <3>1 DEF Vouches, Agrees, CheckedWhole
  <2> QED  BY <2>1, <2>2, <2>3, <2>4, OthersVouch
<1>2. ASSUME NEW i \in Ingesters, NEW row, Sends(i, row) PROVE Vouched'
  <2>1. db' = db /\ pc' = pc /\ req' = req /\ alarm' = alarm
    BY <1>2 DEF Sends
  <2>2. Vouches(i) => Vouches(i)'
    BY <2>1 DEF Vouches, Agrees
  <2> QED  BY <2>1, <2>2, OthersVouch
<1>3. ASSUME NEW i \in Ingesters, NEW rows, NEW step, Reads(i, rows, step) PROVE Vouched'
  <2>1. db' = db /\ alarm' = alarm /\ pc[i] \notin Verifying
    BY <1>3 DEF Reads, Selects, InTransaction, Verifying
  <2>2. \A j \in Ingesters \ {i} : pc'[j] = pc[j] /\ req'[j] = req[j]
    BY <1>0, <1>3 DEF Shape, TypeOK, Reads, Selects, Goto
  <2> QED  BY <2>1, <2>2, OthersVouch DEF Vouches
<1>4. ASSUME NEW i \in Ingesters, Commit(i) PROVE Vouched'
  <2>1. pc'[i] = "check_logical"
    BY <1>0, <1>4 DEF Shape, TypeOK, Commit, Close, Goto
  <2>2. Vouches(i)'
    BY <2>1, PassedAre DEF Vouches, Verifying
  <2> QED  BY <2>2 DEF Vouched
<1>5. ASSUME NEW i \in Ingesters, NEW next \in Verifying, GoesOn(i, next) PROVE Vouched'
  <2>1. /\ db' = db /\ alarm' = alarm /\ req' = req
        /\ pc'[i] = next /\ \A j \in Ingesters \ {i} : pc'[j] = pc[j]
    BY <1>0, <1>5 DEF GoesOn, Shape, TypeOK, Goto
  <2>2. Passed(next) = Passed(pc[i]) \cup Compared(pc[i])
    BY <1>5, PassedAre DEF GoesOn
  <2>3. Vouches(i) => Vouches(i)'
    BY <1>5, <2>1, <2>2 DEF GoesOn, Vouches, Agrees
  <2> QED  BY <2>1, <2>3, OthersVouch
<1>6. ASSUME AdvanceHandoff PROVE Vouched'
  <2>1. alarm' = alarm /\ pc' = pc /\ req' = req /\ db["ingest"] # NoRow
    BY <1>6 DEF AdvanceHandoff
  <2>2. PICK next \in {"cleanup_pending", "complete"} : db' = [db EXCEPT !["ingest"].state = next]
    BY <1>6 DEF AdvanceHandoff
  <2>3. /\ db["ingest"] = [fingerprint |-> db["ingest"].fingerprint, state |-> db["ingest"].state]
        /\ db["ingest"].fingerprint \in {Fingerprint[q] : q \in Requests}
    BY <1>0, <2>1, RowsAre, ValuesAre DEF Shape, TypeOK
  <2>4. /\ \A row \in Rows : row # "ingest" => db'[row] = db[row]
        /\ db'["ingest"] = [db["ingest"] EXCEPT !.state = next]
    BY <1>0, <2>2, RowsAre DEF Shape
  <2>5. db'["ingest"] = [fingerprint |-> db["ingest"].fingerprint, state |-> next]
    BY <2>3, <2>4
  <2>6. db'["ingest"] \in RowValues["ingest"]
    <3>1. next \in {"cataloged", "cleanup_pending", "complete"}
      OBVIOUS
    <3>2. [fingerprint |-> db["ingest"].fingerprint, state |-> next] \in RowValues["ingest"]
      BY <2>3, <3>1, ValuesAre, Zenon
    <3> QED  BY <2>5, <3>2
  <2>7. db'["ingest"] # NoRow
    BY <2>6, ValuesAreRows, RowsAre
  <2>8. \A row \in ContentRows : db'[row] = db[row]
    BY <2>4, RowsAre
  <2>9. db'["ingest"].fingerprint = db["ingest"].fingerprint
    BY <2>5
  <2>10. \A q : /\ \A row \in Rows : Agrees(q, row)' <=> Agrees(q, row)
                /\ CheckedWhole(q)' <=> CheckedWhole(q)
    BY <2>1, <2>7, <2>8, <2>9, SameAgrees
  <2>11. \A j \in Ingesters : Vouches(j) => Vouches(j)'
    BY <2>1, <2>10, PassedAre DEF Vouches
  <2>12. db # NothingLoaded
    BY <2>1, RowsAre DEF NothingLoaded
  <2> QED  BY <2>1, <2>10, <2>11, <2>12 DEF Vouched
<1>7. CASE UNCHANGED vars
  <2>1. db' = db /\ pc' = pc /\ req' = req /\ alarm' = alarm
    BY <1>7 DEF vars
  <2> QED  BY <2>1 DEF Vouched, Vouches, CheckedWhole, Agrees
<1>8. ASSUME NEW i \in Ingesters, Does(i) PROVE Vouched'
  BY <1>8, <1>1, <1>2, <1>3, <1>4, <1>5 DEF Does
<1> QED  BY <1>6, <1>7, <1>8, StepKinds

(* A catalog that mixes two revisions in a column that verification        *)
(* compares is reported: with every call over and none failed, it is one   *)
(* request in all these columns.                                           *)
THEOREM TornReported == Spec => []TornIsReported
<1>1. Init => Vouched
  BY DEF Init, Vouched
<1>2. CatalogInv /\ Vouched /\ [Next]_vars => Vouched'
  BY VouchedKept
<1>3. Vouched => TornIsReported
  BY DEF Vouched, Vouches, TornIsReported, Quiescent, Verifying
<1> QED  BY <1>1, <1>2, <1>3, CatalogInductive, PTL DEF Spec

---------------------------------------------------------------------------------
(* The semantics are those of the renditions: with two calls at a time, a  *)
(* call that commits semantics of one revision over renditions of another  *)
(* finds renditions that are not its own, or the other call does.  k and c *)
(* are a rendition kind and a column by which every revision moves.        *)

(* A flushed row is locked, or there was nothing to write, or to delete.   *)
Settled ==
  \A i \in Ingesters : \A row \in flushed[i] :
    locks[row] = i \/ ~Writes(i, row) \/ Deletes(i, row)

(* No session has loaded a row of kind k, or semantics, deleted since.     *)
NotStale(k) == \A i \in Ingesters : k \notin stale[i] /\ "semantics" \notin stale[i]

Sem(i) == Content[req[i]]["semantics"]

(* The rendition and the semantics are of one revision.                    *)
OfOne(k, c) ==
  \/ db[k] = NoRow /\ db["semantics"] = NoRow
  \/ \E q \in Requests : /\ db[k] # NoRow /\ db[k][c] = Content[q][k][c]
                         /\ db["semantics"] = Content[q]["semantics"]

(* The verification of f is yet to find a rendition that is not its own.   *)
Doubts(f, k, c) ==
  /\ pc[f] \in {"check_logical", "check_renditions"}
  /\ db[k] # NoRow /\ db[k][c] # Content[req[f]][k][c]

(* The commit of i will leave its own semantics.                           *)
Covers(i) ==
  \/ loaded[i]["semantics"] = NoRow
  \/ \A col \in DOMAIN Sem(i) :
       loaded[i]["semantics"][col] = Sem(i)[col] => db["semantics"][col] = Sem(i)[col]

(* i does not write the rendition, which is its own no more.               *)
Misses(i, k, c) ==
  /\ loaded[i][k] # NoRow /\ loaded[i][k][c] = Content[req[i]][k][c]
  /\ db[k][c] # Content[req[i]][k][c]

Together(k, c) == ~alarm => OfOne(k, c) \/ \E f \in Ingesters : Doubts(f, k, c)

Rest(k, c) ==
  \A i \in Ingesters : pc[i] = "flush_rest" /\ ~alarm =>
    \/ Covers(i) \/ Misses(i, k, c)
    \/ \E f \in Ingesters \ {i} :
         Doubts(f, k, c) /\ Content[req[f]][k][c] # Content[req[i]][k][c]

(* What is wanted and what was loaded tell a deletion from another write.  *)
LEMMA SameWrites ==
  ASSUME NEW j, NEW row, Wanted(j, row)' = Wanted(j, row), loaded'[j][row] = loaded[j][row]
  PROVE  /\ Writes(j, row)' <=> Writes(j, row)
         /\ Deletes(j, row)' <=> Deletes(j, row)
  BY DEF Writes, Inserts, Updates, Deletes

(* Every step keeps flushed rows settled.                                  *)
LEMMA SettledKept ==
  ASSUME CatalogInv, Settled, [Next]_vars
  PROVE  Settled'
<1>0. Shape /\ \A j \in Ingesters : Session(j)
  BY DEF CatalogInv
<1>a. ASSUME NEW j \in Ingesters, loaded'[j] = loaded[j], req'[j] = req[j], flushed'[j] = flushed[j],
             \A row \in Rows : locks[row] = j => locks'[row] = j
      PROVE  \A row \in flushed'[j] : locks'[row] = j \/ ~Writes(j, row)' \/ Deletes(j, row)'
  <2>1. flushed[j] \subseteq Rows
    BY <1>0 DEF Shape, TypeOK
  <2>2. \A row : (Writes(j, row)' <=> Writes(j, row)) /\ (Deletes(j, row)' <=> Deletes(j, row))
    <3> TAKE row
    <3>1. Wanted(j, row)' = Wanted(j, row) /\ loaded'[j][row] = loaded[j][row]
      BY <1>a, OthersWant
    <3> QED  BY <3>1, SameWrites
  <2>3. \A row \in flushed[j] : locks[row] = j \/ ~Writes(j, row) \/ Deletes(j, row)
    BY DEF Settled
  <2> QED  BY <1>a, <2>1, <2>2, <2>3
<1>b. ASSUME NEW i \in Ingesters, NEW step, NEW deleted, Close(i, step, deleted),
             \A j \in Ingesters : j # i => req'[j] = req[j]
      PROVE  Settled'
  <2>1. /\ flushed'[i] = {}
        /\ \A row \in Rows : locks'[row] = IF locks[row] = i THEN None ELSE locks[row]
        /\ \A j \in Ingesters : j # i => flushed'[j] = flushed[j] /\ loaded'[j] = loaded[j]
    BY <1>0, <1>b, CloseIs
  <2>2. \A j \in Ingesters : j # i => \A row \in Rows : locks[row] = j => locks'[row] = j
    BY <2>1
  <2> QED  BY <1>a, <1>b, <2>1, <2>2 DEF Settled
<1>1. ASSUME NEW i \in Ingesters, Ends(i) PROVE Settled'
  <2>1. Close(i, "idle", {}) /\ req' = [req EXCEPT ![i] = None]
    BY <1>1 DEF Ends, EndCall
  <2>2. \A j \in Ingesters : j # i => req'[j] = req[j]
    BY <1>0, <2>1 DEF Shape, TypeOK
  <2> QED  BY <1>b, <2>1, <2>2
<1>2. ASSUME NEW i \in Ingesters, NEW row, Sends(i, row) PROVE Settled'
  <2>1. /\ req' = req /\ loaded' = loaded /\ row \in Rows
        /\ flushed'[i] = flushed[i] \cup {row}
        /\ \A j \in Ingesters : j # i => flushed'[j] = flushed[j]
    BY <1>0, <1>2 DEF Shape, TypeOK, Sends
  <2>2. \A j \in Ingesters : \A r \in Rows : locks[r] = j => locks'[r] = j
    BY <1>0, <1>2, NoneIs DEF Shape, TypeOK, Sends
  <2>3. locks'[row] = i \/ ~Writes(i, row) \/ Deletes(i, row)
    BY <1>0, <1>2 DEF Shape, TypeOK, Sends
  <2>4. \A r : (Writes(i, r)' <=> Writes(i, r)) /\ (Deletes(i, r)' <=> Deletes(i, r))
    <3> TAKE r
    <3>1. Wanted(i, r)' = Wanted(i, r) /\ loaded'[i][r] = loaded[i][r]
      BY <2>1, OthersWant
    <3> QED  BY <3>1, SameWrites
  <2>5. flushed[i] \subseteq Rows
    BY <1>0 DEF Shape, TypeOK
  <2>6. \A r \in flushed[i] : locks[r] = i \/ ~Writes(i, r) \/ Deletes(i, r)
    BY DEF Settled
  <2>7. \A r \in flushed'[i] : locks'[r] = i \/ ~Writes(i, r)' \/ Deletes(i, r)'
    BY <2>1, <2>2, <2>3, <2>4, <2>5, <2>6
  <2>8. ASSUME NEW j \in Ingesters, j # i
        PROVE  \A r \in flushed'[j] : locks'[r] = j \/ ~Writes(j, r)' \/ Deletes(j, r)'
    BY <1>a, <2>1, <2>2, <2>8
  <2> QED  BY <2>7, <2>8 DEF Settled
<1>3. ASSUME NEW i \in Ingesters, NEW rows, NEW step, Reads(i, rows, step) PROVE Settled'
  <2>1. Selects(i, rows, step) /\ locks' = locks /\ flushed' = flushed
    BY <1>3 DEF Reads, Selects
  <2>2. /\ \A j \in Ingesters : j # i => loaded'[j] = loaded[j] /\ req'[j] = req[j]
        /\ \A row \in flushed[i] : /\ loaded'[i][row] = loaded[i][row]
                                    /\ Wanted(i, row)' = Wanted(i, row)
    BY <2>1, SelectIs
  <2>3. \A row \in flushed[i] : /\ Writes(i, row)' <=> Writes(i, row)
                                /\ Deletes(i, row)' <=> Deletes(i, row)
    BY <2>2, SameWrites
  <2>4. \A row \in flushed'[i] : locks'[row] = i \/ ~Writes(i, row)' \/ Deletes(i, row)'
    BY <2>1, <2>3 DEF Settled
  <2> QED  BY <1>a, <2>1, <2>2, <2>4 DEF Settled
<1>4. ASSUME NEW i \in Ingesters, Commit(i) PROVE Settled'
  <2>1. PICK deleted : Close(i, "check_logical", deleted)
    BY <1>4 DEF Commit
  <2>2. req' = req
    BY <1>4 DEF Commit
  <2> QED  BY <1>b, <2>1, <2>2
<1>5. ASSUME UNCHANGED <<locks, req, loaded, flushed>> PROVE Settled'
  <2>1. locks' = locks /\ req' = req /\ loaded' = loaded /\ flushed' = flushed
    BY <1>5
  <2> QED  BY <1>a, <2>1 DEF Settled
<1>6. ASSUME NEW i \in Ingesters, NEW next, GoesOn(i, next) PROVE Settled'
  BY <1>5, <1>6 DEF GoesOn
<1>7. ASSUME AdvanceHandoff PROVE Settled'
  BY <1>5, <1>7 DEF AdvanceHandoff
<1>8. ASSUME UNCHANGED vars PROVE Settled'
  BY <1>5, <1>8 DEF vars
<1>9. ASSUME NEW i \in Ingesters, Does(i) PROVE Settled'
  BY <1>9, <1>1, <1>2, <1>3, <1>4, <1>6 DEF Does
<1> QED  BY <1>7, <1>8, <1>9, StepKinds

(* No step deletes a row that every revision has.                          *)
LEMMA NotStaleKept ==
  ASSUME NEW k, NEW c, MovesBy(k, c), CatalogInv, NotStale(k), [Next]_vars
  PROVE  NotStale(k)'
<1>0. Shape
  BY DEF CatalogInv
<1>a. ASSUME NEW i \in Ingesters, NEW step, NEW deleted, Close(i, step, deleted),
             k \notin deleted, "semantics" \notin deleted
      PROVE  NotStale(k)'
  <2>1. stale'[i] = {}
    BY <1>0, <1>a, CloseIs
  <2>2. \A j \in Ingesters : j # i =>
          stale'[j] = stale[j] \cup {row \in deleted : loaded[j][row] # NoRow}
    BY <1>0, <1>a, CloseIs
  <2>3. \A j \in Ingesters : j # i => k \notin stale'[j] /\ "semantics" \notin stale'[j]
    BY <1>a, <2>2 DEF NotStale
  <2> QED  BY <2>1, <2>3 DEF NotStale
<1>1. ASSUME NEW i \in Ingesters, Ends(i) PROVE NotStale(k)'
  <2>1. Close(i, "idle", {})
    BY <1>1 DEF Ends, EndCall
  <2> QED  BY <1>a, <2>1
<1>2. ASSUME NEW i \in Ingesters, Commit(i) PROVE NotStale(k)'
  <2> DEFINE deleted == {row \in Rows : locks[row] = i /\ Deletes(i, row)}
  <2>1. Close(i, "check_logical", deleted) /\ pc[i] = "flush_rest"
    BY <1>2 DEF Commit
  <2>2. req[i] \in Requests /\ k # "ingest"
    BY <1>0, <2>1, ReqIs, CatalogAssumption DEF MovesBy
  <2>3. Wanted(i, k) # NoRow /\ Wanted(i, "semantics") # NoRow
    BY <2>2, ContentIs DEF Wanted, MovesBy
  <2>4. k \notin deleted /\ "semantics" \notin deleted
    BY <2>3 DEF Deletes
  <2> HIDE DEF deleted
  <2> QED  BY <1>a, <2>1, <2>4
<1>3. ASSUME stale' = stale PROVE NotStale(k)'
  BY <1>3 DEF NotStale
<1>4. ASSUME NEW i \in Ingesters, Does(i) PROVE NotStale(k)'
  BY <1>4, <1>1, <1>2, <1>3 DEF Does, Sends, Reads, Selects, GoesOn
<1>5. ASSUME AdvanceHandoff PROVE NotStale(k)'
  BY <1>3, <1>5 DEF AdvanceHandoff
<1>6. ASSUME UNCHANGED vars PROVE NotStale(k)'
  BY <1>3, <1>6 DEF vars
<1> QED  BY <1>4, <1>5, <1>6, StepKinds

(* A step that leaves the rendition and the semantics alone, and every     *)
(* verification in doubt, keeps the invariant.                             *)
LEMMA QuietKeeps ==
  ASSUME NEW k, NEW c, Together(k, c), Rest(k, c), ~alarm,
         db'[k] = db[k], db'["semantics"] = db["semantics"],
         \A f \in Ingesters : Doubts(f, k, c) => Doubts(f, k, c)' /\ req'[f] = req[f],
         \A i \in Ingesters : pc'[i] = "flush_rest" =>
           \/ pc[i] = "flush_rest" /\ loaded'[i] = loaded[i] /\ req'[i] = req[i]
           \/ Covers(i)'
  PROVE  Together(k, c)' /\ Rest(k, c)'
<1>1. OfOne(k, c) => OfOne(k, c)'
  BY DEF OfOne
<1>2. Together(k, c)'
  BY <1>1 DEF Together
<1>3. ASSUME NEW i \in Ingesters, pc[i] = "flush_rest", loaded'[i] = loaded[i], req'[i] = req[i]
      PROVE  \/ Covers(i)' \/ Misses(i, k, c)'
             \/ \E f \in Ingesters \ {i} :
                  Doubts(f, k, c)' /\ Content[req'[f]][k][c] # Content[req'[i]][k][c]
  <2>1. Covers(i) => Covers(i)'
    BY <1>3 DEF Covers, Sem
  <2>2. Misses(i, k, c) => Misses(i, k, c)'
    BY <1>3 DEF Misses
  <2>3. ASSUME NEW f \in Ingesters \ {i}, Doubts(f, k, c),
               Content[req[f]][k][c] # Content[req[i]][k][c]
        PROVE  Doubts(f, k, c)' /\ Content[req'[f]][k][c] # Content[req'[i]][k][c]
    BY <1>3, <2>3
  <2> QED  BY <1>3, <2>1, <2>2, <2>3 DEF Rest
<1>4. Rest(k, c)'
  BY <1>3 DEF Rest
<1> QED  BY <1>2, <1>4

(* What a commit leaves in the rendition row and in the semantics.         *)
LEMMA CommitLeaves ==
  ASSUME NEW k, NEW c, MovesBy(k, c), CatalogInv, Settled, NotStale(k),
         NEW j \in Ingesters, Commit(j)
  PROVE  /\ db'[k] # NoRow
         /\ Misses(j, k, c) => db'[k][c] = db[k][c]
         /\ ~Misses(j, k, c) => db'[k][c] = Content[req[j]][k][c]
         /\ locks[k] # j => /\ db'[k] = db[k] /\ db[k] # NoRow
                            /\ loaded[j][k] # NoRow
                            /\ loaded[j][k][c] = Content[req[j]][k][c]
         /\ \A col \in DOMAIN Sem(j) :
              \/ db'["semantics"][col] = Sem(j)[col]
              \/ db'["semantics"][col] = db["semantics"][col]
         /\ Covers(j) => db'["semantics"] = Sem(j)
         /\ db["semantics"] = Sem(j) => db'["semantics"] = Sem(j)
<1>0. Shape /\ Session(j) /\ Locked(j) /\ Present(j)
  BY DEF CatalogInv
<1>1. /\ pc[j] = "flush_rest" /\ "semantics" \in flushed[j]
      /\ db' = [row \in Rows |-> IF locks[row] = j THEN Written(j, row) ELSE db[row]]
  BY DEF Commit
<1>2. /\ k \in Kinds /\ k \in Rows /\ k # "ingest" /\ "semantics" \in Rows
      /\ req[j] \in Requests
  BY <1>0, <1>1, ReqIs, RowsAre, CatalogAssumption DEF MovesBy
<1>3. k \in flushed[j] /\ k \notin stale[j] /\ "semantics" \notin stale[j]
  BY <1>0, <1>1, <1>2 DEF Session, Sent, NotStale
<1>4. /\ Wanted(j, k) = Content[req[j]][k] /\ Wanted(j, k) # NoRow /\ c \in DOMAIN Wanted(j, k)
      /\ Wanted(j, "semantics") = Sem(j) /\ Sem(j) # NoRow
  BY <1>2, ContentIs DEF Wanted, MovesBy, Sem
<1>5. ASSUME NEW row \in {k, "semantics"}
      PROVE  \/ /\ locks[row] = j /\ loaded[j][row] = NoRow /\ db'[row] = Wanted(j, row)
             \/ /\ locks[row] = j /\ loaded[j][row] # NoRow /\ db[row] # NoRow
                /\ db'[row] = [col \in DOMAIN Wanted(j, row) |->
                     IF Wanted(j, row)[col] # loaded[j][row][col] THEN Wanted(j, row)[col]
                                                                 ELSE db[row][col]]
             \/ /\ locks[row] # j /\ loaded[j][row] # NoRow /\ db[row] # NoRow
                /\ loaded[j][row] = Wanted(j, row) /\ db'[row] = db[row]
  <2>1. /\ row \in Rows /\ row \in flushed[j] /\ row \notin stale[j] /\ Wanted(j, row) # NoRow
        /\ db'[row] = IF locks[row] = j THEN Written(j, row) ELSE db[row]
    BY <1>1, <1>2, <1>3, <1>4
  <2>2. ~Deletes(j, row)
    BY <2>1 DEF Deletes
  <2>3. loaded[j][row] # NoRow => db[row] # NoRow
    BY <1>0, <2>1 DEF Present
  <2>4. CASE locks[row] # j
    <3>1. ~Writes(j, row)
      BY <2>1, <2>2, <2>4 DEF Settled
    <3>2. loaded[j][row] # NoRow /\ loaded[j][row] = Wanted(j, row)
      BY <2>1, <3>1 DEF Writes, Inserts, Updates
    <3> QED  BY <2>1, <2>3, <2>4, <3>2
  <2>5. CASE locks[row] = j
    <3>1. Writes(j, row)
      BY <1>0, <2>1, <2>5 DEF Locked
    <3>2. CASE loaded[j][row] = NoRow
      BY <2>1, <2>5, <3>2 DEF Written, Updates
    <3>3. CASE loaded[j][row] # NoRow
      <4>1. Updates(j, row)
        BY <2>2, <3>1, <3>3 DEF Writes, Inserts
      <4> QED  BY <2>1, <2>3, <2>5, <3>3, <4>1 DEF Written
    <3> QED  BY <3>2, <3>3
  <2> QED  BY <2>4, <2>5
<1>6. locks[k] # j => /\ db'[k] = db[k] /\ db[k] # NoRow /\ loaded[j][k] # NoRow
                      /\ loaded[j][k][c] = Content[req[j]][k][c]
  BY <1>4, <1>5
<1>7. db'[k] # NoRow
  <2>1. locks[k] = j => db'[k] = Written(j, k)
    BY <1>1, <1>2
  <2>2. locks[k] = j => db'[k] # NoRow
    BY <1>1, <1>2, <1>4, <2>1, WrittenIs DEF Deletes
  <2> QED  BY <1>6, <2>2
<1>8. /\ Misses(j, k, c) => db'[k][c] = db[k][c]
      /\ ~Misses(j, k, c) => db'[k][c] = Content[req[j]][k][c]
  <2>1. CASE locks[k] = j /\ loaded[j][k] = NoRow /\ db'[k] = Wanted(j, k)
    BY <1>4, <2>1 DEF Misses
  <2>2. CASE /\ locks[k] = j /\ loaded[j][k] # NoRow
             /\ db'[k] = [col \in DOMAIN Wanted(j, k) |->
                  IF Wanted(j, k)[col] # loaded[j][k][col] THEN Wanted(j, k)[col]
                                                           ELSE db[k][col]]
    <3>1. db'[k][c] = IF Wanted(j, k)[c] # loaded[j][k][c] THEN Wanted(j, k)[c] ELSE db[k][c]
      BY <1>4, <2>2
    <3> QED  BY <1>4, <2>2, <3>1 DEF Misses
  <2>3. CASE loaded[j][k] # NoRow /\ loaded[j][k] = Wanted(j, k) /\ db'[k] = db[k]
    BY <1>4, <2>3 DEF Misses
  <2> QED  BY <1>5, <2>1, <2>2, <2>3
<1>9. \A col \in DOMAIN Sem(j) :
        \/ db'["semantics"][col] = Sem(j)[col]
        \/ /\ loaded[j]["semantics"] # NoRow /\ loaded[j]["semantics"][col] = Sem(j)[col]
           /\ db'["semantics"][col] = db["semantics"][col]
  <2>1. CASE db'["semantics"] = Wanted(j, "semantics")
    BY <1>4, <2>1
  <2>2. CASE /\ loaded[j]["semantics"] # NoRow
             /\ db'["semantics"] = [col \in DOMAIN Wanted(j, "semantics") |->
                  IF Wanted(j, "semantics")[col] # loaded[j]["semantics"][col]
                    THEN Wanted(j, "semantics")[col] ELSE db["semantics"][col]]
    BY <1>4, <2>2
  <2>3. CASE /\ loaded[j]["semantics"] # NoRow /\ db'["semantics"] = db["semantics"]
             /\ loaded[j]["semantics"] = Wanted(j, "semantics")
    BY <1>4, <2>3
  <2> QED  BY <1>5, <2>1, <2>2, <2>3
<1>10. ASSUME \A col \in DOMAIN Sem(j) : db'["semantics"][col] = Sem(j)[col]
       PROVE  db'["semantics"] = Sem(j)
  <2>1. "semantics" \in ContentRows /\ Sem(j) \in RowValues["semantics"]
    BY <1>2, <1>4, ContentIs, RowsAre DEF Sem, ContentRows
  <2>2. "semantics" \in {k, "semantics"}
    OBVIOUS
  <2>3. db'["semantics"] \in RowValues["semantics"]
    <3>1. CASE locks["semantics"] = j
      <4>1. db'["semantics"] = Written(j, "semantics") /\ ~Deletes(j, "semantics")
        BY <1>1, <1>2, <1>4, <3>1 DEF Deletes
      <4> QED  BY <1>1, <1>2, <3>1, <4>1, WrittenIs
    <3>2. CASE locks["semantics"] # j
      BY <1>0, <1>2, <1>5, <2>2, <3>2 DEF Shape, TypeOK
    <3> QED  BY <3>1, <3>2
  <2>4. DOMAIN db'["semantics"] = DOMAIN Sem(j)
    BY <2>1, <2>3, ColumnsAre
  <2>5. /\ db'["semantics"] = [col \in DOMAIN db'["semantics"] |-> db'["semantics"][col]]
        /\ Sem(j) = [col \in DOMAIN Sem(j) |-> Sem(j)[col]]
    BY <1>2, <2>1, <2>3, ValuesAreFunctions
  <2> QED  BY <1>10, <2>4, <2>5
<1>11. Covers(j) => db'["semantics"] = Sem(j)
  <2>1. ASSUME Covers(j), NEW col \in DOMAIN Sem(j) PROVE db'["semantics"][col] = Sem(j)[col]
    BY <1>9, <2>1 DEF Covers
  <2> QED  BY <1>10, <2>1
<1>12. db["semantics"] = Sem(j) => db'["semantics"] = Sem(j)
  BY <1>9, <1>10
<1> QED  BY <1>6, <1>7, <1>8, <1>9, <1>11, <1>12

(* A commit keeps the invariant, when no third call is under way.          *)
LEMMA CommitTogether ==
  ASSUME NEW k, NEW c, MovesBy(k, c), CatalogInv, Settled, NotStale(k),
         Together(k, c), Rest(k, c), TwoAtATime, ~alarm,
         NEW j \in Ingesters, Commit(j)
  PROVE  Together(k, c)' /\ Rest(k, c)'
<1> DEFINE v(q) == Content[q][k][c]
<1>0. Shape /\ \A i \in Ingesters : Session(i) /\ Locked(i) /\ Present(i)
  BY DEF CatalogInv
<1>1. /\ pc[j] = "flush_rest" /\ Close(j, "check_logical", {row \in Rows : locks[row] = j /\ Deletes(j, row)})
      /\ req' = req /\ alarm' = alarm
  BY DEF Commit
<1>2. /\ pc'[j] = "check_logical"
      /\ \A i \in Ingesters : i # j => pc'[i] = pc[i] /\ loaded'[i] = loaded[i]
  BY <1>0, <1>1, CloseIs
<1>3. /\ db'[k] # NoRow
      /\ Misses(j, k, c) => db'[k][c] = db[k][c]
      /\ ~Misses(j, k, c) => db'[k][c] = v(req[j])
      /\ locks[k] # j => /\ db'[k] = db[k] /\ db[k] # NoRow
      /\ \A col \in DOMAIN Sem(j) :
           \/ db'["semantics"][col] = Sem(j)[col]
           \/ db'["semantics"][col] = db["semantics"][col]
      /\ Covers(j) => db'["semantics"] = Sem(j)
      /\ db["semantics"] = Sem(j) => db'["semantics"] = Sem(j)
  BY CommitLeaves
<1>4. req[j] \in Requests /\ Sem(j) = Content[req[j]]["semantics"]
  BY <1>0, <1>1, ReqIs DEF Sem
<1>5. Misses(j, k, c) => Doubts(j, k, c)'
  <2>1. Misses(j, k, c) => db'[k][c] # Content[req[j]][k][c]
    BY <1>3 DEF Misses
  <2> QED  BY <1>1, <1>2, <1>3, <2>1 DEF Doubts
<1>6. Together(k, c)'
  <2>1. CASE Misses(j, k, c)
    BY <1>5, <2>1 DEF Together
  <2>2. CASE ~Misses(j, k, c) /\ Covers(j)
    <3>1. OfOne(k, c)'
      BY <1>3, <1>4, <2>2 DEF OfOne
    <3> QED  BY <3>1 DEF Together
  <2>3. ASSUME ~Misses(j, k, c), NEW f \in Ingesters \ {j}, Doubts(f, k, c), v(req[f]) # v(req[j])
        PROVE  Together(k, c)'
    <3>1. Doubts(f, k, c)'
      BY <1>1, <1>2, <1>3, <2>3 DEF Doubts
    <3> QED  BY <3>1 DEF Together
  <2> QED  BY <1>1, <2>1, <2>2, <2>3 DEF Rest
<1>7. ASSUME NEW i \in Ingesters, pc'[i] = "flush_rest"
      PROVE  \/ Covers(i)' \/ Misses(i, k, c)'
             \/ \E f \in Ingesters \ {i} : Doubts(f, k, c)' /\ v(req'[f]) # v(req'[i])
  <2>1. i # j /\ pc[i] = "flush_rest" /\ loaded'[i] = loaded[i] /\ req'[i] = req[i]
    BY <1>1, <1>2, <1>7
  <2>2. \A f \in Ingesters : ~Doubts(f, k, c)
    BY <1>1, <2>1 DEF TwoAtATime, Doubts
  <2>3. /\ Covers(i) \/ Misses(i, k, c)
        /\ Covers(j) \/ Misses(j, k, c)
        /\ OfOne(k, c)
    BY <1>1, <2>1, <2>2 DEF Rest, Together
  <2>4. req[i] \in Requests
    BY <1>0, <2>1, ReqIs
  <2>5. CASE req[i] = req[j]
    <3>1. Sem(i) = Sem(j) /\ Sem(i)' = Sem(i)
      BY <2>1, <2>5 DEF Sem
    <3>2. Covers(i) => Covers(i)'
      BY <1>3, <2>1, <3>1 DEF Covers
    <3>3. CASE Misses(i, k, c) /\ Misses(j, k, c)
      BY <1>3, <2>1, <3>3 DEF Misses
    <3>4. CASE Covers(j)
      <4>1. db'["semantics"] = Sem(i)'
        BY <1>3, <3>1, <3>4
      <4> QED  BY <4>1 DEF Covers
    <3> QED  BY <2>3, <3>2, <3>3, <3>4
  <2>6. CASE req[i] # req[j]
    <3>1. v(req[i]) # v(req[j])
      BY <1>4, <2>4, <2>6 DEF MovesBy
    <3>2. CASE Misses(j, k, c)
      <4>1. Doubts(j, k, c)' /\ v(req'[j]) # v(req'[i])
        BY <1>1, <1>5, <2>1, <3>1, <3>2
      <4> QED  BY <2>1, <4>1
    <3>3. CASE ~Misses(j, k, c) /\ loaded[i][k] # NoRow /\ loaded[i][k][c] = v(req[i])
      BY <1>3, <2>1, <3>1, <3>3 DEF Misses
    <3>4. CASE ~Misses(j, k, c) /\ (loaded[i][k] = NoRow \/ loaded[i][k][c] # v(req[i]))
      <4>1. k \in Kinds /\ k \in Rows /\ k # "ingest" /\ k \in flushed[i] /\ k \notin stale[i]
        BY <1>0, <2>1, RowsAre, CatalogAssumption DEF MovesBy, Session, Sent, NotStale
      <4>2. Wanted(i, k) = Content[req[i]][k] /\ Wanted(i, k) # NoRow
        BY <2>4, <4>1 DEF Wanted, MovesBy
      <4>3. Writes(i, k) /\ ~Deletes(i, k)
        BY <3>4, <4>2 DEF Writes, Inserts, Updates, Deletes
      <4>4. locks[k] = i
        BY <4>1, <4>3 DEF Settled
      <4>5. db'[k] = db[k] /\ db[k] # NoRow /\ db[k][c] = v(req[j])
        BY <1>3, <2>1, <3>4, <4>4
      <4>6. loaded[i][k] # NoRow
        BY <1>0, <4>1, <4>2, <4>4, <4>5 DEF Locked, Inserts
      <4>7. ~Misses(i, k, c)
        BY <3>4, <4>6 DEF Misses
      <4>8. db["semantics"] = Sem(j)
        <5>1. PICK r \in Requests : db[k][c] = v(r) /\ db["semantics"] = Content[r]["semantics"]
          BY <2>3, <4>5 DEF OfOne
        <5>2. r = req[j]
          BY <1>4, <4>5, <5>1 DEF MovesBy
        <5> QED  BY <1>4, <5>1, <5>2
      <4>9. db'["semantics"] = db["semantics"]
        BY <1>3, <4>8
      <4>10. Covers(i) => Covers(i)'
        BY <2>1, <4>9 DEF Covers, Sem
      <4> QED  BY <2>3, <4>7, <4>10
    <3> QED  BY <3>2, <3>3, <3>4
  <2> QED  BY <2>5, <2>6
<1>8. Rest(k, c)'
  BY <1>7 DEF Rest
<1> QED  BY <1>6, <1>8

(* Every step keeps the invariant, while no third call is under way.       *)
LEMMA TogetherKept ==
  ASSUME NEW k, NEW c, MovesBy(k, c), CatalogInv, Settled, NotStale(k),
         Together(k, c), Rest(k, c), TwoAtATime, [Next]_vars
  PROVE  Together(k, c)' /\ Rest(k, c)'
<1>0. Shape /\ k \in Kinds /\ k \in Rows /\ "semantics" \in Rows /\ k # "ingest"
  BY RowsAre, CatalogAssumption DEF CatalogInv, MovesBy
<1> SUFFICES ASSUME ~alarm' PROVE Together(k, c)' /\ Rest(k, c)'
  BY DEF Together, Rest
<1>1. ASSUME NEW i \in Ingesters, Ends(i), alarm' = TRUE \/ Succeeds(i)
      PROVE  Together(k, c)' /\ Rest(k, c)'
  <2>1. /\ Close(i, "idle", {}) /\ req' = [req EXCEPT ![i] = None] /\ db' = db
        /\ pc[i] = "check_ingest" /\ alarm' = alarm
    BY <1>1 DEF Ends, EndCall, Succeeds
  <2>2. /\ pc'[i] = "idle"
        /\ \A j \in Ingesters : j # i => pc'[j] = pc[j] /\ loaded'[j] = loaded[j] /\ req'[j] = req[j]
    BY <1>0, <2>1, CloseIs DEF Shape, TypeOK
  <2>3. \A f \in Ingesters : Doubts(f, k, c) => Doubts(f, k, c)' /\ req'[f] = req[f]
    BY <2>1, <2>2 DEF Doubts
  <2> QED  BY <2>1, <2>2, <2>3, QuietKeeps
<1>2. ASSUME NEW i \in Ingesters, NEW row, Sends(i, row) PROVE Together(k, c)' /\ Rest(k, c)'
  <2>1. db' = db /\ pc' = pc /\ req' = req /\ alarm' = alarm /\ loaded' = loaded
    BY <1>2 DEF Sends
  <2>2. \A f \in Ingesters : Doubts(f, k, c) => Doubts(f, k, c)' /\ req'[f] = req[f]
    BY <2>1 DEF Doubts
  <2> QED  BY <2>1, <2>2, QuietKeeps
<1>3. ASSUME NEW i \in Ingesters, NEW rows, NEW step, Reads(i, rows, step)
      PROVE  Together(k, c)' /\ Rest(k, c)'
  <2>1. /\ Selects(i, rows, step) /\ db' = db /\ alarm' = alarm
        /\ step = "flush_rest" => "semantics" \in rows
        /\ pc[i] \notin {"check_logical", "check_renditions"}
    BY <1>3 DEF Reads, Selects, InTransaction
  <2>2. /\ \A row \in Rows : loaded'[i][row] = IF row \in rows THEN db[row] ELSE loaded[i][row]
        /\ \A j \in Ingesters : j # i => /\ loaded'[j] = loaded[j] /\ pc'[j] = pc[j]
                                        /\ req'[j] = req[j]
        /\ pc'[i] = step
    BY <2>1, SelectIs
  <2>3. \A f \in Ingesters : Doubts(f, k, c) => Doubts(f, k, c)' /\ req'[f] = req[f]
    BY <2>1, <2>2 DEF Doubts
  <2>4. step = "flush_rest" => Covers(i)'
    BY <1>0, <2>1, <2>2 DEF Covers
  <2> QED  BY <2>1, <2>2, <2>3, <2>4, QuietKeeps
<1>4. ASSUME NEW i \in Ingesters, Commit(i) PROVE Together(k, c)' /\ Rest(k, c)'
  <2>1. ~alarm
    BY <1>4 DEF Commit
  <2> QED  BY <1>4, <2>1, CommitTogether
<1>5. ASSUME NEW i \in Ingesters, NEW next \in Verifying, GoesOn(i, next)
      PROVE  Together(k, c)' /\ Rest(k, c)'
  <2>1. /\ db' = db /\ alarm' = alarm /\ req' = req /\ loaded' = loaded
        /\ pc'[i] = next /\ \A j \in Ingesters : j # i => pc'[j] = pc[j]
    BY <1>0, <1>5 DEF GoesOn, Shape, TypeOK, Goto
  <2>2. next # "flush_rest"
    BY <1>5 DEF Verifying
  <2>3. ASSUME Doubts(i, k, c) PROVE Doubts(i, k, c)'
    <3>1. CASE pc[i] = "check_logical"
      BY <1>5, <2>1, <2>3, <3>1 DEF GoesOn, Doubts
    <3>2. CASE pc[i] = "check_renditions"
      <4>1. Agrees(req[i], k)
        BY <1>0, <1>5, <3>2 DEF GoesOn, Compared
      <4>2. db[k] # NoRow => db[k][c] = Content[req[i]][k][c]
        BY <1>0, <4>1 DEF Agrees, MovesBy
      <4> QED  BY <2>3, <4>2 DEF Doubts
    <3> QED  BY <2>3, <3>1, <3>2 DEF Doubts
  <2>4. \A f \in Ingesters : Doubts(f, k, c) => Doubts(f, k, c)' /\ req'[f] = req[f]
    BY <2>1, <2>3 DEF Doubts
  <2> QED  BY <2>1, <2>2, <2>4, QuietKeeps
<1>6. ASSUME AdvanceHandoff PROVE Together(k, c)' /\ Rest(k, c)'
  <2>1. pc' = pc /\ req' = req /\ loaded' = loaded /\ alarm' = alarm
    BY <1>6 DEF AdvanceHandoff
  <2>2. PICK next : db' = [db EXCEPT !["ingest"].state = next]
    BY <1>6 DEF AdvanceHandoff
  <2>3. db'[k] = db[k] /\ db'["semantics"] = db["semantics"]
    BY <1>0, <2>2 DEF Shape
  <2>4. \A f \in Ingesters : Doubts(f, k, c) => Doubts(f, k, c)' /\ req'[f] = req[f]
    BY <2>1, <2>3 DEF Doubts
  <2> QED  BY <2>1, <2>3, <2>4, QuietKeeps
<1>7. ASSUME UNCHANGED vars PROVE Together(k, c)' /\ Rest(k, c)'
  <2>1. db' = db /\ pc' = pc /\ req' = req /\ alarm' = alarm /\ loaded' = loaded
    BY <1>7 DEF vars
  <2>2. \A f \in Ingesters : Doubts(f, k, c) => Doubts(f, k, c)' /\ req'[f] = req[f]
    BY <2>1 DEF Doubts
  <2> QED  BY <2>1, <2>2, QuietKeeps
<1>8. ASSUME NEW i \in Ingesters, Does(i) PROVE Together(k, c)' /\ Rest(k, c)'
  BY <1>8, <1>1, <1>2, <1>3, <1>4, <1>5 DEF Does
<1> QED  BY <1>6, <1>7, <1>8, StepKinds

(* When every revision moves and no third call is under way, verification  *)
(* of a part of the semantics is verification of all: with every call over *)
(* and none failed, the semantics are those of the cataloged package.      *)
THEOREM SemanticsAreVerified == Moves => (Spec /\ []TwoAtATime => []SemanticsVerified)
<1> SUFFICES ASSUME Moves PROVE Spec /\ []TwoAtATime => []SemanticsVerified
  OBVIOUS
<1>1. PICK k \in Kinds, c \in UNION {Checked[r] : r \in Kinds} : MovesBy(k, c)
  BY DEF Moves
<1>2. Init => Settled /\ NotStale(k) /\ Together(k, c) /\ Rest(k, c)
  <2> SUFFICES ASSUME Init PROVE Settled /\ NotStale(k) /\ Together(k, c) /\ Rest(k, c)
    OBVIOUS
  <2>1. k \in Rows /\ "semantics" \in Rows
    BY RowsAre
  <2> QED  BY <2>1 DEF Init, NothingLoaded, Settled, NotStale, Together, OfOne, Rest
<1>3. CatalogInv /\ Settled /\ NotStale(k) /\ Together(k, c) /\ Rest(k, c) /\ TwoAtATime /\ [Next]_vars
        => (Settled /\ NotStale(k) /\ Together(k, c) /\ Rest(k, c))'
  BY <1>1, SettledKept, NotStaleKept, TogetherKept
<1>4. TornIsReported /\ Together(k, c) => SemanticsVerified
  <2> SUFFICES ASSUME TornIsReported, Together(k, c), Quiescent, ~alarm, db["ingest"] # NoRow
               PROVE  \E q \in Requests : /\ db["ingest"].fingerprint = Fingerprint[q]
                                          /\ db["semantics"] = Content[q]["semantics"]
    BY DEF SemanticsVerified
  <2>1. PICK q \in Requests : CheckedWhole(q)
    BY RowsAre DEF TornIsReported, NothingLoaded
  <2>2. k \in ContentRows /\ c \in Checked[k] /\ Content[q][k] # NoRow
    BY <1>1 DEF MovesBy, ContentRows
  <2>3. db[k] # NoRow /\ db[k][c] = Content[q][k][c] /\ db["ingest"].fingerprint = Fingerprint[q]
    BY <2>1, <2>2 DEF CheckedWhole
  <2>4. OfOne(k, c)
    BY DEF Together, Doubts, Quiescent
  <2>5. PICK r \in Requests : db[k][c] = Content[r][k][c] /\ db["semantics"] = Content[r]["semantics"]
    BY <2>3, <2>4 DEF OfOne
  <2>6. r = q
    BY <1>1, <2>3, <2>5 DEF MovesBy
  <2> QED  BY <2>3, <2>5, <2>6
<1> QED  BY <1>2, <1>3, <1>4, CatalogInductive, TornReported, PTL DEF Spec

---------------------------------------------------------------------------------
(* Nobody is stuck: the calls that are under way would all wait for locks  *)
(* of each other, which is what the database's deadlock detector looks for.*)

(* Whatever is left of the renditions, one of them may be sent.            *)
LEMMA SomeTurn ==
  ASSUME NEW i, ~(Kinds \subseteq flushed[i])
  PROVE  \E k \in Kinds \ flushed[i] : Turn(i, k)
<1>1. PICK any \in Kinds \ flushed[i] : TRUE
  OBVIOUS
<1>2. CASE \E k \in Kinds \ flushed[i] : Inserts(i, k)
  BY <1>2 DEF Turn, Inserts, Deletes
<1>3. CASE /\ \A k \in Kinds \ flushed[i] : ~Inserts(i, k)
           /\ \E k \in Kinds \ flushed[i] : ~Deletes(i, k)
  BY <1>3 DEF Turn
<1>4. CASE \A k \in Kinds \ flushed[i] : ~Inserts(i, k) /\ Deletes(i, k)
  BY <1>1, <1>4 DEF Turn
<1> QED  BY <1>2, <1>3, <1>4

(* What is pending is not sent; a transaction that cannot go on has some.  *)
LEMMA SomePending ==
  ASSUME CatalogInv, NEW i \in Ingesters, pc[i] # "idle", ~CanStep(i)
  PROVE  /\ Pending(i) \subseteq Rows \ flushed[i]
         /\ Pending(i) # {}
<1>1. pc[i] \in {"flush_logical", "flush_renditions", "flush_rest"}
  BY DEF CatalogInv, Shape, TypeOK, InTransaction, CanStep
<1>2. CASE pc[i] = "flush_logical"
  <2>1. Pending(i) = {"logical"} \ flushed[i]
    BY <1>2 DEF Pending
  <2> QED  BY <1>2, <2>1, RowsAre DEF CanStep
<1>3. CASE pc[i] = "flush_renditions"
  <2>1. Pending(i) = {k \in Kinds \ flushed[i] : Turn(i, k)}
    BY <1>3 DEF Pending
  <2>2. ~(Kinds \subseteq flushed[i])
    BY <1>3 DEF CanStep
  <2>3. PICK k \in Kinds \ flushed[i] : Turn(i, k)
    BY <2>2, SomeTurn
  <2> QED  BY <2>1, <2>3, RowsAre
<1>4. CASE pc[i] = "flush_rest"
  <2>1. Pending(i) = {"semantics", "ingest"} \ flushed[i]
    BY <1>4 DEF Pending
  <2> QED  BY <1>4, <2>1, RowsAre DEF CanStep
<1> QED  BY <1>1, <1>2, <1>3, <1>4

(* Whatever locks are held, some call under way can take its next step.    *)
(* That CanStep is what enables a step is left to model checking.          *)
THEOREM NobodyIsStuck == Spec => [](Guarded => NobodyStuck)
<1>1. ASSUME CatalogInv, ~Quiescent PROVE \E i \in Ingesters : CanStep(i)
  <2> SUFFICES ASSUME \A i \in Ingesters : ~CanStep(i) PROVE FALSE
    OBVIOUS
  <2> DEFINE waiting == {i \in Ingesters : pc[i] # "idle"}
  <2>0. Shape /\ \A j \in Ingesters : Session(j) /\ Locked(j)
    BY <1>1 DEF CatalogInv
  <2>1. PICK i \in Ingesters : pc[i] # "idle"
    BY <1>1 DEF Quiescent
  <2>2. ASSUME NEW j \in waiting
        PROVE  \E row \in Pending(j) :
                 Writes(j, row) /\ row \notin stale[j] /\ locks[row] \in waiting \ {j}
    <3>1. j \in Ingesters /\ pc[j] # "idle" /\ ~CanStep(j)
      BY <2>2
    <3>2. PICK row \in Pending(j) : row \in Rows /\ row \notin flushed[j]
      BY <1>1, <3>1, SomePending
    <3>3. Writes(j, row) /\ row \notin stale[j] /\ locks[row] # None
      BY <3>1, <3>2 DEF CanStep
    <3>4. locks[row] \in Ingesters
      BY <2>0, <3>2, <3>3 DEF Shape, TypeOK
    <3>5. row \in flushed[locks[row]]
      BY <2>0, <3>2, <3>4 DEF Locked
    <3>6. pc[locks[row]] # "idle"
      BY <2>0, <3>4, <3>5, StepsAre DEF Session, InTransaction
    <3> QED  BY <3>2, <3>3, <3>4, <3>5, <3>6
  <2>3. waiting \in SUBSET Ingesters /\ i \in waiting
    BY <2>1
  <2> HIDE DEF waiting
  <2>4. Deadlocked(i)
    BY <2>2, <2>3 DEF Deadlocked
  <2> QED  BY <2>1, <2>4 DEF CanStep
<1>2. CatalogInv => (Guarded => NobodyStuck)
  BY <1>1 DEF NobodyStuck
<1> QED  BY <1>2, CatalogInductive, PTL

=================================================================================
