-------------------------------- MODULE MCCatalog --------------------------------
(* Revisions of one asset, all moving its media.  "c" also changes the       *)
(* metadata of "a", "b" the metadata and the bytes; "e" has no horizontal    *)
(* rendition; "d" asks for another placement.                                *)
EXTENDS Catalog, TLC

Rendition(u, n) == [uri |-> u, sha |-> n, duration |-> n]

Revision(u, bytes, metadata, place) ==
  [row \in ContentRows |->
     CASE row = "logical"   -> [placement |-> place, editorial |-> metadata]
       [] row = "semantics" -> [raw |-> u, subjects |-> metadata]
       [] row = "horizontal" -> IF u = "e" THEN NoRow ELSE Rendition(u, bytes)
       [] OTHER -> Rendition(u, bytes)]

MCContent ==
  [q \in Requests |-> Revision(q, IF q = "b" THEN "new" ELSE "old",
                               IF q \in {"b", "c"} THEN "new" ELSE "old",
                               IF q = "d" THEN "general" ELSE "title")]

MCChecked ==
  [row \in ContentRows |->
     CASE row = "logical"   -> {"placement"}
       [] row = "semantics" -> {"raw"}
       [] OTHER             -> {"uri", "sha"}]

(* The revisions satisfy the hypothesis of the theorem SemanticsAreVerified. *)
ASSUME EveryRevisionMoves == Moves

MCFingerprint == [q \in Requests |-> q]

Symmetry == Permutations(Ingesters)
==================================================================================
