--------------------------------- MODULE Outbox ---------------------------------
(***************************************************************************)
(* What discovery, preflight and ingest see of one package of a producer   *)
(* directory, and what custody holds of it.  A package is what its five    *)
(* files are together; the producer may change it between any two looks,   *)
(* and a look that takes several steps is given what the package was       *)
(* meanwhile.                                                              *)
(***************************************************************************)
LOCAL INSTANCE Naturals
LOCAL INSTANCE FiniteSets

CONSTANTS
  Texts,    \* what the JSON file of a package may hold
  PrintOf,  \* PrintOf[t]: the fingerprint of a package with text t; texts of
            \* one fingerprint are renderings of the same document
  None,     \* "no document", "not in custody", "not cataloged"
  First,    \* bound: what a package may be to begin with
  Outputs   \* bound: what the producer may make of a package

(* absent: no JSON.  unparsable: no asset_metadata_v1.  irregular: a member *)
(* is a symlink or not a file.  incomplete: a member is missing.  tampered: *)
(* a media file does not match.  refused: sound, but not for publication.   *)
Kinds == {"absent", "unparsable", "irregular", "incomplete", "tampered",
          "refused", "complete"}

Contents == [kind : {"absent", "unparsable"}, text : {None}]
            \cup [kind : Kinds \ {"absent", "unparsable"}, text : Texts]

Prints == {PrintOf[t] : t \in Texts}

(* The custody of one asset: the rendering stored under each fingerprint.   *)
Shelves == [Prints -> Texts \cup {None}]

ASSUME OutboxAssumption ==
  None \notin Texts /\ None \notin Prints /\ First \cup Outputs \subseteq Contents

(* The names of a directory, sorted: one sequence.                           *)
InOrder(S) ==
  {s \in [1..Cardinality(S) -> S] : \A i, j \in DOMAIN s : i < j => s[i] < s[j]}

(* _discover_json: the JSON is read and parsed before members are looked at. *)
Discovered(atRead, atInspection) ==
  IF atRead = "absent" THEN "NOT_READY"
  ELSE IF atRead = "unparsable" \/ atInspection = "irregular" THEN "INVALID"
  ELSE IF atInspection \in {"absent", "incomplete"} THEN "NOT_READY"
  ELSE "READY"

(* Custody holds the fingerprint of content c with another rendering.       *)
Clashes(c, shelf) == shelf[PrintOf[c.text]] \notin {None, c.text}

--------------------------------------------------------------------------------
(* ingest_package, from what the package was while it ran.  One that changed *)
(* may be found unstable or mismatched at any step.                          *)

Changed(seen) == \E b, c \in seen : b # c
Sound(c) == c.kind \in {"complete", "refused"}

Unready(seen) ==
  Changed(seen) \/ \E c \in seen : c.kind \in {"absent", "incomplete", "irregular"}

(* Mutant: a version that is in custody already is an error.                *)
AcceptsOnce(shelf, v) == shelf[v.print] = None

(* A backend promotes a version that is not there and verifies one that is: *)
(* its JSON file must be the one in custody, byte for byte.                  *)
Accepts(shelf, v) == shelf[v.print] \in {None, v.text}

(* What is stored: the version that was validated, with the JSON file that  *)
(* is copied beside it, which is read once more (see FinalJsonBound).        *)
Copied(seen) == IF Changed(seen) THEN Texts ELSE {c.text : c \in seen}
Stored(seen, shelf) ==
  {v \in [print : {PrintOf[c.text] : c \in {s \in seen : Sound(s)}}, text : Copied(seen)] :
     Accepts(shelf, v)}

(* Of the refused packages ingest_movie_broll_package refuses those that    *)
(* are not eligible, and catalogs those that only preflight would decode.    *)
Raises(seen, shelf) ==
  \/ Changed(seen)
  \/ \E c \in seen :
       \/ c.kind \in {"unparsable", "tampered", "irregular", "refused"}
       \/ Sound(c) /\ ~Accepts(shelf, [print |-> PrintOf[c.text], text |-> c.text])
=================================================================================
