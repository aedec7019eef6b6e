---------------------------- MODULE ImmutableCustody ----------------------------
(***************************************************************************)
(* What a custody backend promises, whatever it stores on.                 *)
(*                                                                         *)
(* Custody is addressed by the package fingerprint: one final directory    *)
(* per package version.  A final directory appears once, complete, in one  *)
(* step, holding for every fingerprint-bound member the bytes that the     *)
(* fingerprint binds.  From then on no writer ever merges, repairs,        *)
(* overwrites or removes it, and a caller is told "stored and verified"    *)
(* only for exactly the bytes that are there.  The store itself may damage *)
(* a final directory; the promise to callers then stops, and nothing is    *)
(* ever acknowledged about the damaged directory but what it now holds.    *)
(*                                                                         *)
(* DriveCustody and LocalCustody implement this specification.             *)
(***************************************************************************)
CONSTANTS
  Packages,   \* package versions: (asset identity, fingerprint) pairs
  Members,    \* the filenames of a package
  Json,       \* the producer JSON, the one member a fingerprint does not bind
  Bytes,      \* contents of a file, equal exactly when their SHA-256 is
  Bound,      \* Bound[p][m]: contents of m that agree with the metadata of p
  NoDir,      \* "there is no such directory"
  Missing     \* "there is no such file"

(* A directory: what each expected filename holds.                         *)
Directories == [Members -> Bytes \cup {Missing}]

(* Every member the fingerprint binds holds bytes of that package.         *)
Faithful(p, d) ==
  /\ d \in [Members -> Bytes]
  /\ \A m \in Members \ {Json} : d[m] \in Bound[p][m]

VARIABLES
  final,      \* final[p]: the final directory of p
  acked,      \* acked[p]: directories that callers were told are stored
  damaged     \* packages whose final directory the store has damaged

vars == <<final, acked, damaged>>

TypeOK ==
  /\ final \in [Packages -> Directories \cup {NoDir}]
  /\ acked \in [Packages -> SUBSET Directories]
  /\ damaged \subseteq Packages

Init ==
  /\ final = [p \in Packages |-> NoDir]
  /\ acked = [p \in Packages |-> {}]
  /\ damaged = {}

(* The writer that publishes may be told so in the same step.              *)
Publish(p, d) ==
  /\ final[p] = NoDir
  /\ Faithful(p, d)
  /\ final' = [final EXCEPT ![p] = d]
  /\ acked' = acked \/ acked' = [acked EXCEPT ![p] = @ \cup {d}]
  /\ UNCHANGED damaged

Acknowledge(p) ==
  /\ final[p] # NoDir
  /\ acked' = [acked EXCEPT ![p] = @ \cup {final[p]}]
  /\ UNCHANGED <<final, damaged>>

Damage(p) ==
  /\ final[p] # NoDir
  /\ \E d \in Directories : final' = [final EXCEPT ![p] = d]
  /\ damaged' = damaged \cup {p}
  /\ UNCHANGED acked

Next ==
  \E p \in Packages :
    \/ \E d \in Directories : Publish(p, d)
    \/ Acknowledge(p)
    \/ Damage(p)

Spec == Init /\ [][Next]_vars
=================================================================================
