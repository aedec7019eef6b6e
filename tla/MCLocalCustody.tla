----------------------------- MODULE MCLocalCustody -----------------------------
(* Small instances of LocalCustody for TLC: one media file and the JSON.     *)
EXTENDS LocalCustody, TLC

(* "v" is the media of every package, "j" and "k" two renderings of its      *)
(* JSON metadata; either is a foreign content for the other member.          *)
MCBound == [p \in Packages |-> [m \in Members |-> IF m = Json THEN {"j", "k"} ELSE {"v"}]]

Symmetry == Permutations(Writers)
=================================================================================
