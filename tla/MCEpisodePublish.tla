---------------------------- MODULE MCEpisodePublish ----------------------------
(* Runs of two packages, published by operators that are interchangeable.    *)
(* "a" and "a2" are two renderings of one document, "b" is a revision of it.  *)
EXTENDS EpisodePublish, TLC

MCPrintOf == [t \in Texts |-> IF t = "b" THEN "B" ELSE "A"]

MCFirst ==
  [kind : {"incomplete", "complete", "refused"}, text : {"a"}]
MCOutputs ==
  {c \in Contents : c.text \in {None, "a"} \/ c.kind \in {"complete", "refused"}}

(* A run that is in order when it is discovered; one member may then be       *)
(* missing for a while.                                                       *)
MCInOrder == {[kind |-> "complete", text |-> "a"]}
MCRewritten == [kind : {"incomplete", "complete"}, text : {"a"}]

Symmetry == Permutations(Operators)
================================================================================
