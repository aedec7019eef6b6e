------------------------------- MODULE MCMbeBatch -------------------------------
(* Three packages; the resolver refuses the second.  "a" and "a2" are two     *)
(* renderings of one document, "b" is a revision of it.                       *)
EXTENDS MbeBatch

MCPrintOf == [t \in Texts |-> IF t = "b" THEN "B" ELSE "A"]

MCFirst ==
  {c \in Contents : c.kind # "refused" /\ c.text \in {None, "a"}}
MCOutputs ==
  MCFirst \cup {c \in Contents : c.kind = "complete"}
================================================================================
