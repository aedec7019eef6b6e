---------------------------- MODULE MCCuratedIngest ----------------------------
(* Two videos of one size and another orientation apart, and a file that is  *)
(* no video; a torn read has that size too.                                  *)
EXTENDS CuratedIngest, TLC

CONSTANTS v, w, wide, junk

MCSize == [b \in Bytes \cup {Torn} |-> IF b = junk THEN 0 ELSE 1]
MCFacts == [b \in Bytes |-> IF b = v THEN "9:16" ELSE IF b = w THEN "3:4"
                            ELSE IF b = wide THEN "16:9" ELSE "none"]

Symmetry == Permutations(Ingesters)
================================================================================
