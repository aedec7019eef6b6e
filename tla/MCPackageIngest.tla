---------------------------- MODULE MCPackageIngest ----------------------------
(* Two documents of one asset: "p" with media "v" and JSON "j" or "j2", "q"  *)
(* with media "w" and JSON "k".                                              *)
EXTENDS PackageIngest, TLC

MCBound ==
  [p \in Packages |->
     [m \in Members |->
        IF p = "p" THEN IF m = Json THEN {"j", "j2"} ELSE {"v"}
                   ELSE IF m = Json THEN {"k"} ELSE {"w"}]]

Symmetry == Permutations(Ingesters)
================================================================================
