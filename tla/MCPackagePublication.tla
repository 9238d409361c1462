------------------------- MODULE MCPackagePublication -------------------------
(***************************************************************************)
(* Four publishers of one case at a destination where at first there may   *)
(* be nothing, a package of that case or of another, or something else.    *)
(***************************************************************************)
EXTENDS PackagePublication

CONSTANTS g1, g2, g3, w1, ckks, bgv

OneCase == [p \in {g1, g2, g3, w1} |-> ckks]

===============================================================================
