------------------------ MODULE MCRuntimeApplication ------------------------
(***************************************************************************)
(* An instance of RuntimeApplication: objects that compete for two slots.  *)
(***************************************************************************)
EXTENDS RuntimeApplication, TLC

CONSTANTS a, b, c, coefficient, ntt

Symmetry == Permutations({a, b, c})

=============================================================================
