----------------------------- MODULE MCProvision -----------------------------
(***************************************************************************)
(* Instances of Provision: two values that any credential may take, which  *)
(* no step tells apart.                                                    *)
(***************************************************************************)
EXTENDS Provision, TLC
CONSTANTS p1, p2

ValueSymmetry == Permutations({p1, p2})
=============================================================================
