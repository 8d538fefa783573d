---------------------------- MODULE MCPolyField ----------------------------
(* Every clause of DEGREE entries over the literals of NumVars variables   *)
(* and the padding, one vector per multiset: the order of literals does    *)
(* not change their product.                                               *)
EXTENDS PolyField

MCClauses ==
  {v \in [1 .. DEGREE -> PivotLits] :
     \A m \in 1 .. DEGREE - 1 : v[m] <= v[m + 1]}
=============================================================================
