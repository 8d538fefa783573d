---------------------------- MODULE BatchProduct ----------------------------
(***************************************************************************)
(* vector_inn_prdt and its batched variants bch2, bch3 and bch4            *)
(* (clauseRAM.h): the product of the factors r + X[0], r + X[1], ...,      *)
(* batch of them per multiplication while that many are left and one by    *)
(* one after that.  check_set_euqality compares two such products.         *)
(*                                                                         *)
(* The loop bound X.size() - (batch - 1) is unsigned: it wraps for short   *)
(* vectors, and the loop then reads past their end.                        *)
(***************************************************************************)
EXTENDS Integers

CONSTANTS
  Modulus,      (* size_t counts modulo this                               *)
  Sizes,        (* the vectors' lengths                                    *)
  Batches       (* 1 for vector_inn_prdt, 2 to 4 for the variants          *)

BatchProductAssumption ==
  /\ Modulus \in Nat
  /\ Sizes \subseteq 0 .. Modulus - 1
  /\ Batches \subseteq 1 .. Modulus

VARIABLES
  size,     (* X.size()                                                    *)
  batch,
  i,        (* the loops' index                                            *)
  factors,  (* how often each X[k] has been multiplied into xx             *)
  pc        (* "outside" once a read past the end has happened             *)

vars == <<size, batch, i, factors, pc>>

Bound == (size - (batch - 1)) % Modulus

(* Multiply X[m] for m in ms into the product.                             *)
Multiply(ms, next_pc) ==
  IF ms \subseteq 0 .. size - 1
  THEN /\ factors' = [k \in 0 .. size - 1 |->
                        factors[k] + (IF k \in ms THEN 1 ELSE 0)]
       /\ pc' = next_pc
  ELSE pc' = "outside" /\ UNCHANGED factors

Init ==
  /\ size \in Sizes
  /\ batch \in Batches
  /\ i = 0
  /\ factors = [k \in 0 .. size - 1 |-> 0]
  /\ pc = "first"

First ==
  /\ pc = "first"
  /\ Multiply({0}, "batches")
  /\ i' = 1
  /\ UNCHANGED <<size, batch>>

(* The first loop; vector_inn_prdt has only the second one.                *)
Batch ==
  /\ pc = "batches" /\ batch > 1 /\ i < Bound
  /\ Multiply(i .. i + batch - 1, "batches")
  /\ i' = i + batch
  /\ UNCHANGED <<size, batch>>

BatchesDone ==
  /\ pc = "batches"
  /\ ~ (batch > 1 /\ i < Bound)
  /\ pc' = "rest"
  /\ UNCHANGED <<size, batch, i, factors>>

Rest ==
  /\ pc = "rest"
  /\ i < size
  /\ Multiply({i}, "rest")
  /\ i' = i + 1
  /\ UNCHANGED <<size, batch>>

RestDone ==
  /\ pc = "rest"
  /\ i >= size
  /\ pc' = "done"
  /\ UNCHANGED <<size, batch, i, factors>>

Next == First \/ Batch \/ BatchesDone \/ Rest \/ RestDone

Spec == Init /\ [][Next]_vars

-----------------------------------------------------------------------------
TypeOK ==
  /\ size \in Sizes /\ batch \in Batches
  /\ i \in 0 .. size + batch
  /\ factors \in [0 .. size - 1 -> {0, 1}]
  /\ pc \in {"first", "batches", "rest", "done", "outside"}

(* The product that is compared contains every entry of the record exactly *)
(* once, for every variant and every length: no entry is skipped between   *)
(* the two loops and none is multiplied twice.                             *)
EachFactorOnce == pc = "done" => \A k \in 0 .. size - 1 : factors[k] = 1

(* No read past the end, as long as the vector holds one entry and enough  *)
(* for the bound not to wrap; check() calls bch4 on logs of at least as    *)
(* many entries as the memory has clauses.                                 *)
InBounds == 1 <= size /\ batch - 1 <= size => pc # "outside"
=============================================================================
