----------------------------- MODULE AuthValues -----------------------------
(***************************************************************************)
(* The authenticated values under the polynomials: the prover holds a      *)
(* value and its MAC, the verifier the key of the MAC (both are called m   *)
(* or mcoefficient in the code).  Every operation computes the two sides   *)
(* by different formulas; check_zero_MAC and check_set_euqality rely on    *)
(* the relation between them.                                              *)
(*                                                                         *)
(* Prover and verifier make a step together here: Session orders them and  *)
(* shows that they use the same correlation.                               *)
(***************************************************************************)
EXTENDS Naturals, Sequences

CONSTANTS
  Field, zero,    (* GF(2^128), or any field of characteristic 2           *)
  XOR(_, _), gfmul(_, _),
  MaxWires, MaxBlocks       (* bounds on the values and blocks of a run    *)

VARIABLES
  delta,     (* the verifier's key, never zero                             *)
  wires,     (* the values so far: x and m of the prover, k of the verifier*)
  blocks,    (* given to check_zero_MAC since the last comparison          *)
  verdict    (* "running" or the verifier's "failed"                       *)

vars == <<delta, wires, blocks, verdict>>

ASSUME FieldAssumption ==
  /\ zero \in Field
  /\ \A a, b \in Field :
       /\ XOR(a, b) \in Field /\ gfmul(a, b) \in Field
       /\ XOR(a, b) = XOR(b, a) /\ gfmul(a, b) = gfmul(b, a)
       /\ XOR(a, zero) = a /\ XOR(a, a) = zero
       /\ gfmul(a, b) = zero <=> a = zero \/ b = zero
  /\ \A a, b, c \in Field :
       /\ XOR(a, XOR(b, c)) = XOR(XOR(a, b), c)
       /\ gfmul(a, gfmul(b, c)) = gfmul(gfmul(a, b), c)
       /\ gfmul(a, XOR(b, c)) = XOR(gfmul(a, b), gfmul(a, c))

ASSUME BoundAssumption == MaxWires \in Nat /\ MaxBlocks \in Nat

Wire(x, m, k) == [x |-> x, m |-> m, k |-> k]
Wires == [x : Field, m : Field, k : Field]

Running == verdict = "running"

Emit(w) ==
  /\ Running
  /\ Len(wires) < MaxWires
  /\ wires' = Append(wires, w)
  /\ UNCHANGED <<delta, blocks, verdict>>

Init ==
  /\ delta \in Field \ {zero}
  /\ wires = <<>> /\ blocks = <<>>
  /\ verdict = "running"

(* fill_data_and_mac: d and its MAC to the prover, the key to the verifier.*)
MacOf(d, key) == XOR(key, gfmul(delta, d))

(* Faulty variant: the verifier does not multiply by delta.                *)
Commit_plain ==
  \E x, d, key \in Field :
    LET diff == XOR(d, x)
    IN  Emit(Wire(x, MacOf(d, key), XOR(key, diff)))

(* A coefficient of polynomial(...), the one or an inverse of clauseCheck: *)
(* the prover sends the value masked with d.                               *)
Commit ==
  \E x, d, key \in Field :
    LET diff == XOR(d, x)
    IN  Emit(Wire(x, MacOf(d, key), XOR(key, gfmul(delta, diff))))

multiply_const ==
  \E n \in DOMAIN wires, cst \in Field :
    LET w == wires[n]
    IN  Emit(Wire(gfmul(w.x, cst), gfmul(w.m, cst), gfmul(w.k, cst)))

compute_xor ==
  \E n1, n2 \in DOMAIN wires :
    LET v == wires[n1]
        w == wires[n2]
    IN  Emit(Wire(XOR(v.x, w.x), XOR(v.m, w.m), XOR(v.k, w.k)))

(* ostriple->compute_add_const: the prover adds r to the value, the         *)
(* verifier adds its product with delta to the key.                        *)
compute_add_const ==
  \E n \in DOMAIN wires, r \in Field :
    LET w == wires[n]
    IN  Emit(Wire(XOR(w.x, r), w.m, XOR(w.k, gfmul(delta, r))))

(* ostriple->compute_mul: the product, under a MAC of its own.             *)
compute_mul ==
  \E n1, n2 \in DOMAIN wires, key \in Field :
    LET x == gfmul(wires[n1].x, wires[n2].x)
    IN  Emit(Wire(x, MacOf(x, key), key))

(* check_zero_MAC without end.                                             *)
Put ==
  /\ Running
  /\ Len(blocks) < MaxBlocks
  /\ \E n \in DOMAIN wires : blocks' = Append(blocks, wires[n])
  /\ UNCHANGED <<delta, wires, verdict>>

(* Faulty variant: the verifier hashes the last block only.                *)
DigestsEqual_last ==
  blocks = <<>> \/ blocks[Len(blocks)].m = blocks[Len(blocks)].k

(* The digests of the prover's and of the verifier's blocks.               *)
DigestsEqual == \A n \in DOMAIN blocks : blocks[n].m = blocks[n].k

(* check_zero_MAC(zero_block, 1): the zero block is the same in both.      *)
Compare ==
  /\ Running
  /\ blocks' = <<>>
  /\ verdict' = IF DigestsEqual THEN verdict ELSE "failed"
  /\ UNCHANGED <<delta, wires>>

(* Faulty variant: only what the prover sent is compared.                  *)
MacsEqual_sent(v, w) == v.m = w.m

(* The verifier adds the MACs it receives to its own two.                  *)
MacsEqual(v, w) == XOR(v.k, v.m) = XOR(w.k, w.m)

(* check_set_euqality on two products.                                     *)
SetEquality(v, w) ==
  /\ Running
  /\ verdict' = IF MacsEqual(v, w) THEN verdict ELSE "failed"
  /\ UNCHANGED <<delta, wires, blocks>>

SetEqualities == \E n1, n2 \in DOMAIN wires : SetEquality(wires[n1], wires[n2])

Next ==
  \/ Commit
  \/ multiply_const \/ compute_xor \/ compute_add_const \/ compute_mul
  \/ Put \/ Compare \/ SetEqualities

Spec == Init /\ [][Next]_vars
-----------------------------------------------------------------------------
TypeOK ==
  /\ delta \in Field \ {zero}
  /\ wires \in Seq(Wires)
  /\ blocks \in Seq(Wires)
  /\ verdict \in {"running", "failed"}

Authentic(w) == w.m = XOR(w.k, gfmul(delta, w.x))

(* Whatever sequence of operations a value comes from, MAC and key differ  *)
(* by delta times the value.                                               *)
MacsHold ==
  /\ \A n \in DOMAIN wires : Authentic(wires[n])
  /\ \A n \in DOMAIN blocks : Authentic(blocks[n])

(* A comparison of digests fails exactly when one of the values put in     *)
(* since the last comparison is not zero: the digests, which each party    *)
(* computes from its own half of the blocks, say neither more nor less.    *)
ComparisonDecides ==
  [][Compare => (verdict' = "failed" <=>
                   \E n \in DOMAIN blocks : blocks[n].x # zero)]_vars

(* check_set_euqality fails exactly when the two products differ.          *)
SetEqualityDecides ==
  [][\A n1, n2 \in DOMAIN wires :
       SetEquality(wires[n1], wires[n2]) =>
         (verdict' = "failed" <=> wires[n1].x # wires[n2].x)]_vars
=============================================================================
