------------------------------- MODULE Clause -------------------------------
(***************************************************************************)
(* Clauses, their polynomials and the checks of one resolution step        *)
(* (clause.h, polynomial.cpp, padding and get_GF2EX_with_roots in          *)
(* utils.cpp), for the build with PADDING defined.                         *)
(*                                                                         *)
(* A literal is an integer: the encoder's words are pairwise different and *)
(* negating a word is encoding the negated literal (module Encoder), and 0 *)
(* is the padding word.  A clause is the vector of its literals.  Its      *)
(* polynomial is the product of (x + l) over its non-zero literals, so it  *)
(* is determined by the multiplicities of these literals; but only the     *)
(* coefficients 0 .. DEGREE - 1 are committed, so a product of degree      *)
(* DEGREE loses its leading term (Truncated).  Tests of a polynomial       *)
(* identity at a challenge drawn after the commitments are modelled by the *)
(* identity itself.  Module PolyField evaluates the same functions on      *)
(* actual coefficients and checks that they agree with the operators here. *)
(***************************************************************************)
EXTENDS Integers, Sequences, FiniteSets, SequencesExt

CONSTANT DEGREE   (* DEGREE, the number of committed coefficients          *)

(* polynomial::Evaluate asserts degree > 1.                                *)
ASSUME DegreeAssumption == DEGREE \in Nat /\ DEGREE > 1

(* Faulty variants: one entry short, and a literal left unnegated.         *)
padding_short(c) == c \o [m \in 1 .. DEGREE - Len(c) - 1 |-> 0]
get_negate_missing(l) == l

padding(c) == c \o [m \in 1 .. DEGREE - Len(c) |-> 0]

get_negate(l) == -l

NonZero(c) == {m \in DOMAIN c : c[m] # 0}

(* The literals of a clause: the roots of its polynomial.                  *)
Lits(c) == {c[m] : m \in NonZero(c)}

Width(c) == Cardinality(NonZero(c))

Multiplicity(c, l) == Cardinality({m \in NonZero(c) : c[m] = l})

(* No literal is repeated.                                                 *)
Distinct(c) == \A p, q \in NonZero(c) : c[p] = c[q] => p = q

(* The committed coefficients are those of the product without x^DEGREE.   *)
Truncated(c) == Width(c) >= DEGREE

SameRoots(c, d) ==
  \A l \in Lits(c) \cup Lits(d) : Multiplicity(c, l) = Multiplicity(d, l)

(* polynomial::Equal.                                                      *)
Equal(c, d) == SameRoots(c, d)

(* Whether polynomial::Evaluate returns 0 at the word of literal l, l # 0. *)
EvaluatesToZero(c, l) == l \in Lits(c) /\ ~ Truncated(c)

(* NTL's divide: the clause c divides res times (x + pivot); the factor of *)
(* a zero pivot is 1.                                                      *)
Divides(c, res, pivot) ==
  \A l \in Lits(c) :
    Multiplicity(c, l) <= Multiplicity(res, l) + (IF l = pivot THEN 1 ELSE 0)

WitnessDegree(c, res, pivot) ==
  Width(res) + (IF pivot = 0 THEN 0 ELSE 1) - Width(c)

(* GF2EX2polynomial asserts that the witness has degree at most DEGREE.    *)
WitnessOverflow(c, res, pivot) ==
  Divides(c, res, pivot) /\ WitnessDegree(c, res, pivot) > DEGREE

(* InnerProductEqual: c times its witness equals res times (x + pivot), as *)
(* committed.  When nothing is truncated this is divisibility; a truncated *)
(* res balances only a clause that is res itself or the pivot alone.       *)
LiftPasses(c, res, pivot) ==
  /\ Divides(c, res, pivot)
  /\ \/ /\ ~ Truncated(c)
        /\ ~ Truncated(res)
        /\ WitnessDegree(c, res, pivot) < DEGREE
     \/ /\ Truncated(res)
        /\ SameRoots(c, res) \/ SameRoots(c, <<pivot>>)

(* check_xres: cres follows from c0 and c1 by resolving c0 on the pivot    *)
(* and c1 on its negation.  Its ConverseCheck compares two polynomials     *)
(* built from the same pivot and always passes.                            *)
check_xres(c0, c1, cres, pivot) ==
  /\ LiftPasses(c0, cres, pivot)
  /\ LiftPasses(c1, cres, get_negate(pivot))

(* The assertions of witness_generator abort the run.                      *)
xres_aborts(c0, c1, cres, pivot) ==
  \/ WitnessOverflow(c0, cres, pivot)
  \/ WitnessOverflow(c1, cres, get_negate(pivot))

(* get_res_f2k collects the resolvent in a std::set; its assertion aborts  *)
(* the run when the set does not fit in DEGREE literals.                   *)
ResolventLits(a, b, pivot) ==
  (Lits(a) \ {pivot}) \cup (Lits(b) \ {get_negate(pivot)})

res_overflows(a, b, pivot) == Cardinality(ResolventLits(a, b, pivot)) > DEGREE

get_res_f2k(a, b, pivot) == padding(SetToSeq(ResolventLits(a, b, pivot)))
=============================================================================
