----------------------------- MODULE PolyField -----------------------------
(***************************************************************************)
(* The polynomial checks of polynomial.cpp and clause.h on actual          *)
(* coefficients, in GF(8) instead of GF(2^128): polynomials are functions  *)
(* from 0 .. MaxDeg to field elements, committed polynomials keep the      *)
(* coefficients below DEGREE, the witness is computed by division, and a   *)
(* test at a random challenge is the identity of the two sides.  The       *)
(* properties state that module Clause, which every other module uses,     *)
(* decides each check as the field computation does.                       *)
(***************************************************************************)
EXTENDS Clause, Bitwise, FiniteSetsExt

CONSTANTS
  NumVars,   (* number of variables of the clauses, below LIT              *)
  Clauses    (* the padded literal vectors considered                      *)

VARIABLES c, res, pivot, outcome

vars == <<c, res, pivot, outcome>>

MaxDeg == 2 * DEGREE
Field  == 0 .. 7
LIT    == 4          (* constant_lit: the bit that negates a word          *)

PivotLits == -NumVars .. NumVars

(* The word of a literal, see module Encoder.                              *)
word(l) == IF l < 0 THEN (-l) ^^ LIT ELSE l

(* gfmul: the carry-less product modulo x^3 + x + 1.                       *)
gfmul[x \in Field, y \in Field] ==
  LET bit(n) == (y \div n) % 2
      prod == ((x * bit(1)) ^^ (2 * x * bit(2))) ^^ (4 * x * bit(4))
      fold == IF prod >= 16 THEN prod ^^ 22 ELSE prod
  IN  IF fold >= 8 THEN fold ^^ 11 ELSE fold

ZeroPoly == [k \in 0 .. MaxDeg |-> 0]

deg(f) == IF f = ZeroPoly THEN -1 ELSE Max({k \in 0 .. MaxDeg : f[k] # 0})

PolyMul(f, g) ==
  [k \in 0 .. MaxDeg |->
     FoldSet(LAMBDA m, acc : acc ^^ gfmul[f[m], g[k - m]], 0, 0 .. k)]

(* (x + r), or the constant 1 for the padding word.                        *)
Factor(r) ==
  [k \in 0 .. MaxDeg |->
     IF r = 0 THEN IF k = 0 THEN 1 ELSE 0
     ELSE CASE k = 0 -> r [] k = 1 -> 1 [] k > 1 -> 0]

get_GF2EX_with_roots(ells) ==
  FoldLeft(LAMBDA f, l : PolyMul(Factor(word(l)), f), Factor(0), ells)

(* Faulty variants: one coefficient too many, one too few.                 *)
commit_leading(f) == [k \in 0 .. MaxDeg |-> IF k <= DEGREE THEN f[k] ELSE 0]
commit_short(f) == [k \in 0 .. MaxDeg |-> IF k < DEGREE - 1 THEN f[k] ELSE 0]

(* polynomial(roots) and GF2EX2polynomial: coefficients 0 .. DEGREE - 1.   *)
commit(f) == [k \in 0 .. MaxDeg |-> IF k < DEGREE THEN f[k] ELSE 0]

(* Schoolbook division by the monic polynomial g.                          *)
DivRem(f, g) ==
  LET d == deg(g)
      step(acc, k) ==
        LET top == acc.rem[k]
        IN  [quo |-> [acc.quo EXCEPT ![k - d] = top],
             rem |-> [m \in 0 .. MaxDeg |->
                        acc.rem[m] ^^ IF m >= k - d
                                      THEN gfmul[top, g[m - (k - d)]] ELSE 0]]
  IN  FoldLeft(step, [quo |-> ZeroPoly, rem |-> f],
               [m \in 1 .. MaxDeg - d + 1 |-> MaxDeg - m + 1])

(* NTL's divide leaves the quotient 0 when the division is not exact.      *)
divide(f, g) ==
  LET qr == DivRem(f, g) IN IF qr.rem = ZeroPoly THEN qr.quo ELSE ZeroPoly

(* Faulty variant: Horner without the constant coefficient.                *)
Evaluate_short(f, x) ==
  FoldLeft(LAMBDA acc, k : gfmul[acc, x] ^^ f[k], 0,
           [m \in 1 .. DEGREE - 1 |-> DEGREE - m])

Evaluate(f, x) ==
  FoldLeft(LAMBDA acc, k : gfmul[acc, x] ^^ f[k], 0,
           [m \in 1 .. DEGREE |-> DEGREE - m])

-----------------------------------------------------------------------------
Init ==
  /\ c \in Clauses
  /\ res \in Clauses
  /\ pivot \in PivotLits
  /\ outcome = "none"

(* witness_generator and InnerProductEqual for one antecedent.             *)
CheckLift ==
  LET cp     == get_GF2EX_with_roots(c)
      resp   == get_GF2EX_with_roots(res)
      pivotp == get_GF2EX_with_roots(<<pivot>>)
      w      == divide(PolyMul(resp, pivotp), cp)
  IN  /\ outcome = "none"
      /\ outcome' =
           CASE deg(w) > DEGREE -> "lift aborts"
             [] deg(w) <= DEGREE ->
                  IF PolyMul(commit(cp), commit(w))
                       = PolyMul(commit(resp), commit(pivotp))
                  THEN "lift passes" ELSE "lift fails"
      /\ UNCHANGED <<c, res, pivot>>

(* polynomial::Equal.                                                      *)
CheckEqual ==
  /\ outcome = "none"
  /\ outcome' = IF commit(get_GF2EX_with_roots(c))
                     = commit(get_GF2EX_with_roots(res))
                THEN "equal" ELSE "different"
  /\ UNCHANGED <<c, res, pivot>>

(* polynomial::Evaluate at the word of a literal.                          *)
CheckEvaluate ==
  /\ outcome = "none"
  /\ pivot # 0
  /\ outcome' = IF Evaluate(commit(get_GF2EX_with_roots(c)), word(pivot)) = 0
                THEN "zero" ELSE "not zero"
  /\ UNCHANGED <<c, res, pivot>>

Next == CheckLift \/ CheckEqual \/ CheckEvaluate

Spec == Init /\ [][Next]_vars

-----------------------------------------------------------------------------
(* The check of one antecedent passes, fails or aborts on the assertion of *)
(* GF2EX2polynomial exactly when Clause says so, truncated products        *)
(* included: the commitments decide multiset inclusion and nothing else.   *)
LiftAgrees ==
  /\ outcome = "lift aborts" => WitnessOverflow(c, res, pivot)
  /\ outcome = "lift passes" =>
       LiftPasses(c, res, pivot) /\ ~ WitnessOverflow(c, res, pivot)
  /\ outcome = "lift fails" =>
       ~ LiftPasses(c, res, pivot) /\ ~ WitnessOverflow(c, res, pivot)

(* Two committed clauses are equal exactly when they have the same         *)
(* literals with the same multiplicities, when both or none is truncated.  *)
EqualAgrees ==
  (Truncated(c) <=> Truncated(res)) =>
    /\ outcome = "equal" => Equal(c, res)
    /\ outcome = "different" => ~ Equal(c, res)

(* A clause evaluates to zero at its literals and nowhere else; once its   *)
(* leading term is lost it is non-zero even at its own literals, which is  *)
(* why a clause of DEGREE literals fails checkSAT.                         *)
EvaluateAgrees ==
  /\ outcome = "zero" /\ ~ Truncated(c) => EvaluatesToZero(c, pivot)
  /\ outcome = "zero" => pivot \notin Lits(c) \/ ~ Truncated(c)
  /\ outcome = "not zero" => ~ EvaluatesToZero(c, pivot)
=============================================================================
