-------------------------- MODULE RefutationProofs --------------------------
(***************************************************************************)
(* Proofs about module Refutation, for every DEGREE, every set of          *)
(* variables and all proof files.                                          *)
(***************************************************************************)
EXTENDS Refutation, FiniteSetTheorems, TLAPS

-----------------------------------------------------------------------------
(* Lemmas on the operators of Clause, for every DEGREE: what the checks of *)
(* one resolution step say of the literals of the clauses involved.        *)

LEMMA Occurrences ==
  ASSUME NEW c \in Seq(Int), NEW l
  PROVE  /\ Multiplicity(c, l) \in Nat
         /\ l \in Lits(c) => Multiplicity(c, l) > 0
         /\ Multiplicity(c, l) > 0 => l \in Lits(c)
<1> DEFINE S == {m \in NonZero(c) : c[m] = l}
<1>1. IsFiniteSet(1 .. Len(c))
  BY FS_Interval
<1>2. S \subseteq 1 .. Len(c)
  BY DEF NonZero
<1>3. IsFiniteSet(S)
  BY <1>1, <1>2, FS_Subset
<1>4. Multiplicity(c, l) = Cardinality(S)
  BY DEF Multiplicity
<1>5. l \in Lits(c) <=> S # {}
  BY DEF Lits
<1>6. Cardinality(S) \in Nat
  BY <1>3, FS_CardinalityType
<1>7. Cardinality(S) = 0 <=> S = {}
  BY <1>3, FS_EmptySet
<1> HIDE DEF S
<1> QED
  BY <1>4, <1>5, <1>6, <1>7

LEMMA LitsType ==
  ASSUME NEW c \in Seq(Int)
  PROVE  /\ Lits(c) \subseteq Int \ {0}
         /\ IsFiniteSet(Lits(c))
         /\ \A m \in 1 .. Len(c) : c[m] # 0 => c[m] \in Lits(c)
<1>1. \A l \in Lits(c) : l \in Int /\ l # 0
  BY DEF Lits, NonZero
<1>2. IsFiniteSet(1 .. Len(c))
  BY FS_Interval
<1>3. NonZero(c) \subseteq 1 .. Len(c)
  BY DEF NonZero
<1>4. IsFiniteSet(NonZero(c))
  BY <1>2, <1>3, FS_Subset
<1>5. IsFiniteSet({c[m] : m \in NonZero(c)})
  <2> DEFINE f == [m \in NonZero(c) |-> c[m]]
             T == {c[m] : m \in NonZero(c)}
  <2>1. f \in Surjection(NonZero(c), T)
    BY DEF Surjection
  <2> QED
    BY <1>4, <2>1, FS_Surjection
<1> QED
  BY <1>1, <1>5 DEF Lits, NonZero

(* A clause divides the derived one up to the pivot.                       *)
LEMMA LiftLiterals ==
  ASSUME NEW c \in Seq(Int), NEW res \in Seq(Int), NEW p \in Int,
         LiftPasses(c, res, p)
  PROVE  \A l \in Lits(c) : l \in Lits(res) \/ l = p
<1> SUFFICES ASSUME NEW l \in Lits(c), l # p
             PROVE  l \in Lits(res)
  OBVIOUS
<1>1. Multiplicity(c, l) <= Multiplicity(res, l) + 0
  BY DEF LiftPasses, Divides
<1>2. Multiplicity(c, l) > 0 /\ Multiplicity(c, l) \in Nat
  BY Occurrences
<1>3. Multiplicity(res, l) \in Nat
  BY Occurrences
<1>4. Multiplicity(res, l) > 0
  BY <1>1, <1>2, <1>3
<1> QED
  BY <1>4, Occurrences

LEMMA EqualLiterals ==
  ASSUME NEW c \in Seq(Int), NEW d \in Seq(Int), Equal(c, d)
  PROVE  Lits(c) = Lits(d)
<1>1. ASSUME NEW l \in Lits(c) \cup Lits(d)
      PROVE  l \in Lits(c) /\ l \in Lits(d)
  <2>1. Multiplicity(c, l) = Multiplicity(d, l)
    BY <1>1 DEF Equal, SameRoots
  <2> QED
    BY <1>1, <2>1, Occurrences
<1> QED
  BY <1>1

LEMMA EmptyClause == Lits(<<0>>) = {} /\ <<0>> \in Seq(Int)
BY DEF Lits, NonZero

LEMMA Zeros ==
  ASSUME NEW w \in Nat
  PROVE  /\ [m \in 1 .. w |-> 0] \in Seq(Int)
         /\ Len([m \in 1 .. w |-> 0]) = w
         /\ \A m \in 1 .. w : [x \in 1 .. w |-> 0][m] = 0
OBVIOUS

(* Appending zeros adds no literal.                                        *)
LEMMA ZerosLiterals ==
  ASSUME NEW c \in Seq(Int), NEW z \in Seq(Int),
         \A m \in 1 .. Len(z) : z[m] = 0
  PROVE  Lits(c \o z) = Lits(c)
<1>1. Len(c) \in Nat /\ Len(z) \in Nat
  OBVIOUS
<1>2. DOMAIN c = 1 .. Len(c) /\ DOMAIN (c \o z) = 1 .. Len(c) + Len(z)
  OBVIOUS
<1>3. /\ \A m \in 1 .. Len(c) : (c \o z)[m] = c[m]
      /\ \A m \in 1 .. Len(c) + Len(z) : m > Len(c) => (c \o z)[m] = 0
  OBVIOUS
<1>4. NonZero(c \o z) = NonZero(c)
  BY <1>1, <1>2, <1>3 DEF NonZero
<1>5. \A m \in NonZero(c) : (c \o z)[m] = c[m]
  BY <1>3 DEF NonZero
<1> QED
  BY <1>4, <1>5 DEF Lits

(* Padding adds no literal.                                                *)
LEMMA PaddingLiterals ==
  ASSUME NEW c \in Seq(Int)
  PROVE  /\ padding(c) \in Seq(Int)
         /\ Lits(padding(c)) = Lits(c)
         /\ Len(padding(c)) = IF Len(c) <= DEGREE THEN DEGREE ELSE Len(c)
<1>1. Len(c) \in Nat /\ DEGREE \in Nat
  BY DegreeAssumption
<1>2. PICK w \in Nat : w = IF Len(c) <= DEGREE THEN DEGREE - Len(c) ELSE 0
  <2>1. (IF Len(c) <= DEGREE THEN DEGREE - Len(c) ELSE 0) \in Nat
    BY <1>1
  <2> QED
    BY <2>1, Zenon
<1>3. 1 .. DEGREE - Len(c) = 1 .. w
  BY <1>1, <1>2
<1>4. PICK z \in Seq(Int) :
        /\ z = [m \in 1 .. w |-> 0]
        /\ Len(z) = w
        /\ \A m \in 1 .. w : z[m] = 0
  BY <1>2, Zeros
<1>5. padding(c) = c \o z
  BY <1>3, <1>4 DEF padding
<1>6. c \o z \in Seq(Int) /\ Len(c \o z) = Len(c) + w
  BY <1>4
<1>7. Lits(c \o z) = Lits(c)
  BY <1>4, ZerosLiterals
<1> QED
  BY <1>1, <1>2, <1>5, <1>6, <1>7

(* The sequence of a finite set of integers.                               *)
LEMMA SequenceOfSet ==
  ASSUME NEW S, IsFiniteSet(S), S \subseteq Int
  PROVE  /\ SetToSeq(S) \in Seq(Int)
         /\ Len(SetToSeq(S)) = Cardinality(S)
         /\ \A m \in 1 .. Cardinality(S) : SetToSeq(S)[m] \in S
<1> DEFINE N == Cardinality(S)
<1>1. N \in Nat /\ ExistsBijection(1 .. N, S)
  BY FS_CardinalityType
<1>2. PICK g \in Bijection(1 .. N, S) : TRUE
  BY <1>1 DEF ExistsBijection
<1>3. g \in [1 .. N -> S] /\ IsInjective(g)
  BY <1>2 DEF Bijection, Injection
<1>4. SetToSeq(S) \in [1 .. N -> S]
  BY <1>3 DEF SetToSeq
<1> HIDE DEF N
<1>5. SetToSeq(S) \in [1 .. N -> Int]
  BY <1>4
<1> QED
  BY <1>1, <1>4, <1>5 DEF N

LEMMA ResolventType ==
  ASSUME NEW a \in Seq(Int), NEW b \in Seq(Int), NEW p \in Int,
         ~ res_overflows(a, b, p)
  PROVE  /\ get_res_f2k(a, b, p) \in Seq(Int)
         /\ Len(get_res_f2k(a, b, p)) = DEGREE
         /\ Lits(get_res_f2k(a, b, p)) \subseteq Lits(a) \cup Lits(b)
<1> DEFINE R == ResolventLits(a, b, p)
           s == SetToSeq(R)
<1>1. R \subseteq Lits(a) \cup Lits(b)
  BY DEF ResolventLits
<1>2. IsFiniteSet(Lits(a) \cup Lits(b)) /\ Lits(a) \cup Lits(b) \subseteq Int
  BY LitsType, FS_Union
<1>3. IsFiniteSet(R) /\ R \subseteq Int
  BY <1>1, <1>2, FS_Subset
<1>4. Cardinality(R) \in Nat /\ Cardinality(R) <= DEGREE
  <2>1. Cardinality(R) \in Nat
    BY <1>3, FS_CardinalityType
  <2>2. ~ (Cardinality(R) > DEGREE)
    BY DEF res_overflows
  <2> QED
    BY <2>1, <2>2, DegreeAssumption
<1>5. /\ s \in Seq(Int)
      /\ Len(s) = Cardinality(R)
      /\ \A m \in 1 .. Cardinality(R) : s[m] \in R
  BY <1>3, SequenceOfSet
<1>6. Lits(s) \subseteq R
  BY <1>5 DEF Lits, NonZero
<1>7. get_res_f2k(a, b, p) = padding(s)
  BY DEF get_res_f2k
<1> HIDE DEF s, R
<1> QED
  BY <1>1, <1>4, <1>5, <1>6, <1>7, PaddingLiterals
-----------------------------------------------------------------------------
(* Resolution is sound, whatever the clauses and the pivot are: when both  *)
(* antecedents pass and contain a literal of T, a set without opposite     *)
(* literals, the derived clause contains one.                              *)
LEMMA StepIsSound ==
  ASSUME NEW c0 \in Seq(Int), NEW c1 \in Seq(Int), NEW cres \in Seq(Int),
         NEW p \in Int, check_xres(c0, c1, cres, p),
         NEW T, \A l \in T : l # 0 => -l \notin T,
         Lits(c0) \cap T # {}, Lits(c1) \cap T # {}
  PROVE  Lits(cres) \cap T # {}
<1>1. PICK x \in Lits(c0) : x \in T
  OBVIOUS
<1>2. PICK y \in Lits(c1) : y \in T
  OBVIOUS
<1>3. x \in Lits(cres) \/ x = p
  BY LiftLiterals DEF check_xres
<1>4. y \in Lits(cres) \/ y = -p
  <2>1. -p \in Int
    OBVIOUS
  <2>2. LiftPasses(c1, cres, -p)
    BY DEF check_xres, get_negate
  <2> QED
    BY <2>1, <2>2, LiftLiterals
<1>5. x # 0
  BY LitsType
<1> QED
  BY <1>1, <1>2, <1>3, <1>4, <1>5

-----------------------------------------------------------------------------
(* Completeness of one step.                                               *)
LEMMA WidthType ==
  ASSUME NEW c \in Seq(Int)
  PROVE  /\ IsFiniteSet(NonZero(c))
         /\ Width(c) \in Nat /\ Width(c) <= Len(c)
         /\ Cardinality(Lits(c)) \in Nat /\ Cardinality(Lits(c)) <= Width(c)
<1>1. IsFiniteSet(1 .. Len(c)) /\ Cardinality(1 .. Len(c)) = Len(c)
  <2>1. Len(c) \in Nat /\ 1 \in Int /\ Len(c) \in Int
    OBVIOUS
  <2>2. /\ IsFiniteSet(1 .. Len(c))
        /\ Cardinality(1 .. Len(c)) = IF 1 > Len(c) THEN 0 ELSE Len(c) - 1 + 1
    BY <2>1, FS_Interval
  <2> QED
    BY <2>1, <2>2
<1>2. NonZero(c) \subseteq 1 .. Len(c)
  BY DEF NonZero
<1>3. /\ IsFiniteSet(NonZero(c)) /\ Cardinality(NonZero(c)) <= Len(c)
      /\ Cardinality(NonZero(c)) \in Nat
  BY <1>1, <1>2, FS_Subset, FS_CardinalityType
<1>4. /\ Cardinality(Lits(c)) <= Cardinality(NonZero(c))
      /\ IsFiniteSet(Lits(c))
  <2> DEFINE f == [m \in NonZero(c) |-> c[m]]
  <2>1. f \in Surjection(NonZero(c), Lits(c))
    BY DEF Surjection, Lits
  <2> QED
    BY <1>3, <2>1, FS_Surjection
<1> QED
  BY <1>3, <1>4, FS_CardinalityType DEF Width

(* A clause without repetitions holds each of its literals once.           *)
LEMMA DistinctOnce ==
  ASSUME NEW c \in Seq(Int), Distinct(c)
  PROVE  /\ \A l \in Lits(c) : Multiplicity(c, l) = 1
         /\ \A l : l \notin Lits(c) => Multiplicity(c, l) = 0
         /\ Width(c) = Cardinality(Lits(c))
<1>1. ASSUME NEW l \in Lits(c)
      PROVE  Multiplicity(c, l) = 1
  <2>1. PICK m \in NonZero(c) : c[m] = l
    BY <1>1 DEF Lits
  <2>2. {x \in NonZero(c) : c[x] = l} = {m}
    BY <2>1 DEF Distinct
  <2> QED
    BY <2>2, FS_Singleton DEF Multiplicity
<1>2. ASSUME NEW l, l \notin Lits(c)
      PROVE  Multiplicity(c, l) = 0
  BY <1>2, Occurrences
<1>3. Width(c) = Cardinality(Lits(c))
  <2> DEFINE f == [m \in NonZero(c) |-> c[m]]
  <2>1. f \in Bijection(NonZero(c), Lits(c))
    BY DEF Bijection, Injection, Surjection, IsInjective, Lits, Distinct
  <2>2. ExistsBijection(NonZero(c), Lits(c))
    BY <2>1 DEF ExistsBijection
  <2>3. IsFiniteSet(NonZero(c))
    BY WidthType
  <2> QED
    BY <2>2, <2>3, FS_Bijection DEF Width
<1> QED
  BY <1>1, <1>2, <1>3

(* Clauses without repetitions over the same literals are equal.           *)
LEMMA DistinctEqual ==
  ASSUME NEW c \in Seq(Int), NEW d \in Seq(Int), Distinct(c), Distinct(d),
         Lits(c) = Lits(d)
  PROVE  Equal(c, d)
BY DistinctOnce DEF Equal, SameRoots

LEMMA EmptyEqual ==
  ASSUME NEW c, Lits(c) = {}
  PROVE  Equal(c, <<0>>)
BY EmptyClause DEF Equal, SameRoots

(* Padding adds no repetition.                                             *)
LEMMA PaddingDistinct ==
  ASSUME NEW c \in Seq(Int), Distinct(c)
  PROVE  Distinct(padding(c))
<1>1. /\ padding(c) \in Seq(Int) /\ Len(c) \in Nat
      /\ \A m \in 1 .. Len(padding(c)) :
           padding(c)[m] = IF m <= Len(c) THEN c[m] ELSE 0
  <2>1. Len(c) \in Nat /\ DEGREE \in Nat
    BY DegreeAssumption
  <2>2. PICK w \in Nat : w = IF Len(c) <= DEGREE THEN DEGREE - Len(c) ELSE 0
    <3>1. (IF Len(c) <= DEGREE THEN DEGREE - Len(c) ELSE 0) \in Nat
      BY <2>1
    <3> QED
      BY <3>1, Zenon
  <2>3. 1 .. DEGREE - Len(c) = 1 .. w
    BY <2>1, <2>2
  <2>4. PICK z \in Seq(Int) :
          /\ z = [m \in 1 .. w |-> 0]
          /\ Len(z) = w
          /\ \A m \in 1 .. w : z[m] = 0
    BY <2>2, Zeros
  <2>5. padding(c) = c \o z
    BY <2>3, <2>4 DEF padding
  <2> QED
    BY <2>1, <2>2, <2>4, <2>5
<1>2. \A m \in NonZero(padding(c)) : m \in NonZero(c) /\ padding(c)[m] = c[m]
  BY <1>1 DEF NonZero
<1> QED
  BY <1>2 DEF Distinct

(* The resolvent holds the resolvent literals, each once.                  *)
LEMMA ResolventExact ==
  ASSUME NEW a \in Seq(Int), NEW b \in Seq(Int), NEW p \in Int,
         ~ res_overflows(a, b, p)
  PROVE  /\ Distinct(get_res_f2k(a, b, p))
         /\ Lits(get_res_f2k(a, b, p)) = ResolventLits(a, b, p)
<1> DEFINE R == ResolventLits(a, b, p)
           s == SetToSeq(R)
           N == Cardinality(R)
<1>1. R \subseteq Lits(a) \cup Lits(b)
  BY DEF ResolventLits
<1>2. /\ IsFiniteSet(Lits(a) \cup Lits(b))
      /\ Lits(a) \cup Lits(b) \subseteq Int \ {0}
  BY LitsType, FS_Union
<1>3. IsFiniteSet(R) /\ R \subseteq Int \ {0} /\ N \in Nat
  BY <1>1, <1>2, FS_Subset, FS_CardinalityType
<1> HIDE DEF R
<1>4. s \in [1 .. N -> R] /\ IsInjective(s) /\ s \in Seq(Int)
  <2>1. ExistsBijection(1 .. N, R)
    BY <1>3, FS_CardinalityType
  <2>2. PICK g \in Bijection(1 .. N, R) : TRUE
    BY <2>1 DEF ExistsBijection
  <2>3. g \in [1 .. N -> R] /\ IsInjective(g)
    BY <2>2 DEF Bijection, Injection
  <2>4. s \in [1 .. N -> R] /\ IsInjective(s)
    BY <2>3 DEF SetToSeq
  <2>5. s \in Seq(Int)
    BY <1>3, SequenceOfSet
  <2> QED
    BY <2>4, <2>5
<1>5. get_res_f2k(a, b, p) = padding(s)
  BY DEF get_res_f2k, R
<1> HIDE DEF s
<1>6. NonZero(s) = 1 .. N
  BY <1>3, <1>4 DEF NonZero
<1>7. Distinct(s)
  BY <1>4, <1>6 DEF Distinct, IsInjective
<1>8. Lits(s) = R
  <2>1. Lits(s) = {s[m] : m \in 1 .. N}
    BY <1>6 DEF Lits
  <2>2. s \in Injection(1 .. N, R)
    BY <1>4 DEF Injection
  <2>3. IsFiniteSet(1 .. N) /\ Cardinality(1 .. N) = N
    <3>1. 1 \in Int /\ N \in Int
      BY <1>3
    <3>2. /\ IsFiniteSet(1 .. N)
          /\ Cardinality(1 .. N) = IF 1 > N THEN 0 ELSE N - 1 + 1
      BY <3>1, FS_Interval
    <3> QED
      BY <1>3, <3>2
  <2>4. s \in Surjection(1 .. N, R)
    BY <1>3, <2>2, <2>3, FS_Injection
  <2> QED
    BY <2>1, <2>4 DEF Surjection
<1> QED
  BY <1>4, <1>5, <1>7, <1>8, PaddingDistinct, PaddingLiterals DEF R

(* A clause without repetitions passes against a derived clause that holds *)
(* its literals but the pivot.                                             *)
LEMMA HonestLift ==
  ASSUME NEW c \in Seq(Int), NEW res \in Seq(Int), NEW p \in Int, p # 0,
         Distinct(c), Distinct(res), p \in Lits(c),
         Lits(c) \ {p} \subseteq Lits(res),
         Cardinality(Lits(c)) < DEGREE, Cardinality(Lits(res)) < DEGREE
  PROVE  LiftPasses(c, res, p) /\ ~ WitnessOverflow(c, res, p)
<1>1. /\ \A l \in Lits(c) : Multiplicity(c, l) = 1
      /\ \A l \in Lits(res) : Multiplicity(res, l) = 1
      /\ \A l : Multiplicity(res, l) \in Nat
      /\ Width(c) < DEGREE /\ Width(res) < DEGREE
      /\ Width(c) \in Nat /\ Width(res) \in Nat
  BY DistinctOnce, Occurrences, WidthType
<1>2. Width(c) >= 1
  <2>1. Width(c) = Cardinality(Lits(c)) /\ Lits(c) # {}
    BY DistinctOnce
  <2>2. IsFiniteSet(Lits(c))
    BY LitsType
  <2> QED
    BY <1>1, <2>1, <2>2, FS_EmptySet
<1>3. Divides(c, res, p)
  <2> SUFFICES ASSUME NEW l \in Lits(c)
               PROVE  Multiplicity(c, l) <=
                        Multiplicity(res, l) + (IF l = p THEN 1 ELSE 0)
    BY DEF Divides
  <2>1. CASE l = p
    <3>1. Multiplicity(c, l) = 1 /\ Multiplicity(res, l) \in Nat
      BY <1>1
    <3> QED
      BY <2>1, <3>1
  <2>2. CASE l # p
    <3>1. Multiplicity(c, l) = 1 /\ Multiplicity(res, l) = 1
      BY <1>1, <2>2
    <3> QED
      BY <2>2, <3>1
  <2> QED
    BY <2>1, <2>2
<1>4. WitnessDegree(c, res, p) = Width(res) + 1 - Width(c)
  BY DEF WitnessDegree
<1>5. WitnessDegree(c, res, p) < DEGREE
  BY <1>1, <1>2, <1>4, DegreeAssumption
<1>6. ~ Truncated(c) /\ ~ Truncated(res)
  BY <1>1, DegreeAssumption DEF Truncated
<1>7. ~ WitnessOverflow(c, res, p)
  <2>1. WitnessDegree(c, res, p) \in Int
    BY <1>1, <1>4
  <2> QED
    BY <1>5, <2>1, DegreeAssumption DEF WitnessOverflow
<1> QED
  BY <1>3, <1>5, <1>6, <1>7 DEF LiftPasses

(* The honest step of a chain: the checks pass, no assertion fails.        *)
LEMMA HonestStep ==
  ASSUME NEW c0 \in Seq(Int), NEW c1 \in Seq(Int), NEW cres \in Seq(Int),
         NEW p \in Int, p # 0, Distinct(c0), Distinct(c1), Distinct(cres),
         p \in Lits(c0), -p \in Lits(c1),
         ResolventLits(c0, c1, p) \subseteq Lits(cres),
         Cardinality(Lits(c0)) < DEGREE, Cardinality(Lits(c1)) < DEGREE,
         Cardinality(Lits(cres)) < DEGREE
  PROVE  check_xres(c0, c1, cres, p) /\ ~ xres_aborts(c0, c1, cres, p)
<1>1. -p \in Int /\ -p # 0 /\ get_negate(p) = -p
  BY DEF get_negate
<1>2. /\ Lits(c0) \ {p} \subseteq Lits(cres)
      /\ Lits(c1) \ {-p} \subseteq Lits(cres)
  BY <1>1 DEF ResolventLits
<1>3. LiftPasses(c0, cres, p) /\ ~ WitnessOverflow(c0, cres, p)
  BY <1>2, HonestLift
<1>4. LiftPasses(c1, cres, -p) /\ ~ WitnessOverflow(c1, cres, -p)
  BY <1>1, <1>2, HonestLift
<1> QED
  BY <1>1, <1>3, <1>4 DEF check_xres, xres_aborts

-----------------------------------------------------------------------------
(* The committed clauses.                                                  *)
Vectors == {c \in Seq(Int) : Len(c) = DEGREE /\ Lits(c) \subseteq Literals}

Phases == {"commit", "disjoint", "sat", "chain", "fetch", "unfold",
           "resolve", "check", "last", "final"} \cup Finished

ChainPhases == {"chain", "fetch", "unfold", "resolve", "check", "last",
                "final", "accepted"}

Types ==
  /\ file \in Files
  /\ pc \in Phases
  /\ i \in 0 .. ncls
  /\ k \in Nat
  /\ raw_formula \in Seq(Vectors)
  /\ resource \in Seq(Vectors)
  /\ intermediate \in Seq(Vectors)
  /\ clear_mem \in Seq(Vectors)
  /\ end_clause \in Vectors \cup {<<>>}
  /\ zero_hash \in {"empty", "zeros", "nonzero"}

(* What the loop indices mean in each phase.                               *)
AtCommit == pc = "commit" => Len(raw_formula) = i

AtPrivate ==
  pc \in {"disjoint", "sat"} =>
    Len(raw_formula) = ncls /\ i <= file.n_c1_cls

AtChain == pc \in ChainPhases => Len(clear_mem) = ncls /\ ncls - nres <= i

AtFetch ==
  pc = "fetch" =>
    /\ i < ncls
    /\ Len(support) = Len(pivots)
    /\ k = Len(resource) + 1
    /\ k <= Len(support) + 1

AtStep ==
  pc \in {"unfold", "resolve", "check"} =>
    /\ i < ncls
    /\ Len(resource) = Len(pivots)
    /\ end_clause \in Vectors
    /\ Len(intermediate) > 0
    /\ intermediate[1] = resource[1]

AtUnfold == pc = "unfold" => Len(pivots) > 1

AtResolve ==
  pc = "resolve" => k = Len(intermediate) + 1 /\ k <= Len(pivots) + 1

AtCheck ==
  pc = "check" =>
    k > 1 /\ k <= Len(pivots) + 1 /\ Len(intermediate) = Len(pivots)

AtLast == pc = "last" => i < ncls /\ end_clause \in Vectors

Loops ==
  /\ AtCommit /\ AtPrivate /\ AtChain /\ AtFetch
  /\ AtStep /\ AtUnfold /\ AtResolve /\ AtCheck /\ AtLast

IInv == Types /\ Loops

-----------------------------------------------------------------------------
LEMMA LiteralsType == Literals \subseteq Int \ {0}
<1>1. ASSUME NEW v \in Vars
      PROVE  v \in Int \ {0} /\ -v \in Int \ {0}
  <2>1. Vars \subseteq Nat \ {0}
    BY RefutationAssumption
  <2>2. v \in Nat \ {0}
    BY <2>1
  <2> QED
    BY <2>2
<1> QED
  BY <1>1 DEF Literals

LEMMA WiderSequence ==
  ASSUME NEW A, NEW B, \A x \in A : x \in B, NEW s \in Seq(A)
  PROVE  s \in Seq(B)
<1>1. /\ Len(s) \in Nat
      /\ s = [m \in 1 .. Len(s) |-> s[m]]
      /\ \A m \in 1 .. Len(s) : s[m] \in B
  OBVIOUS
<1> QED
  BY <1>1

LEMMA VectorType ==
  ASSUME NEW c \in Vectors
  PROVE  c \in Seq(Int) /\ Len(c) = DEGREE /\ Lits(c) \subseteq Literals
BY DEF Vectors

LEMMA VectorsType ==
  ASSUME NEW s \in Seq(Vectors), NEW m \in 1 .. Len(s)
  PROVE  s[m] \in Vectors /\ s[m] \in Seq(Int)
<1>1. s[m] \in Vectors
  OBVIOUS
<1> QED
  BY <1>1, VectorType

(* The proof file of this run.                                             *)
LEMMA FileClauses ==
  ASSUME file \in Files
  PROVE  /\ ncls \in Nat
         /\ \A m \in 1 .. ncls :
              /\ file.clauses[m] \in Seq(Int)
              /\ Lits(file.clauses[m]) \subseteq Literals
<1> DEFINE C == Literals \cup {0}
<1>1. file.clauses \in Seq(Seq(C))
  BY RefutationAssumption DEF FileType
<1>2. C \subseteq Int
  BY LiteralsType
<1>3. ASSUME NEW m \in 1 .. ncls
      PROVE  /\ file.clauses[m] \in Seq(Int)
             /\ Lits(file.clauses[m]) \subseteq Literals
  <2> DEFINE c == file.clauses[m]
  <2>1. c \in Seq(C)
    BY <1>1 DEF ncls
  <2> HIDE DEF c, C
  <2>2. c \in Seq(Int)
    BY <1>2, <2>1, WiderSequence
  <2>3. Lits(c) \subseteq Literals
    BY <2>1 DEF Lits, NonZero, C
  <2> QED
    BY <2>2, <2>3 DEF c
<1> QED
  BY <1>1, <1>3 DEF ncls

LEMMA FileChains ==
  ASSUME file \in Files
  PROVE  /\ nres \in 0 .. ncls
         /\ file.n_c1_cls \in 0 .. ncls
         /\ \A m \in 1 .. ncls :
              /\ file.supports[m] \in Seq(Nat)
              /\ file.pivots[m] \in Seq(Int)
              /\ file.unfold => Len(file.supports[m]) # 1
<1>1. FileType(file)
  BY RefutationAssumption
<1>2. /\ file.supports \in Seq(Seq(Nat))
      /\ Len(file.supports) = ncls
      /\ file.pivots \in Seq(Seq(Literals))
      /\ Len(file.pivots) = ncls
      /\ file.n_c1_cls \in 0 .. ncls
  BY <1>1 DEF FileType, ncls
<1>3. ncls \in Nat
  BY FileClauses
<1>4. DOMAIN file.pivots = 1 .. ncls /\ DOMAIN file.supports = 1 .. ncls
  BY <1>2
<1>5. nres \in 0 .. ncls
  <2> DEFINE S == {m \in DOMAIN file.pivots : file.pivots[m] # <<>>}
  <2>1. IsFiniteSet(1 .. ncls) /\ Cardinality(1 .. ncls) = ncls
    BY <1>3, FS_Interval
  <2>2. S \in SUBSET (1 .. ncls)
    BY <1>4
  <2>3. IsFiniteSet(S) /\ Cardinality(S) <= ncls
    BY <2>1, <2>2, FS_Subset
  <2>4. Cardinality(S) \in Nat
    BY <2>3, FS_CardinalityType
  <2>5. nres = Cardinality(S)
    BY DEF nres
  <2> HIDE DEF S
  <2> QED
    BY <1>3, <2>3, <2>4, <2>5
<1>6. ASSUME NEW m \in 1 .. ncls
      PROVE  /\ file.supports[m] \in Seq(Nat)
             /\ file.pivots[m] \in Seq(Int)
             /\ file.unfold => Len(file.supports[m]) # 1
  <2>1. file.pivots[m] \in Seq(Literals)
    BY <1>2
  <2>2. file.pivots[m] \in Seq(Int)
    BY <2>1, LiteralsType, WiderSequence
  <2>3. file.supports[m] \in Seq(Nat)
    BY <1>2
  <2>4. file.unfold =>
          \A x \in DOMAIN file.supports : Len(file.supports[x]) # 1
    BY <1>1, Zenon DEF FileType
  <2>5. m \in DOMAIN file.supports
    BY <1>4
  <2>6. file.unfold => Len(file.supports[m]) # 1
    BY <2>4, <2>5, Zenon
  <2> QED
    BY <2>2, <2>3, <2>6, Zenon
<1> QED
  BY <1>2, <1>5, <1>6

(* The support and the pivots of the current chain.                        *)
LEMMA ChainType ==
  ASSUME Types, i < ncls
  PROVE  /\ support \in Seq(Nat)
         /\ pivots \in Seq(Int)
         /\ Len(pivots) = Len(file.pivots[i + 1]) + 1
         /\ file.unfold => Len(support) # 1
         /\ i + 1 \in 1 .. ncls
<1>1. i + 1 \in 1 .. ncls
  BY FileClauses DEF Types
<1>2. file.pivots[i + 1] \in Seq(Int) /\ file.supports[i + 1] \in Seq(Nat)
  BY <1>1, FileChains DEF Types
<1>3. <<0>> \in Seq(Int) /\ Len(<<0>>) = 1
  OBVIOUS
<1>4. file.unfold => Len(file.supports[i + 1]) # 1
  BY <1>1, FileChains DEF Types
<1> QED
  BY <1>1, <1>2, <1>3, <1>4 DEF support, pivots

(* What the operations of the memory leave alone.                          *)
LEMMA MemoryKept ==
  /\ \A x : RAM!get(x) => clear_mem' = clear_mem
  /\ RAM!check => clear_mem' = clear_mem
BY DEF RAM!get, RAM!check, RAM!CheckRecords

LEMMA ReadType ==
  ASSUME Types, NEW x, Read(x)
  PROVE  /\ clear_mem' = clear_mem
         /\ zero_hash' \in {"empty", "zeros", "nonzero"}
         /\ zero_hash' # "nonzero" => zero_hash # "nonzero"
BY MemoryKept DEF Read, Put, Types

(* An index committed with INDEX_SZ bits.                                  *)
LEMMA IndexType ==
  ASSUME NEW v \in Nat
  PROVE  /\ RAM!Committed(v) \in Nat
         /\ RAM!Committed(v) <= v
         /\ v < IndexRange => RAM!Committed(v) = v
<1>1. IndexRange \in Nat /\ IndexRange > 0
  BY RefutationAssumption
<1> QED
  BY <1>1 DEF RAM!Committed

LEMMA PtrType ==
  ASSUME Types
  PROVE  /\ RAM!Committed(ptr) \in Nat
         /\ RAM!Committed(ptr) <= i
         /\ i < IndexRange => RAM!Committed(ptr) = i
<1>1. ncls \in Nat
  BY FileClauses DEF Types
<1>2. i \in Nat
  BY <1>1 DEF Types
<1>3. ptr = i
  BY DEF ptr
<1> QED
  BY <1>2, <1>3, IndexType

-----------------------------------------------------------------------------
LEMMA InitTypes == Init => IInv
<1> SUFFICES ASSUME Init
             PROVE  IInv
  OBVIOUS
<1>1. ncls \in Nat
  BY FileClauses DEF Init
<1>2. Types
  <2>1. <<>> \in Seq(Vectors)
    OBVIOUS
  <2> QED
    BY <1>1, <2>1 DEF Init, Types, Phases, RAM!Fresh
<1> QED
  BY <1>2 DEF Init, IInv, Loops, AtCommit, AtPrivate, AtChain, AtFetch, AtStep,
              AtUnfold, AtResolve, AtCheck, AtLast, ChainPhases

(* The derived operators depend on file and i only.                        *)
LEMMA SameFile ==
  ASSUME file' = file
  PROVE  /\ ncls' = ncls /\ nres' = nres
         /\ i' = i => support' = support /\ pivots' = pivots
BY DEF ncls, nres, support, pivots

LEMMA FileKept ==
  ASSUME [Next]_vars
  PROVE  file' = file
BY DEF Next, vars, Commit, CommitDone, Disjoint, DisjointDone, CheckSAT,
   CheckSATDone, ChainStart, Fetch, FetchEnd, Unfold, Resolve, ResolveDone,
   Check, CheckDone, ChainDone, LastCompare, FinalCheck

LEMMA PutType ==
  \A b \in BOOLEAN :
    /\ Put(zero_hash, b) \in {"empty", "zeros", "nonzero"}
    /\ Put(zero_hash, b) # "nonzero" => b /\ zero_hash # "nonzero"
BY DEF Put

LEMMA StoppedLoops == pc' \in {"rejected", "aborted"} => Loops'
BY DEF Loops, AtCommit, AtPrivate, AtChain, AtFetch, AtStep, AtUnfold,
       AtResolve, AtCheck, AtLast, ChainPhases

LEMMA CommitTypes ==
  ASSUME IInv, Commit
  PROVE  IInv'
<1> DEFINE literals == padding(file.clauses[i + 1])
<1>1. file' = file /\ ncls' = ncls /\ nres' = nres /\ ncls \in Nat
  BY SameFile, FileClauses DEF Commit, IInv, Types
<1>2. i + 1 \in 1 .. ncls
  BY <1>1 DEF Commit, IInv, Types
<1>3. ~ (Len(literals) > DEGREE) => literals \in Vectors
  <2>1. /\ file.clauses[i + 1] \in Seq(Int)
        /\ Lits(file.clauses[i + 1]) \subseteq Literals
    BY <1>2, FileClauses DEF IInv, Types
  <2>2. /\ literals \in Seq(Int)
        /\ Lits(literals) \subseteq Literals
        /\ Len(literals) = IF Len(file.clauses[i + 1]) <= DEGREE
                            THEN DEGREE ELSE Len(file.clauses[i + 1])
    BY <2>1, PaddingLiterals
  <2>3. Len(file.clauses[i + 1]) \in Nat /\ DEGREE \in Nat
    BY <2>1, DegreeAssumption
  <2> HIDE DEF literals
  <2> QED
    BY <2>2, <2>3 DEF Vectors
<1>4. CASE Len(literals) > DEGREE
  BY <1>1, <1>4
  DEF Commit, IInv, Types, Phases, Finished, Loops, AtCommit, AtPrivate,
    AtChain, AtFetch, AtStep, AtUnfold, AtResolve, AtCheck, AtLast,
    ChainPhases, chain_vars, ram_vars
<1>5. CASE ~ (Len(literals) > DEGREE)
  <2>1. /\ raw_formula' = Append(raw_formula, literals)
        /\ i' = i + 1
        /\ pc = "commit" /\ pc' = pc
        /\ UNCHANGED <<k, chain_vars, zero_hash, ram_vars>>
    BY <1>5 DEF Commit
  <2>2. literals \in Vectors
    BY <1>3, <1>5
  <2> HIDE DEF literals
  <2>3. /\ raw_formula' \in Seq(Vectors)
        /\ Len(raw_formula') = Len(raw_formula) + 1
    BY <2>1, <2>2 DEF IInv, Types
  <2>4. Types'
    BY <1>1, <1>2, <2>1, <2>3 DEF IInv, Types, chain_vars, ram_vars
  <2> QED
    BY <2>1, <2>3, <2>4 DEF IInv, Loops, AtCommit, AtPrivate,
       AtChain, AtFetch, AtStep, AtUnfold, AtResolve, AtCheck, AtLast,
       ChainPhases
<1> QED
  BY <1>4, <1>5

LEMMA CommitDoneTypes ==
  ASSUME IInv, CommitDone
  PROVE  IInv'
<1>1. /\ file' = file /\ ncls' = ncls /\ nres' = nres /\ ncls \in Nat
      /\ file.n_c1_cls \in 0 .. ncls
  BY SameFile, FileClauses, FileChains DEF CommitDone, IInv, Types
<1>2. Types'
  BY <1>1 DEF CommitDone, IInv, Types, Phases, chain_vars, ram_vars
<1> QED
  BY <1>1, <1>2 DEF CommitDone, IInv, Types, Loops, AtCommit, AtPrivate,
     AtChain, AtFetch, AtStep, AtUnfold, AtResolve, AtCheck, AtLast,
     ChainPhases, chain_vars, ram_vars

LEMMA DisjointTypes ==
  ASSUME IInv, Disjoint
  PROVE  IInv'
<1>1. /\ file' = file /\ ncls' = ncls /\ nres' = nres /\ ncls \in Nat
      /\ file.n_c1_cls \in 0 .. ncls
  BY SameFile, FileClauses, FileChains DEF Disjoint, IInv, Types
<1>2. zero_hash' \in {"empty", "zeros", "nonzero"}
  BY PutType DEF Disjoint, IInv, Types
<1>3. /\ pc = "disjoint" /\ i < file.n_c1_cls
      /\ \/ pc' = "rejected" /\ i' = i
         \/ pc' = "disjoint" /\ i' = i + 1
      /\ UNCHANGED <<k, raw_formula, chain_vars, ram_vars>>
  BY DEF Disjoint
<1>4. Types'
  BY <1>1, <1>2, <1>3 DEF IInv, Types, Phases, Finished, chain_vars, ram_vars
<1>5. Loops'
  BY <1>1, <1>3, StoppedLoops DEF IInv, Types, Loops, AtCommit, AtPrivate,
     AtChain, AtFetch, AtStep, AtUnfold, AtResolve, AtCheck, AtLast,
     ChainPhases, chain_vars
<1> QED
  BY <1>4, <1>5 DEF IInv

LEMMA DisjointDoneTypes ==
  ASSUME IInv, DisjointDone
  PROVE  IInv'
<1>1. /\ file' = file /\ ncls' = ncls /\ nres' = nres /\ ncls \in Nat
      /\ file.n_c1_cls \in 0 .. ncls
  BY SameFile, FileClauses, FileChains DEF DisjointDone, IInv, Types
<1>2. /\ pc = "disjoint" /\ pc' \in {"sat", "rejected"}
      /\ i' = 0 /\ zero_hash' = "empty"
      /\ UNCHANGED <<k, raw_formula, chain_vars, ram_vars>>
  BY DEF DisjointDone, CompareDigests
<1>3. Types'
  BY <1>1, <1>2 DEF IInv, Types, Phases, Finished, chain_vars, ram_vars
<1>4. Loops'
  BY <1>1, <1>2, StoppedLoops DEF IInv, Types, Loops, AtCommit, AtPrivate,
     AtChain, AtFetch, AtStep, AtUnfold, AtResolve, AtCheck, AtLast,
     ChainPhases, chain_vars
<1> QED
  BY <1>3, <1>4 DEF IInv

LEMMA CheckSATTypes ==
  ASSUME IInv, CheckSAT
  PROVE  IInv'
<1>1. /\ file' = file /\ ncls' = ncls /\ nres' = nres /\ ncls \in Nat
      /\ file.n_c1_cls \in 0 .. ncls
  BY SameFile, FileClauses, FileChains DEF CheckSAT, IInv, Types
<1>2. zero_hash' \in {"empty", "zeros", "nonzero"}
  BY PutType DEF CheckSAT, IInv, Types
<1>3. Types'
  BY <1>1, <1>2 DEF CheckSAT, IInv, Types, Phases, chain_vars, ram_vars
<1> QED
  BY <1>1, <1>3 DEF CheckSAT, IInv, Types, Loops, AtCommit, AtPrivate,
     AtChain, AtFetch, AtStep, AtUnfold, AtResolve, AtCheck, AtLast,
     ChainPhases, chain_vars, ram_vars

LEMMA CheckSATDoneTypes ==
  ASSUME IInv, CheckSATDone
  PROVE  IInv'
<1>1. /\ file' = file /\ ncls' = ncls /\ nres' = nres /\ ncls \in Nat
      /\ nres \in 0 .. ncls
  BY SameFile, FileClauses, FileChains DEF CheckSATDone, IInv, Types
<1>2. clear_mem' = raw_formula /\ Len(raw_formula) = ncls
  BY DEF CheckSATDone, RAM!init, IInv, Loops, AtPrivate
<1>3. /\ pc' \in {"chain", "rejected"} /\ zero_hash' = "empty"
      /\ i' = ncls - nres /\ raw_formula' = <<>>
      /\ UNCHANGED <<k, chain_vars>>
  BY DEF CheckSATDone, CompareDigests
<1>4. Types'
  <2>1. <<>> \in Seq(Vectors)
    OBVIOUS
  <2> QED
    BY <1>1, <1>2, <1>3, <2>1 DEF IInv, Types, Phases, Finished, chain_vars
<1>5. Loops'
  BY <1>1, <1>2, <1>3, StoppedLoops DEF IInv, Types, Loops, AtCommit,
     AtPrivate, AtChain, AtFetch, AtStep, AtUnfold, AtResolve, AtCheck, AtLast,
     ChainPhases
<1> QED
  BY <1>4, <1>5 DEF IInv

LEMMA ChainStartTypes ==
  ASSUME IInv, ChainStart
  PROVE  IInv'
<1>1. /\ file' = file /\ i' = i /\ ncls' = ncls /\ nres' = nres
      /\ support' = support /\ pivots' = pivots
      /\ ncls \in Nat /\ nres \in 0 .. ncls
  BY SameFile, FileClauses, FileChains DEF ChainStart, IInv, Types
<1>2. /\ pc = "chain" /\ i < ncls
      /\ \/ pc' = "aborted"
         \/ pc' = "fetch" /\ Len(support) = Len(file.pivots[i + 1]) + 1
      /\ k' = 1 /\ resource' = <<>> /\ intermediate' = <<>>
      /\ UNCHANGED <<raw_formula, end_clause, zero_hash, ram_vars>>
  BY DEF ChainStart
<1>3. Len(pivots) = Len(file.pivots[i + 1]) + 1 /\ Len(pivots) \in Nat
  BY <1>2, ChainType DEF IInv
<1>4. Types'
  <2>1. <<>> \in Seq(Vectors)
    OBVIOUS
  <2> QED
    BY <1>1, <1>2, <2>1 DEF IInv, Types, Phases, Finished, ram_vars
<1>5. Loops'
  BY <1>1, <1>2, <1>3, StoppedLoops
  DEF IInv, Types, ram_vars, Loops, AtCommit, AtPrivate, AtChain, AtFetch,
    AtStep, AtUnfold, AtResolve, AtCheck, AtLast, ChainPhases
<1> QED
  BY <1>4, <1>5 DEF IInv

LEMMA FetchTypes ==
  ASSUME IInv, Fetch
  PROVE  IInv'
<1> DEFINE index == RAM!Committed(support[k])
<1>1. /\ file' = file /\ i' = i /\ ncls' = ncls /\ nres' = nres
      /\ support' = support /\ pivots' = pivots
      /\ ncls \in Nat /\ nres \in 0 .. ncls
  BY SameFile, FileClauses, FileChains DEF Fetch, IInv, Types
<1>2. /\ pc = "fetch" /\ k <= Len(support) /\ i < ncls
      /\ Len(support) = Len(pivots) /\ k = Len(resource) + 1
      /\ Len(clear_mem) = ncls /\ ncls - nres <= i
      /\ UNCHANGED <<raw_formula, end_clause, intermediate>>
  BY DEF Fetch, IInv, Loops, AtFetch, AtChain, ChainPhases
<1>3. support \in Seq(Nat) /\ pivots \in Seq(Int) /\ k \in Nat
  BY <1>2, ChainType DEF IInv, Types
<1>4. CASE index >= RAM!Committed(ptr)
  <2>1. pc' = "rejected" /\ UNCHANGED <<k, resource, zero_hash, ram_vars>>
    BY <1>4 DEF Fetch
  <2>2. Types'
    BY <1>1, <1>2, <2>1 DEF IInv, Types, Phases, Finished, ram_vars
  <2> QED
    BY <2>1, <2>2, StoppedLoops DEF IInv
<1>5. CASE ~ (index >= RAM!Committed(ptr))
  <2>1. /\ Read(index)
        /\ pc' \in {"rejected", "fetch"}
        /\ resource' = Append(resource, clear_mem[index + 1])
        /\ k' = k + 1
    BY <1>5 DEF Fetch
  <2>2. clear_mem' = clear_mem /\ zero_hash' \in {"empty", "zeros", "nonzero"}
    BY <2>1, ReadType DEF IInv
  <2>3. index + 1 \in 1 .. Len(clear_mem)
    <3>1. k \in 1 .. Len(support)
      BY <1>2, <1>3 DEF IInv, Types
    <3>2. support[k] \in Nat
      BY <1>3, <3>1
    <3>3. index \in Nat
      BY <3>2, IndexType
    <3>4. RAM!Committed(ptr) \in Nat /\ RAM!Committed(ptr) <= i
      BY PtrType DEF IInv
    <3> HIDE DEF index
    <3> QED
      BY <1>1, <1>2, <1>5, <3>3, <3>4 DEF IInv, Types
  <2>4. clear_mem[index + 1] \in Vectors
    BY <2>3, VectorsType DEF IInv, Types
  <2> HIDE DEF index
  <2>5. resource' \in Seq(Vectors) /\ Len(resource') = Len(resource) + 1
    BY <2>1, <2>4 DEF IInv, Types
  <2>6. Types'
    BY <1>1, <1>2, <1>3, <2>1, <2>2, <2>5 DEF IInv, Types, Phases, Finished
  <2>7. Loops'
    BY <1>1, <1>2, <1>3, <2>1, <2>2, <2>5, StoppedLoops
    DEF IInv, Types, Loops, AtCommit, AtPrivate, AtChain, AtFetch, AtStep,
      AtUnfold, AtResolve, AtCheck, AtLast, ChainPhases
  <2> QED
    BY <2>6, <2>7 DEF IInv
<1> QED
  BY <1>4, <1>5

LEMMA FetchEndTypes ==
  ASSUME IInv, FetchEnd
  PROVE  IInv'
<1> DEFINE index == RAM!Committed(ptr)
<1>1. /\ file' = file /\ i' = i /\ ncls' = ncls /\ nres' = nres
      /\ support' = support /\ pivots' = pivots
      /\ ncls \in Nat /\ nres \in 0 .. ncls
  BY SameFile, FileClauses, FileChains DEF FetchEnd, IInv, Types
<1>2. /\ pc = "fetch" /\ k > Len(support) /\ i < ncls
      /\ Len(support) = Len(pivots)
      /\ k = Len(resource) + 1 /\ k <= Len(support) + 1
      /\ Len(clear_mem) = ncls /\ ncls - nres <= i
      /\ UNCHANGED <<raw_formula, resource>>
  BY DEF FetchEnd, IInv, Loops, AtFetch, AtChain, ChainPhases
<1>3. /\ Len(support) \in Nat /\ pivots \in Seq(Int) /\ k \in Nat
      /\ Len(pivots) > 0
      /\ file.unfold => Len(support) # 1
  <2>1. /\ support \in Seq(Nat) /\ pivots \in Seq(Int)
        /\ Len(pivots) = Len(file.pivots[i + 1]) + 1
        /\ file.unfold => Len(support) # 1
        /\ i + 1 \in 1 .. ncls
    BY <1>2, ChainType DEF IInv
  <2>2. Len(file.pivots[i + 1]) \in Nat
    <3>1. file.pivots[i + 1] \in Seq(Int)
      BY <2>1, FileChains DEF IInv, Types
    <3> QED
      BY <3>1
  <2>3. Len(support) \in Nat /\ k \in Nat /\ Len(pivots) > 0
    BY <2>1, <2>2 DEF IInv, Types
  <2> QED
    BY <2>1, <2>3
<1>4. /\ Read(index)
      /\ end_clause' = clear_mem[index + 1]
      /\ intermediate' = <<resource[1]>>
      /\ k' = 2
      /\ \/ pc' = "rejected"
         \/ pc' = "unfold" /\ file.unfold
         \/ pc' = "resolve"
  BY DEF FetchEnd
<1>5. clear_mem' = clear_mem /\ zero_hash' \in {"empty", "zeros", "nonzero"}
  BY <1>4, ReadType DEF IInv
<1>6. index + 1 \in 1 .. Len(clear_mem)
  <2>1. index \in Nat /\ index <= i
    BY PtrType DEF IInv
  <2> HIDE DEF index
  <2> QED
    BY <1>1, <1>2, <2>1 DEF IInv, Types
<1>7. clear_mem[index + 1] \in Vectors
  BY <1>6, VectorsType DEF IInv, Types
<1> HIDE DEF index
<1>8. Len(resource) = Len(pivots) /\ resource[1] \in Vectors
  <2>1. Len(resource) = Len(pivots) /\ Len(resource) > 0
    BY <1>2, <1>3 DEF IInv, Types
  <2>2. 1 \in 1 .. Len(resource)
    BY <2>1 DEF IInv, Types
  <2> QED
    BY <2>1, <2>2, VectorsType DEF IInv, Types
<1>9. /\ intermediate' \in Seq(Vectors) /\ Len(intermediate') = 1
      /\ intermediate'[1] = resource[1]
  BY <1>4, <1>8
<1>10. Types'
  BY <1>1, <1>2, <1>4, <1>5, <1>7, <1>9 DEF IInv, Types, Phases, Finished
<1>11. pc' = "unfold" => Len(pivots) > 1
  <2>1. pc' = "unfold" => file.unfold
    BY <1>4
  <2>2. pc' = "unfold" => Len(support) # 1
    BY <1>3, <2>1, Zenon
  <2> QED
    BY <1>2, <1>3, <2>2
<1>12. Loops'
  BY <1>1, <1>2, <1>3, <1>4, <1>5, <1>7, <1>8, <1>9, <1>11, StoppedLoops
  DEF IInv, Types, Loops, AtCommit, AtPrivate, AtChain,
     AtFetch, AtStep, AtUnfold, AtResolve, AtCheck, AtLast, ChainPhases
<1> QED
  BY <1>10, <1>12 DEF IInv

(* What the three resolution phases have in common.                        *)
LEMMA StepFacts ==
  ASSUME IInv, pc \in {"unfold", "resolve", "check"}
  PROVE  /\ i < ncls /\ ncls \in Nat /\ i + 1 \in 1 .. ncls
         /\ pivots \in Seq(Int) /\ Len(pivots) \in Nat
         /\ Len(resource) = Len(pivots)
         /\ \A m \in 1 .. Len(pivots) :
              pivots[m] \in Int /\ resource[m] \in Seq(Int)
         /\ end_clause \in Vectors
         /\ Len(intermediate) > 0 /\ Len(intermediate) \in Nat
         /\ intermediate[1] = resource[1]
         /\ Len(clear_mem) = ncls /\ ncls - nres <= i
<1>1. /\ i < ncls /\ Len(resource) = Len(pivots) /\ end_clause \in Vectors
      /\ Len(intermediate) > 0 /\ intermediate[1] = resource[1]
      /\ Len(clear_mem) = ncls /\ ncls - nres <= i
  BY DEF IInv, Loops, AtStep, AtChain, ChainPhases
<1>2. pivots \in Seq(Int) /\ i + 1 \in 1 .. ncls
  BY <1>1, ChainType DEF IInv
<1>3. ncls \in Nat
  BY FileClauses DEF IInv, Types
<1>4. resource \in Seq(Vectors) /\ intermediate \in Seq(Vectors)
  BY DEF IInv, Types
<1>5. \A m \in 1 .. Len(pivots) :
        pivots[m] \in Int /\ resource[m] \in Seq(Int)
  BY <1>1, <1>2, <1>4, VectorsType
<1> QED
  BY <1>1, <1>2, <1>3, <1>4, <1>5

LEMMA UnfoldTypes ==
  ASSUME IInv, Unfold
  PROVE  IInv'
<1>1. /\ file' = file /\ i' = i /\ ncls' = ncls /\ nres' = nres
      /\ support' = support /\ pivots' = pivots
  BY SameFile DEF Unfold
<1>2. /\ pc = "unfold" /\ pc' \in {"aborted", "last"}
      /\ UNCHANGED <<k, raw_formula, chain_vars, ram_vars>>
  BY DEF Unfold
<1>3. zero_hash' \in {"empty", "zeros", "nonzero"}
  BY PutType DEF Unfold, check_xres, LiftPasses, IInv, Types
<1>4. i < ncls /\ end_clause \in Vectors
      /\ Len(clear_mem) = ncls /\ ncls - nres <= i
  BY <1>2, StepFacts
<1>5. Types'
  BY <1>1, <1>2, <1>3 DEF IInv, Types, Phases, Finished, chain_vars, ram_vars
<1>6. Loops'
  BY <1>1, <1>2, <1>4, StoppedLoops
  DEF chain_vars, ram_vars, Loops, AtCommit, AtPrivate, AtChain, AtFetch,
    AtStep, AtUnfold, AtResolve, AtCheck, AtLast, ChainPhases
<1> QED
  BY <1>5, <1>6 DEF IInv

LEMMA ResolveTypes ==
  ASSUME IInv, Resolve
  PROVE  IInv'
<1> DEFINE r == get_res_f2k(intermediate[k - 1], resource[k], pivots[k])
<1>1. /\ file' = file /\ i' = i /\ ncls' = ncls /\ nres' = nres
      /\ support' = support /\ pivots' = pivots
  BY SameFile DEF Resolve
<1>2. /\ pc = "resolve" /\ k <= Len(pivots) /\ k = Len(intermediate) + 1
      /\ UNCHANGED <<raw_formula, resource, end_clause, zero_hash, ram_vars>>
  BY DEF Resolve, IInv, Loops, AtResolve
<1>3. /\ i < ncls /\ end_clause \in Vectors /\ Len(pivots) \in Nat
      /\ Len(clear_mem) = ncls /\ ncls - nres <= i
      /\ Len(resource) = Len(pivots)
      /\ Len(intermediate) > 0 /\ Len(intermediate) \in Nat
      /\ intermediate[1] = resource[1]
  BY <1>2, StepFacts
<1>4. CASE res_overflows(intermediate[k - 1], resource[k], pivots[k])
  <2>1. pc' = "aborted" /\ UNCHANGED <<k, intermediate>>
    BY <1>4 DEF Resolve
  <2>2. Types'
    BY <1>1, <1>2, <2>1 DEF IInv, Types, Phases, Finished, ram_vars
  <2> QED
    BY <2>1, <2>2, StoppedLoops DEF IInv
<1>5. CASE ~ res_overflows(intermediate[k - 1], resource[k], pivots[k])
  <2>1. intermediate' = Append(intermediate, r) /\ k' = k + 1 /\ pc' = pc
    BY <1>5 DEF Resolve
  <2>2. k \in 1 .. Len(pivots) /\ k - 1 \in 1 .. Len(intermediate)
    BY <1>2, <1>3
  <2>3. intermediate[k - 1] \in Vectors /\ resource[k] \in Vectors
    BY <1>3, <2>2, VectorsType DEF IInv, Types
  <2>4. pivots[k] \in Int
    BY <1>2, <2>2, StepFacts
  <2>5. /\ intermediate[k - 1] \in Seq(Int) /\ resource[k] \in Seq(Int)
        /\ Lits(intermediate[k - 1]) \cup Lits(resource[k]) \subseteq Literals
    BY <2>3, VectorType
  <2>6. r \in Vectors
    BY <1>5, <2>4, <2>5, ResolventType DEF Vectors
  <2> HIDE DEF r
  <2>7. /\ intermediate' \in Seq(Vectors)
        /\ Len(intermediate') = Len(intermediate) + 1
        /\ intermediate'[1] = intermediate[1]
    BY <1>3, <2>1, <2>6 DEF IInv, Types
  <2>8. Types'
    BY <1>1, <1>2, <2>1, <2>7 DEF IInv, Types, ram_vars
  <2>9. Loops'
    BY <1>1, <1>2, <1>3, <2>1, <2>7
    DEF IInv, Types, ram_vars, Loops, AtCommit, AtPrivate, AtChain, AtFetch,
      AtStep, AtUnfold, AtResolve, AtCheck, AtLast, ChainPhases
  <2> QED
    BY <2>8, <2>9 DEF IInv
<1> QED
  BY <1>4, <1>5

LEMMA ResolveDoneTypes ==
  ASSUME IInv, ResolveDone
  PROVE  IInv'
<1>1. /\ file' = file /\ i' = i /\ ncls' = ncls /\ nres' = nres
      /\ support' = support /\ pivots' = pivots
  BY SameFile DEF ResolveDone
<1>2. /\ pc = "resolve" /\ k > Len(pivots) /\ k = Len(intermediate) + 1
      /\ k <= Len(pivots) + 1 /\ pc' = "check" /\ k' = 2
      /\ UNCHANGED <<raw_formula, chain_vars, zero_hash, ram_vars>>
  BY DEF ResolveDone, IInv, Loops, AtResolve
<1>3. /\ i < ncls /\ end_clause \in Vectors /\ Len(pivots) \in Nat
      /\ Len(clear_mem) = ncls /\ ncls - nres <= i
      /\ Len(resource) = Len(pivots)
      /\ Len(intermediate) > 0 /\ Len(intermediate) \in Nat
      /\ intermediate[1] = resource[1]
  BY <1>2, StepFacts
<1>4. Types'
  BY <1>1, <1>2 DEF IInv, Types, Phases, chain_vars, ram_vars
<1>5. Loops'
  BY <1>1, <1>2, <1>3
  DEF chain_vars, ram_vars, Loops, AtCommit, AtPrivate, AtChain, AtFetch,
    AtStep, AtUnfold, AtResolve, AtCheck, AtLast, ChainPhases
<1> QED
  BY <1>4, <1>5 DEF IInv

LEMMA CheckTypes ==
  ASSUME IInv, Check
  PROVE  IInv'
<1>1. /\ file' = file /\ i' = i /\ ncls' = ncls /\ nres' = nres
      /\ support' = support /\ pivots' = pivots
  BY SameFile DEF Check
<1>2. /\ pc = "check" /\ k <= Len(pivots)
      /\ k > 1 /\ k \in Nat /\ Len(intermediate) = Len(pivots)
      /\ \/ pc' = "aborted" /\ k' = k
         \/ pc' = "check" /\ k' = k + 1
      /\ UNCHANGED <<raw_formula, chain_vars, ram_vars>>
  BY DEF Check, IInv, Types, Loops, AtCheck
<1>3. /\ i < ncls /\ end_clause \in Vectors /\ Len(pivots) \in Nat
      /\ Len(clear_mem) = ncls /\ ncls - nres <= i
      /\ Len(resource) = Len(pivots)
      /\ Len(intermediate) > 0 /\ Len(intermediate) \in Nat
      /\ intermediate[1] = resource[1]
  BY <1>2, StepFacts
<1>4. zero_hash' \in {"empty", "zeros", "nonzero"}
  BY PutType DEF Check, check_xres, LiftPasses, IInv, Types
<1>5. Types'
  BY <1>1, <1>2, <1>4 DEF IInv, Types, Phases, Finished, chain_vars, ram_vars
<1>6. Loops'
  BY <1>1, <1>2, <1>3, StoppedLoops
  DEF chain_vars, ram_vars, Loops, AtCommit, AtPrivate, AtChain, AtFetch,
    AtStep, AtUnfold, AtResolve, AtCheck, AtLast, ChainPhases
<1> QED
  BY <1>5, <1>6 DEF IInv

LEMMA CheckDoneTypes ==
  ASSUME IInv, CheckDone
  PROVE  IInv'
<1>1. /\ file' = file /\ i' = i /\ ncls' = ncls /\ nres' = nres
      /\ support' = support /\ pivots' = pivots
  BY SameFile DEF CheckDone
<1>2. /\ pc = "check" /\ pc' = "last"
      /\ UNCHANGED <<k, raw_formula, chain_vars, ram_vars>>
  BY DEF CheckDone
<1>3. /\ i < ncls /\ end_clause \in Vectors
      /\ Len(clear_mem) = ncls /\ ncls - nres <= i
  BY <1>2, StepFacts
<1>4. zero_hash' \in {"empty", "zeros", "nonzero"}
  BY PutType DEF CheckDone, Equal, SameRoots, IInv, Types
<1>5. Types'
  BY <1>1, <1>2, <1>4 DEF IInv, Types, Phases, chain_vars, ram_vars
<1>6. Loops'
  BY <1>1, <1>2, <1>3
  DEF chain_vars, ram_vars, Loops, AtCommit, AtPrivate, AtChain, AtFetch,
    AtStep, AtUnfold, AtResolve, AtCheck, AtLast, ChainPhases
<1> QED
  BY <1>5, <1>6 DEF IInv

LEMMA ChainDoneTypes ==
  ASSUME IInv, ChainDone
  PROVE  IInv'
<1>1. /\ file' = file /\ ncls' = ncls /\ nres' = nres
      /\ ncls \in Nat /\ nres \in 0 .. ncls
  BY SameFile, FileClauses, FileChains DEF ChainDone, IInv, Types
<1>2. /\ pc = "last" /\ pc' = "chain" /\ i' = i + 1 /\ i < ncls
      /\ Len(clear_mem) = ncls /\ ncls - nres <= i
      /\ UNCHANGED <<k, raw_formula, chain_vars, ram_vars>>
  BY DEF ChainDone, IInv, Loops, AtLast, AtChain, ChainPhases
<1>3. zero_hash' \in {"empty", "zeros", "nonzero"}
  BY PutType DEF ChainDone, Equal, SameRoots, IInv, Types
<1>4. Types'
  BY <1>1, <1>2, <1>3 DEF IInv, Types, Phases, chain_vars, ram_vars
<1>5. Loops'
  BY <1>1, <1>2
  DEF IInv, Types, chain_vars, ram_vars, Loops, AtCommit, AtPrivate, AtChain,
    AtFetch, AtStep, AtUnfold, AtResolve, AtCheck, AtLast, ChainPhases
<1> QED
  BY <1>4, <1>5 DEF IInv

LEMMA LastCompareTypes ==
  ASSUME IInv, LastCompare
  PROVE  IInv'
<1>1. file' = file /\ i' = i /\ ncls' = ncls /\ nres' = nres
  BY SameFile DEF LastCompare
<1>2. /\ pc = "chain" /\ pc' \in {"final", "rejected"}
      /\ zero_hash' = "empty"
      /\ Len(clear_mem) = ncls /\ ncls - nres <= i
      /\ UNCHANGED <<k, raw_formula, chain_vars, ram_vars>>
  BY DEF LastCompare, CompareDigests, IInv, Loops, AtChain, ChainPhases
<1>3. Types'
  BY <1>1, <1>2 DEF IInv, Types, Phases, Finished, chain_vars, ram_vars
<1>4. Loops'
  BY <1>1, <1>2, StoppedLoops
  DEF chain_vars, ram_vars, Loops, AtCommit, AtPrivate, AtChain, AtFetch,
    AtStep, AtUnfold, AtResolve, AtCheck, AtLast, ChainPhases
<1> QED
  BY <1>3, <1>4 DEF IInv

LEMMA FinalCheckTypes ==
  ASSUME IInv, FinalCheck
  PROVE  IInv'
<1>1. file' = file /\ i' = i /\ ncls' = ncls /\ nres' = nres
  BY SameFile DEF FinalCheck
<1>2. /\ pc = "final" /\ pc' \in {"accepted", "rejected"}
      /\ zero_hash' \in {"zeros", "nonzero"}
      /\ clear_mem' = clear_mem
      /\ Len(clear_mem) = ncls /\ ncls - nres <= i
      /\ UNCHANGED <<k, raw_formula, chain_vars>>
  BY MemoryKept DEF FinalCheck, Put, IInv, Loops, AtChain, ChainPhases
<1>3. Types'
  BY <1>1, <1>2 DEF IInv, Types, Phases, Finished, chain_vars
<1>4. Loops'
  BY <1>1, <1>2, StoppedLoops
  DEF chain_vars, Loops, AtCommit, AtPrivate, AtChain, AtFetch, AtStep,
    AtUnfold, AtResolve, AtCheck, AtLast, ChainPhases
<1> QED
  BY <1>3, <1>4 DEF IInv

LEMMA StutterTypes ==
  ASSUME IInv, UNCHANGED vars
  PROVE  IInv'
<1>1. file' = file /\ i' = i /\ ncls' = ncls /\ nres' = nres
      /\ support' = support /\ pivots' = pivots
  BY SameFile DEF vars
<1>2. UNCHANGED <<pc, k, raw_formula, resource, end_clause, intermediate,
                  zero_hash, clear_mem>>
  BY DEF vars, chain_vars, ram_vars
<1>3. Types'
  BY <1>1, <1>2 DEF IInv, Types
<1>4. Loops'
  BY <1>1, <1>2 DEF IInv, Loops, AtCommit, AtPrivate, AtChain,
     AtFetch, AtStep, AtUnfold, AtResolve, AtCheck, AtLast, ChainPhases
<1> QED
  BY <1>3, <1>4 DEF IInv

LEMMA TypesStep == IInv /\ [Next]_vars => IInv'
<1> SUFFICES ASSUME IInv, [Next]_vars
             PROVE  IInv'
  OBVIOUS
<1> QED
  BY CommitTypes, CommitDoneTypes, DisjointTypes, DisjointDoneTypes,
     CheckSATTypes, CheckSATDoneTypes, ChainStartTypes, FetchTypes,
     FetchEndTypes, UnfoldTypes, ResolveTypes, ResolveDoneTypes, CheckTypes,
     CheckDoneTypes, ChainDoneTypes, LastCompareTypes, FinalCheckTypes,
     StutterTypes
  DEF Next

(* Every committed clause has DEGREE entries over the literals of the      *)
(* formula, and the loop of main stays within the file, whatever the proof *)
(* claims: no chain reads beyond the memory and no resolvent is wider.     *)
THEOREM TypeCorrect == Spec => []TypeOK
<1>1. IInv => TypeOK
  <2> SUFFICES ASSUME IInv
               PROVE  TypeOK
    OBVIOUS
  <2>1. FileType(file)
    BY RefutationAssumption DEF IInv, Types
  <2>2. ASSUME NEW s \in {raw_formula, resource, intermediate, clear_mem},
               NEW m \in DOMAIN s
        PROVE  Len(s[m]) = DEGREE /\ Lits(s[m]) \subseteq Literals
    <3>1. s \in Seq(Vectors)
      BY DEF IInv, Types
    <3>2. m \in 1 .. Len(s)
      BY <3>1
    <3>3. s[m] \in Vectors
      BY <3>1, <3>2
    <3> QED
      BY <3>3, VectorType
  <2>3. Lits(end_clause) \subseteq Literals
    <3>1. CASE end_clause = <<>>
      BY <3>1 DEF Lits, NonZero
    <3>2. CASE end_clause \in Vectors
      BY <3>2, VectorType
    <3> QED
      BY <3>1, <3>2 DEF IInv, Types
  <2> QED
    BY <2>1, <2>2, <2>3 DEF TypeOK, IInv, Types, Phases
<1> QED
  BY <1>1, InitTypes, TypesStep, PTL DEF Spec

-----------------------------------------------------------------------------
(* The theorems about module ClauseRAM, of the memory of this run.         *)
Memory == INSTANCE ClauseRAMProofs WITH Memories <- Seq(Seq(Int))

LEMMA MemoryAssumption ==
  /\ IndexRange \in Nat \ {0}
  /\ Seq(Seq(Int)) \subseteq Seq(Seq(Int))
BY RefutationAssumption

(* RAM and Memory are one module.                                          *)
LEMMA SameCardinality ==
  ASSUME NEW S
  PROVE  RAM!Cardinality(S) = Memory!Cardinality(S)
BY Zenon DEF RAM!Cardinality, Memory!Cardinality

LEMMA SameSort ==
  ASSUME NEW s
  PROVE  RAM!sort(s) = Memory!sort(s)
<1>1. ASSUME NEW j, NEW m
      PROVE  RAM!Precedes(s, j, m) <=> Memory!Precedes(s, j, m)
  BY DEF RAM!Precedes, Memory!Precedes, RAM!EntryLess, Memory!EntryLess,
         RAM!ClauseLess, Memory!ClauseLess
<1>2. ASSUME NEW m
      PROVE  RAM!Cardinality({j \in DOMAIN s : RAM!Precedes(s, j, m)}) =
             Memory!Cardinality({j \in DOMAIN s : Memory!Precedes(s, j, m)})
  <2>1. {j \in DOMAIN s : RAM!Precedes(s, j, m)} =
          {j \in DOMAIN s : Memory!Precedes(s, j, m)}
    BY <1>1
  <2> QED
    BY <2>1, SameCardinality, Zenon
<1>3. RAM!Rank(s) = Memory!Rank(s)
  BY <1>2 DEF RAM!Rank, Memory!Rank
<1> QED
  BY <1>3 DEF RAM!sort, Memory!sort

LEMMA SameCheck ==
  ASSUME NEW c, NEW r
  PROVE  RAM!CheckPasses(c, r) <=> Memory!CheckPasses(c, r)
<1>1. ASSUME NEW s
      PROVE  RAM!Ascending(s) <=> Memory!Ascending(s)
  BY DEF RAM!Ascending, Memory!Ascending, RAM!Adjacent, Memory!Adjacent
<1>2. ASSUME NEW s
      PROVE  RAM!check_set_euqality(s, r) <=> Memory!check_set_euqality(s, r)
  <2>1. ASSUME NEW t, NEW e
        PROVE  RAM!Cardinality(RAM!Occurrences(t, e)) =
                 Memory!Cardinality(Memory!Occurrences(t, e))
    BY SameCardinality DEF RAM!Occurrences, Memory!Occurrences
  <2> QED
    BY <2>1 DEF RAM!check_set_euqality, Memory!check_set_euqality
<1>3. RAM!sorted(c) = Memory!sorted(c)
  BY SameSort DEF RAM!sorted, Memory!sorted, RAM!Entry, Memory!Entry,
                  RAM!Committed, Memory!Committed
<1> QED
  BY <1>1, <1>2, <1>3 DEF RAM!CheckPasses, Memory!CheckPasses,
     RAM!BatchMin, Memory!BatchMin

LEMMA SameMemory ==
  /\ \A v : RAM!Committed(v) = Memory!Committed(v)
  /\ \A x : RAM!get(x) <=> Memory!get(x)
  /\ \A x : RAM!init(x) <=> Memory!init(x)
  /\ RAM!check <=> Memory!check
  /\ RAM!Fresh <=> Memory!Fresh
<1>1. RAM!n = Memory!n
  BY DEF RAM!n, Memory!n
<1>2. \A v, c : RAM!Entry(v, c) = Memory!Entry(v, c)
  BY DEF RAM!Entry, Memory!Entry
<1>3. \A c, r, m : RAM!CheckRecords(c, r, m) <=> Memory!CheckRecords(c, r, m)
  BY <1>1, SameCheck DEF RAM!CheckRecords, Memory!CheckRecords,
     RAM!resize, Memory!resize
<1>4. \A x : RAM!get(x) <=> Memory!get(x)
  BY <1>1, <1>2, <1>3 DEF RAM!get, Memory!get
<1>5. \A x : RAM!init(x) <=> Memory!init(x)
  BY <1>2 DEF RAM!init, Memory!init, RAM!CommittedInit, Memory!CommittedInit
<1>6. RAM!check <=> Memory!check
  BY <1>3 DEF RAM!check, Memory!check
<1>7. RAM!Fresh <=> Memory!Fresh
  BY DEF RAM!Fresh, Memory!Fresh
<1>8. \A v : RAM!Committed(v) = Memory!Committed(v)
  BY DEF RAM!Committed, Memory!Committed
<1> QED
  BY <1>4, <1>5, <1>6, <1>7, <1>8

(* The memory of a run, in each phase.                                     *)
MInv ==
  /\ Memory!IInv
  /\ pc \in {"commit", "disjoint", "sat"} => clear_mem = <<>> /\ ~ errored

LEMMA MemoryInit == Init => MInv
<1> SUFFICES ASSUME Init PROVE MInv
  OBVIOUS
<1>1. RAM!Fresh /\ clear_mem = <<>> /\ ~ errored
  BY DEF Init, RAM!Fresh
<1>2. Memory!Fresh
  BY <1>1, SameMemory, Zenon
<1>3. Memory!Init => Memory!IInv
  BY MemoryAssumption, Memory!InitInvariant, Zenon
<1> QED
  BY <1>1, <1>2, <1>3 DEF MInv, Memory!Init

LEMMA MemoryLoaded ==
  ASSUME Memory!IInv, clear_mem = <<>>, ~ errored,
         raw_formula \in Seq(Vectors), RAM!init(raw_formula)
  PROVE  Memory!IInv'
<1>1. \A c \in Vectors : c \in Seq(Int)
  BY VectorType
<1>2. raw_formula \in Seq(Seq(Int))
  <2> HIDE DEF Vectors
  <2> QED
    BY <1>1, WiderSequence
<1>3. Memory!init(raw_formula)
  BY SameMemory, Zenon
<1>4. Memory!Load
  BY <1>2, <1>3, Zenon DEF Memory!Load
<1>5. Memory!IInv /\ Memory!Load => Memory!IInv'
  BY MemoryAssumption, Memory!LoadInvariant, Zenon
<1> QED
  BY <1>4, <1>5, Zenon

LEMMA MemoryRead ==
  ASSUME Memory!IInv, NEW v \in 0 .. Len(clear_mem) - 1,
         RAM!get(RAM!Committed(v))
  PROVE  Memory!IInv' /\ Memory!CheckNeverFails'
<1>1. v \in 0 .. Memory!n - 1
  BY DEF Memory!n
<1>2. Memory!get(Memory!Committed(v))
  BY SameMemory, Zenon
<1>3. Memory!IInv'
  BY <1>1, <1>2, MemoryAssumption, Memory!GetInvariant, Zenon
<1>4. Memory!CheckNeverFails'
  BY <1>1, <1>2, MemoryAssumption, Memory!GetStep, Zenon
<1> QED
  BY <1>3, <1>4

LEMMA MemoryChecked ==
  ASSUME Memory!IInv, RAM!check
  PROVE  /\ Memory!IInv' /\ Memory!CheckNeverFails'
         /\ Len(clear_mem) > IndexRange => errored'
<1>1. Memory!check
  BY SameMemory, Zenon
<1>2. /\ ~ errored
      /\ Memory!CheckRecords(clear_access_record, access_record, step)
  BY <1>1 DEF Memory!check
<1>3. /\ Memory!TypeOK /\ Memory!Reads(clear_access_record)
      /\ clear_access_record \in Memory!Records
      /\ access_record \in Memory!Records
      /\ step \in Nat
  BY DEF Memory!IInv, Memory!TypeOK
<1>4. /\ Memory!Coherent(access_record)
      /\ Memory!Mirrors(clear_access_record, access_record)
  BY <1>2, MemoryAssumption, Memory!LogsOfState, Zenon
<1>5. Memory!IInv'
  BY <1>2, <1>3, <1>4, MemoryAssumption, Memory!CheckRecordsInvariant, Zenon
<1>6. Memory!CheckNeverFails' /\ (Memory!n > IndexRange => errored')
  BY <1>2, <1>3, <1>4, MemoryAssumption, Memory!CheckDecides, Zenon
<1> QED
  BY <1>5, <1>6 DEF Memory!n

LEMMA MemorySame ==
  ASSUME Memory!IInv, UNCHANGED ram_vars
  PROVE  Memory!IInv'
<1>1. Memory!IInv /\ [Memory!Next]_(Memory!vars) => Memory!IInv'
  BY MemoryAssumption, Memory!StepInvariant, Zenon
<1> QED
  BY <1>1 DEF ram_vars, Memory!vars

(* A read of check_chain is in bounds.                                     *)
LEMMA FetchIndex ==
  ASSUME IInv, Fetch, RAM!Committed(support[k]) < RAM!Committed(ptr)
  PROVE  /\ support[k] \in Nat /\ k \in 1 .. Len(support)
         /\ RAM!Committed(support[k]) \in 0 .. i - 1
         /\ RAM!Committed(support[k]) \in 0 .. Len(clear_mem) - 1
         /\ RAM!Committed(RAM!Committed(support[k])) =
              RAM!Committed(support[k])
<1> DEFINE index == RAM!Committed(support[k])
<1>1. /\ pc = "fetch" /\ k <= Len(support) /\ i < ncls /\ k \in Nat
      /\ k = Len(resource) + 1 /\ resource \in Seq(Vectors)
      /\ Len(clear_mem) = ncls /\ ncls \in Nat /\ i \in Nat
  BY FileClauses DEF Fetch, IInv, Types, Loops, AtFetch, AtChain, ChainPhases
<1>2. support \in Seq(Nat)
  BY <1>1, ChainType DEF IInv
<1>3. k \in 1 .. Len(support) /\ support[k] \in Nat
  BY <1>1, <1>2
<1>4. RAM!Committed(ptr) \in Nat /\ RAM!Committed(ptr) <= i
  BY PtrType DEF IInv
<1>5. index \in Nat
  BY <1>3, IndexType
<1>6. RAM!Committed(index) = index
  <2>1. IndexRange \in Nat /\ IndexRange > 0
    BY RefutationAssumption
  <2>2. support[k] % IndexRange \in 0 .. IndexRange - 1
    BY <1>3, <2>1
  <2>3. index = support[k] % IndexRange
    BY DEF RAM!Committed
  <2> HIDE DEF index
  <2>4. index < IndexRange
    BY <2>1, <2>2, <2>3
  <2> QED
    BY <1>5, <2>4, IndexType
<1>7. index < RAM!Committed(ptr)
  OBVIOUS
<1> HIDE DEF index
<1>8. index \in 0 .. i - 1 /\ index \in 0 .. Len(clear_mem) - 1
  BY <1>1, <1>4, <1>5, <1>7
<1> QED
  BY <1>3, <1>6, <1>8 DEF index

(* Each step is one of the memory or leaves it alone.                      *)
LEMMA MemoryStep ==
  ASSUME IInv, MInv, [Next]_vars
  PROVE  /\ MInv'
         /\ \/ UNCHANGED ram_vars
            \/ CheckSATDone
            \/ Memory!CheckNeverFails'
<1>1. CASE Commit \/ CommitDone \/ Disjoint \/ DisjointDone \/ CheckSAT
  <2>1. UNCHANGED ram_vars
    BY <1>1 DEF Commit, CommitDone, Disjoint, DisjointDone, CheckSAT
  <2>2. Memory!IInv'
    BY <2>1, MemorySame DEF MInv
  <2>3. pc \in {"commit", "disjoint", "sat"}
    BY <1>1 DEF Commit, CommitDone, Disjoint, DisjointDone, CheckSAT
  <2> QED
    BY <2>1, <2>2, <2>3 DEF MInv, ram_vars
<1>2. CASE CheckSATDone
  <2>1. /\ pc = "sat" /\ pc' \in {"chain", "rejected"}
        /\ RAM!init(raw_formula)
    BY <1>2 DEF CheckSATDone, CompareDigests
  <2>2. Memory!IInv'
    BY <2>1, MemoryLoaded DEF MInv, IInv, Types
  <2> QED
    BY <1>2, <2>1, <2>2 DEF MInv
<1>3. CASE ChainStart \/ Unfold \/ Resolve \/ ResolveDone \/ Check \/ CheckDone
             \/ ChainDone \/ LastCompare
  <2>1. /\ UNCHANGED ram_vars
        /\ pc' \notin {"commit", "disjoint", "sat"}
    BY <1>3 DEF ChainStart, Unfold, Resolve, ResolveDone, Check, CheckDone,
       ChainDone, LastCompare, CompareDigests
  <2>2. Memory!IInv'
    BY <2>1, MemorySame DEF MInv
  <2> QED
    BY <2>1, <2>2 DEF MInv
<1>4. CASE Fetch
  <2> DEFINE index == RAM!Committed(support[k])
  <2>1. pc' \in {"fetch", "rejected"}
    BY <1>4 DEF Fetch
  <2>2. CASE index >= RAM!Committed(ptr)
    <3>1. UNCHANGED ram_vars
      BY <1>4, <2>2 DEF Fetch
    <3>2. Memory!IInv'
      BY <3>1, MemorySame DEF MInv
    <3> QED
      BY <2>1, <3>1, <3>2 DEF MInv
  <2>3. CASE ~ (index >= RAM!Committed(ptr))
    <3>1. RAM!get(index)
      BY <1>4, <2>3 DEF Fetch, Read
    <3>2. RAM!Committed(support[k]) < RAM!Committed(ptr)
      <4>1. /\ pc = "fetch" /\ k <= Len(support) /\ i < ncls /\ k \in Nat
            /\ k = Len(resource) + 1 /\ resource \in Seq(Vectors)
        BY <1>4 DEF Fetch, IInv, Types, Loops, AtFetch
      <4>2. support \in Seq(Nat)
        BY <4>1, ChainType DEF IInv
      <4>3. support[k] \in Nat
        BY <4>1, <4>2
      <4>4. index \in Nat /\ RAM!Committed(ptr) \in Nat
        BY <4>3, IndexType, PtrType DEF IInv
      <4> HIDE DEF index
      <4>5. index < RAM!Committed(ptr)
        BY <2>3, <4>4
      <4> QED
        BY <4>5 DEF index
    <3>3. /\ index \in 0 .. Len(clear_mem) - 1
          /\ RAM!Committed(index) = index
      BY <1>4, <3>2, FetchIndex
    <3> HIDE DEF index
    <3>4. RAM!get(RAM!Committed(index))
      BY <3>1, <3>3
    <3>5. Memory!IInv' /\ Memory!CheckNeverFails'
      BY <3>3, <3>4, MemoryRead DEF MInv
    <3> QED
      BY <2>1, <3>5 DEF MInv
  <2> QED
    BY <2>2, <2>3
<1>5. CASE FetchEnd
  <2>1. /\ pc = "fetch" /\ RAM!get(RAM!Committed(ptr))
        /\ pc' \in {"unfold", "resolve", "rejected"}
    BY <1>5 DEF FetchEnd, Read
  <2>2. ptr \in 0 .. Len(clear_mem) - 1
    BY <2>1, FileClauses
    DEF ptr, IInv, Types, Loops, AtFetch, AtChain, ChainPhases
  <2>3. Memory!IInv' /\ Memory!CheckNeverFails'
    BY <2>1, <2>2, MemoryRead DEF MInv
  <2> QED
    BY <2>1, <2>3 DEF MInv
<1>6. CASE FinalCheck
  <2>1. RAM!check /\ pc' \in {"accepted", "rejected"}
    BY <1>6 DEF FinalCheck
  <2> QED
    BY <2>1, MemoryChecked DEF MInv
<1>7. CASE UNCHANGED vars
  <2>1. UNCHANGED ram_vars /\ pc' = pc
    BY <1>7 DEF vars
  <2>2. Memory!IInv'
    BY <2>1, MemorySame DEF MInv
  <2> QED
    BY <2>1, <2>2 DEF MInv, ram_vars
<1> QED
  BY <1>1, <1>2, <1>3, <1>4, <1>5, <1>6, <1>7 DEF Next

(* An index names every clause.                                            *)
Narrow == ncls <= IndexRange

(* A memory with clauses that no index can name is not accepted.           *)
LEMMA AcceptedNarrow ==
  ASSUME IInv, MInv, pc = "accepted" => Narrow, [Next]_vars
  PROVE  (pc = "accepted" => Narrow)'
<1> SUFFICES ASSUME pc' = "accepted"
             PROVE  Narrow'
  OBVIOUS
<1>1. CASE FinalCheck
  <2>1. /\ RAM!check /\ ~ errored' /\ file' = file /\ pc = "final"
    BY <1>1, Zenon DEF FinalCheck
  <2>2. ~ (Len(clear_mem) > IndexRange)
    BY <2>1, MemoryChecked DEF MInv
  <2>3. Len(clear_mem) = ncls /\ ncls \in Nat
    BY <2>1, FileClauses DEF IInv, Types, Loops, AtChain, ChainPhases
  <2> QED
    BY <2>1, <2>2, <2>3, SameFile, RefutationAssumption DEF Narrow
<1>2. CASE UNCHANGED vars
  BY <1>2 DEF vars, Narrow, ncls
<1>3. ~ (Commit \/ CommitDone \/ Disjoint \/ DisjointDone \/ CheckSAT
           \/ CheckSATDone \/ ChainStart \/ Fetch \/ FetchEnd \/ Unfold
           \/ Resolve \/ ResolveDone \/ Check \/ CheckDone \/ ChainDone
           \/ LastCompare)
  BY DEF Commit, CommitDone, Disjoint, DisjointDone, CheckSAT, CheckSATDone,
     ChainStart, Fetch, FetchEnd, Unfold, Resolve, ResolveDone, Check,
     CheckDone, ChainDone, LastCompare, CompareDigests
<1> QED
  BY <1>1, <1>2, <1>3 DEF Next

-----------------------------------------------------------------------------
(* Soundness.                                                              *)
(* The clauses of the formula, those in front of the derived ones.         *)
BaseOf(f) ==
  Len(f.clauses) - Cardinality({m \in DOMAIN f.pivots : f.pivots[m] # <<>>})

Model(f, a) == \A m \in 1 .. BaseOf(f) : Satisfies(a, f.clauses[m])

(* Every model of the formula satisfies c.                                 *)
Entailed(f, c) ==
  \A a \in [Vars -> BOOLEAN] : Model(f, a) => Satisfies(a, c)

Unsatisfiable(f) == \A a \in [Vars -> BOOLEAN] : ~ Model(f, a)

LEMMA BaseEntailed ==
  ASSUME NEW f, NEW m \in 1 .. BaseOf(f)
  PROVE  Entailed(f, f.clauses[m])
BY DEF Entailed, Model

LEMMA EntailedByLiterals ==
  ASSUME NEW f, NEW c, NEW d, Lits(c) = Lits(d), Entailed(f, c)
  PROVE  Entailed(f, d)
BY DEF Entailed, Satisfies

LEMMA EmptyEntailed ==
  ASSUME NEW f, NEW c, Lits(c) = {}, Entailed(f, c)
  PROVE  Unsatisfiable(f)
BY DEF Entailed, Satisfies, Unsatisfiable

LEMMA OppositeLiterals ==
  ASSUME NEW a, NEW l \in Int, l # 0, Holds(a, l)
  PROVE  ~ Holds(a, -l)
<1>1. CASE l > 0
  <2>1. ~ (-l > 0) /\ -(-l) = l
    BY <1>1
  <2>2. a[l]
    BY <1>1 DEF Holds
  <2>3. Holds(a, -l) <=> ~ a[-(-l)]
    BY <2>1, Zenon DEF Holds
  <2> QED
    BY <2>1, <2>2, <2>3, Zenon
<1>2. CASE ~ (l > 0)
  <2>1. -l > 0
    BY <1>2
  <2>2. ~ a[-l]
    BY <1>2, Zenon DEF Holds
  <2>3. Holds(a, -l) <=> a[-l]
    BY <2>1, Zenon DEF Holds
  <2> QED
    BY <2>2, <2>3, Zenon
<1> QED
  BY <1>1, <1>2

(* One passed resolution step carries entailment to the derived clause.    *)
LEMMA EntailedStep ==
  ASSUME NEW f, NEW c0 \in Seq(Int), NEW c1 \in Seq(Int),
         NEW cres \in Seq(Int), NEW p \in Int,
         check_xres(c0, c1, cres, p), Entailed(f, c0), Entailed(f, c1)
  PROVE  Entailed(f, cres)
<1> SUFFICES ASSUME NEW a \in [Vars -> BOOLEAN], Model(f, a)
             PROVE  Satisfies(a, cres)
  BY DEF Entailed
<1> DEFINE T == {l \in Int : Holds(a, l)}
<1>1. \A l \in T : l # 0 => -l \notin T
  BY OppositeLiterals
<1>2. ASSUME NEW c \in Seq(Int)
      PROVE  Satisfies(a, c) <=> Lits(c) \cap T # {}
  <2>1. Lits(c) \subseteq Int
    BY LitsType
  <2> QED
    BY <2>1 DEF Satisfies
<1>3. Satisfies(a, c0) /\ Satisfies(a, c1)
  BY DEF Entailed
<1>4. Lits(c0) \cap T # {} /\ Lits(c1) \cap T # {}
  BY <1>2, <1>3
<1> HIDE DEF T
<1>5. Lits(cres) \cap T # {}
  BY <1>1, <1>4, StepIsSound
<1> QED
  BY <1>2, <1>5

(* What the run has established in each phase, as long as no check failed. *)
Copied(s, f, last) == \A m \in 1 .. last : Lits(s[m]) = Lits(f.clauses[m])

AllEntailed(s, f, last) == \A m \in 1 .. last : Entailed(f, s[m])

CopiedWhenCommitted ==
  /\ pc = "commit" => Copied(raw_formula, file, i)
  /\ pc \in {"disjoint", "sat"} => Copied(raw_formula, file, ncls)
  /\ pc \in ChainPhases => Copied(clear_mem, file, ncls)

Sound == zero_hash # "nonzero"

DerivedSoFar ==
  pc \in ChainPhases \ {"final", "accepted"} /\ Sound =>
    AllEntailed(file.clauses, file, i)

AntecedentsEntailed ==
  pc \in {"fetch", "unfold", "resolve", "check"} /\ Sound =>
    AllEntailed(resource, file, Len(resource))

EndClause ==
  pc \in {"unfold", "resolve", "check", "last"} =>
    end_clause = clear_mem[i + 1]

ResolventsEntailed ==
  pc = "check" /\ Sound => AllEntailed(intermediate, file, k - 1)

EndEntailed == pc = "last" /\ Sound => Entailed(file, end_clause)

LastIsEmpty ==
  pc = "chain" /\ Sound /\ i = ncls /\ nres > 0 =>
    Lits(file.clauses[ncls]) = {}

Refuted == pc \in {"final", "accepted"} /\ nres > 0 => Unsatisfiable(file)

SInv ==
  /\ CopiedWhenCommitted /\ DerivedSoFar /\ AntecedentsEntailed /\ EndClause
  /\ ResolventsEntailed /\ EndEntailed /\ LastIsEmpty /\ Refuted

LEMMA InitSound == Init => SInv
BY DEF Init, Copied, SInv, CopiedWhenCommitted, DerivedSoFar,
     AntecedentsEntailed, EndClause, ResolventsEntailed, EndEntailed,
     LastIsEmpty, Refuted, Sound, ChainPhases

LEMMA StoppedSound == pc' \in {"rejected", "aborted"} => SInv'
BY DEF SInv, CopiedWhenCommitted, DerivedSoFar,
     AntecedentsEntailed, EndClause, ResolventsEntailed, EndEntailed,
     LastIsEmpty, Refuted, Sound, ChainPhases

(* The committed clauses are those of the file.                            *)
LEMMA CommitCopied ==
  ASSUME IInv, CopiedWhenCommitted, Commit, pc' = "commit"
  PROVE  Copied(raw_formula', file, i')
<1> DEFINE literals == padding(file.clauses[i + 1])
<1>1. /\ raw_formula' = Append(raw_formula, literals)
      /\ i' = i + 1 /\ i < ncls /\ pc = "commit"
  BY DEF Commit
<1>2. /\ ncls \in Nat /\ i \in Nat /\ i + 1 \in 1 .. ncls
      /\ Len(raw_formula) = i /\ raw_formula \in Seq(Vectors)
      /\ Copied(raw_formula, file, i)
  BY <1>1, FileClauses DEF IInv, Types, Loops, AtCommit, CopiedWhenCommitted
<1>3. Lits(literals) = Lits(file.clauses[i + 1])
  <2>1. file.clauses[i + 1] \in Seq(Int)
    BY <1>2, FileClauses DEF IInv, Types
  <2> QED
    BY <2>1, PaddingLiterals
<1> HIDE DEF literals
<1>4. /\ \A m \in 1 .. i : raw_formula'[m] = raw_formula[m]
      /\ raw_formula'[i + 1] = literals
  BY <1>1, <1>2
<1>5. \A m \in 1 .. i + 1 : m \in 1 .. i \/ m = i + 1
  BY <1>2
<1> QED
  BY <1>1, <1>2, <1>3, <1>4, <1>5 DEF Copied

LEMMA CopiedStep ==
  ASSUME IInv, CopiedWhenCommitted, [Next]_vars
  PROVE  CopiedWhenCommitted'
<1>1. file' = file /\ ncls' = ncls
  BY FileKept, SameFile
<1>2. CASE Commit
  <2>1. pc' \in {"commit", "aborted"}
    BY <1>2 DEF Commit
  <2> QED
    BY <1>1, <1>2, <2>1, CommitCopied DEF CopiedWhenCommitted, ChainPhases
<1>3. CASE CommitDone
  BY <1>1, <1>3 DEF CommitDone, CopiedWhenCommitted, ChainPhases
<1>4. CASE Disjoint \/ DisjointDone \/ CheckSAT
  <2>1. /\ pc \in {"disjoint", "sat"} /\ raw_formula' = raw_formula
        /\ pc' \in {"disjoint", "sat", "rejected"}
    BY <1>4 DEF Disjoint, DisjointDone, CheckSAT, CompareDigests
  <2> QED
    BY <1>1, <2>1 DEF CopiedWhenCommitted, ChainPhases
<1>5. CASE CheckSATDone
  <2>1. /\ pc = "sat" /\ pc' \in {"chain", "rejected"}
        /\ clear_mem' = raw_formula
    BY <1>5 DEF CheckSATDone, CompareDigests, RAM!init
  <2> QED
    BY <1>1, <2>1 DEF CopiedWhenCommitted, ChainPhases
<1>6. CASE Fetch \/ FetchEnd \/ FinalCheck
  <2>1. clear_mem' = clear_mem
    BY <1>6, MemoryKept DEF Fetch, FetchEnd, Read, FinalCheck, ram_vars
  <2>2. /\ pc \in ChainPhases
        /\ pc' \in ChainPhases \cup {"rejected"}
    BY <1>6 DEF Fetch, FetchEnd, FinalCheck, ChainPhases
  <2> QED
    BY <1>1, <2>1, <2>2 DEF CopiedWhenCommitted, ChainPhases
<1>7. CASE ChainStart \/ Unfold \/ Resolve \/ ResolveDone \/ Check \/ CheckDone
             \/ ChainDone \/ LastCompare
  <2>1. /\ clear_mem' = clear_mem /\ pc \in ChainPhases
        /\ pc' \in ChainPhases \cup {"rejected", "aborted"}
    BY <1>7 DEF ChainStart, Unfold, Resolve, ResolveDone, Check, CheckDone,
       ChainDone, LastCompare, CompareDigests, ChainPhases, ram_vars
  <2> QED
    BY <1>1, <2>1 DEF CopiedWhenCommitted, ChainPhases
<1>8. CASE UNCHANGED vars
  BY <1>1, <1>8 DEF vars, ram_vars, CopiedWhenCommitted
<1> QED
  BY <1>2, <1>3, <1>4, <1>5, <1>6, <1>7, <1>8 DEF Next

LEMMA CommitSound ==
  ASSUME IInv, SInv, Commit
  PROVE  SInv'
<1>1. CopiedWhenCommitted'
  BY CopiedStep DEF SInv, Next
<1>2. pc' \in {"commit", "aborted"}
  BY DEF Commit, IInv
<1> QED
  BY <1>1, <1>2 DEF SInv, DerivedSoFar, AntecedentsEntailed, EndClause,
     ResolventsEntailed, EndEntailed, LastIsEmpty, Refuted, ChainPhases

LEMMA CommitDoneSound ==
  ASSUME IInv, SInv, CommitDone
  PROVE  SInv'
<1>1. /\ file' = file /\ ncls' = ncls
  BY SameFile DEF CommitDone
<1>2. /\ pc = "commit" /\ i = ncls /\ pc' = "disjoint"
      /\ raw_formula' = raw_formula
  BY DEF CommitDone
<1> QED
  BY <1>1, <1>2 DEF SInv, CopiedWhenCommitted, DerivedSoFar,
     AntecedentsEntailed, EndClause, ResolventsEntailed, EndEntailed,
     LastIsEmpty, Refuted, Sound, ChainPhases

LEMMA PrivateSound ==
  ASSUME IInv, SInv, Disjoint \/ DisjointDone \/ CheckSAT
  PROVE  SInv'
<1>1. /\ file' = file /\ ncls' = ncls
  BY SameFile DEF Disjoint, DisjointDone, CheckSAT
<1>2. /\ pc \in {"disjoint", "sat"} /\ pc' \in {"disjoint", "sat", "rejected"}
      /\ raw_formula' = raw_formula
  BY DEF Disjoint, DisjointDone, CheckSAT, CompareDigests
<1> QED
  BY <1>1, <1>2 DEF SInv, CopiedWhenCommitted, DerivedSoFar,
     AntecedentsEntailed, EndClause, ResolventsEntailed, EndEntailed,
     LastIsEmpty, Refuted, Sound, ChainPhases

LEMMA CheckSATDoneSound ==
  ASSUME IInv, SInv, CheckSATDone
  PROVE  SInv'
<1>1. /\ file' = file /\ ncls' = ncls /\ nres' = nres
      /\ ncls \in Nat /\ nres \in 0 .. ncls
  BY SameFile, FileClauses, FileChains DEF CheckSATDone, IInv, Types
<1>2. /\ pc = "sat" /\ pc' \in {"chain", "rejected"}
      /\ i' = ncls - nres /\ clear_mem' = raw_formula
  BY DEF CheckSATDone, CompareDigests, RAM!init
<1>3. Copied(raw_formula, file, ncls)
  BY <1>2 DEF SInv, CopiedWhenCommitted
<1>4. ncls - nres = BaseOf(file)
  BY DEF ncls, nres, BaseOf
<1>5. AllEntailed(file.clauses, file, ncls - nres)
  BY <1>4, BaseEntailed DEF AllEntailed
<1>6. ncls - nres = ncls => ~ (nres > 0)
  BY <1>1
<1> QED
  BY <1>1, <1>2, <1>3, <1>5, <1>6 DEF SInv, CopiedWhenCommitted, DerivedSoFar,
     AntecedentsEntailed, EndClause, ResolventsEntailed, EndEntailed,
     LastIsEmpty, Refuted, Sound, ChainPhases

LEMMA ChainStartSound ==
  ASSUME IInv, SInv, ChainStart
  PROVE  SInv'
<1>1. /\ file' = file /\ i' = i /\ ncls' = ncls /\ nres' = nres
  BY SameFile DEF ChainStart
<1>2. /\ pc = "chain" /\ pc' \in {"fetch", "aborted"}
      /\ resource' = <<>>
      /\ UNCHANGED <<zero_hash, clear_mem>>
  BY DEF ChainStart, ram_vars
<1>3. AllEntailed(<<>>, file, 0)
  BY DEF AllEntailed
<1>4. Len(<<>>) = 0
  OBVIOUS
<1> QED
  BY <1>1, <1>2, <1>3, <1>4 DEF SInv, CopiedWhenCommitted, DerivedSoFar,
     AntecedentsEntailed, EndClause, ResolventsEntailed, EndEntailed,
     LastIsEmpty, Refuted, Sound, ChainPhases

LEMMA FetchSound ==
  ASSUME IInv, SInv, Fetch
  PROVE  SInv'
<1> DEFINE index == RAM!Committed(support[k])
<1>1. /\ file' = file /\ i' = i /\ ncls' = ncls /\ nres' = nres
      /\ ncls \in Nat
  BY SameFile, FileClauses DEF Fetch, IInv, Types
<1>2. CASE index >= RAM!Committed(ptr)
  BY <1>2, StoppedSound DEF Fetch
<1>3. CASE ~ (index >= RAM!Committed(ptr))
  <2>1. /\ Read(index) /\ pc = "fetch" /\ k <= Len(support)
        /\ pc' \in {"rejected", "fetch"}
        /\ resource' = Append(resource, clear_mem[index + 1])
    BY <1>3 DEF Fetch
  <2>2. clear_mem' = clear_mem /\ (Sound' => Sound)
    BY <2>1, ReadType DEF IInv, Sound
  <2>3. /\ i < ncls /\ i \in Nat /\ k = Len(resource) + 1 /\ k \in Nat
        /\ Len(clear_mem) = ncls
        /\ Copied(clear_mem, file, ncls)
        /\ resource \in Seq(Vectors) /\ clear_mem \in Seq(Vectors)
    BY <1>1, <2>1 DEF IInv, Types, Loops, AtFetch, AtChain, SInv,
       CopiedWhenCommitted, ChainPhases
  <2>4. index \in Nat /\ index < i
    <3>1. support \in Seq(Nat)
      BY <2>3, ChainType DEF IInv
    <3>2. k \in 1 .. Len(support)
      BY <2>1, <2>3, <3>1
    <3>3. support[k] \in Nat
      BY <3>1, <3>2
    <3>4. index \in Nat
      BY <3>3, IndexType
    <3>5. RAM!Committed(ptr) \in Nat /\ RAM!Committed(ptr) <= i
      BY PtrType DEF IInv
    <3> HIDE DEF index
    <3> QED
      BY <1>3, <2>3, <3>4, <3>5
  <2> HIDE DEF index
  <2>5. index + 1 \in 1 .. i /\ index + 1 \in 1 .. ncls
    BY <1>1, <2>3, <2>4
  <2>6. Sound => Entailed(file, clear_mem[index + 1])
    <3>1. Lits(file.clauses[index + 1]) = Lits(clear_mem[index + 1])
      BY <2>3, <2>5 DEF Copied
    <3>2. Sound => Entailed(file, file.clauses[index + 1])
      BY <2>1, <2>5 DEF SInv, DerivedSoFar, AllEntailed, ChainPhases
    <3> QED
      BY <3>1, <3>2, EntailedByLiterals
  <2>7. Sound => AllEntailed(resource, file, Len(resource))
    BY <2>1 DEF SInv, AntecedentsEntailed
  <2>8. clear_mem[index + 1] \in Vectors /\ Len(resource) \in Nat
    BY <2>3, <2>5
  <2>9. /\ Len(resource') = Len(resource) + 1
        /\ \A m \in 1 .. Len(resource) : resource'[m] = resource[m]
        /\ resource'[Len(resource) + 1] = clear_mem[index + 1]
    BY <2>1, <2>3, <2>8
  <2>10. \A m \in 1 .. Len(resource) + 1 :
           m \in 1 .. Len(resource) \/ m = Len(resource) + 1
    BY <2>8
  <2>11. Sound => AllEntailed(resource', file, Len(resource'))
    BY <2>6, <2>7, <2>9, <2>10 DEF AllEntailed
  <2> QED
    BY <1>1, <2>1, <2>2, <2>11 DEF SInv, CopiedWhenCommitted, DerivedSoFar,
     AntecedentsEntailed, EndClause, ResolventsEntailed, EndEntailed,
     LastIsEmpty, Refuted, Sound, ChainPhases
<1> QED
  BY <1>2, <1>3

LEMMA FetchEndSound ==
  ASSUME Narrow, IInv, SInv, FetchEnd
  PROVE  SInv'
<1>1. /\ file' = file /\ i' = i /\ ncls' = ncls /\ nres' = nres
      /\ ncls \in Nat
  BY SameFile, FileClauses DEF FetchEnd, IInv, Types
<1>2. /\ Read(RAM!Committed(ptr)) /\ pc = "fetch"
      /\ pc' \in {"rejected", "unfold", "resolve"}
      /\ end_clause' = clear_mem[RAM!Committed(ptr) + 1]
      /\ resource' = resource
  BY DEF FetchEnd
<1>3. clear_mem' = clear_mem /\ (Sound' => Sound)
  BY <1>2, ReadType DEF IInv, Sound
<1>4. RAM!Committed(ptr) = i
  <2>1. i < ncls /\ i \in Nat
    BY <1>1, <1>2 DEF IInv, Types, Loops, AtFetch
  <2>2. IndexRange \in Nat /\ ncls <= IndexRange
    BY RefutationAssumption DEF Narrow
  <2>3. i < IndexRange
    BY <1>1, <2>1, <2>2
  <2> QED
    BY <2>3, PtrType DEF IInv
<1> QED
  BY <1>1, <1>2, <1>3, <1>4 DEF SInv, CopiedWhenCommitted, DerivedSoFar,
     AntecedentsEntailed, EndClause, ResolventsEntailed, EndEntailed,
     LastIsEmpty, Refuted, Sound, ChainPhases

(* A clause of the first chain, its antecedents and the check of one step. *)
LEMMA UnfoldSound ==
  ASSUME IInv, SInv, Unfold
  PROVE  SInv'
<1>1. /\ file' = file /\ i' = i /\ ncls' = ncls /\ nres' = nres
  BY SameFile DEF Unfold
<1>2. /\ pc = "unfold" /\ pc' \in {"aborted", "last"}
      /\ UNCHANGED <<clear_mem, end_clause>>
  BY DEF Unfold, ram_vars, chain_vars
<1>3. CASE pc' = "aborted"
  BY <1>3, StoppedSound
<1>4. CASE pc' = "last"
  <2>1. zero_hash' = Put(zero_hash, check_xres(resource[1], resource[2],
                                               end_clause, pivots[2]))
    BY <1>4 DEF Unfold
  <2>2. Sound' => /\ Sound
                  /\ check_xres(resource[1], resource[2], end_clause,
                                pivots[2])
    BY <2>1 DEF Put, Sound
  <2>3. 1 \in 1 .. Len(pivots) /\ 2 \in 1 .. Len(pivots)
    BY <1>2, StepFacts DEF IInv, Loops, AtUnfold
  <2>4. /\ resource[1] \in Seq(Int) /\ resource[2] \in Seq(Int)
        /\ pivots[2] \in Int /\ Len(resource) = Len(pivots)
        /\ end_clause \in Seq(Int)
    BY <1>2, <2>3, StepFacts, VectorType
  <2>5. Sound => Entailed(file, resource[1]) /\ Entailed(file, resource[2])
    BY <1>2, <2>3, <2>4 DEF SInv, AntecedentsEntailed, AllEntailed
  <2>6. Sound' => Entailed(file, end_clause)
    BY <2>2, <2>4, <2>5, EntailedStep
  <2>7. Sound' => AllEntailed(file.clauses, file, i)
    BY <1>2, <2>2 DEF SInv, DerivedSoFar, ChainPhases
  <2> QED
    BY <1>1, <1>2, <1>4, <2>6, <2>7
    DEF SInv, CopiedWhenCommitted, DerivedSoFar, AntecedentsEntailed,
      EndClause, ResolventsEntailed, EndEntailed, LastIsEmpty, Refuted, Sound,
      ChainPhases
<1> QED
  BY <1>2, <1>3, <1>4

LEMMA ResolveSound ==
  ASSUME IInv, SInv, Resolve
  PROVE  SInv'
<1>1. /\ file' = file /\ i' = i /\ ncls' = ncls /\ nres' = nres
  BY SameFile DEF Resolve
<1>2. /\ pc = "resolve" /\ pc' \in {"aborted", "resolve"}
      /\ UNCHANGED <<clear_mem, end_clause, resource, zero_hash>>
  BY DEF Resolve, ram_vars
<1> QED
  BY <1>1, <1>2 DEF SInv, CopiedWhenCommitted, DerivedSoFar,
     AntecedentsEntailed, EndClause, ResolventsEntailed, EndEntailed,
     LastIsEmpty, Refuted, Sound, ChainPhases

LEMMA ResolveDoneSound ==
  ASSUME IInv, SInv, ResolveDone
  PROVE  SInv'
<1>1. /\ file' = file /\ i' = i /\ ncls' = ncls /\ nres' = nres
  BY SameFile DEF ResolveDone
<1>2. /\ pc = "resolve" /\ pc' = "check" /\ k' = 2
      /\ UNCHANGED <<clear_mem, end_clause, resource, intermediate, zero_hash>>
  BY DEF ResolveDone, ram_vars, chain_vars
<1>3. Sound => AllEntailed(intermediate, file, 1)
  <2>1. intermediate[1] = resource[1] /\ 1 \in 1 .. Len(resource)
    <3>1. pc \in {"unfold", "resolve", "check"}
      BY <1>2
    <3>2. Len(intermediate) > 0 /\ Len(intermediate) \in Nat
      BY <3>1, StepFacts
    <3>3. k = Len(intermediate) + 1 /\ k <= Len(pivots) + 1
      BY <1>2 DEF IInv, Loops, AtResolve
    <3>4. intermediate[1] = resource[1] /\ Len(resource) = Len(pivots)
          /\ Len(pivots) \in Nat
      BY <3>1, StepFacts
    <3> QED
      BY <3>2, <3>3, <3>4
  <2>2. Sound => Entailed(file, resource[1])
    BY <1>2, <2>1 DEF SInv, AntecedentsEntailed, AllEntailed
  <2> QED
    BY <2>1, <2>2 DEF AllEntailed
<1> QED
  BY <1>1, <1>2, <1>3 DEF SInv, CopiedWhenCommitted, DerivedSoFar,
     AntecedentsEntailed, EndClause, ResolventsEntailed, EndEntailed,
     LastIsEmpty, Refuted, Sound, ChainPhases

LEMMA CheckSound ==
  ASSUME IInv, SInv, Check
  PROVE  SInv'
<1>1. /\ file' = file /\ i' = i /\ ncls' = ncls /\ nres' = nres
  BY SameFile DEF Check
<1>2. /\ pc = "check" /\ pc' \in {"aborted", "check"}
      /\ UNCHANGED <<clear_mem, end_clause, resource, intermediate>>
  BY DEF Check, ram_vars, chain_vars
<1>3. CASE pc' = "aborted"
  BY <1>3, StoppedSound
<1>4. CASE pc' = "check"
  <2> DEFINE c0 == intermediate[k - 1]
             c1 == resource[k]
             cres == intermediate[k]
  <2>1. /\ zero_hash' = Put(zero_hash, check_xres(c0, c1, cres, pivots[k]))
        /\ k' = k + 1 /\ k <= Len(pivots)
    BY <1>4 DEF Check
  <2>2. Sound' => Sound /\ check_xres(c0, c1, cres, pivots[k])
    BY <2>1 DEF Put, Sound
  <2>3. k > 1 /\ k \in Nat /\ Len(intermediate) = Len(pivots)
    BY <1>2 DEF IInv, Types, Loops, AtCheck
  <2>4. /\ k \in 1 .. Len(pivots) /\ k - 1 \in 1 .. Len(pivots)
        /\ k - 1 \in 1 .. k - 1
        /\ \A m \in 1 .. k' - 1 : m \in 1 .. k - 1 \/ m = k
    BY <1>2, <2>1, <2>3, StepFacts
  <2>5. /\ c0 \in Seq(Int) /\ c1 \in Seq(Int) /\ cres \in Seq(Int)
        /\ pivots[k] \in Int /\ Len(resource) = Len(pivots)
    <3>1. c1 \in Seq(Int) /\ pivots[k] \in Int /\ Len(resource) = Len(pivots)
      BY <1>2, <2>4, StepFacts
    <3>2. c0 \in Seq(Int) /\ cres \in Seq(Int)
      BY <2>3, <2>4, VectorsType DEF IInv, Types
    <3> QED
      BY <3>1, <3>2
  <2>6. Sound => Entailed(file, c0) /\ Entailed(file, c1)
    BY <1>2, <2>4, <2>5 DEF SInv, AntecedentsEntailed, ResolventsEntailed,
       AllEntailed
  <2>7. Sound' => Entailed(file, cres)
    <3> HIDE DEF c0, c1, cres
    <3> QED
      BY <2>2, <2>5, <2>6, EntailedStep
  <2>8. Sound' => AllEntailed(intermediate, file, k' - 1)
    <3>1. Sound => AllEntailed(intermediate, file, k - 1)
      BY <1>2 DEF SInv, ResolventsEntailed
    <3> QED
      BY <2>2, <2>4, <2>7, <3>1 DEF AllEntailed
  <2>9. Sound' => AllEntailed(file.clauses, file, i)
    BY <1>2, <2>2 DEF SInv, DerivedSoFar, ChainPhases
  <2>10. Sound' => AllEntailed(resource, file, Len(resource))
    BY <1>2, <2>2 DEF SInv, AntecedentsEntailed
  <2> QED
    BY <1>1, <1>2, <1>4, <2>8, <2>9, <2>10
    DEF SInv, CopiedWhenCommitted, DerivedSoFar, AntecedentsEntailed,
      EndClause, ResolventsEntailed, EndEntailed, LastIsEmpty, Refuted, Sound,
      ChainPhases
<1> QED
  BY <1>2, <1>3, <1>4

LEMMA CheckDoneSound ==
  ASSUME IInv, SInv, CheckDone
  PROVE  SInv'
<1> DEFINE last == intermediate[Len(intermediate)]
<1>1. /\ file' = file /\ i' = i /\ ncls' = ncls /\ nres' = nres
  BY SameFile DEF CheckDone
<1>2. /\ pc = "check" /\ pc' = "last" /\ k > Len(pivots)
      /\ UNCHANGED <<clear_mem, end_clause, resource, intermediate>>
      /\ zero_hash' = Put(zero_hash, Equal(end_clause, last))
  BY DEF CheckDone, ram_vars, chain_vars
<1>3. Sound' => Sound /\ Equal(end_clause, last)
  BY <1>2 DEF Put, Sound
<1>4. /\ k \in Nat /\ k <= Len(pivots) + 1
      /\ Len(intermediate) = Len(pivots)
  BY <1>2 DEF IInv, Types, Loops, AtCheck
<1>5. /\ Len(intermediate) \in 1 .. k - 1
      /\ Len(intermediate) \in 1 .. Len(intermediate)
      /\ end_clause \in Vectors
  BY <1>2, <1>4, StepFacts
<1>6. end_clause \in Seq(Int) /\ last \in Seq(Int)
  BY <1>5, VectorType, VectorsType DEF IInv, Types
<1>7. Sound => Entailed(file, last)
  BY <1>2, <1>5 DEF SInv, ResolventsEntailed, AllEntailed
<1> HIDE DEF last
<1>8. Sound' => Entailed(file, end_clause)
  BY <1>3, <1>6, <1>7, EqualLiterals, EntailedByLiterals
<1>9. Sound' => AllEntailed(file.clauses, file, i)
  BY <1>2, <1>3 DEF SInv, DerivedSoFar, ChainPhases
<1> QED
  BY <1>1, <1>2, <1>8, <1>9 DEF SInv, CopiedWhenCommitted, DerivedSoFar,
     AntecedentsEntailed, EndClause, ResolventsEntailed, EndEntailed,
     LastIsEmpty, Refuted, Sound, ChainPhases

(* The derived clause joins the entailed ones; the last one is empty.      *)
LEMMA ChainDoneSound ==
  ASSUME IInv, SInv, ChainDone
  PROVE  SInv'
<1>1. /\ file' = file /\ ncls' = ncls /\ nres' = nres /\ ncls \in Nat
  BY SameFile, FileClauses DEF ChainDone, IInv, Types
<1>2. /\ pc = "last" /\ pc' = "chain" /\ i' = i + 1
      /\ UNCHANGED <<clear_mem, end_clause>>
      /\ zero_hash' = IF i = ncls - 1
                      THEN Put(zero_hash, Equal(end_clause, <<0>>))
                      ELSE zero_hash
  BY DEF ChainDone, ram_vars, chain_vars
<1>3. Sound' => Sound
  BY <1>2 DEF Put, Sound
<1>4. /\ i < ncls /\ i \in Nat /\ i + 1 \in 1 .. ncls
      /\ end_clause \in Seq(Int)
  BY <1>1, <1>2, VectorType DEF IInv, Types, Loops, AtLast
<1>5. Lits(end_clause) = Lits(file.clauses[i + 1])
  BY <1>2, <1>4 DEF SInv, EndClause, CopiedWhenCommitted, Copied, ChainPhases
<1>6. Sound => Entailed(file, file.clauses[i + 1])
  BY <1>2, <1>5, EntailedByLiterals DEF SInv, EndEntailed
<1>7. Sound => AllEntailed(file.clauses, file, i)
  BY <1>2 DEF SInv, DerivedSoFar, ChainPhases
<1>8. \A m \in 1 .. i + 1 : m \in 1 .. i \/ m = i + 1
  BY <1>4
<1>9. Sound => AllEntailed(file.clauses, file, i + 1)
  BY <1>6, <1>7, <1>8 DEF AllEntailed
<1>10. Sound' /\ i + 1 = ncls => Lits(file.clauses[ncls]) = {}
  <2> SUFFICES ASSUME Sound', i + 1 = ncls
               PROVE  Lits(file.clauses[ncls]) = {}
    OBVIOUS
  <2>1. i = ncls - 1
    BY <1>1, <1>4
  <2>2. Equal(end_clause, <<0>>)
    BY <1>2, <2>1 DEF Put, Sound
  <2>3. Lits(end_clause) = {}
    BY <1>4, <2>2, EmptyClause, EqualLiterals
  <2> QED
    BY <1>5, <2>3
<1> QED
  BY <1>1, <1>2, <1>3, <1>9, <1>10 DEF SInv, CopiedWhenCommitted, DerivedSoFar,
     AntecedentsEntailed, EndClause, ResolventsEntailed, EndEntailed,
     LastIsEmpty, Refuted, Sound, ChainPhases

(* The comparison after the last chain: the empty clause is entailed.      *)
LEMMA LastCompareSound ==
  ASSUME IInv, SInv, LastCompare
  PROVE  SInv'
<1>1. /\ file' = file /\ i' = i /\ ncls' = ncls /\ nres' = nres
      /\ ncls \in Nat /\ nres \in 0 .. ncls
  BY SameFile, FileClauses, FileChains DEF LastCompare, IInv, Types
<1>2. /\ pc = "chain" /\ pc' \in {"final", "rejected"} /\ i = ncls
      /\ clear_mem' = clear_mem
      /\ pc' = "final" => Put(zero_hash, TRUE) = "zeros"
  BY DEF LastCompare, CompareDigests, ram_vars
<1>3. CASE pc' = "rejected"
  BY <1>3, StoppedSound
<1>4. CASE pc' = "final"
  <2>1. Sound
    BY <1>2, <1>4 DEF Put, Sound
  <2>2. nres > 0 => Unsatisfiable(file)
    <3> SUFFICES ASSUME nres > 0
                 PROVE  Unsatisfiable(file)
      OBVIOUS
    <3>1. ncls \in 1 .. ncls
      BY <1>1
    <3>2. Entailed(file, file.clauses[ncls])
      BY <1>2, <2>1, <3>1 DEF SInv, DerivedSoFar, AllEntailed, ChainPhases
    <3>3. Lits(file.clauses[ncls]) = {}
      BY <1>2, <2>1 DEF SInv, LastIsEmpty
    <3> QED
      BY <3>2, <3>3, EmptyEntailed
  <2> QED
    BY <1>1, <1>2, <1>4, <2>2 DEF SInv, CopiedWhenCommitted, DerivedSoFar,
     AntecedentsEntailed, EndClause, ResolventsEntailed, EndEntailed,
     LastIsEmpty, Refuted, Sound, ChainPhases
<1> QED
  BY <1>2, <1>3, <1>4

LEMMA FinalCheckSound ==
  ASSUME IInv, SInv, FinalCheck
  PROVE  SInv'
<1>1. file' = file /\ ncls' = ncls /\ nres' = nres
  BY SameFile DEF FinalCheck
<1>2. /\ pc = "final" /\ pc' \in {"accepted", "rejected"}
      /\ clear_mem' = clear_mem
  BY MemoryKept DEF FinalCheck
<1> QED
  BY <1>1, <1>2 DEF SInv, CopiedWhenCommitted, DerivedSoFar,
     AntecedentsEntailed, EndClause, ResolventsEntailed, EndEntailed,
     LastIsEmpty, Refuted, Sound, ChainPhases

LEMMA StutterSound ==
  ASSUME SInv, UNCHANGED vars
  PROVE  SInv'
<1>1. file' = file /\ i' = i /\ ncls' = ncls /\ nres' = nres
  BY SameFile DEF vars
<1>2. UNCHANGED <<pc, k, raw_formula, resource, end_clause, intermediate,
                  zero_hash, clear_mem>>
  BY DEF vars, chain_vars, ram_vars
<1> QED
  BY <1>1, <1>2 DEF SInv, CopiedWhenCommitted, DerivedSoFar,
     AntecedentsEntailed, EndClause, ResolventsEntailed, EndEntailed,
     LastIsEmpty, Refuted, Sound, ChainPhases

LEMMA SoundStep ==
  ASSUME Narrow, IInv, SInv, [Next]_vars
  PROVE  SInv'
BY CommitSound, CommitDoneSound, PrivateSound, CheckSATDoneSound,
   ChainStartSound, FetchSound, FetchEndSound, UnfoldSound, ResolveSound,
   ResolveDoneSound, CheckSound, CheckDoneSound, ChainDoneSound,
   LastCompareSound, FinalCheckSound, StutterSound
DEF Next

(* No run of check_chain accepts a refutation of a satisfiable formula:    *)
(* for every DEGREE, every set of variables and whatever derived clauses,  *)
(* antecedents and pivots a file claims.  In a file of more clauses than   *)
(* an index can name a chain may read other clauses than it claims; such a *)
(* file is refused by the final check of the memory, if not before.        *)
THEOREM AcceptanceSound == Spec => []SoundAcceptance
<1> DEFINE J == /\ IInv /\ MInv
                /\ Narrow => SInv
                /\ pc = "accepted" => Narrow
<1>1. J => SoundAcceptance
  <2> SUFFICES ASSUME SInv, pc = "accepted", nres > 0,
                      NEW a \in [Vars -> BOOLEAN]
               PROVE  \E m \in 1 .. ncls - nres :
                        ~ Satisfies(a, file.clauses[m])
    BY DEF SoundAcceptance
  <2>1. Unsatisfiable(file)
    BY DEF SInv, Refuted
  <2>2. BaseOf(file) = ncls - nres
    BY DEF BaseOf, ncls, nres
  <2> QED
    BY <2>1, <2>2 DEF Unsatisfiable, Model
<1>2. Init => J
  BY InitTypes, MemoryInit, InitSound DEF Init
<1>3. J /\ [Next]_vars => J'
  <2> SUFFICES ASSUME J, [Next]_vars
               PROVE  J'
    OBVIOUS
  <2>1. IInv' /\ MInv'
    BY TypesStep, MemoryStep
  <2>2. Narrow' = Narrow
    BY FileKept, SameFile DEF Narrow
  <2>3. Narrow => SInv'
    BY SoundStep
  <2>4. (pc = "accepted" => Narrow)'
    BY AcceptedNarrow
  <2> QED
    BY <2>1, <2>2, <2>3, <2>4
<1> QED
  BY <1>1, <1>2, <1>3, PTL DEF Spec

-----------------------------------------------------------------------------
(* A nonzero block stays in the accumulator until a comparison rejects:    *)
(* Put keeps it, and no other operation touches the accumulator.           *)
THEOREM FailuresAreKept == Spec => FailedCheckRejects
<1>1. ASSUME [Next]_vars, zero_hash = "nonzero", zero_hash' # "nonzero"
      PROVE  pc' = "rejected"
  <2>1. \A b : Put(zero_hash, b) = "nonzero"
    BY <1>1 DEF Put
  <2>2. ~ Put(zero_hash, TRUE) = "zeros"
    BY <2>1
  <2>3. CASE DisjointDone \/ CheckSATDone \/ LastCompare
    BY <2>2, <2>3 DEF DisjointDone, CheckSATDone, LastCompare, CompareDigests
  <2>4. ~ (Disjoint \/ CheckSAT \/ Fetch \/ FetchEnd \/ Unfold \/ Check
             \/ CheckDone \/ ChainDone \/ FinalCheck)
    BY <1>1, <2>1 DEF Disjoint, CheckSAT, Read, Fetch, FetchEnd, Unfold, Check,
       CheckDone, ChainDone, FinalCheck
  <2>5. ~ (Commit \/ CommitDone \/ ChainStart \/ Resolve \/ ResolveDone
             \/ UNCHANGED vars)
    BY <1>1 DEF Commit, CommitDone, ChainStart, Resolve, ResolveDone, vars
  <2> QED
    BY <1>1, <2>3, <2>4, <2>5 DEF Next
<1> QED
  BY <1>1, PTL DEF Spec, FailedCheckRejects

-----------------------------------------------------------------------------
(* The private part: the first n_c1_cls clauses.                           *)
Disjointness(last) ==
  \A m \in 1 .. last : \A l \in pub_lits : ~ EvaluatesToZero(raw_formula[m], l)

Satisfaction(last) ==
  \A m \in 1 .. last :
    \E l \in file.witness : EvaluatesToZero(raw_formula[m], l)

PrivatePart ==
  \A m \in 1 .. file.n_c1_cls :
    /\ \A l \in Lits(file.clauses[m]) : {l, -l} \cap file.pub = {}
    /\ Lits(file.clauses[m]) \cap file.witness # {}

PInv ==
  /\ pc = "disjoint" => Disjointness(i)
  /\ pc = "sat" => Disjointness(file.n_c1_cls)
  /\ pc = "sat" /\ Sound /\ file.witness # {} => Satisfaction(i)
  /\ pc \in ChainPhases /\ file.witness # {} => PrivatePart

LEMMA SamePrivate ==
  ASSUME file' = file
  PROVE  /\ PrivatePart' = PrivatePart /\ pub_lits' = pub_lits
         /\ raw_formula' = raw_formula =>
              \A m : /\ Disjointness(m) => Disjointness(m)'
                     /\ Satisfaction(m) => Satisfaction(m)'
BY DEF PrivatePart, pub_lits, Disjointness, Satisfaction

LEMMA DisjointPrivate ==
  ASSUME IInv, PInv, Disjoint
  PROVE  PInv'
<1>1. /\ file' = file /\ raw_formula' = raw_formula /\ pc = "disjoint"
      /\ \/ pc' = "rejected"
         \/ /\ pc' = "disjoint" /\ i' = i + 1
            /\ \A l \in pub_lits : ~ EvaluatesToZero(raw_formula[i + 1], l)
  BY DEF Disjoint
<1>2. i \in Nat /\ Disjointness(i)
  BY <1>1, FileClauses DEF IInv, Types, PInv
<1>3. pub_lits' = pub_lits
  BY <1>1 DEF pub_lits
<1>4. \A m \in 1 .. i + 1 : m \in 1 .. i \/ m = i + 1
  BY <1>2
<1>5. pc' = "disjoint" => (Disjointness(i))'
  BY <1>1, <1>2, <1>3, <1>4 DEF Disjointness
<1> QED
  BY <1>1, <1>5 DEF PInv, ChainPhases

LEMMA CheckSATPrivate ==
  ASSUME IInv, PInv, CheckSAT
  PROVE  PInv'
<1>1. /\ file' = file /\ raw_formula' = raw_formula
      /\ pc = "sat" /\ pc' = "sat" /\ i' = i + 1
      /\ Sound' /\ file.witness # {} =>
           /\ Sound
           /\ \E l \in file.witness : EvaluatesToZero(raw_formula[i + 1], l)
  BY DEF CheckSAT, Put, Sound
<1>2. i \in Nat /\ Disjointness(file.n_c1_cls)
  BY <1>1, FileClauses DEF IInv, Types, PInv
<1>3. \A m \in 1 .. i + 1 : m \in 1 .. i \/ m = i + 1
  BY <1>2
<1>4. Sound' /\ file.witness # {} => Satisfaction(i)
  BY <1>1 DEF PInv
<1>5. Sound' /\ file.witness # {} => Satisfaction(i + 1)
  BY <1>1, <1>3, <1>4 DEF Satisfaction
<1>6. /\ (Disjointness(file.n_c1_cls))'
      /\ Satisfaction(i + 1) => (Satisfaction(i))'
  BY <1>1, <1>2 DEF Disjointness, Satisfaction, pub_lits
<1> QED
  BY <1>1, <1>5, <1>6 DEF PInv, ChainPhases

LEMMA CheckSATDonePrivate ==
  ASSUME IInv, CopiedWhenCommitted, PInv, CheckSATDone
  PROVE  PInv'
<1>1. /\ file' = file /\ pc = "sat" /\ i = file.n_c1_cls
      /\ pc' = "rejected" \/ (pc' = "chain" /\ Put(zero_hash, TRUE) = "zeros")
  BY DEF CheckSATDone, CompareDigests
<1>2. CASE pc' = "rejected"
  BY <1>2 DEF PInv, ChainPhases
<1>3. CASE pc' = "chain"
  <2>1. Sound
    BY <1>1, <1>3 DEF Put, Sound
  <2>2. ASSUME file.witness # {}, NEW m \in 1 .. file.n_c1_cls
        PROVE  /\ \A l \in Lits(file.clauses[m]) : {l, -l} \cap file.pub = {}
               /\ Lits(file.clauses[m]) \cap file.witness # {}
    <3> DEFINE c == raw_formula[m]
    <3>1. m \in 1 .. ncls /\ file \in Files
      BY FileClauses, FileChains DEF IInv, Types
    <3>2. Lits(c) = Lits(file.clauses[m])
      BY <1>1, <3>1 DEF CopiedWhenCommitted, Copied
    <3>3. PICK w \in file.witness : EvaluatesToZero(c, w)
      BY <1>1, <2>1, <2>2 DEF PInv, Satisfaction
    <3>4. w \in Lits(c) /\ ~ Truncated(c)
      BY <3>3 DEF EvaluatesToZero
    <3>5. \A l \in pub_lits : ~ EvaluatesToZero(c, l)
      BY <1>1 DEF PInv, Disjointness
    <3>6. \A l \in pub_lits : l \notin Lits(c)
      BY <3>4, <3>5 DEF EvaluatesToZero
    <3>7. Lits(c) \subseteq Literals
      BY <3>1, <3>2, FileClauses
    <3> HIDE DEF c
    <3>8. \A l \in Lits(c) : l \notin file.pub /\ -l \notin file.pub
      BY <3>6, <3>7 DEF pub_lits
    <3> QED
      BY <3>2, <3>4, <3>8
  <2>3. file.witness # {} => PrivatePart'
    BY <1>1, <2>2 DEF PrivatePart
  <2> QED
    BY <1>1, <1>3, <2>3 DEF PInv
<1> QED
  BY <1>1, <1>2, <1>3

LEMMA PrivateStep ==
  ASSUME IInv, CopiedWhenCommitted, PInv, [Next]_vars
  PROVE  PInv'
<1>1. CASE Commit \/ CommitDone
  <2>1. pc' \in {"commit", "aborted"} \/ (pc' = "disjoint" /\ i' = 0)
    BY <1>1 DEF Commit, CommitDone
  <2>2. (Disjointness(0))'
    BY DEF Disjointness
  <2> QED
    BY <2>1, <2>2 DEF PInv, ChainPhases, Disjointness
<1>2. CASE DisjointDone
  <2>1. /\ file' = file /\ raw_formula' = raw_formula /\ pc = "disjoint"
        /\ i = file.n_c1_cls /\ i' = 0 /\ pc' \in {"sat", "rejected"}
    BY <1>2 DEF DisjointDone, CompareDigests
  <2>2. (Disjointness(file.n_c1_cls))'
    BY <2>1 DEF PInv, Disjointness, pub_lits
  <2> QED
    BY <2>1, <2>2 DEF PInv, ChainPhases, Satisfaction
<1>3. CASE ChainStart \/ Fetch \/ FetchEnd \/ Unfold \/ Resolve \/ ResolveDone
             \/ Check \/ CheckDone \/ ChainDone \/ LastCompare \/ FinalCheck
  <2>1. /\ file' = file /\ pc \in ChainPhases
        /\ pc' \in ChainPhases \cup {"rejected", "aborted"}
    BY <1>3 DEF ChainStart, Fetch, FetchEnd, Unfold, Resolve, ResolveDone,
       Check, CheckDone, ChainDone, LastCompare, CompareDigests, FinalCheck,
       ChainPhases
  <2>2. file.witness # {} => PrivatePart'
    BY <2>1, SamePrivate DEF PInv
  <2> QED
    BY <2>1, <2>2 DEF PInv, ChainPhases
<1>4. CASE UNCHANGED vars
  <2>1. UNCHANGED <<file, raw_formula, pc, i, zero_hash>>
    BY <1>4 DEF vars
  <2> QED
    BY <2>1 DEF PInv, PrivatePart, Disjointness, Satisfaction, pub_lits, Sound
<1> QED
  BY <1>1, <1>2, <1>3, <1>4, DisjointPrivate, CheckSATPrivate,
     CheckSATDonePrivate DEF Next

(* In an accepted run the private clauses avoid the public variables, in   *)
(* either sign, and the witness satisfies each of them: the disjointness   *)
(* check is blind to a clause whose leading coefficient was lost, but the  *)
(* satisfaction check leaves no such clause.                               *)
THEOREM PrivateClausesChecked == Spec => []PrivatePartAccepted
<1> DEFINE J == IInv /\ CopiedWhenCommitted /\ PInv
<1>1. J => PrivatePartAccepted
  BY DEF PInv, PrivatePart, PrivatePartAccepted, ChainPhases
<1>2. Init => J
  BY InitTypes, InitSound DEF Init, SInv, PInv, ChainPhases
<1>3. J /\ [Next]_vars => J'
  BY TypesStep, CopiedStep, PrivateStep
<1> QED
  BY <1>1, <1>2, <1>3, PTL DEF Spec

-----------------------------------------------------------------------------
(* The abstract accumulator: comparisons passed and verdict in each phase. *)
ZeroCompared ==
  CASE pc \in {"commit", "disjoint", "rejected", "aborted"} -> 0
    [] pc = "sat" -> 1
    [] pc \in {"final", "accepted"} -> 3
    [] OTHER -> 2

ZeroVerdict ==
  CASE pc = "accepted" -> "accepted"
    [] pc \in {"rejected", "aborted"} -> "stopped"
    [] OTHER -> "running"

LoopPhases == {"chain", "fetch", "unfold", "resolve", "check", "last"}

LEMMA ZeroValues ==
  /\ pc \in {"commit", "disjoint"} => ZeroCompared = 0
  /\ pc = "sat" => ZeroCompared = 1
  /\ pc \in LoopPhases => ZeroCompared = 2
  /\ pc \in {"final", "accepted"} => ZeroCompared = 3
  /\ pc \in {"rejected", "aborted"} => ZeroCompared = 0
  /\ pc = "accepted" => ZeroVerdict = "accepted"
  /\ pc \in {"rejected", "aborted"} => ZeroVerdict = "stopped"
  /\ pc \in Phases \ Finished => ZeroVerdict = "running"
BY DEF ZeroCompared, ZeroVerdict, LoopPhases, Phases, Finished

LEMMA ZeroUnfolded ==
  /\ Zero!Init <=> zero_hash = "empty" /\ ZeroCompared = 0
                     /\ ZeroVerdict = "running"
  /\ Zero!vars = <<zero_hash, ZeroCompared, ZeroVerdict>>
BY DEF Zero!Init, Zero!vars, ZeroCompared, ZeroVerdict

(* Zero!Next in terms of the two values.                                   *)
LEMMA ZeroStops ==
  ASSUME zero_hash' \in {"empty", "zeros", "nonzero"},
         pc \in Phases \ Finished, pc' \in {"rejected", "aborted"}
  PROVE  Zero!Next
<1>1. ZeroVerdict = "running" /\ ZeroVerdict' = "stopped" /\ ZeroCompared' = 0
  BY ZeroValues DEF ZeroVerdict, ZeroCompared, Phases, Finished
<1> QED
  BY <1>1 DEF Zero!Next, Zero!Stop, Zero!Hashes, Zero!Comparisons,
     ZeroVerdict, ZeroCompared

LEMMA ZeroCollects ==
  ASSUME zero_hash \in {"empty", "zeros", "nonzero"}, NEW b \in BOOLEAN,
         zero_hash' = Put(zero_hash, b),
         pc \in Phases \ Finished, pc' \in Phases \ Finished,
         ZeroCompared' = ZeroCompared
  PROVE  Zero!Next
<1>1. ZeroVerdict = "running" /\ ZeroVerdict' = "running"
  BY ZeroValues DEF ZeroVerdict, Phases, Finished
<1>2. zero_hash' \in IF zero_hash = "nonzero" THEN {"nonzero"}
                     ELSE {"zeros", "nonzero"}
  BY DEF Put
<1> QED
  BY <1>1, <1>2 DEF Zero!Next, Zero!Collect, ZeroVerdict, ZeroCompared

LEMMA ZeroCompares ==
  ASSUME zero_hash # "nonzero", zero_hash' = "empty",
         pc \in Phases \ Finished, pc' \in Phases \ Finished,
         ZeroCompared' = ZeroCompared + 1
  PROVE  Zero!Next
<1>1. ZeroVerdict = "running" /\ ZeroVerdict' = "running"
  BY ZeroValues DEF ZeroVerdict, Phases, Finished
<1> QED
  BY <1>1 DEF Zero!Next, Zero!Compare, ZeroVerdict, ZeroCompared

LEMMA ZeroStutters ==
  ASSUME zero_hash' = zero_hash,
         pc \in Phases \ Finished, pc' \in Phases \ Finished,
         ZeroCompared' = ZeroCompared
  PROVE  UNCHANGED Zero!vars
<1>1. ZeroVerdict = "running" /\ ZeroVerdict' = "running"
  BY ZeroValues DEF ZeroVerdict, Phases, Finished
<1> QED
  BY <1>1, ZeroUnfolded DEF Zero!vars, ZeroVerdict, ZeroCompared

LEMMA ZeroAccepts ==
  ASSUME zero_hash' \in {"empty", "zeros", "nonzero"},
         pc = "final", pc' = "accepted"
  PROVE  Zero!Next
<1>1. /\ ZeroVerdict = "running" /\ ZeroVerdict' = "accepted"
      /\ ZeroCompared = 3 /\ ZeroCompared' = 3
  BY ZeroValues DEF ZeroVerdict, ZeroCompared
<1> QED
  BY <1>1 DEF Zero!Next, Zero!Accept, Zero!Hashes, Zero!Comparisons,
     ZeroVerdict, ZeroCompared

LEMMA ZeroStep ==
  ASSUME IInv, IInv', Next
  PROVE  Zero!Next \/ UNCHANGED Zero!vars
<1> USE DEF LoopPhases, Finished
<1>1. /\ zero_hash \in {"empty", "zeros", "nonzero"} /\ pc \in Phases
      /\ zero_hash' \in {"empty", "zeros", "nonzero"} /\ pc' \in Phases
  BY DEF IInv, Types
<1>2. pc \notin Finished
  BY DEF Next, Commit, CommitDone, Disjoint, DisjointDone, CheckSAT,
     CheckSATDone, ChainStart, Fetch, FetchEnd, Unfold, Resolve, ResolveDone,
     Check, CheckDone, ChainDone, LastCompare, FinalCheck
<1>3. CASE pc' \in {"rejected", "aborted"}
  BY <1>1, <1>2, <1>3, ZeroStops
<1>4. CASE pc' = "accepted"
  <2>1. pc = "final"
    BY <1>4 DEF Next, Commit, CommitDone, Disjoint, DisjointDone, CheckSAT,
       CheckSATDone, ChainStart, Fetch, FetchEnd, Unfold, Resolve,
       ResolveDone, Check, CheckDone, ChainDone, LastCompare, FinalCheck,
       CompareDigests
  <2> QED
    BY <1>1, <1>4, <2>1, ZeroAccepts
<1>5. CASE pc' \notin Finished
  <2>1. CASE Commit \/ CommitDone \/ ChainStart \/ Resolve \/ ResolveDone
    <3>1. /\ zero_hash' = zero_hash
          /\ \/ pc \in {"commit", "disjoint"} /\ pc' \in {"commit", "disjoint"}
             \/ pc \in LoopPhases /\ pc' \in LoopPhases
      BY <1>5, <2>1 DEF Commit, CommitDone, ChainStart, Resolve, ResolveDone
    <3>2. ZeroCompared' = ZeroCompared
      BY <3>1 DEF ZeroCompared
    <3> QED
      BY <1>1, <1>2, <1>5, <3>1, <3>2, ZeroStutters
  <2>2. CASE Disjoint \/ CheckSAT \/ Fetch \/ FetchEnd \/ Unfold \/ Check
               \/ CheckDone \/ ChainDone
    <3>1. \/ zero_hash' = zero_hash
          \/ \E b \in BOOLEAN : zero_hash' = Put(zero_hash, b)
      BY <1>5, <2>2 DEF Disjoint, CheckSAT, Read, Fetch, FetchEnd, Unfold,
         Check, CheckDone, ChainDone, check_xres, Equal, LiftPasses, SameRoots
    <3>2. \/ pc = "disjoint" /\ pc' = "disjoint"
          \/ pc = "sat" /\ pc' = "sat"
          \/ pc \in LoopPhases /\ pc' \in LoopPhases
      BY <1>5, <2>2 DEF Disjoint, CheckSAT, Fetch, FetchEnd, Unfold, Check,
         CheckDone, ChainDone
    <3>3. ZeroCompared' = ZeroCompared
      BY <3>2 DEF ZeroCompared
    <3> QED
      BY <1>1, <1>2, <1>5, <3>1, <3>3, ZeroStutters, ZeroCollects
  <2>3. CASE DisjointDone \/ CheckSATDone \/ LastCompare
    <3>1. /\ zero_hash' = "empty" /\ Put(zero_hash, TRUE) = "zeros"
          /\ \/ pc = "disjoint" /\ pc' = "sat"
             \/ pc = "sat" /\ pc' = "chain"
             \/ pc = "chain" /\ pc' = "final"
      BY <1>5, <2>3 DEF DisjointDone, CheckSATDone, LastCompare, CompareDigests
    <3>2. zero_hash # "nonzero"
      BY <3>1 DEF Put
    <3>3. ZeroCompared' = ZeroCompared + 1
      BY <3>1 DEF ZeroCompared
    <3> QED
      BY <1>1, <1>2, <1>5, <3>1, <3>2, <3>3, ZeroCompares
  <2>4. ~ FinalCheck
    BY <1>5, Zenon DEF FinalCheck
  <2> QED
    BY <2>1, <2>2, <2>3, <2>4 DEF Next
<1> QED
  BY <1>1, <1>3, <1>4, <1>5

(* The run implements the abstract accumulator: nothing nonzero passes a   *)
(* comparison of digests, no block escapes the comparison that follows it, *)
(* and only a run that has passed all three comparisons is accepted.       *)
THEOREM ImplementsZeroCheck == Spec => KeepsZeroCheck
<1>1. Init => Zero!Init
  BY ZeroUnfolded, ZeroValues DEF Init, Phases, Finished
<1>2. IInv /\ IInv' /\ [Next]_vars => [Zero!Next]_(Zero!vars)
  <2>1. vars' = vars => UNCHANGED Zero!vars
    BY ZeroUnfolded DEF vars, Zero!vars
  <2> QED
    BY <2>1, ZeroStep
<1>3. Spec => []IInv
  BY InitTypes, TypesStep, PTL DEF Spec
<1> QED
  BY <1>1, <1>2, <1>3, PTL DEF Spec, KeepsZeroCheck, Zero!Spec

-----------------------------------------------------------------------------
(* Completeness.                                                           *)
(* A literal of the j-th resolvent comes from an antecedent and is not     *)
(* resolved away afterwards.                                               *)
Survives(s, p, j, l) ==
  \E m \in 1 .. j + 1 :
    /\ l \in LitsOf(s[m])
    /\ m > 1 => l # -p[m - 1]
    /\ \A t \in m .. j : l # p[t]

LEMMA SurvivesStart ==
  ASSUME NEW s, NEW p, NEW l
  PROVE  Survives(s, p, 0, l) <=> l \in LitsOf(s[1])
BY DEF Survives

LEMMA SurvivesStep ==
  ASSUME NEW s, NEW p, NEW l, NEW j \in Nat, j > 0
  PROVE  Survives(s, p, j, l) <=>
           \/ Survives(s, p, j - 1, l) /\ l # p[j]
           \/ l \in LitsOf(s[j + 1]) /\ l # -p[j]
<1> DEFINE From(m, h) == /\ l \in LitsOf(s[m])
                         /\ m > 1 => l # -p[m - 1]
                         /\ \A t \in m .. h : l # p[t]
<1>1. ASSUME NEW m \in 1 .. j
      PROVE  From(m, j) <=> From(m, j - 1) /\ l # p[j]
  <2>1. m .. j = (m .. j - 1) \cup {j}
    OBVIOUS
  <2>2. (\A t \in m .. j : l # p[t]) <=>
          (\A t \in m .. j - 1 : l # p[t]) /\ l # p[j]
    BY <2>1
  <2> QED
    BY <2>2
<1>2. From(j + 1, j) <=> l \in LitsOf(s[j + 1]) /\ l # -p[j]
  <2>1. j + 1 .. j = {} /\ j + 1 > 1 /\ j + 1 - 1 = j
    OBVIOUS
  <2> QED
    BY <2>1
<1>3. /\ Survives(s, p, j, l) <=> \E m \in 1 .. j + 1 : From(m, j)
      /\ Survives(s, p, j - 1, l) <=> \E m \in 1 .. j : From(m, j - 1)
  <2>1. j - 1 + 1 = j
    OBVIOUS
  <2> QED
    BY <2>1 DEF Survives
<1>4. 1 .. j + 1 = (1 .. j) \cup {j + 1}
  OBVIOUS
<1> HIDE DEF From
<1> QED
  BY <1>1, <1>2, <1>3, <1>4

(* The recursion of Resolvents has a solution, so each resolvent is        *)
(* computed from the one before.                                           *)
LEMMA ResolventsAre ==
  ASSUME NEW s, NEW p, Len(p) \in Nat
  PROVE  LET r == Resolvents(s, p)
         IN  /\ DOMAIN r = 0 .. Len(p)
             /\ r[0] = LitsOf(s[1])
             /\ \A j \in 1 .. Len(p) :
                  r[j] = (r[j - 1] \ {p[j]}) \cup (LitsOf(s[j + 1]) \ {-p[j]})
<1> DEFINE L == UNION {LitsOf(s[m]) : m \in 1 .. Len(p) + 1}
           F(r) == [j \in 0 .. Len(p) |->
                      IF j = 0 THEN LitsOf(s[1])
                      ELSE (r[j - 1] \ {p[j]})
                             \cup (LitsOf(s[j + 1]) \ {-p[j]})]
           w == [j \in 0 .. Len(p) |-> {l \in L : Survives(s, p, j, l)}]
<1>1. w = F(w)
  <2>1. ASSUME NEW j \in 0 .. Len(p), NEW l
        PROVE  l \in w[j] <=> Survives(s, p, j, l)
    <3>1. Survives(s, p, j, l) => l \in L
      BY DEF Survives
    <3> QED
      BY <3>1
  <2>2. w[0] = LitsOf(s[1])
    BY <2>1, SurvivesStart
  <2>3. ASSUME NEW j \in 1 .. Len(p)
        PROVE  w[j] = (w[j - 1] \ {p[j]}) \cup (LitsOf(s[j + 1]) \ {-p[j]})
    <3>1. j \in Nat /\ j > 0 /\ j \in 0 .. Len(p) /\ j - 1 \in 0 .. Len(p)
      OBVIOUS
    <3> HIDE DEF w
    <3> QED
      BY <2>1, <3>1, SurvivesStep
  <2>4. ASSUME NEW j \in 0 .. Len(p)
        PROVE  w[j] = IF j = 0 THEN LitsOf(s[1])
                      ELSE (w[j - 1] \ {p[j]})
                             \cup (LitsOf(s[j + 1]) \ {-p[j]})
    <3>1. CASE j = 0
      BY <2>2, <3>1
    <3>2. CASE j # 0
      <4>1. j \in 1 .. Len(p)
        BY <3>2
      <4> HIDE DEF w
      <4> QED
        BY <2>3, <3>2, <4>1
    <3> QED
      BY <3>1, <3>2
  <2>5. w = [j \in 0 .. Len(p) |-> w[j]]
    OBVIOUS
  <2> HIDE DEF w
  <2> QED
    BY <2>4, <2>5
<1>2. Resolvents(s, p) = CHOOSE r : r = F(r)
  BY DEF Resolvents
<1> HIDE DEF w, F
<1>3. Resolvents(s, p) = F(Resolvents(s, p))
  BY <1>1, <1>2
<1> QED
  BY <1>3 DEF F

-----------------------------------------------------------------------------
(* A correct refutation narrower than DEGREE.                              *)
Valid == ValidFile(DEGREE - 1)

LEMMA ValidClauses ==
  ASSUME file \in Files, Valid
  PROVE  \A m \in 1 .. ncls :
           /\ file.clauses[m] \in Seq(Int)
           /\ Distinct(file.clauses[m])
           /\ Len(file.clauses[m]) < DEGREE
           /\ Cardinality(Lits(file.clauses[m])) < DEGREE
<1> SUFFICES ASSUME NEW m \in 1 .. ncls
             PROVE  /\ file.clauses[m] \in Seq(Int)
                    /\ Distinct(file.clauses[m])
                    /\ Len(file.clauses[m]) < DEGREE
                    /\ Cardinality(Lits(file.clauses[m])) < DEGREE
  OBVIOUS
<1> DEFINE c == file.clauses[m]
<1>1. c \in Seq(Int)
  BY FileClauses
<1>2. Distinct(c) /\ Len(c) <= DEGREE - 1
  BY DEF Valid, ValidFile
<1> HIDE DEF c
<1>3. /\ Len(c) \in Nat /\ DEGREE \in Nat
      /\ Width(c) \in Nat /\ Width(c) <= Len(c)
      /\ Cardinality(Lits(c)) \in Nat /\ Cardinality(Lits(c)) <= Width(c)
  BY <1>1, WidthType, DegreeAssumption
<1>4. Len(c) < DEGREE /\ Cardinality(Lits(c)) < DEGREE
  BY <1>2, <1>3
<1> QED
  BY <1>1, <1>2, <1>4 DEF c

(* The chain of a derived clause.                                          *)
LEMMA ValidChains ==
  ASSUME file \in Files, Valid, NEW index \in ncls - nres .. ncls - 1
  PROVE  LET s == file.supports[index + 1]
             p == file.pivots[index + 1]
             r == Resolvents(s, p)
         IN  /\ s \in Seq(Nat) /\ p \in Seq(Int)
             /\ Len(p) \in Nat /\ Len(p) >= 1 /\ Len(s) = Len(p) + 1
             /\ \A m \in 1 .. Len(s) : s[m] \in 0 .. index - 1
             /\ \A j \in 1 .. Len(p) :
                  /\ p[j] \in Int /\ p[j] # 0
                  /\ p[j] \in r[j - 1] /\ -p[j] \in LitsOf(s[j + 1])
                  /\ r[j] = (r[j - 1] \ {p[j]})
                              \cup (LitsOf(s[j + 1]) \ {-p[j]})
             /\ r[0] = LitsOf(s[1])
             /\ \A j \in 0 .. Len(p) : Cardinality(r[j]) <= DEGREE - 1
             /\ IF file.unfold
                THEN Len(p) = 1 /\ r[1] \subseteq LitsOf(index)
                ELSE r[Len(p)] = LitsOf(index)
<1> DEFINE s == file.supports[index + 1]
           p == file.pivots[index + 1]
           r == Resolvents(s, p)
<1>1. ncls \in Nat /\ nres \in 0 .. ncls /\ index + 1 \in 1 .. ncls
      /\ index \in Nat
  <2>1. ncls \in Nat /\ nres \in 0 .. ncls
    BY FileClauses, FileChains
  <2> QED
    BY <2>1
<1>2. s \in Seq(Nat) /\ p \in Seq(Literals) /\ p \in Seq(Int)
  <2>1. s \in Seq(Nat) /\ p \in Seq(Int)
    BY <1>1, FileChains
  <2>2. file.pivots \in Seq(Seq(Literals)) /\ Len(file.pivots) = ncls
    BY RefutationAssumption DEF FileType, ncls
  <2>3. p \in Seq(Literals)
    BY <1>1, <2>2
  <2> QED
    BY <2>1, <2>3
<1>3. ValidChain(index, DEGREE - 1)
  BY DEF Valid, ValidFile
<1>4. /\ p # <<>> /\ Len(s) = Len(p) + 1
      /\ file.unfold => Len(s) = 2
      /\ \A m \in DOMAIN s : s[m] < index
      /\ \A j \in DOMAIN p : p[j] \in r[j - 1] /\ -p[j] \in LitsOf(s[j + 1])
      /\ \A j \in DOMAIN r : Cardinality(r[j]) <= DEGREE - 1
      /\ IF file.unfold THEN r[1] \subseteq LitsOf(index)
         ELSE r[Len(p)] = LitsOf(index)
  BY <1>3 DEF ValidChain
<1>5. /\ Len(p) \in Nat /\ Len(p) >= 1
      /\ DOMAIN s = 1 .. Len(s) /\ DOMAIN p = 1 .. Len(p)
  BY <1>2, <1>4
<1>6. /\ DOMAIN r = 0 .. Len(p)
      /\ r[0] = LitsOf(s[1])
      /\ \A j \in 1 .. Len(p) :
           r[j] = (r[j - 1] \ {p[j]}) \cup (LitsOf(s[j + 1]) \ {-p[j]})
  BY <1>5, ResolventsAre
<1> HIDE DEF s, p, r
<1>7. \A m \in 1 .. Len(s) : s[m] \in 0 .. index - 1
  <2> SUFFICES ASSUME NEW m \in 1 .. Len(s)
               PROVE  s[m] \in 0 .. index - 1
    OBVIOUS
  <2>1. s[m] \in Nat /\ s[m] < index
    BY <1>2, <1>4, <1>5
  <2> QED
    BY <1>1, <2>1
<1>8. \A j \in 1 .. Len(p) : p[j] \in Int /\ p[j] # 0
  BY <1>2, LiteralsType
<1>9. file.unfold => Len(p) = 1
  BY <1>4, <1>5
<1> QED
  BY <1>2, <1>4, <1>5, <1>6, <1>7, <1>8, <1>9 DEF s, p, r

(* A refutation has at least three clauses: with two, the only antecedent  *)
(* would be a clause of a pivot and its negation that leaves nothing.      *)
LEMMA ValidSize ==
  ASSUME file \in Files, Valid
  PROVE  ncls \in Nat /\ 3 <= ncls /\ ncls <= IndexRange
<1> DEFINE index == ncls - 1
           s == file.supports[index + 1]
           p == file.pivots[index + 1]
           r == Resolvents(s, p)
<1>1. ncls \in Nat /\ nres \in 0 .. ncls /\ nres > 0 /\ ncls <= IndexRange
      /\ LitsOf(index) = {}
  BY FileClauses, FileChains DEF Valid, ValidFile
<1>2. index \in ncls - nres .. ncls - 1
  BY <1>1
<1>3. /\ s \in Seq(Nat) /\ p \in Seq(Int)
      /\ Len(p) \in Nat /\ Len(p) >= 1 /\ Len(s) = Len(p) + 1
      /\ \A m \in 1 .. Len(s) : s[m] \in 0 .. index - 1
      /\ \A j \in 1 .. Len(p) :
           /\ p[j] \in Int /\ p[j] # 0
           /\ p[j] \in r[j - 1] /\ -p[j] \in LitsOf(s[j + 1])
           /\ r[j] = (r[j - 1] \ {p[j]}) \cup (LitsOf(s[j + 1]) \ {-p[j]})
      /\ r[0] = LitsOf(s[1])
      /\ IF file.unfold
         THEN Len(p) = 1 /\ r[1] \subseteq LitsOf(index)
         ELSE r[Len(p)] = LitsOf(index)
  BY <1>2, ValidChains
<1>4. r[Len(p)] = {}
  <2>1. r[Len(p)] \subseteq LitsOf(index)
    BY <1>3
  <2> QED
    BY <1>1, <2>1
<1> HIDE DEF s, p, r
<1>5. s[1] \in 0 .. index - 1
  BY <1>3
<1>6. ncls >= 2
  BY <1>1, <1>5
<1>7. ASSUME ncls = 2
      PROVE  FALSE
  <2>1. \A m \in 1 .. Len(s) : s[m] = 0
    <3>1. \A m \in 1 .. Len(s) : s[m] \in 0 .. 0
      BY <1>3, <1>7
    <3> QED
      BY <3>1
  <2>2. 1 \in 1 .. Len(p) /\ Len(p) \in 1 .. Len(p)
        /\ 1 \in 1 .. Len(s) /\ 2 \in 1 .. Len(s)
        /\ Len(p) + 1 \in 1 .. Len(s)
    BY <1>3
  <2>3. p[1] \in LitsOf(0) /\ -p[1] \in LitsOf(0)
    BY <1>3, <2>1, <2>2
  <2>4. LitsOf(0) \subseteq {-p[Len(p)]}
    BY <1>3, <1>4, <2>1, <2>2
  <2>5. p[1] = -p[1]
    BY <2>3, <2>4
  <2> QED
    BY <1>3, <2>2, <2>5
<1> QED
  BY <1>1, <1>6, <1>7

-----------------------------------------------------------------------------
(* The run of the honest prover.                                           *)
Faithful(s, last) ==
  \A m \in 1 .. last :
    Distinct(s[m]) /\ Lits(s[m]) = Lits(file.clauses[m])

Unrefused == pc \notin {"rejected", "aborted"} /\ Sound /\ ~ errored

FaithfulClauses ==
  /\ pc = "commit" => Faithful(raw_formula, i)
  /\ pc \in {"disjoint", "sat"} => Faithful(raw_formula, ncls)
  /\ pc \in ChainPhases => Faithful(clear_mem, ncls)

FaithfulAntecedents ==
  pc \in {"fetch", "unfold", "resolve", "check"} =>
    \A m \in 1 .. Len(resource) :
      Distinct(resource[m]) /\ Lits(resource[m]) = LitsOf(support[m])

FaithfulEnd ==
  pc \in {"unfold", "resolve", "check", "last"} =>
    Distinct(end_clause) /\ Lits(end_clause) = LitsOf(i)

FaithfulResolvents ==
  pc \in {"resolve", "check"} =>
    \A m \in 1 .. Len(intermediate) :
      /\ Distinct(intermediate[m])
      /\ Lits(intermediate[m]) =
           Resolvents(support, file.pivots[i + 1])[m - 1]

OwnBuild ==
  /\ pc = "unfold" => file.unfold
  /\ pc \in {"resolve", "check"} => ~ file.unfold

HInv ==
  /\ Unrefused /\ FaithfulClauses /\ FaithfulAntecedents /\ FaithfulEnd
  /\ FaithfulResolvents /\ OwnBuild

LEMMA InitHonest == Init => HInv
BY DEF Init, HInv, Unrefused, FaithfulClauses, FaithfulAntecedents,
   FaithfulEnd, FaithfulResolvents, OwnBuild, Faithful, Sound, ChainPhases,
   RAM!Fresh

(* The accumulator stays free of nonzero blocks.                           *)
LEMMA PutHolds ==
  ASSUME Sound, NEW b, b
  PROVE  Put(zero_hash, b) = "zeros" /\ Put(zero_hash, b) # "nonzero"
BY DEF Put, Sound

LEMMA CompareHolds ==
  ASSUME Sound, NEW q, CompareDigests(q)
  PROVE  pc' = q /\ Sound'
BY PutHolds DEF CompareDigests, Sound

(* No read and no check of the memory fails.                               *)
LEMMA MemoryHonest ==
  ASSUME Valid, IInv, MInv, ~ errored, pc \in ChainPhases,
         clear_mem' = clear_mem, [Next]_vars
  PROVE  ~ errored'
<1>1. UNCHANGED ram_vars \/ CheckSATDone \/ Memory!CheckNeverFails'
  BY MemoryStep
<1>2. ~ CheckSATDone
  BY DEF CheckSATDone, ChainPhases
<1>3. CASE UNCHANGED ram_vars
  BY <1>3 DEF ram_vars
<1>4. CASE Memory!CheckNeverFails'
  <2>1. Len(clear_mem) = ncls /\ ncls \in Nat /\ 3 <= ncls
        /\ ncls <= IndexRange
    BY ValidSize DEF IInv, Types, Loops, AtChain
  <2>2. Memory!n' = ncls /\ Memory!BatchMin = 3
    BY <2>1 DEF Memory!n, Memory!BatchMin
  <2> QED
    BY <1>4, <2>1, <2>2 DEF Memory!CheckNeverFails, Memory!BatchMin
<1> QED
  BY <1>1, <1>2, <1>3, <1>4

LEMMA CommitHonest ==
  ASSUME Valid, IInv, HInv, Commit
  PROVE  HInv'
<1> DEFINE c == file.clauses[i + 1]
           literals == padding(c)
<1>1. file' = file /\ ncls' = ncls /\ ncls \in Nat /\ file \in Files
  BY SameFile, FileClauses DEF Commit, IInv, Types
<1>2. /\ i \in Nat /\ i + 1 \in 1 .. ncls /\ pc = "commit"
      /\ Len(raw_formula) = i /\ raw_formula \in Seq(Vectors)
  BY <1>1 DEF Commit, IInv, Types, Loops, AtCommit
<1>3. c \in Seq(Int) /\ Distinct(c) /\ Len(c) < DEGREE
  BY <1>1, <1>2, ValidClauses
<1>4. ~ (Len(literals) > DEGREE)
  <2>1. Len(literals) = IF Len(c) <= DEGREE THEN DEGREE ELSE Len(c)
    BY <1>3, PaddingLiterals
  <2>2. Len(c) \in Nat
    BY <1>3
  <2> HIDE DEF c, literals
  <2> QED
    BY <1>3, <2>1, <2>2, DegreeAssumption
<1>5. Distinct(literals) /\ Lits(literals) = Lits(c)
  BY <1>3, PaddingDistinct, PaddingLiterals
<1>6. /\ raw_formula' = Append(raw_formula, literals)
      /\ i' = i + 1 /\ pc' = pc
      /\ UNCHANGED <<zero_hash, errored>>
  BY <1>4 DEF Commit, ram_vars
<1>7. Faithful(raw_formula, i)
  BY <1>2 DEF HInv, FaithfulClauses
<1> HIDE DEF literals
<1>8. /\ \A m \in 1 .. i : raw_formula'[m] = raw_formula[m]
      /\ raw_formula'[i + 1] = literals
  BY <1>2, <1>6
<1>9. \A m \in 1 .. i + 1 : m \in 1 .. i \/ m = i + 1
  BY <1>2
<1>10. Faithful(raw_formula, i)'
  BY <1>1, <1>5, <1>6, <1>7, <1>8, <1>9 DEF Faithful
<1> QED
  BY <1>2, <1>6, <1>10 DEF HInv, Unrefused, FaithfulClauses,
     FaithfulAntecedents, FaithfulEnd, FaithfulResolvents, OwnBuild, Sound,
     ChainPhases

LEMMA CommitDoneHonest ==
  ASSUME Valid, IInv, HInv, CommitDone
  PROVE  HInv'
<1>1. file' = file /\ ncls' = ncls
  BY SameFile DEF CommitDone
<1>2. /\ pc = "commit" /\ i = ncls /\ pc' = "disjoint"
      /\ UNCHANGED <<raw_formula, zero_hash, errored>>
  BY DEF CommitDone, ram_vars
<1> QED
  BY <1>1, <1>2 DEF HInv, Unrefused, FaithfulClauses, Faithful,
     FaithfulAntecedents, FaithfulEnd, FaithfulResolvents, OwnBuild, Sound,
     ChainPhases

(* The clauses of the private part.                                        *)
LEMMA PrivateClause ==
  ASSUME Valid, IInv, HInv, pc \in {"disjoint", "sat"}, i < file.n_c1_cls
  PROVE  LET c == raw_formula[i + 1]
         IN  /\ c \in Seq(Int) /\ ~ Truncated(c)
             /\ Lits(c) \cap pub_lits = {}
             /\ Lits(c) \cap file.witness # {}
<1> DEFINE c == raw_formula[i + 1]
<1>1. /\ file \in Files /\ ncls \in Nat /\ i \in Nat
      /\ file.n_c1_cls \in 0 .. ncls
      /\ i + 1 \in 1 .. file.n_c1_cls /\ i + 1 \in 1 .. ncls
  BY FileClauses, FileChains DEF IInv, Types
<1>2. c \in Seq(Int)
  BY <1>1, VectorsType DEF IInv, Types, Loops, AtPrivate
<1>3. Distinct(c) /\ Lits(c) = Lits(file.clauses[i + 1])
  BY <1>1 DEF HInv, FaithfulClauses, Faithful
<1> HIDE DEF c
<1>4. Cardinality(Lits(c)) < DEGREE /\ Width(c) = Cardinality(Lits(c))
  BY <1>1, <1>2, <1>3, ValidClauses, DistinctOnce
<1>5. ~ Truncated(c)
  BY <1>2, <1>4, WidthType, DegreeAssumption DEF Truncated
<1>6. /\ Lits(c) \cap pub_lits = {}
      /\ Lits(c) \cap file.witness # {}
  BY <1>1, <1>3 DEF Valid, ValidFile
<1> QED
  BY <1>2, <1>5, <1>6 DEF c

LEMMA DisjointHonest ==
  ASSUME Valid, IInv, HInv, Disjoint
  PROVE  HInv'
<1>1. file' = file /\ ncls' = ncls
  BY SameFile DEF Disjoint
<1>2. pc = "disjoint" /\ i < file.n_c1_cls
      /\ UNCHANGED <<raw_formula, errored>>
  BY DEF Disjoint, ram_vars
<1>3. ~ \E l \in pub_lits : EvaluatesToZero(raw_formula[i + 1], l)
  BY <1>2, PrivateClause DEF EvaluatesToZero
<1>4. pc' = pc
  BY <1>3 DEF Disjoint
<1>5. Sound'
  BY <1>3, PutHolds DEF Disjoint, HInv, Unrefused, Sound
<1> QED
  BY <1>1, <1>2, <1>4, <1>5 DEF HInv, Unrefused, FaithfulClauses, Faithful,
     FaithfulAntecedents, FaithfulEnd, FaithfulResolvents, OwnBuild,
     ChainPhases

LEMMA DisjointDoneHonest ==
  ASSUME Valid, IInv, HInv, DisjointDone
  PROVE  HInv'
<1>1. file' = file /\ ncls' = ncls
  BY SameFile DEF DisjointDone
<1>2. pc = "disjoint" /\ UNCHANGED <<raw_formula, errored>>
  BY DEF DisjointDone, ram_vars
<1>3. pc' = "sat" /\ Sound'
  BY CompareHolds DEF DisjointDone, HInv, Unrefused
<1> QED
  BY <1>1, <1>2, <1>3 DEF HInv, Unrefused, FaithfulClauses, Faithful,
     FaithfulAntecedents, FaithfulEnd, FaithfulResolvents, OwnBuild,
     ChainPhases

LEMMA CheckSATHonest ==
  ASSUME Valid, IInv, HInv, CheckSAT
  PROVE  HInv'
<1>1. file' = file /\ ncls' = ncls
  BY SameFile DEF CheckSAT
<1>2. pc = "sat" /\ i < file.n_c1_cls /\ pc' = pc
      /\ UNCHANGED <<raw_formula, errored>>
  BY DEF CheckSAT, ram_vars
<1>3. \E l \in file.witness : EvaluatesToZero(raw_formula[i + 1], l)
  BY <1>2, PrivateClause DEF EvaluatesToZero
<1>4. Sound'
  <2>1. PICK holds \in BOOLEAN :
          /\ file.witness # {} =>
               holds = \E l \in file.witness :
                         EvaluatesToZero(raw_formula[i + 1], l)
          /\ zero_hash' = Put(zero_hash, holds)
    BY DEF CheckSAT
  <2>2. holds
    BY <1>3, <2>1
  <2> QED
    BY <2>1, <2>2, PutHolds DEF HInv, Unrefused, Sound
<1> QED
  BY <1>1, <1>2, <1>4 DEF HInv, Unrefused, FaithfulClauses, Faithful,
     FaithfulAntecedents, FaithfulEnd, FaithfulResolvents, OwnBuild,
     ChainPhases

LEMMA CheckSATDoneHonest ==
  ASSUME Valid, IInv, HInv, CheckSATDone
  PROVE  HInv'
<1>1. file' = file /\ ncls' = ncls
  BY SameFile DEF CheckSATDone
<1>2. pc = "sat" /\ clear_mem' = raw_formula /\ errored' = errored
  BY DEF CheckSATDone, RAM!init
<1>3. pc' = "chain" /\ Sound'
  BY CompareHolds DEF CheckSATDone, HInv, Unrefused
<1> QED
  BY <1>1, <1>2, <1>3 DEF HInv, Unrefused, FaithfulClauses, Faithful,
     FaithfulAntecedents, FaithfulEnd, FaithfulResolvents, OwnBuild,
     ChainPhases

(* The chain that is being checked.                                        *)
LEMMA CurrentChain ==
  ASSUME Valid, IInv, pc \in ChainPhases, i < ncls
  PROVE  LET p == file.pivots[i + 1]
             r == Resolvents(support, p)
         IN  /\ i \in Nat /\ i + 1 \in 1 .. ncls /\ i < IndexRange
             /\ support \in Seq(Nat) /\ p \in Seq(Int)
             /\ Len(p) \in Nat /\ Len(p) >= 1 /\ Len(support) = Len(p) + 1
             /\ Len(pivots) = Len(p) + 1
             /\ \A m \in 1 .. Len(support) : support[m] \in 0 .. i - 1
             /\ \A m \in 2 .. Len(pivots) :
                  /\ pivots[m] \in Int /\ pivots[m] # 0
                  /\ pivots[m] \in r[m - 2]
                  /\ -pivots[m] \in LitsOf(support[m])
                  /\ r[m - 1] = (r[m - 2] \ {pivots[m]})
                                  \cup (LitsOf(support[m]) \ {-pivots[m]})
             /\ r[0] = LitsOf(support[1])
             /\ \A j \in 0 .. Len(p) : Cardinality(r[j]) <= DEGREE - 1
             /\ IF file.unfold
                THEN Len(p) = 1 /\ r[1] \subseteq LitsOf(i)
                ELSE r[Len(p)] = LitsOf(i)
<1> DEFINE p == file.pivots[i + 1]
           r == Resolvents(support, p)
<1>1. /\ file \in Files /\ ncls \in Nat /\ nres \in 0 .. ncls
      /\ ncls - nres <= i /\ i \in Nat /\ ncls <= IndexRange
      /\ IndexRange \in Nat
  BY FileClauses, FileChains, ValidSize, RefutationAssumption
  DEF IInv, Types, Loops, AtChain
<1>2. i \in ncls - nres .. ncls - 1 /\ i + 1 \in 1 .. ncls /\ i < IndexRange
  BY <1>1
<1>3. /\ support \in Seq(Nat) /\ p \in Seq(Int)
      /\ Len(p) \in Nat /\ Len(p) >= 1 /\ Len(support) = Len(p) + 1
      /\ \A m \in 1 .. Len(support) : support[m] \in 0 .. i - 1
      /\ \A j \in 1 .. Len(p) :
           /\ p[j] \in Int /\ p[j] # 0
           /\ p[j] \in r[j - 1] /\ -p[j] \in LitsOf(support[j + 1])
           /\ r[j] = (r[j - 1] \ {p[j]})
                       \cup (LitsOf(support[j + 1]) \ {-p[j]})
      /\ r[0] = LitsOf(support[1])
      /\ \A j \in 0 .. Len(p) : Cardinality(r[j]) <= DEGREE - 1
      /\ IF file.unfold THEN Len(p) = 1 /\ r[1] \subseteq LitsOf(i)
         ELSE r[Len(p)] = LitsOf(i)
  BY <1>1, <1>2, ValidChains DEF support
<1>4. /\ Len(pivots) = Len(p) + 1
      /\ \A m \in 2 .. Len(pivots) : pivots[m] = p[m - 1]
  <2>1. <<0>> \in Seq(Int) /\ Len(<<0>>) = 1 /\ pivots = <<0>> \o p
    BY DEF pivots
  <2> HIDE DEF p
  <2> QED
    BY <1>3, <2>1
<1> HIDE DEF p, r
<1>5. ASSUME NEW m \in 2 .. Len(pivots)
      PROVE  /\ pivots[m] \in Int /\ pivots[m] # 0
             /\ pivots[m] \in r[m - 2]
             /\ -pivots[m] \in LitsOf(support[m])
             /\ r[m - 1] = (r[m - 2] \ {pivots[m]})
                             \cup (LitsOf(support[m]) \ {-pivots[m]})
  <2>1. PICK j \in 1 .. Len(p) : j = m - 1
    BY <1>3, <1>4
  <2>2. j - 1 = m - 2 /\ j + 1 = m /\ pivots[m] = p[j]
    BY <1>4, <2>1
  <2> QED
    BY <1>3, <2>1, <2>2
<1> QED
  BY <1>2, <1>1, <1>3, <1>4, <1>5 DEF p, r

(* An index of the file is committed without loss.                         *)
LEMMA IndexKept ==
  ASSUME Valid, IInv, pc \in ChainPhases, i < ncls
  PROVE  /\ RAM!Committed(ptr) = i
         /\ \A m \in 1 .. Len(support) :
              /\ RAM!Committed(support[m]) = support[m]
              /\ support[m] \in Nat /\ support[m] < i
              /\ support[m] + 1 \in 1 .. ncls
<1>1. /\ i \in Nat /\ i < IndexRange /\ i + 1 \in 1 .. ncls
      /\ \A m \in 1 .. Len(support) : support[m] \in 0 .. i - 1
  BY CurrentChain
<1>2. RAM!Committed(ptr) = i
  BY <1>1, IndexType DEF ptr
<1>3. ASSUME NEW m \in 1 .. Len(support)
      PROVE  /\ RAM!Committed(support[m]) = support[m]
             /\ support[m] \in Nat /\ support[m] < i
             /\ support[m] + 1 \in 1 .. ncls
  <2>1. support[m] \in Nat /\ support[m] < i
    BY <1>1
  <2>2. support[m] < IndexRange
    <3>1. IndexRange \in Nat
      BY RefutationAssumption
    <3> QED
      BY <1>1, <2>1, <3>1
  <2>3. support[m] + 1 \in 1 .. ncls
    BY <1>1, <2>1, FileClauses DEF IInv, Types
  <2> QED
    BY <2>1, <2>2, <2>3, IndexType
<1> QED
  BY <1>2, <1>3

LEMMA ChainStartHonest ==
  ASSUME Valid, IInv, HInv, ChainStart
  PROVE  HInv'
<1>1. file' = file /\ ncls' = ncls /\ i' = i
  BY SameFile DEF ChainStart
<1>2. pc = "chain" /\ i < ncls /\ resource' = <<>>
      /\ UNCHANGED <<clear_mem, zero_hash, errored>>
  BY DEF ChainStart, ram_vars
<1>3. pc' = "fetch"
  <2>1. Len(support) = Len(file.pivots[i + 1]) + 1
    BY <1>2, CurrentChain DEF ChainPhases
  <2> QED
    BY <2>1 DEF ChainStart
<1>4. Len(resource') = 0
  BY <1>2
<1>5. \A m \in 1 .. Len(resource') : FALSE
  BY <1>4
<1> QED
  BY <1>1, <1>2, <1>3, <1>5 DEF HInv, Unrefused, FaithfulClauses, Faithful,
     FaithfulAntecedents, FaithfulEnd, FaithfulResolvents, OwnBuild, Sound,
     ChainPhases

LEMMA FetchHonest ==
  ASSUME Valid, IInv, MInv, HInv, Fetch
  PROVE  HInv'
<1>1. /\ file' = file /\ ncls' = ncls /\ i' = i /\ support' = support
      /\ ncls \in Nat
  BY SameFile, FileClauses DEF Fetch, IInv, Types
<1>2. /\ pc = "fetch" /\ i < ncls /\ k = Len(resource) + 1 /\ k \in Nat
      /\ k <= Len(support) /\ resource \in Seq(Vectors)
      /\ Len(clear_mem) = ncls /\ clear_mem \in Seq(Vectors)
  BY DEF Fetch, IInv, Types, Loops, AtFetch, AtChain, ChainPhases
<1>3. support \in Seq(Nat) /\ i \in Nat
  BY <1>2, CurrentChain DEF ChainPhases
<1>4. k \in 1 .. Len(support)
  BY <1>2, <1>3
<1>5. /\ RAM!Committed(support[k]) = support[k]
      /\ RAM!Committed(ptr) = i
      /\ support[k] \in Nat /\ support[k] < i
      /\ support[k] + 1 \in 1 .. ncls
  BY <1>2, <1>4, IndexKept DEF ChainPhases
<1>6. ~ (RAM!Committed(support[k]) >= RAM!Committed(ptr))
  BY <1>3, <1>5
<1> DEFINE c == clear_mem[support[k] + 1]
<1>7. /\ Read(RAM!Committed(support[k]))
      /\ pc' = IF errored' THEN "rejected" ELSE "fetch"
      /\ resource' = Append(resource, c)
  BY <1>5, <1>6 DEF Fetch
<1>8. clear_mem' = clear_mem
  BY <1>7, ReadType DEF IInv
<1>9. ~ errored'
  BY <1>2, <1>8, MemoryHonest DEF HInv, Unrefused, ChainPhases, Next
<1>10. Sound'
  BY <1>7, PutHolds DEF Read, HInv, Unrefused, Sound
<1>11. Distinct(c) /\ Lits(c) = LitsOf(support[k])
  BY <1>2, <1>5 DEF HInv, FaithfulClauses, Faithful, ChainPhases, LitsOf
<1>12. c \in Vectors
  BY <1>2, <1>5
<1> HIDE DEF c
<1>13. /\ Len(resource') = Len(resource) + 1
       /\ \A m \in 1 .. Len(resource) : resource'[m] = resource[m]
       /\ resource'[k] = c
  BY <1>2, <1>7, <1>12
<1>14. \A m \in 1 .. Len(resource) + 1 : m \in 1 .. Len(resource) \/ m = k
  BY <1>2
<1>15. \A m \in 1 .. Len(resource') :
         Distinct(resource'[m]) /\ Lits(resource'[m]) = LitsOf(support[m])
  BY <1>2, <1>11, <1>13, <1>14 DEF HInv, FaithfulAntecedents
<1>16. \A x : LitsOf(x)' = LitsOf(x)
  BY <1>1 DEF LitsOf
<1> QED
  BY <1>1, <1>2, <1>7, <1>8, <1>9, <1>10, <1>15, <1>16
  DEF HInv, Unrefused, FaithfulClauses, Faithful, FaithfulAntecedents,
    FaithfulEnd, FaithfulResolvents, OwnBuild, ChainPhases

LEMMA FetchEndHonest ==
  ASSUME Valid, IInv, MInv, HInv, FetchEnd
  PROVE  HInv'
<1>1. /\ file' = file /\ ncls' = ncls /\ i' = i /\ support' = support
      /\ ncls \in Nat
  BY SameFile, FileClauses DEF FetchEnd, IInv, Types
<1>2. /\ pc = "fetch" /\ i < ncls /\ resource \in Seq(Vectors)
      /\ k > Len(support) /\ k = Len(resource) + 1 /\ k \in Nat
      /\ k <= Len(support) + 1
  BY DEF FetchEnd, IInv, Types, Loops, AtFetch
<1>3. /\ support \in Seq(Nat) /\ i \in Nat /\ i + 1 \in 1 .. ncls
      /\ Len(support) >= 2
      /\ Resolvents(support, file.pivots[i + 1])[0] = LitsOf(support[1])
  BY <1>2, CurrentChain DEF ChainPhases
<1>4. RAM!Committed(ptr) = i
  BY <1>2, IndexKept DEF ChainPhases
<1>5. /\ Read(i) /\ resource' = resource
      /\ end_clause' = clear_mem[i + 1]
      /\ intermediate' = <<resource[1]>>
      /\ pc' = IF errored' THEN "rejected"
               ELSE IF file.unfold THEN "unfold" ELSE "resolve"
  BY <1>4 DEF FetchEnd
<1>6. clear_mem' = clear_mem
  BY <1>5, ReadType DEF IInv
<1>7. ~ errored'
  BY <1>2, <1>6, MemoryHonest DEF HInv, Unrefused, ChainPhases, Next
<1>8. Sound'
  BY <1>5, PutHolds DEF Read, HInv, Unrefused, Sound
<1>9. Distinct(end_clause') /\ Lits(end_clause') = LitsOf(i)
  BY <1>2, <1>3, <1>5 DEF HInv, FaithfulClauses, Faithful, ChainPhases, LitsOf
<1>10. 1 \in 1 .. Len(resource)
  BY <1>2, <1>3
<1>11. Distinct(resource[1]) /\ Lits(resource[1]) = LitsOf(support[1])
  BY <1>2, <1>10 DEF HInv, FaithfulAntecedents
<1>12. \A x : LitsOf(x)' = LitsOf(x)
  BY <1>1 DEF LitsOf
<1>13. \A s, p : Resolvents(s, p)' = Resolvents(s, p)
  BY <1>1 DEF Resolvents, LitsOf
<1>14. \A m \in 1 .. Len(intermediate') :
         /\ Distinct(intermediate'[m])
         /\ Lits(intermediate'[m]) =
              Resolvents(support, file.pivots[i + 1])[m - 1]
  <2> SUFFICES ASSUME NEW m \in 1 .. Len(intermediate')
               PROVE  /\ Distinct(intermediate'[m])
                      /\ Lits(intermediate'[m]) =
                           Resolvents(support, file.pivots[i + 1])[m - 1]
    OBVIOUS
  <2>1. m = 1 /\ m - 1 = 0 /\ intermediate'[1] = resource[1]
    BY <1>5
  <2> QED
    BY <1>3, <1>11, <2>1
<1>15. FaithfulAntecedents'
  BY <1>1, <1>2, <1>5, <1>12 DEF HInv, FaithfulAntecedents
<1>16. FaithfulResolvents'
  BY <1>1, <1>13, <1>14 DEF FaithfulResolvents
<1> QED
  BY <1>1, <1>2, <1>5, <1>6, <1>7, <1>8, <1>9, <1>12, <1>15, <1>16
  DEF HInv, Unrefused, FaithfulClauses, Faithful, FaithfulEnd, OwnBuild,
    ChainPhases

(* What an action that keeps the file, the memory, the antecedents and the *)
(* derived clause keeps of the invariant.                                  *)
LEMMA KeptHonest ==
  ASSUME HInv, pc \in {"unfold", "resolve", "check"},
         file' = file, i' = i,
         UNCHANGED <<resource, end_clause, clear_mem, errored>>,
         pc' \in {"resolve", "check", "last"}, Sound',
         pc' # "last" => pc # "unfold"
  PROVE  Unrefused' /\ FaithfulClauses' /\ FaithfulAntecedents'
         /\ FaithfulEnd' /\ OwnBuild'
<1>1. \A x : LitsOf(x)' = LitsOf(x)
  BY DEF LitsOf
<1>2. ncls' = ncls /\ support' = support
  BY SameFile
<1>3. FaithfulAntecedents' /\ FaithfulEnd'
  BY <1>1, <1>2 DEF HInv, FaithfulAntecedents, FaithfulEnd
<1> QED
  BY <1>2, <1>3 DEF HInv, Unrefused, FaithfulClauses, Faithful, OwnBuild,
     ChainPhases

(* A literal set of the file's clauses is narrower than DEGREE.            *)
LEMMA AntecedentWidth ==
  ASSUME Valid, IInv, HInv, pc \in {"unfold", "resolve", "check"},
         NEW m \in 1 .. Len(resource)
  PROVE  /\ m \in 1 .. Len(support) /\ resource[m] \in Seq(Int)
         /\ Distinct(resource[m]) /\ Lits(resource[m]) = LitsOf(support[m])
         /\ Cardinality(Lits(resource[m])) < DEGREE
<1>1. /\ i < ncls /\ Len(resource) = Len(pivots)
      /\ \A x \in 1 .. Len(pivots) : resource[x] \in Seq(Int)
  BY StepFacts
<1>2. Len(support) = Len(pivots)
  BY <1>1, CurrentChain DEF ChainPhases
<1>3. m \in 1 .. Len(support) /\ resource[m] \in Seq(Int)
  BY <1>1, <1>2
<1>4. Distinct(resource[m]) /\ Lits(resource[m]) = LitsOf(support[m])
  BY DEF HInv, FaithfulAntecedents
<1>5. support[m] + 1 \in 1 .. ncls
  BY <1>1, <1>3, IndexKept DEF ChainPhases
<1>6. Cardinality(LitsOf(support[m])) < DEGREE
  BY <1>5, ValidClauses DEF LitsOf, IInv, Types
<1> QED
  BY <1>3, <1>4, <1>6

LEMMA EndWidth ==
  ASSUME Valid, IInv, HInv, pc \in {"unfold", "resolve", "check", "last"}
  PROVE  /\ end_clause \in Seq(Int) /\ Distinct(end_clause)
         /\ Lits(end_clause) = LitsOf(i)
         /\ Cardinality(Lits(end_clause)) < DEGREE
<1>1. end_clause \in Vectors /\ i < ncls
  BY DEF IInv, Loops, AtStep, AtLast
<1>2. end_clause \in Seq(Int)
  BY <1>1, VectorType
<1>3. Distinct(end_clause) /\ Lits(end_clause) = LitsOf(i)
  BY DEF HInv, FaithfulEnd
<1>4. i + 1 \in 1 .. ncls
  BY <1>1, FileClauses DEF IInv, Types
<1>5. Cardinality(LitsOf(i)) < DEGREE
  BY <1>4, ValidClauses DEF LitsOf, IInv, Types
<1> QED
  BY <1>2, <1>3, <1>5

LEMMA UnfoldHonest ==
  ASSUME Valid, IInv, HInv, Unfold
  PROVE  HInv'
<1> DEFINE r == Resolvents(support, file.pivots[i + 1])
           c0 == resource[1]
           c1 == resource[2]
           p == pivots[2]
<1>1. /\ pc = "unfold" /\ file' = file /\ i' = i
      /\ UNCHANGED <<resource, end_clause, clear_mem, errored>>
  BY DEF Unfold, chain_vars, ram_vars
<1>2. i < ncls /\ Len(resource) = Len(pivots) /\ file.unfold
  BY <1>1, StepFacts DEF HInv, OwnBuild
<1>3. /\ Len(pivots) = 2
      /\ p \in Int /\ p # 0 /\ p \in r[0] /\ -p \in LitsOf(support[2])
      /\ r[1] = (r[0] \ {p}) \cup (LitsOf(support[2]) \ {-p})
      /\ r[0] = LitsOf(support[1]) /\ r[1] \subseteq LitsOf(i)
  <2>1. /\ Len(pivots) = Len(file.pivots[i + 1]) + 1
        /\ Len(file.pivots[i + 1]) = 1
        /\ \A m \in 2 .. Len(pivots) :
             /\ pivots[m] \in Int /\ pivots[m] # 0
             /\ pivots[m] \in r[m - 2]
             /\ -pivots[m] \in LitsOf(support[m])
             /\ r[m - 1] = (r[m - 2] \ {pivots[m]})
                             \cup (LitsOf(support[m]) \ {-pivots[m]})
        /\ r[0] = LitsOf(support[1]) /\ r[1] \subseteq LitsOf(i)
    BY <1>1, <1>2, CurrentChain DEF ChainPhases
  <2>2. 2 \in 2 .. Len(pivots) /\ 2 - 2 = 0 /\ 2 - 1 = 1
    BY <2>1
  <2> HIDE DEF r
  <2> QED
    BY <2>1, <2>2
<1>4. /\ c0 \in Seq(Int) /\ Distinct(c0) /\ Lits(c0) = LitsOf(support[1])
      /\ Cardinality(Lits(c0)) < DEGREE
      /\ c1 \in Seq(Int) /\ Distinct(c1) /\ Lits(c1) = LitsOf(support[2])
      /\ Cardinality(Lits(c1)) < DEGREE
  <2>1. 1 \in 1 .. Len(resource) /\ 2 \in 1 .. Len(resource)
    BY <1>2, <1>3
  <2> QED
    BY <1>1, <2>1, AntecedentWidth
<1>5. /\ end_clause \in Seq(Int) /\ Distinct(end_clause)
      /\ Lits(end_clause) = LitsOf(i) /\ Cardinality(Lits(end_clause)) < DEGREE
  BY <1>1, EndWidth
<1> HIDE DEF r, c0, c1, p
<1>6. ResolventLits(c0, c1, p) \subseteq Lits(end_clause)
  BY <1>3, <1>4, <1>5 DEF ResolventLits, get_negate
<1>7. check_xres(c0, c1, end_clause, p) /\ ~ xres_aborts(c0, c1, end_clause, p)
  BY <1>3, <1>4, <1>5, <1>6, HonestStep
<1>8. pc' = "last" /\ zero_hash' = Put(zero_hash,
                                    check_xres(c0, c1, end_clause, p))
  BY <1>7 DEF Unfold, c0, c1, p
<1>9. Sound'
  BY <1>7, <1>8, PutHolds DEF HInv, Unrefused, Sound
<1> QED
  BY <1>1, <1>8, <1>9, KeptHonest DEF HInv, FaithfulResolvents

(* The resolvents that the prover computes.                                *)
LEMMA ResolventFacts ==
  ASSUME Valid, IInv, HInv, pc \in {"resolve", "check"},
         NEW m \in 1 .. Len(intermediate), NEW r,
         r = Resolvents(support, file.pivots[i + 1])
  PROVE  /\ intermediate[m] \in Seq(Int) /\ Distinct(intermediate[m])
         /\ Lits(intermediate[m]) = r[m - 1]
         /\ Cardinality(Lits(intermediate[m])) < DEGREE
<1>1. intermediate[m] \in Seq(Int)
  BY VectorsType DEF IInv, Types
<1>2. Distinct(intermediate[m]) /\ Lits(intermediate[m]) = r[m - 1]
  BY DEF HInv, FaithfulResolvents
<1>3. /\ Len(pivots) = Len(file.pivots[i + 1]) + 1
      /\ Len(file.pivots[i + 1]) \in Nat
      /\ \A j \in 0 .. Len(file.pivots[i + 1]) :
           Cardinality(r[j]) <= DEGREE - 1
  BY StepFacts, CurrentChain DEF ChainPhases
<1>4. Len(intermediate) \in Nat /\ Len(intermediate) <= Len(pivots)
  <2>1. Len(intermediate) \in Nat /\ k \in Nat
    BY StepFacts DEF IInv, Types
  <2> QED
    BY <1>3, <2>1 DEF IInv, Loops, AtResolve, AtCheck
<1>5. m - 1 \in 0 .. Len(file.pivots[i + 1])
  BY <1>3, <1>4
<1>6. Cardinality(Lits(intermediate[m])) <= DEGREE - 1
  BY <1>2, <1>3, <1>5
<1>7. Cardinality(Lits(intermediate[m])) \in Nat
  BY <1>1, WidthType
<1> QED
  BY <1>1, <1>2, <1>6, <1>7, DegreeAssumption

(* The pivot and the antecedents of step k.                                *)
LEMMA StepOfChain ==
  ASSUME Valid, IInv, HInv, pc \in {"resolve", "check"},
         k \in 2 .. Len(pivots), k - 1 \in 1 .. Len(intermediate), NEW r,
         r = Resolvents(support, file.pivots[i + 1])
  PROVE  LET c0 == intermediate[k - 1]
             c1 == resource[k]
             p  == pivots[k]
         IN  /\ p \in Int /\ p # 0 /\ p \in Lits(c0) /\ -p \in Lits(c1)
             /\ c0 \in Seq(Int) /\ Distinct(c0)
             /\ Cardinality(Lits(c0)) < DEGREE
             /\ c1 \in Seq(Int) /\ Distinct(c1)
             /\ Cardinality(Lits(c1)) < DEGREE
             /\ ResolventLits(c0, c1, p) = r[k - 1]
             /\ Cardinality(r[k - 1]) <= DEGREE - 1
<1> DEFINE c0 == intermediate[k - 1]
           c1 == resource[k]
           p  == pivots[k]
<1>1. i < ncls /\ Len(resource) = Len(pivots) /\ Len(pivots) \in Nat
      /\ k \in Nat
  BY StepFacts DEF IInv, Types
<1>2. k \in 1 .. Len(resource) /\ k - 1 - 1 = k - 2
      /\ k - 1 \in 0 .. Len(pivots) - 1
  BY <1>1
<1>3. /\ c0 \in Seq(Int) /\ Distinct(c0) /\ Lits(c0) = r[k - 2]
      /\ Cardinality(Lits(c0)) < DEGREE
  BY <1>2, ResolventFacts
<1>4. /\ c1 \in Seq(Int) /\ Distinct(c1) /\ Lits(c1) = LitsOf(support[k])
      /\ Cardinality(Lits(c1)) < DEGREE
  BY <1>2, AntecedentWidth
<1>5. /\ p \in Int /\ p # 0 /\ p \in r[k - 2] /\ -p \in LitsOf(support[k])
      /\ r[k - 1] = (r[k - 2] \ {p}) \cup (LitsOf(support[k]) \ {-p})
  BY <1>1, CurrentChain DEF ChainPhases
<1>6. Cardinality(r[k - 1]) <= DEGREE - 1
  <2>1. /\ Len(pivots) = Len(file.pivots[i + 1]) + 1
        /\ Len(file.pivots[i + 1]) \in Nat
        /\ \A j \in 0 .. Len(file.pivots[i + 1]) :
             Cardinality(r[j]) <= DEGREE - 1
    BY <1>1, CurrentChain DEF ChainPhases
  <2>2. k - 1 \in 0 .. Len(file.pivots[i + 1])
    BY <1>2, <2>1
  <2> QED
    BY <2>1, <2>2
<1>7. ResolventLits(c0, c1, p) = r[k - 1]
  BY <1>3, <1>4, <1>5 DEF ResolventLits, get_negate
<1> QED
  BY <1>3, <1>4, <1>5, <1>6, <1>7

LEMMA SameResolvents ==
  ASSUME file' = file
  PROVE  \A s, p : Resolvents(s, p)' = Resolvents(s, p)
BY DEF Resolvents, LitsOf

LEMMA ResolveHonest ==
  ASSUME Valid, IInv, HInv, Resolve
  PROVE  HInv'
<1> DEFINE r == Resolvents(support, file.pivots[i + 1])
           c0 == intermediate[k - 1]
           c1 == resource[k]
           p == pivots[k]
           c == get_res_f2k(c0, c1, p)
<1>1. /\ pc = "resolve" /\ file' = file /\ i' = i /\ support' = support
      /\ UNCHANGED <<resource, end_clause, clear_mem, errored, zero_hash>>
  BY SameFile DEF Resolve, ram_vars
<1>2. /\ k = Len(intermediate) + 1 /\ Len(intermediate) \in Nat
      /\ Len(intermediate) > 0 /\ k \in Nat /\ k <= Len(pivots)
      /\ intermediate \in Seq(Vectors) /\ Len(pivots) \in Nat
      /\ Len(resource) = Len(pivots)
  BY <1>1, StepFacts DEF Resolve, IInv, Types, Loops, AtResolve
<1>3. /\ k \in 2 .. Len(pivots) /\ k - 1 \in 1 .. Len(intermediate)
      /\ k \in 1 .. Len(resource)
  BY <1>2
<1>4. /\ p \in Int /\ c0 \in Seq(Int) /\ c1 \in Seq(Int)
      /\ ResolventLits(c0, c1, p) = r[k - 1]
      /\ Cardinality(r[k - 1]) <= DEGREE - 1
  BY <1>1, <1>3, StepOfChain
<1> HIDE DEF r, c0, c1, p
<1>5. ~ res_overflows(c0, c1, p)
  <2>1. IsFiniteSet(ResolventLits(c0, c1, p))
    <3>1. IsFiniteSet(Lits(c0) \cup Lits(c1))
      BY <1>4, LitsType, FS_Union
    <3>2. ResolventLits(c0, c1, p) \subseteq Lits(c0) \cup Lits(c1)
      BY DEF ResolventLits
    <3> QED
      BY <3>1, <3>2, FS_Subset
  <2>2. Cardinality(ResolventLits(c0, c1, p)) \in Nat
    BY <2>1, FS_CardinalityType
  <2> QED
    BY <1>4, <2>2, DegreeAssumption DEF res_overflows
<1>6. Distinct(c) /\ Lits(c) = r[k - 1] /\ c \in Vectors
  <2>1. Distinct(c) /\ Lits(c) = r[k - 1]
    BY <1>4, <1>5, ResolventExact
  <2>2. /\ c \in Seq(Int) /\ Len(c) = DEGREE
        /\ Lits(c) \subseteq Lits(c0) \cup Lits(c1)
    BY <1>4, <1>5, ResolventType
  <2>3. c0 \in Vectors /\ c1 \in Vectors
    BY <1>2, <1>3, VectorsType DEF c0, c1, IInv, Types
  <2>4. Lits(c0) \subseteq Literals /\ Lits(c1) \subseteq Literals
    BY <2>3, VectorType
  <2> HIDE DEF c
  <2> QED
    BY <2>1, <2>2, <2>4 DEF Vectors
<1>7. pc' = pc /\ intermediate' = Append(intermediate, c)
  BY <1>5 DEF Resolve, c0, c1, p
<1> HIDE DEF c
<1>8. /\ Len(intermediate') = Len(intermediate) + 1
      /\ \A m \in 1 .. Len(intermediate) : intermediate'[m] = intermediate[m]
      /\ intermediate'[k] = c
  BY <1>2, <1>6, <1>7
<1>9. \A m \in 1 .. Len(intermediate) + 1 :
        m \in 1 .. Len(intermediate) \/ m = k
  BY <1>2
<1>10. \A m \in 1 .. Len(intermediate') :
         Distinct(intermediate'[m]) /\ Lits(intermediate'[m]) = r[m - 1]
  BY <1>1, <1>6, <1>8, <1>9 DEF HInv, FaithfulResolvents, r
<1>11. FaithfulResolvents'
  BY <1>1, <1>10, SameResolvents DEF FaithfulResolvents, r
<1>12. Sound'
  BY <1>1 DEF HInv, Unrefused, Sound
<1> QED
  BY <1>1, <1>7, <1>11, <1>12, KeptHonest DEF HInv

LEMMA ResolveDoneHonest ==
  ASSUME Valid, IInv, HInv, ResolveDone
  PROVE  HInv'
<1>1. /\ pc = "resolve" /\ pc' = "check" /\ file' = file /\ i' = i
      /\ support' = support
      /\ UNCHANGED <<resource, end_clause, intermediate, clear_mem, errored,
                     zero_hash>>
  BY SameFile DEF ResolveDone, ram_vars, chain_vars
<1>2. FaithfulResolvents'
  BY <1>1, SameResolvents DEF HInv, FaithfulResolvents
<1>3. Sound'
  BY <1>1 DEF HInv, Unrefused, Sound
<1> QED
  BY <1>1, <1>2, <1>3, KeptHonest DEF HInv

LEMMA CheckHonest ==
  ASSUME Valid, IInv, HInv, Check
  PROVE  HInv'
<1> DEFINE r == Resolvents(support, file.pivots[i + 1])
           c0 == intermediate[k - 1]
           c1 == resource[k]
           cres == intermediate[k]
           p == pivots[k]
<1>1. /\ pc = "check" /\ file' = file /\ i' = i /\ support' = support
      /\ UNCHANGED <<resource, end_clause, intermediate, clear_mem, errored>>
  BY SameFile DEF Check, ram_vars, chain_vars
<1>2. /\ k \in Nat /\ k > 1 /\ k <= Len(pivots) /\ Len(pivots) \in Nat
      /\ Len(intermediate) = Len(pivots)
  BY <1>1, StepFacts DEF Check, IInv, Types, Loops, AtCheck
<1>3. /\ k \in 2 .. Len(pivots) /\ k - 1 \in 1 .. Len(intermediate)
      /\ k \in 1 .. Len(intermediate)
  BY <1>2
<1>4. /\ p \in Int /\ p # 0 /\ p \in Lits(c0) /\ -p \in Lits(c1)
      /\ c0 \in Seq(Int) /\ Distinct(c0) /\ Cardinality(Lits(c0)) < DEGREE
      /\ c1 \in Seq(Int) /\ Distinct(c1) /\ Cardinality(Lits(c1)) < DEGREE
      /\ ResolventLits(c0, c1, p) = r[k - 1]
  BY <1>1, <1>3, StepOfChain
<1>5. /\ cres \in Seq(Int) /\ Distinct(cres) /\ Lits(cres) = r[k - 1]
      /\ Cardinality(Lits(cres)) < DEGREE
  BY <1>1, <1>3, ResolventFacts
<1> HIDE DEF r, c0, c1, p, cres
<1>6. check_xres(c0, c1, cres, p) /\ ~ xres_aborts(c0, c1, cres, p)
  BY <1>4, <1>5, HonestStep
<1>7. pc' = pc /\ zero_hash' = Put(zero_hash, check_xres(c0, c1, cres, p))
  BY <1>6 DEF Check, c0, c1, p, cres
<1>8. Sound'
  BY <1>6, <1>7, PutHolds DEF HInv, Unrefused, Sound
<1>9. FaithfulResolvents'
  BY <1>1, <1>7, SameResolvents DEF HInv, FaithfulResolvents
<1> QED
  BY <1>1, <1>7, <1>8, <1>9, KeptHonest DEF HInv

LEMMA CheckDoneHonest ==
  ASSUME Valid, IInv, HInv, CheckDone
  PROVE  HInv'
<1> DEFINE r == Resolvents(support, file.pivots[i + 1])
           final == intermediate[Len(intermediate)]
<1>1. /\ pc = "check" /\ pc' = "last" /\ file' = file /\ i' = i
      /\ UNCHANGED <<resource, end_clause, clear_mem, errored>>
      /\ zero_hash' = Put(zero_hash, Equal(end_clause, final))
  BY DEF CheckDone, ram_vars, chain_vars
<1>2. /\ i < ncls /\ Len(intermediate) = Len(pivots) /\ ~ file.unfold
  BY <1>1, StepFacts DEF IInv, Loops, AtCheck, HInv, OwnBuild
<1>3. /\ Len(pivots) = Len(file.pivots[i + 1]) + 1
      /\ Len(file.pivots[i + 1]) \in Nat
      /\ r[Len(file.pivots[i + 1])] = LitsOf(i)
  BY <1>1, <1>2, CurrentChain DEF ChainPhases
<1>4. /\ Len(intermediate) \in 1 .. Len(intermediate)
      /\ Len(intermediate) - 1 = Len(file.pivots[i + 1])
  BY <1>2, <1>3
<1>5. final \in Seq(Int) /\ Distinct(final) /\ Lits(final) = LitsOf(i)
  BY <1>1, <1>3, <1>4, ResolventFacts
<1> HIDE DEF r, final
<1>6. Equal(end_clause, final)
  BY <1>1, <1>5, EndWidth, DistinctEqual
<1>7. Sound'
  BY <1>1, <1>6, PutHolds DEF HInv, Unrefused, Sound
<1> QED
  BY <1>1, <1>7, KeptHonest DEF HInv, FaithfulResolvents

LEMMA ChainDoneHonest ==
  ASSUME Valid, IInv, HInv, ChainDone
  PROVE  HInv'
<1>1. file' = file /\ ncls' = ncls
  BY SameFile DEF ChainDone
<1>2. /\ pc = "last" /\ pc' = "chain"
      /\ UNCHANGED <<clear_mem, errored>>
      /\ zero_hash' = IF i = ncls - 1
                      THEN Put(zero_hash, Equal(end_clause, <<0>>))
                      ELSE zero_hash
  BY DEF ChainDone, ram_vars
<1>3. i = ncls - 1 => Equal(end_clause, <<0>>)
  <2>1. Lits(end_clause) = LitsOf(i) /\ LitsOf(ncls - 1) = {}
    BY <1>2, EndWidth DEF Valid, ValidFile
  <2> QED
    BY <2>1, EmptyEqual
<1>4. Sound'
  BY <1>2, <1>3, PutHolds DEF HInv, Unrefused, Sound
<1> QED
  BY <1>1, <1>2, <1>4 DEF HInv, Unrefused, FaithfulClauses, Faithful,
     FaithfulAntecedents, FaithfulEnd, FaithfulResolvents, OwnBuild,
     ChainPhases

LEMMA LastCompareHonest ==
  ASSUME Valid, IInv, HInv, LastCompare
  PROVE  HInv'
<1>1. file' = file /\ ncls' = ncls
  BY SameFile DEF LastCompare
<1>2. pc = "chain" /\ UNCHANGED <<clear_mem, errored>>
  BY DEF LastCompare, ram_vars
<1>3. pc' = "final" /\ Sound'
  BY CompareHolds DEF LastCompare, HInv, Unrefused
<1> QED
  BY <1>1, <1>2, <1>3 DEF HInv, Unrefused, FaithfulClauses, Faithful,
     FaithfulAntecedents, FaithfulEnd, FaithfulResolvents, OwnBuild,
     ChainPhases

LEMMA FinalCheckHonest ==
  ASSUME Valid, IInv, MInv, HInv, FinalCheck
  PROVE  HInv'
<1>1. file' = file /\ ncls' = ncls
  BY SameFile DEF FinalCheck
<1>2. /\ pc = "final" /\ clear_mem' = clear_mem
      /\ pc' = IF errored' THEN "rejected" ELSE "accepted"
      /\ zero_hash' = Put(zero_hash, TRUE)
  BY MemoryKept DEF FinalCheck
<1>3. ~ errored'
  BY <1>2, MemoryHonest DEF HInv, Unrefused, ChainPhases, Next
<1>4. Sound'
  BY <1>2, PutHolds DEF HInv, Unrefused, Sound
<1> QED
  BY <1>1, <1>2, <1>3, <1>4 DEF HInv, Unrefused, FaithfulClauses, Faithful,
     FaithfulAntecedents, FaithfulEnd, FaithfulResolvents, OwnBuild,
     ChainPhases

LEMMA StutterHonest ==
  ASSUME HInv, UNCHANGED vars
  PROVE  HInv'
<1>1. /\ file' = file /\ ncls' = ncls /\ i' = i /\ support' = support
  BY SameFile DEF vars
<1>2. UNCHANGED <<pc, raw_formula, resource, end_clause, intermediate,
                  zero_hash, clear_mem, errored>>
  BY DEF vars, chain_vars, ram_vars
<1>3. \A x : LitsOf(x)' = LitsOf(x)
  BY <1>1 DEF LitsOf
<1>4. FaithfulAntecedents' /\ FaithfulEnd' /\ FaithfulResolvents'
  BY <1>1, <1>2, <1>3, SameResolvents
  DEF HInv, FaithfulAntecedents, FaithfulEnd, FaithfulResolvents
<1> QED
  BY <1>1, <1>2, <1>4 DEF HInv, Unrefused, FaithfulClauses, Faithful,
     OwnBuild, Sound

LEMMA SameValid ==
  ASSUME file' = file
  PROVE  Valid' = Valid
<1>1. ncls' = ncls /\ nres' = nres
  BY SameFile
<1>2. \A x : LitsOf(x)' = LitsOf(x)
  BY DEF LitsOf
<1>3. \A x, w : ValidChain(x, w)' = ValidChain(x, w)
  BY <1>2, SameResolvents DEF ValidChain
<1>4. pub_lits' = pub_lits
  BY DEF pub_lits
<1> QED
  BY <1>1, <1>2, <1>3, <1>4 DEF Valid, ValidFile

(* The honest prover of a correct refutation is never refused: for every   *)
(* DEGREE, every set of variables, every width of the indices and every    *)
(* file whose clauses and resolvents are narrower than DEGREE, each        *)
(* assertion of check_chain holds, each block of the accumulator is zero   *)
(* and each check of the memory passes, the automatic ones wherever they   *)
(* fall between two reads.                                                 *)
THEOREM HonestProverAccepted == Spec => []Completeness
<1> DEFINE J == IInv /\ MInv /\ (Valid => HInv)
<1>1. J => Completeness
  BY DEF Valid, HInv, Unrefused, Completeness
<1>2. Init => J
  BY InitTypes, MemoryInit, InitHonest
<1>3. J /\ [Next]_vars => J'
  <2> SUFFICES ASSUME J, [Next]_vars
               PROVE  J'
    OBVIOUS
  <2>1. IInv' /\ MInv'
    BY TypesStep, MemoryStep
  <2>2. Valid' = Valid
    BY FileKept, SameValid
  <2>3. ASSUME Valid, HInv
        PROVE  HInv'
    BY <2>3, CommitHonest, CommitDoneHonest, DisjointHonest,
       DisjointDoneHonest, CheckSATHonest, CheckSATDoneHonest,
       ChainStartHonest, FetchHonest, FetchEndHonest, UnfoldHonest,
       ResolveHonest, ResolveDoneHonest, CheckHonest, CheckDoneHonest,
       ChainDoneHonest, LastCompareHonest, FinalCheckHonest, StutterHonest
    DEF Next
  <2> QED
    BY <2>1, <2>2, <2>3
<1> QED
  BY <1>1, <1>2, <1>3, PTL DEF Spec
=============================================================================
