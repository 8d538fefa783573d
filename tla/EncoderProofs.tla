--------------------------- MODULE EncoderProofs ----------------------------
(***************************************************************************)
(* Proofs about module Encoder, for id ranges and digest tables of any     *)
(* size.                                                                   *)
(***************************************************************************)
EXTENDS Encoder, TLAPS

(* The ids init() has filled in.                                           *)
Done(p) == SecretStart .. next[p] - 1

Filled(p) == Done(p) \cup {-x : x \in Done(p)}

(* The word of a secret literal, as a function of the digests alone.       *)
SecretWord(p, v) ==
  IF v > 0 THEN compute_hash(digest[p][v])
  ELSE XorLit(compute_hash(digest[p][-v]))

(* The loop of init() has filled both maps up to next: what encode() needs *)
(* of the state.                                                           *)
FilledCorrectly ==
  \A p \in Party :
    /\ DOMAIN forward_map_[p] = Filled(p)
    /\ \A v \in Filled(p) : forward_map_[p][v] = SecretWord(p, v)

(* The reverse map has the words of the same literals, each with a literal *)
(* of its own when no two collide: what decode() needs.                    *)
Reversed(p) ==
  /\ DOMAIN reverse_map_[p] = {SecretWord(p, v) : v \in Filled(p)}
  /\ \A w \in DOMAIN reverse_map_[p] : reverse_map_[p][w] \in Filled(p)
  /\ NoCollision(p) =>
       \A v \in Filled(p) : reverse_map_[p][SecretWord(p, v)] = v

ReversedCorrectly == \A p \in Party : Reversed(p)

Types ==
  /\ digest \in [Party -> [Secret -> Digest]]
  /\ next \in [Party -> Nat]
  /\ \A p \in Party : next[p] >= SecretStart /\ Done(p) \subseteq Secret
  /\ DOMAIN forward_map_ = Party
  /\ DOMAIN reverse_map_ = Party

IInv == Types /\ FilledCorrectly /\ ReversedCorrectly

LEMMA Constants ==
  /\ SecretStart \in Nat /\ SecretStart > 0
  /\ SecretEnd \in Nat /\ MaxId \in Nat /\ LowRange \in Nat
  /\ SecretEnd <= MaxId /\ MaxId < LowRange
BY EncoderAssumption

LEMMA DigestType ==
  ASSUME Types, NEW p \in Party, NEW x \in Secret
  PROVE  /\ digest[p][x].lit \in {0, 1}
         /\ digest[p][x].val \in 0 .. LowRange - 1
         /\ digest[p][x].val \in Nat
<1>1. digest[p][x] \in Digest /\ Digest \subseteq Words
  BY EncoderAssumption DEF Types
<1>2. digest[p][x] \in Words
  BY <1>1
<1> QED
  BY <1>2, Constants DEF Words

(* The word of a secret literal, field by field.                           *)
LEMMA SecretWordFields ==
  ASSUME Types, NEW p \in Party, NEW x \in Secret, NEW v, v = x \/ v = -x
  PROVE  LET d == digest[p][x]
         IN  /\ v \in Ids
             /\ v > 0 <=> v = x
             /\ SecretWord(p, v) =
                   [pub |-> 0, lit |-> IF v > 0 THEN d.lit ELSE 1 - d.lit,
                    val |-> d.val]
             /\ SecretWord(p, v) \in Words
<1> DEFINE d == digest[p][x]
<1>1. /\ x \in Nat /\ x > 0 /\ v \in Int /\ v \in Ids
      /\ v > 0 <=> v = x
      /\ ~ (v > 0) => -v = x
  BY Constants DEF Secret, Ids
<1>2. d.lit \in {0, 1} /\ d.val \in 0 .. LowRange - 1
  BY DigestType
<1>3. SecretWord(p, v) =
        IF v > 0 THEN compute_hash(d) ELSE XorLit(compute_hash(d))
  BY <1>1 DEF SecretWord
<1>4. SecretWord(p, v) =
        [pub |-> 0, lit |-> IF v > 0 THEN d.lit ELSE 1 - d.lit,
         val |-> d.val]
  BY <1>3 DEF compute_hash, XorLit
<1>5. (IF v > 0 THEN d.lit ELSE 1 - d.lit) \in {0, 1}
  BY <1>2
<1> QED
  BY <1>1, <1>2, <1>4, <1>5 DEF Words

(* Without collisions different secret literals have different words.      *)
LEMMA SecretWordsDiffer ==
  ASSUME Types, NEW p \in Party, NoCollision(p),
         NEW x \in Secret, NEW y \in Secret,
         NEW u, u = x \/ u = -x, NEW v, v = y \/ v = -y,
         SecretWord(p, u) = SecretWord(p, v)
  PROVE  u = v
<1>1. /\ SecretWord(p, u).val = digest[p][x].val
      /\ SecretWord(p, v).val = digest[p][y].val
  BY SecretWordFields
<1>2. x = y
  BY <1>1 DEF NoCollision
<1> DEFINE d == digest[p][x]
<1>3. /\ SecretWord(p, u).lit = IF u > 0 THEN d.lit ELSE 1 - d.lit
      /\ SecretWord(p, v).lit = IF v > 0 THEN d.lit ELSE 1 - d.lit
      /\ u > 0 <=> u = x
      /\ v > 0 <=> v = x
  BY <1>2, SecretWordFields
<1>4. d.lit \in {0, 1}
  BY DigestType
<1>5. u > 0 <=> v > 0
  BY <1>3, <1>4
<1> QED
  BY <1>2, <1>3, <1>5

LEMMA InitInvariant == Init => IInv
<1> SUFFICES ASSUME Init
             PROVE  IInv
  OBVIOUS
<1>1. Types
  BY Constants DEF Init, Types, Done
<1>2. ASSUME NEW p \in Party
      PROVE  /\ DOMAIN forward_map_[p] = Filled(p)
             /\ \A v \in Filled(p) : forward_map_[p][v] = SecretWord(p, v)
             /\ DOMAIN reverse_map_[p] = {SecretWord(p, v) : v \in Filled(p)}
             /\ \A w \in DOMAIN reverse_map_[p] :
                  reverse_map_[p][w] \in Filled(p)
  <2>1. Done(p) = {}
    BY Constants DEF Init, Done
  <2>2. Filled(p) = {}
    BY <2>1 DEF Filled
  <2>3. DOMAIN forward_map_[p] = {} /\ DOMAIN reverse_map_[p] = {}
    BY DEF Init
  <2> QED
    BY <2>2, <2>3
<1>3. \A p \in Party : Filled(p) = {}
  BY Constants DEF Init, Done, Filled
<1> QED
  BY <1>1, <1>2, <1>3 DEF IInv, FilledCorrectly, ReversedCorrectly, Reversed

(* One iteration fills in the two literals of its id and no other.         *)
LEMMA InitStepInvariant ==
  ASSUME IInv, NEW p \in Party, InitStep(p)
  PROVE  IInv'
<1> DEFINE i    == next[p]
           hash == compute_hash(digest[p][i])
           m    == forward_map_[p]
           r    == reverse_map_[p]
<1>1. /\ i \in Nat /\ i >= SecretStart /\ i <= SecretEnd /\ i > 0
      /\ next' = [next EXCEPT ![p] = i + 1]
      /\ UNCHANGED digest
      /\ forward_map_' = [forward_map_ EXCEPT ![p] =
                            Put(Put(m, i, hash), -i, XorLit(hash))]
      /\ reverse_map_' = [reverse_map_ EXCEPT ![p] =
                            Put(Put(r, hash, i), XorLit(hash), -i)]
  BY Constants DEF IInv, Types, InitStep
<1>2. next'[p] = i + 1 /\ \A q \in Party : q # p => next'[q] = next[q]
  BY <1>1 DEF IInv, Types
<1>3. Types'
  <2>1. Done(p)' \subseteq Secret
    BY <1>1, <1>2, Constants DEF Done, Secret
  <2>2. \A q \in Party : q # p => Done(q)' = Done(q)
    BY <1>2 DEF Done
  <2> QED
    BY <1>1, <1>2, <2>1, <2>2, Constants DEF IInv, Types
<1>4. /\ forward_map_'[p] = Put(Put(m, i, hash), -i, XorLit(hash))
      /\ reverse_map_'[p] = Put(Put(r, hash, i), XorLit(hash), -i)
  BY <1>1 DEF IInv, Types
<1>5. ASSUME NEW q \in Party, q # p
      PROVE  /\ DOMAIN forward_map_'[q] = Filled(q)'
             /\ \A v \in Filled(q)' : forward_map_'[q][v] = SecretWord(q, v)'
             /\ Reversed(q)'
  <2>1. /\ forward_map_'[q] = forward_map_[q] /\ next'[q] = next[q]
        /\ reverse_map_'[q] = reverse_map_[q]
    BY <1>1, <1>2, <1>5 DEF IInv, Types
  <2>2. Filled(q)' = Filled(q) /\ \A v : SecretWord(q, v)' = SecretWord(q, v)
    BY <1>1, <2>1 DEF Filled, Done, SecretWord
  <2>3. NoCollision(q)' <=> NoCollision(q)
    BY <1>1 DEF NoCollision
  <2>4. Reversed(q)
    BY DEF IInv, ReversedCorrectly
  <2> QED
    BY <2>1, <2>2, <2>3, <2>4 DEF IInv, FilledCorrectly, Reversed
<1>6. /\ DOMAIN forward_map_'[p] = Filled(p)'
      /\ \A v \in Filled(p)' : forward_map_'[p][v] = SecretWord(p, v)'
  <2>1. Done(p)' = Done(p) \cup {i}
    BY <1>1, <1>2, Constants DEF Done
  <2>2. Filled(p)' = Filled(p) \cup {i, -i}
    BY <2>1 DEF Filled
  <2>3. DOMAIN m = Filled(p) /\ \A v \in Filled(p) : m[v] = SecretWord(p, v)
    BY DEF IInv, FilledCorrectly
  <2>4. DOMAIN forward_map_'[p] = Filled(p) \cup {i, -i}
    BY <1>4, <2>3 DEF Put
  <2>5. \A v : SecretWord(p, v)' = SecretWord(p, v)
    BY <1>1 DEF SecretWord
  <2>6. SecretWord(p, i) = hash /\ SecretWord(p, -i) = XorLit(hash)
    <3>1. i > 0 /\ ~ (-i > 0) /\ -(-i) = i
      BY <1>1
    <3> QED
      BY <3>1 DEF SecretWord
  <2>7. i # -i
    BY <1>1
  <2>8. /\ forward_map_'[p][-i] = XorLit(hash)
        /\ forward_map_'[p][i] = hash
        /\ \A v \in Filled(p) \ {i, -i} : forward_map_'[p][v] = m[v]
    BY <1>4, <2>3, <2>7 DEF Put
  <2> QED
    BY <2>2, <2>3, <2>4, <2>5, <2>6, <2>8
<1>7. Reversed(p)'
  <2> DEFINE neg == XorLit(hash)
  <2>1. Filled(p)' = Filled(p) \cup {i, -i}
    <3>1. Done(p)' = Done(p) \cup {i}
      BY <1>1, <1>2, Constants DEF Done
    <3> QED
      BY <3>1 DEF Filled
  <2>2. /\ \A v : SecretWord(p, v)' = SecretWord(p, v)
        /\ NoCollision(p)' <=> NoCollision(p)
    BY <1>1 DEF SecretWord, NoCollision
  <2>3. SecretWord(p, i) = hash /\ SecretWord(p, -i) = neg
    <3>1. i > 0 /\ ~ (-i > 0) /\ -(-i) = i
      BY <1>1
    <3> QED
      BY <3>1 DEF SecretWord
  <2>4. Reversed(p) /\ i \in Secret /\ Done(p) \subseteq Secret /\ i # -i
    BY <1>1 DEF IInv, Types, ReversedCorrectly, Secret
  <2> HIDE DEF hash, neg, r
  <2>5. /\ DOMAIN reverse_map_'[p] = DOMAIN r \cup {hash, neg}
        /\ reverse_map_'[p][neg] = -i
        /\ hash # neg => reverse_map_'[p][hash] = i
        /\ \A w \in DOMAIN r \ {hash, neg} : reverse_map_'[p][w] = r[w]
    BY <1>4 DEF Put, neg
  <2>6. DOMAIN reverse_map_'[p]
          = {SecretWord(p, v) : v \in Filled(p) \cup {i, -i}}
    BY <2>3, <2>4, <2>5 DEF Reversed, r
  <2>7. \A w \in DOMAIN reverse_map_'[p] :
          reverse_map_'[p][w] \in Filled(p) \cup {i, -i}
    BY <2>4, <2>5 DEF Reversed, r
  <2>8. ASSUME NoCollision(p), NEW v \in Filled(p) \cup {i, -i}
        PROVE  reverse_map_'[p][SecretWord(p, v)] = v
    <3>1. PICK y \in Secret : v = y \/ v = -y
      BY <2>4 DEF Filled
    <3>2. Types
      BY DEF IInv
    <3>3. ASSUME v # i, v # -i
          PROVE  SecretWord(p, v) \notin {hash, neg}
      <4>1. SecretWord(p, v) # SecretWord(p, i)
        BY <3>1, <3>2, <3>3, <2>4, <2>8, SecretWordsDiffer
      <4>2. SecretWord(p, v) # SecretWord(p, -i)
        BY <3>1, <3>2, <3>3, <2>4, <2>8, SecretWordsDiffer
      <4> QED
        BY <4>1, <4>2, <2>3
    <3>4. hash # neg
      <4>1. SecretWord(p, i) # SecretWord(p, -i)
        BY <3>2, <2>4, <2>8, SecretWordsDiffer
      <4> QED
        BY <4>1, <2>3
    <3>5. CASE v # i /\ v # -i
      <4>1. v \in Filled(p) /\ SecretWord(p, v) \in DOMAIN r
        BY <3>5, <2>4 DEF Reversed, r
      <4>2. r[SecretWord(p, v)] = v
        BY <4>1, <2>4, <2>8 DEF Reversed, r
      <4> QED
        BY <4>1, <4>2, <3>3, <3>5, <2>5
    <3> QED
      BY <3>4, <3>5, <2>3, <2>5
  <2> QED
    BY <2>1, <2>2, <2>6, <2>7, <2>8 DEF Reversed
<1> QED
  BY <1>3, <1>5, <1>6, <1>7 DEF IInv, FilledCorrectly, ReversedCorrectly

LEMMA StepInvariant == IInv /\ [Next]_vars => IInv'
<1> SUFFICES ASSUME IInv, [Next]_vars
             PROVE  IInv'
  OBVIOUS
<1>1. CASE Next
  BY <1>1, InitStepInvariant DEF Next
<1>2. CASE UNCHANGED vars
  BY <1>2 DEF vars, IInv, Types, FilledCorrectly, ReversedCorrectly, Reversed,
       NoCollision, Filled, Done, SecretWord
<1> QED
  BY <1>1, <1>2

-----------------------------------------------------------------------------
(* The three fields of a word, for every literal.                          *)
IsSecret(v) == v # 0 /\ secret_range_check(v)
IsPublic(v) == v # 0 /\ ~ secret_range_check(v)

LEMMA AbsFacts ==
  ASSUME NEW v \in Ids
  PROVE  /\ v \in Int
         /\ Abs(v) \in Nat
         /\ Abs(-v) = Abs(v)
         /\ v > 0 => Abs(v) = v
         /\ ~ (v > 0) => Abs(v) = -v
         /\ v # 0 => Abs(v) > 0
         /\ -v \in Ids
BY Constants DEF Ids, Abs

LEMMA SecretFields ==
  ASSUME IInv, NEW p \in Party, Ready(p), NEW v \in Ids, IsSecret(v)
  PROVE  LET d == digest[p][Abs(v)]
         IN  /\ Abs(v) \in Secret
             /\ encode(p, v) =
                   [pub |-> 0, lit |-> IF v > 0 THEN d.lit ELSE 1 - d.lit,
                    val |-> d.val]
<1>1. v \in Int /\ Abs(v) \in Secret
  BY AbsFacts, Constants DEF IsSecret, secret_range_check, Secret
<1>2. next[p] \in Nat /\ next[p] > SecretEnd
  BY DEF IInv, Types, Ready
<1>3. Abs(v) \in Done(p)
  BY <1>1, <1>2, Constants DEF Done, Secret
<1>4. v = Abs(v) \/ v = -Abs(v)
  BY AbsFacts
<1>5. v \in Filled(p)
  BY <1>3, <1>4 DEF Filled
<1>6. encode(p, v) = SecretWord(p, v)
  BY <1>5 DEF IInv, FilledCorrectly, encode, IsSecret
<1>7. SecretWord(p, v) =
        IF v > 0 THEN compute_hash(digest[p][Abs(v)])
        ELSE XorLit(compute_hash(digest[p][Abs(v)]))
  BY AbsFacts DEF SecretWord
<1> QED
  BY <1>1, <1>6, <1>7 DEF compute_hash, XorLit

LEMMA PublicFields ==
  ASSUME NEW p, NEW v \in Ids, IsPublic(v)
  PROVE  encode(p, v) =
           [pub |-> 1, lit |-> IF v > 0 THEN 0 ELSE 1, val |-> Abs(v)]
<1>1. v \in Int /\ v # 0 /\ ~ secret_range_check(v)
  BY AbsFacts DEF IsPublic
<1>2. encode(p, v) =
        [pub |-> 1, lit |-> IF v < 0 THEN 1 ELSE 0, val |-> Abs(v)]
  BY <1>1 DEF encode
<1> QED
  BY <1>1, <1>2

LEMMA ZeroFields ==
  ASSUME NEW p
  PROVE  encode(p, 0) = [pub |-> 0, lit |-> 0, val |-> 0]
BY DEF encode, ZeroWord

LEMMA Kinds ==
  ASSUME NEW v \in Ids
  PROVE  v = 0 \/ IsSecret(v) \/ IsPublic(v)
BY DEF IsSecret, IsPublic

(* Equal words come from literals of the same kind, hence from the same    *)
(* variable, and then from the same sign.                                  *)
LEMMA InjectiveWords ==
  ASSUME IInv, NEW p \in Party, Ready(p), NoCollision(p),
         NEW u \in Ids, NEW v \in Ids, encode(p, u) = encode(p, v)
  PROVE  u = v
<1>1. CASE u = 0 /\ v = 0
  BY <1>1
<1>2. ASSUME NEW a \in Ids, IsSecret(a), NEW b \in Ids, b = 0 \/ IsPublic(b)
      PROVE  encode(p, a) # encode(p, b)
  <2>1. /\ encode(p, a).pub = 0 /\ encode(p, a).val # 0
    BY <1>2, SecretFields DEF NoCollision
  <2>2. CASE b = 0
    BY <2>1, <2>2, ZeroFields
  <2>3. CASE IsPublic(b)
    BY <2>1, <2>3, PublicFields
  <2> QED
    BY <1>2, <2>2, <2>3
<1>3. ASSUME NEW a \in Ids, IsPublic(a)
      PROVE  encode(p, a) # encode(p, 0)
  BY <1>3, PublicFields, ZeroFields
<1>4. CASE IsSecret(u) /\ IsSecret(v)
  <2>1. /\ encode(p, u).val = digest[p][Abs(u)].val
        /\ encode(p, v).val = digest[p][Abs(v)].val
        /\ Abs(u) \in Secret /\ Abs(v) \in Secret
    BY <1>4, SecretFields
  <2>2. Abs(u) = Abs(v)
    BY <2>1 DEF NoCollision
  <2>3. digest[p][Abs(u)].lit \in {0, 1}
    BY <2>1, DigestType DEF IInv
  <2>4. /\ encode(p, u).lit = IF u > 0 THEN digest[p][Abs(u)].lit
                              ELSE 1 - digest[p][Abs(u)].lit
        /\ encode(p, v).lit = IF v > 0 THEN digest[p][Abs(u)].lit
                              ELSE 1 - digest[p][Abs(u)].lit
    BY <1>4, <2>2, SecretFields
  <2>5. u > 0 <=> v > 0
    BY <2>3, <2>4
  <2> QED
    BY <2>2, <2>5, AbsFacts
<1>5. CASE IsPublic(u) /\ IsPublic(v)
  <2>1. /\ Abs(u) = Abs(v)
        /\ (IF u > 0 THEN 0 ELSE 1) = (IF v > 0 THEN 0 ELSE 1)
    BY <1>5, PublicFields
  <2> QED
    BY <2>1, AbsFacts
<1> QED
  BY <1>1, <1>2, <1>3, <1>4, <1>5, Kinds

(* Two variables with the same low bits share a word up to the sign.       *)
LEMMA EqualLowBitsMerge ==
  ASSUME IInv, NEW p \in Party, Ready(p), NEW a \in Secret, NEW b \in Secret,
         a # b, digest[p][a].val = digest[p][b].val
  PROVE  ~ Injective(p)
<1> DEFINE s == digest[p][a].lit
           t == digest[p][b].lit
<1>1. /\ a \in Ids /\ b \in Ids /\ -b \in Ids /\ a > 0 /\ b > 0 /\ ~ (-b > 0)
      /\ IsSecret(a) /\ IsSecret(b) /\ IsSecret(-b)
      /\ Abs(a) = a /\ Abs(b) = b /\ Abs(-b) = b /\ a # -b
  BY Constants DEF Secret, Ids, IsSecret, secret_range_check, Abs
<1>2. /\ encode(p, a)  = [pub |-> 0, lit |-> s, val |-> digest[p][a].val]
      /\ encode(p, b)  = [pub |-> 0, lit |-> t, val |-> digest[p][a].val]
      /\ encode(p, -b) = [pub |-> 0, lit |-> 1 - t, val |-> digest[p][a].val]
  BY <1>1, SecretFields
<1>3. s = t \/ s = 1 - t
  BY DigestType DEF IInv
<1>4. encode(p, a) = encode(p, b) \/ encode(p, a) = encode(p, -b)
  BY <1>2, <1>3
<1> QED
  BY <1>1, <1>4 DEF Injective

(* A variable whose low bits are all zero has the padding word, with one   *)
(* sign or the other.                                                      *)
LEMMA ZeroLowBitsMerge ==
  ASSUME IInv, NEW p \in Party, Ready(p), NEW a \in Secret,
         digest[p][a].val = 0
  PROVE  ~ Injective(p)
<1> DEFINE s == digest[p][a].lit
<1>1. /\ a \in Ids /\ -a \in Ids /\ 0 \in Ids /\ a > 0 /\ ~ (-a > 0)
      /\ IsSecret(a) /\ IsSecret(-a) /\ Abs(a) = a /\ Abs(-a) = a
      /\ a # 0 /\ -a # 0
  BY Constants DEF Secret, Ids, IsSecret, secret_range_check, Abs
<1>2. /\ encode(p, a)  = [pub |-> 0, lit |-> s, val |-> 0]
      /\ encode(p, -a) = [pub |-> 0, lit |-> 1 - s, val |-> 0]
      /\ encode(p, 0)  = [pub |-> 0, lit |-> 0, val |-> 0]
  BY <1>1, SecretFields, ZeroFields
<1>3. s = 0 \/ 1 - s = 0
  BY DigestType DEF IInv
<1>4. encode(p, a) = encode(p, 0) \/ encode(p, -a) = encode(p, 0)
  BY <1>2, <1>3
<1> QED
  BY <1>1, <1>4 DEF Injective

(* Different literals have different words and none has the padding word,  *)
(* for id ranges of any size, exactly when the keyed hash does not collide *)
(* on the 62 low bits.                                                     *)
THEOREM EncodingInjective == Spec => []EncodeInjective
<1>1. ASSUME IInv, NEW p \in Party, Ready(p)
      PROVE  NoCollision(p) <=> Injective(p)
  <2>1. NoCollision(p) => Injective(p)
    BY <1>1, InjectiveWords DEF Injective
  <2>2. ASSUME ~ NoCollision(p)
        PROVE  ~ Injective(p)
    BY <1>1, <2>2, EqualLowBitsMerge, ZeroLowBitsMerge DEF NoCollision
  <2> QED
    BY <2>1, <2>2
<1>2. IInv => EncodeInjective
  BY <1>1 DEF EncodeInjective
<1> QED
  BY <1>2, InitInvariant, StepInvariant, PTL DEF Spec

LEMMA NegatedWord ==
  ASSUME IInv, NEW p \in Party, Ready(p), NoCollision(p), NEW v \in Ids
  PROVE  get_negate(encode(p, v)) = encode(p, -v)
<1>1. CASE v = 0
  BY <1>1, ZeroFields DEF get_negate, ZeroWord
<1>2. CASE IsSecret(v)
  <2>1. -v \in Ids /\ IsSecret(-v) /\ Abs(-v) = Abs(v) /\ v \in Int /\ v # 0
    BY <1>2, AbsFacts DEF IsSecret, secret_range_check
  <2> DEFINE d == digest[p][Abs(v)]
  <2>2. /\ Abs(v) \in Secret
        /\ encode(p, v) =
              [pub |-> 0, lit |-> IF v > 0 THEN d.lit ELSE 1 - d.lit,
               val |-> d.val]
    BY <1>2, SecretFields
  <2>3. encode(p, -v) =
           [pub |-> 0, lit |-> IF -v > 0 THEN d.lit ELSE 1 - d.lit,
            val |-> d.val]
    BY <2>1, SecretFields
  <2>4. d.lit \in {0, 1} /\ d.val # 0
    BY <2>2, DigestType DEF IInv, NoCollision
  <2> HIDE DEF d
  <2>5. encode(p, v) # ZeroWord
    BY <2>2, <2>4 DEF ZeroWord
  <2>6. get_negate(encode(p, v)) =
          [pub |-> 0, lit |-> 1 - (IF v > 0 THEN d.lit ELSE 1 - d.lit),
           val |-> d.val]
    BY <2>2, <2>5 DEF get_negate, XorLit
  <2>7. 1 - (IF v > 0 THEN d.lit ELSE 1 - d.lit)
          = (IF -v > 0 THEN d.lit ELSE 1 - d.lit)
    BY <2>1, <2>4
  <2> QED
    BY <2>3, <2>6, <2>7
<1>3. CASE IsPublic(v)
  <2>1. -v \in Ids /\ IsPublic(-v) /\ Abs(-v) = Abs(v) /\ v \in Int /\ v # 0
    BY <1>3, AbsFacts DEF IsPublic, secret_range_check
  <2>2. encode(p, v) =
          [pub |-> 1, lit |-> IF v > 0 THEN 0 ELSE 1, val |-> Abs(v)]
    BY <1>3, PublicFields
  <2>3. encode(p, -v) =
          [pub |-> 1, lit |-> IF -v > 0 THEN 0 ELSE 1, val |-> Abs(v)]
    BY <2>1, PublicFields
  <2>4. encode(p, v) # ZeroWord
    BY <2>2 DEF ZeroWord
  <2>5. get_negate(encode(p, v)) =
          [pub |-> 1, lit |-> 1 - (IF v > 0 THEN 0 ELSE 1), val |-> Abs(v)]
    BY <2>2, <2>4 DEF get_negate, XorLit
  <2>6. 1 - (IF v > 0 THEN 0 ELSE 1) = (IF -v > 0 THEN 0 ELSE 1)
    BY <2>1
  <2> QED
    BY <2>3, <2>5, <2>6
<1> QED
  BY <1>1, <1>2, <1>3, Kinds

(* Negating a word is encoding the negated literal: the pivot and its      *)
(* negation that check_xres lifts by are the encodings of p and -p.        *)
THEOREM NegationIsEncoding == Spec => []NegationCommutes
<1>1. IInv => NegationCommutes
  BY NegatedWord DEF NegationCommutes
<1> QED
  BY <1>1, InitInvariant, StepInvariant, PTL DEF Spec

(* What init() stores are literals of the formula and words of 62 low bits.*)
THEOREM TypeCorrect == Spec => []TypeOK
<1>1. ASSUME IInv
      PROVE  TypeOK
  <2>1. digest \in [Party -> [Secret -> Digest]] /\ Types
    BY <1>1 DEF IInv, Types
  <2>2. ASSUME NEW p \in Party
        PROVE  /\ next[p] \in Int
               /\ \A v \in Filled(p) : v \in Ids /\ SecretWord(p, v) \in Words
               /\ DOMAIN forward_map_[p] = Filled(p)
               /\ \A v \in Filled(p) : forward_map_[p][v] = SecretWord(p, v)
               /\ Reversed(p)
    <3>1. ASSUME NEW v \in Filled(p)
          PROVE  v \in Ids /\ SecretWord(p, v) \in Words
      <4>1. PICK x \in Secret : v = x \/ v = -x
        BY <2>1 DEF Types, Filled
      <4> QED
        BY <4>1, <2>1, SecretWordFields
    <3> QED
      BY <1>1, <2>1, <3>1
         DEF IInv, Types, FilledCorrectly, ReversedCorrectly
  <2> QED
    BY <2>1, <2>2 DEF TypeOK, Reversed
<1> QED
  BY <1>1, InitInvariant, StepInvariant, PTL DEF Spec

(* The parties agree on the words of the public literals, and no secret    *)
(* literal of the prover has one of them, whatever the two keys are and    *)
(* also when the hash collides: sync_key() is not needed.                  *)
THEOREM PublicLiteralsAgree == Spec => []PublicLiteralsShared
<1>1. ASSUME IInv, Ready(ALICE), NEW v \in Public, NEW s \in {v, -v}
      PROVE  /\ encode(ALICE, s) = encode(BOB, s)
             /\ encode(BOB, s).pub = 1
  <2>1. s \in Ids /\ IsPublic(s)
    BY Constants
       DEF Public, Secret, Ids, IsPublic, secret_range_check, Abs
  <2>2. \A p : encode(p, s) =
                [pub |-> 1, lit |-> IF s > 0 THEN 0 ELSE 1, val |-> Abs(s)]
    BY <2>1, PublicFields
  <2> QED
    BY <2>2
<1>2. ASSUME IInv, Ready(ALICE), NEW x \in Secret, NEW t \in {x, -x}
      PROVE  encode(ALICE, t).pub = 0
  <2>1. t \in Ids /\ IsSecret(t)
    BY Constants DEF Secret, Ids, IsSecret, secret_range_check, Abs
  <2>2. ALICE \in Party
    BY DEF Party
  <2> QED
    BY <1>2, <2>1, <2>2, SecretFields
<1>3. IInv => PublicLiteralsShared
  BY <1>1, <1>2 DEF PublicLiteralsShared
<1> QED
  BY <1>3, InitInvariant, StepInvariant, PTL DEF Spec

(* decode() is the inverse of encode() on the secret literals when the     *)
(* hash does not collide: no iteration of init() overwrites the reverse    *)
(* entry of an earlier one.                                                *)
THEOREM DecodingInvertsSecret == Spec => []DecodeInvertsSecret
<1>1. ASSUME IInv, NEW p \in Party, Ready(p), NoCollision(p),
             NEW x \in Secret, NEW t \in {x, -x}
      PROVE  decode(p, encode(p, t)) = t
  <2>1. /\ t \in Ids /\ IsSecret(t) /\ t \in Int /\ Abs(t) = x
    BY Constants DEF Secret, Ids, IsSecret, secret_range_check, Abs
  <2>2. x \in Done(p)
    BY <1>1, Constants DEF IInv, Types, Ready, Done, Secret
  <2>3. t \in Filled(p)
    BY <2>2 DEF Filled
  <2>4. encode(p, t) = SecretWord(p, t)
    BY <1>1, <2>1, <2>3 DEF IInv, FilledCorrectly, encode, IsSecret
  <2>5. encode(p, t).pub = 0 /\ encode(p, t).val # 0
    BY <1>1, <2>1, SecretFields DEF NoCollision
  <2>6. decode(p, encode(p, t)) = reverse_map_[p][encode(p, t)]
    BY <2>5 DEF decode, ZeroWord
  <2> QED
    BY <1>1, <2>3, <2>4, <2>6 DEF IInv, ReversedCorrectly, Reversed
<1>2. IInv => DecodeInvertsSecret
  BY <1>1 DEF DecodeInvertsSecret
<1> QED
  BY <1>2, InitInvariant, StepInvariant, PTL DEF Spec
=============================================================================
