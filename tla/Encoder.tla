------------------------------ MODULE Encoder ------------------------------
(***************************************************************************)
(* The literal encoder (encoder.hpp) of the two parties.                   *)
(*                                                                         *)
(* A DIMACS literal v (an int) becomes a 64-bit word.  The words are       *)
(* modelled by the three fields the code reads and writes:                 *)
(*   pub  bit 63, CONSTANT_PUB / MSB_MASK: set on every public literal;    *)
(*   lit  bit 62, CONSTANT_LIT / SMSB_MASK: the sign; negating a word      *)
(*        flips it;                                                        *)
(*   val  the remaining 62 bits, as a number below LowRange.               *)
(* A secret variable is encoded by a keyed hash of its id, a public one    *)
(* by its id.  The hash (libsodium's crypto_shorthash) is any function:    *)
(* each party draws its own key in the constructor, so the two digest      *)
(* tables are chosen independently in Init.                                *)
(***************************************************************************)
EXTENDS Integers

CONSTANTS
  SecretStart,   (* first id of the secret range, input_lit + 1            *)
  SecretEnd,     (* last id of the secret range, input_lit + c1_lit        *)
  MaxId,         (* last id of the formula, public_end                     *)
  LowRange,      (* number of values of the 62 low bits                    *)
  Digest         (* the words crypto_shorthash may return                  *)

Words == [pub : {0, 1}, lit : {0, 1}, val : 0 .. LowRange - 1]

ASSUME EncoderAssumption ==
  /\ SecretStart \in Nat \ {0}
  /\ SecretEnd \in Nat
  /\ MaxId \in Nat
  /\ LowRange \in Nat
  /\ SecretEnd <= MaxId
  /\ MaxId < LowRange
  /\ Digest \subseteq Words

ALICE == "ALICE"
BOB   == "BOB"
Party == {ALICE, BOB}

Secret == SecretStart .. SecretEnd
Public == (1 .. MaxId) \ Secret
Ids    == -MaxId .. MaxId

VARIABLES
  digest,        (* crypto_shorthash under each party's key, on Secret     *)
  next,          (* the loop index of init()                               *)
  forward_map_,  (* secret literal -> word                                 *)
  reverse_map_   (* word -> secret literal                                 *)

vars == <<digest, next, forward_map_, reverse_map_>>

ZeroWord == [pub |-> 0, lit |-> 0, val |-> 0]

(* Faulty variants: a sign bit added, or dropped, instead of flipped.      *)
XorLitAdds(w) == [pub |-> w.pub, lit |-> w.lit + 1, val |-> w.val]
XorLitDrops(w) == w

XorLit(w) == [pub |-> w.pub, lit |-> 1 - w.lit, val |-> w.val]

(* Faulty variant: bit 63 of the digest is not cleared.                    *)
compute_hash_unmasked(d) == d

(* The digest with the most significant bit cleared.                       *)
compute_hash(d) == [pub |-> 0, lit |-> d.lit, val |-> d.val]

(* m[k] = v on an unordered_map.                                           *)
Put(m, k, v) == [x \in DOMAIN m \cup {k} |-> IF x = k THEN v ELSE m[x]]

Abs(v) == IF v < 0 THEN -v ELSE v

secret_range_check(v) == SecretStart <= Abs(v) /\ Abs(v) <= SecretEnd

encode(p, v) ==
  CASE v = 0                             -> ZeroWord
    [] v # 0 /\ secret_range_check(v)    -> forward_map_[p][v]
    [] v # 0 /\ ~ secret_range_check(v)  ->
         [pub |-> 1, lit |-> IF v < 0 THEN 1 ELSE 0, val |-> Abs(v)]

(* A word no party's map knows makes decode throw: no literal is returned. *)
decode(p, w) ==
  CASE w = ZeroWord                 -> 0
    [] w # ZeroWord /\ w.pub = 1    -> IF w.lit = 1 THEN w.val ELSE -w.val
    [] w # ZeroWord /\ w.pub = 0    -> reverse_map_[p][w]

(* Faulty variant: the padding word is negated like any other.             *)
get_negate_padding(w) == XorLit(w)

(* clause.h: the padding word is its own negation.                         *)
get_negate(w) == IF w = ZeroWord THEN w ELSE XorLit(w)

-----------------------------------------------------------------------------
(* The constructor: crypto_shorthash_keygen fixes the party's hash.        *)
Init ==
  /\ digest \in [Party -> [Secret -> Digest]]
  /\ next = [p \in Party |-> SecretStart]
  /\ forward_map_ = [p \in Party |-> <<>>]
  /\ reverse_map_ = [p \in Party |-> <<>>]

(* One iteration of the loop of init().                                    *)
InitStep(p) ==
  LET i == next[p]
      hash == compute_hash(digest[p][i])
      hash_neg == XorLit(hash)
  IN  /\ i <= SecretEnd
      /\ forward_map_' = [forward_map_ EXCEPT ![p] =
                            Put(Put(@, i, hash), -i, hash_neg)]
      /\ reverse_map_' = [reverse_map_ EXCEPT ![p] =
                            Put(Put(@, hash, i), hash_neg, -i)]
      /\ next' = [next EXCEPT ![p] = i + 1]
      /\ UNCHANGED digest

Next == \E p \in Party : InitStep(p)

Spec == Init /\ [][Next]_vars

-----------------------------------------------------------------------------
(* init() has returned.                                                    *)
Ready(p) == next[p] > SecretEnd

(* No two secret variables share their 62 low bits and none has them all   *)
(* zero: the words of the variables, their negations and the padding word  *)
(* are then pairwise different.                                            *)
NoCollision(p) ==
  /\ \A a, b \in Secret : digest[p][a].val = digest[p][b].val => a = b
  /\ \A a \in Secret : digest[p][a].val # 0

Injective(p) == \A u, v \in Ids : encode(p, u) = encode(p, v) => u = v

TypeOK ==
  /\ digest \in [Party -> [Secret -> Digest]]
  /\ \A p \in Party :
       /\ next[p] \in Int
       /\ DOMAIN forward_map_[p] \subseteq Ids
       /\ \A v \in DOMAIN forward_map_[p] : forward_map_[p][v] \in Words
       /\ DOMAIN reverse_map_[p] \subseteq Words
       /\ \A w \in DOMAIN reverse_map_[p] : reverse_map_[p][w] \in Ids

(* Two different literals never get the same word, and no literal gets the *)
(* padding word 0, unless the keyed hash collides on the 62 low bits, and  *)
(* then two literals do share a word (init() never detects it): encode()   *)
(* after init() is injective exactly when NoCollision holds.               *)
EncodeInjective ==
  \A p \in Party : Ready(p) => (NoCollision(p) <=> Injective(p))

(* Negating the word (get_negate, and the shift by constant_lit in         *)
(* ConverseCheck) is encoding the negated literal, for every literal of    *)
(* the formula, public or secret.                                          *)
NegationCommutes ==
  \A p \in Party : Ready(p) /\ NoCollision(p) =>
    \A v \in Ids : get_negate(encode(p, v)) = encode(p, -v)

(* The verifier evaluates the prover's clauses at pub_lits it encodes      *)
(* itself, and sync_key() is never called: the two parties must agree on   *)
(* every public literal whatever their keys are, and no secret literal of  *)
(* the prover may be mistaken for one, even when its hash collides.        *)
PublicLiteralsShared ==
  Ready(ALICE) =>
    \A v \in Public : \A s \in {v, -v} :
      /\ encode(ALICE, s) = encode(BOB, s)
      /\ \A x \in Secret : \A t \in {x, -x} : encode(ALICE, t) # encode(BOB, s)

(* decode() gives a secret literal back from its word, unless the hash     *)
(* collides (then a later iteration of init() overwrites reverse_map_).    *)
DecodeInvertsSecret ==
  \A p \in Party : Ready(p) /\ NoCollision(p) =>
    \A x \in Secret : \A t \in {x, -x} : decode(p, encode(p, t)) = t

(* decode() gives a public literal back from its word (encoder.hpp labels  *)
(* the branch taken when bit 62 is set "positive").                        *)
DecodeInvertsPublic ==
  \A p \in Party : Ready(p) =>
    \A v \in Public : \A s \in {v, -v} : decode(p, encode(p, s)) = s
=============================================================================
